------------------------ MODULE TransactionalTable ------------------------
(***************************************************************************)
(* What the storage of a state adapter promises, whatever it is made of:   *)
(* the methods act on the two tables as the operators of StateAdapter do,  *)
(* and a transaction or a savepoint that fails puts both tables back to    *)
(* what they were when it was opened.                                      *)
(***************************************************************************)
EXTENDS StateAdapter, Sequences

VARIABLES
  js, bl,  \* the job table and the blocker table
  opened   \* the tables as they were when each open scope was opened

tvars == <<js, bl, opened>>

(* The attempt counter and the mark of a deleted id are of no interest     *)
(* here; a caller may use the id of a deleted job again.                   *)
Plain(table) ==
  [j \in JobIds |-> IF table[j].status = "deleted" THEN NoJob
                    ELSE [table[j] EXCEPT !.attempt = 0]]

TInit == js = [j \in JobIds |-> NoJob] /\ bl = {} /\ opened = <<>>

Jobs(table) == js' = Plain(table) /\ bl' = bl

TCreate(j) ==
  \E due \in BOOLEAN :
    /\ ~Exists(js, j)
    /\ \/ \E key \in Keys \cup {NULL}, scope \in {"incomplete", "any"} :
            ~Deduplicated(js, key, scope) /\ Jobs(CreateJob(js, j, j, 0, due, key))
       \/ \E p \in JobIds :
            /\ IsLastInChain(js, p)
            /\ Jobs(CreateJob(js, j, js[p].chain, js[p].index + 1, due, NULL))

TAcquire(j) == js[j].status = "pending" /\ js[j].due /\ Jobs(AcquireJob(js, j))

TRenew(j) == \E w \in Workers : Exists(js, j) /\ Jobs(RenewJobLease(js, j, w))

TReschedule(j) == \E due \in BOOLEAN : Exists(js, j) /\ Jobs(RescheduleJob(js, j, due))

TComplete(j) == Exists(js, j) /\ Jobs(CompleteJob(js, j))

TReap(j) == js[j].lease = "expired" /\ Jobs(ReapJobLease(js, j))

TBlock ==
  \E q \in JobIds, B \in SUBSET Roots(js) :
    /\ js' = AddJobBlockers(js, q, B)
    /\ bl' = AddBlockerRows(bl, q, B)

TUnblock == \E c \in JobIds : Jobs(UnblockJobs(js, bl, c))

TTrigger == \E J \in SUBSET JobIds : Triggerable(js, J) /\ Jobs(TriggerJobs(js, J))

(* Without cascade C itself is deleted, with it what C needs.              *)
TDelete ==
  \E C \in SUBSET Roots(js) : \E E \in {C, ExpandChainIds(bl, C)} :
    /\ ExternalBlockerRefs(js, bl, E) = {}
    /\ js' = Plain(DeleteJobs(js, E))
    /\ bl' = DeleteBlockers(js, bl, E)

TOpen == opened' = Append(opened, <<js, bl>>) /\ UNCHANGED <<js, bl>>

TResolve == opened' = SubSeq(opened, 1, Len(opened) - 1) /\ UNCHANGED <<js, bl>>

TReject ==
  /\ <<js', bl'>> = opened[Len(opened)]
  /\ opened' = SubSeq(opened, 1, Len(opened) - 1)

(* Time passes: schedules come due and leases expire, also in what a       *)
(* rollback would put back.                                                *)
Older(old, new) ==
  \A j \in JobIds :
    /\ new[j] = [old[j] EXCEPT !.due = new[j].due, !.lease = new[j].lease]
    /\ old[j].due => new[j].due
    /\ new[j].lease # old[j].lease => old[j].lease = "live" /\ new[j].lease = "expired"

TTick ==
  /\ Older(js, js') /\ bl' = bl
  /\ Len(opened') = Len(opened)
  /\ \A i \in 1 .. Len(opened) :
       Older(opened[i][1], opened'[i][1]) /\ opened'[i][2] = opened[i][2]

TMethod ==
  \/ \E j \in JobIds : js'[j] # js[j] /\
       \/ TCreate(j) \/ TAcquire(j) \/ TRenew(j)
       \/ TReschedule(j) \/ TComplete(j) \/ TReap(j)
  \/ TBlock \/ TUnblock \/ TTrigger
  \/ (\E j \in JobIds : Exists(js, j) /\ ~Exists(js', j)) /\ TDelete

TNext ==
  \/ opened' = opened /\ TMethod
  \/ Len(opened') > Len(opened) /\ TOpen
  \/ Len(opened') < Len(opened) /\ (TResolve \/ TReject)
  \/ TTick

TSpec == TInit /\ [][TNext]_tvars
=============================================================================
