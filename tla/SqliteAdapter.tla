--------------------------- MODULE SqliteAdapter ---------------------------
(***************************************************************************)
(* The SQLite state adapter (packages/sqlite/src/state-adapter/sql.ts and  *)
(* state-adapter.sqlite.ts): what its statements do to the tables of       *)
(* StateAdapter, and that its methods do what the in-process adapter's do. *)
(*                                                                         *)
(* The SQLite state providers run a transaction under the write handle of  *)
(* an AsyncRwLock, and a statement outside one under a handle of its own,  *)
(* so a method's statements see each other's effects and nothing else.     *)
(*                                                                         *)
(* A row of the job table is an id that Exists.  bl stands for the table   *)
(* job_blocker; its "index" column only orders listings.                   *)
(***************************************************************************)
EXTENDS StateAdapter

TableRows(js) == {j \in JobIds : Exists(js, j)}

(* SELECT status ... WHERE chain_id = c ORDER BY chain_index DESC LIMIT 1: *)
(* one status, or none when the chain has no row.                          *)
LatestStatus(js, c) ==
  {js[j].status : j \in {k \in TableRows(js) : js[k].chain = c /\ IsLastInChain(js, k)}}

-----------------------------------------------------------------------------
(* createJobs.                                                             *)

(* findDeduplicatedJobSql; the columns of type and window are left out.    *)
FindDeduplicatedJob(js, key, scope) ==
  {j \in TableRows(js) : /\ key # NULL /\ js[j].key = key /\ js[j].index = 0
                         /\ scope = "incomplete" => js[j].status # "completed"}

(* insertJobsSql: the unique index on (chain_id, chain_index) makes the    *)
(* insert of a continuation that exists a no-op.                           *)
InsertJob(js, j, c, i, due, key) ==
  IF \E k \in TableRows(js) : js[k].chain = c /\ js[k].index = i
  THEN js
  ELSE [js EXCEPT ![j] =
          [status |-> "pending", chain |-> c, index |-> i, due |-> due, attempt |-> 0,
           leasedBy |-> NULL, lease |-> "none", key |-> key]]

-----------------------------------------------------------------------------
(* addJobsBlockers and unblockJobs.                                        *)

(* insertJobBlockersSql.                                                   *)
InsertJobBlockers(bl, q, B) == bl \cup ({q} \X B)

(* checkBlockersStatusSql, and the filter on its result.                   *)
IncompleteBlockers(js, bl, q) ==
  {c \in JobIds : <<q, c>> \in bl /\ LatestStatus(js, c) # {"completed"}}

(* updateJobToBlockedSql.                                                  *)
UpdateJobToBlocked(js, q) ==
  [j \in JobIds |-> IF j = q /\ js[j].status = "pending"
                    THEN [js[j] EXCEPT !.status = "blocked"] ELSE js[j]]

SqliteAddJobBlockers(js, bl, q, B) ==
  IF IncompleteBlockers(js, InsertJobBlockers(bl, q, B), q) # {}
  THEN UpdateJobToBlocked(js, q) ELSE js

FindReadyJobsOfAny(js, bl, c) ==        \* mutation: MAX instead of MIN
  {q \in JobIds : /\ <<q, c>> \in bl
                  /\ \E b \in JobIds : <<q, b>> \in bl /\ LatestStatus(js, b) = {"completed"}}

(* findReadyJobsSql: the jobs c blocks, grouped, whose every blocker is    *)
(* complete (HAVING MIN(...) = 1).                                         *)
FindReadyJobs(js, bl, c) ==
  {q \in JobIds : /\ <<q, c>> \in bl
                  /\ \A b \in JobIds : <<q, b>> \in bl => LatestStatus(js, b) = {"completed"}}

(* scheduleBlockedJobsSql.                                                 *)
ScheduleBlockedJobs(js, J) ==
  [j \in JobIds |-> IF j \in J /\ js[j].status = "blocked"
                    THEN [js[j] EXCEPT !.status = "pending"] ELSE js[j]]

SqliteUnblockJobs(js, bl, c) ==
  LET ready == FindReadyJobs(js, bl, c) IN
  IF ready # {} THEN ScheduleBlockedJobs(js, ready) ELSE js

-----------------------------------------------------------------------------
(* The statements of an attempt: each updates the row j, if it qualifies.  *)

(* acquireJobSql, when it chooses j.                                       *)
SqliteAcquireJob(js, j) ==
  [r \in JobIds |-> IF r = j /\ js[r].status = "pending" /\ js[r].due
                    THEN [js[r] EXCEPT !.status = "running", !.attempt = @ + 1] ELSE js[r]]

(* renewJobLeaseSql.                                                       *)
SqliteRenewJobLease(js, j, w) ==
  [r \in JobIds |-> IF r = j /\ r \in TableRows(js)
                    THEN [js[r] EXCEPT !.leasedBy = w, !.lease = "live", !.status = "running"]
                    ELSE js[r]]

(* rescheduleJobSql: MAX(scheduled_at, now) is due when the schedule is.   *)
SqliteRescheduleJob(js, j, due) ==
  [r \in JobIds |-> IF r = j /\ r \in TableRows(js)
                    THEN [js[r] EXCEPT !.due = due, !.leasedBy = NULL, !.lease = "none",
                                       !.status = "pending"]
                    ELSE js[r]]

(* completeJobSql.                                                         *)
SqliteCompleteJob(js, j) ==
  [r \in JobIds |-> IF r = j /\ r \in TableRows(js)
                    THEN [js[r] EXCEPT !.status = "completed", !.leasedBy = NULL, !.lease = "none"]
                    ELSE js[r]]

(* reapExpiredJobLeaseSql, when it chooses j.                              *)
SqliteReapJobLease(js, j, ignored) ==
  [r \in JobIds |-> IF r = j /\ js[r].status = "running" /\ js[r].lease = "expired"
                       /\ r \notin ignored
                    THEN [js[r] EXCEPT !.leasedBy = NULL, !.lease = "none", !.status = "pending"]
                    ELSE js[r]]

-----------------------------------------------------------------------------
(* triggerJobsSql: all of them or none.                                    *)
SqliteTriggerJobs(js, J) ==
  [j \in JobIds |-> IF j \in J /\ \A k \in J : k \in TableRows(js) /\ js[k].status = "pending"
                    THEN [js[j] EXCEPT !.due = TRUE] ELSE js[j]]

-----------------------------------------------------------------------------
(* deleteChains.                                                           *)

ConnectedOnce(bl, C) ==                 \* mutation: not recursive
  C \cup {c \in JobIds : \E q \in C : <<q, c>> \in bl}

(* getConnectedChainIdsSql: WITH RECURSIVE ... UNION, to its fixed point.  *)
ConnectedChainIds(bl, C) ==
  LET connected[n \in 0 .. Cardinality(JobIds)] ==
        IF n = 0 THEN C
        ELSE LET S == connected[n - 1]
             IN  S \cup {c \in JobIds : \E q \in S : <<q, c>> \in bl}
  IN  connected[Cardinality(JobIds)]

(* checkExternalBlockerRefsSql.                                            *)
CheckExternalBlockerRefs(js, bl, E) ==
  LET outside == {j \in TableRows(js) : js[j].chain \notin E}
  IN  {ref \in bl : ref[2] \in E /\ ref[1] \in outside}

(* deleteBlockersByChainIdsSql.                                            *)
DeleteBlockersByChainIds(js, bl, E) ==
  bl \ ({j \in TableRows(js) : js[j].chain \in E} \X JobIds)

(* deleteChainsSql.                                                        *)
SqliteDeleteJobs(js, E) ==
  [j \in JobIds |-> IF j \in TableRows(js) /\ js[j].chain \in E
                    THEN [NoJob EXCEPT !.status = "deleted"] ELSE js[j]]

(* REFERENCES, checked at the end of each statement.                       *)
ForeignKeysHold(js, bl) ==
  /\ \A j \in TableRows(js) : js[j].chain \in TableRows(js)
  /\ \A ref \in bl : ref[1] \in TableRows(js) /\ ref[2] \in TableRows(js)

-----------------------------------------------------------------------------
(* The agreement of the two adapters on tables js and bl, for the calls    *)
(* the library makes.                                                      *)

(* A continuation or root is inserted where none is.                       *)
AgreesOnCreation(js) ==
  \A j \in JobIds, c \in JobIds, i \in {0} \cup {js[k].index + 1 : k \in TableRows(js)},
     due \in BOOLEAN, key \in Keys \cup {NULL} :
    /\ js[j].status = "absent"
    /\ IF i = 0 THEN c = j
       ELSE \E k \in TableRows(js) : js[k].chain = c /\ js[k].index + 1 = i /\ IsLastInChain(js, k)
    => InsertJob(js, j, c, i, due, key) = CreateJob(js, j, c, i, due, key)

AgreesOnDeduplication(js) ==
  \A key \in Keys, scope \in {"incomplete", "any"} :
    FindDeduplicatedJob(js, key, scope) # {} <=> Deduplicated(js, key, scope)

(* Blockers are added to a job that was just created.                      *)
AgreesOnBlockers(js, bl) ==
  \A q \in JobIds, B \in SUBSET Roots(js) :
    js[q].status = "pending" /\ BlockersOf(bl, q) = {} =>
      /\ SqliteAddJobBlockers(js, bl, q, B) = AddJobBlockers(js, q, B)
      /\ InsertJobBlockers(bl, q, B) = AddBlockerRows(bl, q, B)

(* A chain's last job is completed before the jobs it blocks are unblocked.*)
AgreesOnUnblocking(js, bl) ==
  \A j \in JobIds : IsLastInChain(js, j) =>
    LET done == CompleteJob(js, j) IN
      SqliteUnblockJobs(done, bl, js[j].chain) = UnblockJobs(done, bl, js[j].chain)

(* Attempts write the rows the library's guards let them choose.           *)
AgreesOnAttempts(js) ==
  \A j \in TableRows(js) :
    /\ js[j].status = "pending" /\ js[j].due => SqliteAcquireJob(js, j) = AcquireJob(js, j)
    /\ \A w \in Workers : SqliteRenewJobLease(js, j, w) = RenewJobLease(js, j, w)
    /\ \A due \in BOOLEAN : SqliteRescheduleJob(js, j, due) = RescheduleJob(js, j, due)
    /\ SqliteCompleteJob(js, j) = CompleteJob(js, j)
    /\ js[j].status = "running" /\ js[j].lease = "expired" =>
         /\ SqliteReapJobLease(js, j, {}) = ReapJobLease(js, j)
         /\ SqliteReapJobLease(js, j, {j}) = js

AgreesOnTriggering(js) ==
  \A J \in SUBSET JobIds :
    SqliteTriggerJobs(js, J) = IF Triggerable(js, J) THEN TriggerJobs(js, J) ELSE js

(* Chains without external references are deleted, blockers first, and no  *)
(* statement of the two leaves a reference without its row.                *)
AgreesOnDeletion(js, bl) ==
  \A E \in SUBSET Roots(js) :
    /\ CheckExternalBlockerRefs(js, bl, E) = ExternalBlockerRefs(js, bl, E)
    /\ ExternalBlockerRefs(js, bl, E) = {} =>
         LET left == DeleteBlockersByChainIds(js, bl, E) IN
           /\ left = DeleteBlockers(js, bl, E)
           /\ SqliteDeleteJobs(js, E) = DeleteJobs(js, E)
           /\ ForeignKeysHold(js, left) /\ ForeignKeysHold(SqliteDeleteJobs(js, E), left)

Agrees(js, bl) ==
  /\ AgreesOnCreation(js) /\ AgreesOnDeduplication(js)
  /\ AgreesOnBlockers(js, bl) /\ AgreesOnUnblocking(js, bl)
  /\ AgreesOnAttempts(js) /\ AgreesOnTriggering(js) /\ AgreesOnDeletion(js, bl)

AgreesOnCascade(js, bl) ==
  \A C \in SUBSET Roots(js) : ConnectedChainIds(bl, C) = ExpandChainIds(bl, C)
=============================================================================
