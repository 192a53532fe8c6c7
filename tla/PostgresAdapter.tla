-------------------------- MODULE PostgresAdapter --------------------------
(***************************************************************************)
(* The PostgreSQL state adapter (postgres/src/state-adapter/sql.ts) under  *)
(* READ COMMITTED, the isolation of the plain BEGIN its providers issue:   *)
(* a statement sees what was committed when it started, waits for the row  *)
(* locks it needs and then goes on with the latest version of the rows it  *)
(* locked, while everything else it reads stays as it was at its start.    *)
(*                                                                         *)
(* Sessions (the Workers of StateAdapter) run the transactions of clients  *)
(* and workers.  A statement that reads rows it does not lock takes two    *)
(* steps: one computes from the snapshot the rows it will lock (target),   *)
(* the other runs when their locks are free.  Statements whose effects     *)
(* nobody else can see before the commit are joined with their neighbours. *)
(* PostgreSQL ends a deadlock by failing a transaction: see Rollback.      *)
(*                                                                         *)
(* Left out: schedules, triggerJobs, deduplication, savepoints, and the    *)
(* order in which one statement takes its locks (it takes them together).  *)
(***************************************************************************)
EXTENDS StateAdapter

CONSTANTS
  Operations,   \* what sessions do: "continue", "delete", "complete", "work"
  MaxAttempts,  \* bound: acquisitions of a job
  MaxBlockers   \* bound: blockers given to one job

ASSUME OperationsType == Operations \subseteq {"continue", "delete", "complete", "work"}
ASSUME BoundsType == MaxAttempts \in Nat /\ MaxBlockers \in Nat
ASSUME NullIsNoRow == NULL \notin Job

VARIABLES
  job,      \* the committed job table
  blocker,  \* the committed blocker table
  tx,       \* per session, its open transaction
  attempt   \* per session, the staged attempt its worker runs

vars == <<job, blocker, tx, attempt>>

LockMode == {"none", "share", "noKey", "update"}

Transaction ==
  [pc : {"idle", "addBlockers", "lockChain", "handler", "unblock", "delete", "commit"},
   own : [JobIds -> Job \cup {NULL}],      \* the versions it wrote
   refs : SUBSET (JobIds \X JobIds),       \* the blocker rows it inserted
   lock : [JobIds -> LockMode],            \* its row locks
   target : SUBSET JobIds,                 \* the rows its statement will lock
   subject : JobIds \cup {NULL},           \* the job its attempt or callback is about
   created : JobIds \cup {NULL},           \* the job it creates
   waits : SUBSET JobIds,                  \* the chains that block created
   keep : JobIds \cup {NULL}]              \* the staged attempt after its commit

NoTransaction ==
  [pc |-> "idle", own |-> [j \in JobIds |-> NULL], refs |-> {},
   lock |-> [j \in JobIds |-> "none"], target |-> {}, subject |-> NULL,
   created |-> NULL, waits |-> {}, keep |-> NULL]

Init ==
  /\ job = [j \in JobIds |-> NoJob]
  /\ blocker = {}
  /\ tx = [s \in Workers |-> NoTransaction]
  /\ attempt = [s \in Workers |-> NULL]

-----------------------------------------------------------------------------
(* What a statement of session s reads when it starts.                     *)
Tables(s) == [j \in JobIds |-> IF tx[s].own[j] # NULL THEN tx[s].own[j] ELSE job[j]]

Refs(s) == blocker \cup tx[s].refs

At(s, pc) == tx[s].pc = pc

(* Ids are generated: no two transactions create the same.                 *)
Fresh(j) == job[j].status = "absent" /\ \A s \in Workers : tx[s].own[j] = NULL

LastJobs(js, C) == {j \in JobIds : IsLastInChain(js, j) /\ js[j].chain \in C}

-----------------------------------------------------------------------------
(* Row locks.  Foreign keys take "share" (FOR KEY SHARE), an UPDATE takes  *)
(* "noKey", SELECT ... FOR UPDATE and DELETE take "update".                *)

Compatible(m, n) == "none" \in {m, n} \/ {m, n} \in {{"share"}, {"share", "noKey"}}

CanLock(s, J, mode) ==
  \A u \in Workers \ {s}, j \in J : Compatible(tx[u].lock[j], mode)

Strongest(m, n) ==
  CHOOSE k \in {m, n} : \A l \in {m, n} \ {k} :
    k = "update" \/ l = "none" \/ (k = "noKey" /\ l = "share")

WithLocks(lock, J, mode) ==
  [j \in JobIds |-> IF j \in J THEN Strongest(lock[j], mode) ELSE lock[j]]

-----------------------------------------------------------------------------
(* createJobs, and the start of addJobsBlockers when there are blockers.   *)

(* The chains a caller has seen.                                           *)
BlockerSets == {B \in SUBSET Roots(job) : Cardinality(B) <= MaxBlockers}

Create(t, js, q, B) ==
  [t EXCEPT !.pc = IF B = {} THEN "commit" ELSE "addBlockers",
            !.own[q] = js[q], !.created = q, !.waits = B, !.target = LastJobs(js, B)]

StartChain(s, q, B) ==
  /\ At(s, "idle") /\ attempt[s] = NULL /\ Fresh(q)
  /\ tx' = [tx EXCEPT ![s] = Create(@, CreateJob(Tables(s), q, q, 0, TRUE, NULL), q, B)]
  /\ UNCHANGED <<job, blocker, attempt>>

CanAddBlockersUnlocked(s) ==            \* mutation: no FOR UPDATE
  CanLock(s, tx[s].waits, "share")

(* The last job of each blocking chain is locked; the foreign key locks    *)
(* its root.                                                               *)
CanAddBlockers(s) ==
  /\ CanLock(s, tx[s].target, "update")
  /\ CanLock(s, tx[s].waits, "share")

(* The rest of addJobsBlockers.  The jobs that were the last of their      *)
(* chains in the snapshot are read again, and no others; one that is gone  *)
(* has no status and counts as complete.  The foreign key fails when the   *)
(* chain is gone.                                                          *)
AddJobsBlockers(s) ==
  /\ At(s, "addBlockers") /\ CanAddBlockers(s)
  /\ LET js == Tables(s)
         t == tx[s]
         incomplete == {j \in t.target : Exists(js, j) /\ js[j].status # "completed"}
     IN  /\ \A c \in t.waits : Exists(js, c)
         /\ tx' = [tx EXCEPT ![s] =
              [t EXCEPT !.pc = "commit",
                        !.own[t.created].status = IF incomplete = {} THEN @ ELSE "blocked",
                        !.refs = {<<t.created, c>> : c \in t.waits},
                        !.lock = WithLocks(WithLocks(@, t.target, "update"), t.waits, "share"),
                        !.target = {}, !.waits = {}]]
  /\ UNCHANGED <<job, blocker, attempt>>

-----------------------------------------------------------------------------
(* How a transaction comes to hold the job it goes on to finish.           *)

Handle(t, j) == [t EXCEPT !.pc = "handler", !.subject = j, !.target = {},
                          !.lock = WithLocks(@, {j}, "update")]

(* getChain with lock "exclusive", for completeChain: the last job of the  *)
(* chain as of the snapshot, which is then locked and read again.          *)
LockChain(s, c) ==
  /\ "complete" \in Operations
  /\ At(s, "idle") /\ attempt[s] = NULL /\ c \in Roots(job)
  /\ tx' = [tx EXCEPT ![s].pc = "lockChain", ![s].target = LastJobs(job, {c})]
  /\ UNCHANGED <<job, blocker, attempt>>

ChainLockedStale(s) ==                  \* mutation: does not look at the locked version
  /\ At(s, "lockChain") /\ CanLock(s, tx[s].target, "update")
  /\ \E j \in tx[s].target : Exists(job, j) /\ tx' = [tx EXCEPT ![s] = Handle(@, j)]
  /\ UNCHANGED <<job, blocker, attempt>>

(* A job that was completed meanwhile ends the call with an error, even    *)
(* when the chain goes on.                                                 *)
ChainLocked(s) ==
  /\ At(s, "lockChain") /\ CanLock(s, tx[s].target, "update")
  /\ \E j \in tx[s].target :
       /\ Exists(job, j) /\ job[j].status # "completed"
       /\ tx' = [tx EXCEPT ![s] = Handle(@, j)]
  /\ UNCHANGED <<job, blocker, attempt>>

(* acquireJob: FOR UPDATE SKIP LOCKED, whose condition is checked again on *)
(* the version it locks.                                                   *)
Acquire(s, j) ==
  /\ "work" \in Operations
  /\ At(s, "idle") /\ attempt[s] = NULL
  /\ job[j].status = "pending" /\ job[j].attempt < MaxAttempts
  /\ CanLock(s, {j}, "update")
  /\ tx' = [tx EXCEPT ![s] = [Handle(@, j) EXCEPT !.own[j] = AcquireJob(job, j)[j]]]
  /\ UNCHANGED <<job, blocker, attempt>>

RefetchJobUnchecked(s) ==               \* mutation: fetches the job, checks nothing
  /\ At(s, "idle") /\ attempt[s] # NULL
  /\ CanLock(s, {attempt[s]}, "update") /\ Exists(job, attempt[s])
  /\ tx' = [tx EXCEPT ![s] = Handle(@, attempt[s])]
  /\ UNCHANGED <<job, blocker, attempt>>

(* The guarded transactions of a staged attempt: getJob with FOR UPDATE    *)
(* and the checks of refetchJobLocked.                                     *)
RefetchJobLocked(s) ==
  /\ At(s, "idle") /\ attempt[s] # NULL
  /\ CanLock(s, {attempt[s]}, "update")
  /\ Exists(job, attempt[s]) /\ job[attempt[s]].status # "completed"
  /\ job[attempt[s]].leasedBy = s
  /\ tx' = [tx EXCEPT ![s] = Handle(@, attempt[s])]
  /\ UNCHANGED <<job, blocker, attempt>>

(* The attempt ends without another transaction: its job was lost, or its  *)
(* process crashed.                                                        *)
EndAttempt(s) ==
  /\ At(s, "idle") /\ attempt[s] # NULL
  /\ attempt' = [attempt EXCEPT ![s] = NULL]
  /\ UNCHANGED <<job, blocker, tx>>

-----------------------------------------------------------------------------
(* What a transaction that holds a job does with it.                       *)

Worker(s) == attempt[s] # NULL \/ (tx[s].subject # NULL /\ tx[s].own[tx[s].subject] # NULL)

(* renewJobLease: in the prepare transaction of a staged attempt and when  *)
(* its lease is renewed.                                                   *)
RenewLease(s) ==
  /\ At(s, "handler") /\ Worker(s)
  /\ LET j == tx[s].subject IN
       tx' = [tx EXCEPT ![s].pc = "commit", ![s].keep = j,
                        ![s].own[j] = RenewJobLease(Tables(s), j, s)[j]]
  /\ UNCHANGED <<job, blocker, attempt>>

Reschedule(s) ==
  /\ At(s, "handler") /\ Worker(s)
  /\ LET j == tx[s].subject IN
       tx' = [tx EXCEPT ![s].pc = "commit",
                        ![s].own[j] = RescheduleJob(Tables(s), j, TRUE)[j]]
  /\ UNCHANGED <<job, blocker, attempt>>

(* continueWith and finishJob with the continuation q.  completeJob, which *)
(* follows addJobsBlockers, writes a row the transaction has locked and is *)
(* joined with createJobs.  The foreign key of the new row locks the root. *)
ContinueWith(s, q, B) ==
  /\ "continue" \in Operations
  /\ At(s, "handler") /\ Fresh(q)
  /\ LET j == tx[s].subject
         completed == CompleteJob(Tables(s), j)
         c == completed[j].chain
         js == CreateJob(completed, q, c, completed[j].index + 1, TRUE, NULL)
         t == [tx[s] EXCEPT !.own[j] = js[j], !.lock = WithLocks(@, {c}, "share")]
     IN  /\ Exists(completed, c) /\ CanLock(s, {c}, "share")
         /\ tx' = [tx EXCEPT ![s] = Create(t, js, q, B)]
  /\ UNCHANGED <<job, blocker, attempt>>

(* finishJob without one: completeJob, then getJob of the root, which must *)
(* be there, and the start of unblockJobs.  The jobs it will update: those *)
(* blocked in the snapshot whose blockers are all complete in it.          *)
FinishChain(s) ==
  /\ At(s, "handler")
  /\ LET j == tx[s].subject
         js == CompleteJob(Tables(s), j)
         c == js[j].chain
     IN  /\ Exists(js, c)
         /\ tx' = [tx EXCEPT ![s].pc = "unblock", ![s].own[j] = js[j],
                     ![s].target = {q \in JobIds :
                        UnblockJobs(js, Refs(s), c)[q].status # js[q].status}]
  /\ UNCHANGED <<job, blocker, attempt>>

(* The rest of unblockJobs: a row that is no longer blocked is left alone. *)
Unblock(s) ==
  /\ At(s, "unblock") /\ CanLock(s, tx[s].target, "noKey")
  /\ LET js == Tables(s)
         ready == {q \in tx[s].target : js[q].status = "blocked"}
     IN  tx' = [tx EXCEPT ![s].pc = "commit", ![s].target = {},
                  ![s].own = [q \in JobIds |->
                     IF q \in ready THEN [js[q] EXCEPT !.status = "pending"] ELSE @[q]],
                  ![s].lock = WithLocks(@, ready, "noKey")]
  /\ UNCHANGED <<job, blocker, attempt>>

-----------------------------------------------------------------------------
(* reapExpiredJobLease, a transaction of one statement with SKIP LOCKED.   *)
(* Any lease may have expired by then: there is no clock here.             *)
Reap(s, j) ==
  /\ At(s, "idle") /\ attempt[s] # j
  /\ job[j].status = "running" /\ job[j].lease # "none"
  /\ CanLock(s, {j}, "update")
  /\ job' = ReapJobLease(job, j)
  /\ UNCHANGED <<blocker, tx, attempt>>

(* deleteChains: the jobs to lock and the references from outside, both as *)
(* of the snapshot.  With references the call fails.                       *)
DeleteChains(s, C, cascade) ==
  LET E == IF cascade THEN ExpandChainIds(blocker, C) ELSE C IN
    /\ "delete" \in Operations
    /\ At(s, "idle") /\ attempt[s] = NULL
    /\ InChains(job, E) # {} /\ ExternalBlockerRefs(job, blocker, E) = {}
    /\ tx' = [tx EXCEPT ![s].pc = "delete", ![s].target = InChains(job, E)]
    /\ UNCHANGED <<job, blocker, attempt>>

NoForeignKey(D) == TRUE                 \* mutation: no REFERENCES

BlockersReferToJobs(D) ==               \* mutation: chain_id has no REFERENCES
  \A ref \in blocker : ref[2] \in D => ref[1] \in D

(* Rows that reference a deleted job from a row that stays fail the        *)
(* statement, whenever they were committed: those of job_blocker, and jobs *)
(* whose chain_id is a deleted root.                                       *)
ForeignKeyHolds(D) ==
  /\ \A ref \in blocker : ref[2] \in D => ref[1] \in D
  /\ \A j \in JobIds : Exists(job, j) /\ job[j].chain \in D => j \in D

DeleteLocked(s) ==
  /\ At(s, "delete") /\ CanLock(s, tx[s].target, "update")
  /\ LET D == {j \in tx[s].target : Exists(job, j)} IN
       /\ ForeignKeyHolds(D)
       /\ tx' = [tx EXCEPT ![s].pc = "commit", ![s].target = {},
                   ![s].own = [j \in JobIds |->
                      IF j \in D THEN [NoJob EXCEPT !.status = "deleted"] ELSE @[j]],
                   ![s].lock = WithLocks(@, D, "update")]
  /\ UNCHANGED <<job, blocker, attempt>>

-----------------------------------------------------------------------------
Commit(s) ==
  /\ At(s, "commit")
  /\ job' = Tables(s)
  /\ blocker' = {ref \in Refs(s) : Exists(Tables(s), ref[1])}
  /\ tx' = [tx EXCEPT ![s] = NoTransaction]
  /\ attempt' = [attempt EXCEPT ![s] = tx[s].keep]

(* An error of the code or of a statement, a deadlock, a lost connection.  *)
Rollback(s) ==
  /\ ~At(s, "idle")
  /\ tx' = [tx EXCEPT ![s] = NoTransaction]
  /\ UNCHANGED <<job, blocker, attempt>>

Next ==
  \/ \E s \in Workers :
       \/ \E q \in JobIds, B \in BlockerSets : StartChain(s, q, B) \/ ContinueWith(s, q, B)
       \/ \E j \in JobIds : LockChain(s, j) \/ Acquire(s, j) \/ Reap(s, j)
       \/ \E C \in SUBSET Roots(job), cascade \in BOOLEAN : DeleteChains(s, C, cascade)
       \/ AddJobsBlockers(s) \/ ChainLocked(s) \/ RefetchJobLocked(s) \/ EndAttempt(s)
       \/ RenewLease(s) \/ Reschedule(s) \/ FinishChain(s) \/ Unblock(s)
       \/ DeleteLocked(s) \/ Commit(s) \/ Rollback(s)

Spec == Init /\ [][Next]_vars

-----------------------------------------------------------------------------
(* Properties.                                                             *)

(* No chain has two jobs at one index, and only its last job may be        *)
(* incomplete, although workers and clients finish jobs concurrently.  The *)
(* ON CONFLICT branch of createJobs is therefore never taken.              *)
ChainsInOrder ==
  \A j, k \in JobIds :
    /\ j # k /\ Exists(job, j) /\ Exists(job, k) /\ job[j].chain = job[k].chain
    /\ job[j].index <= job[k].index
    => job[j].index < job[k].index /\ job[j].status = "completed"

(* Every blocker row joins two existing rows, although deleteChains looks  *)
(* for references in a snapshot: the foreign keys catch the late ones.     *)
ReferencesExist ==
  \A ref \in blocker : Exists(job, ref[1]) /\ Exists(job, ref[2])

(* A job with a single blocker does not stay blocked when it completes:    *)
(* addJobsBlockers locks the blocker before it decides, so the completion  *)
(* comes before the decision or sees the new row.                          *)
SingleBlockerUnblocks ==
  \A q \in JobIds, c \in JobIds :
    job[q].status = "blocked" /\ BlockersOf(blocker, q) = {c} => ~ChainComplete(job, c)

(* A completed chain stays complete until it is deleted: no attempt and no *)
(* completeChain goes on with a job another transaction finished.          *)
CompletedChainsStay ==
  [][\A c \in Roots(job) : ChainComplete(job, c) =>
       c \notin Roots(job)' \/ ChainComplete(job, c)']_vars

(* "A job with incomplete blockers starts as `blocked` and transitions to  *)
(* `pending` when all blockers complete" (docs guides/job-blockers.md): no *)
(* job is blocked once all its blockers are complete.                      *)
BlockedJobsWait ==
  \A q \in JobIds :
    job[q].status = "blocked" => Incomplete(job, BlockersOf(blocker, q)) # {}

(* "Lock all jobs in chains being deleted before checking external refs,   *)
(* so the check and DELETE see the same state even under concurrency" (the *)
(* comment of deleteChainsSql): a chain is deleted as a whole.  The locked *)
(* rows are those of a snapshot; a continuation committed after it is kept *)
(* from losing its root by the foreign key of chain_id.                    *)
ChainsDeletedWhole ==
  \A j \in JobIds : Exists(job, j) => job[j].chain \in Roots(job)
=============================================================================
