------------------------------ MODULE Queuert ------------------------------
(***************************************************************************)
(* The core of queuert: clients that start, trigger, complete and delete   *)
(* chains (core/src/client.ts), workers that acquire jobs and run attempt  *)
(* handlers (core/src/in-process-worker.ts, core/src/worker/job-process.ts)*)
(* and the leases and the reaper that recover the jobs of lost workers.    *)
(*                                                                         *)
(* A step is a committed transaction, or a local step of a worker between  *)
(* two of them.  A transaction that rolls back changes nothing and is no   *)
(* step.  The clock is an environment action per deadline.                 *)
(***************************************************************************)
EXTENDS StateAdapter

CONSTANTS
  Slots,                \* the concurrent attempts the workers have room for
  Owner,                \* Owner[s]: the worker slot s belongs to
  MaxAttempts,          \* bound: attempt number from which attempts succeed
  MaxBlockers,          \* bound: blockers given to one job
  ContinuationBlockers, \* whether continueWith is ever given blockers
  StaleBlockers,        \* whether blockers may name chains deleted meanwhile
  EscapingErrors        \* whether handlers let the errors of other jobs escape

ASSUME OwnerType == Owner \in [Slots -> Workers]
ASSUME BoundsType == MaxAttempts \in Nat /\ MaxBlockers \in Nat
ASSUME FlagsType == {ContinuationBlockers, StaleBlockers, EscapingErrors} \subseteq BOOLEAN

VARIABLES
  jobs,        \* the job table
  blockers,    \* the blocker table
  slot,        \* per slot, the staged attempt it runs
  inProgress,  \* per worker, its jobIdsInProgress
  alive        \* workers whose process has not crashed

vars == <<jobs, blockers, slot, inProgress, alive>>

(* attempt is the number of the attempt, aborted its AbortSignal.          *)
Slot == [job : JobIds \cup {NULL}, attempt : Nat, aborted : BOOLEAN]

Idle == [job |-> NULL, attempt |-> 0, aborted |-> FALSE]

Busy(s) == slot[s].job # NULL

Init ==
  /\ jobs = [j \in JobIds |-> NoJob]
  /\ blockers = {}
  /\ slot = [s \in Slots |-> Idle]
  /\ inProgress = [w \in Workers |-> {}]
  /\ alive = Workers

-----------------------------------------------------------------------------
(* Client operations.                                                      *)

(* Chains a caller has a handle of: existing ones, or handles kept of      *)
(* deleted ones.                                                           *)
Handles ==
  Roots(jobs) \cup
  (IF StaleBlockers THEN {c \in JobIds : jobs[c].status = "deleted"} ELSE {})

BlockerSets == {B \in SUBSET Handles : Cardinality(B) <= MaxBlockers}

StartChain(c, B, due, key, scope) ==
  /\ jobs[c].status = "absent"
  /\ ~Deduplicated(jobs, key, scope)
  /\ jobs' = AddJobBlockers(CreateJob(jobs, c, c, 0, due, key), c, B)
  /\ blockers' = AddBlockerRows(blockers, c, B)
  /\ UNCHANGED <<slot, inProgress, alive>>

Trigger(J) ==
  /\ J # {} /\ Triggerable(jobs, J)
  /\ jobs' = TriggerJobs(jobs, J)
  /\ UNCHANGED <<blockers, slot, inProgress, alive>>

(* What deleteChains is to delete: some chains, with cascade also what     *)
(* they depend on.                                                         *)
Deletions == UNION {{C, ExpandChainIds(blockers, C)} : C \in SUBSET Roots(jobs)}

DeleteChains(E) ==
  /\ InChains(jobs, E) # {}
  /\ ExternalBlockerRefs(jobs, blockers, E) = {}
  /\ jobs' = DeleteJobs(jobs, E)
  /\ blockers' = DeleteBlockers(jobs, blockers, E)
  /\ UNCHANGED <<slot, inProgress, alive>>

FinishChainSilently(js, j) ==           \* mutation: unblocks nobody
  jobs' = CompleteJob(js, j) /\ UNCHANGED blockers

(* finishJob without a continuation, on the job table js.                  *)
FinishChain(js, j) ==
  /\ jobs' = UnblockJobs(CompleteJob(js, j), blockers, js[j].chain)
  /\ UNCHANGED blockers

ContinueAtSameIndex(js, j, k, B, due) == \* mutation: chainIndex not increased
  /\ js[k].status = "absent"
  /\ LET created == CreateJob(js, k, js[j].chain, js[j].index, due, NULL)
     IN  jobs' = CompleteJob(AddJobBlockers(created, k, B), j)
  /\ blockers' = AddBlockerRows(blockers, k, B)

ContinueBehind(js, j, k, B, due) ==     \* mutation: chainIndex decreased
  /\ js[k].status = "absent"
  /\ LET created == CreateJob(js, k, js[j].chain, js[j].index - 1, due, NULL)
     IN  jobs' = CompleteJob(AddJobBlockers(created, k, B), j)
  /\ blockers' = AddBlockerRows(blockers, k, B)

(* continueWith, then finishJob with the continuation: job k takes over.   *)
ContinueWith(js, j, k, B, due) ==
  /\ js[k].status = "absent"
  /\ LET created == CreateJob(js, k, js[j].chain, js[j].index + 1, due, NULL)
     IN  jobs' = CompleteJob(AddJobBlockers(created, k, B), j)
  /\ blockers' = AddBlockerRows(blockers, k, B)

FinishJob(js, j) ==
  \/ FinishChain(js, j)
  \/ \E k \in JobIds, due \in BOOLEAN,
        B \in (IF ContinuationBlockers THEN BlockerSets ELSE {{}}) :
       ContinueWith(js, j, k, B, due)

CompleteChainAgain(j) ==                \* mutation: no completed check
  /\ IsLastInChain(jobs, j)
  /\ FinishJob(jobs, j)
  /\ UNCHANGED <<slot, inProgress, alive>>

(* completeChain: the last job of the chain is completed without a worker, *)
(* whatever it is doing.                                                   *)
CompleteChain(j) ==
  /\ IsLastInChain(jobs, j) /\ jobs[j].status # "completed"
  /\ FinishJob(jobs, j)
  /\ UNCHANGED <<slot, inProgress, alive>>

-----------------------------------------------------------------------------
(* Workers.                                                                *)

MayFail(j) == jobs[j].attempt < MaxAttempts

Acquirable(s, j) ==
  /\ Owner[s] \in alive /\ ~Busy(s)
  /\ jobs[j].status = "pending" /\ jobs[j].due

(* performJob with an atomic attempt: acquisition, handler and completion  *)
(* share one transaction.  A handler that throws is rolled back to its     *)
(* savepoint and rescheduled; one that lets another job's JobNotFoundError *)
(* or JobAlreadyCompletedError through is taken for an attempt that lost   *)
(* its job, and the transaction commits with the acquisition alone.        *)
AtomicAttempt(s, j) ==
  /\ Acquirable(s, j)
  /\ \/ FinishJob(AcquireJob(jobs, j), j)
     \/ /\ MayFail(j)
        /\ \E due \in BOOLEAN : jobs' = RescheduleJob(AcquireJob(jobs, j), j, due)
        /\ UNCHANGED blockers
     \/ /\ EscapingErrors /\ MayFail(j)
        /\ jobs' = AcquireJob(jobs, j)
        /\ UNCHANGED blockers
  /\ UNCHANGED <<slot, inProgress, alive>>

StagedPrepareUnleased(s, j) ==          \* mutation: no lease committed
  /\ Acquirable(s, j)
  /\ jobs' = AcquireJob(jobs, j)
  /\ slot' = [slot EXCEPT ![s] = [job |-> j, attempt |-> jobs[j].attempt + 1,
                                  aborted |-> FALSE]]
  /\ inProgress' = [inProgress EXCEPT ![Owner[s]] = @ \cup {j}]
  /\ UNCHANGED <<blockers, alive>>

(* performJob with a staged attempt: the prepare transaction commits the   *)
(* acquisition and a lease, the handler goes on outside.                   *)
StagedPrepare(s, j) ==
  /\ Acquirable(s, j)
  /\ jobs' = RenewJobLease(AcquireJob(jobs, j), j, Owner[s])
  /\ slot' = [slot EXCEPT ![s] = [job |-> j, attempt |-> jobs[j].attempt + 1,
                                  aborted |-> FALSE]]
  /\ inProgress' = [inProgress EXCEPT ![Owner[s]] = @ \cup {j}]
  /\ UNCHANGED <<blockers, alive>>

OwnedByAnyone(s) ==                     \* mutation: leasedBy not compared
  /\ ~slot[s].aborted
  /\ Exists(jobs, slot[s].job)
  /\ jobs[slot[s].job].status # "completed"

(* refetchJobLocked: what every transaction of a staged attempt checks     *)
(* before it writes.  An expired lease does not fail it.                   *)
Owned(s) ==
  /\ ~slot[s].aborted
  /\ Exists(jobs, slot[s].job)
  /\ jobs[slot[s].job].status # "completed"
  /\ jobs[slot[s].job].leasedBy = Owner[s]

LeaveListed(s) ==                       \* mutation: stays in jobIdsInProgress
  slot' = [slot EXCEPT ![s] = Idle] /\ UNCHANGED <<inProgress, alive>>

(* The end of an attempt: the executor's slot is free again.               *)
Leave(s) ==
  /\ slot' = [slot EXCEPT ![s] = Idle]
  /\ inProgress' = [inProgress EXCEPT ![Owner[s]] = @ \ {slot[s].job}]
  /\ UNCHANGED alive

StagedComplete(s) ==
  /\ Busy(s) /\ Owned(s)
  /\ FinishJob(jobs, slot[s].job)
  /\ Leave(s)

StagedFail(s) ==
  /\ Busy(s) /\ Owned(s) /\ MayFail(slot[s].job)
  /\ \E due \in BOOLEAN : jobs' = RescheduleJob(jobs, slot[s].job, due)
  /\ UNCHANGED blockers
  /\ Leave(s)

(* The attempt ends without a write: its guard failed, the transaction was *)
(* rolled back, or another job's error escaped the handler.                *)
Abandon(s) ==
  /\ Busy(s)
  /\ ~Owned(s) \/ MayFail(slot[s].job)
  /\ UNCHANGED <<jobs, blockers>>
  /\ Leave(s)

(* commitLease of the lease manager, when the guard holds.                 *)
RenewLease(s) ==
  /\ Busy(s) /\ Owned(s)
  /\ jobs' = RenewJobLease(jobs, slot[s].job, Owner[s])
  /\ UNCHANGED <<blockers, slot, inProgress, alive>>

(* A renewal, or the guarded transaction an ownership-lost notification    *)
(* starts, finds the guard failed; or the renewal itself fails.            *)
LoseOwnership(s) ==
  /\ Busy(s) /\ ~slot[s].aborted
  /\ ~Owned(s) \/ MayFail(slot[s].job)
  /\ slot' = [slot EXCEPT ![s].aborted = TRUE]
  /\ UNCHANGED <<jobs, blockers, inProgress, alive>>

(* reapExpiredJobLease, called by a worker with an idle slot.              *)
Reap(w, j) ==
  /\ w \in alive /\ \E s \in Slots : Owner[s] = w /\ ~Busy(s)
  /\ jobs[j].status = "running" /\ jobs[j].lease = "expired"
  /\ j \notin inProgress[w]
  /\ jobs' = ReapJobLease(jobs, j)
  /\ UNCHANGED <<blockers, slot, inProgress, alive>>

-----------------------------------------------------------------------------
(* Environment: time passes, processes crash.                              *)

(* Nothing reads the scheduledAt of a running or completed job.            *)
BecomeDue(j) ==
  /\ jobs[j].status \in {"blocked", "pending"} /\ ~jobs[j].due
  /\ jobs' = [jobs EXCEPT ![j].due = TRUE]
  /\ UNCHANGED <<blockers, slot, inProgress, alive>>

HasAttempt(j) ==
  \E s \in Slots : /\ slot[s].job = j /\ ~slot[s].aborted
                   /\ Owner[s] = jobs[j].leasedBy

(* The lease of an attempt that still runs expires only below the bound.   *)
ExpireLease(j) ==
  /\ jobs[j].lease = "live"
  /\ HasAttempt(j) => MayFail(j)
  /\ jobs' = [jobs EXCEPT ![j].lease = "expired"]
  /\ UNCHANGED <<blockers, slot, inProgress, alive>>

(* A crash loses the worker's memory; a restarted process draws a new      *)
(* worker id.  One worker stays up.                                        *)
Crash(w) ==
  /\ w \in alive /\ alive # {w}
  /\ alive' = alive \ {w}
  /\ slot' = [s \in Slots |-> IF Owner[s] = w THEN Idle ELSE slot[s]]
  /\ inProgress' = [inProgress EXCEPT ![w] = {}]
  /\ UNCHANGED <<jobs, blockers>>

-----------------------------------------------------------------------------
ClientStep ==
  \/ \E c \in JobIds, B \in BlockerSets, due \in BOOLEAN,
        key \in Keys \cup {NULL}, scope \in {"incomplete", "any"} :
       StartChain(c, B, due, key, scope)
  \/ \E J \in SUBSET JobIds : Trigger(J)
  \/ \E E \in Deletions : DeleteChains(E)
  \/ \E j \in JobIds : CompleteChain(j)

WorkerStep ==
  \/ \E s \in Slots, j \in JobIds : AtomicAttempt(s, j) \/ StagedPrepare(s, j)
  \/ \E s \in Slots : \/ StagedComplete(s) \/ StagedFail(s) \/ Abandon(s)
                      \/ RenewLease(s) \/ LoseOwnership(s)
  \/ \E w \in Workers, j \in JobIds : Reap(w, j)

EnvironmentStep ==
  \/ \E j \in JobIds : BecomeDue(j) \/ ExpireLease(j)
  \/ \E w \in Workers : Crash(w)

Next == ClientStep \/ WorkerStep \/ EnvironmentStep

Spec == Init /\ [][Next]_vars

(* Worker loops keep turning, handlers return, deadlines pass.  Clients    *)
(* owe nothing, and neither do renewals or crashes.                        *)
Fairness ==
  /\ \A s \in Slots :
       /\ WF_vars(\E j \in JobIds : AtomicAttempt(s, j) \/ StagedPrepare(s, j))
       /\ WF_vars(StagedComplete(s) \/ StagedFail(s) \/ Abandon(s))
  /\ \A w \in Workers : WF_vars(\E j \in JobIds : Reap(w, j))
  /\ \A j \in JobIds : WF_vars(BecomeDue(j)) /\ WF_vars(ExpireLease(j))

FairSpec == Spec /\ Fairness

-----------------------------------------------------------------------------
(* Properties.                                                             *)

TypeOK ==
  /\ jobs \in [JobIds -> Job]
  /\ blockers \subseteq JobIds \X JobIds
  /\ slot \in [Slots -> Slot]
  /\ inProgress \in [Workers -> SUBSET JobIds]
  /\ alive \subseteq Workers

(* A chain is its root job at index 0 and one continuation per further     *)
(* index, and only its last job may be incomplete: a continuation appears  *)
(* in the transaction that completes its predecessor, or not at all.       *)
ChainShape == WellFormedChains(jobs)

(* A job is blocked exactly while one of its blocking chains is            *)
(* incomplete: no blocker's completion is missed, and no job runs before   *)
(* its last blocker is done.                                               *)
BlockedWhileWaiting == BlockedIffWaiting(jobs, blockers)

(* Every blocker row joins two existing rows, whatever chains are deleted. *)
NoDanglingBlockers ==
  \A ref \in blockers : Exists(jobs, ref[1]) /\ ref[2] \in Roots(jobs)

(* A lease belongs to a worker and to a running job.                       *)
LeaseOnlyWhileRunning == LeasedOnlyIfRunning(jobs)

(* A committed running job carries a lease, the only thing by which the    *)
(* reaper can bring it back should its attempt be gone.                    *)
RunningIsRecoverable ==
  \A j \in JobIds : jobs[j].status = "running" => jobs[j].lease # "none"

(* An attempt that passes the guard of its transactions is the job's       *)
(* current attempt: a reaped and retried job cannot be completed,          *)
(* rescheduled or re-leased by the attempt that lost it.                   *)
OnlyCurrentAttemptWrites ==
  \A s \in Slots : Busy(s) /\ Owned(s) => slot[s].attempt = jobs[slot[s].job].attempt

(* A completed job never changes again and a completed chain never         *)
(* reopens; they can only be deleted.                                      *)
CompletionIsFinal ==
  [][\A j \in JobIds :
       /\ jobs[j].status = "completed" =>
            jobs'[j] = jobs[j] \/ jobs'[j].status = "deleted"
       /\ ChainComplete(jobs, j) =>
            ChainComplete(jobs', j) \/ jobs'[j].status = "deleted"]_vars

(* Each chain settles, through retries, lost workers and blockers.         *)
ChainsSettle ==
  \A c \in JobIds :
    c \in Roots(jobs) ~> ChainComplete(jobs, c) \/ jobs[c].status = "deleted"

(* An expired lease is renewed, given up with the job, or reaped.          *)
ExpiredLeasesResolve ==
  \A j \in JobIds : jobs[j].lease = "expired" ~> jobs[j].lease # "expired"
=============================================================================
