---------------------------- MODULE WorkerLoop ----------------------------
(***************************************************************************)
(* The main loop of in-process workers (core/src/in-process-worker.ts),    *)
(* the executor of their slots (core/src/helpers/parallel-executor.ts) and *)
(* the notifications and wake hints that end their waits                   *)
(* (core/src/notify-adapter, core/src/helpers/notify-hooks.ts).            *)
(*                                                                         *)
(* A step is what a worker does between two awaits; the database calls of  *)
(* the loop are one step each.  Notifications reach a listener some time   *)
(* after they are published, as with a pub/sub server; the in-process      *)
(* adapter, which calls its listeners at once, has fewer behaviours.       *)
(*                                                                         *)
(* Left out: job types (there is one, so one budget of hints), what an     *)
(* attempt does (module Queuert), and triggerJobs and unblocked jobs,      *)
(* which are published as new jobs are.                                    *)
(***************************************************************************)
EXTENDS Naturals, FiniteSets

CONSTANTS
  Jobs, Workers, NULL,
  Concurrency,  \* the slots of each worker
  MaxAttempts,  \* bound: attempt number from which attempts succeed
  Faults        \* what may fail: "publish", "listen", "database", "crash", "stop"

ASSUME NullIsNeither == NULL \notin Workers /\ NULL \notin Nat
ASSUME SomeWorker == Workers # {}
ASSUME JobsFinite == IsFiniteSet(Jobs)
ASSUME ConcurrencyType == Concurrency \in [Workers -> Nat \ {0}]
ASSUME BoundsType == MaxAttempts \in Nat
ASSUME FaultsType == Faults \subseteq {"publish", "listen", "database", "crash", "stop"}

VARIABLES
  job,     \* the job table, holder being leasedBy; abandoned is a ghost:
           \* the attempt that holds the lease ended without releasing it
  worker,  \* per worker, its loop, executor and subscription
  hint,    \* the wake budget: a number, or NULL when there is no such key
  outbox,  \* committed creations whose hooks have not been flushed yet
  faulty   \* ghost: whether something failed so far

vars == <<job, worker, hint, outbox, faulty>>

Task == [job : Jobs, attempt : Nat]

JobRow ==
  [status : {"absent", "later", "due", "running", "expired", "done"},
   attempt : Nat, holder : Workers \cup {NULL}, abandoned : BOOLEAN]

WorkerState ==
  [pc : {"acquire", "reap", "provide", "notify", "listen", "check", "sleep",
         "dispose", "backoff", "draining", "stopped", "crashed"},
   tasks : SUBSET Task,           \* what the executor runs
   inProgress : SUBSET Jobs,      \* jobIdsInProgress
   listening : BOOLEAN,           \* subscribed to jobScheduled
   mail : Nat,                    \* notifications on their way to its callback
   notified : BOOLEAN, slotFree : BOOLEAN,    \* the promises of the wait
   timerNow : BOOLEAN, timerFor : SUBSET Jobs,   \* the sleep, see Check
   aborted : BOOLEAN]             \* stopController.signal.aborted

Publication == [jobs : SUBSET Jobs, next : {"hint", "notify"}]

Starting ==
  [pc |-> "acquire", tasks |-> {}, inProgress |-> {}, listening |-> FALSE, mail |-> 0,
   notified |-> FALSE, slotFree |-> FALSE, timerNow |-> FALSE, timerFor |-> {},
   aborted |-> FALSE]

Init ==
  /\ job = [j \in Jobs |->
             [status |-> "absent", attempt |-> 0, holder |-> NULL, abandoned |-> FALSE]]
  /\ worker = [w \in Workers |-> Starting]
  /\ hint = NULL
  /\ outbox = {}
  /\ faulty = FALSE

-----------------------------------------------------------------------------
In(status) == {j \in Jobs : job[j].status = status}

At(w, pc) == worker[w].pc = pc

Running(w) == ~At(w, "stopped") /\ ~At(w, "crashed")

IdleSlots(w) == Concurrency[w] - Cardinality(worker[w].tasks)

Fault(kind) == kind \in Faults /\ faulty' = TRUE

(* From where the loop looks at its signal it goes on, or out to drain().  *)
Unless(w, pc) == IF worker[w].aborted THEN "draining" ELSE pc

-----------------------------------------------------------------------------
(* The wake budget of the in-process adapter and of Redis.                 *)

Budget(n) == IF hint = NULL THEN n ELSE hint + n

ClaimsNoMissingKey == hint # NULL /\ hint > 0   \* mutation: a missing key is an empty one

Claims == hint = NULL \/ hint > 0

AfterClaims(n) ==
  IF hint = NULL THEN NULL ELSE IF n > hint THEN 0 ELSE hint - n

(* A notification goes to the workers subscribed when it is published.     *)
Broadcast(state) ==
  [w \in Workers |-> IF state[w].listening THEN [state[w] EXCEPT !.mail = @ + 1]
                     ELSE state[w]]

HintExpires ==
  /\ hint # NULL /\ hint' = NULL
  /\ UNCHANGED <<job, worker, outbox, faulty>>

-----------------------------------------------------------------------------
(* Clients: a transaction that creates the jobs J commits, and then its    *)
(* hooks are flushed: the hint before the notification.                    *)

Create(J, status) ==
  /\ J # {} /\ J \subseteq In("absent")
  /\ job' = [j \in Jobs |-> IF j \in J THEN [job[j] EXCEPT !.status = status] ELSE job[j]]
  /\ outbox' = outbox \cup {[jobs |-> J, next |-> "hint"]}
  /\ UNCHANGED <<worker, hint, faulty>>

ProvideWakeHint(b) ==
  /\ b.next = "hint"
  /\ hint' = Budget(Cardinality(b.jobs))
  /\ outbox' = (outbox \ {b}) \cup {[b EXCEPT !.next = "notify"]}
  /\ UNCHANGED <<job, worker, faulty>>

NotifyJobScheduled(b) ==
  /\ b.next = "notify"
  /\ worker' = Broadcast(worker)
  /\ outbox' = outbox \ {b}
  /\ UNCHANGED <<job, hint, faulty>>

(* The adapter throws, and the error is swallowed; or the client crashes.  *)
LosePublication(b) ==
  /\ Fault("publish")
  /\ outbox' = outbox \ {b}
  /\ UNCHANGED <<job, worker, hint>>

Publish ==
  \E b \in outbox : ProvideWakeHint(b) \/ NotifyJobScheduled(b) \/ LosePublication(b)

(* A scheduled job comes due, and the sleeps that end with it end.         *)
ComeDue(j) ==
  /\ job[j].status = "later"
  /\ job' = [job EXCEPT ![j].status = "due"]
  /\ worker' = [w \in Workers |->
       IF j \in worker[w].timerFor
       THEN [worker[w] EXCEPT !.timerNow = TRUE, !.timerFor = {}] ELSE worker[w]]
  /\ UNCHANGED <<hint, outbox, faulty>>

-----------------------------------------------------------------------------
(* The loop: fill the slots.                                               *)

Fails(w) ==
  /\ Fault("database")
  /\ worker' = [worker EXCEPT ![w].pc = "backoff", ![w].listening = FALSE, ![w].mail = 0]
  /\ UNCHANGED <<job, hint, outbox>>

(* performJob, when a job is due, and the spawn of its attempt.  The loop  *)
(* goes on filling while hasMore; it does not look at the signal.          *)
AcquireJob(w, j) ==
  /\ At(w, "acquire") /\ IdleSlots(w) > 0
  /\ job[j].status = "due"
  /\ LET attempt == job[j].attempt + 1
         hasMore == In("due") # {j}
     IN  /\ job' = [job EXCEPT ![j] = [status |-> "running", attempt |-> attempt,
                                       holder |-> w, abandoned |-> FALSE]]
         /\ worker' = [worker EXCEPT
              ![w].tasks = @ \cup {[job |-> j, attempt |-> attempt]},
              ![w].inProgress = @ \cup {j},
              ![w].pc = IF hasMore /\ IdleSlots(w) > 1 THEN "acquire" ELSE "reap"]
  /\ UNCHANGED <<hint, outbox, faulty>>

NothingToAcquire(w) ==
  /\ At(w, "acquire")
  /\ IdleSlots(w) = 0 \/ In("due") = {}
  /\ worker' = [worker EXCEPT ![w].pc = "reap"]
  /\ UNCHANGED <<job, hint, outbox, faulty>>

(* Reap one expired lease, if a slot is idle.                              *)
ReapableOfOwn(w) ==                     \* mutation: only what this worker leased
  {j \in In("expired") : job[j].holder = w} \ worker[w].inProgress

Reapable(w) == In("expired") \ worker[w].inProgress

Reap(w, j) ==
  /\ At(w, "reap") /\ ~worker[w].aborted /\ IdleSlots(w) > 0
  /\ j \in Reapable(w)
  /\ job' = [job EXCEPT ![j].status = "due", ![j].holder = NULL, ![j].abandoned = FALSE]
  /\ worker' = [worker EXCEPT ![w].pc = "provide"]
  /\ UNCHANGED <<hint, outbox, faulty>>

NothingToReap(w) ==
  /\ At(w, "reap")
  /\ worker[w].aborted \/ IdleSlots(w) = 0 \/ Reapable(w) = {}
  /\ worker' = [worker EXCEPT ![w].pc = Unless(w, "listen")]
  /\ UNCHANGED <<job, hint, outbox, faulty>>

(* The reaped job is published as a new one is.                            *)
ProvideReaped(w) ==
  /\ At(w, "provide")
  /\ hint' = Budget(1)
  /\ worker' = [worker EXCEPT ![w].pc = "notify"]
  /\ UNCHANGED <<job, outbox, faulty>>

NotifyReaped(w) ==
  /\ At(w, "notify")
  /\ worker' = Broadcast([worker EXCEPT ![w].pc = Unless(w, "acquire")])
  /\ UNCHANGED <<job, hint, outbox, faulty>>

LoseReaped(w) ==
  /\ At(w, "provide") \/ At(w, "notify")
  /\ Fault("publish")
  /\ worker' = [worker EXCEPT ![w].pc = Unless(w, "acquire")]
  /\ UNCHANGED <<job, hint, outbox>>

-----------------------------------------------------------------------------
(* The loop: wait for the next job.                                        *)

(* Subscribe if a slot is idle, then register for slots that become idle.  *)
Listen(w) ==
  /\ At(w, "listen") /\ ~worker[w].aborted
  /\ \E ok \in BOOLEAN :
       /\ IF ok THEN UNCHANGED faulty ELSE IdleSlots(w) > 0 /\ Fault("listen")
       /\ worker' = [worker EXCEPT
            ![w].listening = ok /\ IdleSlots(w) > 0, ![w].mail = 0,
            ![w].notified = FALSE, ![w].slotFree = FALSE,
            ![w].timerNow = FALSE, ![w].timerFor = {}, ![w].pc = "check"]
  /\ UNCHANGED <<job, hint, outbox>>

StoppedListening(w) ==
  /\ At(w, "listen") /\ worker[w].aborted
  /\ worker' = [worker EXCEPT ![w].pc = "draining"]
  /\ UNCHANGED <<job, hint, outbox, faulty>>

(* getNextJobAvailableInMs: no sleep at all when a job is due, else at     *)
(* most until the first scheduled one is, or until the poll interval.      *)
Check(w) ==
  /\ At(w, "check")
  /\ worker' = [worker EXCEPT ![w].pc = "sleep",
       ![w].timerNow = In("due") # {},
       ![w].timerFor = IF In("due") = {} THEN In("later") ELSE {}]
  /\ UNCHANGED <<job, hint, outbox, faulty>>

(* The callback of the subscription, for one notification.                 *)
ConsumeWakeHint(w) ==
  /\ worker[w].listening /\ worker[w].mail > 0
  /\ worker' = [worker EXCEPT ![w].mail = @ - 1,
                              ![w].notified = @ \/ Claims]
  /\ hint' = AfterClaims(1)
  /\ UNCHANGED <<job, outbox, faulty>>

Alarm(w) == LET s == worker[w] IN s.notified \/ s.slotFree \/ s.timerNow \/ s.aborted

Wake(w) ==
  /\ At(w, "sleep") /\ Alarm(w)
  /\ worker' = [worker EXCEPT ![w].pc = "dispose"]
  /\ UNCHANGED <<job, hint, outbox, faulty>>

PollWhileBusy(w) ==                   \* mutation: an idle worker does not poll
  /\ At(w, "sleep") /\ ~Alarm(w) /\ worker[w].tasks # {}
  /\ worker' = [worker EXCEPT ![w].pc = "dispose"]
  /\ UNCHANGED <<job, hint, outbox, faulty>>

WakeByPoll(w) ==
  /\ At(w, "sleep") /\ ~Alarm(w)
  /\ worker' = [worker EXCEPT ![w].pc = "dispose"]
  /\ UNCHANGED <<job, hint, outbox, faulty>>

(* Until it is disposed of, the subscription goes on claiming hints for a  *)
(* promise nobody waits for.                                               *)
Dispose(w) ==
  /\ At(w, "dispose")
  /\ \E n \in 0 .. worker[w].mail : hint' = AfterClaims(n)
  /\ worker' = [worker EXCEPT
       ![w].listening = FALSE, ![w].mail = 0, ![w].notified = FALSE,
       ![w].slotFree = FALSE, ![w].timerNow = FALSE, ![w].timerFor = {},
       ![w].pc = Unless(w, "acquire")]
  /\ UNCHANGED <<job, outbox, faulty>>

(* An error of the loop ends it; withRetry runs it again, unless stopped.  *)
Recover(w) ==
  /\ At(w, "backoff")
  /\ worker' = [worker EXCEPT ![w].pc = Unless(w, "acquire")]
  /\ UNCHANGED <<job, hint, outbox, faulty>>

LoopFails(w) ==
  /\ worker[w].pc \in {"acquire", "reap", "check"}
  /\ Fails(w)

-----------------------------------------------------------------------------
(* Attempts and leases.                                                    *)

Holds(w, t) ==
  /\ job[t.job].holder = w /\ job[t.job].attempt = t.attempt
  /\ job[t.job].status \in {"running", "expired"}

(* The executor forgets an attempt that returned.  The listener of idle    *)
(* slots is registered while the loop waits.                               *)
Returned(w, t) ==
  worker' = [worker EXCEPT
    ![w].tasks = @ \ {t},
    ![w].inProgress = @ \ {t.job},
    ![w].slotFree = @ \/ worker[w].pc \in {"check", "sleep"}]

(* An attempt ends: it completes its job, or fails and reschedules it, or  *)
(* finds that it lost it.                                                  *)
EndAttempt(w, t, status) ==
  /\ t \in worker[w].tasks
  /\ IF Holds(w, t)
     THEN /\ status = "later" => t.attempt < MaxAttempts
          /\ job' = [job EXCEPT ![t.job].status = status, ![t.job].holder = NULL]
     ELSE status = "done" /\ UNCHANGED job
  /\ Returned(w, t)
  /\ UNCHANGED <<hint, outbox, faulty>>

(* A staged attempt fails and its job is not rescheduled: the transaction  *)
(* of the error path fails too, or the error tells of another job that was *)
(* lost and is taken for the loss of this one.  The lease stays to expire. *)
AbandonAttempt(w, t) ==
  /\ t \in worker[w].tasks /\ Holds(w, t) /\ t.attempt < MaxAttempts
  /\ job' = [job EXCEPT ![t.job].abandoned = TRUE]
  /\ Returned(w, t)
  /\ UNCHANGED <<hint, outbox, faulty>>

(* The lease of an attempt that still runs expires only below the bound.   *)
ExpireLease(j) ==
  /\ job[j].status = "running"
  /\ (\E w \in Workers, t \in UNION {worker[v].tasks : v \in Workers} :
        t.job = j /\ Holds(w, t)) => job[j].attempt < MaxAttempts
  /\ job' = [job EXCEPT ![j].status = "expired"]
  /\ UNCHANGED <<worker, hint, outbox, faulty>>

-----------------------------------------------------------------------------
(* stop(), crashes.  One worker stays.                                     *)

OthersStay(w) == \E v \in Workers \ {w} : Running(v) /\ ~worker[v].aborted

Stop(w) ==
  /\ Running(w) /\ ~worker[w].aborted /\ OthersStay(w)
  /\ Fault("stop")
  /\ worker' = [worker EXCEPT ![w].aborted = TRUE]
  /\ UNCHANGED <<job, hint, outbox>>

StopWithoutDrain(w) ==                  \* mutation: does not wait for attempts
  /\ At(w, "draining")
  /\ worker' = [worker EXCEPT ![w].pc = "stopped", ![w].tasks = {}]
  /\ UNCHANGED <<job, hint, outbox, faulty>>

(* The loop has returned; drain() waits for the attempts.                  *)
Drained(w) ==
  /\ At(w, "draining") /\ worker[w].tasks = {}
  /\ worker' = [worker EXCEPT ![w].pc = "stopped"]
  /\ UNCHANGED <<job, hint, outbox, faulty>>

Crash(w) ==
  /\ Running(w) /\ OthersStay(w)
  /\ Fault("crash")
  /\ worker' = [worker EXCEPT ![w] = [Starting EXCEPT !.pc = "crashed"]]
  /\ UNCHANGED <<job, hint, outbox>>

-----------------------------------------------------------------------------
LoopStep(w) ==
  \/ \E j \in Jobs : AcquireJob(w, j) \/ Reap(w, j)
  \/ NothingToAcquire(w) \/ NothingToReap(w)
  \/ ProvideReaped(w) \/ NotifyReaped(w) \/ LoseReaped(w)
  \/ Listen(w) \/ StoppedListening(w) \/ Check(w)
  \/ Wake(w) \/ WakeByPoll(w) \/ Dispose(w) \/ Recover(w) \/ Drained(w)

EndSomeAttempt(w) ==
  \E t \in worker[w].tasks :
    AbandonAttempt(w, t) \/ \E status \in {"done", "later"} : EndAttempt(w, t, status)

Next ==
  \/ \E J \in SUBSET Jobs, status \in {"later", "due"} : Create(J, status)
  \/ Publish \/ HintExpires
  \/ \E j \in Jobs : ComeDue(j) \/ ExpireLease(j)
  \/ \E w \in Workers :
       \/ LoopStep(w) \/ ConsumeWakeHint(w) \/ EndSomeAttempt(w)
       \/ LoopFails(w) \/ Stop(w) \/ Crash(w)

Spec == Init /\ [][Next]_vars

(* Loops turn, their timers fire, attempts return, and time passes.  A     *)
(* query that is tried again and again succeeds some time.  Nothing is     *)
(* assumed of clients and notifications: they may never arrive.            *)
Fairness ==
  /\ \A w \in Workers :
       /\ WF_vars(LoopStep(w)) /\ WF_vars(EndSomeAttempt(w))
       /\ SF_vars(NothingToAcquire(w) \/ \E j \in Jobs : AcquireJob(w, j))
       /\ SF_vars(NothingToReap(w) \/ \E j \in Jobs : Reap(w, j))
  /\ \A j \in Jobs : WF_vars(ComeDue(j)) /\ WF_vars(ExpireLease(j))

FairSpec == Spec /\ Fairness

-----------------------------------------------------------------------------
(* Properties.                                                             *)

TypeOK ==
  /\ job \in [Jobs -> JobRow]
  /\ worker \in [Workers -> WorkerState]
  /\ \A w \in Workers : IsFiniteSet(worker[w].tasks) /\ IdleSlots(w) \in Nat
  /\ hint \in Nat \cup {NULL}
  /\ outbox \subseteq Publication /\ \A b \in outbox : b.jobs # {}
  /\ faulty \in BOOLEAN

(* A worker that will look for jobs before its poll timer fires: its loop  *)
(* is under way, something ends its sleep, or a slot that frees will.      *)
WillLook(w) ==
  \/ worker[w].pc \in {"acquire", "reap", "listen", "check", "dispose", "provide", "notify"}
  \/ At(w, "sleep") /\ (Alarm(w) \/ worker[w].mail > 0 \/ IdleSlots(w) = 0)

(* As long as nothing fails, a due job is never left to the poll timer: it *)
(* is about to be published, or some worker will look.  The subscription   *)
(* before the check, the hint before the notification, the budget that     *)
(* expires and the claims of workers that no longer sleep must fit for it. *)
NoJobIsForgotten ==
  ~faulty /\ In("due") # {} => outbox # {} \/ \E w \in Workers : WillLook(w)

(* Stopping abandons nothing: when stop() resolves, a lease in the name of *)
(* the worker is one that an attempt gave up of itself, never one whose    *)
(* attempt the stop cut off.                                               *)
StopAbandonsNothing ==
  \A w \in Workers, j \in Jobs :
    At(w, "stopped") /\ job[j].holder = w => job[j].abandoned

(* Every due job is taken and every expired lease is reaped, given up or   *)
(* completed, whatever notifications, subscriptions and workers are lost.  *)
DueJobsAreTaken == \A j \in Jobs : job[j].status = "due" ~> job[j].status # "due"

ExpiredLeasesEnd == \A j \in Jobs : job[j].status = "expired" ~> job[j].status # "expired"
=============================================================================
