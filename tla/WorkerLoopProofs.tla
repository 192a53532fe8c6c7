-------------------------- MODULE WorkerLoopProofs --------------------------
(***************************************************************************)
(* Proofs about WorkerLoop, for any number of workers, slots and jobs.     *)
(***************************************************************************)
EXTENDS WorkerLoop, FiniteSetTheorems, TLAPS

-----------------------------------------------------------------------------
(* Who holds a job: a worker that has not crashed runs the attempt of      *)
(* every lease in its name, unless that attempt gave it up.                *)
Holding ==
  /\ \A j \in Jobs : job[j].holder # NULL => job[j].status \in {"running", "expired"}
  /\ \A w \in Workers, j \in Jobs :
       job[j].holder = w /\ ~At(w, "crashed") /\ ~job[j].abandoned =>
         [job |-> j, attempt |-> job[j].attempt] \in worker[w].tasks
  /\ \A w \in Workers : At(w, "stopped") => worker[w].tasks = {}

-----------------------------------------------------------------------------
(* As long as nothing fails every loop turns, and a worker that waits      *)
(* either listens or has no idle slot or will be told of one.              *)
LoopsTurn ==
  \A w \in Workers :
    /\ worker[w].pc \in {"acquire", "reap", "provide", "notify", "listen", "check", "sleep",
                         "dispose"}
    /\ ~worker[w].aborted
    /\ worker[w].pc \in {"check", "sleep"} =>
         worker[w].listening \/ IdleSlots(w) = 0 \/ worker[w].slotFree

(* The same as WillLook, but for the notifications under way: these may    *)
(* find the budget empty.                                                  *)
LooksAnyway(w) ==
  \/ worker[w].pc \in {"acquire", "reap", "listen", "check", "dispose", "provide", "notify"}
  \/ At(w, "sleep") /\ (Alarm(w) \/ IdleSlots(w) = 0)

Timed(w, j) ==
  At(w, "sleep") /\ j \in worker[w].timerFor /\ job[j].status = "later"

Waiting == In("due") \cup In("later")

(* A job that is due or will be is published, or a worker looks for it, or *)
(* has set its timer for it; and when the budget of hints is empty, none   *)
(* of this rests on a notification.                                        *)
Remembered ==
  \A j \in Waiting :
    /\ outbox = {} => \E w \in Workers : WillLook(w) \/ Timed(w, j)
    /\ hint = 0 /\ (\A b \in outbox : b.next = "notify") =>
         \E w \in Workers : LooksAnyway(w) \/ Timed(w, j)

Attentive == ~faulty => LoopsTurn /\ Remembered

IInv == TypeOK /\ Holding /\ Attentive

-----------------------------------------------------------------------------
(* A worker that looks anyway settles what has to be remembered.           *)
LEMMA Turning ==
  ASSUME LoopsTurn', NEW w \in Workers, LooksAnyway(w)'
  PROVE  Attentive'
BY DEF Attentive, Remembered, LooksAnyway, WillLook

LEMMA OneWorker ==
  ASSUME TypeOK, NEW w \in Workers, NEW r \in WorkerState, worker' = [worker EXCEPT ![w] = r],
         IsFiniteSet(r.tasks), Concurrency[w] - Cardinality(r.tasks) \in Nat
  PROVE  /\ worker' \in [Workers -> WorkerState] /\ worker'[w] = r
         /\ \A v \in Workers : v # w => worker'[v] = worker[v] /\ IdleSlots(v)' = IdleSlots(v)
         /\ \A v \in Workers : IsFiniteSet(worker'[v].tasks) /\ IdleSlots(v)' \in Nat
<1>1. worker' \in [Workers -> WorkerState] /\ worker'[w] = r
    BY DEF TypeOK
<1>2. \A v \in Workers : v # w => worker'[v] = worker[v] /\ IdleSlots(v)' = IdleSlots(v)
    BY DEF TypeOK, IdleSlots
<1>3. IdleSlots(w)' = Concurrency[w] - Cardinality(r.tasks)
    BY <1>1 DEF IdleSlots
<1> QED BY <1>1, <1>2, <1>3 DEF TypeOK

(* A step of one worker's loop that does not touch jobs and attempts.      *)
LEMMA LoopMoves ==
  ASSUME IInv, NEW w \in Workers, NEW r \in WorkerState, worker' = [worker EXCEPT ![w] = r],
         r.tasks = worker[w].tasks, UNCHANGED <<job, outbox>>,
         hint' \in Nat \cup {NULL}, faulty' \in BOOLEAN,
         ~At(w, "crashed"), r.pc = "stopped" => r.tasks = {},
         ~faulty' =>
           /\ ~faulty /\ ~r.aborted
           /\ r.pc \in {"acquire", "reap", "provide", "notify", "listen", "check", "dispose"}
           /\ r.pc = "check" => r.listening \/ IdleSlots(w) = 0 \/ r.slotFree
  PROVE  IInv'
<1>1. /\ worker' \in [Workers -> WorkerState] /\ worker'[w] = r
      /\ \A v \in Workers : v # w => worker'[v] = worker[v] /\ IdleSlots(v)' = IdleSlots(v)
      /\ \A v \in Workers : IsFiniteSet(worker'[v].tasks) /\ IdleSlots(v)' \in Nat
  <2>1. IsFiniteSet(r.tasks) /\ Concurrency[w] - Cardinality(r.tasks) \in Nat
      BY DEF IInv, TypeOK, IdleSlots
  <2> QED BY <2>1, OneWorker DEF IInv
<1>2. IdleSlots(w)' = IdleSlots(w)
    BY <1>1 DEF IdleSlots
<1>3. TypeOK'
    BY <1>1 DEF IInv, TypeOK
<1>4. Holding'
    BY <1>1 DEF IInv, Holding, At
<1>5. Attentive'
  <2>1. CASE faulty'
      BY <2>1 DEF Attentive
  <2>2. CASE ~faulty'
    <3>1. LoopsTurn'
        BY <1>1, <1>2, <2>2 DEF IInv, Attentive, LoopsTurn
    <3>2. LooksAnyway(w)'
        BY <1>1, <2>2 DEF LooksAnyway
    <3> QED BY <3>1, <3>2, Turning
  <2> QED BY <1>3, <2>1, <2>2 DEF TypeOK
<1> QED BY <1>3, <1>4, <1>5 DEF IInv

LEMMA SimpleSteps ==
  ASSUME IInv, NEW w \in Workers,
         \/ NothingToAcquire(w) \/ NothingToReap(w) \/ StoppedListening(w)
         \/ Wake(w) \/ WakeByPoll(w) \/ Recover(w) \/ Drained(w)
  PROVE  IInv'
<1> DEFINE Moved(pc) == [worker[w] EXCEPT !.pc = pc]
<1>0. worker[w] \in WorkerState /\ faulty \in BOOLEAN /\ hint \in Nat \cup {NULL}
      /\ worker \in [Workers -> WorkerState]
    BY DEF IInv, TypeOK
<1>1. ASSUME NEW pc \in {"acquire", "reap", "listen", "dispose", "draining", "stopped"}
      PROVE  /\ Moved(pc) \in WorkerState /\ Moved(pc).pc = pc
             /\ Moved(pc).tasks = worker[w].tasks /\ Moved(pc).aborted = worker[w].aborted
    BY <1>0 DEF WorkerState
<1>2. ASSUME ~faulty PROVE ~worker[w].aborted /\ worker[w].pc \notin {"backoff", "draining"}
    BY <1>2 DEF IInv, Attentive, LoopsTurn
<1>3. PICK pc \in {"acquire", "reap", "listen", "dispose", "draining", "stopped"} :
        /\ worker' = [worker EXCEPT ![w] = Moved(pc)]
        /\ UNCHANGED <<job, hint, outbox, faulty>>
        /\ ~At(w, "crashed")
        /\ pc = "stopped" => worker[w].tasks = {}
        /\ ~faulty => pc \notin {"draining", "stopped"}
  <2> DEFINE P(pc) ==
        /\ worker' = [worker EXCEPT ![w] = Moved(pc)]
        /\ UNCHANGED <<job, hint, outbox, faulty>>
        /\ ~At(w, "crashed")
        /\ pc = "stopped" => worker[w].tasks = {}
        /\ ~faulty => pc \notin {"draining", "stopped"}
  <2>1. CASE NothingToAcquire(w)
    <3>1. P("reap") BY <2>1 DEF NothingToAcquire, At
    <3> QED BY <3>1
  <2>2. CASE NothingToReap(w)
    <3>1. P("listen") \/ P("draining") BY <1>2, <2>2 DEF NothingToReap, At, Unless
    <3> QED BY <3>1
  <2>3. CASE StoppedListening(w)
    <3>1. P("draining") BY <1>2, <2>3 DEF StoppedListening, At
    <3> QED BY <3>1
  <2>4. CASE Wake(w) \/ WakeByPoll(w)
    <3>1. P("dispose") BY <2>4 DEF Wake, WakeByPoll, At
    <3> QED BY <3>1
  <2>5. CASE Recover(w)
    <3>1. P("acquire") \/ P("draining") BY <1>2, <2>5 DEF Recover, At, Unless
    <3> QED BY <3>1
  <2>6. CASE Drained(w)
    <3>1. P("stopped") BY <1>2, <2>6 DEF Drained, At
    <3> QED BY <3>1
  <2> QED BY <2>1, <2>2, <2>3, <2>4, <2>5, <2>6
<1> DEFINE r == Moved(pc)
<1>4. /\ r \in WorkerState /\ r.pc = pc
      /\ r.tasks = worker[w].tasks /\ r.aborted = worker[w].aborted
    BY <1>1
<1> HIDE DEF r
<1>5. worker' = [worker EXCEPT ![w] = r]
    BY <1>3 DEF r
<1> QED BY <1>0, <1>2, <1>3, <1>4, <1>5, LoopMoves

LEMMA HintTypes ==
  ASSUME hint \in Nat \cup {NULL}, NEW n \in Nat
  PROVE  Budget(n) \in Nat /\ AfterClaims(n) \in Nat \cup {NULL}
BY DEF Budget, AfterClaims

LEMMA PublishingSteps ==
  ASSUME IInv, NEW w \in Workers, ProvideReaped(w) \/ LoseReaped(w)
  PROVE  IInv'
<1>0. worker[w] \in WorkerState /\ faulty \in BOOLEAN /\ hint \in Nat \cup {NULL}
    BY DEF IInv, TypeOK
<1>1. CASE ProvideReaped(w)
  <2> DEFINE r == [worker[w] EXCEPT !.pc = "notify"]
  <2>1. /\ At(w, "provide") /\ worker' = [worker EXCEPT ![w] = r] /\ hint' = Budget(1)
        /\ UNCHANGED <<job, outbox, faulty>>
      BY <1>1 DEF ProvideReaped
  <2>2. /\ r \in WorkerState /\ r.pc = "notify"
        /\ r.tasks = worker[w].tasks /\ r.aborted = worker[w].aborted
      BY <1>0 DEF WorkerState
  <2> HIDE DEF r
  <2>3. hint' \in Nat \cup {NULL}
      BY <1>0, <2>1, HintTypes
  <2>4. ~faulty => ~worker[w].aborted
      BY DEF IInv, Attentive, LoopsTurn
  <2> QED BY <1>0, <2>1, <2>2, <2>3, <2>4, LoopMoves DEF At
<1>2. CASE LoseReaped(w)
  <2> DEFINE pc == IF worker[w].aborted THEN "draining" ELSE "acquire"
             r == [worker[w] EXCEPT !.pc = pc]
  <2>1. /\ At(w, "provide") \/ At(w, "notify")
        /\ faulty' = TRUE /\ UNCHANGED <<job, hint, outbox>>
      BY <1>2 DEF LoseReaped, Fault, Unless
  <2>2. r \in WorkerState /\ r.pc = pc /\ r.tasks = worker[w].tasks
      BY <1>0 DEF WorkerState
  <2> HIDE DEF r
  <2>3. worker' = [worker EXCEPT ![w] = r]
      BY <1>2 DEF LoseReaped, Unless, r
  <2> QED BY <1>0, <2>1, <2>2, <2>3, LoopMoves DEF At
<1> QED BY <1>1, <1>2

LEMMA FaultSteps ==
  ASSUME IInv, NEW w \in Workers, LoopFails(w) \/ Stop(w)
  PROVE  IInv'
<1>0. worker[w] \in WorkerState /\ hint \in Nat \cup {NULL}
    BY DEF IInv, TypeOK
<1>1. CASE LoopFails(w)
  <2> DEFINE r == [worker[w] EXCEPT !.pc = "backoff", !.listening = FALSE, !.mail = 0]
  <2>1. /\ worker[w].pc \in {"acquire", "reap", "check"} /\ worker' = [worker EXCEPT ![w] = r]
        /\ faulty' = TRUE /\ UNCHANGED <<job, hint, outbox>>
      BY <1>1 DEF LoopFails, Fails, Fault
  <2>2. r \in WorkerState /\ r.pc = "backoff" /\ r.tasks = worker[w].tasks
      BY <1>0 DEF WorkerState
  <2> HIDE DEF r
  <2> QED BY <1>0, <2>1, <2>2, LoopMoves DEF At
<1>2. CASE Stop(w)
  <2> DEFINE r == [worker[w] EXCEPT !.aborted = TRUE]
  <2>1. /\ ~At(w, "crashed") /\ ~At(w, "stopped") /\ worker' = [worker EXCEPT ![w] = r]
        /\ faulty' = TRUE /\ UNCHANGED <<job, hint, outbox>>
      BY <1>2 DEF Stop, Fault, Running
  <2>2. r \in WorkerState /\ r.pc = worker[w].pc /\ r.tasks = worker[w].tasks
      BY <1>0 DEF WorkerState
  <2> HIDE DEF r
  <2> QED BY <1>0, <2>1, <2>2, LoopMoves DEF At
<1> QED BY <1>1, <1>2

LEMMA WaitingSteps ==
  ASSUME IInv, NEW w \in Workers, Listen(w) \/ Dispose(w)
  PROVE  IInv'
<1>0. worker \in [Workers -> WorkerState] /\ worker[w] \in WorkerState /\ faulty \in BOOLEAN /\ hint \in Nat \cup {NULL}
      /\ IdleSlots(w) \in Nat
    BY DEF IInv, TypeOK
<1>1. CASE Listen(w)
  <2>1. PICK ok \in BOOLEAN :
          /\ IF ok THEN UNCHANGED faulty ELSE IdleSlots(w) > 0 /\ Fault("listen")
          /\ worker' = [worker EXCEPT
               ![w].listening = ok /\ IdleSlots(w) > 0, ![w].mail = 0,
               ![w].notified = FALSE, ![w].slotFree = FALSE,
               ![w].timerNow = FALSE, ![w].timerFor = {}, ![w].pc = "check"]
      BY <1>1 DEF Listen
  <2> DEFINE hears == ok /\ IdleSlots(w) > 0
             r == [worker[w] EXCEPT !.listening = hears, !.mail = 0, !.notified = FALSE,
                     !.slotFree = FALSE, !.timerNow = FALSE, !.timerFor = {}, !.pc = "check"]
  <2>2. /\ At(w, "listen") /\ ~worker[w].aborted /\ UNCHANGED <<job, hint, outbox>>
      BY <1>1 DEF Listen
  <2>3. hears \in BOOLEAN
      BY <1>0
  <2>4. faulty' \in BOOLEAN /\ (~faulty' => ~faulty /\ (hears \/ IdleSlots(w) = 0))
    <3>1. CASE ok
      <4>1. UNCHANGED faulty
          BY <2>1, <3>1
      <4>2. hears \/ IdleSlots(w) = 0
          BY <1>0, <3>1
      <4> QED BY <1>0, <4>1, <4>2
    <3>2. CASE ~ok
      <4>1. Fault("listen")
          BY <2>1, <3>2
      <4> QED BY <4>1 DEF Fault
    <3> QED BY <3>1, <3>2
  <2> HIDE DEF hears
  <2>5. /\ r \in WorkerState /\ r.pc = "check" /\ r.listening = hears
        /\ r.tasks = worker[w].tasks /\ r.aborted = worker[w].aborted
      BY <1>0, <2>3 DEF WorkerState
  <2>6. worker' = [worker EXCEPT ![w] = r]
    <3>1. worker' = [worker EXCEPT
            ![w].listening = hears, ![w].mail = 0, ![w].notified = FALSE, ![w].slotFree = FALSE,
            ![w].timerNow = FALSE, ![w].timerFor = {}, ![w].pc = "check"]
        BY <2>1 DEF hears
    <3> QED BY <1>0, <3>1
  <2> HIDE DEF r
  <2> QED BY <1>0, <2>2, <2>4, <2>5, <2>6, LoopMoves DEF At
<1>2. CASE Dispose(w)
  <2> DEFINE pc == IF worker[w].aborted THEN "draining" ELSE "acquire"
             r == [worker[w] EXCEPT !.listening = FALSE, !.mail = 0, !.notified = FALSE,
                     !.slotFree = FALSE, !.timerNow = FALSE, !.timerFor = {}, !.pc = pc]
  <2>1. /\ At(w, "dispose") /\ worker' = [worker EXCEPT ![w] = r]
        /\ UNCHANGED <<job, outbox, faulty>> /\ \E n \in 0 .. worker[w].mail : hint' = AfterClaims(n)
      BY <1>2 DEF Dispose, Unless
  <2>2. /\ r \in WorkerState /\ r.pc = pc
        /\ r.tasks = worker[w].tasks /\ r.aborted = worker[w].aborted
      BY <1>0 DEF WorkerState
  <2> HIDE DEF r
  <2>3. hint' \in Nat \cup {NULL}
      BY <1>0, <2>1, HintTypes DEF WorkerState
  <2>4. ~faulty => ~worker[w].aborted
      BY DEF IInv, Attentive, LoopsTurn
  <2> QED BY <1>0, <2>1, <2>2, <2>3, <2>4, LoopMoves DEF At
<1> QED BY <1>1, <1>2

(* The loop sets its timers.                                               *)
LEMMA CheckStep ==
  ASSUME IInv, NEW w \in Workers, Check(w)
  PROVE  IInv'
<1> DEFINE r == [worker[w] EXCEPT !.pc = "sleep", !.timerNow = In("due") # {},
                   !.timerFor = IF In("due") = {} THEN In("later") ELSE {}]
<1>0. worker[w] \in WorkerState /\ faulty \in BOOLEAN
    BY DEF IInv, TypeOK
<1>1. /\ At(w, "check") /\ worker' = [worker EXCEPT ![w] = r]
      /\ UNCHANGED <<job, hint, outbox, faulty>>
    BY DEF Check
<1>2. In("due") \subseteq Jobs /\ In("later") \subseteq Jobs
    BY DEF In
<1>3. /\ r \in WorkerState /\ r.pc = "sleep" /\ r.tasks = worker[w].tasks
      /\ r.timerNow = (In("due") # {})
      /\ In("due") = {} => r.timerFor = In("later")
      /\ r.listening = worker[w].listening /\ r.slotFree = worker[w].slotFree
      /\ r.aborted = worker[w].aborted
    BY <1>0, <1>2 DEF WorkerState
<1> HIDE DEF r
<1>4. /\ worker' \in [Workers -> WorkerState] /\ worker'[w] = r
      /\ \A v \in Workers : v # w => worker'[v] = worker[v] /\ IdleSlots(v)' = IdleSlots(v)
      /\ \A v \in Workers : IsFiniteSet(worker'[v].tasks) /\ IdleSlots(v)' \in Nat
  <2>1. IsFiniteSet(r.tasks) /\ Concurrency[w] - Cardinality(r.tasks) \in Nat
      BY <1>3 DEF IInv, TypeOK, IdleSlots
  <2> QED BY <1>1, <1>3, <2>1, OneWorker DEF IInv
<1>5. IdleSlots(w)' = IdleSlots(w)
    BY <1>3, <1>4 DEF IdleSlots
<1>6. TypeOK'
    BY <1>1, <1>4 DEF IInv, TypeOK
<1>7. Holding'
    BY <1>1, <1>3, <1>4 DEF IInv, Holding, At
<1>8. ASSUME ~faulty PROVE LoopsTurn' /\ Remembered'
  <2>1. LoopsTurn'
      BY <1>1, <1>3, <1>4, <1>5, <1>8 DEF IInv, Attentive, LoopsTurn, At
  <2>2. ASSUME NEW j \in Jobs, job[j].status \in {"due", "later"}
        PROVE  (LooksAnyway(w) \/ Timed(w, j))'
    <3>1. CASE In("due") # {}
        BY <1>3, <1>4, <3>1 DEF LooksAnyway, Alarm, At
    <3>2. CASE In("due") = {}
      <4>1. j \in In("later")
          BY <2>2, <3>2 DEF In
      <4> QED BY <1>1, <1>3, <1>4, <3>2, <4>1 DEF Timed, At, In
    <3> QED BY <3>1, <3>2
  <2>3. Remembered'
      BY <1>1, <2>2 DEF Remembered, Waiting, In, LooksAnyway, WillLook
  <2> QED BY <2>1, <2>3
<1> QED BY <1>1, <1>6, <1>7, <1>8 DEF IInv, Attentive

-----------------------------------------------------------------------------
(* Steps that change jobs and attempts.                                    *)
LEMMA Looking ==
  ASSUME TypeOK, Attentive, NEW w \in Workers, NEW r \in WorkerState,
         worker' = [worker EXCEPT ![w] = r],
         IsFiniteSet(r.tasks), Concurrency[w] - Cardinality(r.tasks) \in Nat,
         UNCHANGED faulty, r.aborted = worker[w].aborted,
         r.pc \in {"acquire", "reap", "provide", "notify", "listen", "dispose"}
           \/ (r.pc = worker[w].pc /\ (r.pc \in {"check", "sleep"} => r.slotFree))
  PROVE  Attentive'
<1>1. CASE faulty
    BY <1>1 DEF Attentive
<1>2. CASE ~faulty
  <2>1. /\ worker'[w] = r
        /\ \A v \in Workers : v # w => worker'[v] = worker[v] /\ IdleSlots(v)' = IdleSlots(v)
      BY OneWorker
  <2>2. LoopsTurn'
      BY <1>2, <2>1 DEF Attentive, LoopsTurn
  <2>3. LooksAnyway(w)'
      BY <1>2, <2>1 DEF Attentive, LoopsTurn, LooksAnyway, Alarm, At
  <2> QED BY <2>2, <2>3, Turning
<1> QED BY <1>1, <1>2 DEF TypeOK

LEMMA AcquireStep ==
  ASSUME IInv, NEW w \in Workers, NEW j \in Jobs, AcquireJob(w, j)
  PROVE  IInv'
<1> DEFINE attempt == job[j].attempt + 1
           t == [job |-> j, attempt |-> attempt]
           pc == IF In("due") # {j} /\ IdleSlots(w) > 1 THEN "acquire" ELSE "reap"
           r == [worker[w] EXCEPT !.tasks = @ \cup {t}, !.inProgress = @ \cup {j}, !.pc = pc]
<1>0. /\ worker[w] \in WorkerState /\ job \in [Jobs -> JobRow] /\ job[j].attempt \in Nat
      /\ worker \in [Workers -> WorkerState]
      /\ IsFiniteSet(worker[w].tasks) /\ IdleSlots(w) \in Nat /\ Concurrency[w] \in Nat
    BY ConcurrencyType DEF IInv, TypeOK, JobRow
<1>1. /\ At(w, "acquire") /\ IdleSlots(w) > 0 /\ job[j].status = "due"
      /\ job' = [job EXCEPT ![j] = [status |-> "running", attempt |-> attempt,
                                    holder |-> w, abandoned |-> FALSE]]
      /\ UNCHANGED <<hint, outbox, faulty>>
    BY DEF AcquireJob
<1>2. worker' = [worker EXCEPT ![w] = r]
    BY <1>0 DEF AcquireJob
<1>3. t \in Task /\ t.job = j /\ t.attempt = attempt
    BY <1>0 DEF Task
<1>4. pc \in {"acquire", "reap"}
    OBVIOUS
<1> HIDE DEF t, pc
<1>5. /\ r \in WorkerState /\ r.tasks = worker[w].tasks \cup {t} /\ r.pc = pc
      /\ r.aborted = worker[w].aborted
    BY <1>0, <1>3, <1>4 DEF WorkerState
<1> HIDE DEF r
<1>6. IsFiniteSet(r.tasks) /\ Concurrency[w] - Cardinality(r.tasks) \in Nat
  <2>1. /\ IsFiniteSet(worker[w].tasks \cup {t})
        /\ \/ Cardinality(worker[w].tasks \cup {t}) = Cardinality(worker[w].tasks)
           \/ Cardinality(worker[w].tasks \cup {t}) = Cardinality(worker[w].tasks) + 1
      BY <1>0, FS_AddElement
  <2>2. Cardinality(worker[w].tasks) \in Nat
      BY <1>0, FS_CardinalityType
  <2> QED BY <1>0, <1>1, <1>5, <2>1, <2>2 DEF IdleSlots
<1>7. /\ worker' \in [Workers -> WorkerState] /\ worker'[w] = r
      /\ \A v \in Workers : v # w => worker'[v] = worker[v] /\ IdleSlots(v)' = IdleSlots(v)
      /\ \A v \in Workers : IsFiniteSet(worker'[v].tasks) /\ IdleSlots(v)' \in Nat
    BY <1>2, <1>5, <1>6, OneWorker DEF IInv
<1>8. job' \in [Jobs -> JobRow]
    BY <1>0, <1>1 DEF JobRow
<1>9. TypeOK'
    BY <1>1, <1>7, <1>8 DEF IInv, TypeOK
<1>10. Holding'
  <2>1. \A k \in Jobs : job'[k].holder # NULL => job'[k].status \in {"running", "expired"}
      BY <1>0, <1>1 DEF IInv, Holding
  <2>2. ASSUME NEW v \in Workers, NEW k \in Jobs, job'[k].holder = v, worker'[v].pc # "crashed",
               ~job'[k].abandoned
        PROVE  [job |-> k, attempt |-> job'[k].attempt] \in worker'[v].tasks
    <3>1. CASE k = j
        BY <1>0, <1>1, <1>5, <1>7, <2>2, <3>1 DEF t
    <3>2. CASE k # j
        BY <1>0, <1>1, <1>5, <1>7, <2>2, <3>2 DEF IInv, Holding, At
    <3> QED BY <3>1, <3>2
  <2>3. ASSUME NEW v \in Workers, worker'[v].pc = "stopped"
        PROVE  worker'[v].tasks = {}
      BY <1>4, <1>5, <1>7, <2>3 DEF IInv, Holding, At
  <2> QED BY <2>1, <2>2, <2>3 DEF Holding, At
<1>11. Attentive'
    BY <1>1, <1>2, <1>4, <1>5, <1>6, Looking DEF IInv
<1> QED BY <1>9, <1>10, <1>11 DEF IInv

LEMMA ReapStep ==
  ASSUME IInv, NEW w \in Workers, NEW j \in Jobs, Reap(w, j)
  PROVE  IInv'
<1> DEFINE r == [worker[w] EXCEPT !.pc = "provide"]
<1>0. /\ worker[w] \in WorkerState /\ job \in [Jobs -> JobRow]
      /\ IsFiniteSet(worker[w].tasks) /\ IdleSlots(w) \in Nat
    BY DEF IInv, TypeOK
<1>1. /\ At(w, "reap") /\ worker' = [worker EXCEPT ![w] = r]
      /\ job' = [job EXCEPT ![j].status = "due", ![j].holder = NULL, ![j].abandoned = FALSE]
      /\ UNCHANGED <<hint, outbox, faulty>>
    BY DEF Reap
<1>2. /\ r \in WorkerState /\ r.tasks = worker[w].tasks /\ r.pc = "provide"
      /\ r.aborted = worker[w].aborted
    BY <1>0 DEF WorkerState
<1> HIDE DEF r
<1>3. IsFiniteSet(r.tasks) /\ Concurrency[w] - Cardinality(r.tasks) \in Nat
    BY <1>0, <1>2 DEF IdleSlots
<1>4. /\ worker' \in [Workers -> WorkerState] /\ worker'[w] = r
      /\ \A v \in Workers : v # w => worker'[v] = worker[v] /\ IdleSlots(v)' = IdleSlots(v)
      /\ \A v \in Workers : IsFiniteSet(worker'[v].tasks) /\ IdleSlots(v)' \in Nat
    BY <1>1, <1>2, <1>3, OneWorker DEF IInv
<1>5. job' \in [Jobs -> JobRow] /\ job'[j].holder = NULL
      /\ \A k \in Jobs : k # j => job'[k] = job[k]
    BY <1>0, <1>1 DEF JobRow
<1>6. TypeOK'
    BY <1>1, <1>4, <1>5 DEF IInv, TypeOK
<1>7. Holding'
  <2>1. \A k \in Jobs : job'[k].holder # NULL => job'[k].status \in {"running", "expired"}
      BY <1>5 DEF IInv, Holding
  <2>2. ASSUME NEW v \in Workers, NEW k \in Jobs, job'[k].holder = v, worker'[v].pc # "crashed",
               ~job'[k].abandoned
        PROVE  [job |-> k, attempt |-> job'[k].attempt] \in worker'[v].tasks
      BY NullIsNeither, <1>1, <1>2, <1>4, <1>5, <2>2 DEF IInv, Holding, At
  <2>3. ASSUME NEW v \in Workers, worker'[v].pc = "stopped"
        PROVE  worker'[v].tasks = {}
      BY <1>2, <1>4, <2>3 DEF IInv, Holding, At
  <2> QED BY <2>1, <2>2, <2>3 DEF Holding, At
<1>8. Attentive'
    BY <1>1, <1>2, <1>3, Looking DEF IInv
<1> QED BY <1>6, <1>7, <1>8 DEF IInv

LEMMA OneFewer ==
  ASSUME TypeOK, NEW w \in Workers, NEW t \in worker[w].tasks
  PROVE  /\ IsFiniteSet(worker[w].tasks \ {t})
         /\ Concurrency[w] - Cardinality(worker[w].tasks \ {t}) \in Nat
<1>0. IsFiniteSet(worker[w].tasks) /\ IdleSlots(w) \in Nat /\ Concurrency[w] \in Nat
    BY ConcurrencyType DEF TypeOK
<1>1. /\ IsFiniteSet(worker[w].tasks \ {t})
      /\ Cardinality(worker[w].tasks \ {t}) = Cardinality(worker[w].tasks) - 1
    BY <1>0, FS_RemoveElement
<1>2. Cardinality(worker[w].tasks) \in Nat /\ Cardinality(worker[w].tasks \ {t}) \in Nat
    BY <1>0, <1>1, FS_CardinalityType
<1> QED BY <1>0, <1>1, <1>2 DEF IdleSlots

(* An attempt that returns, having changed at most its own job: the lease  *)
(* it still had is gone or given up; a worker that waits is told of its    *)
(* slot.                                                                   *)
LEMMA ReturnStep ==
  ASSUME IInv, NEW w \in Workers, NEW t \in worker[w].tasks, Returned(w, t),
         UNCHANGED <<hint, outbox, faulty>>, job' \in [Jobs -> JobRow],
         \A k \in Jobs : k # t.job => job'[k] = job[k],
         ~Holds(w, t) => UNCHANGED job,
         Holds(w, t) =>
           \/ job'[t.job].holder = NULL
           \/ job'[t.job].abandoned /\ job'[t.job].status = job[t.job].status
  PROVE  IInv'
<1> DEFINE freed == worker[w].slotFree \/ worker[w].pc \in {"check", "sleep"}
           r == [worker[w] EXCEPT !.tasks = @ \ {t}, !.inProgress = @ \ {t.job},
                                  !.slotFree = freed]
<1>0. /\ worker[w] \in WorkerState /\ job \in [Jobs -> JobRow]
      /\ worker \in [Workers -> WorkerState]
      /\ IsFiniteSet(worker[w].tasks) /\ IdleSlots(w) \in Nat /\ Concurrency[w] \in Nat
    BY ConcurrencyType DEF IInv, TypeOK
<1>1. t \in Task /\ t.job \in Jobs /\ t.attempt \in Nat
      /\ t = [job |-> t.job, attempt |-> t.attempt]
    BY <1>0 DEF WorkerState, Task
<1>2. worker' = [worker EXCEPT ![w].tasks = @ \ {t}, ![w].inProgress = @ \ {t.job},
                               ![w].slotFree = freed]
    BY <1>0 DEF Returned
<1>3. worker' = [worker EXCEPT ![w] = r]
    BY <1>0, <1>2
<1>4. freed \in BOOLEAN
    BY <1>0 DEF WorkerState
<1> HIDE DEF freed
<1>5. /\ r \in WorkerState /\ r.tasks = worker[w].tasks \ {t} /\ r.pc = worker[w].pc
      /\ r.aborted = worker[w].aborted /\ r.slotFree = freed
    BY <1>0, <1>4 DEF WorkerState
<1> HIDE DEF r
<1>6. IsFiniteSet(r.tasks) /\ Concurrency[w] - Cardinality(r.tasks) \in Nat
    BY <1>5, OneFewer DEF IInv
<1>7. /\ worker' \in [Workers -> WorkerState] /\ worker'[w] = r
      /\ \A v \in Workers : v # w => worker'[v] = worker[v] /\ IdleSlots(v)' = IdleSlots(v)
      /\ \A v \in Workers : IsFiniteSet(worker'[v].tasks) /\ IdleSlots(v)' \in Nat
    BY <1>3, <1>5, <1>6, OneWorker DEF IInv
<1>8. TypeOK'
    BY <1>7 DEF IInv, TypeOK
<1>9. Holding'
  <2>1. ASSUME NEW k \in Jobs, job'[k].holder # NULL
        PROVE  job'[k].status \in {"running", "expired"}
    <3>1. CASE k = t.job /\ Holds(w, t)
        BY <2>1, <3>1 DEF Holds
    <3>2. CASE ~(k = t.job /\ Holds(w, t))
        BY <1>0, <2>1, <3>2 DEF IInv, Holding
    <3> QED BY <3>1, <3>2
  <2>2. ASSUME NEW v \in Workers, NEW k \in Jobs, job'[k].holder = v, worker'[v].pc # "crashed",
               ~job'[k].abandoned
        PROVE  [job |-> k, attempt |-> job'[k].attempt] \in worker'[v].tasks
    <3>1. job'[k] = job[k] /\ (k = t.job => ~Holds(w, t))
        BY NullIsNeither, <1>1, <2>2
    <3>2. [job |-> k, attempt |-> job[k].attempt] \in worker[v].tasks
        BY <1>5, <1>7, <2>2, <3>1 DEF IInv, Holding, At
    <3>3. job[k].status \in {"running", "expired"}
        BY NullIsNeither, <2>2, <3>1 DEF IInv, Holding
    <3>4. CASE v # w
        BY <1>7, <3>1, <3>2, <3>4
    <3>5. CASE v = w
      <4>1. [job |-> k, attempt |-> job[k].attempt] # t
        <5>1. SUFFICES ASSUME [job |-> k, attempt |-> job[k].attempt] = t PROVE FALSE
            OBVIOUS
        <5>2. t.job = k /\ t.attempt = job[k].attempt
            BY <5>1
        <5> QED BY <2>2, <3>1, <3>3, <3>5, <5>2 DEF Holds
      <4> QED BY <1>5, <1>7, <3>1, <3>2, <3>5, <4>1
    <3> QED BY <3>4, <3>5
  <2>3. ASSUME NEW v \in Workers, worker'[v].pc = "stopped"
        PROVE  worker'[v].tasks = {}
      BY <1>5, <1>7, <2>3 DEF IInv, Holding, At
  <2> QED BY <2>1, <2>2, <2>3 DEF Holding, At
<1>10. Attentive'
  <2>1. r.pc = worker[w].pc /\ (r.pc \in {"check", "sleep"} => r.slotFree)
      BY <1>5 DEF freed
  <2> QED BY <1>3, <1>5, <1>6, <2>1, Looking DEF IInv
<1> QED BY <1>8, <1>9, <1>10 DEF IInv

LEMMA AttemptStep ==
  ASSUME IInv, NEW w \in Workers, EndSomeAttempt(w)
  PROVE  IInv'
<1>0. worker[w] \in WorkerState /\ job \in [Jobs -> JobRow]
    BY DEF IInv, TypeOK
<1>1. ASSUME NEW t \in worker[w].tasks
      PROVE  t.job \in Jobs /\ job[t.job] \in JobRow
    BY <1>0, <1>1 DEF WorkerState, Task
<1>2. ASSUME NEW t \in worker[w].tasks, NEW status \in {"done", "later"},
             EndAttempt(w, t, status)
      PROVE  IInv'
  <2>1. /\ Returned(w, t) /\ UNCHANGED <<hint, outbox, faulty>>
        /\ ~Holds(w, t) => UNCHANGED job
        /\ Holds(w, t) =>
             job' = [job EXCEPT ![t.job] = [job[t.job] EXCEPT !.status = status, !.holder = NULL]]
      BY <1>0, <1>1, <1>2 DEF EndAttempt
  <2> DEFINE row == [job[t.job] EXCEPT !.status = status, !.holder = NULL]
  <2>2. row \in JobRow /\ row.holder = NULL
      BY <1>1 DEF JobRow
  <2> HIDE DEF row
  <2>3. Holds(w, t) => job' = [job EXCEPT ![t.job] = row]
      BY <2>1 DEF row
  <2>4. /\ job' \in [Jobs -> JobRow]
        /\ \A k \in Jobs : k # t.job => job'[k] = job[k]
        /\ Holds(w, t) => job'[t.job].holder = NULL
      BY <1>0, <1>1, <2>1, <2>2, <2>3
  <2> QED BY <2>1, <2>4, ReturnStep
<1>3. ASSUME NEW t \in worker[w].tasks, AbandonAttempt(w, t)
      PROVE  IInv'
  <2> DEFINE row == [job[t.job] EXCEPT !.abandoned = TRUE]
  <2>1. /\ Returned(w, t) /\ UNCHANGED <<hint, outbox, faulty>> /\ Holds(w, t)
        /\ job' = [job EXCEPT ![t.job] = row]
      BY <1>0, <1>1, <1>3 DEF AbandonAttempt
  <2>2. row \in JobRow /\ row.abandoned /\ row.status = job[t.job].status
      BY <1>1 DEF JobRow
  <2> HIDE DEF row
  <2>3. /\ job' \in [Jobs -> JobRow]
        /\ \A k \in Jobs : k # t.job => job'[k] = job[k]
        /\ job'[t.job].abandoned /\ job'[t.job].status = job[t.job].status
      BY <1>0, <1>1, <2>1, <2>2
  <2> QED BY <2>1, <2>3, ReturnStep
<1> QED BY <1>2, <1>3 DEF EndSomeAttempt

-----------------------------------------------------------------------------
(* Notifications and the budget of hints.                                  *)
LEMMA Broadcasting ==
  ASSUME NEW s \in [Workers -> WorkerState]
  PROVE  /\ Broadcast(s) \in [Workers -> WorkerState]
         /\ \A v \in Workers :
              /\ Broadcast(s)[v] = [s[v] EXCEPT !.mail = Broadcast(s)[v].mail]
              /\ Broadcast(s)[v].mail = IF s[v].listening THEN s[v].mail + 1 ELSE s[v].mail
<1>1. ASSUME NEW v \in Workers
      PROVE  /\ Broadcast(s)[v] \in WorkerState
             /\ Broadcast(s)[v] = [s[v] EXCEPT !.mail = Broadcast(s)[v].mail]
             /\ Broadcast(s)[v].mail = IF s[v].listening THEN s[v].mail + 1 ELSE s[v].mail
  <2>1. s[v] \in WorkerState
      OBVIOUS
  <2>2. CASE s[v].listening
    <3>1. Broadcast(s)[v] = [s[v] EXCEPT !.mail = @ + 1]
        BY <2>2 DEF Broadcast
    <3> QED BY <2>1, <2>2, <3>1 DEF WorkerState
  <2>3. CASE ~s[v].listening
    <3>1. Broadcast(s)[v] = s[v]
        BY <2>3 DEF Broadcast
    <3> QED BY <2>1, <2>3, <3>1 DEF WorkerState
  <2> QED BY <2>2, <2>3
<1>2. Broadcast(s) = [v \in Workers |-> Broadcast(s)[v]]
    BY DEF Broadcast
<1> QED BY <1>1, <1>2

(* What a step of somebody else, or of a subscription, leaves of Holding   *)
(* and TypeOK.                                                             *)
LEMMA Spared ==
  ASSUME TypeOK, Holding, worker' \in [Workers -> WorkerState],
         \A v \in Workers : worker'[v].pc = worker[v].pc /\ worker'[v].tasks = worker[v].tasks
  PROVE  /\ \A v \in Workers : IsFiniteSet(worker'[v].tasks) /\ IdleSlots(v)' = IdleSlots(v)
         /\ UNCHANGED job => Holding'
<1>1. \A v \in Workers : IsFiniteSet(worker'[v].tasks) /\ IdleSlots(v)' = IdleSlots(v)
    BY DEF TypeOK, IdleSlots
<1>2. ASSUME UNCHANGED job PROVE Holding'
    BY <1>2 DEF Holding, At
<1> QED BY <1>1, <1>2

LEMMA NotifyReapedStep ==
  ASSUME IInv, NEW w \in Workers, NotifyReaped(w)
  PROVE  IInv'
<1> DEFINE pc == IF worker[w].aborted THEN "draining" ELSE "acquire"
           s == [worker EXCEPT ![w].pc = pc]
<1>0. worker \in [Workers -> WorkerState] /\ worker[w] \in WorkerState
    BY DEF IInv, TypeOK
<1>1. At(w, "notify") /\ worker' = Broadcast(s) /\ UNCHANGED <<job, hint, outbox, faulty>>
    BY DEF NotifyReaped, Unless
<1>2. /\ s \in [Workers -> WorkerState] /\ s[w] = [worker[w] EXCEPT !.pc = pc]
      /\ \A v \in Workers : v # w => s[v] = worker[v]
  <2>1. [worker[w] EXCEPT !.pc = pc] \in WorkerState
      BY <1>0 DEF WorkerState
  <2> QED BY <1>0, <2>1
<1>3. s[w].pc = pc /\ s[w].tasks = worker[w].tasks /\ s[w].aborted = worker[w].aborted
    BY <1>0, <1>2 DEF WorkerState
<1> HIDE DEF s
<1>4. /\ worker' \in [Workers -> WorkerState]
      /\ \A v \in Workers : worker'[v] = [s[v] EXCEPT !.mail = worker'[v].mail]
    BY <1>1, <1>2, Broadcasting
<1>5. \A v \in Workers :
        /\ worker'[v].pc = s[v].pc /\ worker'[v].tasks = s[v].tasks
        /\ worker'[v].aborted = s[v].aborted /\ worker'[v].listening = s[v].listening
        /\ worker'[v].slotFree = s[v].slotFree
    BY <1>2, <1>4 DEF WorkerState
<1>6. \A v \in Workers : /\ worker'[v].tasks = worker[v].tasks
                         /\ IdleSlots(v)' = IdleSlots(v)
    BY <1>2, <1>3, <1>5 DEF IdleSlots
<1>7. TypeOK'
    BY <1>1, <1>4, <1>6 DEF IInv, TypeOK
<1>8. Holding'
  <2>1. \A v \in Workers : worker'[v].pc # "crashed" => worker[v].pc # "crashed"
      BY <1>1, <1>2, <1>5 DEF At
  <2>2. \A v \in Workers : worker'[v].pc = "stopped" => worker[v].pc = "stopped"
      BY <1>2, <1>3, <1>5
  <2> QED BY <1>1, <1>6, <2>1, <2>2 DEF IInv, Holding, At
<1>9. ASSUME ~faulty PROVE LoopsTurn' /\ LooksAnyway(w)'
  <2>1. pc = "acquire"
      BY <1>9 DEF IInv, Attentive, LoopsTurn
  <2>2. LoopsTurn
      BY <1>9 DEF IInv, Attentive
  <2>3. worker'[w].pc = "acquire" /\ ~worker'[w].aborted
      BY <1>3, <1>5, <2>1, <2>2 DEF LoopsTurn
  <2>4. ASSUME NEW v \in Workers, v # w
        PROVE  /\ worker'[v].pc = worker[v].pc /\ worker'[v].aborted = worker[v].aborted
               /\ worker'[v].listening = worker[v].listening
               /\ worker'[v].slotFree = worker[v].slotFree
      BY <1>2, <1>5, <2>4
  <2>5. LoopsTurn'
      BY <1>6, <2>2, <2>3, <2>4 DEF LoopsTurn
  <2> QED BY <2>3, <2>5 DEF LooksAnyway
<1>10. Attentive'
    BY <1>1, <1>9, Turning DEF Attentive
<1> QED BY <1>7, <1>8, <1>10 DEF IInv

(* A claim that finds the budget empty: then the job does not rest on it.  *)
LEMMA ConsumeStep ==
  ASSUME IInv, NEW w \in Workers, ConsumeWakeHint(w)
  PROVE  IInv'
<1> DEFINE told == worker[w].notified \/ Claims
           left == worker[w].mail - 1
           r == [worker[w] EXCEPT !.mail = left, !.notified = told]
<1>0. /\ worker \in [Workers -> WorkerState] /\ worker[w] \in WorkerState
      /\ hint \in Nat \cup {NULL} /\ worker[w].mail \in Nat /\ worker[w].mail > 0
    BY DEF IInv, TypeOK, WorkerState, ConsumeWakeHint
<1>1. /\ worker' = [worker EXCEPT ![w] = r] /\ hint' = AfterClaims(1)
      /\ UNCHANGED <<job, outbox, faulty>>
  <2>1. worker' = [worker EXCEPT ![w].mail = left, ![w].notified = told]
      BY <1>0 DEF ConsumeWakeHint
  <2> QED BY <1>0, <2>1 DEF ConsumeWakeHint
<1>2. told \in BOOLEAN /\ left \in Nat
  <2>1. told \in BOOLEAN
      BY Zenon
  <2>2. left \in Nat
      BY <1>0
  <2> QED BY <2>1, <2>2
<1> HIDE DEF told, left
<1>3. /\ r \in WorkerState /\ r.pc = worker[w].pc /\ r.tasks = worker[w].tasks
      /\ r.notified = told /\ r.slotFree = worker[w].slotFree
      /\ r.timerNow = worker[w].timerNow /\ r.timerFor = worker[w].timerFor
      /\ r.aborted = worker[w].aborted /\ r.listening = worker[w].listening
    BY <1>0, <1>2 DEF WorkerState
<1> HIDE DEF r
<1>4. /\ worker' \in [Workers -> WorkerState] /\ worker'[w] = r
      /\ \A v \in Workers : v # w => worker'[v] = worker[v]
    BY <1>0, <1>1, <1>3
<1>5. /\ \A v \in Workers : IsFiniteSet(worker'[v].tasks) /\ IdleSlots(v)' = IdleSlots(v)
      /\ Holding'
    BY <1>1, <1>3, <1>4, Spared DEF IInv
<1>6. TypeOK'
  <2>1. hint' \in Nat \cup {NULL}
      BY <1>0, <1>1, HintTypes
  <2> QED BY <1>1, <1>4, <1>5, <2>1 DEF IInv, TypeOK
<1>7. ASSUME ~faulty PROVE LoopsTurn'
    BY <1>3, <1>4, <1>5, <1>7 DEF IInv, Attentive, LoopsTurn
<1>8. CASE Claims
  <2>1. ASSUME ~faulty PROVE LooksAnyway(w)'
    <3>1. told
        BY <1>8 DEF told
    <3>2. worker'[w].notified
        BY <1>3, <1>4, <3>1
    <3> QED BY <1>7, <2>1, <3>2 DEF LoopsTurn, LooksAnyway, Alarm, At
  <2>2. Attentive'
      BY <1>1, <1>7, <2>1, Turning DEF Attentive
  <2> QED BY <1>5, <1>6, <2>2 DEF IInv
<1>9. CASE ~Claims
  <2>1. hint = 0 /\ hint' = 0
      BY <1>0, <1>1, <1>9, NullIsNeither DEF Claims, AfterClaims
  <2>2. told => worker[w].notified
      BY <1>9 DEF told
  <2>3. worker[w].notified => told
      BY DEF told
  <2>4. \A v \in Workers : LooksAnyway(v) => LooksAnyway(v)'
      BY <1>3, <1>4, <1>5, <2>3 DEF LooksAnyway, Alarm, At
  <2>5. \A v \in Workers, j \in Jobs : Timed(v, j) => Timed(v, j)'
      BY <1>1, <1>3, <1>4 DEF Timed, At
  <2>6. ASSUME ~faulty PROVE Remembered'
    <3>1. SUFFICES ASSUME NEW j \in Waiting, \A b \in outbox : b.next = "notify"
                   PROVE  (\E v \in Workers : LooksAnyway(v) \/ Timed(v, j))'
        BY <1>1 DEF Remembered, Waiting, In, LooksAnyway, WillLook
    <3>2. \E v \in Workers : LooksAnyway(v) \/ Timed(v, j)
        BY <2>1, <2>6, <3>1 DEF IInv, Attentive, Remembered
    <3>3. j \in Jobs
        BY DEF Waiting, In
    <3> QED BY <2>4, <2>5, <3>2, <3>3
  <2>7. Attentive'
      BY <1>1, <1>7, <2>6 DEF Attentive
  <2> QED BY <1>5, <1>6, <2>7 DEF IInv
<1> QED BY <1>8, <1>9

-----------------------------------------------------------------------------
(* Clients and time.                                                       *)
LEMMA CreateStep ==
  ASSUME IInv, NEW J \in SUBSET Jobs, NEW status \in {"later", "due"}, Create(J, status)
  PROVE  IInv'
<1> DEFINE b == [jobs |-> J, next |-> "hint"]
<1>1. /\ J # {} /\ J \subseteq In("absent") /\ UNCHANGED <<worker, hint, faulty>>
      /\ job' = [j \in Jobs |-> IF j \in J THEN [job[j] EXCEPT !.status = status] ELSE job[j]]
      /\ outbox' = outbox \cup {b}
    BY DEF Create
<1>2. \A j \in Jobs : /\ job'[j] \in JobRow
                      /\ job'[j].holder = job[j].holder /\ job'[j].attempt = job[j].attempt
                      /\ job'[j].abandoned = job[j].abandoned
                      /\ j \notin J => job'[j] = job[j]
  <2>1. ASSUME NEW j \in Jobs
        PROVE  /\ [job[j] EXCEPT !.status = status] \in JobRow
               /\ [job[j] EXCEPT !.status = status].holder = job[j].holder
               /\ [job[j] EXCEPT !.status = status].attempt = job[j].attempt
               /\ [job[j] EXCEPT !.status = status].abandoned = job[j].abandoned
      BY DEF IInv, TypeOK, JobRow
  <2> QED BY <1>1, <2>1 DEF IInv, TypeOK
<1>3. TypeOK'
  <2>1. job' \in [Jobs -> JobRow]
      BY <1>1, <1>2
  <2>2. outbox' \subseteq Publication /\ \A c \in outbox' : c.jobs # {}
    <3>1. b \in Publication /\ b.jobs # {}
        BY <1>1 DEF Publication
    <3>2. outbox \subseteq Publication /\ \A c \in outbox : c.jobs # {}
        BY DEF IInv, TypeOK
    <3> HIDE DEF b
    <3> QED BY <1>1, <3>1, <3>2
  <2> QED BY <1>1, <2>1, <2>2 DEF IInv, TypeOK, IdleSlots
<1>4. Holding'
  <2>1. \A j \in Jobs : job'[j].holder # NULL => job'[j].status \in {"running", "expired"}
      BY <1>1, <1>2 DEF IInv, Holding, In
  <2> QED BY <1>1, <1>2, <2>1 DEF IInv, Holding, At
<1>5. Attentive'
  <2>1. b \in outbox' /\ b.next # "notify"
      BY <1>1
  <2>2. Remembered'
      BY <2>1 DEF Remembered
  <2> QED BY <1>1, <2>2 DEF IInv, Attentive, LoopsTurn, IdleSlots
<1> QED BY <1>3, <1>4, <1>5 DEF IInv

(* The job table and the workers are left alone.                           *)
LEMMA OnlyPublished ==
  ASSUME IInv, UNCHANGED <<job, worker>>,
         hint' \in Nat \cup {NULL}, faulty' \in BOOLEAN,
         outbox' \subseteq Publication, \A b \in outbox' : b.jobs # {},
         ~faulty' => ~faulty /\ Remembered'
  PROVE  IInv'
<1>1. TypeOK'
    BY DEF IInv, TypeOK, IdleSlots
<1>2. Holding'
    BY DEF IInv, Holding, At
<1>3. Attentive'
    BY DEF IInv, Attentive, LoopsTurn, IdleSlots
<1> QED BY <1>1, <1>2, <1>3 DEF IInv

LEMMA PublicationSteps ==
  ASSUME IInv, NEW b \in outbox, ProvideWakeHint(b) \/ LosePublication(b)
  PROVE  IInv'
<1>0. /\ outbox \subseteq Publication /\ \A c \in outbox : c.jobs # {}
      /\ b.jobs \in SUBSET Jobs /\ b.jobs # {} /\ hint \in Nat \cup {NULL} /\ faulty \in BOOLEAN
    BY DEF IInv, TypeOK, Publication
<1>1. CASE ProvideWakeHint(b)
  <2> DEFINE n == Cardinality(b.jobs)
             c == [b EXCEPT !.next = "notify"]
  <2>1. /\ UNCHANGED <<job, worker, faulty>> /\ hint' = Budget(n)
        /\ outbox' = (outbox \ {b}) \cup {c}
      BY <1>1 DEF ProvideWakeHint
  <2>2. n \in Nat /\ n # 0
      BY <1>0, JobsFinite, FS_Subset, FS_CardinalityType, FS_EmptySet
  <2> HIDE DEF n
  <2>3. hint' \in Nat /\ hint' # 0
      BY <1>0, <2>1, <2>2 DEF Budget
  <2>4. c \in Publication /\ c.jobs # {}
      BY <1>0 DEF Publication
  <2> HIDE DEF c
  <2>5. Remembered'
      BY <2>1, <2>3 DEF Remembered
  <2> QED BY <1>0, <2>1, <2>3, <2>4, <2>5, OnlyPublished
<1>2. CASE LosePublication(b)
  <2>1. faulty' = TRUE /\ outbox' = outbox \ {b} /\ UNCHANGED <<job, worker, hint>>
      BY <1>2 DEF LosePublication, Fault
  <2> QED BY <1>0, <2>1, OnlyPublished
<1> QED BY <1>1, <1>2

(* A notification finds, among the workers that wait, one that listens, or *)
(* none that has an idle slot and is not about to look.                    *)
LEMMA NotifyStep ==
  ASSUME IInv, NEW b \in outbox, NotifyJobScheduled(b)
  PROVE  IInv'
<1>0. worker \in [Workers -> WorkerState]
    BY DEF IInv, TypeOK
<1>1. /\ b.next = "notify" /\ worker' = Broadcast(worker) /\ outbox' = outbox \ {b}
      /\ UNCHANGED <<job, hint, faulty>>
    BY DEF NotifyJobScheduled
<1>2. /\ worker' \in [Workers -> WorkerState]
      /\ \A v \in Workers :
           /\ worker'[v] = [worker[v] EXCEPT !.mail = worker'[v].mail]
           /\ worker'[v].mail = IF worker[v].listening THEN worker[v].mail + 1 ELSE worker[v].mail
    BY <1>0, <1>1, Broadcasting
<1>3. \A v \in Workers :
        /\ worker'[v].pc = worker[v].pc /\ worker'[v].tasks = worker[v].tasks
        /\ worker'[v].listening = worker[v].listening /\ worker'[v].aborted = worker[v].aborted
        /\ worker'[v].slotFree = worker[v].slotFree /\ worker'[v].notified = worker[v].notified
        /\ worker'[v].timerNow = worker[v].timerNow /\ worker'[v].timerFor = worker[v].timerFor
        /\ worker[v].mail \in Nat
    BY <1>0, <1>2 DEF WorkerState
<1>4. /\ \A v \in Workers : IsFiniteSet(worker'[v].tasks) /\ IdleSlots(v)' = IdleSlots(v)
      /\ Holding'
    BY <1>1, <1>2, <1>3, Spared DEF IInv
<1>5. TypeOK'
    BY <1>1, <1>2, <1>4 DEF IInv, TypeOK
<1>6. ASSUME ~faulty PROVE LoopsTurn' /\ Remembered'
  <2>1. LoopsTurn'
      BY <1>3, <1>4, <1>6 DEF IInv, Attentive, LoopsTurn
  <2>2. \A v \in Workers : WillLook(v)'
    <3>1. SUFFICES ASSUME NEW v \in Workers, worker[v].pc = "sleep" PROVE WillLook(v)'
        BY <1>3, <2>1 DEF LoopsTurn, WillLook
    <3>2. worker[v].listening \/ IdleSlots(v) = 0 \/ worker[v].slotFree
        BY <1>6, <3>1 DEF IInv, Attentive, LoopsTurn
    <3>3. worker'[v].pc = "sleep"
        BY <1>3, <3>1
    <3>4. CASE worker[v].listening
      <4>1. worker'[v].mail > 0
          BY <1>2, <1>3, <3>4
      <4> QED BY <3>3, <4>1 DEF WillLook, At
    <3>5. CASE IdleSlots(v) = 0
        BY <1>4, <3>3, <3>5 DEF WillLook, At
    <3>6. CASE worker[v].slotFree
        BY <1>3, <3>3, <3>6 DEF WillLook, Alarm, At
    <3> QED BY <3>2, <3>4, <3>5, <3>6
  <2>3. \A v \in Workers : LooksAnyway(v) => LooksAnyway(v)'
      BY <1>3, <1>4 DEF LooksAnyway, Alarm, At
  <2>4. \A v \in Workers, j \in Jobs : Timed(v, j) => Timed(v, j)'
      BY <1>1, <1>3 DEF Timed, At
  <2>5. ASSUME NEW j \in Jobs, j \in Waiting, hint = 0, \A c \in outbox' : c.next = "notify"
        PROVE  (\E v \in Workers : LooksAnyway(v) \/ Timed(v, j))'
    <3>1. \A c \in outbox : c.next = "notify"
        BY <1>1, <2>5
    <3>2. \E v \in Workers : LooksAnyway(v) \/ Timed(v, j)
        BY <1>6, <2>5, <3>1 DEF IInv, Attentive, Remembered
    <3> QED BY <2>3, <2>4, <3>2
  <2>6. Waiting' = Waiting /\ Waiting \subseteq Jobs
      BY <1>1 DEF Waiting, In
  <2>7. Remembered'
      BY SomeWorker, <1>1, <2>2, <2>5, <2>6 DEF Remembered
  <2> QED BY <2>1, <2>7
<1>7. Attentive'
    BY <1>1, <1>6 DEF Attentive
<1> QED BY <1>4, <1>5, <1>7 DEF IInv

LEMMA HintStep ==
  ASSUME IInv, HintExpires
  PROVE  IInv'
<1>1. hint' = NULL /\ UNCHANGED <<job, worker, outbox, faulty>>
    BY DEF HintExpires
<1>2. NULL # 0
    BY NullIsNeither
<1>3. ASSUME ~faulty PROVE Remembered'
  <2>1. SUFFICES ASSUME NEW j \in Waiting, outbox = {}
                 PROVE  (\E w \in Workers : WillLook(w) \/ Timed(w, j))'
      BY <1>1, <1>2 DEF Remembered, Waiting, In
  <2>2. \E w \in Workers : WillLook(w) \/ Timed(w, j)
      BY <1>3, <2>1 DEF IInv, Attentive, Remembered
  <2> QED BY <1>1, <2>2 DEF WillLook, Timed, Alarm, At, IdleSlots
<1> QED BY <1>1, <1>3, OnlyPublished DEF IInv, TypeOK

(* A scheduled job comes due: whoever had set a timer for it looks.        *)
LEMMA ComeDueStep ==
  ASSUME IInv, NEW j \in Jobs, ComeDue(j)
  PROVE  IInv'
<1>0. worker \in [Workers -> WorkerState] /\ job \in [Jobs -> JobRow]
    BY DEF IInv, TypeOK
<1>1. /\ job[j].status = "later" /\ job' = [job EXCEPT ![j].status = "due"]
      /\ UNCHANGED <<hint, outbox, faulty>>
    BY DEF ComeDue
<1>2. /\ worker' \in [Workers -> WorkerState]
      /\ \A v \in Workers :
           /\ j \in worker[v].timerFor =>
                worker'[v] = [worker[v] EXCEPT !.timerNow = TRUE, !.timerFor = {}]
           /\ j \notin worker[v].timerFor => worker'[v] = worker[v]
  <2>1. \A v \in Workers : [worker[v] EXCEPT !.timerNow = TRUE, !.timerFor = {}] \in WorkerState
      BY <1>0 DEF WorkerState
  <2> QED BY <1>0, <2>1 DEF ComeDue
<1>3. \A v \in Workers :
        /\ worker'[v].pc = worker[v].pc /\ worker'[v].tasks = worker[v].tasks
        /\ worker'[v].listening = worker[v].listening /\ worker'[v].aborted = worker[v].aborted
        /\ worker'[v].slotFree = worker[v].slotFree /\ worker'[v].notified = worker[v].notified
        /\ worker'[v].mail = worker[v].mail
        /\ worker[v].timerNow => worker'[v].timerNow
        /\ j \in worker[v].timerFor => worker'[v].timerNow
        /\ j \notin worker[v].timerFor => worker'[v].timerFor = worker[v].timerFor
  <2>1. ASSUME NEW v \in Workers, j \in worker[v].timerFor
        PROVE  LET s == [worker[v] EXCEPT !.timerNow = TRUE, !.timerFor = {}]
               IN  /\ s.pc = worker[v].pc /\ s.tasks = worker[v].tasks
                   /\ s.listening = worker[v].listening /\ s.aborted = worker[v].aborted
                   /\ s.slotFree = worker[v].slotFree /\ s.notified = worker[v].notified
                   /\ s.mail = worker[v].mail /\ s.timerNow
    <3>1. worker[v] \in WorkerState
        BY <1>0
    <3> QED BY <3>1 DEF WorkerState
  <2> QED BY <1>2, <2>1
<1>4. /\ job' \in [Jobs -> JobRow] /\ job'[j].status = "due"
      /\ job'[j].holder = job[j].holder /\ job'[j].attempt = job[j].attempt
      /\ job'[j].abandoned = job[j].abandoned
      /\ \A k \in Jobs : k # j => job'[k] = job[k]
    BY <1>0, <1>1 DEF JobRow
<1>5. \A v \in Workers : IsFiniteSet(worker'[v].tasks) /\ IdleSlots(v)' = IdleSlots(v)
    BY <1>2, <1>3, Spared DEF IInv
<1>6. TypeOK'
    BY <1>1, <1>2, <1>4, <1>5 DEF IInv, TypeOK
<1>7. Holding'
    BY <1>1, <1>3, <1>4 DEF IInv, Holding, At
<1>8. \A v \in Workers : /\ LooksAnyway(v) => LooksAnyway(v)'
                         /\ WillLook(v) => WillLook(v)'
    BY <1>3, <1>5 DEF LooksAnyway, WillLook, Alarm, At
<1>9. ASSUME NEW v \in Workers, NEW k \in Jobs, Timed(v, k)
      PROVE  LooksAnyway(v)' \/ Timed(v, k)'
  <2>1. CASE j \in worker[v].timerFor
      BY <1>3, <1>9, <2>1 DEF LooksAnyway, Timed, Alarm, At
  <2>2. CASE j \notin worker[v].timerFor
    <3>1. k # j
        BY <1>9, <2>2 DEF Timed
    <3> QED BY <1>3, <1>4, <1>9, <2>2, <3>1 DEF Timed, At
  <2> QED BY <2>1, <2>2
<1>10. Waiting' = Waiting /\ Waiting \subseteq Jobs
  <2>1. \A k \in Jobs : k \in Waiting' <=> k \in Waiting
      BY <1>1, <1>4 DEF Waiting, In
  <2> QED BY <2>1 DEF Waiting, In
<1>11. ASSUME ~faulty PROVE LoopsTurn' /\ Remembered'
  <2>1. LoopsTurn'
      BY <1>3, <1>5, <1>11 DEF IInv, Attentive, LoopsTurn
  <2>2. \A v \in Workers : LooksAnyway(v)' => WillLook(v)'
      BY DEF LooksAnyway, WillLook
  <2>3. Remembered
      BY <1>11 DEF IInv, Attentive
  <2>4. ASSUME NEW k \in Waiting, outbox = {}
        PROVE  (\E w \in Workers : WillLook(w) \/ Timed(w, k))'
      BY <1>8, <1>9, <1>10, <2>2, <2>3, <2>4 DEF Remembered
  <2>5. ASSUME NEW k \in Waiting, hint = 0, \A b \in outbox : b.next = "notify"
        PROVE  (\E w \in Workers : LooksAnyway(w) \/ Timed(w, k))'
      BY <1>8, <1>9, <1>10, <2>3, <2>5 DEF Remembered
  <2>6. Remembered'
      BY <1>1, <1>10, <2>4, <2>5 DEF Remembered
  <2> QED BY <2>1, <2>6
<1>12. Attentive'
    BY <1>1, <1>11 DEF Attentive
<1> QED BY <1>6, <1>7, <1>12 DEF IInv

LEMMA ExpireStep ==
  ASSUME IInv, NEW j \in Jobs, ExpireLease(j)
  PROVE  IInv'
<1>0. job \in [Jobs -> JobRow]
    BY DEF IInv, TypeOK
<1>1. /\ job[j].status = "running" /\ job' = [job EXCEPT ![j].status = "expired"]
      /\ UNCHANGED <<worker, hint, outbox, faulty>>
    BY DEF ExpireLease
<1>2. /\ job' \in [Jobs -> JobRow] /\ job'[j].status = "expired"
      /\ job'[j].holder = job[j].holder /\ job'[j].attempt = job[j].attempt
      /\ job'[j].abandoned = job[j].abandoned
      /\ \A k \in Jobs : k # j => job'[k] = job[k]
    BY <1>0, <1>1 DEF JobRow
<1>3. TypeOK'
    BY <1>1, <1>2 DEF IInv, TypeOK, IdleSlots
<1>4. Holding'
    BY <1>1, <1>2 DEF IInv, Holding, At
<1>5. \A k \in Waiting' : k \in Waiting /\ k \in Jobs /\ k # j
    BY <1>1, <1>2 DEF Waiting, In
<1>6. \A v \in Workers : /\ LooksAnyway(v)' <=> LooksAnyway(v)
                         /\ WillLook(v)' <=> WillLook(v)
    BY <1>1 DEF LooksAnyway, WillLook, Alarm, At, IdleSlots
<1>7. \A v \in Workers, k \in Jobs : k # j => (Timed(v, k)' <=> Timed(v, k))
    BY <1>1, <1>2 DEF Timed, At
<1>8. Attentive'
  <2>1. ASSUME ~faulty PROVE LoopsTurn'
      BY <1>1, <2>1 DEF IInv, Attentive, LoopsTurn, IdleSlots
  <2>2. ASSUME ~faulty PROVE Remembered'
    <3>1. Remembered
        BY <2>2 DEF IInv, Attentive
    <3> QED BY <1>1, <1>5, <1>6, <1>7, <3>1 DEF Remembered
  <2> QED BY <1>1, <2>1, <2>2 DEF Attentive
<1> QED BY <1>3, <1>4, <1>8 DEF IInv

LEMMA CrashStep ==
  ASSUME IInv, NEW w \in Workers, Crash(w)
  PROVE  IInv'
<1> DEFINE r == [Starting EXCEPT !.pc = "crashed"]
<1>1. worker' = [worker EXCEPT ![w] = r] /\ faulty' = TRUE /\ UNCHANGED <<job, hint, outbox>>
    BY DEF Crash, Fault
<1>2. r \in WorkerState /\ r.pc = "crashed" /\ r.tasks = {}
    BY DEF Starting, WorkerState
<1> HIDE DEF r
<1>3. IsFiniteSet(r.tasks) /\ Concurrency[w] - Cardinality(r.tasks) \in Nat
    BY <1>2, ConcurrencyType, FS_EmptySet
<1>4. /\ worker' \in [Workers -> WorkerState] /\ worker'[w] = r
      /\ \A v \in Workers : v # w => worker'[v] = worker[v] /\ IdleSlots(v)' = IdleSlots(v)
      /\ \A v \in Workers : IsFiniteSet(worker'[v].tasks) /\ IdleSlots(v)' \in Nat
    BY <1>1, <1>2, <1>3, OneWorker DEF IInv
<1>5. TypeOK'
    BY <1>1, <1>4 DEF IInv, TypeOK
<1>6. Holding'
    BY <1>1, <1>2, <1>4 DEF IInv, Holding, At
<1>7. Attentive'
    BY <1>1 DEF Attentive
<1> QED BY <1>5, <1>6, <1>7 DEF IInv

-----------------------------------------------------------------------------
LEMMA InitInv == Init => IInv
<1> SUFFICES ASSUME Init PROVE IInv
    OBVIOUS
<1>1. /\ job = [j \in Jobs |->
                 [status |-> "absent", attempt |-> 0, holder |-> NULL, abandoned |-> FALSE]]
      /\ worker = [w \in Workers |-> Starting] /\ hint = NULL /\ outbox = {} /\ faulty = FALSE
    BY DEF Init
<1>2. /\ Starting \in WorkerState /\ Starting.tasks = {} /\ Starting.pc = "acquire"
      /\ ~Starting.aborted
    BY DEF Starting, WorkerState
<1>3. IsFiniteSet({}) /\ Cardinality({}) = 0
    BY FS_EmptySet
<1>4. TypeOK
  <2>1. job \in [Jobs -> JobRow]
      BY <1>1 DEF JobRow
  <2>2. worker \in [Workers -> WorkerState]
      BY <1>1, <1>2
  <2>3. ASSUME NEW w \in Workers
        PROVE  IsFiniteSet(worker[w].tasks) /\ IdleSlots(w) \in Nat
    <3>1. worker[w].tasks = {}
        BY <1>1, <1>2
    <3>2. Concurrency[w] \in Nat
        BY ConcurrencyType
    <3> QED BY <1>3, <3>1, <3>2 DEF IdleSlots
  <2> QED BY <1>1, <2>1, <2>2, <2>3 DEF TypeOK
<1>5. Holding
    BY NullIsNeither, <1>1, <1>2 DEF Holding, At
<1>6. LoopsTurn /\ Remembered
    BY <1>1, <1>2 DEF LoopsTurn, Remembered, Waiting, In
<1> QED BY <1>4, <1>5, <1>6 DEF IInv, Attentive

LEMMA NextInv == IInv /\ [Next]_vars => IInv'
<1> SUFFICES ASSUME IInv, [Next]_vars PROVE IInv'
    OBVIOUS
<1>1. ASSUME NEW J \in SUBSET Jobs, NEW status \in {"later", "due"}, Create(J, status)
      PROVE  IInv'
    BY <1>1, CreateStep
<1>2. CASE Publish
    BY <1>2, PublicationSteps, NotifyStep DEF Publish
<1>3. CASE HintExpires
    BY <1>3, HintStep
<1>4. ASSUME NEW j \in Jobs, ComeDue(j) \/ ExpireLease(j) PROVE IInv'
    BY <1>4, ComeDueStep, ExpireStep
<1>5. ASSUME NEW w \in Workers, LoopStep(w) PROVE IInv'
  <2>1. ASSUME NEW j \in Jobs, AcquireJob(w, j) \/ Reap(w, j) PROVE IInv'
      BY <2>1, AcquireStep, ReapStep
  <2>2. CASE \/ NothingToAcquire(w) \/ NothingToReap(w) \/ StoppedListening(w)
             \/ Wake(w) \/ WakeByPoll(w) \/ Recover(w) \/ Drained(w)
      BY <2>2, SimpleSteps
  <2>3. CASE ProvideReaped(w) \/ LoseReaped(w)
      BY <2>3, PublishingSteps
  <2>4. CASE NotifyReaped(w)
      BY <2>4, NotifyReapedStep
  <2>5. CASE Listen(w) \/ Dispose(w)
      BY <2>5, WaitingSteps
  <2>6. CASE Check(w)
      BY <2>6, CheckStep
  <2> QED BY <1>5, <2>1, <2>2, <2>3, <2>4, <2>5, <2>6 DEF LoopStep
<1>6. ASSUME NEW w \in Workers, ConsumeWakeHint(w) PROVE IInv'
    BY <1>6, ConsumeStep
<1>7. ASSUME NEW w \in Workers, EndSomeAttempt(w) PROVE IInv'
    BY <1>7, AttemptStep
<1>8. ASSUME NEW w \in Workers, LoopFails(w) \/ Stop(w) PROVE IInv'
    BY <1>8, FaultSteps
<1>9. ASSUME NEW w \in Workers, Crash(w) PROVE IInv'
    BY <1>9, CrashStep
<1>10. CASE UNCHANGED vars
  <2>1. TypeOK' /\ Holding'
      BY <1>10 DEF vars, IInv, TypeOK, Holding, At, IdleSlots
  <2>2. Attentive'
      BY <1>10 DEF vars, IInv, Attentive, LoopsTurn, Remembered, Waiting, In, LooksAnyway,
                   WillLook, Timed, Alarm, At, IdleSlots
  <2> QED BY <2>1, <2>2 DEF IInv
<1> QED BY <1>1, <1>2, <1>3, <1>4, <1>5, <1>6, <1>7, <1>8, <1>9, <1>10 DEF Next

LEMMA Invariant == Spec => []IInv
BY InitInv, NextInv, PTL DEF Spec

-----------------------------------------------------------------------------
(* stop() leaves no lease behind but those that attempts gave up of        *)
(* themselves, for any number of workers, slots, jobs and failures.        *)
THEOREM StopWaitsForAttempts == Spec => []StopAbandonsNothing
<1>1. IInv => StopAbandonsNothing
    BY DEF IInv, Holding, StopAbandonsNothing, At
<1> QED BY <1>1, Invariant, PTL

(* Without a failure no due job is left to the poll timer, for any number  *)
(* of workers and slots and any budget of hints.                           *)
THEOREM DueJobsAreNoticed == Spec => []NoJobIsForgotten
<1>1. IInv => NoJobIsForgotten
  <2>1. SUFFICES ASSUME IInv, ~faulty, NEW j \in In("due"), outbox = {}
                 PROVE  \E w \in Workers : WillLook(w)
      BY DEF NoJobIsForgotten
  <2>2. j \in Jobs /\ job[j].status = "due" /\ j \in Waiting
      BY DEF In, Waiting
  <2>3. \E w \in Workers : WillLook(w) \/ Timed(w, j)
      BY <2>1, <2>2 DEF IInv, Attentive, Remembered
  <2> QED BY <2>2, <2>3 DEF Timed
<1> QED BY <1>1, Invariant, PTL

(* The worker, the table and the budget stay within their types, no worker *)
(* runs more attempts than it has slots.                                   *)
THEOREM WorkerTypes == Spec => []TypeOK
<1>1. IInv => TypeOK
    BY DEF IInv
<1> QED BY <1>1, Invariant, PTL
=============================================================================
