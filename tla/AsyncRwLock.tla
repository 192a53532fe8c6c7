---------------------------- MODULE AsyncRwLock ----------------------------
(***************************************************************************)
(* The read-write lock of core/src/helpers/async-rw-lock.ts.  The          *)
(* in-process state adapter takes it in write mode for a whole             *)
(* transaction, and SQLite state providers serialise their writers with    *)
(* it, so every claim that a transaction is atomic rests on this module.   *)
(*                                                                         *)
(* A client is one caller that holds at most one handle at a time.  An     *)
(* acquire is synchronous up to the promise it returns, and a release runs *)
(* drain() before it returns: each is one action.  A released handle stays *)
(* in the caller's hands, who may release it again (an explicit release    *)
(* followed by the disposal of a `using` declaration).                     *)
(***************************************************************************)
EXTENDS Naturals, Sequences, FiniteSets

CONSTANT Clients

ASSUME ClientsFinite == IsFiniteSet(Clients)

VARIABLES
  queue,         \* the waiters, in the order of their acquire calls
  readers,       \* number of read handles outstanding
  writerActive,  \* whether a write handle is outstanding
  handle         \* what each client has: nothing, a wait, a handle, a spent one

vars == <<queue, readers, writerActive, handle>>

Waiter == [who : Clients, kind : {"read", "write"}]

HandleState == {"none", "awaitRead", "awaitWrite", "read", "write",
                "releasedRead", "releasedWrite"}

NotUsing(c) == handle[c] \in {"none", "releasedRead", "releasedWrite"}

Init ==
  /\ queue = <<>>
  /\ readers = 0
  /\ writerActive = FALSE
  /\ handle = [c \in Clients |-> "none"]

-----------------------------------------------------------------------------
(* Waiters at the head of the queue that one drain() hands the lock to,    *)
(* when r readers and no writer remain: a writer alone, or the whole run   *)
(* of readers in front of the next writer.                                 *)

OneLeadingRead ==                        \* mutation: grants one reader only
  IF queue # <<>> /\ queue[1].kind = "read" THEN 1 ELSE 0

LeadingReads ==
  CHOOSE n \in 0 .. Len(queue) :
    /\ \A i \in 1 .. n : queue[i].kind = "read"
    /\ n < Len(queue) => queue[n + 1].kind = "write"

Grants(r) ==
  IF queue # <<>> /\ queue[1].kind = "write"
  THEN IF r = 0 THEN 1 ELSE 0
  ELSE LeadingReads

(* drain() called with r readers and no writer left, after client c's      *)
(* handle became spent.                                                    *)
Drain(c, spent, r) ==
  LET n == Grants(r)
      granted == {queue[i].who : i \in 1 .. n}
      toWriter == n > 0 /\ queue[1].kind = "write"
  IN  /\ queue' = SubSeq(queue, n + 1, Len(queue))
      /\ writerActive' = toWriter
      /\ readers' = IF toWriter THEN r ELSE r + n
      /\ handle' = [d \in Clients |->
                      IF d = c THEN spent
                      ELSE IF d \notin granted THEN handle[d]
                      ELSE IF toWriter THEN "write" ELSE "read"]

-----------------------------------------------------------------------------
AcquireReadPastQueue(c) ==               \* mutation: ignores the queue
  /\ NotUsing(c) /\ ~writerActive
  /\ readers' = readers + 1
  /\ handle' = [handle EXCEPT ![c] = "read"]
  /\ UNCHANGED <<queue, writerActive>>

AcquireReadNow(c) ==
  /\ NotUsing(c)
  /\ ~writerActive /\ queue = <<>>
  /\ readers' = readers + 1
  /\ handle' = [handle EXCEPT ![c] = "read"]
  /\ UNCHANGED <<queue, writerActive>>

AcquireReadLater(c) ==
  /\ NotUsing(c)
  /\ writerActive \/ queue # <<>>
  /\ queue' = Append(queue, [who |-> c, kind |-> "read"])
  /\ handle' = [handle EXCEPT ![c] = "awaitRead"]
  /\ UNCHANGED <<readers, writerActive>>

AcquireWriteNow(c) ==
  /\ NotUsing(c)
  /\ ~writerActive /\ readers = 0 /\ queue = <<>>
  /\ writerActive' = TRUE
  /\ handle' = [handle EXCEPT ![c] = "write"]
  /\ UNCHANGED <<queue, readers>>

AcquireWriteLater(c) ==
  /\ NotUsing(c)
  /\ writerActive \/ readers # 0 \/ queue # <<>>
  /\ queue' = Append(queue, [who |-> c, kind |-> "write"])
  /\ handle' = [handle EXCEPT ![c] = "awaitWrite"]
  /\ UNCHANGED <<readers, writerActive>>

(* onReadRelease drains only when the last reader leaves.                  *)
ReleaseRead(c) ==
  /\ handle[c] = "read"
  /\ IF readers = 1
     THEN Drain(c, "releasedRead", 0)
     ELSE /\ readers' = readers - 1
          /\ handle' = [handle EXCEPT ![c] = "releasedRead"]
          /\ UNCHANGED <<queue, writerActive>>

ReleaseWrite(c) ==
  /\ handle[c] = "write"
  /\ Drain(c, "releasedWrite", readers)

ReleaseAgainCounted(c) ==                \* mutation: no `released` flag
  /\ handle[c] = "releasedRead"
  /\ readers' = readers - 1
  /\ UNCHANGED <<queue, writerActive, handle>>

(* The `released` flag of makeHandle turns a second release into a no-op.  *)
ReleaseAgain(c) ==
  /\ handle[c] \in {"releasedRead", "releasedWrite"}
  /\ UNCHANGED vars

Release(c) == ReleaseRead(c) \/ ReleaseWrite(c)

Acquire(c) ==
  \/ AcquireReadNow(c) \/ AcquireReadLater(c)
  \/ AcquireWriteNow(c) \/ AcquireWriteLater(c)

Next == \E c \in Clients : Acquire(c) \/ Release(c) \/ ReleaseAgain(c)

(* A holder releases in the end: every use in the repository is scoped by  *)
(* `using` or by the end of a transaction.  Nothing is assumed of acquires.*)
Fairness == \A c \in Clients : WF_vars(Release(c))

Spec == Init /\ [][Next]_vars /\ Fairness

-----------------------------------------------------------------------------
Readers == {c \in Clients : handle[c] = "read"}
Writers == {c \in Clients : handle[c] = "write"}
Waiting(c) == handle[c] \in {"awaitRead", "awaitWrite"}

TypeOK ==
  /\ queue \in Seq(Waiter)
  /\ readers \in Nat
  /\ writerActive \in BOOLEAN
  /\ handle \in [Clients -> HandleState]

(* While a writer holds the lock nobody else does, reader or writer: the   *)
(* exclusion the transactions of the in-process adapter are built on       *)
(* (async-rw-lock.ts, "writers are exclusive").                            *)
MutualExclusion ==
  \A c \in Writers : \A d \in Clients \ {c} : handle[d] \notin {"read", "write"}

(* The counters say what is really held, so no release (a repeated one     *)
(* least of all) can free the lock under a holder or leave it taken for    *)
(* good.                                                                   *)
CountersExact ==
  /\ readers = Cardinality(Readers)
  /\ writerActive = (Writers # {})

(* Nobody waits for a free lock, and the head of the queue never waits     *)
(* for holders it is compatible with: drain() missed no wake-up.           *)
NoMissedGrant ==
  queue # <<>> => \/ writerActive
                  \/ readers > 0 /\ queue[1].kind = "write"

(* "Waiters are served in FIFO order": a client that gets the lock in a    *)
(* step never passes one that was queued before it, and never passes the   *)
(* queue as a whole by arriving late.                                      *)
NoOvertaking ==
  [][\A i \in 1 .. Len(queue), c \in Clients :
       LET ahead == queue[i].who IN
         /\ handle[c] \notin {"read", "write"}
         /\ handle'[c] \in {"read", "write"}
         /\ \A j \in 1 .. i : queue[j].who # c
         => handle'[ahead] \in {"read", "write"}]_vars

(* "Starvation-free": whoever waits gets the lock, readers and writers     *)
(* alike, however many others keep acquiring.                              *)
EveryWaiterServed ==
  \A c \in Clients : Waiting(c) ~> handle[c] \in {"read", "write"}
=============================================================================
