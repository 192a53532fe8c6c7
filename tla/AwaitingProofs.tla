--------------------------- MODULE AwaitingProofs ---------------------------
(***************************************************************************)
(* Proofs about ChainAwaiting, for any number of waiting calls and other   *)
(* listeners and any faults: as long as nothing fails no completion is     *)
(* missed, a shared listener that runs is heard, and the connection goes   *)
(* back to the pool.                                                       *)
(*                                                                         *)
(* The invariant relates the program counter of every listener to the lock *)
(* and callbacks of its shared listener, to the handlers of the provider   *)
(* and to the queries that are under way.                                  *)
(***************************************************************************)
EXTENDS ChainAwaiting, TLAPS

Locking == {"connect", "listen", "unlisten"}

Joined == {"check", "decide", "sleep", "subscribed", "dispose"}

TypeOK ==
  /\ chain \in {"open", "completed", "deleted"}
  /\ published \in {"none", "pending", "sent"}
  /\ mail \in BOOLEAN /\ faulty \in BOOLEAN
  /\ caller \in [Listeners -> Caller]
  /\ shared \in [Channels -> Shared]
  /\ client \in {"none", "connecting", "attached", "broken", "rejected"}
  /\ handlers \in SUBSET Channels /\ listened \in SUBSET Channels
  /\ queue \in Seq(Query)

(* Who holds the lock of a shared listener is opening or closing it, and   *)
(* it does not run meanwhile.                                              *)
LocksHeld ==
  /\ \A l \in Listeners : caller[l].pc \in Locking <=> shared[ChannelOf(l)].lock = l
  /\ \A c \in Channels : shared[c].lock # NULL =>
       ChannelOf(shared[c].lock) = c /\ ~shared[c].running

(* A query under way is the one its listener waits for, and its only one.  *)
Queued ==
  /\ \A i \in 1 .. Len(queue) : At(queue[i].by, queue[i].op)
  /\ \A i, k \in 1 .. Len(queue) : queue[i].by = queue[k].by => i = k

(* The callbacks of a shared listener are the listeners that have          *)
(* subscribed and not yet left; it runs while there is one.                *)
Membership ==
  /\ \A l \in Listeners :
       /\ l \in shared[ChannelOf(l)].callbacks <=> caller[l].pc \in Joined
       /\ caller[l].subscribed <=> caller[l].pc \in Joined \cup {"unlisten"}
  /\ \A c \in Channels :
       /\ shared[c].running <=> shared[c].callbacks # {}
       /\ \A l \in shared[c].callbacks : ChannelOf(l) = c

(* The connection is attached for the handlers, and after the last one for *)
(* the UNLISTEN that will release it.                                      *)
Connection ==
  /\ client \in {"none", "connecting", "attached"}
  /\ client = "connecting" <=> \E l \in Listeners : At(l, "connect")
  /\ handlers # {} => client = "attached"
  /\ client = "attached" => handlers # {} \/ \E i \in 1 .. Len(queue) : queue[i].op = "unlisten"
  /\ \A c \in Channels :
       /\ c \in handlers <=>
            shared[c].running \/ \E l \in Listeners : ChannelOf(l) = c /\ At(l, "listen")
       /\ shared[c].running => c \in listened

WouldSleep(r) == r.pc = "sleep" \/ (r.pc = "decide" /\ r.seen = "open")

(* NoCompletionMissed, from the moment a call has read the open chain.     *)
Heard ==
  /\ chain = "open" => published = "none"
  /\ chain = "completed" => published # "none"
  /\ chain = "completed" /\ published = "sent" =>
       \A w \in Waiters : WouldSleep(caller[w]) =>
         mail \/ caller[w].notified \/ caller[w].aborted

Undisturbed == Membership /\ Connection /\ Heard

IInv == TypeOK /\ LocksHeld /\ Queued /\ (~faulty => Undisturbed)

-----------------------------------------------------------------------------
(* Facts about listeners, channels and queues.                             *)

LEMMA ChannelFacts ==
  /\ \A l \in Listeners : ChannelOf(l) \in Channels /\ l # NULL
  /\ \A w \in Waiters : w \in Listeners /\ ChannelOf(w) = "completed"
  BY ListenersDiffer DEF ChannelOf, Channels, Listeners

LEMMA HeadAndTail ==
  ASSUME NEW q \in Seq(Query), q # <<>>
  PROVE  /\ Tail(q) \in Seq(Query) /\ Len(Tail(q)) \in Nat /\ Len(q) = Len(Tail(q)) + 1
         /\ \A i \in 1 .. Len(Tail(q)) : Tail(q)[i] = q[i + 1]
         /\ Head(q) = q[1] /\ q[1] \in Query
  OBVIOUS

LEMMA QueryTypes ==
  ASSUME TypeOK
  PROVE  \A i \in 1 .. Len(queue) :
           queue[i].op \in {"listen", "unlisten"} /\ queue[i].by \in Listeners
  <1>1. \A i \in 1 .. Len(queue) : queue[i] \in Query
    BY DEF TypeOK
  <1> QED
    BY <1>1 DEF Query

(* Steps that leave the queue alone keep it in order as long as those who  *)
(* wait for an answer go on waiting.                                       *)
LEMMA QueueKept ==
  ASSUME TypeOK, Queued, queue' = queue,
         \A l \in Listeners : At(l, "listen") \/ At(l, "unlisten") => caller'[l].pc = caller[l].pc
  PROVE  Queued'
  BY QueryTypes DEF Queued, At

(* The answer to the first query: its listener has no other one.           *)
LEMMA QueueAnswered ==
  ASSUME TypeOK, Queued, queue # <<>>, queue' = Tail(queue),
         \A l \in Listeners : l # Head(queue).by => caller'[l].pc = caller[l].pc
  PROVE  /\ Queued' /\ queue' \in Seq(Query)
         /\ Head(queue).by \in Listeners /\ At(Head(queue).by, Head(queue).op)
         /\ \A i \in 1 .. Len(queue') : queue'[i] = queue[i + 1] /\ queue'[i].by # Head(queue).by
  <1>1. /\ queue' \in Seq(Query) /\ Len(queue') \in Nat /\ Len(queue) = Len(queue') + 1
        /\ \A i \in 1 .. Len(queue') : queue'[i] = queue[i + 1]
        /\ Head(queue) = queue[1] /\ queue[1] \in Query
    BY HeadAndTail DEF TypeOK
  <1>2. \A i \in 1 .. Len(queue') : i + 1 \in 1 .. Len(queue) /\ i + 1 # 1
    BY <1>1
  <1>3. 1 \in 1 .. Len(queue)
    BY <1>1
  <1>4. \A i \in 1 .. Len(queue') : queue'[i].by # Head(queue).by
    BY <1>1, <1>2, <1>3 DEF Queued
  <1>5. \A i \in 1 .. Len(queue') : caller'[queue'[i].by].pc = queue'[i].op
    BY <1>1, <1>2, <1>4, QueryTypes DEF Queued, At
  <1>6. \A i, k \in 1 .. Len(queue') : queue'[i].by = queue'[k].by => i = k
    BY <1>1, <1>2 DEF Queued
  <1>7. Queued'
    BY <1>5, <1>6 DEF Queued, At
  <1>8. Head(queue).by \in Listeners /\ At(Head(queue).by, Head(queue).op)
    BY <1>1, <1>3, QueryTypes DEF Queued
  <1> QED
    BY <1>1, <1>4, <1>7, <1>8

(* A query is sent for a listener that has none.                           *)
LEMMA QueueGrows ==
  ASSUME TypeOK, Queued, NEW n \in Nat, NEW new \in [1 .. n -> Query],
         queue' = queue \o [i \in 1 .. n |-> new[i]],
         \A i, k \in 1 .. n : new[i].by = new[k].by => i = k,
         \A i \in 1 .. n : caller'[new[i].by].pc = new[i].op
                           /\ ~At(new[i].by, "listen") /\ ~At(new[i].by, "unlisten"),
         \A l \in Listeners : At(l, "listen") \/ At(l, "unlisten") => caller'[l].pc = caller[l].pc
  PROVE  /\ Queued' /\ queue' \in Seq(Query) /\ Len(queue') = Len(queue) + n
         /\ Len(queue) \in Nat
         /\ \A i \in 1 .. Len(queue) : queue'[i] = queue[i]
         /\ \A i \in 1 .. n : queue'[Len(queue) + i] = new[i]
  <1> DEFINE m == Len(queue)
  <1>1. m \in Nat /\ queue \in Seq(Query)
    BY DEF TypeOK
  <1>2. [i \in 1 .. n |-> new[i]] \in Seq(Query) /\ Len([i \in 1 .. n |-> new[i]]) = n
    <2>1. \A i \in 1 .. n : new[i] \in Query
      OBVIOUS
    <2> QED
      BY <2>1, SMT
  <1>3. /\ queue' \in Seq(Query) /\ Len(queue') = m + n
        /\ \A i \in 1 .. m : queue'[i] = queue[i]
        /\ \A i \in 1 .. n : queue'[m + i] = new[i]
    BY <1>1, <1>2
  <1>4. \A i \in 1 .. m + n : i \in 1 .. m \/ \E k \in 1 .. n : i = m + k
    <2> SUFFICES ASSUME NEW i \in 1 .. m + n, i \notin 1 .. m
                 PROVE  \E k \in 1 .. n : i = m + k
      OBVIOUS
    <2>1. i - m \in 1 .. n /\ i = m + (i - m)
      BY <1>1
    <2> QED
      BY <2>1
  <1>5. \A i \in 1 .. m + n : caller'[queue'[i].by].pc = queue'[i].op
    <2>1. \A i \in 1 .. m : caller'[queue'[i].by].pc = queue'[i].op
      BY <1>3, QueryTypes DEF Queued, At
    <2>2. \A i \in 1 .. n : caller'[queue'[m + i].by].pc = queue'[m + i].op
      BY <1>3
    <2> QED
      BY <1>4, <2>1, <2>2
  <1>6. \A i \in 1 .. m, k \in 1 .. n : queue[i].by # new[k].by
    BY QueryTypes DEF Queued, At
  <1>7. \A i, k \in 1 .. m + n : queue'[i].by = queue'[k].by => i = k
    <2> SUFFICES ASSUME NEW i \in 1 .. m + n, NEW k \in 1 .. m + n, queue'[i].by = queue'[k].by
                 PROVE  i = k
      OBVIOUS
    <2>1. CASE i \in 1 .. m /\ k \in 1 .. m
      BY <2>1, <1>3 DEF Queued
    <2>2. CASE i \in 1 .. m /\ k \notin 1 .. m
      BY <2>2, <1>3, <1>4, <1>6
    <2>3. CASE i \notin 1 .. m /\ k \in 1 .. m
      BY <2>3, <1>3, <1>4, <1>6
    <2>4. CASE i \notin 1 .. m /\ k \notin 1 .. m
      BY <2>4, <1>3, <1>4
    <2> QED
      BY <2>1, <2>2, <2>3, <2>4
  <1> QED
    BY <1>1, <1>3, <1>5, <1>7 DEF Queued, At

-----------------------------------------------------------------------------
(* The chain and its notification.                                         *)

LEMMA NothingQueuedMoves ==
  ASSUME IInv, UNCHANGED <<caller, shared, provider>>,
         chain' \in {"open", "completed", "deleted"}, published' \in {"none", "pending", "sent"},
         mail' \in BOOLEAN, faulty' \in BOOLEAN
  PROVE  TypeOK' /\ LocksHeld' /\ Queued' /\ (Membership => Membership') /\ (Connection => Connection')
  <1>1. Queued'
    BY QueueKept DEF IInv, provider
  <1>2. TypeOK' /\ LocksHeld' /\ (Membership => Membership') /\ (Connection => Connection')
    BY DEF IInv, TypeOK, LocksHeld, Membership, Connection, provider, At
  <1> QED
    BY <1>1, <1>2

LEMMA CompleteStep == IInv /\ Complete => IInv'
  <1> SUFFICES ASSUME IInv, Complete PROVE IInv'
    OBVIOUS
  <1>1. TypeOK' /\ LocksHeld' /\ Queued' /\ (Membership => Membership') /\ (Connection => Connection')
    BY NothingQueuedMoves DEF Complete, IInv, TypeOK
  <1>2. Heard'
    BY DEF Complete, Heard
  <1> QED
    BY <1>1, <1>2 DEF IInv, Undisturbed, Complete

LEMMA DeleteStep == IInv /\ Delete => IInv'
  <1> SUFFICES ASSUME IInv, Delete PROVE IInv'
    OBVIOUS
  <1>1. TypeOK' /\ LocksHeld' /\ Queued' /\ (Membership => Membership') /\ (Connection => Connection')
    BY NothingQueuedMoves DEF Delete, IInv, TypeOK
  <1>2. Heard'
    BY DEF Delete, Heard
  <1> QED
    BY <1>1, <1>2 DEF IInv, Undisturbed, Delete

LEMMA LoseNotificationStep == IInv /\ LoseNotification => IInv'
  <1> SUFFICES ASSUME IInv, LoseNotification PROVE IInv'
    OBVIOUS
  <1>1. TypeOK' /\ LocksHeld' /\ Queued'
    BY NothingQueuedMoves DEF LoseNotification, Fault, IInv, TypeOK
  <1> QED
    BY <1>1 DEF IInv, LoseNotification, Fault

(* Who sleeps is a callback of a listener that runs, so the connection is  *)
(* attached and listens when the notification is sent.                     *)
LEMMA JoinedIsHeard ==
  ASSUME Undisturbed, NEW w \in Waiters, caller[w].pc \in Joined
  PROVE  /\ w \in shared["completed"].callbacks /\ shared["completed"].running
         /\ "completed" \in handlers /\ "completed" \in listened /\ client = "attached"
  <1>1. w \in Listeners /\ ChannelOf(w) = "completed" /\ "completed" \in Channels
    BY ChannelFacts DEF Channels
  <1>2. w \in shared["completed"].callbacks /\ shared["completed"].running
    BY <1>1 DEF Undisturbed, Membership
  <1> QED
    BY <1>1, <1>2 DEF Undisturbed, Connection

LEMMA NotifyStep == IInv /\ NotifyChainCompleted => IInv'
  <1> SUFFICES ASSUME IInv, NotifyChainCompleted PROVE IInv'
    OBVIOUS
  <1>1. TypeOK' /\ LocksHeld' /\ Queued' /\ (Membership => Membership') /\ (Connection => Connection')
    BY NothingQueuedMoves DEF NotifyChainCompleted, IInv, TypeOK
  <1>2. ASSUME Undisturbed PROVE Heard'
    <2>1. \A w \in Waiters : WouldSleep(caller[w]) => mail'
      BY <1>2, JoinedIsHeard DEF NotifyChainCompleted, WouldSleep, Joined
    <2> QED
      BY <1>2, <2>1 DEF NotifyChainCompleted, Heard, Undisturbed
  <1> QED
    BY <1>1, <1>2 DEF IInv, Undisturbed, NotifyChainCompleted

LEMMA DispatchStep == IInv /\ Dispatch => IInv'
  <1> SUFFICES ASSUME IInv, Dispatch PROVE IInv'
    OBVIOUS
  <1> DEFINE heard == IF "completed" \in handlers /\ shared["completed"].running
                      THEN shared["completed"].callbacks ELSE {}
  <1>1. caller' = [l \in Listeners |->
                     IF l \in heard THEN [caller[l] EXCEPT !.notified = TRUE] ELSE caller[l]]
    BY DEF Dispatch
  <1>2. UNCHANGED <<chain, published, shared, provider, faulty>> /\ mail' = FALSE
    BY DEF Dispatch
  <1>3. \A l \in Listeners :
          /\ caller[l] \in Caller /\ caller'[l] \in Caller
          /\ caller'[l].pc = caller[l].pc /\ caller'[l].subscribed = caller[l].subscribed
          /\ caller'[l].seen = caller[l].seen
          /\ l \in heard => caller'[l].notified
    <2> HIDE DEF heard
    <2>1. \A l \in Listeners : caller[l] \in Caller
      BY DEF IInv, TypeOK
    <2> QED
      BY <1>1, <2>1 DEF Caller
  <1>4. TypeOK'
    <2>1. caller' \in [Listeners -> Caller]
      <3> HIDE DEF heard
      <3> QED BY <1>1, <1>3
    <2> QED
      BY <1>2, <2>1 DEF IInv, TypeOK, provider
  <1>5. LocksHeld'
    BY <1>2, <1>3 DEF IInv, LocksHeld
  <1>6. Queued'
    BY <1>2, <1>3, QueueKept DEF IInv, provider
  <1>7. Membership => Membership'
    BY <1>2, <1>3 DEF Membership
  <1>8. Connection => Connection'
    BY <1>2, <1>3 DEF Connection, provider, At
  <1>9. ASSUME Undisturbed PROVE Heard'
    <2>1. \A w \in Waiters : WouldSleep(caller[w]) => caller'[w].notified
      BY <1>3, <1>9, JoinedIsHeard, ChannelFacts DEF WouldSleep, Joined
    <2> QED
      BY <1>2, <1>3, <1>9, <2>1, ChannelFacts DEF Heard, Undisturbed, WouldSleep
  <1> QED
    BY <1>2, <1>4, <1>5, <1>6, <1>7, <1>8, <1>9 DEF IInv, Undisturbed

-----------------------------------------------------------------------------
(* A listener that goes on by itself.                                      *)

(* Only l moves, to r: it stays with or without its lock, its callback and *)
(* its query, and it does not fall asleep on an open chain read earlier.   *)
LEMMA MoveOfOne ==
  ASSUME IInv, NEW l \in Listeners, NEW r \in Caller, caller' = [caller EXCEPT ![l] = r],
         UNCHANGED <<chain, published, mail, shared, provider, faulty>>,
         r.pc = caller[l].pc \/ (caller[l].pc \notin Locking /\ r.pc \notin Locking),
         caller[l].pc \in Joined <=> r.pc \in Joined,
         r.subscribed = caller[l].subscribed,
         WouldSleep(r) =>
           \/ chain = "open"
           \/ /\ WouldSleep(caller[l]) /\ r.notified = caller[l].notified
              /\ caller[l].aborted => r.aborted
  PROVE  IInv'
  <1>1. /\ caller' \in [Listeners -> Caller] /\ caller'[l] = r
        /\ \A k \in Listeners : k # l => caller'[k] = caller[k]
    BY DEF IInv, TypeOK
  <1>2. \A k \in Listeners : caller'[k].pc \in Locking <=> caller[k].pc \in Locking
    BY <1>1
  <1>3. \A k \in Listeners :
          /\ caller'[k].pc \in Joined <=> caller[k].pc \in Joined
          /\ caller'[k].subscribed = caller[k].subscribed
          /\ caller'[k].pc = "unlisten" <=> caller[k].pc = "unlisten"
          /\ caller'[k].pc = "connect" <=> caller[k].pc = "connect"
          /\ caller'[k].pc = "listen" <=> caller[k].pc = "listen"
    BY <1>1 DEF Locking
  <1>4. TypeOK'
    BY <1>1 DEF IInv, TypeOK, provider
  <1>5. LocksHeld'
    BY <1>2 DEF IInv, LocksHeld
  <1>6. Queued'
    BY <1>3, QueueKept DEF IInv, provider, At
  <1>7. Membership => Membership'
    BY <1>3 DEF Membership
  <1>8. Connection => Connection'
    BY <1>3 DEF Connection, provider, At
  <1>9. Heard => Heard'
    <2>1. \A w \in Waiters : w \in Listeners
      BY ChannelFacts
    <2> QED
      BY <1>1, <2>1 DEF Heard
  <1> QED
    BY <1>4, <1>5, <1>6, <1>7, <1>8, <1>9 DEF IInv, Undisturbed

LEMMA StartStep == ASSUME IInv, NEW l \in Listeners, Start(l) PROVE IInv'
  <1> DEFINE r == [caller[l] EXCEPT !.pc = "subscribe"]
  <1>1. caller[l] \in Caller
    BY DEF IInv, TypeOK
  <1>2. caller' = [caller EXCEPT ![l] = r]
        /\ UNCHANGED <<chain, published, mail, shared, provider, faulty>>
    BY DEF Start, Goto
  <1>3. r \in Caller
    BY <1>1 DEF Caller
  <1>4. caller[l].pc = "idle" /\ r.pc = "subscribe" /\ r.subscribed = caller[l].subscribed
    BY <1>1 DEF Start, At, Caller
  <1>5. /\ caller[l].pc \notin Locking /\ r.pc \notin Locking
        /\ caller[l].pc \in Joined <=> r.pc \in Joined
        /\ ~WouldSleep(r)
    BY <1>4 DEF Locking, Joined, WouldSleep
  <1> HIDE DEF r
  <1>6. WouldSleep(r) =>
          \/ chain = "open"
          \/ /\ WouldSleep(caller[l]) /\ r.notified = caller[l].notified
             /\ caller[l].aborted => r.aborted
    BY <1>4, <1>5
  <1>7. /\ r.pc = caller[l].pc \/ (caller[l].pc \notin Locking /\ r.pc \notin Locking)
        /\ caller[l].pc \in Joined <=> r.pc \in Joined
        /\ r.subscribed = caller[l].subscribed
    BY <1>4, <1>5
  <1> QED
    BY <1>1, <1>2, <1>3, <1>6, <1>7, MoveOfOne

LEMMA LeaveStep == ASSUME IInv, NEW l \in Listeners, Leave(l) PROVE IInv'
  <1> DEFINE r == [caller[l] EXCEPT !.pc = "dispose"]
  <1>1. caller[l] \in Caller
    BY DEF IInv, TypeOK
  <1>2. caller' = [caller EXCEPT ![l] = r]
        /\ UNCHANGED <<chain, published, mail, shared, provider, faulty>>
    BY DEF Leave, Goto
  <1>3. r \in Caller
    BY <1>1 DEF Caller
  <1>4. caller[l].pc = "subscribed" /\ r.pc = "dispose" /\ r.subscribed = caller[l].subscribed
    BY <1>1 DEF Leave, At, Caller
  <1>5. /\ caller[l].pc \notin Locking /\ r.pc \notin Locking
        /\ caller[l].pc \in Joined <=> r.pc \in Joined
        /\ ~WouldSleep(r)
    BY <1>4 DEF Locking, Joined, WouldSleep
  <1> HIDE DEF r
  <1>6. WouldSleep(r) =>
          \/ chain = "open"
          \/ /\ WouldSleep(caller[l]) /\ r.notified = caller[l].notified
             /\ caller[l].aborted => r.aborted
    BY <1>4, <1>5
  <1>7. /\ r.pc = caller[l].pc \/ (caller[l].pc \notin Locking /\ r.pc \notin Locking)
        /\ caller[l].pc \in Joined <=> r.pc \in Joined
        /\ r.subscribed = caller[l].subscribed
    BY <1>4, <1>5
  <1> QED
    BY <1>1, <1>2, <1>3, <1>6, <1>7, MoveOfOne

LEMMA CheckChainStep == ASSUME IInv, NEW w \in Waiters, CheckChain(w) PROVE IInv'
  <1> DEFINE r == [caller[w] EXCEPT !.pc = "decide", !.seen = chain]
  <1>1. w \in Listeners /\ caller[w] \in Caller
    BY ChannelFacts DEF IInv, TypeOK
  <1>2. caller' = [caller EXCEPT ![w] = r]
        /\ UNCHANGED <<chain, published, mail, shared, provider, faulty>>
    BY DEF CheckChain
  <1>3. r \in Caller
    BY <1>1 DEF Caller, IInv, TypeOK
  <1>4. /\ caller[w].pc = "check" /\ r.pc = "decide" /\ r.subscribed = caller[w].subscribed
        /\ r.seen = chain
    BY <1>1 DEF CheckChain, At, Caller
  <1>5. /\ caller[w].pc \notin Locking /\ r.pc \notin Locking
        /\ caller[w].pc \in Joined <=> r.pc \in Joined
        /\ WouldSleep(r) => chain = "open"
    BY <1>4 DEF Locking, Joined, WouldSleep
  <1> HIDE DEF r
  <1>6. WouldSleep(r) =>
          \/ chain = "open"
          \/ /\ WouldSleep(caller[w]) /\ r.notified = caller[w].notified
             /\ caller[w].aborted => r.aborted
    BY <1>4, <1>5
  <1>7. /\ r.pc = caller[w].pc \/ (caller[w].pc \notin Locking /\ r.pc \notin Locking)
        /\ caller[w].pc \in Joined <=> r.pc \in Joined
        /\ r.subscribed = caller[w].subscribed
    BY <1>4, <1>5
  <1> QED
    BY <1>1, <1>2, <1>3, <1>6, <1>7, MoveOfOne

LEMMA DecideStep == ASSUME IInv, NEW w \in Waiters, Decide(w) PROVE IInv'
  <1> DEFINE r == [caller[w] EXCEPT !.seen = "open",
                     !.pc = IF caller[w].seen # "open" \/ caller[w].aborted
                            THEN "dispose" ELSE "sleep"]
  <1>1. w \in Listeners /\ caller[w] \in Caller
    BY ChannelFacts DEF IInv, TypeOK
  <1>2. caller' = [caller EXCEPT ![w] = r]
        /\ UNCHANGED <<chain, published, mail, shared, provider, faulty>>
    BY DEF Decide
  <1>3. r \in Caller
    BY <1>1 DEF Caller
  <1>4. /\ caller[w].pc = "decide" /\ r.pc \in {"dispose", "sleep"}
        /\ r.pc = "sleep" => caller[w].seen = "open"
        /\ r.subscribed = caller[w].subscribed /\ r.notified = caller[w].notified
        /\ r.aborted = caller[w].aborted
    BY <1>1 DEF Decide, At, Caller
  <1>5. /\ caller[w].pc \notin Locking /\ r.pc \notin Locking
        /\ caller[w].pc \in Joined <=> r.pc \in Joined
        /\ WouldSleep(r) => WouldSleep(caller[w])
    BY <1>4 DEF Locking, Joined, WouldSleep
  <1> HIDE DEF r
  <1>6. WouldSleep(r) =>
          \/ chain = "open"
          \/ /\ WouldSleep(caller[w]) /\ r.notified = caller[w].notified
             /\ caller[w].aborted => r.aborted
    BY <1>4, <1>5
  <1>7. /\ r.pc = caller[w].pc \/ (caller[w].pc \notin Locking /\ r.pc \notin Locking)
        /\ caller[w].pc \in Joined <=> r.pc \in Joined
        /\ r.subscribed = caller[w].subscribed
    BY <1>4, <1>5
  <1> QED
    BY <1>1, <1>2, <1>3, <1>6, <1>7, MoveOfOne

LEMMA WakeStep == ASSUME IInv, NEW w \in Waiters, Wake(w) PROVE IInv'
  <1> DEFINE r == [caller[w] EXCEPT !.pc = "check", !.notified = FALSE]
  <1>1. w \in Listeners /\ caller[w] \in Caller
    BY ChannelFacts DEF IInv, TypeOK
  <1>2. caller' = [caller EXCEPT ![w] = r]
        /\ UNCHANGED <<chain, published, mail, shared, provider, faulty>>
    BY DEF Wake
  <1>3. r \in Caller
    BY <1>1 DEF Caller
  <1>4. caller[w].pc = "sleep" /\ r.pc = "check" /\ r.subscribed = caller[w].subscribed
    BY <1>1 DEF Wake, At, Caller
  <1>5. /\ caller[w].pc \notin Locking /\ r.pc \notin Locking
        /\ caller[w].pc \in Joined <=> r.pc \in Joined
        /\ ~WouldSleep(r)
    BY <1>4 DEF Locking, Joined, WouldSleep
  <1> HIDE DEF r
  <1>6. WouldSleep(r) =>
          \/ chain = "open"
          \/ /\ WouldSleep(caller[w]) /\ r.notified = caller[w].notified
             /\ caller[w].aborted => r.aborted
    BY <1>4, <1>5
  <1>7. /\ r.pc = caller[w].pc \/ (caller[w].pc \notin Locking /\ r.pc \notin Locking)
        /\ caller[w].pc \in Joined <=> r.pc \in Joined
        /\ r.subscribed = caller[w].subscribed
    BY <1>4, <1>5
  <1> QED
    BY <1>1, <1>2, <1>3, <1>6, <1>7, MoveOfOne

LEMMA TimeoutStep == ASSUME IInv, NEW w \in Waiters, Timeout(w) PROVE IInv'
  <1> DEFINE r == [caller[w] EXCEPT !.aborted = TRUE]
  <1>1. w \in Listeners /\ caller[w] \in Caller
    BY ChannelFacts DEF IInv, TypeOK
  <1>2. caller' = [caller EXCEPT ![w] = r]
        /\ UNCHANGED <<chain, published, mail, shared, provider, faulty>>
    BY DEF Timeout
  <1>3. r \in Caller
    BY <1>1 DEF Caller
  <1>4. /\ r.pc = caller[w].pc /\ r.subscribed = caller[w].subscribed
        /\ r.notified = caller[w].notified /\ r.aborted
        /\ WouldSleep(r) => WouldSleep(caller[w])
    BY <1>1 DEF Caller, WouldSleep
  <1> HIDE DEF r
  <1>6. WouldSleep(r) =>
          \/ chain = "open"
          \/ /\ WouldSleep(caller[w]) /\ r.notified = caller[w].notified
             /\ caller[w].aborted => r.aborted
    BY <1>4
  <1>7. /\ r.pc = caller[w].pc \/ (caller[w].pc \notin Locking /\ r.pc \notin Locking)
        /\ caller[w].pc \in Joined <=> r.pc \in Joined
        /\ r.subscribed = caller[w].subscribed
    BY <1>4
  <1> QED
    BY <1>1, <1>2, <1>3, <1>6, <1>7, MoveOfOne

-----------------------------------------------------------------------------
(* Steps with the shared listener and the connection.                      *)

LEMMA AfterSubscribeIs ==
  ASSUME TypeOK, NEW l \in Listeners, NEW ok \in BOOLEAN
  PROVE  /\ AfterSubscribe(l, ok) \in [Listeners -> Caller]
         /\ AfterSubscribe(l, ok)[l].pc \in IF ok THEN {"check", "subscribed"} ELSE {"check", "idle"}
         /\ AfterSubscribe(l, ok)[l].subscribed = ok
         /\ \A k \in Listeners : k # l => AfterSubscribe(l, ok)[k] = caller[k]
  <1>1. caller \in [Listeners -> Caller]
    BY DEF TypeOK
  <1> DEFINE pc == IF l \in Waiters THEN "check" ELSE IF ok THEN "subscribed" ELSE "idle"
             r == [caller[l] EXCEPT !.subscribed = ok, !.pc = pc]
  <1>2. AfterSubscribe(l, ok) = [caller EXCEPT ![l] = r]
    BY DEF AfterSubscribe
  <1>3. pc \in IF ok THEN {"check", "subscribed"} ELSE {"check", "idle"}
    OBVIOUS
  <1>4. r \in Caller /\ r.pc = pc /\ r.subscribed = ok
    BY <1>1 DEF Caller
  <1> HIDE DEF pc, r
  <1> QED
    BY <1>1, <1>2, <1>3, <1>4

LEMMA AfterDisposeIs ==
  ASSUME TypeOK, NEW l \in Listeners
  PROVE  /\ AfterDispose(l) \in [Listeners -> Caller]
         /\ AfterDispose(l)[l].pc \in {"done", "idle"} /\ AfterDispose(l)[l].subscribed = FALSE
         /\ \A k \in Listeners : k # l => AfterDispose(l)[k] = caller[k]
  <1>1. caller \in [Listeners -> Caller]
    BY DEF TypeOK
  <1> DEFINE pc == IF l \in Waiters THEN "done" ELSE "idle"
             r == [caller[l] EXCEPT !.subscribed = FALSE, !.pc = pc]
  <1>2. AfterDispose(l) = [caller EXCEPT ![l] = r]
    BY DEF AfterDispose
  <1>3. pc \in {"done", "idle"}
    OBVIOUS
  <1>4. r \in Caller /\ r.pc = pc /\ r.subscribed = FALSE
    BY <1>1 DEF Caller
  <1> HIDE DEF pc, r
  <1> QED
    BY <1>1, <1>2, <1>3, <1>4

LEMMA GotoIs ==
  ASSUME TypeOK, NEW l \in Listeners, NEW pc \in {"connect", "listen", "unlisten"}
  PROVE  /\ Goto(l, pc) \in [Listeners -> Caller]
         /\ Goto(l, pc)[l].pc = pc /\ Goto(l, pc)[l].subscribed = caller[l].subscribed
         /\ \A k \in Listeners : k # l => Goto(l, pc)[k] = caller[k]
  <1>1. caller \in [Listeners -> Caller]
    BY DEF TypeOK
  <1> QED
    BY <1>1 DEF Goto, Caller

(* A step keeps its word to those who will sleep if they did already       *)
(* before and the notification is not lost.                                *)
LEMMA HeardKept ==
  ASSUME Heard, UNCHANGED <<chain, published>>,
         \A w \in Waiters : WouldSleep(caller'[w]) => caller'[w] = caller[w] /\ (mail => mail')
  PROVE  Heard'
  BY DEF Heard

LEMMA JoinStep == ASSUME IInv, NEW l \in Listeners, Join(l) PROVE IInv'
  <1> DEFINE c == ChannelOf(l)
  <1> USE ChannelFacts
  <1>1. /\ At(l, "subscribe") /\ shared[c].lock = NULL /\ shared[c].running
        /\ shared' = [shared EXCEPT ![c].callbacks = @ \cup {l}]
        /\ caller' = AfterSubscribe(l, TRUE)
        /\ UNCHANGED <<chain, published, mail, provider, faulty>>
    BY DEF Join
  <1>2. /\ caller' \in [Listeners -> Caller]
        /\ caller'[l].pc \in {"check", "subscribed"} /\ caller'[l].subscribed = TRUE
        /\ \A k \in Listeners : k # l => caller'[k] = caller[k]
    BY <1>1, AfterSubscribeIs DEF IInv
  <1>3. \A d \in Channels :
          /\ shared[d] \in Shared /\ shared'[d] \in Shared
          /\ shared'[d].lock = shared[d].lock /\ shared'[d].running = shared[d].running
          /\ shared'[d].callbacks = IF d = c THEN shared[d].callbacks \cup {l} ELSE shared[d].callbacks
    BY <1>1 DEF IInv, TypeOK, Shared
  <1>4. TypeOK'
    BY <1>1, <1>2, <1>3 DEF IInv, TypeOK, provider
  <1>5. LocksHeld'
    <2>1. \A k \in Listeners : caller'[k].pc \in Locking <=> caller[k].pc \in Locking
      BY <1>1, <1>2 DEF Locking, At
    <2> QED
      BY <1>3, <2>1 DEF IInv, LocksHeld
  <1>6. Queued'
    BY <1>1, <1>2, QueueKept DEF IInv, provider, At
  <1>7. Membership => Membership'
    <2> SUFFICES ASSUME Membership PROVE Membership'
      OBVIOUS
    <2>1. caller'[l].pc \in Joined /\ l \in shared'[c].callbacks
      BY <1>2, <1>3 DEF Joined
    <2>2. ASSUME NEW k \in Listeners
          PROVE  k \in shared'[ChannelOf(k)].callbacks <=> caller'[k].pc \in Joined
      <3>1. CASE k = l
        BY <3>1, <2>1
      <3>2. CASE k # l
        <4>1. k \in shared'[ChannelOf(k)].callbacks <=> k \in shared[ChannelOf(k)].callbacks
          BY <1>3, <3>2
        <4> QED
          BY <4>1, <1>2, <3>2 DEF Membership
      <3> QED
        BY <3>1, <3>2
    <2>3. \A k \in Listeners : caller'[k].subscribed <=> caller'[k].pc \in Joined \cup {"unlisten"}
      BY <1>2, <2>1 DEF Membership
    <2>4. \A d \in Channels : (shared'[d].running <=> shared'[d].callbacks # {})
                              /\ \A k \in shared'[d].callbacks : ChannelOf(k) = d
      BY <1>1, <1>3 DEF Membership
    <2> QED
      BY <2>2, <2>3, <2>4 DEF Membership
  <1>8. Connection => Connection'
    <2>1. \A k \in Listeners : (At(k, "connect")' <=> At(k, "connect"))
                               /\ (At(k, "listen")' <=> At(k, "listen"))
      BY <1>1, <1>2 DEF At
    <2> HIDE DEF c
    <2> QED
      BY <1>1, <1>3, <2>1 DEF Connection, provider
  <1>9. Heard => Heard'
    BY <1>1, <1>2, HeardKept DEF WouldSleep
  <1> QED
    BY <1>1, <1>4, <1>5, <1>6, <1>7, <1>8, <1>9 DEF IInv, Undisturbed

(* LISTEN is sent on the connection that is there.                         *)
LEMMA OpenAttachedStep ==
  ASSUME IInv, NEW l \in Listeners, At(l, "subscribe"),
         shared[ChannelOf(l)].lock = NULL, ~shared[ChannelOf(l)].running,
         client \in {"attached", "broken"}, Register({l}, queue),
         shared' = [shared EXCEPT ![ChannelOf(l)].lock = l], caller' = Goto(l, "listen"),
         UNCHANGED <<client, chain, published, mail, listened, faulty>>
  PROVE  IInv'
  <1> DEFINE c == ChannelOf(l)
             q == [op |-> "listen", by |-> l]
  <1> USE ChannelFacts
  <1>2. /\ caller' \in [Listeners -> Caller]
        /\ caller'[l].pc = "listen" /\ caller'[l].subscribed = caller[l].subscribed
        /\ \A k \in Listeners : k # l => caller'[k] = caller[k]
    BY GotoIs DEF IInv
  <1>3. \A d \in Channels :
          /\ shared[d] \in Shared /\ shared'[d] \in Shared
          /\ shared'[d].lock = IF d = c THEN l ELSE shared[d].lock
          /\ shared'[d].running = shared[d].running /\ shared'[d].callbacks = shared[d].callbacks
    BY DEF IInv, TypeOK, Shared
  <1>4. handlers' = handlers \cup {c}
    BY DEF Register
  <1>5. queue' = queue \o [i \in 1 .. 1 |-> [j \in 1 .. 1 |-> q][i]]
    <2>1. PICK new \in [1 .. 2 -> Listeners] :
            /\ {new[i] : i \in 1 .. 2} = {l}
            /\ queue' = queue \o [i \in 1 .. (IF new[1] = new[2] THEN 1 ELSE 2) |->
                                   [op |-> "listen", by |-> new[i]]]
      BY DEF Register
    <2>2. new[1] = l /\ new[2] = l
      BY <2>1
    <2>3. [i \in 1 .. 1 |-> [op |-> "listen", by |-> new[i]]] = [i \in 1 .. 1 |-> [j \in 1 .. 1 |-> q][i]]
      BY <2>2
    <2> QED
      BY <2>1, <2>2, <2>3
  <1>6. Queued' /\ queue' \in Seq(Query)
    <2> DEFINE new == [j \in 1 .. 1 |-> q]
    <2>1. new \in [1 .. 1 -> Query] /\ \A i \in 1 .. 1 : new[i].by = l /\ new[i].op = "listen"
      BY DEF Query
    <2>2. \A i, k \in 1 .. 1 : i = k
      OBVIOUS
    <2>3. queue' = queue \o [i \in 1 .. 1 |-> new[i]]
      BY <1>5
    <2>4. \A i \in 1 .. 1 : caller'[new[i].by].pc = new[i].op
                            /\ ~At(new[i].by, "listen") /\ ~At(new[i].by, "unlisten")
      BY <1>2, <2>1 DEF At
    <2>5. \A k \in Listeners : At(k, "listen") \/ At(k, "unlisten") => caller'[k].pc = caller[k].pc
      BY <1>2 DEF At
    <2> HIDE DEF new
    <2> QED
      BY <2>1, <2>2, <2>3, <2>4, <2>5, QueueGrows DEF IInv
  <1>7. TypeOK'
    BY <1>2, <1>3, <1>4, <1>6 DEF IInv, TypeOK
  <1>8. LocksHeld'
    BY <1>2, <1>3 DEF IInv, LocksHeld, Locking, At
  <1>9. Membership => Membership'
    BY <1>2, <1>3 DEF Membership, Joined, At
  <1>10. Connection => Connection'
    <2> SUFFICES ASSUME Connection PROVE Connection'
      OBVIOUS
    <2>1. client' = "attached" /\ handlers' # {}
      BY <1>4 DEF Connection
    <2>2. ~ \E k \in Listeners : At(k, "connect")'
      BY <1>2, <2>1 DEF Connection, At
    <2>3. \A d \in Channels :
            d \in handlers' <=> shared'[d].running \/ \E k \in Listeners : ChannelOf(k) = d /\ At(k, "listen")'
      BY <1>2, <1>3, <1>4 DEF Connection, At
    <2>4. \A d \in Channels : shared'[d].running => d \in listened'
      BY <1>3 DEF Connection
    <2> QED
      BY <2>1, <2>2, <2>3, <2>4 DEF Connection
  <1>11. Heard => Heard'
    BY <1>2, HeardKept DEF WouldSleep
  <1> QED
    BY <1>6, <1>7, <1>8, <1>9, <1>10, <1>11 DEF IInv, Undisturbed

(* It asks for the connection, or waits for the one that is being opened.  *)
LEMMA OpenConnectingStep ==
  ASSUME IInv, NEW l \in Listeners, At(l, "subscribe"),
         shared[ChannelOf(l)].lock = NULL, ~shared[ChannelOf(l)].running,
         client \in {"none", "connecting"}, client' = "connecting",
         shared' = [shared EXCEPT ![ChannelOf(l)].lock = l], caller' = Goto(l, "connect"),
         UNCHANGED <<handlers, queue, chain, published, mail, listened, faulty>>
  PROVE  IInv'
  <1> DEFINE c == ChannelOf(l)
  <1> USE ChannelFacts
  <1>2. /\ caller' \in [Listeners -> Caller]
        /\ caller'[l].pc = "connect" /\ caller'[l].subscribed = caller[l].subscribed
        /\ \A k \in Listeners : k # l => caller'[k] = caller[k]
    BY GotoIs DEF IInv
  <1>3. \A d \in Channels :
          /\ shared[d] \in Shared /\ shared'[d] \in Shared
          /\ shared'[d].lock = IF d = c THEN l ELSE shared[d].lock
          /\ shared'[d].running = shared[d].running /\ shared'[d].callbacks = shared[d].callbacks
    BY DEF IInv, TypeOK, Shared
  <1>6. Queued'
    BY <1>2, QueueKept DEF IInv, At
  <1>7. TypeOK'
    BY <1>2, <1>3 DEF IInv, TypeOK
  <1>8. LocksHeld'
    BY <1>2, <1>3 DEF IInv, LocksHeld, Locking, At
  <1>9. Membership => Membership'
    BY <1>2, <1>3 DEF Membership, Joined, At
  <1>10. Connection => Connection'
    <2> SUFFICES ASSUME Connection PROVE Connection'
      OBVIOUS
    <2>1. client' = "connecting" /\ handlers' = {}
      BY DEF Connection
    <2>2. \E k \in Listeners : At(k, "connect")'
      BY <1>2 DEF At
    <2>3. \A d \in Channels : ~shared'[d].running /\ ~ \E k \in Listeners : ChannelOf(k) = d /\ At(k, "listen")'
      BY <1>2, <1>3, <2>1 DEF Connection, At
    <2> QED
      BY <2>1, <2>2, <2>3 DEF Connection
  <1>11. Heard => Heard'
    BY <1>2, HeardKept DEF WouldSleep
  <1> QED
    BY <1>6, <1>7, <1>8, <1>9, <1>10, <1>11 DEF IInv, Undisturbed

(* The promise of an attempt that failed is all there is.                  *)
LEMMA OpenRejectedStep ==
  ASSUME IInv, NEW l \in Listeners, At(l, "subscribe"), client = "rejected",
         caller' = AfterSubscribe(l, FALSE),
         UNCHANGED <<shared, client, handlers, queue, chain, published, mail, listened, faulty>>
  PROVE  IInv'
  <1>1. faulty'
    BY DEF IInv, Undisturbed, Connection, TypeOK
  <1>2. /\ caller' \in [Listeners -> Caller]
        /\ caller'[l].pc \in {"check", "idle"}
        /\ \A k \in Listeners : k # l => caller'[k] = caller[k]
    BY AfterSubscribeIs DEF IInv
  <1>3. Queued'
    BY <1>2, QueueKept DEF IInv, At
  <1>4. TypeOK'
    BY <1>2 DEF IInv, TypeOK
  <1>5. LocksHeld'
    BY <1>2 DEF IInv, LocksHeld, Locking, At
  <1> QED
    BY <1>1, <1>3, <1>4, <1>5 DEF IInv

LEMMA OpenStep == ASSUME IInv, NEW l \in Listeners, Open(l) PROVE IInv'
  BY OpenAttachedStep, OpenConnectingStep, OpenRejectedStep DEF Open

LEMMA ListensNow ==
  ASSUME NEW r, NEW s, r.pc = "connect", s.pc = "listen"
  PROVE  r.pc \in Locking /\ s.pc \in Locking /\ r.pc \notin Joined /\ s.pc \notin Joined
         /\ r.pc # "unlisten" /\ s.pc # "unlisten" /\ s.pc # "connect" /\ ~WouldSleep(s)
  BY DEF Locking, Joined, WouldSleep

(* All who wait for the connection send their LISTEN on it.                *)
LEMMA ConnectedStep == IInv /\ Connected => IInv'
  <1> SUFFICES ASSUME IInv, Connected PROVE IInv'
    OBVIOUS
  <1> USE ChannelFacts
  <1> DEFINE L == {l \in Listeners : At(l, "connect")}
  <1>1. client = "connecting" /\ client' = "attached" /\ Register(L, queue)
        /\ UNCHANGED <<chain, published, mail, shared, listened, faulty>>
    BY DEF Connected
  <1>2. \A k \in Listeners :
          /\ caller[k] \in Caller /\ caller'[k] \in Caller
          /\ At(k, "connect") => caller'[k] = [caller[k] EXCEPT !.pc = "listen"]
          /\ ~At(k, "connect") => caller'[k] = caller[k]
    BY DEF Connected, IInv, TypeOK, Caller
  <1>3. caller' \in [Listeners -> Caller]
    <2>1. caller' = [k \in Listeners |-> caller'[k]]
      BY DEF Connected
    <2> QED
      BY <1>2, <2>1
  <1>4. \A k \in Listeners :
          /\ At(k, "connect") => caller'[k].pc = "listen"
          /\ caller'[k].subscribed = caller[k].subscribed
          /\ (caller'[k].pc \in Locking) <=> (caller[k].pc \in Locking)
          /\ (caller'[k].pc \in Joined) <=> (caller[k].pc \in Joined)
          /\ (caller'[k].pc = "unlisten") <=> (caller[k].pc = "unlisten")
          /\ caller'[k].pc # "connect"
          /\ WouldSleep(caller'[k]) => caller'[k] = caller[k]
    <2> SUFFICES ASSUME NEW k \in Listeners
                 PROVE  /\ At(k, "connect") => caller'[k].pc = "listen"
                        /\ caller'[k].subscribed = caller[k].subscribed
                        /\ (caller'[k].pc \in Locking) <=> (caller[k].pc \in Locking)
                        /\ (caller'[k].pc \in Joined) <=> (caller[k].pc \in Joined)
                        /\ (caller'[k].pc = "unlisten") <=> (caller[k].pc = "unlisten")
                        /\ caller'[k].pc # "connect"
                        /\ WouldSleep(caller'[k]) => caller'[k] = caller[k]
      OBVIOUS
    <2>1. CASE At(k, "connect")
      <3> DEFINE r == caller[k]
      <3>1. r \in Caller /\ caller'[k] = [r EXCEPT !.pc = "listen"]
        BY <1>2, <2>1
      <3> HIDE DEF r
      <3>2. [r EXCEPT !.pc = "listen"].pc = "listen"
            /\ [r EXCEPT !.pc = "listen"].subscribed = r.subscribed
        BY <3>1 DEF Caller
      <3>3. caller'[k].pc = "listen" /\ caller'[k].subscribed = caller[k].subscribed
        BY <3>1, <3>2 DEF r
      <3> QED
        BY <2>1, <3>3, ListensNow DEF At
    <2>2. CASE ~At(k, "connect")
      BY <1>2, <2>2 DEF At
    <2> QED
      BY <2>1, <2>2
  <1>5. handlers' = handlers \cup {ChannelOf(l) : l \in L}
    BY <1>1 DEF Register
  <1>6. Queued' /\ queue' \in Seq(Query)
    <2> PICK new \in [1 .. 2 -> Listeners] :
          /\ {new[i] : i \in 1 .. 2} = L
          /\ queue' = queue \o [i \in 1 .. (IF new[1] = new[2] THEN 1 ELSE 2) |->
                                  [op |-> "listen", by |-> new[i]]]
      BY <1>1 DEF Register
    <2> DEFINE n == IF new[1] = new[2] THEN 1 ELSE 2
               q == [i \in 1 .. n |-> [op |-> "listen", by |-> new[i]]]
    <2>1. n \in Nat /\ \A i \in 1 .. n : i \in 1 .. 2
      OBVIOUS
    <2>2. q \in [1 .. n -> Query] /\ \A i \in 1 .. n : q[i].by = new[i] /\ q[i].op = "listen"
      BY <2>1 DEF Query
    <2>3. queue' = queue \o [i \in 1 .. n |-> q[i]]
      BY <2>2
    <2>4. \A i, k \in 1 .. n : new[i] = new[k] => i = k
      OBVIOUS
    <2>5. \A i \in 1 .. n : new[i] \in Listeners /\ At(new[i], "connect")
      BY <2>1
    <2> HIDE DEF q, n
    <2>6. \A i \in 1 .. n : caller'[q[i].by].pc = q[i].op
                            /\ ~At(q[i].by, "listen") /\ ~At(q[i].by, "unlisten")
      BY <1>4, <2>2, <2>5 DEF At
    <2>7. \A k \in Listeners : At(k, "listen") \/ At(k, "unlisten") => caller'[k].pc = caller[k].pc
      BY <1>2 DEF At
    <2>8. \A i, k \in 1 .. n : q[i].by = q[k].by => i = k
      BY <2>2, <2>4
    <2> QED
      BY <2>1, <2>2, <2>3, <2>6, <2>7, <2>8, QueueGrows DEF IInv
  <1>7. TypeOK'
    BY <1>1, <1>3, <1>5, <1>6 DEF IInv, TypeOK
  <1>8. LocksHeld'
    BY <1>1, <1>4 DEF IInv, LocksHeld
  <1>9. Membership => Membership'
    BY <1>1, <1>4 DEF Membership
  <1>10. Connection => Connection'
    <2> SUFFICES ASSUME Connection PROVE Connection'
      OBVIOUS
    <2>1. handlers = {} /\ \E k \in Listeners : At(k, "connect")
      BY <1>1 DEF Connection
    <2>2. handlers' # {} /\ \A d \in Channels : d \in handlers' <=> \E k \in L : ChannelOf(k) = d
      BY <1>5, <2>1
    <2>3. \A k \in Listeners : At(k, "listen")' <=> k \in L
      <3>1. \A k \in Listeners : ~At(k, "listen")
        BY <2>1 DEF Connection
      <3> QED
        BY <1>2, <1>4, <3>1 DEF At
    <2>4. \A d \in Channels : ~shared'[d].running
      BY <1>1, <2>1 DEF Connection
    <2>5. \A d \in Channels :
            d \in handlers' <=> shared'[d].running \/ \E k \in Listeners : ChannelOf(k) = d /\ At(k, "listen")'
      BY <2>2, <2>3, <2>4
    <2>6. ~ \E k \in Listeners : At(k, "connect")'
      BY <1>4 DEF At
    <2> HIDE DEF L
    <2> QED
      BY <1>1, <2>2, <2>4, <2>5, <2>6 DEF Connection
  <1>11. Heard => Heard'
    BY <1>1, <1>4, HeardKept
  <1> QED
    BY <1>1, <1>6, <1>7, <1>8, <1>9, <1>10, <1>11 DEF IInv, Undisturbed

LEMMA ConnectFailsStep == IInv /\ ConnectFails => IInv'
  <1> SUFFICES ASSUME IInv, ConnectFails PROVE IInv'
    OBVIOUS
  <1> USE ChannelFacts
  <1> DEFINE L == {l \in Listeners : At(l, "connect")}
  <1>1. faulty' = TRUE /\ client' = "rejected"
        /\ UNCHANGED <<chain, published, mail, handlers, listened, queue>>
    BY DEF ConnectFails, Fault
  <1>2. caller' = [l \in Listeners |-> IF l \in L THEN AfterSubscribe(l, FALSE)[l] ELSE caller[l]]
    BY DEF ConnectFails
  <1>3. \A k \in Listeners :
          /\ caller'[k] \in Caller
          /\ At(k, "connect") => caller'[k].pc \notin Locking
          /\ ~At(k, "connect") => caller'[k] = caller[k]
    BY <1>2, AfterSubscribeIs DEF IInv, TypeOK, Locking
  <1>4. caller' \in [Listeners -> Caller]
    BY <1>2, <1>3
  <1>5. shared' = [d \in Channels |->
                     IF shared[d].lock \in L THEN [shared[d] EXCEPT !.lock = NULL] ELSE shared[d]]
    BY DEF ConnectFails
  <1>6. \A d \in Channels :
          /\ shared'[d] \in Shared /\ shared'[d].running = shared[d].running
          /\ shared[d].lock \in L => shared'[d].lock = NULL
          /\ shared[d].lock \notin L => shared'[d].lock = shared[d].lock
    <2> HIDE DEF L
    <2>1. \A d \in Channels : shared[d] \in Shared
      BY DEF IInv, TypeOK
    <2> QED
      BY <1>5, <2>1 DEF Shared
  <1>7. shared' \in [Channels -> Shared]
    BY <1>5, <1>6
  <1>8. TypeOK'
    BY <1>1, <1>4, <1>7 DEF IInv, TypeOK
  <1>9. Queued'
    BY <1>1, <1>3, QueueKept DEF IInv, At
  <1>10. LocksHeld'
    <2>1. \A k \in Listeners : caller'[k].pc \in Locking <=> shared'[ChannelOf(k)].lock = k
      <3> SUFFICES ASSUME NEW k \in Listeners
                   PROVE  caller'[k].pc \in Locking <=> shared'[ChannelOf(k)].lock = k
        OBVIOUS
      <3>1. CASE At(k, "connect")
        BY <1>3, <1>6, <3>1 DEF IInv, LocksHeld, Locking, At
      <3>2. CASE ~At(k, "connect")
        BY <1>3, <1>6, <3>2 DEF IInv, LocksHeld
      <3> QED
        BY <3>1, <3>2
    <2>2. \A d \in Channels : shared'[d].lock # NULL =>
            ChannelOf(shared'[d].lock) = d /\ ~shared'[d].running
      BY <1>6 DEF IInv, LocksHeld
    <2> QED
      BY <2>1, <2>2 DEF LocksHeld
  <1> QED
    BY <1>1, <1>8, <1>9, <1>10 DEF IInv

LEMMA DisconnectStep == IInv /\ Disconnect => IInv'
  <1> SUFFICES ASSUME IInv, Disconnect PROVE IInv'
    OBVIOUS
  <1>1. Queued'
    BY QueueKept DEF IInv, Disconnect
  <1>2. TypeOK' /\ LocksHeld' /\ faulty'
    BY DEF IInv, TypeOK, LocksHeld, Disconnect, Fault
  <1> QED
    BY <1>1, <1>2 DEF IInv

-----------------------------------------------------------------------------
(* Answers.                                                                *)

LEMMA ListenedStep == IInv /\ Listened => IInv'
  <1> SUFFICES ASSUME IInv, Listened PROVE IInv'
    OBVIOUS
  <1> USE ChannelFacts
  <1> DEFINE l == Head(queue).by
             c == ChannelOf(l)
  <1>1. /\ queue # <<>> /\ Head(queue).op = "listen" /\ client = "attached"
        /\ listened' = listened \cup {c}
        /\ shared' = [shared EXCEPT ![c] = [lock |-> NULL, running |-> TRUE, callbacks |-> {l}]]
        /\ caller' = AfterSubscribe(l, TRUE) /\ queue' = Tail(queue)
        /\ UNCHANGED <<chain, published, mail, client, handlers, faulty>>
    BY DEF Listened, HeadIs
  <1> HIDE DEF l
  <1>2. l \in Listeners
    <2>1. Head(queue) \in Query
      BY <1>1, HeadAndTail DEF IInv, TypeOK
    <2> QED
      BY <2>1 DEF Query, l
  <1>3. /\ caller' \in [Listeners -> Caller]
        /\ caller'[l].pc \in {"check", "subscribed"} /\ caller'[l].subscribed = TRUE
        /\ \A k \in Listeners : k # l => caller'[k] = caller[k]
    BY <1>1, <1>2, AfterSubscribeIs DEF IInv
  <1>4. Queued' /\ queue' \in Seq(Query) /\ At(l, "listen")
    BY <1>1, <1>3, QueueAnswered DEF IInv, l
  <1>5. /\ shared'[c].lock = NULL /\ shared'[c].running = TRUE /\ shared'[c].callbacks = {l}
        /\ \A d \in Channels : d # c => shared'[d] = shared[d]
        /\ shared' \in [Channels -> Shared]
    BY <1>1, <1>2 DEF IInv, TypeOK, Shared
  <1>6. c \in Channels /\ shared[c].lock = l /\ ~shared[c].running
    BY <1>2, <1>4 DEF IInv, LocksHeld, Locking, At
  <1>7. TypeOK'
    BY <1>1, <1>2, <1>3, <1>4, <1>5 DEF IInv, TypeOK
  <1>8. LocksHeld'
    <2>1. ASSUME NEW k \in Listeners
          PROVE  caller'[k].pc \in Locking <=> shared'[ChannelOf(k)].lock = k
      <3>1. CASE k = l
        BY <1>2, <1>3, <1>5, <3>1 DEF Locking
      <3>2. CASE k # l /\ ChannelOf(k) = c
        BY <1>3, <1>5, <1>6, <3>2 DEF IInv, LocksHeld
      <3>3. CASE k # l /\ ChannelOf(k) # c
        BY <1>3, <1>5, <3>3 DEF IInv, LocksHeld
      <3> QED
        BY <3>1, <3>2, <3>3
    <2>2. \A d \in Channels : shared'[d].lock # NULL =>
            ChannelOf(shared'[d].lock) = d /\ ~shared'[d].running
      BY <1>5 DEF IInv, LocksHeld
    <2> QED
      BY <2>1, <2>2 DEF LocksHeld
  <1>9. Membership => Membership'
    <2> SUFFICES ASSUME Membership PROVE Membership'
      OBVIOUS
    <2>1. shared[c].callbacks = {}
      BY <1>6 DEF Membership
    <2>2. ASSUME NEW k \in Listeners
          PROVE  k \in shared'[ChannelOf(k)].callbacks <=> caller'[k].pc \in Joined
      <3>1. CASE k = l
        BY <1>2, <1>3, <1>5, <3>1 DEF Joined
      <3>2. CASE k # l /\ ChannelOf(k) = c
        BY <1>3, <1>5, <2>1, <3>2 DEF Membership
      <3>3. CASE k # l /\ ChannelOf(k) # c
        BY <1>3, <1>5, <3>3 DEF Membership
      <3> QED
        BY <3>1, <3>2, <3>3
    <2>3. \A k \in Listeners : caller'[k].subscribed <=> caller'[k].pc \in Joined \cup {"unlisten"}
      BY <1>2, <1>3 DEF Membership, Joined
    <2>4. \A d \in Channels : (shared'[d].running <=> shared'[d].callbacks # {})
                              /\ \A k \in shared'[d].callbacks : ChannelOf(k) = d
      BY <1>5 DEF Membership
    <2> QED
      BY <2>2, <2>3, <2>4 DEF Membership
  <1>10. Connection => Connection'
    <2> SUFFICES ASSUME Connection PROVE Connection'
      OBVIOUS
    <2>1. c \in handlers
      BY <1>2, <1>4, <1>6 DEF Connection
    <2>2. ~ \E k \in Listeners : At(k, "connect")'
      BY <1>1, <1>2, <1>3 DEF Connection, At
    <2>3. ASSUME NEW d \in Channels
          PROVE  d \in handlers' <=> shared'[d].running
                   \/ \E k \in Listeners : ChannelOf(k) = d /\ At(k, "listen")'
      <3>1. CASE d = c
        BY <1>1, <1>5, <2>1, <3>1
      <3>2. CASE d # c
        <4>1. \A k \in Listeners : ChannelOf(k) = d => (At(k, "listen")' <=> At(k, "listen"))
          BY <1>3, <3>2 DEF At
        <4> QED
          BY <1>1, <1>5, <3>2, <4>1 DEF Connection
      <3> QED
        BY <3>1, <3>2
    <2>4. \A d \in Channels : shared'[d].running => d \in listened'
      BY <1>1, <1>5 DEF Connection
    <2> QED
      BY <1>1, <2>1, <2>2, <2>3, <2>4 DEF Connection
  <1>11. Heard => Heard'
    BY <1>1, <1>2, <1>3, HeardKept DEF WouldSleep
  <1> QED
    BY <1>1, <1>4, <1>7, <1>8, <1>9, <1>10, <1>11 DEF IInv, Undisturbed

LEMMA ListenFailsStep == IInv /\ ListenFails => IInv'
  <1> SUFFICES ASSUME IInv, ListenFails PROVE IInv'
    OBVIOUS
  <1> USE ChannelFacts
  <1> DEFINE l == Head(queue).by
             c == ChannelOf(l)
  <1>1. /\ queue # <<>> /\ Head(queue).op = "listen" /\ faulty' = TRUE
        /\ shared' = [shared EXCEPT ![c].lock = NULL]
        /\ caller' = AfterSubscribe(l, FALSE) /\ queue' = Tail(queue)
        /\ UNCHANGED <<chain, published, mail, client, handlers, listened>>
    BY DEF ListenFails, HeadIs
  <1> HIDE DEF l
  <1>2. l \in Listeners
    <2>1. Head(queue) \in Query
      BY <1>1, HeadAndTail DEF IInv, TypeOK
    <2> QED
      BY <2>1 DEF Query, l
  <1>3. /\ caller' \in [Listeners -> Caller] /\ caller'[l].pc \in {"check", "idle"}
        /\ \A k \in Listeners : k # l => caller'[k] = caller[k]
    BY <1>1, <1>2, AfterSubscribeIs DEF IInv
  <1>4. Queued' /\ queue' \in Seq(Query) /\ At(l, "listen")
    BY <1>1, <1>3, QueueAnswered DEF IInv, l
  <1>5. /\ shared'[c].lock = NULL
        /\ \A d \in Channels : d # c => shared'[d] = shared[d]
        /\ shared' \in [Channels -> Shared]
    BY <1>1, <1>2 DEF IInv, TypeOK, Shared
  <1>6. c \in Channels /\ shared[c].lock = l
    BY <1>2, <1>4 DEF IInv, LocksHeld, Locking, At
  <1>7. TypeOK'
    BY <1>1, <1>2, <1>3, <1>4, <1>5 DEF IInv, TypeOK
  <1>8. LocksHeld'
    <2>1. ASSUME NEW k \in Listeners
          PROVE  caller'[k].pc \in Locking <=> shared'[ChannelOf(k)].lock = k
      <3>1. CASE k = l
        BY <1>2, <1>3, <1>5, <3>1 DEF Locking
      <3>2. CASE k # l /\ ChannelOf(k) = c
        BY <1>3, <1>5, <1>6, <3>2 DEF IInv, LocksHeld
      <3>3. CASE k # l /\ ChannelOf(k) # c
        BY <1>3, <1>5, <3>3 DEF IInv, LocksHeld
      <3> QED
        BY <3>1, <3>2, <3>3
    <2>2. \A d \in Channels : shared'[d].lock # NULL =>
            ChannelOf(shared'[d].lock) = d /\ ~shared'[d].running
      BY <1>5 DEF IInv, LocksHeld
    <2> QED
      BY <2>1, <2>2 DEF LocksHeld
  <1> QED
    BY <1>1, <1>4, <1>7, <1>8 DEF IInv

(* The answer to an UNLISTEN: with the last handler gone the connection is *)
(* released, and nobody who sleeps is left to hear on it.                  *)
LEMMA UnlistenedStep == IInv /\ Unlistened => IInv'
  <1> SUFFICES ASSUME IInv, Unlistened PROVE IInv'
    OBVIOUS
  <1> USE ChannelFacts
  <1> DEFINE l == Head(queue).by
             c == ChannelOf(l)
             release == Releases(handlers) /\ client \in {"attached", "broken"}
  <1>1. /\ queue # <<>> /\ Head(queue).op = "unlisten" /\ queue' = Tail(queue)
        /\ (client # "broken" /\ UNCHANGED faulty) \/ faulty' = TRUE
        /\ client' = IF release THEN "none" ELSE client
        /\ listened' = IF release THEN {} ELSE IF faulty' THEN listened ELSE listened \ {c}
        /\ mail' = (mail /\ ~release)
        /\ shared' = [shared EXCEPT ![c].lock = NULL]
        /\ caller' = AfterDispose(l)
        /\ UNCHANGED <<chain, published, handlers>>
    BY DEF Unlistened, HeadIs
  <1>2. release <=> handlers = {} /\ client \in {"attached", "broken"}
    BY DEF Releases
  <1> HIDE DEF l, release
  <1>3. l \in Listeners
    <2>1. Head(queue) \in Query
      BY <1>1, HeadAndTail DEF IInv, TypeOK
    <2> QED
      BY <2>1 DEF Query, l
  <1>4. /\ caller' \in [Listeners -> Caller]
        /\ caller'[l].pc \in {"done", "idle"} /\ caller'[l].subscribed = FALSE
        /\ \A k \in Listeners : k # l => caller'[k] = caller[k]
    BY <1>1, <1>3, AfterDisposeIs DEF IInv
  <1>5. /\ Queued' /\ queue' \in Seq(Query) /\ At(l, "unlisten")
    BY <1>1, <1>4, QueueAnswered DEF IInv, l
  <1>6. /\ shared'[c].lock = NULL /\ shared'[c].running = shared[c].running
        /\ shared'[c].callbacks = shared[c].callbacks
        /\ \A d \in Channels : d # c => shared'[d] = shared[d]
        /\ shared' \in [Channels -> Shared]
    BY <1>1, <1>3 DEF IInv, TypeOK, Shared
  <1>7. c \in Channels /\ shared[c].lock = l /\ ~shared[c].running
    BY <1>3, <1>5 DEF IInv, LocksHeld, Locking, At
  <1>8. TypeOK'
    <2>1. mail' \in BOOLEAN /\ faulty' \in BOOLEAN /\ listened' \in SUBSET Channels
          /\ client' \in {"none", "connecting", "attached", "broken", "rejected"}
      BY <1>1, <1>2 DEF IInv, TypeOK
    <2> QED
      BY <1>1, <1>4, <1>5, <1>6, <2>1 DEF IInv, TypeOK
  <1>9. LocksHeld'
    <2>1. ASSUME NEW k \in Listeners
          PROVE  caller'[k].pc \in Locking <=> shared'[ChannelOf(k)].lock = k
      <3>1. CASE k = l
        BY <1>3, <1>4, <1>6, <3>1 DEF Locking
      <3>2. CASE k # l /\ ChannelOf(k) = c
        BY <1>4, <1>6, <1>7, <3>2 DEF IInv, LocksHeld
      <3>3. CASE k # l /\ ChannelOf(k) # c
        BY <1>4, <1>6, <3>3 DEF IInv, LocksHeld
      <3> QED
        BY <3>1, <3>2, <3>3
    <2>2. \A d \in Channels : shared'[d].lock # NULL =>
            ChannelOf(shared'[d].lock) = d /\ ~shared'[d].running
      BY <1>6 DEF IInv, LocksHeld
    <2> QED
      BY <2>1, <2>2 DEF LocksHeld
  <1>10. ASSUME ~faulty' PROVE Undisturbed'
    <2>1. Undisturbed /\ client # "broken" /\ faulty' = faulty
      BY <1>1, <1>10 DEF IInv
    <2>2. Membership'
      <3>1. caller[l].pc \notin Joined
        BY <1>5 DEF Joined, At
      <3>2. ASSUME NEW k \in Listeners
            PROVE  (k \in shared'[ChannelOf(k)].callbacks <=> caller'[k].pc \in Joined)
                   /\ (caller'[k].subscribed <=> caller'[k].pc \in Joined \cup {"unlisten"})
        <4>1. shared'[ChannelOf(k)].callbacks = shared[ChannelOf(k)].callbacks
          BY <1>6
        <4>2. CASE k = l
          BY <1>3, <1>4, <2>1, <3>1, <4>1, <4>2 DEF Undisturbed, Membership, Joined
        <4>3. CASE k # l
          BY <1>4, <2>1, <4>1, <4>3 DEF Undisturbed, Membership
        <4> QED
          BY <4>2, <4>3
      <3>3. \A d \in Channels : (shared'[d].running <=> shared'[d].callbacks # {})
                                /\ \A k \in shared'[d].callbacks : ChannelOf(k) = d
        BY <1>6, <2>1 DEF Undisturbed, Membership
      <3> QED
        BY <3>2, <3>3 DEF Membership
    <2>3. Connection'
      <3>1. \A k \in Listeners :
              (At(k, "connect")' <=> At(k, "connect")) /\ (At(k, "listen")' <=> At(k, "listen"))
        BY <1>4, <1>5 DEF At
      <3>2. \A d \in Channels : shared'[d].running = shared[d].running
        BY <1>6
      <3>3. client' \in {"none", "connecting", "attached"}
            /\ (client' = "connecting" <=> client = "connecting")
            /\ (client' = "attached" => handlers' # {})
            /\ (handlers' # {} => client' = "attached")
        BY <1>1, <1>2, <2>1 DEF Undisturbed, Connection
      <3>4. \A d \in Channels : shared'[d].running => d \in listened'
        BY <1>1, <1>2, <1>7, <1>10, <2>1, <3>2 DEF Undisturbed, Connection
      <3>5. \A d \in Channels :
              d \in handlers' <=> shared'[d].running \/ \E k \in Listeners : ChannelOf(k) = d /\ At(k, "listen")'
        BY <1>1, <2>1, <3>1, <3>2 DEF Undisturbed, Connection
      <3>6. client' = "connecting" <=> \E k \in Listeners : At(k, "connect")'
        BY <2>1, <3>1, <3>3 DEF Undisturbed, Connection
      <3> QED
        BY <3>3, <3>4, <3>5, <3>6 DEF Connection
    <2>4. Heard'
      <3>1. \A w \in Waiters : WouldSleep(caller'[w]) => caller'[w] = caller[w] /\ ~release
        <4> SUFFICES ASSUME NEW w \in Waiters, WouldSleep(caller'[w])
                     PROVE  caller'[w] = caller[w] /\ ~release
          OBVIOUS
        <4>1. caller'[w] = caller[w]
          BY <1>3, <1>4 DEF WouldSleep
        <4>2. "completed" \in handlers
          BY <2>1, <4>1, JoinedIsHeard DEF WouldSleep, Joined
        <4> QED
          BY <1>2, <4>1, <4>2
      <3>2. \A w \in Waiters : WouldSleep(caller'[w]) => caller'[w] = caller[w] /\ (mail => mail')
        BY <1>1, <3>1
      <3> QED
        BY <1>1, <2>1, <3>2, HeardKept DEF Undisturbed
    <2> QED
      BY <2>2, <2>3, <2>4 DEF Undisturbed
  <1> QED
    BY <1>5, <1>8, <1>9, <1>10 DEF IInv

-----------------------------------------------------------------------------
(* Leaving.                                                                *)

LEMMA DisposeUnsubscribedStep ==
  ASSUME IInv, NEW l \in Listeners, At(l, "dispose"), ~caller[l].subscribed,
         caller' = AfterDispose(l),
         UNCHANGED <<shared, handlers, queue, chain, published, mail, client, listened, faulty>>
  PROVE  IInv'
  <1> USE ChannelFacts
  <1>1. /\ caller' \in [Listeners -> Caller] /\ caller'[l].pc \in {"done", "idle"}
        /\ \A k \in Listeners : k # l => caller'[k] = caller[k]
    BY AfterDisposeIs DEF IInv
  <1>2. faulty'
    BY DEF IInv, TypeOK, Undisturbed, Membership, Joined, At
  <1>3. Queued'
    BY <1>1, QueueKept DEF IInv, At
  <1>4. TypeOK' /\ LocksHeld'
    BY <1>1 DEF IInv, TypeOK, LocksHeld, Locking, At
  <1> QED
    BY <1>2, <1>3, <1>4 DEF IInv

(* Others stay: the callback is taken out.                                 *)
LEMMA DisposeOneStep ==
  ASSUME IInv, NEW l \in Listeners, At(l, "dispose"), shared[ChannelOf(l)].lock = NULL,
         ~IsLast(shared[ChannelOf(l)].callbacks, l),
         shared' = [shared EXCEPT ![ChannelOf(l)].callbacks = @ \ {l}],
         caller' = AfterDispose(l),
         UNCHANGED <<handlers, queue, chain, published, mail, client, listened, faulty>>
  PROVE  IInv'
  <1> DEFINE c == ChannelOf(l)
  <1> USE ChannelFacts
  <1>1. /\ caller' \in [Listeners -> Caller]
        /\ caller'[l].pc \in {"done", "idle"} /\ caller'[l].subscribed = FALSE
        /\ \A k \in Listeners : k # l => caller'[k] = caller[k]
    BY AfterDisposeIs DEF IInv
  <1>2. \A d \in Channels :
          /\ shared[d] \in Shared /\ shared'[d] \in Shared
          /\ shared'[d].lock = shared[d].lock /\ shared'[d].running = shared[d].running
          /\ d = c => shared'[d].callbacks = shared[d].callbacks \ {l}
          /\ d # c => shared'[d].callbacks = shared[d].callbacks
    BY DEF IInv, TypeOK, Shared
  <1>3. Queued'
    BY <1>1, QueueKept DEF IInv, At
  <1>4. TypeOK'
    BY <1>1, <1>2 DEF IInv, TypeOK
  <1>5. LocksHeld'
    <2>1. \A k \in Listeners : caller'[k].pc \in Locking <=> caller[k].pc \in Locking
      BY <1>1 DEF Locking, At
    <2> QED
      BY <1>2, <2>1 DEF IInv, LocksHeld
  <1>6. Membership => Membership'
    <2> SUFFICES ASSUME Membership PROVE Membership'
      OBVIOUS
    <2>1. ASSUME NEW k \in Listeners
          PROVE  (k \in shared'[ChannelOf(k)].callbacks <=> caller'[k].pc \in Joined)
                 /\ (caller'[k].subscribed <=> caller'[k].pc \in Joined \cup {"unlisten"})
      <3>1. CASE k = l
        BY <1>1, <1>2, <3>1 DEF Joined
      <3>2. CASE k # l
        <4>1. k \in shared'[ChannelOf(k)].callbacks <=> k \in shared[ChannelOf(k)].callbacks
          BY <1>2, <3>2
        <4> QED
          BY <1>1, <3>2, <4>1 DEF Membership
      <3> QED
        BY <3>1, <3>2
    <2>2. shared[c].running /\ shared'[c].callbacks # {}
      BY <1>2 DEF Membership, IsLast
    <2>3. \A d \in Channels : (shared'[d].running <=> shared'[d].callbacks # {})
                              /\ \A k \in shared'[d].callbacks : ChannelOf(k) = d
      <3> HIDE DEF c
      <3> QED
        BY <1>2, <2>2 DEF Membership
    <2> QED
      BY <2>1, <2>3 DEF Membership
  <1>7. Connection => Connection'
    <2>1. \A k \in Listeners :
            (At(k, "connect")' <=> At(k, "connect")) /\ (At(k, "listen")' <=> At(k, "listen"))
      BY <1>1 DEF At
    <2> HIDE DEF c
    <2> QED
      BY <1>2, <2>1 DEF Connection
  <1>8. Heard => Heard'
    BY <1>1, HeardKept DEF WouldSleep
  <1> QED
    BY <1>3, <1>4, <1>5, <1>6, <1>7, <1>8 DEF IInv, Undisturbed

(* The last one sends UNLISTEN, on the connection its handler kept.        *)
LEMMA DisposeLastStep ==
  ASSUME IInv, NEW l \in Listeners, At(l, "dispose"), shared[ChannelOf(l)].lock = NULL,
         IsLast(shared[ChannelOf(l)].callbacks, l),
         shared' = [shared EXCEPT ![ChannelOf(l)] =
                      [lock |-> l, running |-> FALSE, callbacks |-> {}]],
         handlers' = handlers \ {ChannelOf(l)},
         queue' = Append(queue, [op |-> "unlisten", by |-> l]),
         caller' = Goto(l, "unlisten"),
         UNCHANGED <<chain, published, mail, client, listened, faulty>>
  PROVE  IInv'
  <1> DEFINE c == ChannelOf(l)
             q == [op |-> "unlisten", by |-> l]
             new == [i \in 1 .. 1 |-> q]
  <1> USE ChannelFacts
  <1>1. /\ caller' \in [Listeners -> Caller]
        /\ caller'[l].pc = "unlisten" /\ caller'[l].subscribed = caller[l].subscribed
        /\ \A k \in Listeners : k # l => caller'[k] = caller[k]
    BY GotoIs DEF IInv
  <1>2. /\ shared'[c].lock = l /\ shared'[c].running = FALSE /\ shared'[c].callbacks = {}
        /\ \A d \in Channels : d # c => shared'[d] = shared[d]
        /\ shared' \in [Channels -> Shared]
    BY DEF IInv, TypeOK, Shared
  <1>3. /\ Queued' /\ queue' \in Seq(Query)
        /\ Len(queue) \in Nat /\ Len(queue') = Len(queue) + 1
        /\ queue'[Len(queue) + 1].op = "unlisten"
    <2>1. new \in [1 .. 1 -> Query] /\ \A i \in 1 .. 1 : new[i].by = l /\ new[i].op = "unlisten"
      BY DEF Query
    <2>2. \A i, k \in 1 .. 1 : i = k
      OBVIOUS
    <2>3. queue' = queue \o [i \in 1 .. 1 |-> new[i]]
      <3>1. queue \in Seq(Query) /\ q \in Query
        BY DEF IInv, TypeOK, Query
      <3>2. [i \in 1 .. 1 |-> new[i]] = <<q>>
        BY <3>1
      <3> HIDE DEF q
      <3>3. Append(queue, q) = queue \o <<q>>
        BY <3>1
      <3> HIDE DEF new
      <3> QED
        BY <3>2, <3>3 DEF q
    <2>4. \A i \in 1 .. 1 : caller'[new[i].by].pc = new[i].op
                            /\ ~At(new[i].by, "listen") /\ ~At(new[i].by, "unlisten")
      BY <1>1, <2>1 DEF At
    <2>6. new[1].op = "unlisten" /\ 1 \in 1 .. 1
      BY <2>1
    <2>5. \A k \in Listeners : At(k, "listen") \/ At(k, "unlisten") => caller'[k].pc = caller[k].pc
      BY <1>1 DEF At
    <2> HIDE DEF new
    <2>7. /\ Queued' /\ queue' \in Seq(Query) /\ Len(queue') = Len(queue) + 1
          /\ Len(queue) \in Nat
          /\ \A i \in 1 .. 1 : queue'[Len(queue) + i] = new[i]
      <3>1. 1 \in Nat /\ TypeOK /\ Queued
        BY DEF IInv
      <3> QED
        BY <3>1, <2>1, <2>2, <2>3, <2>4, <2>5, QueueGrows
    <2> QED
      BY <2>6, <2>7
  <1> HIDE DEF q, new
  <1>4. TypeOK'
    BY <1>1, <1>2, <1>3 DEF IInv, TypeOK
  <1>5. LocksHeld'
    <2>1. ASSUME NEW k \in Listeners
          PROVE  caller'[k].pc \in Locking <=> shared'[ChannelOf(k)].lock = k
      <3>1. CASE k = l
        BY <1>1, <1>2, <3>1 DEF Locking
      <3>2. CASE k # l /\ ChannelOf(k) = c
        BY <1>1, <1>2, <3>2 DEF IInv, LocksHeld
      <3>3. CASE k # l /\ ChannelOf(k) # c
        BY <1>1, <1>2, <3>3 DEF IInv, LocksHeld
      <3> QED
        BY <3>1, <3>2, <3>3
    <2>2. \A d \in Channels : shared'[d].lock # NULL =>
            ChannelOf(shared'[d].lock) = d /\ ~shared'[d].running
      BY <1>2 DEF IInv, LocksHeld
    <2> QED
      BY <2>1, <2>2 DEF LocksHeld
  <1>6. ASSUME Membership
        PROVE  /\ Membership' /\ shared[c].running
               /\ \A k \in Listeners : k # l /\ ChannelOf(k) = c => caller[k].pc \notin Joined
    <2>1. \A k \in Listeners : k # l /\ ChannelOf(k) = c => caller[k].pc \notin Joined
      BY <1>6 DEF Membership, IsLast
    <2>2. caller[l].pc \in Joined
      BY DEF Joined, At
    <2>3. ASSUME NEW k \in Listeners
          PROVE  (k \in shared'[ChannelOf(k)].callbacks <=> caller'[k].pc \in Joined)
                 /\ (caller'[k].subscribed <=> caller'[k].pc \in Joined \cup {"unlisten"})
      <3>1. CASE k = l
        BY <1>1, <1>2, <1>6, <2>2, <3>1 DEF Membership, Joined
      <3>2. CASE k # l /\ ChannelOf(k) = c
        BY <1>1, <1>2, <1>6, <2>1, <3>2 DEF Membership
      <3>3. CASE k # l /\ ChannelOf(k) # c
        BY <1>1, <1>2, <1>6, <3>3 DEF Membership
      <3> QED
        BY <3>1, <3>2, <3>3
    <2>4. \A d \in Channels : (shared'[d].running <=> shared'[d].callbacks # {})
                              /\ \A k \in shared'[d].callbacks : ChannelOf(k) = d
      BY <1>2, <1>6 DEF Membership
    <2>5. shared[c].running
      BY <1>6, <2>2 DEF Membership
    <2> QED
      BY <2>1, <2>3, <2>4, <2>5 DEF Membership
  <1>7. Membership /\ Connection => Connection'
    <2> SUFFICES ASSUME Membership, Connection PROVE Connection'
      OBVIOUS
    <2>1. c \in handlers /\ client' = "attached"
      BY <1>6 DEF Connection
    <2>2. \E i \in 1 .. Len(queue') : queue'[i].op = "unlisten"
      BY <1>3
    <2>3. \A k \in Listeners :
            (At(k, "connect")' <=> At(k, "connect")) /\ (At(k, "listen")' <=> At(k, "listen"))
      BY <1>1 DEF At
    <2>4. \A k \in Listeners : ChannelOf(k) = c => ~At(k, "listen")
      BY DEF IInv, LocksHeld, Locking, At
    <2>5. ASSUME NEW d \in Channels
          PROVE  d \in handlers' <=> shared'[d].running
                   \/ \E k \in Listeners : ChannelOf(k) = d /\ At(k, "listen")'
      <3>1. CASE d = c
        BY <1>2, <2>3, <2>4, <3>1
      <3>2. CASE d # c
        BY <1>2, <2>3, <3>2 DEF Connection
      <3> QED
        BY <3>1, <3>2
    <2>6. \A d \in Channels : shared'[d].running => d \in listened'
      BY <1>2 DEF Connection
    <2>7. ~ \E k \in Listeners : At(k, "connect")'
      BY <2>1, <2>3 DEF Connection
    <2> QED
      BY <2>1, <2>2, <2>5, <2>6, <2>7 DEF Connection
  <1>8. Heard => Heard'
    BY <1>1, HeardKept DEF WouldSleep
  <1> QED
    BY <1>3, <1>4, <1>5, <1>6, <1>7, <1>8 DEF IInv, Undisturbed

LEMMA DisposeStep == ASSUME IInv, NEW l \in Listeners, Dispose(l) PROVE IInv'
  BY DisposeUnsubscribedStep, DisposeOneStep, DisposeLastStep DEF Dispose

-----------------------------------------------------------------------------
LEMMA InitInv == Init => IInv
  <1> SUFFICES ASSUME Init PROVE IInv
    OBVIOUS
  <1>1. TypeOK
    <2>1. caller \in [Listeners -> Caller]
      BY DEF Init, Caller
    <2>2. shared \in [Channels -> Shared]
      BY DEF Init, Shared
    <2>3. queue \in Seq(Query)
      BY DEF Init
    <2> QED
      BY <2>1, <2>2, <2>3 DEF Init, TypeOK
  <1>2. LocksHeld /\ Membership
    BY ChannelFacts DEF Init, LocksHeld, Membership, Locking, Joined
  <1>3. Queued
    BY DEF Init, Queued
  <1>4. Connection /\ Heard
    BY DEF Init, Connection, Heard, At, WouldSleep
  <1> QED
    BY <1>1, <1>2, <1>3, <1>4 DEF IInv, Undisturbed

LEMMA StepInv == IInv /\ [Next]_vars => IInv'
  <1> SUFFICES ASSUME IInv, [Next]_vars PROVE IInv'
    OBVIOUS
  <1>1. CASE Complete \/ Delete \/ NotifyChainCompleted \/ LoseNotification \/ Dispatch
    BY <1>1, CompleteStep, DeleteStep, NotifyStep, LoseNotificationStep, DispatchStep
  <1>2. CASE Connected \/ ConnectFails \/ Disconnect
    BY <1>2, ConnectedStep, ConnectFailsStep, DisconnectStep
  <1>3. CASE Listened \/ ListenFails \/ Unlistened
    BY <1>3, ListenedStep, ListenFailsStep, UnlistenedStep
  <1>4. CASE \E l \in Listeners : Start(l) \/ Join(l) \/ Open(l) \/ Leave(l) \/ Dispose(l)
    BY <1>4, StartStep, JoinStep, OpenStep, LeaveStep, DisposeStep
  <1>5. CASE \E w \in Waiters : CheckChain(w) \/ Decide(w) \/ Wake(w) \/ Timeout(w)
    BY <1>5, CheckChainStep, DecideStep, WakeStep, TimeoutStep
  <1>6. CASE UNCHANGED vars
    <2>1. UNCHANGED <<caller, shared, provider, chain, published, mail, faulty>>
      BY <1>6 DEF vars, provider
    <2>2. TypeOK' /\ LocksHeld' /\ Queued' /\ (Membership => Membership') /\ (Connection => Connection')
      BY <2>1, NothingQueuedMoves DEF IInv, TypeOK
    <2>3. Heard => Heard'
      BY <2>1 DEF Heard
    <2> QED
      BY <2>1, <2>2, <2>3 DEF IInv, Undisturbed
  <1> QED
    BY <1>1, <1>2, <1>3, <1>4, <1>5, <1>6 DEF Next

(* The invariant holds in every state, with any faults.                    *)
THEOREM Invariance == Spec => []IInv
  BY InitInv, StepInv, PTL DEF Spec

(* As long as nothing fails, an awaitChain that sleeps when the completion *)
(* of its chain is published has its notification or will get it: the poll *)
(* interval is never what it depends on (client.ts, awaitChain).           *)
THEOREM CompletionsAreHeard == Spec => []NoCompletionMissed
  <1>1. IInv => NoCompletionMissed
    BY DEF IInv, Undisturbed, Heard, WouldSleep, NoCompletionMissed, At
  <1> QED
    BY <1>1, Invariance, PTL

(* As long as nothing fails, a shared listener that has callbacks has its  *)
(* handler, and the connection it shares with the other channel listens    *)
(* for it (notify-provider.pg-pool.ts).                                    *)
THEOREM ListenersAreHeard == Spec => []RunningIsHeard
  <1>1. IInv => RunningIsHeard
    BY DEF IInv, Undisturbed, Connection, RunningIsHeard
  <1> QED
    BY <1>1, Invariance, PTL

(* As long as nothing fails, no connection is kept from the pool when      *)
(* everybody has left (releaseListenClient).                               *)
THEOREM ConnectionGoesBack == Spec => []ConnectionReturned
  <1>1. IInv => ConnectionReturned
    <2> SUFFICES ASSUME IInv, ~faulty, \A l \in Listeners : At(l, "idle") \/ At(l, "done")
                 PROVE  client = "none"
      BY DEF ConnectionReturned
    <2>1. Membership /\ Connection
      BY DEF IInv, Undisturbed
    <2>2. \A d \in Channels : shared[d].callbacks = {}
      <3> SUFFICES ASSUME NEW d \in Channels, NEW k \in shared[d].callbacks PROVE FALSE
        OBVIOUS
      <3>1. k \in Listeners /\ ChannelOf(k) = d
        BY <2>1 DEF Membership, IInv, TypeOK, Shared
      <3> QED
        BY <2>1, <3>1 DEF Membership, Joined, At
    <2>3. handlers = {}
      BY <2>1, <2>2 DEF Membership, Connection, At, IInv, TypeOK
    <2>4. \A i \in 1 .. Len(queue) : FALSE
      BY QueryTypes DEF IInv, Queued, At
    <2> QED
      BY <2>1, <2>3, <2>4 DEF Connection, At
  <1> QED
    BY <1>1, Invariance, PTL
=============================================================================
