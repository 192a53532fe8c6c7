------------------------- MODULE AsyncRwLockProofs -------------------------
(***************************************************************************)
(* Theorems about AsyncRwLock, for any finite set of clients.              *)
(*                                                                         *)
(* None of the invariants is inductive by itself.  That a drain counts the *)
(* readers it grants needs the queue to name each waiter once and to agree *)
(* with the handles (QueueMatches); that it may grant at all needs the     *)
(* counters to be exact; and those are exact after a writer's release only *)
(* because a writer excludes readers.  LockInv is the conjunction.         *)
(***************************************************************************)
EXTENDS AsyncRwLock, FiniteSetTheorems, FunctionTheorems,
        WellFoundedInduction, TLAPS

(* Each client waits at most once, for what its handle says.               *)
QueueMatches ==
  /\ \A i, j \in 1 .. Len(queue) : queue[i].who = queue[j].who => i = j
  /\ \A i \in 1 .. Len(queue) :
       handle[queue[i].who] = IF queue[i].kind = "read" THEN "awaitRead" ELSE "awaitWrite"

LockInv ==
  /\ TypeOK /\ QueueMatches
  /\ MutualExclusion /\ CountersExact /\ NoMissedGrant

-----------------------------------------------------------------------------
(* The helpers of drain().                                                 *)

(* A nonempty set of naturals has a least element.                         *)
LEMMA LeastNatural ==
  ASSUME NEW T \in SUBSET Nat, T # {}
  PROVE  \E x \in T : \A y \in T : x <= y
<1>1. PICK x \in T : \A y \in T : ~ (<<y, x>> \in OpToRel(<, Nat))
  BY NatLessThanWellFounded, WFMin, Zenon
<1>2. \A y \in T : ~ (y < x)
  BY <1>1 DEF OpToRel
<1> QED
  BY <1>2

(* There is a first writer in the queue or none: LeadingReads is what its  *)
(* definition says.                                                        *)
LEMMA LeadingReadsExist ==
  ASSUME queue \in Seq(Waiter)
  PROVE  /\ LeadingReads \in 0 .. Len(queue)
         /\ \A i \in 1 .. LeadingReads : queue[i].kind = "read"
         /\ LeadingReads < Len(queue) => queue[LeadingReads + 1].kind = "write"
<1> DEFINE Writes == {i \in 1 .. Len(queue) : queue[i].kind # "read"}
<1> SUFFICES \E n \in 0 .. Len(queue) :
       /\ \A i \in 1 .. n : queue[i].kind = "read"
       /\ n < Len(queue) => queue[n + 1].kind = "write"
  BY DEF LeadingReads
<1>0. Len(queue) \in Nat /\ \A i \in 1 .. Len(queue) : queue[i] \in Waiter
  OBVIOUS
<1>1. CASE Writes = {}
  <2>1. \A i \in 1 .. Len(queue) : queue[i].kind = "read"
    BY <1>1
  <2> WITNESS Len(queue) \in 0 .. Len(queue)
  <2> QED
    BY <2>1
<1>2. CASE Writes # {}
  <2>1. PICK w \in Writes : \A y \in Writes : w <= y
    <3>1. Writes \in SUBSET Nat
      BY <1>0
    <3> HIDE DEF Writes
    <3> QED
      BY <1>2, <3>1, LeastNatural
  <2>2. w \in 1 .. Len(queue) /\ queue[w].kind = "write"
    BY <1>0, <2>1 DEF Waiter
  <2>3. \A i \in 1 .. (w - 1) : queue[i].kind = "read"
    BY <1>0, <2>1
  <2>4. w - 1 \in 0 .. Len(queue)
    BY <1>0, <2>2
  <2> QED
    <3> USE <2>4
    <3> WITNESS w - 1 \in 0 .. Len(queue)
    <3>1. (w - 1) + 1 = w
      BY <2>2
    <3> QED
      BY <2>2, <2>3, <3>1
<1> QED
  BY <1>1, <1>2

(* The readers at the head of the queue are as many clients.               *)
LEMMA GrantedCount ==
  ASSUME queue \in Seq(Waiter), QueueMatches, NEW n \in 0 .. Len(queue)
  PROVE  LET granted == {queue[i].who : i \in 1 .. n}
         IN  IsFiniteSet(granted) /\ Cardinality(granted) = n
<1> DEFINE granted == {queue[i].who : i \in 1 .. n}
           f == [i \in 1 .. n |-> queue[i].who]
<1>1. f \in Bijection(1 .. n, granted)
  <2>1. f \in [1 .. n -> granted]
    OBVIOUS
  <2>2. \A i, j \in 1 .. n : f[i] = f[j] => i = j
    BY DEF QueueMatches
  <2>3. \A g \in granted : \E i \in 1 .. n : f[i] = g
    OBVIOUS
  <2> QED
    BY <2>1, <2>2, <2>3 DEF Bijection, Injection, Surjection, IsInjective
<1>2. IsFiniteSet(1 .. n) /\ Cardinality(1 .. n) = n
  BY FS_Interval
<1>3. ExistsBijection(1 .. n, granted)
  BY <1>1 DEF ExistsBijection
<1> QED
  BY <1>2, <1>3, FS_Bijection

LEMMA HoldersFinite ==
  IsFiniteSet(Readers) /\ IsFiniteSet(Writers)
BY ClientsFinite, FS_Subset DEF Readers, Writers

(* Exclusion and exact counters, as facts about single clients.            *)
LEMMA Holding ==
  ASSUME LockInv
  PROVE  /\ \A c \in Clients : handle[c] = "read" => readers > 0 /\ ~writerActive
         /\ \A c \in Clients : handle[c] = "write" => readers = 0 /\ writerActive
         /\ readers > 0 => ~writerActive
         /\ writerActive => \E c \in Clients : handle[c] = "write"
<1>1. Readers = {} <=> readers = 0
  BY HoldersFinite, FS_EmptySet DEF LockInv, CountersExact
<1>2. \A c \in Clients : handle[c] = "read" => Readers # {} /\ Writers = {}
  BY DEF LockInv, MutualExclusion, Readers, Writers
<1>3. \A c \in Clients : handle[c] = "write" => Readers = {} /\ Writers # {}
  BY DEF LockInv, MutualExclusion, Readers, Writers
<1>4. Readers # {} => \E c \in Clients : handle[c] = "read"
  BY DEF Readers
<1>5. Writers # {} => \E c \in Clients : handle[c] = "write"
  BY DEF Writers
<1>6. readers \in Nat /\ (writerActive <=> Writers # {})
  BY DEF LockInv, TypeOK, CountersExact
<1> QED
  BY <1>1, <1>2, <1>3, <1>4, <1>5, <1>6

-----------------------------------------------------------------------------
(* A drain from a free lock hands it to the first n waiters, which are a   *)
(* writer alone or readers up to the next writer.                          *)

Granted(n) == {queue[i].who : i \in 1 .. n}

HandsOn(c, spent, n, to) ==
  /\ queue' = SubSeq(queue, n + 1, Len(queue))
  /\ c \notin Granted(n) /\ Granted(n) \subseteq Clients
  /\ n = 0 => queue = <<>>
  /\ handle' = [d \in Clients |->
       IF d = c THEN spent ELSE IF d \in Granted(n) THEN to ELSE handle[d]]

ToOneWriter(n) ==
  n = 1 /\ queue[1].kind = "write" /\ writerActive' = TRUE /\ readers' = 0

ToReaders(n) ==
  /\ n < Len(queue) => queue[n + 1].kind = "write"
  /\ writerActive' = FALSE /\ readers' = n

LEMMA DrainShape ==
  ASSUME LockInv, NEW c \in Clients, NEW spent \in {"releasedRead", "releasedWrite"},
         handle[c] \in {"read", "write"}, Drain(c, spent, 0)
  PROVE  \E n \in 0 .. Len(queue), to \in {"read", "write"} :
           /\ HandsOn(c, spent, n, to)
           /\ IF to = "write" THEN ToOneWriter(n) ELSE ToReaders(n)
<1> DEFINE n == Grants(0)
           granted == {queue[i].who : i \in 1 .. n}
<1>0. /\ queue \in Seq(Waiter) /\ Len(queue) \in Nat
      /\ \A i \in 1 .. Len(queue) : queue[i] \in Waiter
      /\ queue # <<>> => 1 \in 1 .. Len(queue)
      /\ handle \in [Clients -> HandleState]
  BY DEF LockInv, TypeOK
<1>1. /\ LeadingReads \in 0 .. Len(queue)
      /\ \A i \in 1 .. LeadingReads : queue[i].kind = "read"
      /\ LeadingReads < Len(queue) => queue[LeadingReads + 1].kind = "write"
  BY <1>0, LeadingReadsExist
<1>2. n \in 0 .. Len(queue)
  BY <1>0, <1>1 DEF Grants
<1>3. granted \subseteq Clients
  BY <1>0, <1>2 DEF Waiter
<1>4. c \notin granted
  BY <1>0, <1>2 DEF LockInv, QueueMatches
<1>5. n = 0 => queue = <<>>
  BY <1>0, <1>1 DEF Grants
<1>6. /\ queue' = SubSeq(queue, n + 1, Len(queue))
      /\ writerActive' = (n > 0 /\ queue[1].kind = "write")
      /\ readers' = IF n > 0 /\ queue[1].kind = "write" THEN 0 ELSE 0 + n
      /\ handle' = [d \in Clients |->
                      IF d = c THEN spent
                      ELSE IF d \notin granted THEN handle[d]
                      ELSE IF n > 0 /\ queue[1].kind = "write" THEN "write" ELSE "read"]
  BY DEF Drain
<1> HIDE DEF n
<1>7. CASE queue # <<>> /\ queue[1].kind = "write"
  <2>1. n = 1
    BY <1>7 DEF n, Grants
  <2>2. n > 0 /\ queue[1].kind = "write"
    BY <1>7, <2>1
  <2>3. HandsOn(c, spent, n, "write")
    <3>1. handle' = [d \in Clients |->
            IF d = c THEN spent ELSE IF d \in granted THEN "write" ELSE handle[d]]
      BY <1>6, <2>2
    <3> QED
      BY <1>3, <1>4, <1>5, <1>6, <3>1 DEF HandsOn, Granted
  <2>4. ToOneWriter(n)
    BY <1>6, <2>1, <2>2 DEF ToOneWriter
  <2> QED
    BY <1>2, <2>3, <2>4
<1>8. CASE ~(queue # <<>> /\ queue[1].kind = "write")
  <2>1. n = LeadingReads
    BY <1>8 DEF n, Grants
  <2>2. ~(n > 0 /\ queue[1].kind = "write")
    BY <1>0, <1>2, <1>8
  <2>3. HandsOn(c, spent, n, "read")
    <3>1. handle' = [d \in Clients |->
            IF d = c THEN spent ELSE IF d \in granted THEN "read" ELSE handle[d]]
      BY <1>6, <2>2
    <3> QED
      BY <1>3, <1>4, <1>5, <1>6, <3>1 DEF HandsOn, Granted
  <2>4. ToReaders(n)
    <3>1. n \in Nat /\ 0 + n = n
      BY <1>2
    <3>2. writerActive' = FALSE
      BY <1>6, <2>2
    <3>3. readers' = n
      BY <1>6, <2>2, <3>1
    <3> QED
      BY <1>1, <2>1, <3>2, <3>3 DEF ToReaders
  <2> QED
    BY <1>2, <2>3, <2>4
<1> QED
  BY <1>7, <1>8

-----------------------------------------------------------------------------
(* Each step keeps the invariant.                                          *)

LEMMA InitInv == Init => LockInv
<1> SUFFICES ASSUME Init PROVE LockInv
  OBVIOUS
<1>0. queue = <<>> /\ Len(queue) = 0 /\ queue \in Seq(Waiter)
  BY DEF Init
<1>1. TypeOK /\ QueueMatches /\ MutualExclusion /\ NoMissedGrant
  <2>1. TypeOK
    BY <1>0 DEF Init, TypeOK, HandleState
  <2>2. MutualExclusion
    BY DEF Init, MutualExclusion, Writers
  <2> QED
    BY <1>0, <2>1, <2>2 DEF QueueMatches, NoMissedGrant
<1>2. Readers = {} /\ Writers = {}
  BY DEF Init, Readers, Writers
<1>3. CountersExact
  BY <1>2, FS_EmptySet DEF Init, CountersExact
<1> QED
  BY <1>1, <1>3 DEF LockInv

(* A client that was outside takes the lock at once.                       *)
LEMMA AcquireNowKeeps ==
  ASSUME LockInv, NEW c \in Clients, AcquireReadNow(c) \/ AcquireWriteNow(c)
  PROVE  LockInv'
<1>0. /\ queue = <<>> /\ queue' = queue
      /\ handle \in [Clients -> HandleState] /\ ~writerActive
      /\ readers \in Nat /\ writerActive \in BOOLEAN
      /\ handle[c] \notin {"read", "write"}
  BY DEF LockInv, TypeOK, AcquireReadNow, AcquireWriteNow, NotUsing
<1>1. CASE AcquireReadNow(c)
  <2>1. handle' = [handle EXCEPT ![c] = "read"] /\ readers' = readers + 1
        /\ writerActive' = writerActive
    BY <1>1 DEF AcquireReadNow
  <2>2. Readers' = Readers \cup {c} /\ Writers' = Writers /\ c \notin Readers
    BY <1>0, <2>1 DEF Readers, Writers
  <2>3. \A d \in Clients : handle[d] # "write"
    BY <1>0, Holding
  <2>4. TypeOK'
    BY <1>0, <2>1 DEF LockInv, TypeOK, HandleState
  <2>5. MutualExclusion'
    BY <1>0, <2>1, <2>3 DEF MutualExclusion, Writers
  <2>6. CountersExact'
    BY <2>1, <2>2, HoldersFinite, FS_AddElement DEF LockInv, CountersExact
  <2> QED
    BY <1>0, <2>4, <2>5, <2>6 DEF LockInv, QueueMatches, NoMissedGrant
<1>2. CASE AcquireWriteNow(c)
  <2>1. handle' = [handle EXCEPT ![c] = "write"] /\ readers' = readers
        /\ writerActive' = TRUE /\ readers = 0
    BY <1>2 DEF AcquireWriteNow
  <2>2. Readers' = Readers /\ c \in Writers'
    BY <1>0, <2>1 DEF Readers, Writers
  <2>3. \A d \in Clients : handle[d] \notin {"read", "write"}
    BY <1>0, <2>1, Holding
  <2>4. TypeOK'
    BY <1>0, <2>1 DEF LockInv, TypeOK, HandleState
  <2>5. MutualExclusion'
    BY <1>0, <2>1, <2>3 DEF MutualExclusion, Writers
  <2>6. CountersExact'
    BY <2>1, <2>2 DEF LockInv, CountersExact
  <2> QED
    BY <1>0, <2>4, <2>5, <2>6 DEF LockInv, QueueMatches, NoMissedGrant
<1> QED
  BY <1>1, <1>2

(* A client that was outside goes to the end of the queue.                 *)
LEMMA AcquireLaterKeeps ==
  ASSUME LockInv, NEW c \in Clients, AcquireReadLater(c) \/ AcquireWriteLater(c)
  PROVE  LockInv'
<1> DEFINE kind == IF AcquireReadLater(c) THEN "read" ELSE "write"
           wait == IF kind = "read" THEN "awaitRead" ELSE "awaitWrite"
           w == [who |-> c, kind |-> kind]
<1>0. /\ queue \in Seq(Waiter) /\ Len(queue) \in Nat
      /\ handle \in [Clients -> HandleState] /\ NotUsing(c)
      /\ readers \in Nat /\ writerActive \in BOOLEAN
  BY DEF LockInv, TypeOK, AcquireReadLater, AcquireWriteLater
<1>1. /\ queue' = Append(queue, w) /\ handle' = [handle EXCEPT ![c] = wait]
      /\ readers' = readers /\ writerActive' = writerActive
      /\ writerActive \/ queue # <<>> \/ (readers # 0 /\ kind = "write")
  <2>1. CASE AcquireReadLater(c)
    BY <2>1 DEF AcquireReadLater
  <2>2. CASE ~AcquireReadLater(c)
    BY <2>2 DEF AcquireWriteLater
  <2> QED
    BY <2>1, <2>2
<1>2. wait \in {"awaitRead", "awaitWrite"} /\ kind \in {"read", "write"}
  OBVIOUS
<1>3. w \in Waiter /\ w.who = c /\ w.kind = kind
  BY <1>2 DEF Waiter
<1>4. /\ queue' \in Seq(Waiter) /\ Len(queue') = Len(queue) + 1
      /\ \A i \in 1 .. Len(queue) : queue'[i] = queue[i]
      /\ queue'[Len(queue) + 1] = w
  <2> HIDE DEF w
  <2> QED
    BY <1>0, <1>1, <1>3
<1>5. \A i \in 1 .. Len(queue) : queue[i].who # c /\ queue[i].who \in Clients
  <2> TAKE i \in 1 .. Len(queue)
  <2>1. queue[i].who \in Clients
    <3>1. queue[i] \in Waiter
      BY <1>0
    <3> QED
      BY <3>1 DEF Waiter
  <2>2. handle[queue[i].who] \in {"awaitRead", "awaitWrite"}
    BY DEF LockInv, QueueMatches
  <2> QED
    BY <1>0, <2>1, <2>2 DEF NotUsing
<1>6. QueueMatches'
  <2> HIDE DEF w, wait, kind
  <2>1. \A i \in 1 .. Len(queue) : handle'[queue'[i].who] = handle[queue[i].who]
    BY <1>0, <1>1, <1>4, <1>5
  <2>2. handle'[queue'[Len(queue) + 1].who] = wait
    BY <1>0, <1>1, <1>3, <1>4
  <2>3. \A i \in 1 .. Len(queue') : i \in 1 .. Len(queue) \/ i = Len(queue) + 1
    BY <1>0, <1>4
  <2>4. \A i, j \in 1 .. Len(queue') : queue'[i].who = queue'[j].who => i = j
    BY <1>3, <1>4, <1>5, <2>3 DEF LockInv, QueueMatches
  <2>5. \A i \in 1 .. Len(queue') :
          handle'[queue'[i].who] = IF queue'[i].kind = "read" THEN "awaitRead" ELSE "awaitWrite"
    <3>1. ASSUME NEW i \in 1 .. Len(queue)
          PROVE  handle'[queue'[i].who] = IF queue'[i].kind = "read" THEN "awaitRead" ELSE "awaitWrite"
      BY <1>4, <2>1 DEF LockInv, QueueMatches
    <3>2. queue'[Len(queue) + 1].kind = kind
      BY <1>3, <1>4
    <3> QED
      BY <2>2, <2>3, <3>1, <3>2 DEF wait
  <2> QED
    BY <2>4, <2>5 DEF QueueMatches
<1>7. Readers' = Readers /\ Writers' = Writers
  BY <1>0, <1>1, <1>2 DEF Readers, Writers, NotUsing
<1>8. TypeOK'
  BY <1>0, <1>1, <1>2, <1>4 DEF LockInv, TypeOK, HandleState
<1>9. MutualExclusion'
  BY <1>0, <1>1, <1>2, <1>7 DEF LockInv, MutualExclusion
<1>10. CountersExact'
  BY <1>1, <1>7 DEF LockInv, CountersExact
<1>11. NoMissedGrant'
  <2> HIDE DEF w, wait, kind
  <2>1. CASE queue # <<>>
    <3>1. queue'[1] = queue[1]
      BY <1>0, <1>4, <2>1
    <3> QED
      BY <1>1, <2>1, <3>1 DEF LockInv, NoMissedGrant
  <2>2. CASE queue = <<>>
    <3>1. queue'[1] = w
      BY <1>4, <2>2
    <3> QED
      BY <1>0, <1>1, <1>3, <2>2, <3>1 DEF NoMissedGrant
  <2> QED
    BY <2>1, <2>2
<1> QED
  BY <1>6, <1>8, <1>9, <1>10, <1>11 DEF LockInv

(* The last holder leaves and drain() hands the lock on.                   *)
LEMMA DrainKeeps ==
  ASSUME LockInv, NEW c \in Clients, NEW spent \in {"releasedRead", "releasedWrite"},
         handle[c] \in {"read", "write"},
         \A d \in Clients \ {c} : handle[d] \notin {"read", "write"},
         Drain(c, spent, 0)
  PROVE  LockInv'
<1>1. PICK n \in 0 .. Len(queue), to \in {"read", "write"} :
        /\ HandsOn(c, spent, n, to)
        /\ IF to = "write" THEN ToOneWriter(n) ELSE ToReaders(n)
  BY DrainShape
<1> DEFINE granted == Granted(n)
<1>0. /\ queue \in Seq(Waiter) /\ Len(queue) \in Nat /\ n \in Nat
      /\ \A i \in 1 .. Len(queue) : queue[i] \in Waiter
      /\ handle \in [Clients -> HandleState]
  BY DEF LockInv, TypeOK
<1>2. /\ queue' \in Seq(Waiter) /\ Len(queue') = Len(queue) - n
      /\ \A i \in 1 .. Len(queue') : i + n \in 1 .. Len(queue) /\ queue'[i] = queue[i + n]
  <2>1. queue' = SubSeq(queue, n + 1, Len(queue))
    BY <1>1 DEF HandsOn
  <2> QED
    BY <1>0, <2>1
<1>3. /\ c \notin granted /\ granted \subseteq Clients
      /\ handle' = [d \in Clients |->
           IF d = c THEN spent ELSE IF d \in granted THEN to ELSE handle[d]]
  BY <1>1 DEF HandsOn
<1>4. writerActive' \in BOOLEAN /\ readers' \in Nat
  <2>1. CASE to = "write"
    BY <1>1, <2>1 DEF ToOneWriter
  <2>2. CASE to # "write"
    BY <1>0, <1>1, <2>2 DEF ToReaders
  <2> QED
    BY <2>1, <2>2
<1>5. \A i \in 1 .. Len(queue') : queue'[i].who \notin granted /\ queue'[i].who # c
                                 /\ queue'[i].who \in Clients
  <2> TAKE i \in 1 .. Len(queue')
  <2>1. i + n \in 1 .. Len(queue) /\ queue'[i] = queue[i + n]
    BY <1>2
  <2>2. \A j \in 1 .. n : queue[j].who # queue[i + n].who
    BY <1>0, <2>1 DEF LockInv, QueueMatches
  <2>3. queue[i + n].who # c
    BY <2>1 DEF LockInv, QueueMatches
  <2> QED
    BY <1>0, <2>1, <2>2, <2>3 DEF Waiter, Granted
<1>6. QueueMatches'
  <2> HIDE DEF granted
  <2>1. \A i \in 1 .. Len(queue') : handle'[queue'[i].who] = handle[queue[i + n].who]
    BY <1>2, <1>3, <1>5
  <2>2. \A i \in 1 .. Len(queue') :
          handle'[queue'[i].who] = IF queue'[i].kind = "read" THEN "awaitRead" ELSE "awaitWrite"
    <3> TAKE i \in 1 .. Len(queue')
    <3> DEFINE k == i + n
    <3>1. k \in 1 .. Len(queue) /\ queue'[i] = queue[k]
      BY <1>2
    <3>2. handle'[queue'[i].who] = handle[queue[k].who]
      BY <2>1
    <3> HIDE DEF k
    <3> QED
      BY <3>1, <3>2 DEF LockInv, QueueMatches
  <2>3. ASSUME NEW i \in 1 .. Len(queue'), NEW j \in 1 .. Len(queue'),
               queue'[i].who = queue'[j].who
        PROVE  i = j
    <3> DEFINE k == i + n
               l == j + n
    <3>1. /\ k \in 1 .. Len(queue) /\ queue'[i] = queue[k]
          /\ l \in 1 .. Len(queue) /\ queue'[j] = queue[l]
      BY <1>2
    <3> HIDE DEF k, l
    <3>2. k = l
      BY <2>3, <3>1 DEF LockInv, QueueMatches
    <3> QED
      BY <1>0, <1>2, <3>2 DEF k, l
  <2> QED
    BY <2>2, <2>3 DEF QueueMatches
<1>7. TypeOK'
  <2>1. \A d \in Clients : handle'[d] \in HandleState
    BY <1>0, <1>3 DEF HandleState
  <2>2. handle' = [d \in Clients |-> handle'[d]]
    BY <1>3
  <2> QED
    BY <1>2, <1>4, <2>1, <2>2 DEF TypeOK
<1>8. \A d \in Clients : handle'[d] \in {"read", "write"} <=> d \in granted
  BY <1>3
<1>9. \A d \in granted : handle'[d] = to
  BY <1>3
<1>10. IsFiniteSet(granted) /\ Cardinality(granted) = n
  BY <1>0, GrantedCount DEF LockInv, Granted
<1> HIDE DEF granted
<1>11. CASE to = "write"
  <2>1. n = 1 /\ readers' = 0 /\ writerActive' = TRUE
    BY <1>1, <1>11 DEF ToOneWriter
  <2>2. granted = {queue[1].who}
    BY <2>1 DEF granted, Granted
  <2>3. Readers' = {} /\ Writers' = granted
    BY <1>3, <1>8, <1>9, <1>11 DEF Readers, Writers
  <2>4. MutualExclusion'
    BY <1>8, <2>2, <2>3 DEF MutualExclusion
  <2>5. CountersExact'
    BY <2>1, <2>2, <2>3, FS_EmptySet DEF CountersExact
  <2>6. NoMissedGrant'
    BY <2>1 DEF NoMissedGrant
  <2> QED
    BY <1>6, <1>7, <2>4, <2>5, <2>6 DEF LockInv
<1>12. CASE to = "read"
  <2>1. /\ readers' = n /\ writerActive' = FALSE
        /\ n = 0 => queue = <<>>
        /\ n < Len(queue) => queue[n + 1].kind = "write"
    BY <1>1, <1>12 DEF ToReaders, HandsOn
  <2>3. Readers' = granted /\ Writers' = {}
    BY <1>3, <1>8, <1>9, <1>12 DEF Readers, Writers
  <2>4. MutualExclusion'
    BY <2>3 DEF MutualExclusion
  <2>5. CountersExact'
    BY <1>10, <2>1, <2>3 DEF CountersExact
  <2>6. NoMissedGrant'
    <3>1. CASE n = Len(queue)
      BY <1>2, <3>1 DEF NoMissedGrant
    <3>2. CASE n # Len(queue)
      <4>1. 1 \in 1 .. Len(queue') /\ n < Len(queue)
        BY <1>0, <1>2, <3>2
      <4>2. queue'[1].kind = "write"
        BY <1>0, <1>2, <2>1, <4>1
      <4>3. n > 0
        BY <1>0, <2>1, <4>1
      <4> QED
        BY <2>1, <4>2, <4>3 DEF NoMissedGrant
    <3> QED
      BY <3>1, <3>2
  <2> QED
    BY <1>6, <1>7, <2>4, <2>5, <2>6 DEF LockInv
<1> QED
  BY <1>11, <1>12

(* Who holds the lock before a release.                                    *)
LEMMA ReleaseIsDrain ==
  ASSUME LockInv, NEW c \in Clients, Release(c)
  PROVE  \/ /\ handle[c] = "read" /\ readers > 1
            /\ readers' = readers - 1
            /\ handle' = [handle EXCEPT ![c] = "releasedRead"]
            /\ UNCHANGED <<queue, writerActive>>
         \/ /\ handle[c] \in {"read", "write"}
            /\ \A d \in Clients \ {c} : handle[d] \notin {"read", "write"}
            /\ \E spent \in {"releasedRead", "releasedWrite"} : Drain(c, spent, 0)
<1>0. readers \in Nat /\ readers = Cardinality(Readers)
  BY DEF LockInv, TypeOK, CountersExact
<1>1. CASE ReleaseRead(c) /\ readers = 1
  <2>1. handle[c] = "read" /\ Drain(c, "releasedRead", 0)
    BY <1>1 DEF ReleaseRead
  <2>2. PICK r : Readers = {r}
    BY <1>0, <1>1, HoldersFinite, FS_Singleton
  <2>3. Readers = {c}
    BY <2>1, <2>2 DEF Readers
  <2>4. \A d \in Clients : handle[d] # "write"
    BY <1>1, Holding
  <2> QED
    BY <2>1, <2>3, <2>4 DEF Readers
<1>2. CASE ReleaseRead(c) /\ readers # 1
  <2>1. handle[c] = "read" /\ readers > 0
    BY <1>2, Holding DEF ReleaseRead
  <2> QED
    BY <1>0, <1>2, <2>1 DEF ReleaseRead
<1>3. CASE ReleaseWrite(c)
  <2>1. handle[c] = "write" /\ Drain(c, "releasedWrite", readers)
    BY <1>3 DEF ReleaseWrite
  <2>2. readers = 0
    BY <2>1, Holding
  <2>3. \A d \in Clients \ {c} : handle[d] \notin {"read", "write"}
    BY <2>1 DEF LockInv, MutualExclusion, Writers
  <2> QED
    BY <2>1, <2>2, <2>3
<1> QED
  BY <1>1, <1>2, <1>3 DEF Release

(* A reader leaves and others stay.                                        *)
LEMMA ReaderLeavesKeeps ==
  ASSUME LockInv, NEW c \in Clients, handle[c] = "read", readers > 1,
         readers' = readers - 1,
         handle' = [handle EXCEPT ![c] = "releasedRead"],
         UNCHANGED <<queue, writerActive>>
  PROVE  LockInv'
<1>0. /\ readers \in Nat /\ handle \in [Clients -> HandleState]
      /\ queue' = queue /\ writerActive' = writerActive
  BY DEF LockInv, TypeOK
<1>1. Readers' = Readers \ {c} /\ Writers' = Writers /\ c \in Readers
  BY <1>0 DEF Readers, Writers
<1>2. TypeOK'
  BY <1>0 DEF LockInv, TypeOK, HandleState
<1>3. QueueMatches'
  <2>1. \A i \in 1 .. Len(queue) : queue[i].who # c
    BY DEF LockInv, QueueMatches
  <2>2. \A i \in 1 .. Len(queue) : handle'[queue[i].who] = handle[queue[i].who]
    BY <1>0, <2>1
  <2> QED
    BY <1>0, <2>2 DEF LockInv, QueueMatches
<1>4. MutualExclusion'
  BY <1>0, <1>1 DEF LockInv, MutualExclusion
<1>5. CountersExact'
  BY <1>0, <1>1, HoldersFinite, FS_RemoveElement DEF LockInv, CountersExact
<1>6. NoMissedGrant'
  BY <1>0 DEF LockInv, NoMissedGrant
<1> QED
  BY <1>2, <1>3, <1>4, <1>5, <1>6 DEF LockInv

LEMMA NextInv == LockInv /\ [Next]_vars => LockInv'
<1> SUFFICES ASSUME LockInv, [Next]_vars PROVE LockInv'
  OBVIOUS
<1>1. CASE UNCHANGED vars
  BY <1>1 DEF vars, LockInv, TypeOK, QueueMatches, MutualExclusion, CountersExact,
              NoMissedGrant, Readers, Writers
<1>2. ASSUME NEW c \in Clients, Acquire(c)
      PROVE  LockInv'
  BY <1>2, AcquireNowKeeps, AcquireLaterKeeps DEF Acquire
<1>3. ASSUME NEW c \in Clients, Release(c)
      PROVE  LockInv'
  BY <1>3, ReleaseIsDrain, ReaderLeavesKeeps, DrainKeeps
<1>4. ASSUME NEW c \in Clients, ReleaseAgain(c)
      PROVE  LockInv'
  BY <1>1, <1>4 DEF ReleaseAgain
<1> QED
  BY <1>1, <1>2, <1>3, <1>4 DEF Next

LEMMA SpecInv == Spec => []LockInv
<1> QED
  BY InitInv, NextInv, PTL DEF Spec

-----------------------------------------------------------------------------
(* The theorems.                                                           *)

(* The lock's variables keep their types; in particular the count of       *)
(* readers never goes below zero (`readers--`, async-rw-lock.ts:77).       *)
THEOREM TypeCorrect == Spec => []TypeOK
<1>1. LockInv => TypeOK
  BY DEF LockInv
<1> QED
  BY <1>1, SpecInv, PTL

(* Writers are exclusive: with the transactions of the in-process adapter  *)
(* and of SQLite run under a write handle, they are serial.                *)
THEOREM WritersExclude == Spec => []MutualExclusion
<1>1. LockInv => MutualExclusion
  BY DEF LockInv
<1> QED
  BY <1>1, SpecInv, PTL

(* The counters are what is really held, whatever is released twice.       *)
THEOREM CountsExact == Spec => []CountersExact
<1>1. LockInv => CountersExact
  BY DEF LockInv
<1> QED
  BY <1>1, SpecInv, PTL

(* drain() never leaves a waiter at the head of a queue it could serve.    *)
THEOREM GrantsNotMissed == Spec => []NoMissedGrant
<1>1. LockInv => NoMissedGrant
  BY DEF LockInv
<1> QED
  BY <1>1, SpecInv, PTL

(* One step hands the lock to nobody past a waiter.                        *)
LEMMA StepInOrder ==
  ASSUME LockInv, [Next]_vars,
         NEW i \in 1 .. Len(queue), NEW c \in Clients,
         handle[c] \notin {"read", "write"}, handle'[c] \in {"read", "write"},
         \A j \in 1 .. i : queue[j].who # c
  PROVE  handle'[queue[i].who] \in {"read", "write"}
<1>0. /\ queue # <<>> /\ Len(queue) \in Nat /\ handle \in [Clients -> HandleState]
  BY DEF LockInv, TypeOK
<1>1. PICK d \in Clients : Acquire(d) \/ Release(d) \/ ReleaseAgain(d)
  BY DEF Next, vars
<1>2. CASE Acquire(d)
  <2>1. handle'[c] \in {"awaitRead", "awaitWrite"} \/ handle'[c] = handle[c]
    BY <1>0, <1>2 DEF Acquire, AcquireReadNow, AcquireReadLater, AcquireWriteNow,
                      AcquireWriteLater
  <2> QED
    BY <2>1
<1>3. CASE Release(d)
  <2>1. CASE handle' = [handle EXCEPT ![d] = "releasedRead"]
    BY <1>0, <2>1
  <2>2. ASSUME handle[d] \in {"read", "write"},
               NEW spent \in {"releasedRead", "releasedWrite"}, Drain(d, spent, 0)
        PROVE  handle'[queue[i].who] \in {"read", "write"}
    <3>1. PICK n \in 0 .. Len(queue), to \in {"read", "write"} : HandsOn(d, spent, n, to)
      BY <2>2, DrainShape
    <3>2. /\ Granted(n) \subseteq Clients /\ d \notin Granted(n)
          /\ handle' = [e \in Clients |->
               IF e = d THEN spent ELSE IF e \in Granted(n) THEN to ELSE handle[e]]
      BY <3>1 DEF HandsOn
    <3>3. c \in Granted(n)
      BY <3>2
    <3>4. PICK j \in 1 .. n : queue[j].who = c
      BY <3>3 DEF Granted
    <3>5. i \in 1 .. n
      BY <1>0, <3>4
    <3>6. queue[i].who \in Granted(n)
      BY <3>5 DEF Granted
    <3> QED
      BY <3>2, <3>6
  <2> QED
    BY <1>3, <2>1, <2>2, ReleaseIsDrain
<1>4. CASE ReleaseAgain(d)
  BY <1>4 DEF ReleaseAgain, vars
<1> QED
  BY <1>1, <1>2, <1>3, <1>4

(* Waiters are served in the order of their acquire calls.                 *)
THEOREM ServedInOrder == Spec => NoOvertaking
<1>1. LockInv /\ [Next]_vars =>
        [\A i \in 1 .. Len(queue), c \in Clients :
           LET ahead == queue[i].who IN
             /\ handle[c] \notin {"read", "write"}
             /\ handle'[c] \in {"read", "write"}
             /\ \A j \in 1 .. i : queue[j].who # c
             => handle'[ahead] \in {"read", "write"}]_vars
  BY StepInOrder
<1> QED
  BY <1>1, SpecInv, PTL DEF Spec, NoOvertaking
=============================================================================
