---------------------------- MODULE StoreProofs ----------------------------
(***************************************************************************)
(* Theorems about the storage of the in-process state adapter.             *)
(*                                                                         *)
(* The indices are redundant: what they should hold is a function of the   *)
(* job map.  The proofs therefore go through the tables, the part of the   *)
(* store that is not redundant (jobs and blockers), and relate the two:    *)
(*                                                                         *)
(*   - Agree(s): the indices of s hold what the job map of s says.  Every  *)
(*     entry that starts from what the tables hold keeps it, written or    *)
(*     undone, because the binary search finds the place of a row in a     *)
(*     sorted set and the row itself when it is there.                     *)
(*   - Path(p, es): tables p[0] .. p[Len(es)], all well formed, that the   *)
(*     entries es lead through.  Undoing the entries walks it back.        *)
(*   - StoreInv: the journal is a path that ends in the tables as they     *)
(*     are and passes through what each open scope began with.             *)
(*   - Advances: an operation writes entries that continue the path.       *)
(*   - Whole(tables): the chains have their roots and no gaps, and keys    *)
(*     are on roots.  It is what makes the heads, last jobs and inverse    *)
(*     maps that operations read tell of the tables what                   *)
(*     TransactionalTable says, and is part of StoreInv.                   *)
(*   - Shown(jobs, t): the job table as TransactionalTable has it, with    *)
(*     which every step of the store is a step of that module.             *)
(***************************************************************************)
EXTENDS InProcessStore, SequenceTheorems, FiniteSetTheorems, WellFoundedInduction, TLAPS

-----------------------------------------------------------------------------
(* Numbers and sequences.                                                  *)

(* A set of numbers that is not empty has a least one.                     *)
LEMMA LeastElement ==
  ASSUME NEW T \in SUBSET Nat, T # {}
  PROVE  \E x \in T : \A y \in T : x <= y
<1>1. PICK x \in T : \A y \in T : ~ (<<y, x>> \in OpToRel(<, Nat))
  BY NatLessThanWellFounded, WFMin, Zenon
<1>2. \A y \in T : ~ (y < x)
  BY <1>1 DEF OpToRel
<1> QED
  BY <1>2

(* InsertAt moves what is behind the place up by one.                      *)
LEMMA SeqInserted ==
  ASSUME NEW S, NEW s \in Seq(S), NEW e \in S, NEW p \in 1 .. Len(s) + 1
  PROVE  /\ InsertAt(s, p, e) \in Seq(S) /\ Len(InsertAt(s, p, e)) = Len(s) + 1
         /\ \A i \in 1 .. Len(s) + 1 :
              InsertAt(s, p, e)[i] = IF i < p THEN s[i] ELSE IF i = p THEN e ELSE s[i - 1]
<1> DEFINE a == SubSeq(s, 1, p - 1)
           b == SubSeq(s, p, Len(s))
<1>1. Len(s) \in Nat /\ p \in Nat
  BY LenProperties
<1>2. a \in Seq(S) /\ Len(a) = p - 1 /\ \A i \in 1 .. p - 1 : a[i] = s[i]
  BY <1>1, SubSeqProperties
<1>3. b \in Seq(S) /\ Len(b) = Len(s) - p + 1 /\ \A i \in 1 .. Len(s) - p + 1 : b[i] = s[p + i - 1]
  BY <1>1, SubSeqProperties
<1>4. <<e>> \in Seq(S) /\ Len(<<e>>) = 1 /\ <<e>>[1] = e
  OBVIOUS
<1> HIDE DEF a, b
<1>5. a \o <<e>> \in Seq(S) /\ Len(a \o <<e>>) = p
      /\ \A i \in 1 .. p : (a \o <<e>>)[i] = IF i <= Len(a) THEN a[i] ELSE <<e>>[i - Len(a)]
  BY <1>1, <1>2, <1>4, ConcatProperties
<1>6. (a \o <<e>>) \o b \in Seq(S) /\ Len((a \o <<e>>) \o b) = Len(s) + 1
      /\ \A i \in 1 .. Len(s) + 1 :
           ((a \o <<e>>) \o b)[i] = IF i <= p THEN (a \o <<e>>)[i] ELSE b[i - p]
  BY <1>1, <1>3, <1>5, ConcatProperties
<1>7. InsertAt(s, p, e) = (a \o <<e>>) \o b
  BY DEF InsertAt, a, b
<1> QED
  BY SMTT(40), <1>1, <1>2, <1>3, <1>4, <1>5, <1>6, <1>7

(* RemoveAt moves what is behind the place down by one.                    *)
LEMMA SeqRemoved ==
  ASSUME NEW S, NEW s \in Seq(S), NEW p \in 1 .. Len(s)
  PROVE  /\ RemoveAt(s, p) \in Seq(S) /\ Len(RemoveAt(s, p)) = Len(s) - 1
         /\ \A i \in 1 .. Len(s) - 1 : RemoveAt(s, p)[i] = IF i < p THEN s[i] ELSE s[i + 1]
<1> DEFINE a == SubSeq(s, 1, p - 1)
           b == SubSeq(s, p + 1, Len(s))
<1>1. Len(s) \in Nat /\ p \in Nat
  BY LenProperties
<1>2. a \in Seq(S) /\ Len(a) = p - 1 /\ \A i \in 1 .. p - 1 : a[i] = s[i]
  BY <1>1, SubSeqProperties
<1>3. b \in Seq(S) /\ Len(b) = Len(s) - p /\ \A i \in 1 .. Len(s) - p : b[i] = s[p + i]
  BY <1>1, SubSeqProperties
<1> HIDE DEF a, b
<1>4. a \o b \in Seq(S) /\ Len(a \o b) = Len(a) + Len(b)
      /\ \A i \in 1 .. Len(a) + Len(b) : (a \o b)[i] = IF i <= Len(a) THEN a[i] ELSE b[i - Len(a)]
  BY <1>2, <1>3, ConcatProperties
<1>5. RemoveAt(s, p) = a \o b
  BY DEF RemoveAt, a, b
<1>6. Len(a) + Len(b) = Len(s) - 1
  BY <1>1, <1>2, <1>3
<1>7. ASSUME NEW i \in 1 .. Len(s) - 1
      PROVE  (a \o b)[i] = IF i < p THEN s[i] ELSE s[i + 1]
  <2>1. (a \o b)[i] = IF i <= p - 1 THEN a[i] ELSE b[i - (p - 1)]
    BY <1>2, <1>4, <1>6
  <2>2. CASE i < p
    BY <1>1, <1>2, <2>1, <2>2
  <2>3. CASE ~(i < p)
    <3>1. i - (p - 1) \in 1 .. Len(s) - p /\ p + (i - (p - 1)) = i + 1
      BY <1>1, <2>3
    <3> QED
      BY <1>1, <1>3, <2>1, <2>3, <3>1
  <2> QED
    BY <2>2, <2>3
<1> QED
  BY <1>1, <1>4, <1>5, <1>6, <1>7

(* The set of a sequence and its elements.                                 *)
LEMMA SeqElements ==
  ASSUME NEW S, NEW s \in Seq(S)
  PROVE  /\ DOMAIN s = 1 .. Len(s) /\ Len(s) \in Nat /\ ToSet(s) \subseteq S
         /\ \A i \in 1 .. Len(s) : s[i] \in ToSet(s)
         /\ \A e \in ToSet(s) : \E i \in 1 .. Len(s) : s[i] = e
<1>1. DOMAIN s = 1 .. Len(s) /\ Len(s) \in Nat
  BY LenProperties
<1> QED
  BY <1>1, ElementOfSeq DEF ToSet

-----------------------------------------------------------------------------
(* The sorted sets.                                                        *)

Orders == {"createdAt", "scheduledAt", "leasedUntil"}

Distinct(s) == \A i, k \in 1 .. Len(s) : s[i] = s[k] => i = k

Numbers(seqs) == seqs \in Seq(JobIds) /\ Distinct(seqs)

(* Rows of different jobs, at different places of their chains.            *)
Proper(R) ==
  /\ R \subseteq Row
  /\ \A a, b \in R : a.id = b.id \/ (a.chain = b.chain /\ a.index = b.index) => a = b

Numbered(seqs, R) == \A r \in R : r.id \in ToSet(seqs)

Sorted(seqs, by, items, R) ==
  /\ items \in Seq(Row) /\ ToSet(items) = R
  /\ \A i, k \in 1 .. Len(items) : i < k => Earlier(seqs, by, items[i], items[k])

(* Seq0 is the place of a job in seqByJobId, 0 for a job without one.      *)
LEMMA NumberOf ==
  ASSUME NEW seqs, Numbers(seqs), NEW id
  PROVE  /\ Seq0(seqs, id) \in Nat
         /\ id \in ToSet(seqs) => Seq0(seqs, id) \in 1 .. Len(seqs) /\ seqs[Seq0(seqs, id)] = id
         /\ id \notin ToSet(seqs) => Seq0(seqs, id) = 0
         /\ \A i \in 1 .. Len(seqs) : seqs[i] = id => Seq0(seqs, id) = i
<1>1. /\ DOMAIN seqs = 1 .. Len(seqs) /\ Len(seqs) \in Nat
      /\ \A i \in 1 .. Len(seqs) : seqs[i] \in ToSet(seqs)
      /\ \A e \in ToSet(seqs) : \E i \in 1 .. Len(seqs) : seqs[i] = e
  BY SeqElements DEF Numbers
<1>2. CASE id \in ToSet(seqs)
  <2>1. Seq0(seqs, id) = CHOOSE i \in 1 .. Len(seqs) : seqs[i] = id
    BY <1>1, <1>2 DEF Seq0
  <2>2. \E i \in 1 .. Len(seqs) : seqs[i] = id
    BY <1>1, <1>2
  <2>3. Seq0(seqs, id) \in 1 .. Len(seqs) /\ seqs[Seq0(seqs, id)] = id
    BY <2>1, <2>2
  <2> QED
    BY <1>1, <1>2, <2>3 DEF Numbers, Distinct
<1>3. CASE id \notin ToSet(seqs)
  BY <1>1, <1>3 DEF Seq0
<1> QED
  BY <1>2, <1>3

(* Every order compares numbers.                                           *)
LEMMA TimeType ==
  ASSUME NEW by \in Orders, NEW r \in Row
  PROVE  Time(by, r) \in Nat
<1>1. MaxNow \in Nat
  BY BoundsType
<1> QED
  BY <1>1 DEF Time, Row, Orders, Unleased

(* A job is before another by time, then by number.                        *)
LEMMA EarlierOrders ==
  ASSUME NEW seqs, Numbers(seqs), NEW by \in Orders
  PROVE  /\ \A a \in Row : ~Earlier(seqs, by, a, a)
         /\ \A a, b, c \in Row :
              Earlier(seqs, by, a, b) /\ Earlier(seqs, by, b, c) => Earlier(seqs, by, a, c)
         /\ \A a, b \in Row :
              a.id \in ToSet(seqs) /\ b.id \in ToSet(seqs) /\ a.id # b.id =>
                Earlier(seqs, by, a, b) \/ Earlier(seqs, by, b, a)
<1>1. \A r \in Row : Time(by, r) \in Nat /\ Seq0(seqs, r.id) \in Nat
  BY TimeType, NumberOf
<1>2. \A a, b \in Row :
        a.id \in ToSet(seqs) /\ b.id \in ToSet(seqs) /\ a.id # b.id =>
          Seq0(seqs, a.id) # Seq0(seqs, b.id)
  BY NumberOf
<1> QED
  BY <1>1, <1>2 DEF Earlier

(* The binary search, round by round.                                      *)
Searches(f, seqs, by, items, job, n) ==
  f = [i \in 0 .. n |-> IF i = 0 THEN [lo |-> 0, hi |-> Len(items)]
                        ELSE Narrowed(seqs, by, items, job, f[i - 1])]

(* The rounds of a binary search are a function, which exists.             *)
LEMMA SearchExists ==
  ASSUME NEW seqs, NEW by, NEW items, NEW job
  PROVE  \A n \in Nat : \E f : Searches(f, seqs, by, items, job, n)
<1> DEFINE T == {n \in Nat : ~ \E f : Searches(f, seqs, by, items, job, n)}
<1> SUFFICES ASSUME T # {} PROVE FALSE
  OBVIOUS
<1>1. PICK n \in T : \A m \in T : n <= m
  <2>1. T \in SUBSET Nat
    OBVIOUS
  <2> HIDE DEF T
  <2> QED
    BY <2>1, LeastElement
<1>2. CASE n = 0
  <2>1. Searches([i \in 0 .. 0 |-> [lo |-> 0, hi |-> Len(items)]], seqs, by, items, job, 0)
    BY DEF Searches
  <2> QED
    BY <1>1, <1>2, <2>1
<1>3. CASE n # 0
  <2>1. n - 1 \in Nat /\ n - 1 \notin T
    BY <1>1, <1>3
  <2>2. PICK f : Searches(f, seqs, by, items, job, n - 1)
    BY <2>1
  <2> DEFINE g == [i \in 0 .. n |-> IF i = n THEN Narrowed(seqs, by, items, job, f[n - 1])
                                    ELSE f[i]]
  <2>3. g = [i \in 0 .. n |-> IF i = 0 THEN [lo |-> 0, hi |-> Len(items)]
                              ELSE Narrowed(seqs, by, items, job, g[i - 1])]
    BY SMTT(40), <1>1, <1>3, <2>2 DEF Searches
  <2> QED
    BY <1>1, <2>3 DEF Searches
<1> QED
  BY <1>2, <1>3

(* LowerBound is where the window is after one round for every item.       *)
LEMMA SearchRounds ==
  ASSUME NEW seqs, NEW by, NEW items, NEW job, Len(items) \in Nat
  PROVE  \E f : /\ Searches(f, seqs, by, items, job, Len(items))
                /\ LowerBound(seqs, by, items, job) = f[Len(items)].lo
<1> DEFINE f == CHOOSE f : Searches(f, seqs, by, items, job, Len(items))
<1>1. Searches(f, seqs, by, items, job, Len(items))
  BY SearchExists
<1>2. LowerBound(seqs, by, items, job) = f[Len(items)].lo
  BY DEF LowerBound, Searches
<1> QED
  BY <1>1, <1>2

(* Where the window is: items before it are earlier, items behind it are   *)
(* not, and it is as narrow as the rounds so far have made it.             *)
Window(w, seqs, by, items, job, n) ==
  /\ w \in [lo : 0 .. Len(items), hi : 0 .. Len(items)] /\ w.lo <= w.hi
  /\ \A i \in 1 .. Len(items) :
       /\ i <= w.lo => Earlier(seqs, by, items[i], job)
       /\ i > w.hi => ~Earlier(seqs, by, items[i], job)
  /\ w.lo < w.hi => w.hi - w.lo <= Len(items) - n

(* A round keeps the bound in the window, which halves or is closed.       *)
LEMMA WindowNarrows ==
  ASSUME NEW seqs, NEW by, NEW items, NEW job, Len(items) \in Nat,
         \A i, k \in 1 .. Len(items) :
           i < k /\ Earlier(seqs, by, items[k], job) => Earlier(seqs, by, items[i], job),
         NEW w, NEW n \in Nat, Window(w, seqs, by, items, job, n)
  PROVE  Window(Narrowed(seqs, by, items, job, w), seqs, by, items, job, n + 1)
<1> DEFINE E(i) == Earlier(seqs, by, items[i], job)
           mid == (w.lo + w.hi) \div 2
           v == Narrowed(seqs, by, items, job, w)
<1>1. /\ w \in [lo : 0 .. Len(items), hi : 0 .. Len(items)]
      /\ w.lo \in Nat /\ w.hi \in Nat /\ w.lo <= w.hi /\ w.hi <= Len(items)
      /\ \A i \in 1 .. Len(items) : (i <= w.lo => E(i)) /\ (i > w.hi => ~E(i))
      /\ w.lo < w.hi => w.hi - w.lo <= Len(items) - n
  BY DEF Window
<1>2. \A i, k \in 1 .. Len(items) : i < k /\ E(k) => E(i)
  OBVIOUS
<1>3. v = IF w.lo >= w.hi THEN w ELSE IF E(mid + 1) THEN [w EXCEPT !.lo = mid + 1]
          ELSE [w EXCEPT !.hi = mid]
  BY DEF Narrowed
<1> HIDE DEF E, v
<1>4. CASE w.lo >= w.hi
  <2>1. v = w
    BY <1>3, <1>4
  <2> QED
    BY <1>1, <1>4, <2>1 DEF Window, E, v
<1>5. CASE w.lo < w.hi
  <2>1. mid \in w.lo .. w.hi - 1
    BY <1>1, <1>5
  <2> HIDE DEF mid
  <2>2. mid + 1 \in 1 .. Len(items) /\ mid \in 0 .. Len(items)
    BY <1>1, <2>1
  <2>3. CASE E(mid + 1)
    <3>1. v = [w EXCEPT !.lo = mid + 1]
      BY <1>1, <1>3, <1>5, <2>3
    <3>2. v \in [lo : 0 .. Len(items), hi : 0 .. Len(items)] /\ v.lo = mid + 1 /\ v.hi = w.hi
      BY <1>1, <2>2, <3>1
    <3>3. \A i \in 1 .. Len(items) : i <= mid + 1 => E(i)
      BY <1>2, <2>2, <2>3
    <3> QED
      BY SMT, <1>1, <1>5, <2>1, <3>2, <3>3 DEF Window, E, v
  <2>4. CASE ~E(mid + 1)
    <3>1. v = [w EXCEPT !.hi = mid]
      BY <1>1, <1>3, <1>5, <2>4
    <3>2. v \in [lo : 0 .. Len(items), hi : 0 .. Len(items)] /\ v.lo = w.lo /\ v.hi = mid
      BY <1>1, <2>2, <3>1
    <3>3. \A i \in 1 .. Len(items) : i > mid => ~E(i)
      BY <1>2, <2>1, <2>2, <2>4
    <3> QED
      BY <1>1, <1>5, <2>1, <3>2, <3>3 DEF Window, E, v
  <2> QED
    BY <2>3, <2>4
<1> QED
  BY <1>1, <1>4, <1>5

(* The binary search finds the place of job among items in order.          *)
LEMMA LowerBoundFinds ==
  ASSUME NEW seqs, NEW by, NEW items \in Seq(Row), NEW job,
         \A i, k \in 1 .. Len(items) :
           i < k /\ Earlier(seqs, by, items[k], job) => Earlier(seqs, by, items[i], job)
  PROVE  /\ LowerBound(seqs, by, items, job) \in 0 .. Len(items)
         /\ \A i \in 1 .. Len(items) :
              Earlier(seqs, by, items[i], job) <=> i <= LowerBound(seqs, by, items, job)
<1> DEFINE N == Len(items)
<1>1. N \in Nat
  BY LenProperties
<1>2. PICK f : /\ Searches(f, seqs, by, items, job, N)
               /\ LowerBound(seqs, by, items, job) = f[N].lo
  BY <1>1, SearchRounds
<1> DEFINE T == {n \in 0 .. N : ~Window(f[n], seqs, by, items, job, n)}
<1>3. T = {}
  <2> SUFFICES ASSUME T # {} PROVE FALSE
    OBVIOUS
  <2>1. PICK n \in T : \A m \in T : n <= m
    <3>1. T \in SUBSET Nat
      BY <1>1
    <3> HIDE DEF T
    <3> QED
      BY <3>1, LeastElement
  <2>2. n \in 0 .. N /\ ~Window(f[n], seqs, by, items, job, n)
    BY <2>1
  <2>3. CASE n = 0
    <3>1. f[0] = [lo |-> 0, hi |-> N]
      BY <1>1, <1>2 DEF Searches
    <3>2. Window(f[0], seqs, by, items, job, 0)
      BY <1>1, <3>1 DEF Window
    <3> QED
      BY <2>2, <2>3, <3>2
  <2>4. CASE n # 0
    <3>1. n - 1 \in 0 .. N /\ n - 1 \in Nat /\ n - 1 \notin T /\ (n - 1) + 1 = n
      BY <1>1, <2>1, <2>2, <2>4
    <3>2. Window(f[n - 1], seqs, by, items, job, n - 1)
      BY <3>1
    <3>3. f[n] = Narrowed(seqs, by, items, job, f[n - 1])
      BY <1>1, <1>2, <2>2, <2>4 DEF Searches
    <3>4. Window(f[n], seqs, by, items, job, (n - 1) + 1)
      BY <1>1, <3>1, <3>2, <3>3, WindowNarrows
    <3> QED
      BY <2>2, <3>1, <3>4
  <2> QED
    BY <2>3, <2>4
<1>4. Window(f[N], seqs, by, items, job, N)
  BY <1>1, <1>3
<1> QED
  BY <1>1, <1>2, <1>4 DEF Window

(* Two numberings put the jobs of R in the same order.                     *)
SameOrder(seqs, seqs2, R) ==
  \A a, b \in R : Seq0(seqs, a.id) < Seq0(seqs, b.id) <=> Seq0(seqs2, a.id) < Seq0(seqs2, b.id)

(* What comes before a row is a prefix of a sorted set.                    *)
LEMMA SortedSearch ==
  ASSUME NEW seqs, Numbers(seqs), NEW by \in Orders, NEW items, NEW R, NEW job \in Row,
         Sorted(seqs, by, items, R)
  PROVE  \A i, k \in 1 .. Len(items) :
           i < k /\ Earlier(seqs, by, items[k], job) => Earlier(seqs, by, items[i], job)
<1> SUFFICES ASSUME NEW i \in 1 .. Len(items), NEW k \in 1 .. Len(items),
                    i < k, Earlier(seqs, by, items[k], job)
             PROVE  Earlier(seqs, by, items[i], job)
  OBVIOUS
<1>1. items[i] \in Row /\ items[k] \in Row
  BY ElementOfSeq DEF Sorted
<1>2. Earlier(seqs, by, items[i], items[k])
  BY DEF Sorted
<1> QED
  BY <1>1, <1>2, EarlierOrders

(* SortedSet.insert keeps the set sorted and adds the row.                 *)
LEMMA SortedInsert ==
  ASSUME NEW seqs, Numbers(seqs), NEW by \in Orders, NEW items, NEW R, NEW job \in Row,
         Sorted(seqs, by, items, R), Numbered(seqs, R \cup {job}),
         \A r \in R : r.id # job.id
  PROVE  Sorted(seqs, by, Inserted(seqs, by, items, job), R \cup {job})
<1> DEFINE p == LowerBound(seqs, by, items, job) + 1
           N == Len(items)
           new == Inserted(seqs, by, items, job)
<1>1. /\ items \in Seq(Row) /\ N \in Nat /\ ToSet(items) = R
      /\ \A i \in 1 .. N : items[i] \in Row /\ items[i] \in R
      /\ \A r \in R : \E i \in 1 .. N : items[i] = r
      /\ \A i, k \in 1 .. N : i < k => Earlier(seqs, by, items[i], items[k])
  BY SeqElements, ElementOfSeq DEF Sorted
<1>2. /\ p \in 1 .. N + 1
      /\ \A i \in 1 .. N : Earlier(seqs, by, items[i], job) <=> i < p
  <2>1. \A i, k \in 1 .. Len(items) :
          i < k /\ Earlier(seqs, by, items[k], job) => Earlier(seqs, by, items[i], job)
    BY SortedSearch
  <2>2. /\ LowerBound(seqs, by, items, job) \in 0 .. N
        /\ \A i \in 1 .. N :
             Earlier(seqs, by, items[i], job) <=> i <= LowerBound(seqs, by, items, job)
    BY <1>1, <2>1, LowerBoundFinds
  <2> QED
    BY <1>1, <2>2
<1>3. new = InsertAt(items, p, job)
  BY DEF Inserted
<1> HIDE DEF p, new
<1>4. /\ new \in Seq(Row) /\ Len(new) = N + 1
      /\ \A i \in 1 .. N + 1 :
           new[i] = IF i < p THEN items[i] ELSE IF i = p THEN job ELSE items[i - 1]
  <2>1. p \in 1 .. Len(items) + 1
    BY <1>2
  <2>2. /\ InsertAt(items, p, job) \in Seq(Row) /\ Len(InsertAt(items, p, job)) = Len(items) + 1
        /\ \A i \in 1 .. Len(items) + 1 :
             InsertAt(items, p, job)[i] =
               IF i < p THEN items[i] ELSE IF i = p THEN job ELSE items[i - 1]
    BY <1>1, <2>1, SeqInserted
  <2> QED
    BY <1>3, <2>2
<1>5. \A i \in 1 .. N : i >= p => Earlier(seqs, by, job, items[i])
  <2> SUFFICES ASSUME NEW i \in 1 .. N, i >= p PROVE Earlier(seqs, by, job, items[i])
    OBVIOUS
  <2>1. ~Earlier(seqs, by, items[i], job)
    BY <1>1, <1>2
  <2>2. items[i].id # job.id /\ items[i].id \in ToSet(seqs) /\ job.id \in ToSet(seqs)
    BY <1>1 DEF Numbered
  <2> QED
    BY <1>1, <2>1, <2>2, EarlierOrders
<1>6. ToSet(new) = R \cup {job}
  <2>1. DOMAIN new = 1 .. N + 1
    BY <1>4, SeqElements
  <2>2. ASSUME NEW r \in R PROVE r \in ToSet(new)
    <3>1. PICK i \in 1 .. N : items[i] = r
      BY <1>1
    <3>2. CASE i < p
      <4>1. i \in 1 .. N + 1 /\ new[i] = r
        BY <1>1, <1>4, <3>1, <3>2
      <4> QED
        BY <2>1, <4>1 DEF ToSet
    <3>3. CASE ~(i < p)
      <4>1. i + 1 \in 1 .. N + 1 /\ new[i + 1] = r
        BY <1>1, <1>2, <1>4, <3>1, <3>3
      <4> QED
        BY <2>1, <4>1 DEF ToSet
    <3> QED
      BY <3>2, <3>3
  <2>3. job \in ToSet(new)
    <3>1. p \in 1 .. N + 1 /\ new[p] = job
      BY <1>1, <1>2, <1>4
    <3> QED
      BY <2>1, <3>1 DEF ToSet
  <2>4. ASSUME NEW i \in 1 .. N + 1 PROVE new[i] \in R \cup {job}
    <3>1. CASE i < p
      BY <1>1, <1>2, <1>4, <3>1
    <3>2. CASE i = p
      BY <1>4, <3>2
    <3>3. CASE i > p
      <4>1. i - 1 \in 1 .. N
        BY <1>1, <1>2, <3>3
      <4> QED
        BY <1>1, <1>2, <1>4, <3>3, <4>1
    <3> QED
      BY <1>1, <1>2, <3>1, <3>2, <3>3
  <2> QED
    BY <2>1, <2>2, <2>3, <2>4 DEF ToSet
<1>7. ASSUME NEW i \in 1 .. N + 1, NEW k \in 1 .. N + 1, i < k
      PROVE  Earlier(seqs, by, new[i], new[k])
  <2>1. CASE k < p
    <3>1. i \in 1 .. N /\ k \in 1 .. N
      BY <1>1, <1>2, <1>7, <2>1
    <3> QED
      BY <1>1, <1>2, <1>4, <1>7, <2>1, <3>1
  <2>2. CASE k = p
    <3>1. i \in 1 .. N /\ i < p
      BY <1>1, <1>2, <1>7, <2>2
    <3> QED
      BY <1>2, <1>4, <1>7, <2>2, <3>1
  <2>3. CASE k > p
    <3>1. k - 1 \in 1 .. N /\ k - 1 >= p /\ new[k] = items[k - 1]
      BY <1>1, <1>2, <1>4, <2>3
    <3>2. CASE i < p
      <4>1. i \in 1 .. N /\ new[i] = items[i] /\ i < k - 1
        BY <1>1, <1>2, <1>4, <3>1, <3>2
      <4> QED
        BY <1>1, <3>1, <4>1
    <3>3. CASE i = p
      BY <1>4, <1>5, <3>1, <3>3
    <3>4. CASE i > p
      <4>1. i - 1 \in 1 .. N /\ new[i] = items[i - 1] /\ i - 1 < k - 1
        BY <1>1, <1>2, <1>4, <1>7, <3>4
      <4> QED
        BY <1>1, <3>1, <4>1
    <3> QED
      BY <1>1, <1>2, <3>2, <3>3, <3>4
  <2> QED
    BY <1>1, <1>2, <2>1, <2>2, <2>3
<1> QED
  BY <1>4, <1>6, <1>7 DEF Sorted, new

(* SortedSet.delete finds the row that is in the set and removes it.       *)
LEMMA SortedDelete ==
  ASSUME NEW seqs, Numbers(seqs), NEW by \in Orders, NEW items, NEW R, NEW job \in R,
         Sorted(seqs, by, items, R), Numbered(seqs, R), R \subseteq Row,
         \A r \in R : r.id = job.id => r = job
  PROVE  Sorted(seqs, by, Deleted(seqs, by, items, job), R \ {job})
<1> DEFINE p == LowerBound(seqs, by, items, job) + 1
           N == Len(items)
           new == RemoveAt(items, p)
<1>1. /\ items \in Seq(Row) /\ N \in Nat /\ ToSet(items) = R
      /\ \A i \in 1 .. N : items[i] \in Row /\ items[i] \in R
      /\ \A r \in R : \E i \in 1 .. N : items[i] = r
      /\ \A i, k \in 1 .. N : i < k => Earlier(seqs, by, items[i], items[k])
  BY SeqElements, ElementOfSeq DEF Sorted
<1>2. /\ p \in 1 .. N + 1
      /\ \A i \in 1 .. N : Earlier(seqs, by, items[i], job) <=> i < p
  <2>1. \A i, k \in 1 .. Len(items) :
          i < k /\ Earlier(seqs, by, items[k], job) => Earlier(seqs, by, items[i], job)
    BY SortedSearch
  <2>2. /\ LowerBound(seqs, by, items, job) \in 0 .. N
        /\ \A i \in 1 .. N :
             Earlier(seqs, by, items[i], job) <=> i <= LowerBound(seqs, by, items, job)
    BY <1>1, <2>1, LowerBoundFinds
  <2> QED
    BY <1>1, <2>2
<1>3. PICK m \in 1 .. N : items[m] = job
  BY <1>1
<1>4. p = m
  <2>1. ~Earlier(seqs, by, job, job)
    BY EarlierOrders
  <2>2. m >= p
    BY <1>1, <1>2, <1>3, <2>1
  <2>3. ASSUME m > p PROVE FALSE
    <3>1. p \in 1 .. N
      BY <1>1, <1>2, <2>3
    <3>2. Earlier(seqs, by, items[p], items[m])
      BY <1>1, <2>3, <3>1
    <3> QED
      BY <1>1, <1>2, <1>3, <3>1, <3>2
  <2> QED
    BY <1>1, <1>2, <2>2, <2>3
<1>5. Deleted(seqs, by, items, job) = new
  BY <1>1, <1>3, <1>4 DEF Deleted
<1> HIDE DEF p, new
<1>6. /\ new \in Seq(Row) /\ Len(new) = N - 1
      /\ \A i \in 1 .. N - 1 : new[i] = IF i < p THEN items[i] ELSE items[i + 1]
  <2>1. p \in 1 .. Len(items)
    BY <1>3, <1>4
  <2>2. /\ RemoveAt(items, p) \in Seq(Row) /\ Len(RemoveAt(items, p)) = Len(items) - 1
        /\ \A i \in 1 .. Len(items) - 1 :
             RemoveAt(items, p)[i] = IF i < p THEN items[i] ELSE items[i + 1]
    BY <1>1, <2>1, SeqRemoved
  <2> QED
    BY <2>2 DEF new
<1>7. ToSet(new) = R \ {job}
  <2>1. DOMAIN new = 1 .. N - 1
    BY <1>1, <1>6, SeqElements
  <2>2. ASSUME NEW r \in R \ {job} PROVE r \in ToSet(new)
    <3>1. PICK i \in 1 .. N : items[i] = r
      BY <1>1
    <3>2. CASE i < p
      <4>1. i \in 1 .. N - 1 /\ new[i] = r
        BY <1>1, <1>3, <1>4, <1>6, <3>1, <3>2
      <4> QED
        BY <2>1, <4>1 DEF ToSet
    <3>3. CASE i > p
      <4>1. i - 1 \in 1 .. N - 1 /\ ~(i - 1 < p) /\ (i - 1) + 1 = i
        BY <1>1, <1>3, <1>4, <3>3
      <4>2. new[i - 1] = r
        BY <1>6, <3>1, <4>1
      <4> QED
        BY <2>1, <4>1, <4>2 DEF ToSet
    <3> QED
      BY <1>1, <1>2, <1>3, <1>4, <3>1, <3>2, <3>3
  <2>3. ASSUME NEW i \in 1 .. N - 1 PROVE new[i] \in R \ {job}
    <3>1. \A k \in 1 .. N : k # m => items[k] # job
      <4>1. ~Earlier(seqs, by, job, job)
        BY EarlierOrders
      <4> QED
        BY <1>1, <1>3, <4>1
    <3>2. i \in 1 .. N /\ i + 1 \in 1 .. N
      BY <1>1
    <3>3. CASE i < p
      <4>1. new[i] = items[i] /\ i # m
        BY <1>4, <1>6, <3>3
      <4> QED
        BY <1>1, <3>1, <3>2, <4>1
    <3>4. CASE ~(i < p)
      <4>1. new[i] = items[i + 1] /\ i + 1 # m
        BY <1>1, <1>3, <1>4, <1>6, <3>4
      <4> QED
        BY <1>1, <3>1, <3>2, <4>1
    <3> QED
      BY <3>3, <3>4
  <2> QED
    BY <2>1, <2>2, <2>3 DEF ToSet
<1>8. ASSUME NEW i \in 1 .. N - 1, NEW k \in 1 .. N - 1, i < k
      PROVE  Earlier(seqs, by, new[i], new[k])
  <2>1. i \in 1 .. N /\ k \in 1 .. N /\ i + 1 \in 1 .. N /\ k + 1 \in 1 .. N
    BY <1>1
  <2>2. CASE k < p
    <3>1. i < p
      BY <1>2, <1>8, <2>2
    <3>2. new[i] = items[i] /\ new[k] = items[k]
      BY <1>6, <2>2, <3>1
    <3> QED
      BY <1>1, <1>8, <2>1, <3>2
  <2>3. CASE ~(k < p) /\ i < p
    <3>1. new[i] = items[i] /\ new[k] = items[k + 1] /\ i < k + 1
      BY SMT, <1>6, <1>8, <2>3
    <3> QED
      BY <1>1, <2>1, <3>1
  <2>4. CASE ~(k < p) /\ ~(i < p)
    <3>1. new[i] = items[i + 1] /\ new[k] = items[k + 1] /\ i + 1 < k + 1
      BY SMT, <1>6, <1>8, <2>4
    <3> QED
      BY <1>1, <2>1, <3>1
  <2> QED
    BY <1>8, <2>2, <2>3, <2>4
<1> QED
  BY <1>5, <1>6, <1>7, <1>8 DEF Sorted

(* Sorted sets stay in order when jobs are numbered anew in the same order.*)
LEMMA SortedReordered ==
  ASSUME NEW seqs, NEW seqs2, NEW by, NEW items, NEW R,
         Sorted(seqs, by, items, R), SameOrder(seqs, seqs2, R)
  PROVE  Sorted(seqs2, by, items, R)
<1>1. /\ items \in Seq(Row) /\ ToSet(items) = R /\ \A i \in 1 .. Len(items) : items[i] \in R
      /\ \A i, k \in 1 .. Len(items) : i < k => Earlier(seqs, by, items[i], items[k])
  BY SeqElements DEF Sorted
<1>2. \A a, b \in R : Earlier(seqs, by, a, b) => Earlier(seqs2, by, a, b)
  BY DEF Earlier, SameOrder
<1> QED
  BY <1>1, <1>2 DEF Sorted

(* A sorted set holds each of its rows once.                               *)
LEMMA SortedLength ==
  ASSUME NEW seqs, Numbers(seqs), NEW by \in Orders, NEW items, NEW R,
         Sorted(seqs, by, items, R)
  PROVE  Holds(items, R)
<1>1. /\ items \in Seq(Row) /\ Len(items) \in Nat /\ ToSet(items) = R
      /\ \A i \in 1 .. Len(items) : items[i] \in R /\ items[i] \in Row
      /\ \A r \in R : \E i \in 1 .. Len(items) : items[i] = r
      /\ \A i, k \in 1 .. Len(items) : i < k => Earlier(seqs, by, items[i], items[k])
  BY SeqElements, ElementOfSeq DEF Sorted
<1>2. \A i, k \in 1 .. Len(items) : items[i] = items[k] => i = k
  <2>1. \A r \in Row : ~Earlier(seqs, by, r, r)
    BY EarlierOrders
  <2>2. \A i, k \in 1 .. Len(items) : i < k \/ k < i \/ i = k
    BY <1>1
  <2> QED
    BY <1>1, <2>1, <2>2
<1> DEFINE f == [i \in 1 .. Len(items) |-> items[i]]
<1>3. f \in Bijection(1 .. Len(items), R)
  BY <1>1, <1>2 DEF Bijection, Injection, Surjection, IsInjective
<1>4. ExistsBijection(1 .. Len(items), R)
  BY <1>3 DEF ExistsBijection
<1> QED
  BY <1>1, <1>4, FS_CountingElements DEF Holds

(* A finite set has a first element in a strict order.                     *)
LEMMA FiniteLeast ==
  ASSUME NEW S, IsFiniteSet(S), S # {}, NEW before,
         \A a, b \in S : a # b => <<a, b>> \in before \/ <<b, a>> \in before,
         \A a, b, c \in S : <<a, b>> \in before /\ <<b, c>> \in before => <<a, c>> \in before
  PROVE  \E x \in S : \A y \in S \ {x} : <<x, y>> \in before
<1> DEFINE Least(U) == \E x \in U : \A y \in U \ {x} : <<x, y>> \in before
           T == {n \in Nat : \E U \in SUBSET S : U # {} /\ Cardinality(U) = n /\ ~Least(U)}
<1> SUFFICES ASSUME ~Least(S) PROVE FALSE
  OBVIOUS
<1>1. \A U \in SUBSET S : IsFiniteSet(U) /\ Cardinality(U) \in Nat
  BY FS_Subset, FS_CardinalityType
<1>2. PICK n \in T : \A m \in T : n <= m
  <2>1. T \in SUBSET Nat
    OBVIOUS
  <2>2. Cardinality(S) \in T
    BY <1>1
  <2> HIDE DEF T
  <2> QED
    BY <2>1, <2>2, LeastElement
<1>3. PICK U \in SUBSET S : U # {} /\ Cardinality(U) = n /\ ~Least(U)
  BY <1>2
<1>4. PICK x \in U : TRUE
  BY <1>3
<1> DEFINE V == U \ {x}
<1>5. V # {}
  BY <1>3, <1>4
<1>6. Cardinality(V) = n - 1 /\ V \in SUBSET S
  BY <1>1, <1>3, <1>4, FS_RemoveElement
<1>7. Least(V)
  <2>1. Cardinality(V) \in Nat /\ Cardinality(V) \notin T
    <3>1. n \in Nat /\ Cardinality(V) \in Nat
      BY <1>1, <1>2, <1>6
    <3> HIDE DEF T, V
    <3> QED
      BY <1>2, <1>6, <3>1
  <2> QED
    BY <1>5, <1>6, <2>1
<1>8. PICK y \in V : \A z \in V \ {y} : <<y, z>> \in before
  BY <1>7
<1>9. CASE <<y, x>> \in before
  <2>1. \A z \in U \ {y} : <<y, z>> \in before
    BY <1>8, <1>9
  <2> QED
    BY <1>3, <1>8, <2>1
<1>10. CASE <<x, y>> \in before
  <2>1. \A z \in U \ {x} : <<x, z>> \in before
    BY <1>3, <1>4, <1>8, <1>10
  <2> QED
    BY <1>3, <1>4, <2>1
<1> QED
  BY <1>3, <1>4, <1>8, <1>9, <1>10

-----------------------------------------------------------------------------
(* The last job of a chain.                                                *)

DistinctPlaces(rows) == rows \subseteq Row /\ \A a, b \in rows : a.index = b.index => a = b

Top(x, rows) ==
  IF rows = {} THEN x = NULL ELSE x \in rows /\ \A q \in rows : q.index <= x.index

(* Top describes what HighestIndex chooses.                                *)
LEMMA TopIsHighest ==
  ASSUME NEW rows, DistinctPlaces(rows), NEW x, Top(x, rows)
  PROVE  x = HighestIndex(rows)
<1>1. CASE rows = {}
  BY <1>1 DEF Top, HighestIndex
<1>2. CASE rows # {}
  <2>1. x \in rows /\ \A q \in rows : q.index <= x.index
    BY <1>2 DEF Top
  <2>2. \A r \in rows : (\A q \in rows : q.index <= r.index) => r = x
    <3> SUFFICES ASSUME NEW r \in rows, \A q \in rows : q.index <= r.index
                 PROVE  r = x
      OBVIOUS
    <3>1. r.index \in Nat /\ x.index \in Nat /\ r.index <= x.index /\ x.index <= r.index
      BY <2>1 DEF DistinctPlaces, Row
    <3> QED
      BY <2>1, <3>1 DEF DistinctPlaces
  <2>3. HighestIndex(rows) = CHOOSE r \in rows : \A q \in rows : q.index <= r.index
    BY <1>2 DEF HighestIndex
  <2> QED
    BY <2>1, <2>2, <2>3
<1> QED
  BY <1>1, <1>2

(* HighestIndex chooses a row whose index is the highest.                  *)
LEMMA HighestIsTop ==
  ASSUME NEW rows, DistinctPlaces(rows), IsFiniteSet(rows)
  PROVE  Top(HighestIndex(rows), rows)
<1>1. CASE rows = {}
  BY <1>1 DEF Top, HighestIndex
<1>2. CASE rows # {}
  <2> DEFINE before == {p \in rows \X rows : p[2].index < p[1].index}
  <2>1. \A r \in rows : r.index \in Nat
    BY DEF DistinctPlaces, Row
  <2>2. \A a, b \in rows : <<a, b>> \in before <=> b.index < a.index
    OBVIOUS
  <2> HIDE DEF before
  <2>3. \A a, b \in rows : a # b => <<a, b>> \in before \/ <<b, a>> \in before
    BY <2>1, <2>2 DEF DistinctPlaces
  <2>4. \A a, b, c \in rows : <<a, b>> \in before /\ <<b, c>> \in before => <<a, c>> \in before
    BY <2>1, <2>2
  <2>5. PICK x \in rows : \A y \in rows \ {x} : <<x, y>> \in before
    BY <1>2, <2>3, <2>4, FiniteLeast
  <2>6. \A q \in rows : q.index <= x.index
    <3> SUFFICES ASSUME NEW q \in rows PROVE q.index <= x.index
      OBVIOUS
    <3>1. CASE q = x
      BY <2>1, <3>1
    <3>2. CASE q # x
      <4>1. q.index < x.index
        BY <2>2, <2>5, <3>2
      <4> QED
        BY <2>1, <4>1
    <3> QED
      BY <3>1, <3>2
  <2>7. Top(x, rows)
    BY <1>2, <2>6 DEF Top
  <2> QED
    BY <2>7, TopIsHighest
<1> QED
  BY <1>1, <1>2

(* The last job of a chain that gets one more.                             *)
LEMMA TopOfMore ==
  ASSUME NEW rows, rows \subseteq Row, NEW x, Top(x, rows), NEW job \in Row
  PROVE  Top(IF x = NULL \/ job.index > x.index THEN job ELSE x, rows \cup {job})
<1>1. \A r \in rows \cup {job} : r.index \in Nat /\ r # NULL
  BY NullIsNoValue DEF Row
<1>2. CASE rows = {}
  BY <1>1, <1>2 DEF Top
<1>3. CASE rows # {}
  <2>1. x \in rows /\ x # NULL /\ \A q \in rows : q.index <= x.index
    BY <1>1, <1>3 DEF Top
  <2> QED
    BY <1>1, <2>1 DEF Top
<1> QED
  BY <1>2, <1>3

-----------------------------------------------------------------------------
(* What the indices hold.                                                  *)

OfStatus(R, t, status) == {r \in R : r.type = t /\ r.status = status}
OfChain(R, c) == {r \in R : r.chain = c}
RootsOf(R) == {r \in R : IsRoot(r)}
OfKey(R, k) == {r \in R : IsRoot(r) /\ r.key = k}

(* The indices of s hold the rows R.                                       *)
Indexed(s, R) ==
  /\ Proper(R) /\ Numbers(s.seqs) /\ Numbered(s.seqs, R)
  /\ \A t \in Types :
       /\ Sorted(s.seqs, "scheduledAt", s.pending[t], OfStatus(R, t, "pending"))
       /\ Sorted(s.seqs, "leasedUntil", s.running[t], OfStatus(R, t, "running"))
  /\ Sorted(s.seqs, "createdAt", s.roots, RootsOf(R))
  /\ \A c \in JobIds : s.byChain[c] = OfChain(R, c) /\ Top(s.last[c], OfChain(R, c))
  /\ \A k \in Keys : s.dedup[k] = OfKey(R, k)

(* What an update of the indices leaves alone.                             *)
Reindexed(s, n) ==
  n = [s EXCEPT !.seqs = n.seqs, !.pending = n.pending, !.running = n.running,
                !.byChain = n.byChain, !.last = n.last, !.roots = n.roots, !.dedup = n.dedup]

CountedIn(seqs, id) == IF id \in ToSet(seqs) THEN seqs ELSE Append(seqs, id)

(* IndexInsertJob, index by index.                                         *)
LEMMA InsertFields ==
  ASSUME NEW s \in Store, NEW job \in Row
  PROVE  LET n == IndexInsertJob(s, job)
             seqs == CountedIn(s.seqs, job.id)
         IN  /\ Reindexed(s, n) /\ n.seqs = seqs
             /\ n.pending = [s.pending EXCEPT ![job.type] =
                  IF job.status = "pending" THEN Inserted(seqs, "scheduledAt", @, job) ELSE @]
             /\ n.running = [s.running EXCEPT ![job.type] =
                  IF job.status = "running" THEN Inserted(seqs, "leasedUntil", @, job) ELSE @]
             /\ n.byChain = [s.byChain EXCEPT ![job.chain] =
                  {r \in @ : r.index # job.index} \cup {job}]
             /\ n.last = [s.last EXCEPT ![job.chain] =
                  IF @ = NULL \/ job.index > @.index THEN job ELSE @]
             /\ n.roots = IF IsRoot(job) THEN Inserted(seqs, "createdAt", s.roots, job)
                          ELSE s.roots
             /\ n.dedup = [k \in Keys |-> IF IsRoot(job) /\ job.key = k
                                          THEN s.dedup[k] \cup {job} ELSE s.dedup[k]]
  BY DEF IndexInsertJob, Store, Reindexed, CountedIn

(* IndexRemoveJob, index by index.                                         *)
LEMMA RemoveFields ==
  ASSUME NEW s \in Store, NEW job \in Row
  PROVE  LET n == IndexRemoveJob(s, job)
             left == {r \in s.byChain[job.chain] : r.index # job.index \/ r.id # job.id}
         IN  /\ Reindexed(s, n) /\ n.seqs = s.seqs
             /\ n.pending = [s.pending EXCEPT ![job.type] =
                  IF job.status = "pending" THEN Deleted(s.seqs, "scheduledAt", @, job) ELSE @]
             /\ n.running = [s.running EXCEPT ![job.type] =
                  IF job.status = "running" THEN Deleted(s.seqs, "leasedUntil", @, job) ELSE @]
             /\ n.byChain = [s.byChain EXCEPT ![job.chain] = left]
             /\ n.last = [s.last EXCEPT ![job.chain] =
                  IF @ # NULL /\ @.id = job.id THEN HighestIndex(left) ELSE @]
             /\ n.roots = IF IsRoot(job) THEN Deleted(s.seqs, "createdAt", s.roots, job)
                          ELSE s.roots
             /\ n.dedup = [k \in Keys |-> IF IsRoot(job) /\ job.key = k
                                          THEN s.dedup[k] \ {job} ELSE s.dedup[k]]
<1> DEFINE n == IndexRemoveJob(s, job)
           left == {r \in s.byChain[job.chain] : r.index # job.index \/ r.id # job.id}
<1>1. /\ n.pending = [s.pending EXCEPT ![job.type] =
           IF job.status = "pending" THEN Deleted(s.seqs, "scheduledAt", @, job) ELSE @]
      /\ n.running = [s.running EXCEPT ![job.type] =
           IF job.status = "running" THEN Deleted(s.seqs, "leasedUntil", @, job) ELSE @]
  BY DEF IndexRemoveJob, Store
<1>2. /\ n.byChain = [s.byChain EXCEPT ![job.chain] = left]
      /\ n.last = [s.last EXCEPT ![job.chain] =
           IF @ # NULL /\ @.id = job.id THEN HighestIndex(left) ELSE @]
  BY DEF IndexRemoveJob, Store
<1>3. /\ n.roots = IF IsRoot(job) THEN Deleted(s.seqs, "createdAt", s.roots, job) ELSE s.roots
      /\ n.dedup = [k \in Keys |-> IF IsRoot(job) /\ job.key = k
                                   THEN s.dedup[k] \ {job} ELSE s.dedup[k]]
      /\ n.seqs = s.seqs
  BY SMTT(40) DEF IndexRemoveJob, Store
<1>4. Reindexed(s, n)
  <2>1. n = [s EXCEPT !.pending = n.pending, !.running = n.running, !.byChain = n.byChain,
                      !.last = n.last, !.roots = n.roots, !.dedup = n.dedup]
    BY DEF IndexRemoveJob, Store
  <2>2. ASSUME NEW b, NEW c, NEW d, NEW e, NEW f, NEW g
        PROVE  [s EXCEPT !.pending = b, !.running = c, !.byChain = d, !.last = e,
                         !.roots = f, !.dedup = g]
               = [s EXCEPT !.seqs = s.seqs, !.pending = b, !.running = c, !.byChain = d,
                           !.last = e, !.roots = f, !.dedup = g]
    BY DEF Store
  <2> HIDE DEF n, left
  <2> QED
    BY Zenon, <1>3, <2>1, <2>2 DEF Reindexed
<1> QED
  BY <1>1, <1>2, <1>3, <1>4

(* Indices that hold rows are of the right type.                           *)
LEMMA IndexedStore ==
  ASSUME NEW s \in Store, NEW n, Reindexed(s, n), NEW R, Indexed(n, R),
         DOMAIN n.pending = Types, DOMAIN n.running = Types, DOMAIN n.byChain = JobIds,
         DOMAIN n.last = JobIds, DOMAIN n.dedup = Keys,
         n.pending = [t \in Types |-> n.pending[t]], n.running = [t \in Types |-> n.running[t]],
         n.byChain = [c \in JobIds |-> n.byChain[c]], n.last = [c \in JobIds |-> n.last[c]],
         n.dedup = [k \in Keys |-> n.dedup[k]]
  PROVE  n \in Store
<1>1. n.seqs \in Seq(JobIds) /\ n.roots \in Seq(Row)
  BY DEF Indexed, Numbers, Sorted
<1>2. n.pending \in [Types -> Seq(Row)]
  <2>1. \A t \in Types : n.pending[t] \in Seq(Row)
    BY DEF Indexed, Sorted
  <2> QED
    BY <2>1
<1>3. n.running \in [Types -> Seq(Row)]
  <2>1. \A t \in Types : n.running[t] \in Seq(Row)
    BY DEF Indexed, Sorted
  <2> QED
    BY <2>1
<1>4. n.byChain \in [JobIds -> SUBSET Row]
  <2>1. \A c \in JobIds : n.byChain[c] \in SUBSET Row
    BY DEF Indexed, Proper, OfChain
  <2> QED
    BY <2>1
<1>5. n.last \in [JobIds -> Row \cup {NULL}]
  <2>1. \A c \in JobIds : n.last[c] \in Row \cup {NULL}
    BY DEF Indexed, Proper, OfChain, Top
  <2> QED
    BY <2>1
<1>6. n.dedup \in [Keys -> SUBSET Row]
  <2>1. \A k \in Keys : n.dedup[k] \in SUBSET Row
    BY DEF Indexed, Proper, OfKey
  <2> QED
    BY <2>1
<1> QED
  BY ZenonT(40), <1>1, <1>2, <1>3, <1>4, <1>5, <1>6 DEF Reindexed, Store

(* A job that is given a number leaves the numbers of the others.          *)
LEMMA CountedInKeeps ==
  ASSUME NEW seqs, Numbers(seqs), NEW id \in JobIds
  PROVE  /\ Numbers(CountedIn(seqs, id)) /\ ToSet(CountedIn(seqs, id)) = ToSet(seqs) \cup {id}
         /\ \A a \in ToSet(seqs) : Seq0(CountedIn(seqs, id), a) = Seq0(seqs, a)
<1> DEFINE new == CountedIn(seqs, id)
<1>1. CASE id \in ToSet(seqs)
  BY <1>1 DEF CountedIn
<1>2. CASE id \notin ToSet(seqs)
  <2>1. /\ seqs \in Seq(JobIds) /\ Len(seqs) \in Nat /\ DOMAIN seqs = 1 .. Len(seqs)
        /\ \A i \in 1 .. Len(seqs) : seqs[i] \in ToSet(seqs)
        /\ \A a \in ToSet(seqs) : \E i \in 1 .. Len(seqs) : seqs[i] = a
    BY SeqElements DEF Numbers
  <2>2. new = Append(seqs, id)
    BY <1>2 DEF CountedIn
  <2>3. /\ new \in Seq(JobIds) /\ Len(new) = Len(seqs) + 1 /\ DOMAIN new = 1 .. Len(seqs) + 1
        /\ \A i \in 1 .. Len(seqs) + 1 : new[i] = IF i = Len(seqs) + 1 THEN id ELSE seqs[i]
    BY <2>1, <2>2, AppendProperties
  <2> HIDE DEF new
  <2>4. Numbers(new)
    BY <1>2, <2>1, <2>3 DEF Numbers, Distinct
  <2>5. ToSet(new) = ToSet(seqs) \cup {id}
    <3>1. \A i \in 1 .. Len(seqs) + 1 : new[i] \in ToSet(seqs) \cup {id}
      BY <2>1, <2>3
    <3>2. \A a \in ToSet(seqs) \cup {id} : \E i \in 1 .. Len(seqs) + 1 : new[i] = a
      <4> SUFFICES ASSUME NEW a \in ToSet(seqs) \cup {id}
                   PROVE  \E i \in 1 .. Len(seqs) + 1 : new[i] = a
        OBVIOUS
      <4>1. CASE a = id
        BY <2>1, <2>3, <4>1
      <4>2. CASE a # id
        BY <2>1, <2>3, <4>2
      <4> QED
        BY <4>1, <4>2
    <3>3. ToSet(new) = {new[i] : i \in 1 .. Len(seqs) + 1}
      BY <2>3 DEF ToSet
    <3> QED
      BY <3>1, <3>2, <3>3
  <2>6. ASSUME NEW a \in ToSet(seqs) PROVE Seq0(new, a) = Seq0(seqs, a)
    <3>1. Seq0(seqs, a) \in 1 .. Len(seqs) /\ seqs[Seq0(seqs, a)] = a
      BY NumberOf
    <3>2. Seq0(seqs, a) \in 1 .. Len(new) /\ new[Seq0(seqs, a)] = a
      BY <2>1, <2>3, <3>1
    <3> QED
      BY <2>4, <3>2, NumberOf
  <2> QED
    BY <2>4, <2>5, <2>6 DEF new
<1> QED
  BY <1>1, <1>2

(* The indices without a row.                                              *)
LEMMA IndexedRemove ==
  ASSUME NEW s \in Store, NEW R, Indexed(s, R), IsFiniteSet(R), NEW job \in R
  PROVE  LET n == IndexRemoveJob(s, job) IN
           n \in Store /\ Indexed(n, R \ {job}) /\ Reindexed(s, n) /\ n.seqs = s.seqs
<1> DEFINE n == IndexRemoveJob(s, job)
           Q == R \ {job}
           left == {r \in s.byChain[job.chain] : r.index # job.index \/ r.id # job.id}
<1>1. job \in Row /\ R \subseteq Row
  BY DEF Indexed, Proper
<1>2. /\ Reindexed(s, n) /\ n.seqs = s.seqs
      /\ n.pending = [s.pending EXCEPT ![job.type] =
           IF job.status = "pending" THEN Deleted(s.seqs, "scheduledAt", @, job) ELSE @]
      /\ n.running = [s.running EXCEPT ![job.type] =
           IF job.status = "running" THEN Deleted(s.seqs, "leasedUntil", @, job) ELSE @]
      /\ n.byChain = [s.byChain EXCEPT ![job.chain] = left]
      /\ n.last = [s.last EXCEPT ![job.chain] =
           IF @ # NULL /\ @.id = job.id THEN HighestIndex(left) ELSE @]
      /\ n.roots = IF IsRoot(job) THEN Deleted(s.seqs, "createdAt", s.roots, job) ELSE s.roots
      /\ n.dedup = [k \in Keys |-> IF IsRoot(job) /\ job.key = k
                                   THEN s.dedup[k] \ {job} ELSE s.dedup[k]]
  BY <1>1, RemoveFields
<1> HIDE DEF n
<1>3. /\ s.pending \in [Types -> Seq(Row)] /\ s.running \in [Types -> Seq(Row)]
      /\ s.byChain \in [JobIds -> SUBSET Row] /\ s.last \in [JobIds -> Row \cup {NULL}]
      /\ s.dedup \in [Keys -> SUBSET Row] /\ Numbers(s.seqs) /\ Proper(R) /\ Numbered(s.seqs, R)
      /\ job.type \in Types /\ job.chain \in JobIds
  BY <1>1 DEF Store, Indexed, Row
<1>4. Proper(Q) /\ Numbers(n.seqs) /\ Numbered(n.seqs, Q)
  BY <1>2, <1>3 DEF Proper, Numbered
<1>5. \A S \in SUBSET R :
        /\ Numbered(s.seqs, S) /\ S \subseteq Row /\ (\A r \in S : r.id = job.id => r = job)
        /\ IsFiniteSet(S)
  BY <1>1, <1>3, FS_Subset DEF Numbered, Proper
<1>6. \A t \in Types : Sorted(n.seqs, "scheduledAt", n.pending[t], OfStatus(Q, t, "pending"))
  <2> SUFFICES ASSUME NEW t \in Types
               PROVE  Sorted(n.seqs, "scheduledAt", n.pending[t], OfStatus(Q, t, "pending"))
    OBVIOUS
  <2> DEFINE S == OfStatus(R, t, "pending")
  <2>1. Sorted(s.seqs, "scheduledAt", s.pending[t], S)
    BY DEF Indexed
  <2>2. CASE t = job.type /\ job.status = "pending"
    <3>1. job \in S /\ OfStatus(Q, t, "pending") = S \ {job} /\ S \in SUBSET R
      BY <2>2 DEF OfStatus
    <3>2. n.pending[t] = Deleted(s.seqs, "scheduledAt", s.pending[t], job)
      BY <1>2, <1>3, <2>2
    <3> HIDE DEF S
    <3>3. Sorted(s.seqs, "scheduledAt", Deleted(s.seqs, "scheduledAt", s.pending[t], job), S \ {job})
      BY <1>3, <1>5, <2>1, <3>1, SortedDelete DEF Orders
    <3> QED
      BY <1>2, <3>1, <3>2, <3>3
  <2>3. CASE ~(t = job.type /\ job.status = "pending")
    <3>1. OfStatus(Q, t, "pending") = S
      BY <2>3 DEF OfStatus
    <3>2. n.pending[t] = s.pending[t]
      BY <1>2, <1>3, <2>3
    <3> QED
      BY <1>2, <2>1, <3>1, <3>2
  <2> QED
    BY <2>2, <2>3
<1>7. \A t \in Types : Sorted(n.seqs, "leasedUntil", n.running[t], OfStatus(Q, t, "running"))
  <2> SUFFICES ASSUME NEW t \in Types
               PROVE  Sorted(n.seqs, "leasedUntil", n.running[t], OfStatus(Q, t, "running"))
    OBVIOUS
  <2> DEFINE S == OfStatus(R, t, "running")
  <2>1. Sorted(s.seqs, "leasedUntil", s.running[t], S)
    BY DEF Indexed
  <2>2. CASE t = job.type /\ job.status = "running"
    <3>1. job \in S /\ OfStatus(Q, t, "running") = S \ {job} /\ S \in SUBSET R
      BY <2>2 DEF OfStatus
    <3>2. n.running[t] = Deleted(s.seqs, "leasedUntil", s.running[t], job)
      BY <1>2, <1>3, <2>2
    <3> HIDE DEF S
    <3>3. Sorted(s.seqs, "leasedUntil", Deleted(s.seqs, "leasedUntil", s.running[t], job), S \ {job})
      BY <1>3, <1>5, <2>1, <3>1, SortedDelete DEF Orders
    <3> QED
      BY <1>2, <3>1, <3>2, <3>3
  <2>3. CASE ~(t = job.type /\ job.status = "running")
    <3>1. OfStatus(Q, t, "running") = S
      BY <2>3 DEF OfStatus
    <3>2. n.running[t] = s.running[t]
      BY <1>2, <1>3, <2>3
    <3> QED
      BY <1>2, <2>1, <3>1, <3>2
  <2> QED
    BY <2>2, <2>3
<1>8. Sorted(n.seqs, "createdAt", n.roots, RootsOf(Q))
  <2> DEFINE S == RootsOf(R)
  <2>1. Sorted(s.seqs, "createdAt", s.roots, S)
    BY DEF Indexed
  <2>2. CASE IsRoot(job)
    <3>1. job \in S /\ RootsOf(Q) = S \ {job} /\ S \in SUBSET R
      BY <2>2 DEF RootsOf
    <3> HIDE DEF S
    <3>2. Sorted(s.seqs, "createdAt", Deleted(s.seqs, "createdAt", s.roots, job), S \ {job})
      BY <1>3, <1>5, <2>1, <3>1, SortedDelete DEF Orders
    <3> QED
      BY <1>2, <2>2, <3>1, <3>2
  <2>3. CASE ~IsRoot(job)
    <3>1. RootsOf(Q) = S
      BY <2>3 DEF RootsOf
    <3> QED
      BY <1>2, <2>1, <2>3, <3>1
  <2> QED
    BY <2>2, <2>3
<1>9. left = OfChain(Q, job.chain) /\ DistinctPlaces(left) /\ IsFiniteSet(left)
  <2>1. s.byChain[job.chain] = OfChain(R, job.chain)
    BY <1>3 DEF Indexed
  <2>2. \A r \in OfChain(R, job.chain) : (r.index # job.index \/ r.id # job.id) <=> r # job
    BY <1>3 DEF Proper, OfChain
  <2>3. left = OfChain(Q, job.chain)
    BY <2>1, <2>2 DEF OfChain
  <2>4. DistinctPlaces(left)
    BY <1>3, <2>3 DEF Proper, OfChain, DistinctPlaces
  <2>5. left \in SUBSET R
    BY <2>3 DEF OfChain
  <2> QED
    BY <1>5, <2>3, <2>4, <2>5
<1> HIDE DEF left
<1>10. \A c \in JobIds : n.byChain[c] = OfChain(Q, c)
  <2>1. \A c \in JobIds : c # job.chain => OfChain(Q, c) = OfChain(R, c)
    BY DEF OfChain
  <2>2. \A c \in JobIds : s.byChain[c] = OfChain(R, c)
    BY DEF Indexed
  <2>3. \A c \in JobIds : n.byChain[c] = IF c = job.chain THEN left ELSE s.byChain[c]
    BY <1>2, <1>3
  <2> QED
    BY <1>9, <2>1, <2>2, <2>3
<1>11. \A c \in JobIds : Top(n.last[c], OfChain(Q, c))
  <2> SUFFICES ASSUME NEW c \in JobIds PROVE Top(n.last[c], OfChain(Q, c))
    OBVIOUS
  <2>1. Top(s.last[c], OfChain(R, c))
    BY DEF Indexed
  <2>2. CASE c # job.chain
    <3>1. OfChain(Q, c) = OfChain(R, c) /\ n.last[c] = s.last[c]
      BY <1>2, <1>3, <2>2 DEF OfChain
    <3> QED
      BY <2>1, <3>1
  <2>3. CASE c = job.chain /\ s.last[c].id = job.id
    <3>1. job \in OfChain(R, c)
      BY <2>3 DEF OfChain
    <3>2. s.last[c] \in Row
      BY <1>1, <2>1, <3>1 DEF Top, OfChain
    <3>3. n.last[c] = HighestIndex(left)
      BY <1>2, <1>3, <2>3, <3>2, NullIsNoValue
    <3> QED
      BY <1>9, <2>3, <3>3, HighestIsTop
  <2>4. CASE c = job.chain /\ s.last[c].id # job.id
    <3>1. n.last[c] = s.last[c]
      BY <1>2, <1>3, <2>4
    <3>2. job \in OfChain(R, c)
      BY <2>4 DEF OfChain
    <3>3. s.last[c] \in OfChain(R, c) /\ \A q \in OfChain(R, c) : q.index <= s.last[c].index
      BY <2>1, <3>2 DEF Top
    <3>4. s.last[c] \in OfChain(Q, c) /\ OfChain(Q, c) \subseteq OfChain(R, c)
      BY <2>4, <3>3 DEF OfChain
    <3> QED
      BY <3>1, <3>3, <3>4 DEF Top
  <2> QED
    BY <2>2, <2>3, <2>4
<1>12. \A k \in Keys : n.dedup[k] = OfKey(Q, k)
  <2> SUFFICES ASSUME NEW k \in Keys PROVE n.dedup[k] = OfKey(Q, k)
    OBVIOUS
  <2>1. s.dedup[k] = OfKey(R, k)
    BY DEF Indexed
  <2>2. n.dedup[k] = IF IsRoot(job) /\ job.key = k THEN s.dedup[k] \ {job} ELSE s.dedup[k]
    BY <1>2
  <2> QED
    BY <2>1, <2>2 DEF OfKey
<1>13. Indexed(n, Q)
  BY <1>4, <1>6, <1>7, <1>8, <1>10, <1>11, <1>12 DEF Indexed
<1>14. n \in Store
  <2> HIDE DEF Q
  <2>1. /\ DOMAIN n.pending = Types /\ DOMAIN n.running = Types /\ DOMAIN n.byChain = JobIds
        /\ DOMAIN n.last = JobIds /\ DOMAIN n.dedup = Keys
    BY <1>2, <1>3
  <2>2. /\ n.pending = [t \in Types |-> n.pending[t]] /\ n.running = [t \in Types |-> n.running[t]]
        /\ n.byChain = [c \in JobIds |-> n.byChain[c]] /\ n.last = [c \in JobIds |-> n.last[c]]
        /\ n.dedup = [k \in Keys |-> n.dedup[k]]
    BY <1>2, <1>3
  <2> QED
    BY <1>2, <1>13, <2>1, <2>2, IndexedStore
<1> QED
  BY <1>2, <1>13, <1>14 DEF n

(* The indices with one more row, of a job that has none.                  *)
LEMMA IndexedInsert ==
  ASSUME NEW s \in Store, NEW R, Indexed(s, R), NEW job \in Row, Proper(R \cup {job}),
         \A r \in R : r.id # job.id
  PROVE  LET n == IndexInsertJob(s, job) IN
           /\ n \in Store /\ Indexed(n, R \cup {job}) /\ Reindexed(s, n)
           /\ n.seqs = CountedIn(s.seqs, job.id)
<1> DEFINE n == IndexInsertJob(s, job)
           Q == R \cup {job}
           seqs == CountedIn(s.seqs, job.id)
<1>2. /\ Reindexed(s, n) /\ n.seqs = seqs
      /\ n.pending = [s.pending EXCEPT ![job.type] =
           IF job.status = "pending" THEN Inserted(seqs, "scheduledAt", @, job) ELSE @]
      /\ n.running = [s.running EXCEPT ![job.type] =
           IF job.status = "running" THEN Inserted(seqs, "leasedUntil", @, job) ELSE @]
      /\ n.byChain = [s.byChain EXCEPT ![job.chain] = {r \in @ : r.index # job.index} \cup {job}]
      /\ n.last = [s.last EXCEPT ![job.chain] =
           IF @ = NULL \/ job.index > @.index THEN job ELSE @]
      /\ n.roots = IF IsRoot(job) THEN Inserted(seqs, "createdAt", s.roots, job) ELSE s.roots
      /\ n.dedup = [k \in Keys |-> IF IsRoot(job) /\ job.key = k
                                   THEN s.dedup[k] \cup {job} ELSE s.dedup[k]]
  BY InsertFields
<1> HIDE DEF n
<1>3. /\ s.pending \in [Types -> Seq(Row)] /\ s.running \in [Types -> Seq(Row)]
      /\ s.byChain \in [JobIds -> SUBSET Row] /\ s.last \in [JobIds -> Row \cup {NULL}]
      /\ s.dedup \in [Keys -> SUBSET Row] /\ Numbers(s.seqs) /\ Proper(R) /\ Numbered(s.seqs, R)
      /\ R \subseteq Row /\ job.id \in JobIds /\ job.type \in Types /\ job.chain \in JobIds
  BY DEF Store, Indexed, Row, Proper
<1>4. /\ Numbers(seqs) /\ ToSet(seqs) = ToSet(s.seqs) \cup {job.id}
      /\ \A a \in ToSet(s.seqs) : Seq0(seqs, a) = Seq0(s.seqs, a)
  BY <1>3, CountedInKeeps
<1> HIDE DEF seqs
<1>5. \A S \in SUBSET R :
        /\ SameOrder(s.seqs, seqs, S) /\ Numbered(seqs, S \cup {job})
        /\ \A r \in S : r.id # job.id
  BY <1>3, <1>4 DEF SameOrder, Numbered
<1>6. \A t \in Types : Sorted(seqs, "scheduledAt", n.pending[t], OfStatus(Q, t, "pending"))
  <2> SUFFICES ASSUME NEW t \in Types
               PROVE  Sorted(seqs, "scheduledAt", n.pending[t], OfStatus(Q, t, "pending"))
    OBVIOUS
  <2> DEFINE S == OfStatus(R, t, "pending")
  <2>1. S \in SUBSET R
    BY DEF OfStatus
  <2>2. Sorted(seqs, "scheduledAt", s.pending[t], S)
    <3>1. Sorted(s.seqs, "scheduledAt", s.pending[t], S)
      BY DEF Indexed
    <3> HIDE DEF S
    <3> QED
      BY <1>5, <2>1, <3>1, SortedReordered
  <2>3. CASE t = job.type /\ job.status = "pending"
    <3>1. OfStatus(Q, t, "pending") = S \cup {job}
      BY <2>3 DEF OfStatus
    <3>2. n.pending[t] = Inserted(seqs, "scheduledAt", s.pending[t], job)
      BY <1>2, <1>3, <2>3
    <3> HIDE DEF S
    <3>3. Sorted(seqs, "scheduledAt", Inserted(seqs, "scheduledAt", s.pending[t], job), S \cup {job})
      BY <1>4, <1>5, <2>1, <2>2, SortedInsert DEF Orders
    <3> QED
      BY <3>1, <3>2, <3>3
  <2>4. CASE ~(t = job.type /\ job.status = "pending")
    <3>1. OfStatus(Q, t, "pending") = S
      BY <2>4 DEF OfStatus
    <3>2. n.pending[t] = s.pending[t]
      BY <1>2, <1>3, <2>4
    <3> QED
      BY <2>2, <3>1, <3>2
  <2> QED
    BY <2>3, <2>4
<1>7. \A t \in Types : Sorted(seqs, "leasedUntil", n.running[t], OfStatus(Q, t, "running"))
  <2> SUFFICES ASSUME NEW t \in Types
               PROVE  Sorted(seqs, "leasedUntil", n.running[t], OfStatus(Q, t, "running"))
    OBVIOUS
  <2> DEFINE S == OfStatus(R, t, "running")
  <2>1. S \in SUBSET R
    BY DEF OfStatus
  <2>2. Sorted(seqs, "leasedUntil", s.running[t], S)
    <3>1. Sorted(s.seqs, "leasedUntil", s.running[t], S)
      BY DEF Indexed
    <3> HIDE DEF S
    <3> QED
      BY <1>5, <2>1, <3>1, SortedReordered
  <2>3. CASE t = job.type /\ job.status = "running"
    <3>1. OfStatus(Q, t, "running") = S \cup {job}
      BY <2>3 DEF OfStatus
    <3>2. n.running[t] = Inserted(seqs, "leasedUntil", s.running[t], job)
      BY <1>2, <1>3, <2>3
    <3> HIDE DEF S
    <3>3. Sorted(seqs, "leasedUntil", Inserted(seqs, "leasedUntil", s.running[t], job), S \cup {job})
      BY <1>4, <1>5, <2>1, <2>2, SortedInsert DEF Orders
    <3> QED
      BY <3>1, <3>2, <3>3
  <2>4. CASE ~(t = job.type /\ job.status = "running")
    <3>1. OfStatus(Q, t, "running") = S
      BY <2>4 DEF OfStatus
    <3>2. n.running[t] = s.running[t]
      BY <1>2, <1>3, <2>4
    <3> QED
      BY <2>2, <3>1, <3>2
  <2> QED
    BY <2>3, <2>4
<1>8. Sorted(seqs, "createdAt", n.roots, RootsOf(Q))
  <2> DEFINE S == RootsOf(R)
  <2>1. S \in SUBSET R
    BY DEF RootsOf
  <2>2. Sorted(seqs, "createdAt", s.roots, S)
    <3>1. Sorted(s.seqs, "createdAt", s.roots, S)
      BY DEF Indexed
    <3> HIDE DEF S
    <3> QED
      BY <1>5, <2>1, <3>1, SortedReordered
  <2>3. CASE IsRoot(job)
    <3>1. RootsOf(Q) = S \cup {job}
      BY <2>3 DEF RootsOf
    <3> HIDE DEF S
    <3>2. Sorted(seqs, "createdAt", Inserted(seqs, "createdAt", s.roots, job), S \cup {job})
      BY <1>4, <1>5, <2>1, <2>2, SortedInsert DEF Orders
    <3> QED
      BY <1>2, <2>3, <3>1, <3>2
  <2>4. CASE ~IsRoot(job)
    <3>1. RootsOf(Q) = S
      BY <2>4 DEF RootsOf
    <3> QED
      BY <1>2, <2>2, <2>4, <3>1
  <2> QED
    BY <2>3, <2>4
<1>9. \A c \in JobIds : s.byChain[c] = OfChain(R, c) /\ Top(s.last[c], OfChain(R, c))
  BY DEF Indexed
<1>10. \A c \in JobIds : n.byChain[c] = OfChain(Q, c)
  <2> SUFFICES ASSUME NEW c \in JobIds PROVE n.byChain[c] = OfChain(Q, c)
    OBVIOUS
  <2>1. CASE c = job.chain
    <3>1. n.byChain[c] = {r \in OfChain(R, c) : r.index # job.index} \cup {job}
      BY <1>2, <1>3, <1>9, <2>1
    <3>2. \A r \in OfChain(R, c) : r.index # job.index
      BY <2>1 DEF Proper, OfChain
    <3>3. OfChain(Q, c) = OfChain(R, c) \cup {job}
      BY <2>1 DEF OfChain
    <3> QED
      BY <3>1, <3>2, <3>3
  <2>2. CASE c # job.chain
    <3>1. n.byChain[c] = OfChain(R, c)
      BY <1>2, <1>3, <1>9, <2>2
    <3> QED
      BY <2>2, <3>1 DEF OfChain
  <2> QED
    BY <2>1, <2>2
<1>11. \A c \in JobIds : Top(n.last[c], OfChain(Q, c))
  <2> SUFFICES ASSUME NEW c \in JobIds PROVE Top(n.last[c], OfChain(Q, c))
    OBVIOUS
  <2> DEFINE S == OfChain(R, c)
  <2>1. Top(s.last[c], S) /\ S \subseteq Row
    BY <1>3, <1>9 DEF OfChain
  <2>2. CASE c = job.chain
    <3>1. OfChain(Q, c) = S \cup {job}
      BY <2>2 DEF OfChain
    <3>2. n.last[c] = IF s.last[c] = NULL \/ job.index > s.last[c].index THEN job ELSE s.last[c]
      BY <1>2, <1>3, <2>2
    <3> HIDE DEF S
    <3>3. Top(IF s.last[c] = NULL \/ job.index > s.last[c].index THEN job ELSE s.last[c], S \cup {job})
      BY <2>1, TopOfMore
    <3> QED
      BY <3>1, <3>2, <3>3
  <2>3. CASE c # job.chain
    <3>1. OfChain(Q, c) = S /\ n.last[c] = s.last[c]
      BY <1>2, <1>3, <2>3 DEF OfChain
    <3> QED
      BY <2>1, <3>1
  <2> QED
    BY <2>2, <2>3
<1>12. \A k \in Keys : n.dedup[k] = OfKey(Q, k)
  <2> SUFFICES ASSUME NEW k \in Keys PROVE n.dedup[k] = OfKey(Q, k)
    OBVIOUS
  <2>1. s.dedup[k] = OfKey(R, k)
    BY DEF Indexed
  <2>2. n.dedup[k] = IF IsRoot(job) /\ job.key = k THEN s.dedup[k] \cup {job} ELSE s.dedup[k]
    BY <1>2
  <2> QED
    BY <2>1, <2>2 DEF OfKey
<1>13. Indexed(n, Q)
  <2>1. Proper(Q) /\ Numbers(n.seqs) /\ Numbered(n.seqs, Q)
    BY <1>2, <1>4, <1>5
  <2> QED
    BY <1>2, <2>1, <1>6, <1>7, <1>8, <1>10, <1>11, <1>12 DEF Indexed
<1>14. n \in Store
  <2> HIDE DEF Q
  <2>1. /\ DOMAIN n.pending = Types /\ DOMAIN n.running = Types /\ DOMAIN n.byChain = JobIds
        /\ DOMAIN n.last = JobIds /\ DOMAIN n.dedup = Keys
    BY <1>2, <1>3
  <2>2. /\ n.pending = [t \in Types |-> n.pending[t]] /\ n.running = [t \in Types |-> n.running[t]]
        /\ n.byChain = [c \in JobIds |-> n.byChain[c]] /\ n.last = [c \in JobIds |-> n.last[c]]
        /\ n.dedup = [k \in Keys |-> n.dedup[k]]
    BY <1>2, <1>3
  <2> QED
    BY <1>2, <1>13, <2>1, <2>2, IndexedStore
<1> QED
  BY <1>2, <1>13, <1>14 DEF n, seqs

(* A job that loses its number leaves the order of the others.             *)
LEMMA UnnumberedKeeps ==
  ASSUME NEW seqs, Numbers(seqs), NEW id \in ToSet(seqs)
  PROVE  /\ Numbers(Unnumbered(seqs, id)) /\ ToSet(Unnumbered(seqs, id)) = ToSet(seqs) \ {id}
         /\ \A a, b \in ToSet(seqs) \ {id} :
              Seq0(seqs, a) < Seq0(seqs, b) <=>
                Seq0(Unnumbered(seqs, id), a) < Seq0(Unnumbered(seqs, id), b)
<1> DEFINE new == Unnumbered(seqs, id)
           p == Seq0(seqs, id)
           N == Len(seqs)
<1>1. /\ seqs \in Seq(JobIds) /\ N \in Nat /\ Distinct(seqs)
      /\ \A i \in 1 .. N : seqs[i] \in ToSet(seqs)
      /\ \A a \in ToSet(seqs) : \E i \in 1 .. N : seqs[i] = a
  BY SeqElements DEF Numbers
<1>2. p \in 1 .. N /\ seqs[p] = id
  BY NumberOf
<1>3. new = RemoveAt(seqs, p)
  BY DEF Unnumbered
<1> HIDE DEF new, p
<1>4. /\ new \in Seq(JobIds) /\ Len(new) = N - 1
      /\ \A i \in 1 .. N - 1 : new[i] = IF i < p THEN seqs[i] ELSE seqs[i + 1]
  BY <1>1, <1>2, <1>3, SeqRemoved
<1>5. DOMAIN new = 1 .. N - 1
  BY <1>1, <1>4, SeqElements
(* Where the job at i of the old sequence is in the new one.               *)
<1> DEFINE At(i) == IF i < p THEN i ELSE i - 1
<1>6. \A i \in 1 .. N : i # p => At(i) \in 1 .. N - 1 /\ new[At(i)] = seqs[i]
  <2> SUFFICES ASSUME NEW i \in 1 .. N, i # p PROVE At(i) \in 1 .. N - 1 /\ new[At(i)] = seqs[i]
    OBVIOUS
  <2>1. CASE i < p
    BY <1>1, <1>2, <1>4, <2>1
  <2>2. CASE i > p
    <3>1. i - 1 \in 1 .. N - 1 /\ ~(i - 1 < p) /\ (i - 1) + 1 = i
      BY <1>1, <1>2, <2>2
    <3>2. new[i - 1] = seqs[i]
      BY <1>4, <3>1
    <3>3. At(i) = i - 1
      BY <1>1, <1>2, <2>2
    <3> QED
      BY <3>1, <3>2, <3>3
  <2> QED
    BY <1>1, <1>2, <2>1, <2>2
<1>7. \A i \in 1 .. N - 1 : \E k \in 1 .. N : k # p /\ new[i] = seqs[k] /\ At(k) = i
  <2> SUFFICES ASSUME NEW i \in 1 .. N - 1
               PROVE  \E k \in 1 .. N : k # p /\ new[i] = seqs[k] /\ At(k) = i
    OBVIOUS
  <2>1. CASE i < p
    <3>1. i \in 1 .. N /\ i # p /\ At(i) = i
      BY <1>1, <2>1
    <3>2. new[i] = seqs[i]
      BY <1>4, <2>1
    <3> QED
      BY <3>1, <3>2
  <2>2. CASE ~(i < p)
    <3>1. i + 1 \in 1 .. N /\ i + 1 # p /\ new[i] = seqs[i + 1] /\ At(i + 1) = i
      BY <1>1, <1>2, <1>4, <2>2
    <3> QED
      BY <3>1
  <2> QED
    BY <2>1, <2>2
<1>8. Numbers(new)
  <2> HIDE DEF At
  <2> SUFFICES ASSUME NEW i \in 1 .. N - 1, NEW k \in 1 .. N - 1, new[i] = new[k]
               PROVE  i = k
    BY <1>4 DEF Numbers, Distinct
  <2>1. PICK a \in 1 .. N : a # p /\ new[i] = seqs[a] /\ At(a) = i
    BY <1>7
  <2>2. PICK b \in 1 .. N : b # p /\ new[k] = seqs[b] /\ At(b) = k
    BY <1>7
  <2>3. a = b
    BY <1>1, <2>1, <2>2 DEF Distinct
  <2> QED
    BY <2>1, <2>2, <2>3
<1>9. ToSet(new) = ToSet(seqs) \ {id}
  <2>1. ToSet(new) = {new[i] : i \in 1 .. N - 1}
    BY <1>5 DEF ToSet
  <2>2. \A k \in 1 .. N : k # p => seqs[k] # id
    BY <1>1, <1>2 DEF Distinct
  <2>3. \A i \in 1 .. N - 1 : new[i] \in ToSet(seqs) \ {id}
    <3> HIDE DEF At
    <3> QED
      BY <1>1, <1>7, <2>2
  <2>4. \A a \in ToSet(seqs) \ {id} : \E i \in 1 .. N - 1 : new[i] = a
    <3> SUFFICES ASSUME NEW a \in ToSet(seqs) \ {id} PROVE \E i \in 1 .. N - 1 : new[i] = a
      OBVIOUS
    <3>1. PICK k \in 1 .. N : seqs[k] = a
      BY <1>1
    <3>2. k # p
      BY <1>2, <3>1
    <3> HIDE DEF At
    <3> QED
      BY <1>6, <3>1, <3>2
  <2> QED
    BY <2>1, <2>3, <2>4
<1>10. ASSUME NEW a \in ToSet(seqs) \ {id} PROVE Seq0(seqs, a) \in 1 .. N /\ Seq0(seqs, a) # p
                                               /\ Seq0(new, a) = At(Seq0(seqs, a))
  <2>1. Seq0(seqs, a) \in 1 .. N /\ seqs[Seq0(seqs, a)] = a
    BY NumberOf
  <2>2. Seq0(seqs, a) # p
    BY <1>2, <2>1
  <2> HIDE DEF At
  <2>3. At(Seq0(seqs, a)) \in 1 .. Len(new) /\ new[At(Seq0(seqs, a))] = a
    BY <1>4, <1>6, <2>1, <2>2
  <2>4. Seq0(new, a) = At(Seq0(seqs, a))
    BY <1>8, <2>3, NumberOf
  <2> QED
    BY <2>1, <2>2, <2>4
<1>11. ASSUME NEW a \in ToSet(seqs) \ {id}, NEW b \in ToSet(seqs) \ {id}
       PROVE  Seq0(seqs, a) < Seq0(seqs, b) <=> Seq0(new, a) < Seq0(new, b)
  <2>1. /\ Seq0(seqs, a) \in 1 .. N /\ Seq0(seqs, a) # p /\ Seq0(new, a) = At(Seq0(seqs, a))
        /\ Seq0(seqs, b) \in 1 .. N /\ Seq0(seqs, b) # p /\ Seq0(new, b) = At(Seq0(seqs, b))
    BY <1>10
  <2> QED
    BY <1>1, <1>2, <2>1
<1> QED
  BY <1>8, <1>9, <1>11 DEF new

-----------------------------------------------------------------------------
(* A store whose indices agree with its job map.                           *)

Present(jobs) == {j \in JobIds : jobs[j] # NULL}

RowsIn(jobs) == {jobs[j] : j \in Present(jobs)}

Agree(s) ==
  /\ s \in Store /\ Indexed(s, RowsIn(s.jobs))
  /\ ToSet(s.seqs) = Present(s.jobs)
  /\ \A j \in Present(s.jobs) : s.jobs[j].id = j
  /\ \A c \in JobIds : s.blockedBy[c] = {q \in JobIds : c \in s.blockers[q]}

(* There are no more rows than job ids.                                    *)
LEMMA RowsFinite ==
  ASSUME NEW R, Proper(R)
  PROVE  IsFiniteSet(R)
<1> DEFINE f == [r \in R |-> r.id]
<1>1. f \in Injection(R, JobIds)
  <2>1. \A r \in R : r.id \in JobIds
    BY DEF Proper, Row
  <2> QED
    BY <2>1 DEF Proper, Injection, IsInjective
<1> QED
  BY <1>1, FiniteIds, FS_Injection

(* The rows after one is put into the job map.                             *)
LEMMA RowsPut ==
  ASSUME NEW jobs \in [JobIds -> Row \cup {NULL}],
         \A j \in Present(jobs) : jobs[j].id = j,
         NEW x \in Row, NEW new, new = [jobs EXCEPT ![x.id] = x]
  PROVE  /\ new \in [JobIds -> Row \cup {NULL}] /\ \A j \in Present(new) : new[j].id = j
         /\ \A j : j \in Present(new) <=> j = x.id \/ j \in Present(jobs)
         /\ \A r : r \in RowsIn(new) <=> (r \in RowsIn(jobs) /\ r # jobs[x.id]) \/ r = x
<1>1. x.id \in JobIds /\ x # NULL
  BY NullIsNoValue DEF Row
<1>2. \A j \in JobIds : new[j] = IF j = x.id THEN x ELSE jobs[j]
  OBVIOUS
<1>3. new \in [JobIds -> Row \cup {NULL}]
  OBVIOUS
<1>4. \A j : j \in Present(new) <=> j = x.id \/ j \in Present(jobs)
  BY <1>1, <1>2 DEF Present
<1>5. \A j \in Present(new) : new[j].id = j
  BY <1>2 DEF Present
<1>6. ASSUME NEW r \in RowsIn(new) PROVE (r \in RowsIn(jobs) /\ r # jobs[x.id]) \/ r = x
  <2>1. PICK j \in Present(new) : r = new[j]
    BY DEF RowsIn
  <2>2. CASE j = x.id
    BY <1>1, <1>2, <2>1, <2>2
  <2>3. CASE j # x.id
    <3>1. r = jobs[j] /\ j \in Present(jobs) /\ r.id = j
      BY <1>2, <2>1, <2>3 DEF Present
    <3>2. r # jobs[x.id]
      BY <1>1, <2>3, <3>1 DEF Present
    <3> QED
      BY <3>1, <3>2 DEF RowsIn
  <2> QED
    BY <2>2, <2>3
<1>7. ASSUME NEW r, (r \in RowsIn(jobs) /\ r # jobs[x.id]) \/ r = x PROVE r \in RowsIn(new)
  <2>1. CASE r \in RowsIn(jobs) /\ r # jobs[x.id]
    <3>1. PICK j \in Present(jobs) : r = jobs[j]
      BY <2>1 DEF RowsIn
    <3>2. j \in Present(new) /\ new[j] = r
      BY <1>2, <2>1, <3>1 DEF Present
    <3> QED
      BY <3>2 DEF RowsIn
  <2>2. CASE r = x
    <3>1. x.id \in Present(new) /\ new[x.id] = r
      BY <1>1, <1>2, <2>2 DEF Present
    <3> QED
      BY <3>1 DEF RowsIn
  <2> QED
    BY <1>7, <2>1, <2>2
<1> QED
  BY <1>3, <1>4, <1>5, <1>6, <1>7

(* The rows after one is taken from the job map.                           *)
LEMMA RowsGone ==
  ASSUME NEW jobs \in [JobIds -> Row \cup {NULL}],
         \A j \in Present(jobs) : jobs[j].id = j,
         NEW id \in JobIds, NEW new, new = [jobs EXCEPT ![id] = NULL]
  PROVE  /\ new \in [JobIds -> Row \cup {NULL}] /\ \A j \in Present(new) : new[j].id = j
         /\ \A j : j \in Present(new) <=> j # id /\ j \in Present(jobs)
         /\ \A r : r \in RowsIn(new) <=> r \in RowsIn(jobs) /\ r # jobs[id]
<1>1. \A j \in JobIds : new[j] = IF j = id THEN NULL ELSE jobs[j]
  OBVIOUS
<1>2. new \in [JobIds -> Row \cup {NULL}]
  OBVIOUS
<1>3. \A j : j \in Present(new) <=> j # id /\ j \in Present(jobs)
  BY <1>1 DEF Present
<1>4. \A j \in Present(new) : new[j].id = j
  BY <1>1 DEF Present
<1>5. ASSUME NEW r \in RowsIn(new) PROVE r \in RowsIn(jobs) /\ r # jobs[id]
  <2>1. PICK j \in Present(new) : r = new[j]
    BY DEF RowsIn
  <2>2. j # id /\ r = jobs[j] /\ j \in Present(jobs) /\ r.id = j
    BY <1>1, <1>3, <2>1 DEF Present
  <2>3. r # jobs[id]
    BY <2>2 DEF Present
  <2> QED
    BY <2>2, <2>3 DEF RowsIn
<1>6. ASSUME NEW r \in RowsIn(jobs), r # jobs[id] PROVE r \in RowsIn(new)
  <2>1. PICK j \in Present(jobs) : r = jobs[j]
    BY DEF RowsIn
  <2>2. j \in Present(new) /\ new[j] = r
    BY <1>1, <1>6, <2>1 DEF Present
  <2> QED
    BY <2>2 DEF RowsIn
<1> QED
  BY <1>2, <1>3, <1>4, <1>5, <1>6

(* Rows that can be written: a job that is not there, at a free place of   *)
(* its chain; the end of one; or a new version, at the same place.         *)
FitsJob(jobs, p, n) ==
  \/ /\ p = NULL /\ n \in Row /\ jobs[n.id] = NULL
     /\ \A r \in RowsIn(jobs) : ~(r.chain = n.chain /\ r.index = n.index)
  \/ p \in Row /\ jobs[p.id] = p /\ n = NULL
  \/ /\ p \in Row /\ jobs[p.id] = p /\ n \in Row
     /\ n.id = p.id /\ n.chain = p.chain /\ n.index = p.index

IdOf(p, n) == IF p = NULL THEN n.id ELSE p.id

(* The jobs that both stores have are in the same order.                   *)
KeepsOrder(s, t) ==
  \A a, b \in Present(s.jobs) \cap Present(t.jobs) :
    Seq0(s.seqs, a) < Seq0(s.seqs, b) <=> Seq0(t.seqs, a) < Seq0(t.seqs, b)

(* Indexed is about these seven fields only.                               *)
LEMMA IndexedSame ==
  ASSUME NEW s, NEW t, NEW R, Indexed(s, R), t.seqs = s.seqs, t.pending = s.pending,
         t.running = s.running, t.byChain = s.byChain, t.last = s.last, t.roots = s.roots,
         t.dedup = s.dedup
  PROVE  Indexed(t, R)
  BY DEF Indexed

(* Indexing changes no table.                                              *)
LEMMA ReindexedKeeps ==
  ASSUME NEW s \in Store, NEW n, Reindexed(s, n)
  PROVE  n.jobs = s.jobs /\ n.blockers = s.blockers /\ n.blockedBy = s.blockedBy
  BY DEF Reindexed, Store

(* Putting a job into the map changes no index.                            *)
LEMMA PutJob ==
  ASSUME NEW s \in Store, NEW id \in JobIds, NEW x \in Row \cup {NULL}
  PROVE  LET t == [s EXCEPT !.jobs[id] = x] IN
           /\ t \in Store /\ t.jobs = [s.jobs EXCEPT ![id] = x] /\ t.seqs = s.seqs
           /\ t.blockers = s.blockers /\ t.blockedBy = s.blockedBy
           /\ t.pending = s.pending /\ t.running = s.running /\ t.byChain = s.byChain
           /\ t.last = s.last /\ t.roots = s.roots /\ t.dedup = s.dedup
<1> DEFINE t == [s EXCEPT !.jobs[id] = x]
<1>1. t \in Store
  BY DEF Store
<1>2. /\ t.jobs = [s.jobs EXCEPT ![id] = x] /\ t.seqs = s.seqs
      /\ t.blockers = s.blockers /\ t.blockedBy = s.blockedBy
  BY DEF Store
<1>3. /\ t.pending = s.pending /\ t.running = s.running /\ t.byChain = s.byChain
      /\ t.last = s.last /\ t.roots = s.roots /\ t.dedup = s.dedup
  BY DEF Store
<1> QED
  BY <1>1, <1>2, <1>3

(* Forget changes the job map and the sequence numbers.                    *)
LEMMA ForgetFields ==
  ASSUME NEW s \in Store, NEW id \in JobIds, Unnumbered(s.seqs, id) \in Seq(JobIds)
  PROVE  LET t == Forget(s, id) IN
           /\ t \in Store /\ t.jobs = [s.jobs EXCEPT ![id] = NULL]
           /\ t.seqs = Unnumbered(s.seqs, id)
           /\ t.blockers = s.blockers /\ t.blockedBy = s.blockedBy
           /\ t.pending = s.pending /\ t.running = s.running /\ t.byChain = s.byChain
           /\ t.last = s.last /\ t.roots = s.roots /\ t.dedup = s.dedup
<1> DEFINE t == Forget(s, id)
<1>1. t \in Store
  BY DEF Store, Forget
<1>2. /\ t.jobs = [s.jobs EXCEPT ![id] = NULL] /\ t.seqs = Unnumbered(s.seqs, id)
      /\ t.blockers = s.blockers /\ t.blockedBy = s.blockedBy
  BY DEF Store, Forget
<1>3. /\ t.pending = s.pending /\ t.running = s.running /\ t.byChain = s.byChain
      /\ t.last = s.last /\ t.roots = s.roots /\ t.dedup = s.dedup
  BY DEF Store, Forget
<1> QED
  BY <1>1, <1>2, <1>3

(* An entry that creates a job keeps the indices in agreement.             *)
LEMMA CreateAgrees ==
  ASSUME NEW s, Agree(s), NEW n \in Row, s.jobs[n.id] = NULL,
         \A r \in RowsIn(s.jobs) : ~(r.chain = n.chain /\ r.index = n.index)
  PROVE  LET t == Replace(s, NULL, n) IN
           /\ Agree(t) /\ KeepsOrder(s, t)
           /\ t.jobs = [s.jobs EXCEPT ![n.id] = n] /\ t.blockers = s.blockers
<1> DEFINE u == [s EXCEPT !.jobs[n.id] = n]
           t == IndexInsertJob(u, n)
           R == RowsIn(s.jobs)
           jobs == [s.jobs EXCEPT ![n.id] = n]
<1>1. /\ s \in Store /\ Indexed(s, R) /\ Numbers(s.seqs) /\ ToSet(s.seqs) = Present(s.jobs)
      /\ s.jobs \in [JobIds -> Row \cup {NULL}] /\ n.id \in JobIds /\ n # NULL
      /\ \A j \in Present(s.jobs) : s.jobs[j].id = j
      /\ \A c \in JobIds : s.blockedBy[c] = {q \in JobIds : c \in s.blockers[q]}
  BY ZenonT(40), NullIsNoValue DEF Agree, Indexed, Store, Row
<1>2. Replace(s, NULL, n) = t
  BY <1>1 DEF Replace
<1>3. /\ u \in Store /\ u.jobs = jobs /\ u.seqs = s.seqs
      /\ u.blockers = s.blockers /\ u.blockedBy = s.blockedBy /\ Indexed(u, R)
  <2>1. /\ u \in Store /\ u.jobs = jobs /\ u.seqs = s.seqs
        /\ u.blockers = s.blockers /\ u.blockedBy = s.blockedBy
        /\ u.pending = s.pending /\ u.running = s.running /\ u.byChain = s.byChain
        /\ u.last = s.last /\ u.roots = s.roots /\ u.dedup = s.dedup
    BY <1>1, PutJob
  <2> HIDE DEF u, R, jobs
  <2> QED
    BY <1>1, <2>1, IndexedSame
<1>4. /\ jobs \in [JobIds -> Row \cup {NULL}] /\ \A j \in Present(jobs) : jobs[j].id = j
      /\ Present(jobs) = Present(s.jobs) \cup {n.id} /\ RowsIn(jobs) = R \cup {n}
  <2>1. jobs = [s.jobs EXCEPT ![n.id] = n]
    OBVIOUS
  <2>2. NULL \notin RowsIn(s.jobs)
    BY DEF RowsIn, Present
  <2> HIDE DEF jobs
  <2>3. /\ jobs \in [JobIds -> Row \cup {NULL}] /\ \A j \in Present(jobs) : jobs[j].id = j
        /\ \A j : j \in Present(jobs) <=> j = n.id \/ j \in Present(s.jobs)
        /\ \A r : r \in RowsIn(jobs) <=> (r \in RowsIn(s.jobs) /\ r # NULL) \/ r = n
    BY <1>1, <2>1, RowsPut
  <2> QED
    BY <2>2, <2>3
<1>5. \A r \in R : r.id # n.id
  BY <1>1 DEF RowsIn, Present
<1>6. Proper(R \cup {n})
  BY <1>1, <1>5 DEF Proper, Indexed
<1> HIDE DEF u, R, jobs
<1>7. /\ t \in Store /\ Indexed(t, R \cup {n}) /\ Reindexed(u, t)
      /\ t.seqs = CountedIn(u.seqs, n.id)
  BY <1>3, <1>5, <1>6, IndexedInsert
<1> HIDE DEF t
<1>8. t.jobs = jobs /\ t.blockers = s.blockers /\ t.blockedBy = s.blockedBy
  BY <1>3, <1>7, ReindexedKeeps
<1>9. /\ ToSet(t.seqs) = ToSet(s.seqs) \cup {n.id}
      /\ \A a \in ToSet(s.seqs) : Seq0(t.seqs, a) = Seq0(s.seqs, a)
  BY <1>1, <1>3, <1>7, CountedInKeeps
<1>10. Agree(t)
  <2>1. Indexed(t, RowsIn(t.jobs))
    BY <1>4, <1>7, <1>8
  <2>2. /\ ToSet(t.seqs) = Present(t.jobs) /\ \A j \in Present(t.jobs) : t.jobs[j].id = j
    BY <1>1, <1>4, <1>8, <1>9
  <2>3. \A c \in JobIds : t.blockedBy[c] = {q \in JobIds : c \in t.blockers[q]}
    BY <1>1, <1>8
  <2> QED
    BY <1>7, <2>1, <2>2, <2>3 DEF Agree
<1>11. KeepsOrder(s, t)
  BY <1>1, <1>9 DEF KeepsOrder
<1> QED
  BY <1>2, <1>8, <1>10, <1>11 DEF jobs

(* So does one that changes a job from what the map holds.                 *)
LEMMA UpdateAgrees ==
  ASSUME NEW s, Agree(s), NEW p \in Row, s.jobs[p.id] = p, NEW n \in Row,
         n.id = p.id, n.chain = p.chain, n.index = p.index
  PROVE  LET t == Replace(s, p, n) IN
           /\ Agree(t) /\ KeepsOrder(s, t)
           /\ t.jobs = [s.jobs EXCEPT ![p.id] = n] /\ t.blockers = s.blockers
<1> DEFINE v == IndexRemoveJob(s, p)
           u == [v EXCEPT !.jobs[n.id] = n]
           t == IndexInsertJob(u, n)
           R == RowsIn(s.jobs)
           jobs == [s.jobs EXCEPT ![p.id] = n]
<1>1. /\ s \in Store /\ Indexed(s, R) /\ Numbers(s.seqs) /\ ToSet(s.seqs) = Present(s.jobs)
      /\ s.jobs \in [JobIds -> Row \cup {NULL}] /\ p.id \in JobIds /\ n # NULL /\ p # NULL
      /\ \A j \in Present(s.jobs) : s.jobs[j].id = j
      /\ \A c \in JobIds : s.blockedBy[c] = {q \in JobIds : c \in s.blockers[q]}
  BY Zenon, NullIsNoValue DEF Agree, Indexed, Store, Row
<1>2. Replace(s, p, n) = t
  BY <1>1 DEF Replace
<1>3. p.id \in Present(s.jobs) /\ p \in R /\ Proper(R) /\ IsFiniteSet(R)
  <2>1. p.id \in Present(s.jobs) /\ p \in R
    BY <1>1 DEF RowsIn, Present
  <2> QED
    BY <1>1, <2>1, RowsFinite DEF Indexed
<1>4. /\ jobs \in [JobIds -> Row \cup {NULL}] /\ \A j \in Present(jobs) : jobs[j].id = j
      /\ Present(jobs) = Present(s.jobs) /\ RowsIn(jobs) = (R \ {p}) \cup {n}
  <2>1. jobs = [s.jobs EXCEPT ![p.id] = n]
    OBVIOUS
  <2> HIDE DEF jobs
  <2>2. /\ jobs \in [JobIds -> Row \cup {NULL}] /\ \A j \in Present(jobs) : jobs[j].id = j
        /\ \A j : j \in Present(jobs) <=> j = p.id \/ j \in Present(s.jobs)
        /\ \A r : r \in RowsIn(jobs) <=> (r \in RowsIn(s.jobs) /\ r # p) \/ r = n
    BY <1>1, <2>1, RowsPut
  <2> QED
    BY <1>3, <2>2
<1>5. \A r \in R \ {p} : r.id # n.id
  BY <1>3 DEF Proper
<1>6. Proper((R \ {p}) \cup {n})
  BY <1>3, <1>5 DEF Proper
<1> HIDE DEF R, jobs
<1>7. v \in Store /\ Indexed(v, R \ {p}) /\ Reindexed(s, v) /\ v.seqs = s.seqs
  BY <1>1, <1>3, IndexedRemove
<1> HIDE DEF v
<1>8. v.jobs = s.jobs /\ v.blockers = s.blockers /\ v.blockedBy = s.blockedBy
  BY <1>1, <1>7, ReindexedKeeps
<1>9. /\ u \in Store /\ u.jobs = jobs /\ u.seqs = s.seqs
      /\ u.blockers = s.blockers /\ u.blockedBy = s.blockedBy /\ Indexed(u, R \ {p})
  <2>1. /\ u \in Store /\ u.jobs = [v.jobs EXCEPT ![n.id] = n] /\ u.seqs = v.seqs
        /\ u.blockers = v.blockers /\ u.blockedBy = v.blockedBy
        /\ u.pending = v.pending /\ u.running = v.running /\ u.byChain = v.byChain
        /\ u.last = v.last /\ u.roots = v.roots /\ u.dedup = v.dedup
    BY <1>1, <1>7, PutJob
  <2> HIDE DEF u
  <2>2. Indexed(u, R \ {p})
    BY <1>7, <2>1, IndexedSame
  <2> QED
    BY <1>7, <1>8, <2>1, <2>2 DEF jobs
<1> HIDE DEF u
<1>10. /\ t \in Store /\ Indexed(t, (R \ {p}) \cup {n}) /\ Reindexed(u, t)
       /\ t.seqs = CountedIn(u.seqs, n.id)
  BY <1>5, <1>6, <1>9, IndexedInsert
<1> HIDE DEF t
<1>11. t.jobs = jobs /\ t.blockers = s.blockers /\ t.blockedBy = s.blockedBy
  BY <1>9, <1>10, ReindexedKeeps
<1>12. t.seqs = s.seqs
  BY <1>1, <1>3, <1>9, <1>10 DEF CountedIn
<1>13. Agree(t)
  BY ZenonT(40), <1>1, <1>4, <1>10, <1>11, <1>12 DEF Agree
<1>14. KeepsOrder(s, t)
  BY <1>12 DEF KeepsOrder
<1> QED
  BY <1>2, <1>11, <1>13, <1>14 DEF jobs

(* So does one that deletes the row that the map holds.                    *)
LEMMA DeleteAgrees ==
  ASSUME NEW s, Agree(s), NEW p \in Row, s.jobs[p.id] = p
  PROVE  LET t == Replace(s, p, NULL) IN
           /\ Agree(t) /\ KeepsOrder(s, t)
           /\ t.jobs = [s.jobs EXCEPT ![p.id] = NULL] /\ t.blockers = s.blockers
<1> DEFINE v == IndexRemoveJob(s, p)
           t == Forget(v, p.id)
           R == RowsIn(s.jobs)
           jobs == [s.jobs EXCEPT ![p.id] = NULL]
<1>1. /\ s \in Store /\ Indexed(s, R) /\ Numbers(s.seqs) /\ ToSet(s.seqs) = Present(s.jobs)
      /\ s.jobs \in [JobIds -> Row \cup {NULL}] /\ p.id \in JobIds /\ p # NULL
      /\ \A j \in Present(s.jobs) : s.jobs[j].id = j
      /\ \A c \in JobIds : s.blockedBy[c] = {q \in JobIds : c \in s.blockers[q]}
  BY ZenonT(40), NullIsNoValue DEF Agree, Indexed, Store, Row
<1>2. Replace(s, p, NULL) = t
  BY <1>1 DEF Replace
<1>3. p.id \in Present(s.jobs) /\ p \in R /\ Proper(R) /\ IsFiniteSet(R)
  <2>1. p.id \in Present(s.jobs) /\ p \in R
    BY <1>1 DEF RowsIn, Present
  <2> QED
    BY <1>1, <2>1, RowsFinite DEF Indexed
<1>4. /\ jobs \in [JobIds -> Row \cup {NULL}] /\ \A j \in Present(jobs) : jobs[j].id = j
      /\ Present(jobs) = Present(s.jobs) \ {p.id} /\ RowsIn(jobs) = R \ {p}
  <2>1. jobs = [s.jobs EXCEPT ![p.id] = NULL]
    OBVIOUS
  <2> HIDE DEF jobs
  <2>2. /\ jobs \in [JobIds -> Row \cup {NULL}] /\ \A j \in Present(jobs) : jobs[j].id = j
        /\ \A j : j \in Present(jobs) <=> j # p.id /\ j \in Present(s.jobs)
        /\ \A r : r \in RowsIn(jobs) <=> r \in RowsIn(s.jobs) /\ r # s.jobs[p.id]
    BY <1>1, <2>1, RowsGone
  <2> QED
    BY <2>2
<1>5. \A r \in R \ {p} : r.id # p.id
  BY <1>3 DEF Proper
<1> HIDE DEF R, jobs
<1>6. v \in Store /\ Indexed(v, R \ {p}) /\ Reindexed(s, v) /\ v.seqs = s.seqs
  BY <1>1, <1>3, IndexedRemove
<1> HIDE DEF v
<1>7. v.jobs = s.jobs /\ v.blockers = s.blockers /\ v.blockedBy = s.blockedBy
  BY <1>1, <1>6, ReindexedKeeps
<1> DEFINE seqs == Unnumbered(s.seqs, p.id)
<1>8. /\ Numbers(seqs) /\ ToSet(seqs) = ToSet(s.seqs) \ {p.id}
      /\ \A a, b \in ToSet(s.seqs) \ {p.id} :
           Seq0(s.seqs, a) < Seq0(s.seqs, b) <=> Seq0(seqs, a) < Seq0(seqs, b)
  BY <1>1, <1>3, UnnumberedKeeps
<1> HIDE DEF seqs
<1>9. /\ t \in Store /\ t.jobs = jobs /\ t.seqs = seqs
      /\ t.blockers = s.blockers /\ t.blockedBy = s.blockedBy
      /\ t.pending = v.pending /\ t.running = v.running /\ t.byChain = v.byChain
      /\ t.last = v.last /\ t.roots = v.roots /\ t.dedup = v.dedup
  <2>1. Unnumbered(v.seqs, p.id) = seqs /\ seqs \in Seq(JobIds)
    BY <1>6, <1>8 DEF seqs, Numbers
  <2> HIDE DEF t
  <2>2. /\ t \in Store /\ t.jobs = [v.jobs EXCEPT ![p.id] = NULL]
        /\ t.seqs = Unnumbered(v.seqs, p.id)
        /\ t.blockers = v.blockers /\ t.blockedBy = v.blockedBy
        /\ t.pending = v.pending /\ t.running = v.running /\ t.byChain = v.byChain
        /\ t.last = v.last /\ t.roots = v.roots /\ t.dedup = v.dedup
    BY <1>1, <1>6, <2>1, ForgetFields DEF t
  <2> QED
    BY <1>7, <2>1, <2>2 DEF jobs
<1> HIDE DEF t
<1>10. Indexed(t, R \ {p})
  <2>1. Proper(R \ {p})
    BY <1>3 DEF Proper
  <2>2. Numbered(seqs, R \ {p})
    BY <1>1, <1>5, <1>8 DEF Numbered, Indexed
  <2>3. \A S \in SUBSET (R \ {p}) : SameOrder(v.seqs, seqs, S)
    <3>1. \A r \in R \ {p} : r.id \in ToSet(s.seqs) \ {p.id}
      BY <1>1, <1>5 DEF Indexed, Numbered
    <3> QED
      BY <1>6, <1>8, <3>1 DEF SameOrder
  <2>4. /\ \A k, x : OfStatus(R \ {p}, k, x) \in SUBSET (R \ {p})
        /\ RootsOf(R \ {p}) \in SUBSET (R \ {p})
    BY DEF OfStatus, RootsOf
  <2>5. \A k \in Types :
          /\ Sorted(seqs, "scheduledAt", v.pending[k], OfStatus(R \ {p}, k, "pending"))
          /\ Sorted(seqs, "leasedUntil", v.running[k], OfStatus(R \ {p}, k, "running"))
    <3> SUFFICES ASSUME NEW k \in Types
                 PROVE  /\ Sorted(seqs, "scheduledAt", v.pending[k], OfStatus(R \ {p}, k, "pending"))
                        /\ Sorted(seqs, "leasedUntil", v.running[k], OfStatus(R \ {p}, k, "running"))
      OBVIOUS
    <3>1. /\ Sorted(v.seqs, "scheduledAt", v.pending[k], OfStatus(R \ {p}, k, "pending"))
          /\ Sorted(v.seqs, "leasedUntil", v.running[k], OfStatus(R \ {p}, k, "running"))
      BY <1>6 DEF Indexed
    <3>2. /\ SameOrder(v.seqs, seqs, OfStatus(R \ {p}, k, "pending"))
          /\ SameOrder(v.seqs, seqs, OfStatus(R \ {p}, k, "running"))
      BY <2>3, <2>4
    <3> QED
      BY <3>1, <3>2, SortedReordered
  <2>6. Sorted(seqs, "createdAt", v.roots, RootsOf(R \ {p}))
    <3>1. Sorted(v.seqs, "createdAt", v.roots, RootsOf(R \ {p}))
      BY <1>6 DEF Indexed
    <3>2. SameOrder(v.seqs, seqs, RootsOf(R \ {p}))
      BY <2>3, <2>4
    <3> QED
      BY <3>1, <3>2, SortedReordered
  <2> QED
    BY <1>6, <1>8, <1>9, <2>1, <2>2, <2>5, <2>6 DEF Indexed
<1>11. Agree(t)
  <2>1. Indexed(t, RowsIn(t.jobs))
    BY <1>4, <1>9, <1>10
  <2>2. /\ ToSet(t.seqs) = Present(t.jobs) /\ \A j \in Present(t.jobs) : t.jobs[j].id = j
    BY <1>1, <1>4, <1>8, <1>9
  <2>3. \A c \in JobIds : t.blockedBy[c] = {q \in JobIds : c \in t.blockers[q]}
    BY <1>1, <1>9
  <2> QED
    BY <1>9, <2>1, <2>2, <2>3 DEF Agree
<1>12. KeepsOrder(s, t)
  BY <1>1, <1>4, <1>8, <1>9 DEF KeepsOrder
<1> QED
  BY <1>2, <1>9, <1>11, <1>12 DEF jobs

-----------------------------------------------------------------------------
(* Entries and the tables they change.                                     *)

(* The two tables without their indices.                                   *)
Tables(s) == [jobs |-> s.jobs, blockers |-> s.blockers]

AllTables == [jobs : [JobIds -> Row \cup {NULL}], blockers : [JobIds -> SUBSET JobIds]]

(* An entry that can be written to the tables k, and what k is then.       *)
Fits(k, e) ==
  \/ e.kind = "job" /\ FitsJob(k.jobs, e.prev, e.next)
  \/ /\ e.kind = "blocker" /\ e.job \in JobIds /\ e.chain \in JobIds
     /\ e.prev = (e.chain \in k.blockers[e.job]) /\ e.next \in BOOLEAN

PutIn(B, c, present) == IF present THEN B \cup {c} ELSE B \ {c}

Applied(k, e) ==
  IF e.kind = "job" THEN [k EXCEPT !.jobs = [k.jobs EXCEPT ![IdOf(e.prev, e.next)] = e.next]]
  ELSE [k EXCEPT !.blockers = [k.blockers EXCEPT ![e.job] = PutIn(@, e.chain, e.next)]]

(* The entry that undoes e.                                                *)
Reversed(e) ==
  IF e.kind = "job" THEN JobEntry(e.next, e.prev)
  ELSE BlockerEntry(e.job, e.chain, e.next, e.prev)

(* Undoing an entry is writing the reversed entry.                         *)
LEMMA UndoWritesReversed ==
  ASSUME NEW s, NEW e, e.kind \in {"job", "blocker"}
  PROVE  Undo(s, e) = Write(s, Reversed(e))
  BY DEF Undo, Write, Reversed, JobEntry, BlockerEntry

(* The tables of a store whose indices agree.                              *)
LEMMA TablesOf ==
  ASSUME NEW s, Agree(s)
  PROVE  Tables(s) \in AllTables /\ Tables(s).jobs = s.jobs /\ Tables(s).blockers = s.blockers
  BY DEF Agree, Store, Tables, AllTables

(* A blocker entry keeps the two maps inverse.                             *)
LEMMA PutBlockerAgrees ==
  ASSUME NEW s, Agree(s), NEW q \in JobIds, NEW c \in JobIds, NEW present \in BOOLEAN
  PROVE  LET t == PutBlocker(s, q, c, present) IN
           /\ Agree(t) /\ KeepsOrder(s, t) /\ t.jobs = s.jobs
           /\ t.blockers = [s.blockers EXCEPT ![q] = PutIn(@, c, present)]
<1> DEFINE t == PutBlocker(s, q, c, present)
<1>1. /\ s \in Store /\ Indexed(s, RowsIn(s.jobs)) /\ ToSet(s.seqs) = Present(s.jobs)
      /\ s.blockers \in [JobIds -> SUBSET JobIds] /\ s.blockedBy \in [JobIds -> SUBSET JobIds]
      /\ \A j \in Present(s.jobs) : s.jobs[j].id = j
      /\ \A d \in JobIds : s.blockedBy[d] = {p \in JobIds : d \in s.blockers[p]}
  BY DEF Agree, Store
<1>2. t \in Store
  BY ZenonT(40), <1>1 DEF PutBlocker, Store
<1>3. /\ t.jobs = s.jobs /\ t.seqs = s.seqs /\ t.pending = s.pending
      /\ t.running = s.running /\ t.byChain = s.byChain
      /\ t.last = s.last /\ t.roots = s.roots /\ t.dedup = s.dedup
  BY <1>1 DEF PutBlocker, Store
<1>4. t.blockers = [s.blockers EXCEPT ![q] = PutIn(@, c, present)]
  BY <1>1 DEF PutBlocker, Store, PutIn
<1>5. t.blockedBy = [s.blockedBy EXCEPT ![c] = PutIn(@, q, present)]
  BY <1>1 DEF PutBlocker, Store, PutIn
<1> HIDE DEF t
<1>6. Indexed(t, RowsIn(t.jobs))
  BY <1>1, <1>3, IndexedSame
<1>7. ASSUME NEW d \in JobIds PROVE t.blockedBy[d] = {p \in JobIds : d \in t.blockers[p]}
  <2>1. \A p \in JobIds : d \in t.blockers[p] <=>
          IF p = q /\ d = c THEN present ELSE d \in s.blockers[p]
    BY <1>1, <1>4 DEF PutIn
  <2>2. t.blockedBy[d] \in SUBSET JobIds
        /\ \A p \in JobIds : p \in t.blockedBy[d] <=>
             IF p = q /\ d = c THEN present ELSE p \in s.blockedBy[d]
    BY <1>1, <1>5 DEF PutIn
  <2>3. \A p \in JobIds : p \in s.blockedBy[d] <=> d \in s.blockers[p]
    BY <1>1
  <2> QED
    BY <2>1, <2>2, <2>3
<1>8. Agree(t)
  BY <1>1, <1>2, <1>3, <1>6, <1>7 DEF Agree
<1>9. KeepsOrder(s, t)
  BY <1>3 DEF KeepsOrder
<1> QED
  BY <1>3, <1>4, <1>8, <1>9 DEF t

(* Writing an entry that fits keeps the indices true to the tables.        *)
LEMMA WriteAgrees ==
  ASSUME NEW s, Agree(s), NEW e, Fits(Tables(s), e)
  PROVE  /\ Agree(Write(s, e)) /\ KeepsOrder(s, Write(s, e))
         /\ Tables(Write(s, e)) = Applied(Tables(s), e)
<1> DEFINE t == Write(s, e)
           k == Tables(s)
<1>1. k \in AllTables /\ k.jobs = s.jobs /\ k.blockers = s.blockers
  BY TablesOf
<1>2. \A a, b : k.jobs = s.jobs /\ k.blockers = s.blockers =>
        /\ [k EXCEPT !.jobs = a] = [jobs |-> a, blockers |-> s.blockers]
        /\ [k EXCEPT !.blockers = b] = [jobs |-> s.jobs, blockers |-> b]
  BY DEF Tables
<1> HIDE DEF k
<1>3. CASE e.kind = "job"
  <2>1. t = Replace(s, e.prev, e.next) /\ FitsJob(s.jobs, e.prev, e.next)
    BY <1>1, <1>3 DEF Write, Fits, k
  <2> HIDE DEF t
  <2> SUFFICES /\ Agree(t) /\ KeepsOrder(s, t) /\ t.blockers = s.blockers
               /\ t.jobs = [s.jobs EXCEPT ![IdOf(e.prev, e.next)] = e.next]
    <3>1. Applied(k, e) = [k EXCEPT !.jobs = [k.jobs EXCEPT ![IdOf(e.prev, e.next)] = e.next]]
      BY <1>3 DEF Applied
    <3> QED
      BY <1>1, <1>2, <3>1 DEF Tables, t, k
  <2>2. CASE e.prev = NULL
    <3>1. /\ e.next \in Row /\ s.jobs[e.next.id] = NULL
          /\ \A r \in RowsIn(s.jobs) : ~(r.chain = e.next.chain /\ r.index = e.next.index)
      BY <2>1, <2>2, NullIsNoValue DEF FitsJob
    <3> QED
      BY <2>1, <2>2, <3>1, CreateAgrees DEF IdOf
  <2>3. CASE e.prev # NULL /\ e.next = NULL
    <3>1. e.prev \in Row /\ s.jobs[e.prev.id] = e.prev
      BY <2>1, <2>3 DEF FitsJob
    <3> QED
      BY <2>1, <2>3, <3>1, DeleteAgrees DEF IdOf
  <2>4. CASE e.prev # NULL /\ e.next # NULL
    <3>1. /\ e.prev \in Row /\ s.jobs[e.prev.id] = e.prev /\ e.next \in Row
          /\ e.next.id = e.prev.id /\ e.next.chain = e.prev.chain /\ e.next.index = e.prev.index
      BY <2>1, <2>4 DEF FitsJob
    <3> QED
      BY <2>1, <2>4, <3>1, UpdateAgrees DEF IdOf
  <2> QED
    BY <2>2, <2>3, <2>4
<1>4. CASE e.kind = "blocker"
  <2>1. /\ t = PutBlocker(s, e.job, e.chain, e.next) /\ e.job \in JobIds /\ e.chain \in JobIds
        /\ e.next \in BOOLEAN
    BY <1>4 DEF Write, Fits
  <2> HIDE DEF t
  <2>2. /\ Agree(t) /\ KeepsOrder(s, t) /\ t.jobs = s.jobs
        /\ t.blockers = [s.blockers EXCEPT ![e.job] = PutIn(@, e.chain, e.next)]
    BY <2>1, PutBlockerAgrees
  <2>3. Applied(k, e) =
          [k EXCEPT !.blockers = [k.blockers EXCEPT ![e.job] = PutIn(@, e.chain, e.next)]]
    BY <1>4 DEF Applied
  <2> QED
    BY <1>1, <1>2, <2>2, <2>3 DEF Tables, t, k
<1> QED
  BY <1>3, <1>4 DEF Fits

-----------------------------------------------------------------------------
(* Tables the program can have: ids and places are unique, the first job   *)
(* of a chain is its root, and a key has one root that is not completed.   *)

Open(r) == IsRoot(r) /\ r.key # NULL /\ r.status # "completed"

WellFormed(k) ==
  /\ k \in AllTables /\ (\A j \in Present(k.jobs) : k.jobs[j].id = j)
  /\ Proper(RowsIn(k.jobs))
  /\ \A r \in RowsIn(k.jobs) : IsRoot(r) <=> r.index = 0
  /\ \A a, b \in RowsIn(k.jobs) : Open(a) /\ Open(b) /\ a.key = b.key => a = b

(* What an entry has done, its reverse undoes.                             *)
LEMMA ReversedFits ==
  ASSUME NEW k, WellFormed(k), NEW e, Fits(k, e)
  PROVE  /\ Fits(Applied(k, e), Reversed(e))
         /\ Applied(Applied(k, e), Reversed(e)) = k
<1> DEFINE m == Applied(k, e)
           x == Reversed(e)
<1>1. /\ k \in AllTables /\ k.jobs \in [JobIds -> Row \cup {NULL}]
      /\ k.blockers \in [JobIds -> SUBSET JobIds]
      /\ k = [jobs |-> k.jobs, blockers |-> k.blockers]
      /\ (\A j \in Present(k.jobs) : k.jobs[j].id = j) /\ Proper(RowsIn(k.jobs))
  BY DEF WellFormed, AllTables
<1>2. CASE e.kind = "job"
  <2> DEFINE p == e.prev
             n == e.next
             id == IdOf(p, n)
  <2>1. /\ x.kind = "job" /\ x.prev = n /\ x.next = p
        /\ m = [k EXCEPT !.jobs = [k.jobs EXCEPT ![id] = n]] /\ FitsJob(k.jobs, p, n)
    BY <1>2 DEF Reversed, JobEntry, Applied, Fits
  <2>2. m.jobs = [k.jobs EXCEPT ![id] = n] /\ m.blockers = k.blockers
    BY <1>1, <2>1
  <2>3. Applied(m, x) = [m EXCEPT !.jobs = [m.jobs EXCEPT ![IdOf(n, p)] = p]]
    BY <2>1 DEF Applied
  <2>4. [m EXCEPT !.jobs = [m.jobs EXCEPT ![IdOf(n, p)] = p]]
          = [jobs |-> [m.jobs EXCEPT ![IdOf(n, p)] = p], blockers |-> k.blockers]
    <3> DEFINE a == [k.jobs EXCEPT ![id] = n]
               b == [m.jobs EXCEPT ![IdOf(n, p)] = p]
    <3>1. m = [jobs |-> a, blockers |-> k.blockers]
      BY <1>1, <2>1
    <3> HIDE DEF a, b, m
    <3> QED
      BY <3>1
  <2> HIDE DEF m, x
  <2> SUFFICES FitsJob(m.jobs, n, p) /\ [m.jobs EXCEPT ![IdOf(n, p)] = p] = k.jobs
    BY <1>1, <2>1, <2>3, <2>4 DEF Fits, m, x
  <2>5. NULL \notin Row /\ \A r \in Row : r.id \in JobIds
    BY NullIsNoValue DEF Row
  <2>6. CASE p = NULL
    <3>1. n \in Row /\ k.jobs[n.id] = NULL /\ id = n.id /\ IdOf(n, p) = n.id
      BY <2>1, <2>5, <2>6 DEF FitsJob, IdOf
    <3>2. m.jobs[n.id] = n
      BY <1>1, <2>2, <2>5, <3>1
    <3>3. [m.jobs EXCEPT ![n.id] = p] = k.jobs
      BY <1>1, <2>2, <2>5, <2>6, <3>1
    <3> QED
      BY <2>6, <3>1, <3>2, <3>3 DEF FitsJob
  <2>7. CASE p # NULL /\ n = NULL
    <3>1. p \in Row /\ k.jobs[p.id] = p /\ id = p.id /\ IdOf(n, p) = p.id
      BY <2>1, <2>5, <2>7 DEF FitsJob, IdOf
    <3>2. m.jobs[p.id] = NULL
      BY <1>1, <2>2, <2>5, <2>7, <3>1
    <3>3. [m.jobs EXCEPT ![p.id] = p] = k.jobs
      BY <1>1, <2>2, <2>5, <3>1
    <3>4. \A r : r \in RowsIn(m.jobs) <=> r \in RowsIn(k.jobs) /\ r # k.jobs[p.id]
      <4>1. m.jobs = [k.jobs EXCEPT ![p.id] = NULL]
        BY <2>2, <2>7, <3>1
      <4> QED
        BY <1>1, <2>5, <3>1, <4>1, RowsGone
    <3>5. p \in RowsIn(k.jobs)
      BY <2>5, <3>1, <2>7 DEF RowsIn, Present
    <3>6. \A r \in RowsIn(m.jobs) : ~(r.chain = p.chain /\ r.index = p.index)
      BY <1>1, <3>1, <3>4, <3>5 DEF Proper
    <3> QED
      BY <2>7, <3>1, <3>2, <3>3, <3>6 DEF FitsJob
  <2>8. CASE p # NULL /\ n # NULL
    <3>1. /\ p \in Row /\ k.jobs[p.id] = p /\ n \in Row /\ n.id = p.id
          /\ n.chain = p.chain /\ n.index = p.index /\ id = p.id /\ IdOf(n, p) = p.id
      BY <2>1, <2>8 DEF FitsJob, IdOf
    <3>2. m.jobs[n.id] = n
      BY <1>1, <2>2, <2>5, <3>1
    <3>3. [m.jobs EXCEPT ![p.id] = p] = k.jobs
      BY <1>1, <2>2, <2>5, <3>1
    <3> QED
      BY <3>1, <3>2, <3>3 DEF FitsJob
  <2> QED
    BY <2>6, <2>7, <2>8
<1>3. CASE e.kind = "blocker"
  <2> DEFINE q == e.job
             c == e.chain
  <2>1. /\ x.kind = "blocker" /\ x.job = q /\ x.chain = c /\ x.prev = e.next /\ x.next = e.prev
        /\ m = [k EXCEPT !.blockers = [k.blockers EXCEPT ![q] = PutIn(@, c, e.next)]]
        /\ q \in JobIds /\ c \in JobIds /\ e.prev = (c \in k.blockers[q]) /\ e.next \in BOOLEAN
    BY <1>3 DEF Reversed, BlockerEntry, Applied, Fits
  <2>2. m.jobs = k.jobs /\ m.blockers = [k.blockers EXCEPT ![q] = PutIn(@, c, e.next)]
    BY <1>1, <2>1
  <2>3. Applied(m, x) = [m EXCEPT !.blockers = [m.blockers EXCEPT ![q] = PutIn(@, c, e.prev)]]
    BY <2>1 DEF Applied
  <2>4. [m EXCEPT !.blockers = [m.blockers EXCEPT ![q] = PutIn(@, c, e.prev)]]
          = [jobs |-> k.jobs, blockers |-> [m.blockers EXCEPT ![q] = PutIn(@, c, e.prev)]]
    <3> DEFINE a == [k.blockers EXCEPT ![q] = PutIn(@, c, e.next)]
               b == [m.blockers EXCEPT ![q] = PutIn(@, c, e.prev)]
    <3>1. m = [jobs |-> k.jobs, blockers |-> a]
      BY <1>1, <2>1
    <3> HIDE DEF a, b, m
    <3> QED
      BY <3>1
  <2> HIDE DEF m, x
  <2>5. PutIn(PutIn(k.blockers[q], c, e.next), c, e.prev) = k.blockers[q]
    BY <2>1 DEF PutIn
  <2>6. m.blockers[q] = PutIn(k.blockers[q], c, e.next)
    BY <1>1, <2>1, <2>2
  <2>7. [m.blockers EXCEPT ![q] = PutIn(@, c, e.prev)] = k.blockers
    BY <1>1, <2>1, <2>2, <2>5, <2>6
  <2>8. x.prev = (c \in m.blockers[q])
    BY <2>1, <2>6 DEF PutIn
  <2>9. Fits(m, x)
    BY <2>1, <2>8 DEF Fits
  <2> QED
    BY <1>1, <2>3, <2>4, <2>7, <2>9 DEF m, x
<1> QED
  BY <1>2, <1>3 DEF Fits

-----------------------------------------------------------------------------
(* Sequences of entries.                                                   *)

Entries ==
  [kind : {"job"}, prev : Row \cup {NULL}, next : Row \cup {NULL}]
  \cup [kind : {"blocker"}, job : JobIds, chain : JobIds, prev : BOOLEAN, next : BOOLEAN]

(* p[n] is what the tables are after the first n entries.                  *)
Path(p, es) ==
  /\ \A n \in 0 .. Len(es) : WellFormed(p[n])
  /\ \A n \in 1 .. Len(es) : Fits(p[n - 1], es[n]) /\ p[n] = Applied(p[n - 1], es[n])

(* Written, round by round.                                                *)
Writes(f, s, es) ==
  f = [n \in 0 .. Len(es) |-> IF n = 0 THEN s ELSE Write(f[n - 1], es[n])]

(* The stores on the way of a sequence of writes exist.                    *)
LEMMA WritesExist ==
  ASSUME NEW s, NEW es, Len(es) \in Nat
  PROVE  \E f : Writes(f, s, es)
<1> DEFINE R(f, n) == f = [i \in 0 .. n |-> IF i = 0 THEN s ELSE Write(f[i - 1], es[i])]
           T == {n \in Nat : ~ \E f : R(f, n)}
<1>1. T = {}
  <2> SUFFICES ASSUME T # {} PROVE FALSE
    OBVIOUS
  <2>1. PICK n \in T : \A m \in T : n <= m
    <3>1. T \in SUBSET Nat
      OBVIOUS
    <3> HIDE DEF T
    <3> QED
      BY <3>1, LeastElement
  <2>2. CASE n = 0
    <3>1. R([i \in 0 .. 0 |-> s], 0)
      OBVIOUS
    <3> QED
      BY <2>1, <2>2, <3>1
  <2>3. CASE n # 0
    <3>1. n - 1 \in Nat /\ n - 1 \notin T
      BY <2>1, <2>3
    <3>2. PICK f : R(f, n - 1)
      BY <3>1
    <3> DEFINE g == [i \in 0 .. n |-> IF i = n THEN Write(f[n - 1], es[n]) ELSE f[i]]
    <3>3. R(g, n)
      BY <2>1, <2>3, <3>2
    <3> QED
      BY <2>1, <3>3
  <2> QED
    BY <2>2, <2>3
<1>2. PICK f : R(f, Len(es))
  BY <1>1
<1> QED
  BY <1>2 DEF Writes

(* Written is where the writes arrive.                                     *)
LEMMA WrittenRounds ==
  ASSUME NEW s, NEW es, Len(es) \in Nat
  PROVE  \E f : Writes(f, s, es) /\ Written(s, es) = f[Len(es)]
<1> DEFINE f == CHOOSE f : Writes(f, s, es)
<1>1. Writes(f, s, es)
  BY WritesExist
<1>2. Written(s, es) = f[Len(es)]
  BY DEF Written, Writes
<1> QED
  BY <1>1, <1>2

(* Each write keeps the indices true, and the order of jobs that are there *)
(* all the time.                                                           *)
LEMMA PathWritten ==
  ASSUME NEW s, Agree(s), NEW es, Len(es) \in Nat, NEW p, Path(p, es), p[0] = Tables(s),
         NEW f, Writes(f, s, es)
  PROVE  \A n \in 0 .. Len(es) :
           /\ Agree(f[n]) /\ Tables(f[n]) = p[n]
           /\ \A a, b \in JobIds :
                (\A m \in 0 .. n : {a, b} \subseteq Present(p[m].jobs)) =>
                  (Seq0(s.seqs, a) < Seq0(s.seqs, b) <=> Seq0(f[n].seqs, a) < Seq0(f[n].seqs, b))
<1> DEFINE N == Len(es)
           Kept(n) == \A a, b \in JobIds :
                (\A m \in 0 .. n : {a, b} \subseteq Present(p[m].jobs)) =>
                  (Seq0(s.seqs, a) < Seq0(s.seqs, b) <=> Seq0(f[n].seqs, a) < Seq0(f[n].seqs, b))
           T == {n \in 0 .. N : ~(Agree(f[n]) /\ Tables(f[n]) = p[n] /\ Kept(n))}
<1> SUFFICES ASSUME T # {} PROVE FALSE
  OBVIOUS
<1>1. PICK n \in T : \A m \in T : n <= m
  <2>1. T \in SUBSET Nat
    OBVIOUS
  <2> HIDE DEF T
  <2> QED
    BY <2>1, LeastElement
<1>2. n \in 0 .. N /\ ~(Agree(f[n]) /\ Tables(f[n]) = p[n] /\ Kept(n))
  BY <1>1
<1>3. CASE n = 0
  <2>1. f[0] = s
    BY DEF Writes
  <2> QED
    BY <1>2, <1>3, <2>1
<1>4. CASE n # 0
  <2>1. n - 1 \in 0 .. N /\ n \in 1 .. N /\ n - 1 \notin T
    BY <1>1, <1>2, <1>4
  <2>2. Agree(f[n - 1]) /\ Tables(f[n - 1]) = p[n - 1] /\ Kept(n - 1)
    BY <2>1
  <2>3. f[n] = Write(f[n - 1], es[n])
    BY <1>2, <1>4 DEF Writes
  <2>4. Fits(p[n - 1], es[n]) /\ p[n] = Applied(p[n - 1], es[n])
    BY <2>1 DEF Path
  <2>5. /\ Agree(f[n]) /\ KeepsOrder(f[n - 1], f[n]) /\ Tables(f[n]) = p[n]
    BY <2>2, <2>3, <2>4, WriteAgrees
  <2>6. f[n - 1].jobs = p[n - 1].jobs /\ f[n].jobs = p[n].jobs
    BY <2>2, <2>5, TablesOf
  <2>7. Kept(n)
    <3> SUFFICES ASSUME NEW a \in JobIds, NEW b \in JobIds,
                        \A m \in 0 .. n : {a, b} \subseteq Present(p[m].jobs)
                 PROVE  Seq0(s.seqs, a) < Seq0(s.seqs, b) <=> Seq0(f[n].seqs, a) < Seq0(f[n].seqs, b)
      OBVIOUS
    <3>1. \A m \in 0 .. n - 1 : {a, b} \subseteq Present(p[m].jobs)
      BY <2>1
    <3>2. Seq0(s.seqs, a) < Seq0(s.seqs, b) <=> Seq0(f[n - 1].seqs, a) < Seq0(f[n - 1].seqs, b)
      BY <2>2, <3>1
    <3>3. /\ a \in Present(f[n - 1].jobs) \cap Present(f[n].jobs)
          /\ b \in Present(f[n - 1].jobs) \cap Present(f[n].jobs)
      BY <2>1, <2>6
    <3> QED
      BY <2>5, <3>2, <3>3 DEF KeepsOrder
  <2> QED
    BY <1>2, <2>5, <2>7
<1> QED
  BY <1>3, <1>4

(* The order of the jobs that all tables of a path have.                   *)
SameAlong(p, N, seqs, seqs2) ==
  \A a, b \in JobIds :
    (\A m \in 0 .. N : {a, b} \subseteq Present(p[m].jobs)) =>
      (Seq0(seqs, a) < Seq0(seqs, b) <=> Seq0(seqs2, a) < Seq0(seqs2, b))

(* Writing the entries of a path follows the path and keeps agreement.     *)
LEMMA WrittenAgrees ==
  ASSUME NEW s, Agree(s), NEW es, Len(es) \in Nat, NEW p, Path(p, es), p[0] = Tables(s)
  PROVE  /\ Agree(Written(s, es)) /\ Tables(Written(s, es)) = p[Len(es)]
         /\ SameAlong(p, Len(es), s.seqs, Written(s, es).seqs)
<1>1. PICK f : Writes(f, s, es) /\ Written(s, es) = f[Len(es)]
  BY WrittenRounds
<1>2. Len(es) \in 0 .. Len(es)
  OBVIOUS
<1> QED
  BY <1>1, <1>2, PathWritten DEF SameAlong

(* The journal backwards.                                                  *)
Undone(target) ==
  [n \in 1 .. Len(journal) - target |-> Reversed(journal[Len(journal) + 1 - n])]

(* The entries undone, the latest first, lead the same path back.          *)
LEMMA UndonePath ==
  ASSUME NEW p, Path(p, journal), NEW target \in 0 .. Len(journal), Len(journal) \in Nat
  PROVE  /\ Len(Undone(target)) = Len(journal) - target
         /\ Path([n \in 0 .. Len(journal) - target |-> p[Len(journal) - n]], Undone(target))
<1> DEFINE L == Len(journal)
           N == L - target
           es == Undone(target)
           q == [n \in 0 .. N |-> p[L - n]]
<1>1. L \in Nat /\ N \in Nat /\ target \in Nat /\ Len(es) = N
  BY DEF Undone
<1>2. \A n \in 1 .. N : es[n] = Reversed(journal[L + 1 - n])
  BY DEF Undone
<1>3. \A n \in 0 .. N : q[n] = p[L - n] /\ L - n \in 0 .. L
  BY <1>1
<1> HIDE DEF es, q
<1>4. \A n \in 0 .. N : WellFormed(q[n])
  BY <1>3 DEF Path
<1>5. ASSUME NEW n \in 1 .. N
      PROVE  Fits(q[n - 1], es[n]) /\ q[n] = Applied(q[n - 1], es[n])
  <2> DEFINE i == L + 1 - n
  <2>1. i \in 1 .. L /\ i - 1 \in 0 .. L /\ i - 1 = L - n /\ i = L - (n - 1)
        /\ n \in 0 .. N /\ n - 1 \in 0 .. N
    BY <1>1
  <2>2. q[n - 1] = p[i] /\ q[n] = p[i - 1] /\ es[n] = Reversed(journal[i])
    BY <1>2, <1>3, <2>1
  <2> HIDE DEF i
  <2>3. WellFormed(p[i - 1]) /\ Fits(p[i - 1], journal[i]) /\ p[i] = Applied(p[i - 1], journal[i])
    BY <2>1 DEF Path
  <2> QED
    BY <2>2, <2>3, ReversedFits
<1>6. Path(q, es)
  BY <1>1, <1>4, <1>5 DEF Path
<1> QED
  BY <1>1, <1>6 DEF es, q

(* rollbackTo writes the entries undone.                                   *)
LEMMA RolledBackIsWritten ==
  ASSUME NEW target \in 0 .. Len(journal), Len(journal) \in Nat,
         \A i \in 1 .. Len(journal) : journal[i].kind \in {"job", "blocker"}
  PROVE  \E f : /\ Writes(f, ix, Undone(target))
                /\ RolledBackTo(target) = f[Len(Undone(target))]
<1> DEFINE L == Len(journal)
           N == L - target
           es == Undone(target)
           U(f) == f = [n \in 0 .. N |-> IF n = 0 THEN ix ELSE Undo(f[n - 1], journal[L + 1 - n])]
<1>1. N \in Nat /\ Len(es) = N /\ \A n \in 1 .. N : es[n] = Reversed(journal[L + 1 - n])
  BY DEF Undone
<1>2. \A x : \A n \in 1 .. N : Undo(x, journal[L + 1 - n]) = Write(x, es[n])
  <2> SUFFICES ASSUME NEW n \in 1 .. N, NEW x
               PROVE  Undo(x, journal[L + 1 - n]) = Write(x, es[n])
    OBVIOUS
  <2>1. L + 1 - n \in 1 .. L
    BY <1>1
  <2> QED
    BY SMTT(40), <1>1, <2>1, UndoWritesReversed
<1> HIDE DEF es
<1>3. \A f : U(f) <=> Writes(f, ix, es)
  <2>1. \A f : [n \in 0 .. N |-> IF n = 0 THEN ix ELSE Undo(f[n - 1], journal[L + 1 - n])]
             = [n \in 0 .. N |-> IF n = 0 THEN ix ELSE Write(f[n - 1], es[n])]
    <3> SUFFICES ASSUME NEW f, NEW n \in 0 .. N, n # 0
                 PROVE  Undo(f[n - 1], journal[L + 1 - n]) = Write(f[n - 1], es[n])
      OBVIOUS
    <3>1. n \in 1 .. N
      BY <1>1
    <3> QED
      BY <1>2, <3>1
  <2> QED
    BY <1>1, <2>1 DEF Writes
<1> DEFINE g == CHOOSE f : U(f)
<1>4. U(g)
  BY <1>1, <1>3, WritesExist
<1>5. RolledBackTo(target) = g[N]
  BY DEF RolledBackTo
<1> HIDE DEF g, U
<1> QED
  BY <1>1, <1>3, <1>4, <1>5 DEF es

(* A rollback finds the indices true to the tables at its target.          *)
LEMMA RollbackAgrees ==
  ASSUME NEW target \in 0 .. Len(journal), Len(journal) \in Nat,
         \A i \in 1 .. Len(journal) : journal[i].kind \in {"job", "blocker"},
         Agree(ix), NEW p, Path(p, journal), p[Len(journal)] = Tables(ix)
  PROVE  /\ Agree(RolledBackTo(target)) /\ Tables(RolledBackTo(target)) = p[target]
         /\ \A a, b \in JobIds :
              (\A m \in target .. Len(journal) : {a, b} \subseteq Present(p[m].jobs)) =>
                (Seq0(ix.seqs, a) < Seq0(ix.seqs, b) <=>
                   Seq0(RolledBackTo(target).seqs, a) < Seq0(RolledBackTo(target).seqs, b))
<1> DEFINE L == Len(journal)
           N == L - target
           es == Undone(target)
           q == [n \in 0 .. N |-> p[L - n]]
<1>1. Len(es) = N /\ Path(q, es) /\ N \in Nat
  BY UndonePath
<1>2. PICK f : Writes(f, ix, es) /\ RolledBackTo(target) = f[Len(es)]
  BY RolledBackIsWritten
<1>3. q[0] = Tables(ix) /\ q[N] = p[target] /\ \A n \in 0 .. N : q[n] = p[L - n]
  BY <1>1
<1> HIDE DEF es, q
<1>4. /\ Agree(f[N]) /\ Tables(f[N]) = q[N]
      /\ \A a, b \in JobIds :
           (\A m \in 0 .. N : {a, b} \subseteq Present(q[m].jobs)) =>
             (Seq0(ix.seqs, a) < Seq0(ix.seqs, b) <=> Seq0(f[N].seqs, a) < Seq0(f[N].seqs, b))
  <2>1. N \in 0 .. Len(es) /\ Len(es) \in Nat
    BY <1>1
  <2> QED
    BY <1>1, <1>2, <1>3, <2>1, PathWritten
<1>5. ASSUME NEW a \in JobIds, NEW b \in JobIds,
             \A m \in target .. L : {a, b} \subseteq Present(p[m].jobs)
      PROVE  \A m \in 0 .. N : {a, b} \subseteq Present(q[m].jobs)
  <2> SUFFICES ASSUME NEW m \in 0 .. N PROVE {a, b} \subseteq Present(q[m].jobs)
    OBVIOUS
  <2>1. L - m \in target .. L
    BY <1>1
  <2> QED
    BY <1>3, <1>5, <2>1
<1> QED
  BY <1>1, <1>2, <1>3, <1>4, <1>5

(* A path continues where the one before it ends.                          *)
LEMMA PathConcat ==
  ASSUME NEW es1 \in Seq(Entries), NEW es2 \in Seq(Entries), NEW p, Path(p, es1),
         NEW q, Path(q, es2), q[0] = p[Len(es1)]
  PROVE  \E r : /\ Path(r, es1 \o es2)
                /\ \A n \in 0 .. Len(es1) : r[n] = p[n]
                /\ \A n \in 0 .. Len(es2) : r[Len(es1) + n] = q[n]
<1> DEFINE L1 == Len(es1)
           L2 == Len(es2)
           es == es1 \o es2
           r == [n \in 0 .. L1 + L2 |-> IF n <= L1 THEN p[n] ELSE q[n - L1]]
<1>1. /\ L1 \in Nat /\ L2 \in Nat /\ Len(es) = L1 + L2
      /\ \A i \in 1 .. L1 + L2 : es[i] = IF i <= L1 THEN es1[i] ELSE es2[i - L1]
  BY LenProperties, ConcatProperties
<1>2. \A n \in 0 .. L1 : r[n] = p[n]
  BY <1>1
<1>3. \A n \in 0 .. L2 : r[L1 + n] = q[n]
  <2> SUFFICES ASSUME NEW n \in 0 .. L2 PROVE r[L1 + n] = q[n]
    OBVIOUS
  <2>1. CASE n = 0
    <3>1. L1 + n = L1 /\ L1 \in 0 .. L1
      BY <1>1, <2>1
    <3> QED
      BY <1>2, <2>1, <3>1
  <2>2. CASE n # 0
    <3>1. L1 + n \in 0 .. L1 + L2 /\ ~(L1 + n <= L1) /\ (L1 + n) - L1 = n
      BY <1>1, <2>2
    <3> QED
      BY <3>1
  <2> QED
    BY <2>1, <2>2
<1> HIDE DEF r, es
<1>4. \A n \in 0 .. L1 + L2 : WellFormed(r[n])
  <2> SUFFICES ASSUME NEW n \in 0 .. L1 + L2 PROVE WellFormed(r[n])
    OBVIOUS
  <2>1. CASE n <= L1
    <3>1. n \in 0 .. L1
      BY <1>1, <2>1
    <3> QED
      BY <1>2, <3>1 DEF Path
  <2>2. CASE ~(n <= L1)
    <3>1. n - L1 \in 0 .. L2 /\ L1 + (n - L1) = n
      BY SMT, <1>1, <2>2
    <3>2. r[n] = q[n - L1]
      BY <1>3, <3>1
    <3> QED
      BY <3>1, <3>2 DEF Path
  <2> QED
    BY <2>1, <2>2
<1>5. ASSUME NEW n \in 1 .. L1 + L2
      PROVE  Fits(r[n - 1], es[n]) /\ r[n] = Applied(r[n - 1], es[n])
  <2>1. CASE n <= L1
    <3>1. n \in 1 .. L1 /\ n \in 0 .. L1 /\ n - 1 \in 0 .. L1
      BY <1>1, <2>1
    <3>2. r[n] = p[n] /\ r[n - 1] = p[n - 1] /\ es[n] = es1[n]
      BY <1>1, <1>2, <2>1, <3>1
    <3> QED
      BY <3>1, <3>2 DEF Path
  <2>2. CASE ~(n <= L1)
    <3> DEFINE i == n - L1
    <3>1. i \in 1 .. L2 /\ i \in 0 .. L2 /\ i - 1 \in 0 .. L2 /\ L1 + i = n /\ L1 + (i - 1) = n - 1
      BY <1>1, <2>2
    <3>2. r[n] = q[i] /\ r[n - 1] = q[i - 1]
      BY <1>3, <3>1
    <3>3. es[n] = es2[i]
      BY <1>1, <2>2
    <3> HIDE DEF i
    <3> QED
      BY <3>1, <3>2, <3>3 DEF Path
  <2> QED
    BY <2>1, <2>2
<1>6. Path(r, es)
  BY <1>1, <1>4, <1>5 DEF Path
<1> QED
  BY <1>2, <1>3, <1>6 DEF es

(* es makes m of k, and no job that both have is missing in between.       *)
Leads(k, es, m) ==
  \E p : /\ Path(p, es) /\ p[0] = k /\ p[Len(es)] = m
         /\ \A n \in 0 .. Len(es) : Present(k.jobs) \cap Present(m.jobs) \subseteq Present(p[n].jobs)

(* The same of what entries lead to.                                       *)
LEMMA LeadsConcat ==
  ASSUME NEW es1 \in Seq(Entries), NEW es2 \in Seq(Entries), NEW k, NEW l, NEW m,
         Leads(k, es1, l), Leads(l, es2, m),
         Present(k.jobs) \cap Present(m.jobs) \subseteq Present(l.jobs)
  PROVE  Leads(k, es1 \o es2, m)
<1> DEFINE L1 == Len(es1)
           L2 == Len(es2)
<1>1. L1 \in Nat /\ L2 \in Nat /\ Len(es1 \o es2) = L1 + L2
  BY LenProperties, ConcatProperties
<1>2. PICK p : /\ Path(p, es1) /\ p[0] = k /\ p[L1] = l
               /\ \A n \in 0 .. L1 :
                    Present(k.jobs) \cap Present(l.jobs) \subseteq Present(p[n].jobs)
  BY DEF Leads
<1>3. PICK q : /\ Path(q, es2) /\ q[0] = l /\ q[L2] = m
               /\ \A n \in 0 .. L2 :
                    Present(l.jobs) \cap Present(m.jobs) \subseteq Present(q[n].jobs)
  BY DEF Leads
<1>4. PICK r : /\ Path(r, es1 \o es2)
               /\ \A n \in 0 .. L1 : r[n] = p[n]
               /\ \A n \in 0 .. L2 : r[L1 + n] = q[n]
  BY <1>2, <1>3, PathConcat
<1>5. r[0] = k /\ r[L1 + L2] = m
  BY <1>1, <1>2, <1>3, <1>4
<1>6. ASSUME NEW n \in 0 .. L1 + L2
      PROVE  Present(k.jobs) \cap Present(m.jobs) \subseteq Present(r[n].jobs)
  <2>1. CASE n <= L1
    <3>1. n \in 0 .. L1
      BY <1>1, <2>1
    <3> QED
      BY <1>2, <1>4, <3>1
  <2>2. CASE ~(n <= L1)
    <3>1. n - L1 \in 0 .. L2 /\ L1 + (n - L1) = n
      BY <1>1, <2>2
    <3>2. r[n] = q[n - L1]
      BY <1>4, <3>1
    <3> QED
      BY <1>3, <3>1, <3>2
  <2> QED
    BY <2>1, <2>2
<1> QED
  BY <1>1, <1>4, <1>5, <1>6 DEF Leads

(* No entries lead nowhere else.                                           *)
LEMMA LeadsNowhere ==
  ASSUME NEW k, WellFormed(k)
  PROVE  Leads(k, <<>>, k)
<1> DEFINE p == [n \in 0 .. 0 |-> k]
<1>1. Len(<<>>) = 0 /\ p[0] = k
  OBVIOUS
<1> HIDE DEF p
<1>2. Path(p, <<>>)
  BY <1>1 DEF Path
<1> QED
  BY <1>1, <1>2 DEF Leads

(* One entry that fits leads to what it makes of the tables.               *)
LEMMA LeadsOnce ==
  ASSUME NEW k, WellFormed(k), NEW e, Fits(k, e), WellFormed(Applied(k, e))
  PROVE  Leads(k, <<e>>, Applied(k, e))
<1> DEFINE p == [n \in 0 .. 1 |-> IF n = 0 THEN k ELSE Applied(k, e)]
<1>1. Len(<<e>>) = 1 /\ <<e>>[1] = e /\ p[0] = k /\ p[1] = Applied(k, e)
  OBVIOUS
<1> HIDE DEF p
<1>2. Path(p, <<e>>)
  BY <1>1 DEF Path
<1> QED
  BY <1>1, <1>2 DEF Leads

(* SetToSeq lists each element of a finite set once.                       *)
LEMMA SeqOfSet ==
  ASSUME NEW S, IsFiniteSet(S)
  PROVE  /\ SetToSeq(S) \in Seq(S) /\ Len(SetToSeq(S)) \in Nat
         /\ DOMAIN SetToSeq(S) = 1 .. Len(SetToSeq(S))
         /\ Distinct(SetToSeq(S))
         /\ \A i \in 1 .. Len(SetToSeq(S)) : SetToSeq(S)[i] \in S
         /\ \A x \in S : \E i \in 1 .. Len(SetToSeq(S)) : SetToSeq(S)[i] = x
<1> DEFINE N == Cardinality(S)
           f == SetToSeq(S)
<1>1. N \in Nat /\ ExistsBijection(1 .. N, S)
  BY FS_CardinalityType
<1>2. PICK g : g \in Bijection(1 .. N, S)
  BY <1>1 DEF ExistsBijection
<1>3. g \in [1 .. N -> S] /\ IsInjective(g)
  BY <1>2 DEF Bijection, Injection
<1>4. f \in [1 .. N -> S] /\ IsInjective(f)
  BY <1>3 DEF SetToSeq
<1> HIDE DEF f
<1>5. f \in Seq(S) /\ Len(f) = N /\ DOMAIN f = 1 .. N
  <2> HIDE DEF N
  <2> QED
    BY <1>1, <1>4, SeqDef
<1>6. f \in Injection(1 .. N, S) /\ IsFiniteSet(1 .. N) /\ Cardinality(1 .. N) = N
  <2> HIDE DEF N
  <2>1. IsFiniteSet(1 .. N) /\ Cardinality(1 .. N) = IF 1 > N THEN 0 ELSE N - 1 + 1
    BY <1>1, FS_Interval
  <2> QED
    BY <1>1, <1>4, <2>1 DEF Injection
<1>7. f \in Surjection(1 .. N, S)
  BY <1>6, FS_Injection
<1> QED
  BY <1>1, <1>4, <1>5, <1>7 DEF f, Distinct, IsInjective, Surjection

-----------------------------------------------------------------------------
(* What the operations do to the tables.                                   *)

(* A new version of a row: at its place, with its key, and not taking back *)
(* a completion.                                                           *)
Revises(a, b) ==
  /\ a \in Row /\ b \in Row /\ b.id = a.id /\ b.chain = a.chain /\ b.index = a.index
  /\ b.key = a.key /\ (a.status = "completed" => b.status = "completed")

(* Every chain has its root.                                               *)
Rooted(k) ==
  \A j \in Present(k.jobs) :
    LET c == k.jobs[j].chain IN c \in Present(k.jobs) /\ k.jobs[c].chain = c

(* The indexes of a chain leave none out.                                  *)
Unbroken(k) ==
  \A j \in Present(k.jobs) : \A i \in 0 .. k.jobs[j].index :
    \E h \in Present(k.jobs) : k.jobs[h].chain = k.jobs[j].chain /\ k.jobs[h].index = i

(* Only a root has a key.                                                  *)
KeyedRoots(k) == \A j \in Present(k.jobs) : k.jobs[j].key # NULL => k.jobs[j].chain = j

Whole(k) == Rooted(k) /\ Unbroken(k) /\ KeyedRoots(k)

(* Tables whose rows are revised stay well formed.                         *)
LEMMA RevisedRows ==
  ASSUME NEW k, WellFormed(k), NEW m \in AllTables,
         \A j \in JobIds : m.jobs[j] = k.jobs[j] \/ Revises(k.jobs[j], m.jobs[j])
  PROVE  /\ WellFormed(m) /\ Present(m.jobs) = Present(k.jobs)
         /\ Whole(k) => Whole(m)
<1>1. /\ k.jobs \in [JobIds -> Row \cup {NULL}] /\ m.jobs \in [JobIds -> Row \cup {NULL}]
      /\ (\A j \in Present(k.jobs) : k.jobs[j].id = j) /\ Proper(RowsIn(k.jobs))
      /\ (\A r \in RowsIn(k.jobs) : IsRoot(r) <=> r.index = 0)
      /\ \A a, b \in RowsIn(k.jobs) : Open(a) /\ Open(b) /\ a.key = b.key => a = b
  BY DEF WellFormed, AllTables
<1>2. NULL \notin Row
  BY NullIsNoValue
<1>3. Present(m.jobs) = Present(k.jobs)
  BY <1>1, <1>2 DEF Present, Revises
<1>4. \A j \in Present(k.jobs) :
        /\ j \in JobIds /\ k.jobs[j] \in Row /\ m.jobs[j] \in Row /\ k.jobs[j] \in RowsIn(k.jobs)
        /\ k.jobs[j].id = j /\ m.jobs[j].id = j
        /\ m.jobs[j].chain = k.jobs[j].chain
        /\ m.jobs[j].index = k.jobs[j].index /\ m.jobs[j].key = k.jobs[j].key
        /\ k.jobs[j].status = "completed" => m.jobs[j].status = "completed"
  BY <1>1, <1>2 DEF Present, RowsIn, Revises
<1>5. \A r \in RowsIn(m.jobs) : \E j \in Present(k.jobs) : r = m.jobs[j]
  BY <1>3 DEF RowsIn
<1>6. Proper(RowsIn(m.jobs))
  <2>1. RowsIn(m.jobs) \subseteq Row
    BY <1>4, <1>5
  <2>2. ASSUME NEW a \in RowsIn(m.jobs), NEW b \in RowsIn(m.jobs),
               a.id = b.id \/ (a.chain = b.chain /\ a.index = b.index)
        PROVE  a = b
    <3>1. PICK i \in Present(k.jobs) : a = m.jobs[i]
      BY <1>5
    <3>2. PICK j \in Present(k.jobs) : b = m.jobs[j]
      BY <1>5
    <3>3. k.jobs[i] = k.jobs[j]
      BY <1>1, <1>4, <2>2, <3>1, <3>2 DEF Proper
    <3> QED
      BY <1>4, <3>1, <3>2, <3>3
  <2> QED
    BY <2>1, <2>2 DEF Proper
<1>7. \A r \in RowsIn(m.jobs) : IsRoot(r) <=> r.index = 0
  BY <1>1, <1>4, <1>5 DEF IsRoot
<1>8. ASSUME NEW a \in RowsIn(m.jobs), NEW b \in RowsIn(m.jobs), Open(a), Open(b), a.key = b.key
      PROVE  a = b
  <2>1. PICK i \in Present(k.jobs) : a = m.jobs[i]
    BY <1>5
  <2>2. PICK j \in Present(k.jobs) : b = m.jobs[j]
    BY <1>5
  <2>3. Open(k.jobs[i]) /\ Open(k.jobs[j]) /\ k.jobs[i].key = k.jobs[j].key
    BY <1>4, <1>8, <2>1, <2>2 DEF Open, IsRoot
  <2>4. k.jobs[i] = k.jobs[j]
    BY <1>1, <1>4, <2>3
  <2> QED
    BY <1>4, <2>1, <2>2, <2>4
<1>9. \A j \in Present(m.jobs) : m.jobs[j].id = j
  BY <1>3, <1>4
<1>10. Whole(k) => Whole(m)
  <2> SUFFICES ASSUME Whole(k) PROVE Rooted(m) /\ Unbroken(m) /\ KeyedRoots(m)
    BY DEF Whole
  <2>1. Rooted(m)
    BY <1>3, <1>4 DEF Rooted, Whole
  <2>2. Unbroken(m)
    <3> SUFFICES ASSUME NEW j \in Present(m.jobs), NEW i \in 0 .. m.jobs[j].index
                 PROVE  \E h \in Present(m.jobs) :
                          m.jobs[h].chain = m.jobs[j].chain /\ m.jobs[h].index = i
      BY DEF Unbroken
    <3>1. j \in Present(k.jobs) /\ i \in 0 .. k.jobs[j].index
      BY <1>3, <1>4
    <3>2. PICK h \in Present(k.jobs) :
            k.jobs[h].chain = k.jobs[j].chain /\ k.jobs[h].index = i
      BY <3>1 DEF Whole, Unbroken
    <3> QED
      BY <1>3, <1>4, <3>1, <3>2
  <2>3. KeyedRoots(m)
    BY <1>3, <1>4 DEF KeyedRoots, Whole
  <2> QED
    BY <2>1, <2>2, <2>3
<1> QED
  BY <1>3, <1>6, <1>7, <1>8, <1>9, <1>10 DEF WellFormed

(* A batch of updates, one of each job.                                    *)
LEMMA UpdatesLead ==
  ASSUME NEW k, WellFormed(k), NEW ids \in Seq(JobIds), Distinct(ids),
         NEW es \in Seq(Entries), Len(es) = Len(ids),
         \A i \in 1 .. Len(ids) :
           es[i].kind = "job" /\ es[i].prev = k.jobs[ids[i]] /\ Revises(es[i].prev, es[i].next)
  PROVE  \E m : /\ Leads(k, es, m) /\ Present(m.jobs) = Present(k.jobs)
                /\ m.blockers = k.blockers /\ (Whole(k) => Whole(m))
                /\ \A i \in 1 .. Len(ids) : m.jobs[ids[i]] = es[i].next
                /\ \A j \in JobIds :
                     (\A i \in 1 .. Len(ids) : ids[i] # j) => m.jobs[j] = k.jobs[j]
<1> DEFINE N == Len(ids)
           At(n, j) == {i \in 1 .. n : ids[i] = j}
           New(n, j) == IF At(n, j) = {} THEN k.jobs[j] ELSE es[CHOOSE i \in At(n, j) : TRUE].next
           p == [n \in 0 .. N |-> [jobs |-> [j \in JobIds |-> New(n, j)],
                                   blockers |-> k.blockers]]
<1>1. /\ N \in Nat /\ \A i \in 1 .. N : ids[i] \in JobIds
      /\ k.jobs \in [JobIds -> Row \cup {NULL}] /\ k.blockers \in [JobIds -> SUBSET JobIds]
      /\ k = [jobs |-> k.jobs, blockers |-> k.blockers]
      /\ \A j \in Present(k.jobs) : k.jobs[j].id = j
  BY ElementOfSeq, LenProperties DEF WellFormed, AllTables
<1>2. \A n \in 0 .. N, j \in JobIds :
        /\ (\A i \in 1 .. n : ids[i] # j) => New(n, j) = k.jobs[j]
        /\ \A i \in 1 .. n : ids[i] = j => New(n, j) = es[i].next
  <2> SUFFICES ASSUME NEW n \in 0 .. N, NEW j \in JobIds
               PROVE  /\ (\A i \in 1 .. n : ids[i] # j) => New(n, j) = k.jobs[j]
                      /\ \A i \in 1 .. n : ids[i] = j => New(n, j) = es[i].next
    OBVIOUS
  <2>1. (\A i \in 1 .. n : ids[i] # j) => New(n, j) = k.jobs[j]
    OBVIOUS
  <2>2. ASSUME NEW i \in 1 .. n, ids[i] = j PROVE New(n, j) = es[i].next
    <3>1. \A h \in At(n, j) : h = i
      BY <1>1, <2>2 DEF Distinct
    <3>2. i \in At(n, j)
      BY <2>2
    <3>3. (CHOOSE h \in At(n, j) : TRUE) = i
      BY <3>1, <3>2
    <3> QED
      BY <3>2, <3>3
  <2> QED
    BY <2>1, <2>2
<1>3. \A n \in 0 .. N :
        /\ p[n].blockers = k.blockers /\ DOMAIN p[n].jobs = JobIds
        /\ p[n].jobs = [j \in JobIds |-> p[n].jobs[j]]
        /\ \A j \in JobIds : p[n].jobs[j] = New(n, j)
        /\ p[n] = [jobs |-> p[n].jobs, blockers |-> k.blockers]
  <2> HIDE DEF New
  <2> QED
    OBVIOUS
<1> HIDE DEF p, New
<1>4. \A n \in 0 .. N, j \in JobIds :
        p[n].jobs[j] = k.jobs[j] \/ Revises(k.jobs[j], p[n].jobs[j])
  <2> SUFFICES ASSUME NEW n \in 0 .. N, NEW j \in JobIds
               PROVE  New(n, j) = k.jobs[j] \/ Revises(k.jobs[j], New(n, j))
    BY <1>3
  <2>1. CASE \A i \in 1 .. n : ids[i] # j
    BY <1>2, <2>1
  <2>2. CASE \E i \in 1 .. n : ids[i] = j
    <3>1. PICK i \in 1 .. n : ids[i] = j
      BY <2>2
    <3>2. i \in 1 .. N
      BY <1>1
    <3> QED
      BY <1>2, <3>1, <3>2
  <2> QED
    BY <2>1, <2>2
<1>5. \A n \in 0 .. N : p[n] \in AllTables
  <2> SUFFICES ASSUME NEW n \in 0 .. N PROVE p[n] \in AllTables
    OBVIOUS
  <2>1. \A j \in JobIds : p[n].jobs[j] \in Row \cup {NULL}
    BY <1>1, <1>4 DEF Revises
  <2>2. p[n].jobs \in [JobIds -> Row \cup {NULL}]
    BY <1>3, <2>1
  <2> QED
    <3> DEFINE u == p[n].jobs
    <3>1. p[n] = [jobs |-> u, blockers |-> k.blockers] /\ u \in [JobIds -> Row \cup {NULL}]
      BY <1>3, <2>2
    <3> HIDE DEF u
    <3> QED
      BY <1>1, <3>1 DEF AllTables
<1>6. \A n \in 0 .. N : /\ WellFormed(p[n]) /\ Present(p[n].jobs) = Present(k.jobs)
                        /\ Whole(k) => Whole(p[n])
  BY <1>4, <1>5, RevisedRows
<1>7. p[0] = k
  <2>0. 0 \in 0 .. N
    BY <1>1
  <2>1. \A j \in JobIds : New(0, j) = k.jobs[j]
    BY <1>2, <2>0
  <2>2. p[0].jobs = k.jobs
    <3>1. \A j \in JobIds : p[0].jobs[j] = k.jobs[j]
      BY <1>3, <2>0, <2>1
    <3>2. p[0].jobs = [j \in JobIds |-> p[0].jobs[j]]
      BY <1>3, <2>0
    <3>3. k.jobs = [j \in JobIds |-> k.jobs[j]]
      BY <1>1
    <3> QED
      BY <3>1, <3>2, <3>3
  <2> QED
    BY <1>1, <1>3, <2>0, <2>2
<1>8. ASSUME NEW n \in 1 .. N
      PROVE  Fits(p[n - 1], es[n]) /\ p[n] = Applied(p[n - 1], es[n])
  <2> DEFINE id == ids[n]
             e == es[n]
             a == p[n - 1]
             b == p[n]
  <2>1. n \in 0 .. N /\ n - 1 \in 0 .. N /\ n \in 1 .. n
    BY <1>1
  <2>2. /\ id \in JobIds /\ e.kind = "job" /\ e.prev = k.jobs[id] /\ Revises(e.prev, e.next)
        /\ e.prev \in Row /\ e.next \in Row /\ e.prev # NULL /\ e.prev.id = id
    BY <1>1, NullIsNoValue DEF Revises, Present
  <2>3. a.jobs[id] = e.prev
    <3>1. \A i \in 1 .. n - 1 : ids[i] # id
      BY <1>1, <2>1 DEF Distinct
    <3> QED
      BY ZenonT(40), <1>2, <1>3, <2>1, <2>2, <3>1
  <2>4. b.jobs[id] = e.next
    BY ZenonT(40), <1>2, <1>3, <2>1, <2>2
  <2>5. \A j \in JobIds : j # id => b.jobs[j] = a.jobs[j]
    <3>0. /\ \A j \in JobIds : p[n].jobs[j] = New(n, j)
          /\ \A j \in JobIds : p[n - 1].jobs[j] = New(n - 1, j)
      BY <1>3, <2>1
    <3> SUFFICES ASSUME NEW j \in JobIds, j # id PROVE New(n, j) = New(n - 1, j)
      BY <3>0
    <3>1. CASE \A i \in 1 .. n - 1 : ids[i] # j
      <4>1. \A i \in 1 .. n : ids[i] # j
        <5> SUFFICES ASSUME NEW i \in 1 .. n PROVE ids[i] # j
          OBVIOUS
        <5>1. i = n \/ i \in 1 .. n - 1
          BY <2>1
        <5> QED
          BY <3>1, <5>1
      <4> QED
        BY SMTT(40), <1>2, <2>1, <3>1, <4>1
    <3>2. CASE \E i \in 1 .. n - 1 : ids[i] = j
      <4>1. PICK i \in 1 .. n - 1 : ids[i] = j
        BY <3>2
      <4>2. i \in 1 .. n
        BY <2>1
      <4>3. New(n, j) = es[i].next
        BY <1>2, <2>1, <4>1, <4>2
      <4>4. New(n - 1, j) = es[i].next
        BY <1>2, <2>1, <4>1
      <4> QED
        BY <4>3, <4>4
    <3> QED
      BY <3>1, <3>2
  <2>6. /\ a.jobs \in [JobIds -> Row \cup {NULL}] /\ b.jobs \in [JobIds -> Row \cup {NULL}]
        /\ a = [jobs |-> a.jobs, blockers |-> k.blockers]
        /\ b = [jobs |-> b.jobs, blockers |-> k.blockers]
    BY <1>3, <1>5, <2>1 DEF AllTables
  <2> HIDE DEF id, e, a, b
  <2>7. Fits(a, e)
    BY <2>2, <2>3 DEF Fits, FitsJob, Revises
  <2>8. b.jobs = [a.jobs EXCEPT ![id] = e.next]
    BY <2>2, <2>4, <2>5, <2>6
  <2>9. Applied(a, e) = [a EXCEPT !.jobs = [a.jobs EXCEPT ![id] = e.next]]
    BY <2>2 DEF Applied, IdOf
  <2>10. [a EXCEPT !.jobs = b.jobs] = b
    BY <2>6
  <2> QED
    BY <2>7, <2>8, <2>9, <2>10 DEF a, b, e
<1>9. Len(es) = N /\ N \in 0 .. N
  BY <1>1
<1>10. Path(p, es)
  BY <1>6, <1>8, <1>9 DEF Path
<1>11. Leads(k, es, p[N])
  BY <1>6, <1>7, <1>9, <1>10 DEF Leads
<1>12. N \in 0 .. N /\ \A j \in JobIds : p[N].jobs[j] = New(N, j)
  BY <1>3, <1>9
<1>13. \A i \in 1 .. N : p[N].jobs[ids[i]] = es[i].next
  BY <1>1, <1>2, <1>12
<1>14. \A j \in JobIds : (\A i \in 1 .. N : ids[i] # j) => p[N].jobs[j] = k.jobs[j]
  BY <1>2, <1>12
<1> QED
  BY <1>3, <1>6, <1>9, <1>11, <1>13, <1>14

(* The blocker table does not matter to well-formedness.                   *)
LEMMA SameRows ==
  ASSUME NEW k, WellFormed(k), NEW m \in AllTables, m.jobs = k.jobs
  PROVE  WellFormed(m)
  BY DEF WellFormed

(* A is what the blockers B are with those of the sequence new, or without.*)
With(B, new, A) ==
  \A c \in JobIds : c \in A <=> c \in B \/ \E i \in 1 .. Len(new) : new[i] = c

Without(B, new, A) ==
  \A c \in JobIds : c \in A <=> c \in B /\ \A i \in 1 .. Len(new) : new[i] # c

(* The blockers of one job, added or removed one by one.                   *)
LEMMA BlockersLead ==
  ASSUME NEW k, WellFormed(k), NEW q \in JobIds, NEW new \in Seq(JobIds), Distinct(new),
         NEW v \in BOOLEAN, NEW es \in Seq(Entries), Len(es) = Len(new),
         \A i \in 1 .. Len(new) : es[i] = BlockerEntry(q, new[i], new[i] \in k.blockers[q], v)
  PROVE  \E m : /\ Leads(k, es, m) /\ m \in AllTables /\ m.jobs = k.jobs
                /\ \A j \in JobIds : j # q => m.blockers[j] = k.blockers[j]
                /\ v => With(k.blockers[q], new, m.blockers[q])
                /\ ~v => Without(k.blockers[q], new, m.blockers[q])
<1> DEFINE N == Len(new)
           Old == k.blockers[q]
           B(n) == IF v THEN Old \cup {new[i] : i \in 1 .. n} ELSE Old \ {new[i] : i \in 1 .. n}
           p == [n \in 0 .. N |-> [jobs |-> k.jobs,
                                   blockers |-> [k.blockers EXCEPT ![q] = B(n)]]]
<1>1. /\ N \in Nat /\ \A i \in 1 .. N : new[i] \in JobIds
      /\ k.jobs \in [JobIds -> Row \cup {NULL}] /\ k.blockers \in [JobIds -> SUBSET JobIds]
      /\ k = [jobs |-> k.jobs, blockers |-> k.blockers]
  BY ElementOfSeq, LenProperties DEF WellFormed, AllTables
<1>2. \A n \in 0 .. N : B(n) \in SUBSET JobIds
  <2> SUFFICES ASSUME NEW n \in 0 .. N PROVE B(n) \in SUBSET JobIds
    OBVIOUS
  <2>1. \A i \in 1 .. n : i \in 1 .. N
    BY <1>1
  <2>2. Old \in SUBSET JobIds /\ \A i \in 1 .. n : new[i] \in JobIds
    BY <1>1, <2>1
  <2> QED
    BY <2>2
<1>3. B(0) = Old
  <2>1. 1 .. 0 = {}
    OBVIOUS
  <2> QED
    BY <2>1
<1>4. \A n \in 1 .. N : B(n) = PutIn(B(n - 1), new[n], v) /\ (new[n] \in Old <=> new[n] \in B(n - 1))
  <2> SUFFICES ASSUME NEW n \in 1 .. N
               PROVE  B(n) = PutIn(B(n - 1), new[n], v) /\ (new[n] \in Old <=> new[n] \in B(n - 1))
    OBVIOUS
  <2>1. {new[i] : i \in 1 .. n} = {new[i] : i \in 1 .. n - 1} \cup {new[n]}
    BY <1>1
  <2>2. new[n] \notin {new[i] : i \in 1 .. n - 1}
    BY <1>1 DEF Distinct
  <2> QED
    BY <2>1, <2>2 DEF PutIn
<1>15. (v => With(Old, new, B(N))) /\ (~v => Without(Old, new, B(N)))
  <2>1. CASE v
    <3>1. \A c \in JobIds : c \in B(N) <=> c \in Old \/ \E i \in 1 .. Len(new) : new[i] = c
      BY <2>1
    <3> QED
      BY <2>1, <3>1 DEF With
  <2>2. CASE ~v
    <3>1. \A c \in JobIds : c \in B(N) <=> c \in Old /\ \A i \in 1 .. Len(new) : new[i] # c
      BY <2>2
    <3> QED
      BY <2>2, <3>1 DEF Without
  <2> QED
    BY <2>1, <2>2
<1> HIDE DEF B
<1>5. \A n \in 0 .. N :
        /\ p[n].jobs = k.jobs /\ p[n].blockers = [k.blockers EXCEPT ![q] = B(n)]
        /\ p[n] = [jobs |-> k.jobs, blockers |-> [k.blockers EXCEPT ![q] = B(n)]]
  OBVIOUS
<1> HIDE DEF p
<1>6. \A n \in 0 .. N : p[n] \in AllTables
  <2> SUFFICES ASSUME NEW n \in 0 .. N PROVE p[n] \in AllTables
    OBVIOUS
  <2> DEFINE b == [k.blockers EXCEPT ![q] = B(n)]
  <2>1. b \in [JobIds -> SUBSET JobIds]
    BY <1>1, <1>2
  <2>2. p[n] = [jobs |-> k.jobs, blockers |-> b]
    BY <1>5
  <2> HIDE DEF b
  <2> QED
    BY <1>1, <2>1, <2>2 DEF AllTables
<1>7. \A n \in 0 .. N : WellFormed(p[n])
  BY <1>5, <1>6, SameRows
<1>8. p[0] = k
  <2>0. 0 \in 0 .. N
    BY <1>1
  <2>1. [k.blockers EXCEPT ![q] = B(0)] = k.blockers
    BY <1>1, <1>3
  <2> QED
    BY <1>1, <1>5, <2>0, <2>1
<1>9. ASSUME NEW n \in 1 .. N
      PROVE  Fits(p[n - 1], es[n]) /\ p[n] = Applied(p[n - 1], es[n])
  <2> DEFINE a == p[n - 1]
             e == es[n]
             c == new[n]
  <2>1. n \in 0 .. N /\ n - 1 \in 0 .. N /\ c \in JobIds
    BY <1>1
  <2>2. /\ e.kind = "blocker" /\ e.job = q /\ e.chain = c /\ e.next = v
        /\ e.prev = (c \in Old)
    <3>1. e = BlockerEntry(q, new[n], new[n] \in k.blockers[q], v)
      BY <1>1
    <3> HIDE DEF e
    <3> QED
      BY <3>1 DEF BlockerEntry
  <2>3. /\ a.jobs = k.jobs /\ a.blockers = [k.blockers EXCEPT ![q] = B(n - 1)]
        /\ a = [jobs |-> k.jobs, blockers |-> a.blockers] /\ a.blockers[q] = B(n - 1)
    BY <1>1, <1>5, <2>1
  <2>4. /\ p[n] = [jobs |-> k.jobs, blockers |-> [k.blockers EXCEPT ![q] = B(n)]]
    BY <1>5, <2>1
  <2>5. B(n) = PutIn(B(n - 1), c, v) /\ (c \in Old <=> c \in B(n - 1))
    BY <1>4
  <2> HIDE DEF a, e, c
  <2>6. Fits(a, e)
    BY <2>1, <2>2, <2>3, <2>5 DEF Fits
  <2>7. Applied(a, e) = [a EXCEPT !.blockers = [a.blockers EXCEPT ![q] = PutIn(@, c, v)]]
    BY <2>2 DEF Applied
  <2>8. [a.blockers EXCEPT ![q] = PutIn(@, c, v)] = [k.blockers EXCEPT ![q] = B(n)]
    BY <1>1, <2>3, <2>5
  <2>9. \A x : [a EXCEPT !.blockers = x] = [jobs |-> k.jobs, blockers |-> x]
    BY <2>3
  <2> QED
    BY <2>4, <2>6, <2>7, <2>8, <2>9 DEF a, e
<1>10. Len(es) = N /\ N \in 0 .. N
  BY <1>1
<1>11. Path(p, es)
  BY <1>7, <1>9, <1>10 DEF Path
<1>12. Leads(k, es, p[N])
  <2>1. \A n \in 0 .. N : Present(p[n].jobs) = Present(k.jobs)
    BY <1>5
  <2> QED
    BY <1>8, <1>10, <1>11, <2>1 DEF Leads
<1>13. p[N].jobs = k.jobs /\ p[N].blockers = [k.blockers EXCEPT ![q] = B(N)]
  BY <1>5, <1>10
<1>14. \A j \in JobIds : j # q => p[N].blockers[j] = k.blockers[j]
  BY <1>1, <1>13
<1>16. p[N].blockers[q] = B(N)
  BY <1>1, <1>13
<1> DEFINE m == p[N]
<1>17. Leads(k, es, m) /\ m \in AllTables /\ m.jobs = k.jobs
  BY <1>6, <1>10, <1>12, <1>13
<1>18. \A j \in JobIds : j # q => m.blockers[j] = k.blockers[j]
  BY <1>14
<1>19. /\ v => With(k.blockers[q], new, m.blockers[q])
       /\ ~v => Without(k.blockers[q], new, m.blockers[q])
  BY <1>15, <1>16
<1> HIDE DEF m, N
<1> QED
  BY <1>17, <1>18, <1>19, ZenonT(30)

(* The same for additions only.                                            *)
LEMMA AdditionsLead ==
  ASSUME NEW k, WellFormed(k), NEW q \in JobIds, NEW new \in Seq(JobIds), Distinct(new),
         NEW es \in Seq(Entries), Len(es) = Len(new),
         \A i \in 1 .. Len(new) :
           es[i] = BlockerEntry(q, new[i], new[i] \in k.blockers[q], TRUE)
  PROVE  \E m : /\ Leads(k, es, m) /\ m \in AllTables /\ m.jobs = k.jobs
                /\ \A j \in JobIds : j # q => m.blockers[j] = k.blockers[j]
                /\ With(k.blockers[q], new, m.blockers[q])
<1>1. PICK v \in BOOLEAN : v = TRUE
  OBVIOUS
<1>4. v
  BY <1>1
<1>2. \A i \in 1 .. Len(new) : es[i] = BlockerEntry(q, new[i], new[i] \in k.blockers[q], v)
  BY <1>1
<1>3. PICK m : /\ Leads(k, es, m) /\ m \in AllTables /\ m.jobs = k.jobs
               /\ \A j \in JobIds : j # q => m.blockers[j] = k.blockers[j]
               /\ v => With(k.blockers[q], new, m.blockers[q])
               /\ ~v => Without(k.blockers[q], new, m.blockers[q])
  BY <1>2, BlockersLead
<1> QED
  BY <1>3, <1>4

(* One more job.                                                           *)
LEMMA CreateLeads ==
  ASSUME NEW k, WellFormed(k), NEW r \in Row, k.jobs[r.id] = NULL,
         \A b \in RowsIn(k.jobs) : ~(b.chain = r.chain /\ b.index = r.index),
         IsRoot(r) <=> r.index = 0,
         Open(r) => \A b \in RowsIn(k.jobs) : Open(b) => b.key # r.key
  PROVE  \E m : /\ Leads(k, <<JobEntry(NULL, r)>>, m)
                /\ m.jobs = [k.jobs EXCEPT ![r.id] = r] /\ m.blockers = k.blockers
<1> DEFINE e == JobEntry(NULL, r)
           jobs == [k.jobs EXCEPT ![r.id] = r]
           m == Applied(k, e)
<1>1. /\ k \in AllTables /\ k.jobs \in [JobIds -> Row \cup {NULL}]
      /\ k.blockers \in [JobIds -> SUBSET JobIds]
      /\ k = [jobs |-> k.jobs, blockers |-> k.blockers] /\ r.id \in JobIds
      /\ (\A j \in Present(k.jobs) : k.jobs[j].id = j) /\ Proper(RowsIn(k.jobs))
      /\ (\A b \in RowsIn(k.jobs) : IsRoot(b) <=> b.index = 0)
      /\ \A a, b \in RowsIn(k.jobs) : Open(a) /\ Open(b) /\ a.key = b.key => a = b
  BY DEF WellFormed, AllTables, Row
<1>2. e.kind = "job" /\ e.prev = NULL /\ e.next = r
  BY DEF JobEntry
<1>3. Fits(k, e)
  BY <1>2 DEF Fits, FitsJob
<1>4. m = [jobs |-> jobs, blockers |-> k.blockers]
  <2>1. m = [k EXCEPT !.jobs = jobs]
    BY <1>2 DEF Applied, IdOf
  <2> HIDE DEF jobs
  <2> QED
    BY <1>1, <2>1
<1>5. /\ jobs \in [JobIds -> Row \cup {NULL}] /\ \A j \in Present(jobs) : jobs[j].id = j
      /\ \A b : b \in RowsIn(jobs) <=> (b \in RowsIn(k.jobs) /\ b # NULL) \/ b = r
  <2>1. jobs = [k.jobs EXCEPT ![r.id] = r]
    OBVIOUS
  <2> HIDE DEF jobs
  <2>2. /\ jobs \in [JobIds -> Row \cup {NULL}] /\ \A j \in Present(jobs) : jobs[j].id = j
        /\ \A b : b \in RowsIn(jobs) <=> (b \in RowsIn(k.jobs) /\ b # k.jobs[r.id]) \/ b = r
    BY <1>1, <2>1, RowsPut
  <2> QED
    BY <2>2
<1>6. \A b \in RowsIn(k.jobs) : b.id # r.id
  BY <1>1 DEF RowsIn, Present
<1> HIDE DEF jobs, e, m
<1>7. m \in AllTables /\ m.jobs = jobs /\ m.blockers = k.blockers
  BY <1>1, <1>4, <1>5 DEF AllTables
<1>8. Proper(RowsIn(jobs))
  BY <1>1, <1>5, <1>6 DEF Proper
<1>9. \A b \in RowsIn(jobs) : IsRoot(b) <=> b.index = 0
  BY <1>1, <1>5
<1>10. \A a, b \in RowsIn(jobs) : Open(a) /\ Open(b) /\ a.key = b.key => a = b
  BY <1>1, <1>5
<1>11. WellFormed(m)
  BY <1>5, <1>7, <1>8, <1>9, <1>10 DEF WellFormed
<1>12. Leads(k, <<e>>, m)
  BY <1>3, <1>11, LeadsOnce DEF m
<1> QED
  BY <1>7, <1>12 DEF e, jobs

(* One job less.                                                           *)
LEMMA DeleteLeads ==
  ASSUME NEW k, WellFormed(k), NEW j \in Present(k.jobs)
  PROVE  \E m : /\ Leads(k, <<JobEntry(k.jobs[j], NULL)>>, m) /\ m \in AllTables
                /\ m.jobs = [k.jobs EXCEPT ![j] = NULL] /\ m.blockers = k.blockers
<1> DEFINE r == k.jobs[j]
           e == JobEntry(r, NULL)
           jobs == [k.jobs EXCEPT ![j] = NULL]
           m == Applied(k, e)
<1>1. /\ k \in AllTables /\ k.jobs \in [JobIds -> Row \cup {NULL}]
      /\ k.blockers \in [JobIds -> SUBSET JobIds]
      /\ k = [jobs |-> k.jobs, blockers |-> k.blockers]
      /\ j \in JobIds /\ r \in Row /\ r # NULL /\ r.id = j
      /\ (\A i \in Present(k.jobs) : k.jobs[i].id = i) /\ Proper(RowsIn(k.jobs))
      /\ (\A b \in RowsIn(k.jobs) : IsRoot(b) <=> b.index = 0)
      /\ \A a, b \in RowsIn(k.jobs) : Open(a) /\ Open(b) /\ a.key = b.key => a = b
  BY DEF WellFormed, AllTables, Present
<1>2. e.kind = "job" /\ e.prev = r /\ e.next = NULL
  BY DEF JobEntry
<1>3. Fits(k, e)
  BY <1>1, <1>2 DEF Fits, FitsJob
<1>4. m = [jobs |-> jobs, blockers |-> k.blockers]
  <2>1. m = [k EXCEPT !.jobs = jobs]
    BY <1>1, <1>2 DEF Applied, IdOf
  <2> HIDE DEF jobs
  <2> QED
    BY <1>1, <2>1
<1>5. /\ jobs \in [JobIds -> Row \cup {NULL}] /\ \A i \in Present(jobs) : jobs[i].id = i
      /\ \A b : b \in RowsIn(jobs) => b \in RowsIn(k.jobs)
  <2>1. jobs = [k.jobs EXCEPT ![j] = NULL]
    OBVIOUS
  <2> HIDE DEF jobs
  <2>2. /\ jobs \in [JobIds -> Row \cup {NULL}] /\ \A i \in Present(jobs) : jobs[i].id = i
        /\ \A b : b \in RowsIn(jobs) <=> b \in RowsIn(k.jobs) /\ b # k.jobs[j]
    BY <1>1, <2>1, RowsGone
  <2> QED
    BY <2>2
<1> HIDE DEF jobs, e, m
<1>6. m \in AllTables /\ m.jobs = jobs /\ m.blockers = k.blockers
  BY <1>1, <1>4, <1>5 DEF AllTables
<1>7. Proper(RowsIn(jobs))
  BY <1>1, <1>5 DEF Proper
<1>8. WellFormed(m)
  BY <1>1, <1>5, <1>6, <1>7 DEF WellFormed
<1>9. Leads(k, <<e>>, m)
  BY <1>3, <1>8, LeadsOnce DEF m
<1> QED
  BY <1>6, <1>9 DEF e, jobs

(* Entries lead between well-formed tables.                                *)
LEMMA LeadsTo ==
  ASSUME NEW k, NEW es \in Seq(Entries), NEW m, Leads(k, es, m)
  PROVE  WellFormed(k) /\ WellFormed(m)
<1>1. Len(es) \in Nat
  BY LenProperties
<1>2. PICK p : Path(p, es) /\ p[0] = k /\ p[Len(es)] = m
  BY DEF Leads
<1> QED
  BY <1>1, <1>2 DEF Path

(* What addJobsBlockers and deleteChains journal.                          *)
LEMMA BlockerEntryType ==
  ASSUME NEW q \in JobIds, NEW c \in JobIds, NEW prev \in BOOLEAN, NEW next \in BOOLEAN
  PROVE  BlockerEntry(q, c, prev, next) \in Entries
  BY DEF BlockerEntry, Entries

(* What writeJob journals.                                                 *)
LEMMA JobEntryType ==
  ASSUME NEW prev \in Row \cup {NULL}, NEW next \in Row \cup {NULL}
  PROVE  JobEntry(prev, next) \in Entries
  BY DEF JobEntry, Entries

(* Well-formed tables are tables.                                          *)
LEMMA WellFormedType ==
  ASSUME NEW k, WellFormed(k)
  PROVE  k \in AllTables
  BY DEF WellFormed

Unblocking(j, b) == [i \in DOMAIN b |-> BlockerEntry(j, b[i], TRUE, FALSE)]

Ending(j, b, r) == Unblocking(j, b) \o <<JobEntry(r, NULL)>>

(* Neither the row nor the blockers of job j are there.                    *)
Gone(m, j) == m.jobs[j] = NULL /\ m.blockers[j] = {}

(* The end of a job: its blockers, then its row.                           *)
LEMMA RowDeletionLeads ==
  ASSUME NEW k, WellFormed(k), NEW j \in Present(k.jobs), NEW b, b = SetToSeq(k.blockers[j]),
         NEW es, es = Ending(j, b, k.jobs[j])
  PROVE  /\ es \in Seq(Entries) /\ Len(es) # 0
         /\ \E m \in AllTables :
              /\ Leads(k, es, m) /\ Gone(m, j)
              /\ \A i \in JobIds :
                   i # j => m.jobs[i] = k.jobs[i] /\ m.blockers[i] = k.blockers[i]
<1> DEFINE B == k.blockers[j]
           es1 == Unblocking(j, b)
           es2 == <<JobEntry(k.jobs[j], NULL)>>
<1>1. /\ j \in JobIds /\ k.jobs[j] \in Row /\ k.jobs \in [JobIds -> Row \cup {NULL}]
      /\ B \in SUBSET JobIds /\ IsFiniteSet(B)
  BY FiniteIds, FS_Subset DEF WellFormed, AllTables, Present
<1>2. /\ b \in Seq(B) /\ Len(b) \in Nat /\ DOMAIN b = 1 .. Len(b) /\ Distinct(b)
      /\ \A i \in 1 .. Len(b) : b[i] \in B
  <2> HIDE DEF B
  <2>1. b = SetToSeq(B)
    BY DEF B
  <2> QED
    BY <1>1, <2>1, SeqOfSet
<1>3. b \in Seq(JobIds)
  BY <1>1, <1>2, SeqDef
<1>4. es1 \in Seq(Entries) /\ Len(es1) = Len(b)
      /\ \A i \in 1 .. Len(b) : es1[i] = BlockerEntry(j, b[i], b[i] \in k.blockers[j], FALSE)
  <2>1. \A i \in 1 .. Len(b) : BlockerEntry(j, b[i], TRUE, FALSE) \in Entries
    BY <1>1, <1>2, BlockerEntryType
  <2>2. es1 \in [1 .. Len(b) -> Entries]
    BY <1>2, <2>1 DEF Unblocking
  <2>3. es1 \in Seq(Entries) /\ Len(es1) = Len(b)
    <3> HIDE DEF es1
    <3> QED
      BY <1>2, <2>2, SeqDef
  <2>4. \A i \in 1 .. Len(b) : (b[i] \in k.blockers[j]) = TRUE
    BY <1>2
  <2> QED
    BY <1>2, <2>3, <2>4 DEF Unblocking
<1>5. es2 \in Seq(Entries) /\ Len(es2) = 1
  BY <1>1, JobEntryType
<1>11. es = es1 \o es2
  BY DEF Ending
<1> HIDE DEF es1, es2
<1>6. PICK l : /\ Leads(k, es1, l) /\ l \in AllTables /\ l.jobs = k.jobs
               /\ \A i \in JobIds : i # j => l.blockers[i] = k.blockers[i]
               /\ \A c \in JobIds :
                    c \in l.blockers[j] =>
                      c \in k.blockers[j] /\ \A i \in 1 .. Len(b) : b[i] # c
  <2> DEFINE v == FALSE
  <2>1. v \in BOOLEAN /\ ~v
    OBVIOUS
  <2>2. es1 \in Seq(Entries) /\ Len(es1) = Len(b)
    BY <1>4
  <2>3. \A i \in 1 .. Len(b) : es1[i] = BlockerEntry(j, b[i], b[i] \in k.blockers[j], v)
    BY <1>4
  <2> HIDE DEF v, B
  <2>4. WellFormed(k) /\ j \in JobIds /\ b \in Seq(JobIds) /\ Distinct(b)
    BY <1>1, <1>2, <1>3
  <2>5. PICK l : /\ Leads(k, es1, l) /\ l \in AllTables /\ l.jobs = k.jobs
                 /\ \A i \in JobIds : i # j => l.blockers[i] = k.blockers[i]
                 /\ v => With(k.blockers[j], b, l.blockers[j])
                 /\ ~v => Without(k.blockers[j], b, l.blockers[j])
    BY <2>1, <2>2, <2>3, <2>4, BlockersLead
  <2>6. \A c \in JobIds :
          c \in l.blockers[j] => c \in k.blockers[j] /\ \A i \in 1 .. Len(b) : b[i] # c
    BY <2>1, <2>5 DEF Without
  <2> QED
    BY <2>5, <2>6
<1>7. WellFormed(l) /\ j \in Present(l.jobs)
  BY <1>4, <1>6, LeadsTo
<1>8. PICK m : /\ Leads(l, <<JobEntry(l.jobs[j], NULL)>>, m)
               /\ m.jobs = [l.jobs EXCEPT ![j] = NULL] /\ m.blockers = l.blockers
  BY <1>7, DeleteLeads
<1>9. Leads(l, es2, m) /\ m.jobs = [k.jobs EXCEPT ![j] = NULL]
  BY <1>6, <1>8 DEF es2
<1>10. Leads(k, es1 \o es2, m)
  BY <1>4, <1>5, <1>6, <1>9, LeadsConcat
<1>12. es \in Seq(Entries) /\ Len(es) # 0
  <2>1. Len(es1 \o es2) = Len(b) + 1 /\ es1 \o es2 \in Seq(Entries)
    <3>1. es1 \in Seq(Entries) /\ Len(es1) = Len(b)
      BY <1>4
    <3>2. /\ es1 \o es2 \in Seq(Entries)
          /\ Len(es1 \o es2) = Len(es1) + Len(es2)
      BY <1>5, <3>1, ConcatProperties
    <3> QED
      BY <1>5, <3>1, <3>2
  <2> QED
    BY <1>2, <1>11, <2>1
<1>13. m \in AllTables
  <2>1. <<JobEntry(l.jobs[j], NULL)>> \in Seq(Entries)
    BY <1>5, <1>6 DEF es2
  <2> QED
    BY <1>8, <2>1, LeadsTo, WellFormedType
<1>14. Leads(k, es, m)
  BY <1>10, <1>11
<1>17. \A c \in B : \E i \in 1 .. Len(b) : b[i] = c
  <2> HIDE DEF B
  <2>1. b = SetToSeq(B)
    BY DEF B
  <2> QED
    BY <1>1, <2>1, SeqOfSet
<1>16. l.blockers[j] = {}
  <2>1. l.blockers[j] \in SUBSET JobIds
    BY <1>1, <1>6 DEF AllTables
  <2> QED
    BY <1>6, <1>17, <2>1
<1>15. /\ Gone(m, j)
       /\ \A i \in JobIds : i # j => m.jobs[i] = k.jobs[i] /\ m.blockers[i] = k.blockers[i]
  BY <1>1, <1>6, <1>8, <1>9, <1>16 DEF Gone
<1> QED
  BY <1>12, <1>13, <1>14, <1>15

(* FlattenSeq, part by part.                                               *)
Flattens(f, seqs, N) == f = [i \in 1 .. N |-> IF i = 1 THEN seqs[i] ELSE f[i - 1] \o seqs[i]]

(* The prefixes of a flattened sequence exist.                             *)
LEMMA FlattensExist ==
  ASSUME NEW seqs, NEW N \in Nat
  PROVE  \E f : Flattens(f, seqs, N)
<1> DEFINE T == {n \in Nat : ~ \E f : Flattens(f, seqs, n)}
<1> SUFFICES ASSUME T # {} PROVE FALSE
  OBVIOUS
<1>1. PICK n \in T : \A m \in T : n <= m
  <2>1. T \in SUBSET Nat
    OBVIOUS
  <2> HIDE DEF T
  <2> QED
    BY <2>1, LeastElement
<1>2. CASE n = 0
  <2>1. Flattens([i \in 1 .. 0 |-> seqs], seqs, 0)
    BY DEF Flattens
  <2> QED
    BY <1>1, <1>2, <2>1
<1>3. CASE n # 0
  <2>1. n - 1 \in Nat /\ n - 1 \notin T
    BY <1>1, <1>3
  <2>2. PICK f : Flattens(f, seqs, n - 1)
    BY <2>1
  <2> DEFINE g == [i \in 1 .. n |-> IF i = n THEN (IF i = 1 THEN seqs[i] ELSE f[n - 1] \o seqs[i])
                                    ELSE f[i]]
  <2>3. /\ DOMAIN g = 1 .. n
        /\ \A i \in 1 .. n : g[i] = IF i = 1 THEN seqs[i] ELSE g[i - 1] \o seqs[i]
    <3>0. \A i \in 1 .. n - 1 : f[i] = IF i = 1 THEN seqs[i] ELSE f[i - 1] \o seqs[i]
      BY <2>2 DEF Flattens
    <3>1. \A i \in 1 .. n - 1 : g[i] = f[i]
      BY <1>1
    <3>2. g[n] = IF n = 1 THEN seqs[n] ELSE f[n - 1] \o seqs[n]
      BY <1>1, <1>3
    <3>3. DOMAIN g = 1 .. n
      OBVIOUS
    <3> HIDE DEF g
    <3> SUFFICES ASSUME NEW i \in 1 .. n
                 PROVE  g[i] = IF i = 1 THEN seqs[i] ELSE g[i - 1] \o seqs[i]
      BY <3>3
    <3>4. CASE i = n
      <4>1. i # 1 => g[i - 1] = f[n - 1]
        <5>1. i # 1 => i - 1 \in 1 .. n - 1 /\ i - 1 = n - 1
          BY <1>1, <1>3, <3>4
        <5> QED
          BY <3>1, <5>1
      <4> QED
        BY <3>2, <3>4, <4>1
    <3>5. CASE i # n
      <4>1. i \in 1 .. n - 1 /\ (i # 1 => i - 1 \in 1 .. n - 1)
        BY <1>1, <1>3, <3>5
      <4> QED
        BY <3>0, <3>1, <4>1
    <3> QED
      BY <3>4, <3>5
  <2>4. g = [i \in 1 .. n |-> g[i]]
    OBVIOUS
  <2> HIDE DEF g
  <2>5. Flattens(g, seqs, n)
    BY <2>3, <2>4 DEF Flattens
  <2> QED
    BY <1>1, <2>5
<1> QED
  BY <1>2, <1>3

(* FlattenSeq is the last of them.                                         *)
LEMMA FlattenRounds ==
  ASSUME NEW seqs, Len(seqs) \in Nat, Len(seqs) # 0
  PROVE  \E f : Flattens(f, seqs, Len(seqs)) /\ FlattenSeq(seqs) = f[Len(seqs)]
<1> DEFINE f == CHOOSE f : Flattens(f, seqs, Len(seqs))
<1>1. Flattens(f, seqs, Len(seqs))
  BY FlattensExist
<1>2. FlattenSeq(seqs) = f[Len(seqs)]
  BY DEF FlattenSeq, Flattens
<1> QED
  BY <1>1, <1>2

(* What k is without the jobs of the first n rows.                         *)
Cut(k, rows, n, m) ==
  /\ m \in AllTables
  /\ \A j \in JobIds :
       /\ (\E i \in 1 .. n : rows[i].id = j) => Gone(m, j)
       /\ (\A i \in 1 .. n : rows[i].id # j) =>
            m.jobs[j] = k.jobs[j] /\ m.blockers[j] = k.blockers[j]

(* Deleting rows leaves the other rows as they are.                        *)
LEMMA CutPresent ==
  ASSUME NEW k, NEW rows, NEW n, NEW m, Cut(k, rows, n, m)
  PROVE  /\ Present(m.jobs) \subseteq Present(k.jobs)
         /\ \A j \in Present(m.jobs) : (\A i \in 1 .. n : rows[i].id # j) /\ m.jobs[j] = k.jobs[j]
  BY DEF Cut, Present, Gone

(* One more row deleted.                                                   *)
LEMMA CutMore ==
  ASSUME NEW k, NEW rows, NEW n \in Nat, NEW l, NEW j, Cut(k, rows, n, l),
         NEW m \in AllTables, rows[n + 1].id = j, j \in JobIds,
         Gone(m, j),
         \A i \in JobIds : i # j => m.jobs[i] = l.jobs[i] /\ m.blockers[i] = l.blockers[i]
  PROVE  Cut(k, rows, n + 1, m)
<1>1. \A i \in 1 .. n + 1 : i \in 1 .. n \/ i = n + 1
  OBVIOUS
<1>2. n + 1 \in 1 .. n + 1 /\ \A i \in 1 .. n : i \in 1 .. n + 1
  OBVIOUS
<1> SUFFICES ASSUME NEW i \in JobIds
             PROVE  /\ (\E h \in 1 .. n + 1 : rows[h].id = i) =>
                         Gone(m, i)
                    /\ (\A h \in 1 .. n + 1 : rows[h].id # i) =>
                         m.jobs[i] = k.jobs[i] /\ m.blockers[i] = k.blockers[i]
  BY DEF Cut
<1>4. CASE i = j
  <2>1. Gone(m, i)
    BY <1>4
  <2>2. \E h \in 1 .. n + 1 : rows[h].id = i
    BY <1>2, <1>4
  <2> QED
    BY <2>1, <2>2
<1>5. CASE i # j
  <2>1. m.jobs[i] = l.jobs[i] /\ m.blockers[i] = l.blockers[i]
    BY <1>5
  <2>2. ASSUME \E h \in 1 .. n + 1 : rows[h].id = i PROVE \E h \in 1 .. n : rows[h].id = i
    BY <1>1, <1>5, <2>2
  <2>3. /\ (\E h \in 1 .. n : rows[h].id = i) => Gone(l, i)
        /\ (\A h \in 1 .. n : rows[h].id # i) =>
             l.jobs[i] = k.jobs[i] /\ l.blockers[i] = k.blockers[i]
    BY DEF Cut
  <2>4. (\A h \in 1 .. n + 1 : rows[h].id # i) => \A h \in 1 .. n : rows[h].id # i
    BY <1>2
  <2> QED
    BY <2>1, <2>2, <2>3, <2>4 DEF Gone
<1> QED
  BY <1>4, <1>5

(* deleteChains' batch.                                                    *)
Endings(rows) == [i \in DOMAIN rows |-> DeleteEntries(rows[i])]

(* What deleteChains writes for a row.                                     *)
LEMMA DeleteEntriesAre ==
  ASSUME NEW r
  PROVE  DeleteEntries(r) = Ending(r.id, SetToSeq(ix.blockers[r.id]), r)
  BY DEF DeleteEntries, Ending, Unblocking

(* Before the first row is deleted.                                        *)
LEMMA CutNothing ==
  ASSUME NEW k \in AllTables, NEW rows
  PROVE  Cut(k, rows, 0, k)
<1>1. 1 .. 0 = {}
  OBVIOUS
<1> QED
  BY <1>1 DEF Cut

(* One more row.                                                           *)
LEMMA CutLeads ==
  ASSUME NEW k, WellFormed(k), k.blockers = ix.blockers, NEW rows \in Seq(Row), Distinct(rows),
         \A i \in 1 .. Len(rows) : rows[i] \in RowsIn(k.jobs),
         NEW n \in Nat, n + 1 \in 1 .. Len(rows), NEW l, WellFormed(l), Cut(k, rows, n, l)
  PROVE  /\ DeleteEntries(rows[n + 1]) \in Seq(Entries) /\ Len(DeleteEntries(rows[n + 1])) # 0
         /\ \E m : Leads(l, DeleteEntries(rows[n + 1]), m) /\ Cut(k, rows, n + 1, m)
<1> DEFINE r == rows[n + 1]
           j == r.id
           es == DeleteEntries(r)
           b == SetToSeq(l.blockers[j])
<1>1. /\ r \in RowsIn(k.jobs) /\ \A i \in 1 .. n : i \in 1 .. Len(rows) /\ i # n + 1
      /\ Len(rows) \in Nat
  BY LenProperties
<1>2. j \in Present(k.jobs) /\ k.jobs[j] = r /\ j \in JobIds
  BY <1>1 DEF WellFormed, RowsIn, Present
<1>3. \A i \in 1 .. n : rows[i].id # j
  <2> SUFFICES ASSUME NEW i \in 1 .. n, rows[i].id = j PROVE FALSE
    OBVIOUS
  <2>1. rows[i] \in RowsIn(k.jobs) /\ i # n + 1 /\ i \in 1 .. Len(rows)
    BY <1>1
  <2>2. rows[i] = rows[n + 1]
    BY <1>1, <2>1 DEF WellFormed, Proper
  <2> QED
    BY <2>1, <2>2 DEF Distinct
<1>4. l.jobs[j] = r /\ l.blockers[j] = ix.blockers[j] /\ j \in Present(l.jobs)
  BY <1>2, <1>3 DEF Cut, Present
<1>5. es = Ending(j, b, l.jobs[j])
  BY <1>4, DeleteEntriesAre
<1> HIDE DEF es, b
<1>6. b = SetToSeq(l.blockers[j])
  BY DEF b
<1> HIDE DEF j, r
<1>7. /\ es \in Seq(Entries) /\ Len(es) # 0
      /\ \E m \in AllTables :
           /\ Leads(l, es, m) /\ Gone(m, j)
           /\ \A i \in JobIds :
                i # j => m.jobs[i] = l.jobs[i] /\ m.blockers[i] = l.blockers[i]
  BY <1>4, <1>5, <1>6, RowDeletionLeads
<1>8. PICK m \in AllTables :
        /\ Leads(l, es, m) /\ Gone(m, j)
        /\ \A i \in JobIds :
             i # j => m.jobs[i] = l.jobs[i] /\ m.blockers[i] = l.blockers[i]
  BY <1>7
<1>9. Cut(k, rows, n + 1, m)
  <2>1. rows[n + 1].id = j
    BY DEF j, r
  <2> QED
    BY <1>2, <1>8, <2>1, CutMore
<1> QED
  BY <1>7, <1>8, <1>9 DEF es, r

(* Deleting a sequence of rows leads to the tables without them.           *)
LEMMA DeletionsLead ==
  ASSUME NEW k, WellFormed(k), k.blockers = ix.blockers, NEW rows \in Seq(Row), Distinct(rows),
         \A i \in 1 .. Len(rows) : rows[i] \in RowsIn(k.jobs), Len(rows) # 0
  PROVE  /\ FlattenSeq(Endings(rows)) \in Seq(Entries)
         /\ \E m : Leads(k, FlattenSeq(Endings(rows)), m) /\ Cut(k, rows, Len(rows), m)
<1> DEFINE N == Len(rows)
           parts == Endings(rows)
<1>1. N \in Nat /\ Len(parts) = N /\ \A i \in 1 .. N : parts[i] = DeleteEntries(rows[i])
  <2>1. N \in Nat /\ DOMAIN rows = 1 .. N
    BY LenProperties
  <2>2. parts = [i \in 1 .. N |-> DeleteEntries(rows[i])]
    BY <2>1 DEF Endings
  <2> QED
    BY <2>1, <2>2
<1> HIDE DEF parts
<1>2. PICK f : Flattens(f, parts, N) /\ FlattenSeq(parts) = f[N]
  BY <1>1, FlattenRounds
<1>3. \A n \in 1 .. N : f[n] = IF n = 1 THEN parts[n] ELSE f[n - 1] \o parts[n]
  BY <1>2 DEF Flattens
<1> DEFINE Good(n) == f[n] \in Seq(Entries) /\ \E m : Leads(k, f[n], m) /\ Cut(k, rows, n, m)
           T == {n \in 1 .. N : ~Good(n)}
<1>4. T = {}
  <2> SUFFICES ASSUME T # {} PROVE FALSE
    OBVIOUS
  <2>1. PICK n \in T : \A m \in T : n <= m
    <3>1. T \in SUBSET Nat
      OBVIOUS
    <3> HIDE DEF T
    <3> QED
      BY <3>1, LeastElement
  <2>2. n \in 1 .. N /\ ~Good(n)
    BY <2>1
  <2>3. CASE n = 1
    <3>1. Cut(k, rows, 0, k)
      BY CutNothing, WellFormedType
    <3>2. 0 \in Nat /\ 0 + 1 = n /\ 0 + 1 \in 1 .. Len(rows)
      BY <2>2, <2>3
    <3>3. /\ DeleteEntries(rows[0 + 1]) \in Seq(Entries)
          /\ \E m : Leads(k, DeleteEntries(rows[0 + 1]), m) /\ Cut(k, rows, 0 + 1, m)
      BY <3>1, <3>2, CutLeads
    <3>4. f[n] = DeleteEntries(rows[n])
      BY <1>1, <1>3, <2>2, <2>3
    <3> QED
      BY <2>2, <3>2, <3>3, <3>4
  <2>4. CASE n # 1
    <3>1. n - 1 \in 1 .. N /\ n - 1 \in Nat /\ n - 1 \notin T /\ (n - 1) + 1 = n
      BY <1>1, <2>1, <2>2, <2>4
    <3>2. Good(n - 1)
      BY <3>1
    <3>3. PICK l : Leads(k, f[n - 1], l) /\ Cut(k, rows, n - 1, l)
      BY <3>2
    <3>4. f[n - 1] \in Seq(Entries) /\ WellFormed(l)
      BY <3>2, <3>3, LeadsTo
    <3>5. (n - 1) + 1 \in 1 .. Len(rows)
      BY <2>2, <3>1
    <3>6. /\ DeleteEntries(rows[(n - 1) + 1]) \in Seq(Entries)
          /\ \E m : Leads(l, DeleteEntries(rows[(n - 1) + 1]), m) /\ Cut(k, rows, (n - 1) + 1, m)
      BY <3>1, <3>3, <3>4, <3>5, CutLeads
    <3>7. parts[n] \in Seq(Entries) /\ \E m : Leads(l, parts[n], m) /\ Cut(k, rows, n, m)
      BY <1>1, <2>2, <3>1, <3>6
    <3>8. PICK m : Leads(l, parts[n], m) /\ Cut(k, rows, n, m)
      BY <3>7
    <3>9. Present(m.jobs) \subseteq Present(l.jobs)
      <4> SUFFICES ASSUME NEW j \in Present(m.jobs) PROVE j \in Present(l.jobs)
        OBVIOUS
      <4>1. /\ j \in JobIds /\ m.jobs[j] = k.jobs[j] /\ m.jobs[j] # NULL
            /\ \A i \in 1 .. n : rows[i].id # j
        BY <3>8, CutPresent DEF Present
      <4>2. \A i \in 1 .. n - 1 : i \in 1 .. n
        BY <3>1
      <4>3. l.jobs[j] = k.jobs[j]
        BY <3>3, <4>1, <4>2 DEF Cut
      <4> QED
        BY <4>1, <4>3 DEF Present
    <3>10. Present(k.jobs) \cap Present(m.jobs) \subseteq Present(l.jobs)
      BY <3>9
    <3>11. Leads(k, f[n - 1] \o parts[n], m)
      BY <3>3, <3>4, <3>7, <3>8, <3>10, LeadsConcat
    <3>12. f[n - 1] \o parts[n] \in Seq(Entries)
      BY <3>4, <3>7, ConcatProperties
    <3>13. f[n] = f[n - 1] \o parts[n]
      BY <1>3, <2>2, <2>4
    <3> QED
      BY <2>2, <3>8, <3>11, <3>12, <3>13
  <2> QED
    BY <2>3, <2>4
<1>5. N \in 1 .. N
  BY <1>1
<1>6. Good(N)
  BY <1>4, <1>5
<1> QED
  BY <1>2, <1>6 DEF parts

-----------------------------------------------------------------------------
(* The invariant.                                                          *)

(* The open scopes began at ascending places of the journal.               *)
MarksInOrder ==
  /\ marks \in Seq(Nat) /\ saved \in Seq(Store) /\ Len(saved) = Len(marks)
  /\ \A i \in 1 .. Len(marks) : marks[i] <= Len(journal)
  /\ \A h, i \in 1 .. Len(marks) : h <= i => marks[h] <= marks[i]
  /\ marks # <<>> => marks[1] = 0
  /\ marks = <<>> => journal = <<>>

(* The journal leads to the tables as they are, and on its way through     *)
(* what they were when each of the open scopes began.                      *)
JournalLeadsHere ==
  \E p : /\ Path(p, journal) /\ p[Len(journal)] = Tables(ix)
         /\ \A i \in 1 .. Len(marks) : p[marks[i]] = Tables(saved[i])

StoreInv ==
  /\ now \in 0 .. MaxNow
  /\ Agree(ix) /\ Whole(Tables(ix))
  /\ journal \in Seq(Entries)
  /\ MarksInOrder /\ JournalLeadsHere
  /\ \A i \in 1 .. Len(marks) : Whole(Tables(saved[i]))

(* An operation writes entries that lead to tables with whole chains.      *)
Advances ==
  \E es \in Seq(Entries) : \E m : Perform(es) /\ Leads(Tables(ix), es, m) /\ Whole(m)

(* Row a becomes row b.                                                    *)
Becomes(a, b, status, at, lease) ==
  Revises(a, b) /\ b.status = status /\ b.scheduledAt = at /\ b.leasedUntil = lease

(* Only the rows J are written, and no blocker.                            *)
OnlyRows(J) ==
  /\ ix'.blockers = ix.blockers
  /\ \A j \in JobIds : j \notin J => ix'.jobs[j] = ix.jobs[j]

SameOrderOf(J) ==
  \A a, b \in J : Seq0(ix.seqs, a) < Seq0(ix.seqs, b) <=> Seq0(ix.seqs, a)' < Seq0(ix.seqs, b)'

(* There are two kinds of entries.                                         *)
LEMMA EntryKinds ==
  ASSUME NEW es \in Seq(Entries)
  PROVE  /\ Len(es) \in Nat /\ \A i \in 1 .. Len(es) : es[i].kind \in {"job", "blocker"}
<1>1. \A i \in 1 .. Len(es) : es[i] \in Entries
  BY ElementOfSeq
<1>2. \A e \in Entries : e.kind \in {"job", "blocker"}
  BY DEF Entries
<1> QED
  BY <1>1, <1>2, LenProperties

(* A store whose indices agree is a store.                                 *)
LEMMA AgreeIsStore ==
  ASSUME NEW s, Agree(s)
  PROVE  s \in Store
  BY DEF Agree

(* A path without entries.                                                 *)
LEMMA EmptyPath ==
  ASSUME NEW k, WellFormed(k), NEW N \in Nat, N = 0
  PROVE  \E p : Path(p, <<>>) /\ p[0] = k
<1>1. Leads(k, <<>>, k)
  BY LeadsNowhere
<1> QED
  BY <1>1 DEF Leads

(* The current tables are the end of the path, so they are well formed.    *)
LEMMA TablesWellFormed ==
  ASSUME StoreInv
  PROVE  /\ WellFormed(Tables(ix)) /\ Tables(ix).jobs = ix.jobs
         /\ Tables(ix).blockers = ix.blockers /\ RowsIn(ix.jobs) = Rows
         /\ Present(ix.jobs) = JobsOf(ix)
<1>1. PICK p : Path(p, journal) /\ p[Len(journal)] = Tables(ix)
  BY DEF StoreInv, JournalLeadsHere
<1>2. Len(journal) \in Nat
  BY LenProperties DEF StoreInv
<1>3. WellFormed(Tables(ix))
  BY <1>1, <1>2 DEF Path
<1>4. Agree(ix)
  BY DEF StoreInv
<1>5. Tables(ix).jobs = ix.jobs /\ Tables(ix).blockers = ix.blockers
  BY <1>4, TablesOf
<1> QED
  BY <1>3, <1>5 DEF RowsIn, Rows, Present, JobsOf

(* Where the entries lead is where they arrive.                            *)
LEMMA Arrival ==
  ASSUME StoreInv, NEW es \in Seq(Entries), NEW m, Perform(es), Leads(Tables(ix), es, m)
  PROVE  /\ Agree(ix') /\ Tables(ix') = m /\ ix'.jobs = m.jobs /\ ix'.blockers = m.blockers
         /\ saved' = saved /\ now' = now
<1>1. ix' = Written(ix, es) /\ saved' = saved /\ now' = now
  BY DEF Perform
<1>2. PICK q : Path(q, es) /\ q[0] = Tables(ix) /\ q[Len(es)] = m
  BY DEF Leads
<1>3. Agree(ix) /\ es \in Seq(Entries)
  BY DEF StoreInv
<1>4. Agree(Written(ix, es)) /\ Tables(Written(ix, es)) = m
  BY <1>2, <1>3, WrittenAgrees
<1>5. Agree(ix') /\ Tables(ix') = m
  BY <1>1, <1>4
<1> QED
  BY <1>1, <1>5, TablesOf

(* An operation that advances keeps the invariant and the order.           *)
LEMMA AdvanceKeeps ==
  ASSUME StoreInv, Advances
  PROVE  /\ StoreInv' /\ SameOrderOf(JobsOf(ix) \cap JobsOf(ix)')
         /\ saved' = saved /\ now' = now
<1>1. PICK es \in Seq(Entries) :
        \E m : Perform(es) /\ Leads(Tables(ix), es, m) /\ Whole(m)
  BY DEF Advances
<1>0. PICK m : Perform(es) /\ Leads(Tables(ix), es, m) /\ Whole(m)
  BY <1>1
<1>2. PICK q : /\ Path(q, es) /\ q[0] = Tables(ix) /\ q[Len(es)] = m
               /\ \A n \in 0 .. Len(es) :
                    Present(Tables(ix).jobs) \cap Present(m.jobs) \subseteq Present(q[n].jobs)
  BY <1>0 DEF Leads
<1>3. PICK p : /\ Path(p, journal) /\ p[Len(journal)] = Tables(ix)
               /\ \A i \in 1 .. Len(marks) : p[marks[i]] = Tables(saved[i])
  BY DEF StoreInv, JournalLeadsHere
<1>4. /\ ix' = Written(ix, es) /\ UNCHANGED <<marks, saved, now>>
      /\ journal' = IF InTransaction THEN journal \o es ELSE <<>>
  BY <1>0 DEF Perform
<1>5. /\ Len(es) \in Nat /\ journal \in Seq(Entries) /\ Len(journal) \in Nat
      /\ Agree(ix) /\ Whole(Tables(ix)) /\ now \in 0 .. MaxNow
      /\ MarksInOrder /\ \A i \in 1 .. Len(marks) : Whole(Tables(saved[i]))
  BY LenProperties DEF StoreInv
<1>6. /\ Agree(Written(ix, es)) /\ Tables(Written(ix, es)) = m
      /\ SameAlong(q, Len(es), ix.seqs, Written(ix, es).seqs)
  BY <1>2, <1>5, WrittenAgrees
<1>7. Agree(ix') /\ Tables(ix') = m /\ SameAlong(q, Len(es), ix.seqs, ix'.seqs)
  BY <1>4, <1>6
<1>8. Tables(ix).jobs = ix.jobs /\ m.jobs = ix'.jobs
  BY <1>5, <1>7, TablesOf
<1>9. SameOrderOf(JobsOf(ix) \cap JobsOf(ix)')
  <2> SUFFICES ASSUME NEW a \in JobsOf(ix) \cap JobsOf(ix)', NEW b \in JobsOf(ix) \cap JobsOf(ix)'
               PROVE  Seq0(ix.seqs, a) < Seq0(ix.seqs, b) <=> Seq0(ix'.seqs, a) < Seq0(ix'.seqs, b)
    BY DEF SameOrderOf
  <2>1. /\ a \in JobIds /\ a \in Present(Tables(ix).jobs) /\ a \in Present(m.jobs)
        /\ b \in JobIds /\ b \in Present(Tables(ix).jobs) /\ b \in Present(m.jobs)
    BY <1>8 DEF JobsOf, Present
  <2>2. \A n \in 0 .. Len(es) : {a, b} \subseteq Present(q[n].jobs)
    BY <1>2, <2>1
  <2> QED
    BY <1>7, <2>1, <2>2 DEF SameAlong
<1>10. WellFormed(m)
  BY <1>2, <1>5 DEF Path
<1>11. CASE InTransaction
  <2>1. journal' = journal \o es
    BY <1>4, <1>11
  <2>2. PICK r : /\ Path(r, journal \o es)
                 /\ \A n \in 0 .. Len(journal) : r[n] = p[n]
                 /\ \A n \in 0 .. Len(es) : r[Len(journal) + n] = q[n]
    <3>1. q[0] = p[Len(journal)] /\ Path(p, journal) /\ Path(q, es) /\ journal \in Seq(Entries)
      BY <1>2, <1>3, <1>5
    <3>2. ASSUME NEW j \in Seq(Entries), Path(p, j), q[0] = p[Len(j)], Path(q, es)
          PROVE  \E r : /\ Path(r, j \o es)
                        /\ \A n \in 0 .. Len(j) : r[n] = p[n]
                        /\ \A n \in 0 .. Len(es) : r[Len(j) + n] = q[n]
      BY <3>2, PathConcat
    <3> QED
      BY <3>1, <3>2
  <2>3. journal \o es \in Seq(Entries) /\ Len(journal \o es) = Len(journal) + Len(es)
    BY <1>5, ConcatProperties
  <2>4. r[Len(journal \o es)] = m
    BY <1>2, <1>5, <2>2, <2>3
  <2>5. \A i \in 1 .. Len(marks) : marks[i] \in 0 .. Len(journal)
    BY <1>5, ElementOfSeq DEF MarksInOrder
  <2>6. \A i \in 1 .. Len(marks) : r[marks[i]] = Tables(saved[i])
    BY <1>3, <2>2, <2>5
  <2>7. JournalLeadsHere'
    <3>1. /\ Path(r, journal') /\ r[Len(journal')] = Tables(ix')
          /\ \A i \in 1 .. Len(marks') : r[marks'[i]] = Tables(saved'[i])
      BY <1>4, <1>7, <2>1, <2>2, <2>4, <2>6
    <3> QED
      BY <3>1 DEF JournalLeadsHere
  <2>8. MarksInOrder'
    <3>1. marks # <<>>
      BY <1>11 DEF InTransaction
    <3>2. \A i \in 1 .. Len(marks) : marks[i] <= Len(journal) + Len(es)
      BY <1>5, <2>5
    <3>3. Len(journal') = Len(journal) + Len(es)
      BY <2>1, <2>3
    <3>4. marks' = marks /\ saved' = saved
      BY <1>4
    <3> QED
      BY <1>5, <3>1, <3>2, <3>3, <3>4 DEF MarksInOrder
  <2> QED
    BY <1>0, <1>4, <1>5, <1>7, <1>9, <2>1, <2>3, <2>7, <2>8 DEF StoreInv
<1>12. CASE ~InTransaction
  <2>1. journal' = <<>> /\ marks = <<>> /\ marks' = <<>>
    BY <1>4, <1>12 DEF InTransaction
  <2>2. PICK r : Path(r, <<>>) /\ r[0] = m
    BY <1>10, EmptyPath
  <2>3. JournalLeadsHere'
    <3>1. Len(<<>>) = 0 /\ 1 .. 0 = {}
      OBVIOUS
    <3>2. /\ Path(r, journal') /\ r[Len(journal')] = Tables(ix')
          /\ \A i \in 1 .. Len(marks') : r[marks'[i]] = Tables(saved'[i])
      BY <1>7, <2>1, <2>2, <3>1
    <3> QED
      BY <3>2 DEF JournalLeadsHere
  <2>4. MarksInOrder'
    <3>1. Len(<<>>) = 0 /\ 1 .. 0 = {}
      OBVIOUS
    <3> QED
      BY <1>4, <1>5, <2>1, <3>1 DEF MarksInOrder
  <2>5. <<>> \in Seq(Entries)
    OBVIOUS
  <2> QED
    BY <1>0, <1>4, <1>5, <1>7, <1>9, <2>1, <2>3, <2>4, <2>5 DEF StoreInv
<1> QED
  BY <1>11, <1>12

-----------------------------------------------------------------------------
(* The operations, one by one.                                             *)

(* What the invariant says of the rows, and what the indices hold.         *)
LEMMA RowFacts ==
  ASSUME StoreInv
  PROVE  /\ now \in 0 .. MaxNow /\ MaxNow \in Nat
         /\ \A j \in JobsOf(ix) : /\ j \in JobIds /\ ix.jobs[j] \in Rows /\ ix.jobs[j] \in Row
                                  /\ ix.jobs[j].id = j /\ ix.jobs[j] # NULL
                                  /\ ix.jobs[j].chain \in JobsOf(ix)
                                  /\ ix.jobs[ix.jobs[j].chain].chain = ix.jobs[j].chain
         /\ \A r \in Rows : r \in Row /\ r.id \in JobsOf(ix) /\ ix.jobs[r.id] = r /\ r # NULL
         /\ Proper(Rows) /\ IsFiniteSet(Rows)
         /\ \A r \in Rows : IsRoot(r) <=> r.index = 0
         /\ \A a, b \in Rows : Open(a) /\ Open(b) /\ a.key = b.key => a = b
         /\ ix.jobs \in [JobIds -> Row \cup {NULL}]
         /\ ix.blockers \in [JobIds -> SUBSET JobIds]
<1>1. /\ WellFormed(Tables(ix)) /\ Tables(ix).jobs = ix.jobs
      /\ Tables(ix).blockers = ix.blockers /\ RowsIn(ix.jobs) = Rows
      /\ Present(ix.jobs) = JobsOf(ix) /\ Whole(Tables(ix)) /\ Tables(ix) \in AllTables
  BY TablesWellFormed, WellFormedType DEF StoreInv
<1>2. /\ \A j \in JobsOf(ix) : ix.jobs[j].id = j
      /\ Proper(Rows) /\ \A r \in Rows : IsRoot(r) <=> r.index = 0
      /\ \A a, b \in Rows : Open(a) /\ Open(b) /\ a.key = b.key => a = b
      /\ ix.jobs \in [JobIds -> Row \cup {NULL}]
      /\ ix.blockers \in [JobIds -> SUBSET JobIds]
  BY <1>1 DEF WellFormed, AllTables
<1>3. \A j \in JobsOf(ix) : /\ j \in JobIds /\ ix.jobs[j] \in Rows /\ ix.jobs[j] # NULL
  BY DEF JobsOf, Rows
<1>4. \A j \in JobsOf(ix) : /\ ix.jobs[j].chain \in JobsOf(ix)
                            /\ ix.jobs[ix.jobs[j].chain].chain = ix.jobs[j].chain
  BY <1>1 DEF Whole, Rooted
<1>5. \A r \in Rows : r \in Row /\ r.id \in JobsOf(ix) /\ ix.jobs[r.id] = r /\ r # NULL
  <2>1. \A r \in Rows : r \in Row
    BY <1>2 DEF Proper
  <2>2. \A r \in Rows : \E j \in JobsOf(ix) : r = ix.jobs[j]
    BY DEF Rows
  <2> QED
    BY <1>2, <1>3, <2>1, <2>2
<1>6. IsFiniteSet(Rows)
  BY <1>2, RowsFinite
<1>7. now \in 0 .. MaxNow /\ MaxNow \in Nat
  BY BoundsType DEF StoreInv
<1> QED
  BY <1>2, <1>3, <1>4, <1>5, <1>6, <1>7

(* What the invariant says of the chains.                                  *)
LEMMA ChainFacts ==
  ASSUME StoreInv, NEW j \in JobsOf(ix)
  PROVE  /\ ix.jobs[j].key # NULL => ix.jobs[j].chain = j
         /\ \A i \in 0 .. ix.jobs[j].index :
              \E h \in JobsOf(ix) : ix.jobs[h].chain = ix.jobs[j].chain /\ ix.jobs[h].index = i
<1>1. Tables(ix).jobs = ix.jobs /\ Present(ix.jobs) = JobsOf(ix) /\ Whole(Tables(ix))
  BY TablesWellFormed DEF StoreInv
<1> QED
  BY <1>1 DEF Whole, KeyedRoots, Unbroken

(* What the invariant says of the indices.                                 *)
LEMMA IndexFacts ==
  ASSUME StoreInv
  PROVE  /\ Indexed(ix, Rows) /\ ToSet(ix.seqs) = JobsOf(ix) /\ Numbers(ix.seqs)
         /\ \A c \in JobIds : ix.byChain[c] = {r \in Rows : r.chain = c}
         /\ \A k \in Keys : ix.dedup[k] = {r \in Rows : IsRoot(r) /\ r.key = k}
         /\ \A t \in Types :
              /\ Sorted(ix.seqs, "scheduledAt", ix.pending[t], OfStatus(Rows, t, "pending"))
              /\ Sorted(ix.seqs, "leasedUntil", ix.running[t], OfStatus(Rows, t, "running"))
<1>1. Indexed(ix, Rows) /\ ToSet(ix.seqs) = JobsOf(ix)
  BY TablesWellFormed DEF StoreInv, Agree
<1> QED
  BY <1>1 DEF Indexed, OfChain, OfKey

(* createJobs makes rows.                                                  *)
LEMMA RowType ==
  ASSUME StoreInv, NEW id \in JobIds, NEW type \in Types, NEW c \in JobIds, NEW i \in Nat,
         NEW at \in ScheduleTimes, NEW key \in Keys \cup {NULL}
  PROVE  LET r == NewRow(id, type, c, i, at, key) IN
           /\ r \in Row /\ r.id = id /\ r.chain = c /\ r.index = i /\ r.key = key
           /\ r.status = "pending"
<1>1. now \in 0 .. MaxNow /\ MaxNow \in Nat
  BY RowFacts
<1>2. at \in 0 .. MaxNow + 1
  BY <1>1, DelaysType DEF ScheduleTimes
<1>3. Unleased \in 0 .. Unleased
  BY <1>1 DEF Unleased
<1> QED
  BY <1>2, <1>3 DEF NewRow, Row

(* A job is created at a free place of its chain, or starts a chain.       *)
LEMMA CreateAdvances ==
  ASSUME StoreInv, NEW r \in Row, Perform(<<JobEntry(NULL, r)>>), ix.jobs[r.id] = NULL,
         \A b \in Rows : ~(b.chain = r.chain /\ b.index = r.index),
         IsRoot(r) <=> r.index = 0,
         Open(r) => \A b \in Rows : Open(b) => b.key # r.key,
         IsRoot(r) \/ (r.chain \in JobsOf(ix) /\ ix.jobs[r.chain].chain = r.chain),
         r.key # NULL => IsRoot(r),
         r.index # 0 => \E h \in JobsOf(ix) : /\ ix.jobs[h].chain = r.chain
                                              /\ ix.jobs[h].index = r.index - 1
  PROVE  Advances /\ ix'.jobs[r.id] = r /\ OnlyRows({r.id})
<1>1. /\ WellFormed(Tables(ix)) /\ Tables(ix).jobs = ix.jobs /\ RowsIn(ix.jobs) = Rows
      /\ Present(ix.jobs) = JobsOf(ix) /\ Tables(ix).blockers = ix.blockers
  BY TablesWellFormed
<1>2. PICK m : /\ Leads(Tables(ix), <<JobEntry(NULL, r)>>, m)
               /\ m.jobs = [ix.jobs EXCEPT ![r.id] = r] /\ m.blockers = ix.blockers
  <2> DEFINE k == Tables(ix)
  <2>1. /\ WellFormed(k) /\ k.jobs = ix.jobs /\ RowsIn(k.jobs) = Rows /\ k.jobs[r.id] = NULL
        /\ k.blockers = ix.blockers
    BY <1>1
  <2> HIDE DEF k
  <2>2. \E m : /\ Leads(k, <<JobEntry(NULL, r)>>, m)
               /\ m.jobs = [k.jobs EXCEPT ![r.id] = r] /\ m.blockers = k.blockers
    BY <2>1, CreateLeads
  <2> QED
    BY <2>1, <2>2 DEF k
<1>3. <<JobEntry(NULL, r)>> \in Seq(Entries)
  BY JobEntryType
<1>5. /\ ix.jobs \in [JobIds -> Row \cup {NULL}] /\ r.id \in JobIds /\ r # NULL /\ r.index \in Nat
      /\ \A j \in JobsOf(ix) : /\ j \in JobIds /\ ix.jobs[j] # NULL /\ ix.jobs[j].id = j
                               /\ ix.jobs[j].chain \in JobsOf(ix) /\ ix.jobs[j].index \in Nat
                               /\ ix.jobs[ix.jobs[j].chain].chain = ix.jobs[j].chain
  BY RowFacts, NullIsNoValue DEF Row
<1>6. \A j \in JobIds : m.jobs[j] = IF j = r.id THEN r ELSE ix.jobs[j]
  BY <1>2, <1>5
<1>7. r.id \notin JobsOf(ix)
  BY DEF JobsOf
<1>8. /\ \A j \in JobsOf(ix) : j \in Present(m.jobs) /\ m.jobs[j] = ix.jobs[j]
      /\ \A j \in Present(m.jobs) : j = r.id \/ j \in JobsOf(ix)
      /\ r.id \in Present(m.jobs) /\ m.jobs[r.id] = r
  BY <1>5, <1>6, <1>7 DEF Present, JobsOf
<1>9. Rooted(m)
  <2> SUFFICES ASSUME NEW j \in Present(m.jobs)
               PROVE  m.jobs[j].chain \in Present(m.jobs)
                      /\ m.jobs[m.jobs[j].chain].chain = m.jobs[j].chain
    BY DEF Rooted
  <2>1. CASE j = r.id
    BY <1>8, <2>1 DEF IsRoot
  <2>2. CASE j \in JobsOf(ix)
    BY <1>5, <1>8, <2>2
  <2> QED
    BY <1>8, <2>1, <2>2
<1>10. Unbroken(m)
  <2> SUFFICES ASSUME NEW j \in Present(m.jobs), NEW i \in 0 .. m.jobs[j].index
               PROVE  \E h \in Present(m.jobs) :
                        m.jobs[h].chain = m.jobs[j].chain /\ m.jobs[h].index = i
    BY DEF Unbroken
  <2>1. CASE j \in JobsOf(ix)
    <3>1. \E h \in JobsOf(ix) : ix.jobs[h].chain = ix.jobs[j].chain /\ ix.jobs[h].index = i
      BY <1>8, <2>1, ChainFacts
    <3> QED
      BY <1>8, <2>1, <3>1
  <2>2. CASE j = r.id /\ i = r.index
    BY <1>8, <2>2
  <2>3. CASE j = r.id /\ i # r.index
    <3>1. i \in 0 .. r.index - 1 /\ r.index # 0
      BY <1>5, <1>8, <2>3
    <3>2. PICK g \in JobsOf(ix) : ix.jobs[g].chain = r.chain /\ ix.jobs[g].index = r.index - 1
      BY <3>1
    <3>3. \E h \in JobsOf(ix) : ix.jobs[h].chain = ix.jobs[g].chain /\ ix.jobs[h].index = i
      BY <3>1, <3>2, ChainFacts
    <3> QED
      BY <1>8, <2>3, <3>2, <3>3
  <2> QED
    BY <1>8, <2>1, <2>2, <2>3
<1>11. KeyedRoots(m)
  <2>1. \A j \in JobsOf(ix) : ix.jobs[j].key # NULL => ix.jobs[j].chain = j
    BY ChainFacts
  <2> QED
    BY <1>8, <2>1 DEF KeyedRoots, IsRoot
<1>12. Advances
  BY <1>2, <1>3, <1>9, <1>10, <1>11 DEF Advances, Whole
<1>13. ix'.jobs = m.jobs /\ ix'.blockers = m.blockers
  BY <1>2, <1>3, Arrival
<1> QED
  BY <1>2, <1>5, <1>6, <1>12, <1>13 DEF OnlyRows

(* A root: no chain has its id, and no open root its key.                  *)
LEMMA CreateRootAdvances ==
  ASSUME StoreInv, NEW id \in JobIds, NEW type \in Types, NEW at \in ScheduleTimes,
         NEW key \in Keys \cup {NULL}, NEW scope, CreateRoot(id, type, at, key, scope)
  PROVE  /\ Advances /\ ix.jobs[id] = NULL /\ ~DedupHit(ix, key, scope)
         /\ ix'.jobs[id] = NewRow(id, type, id, 0, at, key) /\ OnlyRows({id})
<1> DEFINE r == NewRow(id, type, id, 0, at, key)
<1>1. /\ r \in Row /\ r.id = id /\ r.chain = id /\ r.index = 0 /\ r.key = key
      /\ r.status = "pending"
  <2>1. 0 \in Nat
    OBVIOUS
  <2> QED
    BY <2>1, RowType
<1>2. /\ ix.jobs[id] = NULL /\ ~DedupHit(ix, key, scope) /\ Perform(<<JobEntry(NULL, r)>>)
  BY DEF CreateRoot
<1> HIDE DEF r
<1>3. \A b \in Rows : b.chain # id
  <2>1. id \notin JobsOf(ix)
    BY <1>2 DEF JobsOf
  <2>2. \A b \in Rows : b.id \in JobsOf(ix) /\ ix.jobs[b.id] = b
    BY RowFacts
  <2>3. \A j \in JobsOf(ix) : ix.jobs[j].chain \in JobsOf(ix)
    BY RowFacts
  <2> QED
    BY <2>1, <2>2, <2>3
<1>4. IsRoot(r)
  BY <1>1 DEF IsRoot
<1>5. Open(r) => \A b \in Rows : Open(b) => b.key # r.key
  <2> SUFFICES ASSUME key # NULL, NEW b \in Rows, Open(b), b.key = key PROVE FALSE
    BY <1>1 DEF Open
  <2>1. key \in Keys
    OBVIOUS
  <2>2. b \in ix.dedup[key]
    BY <2>1, IndexFacts DEF Open
  <2> QED
    BY <1>2, <2>2 DEF DedupHit, Open
<1>6. Advances /\ ix'.jobs[r.id] = r /\ OnlyRows({r.id})
  BY <1>1, <1>2, <1>3, <1>4, <1>5, CreateAdvances
<1> QED
  BY <1>1, <1>2, <1>6 DEF r

(* A continuation: its place is free.                                      *)
LEMMA CreateContinuationAdvances ==
  ASSUME StoreInv, NEW id \in JobIds, NEW type \in Types, NEW at \in ScheduleTimes,
         NEW j \in JobsOf(ix),
         CreateContinuation(id, type, ix.jobs[j].chain, ix.jobs[j].index + 1, at)
  PROVE  LET c == ix.jobs[j].chain
             i == ix.jobs[j].index + 1
         IN  /\ Advances /\ ix.jobs[id] = NULL /\ \A b \in Rows : ~(b.chain = c /\ b.index = i)
             /\ ix'.jobs[id] = NewRow(id, type, c, i, at, NULL) /\ OnlyRows({id})
<1> DEFINE c == ix.jobs[j].chain
           i == ix.jobs[j].index + 1
           r == NewRow(id, type, c, i, at, NULL)
<1>1. /\ c \in JobsOf(ix) /\ c \in JobIds /\ ix.jobs[c].chain = c /\ ix.jobs[c] # NULL
      /\ ix.jobs[j] \in Row
  BY RowFacts
<1>2. i \in Nat /\ i # 0
  BY <1>1 DEF Row
<1>3. /\ ix.jobs[id] = NULL /\ ~HasContinuation(ix, c, i) /\ Perform(<<JobEntry(NULL, r)>>)
  BY DEF CreateContinuation
<1>7. ix.jobs[j].chain = c /\ ix.jobs[j].index = i - 1
  BY <1>1 DEF Row
<1> HIDE DEF c, i
<1>4. /\ r \in Row /\ r.id = id /\ r.chain = c /\ r.index = i /\ r.key = NULL
  BY <1>1, <1>2, RowType
<1> HIDE DEF r
<1>5. \A b \in Rows : ~(b.chain = c /\ b.index = i)
  <2> SUFFICES ASSUME NEW b \in Rows, b.chain = c, b.index = i PROVE FALSE
    OBVIOUS
  <2>1. b \in ix.byChain[c]
    BY <1>1, IndexFacts
  <2>2. ~IsRoot(b)
    BY <1>2, RowFacts
  <2> QED
    BY <1>3, <2>1, <2>2 DEF HasContinuation
<1>6. ~IsRoot(r)
  BY <1>1, <1>3, <1>4 DEF IsRoot
<1>8. Advances /\ ix'.jobs[r.id] = r /\ OnlyRows({r.id})
  BY <1>1, <1>2, <1>3, <1>4, <1>5, <1>6, <1>7, CreateAdvances DEF Open
<1> QED
  BY <1>3, <1>4, <1>5, <1>8 DEF r, c, i

(* createJobs.                                                             *)
LEMMA CreateJobsAdvances ==
  ASSUME StoreInv, CreateJobs
  PROVE  Advances
<1>1. PICK id \in JobIds, type \in Types, at \in ScheduleTimes :
        \/ \E key \in Keys \cup {NULL}, scope \in {"incomplete", "any"} :
             CreateRoot(id, type, at, key, scope)
        \/ \E j \in JobsOf(ix) :
             CreateContinuation(id, type, ix.jobs[j].chain, ix.jobs[j].index + 1, at)
  BY DEF CreateJobs
<1>2. CASE \E key \in Keys \cup {NULL}, scope \in {"incomplete", "any"} :
             CreateRoot(id, type, at, key, scope)
  BY <1>2, CreateRootAdvances
<1>3. CASE \E j \in JobsOf(ix) :
             CreateContinuation(id, type, ix.jobs[j].chain, ix.jobs[j].index + 1, at)
  BY <1>3, CreateContinuationAdvances
<1> QED
  BY <1>1, <1>2, <1>3

(* Updates, one of each of the jobs ids.                                   *)
LEMMA UpdatesAdvance ==
  ASSUME StoreInv, NEW ids \in Seq(JobIds), Distinct(ids), NEW es \in Seq(Entries),
         Len(es) = Len(ids), Perform(es),
         \A i \in 1 .. Len(ids) :
           es[i].kind = "job" /\ es[i].prev = ix.jobs[ids[i]] /\ Revises(es[i].prev, es[i].next)
  PROVE  /\ Advances /\ \A i \in 1 .. Len(ids) : ix'.jobs[ids[i]] = es[i].next
         /\ OnlyRows({ids[i] : i \in 1 .. Len(ids)})
<1>1. /\ WellFormed(Tables(ix)) /\ Tables(ix).jobs = ix.jobs /\ Whole(Tables(ix))
      /\ Tables(ix).blockers = ix.blockers
  BY TablesWellFormed DEF StoreInv
<1> DEFINE k == Tables(ix)
<1>2. \A i \in 1 .. Len(ids) :
        es[i].kind = "job" /\ es[i].prev = k.jobs[ids[i]] /\ Revises(es[i].prev, es[i].next)
  BY <1>1
<1>3. WellFormed(k) /\ Whole(k) /\ k.jobs = ix.jobs /\ k.blockers = ix.blockers
  BY <1>1
<1> HIDE DEF k
<1>4. PICK m : /\ Leads(k, es, m) /\ Whole(m) /\ m.blockers = k.blockers
               /\ \A i \in 1 .. Len(ids) : m.jobs[ids[i]] = es[i].next
               /\ \A j \in JobIds :
                    (\A i \in 1 .. Len(ids) : ids[i] # j) => m.jobs[j] = k.jobs[j]
  BY <1>2, <1>3, UpdatesLead
<1>5. Advances
  BY <1>4 DEF Advances, k
<1>6. ix'.jobs = m.jobs /\ ix'.blockers = m.blockers
  BY <1>4, Arrival DEF k
<1> QED
  BY <1>3, <1>4, <1>5, <1>6 DEF OnlyRows

(* An update of one job.                                                   *)
LEMMA UpdateAdvances ==
  ASSUME StoreInv, NEW job \in Rows, NEW new, Revises(job, new), Update(job, new)
  PROVE  /\ Advances /\ job.id \in JobsOf(ix) /\ ix.jobs[job.id] = job
         /\ ix'.jobs[job.id] = new /\ OnlyRows({job.id})
<1> DEFINE ids == <<job.id>>
           es == <<JobEntry(job, new)>>
<1>1. job \in Row /\ new \in Row /\ job.id \in JobIds /\ ix.jobs[job.id] = job
  BY RowFacts DEF Revises
<1>2. JobEntry(job, new) \in Entries
  BY <1>1, JobEntryType
<1>3. ids \in Seq(JobIds) /\ es \in Seq(Entries) /\ Len(ids) = 1 /\ Len(es) = 1
      /\ ids[1] = job.id /\ es[1] = JobEntry(job, new)
  BY <1>1, <1>2
<1>4. Perform(es)
  BY DEF Update
<1> HIDE DEF ids, es
<1>5. Distinct(ids)
  BY <1>3 DEF Distinct
<1>6. es[1].kind = "job" /\ es[1].prev = job /\ es[1].next = new
  BY <1>3 DEF JobEntry
<1>7. \A i \in 1 .. Len(ids) :
        es[i].kind = "job" /\ es[i].prev = ix.jobs[ids[i]] /\ Revises(es[i].prev, es[i].next)
  BY <1>1, <1>3, <1>6
<1>8. Advances /\ ix'.jobs[ids[1]] = es[1].next /\ OnlyRows({ids[i] : i \in 1 .. Len(ids)})
  <2>1. 1 \in 1 .. Len(ids)
    BY <1>3
  <2> QED
    BY <1>3, <1>4, <1>5, <1>7, <2>1, UpdatesAdvance
<1>9. {ids[i] : i \in 1 .. Len(ids)} = {job.id}
  BY <1>3
<1>10. job.id \in JobsOf(ix)
  BY RowFacts
<1> QED
  BY <1>1, <1>3, <1>6, <1>8, <1>9, <1>10

(* A new version of a row that changes these three fields only.            *)
LEMMA RevisedRow ==
  ASSUME NEW job \in Row, NEW status \in {"blocked", "pending", "running", "completed"},
         NEW at \in 0 .. MaxNow + 1, NEW lease \in 0 .. Unleased,
         job.status = "completed" => status = "completed",
         NEW new, new = [job EXCEPT !.status = status, !.scheduledAt = at, !.leasedUntil = lease]
  PROVE  Becomes(job, new, status, at, lease) /\ Revises(job, new)
<1>1. Revises(job, new)
  BY Zenon DEF Revises, Row
<1>2. new.status = status /\ new.scheduledAt = at /\ new.leasedUntil = lease
  BY Zenon DEF Row
<1> QED
  BY <1>1, <1>2 DEF Becomes

(* The fields that updates change, and updates that change fewer.          *)
LEMMA RowFields ==
  ASSUME NEW job \in Row
  PROVE  /\ job.status \in {"blocked", "pending", "running", "completed"}
         /\ job.scheduledAt \in 0 .. MaxNow + 1 /\ job.leasedUntil \in 0 .. Unleased
         /\ \A s : [job EXCEPT !.status = s]
                     = [job EXCEPT !.status = s, !.scheduledAt = job.scheduledAt,
                                   !.leasedUntil = job.leasedUntil]
         /\ \A s, l : [job EXCEPT !.status = s, !.leasedUntil = l]
                        = [job EXCEPT !.status = s, !.scheduledAt = job.scheduledAt,
                                      !.leasedUntil = l]
         /\ \A l : [job EXCEPT !.leasedUntil = l]
                     = [job EXCEPT !.status = job.status, !.scheduledAt = job.scheduledAt,
                                   !.leasedUntil = l]
         /\ \A s, a : [job EXCEPT !.status = s, !.scheduledAt = a]
                        = [job EXCEPT !.status = s, !.scheduledAt = a,
                                      !.leasedUntil = job.leasedUntil]
         /\ \A a : [job EXCEPT !.scheduledAt = a]
                     = [job EXCEPT !.status = job.status, !.scheduledAt = a,
                                   !.leasedUntil = job.leasedUntil]
  BY Zenon DEF Row

(* The times that updates write are in their ranges.                       *)
LEMMA Times ==
  ASSUME StoreInv
  PROVE  /\ now \in 0 .. MaxNow + 1 /\ now + 1 \in 0 .. Unleased /\ Unleased \in 0 .. Unleased
         /\ \A at \in ScheduleTimes : at \in 0 .. MaxNow + 1
         /\ \A t \in 0 .. MaxNow + 1 : ClampToFloor(t) \in 0 .. MaxNow + 1
<1>1. now \in 0 .. MaxNow /\ MaxNow \in Nat
  BY RowFacts
<1> QED
  BY <1>1, DelaysType DEF ScheduleTimes, Unleased, ClampToFloor

(* renewJobLease.                                                          *)
LEMMA RenewAdvances ==
  ASSUME StoreInv, RenewJobLease
  PROVE  /\ Advances
         /\ \E j \in JobsOf(ix) :
              /\ ix.jobs[j].status = "running" /\ OnlyRows({j})
              /\ Becomes(ix.jobs[j], ix'.jobs[j], "running", ix.jobs[j].scheduledAt, now + 1)
<1>1. PICK j \in JobsOf(ix) :
        /\ ix.jobs[j].status = "running"
        /\ Update(ix.jobs[j], [ix.jobs[j] EXCEPT !.leasedUntil = now + 1])
  BY DEF RenewJobLease
<1> DEFINE job == ix.jobs[j]
           new == [job EXCEPT !.leasedUntil = now + 1]
<1>2. job \in Rows /\ job \in Row
  BY SMTT(40), RowFacts
<1> HIDE DEF job
<1>3. Becomes(job, new, job.status, job.scheduledAt, now + 1) /\ Revises(job, new)
  <2>1. new = [job EXCEPT !.status = job.status, !.scheduledAt = job.scheduledAt,
                          !.leasedUntil = now + 1]
    BY Zenon, <1>2, RowFields
  <2> HIDE DEF new
  <2> QED
    BY ZenonT(40), <1>2, <2>1, Times, RowFields, RevisedRow
<1>4. Update(job, new) /\ job.status = "running"
  BY <1>1 DEF job
<1> HIDE DEF new
<1>5. /\ Advances /\ job.id \in JobsOf(ix) /\ ix.jobs[job.id] = job
      /\ ix'.jobs[job.id] = new /\ OnlyRows({job.id})
  BY <1>2, <1>3, <1>4, UpdateAdvances
<1> QED
  BY Zenon, <1>3, <1>4, <1>5

(* rescheduleJob.                                                          *)
LEMMA RescheduleAdvances ==
  ASSUME StoreInv, RescheduleJob
  PROVE  /\ Advances
         /\ \E j \in JobsOf(ix), at \in ScheduleTimes :
              /\ ix.jobs[j].status = "running" /\ OnlyRows({j})
              /\ Becomes(ix.jobs[j], ix'.jobs[j], "pending", at, Unleased)
<1>1. PICK j \in JobsOf(ix), at \in ScheduleTimes :
        /\ ix.jobs[j].status = "running"
        /\ Update(ix.jobs[j], [ix.jobs[j] EXCEPT !.status = "pending", !.scheduledAt = at,
                                                 !.leasedUntil = Unleased])
  BY Zenon DEF RescheduleJob
<1> DEFINE job == ix.jobs[j]
           new == [job EXCEPT !.status = "pending", !.scheduledAt = at, !.leasedUntil = Unleased]
<1>2. job \in Rows /\ job \in Row
  BY RowFacts
<1>3. job.status = "running"
  BY <1>1
<1>4. Update(job, new)
  BY SMTT(40), <1>1
<1> HIDE DEF job
<1>5. Becomes(job, new, "pending", at, Unleased) /\ Revises(job, new)
  BY Zenon, <1>2, <1>3, Times, RowFields, RevisedRow
<1> HIDE DEF new
<1>6. /\ Advances /\ job.id \in JobsOf(ix) /\ ix.jobs[job.id] = job
      /\ ix'.jobs[job.id] = new /\ OnlyRows({job.id})
  BY <1>2, <1>4, <1>5, UpdateAdvances
<1> QED
  BY Zenon, <1>3, <1>5, <1>6

(* completeJob.                                                            *)
LEMMA CompleteAdvances ==
  ASSUME StoreInv, CompleteJob
  PROVE  /\ Advances
         /\ \E j \in JobsOf(ix) :
              /\ ix.jobs[j].status # "completed" /\ OnlyRows({j})
              /\ Becomes(ix.jobs[j], ix'.jobs[j], "completed", ix.jobs[j].scheduledAt, Unleased)
<1>1. PICK j \in JobsOf(ix) :
        /\ ix.jobs[j].status # "completed"
        /\ Update(ix.jobs[j], [ix.jobs[j] EXCEPT !.status = "completed",
                                                 !.leasedUntil = Unleased])
  BY Zenon DEF CompleteJob
<1> DEFINE job == ix.jobs[j]
           new == [job EXCEPT !.status = "completed", !.leasedUntil = Unleased]
<1>2. job \in Rows /\ job \in Row
  BY SMTT(40), RowFacts
<1>3. Update(job, new)
  BY SMTT(40), <1>1
<1>5. job.status # "completed"
  BY <1>1
<1> HIDE DEF job
<1>4. Becomes(job, new, "completed", job.scheduledAt, Unleased) /\ Revises(job, new)
  <2>1. new = [job EXCEPT !.status = "completed", !.scheduledAt = job.scheduledAt,
                          !.leasedUntil = Unleased]
    BY Zenon, <1>2, RowFields
  <2> HIDE DEF new
  <2> QED
    BY ZenonT(40), <1>2, <2>1, Times, RowFields, RevisedRow
<1> HIDE DEF new
<1>6. /\ Advances /\ job.id \in JobsOf(ix) /\ ix.jobs[job.id] = job
      /\ ix'.jobs[job.id] = new /\ OnlyRows({job.id})
  BY <1>2, <1>3, <1>4, UpdateAdvances
<1> QED
  BY Zenon, <1>4, <1>5, <1>6

(* Of the heads that are due there is an earliest, and acquireJob takes it.*)
LEMMA HeadIsFirst ==
  ASSUME StoreInv, NEW t \in Types
  PROVE  /\ FirstOf(ix.pending[t]) # NULL <=> OfStatus(Rows, t, "pending") # {}
         /\ FirstOf(ix.pending[t]) # NULL =>
              /\ FirstOf(ix.pending[t]) \in OfStatus(Rows, t, "pending")
              /\ \A r \in OfStatus(Rows, t, "pending") \ {FirstOf(ix.pending[t])} :
                   Earlier(ix.seqs, "scheduledAt", FirstOf(ix.pending[t]), r)
<1> DEFINE items == ix.pending[t]
           R == OfStatus(Rows, t, "pending")
<1>1. Sorted(ix.seqs, "scheduledAt", items, R)
  BY IndexFacts
<1>2. \A r \in R : r # NULL
  BY RowFacts DEF OfStatus
<1> HIDE DEF R, items
<1>3. /\ items \in Seq(Row) /\ Len(items) \in Nat /\ ToSet(items) = R
      /\ \A i \in 1 .. Len(items) : items[i] \in R
      /\ \A r \in R : \E i \in 1 .. Len(items) : items[i] = r
      /\ \A i, k \in 1 .. Len(items) : i < k => Earlier(ix.seqs, "scheduledAt", items[i], items[k])
  BY <1>1, SeqElements DEF Sorted
<1>4. CASE items = <<>>
  <2>1. Len(items) = 0
    BY <1>4
  <2>2. R = {}
    BY <1>3, <2>1
  <2>3. FirstOf(items) = NULL
    BY <1>4 DEF FirstOf
  <2> QED
    BY <2>2, <2>3 DEF items, R
<1>5. CASE items # <<>>
  <2>1. 1 \in 1 .. Len(items)
    BY <1>3, <1>5, EmptySeq
  <2>2. FirstOf(items) = items[1] /\ items[1] \in R /\ items[1] # NULL
    BY <1>2, <1>3, <1>5, <2>1 DEF FirstOf
  <2>3. ASSUME NEW r \in R, r # items[1] PROVE Earlier(ix.seqs, "scheduledAt", items[1], r)
    <3>1. PICK i \in 1 .. Len(items) : items[i] = r
      BY <1>3
    <3>2. 1 < i
      BY <2>3, <3>1
    <3> QED
      BY <1>3, <2>1, <3>1, <3>2
  <2> QED
    BY <2>2, <2>3 DEF items, R
<1> QED
  BY <1>4, <1>5

(* acquireJob takes the earliest of the heads that are due.                *)
LEMMA BestIsEarliest ==
  ASSUME StoreInv, NEW T \in SUBSET Types
  PROVE  /\ BestJob(ix, T) = NULL <=> DueHeads(ix, T) = {}
         /\ DueHeads(ix, T) \subseteq {r \in Rows : r.type \in T /\ r.status = "pending"
                                                    /\ r.scheduledAt <= now}
         /\ DueHeads(ix, T) # {} =>
              /\ BestJob(ix, T) \in DueHeads(ix, T)
              /\ \A r \in DueHeads(ix, T) \ {BestJob(ix, T)} :
                   Earlier(ix.seqs, "scheduledAt", BestJob(ix, T), r)
<1> DEFINE D == DueHeads(ix, T)
           before == {e \in Row \X Row : Earlier(ix.seqs, "scheduledAt", e[1], e[2])}
<1>1. D \subseteq {r \in Rows : r.type \in T /\ r.status = "pending" /\ r.scheduledAt <= now}
  <2> SUFFICES ASSUME NEW t \in T, FirstOf(ix.pending[t]) # NULL
               PROVE  FirstOf(ix.pending[t]) \in {r \in Rows : r.type \in T /\ r.status = "pending"}
    BY DEF DueHeads
  <2>1. FirstOf(ix.pending[t]) \in OfStatus(Rows, t, "pending")
    BY HeadIsFirst
  <2> QED
    BY <2>1 DEF OfStatus
<1> HIDE DEF D
<1>2. \A r \in D : r \in Rows /\ r \in Row /\ r # NULL /\ r.id \in ToSet(ix.seqs)
                   /\ ix.jobs[r.id] = r
  BY <1>1, RowFacts, IndexFacts
<1>3. IsFiniteSet(D)
  BY <1>1, RowFacts, FS_Subset
<1>4. Numbers(ix.seqs) /\ "scheduledAt" \in Orders
  BY IndexFacts DEF Orders
<1>5. \A a, b \in Row : <<a, b>> \in before <=> Earlier(ix.seqs, "scheduledAt", a, b)
  OBVIOUS
<1> HIDE DEF before
<1>6. \A a, b \in D : a # b => <<a, b>> \in before \/ <<b, a>> \in before
  <2>1. \A a, b \in D : a # b => a.id # b.id
    BY <1>2
  <2> QED
    BY <1>2, <1>4, <1>5, <2>1, EarlierOrders
<1>7. \A a, b, c \in D : <<a, b>> \in before /\ <<b, c>> \in before => <<a, c>> \in before
  BY <1>2, <1>4, <1>5, EarlierOrders
<1>8. CASE D # {}
  <2>1. \E x \in D : \A y \in D \ {x} : <<x, y>> \in before
    BY <1>3, <1>6, <1>7, <1>8, FiniteLeast
  <2>2. \E x \in D : \A y \in D \ {x} : Earlier(ix.seqs, "scheduledAt", x, y)
    BY <1>2, <1>5, <2>1
  <2>3. BestJob(ix, T) = CHOOSE x \in D : \A y \in D \ {x} : Earlier(ix.seqs, "scheduledAt", x, y)
    BY <1>8 DEF BestJob, D
  <2> QED
    BY <1>1, <1>2, <1>8, <2>2, <2>3 DEF D
<1>9. CASE D = {}
  BY <1>1, <1>9 DEF BestJob, D
<1> QED
  BY <1>8, <1>9

(* acquireJob.                                                             *)
LEMMA AcquireAdvances ==
  ASSUME StoreInv, AcquireJob
  PROVE  /\ Advances
         /\ \E j \in JobsOf(ix) :
              /\ ix.jobs[j].status = "pending" /\ ix.jobs[j].scheduledAt <= now /\ OnlyRows({j})
              /\ Becomes(ix.jobs[j], ix'.jobs[j], "running", ix.jobs[j].scheduledAt,
                         ix.jobs[j].leasedUntil)
<1>1. PICK T \in SUBSET Types :
        /\ BestJob(ix, T) # NULL
        /\ Update(BestJob(ix, T), [BestJob(ix, T) EXCEPT !.status = "running"])
  BY DEF AcquireJob
<1> DEFINE job == BestJob(ix, T)
           new == [job EXCEPT !.status = "running"]
<1>2. job \in Rows /\ job.status = "pending" /\ job.scheduledAt <= now
  BY <1>1, BestIsEarliest
<1>3. Update(job, new)
  BY <1>1
<1> HIDE DEF job
<1>4. job \in Row
  BY SMTT(40), <1>2, RowFacts
<1>5. Becomes(job, new, "running", job.scheduledAt, job.leasedUntil) /\ Revises(job, new)
  <2>1. new = [job EXCEPT !.status = "running", !.scheduledAt = job.scheduledAt,
                          !.leasedUntil = job.leasedUntil]
    BY Zenon, <1>2, <1>4, RowFields
  <2> HIDE DEF new
  <2> QED
    BY ZenonT(40), <1>2, <1>4, <2>1, RowFields, RevisedRow
<1> HIDE DEF new
<1>6. /\ Advances /\ job.id \in JobsOf(ix) /\ ix.jobs[job.id] = job
      /\ ix'.jobs[job.id] = new /\ OnlyRows({job.id})
  BY <1>2, <1>3, <1>5, UpdateAdvances
<1> QED
  BY Zenon, <1>2, <1>5, <1>6

(* What the reaper takes from a running set: the first row, in the order   *)
(* of the set, that has expired with all before it and is not ignored.     *)
LEMMA FirstExpiredIs ==
  ASSUME NEW items \in Seq(Row), NEW ignored, FirstExpired(items, ignored) # NULL
  PROVE  \E i \in 1 .. Len(items) :
           /\ FirstExpired(items, ignored) = items[i] /\ items[i].id \notin ignored
           /\ \A k \in 1 .. i : items[k].leasedUntil <= now
           /\ \A k \in 1 .. Len(items) :
                (\A h \in 1 .. k : items[h].leasedUntil <= now) /\ items[k].id \notin ignored => i <= k
<1> DEFINE found == {i \in 1 .. Len(items) : /\ \A k \in 1 .. i : items[k].leasedUntil <= now
                                             /\ items[i].id \notin ignored}
           first == CHOOSE i \in found : \A k \in found : i <= k
<1>1. DOMAIN items = 1 .. Len(items) /\ Len(items) \in Nat
  BY LenProperties
<1>2. FirstExpired(items, ignored) = IF found = {} THEN NULL ELSE items[first]
  <2> DEFINE expired == {i \in DOMAIN items : \A k \in 1 .. i : items[k].leasedUntil <= now}
             F == {i \in expired : items[i].id \notin ignored}
  <2>1. FirstExpired(items, ignored)
          = IF F = {} THEN NULL ELSE items[CHOOSE i \in F : \A k \in F : i <= k]
    BY DEF FirstExpired
  <2>2. F = found
    BY <1>1
  <2> HIDE DEF found, F
  <2> QED
    BY <2>1, <2>2
<1>3. found # {}
  BY <1>2
<1>4. first \in found /\ \A k \in found : first <= k
  <2>1. found \in SUBSET Nat
    BY <1>1
  <2> HIDE DEF found
  <2>2. \E i \in found : \A k \in found : i <= k
    BY <1>3, <2>1, LeastElement
  <2> QED
    BY <2>2
<1> HIDE DEF first
<1>5. FirstExpired(items, ignored) = items[first]
  BY <1>2, <1>3
<1> QED
  BY <1>4, <1>5

(* reapExpiredJobLease.                                                    *)
LEMMA ReapAdvances ==
  ASSUME StoreInv, ReapExpiredJobLease
  PROVE  /\ Advances
         /\ \E j \in JobsOf(ix) :
              /\ ix.jobs[j].status = "running" /\ ix.jobs[j].leasedUntil <= now /\ OnlyRows({j})
              /\ Becomes(ix.jobs[j], ix'.jobs[j], "pending", ix.jobs[j].scheduledAt, Unleased)
<1>1. PICK T \in SUBSET Types, ignored \in SUBSET JobsOf(ix) :
        \E job \in ReapCandidates(ix, T, ignored) :
          Update(job, [job EXCEPT !.status = "pending", !.leasedUntil = Unleased])
  BY Zenon DEF ReapExpiredJobLease
<1>2. PICK job \in ReapCandidates(ix, T, ignored) :
        Update(job, [job EXCEPT !.status = "pending", !.leasedUntil = Unleased])
  BY Zenon, <1>1
<1>3. PICK t \in T : job = FirstExpired(ix.running[t], ignored) /\ job # NULL
  BY DEF ReapCandidates
<1> DEFINE items == ix.running[t]
           new == [job EXCEPT !.status = "pending", !.leasedUntil = Unleased]
<1>4. Sorted(ix.seqs, "leasedUntil", items, OfStatus(Rows, t, "running"))
  BY IndexFacts
<1> HIDE DEF items
<1>5. items \in Seq(Row) /\ \A i \in 1 .. Len(items) : items[i] \in OfStatus(Rows, t, "running")
  BY <1>4, SeqElements DEF Sorted
<1>6. \E i \in 1 .. Len(items) : job = items[i] /\ job.leasedUntil <= now
  <2>1. PICK i \in 1 .. Len(items) :
          job = items[i] /\ \A k \in 1 .. i : items[k].leasedUntil <= now
    BY <1>3, <1>5, FirstExpiredIs DEF items
  <2>2. i \in 1 .. i
    OBVIOUS
  <2> QED
    BY <2>1, <2>2
<1>7. job \in Rows /\ job.status = "running" /\ job.leasedUntil <= now
  BY <1>5, <1>6 DEF OfStatus
<1>8. job \in Row
  BY SMTT(40), <1>7, RowFacts
<1>9. Becomes(job, new, "pending", job.scheduledAt, Unleased) /\ Revises(job, new)
  <2>1. new = [job EXCEPT !.status = "pending", !.scheduledAt = job.scheduledAt,
                          !.leasedUntil = Unleased]
    BY Zenon, <1>8, RowFields
  <2> HIDE DEF new
  <2> QED
    BY ZenonT(40), <1>7, <1>8, <2>1, Times, RowFields, RevisedRow
<1>10. Update(job, new)
  BY <1>2
<1> HIDE DEF new
<1>11. /\ Advances /\ job.id \in JobsOf(ix) /\ ix.jobs[job.id] = job
       /\ ix'.jobs[job.id] = new /\ OnlyRows({job.id})
  BY <1>7, <1>9, <1>10, UpdateAdvances
<1> QED
  BY Zenon, <1>7, <1>9, <1>11

(* unblockJobs.                                                            *)
LEMMA UnblockAdvances ==
  ASSUME StoreInv, UnblockJobs
  PROVE  /\ Advances
         /\ \E c \in JobIds :
              /\ OnlyRows(Unblocked(ix, c))
              /\ \A q \in Unblocked(ix, c) :
                   /\ q \in JobsOf(ix)
                   /\ Becomes(ix.jobs[q], ix'.jobs[q], "pending",
                              ClampToFloor(ix.jobs[q].scheduledAt), ix.jobs[q].leasedUntil)
<1>1. PICK c \in JobIds : UnblockJobsOf(c)
  BY DEF UnblockJobs
<1> DEFINE U == Unblocked(ix, c)
           ready == SetToSeq(U)
           Ready(job) == [job EXCEPT !.status = "pending", !.scheduledAt = ClampToFloor(@)]
           es == [i \in DOMAIN ready |-> JobEntry(ix.jobs[ready[i]], Ready(ix.jobs[ready[i]]))]
<1>2. Perform(es)
  BY Zenon, <1>1 DEF UnblockJobsOf
<1>3. \A q \in U : q \in JobsOf(ix) /\ ix.jobs[q].status = "blocked"
  <2>1. Agree(ix) /\ ix \in Store
    BY AgreeIsStore DEF StoreInv
  <2>2. ix.blockedBy[c] \in SUBSET JobIds
    BY <2>1 DEF Store
  <2> QED
    BY <2>2 DEF Unblocked, JobsOf
<1>4. U \in SUBSET JobIds /\ IsFiniteSet(U)
  <2>1. U \in SUBSET JobIds
    BY <1>3 DEF JobsOf
  <2> QED
    BY <2>1, FiniteIds, FS_Subset
<1> HIDE DEF U
<1>5. /\ ready \in Seq(U) /\ Len(ready) \in Nat /\ DOMAIN ready = 1 .. Len(ready)
      /\ Distinct(ready) /\ \A i \in 1 .. Len(ready) : ready[i] \in U
      /\ \A q \in U : \E i \in 1 .. Len(ready) : ready[i] = q
  BY <1>4, SeqOfSet
<1> HIDE DEF ready
<1>6. ready \in Seq(JobIds)
  BY <1>4, <1>5, SeqDef
<1>7. \A r \in Rows : r.status = "blocked" =>
        /\ Revises(r, Ready(r))
        /\ Becomes(r, Ready(r), "pending", ClampToFloor(r.scheduledAt), r.leasedUntil)
  <2> SUFFICES ASSUME NEW r \in Rows, r.status = "blocked"
               PROVE  /\ Revises(r, Ready(r))
                      /\ Becomes(r, Ready(r), "pending", ClampToFloor(r.scheduledAt),
                                 r.leasedUntil)
    BY Zenon
  <2>1. r \in Row
    BY SMTT(40), RowFacts
  <2>2. /\ r.scheduledAt \in 0 .. MaxNow + 1 /\ r.leasedUntil \in 0 .. Unleased
    BY Zenon, <2>1, RowFields
  <2>3. ClampToFloor(r.scheduledAt) \in 0 .. MaxNow + 1
    BY <2>2, Times
  <2>4. Ready(r) = [r EXCEPT !.status = "pending", !.scheduledAt = ClampToFloor(r.scheduledAt),
                             !.leasedUntil = r.leasedUntil]
    BY <2>1 DEF Row
  <2> HIDE DEF Ready
  <2> QED
    BY Zenon, <2>1, <2>2, <2>3, <2>4, RevisedRow
<1> HIDE DEF Ready
<1>8. \A i \in 1 .. Len(ready) :
        /\ ix.jobs[ready[i]] \in Rows /\ ix.jobs[ready[i]] \in Row
        /\ Revises(ix.jobs[ready[i]], Ready(ix.jobs[ready[i]]))
        /\ Becomes(ix.jobs[ready[i]], Ready(ix.jobs[ready[i]]), "pending",
                   ClampToFloor(ix.jobs[ready[i]].scheduledAt), ix.jobs[ready[i]].leasedUntil)
        /\ es[i] = JobEntry(ix.jobs[ready[i]], Ready(ix.jobs[ready[i]]))
  BY <1>3, <1>5, <1>7, RowFacts
<1>9. DOMAIN es = 1 .. Len(ready) /\ es = [i \in 1 .. Len(ready) |-> es[i]]
  BY <1>5
<1> HIDE DEF es
<1>10. \A i \in 1 .. Len(ready) :
         /\ es[i] \in Entries /\ es[i].kind = "job" /\ es[i].prev = ix.jobs[ready[i]]
         /\ Revises(es[i].prev, es[i].next) /\ es[i].next = Ready(ix.jobs[ready[i]])
  <2> SUFFICES ASSUME NEW i \in 1 .. Len(ready)
               PROVE  /\ es[i] \in Entries /\ es[i].kind = "job" /\ es[i].prev = ix.jobs[ready[i]]
                      /\ Revises(es[i].prev, es[i].next) /\ es[i].next = Ready(ix.jobs[ready[i]])
    OBVIOUS
  <2> DEFINE r == ix.jobs[ready[i]]
  <2>1. r \in Row /\ Revises(r, Ready(r)) /\ es[i] = JobEntry(r, Ready(r))
    BY <1>8
  <2> HIDE DEF r
  <2>2. Ready(r) \in Row
    BY <2>1 DEF Revises
  <2>3. es[i].kind = "job" /\ es[i].prev = r /\ es[i].next = Ready(r)
    BY <2>1 DEF JobEntry
  <2> QED
    BY <2>1, <2>2, <2>3, JobEntryType DEF r
<1>11. es \in Seq(Entries) /\ Len(es) = Len(ready)
  <2>1. es \in [1 .. Len(ready) -> Entries]
    BY <1>9, <1>10
  <2> QED
    BY <1>5, <2>1, SeqDef
<1>12. /\ Advances /\ \A i \in 1 .. Len(ready) : ix'.jobs[ready[i]] = es[i].next
       /\ OnlyRows({ready[i] : i \in 1 .. Len(ready)})
  BY <1>2, <1>5, <1>6, <1>10, <1>11, UpdatesAdvance
<1>13. {ready[i] : i \in 1 .. Len(ready)} = U
  BY <1>5
<1>14. \A q \in U : Becomes(ix.jobs[q], ix'.jobs[q], "pending",
                            ClampToFloor(ix.jobs[q].scheduledAt), ix.jobs[q].leasedUntil)
  <2> SUFFICES ASSUME NEW q \in U
               PROVE  Becomes(ix.jobs[q], ix'.jobs[q], "pending",
                              ClampToFloor(ix.jobs[q].scheduledAt), ix.jobs[q].leasedUntil)
    OBVIOUS
  <2>1. PICK i \in 1 .. Len(ready) : ready[i] = q
    BY <1>5
  <2>2. ix'.jobs[q] = Ready(ix.jobs[q])
    BY <1>10, <1>12, <2>1
  <2> QED
    BY <1>8, <2>1, <2>2
<1> QED
  BY <1>3, <1>12, <1>13, <1>14 DEF U

(* triggerJobs.                                                            *)
LEMMA TriggerAdvances ==
  ASSUME StoreInv, TriggerJobs
  PROVE  /\ Advances
         /\ \E J \in SUBSET JobsOf(ix) :
              /\ OnlyRows(J)
              /\ \A j \in J : /\ ix.jobs[j].status = "pending"
                              /\ Becomes(ix.jobs[j], ix'.jobs[j], ix.jobs[j].status, now,
                                         ix.jobs[j].leasedUntil)
<1>1. PICK J \in SUBSET JobsOf(ix) :
        LET rows == SetToSeq({ix.jobs[j] : j \in J}) IN
          /\ \A j \in J : ix.jobs[j].status = "pending"
          /\ Perform([i \in DOMAIN rows |->
                        JobEntry(rows[i], [rows[i] EXCEPT !.scheduledAt = now])])
  BY DEF TriggerJobs
<1> DEFINE R == {ix.jobs[j] : j \in J}
           rows == SetToSeq(R)
           Due(r) == [r EXCEPT !.scheduledAt = now]
           es == [i \in DOMAIN rows |-> JobEntry(rows[i], Due(rows[i]))]
           ids == [i \in 1 .. Len(rows) |-> rows[i].id]
<1>2. Perform(es)
  BY <1>1
<1>3. R \in SUBSET Rows /\ IsFiniteSet(R)
  <2>1. R \in SUBSET Rows
    BY RowFacts
  <2> QED
    BY <2>1, RowFacts, FS_Subset
<1>14. /\ \A r \in R : r.id \in J /\ ix.jobs[r.id] = r
       /\ \A j \in J : ix.jobs[j] \in R /\ ix.jobs[j].id = j /\ ix.jobs[j].status = "pending"
  BY <1>1, RowFacts
<1> HIDE DEF R
<1>4. /\ rows \in Seq(R) /\ Len(rows) \in Nat /\ DOMAIN rows = 1 .. Len(rows)
      /\ Distinct(rows) /\ \A i \in 1 .. Len(rows) : rows[i] \in R
      /\ \A r \in R : \E i \in 1 .. Len(rows) : rows[i] = r
  BY <1>3, SeqOfSet
<1> HIDE DEF rows
<1>5. \A i \in 1 .. Len(rows) : /\ rows[i] \in Rows /\ rows[i] \in Row /\ rows[i].id \in JobIds
                                /\ ix.jobs[rows[i].id] = rows[i]
  BY <1>3, <1>4, RowFacts
<1>6. \A r \in Row : Revises(r, Due(r)) /\ Becomes(r, Due(r), r.status, now, r.leasedUntil)
  <2> SUFFICES ASSUME NEW r \in Row
               PROVE  Revises(r, Due(r)) /\ Becomes(r, Due(r), r.status, now, r.leasedUntil)
    OBVIOUS
  <2>1. Due(r) = [r EXCEPT !.status = r.status, !.scheduledAt = now,
                           !.leasedUntil = r.leasedUntil]
    BY ZenonT(40), RowFields
  <2>2. /\ r.status \in {"blocked", "pending", "running", "completed"}
        /\ r.leasedUntil \in 0 .. Unleased /\ now \in 0 .. MaxNow + 1
    BY Zenon, Times, RowFields
  <2> HIDE DEF Due
  <2> QED
    BY ZenonT(40), <2>1, <2>2, RevisedRow
<1> HIDE DEF Due
<1>7. /\ ids \in Seq(JobIds) /\ Len(ids) = Len(rows)
      /\ \A i \in 1 .. Len(rows) : ids[i] = rows[i].id
  <2>1. ids \in [1 .. Len(rows) -> JobIds]
    BY <1>5
  <2>2. \A i \in 1 .. Len(rows) : ids[i] = rows[i].id
    OBVIOUS
  <2> HIDE DEF ids
  <2> QED
    BY <1>4, <2>1, <2>2, SeqDef
<1> HIDE DEF ids
<1>8. Distinct(ids)
  <2> SUFFICES ASSUME NEW i \in 1 .. Len(rows), NEW k \in 1 .. Len(rows), ids[i] = ids[k]
               PROVE  i = k
    BY <1>7 DEF Distinct
  <2>1. rows[i] = rows[k]
    BY <1>5, <1>7
  <2> QED
    BY <1>4, <2>1 DEF Distinct
<1>9. \A i \in 1 .. Len(rows) : es[i] = JobEntry(rows[i], Due(rows[i]))
  BY <1>4
<1>10. DOMAIN es = 1 .. Len(rows) /\ es = [i \in 1 .. Len(rows) |-> es[i]]
  BY <1>4
<1> HIDE DEF es
<1>11. \A i \in 1 .. Len(rows) :
         /\ es[i] \in Entries /\ es[i].kind = "job" /\ es[i].prev = rows[i]
         /\ Revises(es[i].prev, es[i].next) /\ es[i].next = Due(rows[i])
  <2> SUFFICES ASSUME NEW i \in 1 .. Len(rows)
               PROVE  /\ es[i] \in Entries /\ es[i].kind = "job" /\ es[i].prev = rows[i]
                      /\ Revises(es[i].prev, es[i].next) /\ es[i].next = Due(rows[i])
    OBVIOUS
  <2> DEFINE r == rows[i]
  <2>1. r \in Row /\ Revises(r, Due(r)) /\ es[i] = JobEntry(r, Due(r))
    BY <1>5, <1>6, <1>9
  <2> HIDE DEF r
  <2>2. Due(r) \in Row
    BY <2>1 DEF Revises
  <2>3. es[i].kind = "job" /\ es[i].prev = r /\ es[i].next = Due(r)
    BY <2>1 DEF JobEntry
  <2> QED
    BY <2>1, <2>2, <2>3, JobEntryType DEF r
<1>12. es \in Seq(Entries) /\ Len(es) = Len(rows)
  <2>1. es \in [1 .. Len(rows) -> Entries]
    BY <1>10, <1>11
  <2> QED
    BY <1>4, <2>1, SeqDef
<1>13. \A i \in 1 .. Len(ids) :
         es[i].kind = "job" /\ es[i].prev = ix.jobs[ids[i]] /\ Revises(es[i].prev, es[i].next)
  BY <1>5, <1>7, <1>11
<1>15. /\ Advances /\ \A i \in 1 .. Len(ids) : ix'.jobs[ids[i]] = es[i].next
       /\ OnlyRows({ids[i] : i \in 1 .. Len(ids)})
  BY <1>2, <1>7, <1>8, <1>12, <1>13, UpdatesAdvance
<1>16. {ids[i] : i \in 1 .. Len(ids)} = J
  <2>1. \A i \in 1 .. Len(ids) : ids[i] \in J
    BY <1>4, <1>7, <1>14
  <2>2. ASSUME NEW j \in J PROVE \E i \in 1 .. Len(ids) : ids[i] = j
    <3>1. PICK i \in 1 .. Len(rows) : rows[i] = ix.jobs[j]
      BY <1>4, <1>14
    <3> QED
      BY <1>7, <1>14, <3>1
  <2> QED
    BY <2>1, <2>2
<1>17. \A j \in J : Becomes(ix.jobs[j], ix'.jobs[j], ix.jobs[j].status, now,
                            ix.jobs[j].leasedUntil)
  <2> SUFFICES ASSUME NEW j \in J
               PROVE  Becomes(ix.jobs[j], ix'.jobs[j], ix.jobs[j].status, now,
                              ix.jobs[j].leasedUntil)
    OBVIOUS
  <2>1. PICK i \in 1 .. Len(rows) : rows[i] = ix.jobs[j]
    BY <1>4, <1>14
  <2>2. ids[i] = j /\ rows[i] \in Row /\ ix'.jobs[j] = Due(rows[i])
    BY <1>5, <1>7, <1>11, <1>14, <1>15, <2>1
  <2> QED
    BY <1>6, <2>1, <2>2
<1> QED
  BY <1>14, <1>15, <1>16, <1>17

(* expandChainIds, round by round.                                         *)
Expands(f, s, C, N) ==
  f = [n \in 0 .. N |-> IF n = 0 THEN C
                        ELSE f[n - 1] \cup UNION {s.blockers[c] : c \in f[n - 1]}]

(* The rounds of expandChainIds exist.                                     *)
LEMMA ExpandsExist ==
  ASSUME NEW s, NEW C, NEW N \in Nat
  PROVE  \E f : Expands(f, s, C, N)
<1> DEFINE T == {n \in Nat : ~ \E f : Expands(f, s, C, n)}
<1> SUFFICES ASSUME T # {} PROVE FALSE
  OBVIOUS
<1>1. PICK n \in T : \A m \in T : n <= m
  <2>1. T \in SUBSET Nat
    OBVIOUS
  <2> HIDE DEF T
  <2> QED
    BY <2>1, LeastElement
<1>2. CASE n = 0
  <2>1. Expands([i \in 0 .. 0 |-> C], s, C, 0)
    BY DEF Expands
  <2> QED
    BY <1>1, <1>2, <2>1
<1>3. CASE n # 0
  <2>1. n - 1 \in Nat /\ n - 1 \notin T
    BY <1>1, <1>3
  <2>2. PICK f : Expands(f, s, C, n - 1)
    BY <2>1
  <2> DEFINE More(B) == B \cup UNION {s.blockers[c] : c \in B}
             g == [i \in 0 .. n |-> IF i = n THEN More(f[n - 1]) ELSE f[i]]
  <2>3. /\ DOMAIN g = 0 .. n /\ g = [i \in 0 .. n |-> g[i]]
        /\ \A i \in 0 .. n - 1 : g[i] = f[i] /\ g[n] = More(f[n - 1])
    BY <1>1, <1>3
  <2>4. \A i \in 0 .. n - 1 : f[i] = IF i = 0 THEN C ELSE More(f[i - 1])
    BY <2>2 DEF Expands
  <2>5. ASSUME NEW i \in 0 .. n PROVE g[i] = IF i = 0 THEN C ELSE More(g[i - 1])
    <3>1. CASE i = n
      <4>1. i # 0 /\ i - 1 = n - 1 /\ n - 1 \in 0 .. n - 1
        BY <1>1, <1>3, <3>1
      <4>2. g[i - 1] = f[n - 1] /\ g[i] = More(f[n - 1])
        BY <2>3, <3>1, <4>1
      <4> HIDE DEF More, g
      <4> QED
        BY <4>1, <4>2
    <3>2. CASE i # n
      <4>1. i \in 0 .. n - 1 /\ (i # 0 => i - 1 \in 0 .. n - 1)
        BY <1>1, <1>3, <3>2
      <4>2. g[i] = f[i] /\ (i # 0 => g[i - 1] = f[i - 1])
        BY <2>3, <4>1
      <4> HIDE DEF More, g
      <4> QED
        BY <2>4, <4>1, <4>2
    <3> QED
      BY <3>1, <3>2
  <2>6. Expands(g, s, C, n)
    <3> HIDE DEF g
    <3> QED
      BY <2>3, <2>5 DEF Expands
  <2> QED
    BY <1>1, <2>6
<1> QED
  BY <1>2, <1>3

(* expandChainIds yields ids.                                              *)
LEMMA ExpandedIds ==
  ASSUME NEW s, s.blockers \in [JobIds -> SUBSET JobIds], NEW C \in SUBSET JobIds
  PROVE  ExpandedChainIds(s, C) \in SUBSET JobIds
<1> DEFINE N == Cardinality(JobIds)
           f == CHOOSE f : Expands(f, s, C, N)
<1>1. N \in Nat
  BY FiniteIds, FS_CardinalityType
<1>2. Expands(f, s, C, N)
  BY <1>1, ExpandsExist
<1>3. ExpandedChainIds(s, C) = f[N]
  BY DEF ExpandedChainIds, Expands
<1> HIDE DEF f, N
<1>4. \A n \in 0 .. N : f[n] = IF n = 0 THEN C
                               ELSE f[n - 1] \cup UNION {s.blockers[c] : c \in f[n - 1]}
  BY <1>2 DEF Expands
<1> DEFINE T == {n \in 0 .. N : f[n] \notin SUBSET JobIds}
<1>5. T = {}
  <2> SUFFICES ASSUME T # {} PROVE FALSE
    OBVIOUS
  <2>1. PICK n \in T : \A m \in T : n <= m
    <3>1. T \in SUBSET Nat
      OBVIOUS
    <3> HIDE DEF T
    <3> QED
      BY <3>1, LeastElement
  <2>2. n \in 0 .. N /\ n # 0
    BY <1>4, <2>1
  <2>3. n - 1 \in 0 .. N /\ n - 1 \notin T
    BY <1>1, <2>1, <2>2
  <2>4. f[n - 1] \in SUBSET JobIds
    BY <2>3
  <2>5. UNION {s.blockers[c] : c \in f[n - 1]} \in SUBSET JobIds
    BY <2>4
  <2> QED
    BY <1>4, <2>1, <2>2, <2>4, <2>5
<1> QED
  BY <1>1, <1>3, <1>5

(* The jobs of the chains E.                                               *)
JobsIn(E) == {j \in JobsOf(ix) : ix.jobs[j].chain \in E}

(* deleteChains: no chain loses its root without its other jobs.           *)
LEMMA DeleteAdvances ==
  ASSUME StoreInv, DeleteChains
  PROVE  /\ Advances
         /\ \E E \in SUBSET JobIds :
              /\ ExternalRefs(ix, E) = {} /\ \E j \in JobIds : j \in JobsIn(E)
              /\ \A j \in JobIds :
                   /\ j \in JobsIn(E) => Gone(ix', j)
                   /\ j \notin JobsIn(E) =>
                        ix'.jobs[j] = ix.jobs[j] /\ ix'.blockers[j] = ix.blockers[j]
<1>1. PICK C \in SUBSET JobIds, cascade \in BOOLEAN :
        LET E == IF cascade THEN ExpandedChainIds(ix, C) ELSE C
            rows == SetToSeq(UNION {ix.byChain[c] : c \in E})
        IN  /\ ExternalRefs(ix, E) = {}
            /\ Perform(FlattenSeq([i \in DOMAIN rows |-> DeleteEntries(rows[i])]))
  BY DEF DeleteChains
<1> DEFINE E == IF cascade THEN ExpandedChainIds(ix, C) ELSE C
           R == UNION {ix.byChain[c] : c \in E}
           rows == SetToSeq(R)
           es == FlattenSeq(Endings(rows))
           k == Tables(ix)
<1>2. Perform(es) /\ ExternalRefs(ix, E) = {}
  BY <1>1 DEF Endings
<1>3. E \in SUBSET JobIds
  <2>1. ix.blockers \in [JobIds -> SUBSET JobIds]
    BY RowFacts
  <2>2. ExpandedChainIds(ix, C) \in SUBSET JobIds
    BY <2>1, ExpandedIds
  <2> QED
    BY <2>2
<1> HIDE DEF E
<1>4. \A r : r \in R <=> r \in Rows /\ r.chain \in E
  <2>1. \A c \in E : ix.byChain[c] = {r \in Rows : r.chain = c}
    BY <1>3, IndexFacts
  <2> QED
    BY <2>1
<1>5. R \in SUBSET Rows /\ IsFiniteSet(R)
  <2> HIDE DEF R
  <2>1. R \in SUBSET Rows
    BY <1>4
  <2> QED
    BY <2>1, RowFacts, FS_Subset
<1> HIDE DEF R
<1>6. /\ rows \in Seq(R) /\ Len(rows) \in Nat /\ DOMAIN rows = 1 .. Len(rows)
      /\ Distinct(rows) /\ \A i \in 1 .. Len(rows) : rows[i] \in R
      /\ \A r \in R : \E i \in 1 .. Len(rows) : rows[i] = r
  BY <1>5, SeqOfSet
<1> HIDE DEF rows
<1>7. rows \in Seq(Row) /\ \A i \in 1 .. Len(rows) : rows[i] \in Rows /\ rows[i] \in Row
  <2>1. \A i \in 1 .. Len(rows) : rows[i] \in Rows /\ rows[i] \in Row
    BY <1>5, <1>6, RowFacts
  <2>2. rows \in [1 .. Len(rows) -> Row]
    BY <1>6, <2>1, SeqDef
  <2> QED
    BY <1>6, <2>1, <2>2, SeqDef
<1>8. Len(rows) # 0
  <2> SUFFICES ASSUME Len(rows) = 0 PROVE FALSE
    OBVIOUS
  <2>1. Len(Endings(rows)) = 0 /\ Endings(rows) = <<>>
    <3>1. rows = <<>>
      BY <1>7, EmptySeq
    <3>2. Endings(rows) = <<>>
      BY <3>1 DEF Endings
    <3> QED
      BY <3>2
  <2>2. es = <<>>
    BY <2>1 DEF FlattenSeq
  <2> QED
    BY <1>2, <2>2 DEF Perform
<1>9. /\ WellFormed(k) /\ k.jobs = ix.jobs /\ k.blockers = ix.blockers /\ RowsIn(k.jobs) = Rows
      /\ Present(k.jobs) = JobsOf(ix)
  BY TablesWellFormed
<1> HIDE DEF k
<1>10. \A i \in 1 .. Len(rows) : rows[i] \in RowsIn(k.jobs)
  BY <1>7, <1>9
<1>11. /\ es \in Seq(Entries)
       /\ \E m : Leads(k, es, m) /\ Cut(k, rows, Len(rows), m)
  BY <1>6, <1>7, <1>8, <1>9, <1>10, DeletionsLead
<1> HIDE DEF es
<1>12. PICK m : Leads(k, es, m) /\ Cut(k, rows, Len(rows), m)
  BY <1>11
<1>13. \A j \in JobIds : j \in JobsIn(E) <=> \E i \in 1 .. Len(rows) : rows[i].id = j
  <2>1. ASSUME NEW j \in JobsIn(E) PROVE \E i \in 1 .. Len(rows) : rows[i].id = j
    <3>1. ix.jobs[j] \in Rows /\ ix.jobs[j].id = j /\ ix.jobs[j].chain \in E
      BY RowFacts DEF JobsIn
    <3> QED
      BY <1>4, <1>6, <3>1
  <2>2. ASSUME NEW i \in 1 .. Len(rows) PROVE rows[i].id \in JobsIn(E)
    <3>1. rows[i] \in Rows /\ rows[i].chain \in E
      BY <1>4, <1>6
    <3>2. rows[i].id \in JobsOf(ix) /\ ix.jobs[rows[i].id] = rows[i]
      BY <3>1, RowFacts
    <3> QED
      BY <3>1, <3>2 DEF JobsIn
  <2> QED
    BY <2>1, <2>2
<1>14. \A j \in JobIds :
         /\ j \in JobsIn(E) => Gone(m, j)
         /\ j \notin JobsIn(E) => m.jobs[j] = ix.jobs[j] /\ m.blockers[j] = ix.blockers[j]
  BY <1>9, <1>12, <1>13 DEF Cut
<1>15. /\ \A j \in Present(m.jobs) : /\ j \in JobsOf(ix) /\ m.jobs[j] = ix.jobs[j]
                                     /\ ix.jobs[j].chain \notin E
       /\ \A j \in JobsOf(ix) : ix.jobs[j].chain \notin E => j \in Present(m.jobs)
  BY <1>14 DEF Present, JobsOf, JobsIn, Gone
<1>16. Rooted(m)
  <2> SUFFICES ASSUME NEW j \in Present(m.jobs)
               PROVE  m.jobs[j].chain \in Present(m.jobs)
                      /\ m.jobs[m.jobs[j].chain].chain = m.jobs[j].chain
    BY DEF Rooted
  <2> DEFINE c == ix.jobs[j].chain
  <2>1. j \in JobsOf(ix) /\ m.jobs[j] = ix.jobs[j] /\ c \notin E
    BY <1>15
  <2>2. c \in JobsOf(ix) /\ ix.jobs[c].chain = c
    BY <2>1, RowFacts
  <2> QED
    BY <1>15, <2>1, <2>2
<1>17. Unbroken(m)
  <2> SUFFICES ASSUME NEW j \in Present(m.jobs), NEW i \in 0 .. m.jobs[j].index
               PROVE  \E h \in Present(m.jobs) :
                        m.jobs[h].chain = m.jobs[j].chain /\ m.jobs[h].index = i
    BY DEF Unbroken
  <2>1. j \in JobsOf(ix) /\ m.jobs[j] = ix.jobs[j] /\ ix.jobs[j].chain \notin E
    BY <1>15
  <2>2. PICK h \in JobsOf(ix) : ix.jobs[h].chain = ix.jobs[j].chain /\ ix.jobs[h].index = i
    BY <2>1, ChainFacts
  <2> QED
    BY <1>15, <2>1, <2>2
<1>18. KeyedRoots(m)
  <2>1. \A j \in JobsOf(ix) : ix.jobs[j].key # NULL => ix.jobs[j].chain = j
    BY ChainFacts
  <2> QED
    BY <1>15, <2>1 DEF KeyedRoots
<1>19. Advances
  BY <1>2, <1>11, <1>12, <1>16, <1>17, <1>18 DEF Advances, Whole, k
<1>20. ix'.jobs = m.jobs /\ ix'.blockers = m.blockers
  BY <1>2, <1>11, <1>12, Arrival DEF k
<1>21. \E j \in JobIds : j \in JobsIn(E)
  <2>1. 1 \in 1 .. Len(rows) /\ rows[1].id \in JobIds
    BY <1>6, <1>7, <1>8 DEF Row
  <2> QED
    BY <1>13, <2>1
<1>22. \A j \in JobIds :
         /\ j \in JobsIn(E) => Gone(ix', j)
         /\ j \notin JobsIn(E) => ix'.jobs[j] = ix.jobs[j] /\ ix'.blockers[j] = ix.blockers[j]
  BY <1>14, <1>20 DEF Gone
<1> QED
  BY <1>2, <1>3, <1>19, <1>21, <1>22

(* The blocker entries that addJobsBlockers writes.                        *)
LEMMA BlockersAdded ==
  ASSUME StoreInv, NEW q \in JobsOf(ix), NEW B \in SUBSET JobIds
  PROVE  /\ BlockerEntries(q, B) \in Seq(Entries)
         /\ \E l \in AllTables :
              /\ Leads(Tables(ix), BlockerEntries(q, B), l) /\ l.jobs = ix.jobs
              /\ \A j \in JobIds : j # q => l.blockers[j] = ix.blockers[j]
              /\ \A c \in JobIds : c \in l.blockers[q] <=> c \in ix.blockers[q] \/ c \in B
<1> DEFINE b == SetToSeq(B)
           es == BlockerEntries(q, B)
           k == Tables(ix)
<1>1. IsFiniteSet(B)
  BY FiniteIds, FS_Subset
<1>2. /\ b \in Seq(B) /\ Len(b) \in Nat /\ DOMAIN b = 1 .. Len(b) /\ Distinct(b)
      /\ \A i \in 1 .. Len(b) : b[i] \in B
      /\ \A c \in B : \E i \in 1 .. Len(b) : b[i] = c
  BY <1>1, SeqOfSet
<1>3. es = [i \in DOMAIN b |-> BlockerEntry(q, b[i], b[i] \in ix.blockers[q], TRUE)]
  BY DEF BlockerEntries
<1> HIDE DEF b, es
<1>4. b \in Seq(JobIds)
  BY <1>2, SeqDef
<1>5. q \in JobIds
  BY DEF JobsOf
<1>6. /\ DOMAIN es = 1 .. Len(b)
      /\ \A i \in 1 .. Len(b) : es[i] = BlockerEntry(q, b[i], b[i] \in ix.blockers[q], TRUE)
  BY <1>2, <1>3
<1>7. \A i \in 1 .. Len(b) : es[i] \in Entries
  <2> SUFFICES ASSUME NEW i \in 1 .. Len(b) PROVE es[i] \in Entries
    OBVIOUS
  <2>1. b[i] \in JobIds
    BY <1>2
  <2>2. BlockerEntry(q, b[i], b[i] \in ix.blockers[q], TRUE) \in Entries
    BY <1>5, <2>1 DEF BlockerEntry, Entries
  <2> QED
    BY <1>6, <2>2
<1>8. es \in Seq(Entries) /\ Len(es) = Len(b)
  <2>1. es \in [1 .. Len(b) -> Entries]
    BY <1>3, <1>6, <1>7
  <2> QED
    BY <1>2, <2>1, SeqDef
<1>9. WellFormed(k) /\ k.jobs = ix.jobs /\ k.blockers = ix.blockers
  BY TablesWellFormed
<1> HIDE DEF k
<1>10. \A i \in 1 .. Len(b) : es[i] = BlockerEntry(q, b[i], b[i] \in k.blockers[q], TRUE)
  BY <1>6, <1>9
<1>11. \E l : /\ Leads(k, es, l) /\ l \in AllTables /\ l.jobs = k.jobs
              /\ \A j \in JobIds : j # q => l.blockers[j] = k.blockers[j]
              /\ With(k.blockers[q], b, l.blockers[q])
  <2>1. /\ WellFormed(k) /\ Distinct(b) /\ es \in Seq(Entries) /\ Len(es) = Len(b)
        /\ b \in Seq(JobIds) /\ q \in JobIds
    BY <1>2, <1>4, <1>5, <1>8, <1>9
  <2> QED
    BY <1>10, <2>1, AdditionsLead
<1>12. PICK l : /\ Leads(k, es, l) /\ l \in AllTables /\ l.jobs = k.jobs
                /\ \A j \in JobIds : j # q => l.blockers[j] = k.blockers[j]
                /\ With(k.blockers[q], b, l.blockers[q])
  BY <1>11
<1>13. \A c \in JobIds : c \in l.blockers[q] <=> c \in ix.blockers[q] \/ c \in B
  BY <1>2, <1>9, <1>12 DEF With
<1>14. \A j \in JobIds : j # q => l.blockers[j] = ix.blockers[j]
  BY <1>9, <1>12
<1>15. Leads(k, es, l) /\ l \in AllTables /\ l.jobs = ix.jobs
  BY <1>9, <1>12
<1> QED
  BY <1>8, <1>13, <1>14, <1>15 DEF es, k

(* addJobsBlockers.                                                        *)
LEMMA AddBlockersAdvances ==
  ASSUME StoreInv, AddJobsBlockers
  PROVE  /\ Advances
         /\ \E q \in JobsOf(ix), B \in SUBSET JobsOf(ix) :
              /\ ix.jobs[q].status = "pending" /\ \A c \in B : IsRoot(ix.jobs[c])
              /\ \A j \in JobIds : j # q =>
                   ix'.jobs[j] = ix.jobs[j] /\ ix'.blockers[j] = ix.blockers[j]
              /\ \A c \in JobIds : c \in ix'.blockers[q] <=> c \in ix.blockers[q] \/ c \in B
              /\ (\E c \in B : ~ChainCompleted(ix, c)) =>
                   Becomes(ix.jobs[q], ix'.jobs[q], "blocked", ix.jobs[q].scheduledAt,
                           ix.jobs[q].leasedUntil)
              /\ (\A c \in B : ChainCompleted(ix, c)) => ix'.jobs[q] = ix.jobs[q]
<1>1. PICK q \in JobsOf(ix), B \in SUBSET JobsOf(ix) :
        /\ ix.jobs[q].status = "pending" /\ \A c \in B : IsRoot(ix.jobs[c])
        /\ AddJobBlockersOf(q, B)
  BY DEF AddJobsBlockers
<1> DEFINE job == ix.jobs[q]
           waits == (\E c \in B : ~ChainCompleted(ix, c)) /\ job.status = "pending"
           new == [job EXCEPT !.status = "blocked"]
           es1 == BlockerEntries(q, B)
           es2 == IF waits THEN <<JobEntry(job, new)>> ELSE <<>>
           k == Tables(ix)
<1>2. Perform(es1 \o es2)
  BY <1>1 DEF AddJobBlockersOf
<1>3. B \in SUBSET JobIds
  BY DEF JobsOf
<1>4. job \in Row /\ job.id = q /\ q \in JobIds /\ job.status = "pending"
  BY <1>1, RowFacts
<1>5. Becomes(job, new, "blocked", job.scheduledAt, job.leasedUntil) /\ Revises(job, new)
  <2> HIDE DEF job
  <2>1. new = [job EXCEPT !.status = "blocked", !.scheduledAt = job.scheduledAt,
                          !.leasedUntil = job.leasedUntil]
    BY Zenon, <1>4, RowFields
  <2>2. /\ job.scheduledAt \in 0 .. MaxNow + 1 /\ job.leasedUntil \in 0 .. Unleased
    BY Zenon, <1>4, RowFields
  <2> HIDE DEF new
  <2> QED
    BY Zenon, <1>4, <2>1, <2>2, RevisedRow
<1>6. PICK l \in AllTables :
        /\ Leads(k, es1, l) /\ l.jobs = ix.jobs
        /\ \A j \in JobIds : j # q => l.blockers[j] = ix.blockers[j]
        /\ \A c \in JobIds : c \in l.blockers[q] <=> c \in ix.blockers[q] \/ c \in B
  BY <1>3, BlockersAdded
<1>7. es1 \in Seq(Entries)
  BY <1>3, BlockersAdded
<1>8. WellFormed(l) /\ Present(l.jobs) = Present(k.jobs) /\ Whole(l)
  <2>1. Tables(ix).jobs = ix.jobs /\ Whole(Tables(ix))
    BY TablesWellFormed DEF StoreInv
  <2>2. WellFormed(l)
    BY <1>6, <1>7, LeadsTo
  <2> QED
    BY <1>6, <2>1, <2>2 DEF Whole, Rooted, Unbroken, KeyedRoots
<1>13. /\ (\E c \in B : ~ChainCompleted(ix, c)) => waits
       /\ (\A c \in B : ChainCompleted(ix, c)) => ~waits
  BY <1>4
<1> HIDE DEF k, new, waits, es1
<1>9. /\ es2 \in Seq(Entries)
      /\ \E m : /\ Leads(l, es2, m) /\ Whole(m) /\ Present(m.jobs) = Present(l.jobs)
                /\ m.blockers = l.blockers /\ \A j \in JobIds : j # q => m.jobs[j] = l.jobs[j]
                /\ waits => m.jobs[q] = new
                /\ ~waits => m.jobs[q] = l.jobs[q]
  <2>1. CASE waits
    <3> DEFINE ids == <<q>>
               es == <<JobEntry(job, new)>>
    <3>1. /\ JobEntry(job, new) \in Entries /\ JobEntry(job, new).kind = "job"
          /\ JobEntry(job, new).prev = l.jobs[q] /\ JobEntry(job, new).next = new
      <4>1. JobEntry(job, new) \in Entries
        BY <1>5, JobEntryType DEF Revises
      <4> QED
        BY <1>6, <4>1 DEF JobEntry
    <3>2. /\ ids \in Seq(JobIds) /\ es \in Seq(Entries) /\ Len(ids) = 1 /\ Len(es) = 1
          /\ ids[1] = q /\ es[1] = JobEntry(job, new)
      BY <1>4, <3>1
    <3>3. l.jobs[q] = job
      BY <1>6
    <3> HIDE DEF ids, es, job
    <3>4. Distinct(ids)
      BY <3>2 DEF Distinct
    <3>5. \A i \in 1 .. Len(ids) :
            es[i].kind = "job" /\ es[i].prev = l.jobs[ids[i]] /\ Revises(es[i].prev, es[i].next)
      BY <1>5, <3>1, <3>2, <3>3
    <3>6. PICK m : /\ Leads(l, es, m) /\ Present(m.jobs) = Present(l.jobs)
                   /\ m.blockers = l.blockers /\ (Whole(l) => Whole(m))
                   /\ \A i \in 1 .. Len(ids) : m.jobs[ids[i]] = es[i].next
                   /\ \A j \in JobIds :
                        (\A i \in 1 .. Len(ids) : ids[i] # j) => m.jobs[j] = l.jobs[j]
      <4>1. ids \in Seq(JobIds) /\ es \in Seq(Entries) /\ Len(es) = Len(ids)
        BY <3>2
      <4> QED
        BY <1>8, <3>4, <3>5, <4>1, UpdatesLead
    <3>7. \E n : /\ Leads(l, es, n) /\ Present(n.jobs) = Present(l.jobs) /\ Whole(n)
                 /\ n.blockers = l.blockers /\ n.jobs[q] = new
                 /\ \A j \in JobIds : j # q => n.jobs[j] = l.jobs[j]
      BY <1>8, <3>1, <3>2, <3>6
    <3> QED
      BY <2>1, <3>2, <3>7 DEF es, job
  <2>2. CASE ~waits
    <3>1. es2 = <<>> /\ <<>> \in Seq(Entries)
      BY <2>2
    <3> QED
      BY <1>8, <3>1, LeadsNowhere
  <2> QED
    BY <2>1, <2>2
<1> HIDE DEF es2
<1>10. PICK m : /\ Leads(l, es2, m) /\ Whole(m) /\ Present(m.jobs) = Present(l.jobs)
                /\ m.blockers = l.blockers /\ \A j \in JobIds : j # q => m.jobs[j] = l.jobs[j]
                /\ waits => m.jobs[q] = new
                /\ ~waits => m.jobs[q] = l.jobs[q]
  BY <1>9
<1>11. Leads(k, es1 \o es2, m)
  <2>1. Present(k.jobs) \cap Present(m.jobs) \subseteq Present(l.jobs)
    BY <1>10
  <2> QED
    BY <1>6, <1>7, <1>9, <1>10, <2>1, LeadsConcat
<1>12. es1 \o es2 \in Seq(Entries)
  BY <1>7, <1>9, ConcatProperties
<1>14. Advances
  BY <1>2, <1>10, <1>11, <1>12 DEF Advances, k
<1>15. ix'.jobs = m.jobs /\ ix'.blockers = m.blockers
  BY <1>2, <1>11, <1>12, Arrival DEF k
<1>16. \A j \in JobIds : j # q => ix'.jobs[j] = ix.jobs[j] /\ ix'.blockers[j] = ix.blockers[j]
  BY <1>6, <1>10, <1>15
<1>17. \A c \in JobIds : c \in ix'.blockers[q] <=> c \in ix.blockers[q] \/ c \in B
  BY <1>6, <1>10, <1>15
<1>18. /\ waits => Becomes(job, ix'.jobs[q], "blocked", job.scheduledAt, job.leasedUntil)
       /\ ~waits => ix'.jobs[q] = job
  BY <1>5, <1>6, <1>10, <1>15
<1> QED
  BY <1>1, <1>13, <1>14, <1>16, <1>17, <1>18

-----------------------------------------------------------------------------
(* Transactions and savepoints.                                            *)

(* The empty store satisfies the invariant.                                *)
LEMMA InitStore ==
  ASSUME Init
  PROVE  StoreInv
<1>1. /\ ix = EmptyStore /\ journal = <<>> /\ marks = <<>> /\ saved = <<>> /\ now = 0
      /\ MaxNow \in Nat
  BY BoundsType DEF Init
<1>2. /\ ix \in Store
      /\ ix.jobs = [j \in JobIds |-> NULL] /\ ix.seqs = <<>> /\ ix.roots = <<>>
      /\ ix.pending = [t \in Types |-> <<>>] /\ ix.running = [t \in Types |-> <<>>]
      /\ ix.byChain = [c \in JobIds |-> {}] /\ ix.last = [c \in JobIds |-> NULL]
      /\ ix.dedup = [k \in Keys |-> {}]
      /\ ix.blockers = [j \in JobIds |-> {}] /\ ix.blockedBy = [j \in JobIds |-> {}]
  BY <1>1 DEF EmptyStore, Store
<1>3. Present(ix.jobs) = {} /\ RowsIn(ix.jobs) = {}
  BY <1>2 DEF Present, RowsIn
<1>4. <<>> \in Seq(Row) /\ <<>> \in Seq(JobIds) /\ Len(<<>>) = 0 /\ ToSet(<<>>) = {} /\ 1 .. 0 = {}
  BY DEF ToSet
<1>5. Numbers(<<>>) /\ Proper({}) /\ Numbered(<<>>, {})
  BY <1>4 DEF Numbers, Proper, Numbered, Distinct
<1>6. /\ \A t : OfStatus({}, t, "pending") = {} /\ OfStatus({}, t, "running") = {}
      /\ RootsOf({}) = {} /\ \A c : OfChain({}, c) = {} /\ OfKey({}, c) = {}
  BY DEF OfStatus, RootsOf, OfChain, OfKey
<1>7. \A by : Sorted(<<>>, by, <<>>, {})
  BY <1>4 DEF Sorted
<1>8. Top(NULL, {})
  BY DEF Top
<1>9. Indexed(ix, {})
  BY ZenonT(40), <1>2, <1>5, <1>6, <1>7, <1>8 DEF Indexed
<1>10. Agree(ix)
  BY <1>2, <1>3, <1>4, <1>9 DEF Agree
<1>11. /\ Tables(ix) \in AllTables /\ Tables(ix).jobs = ix.jobs
  BY <1>10, TablesOf
<1>12. WellFormed(Tables(ix)) /\ Whole(Tables(ix))
  BY <1>3, <1>5, <1>11 DEF WellFormed, Whole, Rooted, Unbroken, KeyedRoots
<1>13. PICK p : Path(p, <<>>) /\ p[0] = Tables(ix)
  BY <1>12, EmptyPath
<1>14. JournalLeadsHere
  BY <1>1, <1>4, <1>13 DEF JournalLeadsHere
<1>15. MarksInOrder
  BY <1>1, <1>4 DEF MarksInOrder
<1> QED
  BY <1>1, <1>4, <1>10, <1>12, <1>14, <1>15 DEF StoreInv

(* A scope is opened where the path has arrived.                           *)
LEMMA OpenKeeps ==
  ASSUME StoreInv, OpenScope, marks = <<>> => journal = <<>>
  PROVE  StoreInv'
<1>1. /\ marks' = Append(marks, Len(journal)) /\ saved' = Append(saved, ix)
      /\ ix' = ix /\ journal' = journal /\ now' = now
  BY DEF OpenScope
<1> DEFINE N == Len(marks)
<1>2. /\ Agree(ix) /\ ix \in Store /\ Whole(Tables(ix)) /\ journal \in Seq(Entries)
      /\ Len(journal) \in Nat /\ now \in 0 .. MaxNow
      /\ \A i \in 1 .. N : Whole(Tables(saved[i]))
  BY AgreeIsStore, LenProperties DEF StoreInv
<1>3. /\ marks \in Seq(Nat) /\ saved \in Seq(Store) /\ Len(saved) = N /\ N \in Nat
      /\ \A i \in 1 .. N : marks[i] <= Len(journal) /\ marks[i] \in Nat
      /\ \A h, i \in 1 .. N : h <= i => marks[h] <= marks[i]
      /\ marks # <<>> => marks[1] = 0
  BY LenProperties, ElementOfSeq DEF StoreInv, MarksInOrder
<1>4. /\ marks' \in Seq(Nat) /\ Len(marks') = N + 1 /\ marks' # <<>>
      /\ marks'[N + 1] = Len(journal) /\ \A i \in 1 .. N : marks'[i] = marks[i]
  BY <1>1, <1>2, <1>3, AppendProperties
<1>5. /\ saved' \in Seq(Store) /\ Len(saved') = N + 1 /\ saved'[N + 1] = ix
      /\ \A i \in 1 .. N : saved'[i] = saved[i]
  BY <1>1, <1>2, <1>3, AppendProperties
<1>6. \A i \in 1 .. N + 1 : i \in 1 .. N \/ i = N + 1
  BY <1>3
<1>7. marks'[1] = 0
  <2>1. CASE marks = <<>>
    <3>1. N = 0 /\ Len(journal) = 0
      BY <2>1
    <3> QED
      BY <1>4, <3>1
  <2>2. CASE marks # <<>>
    <3>1. 1 \in 1 .. N
      BY <1>3, <2>2, EmptySeq
    <3> QED
      BY <1>3, <1>4, <2>2, <3>1
  <2> QED
    BY <2>1, <2>2
<1> HIDE DEF N
<1>8. MarksInOrder'
  <2>1. \A h, i \in 1 .. N + 1 : h <= i => marks'[h] <= marks'[i]
    <3> SUFFICES ASSUME NEW h \in 1 .. N + 1, NEW i \in 1 .. N + 1, h <= i
                 PROVE  marks'[h] <= marks'[i]
      OBVIOUS
    <3>1. CASE i \in 1 .. N
      <4>1. h \in 1 .. N
        BY <1>3, <3>1
      <4> QED
        BY <1>3, <1>4, <3>1, <4>1
    <3>2. CASE i = N + 1 /\ h \in 1 .. N
      BY <1>3, <1>4, <3>2
    <3>3. CASE i = N + 1 /\ h = N + 1
      BY <1>2, <1>4, <3>3
    <3> QED
      BY <1>6, <3>1, <3>2, <3>3
  <2>2. \A i \in 1 .. N + 1 : marks'[i] <= Len(journal)
    BY <1>2, <1>3, <1>4, <1>6
  <2> QED
    BY <1>1, <1>4, <1>5, <1>7, <2>1, <2>2 DEF MarksInOrder
<1>9. JournalLeadsHere'
  <2>1. PICK p : /\ Path(p, journal) /\ p[Len(journal)] = Tables(ix)
                 /\ \A i \in 1 .. N : p[marks[i]] = Tables(saved[i])
    BY DEF StoreInv, JournalLeadsHere, N
  <2>2. \A i \in 1 .. N + 1 : p[marks'[i]] = Tables(saved'[i])
    BY <1>4, <1>5, <1>6, <2>1
  <2>3. /\ Path(p, journal') /\ p[Len(journal')] = Tables(ix')
        /\ \A i \in 1 .. Len(marks') : p[marks'[i]] = Tables(saved'[i])
    BY <1>1, <1>4, <2>1, <2>2
  <2> QED
    BY <2>3 DEF JournalLeadsHere
<1>10. \A i \in 1 .. Len(marks') : Whole(Tables(saved'[i]))
  BY <1>2, <1>4, <1>5, <1>6
<1> QED
  BY <1>1, <1>2, <1>8, <1>9, <1>10 DEF StoreInv

(* The scopes that stay open when the innermost one ends.                  *)
LEMMA FrontMarks ==
  ASSUME StoreInv, InTransaction, marks' = Front(marks), saved' = Front(saved)
  PROVE  LET N == Len(marks) IN
           /\ N \in Nat /\ N # 0 /\ marks' \in Seq(Nat) /\ saved' \in Seq(Store)
           /\ Len(marks') = N - 1 /\ Len(saved') = N - 1
           /\ \A i \in 1 .. N - 1 : marks'[i] = marks[i] /\ saved'[i] = saved[i]
           /\ \A i \in 1 .. N : marks[i] \in 0 .. Len(journal)
           /\ \A h, i \in 1 .. N : h <= i => marks[h] <= marks[i]
           /\ marks' = <<>> <=> N = 1
           /\ marks[1] = 0 /\ Last(marks) = marks[N] /\ N \in 1 .. N /\ 1 \in 1 .. N
           /\ \A i \in 1 .. N : Whole(Tables(saved[i]))
<1> DEFINE N == Len(marks)
<1>1. /\ marks \in Seq(Nat) /\ saved \in Seq(Store) /\ Len(saved) = N /\ N \in Nat /\ marks # <<>>
      /\ \A i \in 1 .. N : marks[i] <= Len(journal) /\ marks[i] \in Nat /\ saved[i] \in Store
      /\ \A h, i \in 1 .. N : h <= i => marks[h] <= marks[i]
      /\ marks[1] = 0 /\ Len(journal) \in Nat /\ \A i \in 1 .. N : Whole(Tables(saved[i]))
  BY LenProperties, ElementOfSeq DEF StoreInv, MarksInOrder, InTransaction
<1>2. N # 0 /\ N \in 1 .. N /\ 1 \in 1 .. N
  BY <1>1, EmptySeq
<1>3. marks' = SubSeq(marks, 1, N - 1) /\ saved' = SubSeq(saved, 1, N - 1)
  BY <1>1 DEF Front
<1> HIDE DEF N
<1>4. /\ marks' \in Seq(Nat) /\ Len(marks') = N - 1
      /\ \A i \in 1 .. N - 1 : marks'[i] = marks[i]
  <2>1. \A i \in 1 .. N - 1 : marks[i] \in Nat
    BY <1>1
  <2> QED
    BY <1>1, <1>2, <1>3, <2>1, SubSeqProperties
<1>5. /\ saved' \in Seq(Store) /\ Len(saved') = N - 1
      /\ \A i \in 1 .. N - 1 : saved'[i] = saved[i]
  <2>1. \A i \in 1 .. N - 1 : saved[i] \in Store
    BY <1>1
  <2> QED
    BY <1>1, <1>2, <1>3, <2>1, SubSeqProperties
<1>6. marks' = <<>> <=> N = 1
  BY <1>1, <1>4, EmptySeq
<1>7. Last(marks) = marks[N]
  BY DEF Last, N
<1> QED
  BY <1>1, <1>2, <1>4, <1>5, <1>6, <1>7 DEF N

(* A scope that resolves leaves the path; the outermost forgets it.        *)
LEMMA ResolveKeeps ==
  ASSUME StoreInv, Resolve
  PROVE  StoreInv'
<1> DEFINE N == Len(marks)
<1>1. /\ InTransaction /\ marks' = Front(marks) /\ saved' = Front(saved)
      /\ journal' = (IF N = 1 THEN <<>> ELSE journal) /\ ix' = ix /\ now' = now
  BY DEF Resolve
<1>2. /\ N \in Nat /\ N # 0 /\ marks' \in Seq(Nat) /\ saved' \in Seq(Store)
      /\ Len(marks') = N - 1 /\ Len(saved') = N - 1
      /\ \A i \in 1 .. N - 1 : marks'[i] = marks[i] /\ saved'[i] = saved[i]
      /\ \A i \in 1 .. N : marks[i] \in 0 .. Len(journal)
      /\ \A h, i \in 1 .. N : h <= i => marks[h] <= marks[i]
      /\ marks' = <<>> <=> N = 1
      /\ marks[1] = 0 /\ \A i \in 1 .. N : Whole(Tables(saved[i]))
  BY <1>1, FrontMarks
<1>3. /\ Agree(ix) /\ Whole(Tables(ix)) /\ journal \in Seq(Entries) /\ now \in 0 .. MaxNow
      /\ WellFormed(Tables(ix)) /\ Len(journal) \in Nat
  BY TablesWellFormed, LenProperties DEF StoreInv
<1>4. \A i \in 1 .. N - 1 : i \in 1 .. N
  BY <1>2
<1> HIDE DEF N
<1>5. CASE N = 1
  <2>1. journal' = <<>> /\ marks' = <<>> /\ Len(<<>>) = 0 /\ 1 .. 0 = {} /\ Len(marks') = 0
    BY <1>1, <1>2, <1>5
  <2>2. PICK p : Path(p, <<>>) /\ p[0] = Tables(ix)
    BY <1>3, EmptyPath
  <2>3. JournalLeadsHere'
    <3>1. /\ Path(p, journal') /\ p[Len(journal')] = Tables(ix')
          /\ \A i \in 1 .. Len(marks') : p[marks'[i]] = Tables(saved'[i])
      BY <1>1, <2>1, <2>2
    <3> QED
      BY <3>1 DEF JournalLeadsHere
  <2>4. MarksInOrder'
    BY <1>2, <1>5, <2>1 DEF MarksInOrder
  <2>5. <<>> \in Seq(Entries)
    OBVIOUS
  <2> QED
    BY <1>1, <1>3, <2>1, <2>3, <2>4, <2>5 DEF StoreInv
<1>6. CASE N # 1
  <2>1. journal' = journal /\ marks' # <<>>
    BY <1>1, <1>2, <1>6
  <2>2. PICK p : /\ Path(p, journal) /\ p[Len(journal)] = Tables(ix)
                 /\ \A i \in 1 .. N : p[marks[i]] = Tables(saved[i])
    BY DEF StoreInv, JournalLeadsHere, N
  <2>3. JournalLeadsHere'
    <3>1. /\ Path(p, journal') /\ p[Len(journal')] = Tables(ix')
          /\ \A i \in 1 .. Len(marks') : p[marks'[i]] = Tables(saved'[i])
      BY <1>1, <1>2, <1>4, <2>1, <2>2
    <3> QED
      BY <3>1 DEF JournalLeadsHere
  <2>4. MarksInOrder'
    <3>1. /\ \A i \in 1 .. N - 1 : marks'[i] <= Len(journal)
          /\ \A h, i \in 1 .. N - 1 : h <= i => marks'[h] <= marks'[i]
      BY <1>2, <1>3, <1>4
    <3>2. marks'[1] = 0
      <4>1. 1 \in 1 .. N - 1
        BY <1>2, <1>6
      <4> QED
        BY <1>2, <4>1
    <3> QED
      BY <1>2, <2>1, <3>1, <3>2 DEF MarksInOrder
  <2>5. \A i \in 1 .. Len(marks') : Whole(Tables(saved'[i]))
    BY <1>2, <1>4
  <2> QED
    BY <1>1, <1>3, <2>1, <2>3, <2>4, <2>5 DEF StoreInv
<1> QED
  BY <1>5, <1>6

(* The beginning of a journal leads as far as it goes.                     *)
LEMMA PathBegins ==
  ASSUME NEW es \in Seq(Entries), NEW p, Path(p, es), NEW t \in 0 .. Len(es)
  PROVE  /\ SubSeq(es, 1, t) \in Seq(Entries) /\ Len(SubSeq(es, 1, t)) = t
         /\ Path(p, SubSeq(es, 1, t))
<1> DEFINE s == SubSeq(es, 1, t)
<1>1. Len(es) \in Nat /\ \A i \in 1 .. Len(es) : es[i] \in Entries
  BY LenProperties, ElementOfSeq
<1>2. s \in Seq(Entries) /\ Len(s) = t /\ \A i \in 1 .. t : s[i] = es[i]
  <2>1. \A i \in 1 .. t : es[i] \in Entries
    BY <1>1
  <2> QED
    BY <1>1, <2>1, SubSeqProperties
<1> HIDE DEF s
<1>3. /\ \A n \in 0 .. t : n \in 0 .. Len(es)
      /\ \A n \in 1 .. t : n \in 1 .. Len(es)
  BY <1>1
<1>4. Path(p, s)
  BY <1>2, <1>3 DEF Path
<1> QED
  BY <1>2, <1>4 DEF s

(* Along a path only the entry that deletes a job takes it away.           *)
LEMMA StaysAlong ==
  ASSUME NEW es \in Seq(Entries), NEW p, Path(p, es), NEW t \in 0 .. Len(es),
         NEW a \in Present(p[t].jobs),
         \A i \in t + 1 .. Len(es) :
           ~(es[i].kind = "job" /\ es[i].next = NULL /\ es[i].prev.id = a)
  PROVE  \A n \in t .. Len(es) : a \in Present(p[n].jobs)
<1> DEFINE T == {n \in t .. Len(es) : a \notin Present(p[n].jobs)}
<1>1. Len(es) \in Nat
  BY LenProperties
<1> SUFFICES ASSUME T # {} PROVE FALSE
  OBVIOUS
<1>2. PICK n \in T : \A m \in T : n <= m
  <2>1. T \in SUBSET Nat
    BY <1>1
  <2> HIDE DEF T
  <2> QED
    BY <2>1, LeastElement
<1>3. n \in t .. Len(es) /\ a \notin Present(p[n].jobs) /\ n # t
  BY <1>2
<1>4. /\ n \in 1 .. Len(es) /\ n - 1 \in 0 .. Len(es) /\ n - 1 \in t .. Len(es)
      /\ n \in t + 1 .. Len(es) /\ n - 1 \notin T
  BY <1>1, <1>2, <1>3
<1> DEFINE k == p[n - 1]
           e == es[n]
<1>5. a \in Present(k.jobs) /\ WellFormed(k) /\ Fits(k, e) /\ p[n] = Applied(k, e)
  BY <1>4 DEF Path
<1>6. ~(e.kind = "job" /\ e.next = NULL /\ e.prev.id = a) /\ a \notin Present(Applied(k, e).jobs)
  BY <1>3, <1>4, <1>5
<1> HIDE DEF k, e, T
<1>7. k \in AllTables /\ k.jobs \in [JobIds -> Row \cup {NULL}] /\ a \in JobIds /\ k.jobs[a] # NULL
      /\ k = [jobs |-> k.jobs, blockers |-> k.blockers]
  BY <1>5 DEF WellFormed, AllTables, Present
<1>8. CASE e.kind = "job"
  <2>1. Applied(k, e).jobs = [k.jobs EXCEPT ![IdOf(e.prev, e.next)] = e.next]
    BY <1>7, <1>8 DEF Applied
  <2>2. FitsJob(k.jobs, e.prev, e.next)
    BY <1>5, <1>8 DEF Fits
  <2>3. a = IdOf(e.prev, e.next) /\ e.next = NULL
    BY <1>6, <1>7, <2>1 DEF Present
  <2>4. e.prev # NULL
    BY <2>2, <2>3, NullIsNoValue DEF FitsJob
  <2> QED
    BY <1>6, <1>8, <2>3, <2>4 DEF IdOf
<1>9. CASE e.kind = "blocker"
  <2>1. Applied(k, e).jobs = k.jobs
    BY <1>7, <1>9 DEF Applied
  <2> QED
    BY <1>5, <1>6, <2>1
<1> QED
  BY <1>5, <1>8, <1>9 DEF Fits

(* A rollback walks the path back to where its scope began.                *)
LEMMA RejectKeeps ==
  ASSUME StoreInv, Reject
  PROVE  /\ StoreInv' /\ Tables(ix') = Tables(saved[Len(marks)])
         /\ \A a, b \in JobsOf(ix) \cap JobsOf(ix)' :
              ~UndoesDeletionOf(a) /\ ~UndoesDeletionOf(b) =>
                (Seq0(ix.seqs, a) < Seq0(ix.seqs, b) <=> Seq0(ix.seqs', a) < Seq0(ix.seqs', b))
<1> DEFINE N == Len(marks)
           t == Last(marks)
<1>1. /\ InTransaction /\ ix' = RolledBackTo(t) /\ journal' = SubSeq(journal, 1, t)
      /\ marks' = Front(marks) /\ saved' = Front(saved) /\ now' = now
  BY DEF Reject
<1>2. /\ N \in Nat /\ N # 0 /\ marks' \in Seq(Nat) /\ saved' \in Seq(Store)
      /\ Len(marks') = N - 1 /\ Len(saved') = N - 1
      /\ \A i \in 1 .. N - 1 : marks'[i] = marks[i] /\ saved'[i] = saved[i]
      /\ \A i \in 1 .. N : marks[i] \in 0 .. Len(journal)
      /\ \A h, i \in 1 .. N : h <= i => marks[h] <= marks[i]
      /\ marks' = <<>> <=> N = 1
      /\ marks[1] = 0 /\ t = marks[N] /\ N \in 1 .. N /\ 1 \in 1 .. N
      /\ \A i \in 1 .. N : Whole(Tables(saved[i]))
  BY <1>1, FrontMarks
<1>3. /\ Agree(ix) /\ journal \in Seq(Entries) /\ now \in 0 .. MaxNow /\ Len(journal) \in Nat
      /\ \A i \in 1 .. Len(journal) : journal[i].kind \in {"job", "blocker"}
  BY EntryKinds DEF StoreInv
<1>4. PICK p : /\ Path(p, journal) /\ p[Len(journal)] = Tables(ix)
               /\ \A i \in 1 .. N : p[marks[i]] = Tables(saved[i])
  BY DEF StoreInv, JournalLeadsHere
<1>5. t \in 0 .. Len(journal) /\ p[t] = Tables(saved[N]) /\ Whole(p[t])
  BY <1>2, <1>4
<1>6. \A i \in 1 .. N - 1 : i \in 1 .. N
  BY <1>2
<1> HIDE DEF N, t
<1>7. /\ Agree(RolledBackTo(t)) /\ Tables(RolledBackTo(t)) = p[t]
      /\ \A a, b \in JobIds :
           (\A m \in t .. Len(journal) : {a, b} \subseteq Present(p[m].jobs)) =>
             (Seq0(ix.seqs, a) < Seq0(ix.seqs, b) <=>
                Seq0(RolledBackTo(t).seqs, a) < Seq0(RolledBackTo(t).seqs, b))
  BY <1>3, <1>4, <1>5, RollbackAgrees
<1>8. journal' \in Seq(Entries) /\ Len(journal') = t /\ Path(p, journal')
  BY <1>1, <1>3, <1>4, <1>5, PathBegins
<1>9. JournalLeadsHere'
  <2>1. /\ Path(p, journal') /\ p[Len(journal')] = Tables(ix')
        /\ \A i \in 1 .. Len(marks') : p[marks'[i]] = Tables(saved'[i])
    BY <1>1, <1>2, <1>4, <1>6, <1>7, <1>8
  <2> QED
    BY <2>1 DEF JournalLeadsHere
<1>10. MarksInOrder'
  <2>1. \A i \in 1 .. N - 1 : marks'[i] <= t
    <3> SUFFICES ASSUME NEW i \in 1 .. N - 1 PROVE marks'[i] <= t
      OBVIOUS
    <3>1. i \in 1 .. N /\ i <= N
      BY <1>2, <1>6
    <3> QED
      BY <1>2, <3>1
  <2>2. \A h, i \in 1 .. N - 1 : h <= i => marks'[h] <= marks'[i]
    BY <1>2, <1>6
  <2>3. marks' # <<>> => marks'[1] = 0
    <3>1. N # 1 => 1 \in 1 .. N - 1
      BY <1>2
    <3> QED
      BY <1>2, <3>1
  <2>4. marks' = <<>> => journal' = <<>>
    <3>1. N = 1 => t = 0
      BY <1>2
    <3> QED
      BY <1>2, <1>8, <3>1, EmptySeq
  <2> QED
    BY <1>2, <1>8, <2>1, <2>2, <2>3, <2>4 DEF MarksInOrder
<1>11. StoreInv'
  <2>1. Agree(ix') /\ Whole(Tables(ix'))
    BY <1>1, <1>5, <1>7
  <2>2. \A i \in 1 .. Len(marks') : Whole(Tables(saved'[i]))
    BY <1>2, <1>6
  <2> QED
    BY <1>1, <1>3, <1>8, <1>9, <1>10, <2>1, <2>2 DEF StoreInv
<1>12. ASSUME NEW a \in JobsOf(ix) \cap JobsOf(ix)', NEW b \in JobsOf(ix) \cap JobsOf(ix)',
              ~UndoesDeletionOf(a), ~UndoesDeletionOf(b)
       PROVE  Seq0(ix.seqs, a) < Seq0(ix.seqs, b) <=> Seq0(ix.seqs', a) < Seq0(ix.seqs', b)
  <2>1. \A x : ~UndoesDeletionOf(x) =>
          \A i \in t + 1 .. Len(journal) :
            ~(journal[i].kind = "job" /\ journal[i].next = NULL /\ journal[i].prev.id = x)
    BY <1>8 DEF UndoesDeletionOf
  <2>2. p[t].jobs = ix'.jobs
    BY <1>1, <1>7, TablesOf
  <2>3. a \in Present(p[t].jobs) /\ b \in Present(p[t].jobs) /\ a \in JobIds /\ b \in JobIds
    BY <2>2 DEF JobsOf, Present
  <2>4. \A n \in t .. Len(journal) : a \in Present(p[n].jobs)
    BY <1>3, <1>4, <1>5, <1>12, <2>1, <2>3, StaysAlong
  <2>5. \A n \in t .. Len(journal) : b \in Present(p[n].jobs)
    BY <1>3, <1>4, <1>5, <1>12, <2>1, <2>3, StaysAlong
  <2> QED
    BY <1>1, <1>7, <2>3, <2>4, <2>5
<1>13. Tables(ix') = Tables(saved[Len(marks)])
  BY <1>1, <1>5, <1>7 DEF N
<1> QED
  BY <1>11, <1>12, <1>13

(* Every operation of the adapter advances.                                *)
LEMMA OperationsAdvance ==
  ASSUME StoreInv,
         \/ CreateJobs \/ AddJobsBlockers \/ UnblockJobs \/ AcquireJob \/ RenewJobLease
         \/ RescheduleJob \/ CompleteJob \/ ReapExpiredJobLease \/ DeleteChains \/ TriggerJobs
  PROVE  Advances
<1>1. CASE CreateJobs
  BY <1>1, CreateJobsAdvances
<1>2. CASE AddJobsBlockers
  BY <1>2, AddBlockersAdvances
<1>3. CASE UnblockJobs
  BY <1>3, UnblockAdvances
<1>4. CASE AcquireJob
  BY <1>4, AcquireAdvances
<1>5. CASE RenewJobLease
  BY <1>5, RenewAdvances
<1>6. CASE RescheduleJob
  BY <1>6, RescheduleAdvances
<1>7. CASE CompleteJob
  BY <1>7, CompleteAdvances
<1>8. CASE ReapExpiredJobLease
  BY <1>8, ReapAdvances
<1>9. CASE DeleteChains
  BY <1>9, DeleteAdvances
<1>10. CASE TriggerJobs
  BY <1>10, TriggerAdvances
<1> QED
  BY <1>1, <1>2, <1>3, <1>4, <1>5, <1>6, <1>7, <1>8, <1>9, <1>10

(* What a step does to the order of the jobs that are there before and     *)
(* after it.                                                               *)
OrderKept ==
  \A a, b \in JobsOf(ix) \cap JobsOf(ix)' :
    Seq0(ix.seqs, a) < Seq0(ix.seqs, b) /\ ~UndoesDeletionOf(a) /\ ~UndoesDeletionOf(b)
    => Seq0(ix.seqs', a) < Seq0(ix.seqs', b)

(* Every step keeps the invariant and the order.                           *)
LEMMA StepKeeps ==
  ASSUME StoreInv, Next
  PROVE  StoreInv' /\ OrderKept
<1>1. CASE \/ CreateJobs \/ AddJobsBlockers \/ UnblockJobs \/ AcquireJob \/ RenewJobLease
           \/ RescheduleJob \/ CompleteJob \/ ReapExpiredJobLease \/ DeleteChains \/ TriggerJobs
  <2>1. Advances
    BY <1>1, OperationsAdvance
  <2>2. StoreInv' /\ SameOrderOf(JobsOf(ix) \cap JobsOf(ix)')
    BY <2>1, AdvanceKeeps
  <2> QED
    BY <2>2 DEF SameOrderOf, OrderKept
<1>2. CASE WithTransaction \/ WithSavepoint
  <2>1. OpenScope /\ (marks = <<>> => journal = <<>>)
    BY <1>2 DEF WithTransaction, WithSavepoint, StoreInv, MarksInOrder
  <2>2. ix' = ix
    BY <2>1 DEF OpenScope
  <2> QED
    BY <2>1, <2>2, OpenKeeps DEF OrderKept
<1>3. CASE Resolve
  <2>1. ix' = ix
    BY <1>3 DEF Resolve
  <2> QED
    BY <1>3, <2>1, ResolveKeeps DEF OrderKept
<1>4. CASE Reject
  BY <1>4, RejectKeeps DEF OrderKept
<1>5. CASE Tick
  <2>1. /\ now' = now + 1 /\ now < MaxNow /\ ix' = ix /\ journal' = journal
        /\ marks' = marks /\ saved' = saved
    BY <1>5 DEF Tick
  <2>2. now' \in 0 .. MaxNow
    BY <2>1, BoundsType DEF StoreInv
  <2>3. MarksInOrder' /\ JournalLeadsHere'
    BY <2>1 DEF StoreInv, MarksInOrder, JournalLeadsHere
  <2>4. StoreInv'
    BY <2>1, <2>2, <2>3 DEF StoreInv
  <2> QED
    BY <2>1, <2>4 DEF OrderKept
<1> QED
  BY <1>1, <1>2, <1>3, <1>4, <1>5 DEF Next

(* And so does a step that changes nothing.                                *)
LEMMA StutterKeeps ==
  ASSUME StoreInv, UNCHANGED vars
  PROVE  StoreInv'
<1>1. /\ now' = now /\ ix' = ix /\ journal' = journal /\ marks' = marks /\ saved' = saved
  BY DEF vars
<1> QED
  BY <1>1 DEF StoreInv, MarksInOrder, JournalLeadsHere

(* The invariant is inductive.                                             *)
THEOREM StoreInvariant == Spec => []StoreInv
<1>1. Init => StoreInv
  BY InitStore
<1>2. StoreInv /\ [Next]_vars => StoreInv'
  BY StepKeeps, StutterKeeps
<1> QED
  BY <1>1, <1>2, PTL DEF Spec

(* Jobs keep the places that they have in the order of acquisition.        *)
THEOREM OrderStays == Spec => OrderIsStable
<1>1. StoreInv /\ [Next]_vars => [OrderKept]_vars
  BY StepKeeps
<1> QED
  BY <1>1, StoreInvariant, PTL DEF Spec, OrderIsStable, OrderKept

(* A set whose elements are all the same has one at most.                  *)
LEMMA SameAreOne ==
  ASSUME NEW S, IsFiniteSet(S), \A a, b \in S : a = b
  PROVE  Cardinality(S) <= 1
<1>1. CASE S = {}
  BY <1>1, FS_EmptySet
<1>2. CASE S # {}
  <2>1. PICK x \in S : TRUE
    BY <1>2
  <2>2. S = {x}
    BY <2>1
  <2> QED
    BY <2>2, FS_Singleton
<1> QED
  BY <1>1, <1>2

(* A key has at most one root that is not completed.                       *)
THEOREM OneOpenRoot == Spec => []OneOpenRootPerKey
<1>1. StoreInv => OneOpenRootPerKey
  <2> SUFFICES ASSUME StoreInv, NEW k \in Keys
               PROVE  Cardinality({r \in Rows : IsRoot(r) /\ r.key = k /\ r.status # "completed"}) <= 1
    BY DEF OneOpenRootPerKey
  <2> DEFINE S == {r \in Rows : IsRoot(r) /\ r.key = k /\ r.status # "completed"}
  <2>1. IsFiniteSet(S)
    BY RowFacts, FS_Subset
  <2>2. \A a, b \in S : a = b
    BY RowFacts, NullIsNoValue DEF Open
  <2> HIDE DEF S
  <2>3. Cardinality(S) <= 1
    BY <2>1, <2>2, SameAreOne
  <2> QED
    BY <2>3 DEF S
<1> QED
  BY <1>1, StoreInvariant, PTL

(* The jobs of a chain are at different places.                            *)
LEMMA ChainPlaces ==
  ASSUME StoreInv, NEW c
  PROVE  DistinctPlaces({r \in Rows : r.chain = c})
  BY RowFacts DEF DistinctPlaces, Proper

(* The indices agree with the job map.                                     *)
THEOREM IndicesStayTrue == Spec => []IndicesAgree
<1>1. StoreInv => IndicesAgree
  <2> SUFFICES ASSUME StoreInv PROVE IndicesAgree
    OBVIOUS
  <2>1. /\ Indexed(ix, Rows) /\ ToSet(ix.seqs) = JobsOf(ix) /\ Numbers(ix.seqs)
    BY IndexFacts
  <2>2. Holds(ix.seqs, JobsOf(ix))
    <3>1. ix.seqs \in Seq(JobIds) /\ Distinct(ix.seqs)
      BY <2>1 DEF Numbers
    <3>2. /\ Len(ix.seqs) \in Nat /\ \A i \in 1 .. Len(ix.seqs) : ix.seqs[i] \in JobsOf(ix)
          /\ \A j \in JobsOf(ix) : \E i \in 1 .. Len(ix.seqs) : ix.seqs[i] = j
      BY <2>1, <3>1, SeqElements
    <3> DEFINE f == [i \in 1 .. Len(ix.seqs) |-> ix.seqs[i]]
    <3>3. f \in Bijection(1 .. Len(ix.seqs), JobsOf(ix))
      BY <3>1, <3>2 DEF Bijection, Injection, Surjection, IsInjective, Distinct
    <3>4. ExistsBijection(1 .. Len(ix.seqs), JobsOf(ix))
      BY <3>3 DEF ExistsBijection
    <3> QED
      BY <2>1, <3>2, <3>4, FS_CountingElements DEF Holds
  <2>3. "createdAt" \in Orders /\ "scheduledAt" \in Orders /\ "leasedUntil" \in Orders
    BY DEF Orders
  <2>4. ASSUME NEW by \in Orders, NEW items, NEW R, Sorted(ix.seqs, by, items, R)
        PROVE  Holds(items, R) /\ InOrder(items, by)
    <3>1. Holds(items, R)
      BY <2>1, <2>4, SortedLength
    <3>2. DOMAIN items = 1 .. Len(items)
      BY <2>4, LenProperties DEF Sorted
    <3> QED
      BY <2>4, <3>1, <3>2 DEF Sorted, InOrder
  <2>5. ASSUME NEW t \in Types
        PROVE  /\ Holds(ix.pending[t], {r \in Rows : r.type = t /\ r.status = "pending"})
               /\ InOrder(ix.pending[t], "scheduledAt")
               /\ Holds(ix.running[t], {r \in Rows : r.type = t /\ r.status = "running"})
               /\ InOrder(ix.running[t], "leasedUntil")
    <3>1. /\ Sorted(ix.seqs, "scheduledAt", ix.pending[t], OfStatus(Rows, t, "pending"))
          /\ Sorted(ix.seqs, "leasedUntil", ix.running[t], OfStatus(Rows, t, "running"))
      BY IndexFacts
    <3>2. /\ Holds(ix.pending[t], OfStatus(Rows, t, "pending"))
          /\ InOrder(ix.pending[t], "scheduledAt")
          /\ Holds(ix.running[t], OfStatus(Rows, t, "running"))
          /\ InOrder(ix.running[t], "leasedUntil")
      BY <2>3, <2>4, <3>1
    <3> QED
      BY <3>2 DEF OfStatus
  <2>6. Holds(ix.roots, {r \in Rows : IsRoot(r)}) /\ InOrder(ix.roots, "createdAt")
    <3>1. Sorted(ix.seqs, "createdAt", ix.roots, RootsOf(Rows))
      BY <2>1 DEF Indexed
    <3>2. Holds(ix.roots, RootsOf(Rows)) /\ InOrder(ix.roots, "createdAt")
      BY <2>3, <2>4, <3>1
    <3> QED
      BY <3>2 DEF RootsOf
  <2>7. ASSUME NEW c \in JobIds
        PROVE  /\ ix.byChain[c] = {r \in Rows : r.chain = c}
               /\ ix.last[c] = HighestIndex(ix.byChain[c])
               /\ ix.blockedBy[c] = {q \in JobIds : c \in ix.blockers[q]}
    <3> DEFINE R == {r \in Rows : r.chain = c}
    <3>1. ix.byChain[c] = R /\ Top(ix.last[c], R)
      <4>1. ix.byChain[c] = OfChain(Rows, c) /\ Top(ix.last[c], OfChain(Rows, c))
        BY <2>1 DEF Indexed
      <4> QED
        BY <4>1 DEF OfChain
    <3>2. DistinctPlaces(R)
      BY ChainPlaces
    <3> HIDE DEF R
    <3>3. ix.last[c] = HighestIndex(R)
      BY <3>1, <3>2, TopIsHighest
    <3>4. ix.blockedBy[c] = {q \in JobIds : c \in ix.blockers[q]}
      BY DEF StoreInv, Agree
    <3> QED
      BY <3>1, <3>3, <3>4 DEF R
  <2>8. \A k \in Keys : ix.dedup[k] = {r \in Rows : IsRoot(r) /\ r.key = k}
    BY IndexFacts
  <2> QED
    BY <2>2, <2>5, <2>6, <2>7, <2>8 DEF IndicesAgree
<1> QED
  BY <1>1, StoreInvariant, PTL

-----------------------------------------------------------------------------
(* What acquisition and the reaper find.                                   *)

(* The times of a row are numbers.                                         *)
LEMMA RowTimes ==
  ASSUME NEW r \in Row
  PROVE  r.scheduledAt \in Int /\ r.leasedUntil \in Int
<1>1. r.scheduledAt \in 0 .. MaxNow + 1 /\ r.leasedUntil \in 0 .. Unleased
  BY DEF Row
<1> QED
  BY <1>1

(* What comes before in an order has no later time.                        *)
LEMMA EarlierIsNoLater ==
  ASSUME NEW seqs, NEW a \in Row, NEW b \in Row
  PROVE  /\ Earlier(seqs, "scheduledAt", a, b) => a.scheduledAt <= b.scheduledAt
         /\ Earlier(seqs, "leasedUntil", a, b) => a.leasedUntil <= b.leasedUntil
<1>1. /\ Time("scheduledAt", a) = a.scheduledAt /\ Time("scheduledAt", b) = b.scheduledAt
      /\ Time("leasedUntil", a) = a.leasedUntil /\ Time("leasedUntil", b) = b.leasedUntil
  BY DEF Time
<1>2. /\ a.scheduledAt \in Int /\ b.scheduledAt \in Int
      /\ a.leasedUntil \in Int /\ b.leasedUntil \in Int
  BY RowTimes
<1> QED
  BY <1>1, <1>2 DEF Earlier

(* A set has another element than x when it has more than one.             *)
LEMMA AnotherElement ==
  ASSUME NEW S, IsFiniteSet(S), NEW x \in S
  PROVE  (\E r \in S : r # x) <=> Cardinality(S) > 1
<1>1. /\ IsFiniteSet(S \ {x}) /\ Cardinality(S \ {x}) = Cardinality(S) - 1
      /\ Cardinality(S) \in Nat
  BY FS_RemoveElement, FS_CardinalityType
<1>2. Cardinality(S \ {x}) = 0 <=> S \ {x} = {}
  BY <1>1, FS_EmptySet
<1>3. (\E r \in S : r # x) <=> S \ {x} # {}
  OBVIOUS
<1>4. Cardinality(S) # 0
  BY FS_EmptySet
<1> QED
  BY <1>1, <1>2, <1>3, <1>4

DueRows(T) == {r \in Rows : r.type \in T /\ r.status = "pending" /\ r.scheduledAt <= now}

(* The head of the set of a job that is due is due, and no later.          *)
LEMMA DueRowsHead ==
  ASSUME StoreInv, NEW T \in SUBSET Types, NEW r \in DueRows(T)
  PROVE  \E h \in DueHeads(ix, T) : /\ h = FirstOf(ix.pending[r.type]) /\ h.type = r.type
                                    /\ h.scheduledAt <= r.scheduledAt
<1> DEFINE t == r.type
           h == FirstOf(ix.pending[t])
<1>1. /\ r \in Rows /\ r \in Row /\ t \in T /\ t \in Types /\ r.scheduledAt <= now
      /\ r \in OfStatus(Rows, t, "pending")
  BY RowFacts DEF DueRows, OfStatus
<1>2. /\ h # NULL /\ h \in OfStatus(Rows, t, "pending")
      /\ r # h => Earlier(ix.seqs, "scheduledAt", h, r)
  BY <1>1, HeadIsFirst
<1>3. h \in Rows /\ h \in Row /\ h.type = t
  BY <1>2, RowFacts DEF OfStatus
<1>4. /\ h.scheduledAt \in Int /\ r.scheduledAt \in Int /\ now \in Int
  BY <1>1, <1>3, RowTimes, RowFacts
<1>5. h.scheduledAt <= r.scheduledAt
  <2>1. CASE r = h
    BY <1>4, <2>1
  <2>2. CASE r # h
    BY <1>1, <1>2, <1>3, <2>2, EarlierIsNoLater
  <2> QED
    BY <2>1, <2>2
<1>6. h.scheduledAt <= now
  BY <1>1, <1>4, <1>5
<1>7. h \in DueHeads(ix, T)
  BY <1>1, <1>2, <1>6 DEF DueHeads
<1> QED
  BY <1>3, <1>5, <1>7

(* hasMore is TRUE when another job than the one taken is due.             *)
LEMMA MoreIsAnother ==
  ASSUME StoreInv, NEW T \in SUBSET Types, BestJob(ix, T) # NULL
  PROVE  HasMore(ix, T) <=> \E r \in DueRows(T) : r # BestJob(ix, T)
<1> DEFINE D == DueHeads(ix, T)
           best == BestJob(ix, T)
           t == best.type
           items == ix.pending[t]
           R == OfStatus(Rows, t, "pending")
<1>1. best \in D /\ D \subseteq DueRows(T)
  BY BestIsEarliest DEF DueRows
<1>2. PICK u \in T : best = FirstOf(ix.pending[u])
  BY <1>1 DEF DueHeads
<1>3. u = t /\ u \in Types
  <2>1. best \in OfStatus(Rows, u, "pending")
    BY <1>2, HeadIsFirst
  <2> QED
    BY <2>1 DEF OfStatus
<1>4. Sorted(ix.seqs, "scheduledAt", items, R)
  BY <1>3, IndexFacts
<1>5. HasMore(ix, T) <=> \/ Len(items) > 1 /\ items[2].scheduledAt <= now
                         \/ \E r \in D : r.type # t
  BY DEF HasMore
<1>6. best = FirstOf(items)
  BY <1>2, <1>3
<1>7. t \in T
  BY <1>3
<1>8. \A r \in R : r \in Row /\ r \in Rows /\ r.type = t /\ r.status = "pending"
  BY RowFacts DEF OfStatus
<1>9. \A r \in DueRows(T) : r.type = t => r \in R /\ r.scheduledAt <= now
  BY DEF DueRows, OfStatus
<1>10. \A r \in R : r.scheduledAt <= now => r \in DueRows(T)
  BY <1>7, <1>8 DEF DueRows
<1>11. \A r \in DueRows(T) : r.type # t => \E h \in D : h.type # t
  BY DueRowsHead
<1>12. best # NULL
  OBVIOUS
<1> HIDE DEF R, items, t, best, D
<1>13. /\ Len(items) \in Nat /\ \A i \in 1 .. Len(items) : items[i] \in R
       /\ \A r \in R : \E i \in 1 .. Len(items) : items[i] = r
       /\ \A i, k \in 1 .. Len(items) : i < k => Earlier(ix.seqs, "scheduledAt", items[i], items[k])
       /\ \A i, k \in 1 .. Len(items) : items[i] = items[k] => i = k
  <2>1. /\ items \in Seq(Row) /\ ToSet(items) = R
        /\ \A i, k \in 1 .. Len(items) : i < k => Earlier(ix.seqs, "scheduledAt", items[i], items[k])
    BY <1>4 DEF Sorted
  <2>2. /\ Len(items) \in Nat /\ \A i \in 1 .. Len(items) : items[i] \in R
        /\ \A r \in R : \E i \in 1 .. Len(items) : items[i] = r
    BY <2>1, SeqElements
  <2>3. ASSUME NEW i \in 1 .. Len(items), NEW k \in 1 .. Len(items), i < k, items[i] = items[k]
        PROVE  FALSE
    <3>1. Earlier(ix.seqs, "scheduledAt", items[i], items[i]) /\ items[i] \in Row
      BY <1>8, <2>1, <2>2, <2>3
    <3>2. Numbers(ix.seqs) /\ "scheduledAt" \in Orders
      BY IndexFacts DEF Orders
    <3> QED
      BY <3>1, <3>2, EarlierOrders
  <2> QED
    BY <2>1, <2>2, <2>3
<1>14. best = items[1] /\ 1 \in 1 .. Len(items)
  <2>1. items # <<>> /\ best = items[1]
    BY <1>6, <1>12 DEF FirstOf
  <2> QED
    BY <1>4, <1>13, <2>1, EmptySeq DEF Sorted
<1>15. ASSUME HasMore(ix, T) PROVE \E r \in DueRows(T) : r # best
  <2>1. CASE Len(items) > 1 /\ items[2].scheduledAt <= now
    <3>1. 2 \in 1 .. Len(items)
      BY <1>13, <2>1
    <3>2. items[2] \in DueRows(T)
      BY <1>10, <1>13, <2>1, <3>1
    <3>3. items[2] # best
      BY <1>13, <1>14, <3>1
    <3> QED
      BY <3>2, <3>3
  <2>2. CASE \E r \in D : r.type # t
    <3>1. PICK r \in D : r.type # t
      BY <2>2
    <3>2. r # best
      BY <3>1 DEF t
    <3> QED
      BY <1>1, <3>1, <3>2
  <2> QED
    BY <1>5, <1>15, <2>1, <2>2
<1>16. ASSUME NEW r \in DueRows(T), r # best PROVE HasMore(ix, T)
  <2>1. CASE r.type # t
    BY <1>5, <1>11, <2>1
  <2>2. CASE r.type = t
    <3>1. r \in R /\ r.scheduledAt <= now
      BY <1>9, <2>2
    <3>2. PICK i \in 1 .. Len(items) : items[i] = r
      BY <1>13, <3>1
    <3>3. 2 \in 1 .. Len(items) /\ 2 <= i
      BY <1>13, <1>14, <1>16, <3>2
    <3>4. items[2] = r \/ Earlier(ix.seqs, "scheduledAt", items[2], r)
      BY <1>8, <1>13, <3>2, <3>3
    <3>5. items[2] \in Row /\ r \in Row
      BY <1>8, <1>13, <3>1, <3>3
    <3>6. items[2].scheduledAt \in Int /\ r.scheduledAt \in Int /\ now \in Int
      BY <3>5, RowTimes, RowFacts
    <3>7. items[2].scheduledAt <= r.scheduledAt
      BY <3>4, <3>5, <3>6, EarlierIsNoLater
    <3>8. items[2].scheduledAt <= now /\ Len(items) > 1
      BY <1>13, <3>1, <3>3, <3>6, <3>7
    <3> QED
      BY <1>5, <3>8
  <2> QED
    BY <2>1, <2>2
<1> QED
  BY <1>15, <1>16 DEF best

(* acquireJob looks at the heads of the pending sets only, and yet takes   *)
(* the job that came due first and knows whether another is due.           *)
THEOREM AcquisitionFinds == Spec => []AcquisitionFindsTheEarliest
<1>1. StoreInv => AcquisitionFindsTheEarliest
  <2> SUFFICES ASSUME StoreInv, NEW T \in SUBSET Types
               PROVE  /\ (BestJob(ix, T) = NULL) <=> (DueRows(T) = {})
                      /\ BestJob(ix, T) # NULL =>
                           /\ BestJob(ix, T) \in DueRows(T)
                           /\ \A r \in DueRows(T) : BestJob(ix, T).scheduledAt <= r.scheduledAt
                           /\ HasMore(ix, T) <=> Cardinality(DueRows(T)) > 1
    BY DEF AcquisitionFindsTheEarliest, DueRows
  <2>1. DueHeads(ix, T) \subseteq DueRows(T)
    BY BestIsEarliest DEF DueRows
  <2>2. (BestJob(ix, T) = NULL) <=> (DueRows(T) = {})
    BY <2>1, BestIsEarliest, DueRowsHead
  <2>3. ASSUME BestJob(ix, T) # NULL
        PROVE  /\ BestJob(ix, T) \in DueRows(T)
               /\ \A r \in DueRows(T) : BestJob(ix, T).scheduledAt <= r.scheduledAt
               /\ HasMore(ix, T) <=> Cardinality(DueRows(T)) > 1
    <3> DEFINE best == BestJob(ix, T)
               D == DueHeads(ix, T)
               due == DueRows(T)
    <3>1. best \in D /\ \A r \in D \ {best} : Earlier(ix.seqs, "scheduledAt", best, r)
      BY <2>3, BestIsEarliest
    <3>2. HasMore(ix, T) <=> \E r \in due : r # best
      BY <2>3, MoreIsAnother
    <3>3. IsFiniteSet(due)
      BY RowFacts, FS_Subset DEF DueRows
    <3>4. \A r \in due : r \in Row
      BY RowFacts DEF DueRows
    <3>5. \A r \in due : \E h \in D : h.scheduledAt <= r.scheduledAt
      BY DueRowsHead
    <3>6. best \in due /\ D \subseteq due
      BY <2>1, <3>1
    <3> HIDE DEF best, D, due
    <3>7. ASSUME NEW r \in due PROVE best.scheduledAt <= r.scheduledAt
      <4>1. PICK h \in D : h.scheduledAt <= r.scheduledAt
        BY <3>5
      <4>2. h \in Row /\ best \in Row /\ r \in Row
        BY <3>4, <3>6
      <4>3. h.scheduledAt \in Int /\ best.scheduledAt \in Int /\ r.scheduledAt \in Int
        BY <4>2, RowTimes
      <4>4. best.scheduledAt <= h.scheduledAt
        <5>1. CASE h = best
          BY <4>3, <5>1
        <5>2. CASE h # best
          BY <3>1, <4>2, <5>2, EarlierIsNoLater
        <5> QED
          BY <5>1, <5>2
      <4> QED
        BY <4>1, <4>3, <4>4
    <3>8. (\E r \in due : r # best) <=> Cardinality(due) > 1
      BY <3>3, <3>6, AnotherElement
    <3> QED
      BY <3>2, <3>6, <3>7, <3>8 DEF best, due
  <2> QED
    BY <2>2, <2>3
<1> QED
  BY <1>1, StoreInvariant, PTL

(* The scan finds a job when it reaches one that is not ignored.           *)
LEMMA FirstExpiredExists ==
  ASSUME NEW items \in Seq(Row), NEW ignored, NEW k \in 1 .. Len(items),
         \A h \in 1 .. k : items[h].leasedUntil <= now, items[k].id \notin ignored
  PROVE  FirstExpired(items, ignored) # NULL
<1> DEFINE expired == {i \in DOMAIN items : \A h \in 1 .. i : items[h].leasedUntil <= now}
           F == {i \in expired : items[i].id \notin ignored}
           first == CHOOSE i \in F : \A h \in F : i <= h
<1>1. DOMAIN items = 1 .. Len(items) /\ Len(items) \in Nat
  BY LenProperties
<1>2. FirstExpired(items, ignored) = IF F = {} THEN NULL ELSE items[first]
  BY DEF FirstExpired
<1>3. k \in F
  BY <1>1
<1>4. F \in SUBSET Nat /\ F \subseteq 1 .. Len(items)
  BY <1>1
<1> HIDE DEF F
<1>5. first \in F
  <2>1. \E i \in F : \A h \in F : i <= h
    BY <1>3, <1>4, LeastElement
  <2> QED
    BY <2>1
<1> HIDE DEF first
<1>6. items[first] \in Row
  BY <1>4, <1>5, ElementOfSeq
<1> QED
  BY <1>2, <1>3, <1>6, NullIsNoValue

Expired(T, ignored) ==
  {r \in Rows : /\ r.type \in T /\ r.status = "running"
                /\ r.leasedUntil <= now /\ r.id \notin ignored}

(* What the scan of one running set finds has expired.                     *)
LEMMA ScanFindsExpired ==
  ASSUME StoreInv, NEW T \in SUBSET Types, NEW ignored, NEW t \in T,
         FirstExpired(ix.running[t], ignored) # NULL
  PROVE  FirstExpired(ix.running[t], ignored) \in Expired(T, ignored)
<1> DEFINE items == ix.running[t]
           R == OfStatus(Rows, t, "running")
<1>1. Sorted(ix.seqs, "leasedUntil", items, R)
  BY IndexFacts
<1>2. \A r \in R : r \in Rows /\ r.type = t /\ r.status = "running"
  BY DEF OfStatus
<1>3. FirstExpired(items, ignored) # NULL
  OBVIOUS
<1> HIDE DEF items, R
<1>4. items \in Seq(Row) /\ \A i \in 1 .. Len(items) : items[i] \in R
  BY <1>1, SeqElements DEF Sorted
<1>5. PICK i \in 1 .. Len(items) :
        /\ FirstExpired(items, ignored) = items[i] /\ items[i].id \notin ignored
        /\ \A k \in 1 .. i : items[k].leasedUntil <= now
  BY <1>3, <1>4, FirstExpiredIs
<1>6. i \in 1 .. i
  OBVIOUS
<1>7. items[i] \in Expired(T, ignored)
  BY <1>2, <1>4, <1>5, <1>6 DEF Expired
<1> QED
  BY <1>5, <1>7 DEF items

(* The scan of the set of a job that has expired finds one that expired    *)
(* no later.                                                               *)
LEMMA ScanFindsOldest ==
  ASSUME StoreInv, NEW T \in SUBSET Types, NEW ignored, NEW r \in Expired(T, ignored)
  PROVE  /\ r.type \in T /\ FirstExpired(ix.running[r.type], ignored) # NULL
         /\ FirstExpired(ix.running[r.type], ignored).leasedUntil <= r.leasedUntil
<1> DEFINE t == r.type
           items == ix.running[t]
           R == OfStatus(Rows, t, "running")
<1>1. /\ r \in Rows /\ r \in Row /\ t \in T /\ t \in Types /\ r \in R
      /\ r.leasedUntil <= now /\ r.id \notin ignored
  BY RowFacts DEF Expired, OfStatus
<1>2. Sorted(ix.seqs, "leasedUntil", items, R)
  BY <1>1, IndexFacts
<1> HIDE DEF items, R, t
<1>3. /\ items \in Seq(Row) /\ Len(items) \in Nat /\ \A i \in 1 .. Len(items) : items[i] \in Row
      /\ \E i \in 1 .. Len(items) : items[i] = r
      /\ \A i, k \in 1 .. Len(items) : i < k => Earlier(ix.seqs, "leasedUntil", items[i], items[k])
  <2>1. /\ items \in Seq(Row) /\ ToSet(items) = R
        /\ \A i, k \in 1 .. Len(items) : i < k => Earlier(ix.seqs, "leasedUntil", items[i], items[k])
    BY <1>2 DEF Sorted
  <2>2. /\ Len(items) \in Nat /\ \A i \in 1 .. Len(items) : items[i] \in Row
        /\ \E i \in 1 .. Len(items) : items[i] = r
    BY <1>1, <2>1, SeqElements, ElementOfSeq
  <2> QED
    BY <2>1, <2>2
<1>4. PICK k \in 1 .. Len(items) : items[k] = r
  BY <1>3
<1>5. \A i \in 1 .. Len(items) : items[i].leasedUntil \in Int
  BY <1>3, RowTimes
<1>6. \A i \in 1 .. k : i \in 1 .. Len(items) /\ items[i].leasedUntil <= r.leasedUntil
  <2> SUFFICES ASSUME NEW i \in 1 .. k
               PROVE  i \in 1 .. Len(items) /\ items[i].leasedUntil <= r.leasedUntil
    OBVIOUS
  <2>1. i \in 1 .. Len(items)
    BY <1>3
  <2>2. CASE i = k
    BY <1>4, <1>5, <2>1, <2>2
  <2>3. CASE i # k
    <3>1. i < k
      BY <1>3, <2>3
    <3>2. Earlier(ix.seqs, "leasedUntil", items[i], r)
      BY <1>3, <1>4, <2>1, <3>1
    <3> QED
      BY <1>1, <1>3, <2>1, <3>2, EarlierIsNoLater
  <2> QED
    BY <2>1, <2>2, <2>3
<1>7. \A i \in 1 .. k : items[i].leasedUntil <= now
  <2>1. now \in Int /\ r.leasedUntil \in Int
    BY <1>1, RowFacts, RowTimes
  <2> QED
    BY <1>1, <1>5, <1>6, <2>1
<1>8. FirstExpired(items, ignored) # NULL
  BY <1>1, <1>3, <1>4, <1>7, FirstExpiredExists
<1>9. PICK i \in 1 .. Len(items) :
        /\ FirstExpired(items, ignored) = items[i]
        /\ \A h \in 1 .. Len(items) :
             (\A g \in 1 .. h : items[g].leasedUntil <= now) /\ items[h].id \notin ignored => i <= h
  BY <1>3, <1>8, FirstExpiredIs
<1>10. i \in 1 .. k
  BY <1>1, <1>3, <1>4, <1>7, <1>9
<1> QED
  BY <1>1, <1>6, <1>8, <1>9, <1>10 DEF items, t

(* Of some rows, one has the lease that ends first.                        *)
LEMMA LeastLease ==
  ASSUME NEW C, C \subseteq Row, C # {}
  PROVE  \E r \in C : \A q \in C : r.leasedUntil <= q.leasedUntil
<1> DEFINE L == {r.leasedUntil : r \in C}
<1>1. L \in SUBSET Nat /\ L # {}
  BY BoundsType DEF Row, Unleased
<1>2. \A r \in C : r.leasedUntil \in L
  OBVIOUS
<1>3. \A l \in L : \E r \in C : l = r.leasedUntil
  OBVIOUS
<1> HIDE DEF L
<1>4. PICK l \in L : \A m \in L : l <= m
  BY <1>1, LeastElement
<1> QED
  BY <1>2, <1>3, <1>4

(* The reaper stops at the first lease that has not expired, and yet finds *)
(* an expired job that it does not ignore whenever there is one, and the   *)
(* one whose lease ended first.                                            *)
THEOREM ReaperFinds == Spec => []ReaperFindsTheOldest
<1>1. StoreInv => ReaperFindsTheOldest
  <2> HAVE StoreInv
  <2> USE DEF ReaperFindsTheOldest
  <2> TAKE T \in SUBSET Types, ignored \in SUBSET JobsOf(ix)
  <2> SUFFICES /\ (ReapCandidates(ix, T, ignored) = {}) <=> (Expired(T, ignored) = {})
               /\ \A r \in ReapCandidates(ix, T, ignored) :
                    /\ r \in Expired(T, ignored)
                    /\ \A q \in Expired(T, ignored) : r.leasedUntil <= q.leasedUntil
    BY Zenon DEF Expired
  <2> DEFINE C == {FirstExpired(ix.running[t], ignored) : t \in T} \ {NULL}
             E == Expired(T, ignored)
  <2>1. ReapCandidates(ix, T, ignored) = {r \in C : \A q \in C : r.leasedUntil <= q.leasedUntil}
    BY DEF ReapCandidates
  <2>2. C \subseteq E
    BY ScanFindsExpired
  <2>3. \A r \in E : \E h \in C : h.leasedUntil <= r.leasedUntil
    BY ScanFindsOldest
  <2>4. E \subseteq Row
    BY RowFacts DEF Expired
  <2> HIDE DEF C, E
  <2>5. C # {} => \E r \in C : \A q \in C : r.leasedUntil <= q.leasedUntil
    <3>1. C \subseteq Row
      BY <2>2, <2>4
    <3> QED
      BY <3>1, LeastLease
  <2>6. ASSUME NEW r \in C, \A q \in C : r.leasedUntil <= q.leasedUntil, NEW e \in E
        PROVE  r.leasedUntil <= e.leasedUntil
    <3>1. PICK h \in C : h.leasedUntil <= e.leasedUntil
      BY <2>3
    <3>2. r.leasedUntil \in Int /\ h.leasedUntil \in Int /\ e.leasedUntil \in Int
      BY <2>2, <2>4, RowTimes
    <3> QED
      BY <2>6, <3>1, <3>2
  <2>7. (ReapCandidates(ix, T, ignored) = {}) <=> (E = {})
    BY <2>1, <2>2, <2>3, <2>5
  <2>8. \A r \in ReapCandidates(ix, T, ignored) :
          r \in E /\ \A q \in E : r.leasedUntil <= q.leasedUntil
    BY <2>1, <2>2, <2>6
  <2> QED
    BY <2>7, <2>8 DEF E
<1> QED
  BY <1>1, StoreInvariant, PTL

-----------------------------------------------------------------------------
(* The tables as a refinement of TransactionalTable.                       *)

DueAt(r, t) == r.scheduledAt <= t

LeaseAt(r, t) ==
  IF r.leasedUntil = Unleased THEN "none" ELSE IF r.leasedUntil > t THEN "live" ELSE "expired"

HolderOf(r) == IF r.leasedUntil = Unleased THEN NULL ELSE "worker"

(* A record of the job table.                                              *)
JobRec(s, c, i, d, n, h, l, k) ==
  [status |-> s, chain |-> c, index |-> i, due |-> d, attempt |-> n,
   leasedBy |-> h, lease |-> l, key |-> k]

(* A row, or a missing row, as the job table shows it at time t.           *)
View(r, t) ==
  IF r = NULL THEN AbsentRow
  ELSE JobRec(r.status, r.chain, r.index, DueAt(r, t), 0, HolderOf(r), LeaseAt(r, t), r.key)

(* The job table of the rows f, and the blocker table of the sets b.       *)
Shown(f, t) == [j \in JobIds |-> View(f[j], t)]

Refs(b) == {ref \in JobIds \X JobIds : ref[2] \in b[ref[1]]}

ShownScopes(sv, t) == [i \in DOMAIN sv |-> <<Shown(sv[i].jobs, t), Refs(sv[i].blockers)>>]

(* The row of job j is shown as it is.                                     *)
LEMMA RowShown ==
  ASSUME NEW r, NEW t
  PROVE  LET lease == IF r.leasedUntil = Unleased THEN "none"
                      ELSE IF r.leasedUntil > t THEN "live" ELSE "expired"
         IN  [status |-> r.status, chain |-> r.chain, index |-> r.index,
              due |-> r.scheduledAt <= t, attempt |-> 0,
              leasedBy |-> IF lease = "none" THEN NULL ELSE "worker",
              lease |-> lease, key |-> r.key]
             = JobRec(r.status, r.chain, r.index, DueAt(r, t), 0, HolderOf(r), LeaseAt(r, t),
                      r.key)
<1> DEFINE lease == IF r.leasedUntil = Unleased THEN "none"
                    ELSE IF r.leasedUntil > t THEN "live" ELSE "expired"
<1>1. lease = LeaseAt(r, t)
  BY DEF LeaseAt
<1>2. (IF lease = "none" THEN NULL ELSE "worker") = HolderOf(r)
  BY DEF HolderOf
<1>3. (r.scheduledAt <= t) = DueAt(r, t)
  BY DEF DueAt
<1> HIDE DEF lease
<1>4. [status |-> r.status, chain |-> r.chain, index |-> r.index,
       due |-> r.scheduledAt <= t, attempt |-> 0,
       leasedBy |-> IF lease = "none" THEN NULL ELSE "worker",
       lease |-> lease, key |-> r.key]
      = JobRec(r.status, r.chain, r.index, DueAt(r, t), 0, HolderOf(r), LeaseAt(r, t), r.key)
  BY Zenon, <1>1, <1>2, <1>3 DEF JobRec
<1> QED
  BY <1>4 DEF lease

(* The tables of the refinement.                                           *)
LEMMA TablesShown ==
  /\ JobTable(ix) = Shown(ix.jobs, now) /\ BlockerTable(ix) = Refs(ix.blockers)
  /\ [i \in DOMAIN saved |-> <<JobTable(saved[i]), BlockerTable(saved[i])>>]
       = ShownScopes(saved, now)
<1>1. \A s : JobTable(s) = Shown(s.jobs, now)
  <2> TAKE s
  <2>1. \A j \in JobIds :
          (IF s.jobs[j] = NULL THEN AbsentRow ELSE TableRow(s, j)) = View(s.jobs[j], now)
    BY RowShown DEF TableRow, View
  <2> QED
    BY <2>1 DEF JobTable, Shown
<1>2. \A s : BlockerTable(s) = Refs(s.blockers)
  BY DEF BlockerTable, Refs
<1> QED
  BY <1>1, <1>2 DEF ShownScopes

(* The same of the tables after a step.                                    *)
LEMMA NextTablesShown ==
  /\ JobTable(ix)' = Shown(ix'.jobs, now') /\ BlockerTable(ix)' = Refs(ix'.blockers)
  /\ [i \in DOMAIN saved |-> <<JobTable(saved[i]), BlockerTable(saved[i])>>]'
       = ShownScopes(saved', now')
<1>1. (/\ JobTable(ix) = Shown(ix.jobs, now) /\ BlockerTable(ix) = Refs(ix.blockers)
       /\ [i \in DOMAIN saved |-> <<JobTable(saved[i]), BlockerTable(saved[i])>>]
            = ShownScopes(saved, now))'
  BY TablesShown, PTL
<1> QED
  BY <1>1

(* The fields of a record of the job table.                                *)
LEMMA RecFields ==
  ASSUME NEW s, NEW c, NEW i, NEW d, NEW n, NEW h, NEW l, NEW k
  PROVE  LET v == JobRec(s, c, i, d, n, h, l, k) IN
           /\ v.status = s /\ v.chain = c /\ v.index = i /\ v.due = d /\ v.attempt = n
           /\ v.leasedBy = h /\ v.lease = l /\ v.key = k
  BY Zenon DEF JobRec

(* The updates that the methods make.                                      *)
Marked(v, s) == [v EXCEPT !.status = s]

DueNow(v, d) == [v EXCEPT !.due = d]

Taken(v, s, n) == [v EXCEPT !.status = s, !.attempt = n]

Renewed(v, h, l, s) == [v EXCEPT !.leasedBy = h, !.lease = l, !.status = s]

Ended(v, s, h, l) == [v EXCEPT !.status = s, !.leasedBy = h, !.lease = l]

Postponed(v, d, h, l, s) == [v EXCEPT !.due = d, !.leasedBy = h, !.lease = l, !.status = s]

(* What they make of a record.                                             *)
LEMMA RecUpdates ==
  ASSUME NEW s, NEW c, NEW i, NEW d, NEW n, NEW h, NEW l, NEW k,
         NEW s2, NEW d2, NEW n2, NEW h2, NEW l2
  PROVE  LET v == JobRec(s, c, i, d, n, h, l, k) IN
           /\ Marked(v, s2) = JobRec(s2, c, i, d, n, h, l, k)
           /\ DueNow(v, d2) = JobRec(s, c, i, d2, n, h, l, k)
           /\ Taken(v, s2, n2) = JobRec(s2, c, i, d, n2, h, l, k)
           /\ Renewed(v, h2, l2, s2) = JobRec(s2, c, i, d, n, h2, l2, k)
           /\ Ended(v, s2, h2, l2) = JobRec(s2, c, i, d, n, h2, l2, k)
           /\ Postponed(v, d2, h2, l2, s2) = JobRec(s2, c, i, d2, n, h2, l2, k)
<1> DEFINE v == JobRec(s, c, i, d, n, h, l, k)
<1>1. [v EXCEPT !.status = s2] = JobRec(s2, c, i, d, n, h, l, k)
  BY DEF JobRec
<1>2. [v EXCEPT !.due = d2] = JobRec(s, c, i, d2, n, h, l, k)
  BY DEF JobRec
<1>4. [v EXCEPT !.status = s2, !.attempt = n2]
        = JobRec(s2, c, i, d, n2, h, l, k)
  <2> DEFINE w1 == [v EXCEPT !.status = s2]
  <2>1. [v EXCEPT !.status = s2, !.attempt = n2]
        = [w1 EXCEPT !.attempt = n2]
    BY Zenon DEF JobRec
  <2>2. w1 = JobRec(s2, c, i, d, n, h, l, k)
    BY DEF JobRec
  <2> HIDE DEF w1
  <2>3. [w1 EXCEPT !.attempt = n2] = JobRec(s2, c, i, d, n2, h, l, k)
    BY <2>2 DEF JobRec
  <2> QED
    BY <2>1, <2>3
<1>5. [v EXCEPT !.leasedBy = h2, !.lease = l2, !.status = s2]
        = JobRec(s2, c, i, d, n, h2, l2, k)
  <2> DEFINE w1 == [v EXCEPT !.leasedBy = h2]
             w2 == [w1 EXCEPT !.lease = l2]
  <2>1. [v EXCEPT !.leasedBy = h2, !.lease = l2, !.status = s2]
        = [w2 EXCEPT !.status = s2]
    BY Zenon DEF JobRec
  <2>2. w1 = JobRec(s, c, i, d, n, h2, l, k)
    BY DEF JobRec
  <2> HIDE DEF w1
  <2>3. w2 = JobRec(s, c, i, d, n, h2, l2, k)
    BY <2>2 DEF JobRec
  <2> HIDE DEF w2
  <2>4. [w2 EXCEPT !.status = s2] = JobRec(s2, c, i, d, n, h2, l2, k)
    BY <2>3 DEF JobRec
  <2> QED
    BY <2>1, <2>4
<1>6. [v EXCEPT !.status = s2, !.leasedBy = h2, !.lease = l2]
        = JobRec(s2, c, i, d, n, h2, l2, k)
  <2> DEFINE w1 == [v EXCEPT !.status = s2]
             w2 == [w1 EXCEPT !.leasedBy = h2]
  <2>1. [v EXCEPT !.status = s2, !.leasedBy = h2, !.lease = l2]
        = [w2 EXCEPT !.lease = l2]
    BY Zenon DEF JobRec
  <2>2. w1 = JobRec(s2, c, i, d, n, h, l, k)
    BY DEF JobRec
  <2> HIDE DEF w1
  <2>3. w2 = JobRec(s2, c, i, d, n, h2, l, k)
    BY <2>2 DEF JobRec
  <2> HIDE DEF w2
  <2>4. [w2 EXCEPT !.lease = l2] = JobRec(s2, c, i, d, n, h2, l2, k)
    BY <2>3 DEF JobRec
  <2> QED
    BY <2>1, <2>4
<1>7. [v EXCEPT !.due = d2, !.leasedBy = h2, !.lease = l2, !.status = s2]
        = JobRec(s2, c, i, d2, n, h2, l2, k)
  <2> DEFINE w1 == [v EXCEPT !.due = d2]
             w2 == [w1 EXCEPT !.leasedBy = h2]
             w3 == [w2 EXCEPT !.lease = l2]
  <2>1. [v EXCEPT !.due = d2, !.leasedBy = h2, !.lease = l2, !.status = s2]
        = [w3 EXCEPT !.status = s2]
    BY Zenon DEF JobRec
  <2>2. w1 = JobRec(s, c, i, d2, n, h, l, k)
    BY DEF JobRec
  <2> HIDE DEF w1
  <2>3. w2 = JobRec(s, c, i, d2, n, h2, l, k)
    BY <2>2 DEF JobRec
  <2> HIDE DEF w2
  <2>4. w3 = JobRec(s, c, i, d2, n, h2, l2, k)
    BY <2>3 DEF JobRec
  <2> HIDE DEF w3
  <2>5. [w3 EXCEPT !.status = s2] = JobRec(s2, c, i, d2, n, h2, l2, k)
    BY <2>4 DEF JobRec
  <2> QED
    BY <2>1, <2>5
<1> QED
  BY Zenon, <1>1, <1>2, <1>4, <1>5, <1>6, <1>7
     DEF Marked, DueNow, Taken, Renewed, Ended, Postponed

(* A row as the refinement shows it to readers.                            *)
PlainRow(v) == IF v.status = "deleted" THEN AbsentRow ELSE [v EXCEPT !.attempt = 0]

(* The record of a job that is there only loses its attempt counter.       *)
LEMMA PlainRec ==
  ASSUME NEW s, NEW c, NEW i, NEW d, NEW n, NEW h, NEW l, NEW k, s # "deleted"
  PROVE  PlainRow(JobRec(s, c, i, d, n, h, l, k)) = JobRec(s, c, i, d, 0, h, l, k)
<1> DEFINE v == JobRec(s, c, i, d, n, h, l, k)
<1>1. v.status = s
  BY RecFields
<1>2. [v EXCEPT !.attempt = 0] = JobRec(s, c, i, d, 0, h, l, k)
  BY DEF JobRec
<1> HIDE DEF v
<1>3. PlainRow(v) = [v EXCEPT !.attempt = 0]
  BY <1>1 DEF PlainRow
<1> QED
  BY <1>2, <1>3 DEF v

(* What a table shows of a row.                                            *)
LEMMA ViewFields ==
  ASSUME NEW r \in Row, NEW t
  PROVE  LET v == View(r, t) IN
           /\ v = JobRec(r.status, r.chain, r.index, DueAt(r, t), 0, HolderOf(r),
                         LeaseAt(r, t), r.key)
           /\ v.status = r.status /\ v.chain = r.chain /\ v.index = r.index
           /\ v.due = DueAt(r, t) /\ v.attempt = 0 /\ v.leasedBy = HolderOf(r)
           /\ v.lease = LeaseAt(r, t) /\ v.key = r.key
           /\ r.status \in {"blocked", "pending", "running", "completed"}
           /\ r # NULL
<1>1. r # NULL /\ r.status \in {"blocked", "pending", "running", "completed"}
  BY NullIsNoValue DEF Row
<1>2. View(r, t) = JobRec(r.status, r.chain, r.index, DueAt(r, t), 0, HolderOf(r),
                          LeaseAt(r, t), r.key)
  BY <1>1 DEF View
<1> QED
  BY <1>1, <1>2, RecFields

(* A table whose rows are shown is plain.                                  *)
LEMMA PlainIsShown ==
  ASSUME NEW T, NEW f, NEW t, \A j \in JobIds : PlainRow(T[j]) = View(f[j], t)
  PROVE  Table!Plain(T) = Shown(f, t)
<1>1. Table!NoJob = AbsentRow
  BY DEF Table!NoJob, AbsentRow
<1> QED
  BY <1>1 DEF Table!Plain, PlainRow, Shown

(* A view is plain.                                                        *)
LEMMA ViewIsPlain ==
  ASSUME NEW r \in Row \cup {NULL}, NEW t
  PROVE  PlainRow(View(r, t)) = View(r, t)
<1>1. CASE r = NULL
  <2>1. View(r, t) = AbsentRow
    BY <1>1 DEF View
  <2>2. AbsentRow.status # "deleted"
    BY DEF AbsentRow
  <2>3. [AbsentRow EXCEPT !.attempt = 0] = AbsentRow
    <3> DEFINE d == FALSE
    <3>1. AbsentRow = [status |-> "absent", chain |-> NULL, index |-> 0, due |-> d,
                       attempt |-> 0, leasedBy |-> NULL, lease |-> "none", key |-> NULL]
      BY DEF AbsentRow
    <3> HIDE DEF d
    <3> QED
      BY <3>1
  <2> QED
    BY <2>1, <2>2, <2>3 DEF PlainRow
<1>2. CASE r \in Row
  <2>1. r.status # "deleted"
    BY <1>2, ViewFields
  <2> QED
    BY <1>2, <2>1, ViewFields, PlainRec
<1> QED
  BY <1>1, <1>2

(* A table in which one row is written.                                    *)
LEMMA OneShown ==
  ASSUME NEW f \in [JobIds -> Row \cup {NULL}], NEW g, NEW t, NEW T, NEW j \in JobIds,
         \A i \in JobIds : i # j => g[i] = f[i] /\ T[i] = View(f[i], t),
         PlainRow(T[j]) = View(g[j], t)
  PROVE  Table!Plain(T) = Shown(g, t)
<1>1. ASSUME NEW i \in JobIds PROVE PlainRow(T[i]) = View(g[i], t)
  <2>1. CASE i = j
    BY <2>1
  <2>2. CASE i # j
    <3>1. f[i] \in Row \cup {NULL}
      OBVIOUS
    <3>2. PlainRow(View(f[i], t)) = View(f[i], t)
      BY <3>1, ViewIsPlain
    <3> QED
      BY <2>2, <3>2
  <2> QED
    BY <2>1, <2>2
<1> QED
  BY <1>1, PlainIsShown

(* How a table shows the next version of a row.                            *)
LEMMA NextView ==
  ASSUME NEW a, NEW b, NEW status, NEW at, NEW lease, Becomes(a, b, status, at, lease), NEW t
  PROVE  /\ a \in Row /\ b \in Row
         /\ View(a, t) = JobRec(a.status, a.chain, a.index, DueAt(a, t), 0, HolderOf(a),
                                LeaseAt(a, t), a.key)
         /\ View(b, t) = JobRec(status, a.chain, a.index, DueAt(b, t), 0, HolderOf(b),
                                LeaseAt(b, t), a.key)
         /\ status \in {"blocked", "pending", "running", "completed"}
         /\ at = a.scheduledAt => DueAt(b, t) = DueAt(a, t)
         /\ lease = a.leasedUntil =>
              HolderOf(b) = HolderOf(a) /\ LeaseAt(b, t) = LeaseAt(a, t)
         /\ lease = Unleased => HolderOf(b) = NULL /\ LeaseAt(b, t) = "none"
<1>1. /\ a \in Row /\ b \in Row /\ b.chain = a.chain /\ b.index = a.index /\ b.key = a.key
      /\ b.status = status /\ b.scheduledAt = at /\ b.leasedUntil = lease
  BY DEF Becomes, Revises
<1>2. status \in {"blocked", "pending", "running", "completed"}
  BY <1>1, ViewFields
<1>3. /\ View(a, t) = JobRec(a.status, a.chain, a.index, DueAt(a, t), 0, HolderOf(a),
                             LeaseAt(a, t), a.key)
      /\ View(b, t) = JobRec(b.status, b.chain, b.index, DueAt(b, t), 0, HolderOf(b),
                             LeaseAt(b, t), b.key)
  BY Zenon, <1>1, ViewFields
<1>4. at = a.scheduledAt => DueAt(b, t) = DueAt(a, t)
  BY Zenon, <1>1 DEF DueAt
<1>5. lease = a.leasedUntil => HolderOf(b) = HolderOf(a) /\ LeaseAt(b, t) = LeaseAt(a, t)
  BY Zenon, <1>1 DEF HolderOf, LeaseAt
<1>6. lease = Unleased => HolderOf(b) = NULL /\ LeaseAt(b, t) = "none"
  BY Zenon, <1>1 DEF HolderOf, LeaseAt
<1> QED
  BY Zenon, <1>1, <1>2, <1>3, <1>4, <1>5, <1>6

(* The row that a method writes, as the table shows it.                    *)
LEMMA RowWritten ==
  ASSUME NEW f \in [JobIds -> Row \cup {NULL}], NEW g, NEW t, NEW T, NEW j \in JobIds,
         NEW status, NEW at, NEW lease, NEW n,
         Becomes(f[j], g[j], status, at, lease),
         \A i \in JobIds : i # j => g[i] = f[i] /\ T[i] = View(f[i], t),
         T[j] = JobRec(status, f[j].chain, f[j].index, DueAt(g[j], t), n, HolderOf(g[j]),
                       LeaseAt(g[j], t), f[j].key)
  PROVE  Table!Plain(T) = Shown(g, t)
<1>1. /\ View(g[j], t) = JobRec(status, f[j].chain, f[j].index, DueAt(g[j], t), 0,
                                HolderOf(g[j]), LeaseAt(g[j], t), f[j].key)
      /\ status \in {"blocked", "pending", "running", "completed"}
  BY NextView
<1>2. status # "deleted"
  BY <1>1
<1>3. PlainRow(T[j]) = View(g[j], t)
  BY <1>1, <1>2, PlainRec
<1> QED
  BY <1>3, OneShown

(* The rows of a shown table.                                              *)
LEMMA ShownRows ==
  ASSUME NEW f \in [JobIds -> Row \cup {NULL}], NEW t
  PROVE  /\ Shown(f, t) = [j \in JobIds |-> Shown(f, t)[j]]
         /\ \A j \in JobIds :
              /\ Shown(f, t)[j] = View(f[j], t)
              /\ Table!Exists(Shown(f, t), j) <=> f[j] # NULL
              /\ f[j] # NULL =>
                   /\ f[j] \in Row
                   /\ Shown(f, t)[j] = JobRec(f[j].status, f[j].chain, f[j].index,
                                              DueAt(f[j], t), 0, HolderOf(f[j]),
                                              LeaseAt(f[j], t), f[j].key)
                   /\ Shown(f, t)[j].status = f[j].status
                   /\ Shown(f, t)[j].chain = f[j].chain
                   /\ Shown(f, t)[j].index = f[j].index
                   /\ Shown(f, t)[j].due = DueAt(f[j], t)
                   /\ Shown(f, t)[j].lease = LeaseAt(f[j], t)
                   /\ Shown(f, t)[j].key = f[j].key
              /\ f[j] = NULL => Shown(f, t)[j].status = "absent"
<1>1. /\ Shown(f, t) = [j \in JobIds |-> Shown(f, t)[j]]
      /\ \A j \in JobIds : Shown(f, t)[j] = View(f[j], t)
  BY DEF Shown
<1>2. ASSUME NEW j \in JobIds
      PROVE  /\ Table!Exists(Shown(f, t), j) <=> f[j] # NULL
             /\ f[j] # NULL =>
                  /\ f[j] \in Row
                  /\ Shown(f, t)[j] = JobRec(f[j].status, f[j].chain, f[j].index,
                                             DueAt(f[j], t), 0, HolderOf(f[j]),
                                             LeaseAt(f[j], t), f[j].key)
                  /\ Shown(f, t)[j].status = f[j].status
                  /\ Shown(f, t)[j].chain = f[j].chain
                  /\ Shown(f, t)[j].index = f[j].index
                  /\ Shown(f, t)[j].due = DueAt(f[j], t)
                  /\ Shown(f, t)[j].lease = LeaseAt(f[j], t)
                  /\ Shown(f, t)[j].key = f[j].key
             /\ f[j] = NULL => Shown(f, t)[j].status = "absent"
  <2>1. Shown(f, t)[j] = View(f[j], t)
    BY <1>1
  <2>2. CASE f[j] = NULL
    <3>1. View(f[j], t) = AbsentRow
      BY <2>2 DEF View
    <3>2. AbsentRow.status = "absent"
      BY DEF AbsentRow
    <3>3. Shown(f, t)[j].status = "absent"
      BY <2>1, <3>1, <3>2
    <3> QED
      BY <2>2, <3>3 DEF Table!Exists
  <2>3. CASE f[j] # NULL
    <3>1. f[j] \in Row
      BY <2>3
    <3>2. LET v == View(f[j], t)
              r == f[j]
          IN  /\ v = JobRec(r.status, r.chain, r.index, DueAt(r, t), 0, HolderOf(r),
                            LeaseAt(r, t), r.key)
              /\ v.status = r.status /\ v.chain = r.chain /\ v.index = r.index
              /\ v.due = DueAt(r, t)
              /\ v.lease = LeaseAt(r, t) /\ v.key = r.key
              /\ r.status \in {"blocked", "pending", "running", "completed"}
      BY <3>1, ViewFields
    <3>3. Table!Exists(Shown(f, t), j)
      BY <2>1, <3>2 DEF Table!Exists
    <3> QED
      BY Zenon, <2>1, <2>3, <3>1, <3>2, <3>3
  <2> QED
    BY <2>2, <2>3
<1> QED
  BY Zenon, <1>1, <1>2

(* AcquireJob on the tables.                                               *)
LEMMA AcquireShown ==
  ASSUME NEW f \in [JobIds -> Row \cup {NULL}], NEW g, NEW t, NEW j \in JobIds,
         Becomes(f[j], g[j], "running", f[j].scheduledAt, f[j].leasedUntil),
         \A i \in JobIds : i # j => g[i] = f[i]
  PROVE  Table!Plain(Table!AcquireJob(Shown(f, t), j)) = Shown(g, t)
<1> DEFINE js == Shown(f, t)
           T == Table!AcquireJob(js, j)
           v == js[j]
           a == f[j]
<1>1. /\ DueAt(g[j], t) = DueAt(a, t) /\ HolderOf(g[j]) = HolderOf(a)
      /\ LeaseAt(g[j], t) = LeaseAt(a, t) /\ js[j] = View(a, t)
      /\ View(a, t) = JobRec(a.status, a.chain, a.index, DueAt(a, t), 0, HolderOf(a),
                             LeaseAt(a, t), a.key)
  BY NextView DEF Shown
<1>2. js = [i \in JobIds |-> js[i]] /\ \A i \in JobIds : js[i] = View(f[i], t)
  BY DEF Shown
<1> HIDE DEF a, js
<1>3. T[j] = Taken(v, "running", v.attempt + 1)
  BY <1>2 DEF Table!AcquireJob, Taken
<1>4. \A i \in JobIds : i # j => T[i] = js[i]
  BY <1>2 DEF Table!AcquireJob
<1> HIDE DEF T
<1>5. T[j] = JobRec("running", a.chain, a.index, DueAt(a, t), v.attempt + 1, HolderOf(a),
                    LeaseAt(a, t), a.key)
  <2>1. v = JobRec(a.status, a.chain, a.index, DueAt(a, t), 0, HolderOf(a), LeaseAt(a, t),
                   a.key)
    BY <1>1
  <2> HIDE DEF v
  <2> QED
    BY <1>3, <2>1, RecUpdates
<1>6. T[j] = JobRec("running", f[j].chain, f[j].index, DueAt(g[j], t), v.attempt + 1,
                    HolderOf(g[j]), LeaseAt(g[j], t), f[j].key)
  BY <1>1, <1>5 DEF a
<1>7. \A i \in JobIds : i # j => g[i] = f[i] /\ T[i] = View(f[i], t)
  BY <1>2, <1>4
<1>8. Table!Plain(T) = Shown(g, t)
  <2>1. ASSUME NEW n, T[j] = JobRec("running", f[j].chain, f[j].index, DueAt(g[j], t), n,
                                    HolderOf(g[j]), LeaseAt(g[j], t), f[j].key)
        PROVE  Table!Plain(T) = Shown(g, t)
    BY <1>7, <2>1, RowWritten
  <2> QED
    BY <1>6, <2>1
<1> QED
  BY <1>8 DEF T, js

(* RenewJobLease on the tables.                                            *)
LEMMA RenewShown ==
  ASSUME NEW f \in [JobIds -> Row \cup {NULL}], NEW g, NEW t, NEW j \in JobIds,
         NEW lease, lease # Unleased, lease > t,
         Becomes(f[j], g[j], "running", f[j].scheduledAt, lease),
         \A i \in JobIds : i # j => g[i] = f[i]
  PROVE  Table!Plain(Table!RenewJobLease(Shown(f, t), j, "worker")) = Shown(g, t)
<1> DEFINE js == Shown(f, t)
           T == Table!RenewJobLease(js, j, "worker")
           v == js[j]
           a == f[j]
<1>1. /\ DueAt(g[j], t) = DueAt(a, t) /\ HolderOf(g[j]) = "worker"
      /\ LeaseAt(g[j], t) = "live" /\ js[j] = View(a, t)
      /\ View(a, t) = JobRec(a.status, a.chain, a.index, DueAt(a, t), 0, HolderOf(a),
                             LeaseAt(a, t), a.key)
  <2>1. g[j].leasedUntil = lease
    BY DEF Becomes
  <2>2. HolderOf(g[j]) = "worker" /\ LeaseAt(g[j], t) = "live"
    BY <2>1 DEF HolderOf, LeaseAt
  <2> QED
    BY <2>2, NextView DEF Shown
<1>2. js = [i \in JobIds |-> js[i]] /\ \A i \in JobIds : js[i] = View(f[i], t)
  BY DEF Shown
<1> HIDE DEF a, js
<1>3. T[j] = Renewed(v, "worker", "live", "running")
  BY <1>2 DEF Table!RenewJobLease, Renewed
<1>4. \A i \in JobIds : i # j => T[i] = js[i]
  BY <1>2 DEF Table!RenewJobLease
<1> HIDE DEF T
<1>5. T[j] = JobRec("running", a.chain, a.index, DueAt(a, t), 0, "worker", "live", a.key)
  <2>1. v = JobRec(a.status, a.chain, a.index, DueAt(a, t), 0, HolderOf(a), LeaseAt(a, t),
                   a.key)
    BY <1>1
  <2> HIDE DEF v
  <2> QED
    BY <1>3, <2>1, RecUpdates
<1>6. T[j] = JobRec("running", f[j].chain, f[j].index, DueAt(g[j], t), 0,
                    HolderOf(g[j]), LeaseAt(g[j], t), f[j].key)
  BY <1>1, <1>5 DEF a
<1>7. \A i \in JobIds : i # j => g[i] = f[i] /\ T[i] = View(f[i], t)
  BY <1>2, <1>4
<1>8. Table!Plain(T) = Shown(g, t)
  BY <1>6, <1>7, RowWritten
<1> QED
  BY <1>8 DEF T, js

(* RescheduleJob on the tables.                                            *)
LEMMA RescheduleShown ==
  ASSUME NEW f \in [JobIds -> Row \cup {NULL}], NEW g, NEW t, NEW j \in JobIds, NEW at,
         Becomes(f[j], g[j], "pending", at, Unleased),
         \A i \in JobIds : i # j => g[i] = f[i]
  PROVE  Table!Plain(Table!RescheduleJob(Shown(f, t), j, DueAt(g[j], t))) = Shown(g, t)
<1> DEFINE js == Shown(f, t)
           T == Table!RescheduleJob(js, j, DueAt(g[j], t))
           v == js[j]
           a == f[j]
<1>1. /\ HolderOf(g[j]) = NULL
      /\ LeaseAt(g[j], t) = "none" /\ js[j] = View(a, t)
      /\ View(a, t) = JobRec(a.status, a.chain, a.index, DueAt(a, t), 0, HolderOf(a),
                             LeaseAt(a, t), a.key)
  BY NextView DEF Shown
<1>2. js = [i \in JobIds |-> js[i]] /\ \A i \in JobIds : js[i] = View(f[i], t)
  BY DEF Shown
<1> HIDE DEF a, js
<1>3. T[j] = Postponed(v, DueAt(g[j], t), NULL, "none", "pending")
  BY <1>2 DEF Table!RescheduleJob, Postponed
<1>4. \A i \in JobIds : i # j => T[i] = js[i]
  BY <1>2 DEF Table!RescheduleJob
<1> HIDE DEF T
<1>5. T[j] = JobRec("pending", a.chain, a.index, DueAt(g[j], t), 0, NULL, "none", a.key)
  <2>1. v = JobRec(a.status, a.chain, a.index, DueAt(a, t), 0, HolderOf(a), LeaseAt(a, t),
                   a.key)
    BY <1>1
  <2> HIDE DEF v
  <2> QED
    BY <1>3, <2>1, RecUpdates
<1>6. T[j] = JobRec("pending", f[j].chain, f[j].index, DueAt(g[j], t), 0,
                    HolderOf(g[j]), LeaseAt(g[j], t), f[j].key)
  BY <1>1, <1>5 DEF a
<1>7. \A i \in JobIds : i # j => g[i] = f[i] /\ T[i] = View(f[i], t)
  BY <1>2, <1>4
<1>8. Table!Plain(T) = Shown(g, t)
  BY <1>6, <1>7, RowWritten
<1> QED
  BY <1>8 DEF T, js

(* CompleteJob on the tables.                                              *)
LEMMA CompleteShown ==
  ASSUME NEW f \in [JobIds -> Row \cup {NULL}], NEW g, NEW t, NEW j \in JobIds,
         Becomes(f[j], g[j], "completed", f[j].scheduledAt, Unleased),
         \A i \in JobIds : i # j => g[i] = f[i]
  PROVE  Table!Plain(Table!CompleteJob(Shown(f, t), j)) = Shown(g, t)
<1> DEFINE js == Shown(f, t)
           T == Table!CompleteJob(js, j)
           v == js[j]
           a == f[j]
<1>1. /\ DueAt(g[j], t) = DueAt(a, t) /\ HolderOf(g[j]) = NULL
      /\ LeaseAt(g[j], t) = "none" /\ js[j] = View(a, t)
      /\ View(a, t) = JobRec(a.status, a.chain, a.index, DueAt(a, t), 0, HolderOf(a),
                             LeaseAt(a, t), a.key)
  BY NextView DEF Shown
<1>2. js = [i \in JobIds |-> js[i]] /\ \A i \in JobIds : js[i] = View(f[i], t)
  BY DEF Shown
<1> HIDE DEF a, js
<1>3. T[j] = Ended(v, "completed", NULL, "none")
  BY <1>2 DEF Table!CompleteJob, Ended
<1>4. \A i \in JobIds : i # j => T[i] = js[i]
  BY <1>2 DEF Table!CompleteJob
<1> HIDE DEF T
<1>5. T[j] = JobRec("completed", a.chain, a.index, DueAt(a, t), 0, NULL, "none", a.key)
  <2>1. v = JobRec(a.status, a.chain, a.index, DueAt(a, t), 0, HolderOf(a), LeaseAt(a, t),
                   a.key)
    BY <1>1
  <2> HIDE DEF v
  <2> QED
    BY <1>3, <2>1, RecUpdates
<1>6. T[j] = JobRec("completed", f[j].chain, f[j].index, DueAt(g[j], t), 0,
                    HolderOf(g[j]), LeaseAt(g[j], t), f[j].key)
  BY <1>1, <1>5 DEF a
<1>7. \A i \in JobIds : i # j => g[i] = f[i] /\ T[i] = View(f[i], t)
  BY <1>2, <1>4
<1>8. Table!Plain(T) = Shown(g, t)
  BY <1>6, <1>7, RowWritten
<1> QED
  BY <1>8 DEF T, js

(* ReapJobLease on the tables.                                             *)
LEMMA ReapShown ==
  ASSUME NEW f \in [JobIds -> Row \cup {NULL}], NEW g, NEW t, NEW j \in JobIds,
         Becomes(f[j], g[j], "pending", f[j].scheduledAt, Unleased),
         \A i \in JobIds : i # j => g[i] = f[i]
  PROVE  Table!Plain(Table!ReapJobLease(Shown(f, t), j)) = Shown(g, t)
<1> DEFINE js == Shown(f, t)
           T == Table!ReapJobLease(js, j)
           v == js[j]
           a == f[j]
<1>1. /\ DueAt(g[j], t) = DueAt(a, t) /\ HolderOf(g[j]) = NULL
      /\ LeaseAt(g[j], t) = "none" /\ js[j] = View(a, t)
      /\ View(a, t) = JobRec(a.status, a.chain, a.index, DueAt(a, t), 0, HolderOf(a),
                             LeaseAt(a, t), a.key)
  BY NextView DEF Shown
<1>2. js = [i \in JobIds |-> js[i]] /\ \A i \in JobIds : js[i] = View(f[i], t)
  BY DEF Shown
<1> HIDE DEF a, js
<1>3. T[j] = Renewed(v, NULL, "none", "pending")
  BY <1>2 DEF Table!ReapJobLease, Renewed
<1>4. \A i \in JobIds : i # j => T[i] = js[i]
  BY <1>2 DEF Table!ReapJobLease
<1> HIDE DEF T
<1>5. T[j] = JobRec("pending", a.chain, a.index, DueAt(a, t), 0, NULL, "none", a.key)
  <2>1. v = JobRec(a.status, a.chain, a.index, DueAt(a, t), 0, HolderOf(a), LeaseAt(a, t),
                   a.key)
    BY <1>1
  <2> HIDE DEF v
  <2> QED
    BY <1>3, <2>1, RecUpdates
<1>6. T[j] = JobRec("pending", f[j].chain, f[j].index, DueAt(g[j], t), 0,
                    HolderOf(g[j]), LeaseAt(g[j], t), f[j].key)
  BY <1>1, <1>5 DEF a
<1>7. \A i \in JobIds : i # j => g[i] = f[i] /\ T[i] = View(f[i], t)
  BY <1>2, <1>4
<1>8. Table!Plain(T) = Shown(g, t)
  BY <1>6, <1>7, RowWritten
<1> QED
  BY <1>8 DEF T, js

(* CreateJob on the tables.                                                *)
LEMMA CreateShown ==
  ASSUME NEW f \in [JobIds -> Row \cup {NULL}], NEW g, NEW t, NEW j \in JobIds,
         NEW c, NEW i, NEW k, g[j] \in Row,
         g[j].status = "pending", g[j].chain = c, g[j].index = i, g[j].key = k,
         g[j].leasedUntil = Unleased,
         \A q \in JobIds : q # j => g[q] = f[q]
  PROVE  Table!Plain(Table!CreateJob(Shown(f, t), j, c, i, DueAt(g[j], t), k)) = Shown(g, t)
<1> DEFINE js == Shown(f, t)
           d == DueAt(g[j], t)
           T == Table!CreateJob(js, j, c, i, d, k)
<1>1. HolderOf(g[j]) = NULL /\ LeaseAt(g[j], t) = "none"
  BY DEF HolderOf, LeaseAt
<1>2. js = [q \in JobIds |-> js[q]] /\ \A q \in JobIds : js[q] = View(f[q], t)
  BY DEF Shown
<1>3. View(g[j], t) = JobRec("pending", c, i, d, 0, NULL, "none", k)
  <2>1. View(g[j], t) = JobRec(g[j].status, g[j].chain, g[j].index, DueAt(g[j], t), 0,
                               HolderOf(g[j]), LeaseAt(g[j], t), g[j].key)
    BY Zenon, ViewFields
  <2> HIDE DEF d
  <2> QED
    BY <1>1, <2>1 DEF d
<1> HIDE DEF js, d
<1>4. T[j] = JobRec("pending", c, i, d, 0, NULL, "none", k)
  BY <1>2 DEF Table!CreateJob, JobRec
<1>5. \A q \in JobIds : q # j => T[q] = js[q]
  BY <1>2 DEF Table!CreateJob
<1> HIDE DEF T
<1>6. PlainRow(T[j]) = View(g[j], t)
  BY <1>3, <1>4, PlainRec
<1>7. \A q \in JobIds : q # j => g[q] = f[q] /\ T[q] = View(f[q], t)
  BY <1>2, <1>5
<1>8. Table!Plain(T) = Shown(g, t)
  BY <1>6, <1>7, OneShown
<1> QED
  BY <1>8 DEF T, js, d

(* A row of which a method changes the status alone, as the table shows it.*)
LEMMA MarkedShown ==
  ASSUME NEW a, NEW b, NEW t, NEW status, NEW at, NEW s,
         Becomes(a, b, s, at, a.leasedUntil), DueAt(b, t) = DueAt(a, t)
  PROVE  Marked(View(a, t), s) = View(b, t)
<1>1. /\ View(a, t) = JobRec(a.status, a.chain, a.index, DueAt(a, t), 0, HolderOf(a),
                             LeaseAt(a, t), a.key)
      /\ View(b, t) = JobRec(s, a.chain, a.index, DueAt(b, t), 0, HolderOf(b),
                             LeaseAt(b, t), a.key)
      /\ HolderOf(b) = HolderOf(a) /\ LeaseAt(b, t) = LeaseAt(a, t)
  BY NextView
<1> QED
  BY <1>1, RecUpdates

(* A row that is scheduled for now, as the table shows it.                 *)
LEMMA DueShown ==
  ASSUME NEW a, NEW b, NEW t \in Int, Becomes(a, b, a.status, t, a.leasedUntil)
  PROVE  [View(a, t) EXCEPT !.due = TRUE] = View(b, t)
<1>1. /\ View(a, t) = JobRec(a.status, a.chain, a.index, DueAt(a, t), 0, HolderOf(a),
                             LeaseAt(a, t), a.key)
      /\ View(b, t) = JobRec(a.status, a.chain, a.index, DueAt(b, t), 0, HolderOf(b),
                             LeaseAt(b, t), a.key)
      /\ HolderOf(b) = HolderOf(a) /\ LeaseAt(b, t) = LeaseAt(a, t)
  BY NextView
<1>2. DueAt(b, t) = TRUE
  <2>1. b.scheduledAt = t
    BY DEF Becomes
  <2> QED
    BY <2>1 DEF DueAt
<1> DEFINE d == TRUE
<1>3. DueAt(b, t) = d
  BY Zenon, <1>2
<1>4. [View(a, t) EXCEPT !.due = TRUE] = DueNow(View(a, t), d)
  BY Zenon DEF DueNow
<1> HIDE DEF d
<1>5. DueNow(View(a, t), d) = View(b, t)
  BY <1>1, <1>3, RecUpdates
<1> QED
  BY Zenon, <1>4, <1>5

(* A row that is deleted, as the table shows it.                           *)
LEMMA DeletedShown ==
  ASSUME NEW t
  PROVE  PlainRow([Table!NoJob EXCEPT !.status = "deleted"]) = View(NULL, t)
<1> DEFINE d == FALSE
<1>1. Table!NoJob = JobRec("absent", NULL, 0, d, 0, NULL, "none", NULL)
  BY DEF Table!NoJob, JobRec
<1> HIDE DEF d
<1>2. [Table!NoJob EXCEPT !.status = "deleted"]
      = JobRec("deleted", NULL, 0, d, 0, NULL, "none", NULL)
  <2>1. [Table!NoJob EXCEPT !.status = "deleted"] = Marked(Table!NoJob, "deleted")
    BY Zenon DEF Marked
  <2> QED
    BY <1>1, <2>1, RecUpdates
<1>3. JobRec("deleted", NULL, 0, d, 0, NULL, "none", NULL).status = "deleted"
  BY RecFields
<1>4. View(NULL, t) = AbsentRow
  BY DEF View
<1> QED
  BY <1>2, <1>3, <1>4 DEF PlainRow

-----------------------------------------------------------------------------
(* What the invariant says of the tables that are shown.                   *)
LEMMA TableFacts ==
  ASSUME StoreInv
  PROVE  LET js == Shown(ix.jobs, now) IN
           /\ ix.jobs \in [JobIds -> Row \cup {NULL}] /\ now \in Int
           /\ \A j \in JobIds :
                /\ js[j] = View(ix.jobs[j], now)
                /\ Table!Exists(js, j) <=> j \in JobsOf(ix)
                /\ j \in Table!Roots(js) <=> j \in JobsOf(ix) /\ ix.jobs[j].chain = j
           /\ \A j \in JobsOf(ix) :
                /\ j \in JobIds
                /\ js[j].status = ix.jobs[j].status /\ js[j].chain = ix.jobs[j].chain
                /\ js[j].index = ix.jobs[j].index /\ js[j].due = DueAt(ix.jobs[j], now)
                /\ js[j].lease = LeaseAt(ix.jobs[j], now) /\ js[j].key = ix.jobs[j].key
<1> DEFINE js == Shown(ix.jobs, now)
<1>1. ix.jobs \in [JobIds -> Row \cup {NULL}] /\ now \in Int
  BY RowFacts
<1>2. \A j \in JobIds :
        /\ js[j] = View(ix.jobs[j], now)
        /\ Table!Exists(js, j) <=> ix.jobs[j] # NULL
        /\ ix.jobs[j] # NULL =>
             /\ js[j].status = ix.jobs[j].status /\ js[j].chain = ix.jobs[j].chain
             /\ js[j].index = ix.jobs[j].index /\ js[j].due = DueAt(ix.jobs[j], now)
             /\ js[j].lease = LeaseAt(ix.jobs[j], now) /\ js[j].key = ix.jobs[j].key
  BY <1>1, ShownRows
<1> HIDE DEF js
<1>3. \A j \in JobIds : j \in JobsOf(ix) <=> ix.jobs[j] # NULL
  BY DEF JobsOf
<1>4. \A j \in JobIds : j \in Table!Roots(js) <=> j \in JobsOf(ix) /\ ix.jobs[j].chain = j
  BY <1>2, <1>3 DEF Table!Roots
<1>5. JobsOf(ix) \subseteq JobIds
  BY DEF JobsOf
<1> QED
  BY Zenon, <1>1, <1>2, <1>3, <1>4, <1>5 DEF js

(* A chain is complete when its last job is: the index of last jobs and    *)
(* the table agree.                                                        *)
LEMMA CompletionShown ==
  ASSUME StoreInv, NEW c \in JobIds
  PROVE  Table!ChainComplete(Shown(ix.jobs, now), c) <=> ChainCompleted(ix, c)
<1> DEFINE js == Shown(ix.jobs, now)
<1>1. \A j \in JobIds : Table!Exists(js, j) <=> j \in JobsOf(ix)
  BY Zenon, TableFacts
<1>2. \A j \in JobsOf(ix) :
        /\ j \in JobIds
        /\ js[j].status = ix.jobs[j].status /\ js[j].chain = ix.jobs[j].chain
        /\ js[j].index = ix.jobs[j].index
  BY Zenon, TableFacts
<1>3. /\ \A j \in JobsOf(ix) : ix.jobs[j] \in Rows /\ ix.jobs[j] # NULL /\ ix.jobs[j].index \in Nat
      /\ \A r \in Rows : r \in Row /\ r.id \in JobsOf(ix) /\ ix.jobs[r.id] = r /\ r # NULL
      /\ Proper(Rows)
  BY RowFacts DEF Row
<1>4. Top(ix.last[c], OfChain(Rows, c))
  BY IndexFacts DEF Indexed
<1> HIDE DEF js
<1>5. ASSUME Table!ChainComplete(js, c) PROVE ChainCompleted(ix, c)
  <2>1. PICK j \in Table!ChainJobs(js, c) :
               Table!IsLastInChain(js, j) /\ js[j].status = "completed"
    BY <1>5 DEF Table!ChainComplete
  <2>2. j \in JobsOf(ix) /\ ix.jobs[j].chain = c /\ ix.jobs[j].status = "completed"
    BY <1>1, <1>2, <2>1 DEF Table!ChainJobs
  <2> DEFINE r == ix.jobs[j]
             l == ix.last[c]
  <2>3. r \in OfChain(Rows, c)
    BY <1>3, <2>2 DEF OfChain
  <2>4. l \in OfChain(Rows, c) /\ r.index <= l.index
    BY <1>4, <2>3 DEF Top
  <2>5. l \in Rows /\ l.chain = c /\ l.id \in JobsOf(ix) /\ ix.jobs[l.id] = l /\ l # NULL
    BY <1>3, <2>4 DEF OfChain
  <2>6. l.id \in Table!ChainJobs(js, js[j].chain)
    BY <1>1, <1>2, <2>2, <2>5 DEF Table!ChainJobs
  <2>7. l.index <= r.index
    BY <1>2, <2>1, <2>2, <2>5, <2>6 DEF Table!IsLastInChain
  <2>8. l.index = r.index
    BY <1>3, <2>2, <2>4, <2>5, <2>7
  <2>9. l = r
    BY <1>3, <2>2, <2>3, <2>5, <2>8 DEF Proper
  <2> QED
    BY <2>2, <2>5, <2>9 DEF ChainCompleted
<1>6. ASSUME ChainCompleted(ix, c) PROVE Table!ChainComplete(js, c)
  <2> DEFINE l == ix.last[c]
             j == l.id
  <2>1. l # NULL /\ l.status = "completed"
    BY <1>6 DEF ChainCompleted
  <2>2. l \in OfChain(Rows, c) /\ \A q \in OfChain(Rows, c) : q.index <= l.index
    BY <1>4, <2>1 DEF Top
  <2>3. l \in Rows /\ l.chain = c /\ j \in JobsOf(ix) /\ ix.jobs[j] = l
    BY <1>3, <2>2 DEF OfChain
  <2>4. /\ j \in JobIds /\ js[j].chain = c /\ js[j].status = "completed"
        /\ js[j].index = l.index /\ Table!Exists(js, j)
    BY <1>1, <1>2, <2>1, <2>3
  <2>5. j \in Table!ChainJobs(js, c)
    BY <2>4 DEF Table!ChainJobs
  <2> HIDE DEF j, l
  <2>6. ASSUME NEW k \in Table!ChainJobs(js, c) PROVE js[k].index <= js[j].index
    <3>1. k \in JobsOf(ix) /\ ix.jobs[k].chain = c /\ js[k].index = ix.jobs[k].index
      BY <1>1, <1>2 DEF Table!ChainJobs
    <3>2. ix.jobs[k] \in OfChain(Rows, c)
      BY <1>3, <3>1 DEF OfChain
    <3> QED
      BY <2>2, <2>4, <3>1, <3>2
  <2>7. Table!IsLastInChain(js, j)
    BY <2>4, <2>6 DEF Table!IsLastInChain
  <2> QED
    BY <2>4, <2>5, <2>7 DEF Table!ChainComplete
<1> QED
  BY <1>5, <1>6 DEF js

-----------------------------------------------------------------------------
(* The steps.                                                              *)

Scopes == [i \in DOMAIN saved |-> <<JobTable(saved[i]), BlockerTable(saved[i])>>]

(* What an operation that advances does to the tables that are shown.      *)
LEMMA MethodShown ==
  ASSUME StoreInv, Advances
  PROVE  /\ JobTable(ix) = Shown(ix.jobs, now) /\ BlockerTable(ix) = Refs(ix.blockers)
         /\ JobTable(ix)' = Shown(ix'.jobs, now) /\ BlockerTable(ix)' = Refs(ix'.blockers)
         /\ Scopes' = Scopes
         /\ ix.jobs \in [JobIds -> Row \cup {NULL}] /\ ix'.jobs \in [JobIds -> Row \cup {NULL}]
         /\ ix.blockers \in [JobIds -> SUBSET JobIds]
         /\ ix'.blockers \in [JobIds -> SUBSET JobIds]
<1>1. StoreInv' /\ saved' = saved /\ now' = now
  BY AdvanceKeeps
<1>2. /\ JobTable(ix) = Shown(ix.jobs, now) /\ BlockerTable(ix) = Refs(ix.blockers)
      /\ Scopes = ShownScopes(saved, now)
  BY TablesShown DEF Scopes
<1>3. /\ JobTable(ix)' = Shown(ix'.jobs, now') /\ BlockerTable(ix)' = Refs(ix'.blockers)
      /\ Scopes' = ShownScopes(saved', now')
  BY NextTablesShown DEF Scopes
<1>4. /\ ix.jobs \in [JobIds -> Row \cup {NULL}] /\ ix.blockers \in [JobIds -> SUBSET JobIds]
  BY RowFacts
<1>5. (StoreInv => /\ ix.jobs \in [JobIds -> Row \cup {NULL}]
                   /\ ix.blockers \in [JobIds -> SUBSET JobIds])'
  BY RowFacts, PTL
<1> QED
  BY <1>1, <1>2, <1>3, <1>4, <1>5

(* Whether a row is due is a truth value.                                  *)
LEMMA DueIsBoolean ==
  ASSUME NEW r, NEW t
  PROVE  DueAt(r, t) \in BOOLEAN
  BY DEF DueAt

(* A method on one job, of the abstract system.                            *)
LEMMA MethodOnOne ==
  ASSUME NEW j \in JobIds, Scopes' = Scopes, JobTable(ix)'[j] # JobTable(ix)[j],
         \/ Table!TCreate(j) \/ Table!TAcquire(j) \/ Table!TRenew(j)
         \/ Table!TReschedule(j) \/ Table!TComplete(j) \/ Table!TReap(j)
  PROVE  Table!TNext
<1>1. Table!TMethod
  BY Zenon DEF Table!TMethod
<1> QED
  BY Zenon, <1>1 DEF Table!TNext, Scopes

(* The key that no index entry has is in no row of the table.              *)
LEMMA DeduplicationShown ==
  ASSUME StoreInv, NEW key \in Keys \cup {NULL}, NEW scope, ~DedupHit(ix, key, scope)
  PROVE  ~Table!Deduplicated(Shown(ix.jobs, now), key, scope)
<1> DEFINE js == Shown(ix.jobs, now)
<1>1. \A j \in JobIds : Table!Exists(js, j) <=> j \in JobsOf(ix)
  BY Zenon, TableFacts
<1>2. \A j \in JobsOf(ix) : /\ js[j].status = ix.jobs[j].status /\ js[j].key = ix.jobs[j].key
  BY Zenon, TableFacts
<1> HIDE DEF js
<1>3. ASSUME NEW r \in JobIds, Table!Exists(js, r), key # NULL, js[r].key = key,
             scope = "incomplete" => js[r].status # "completed"
      PROVE  FALSE
  <2>1. r \in JobsOf(ix) /\ ix.jobs[r].key = key /\ js[r].status = ix.jobs[r].status
    BY <1>1, <1>2, <1>3
  <2>2. ix.jobs[r] \in Rows /\ ix.jobs[r].id = r
    BY <2>1, RowFacts
  <2>3. ix.jobs[r].chain = r
    BY <1>3, <2>1, ChainFacts
  <2>4. key \in Keys
    BY <1>3
  <2>5. ix.jobs[r] \in ix.dedup[key]
    BY <2>1, <2>2, <2>3, <2>4, IndexFacts DEF IsRoot
  <2> QED
    BY <1>3, <2>1, <2>5 DEF DedupHit
<1> QED
  BY <1>3 DEF Table!Deduplicated, js

(* The job behind which a place is free is the last of its chain.          *)
LEMMA LastShown ==
  ASSUME StoreInv, NEW p \in JobsOf(ix),
         \A b \in Rows : ~(b.chain = ix.jobs[p].chain /\ b.index = ix.jobs[p].index + 1)
  PROVE  Table!IsLastInChain(Shown(ix.jobs, now), p)
<1> DEFINE js == Shown(ix.jobs, now)
<1>1. \A j \in JobIds : Table!Exists(js, j) <=> j \in JobsOf(ix)
  BY Zenon, TableFacts
<1>2. \A j \in JobsOf(ix) :
        j \in JobIds /\ js[j].chain = ix.jobs[j].chain /\ js[j].index = ix.jobs[j].index
  BY Zenon, TableFacts
<1>3. \A j \in JobsOf(ix) : ix.jobs[j] \in Rows /\ ix.jobs[j].index \in Nat
  BY RowFacts DEF Row
<1> HIDE DEF js
<1>4. ASSUME NEW k \in Table!ChainJobs(js, js[p].chain) PROVE js[k].index <= js[p].index
  <2>1. k \in JobsOf(ix) /\ ix.jobs[k].chain = ix.jobs[p].chain
    BY <1>1, <1>2 DEF Table!ChainJobs
  <2>2. SUFFICES ASSUME ix.jobs[k].index > ix.jobs[p].index PROVE FALSE
    BY <1>2, <1>3, <2>1
  <2> DEFINE i == ix.jobs[p].index + 1
  <2>3. i \in 0 .. ix.jobs[k].index
    BY <1>3, <2>1, <2>2
  <2> HIDE DEF i
  <2>4. PICK h \in JobsOf(ix) : ix.jobs[h].chain = ix.jobs[k].chain /\ ix.jobs[h].index = i
    BY <2>1, <2>3, ChainFacts
  <2> QED
    BY <1>3, <2>1, <2>4 DEF i
<1> QED
  BY <1>1, <1>2, <1>4 DEF Table!IsLastInChain, js

(* createJobs.                                                             *)
LEMMA CreateMaps ==
  ASSUME StoreInv, CreateJobs
  PROVE  Table!TNext
<1> DEFINE js == Shown(ix.jobs, now)
<1>1. PICK id \in JobIds, type \in Types, at \in ScheduleTimes :
        \/ \E key \in Keys \cup {NULL}, scope \in {"incomplete", "any"} :
             CreateRoot(id, type, at, key, scope)
        \/ \E j \in JobsOf(ix) :
             CreateContinuation(id, type, ix.jobs[j].chain, ix.jobs[j].index + 1, at)
  BY DEF CreateJobs
<1>2. ASSUME Advances, NEW c \in JobIds, NEW i \in Nat, NEW key \in Keys \cup {NULL},
             ix.jobs[id] = NULL, ix'.jobs[id] = NewRow(id, type, c, i, at, key), OnlyRows({id}),
             \A due \in BOOLEAN :
               /\ JobTable(ix)' = Table!Plain(Table!CreateJob(JobTable(ix), id, c, i, due, key))
               /\ BlockerTable(ix)' = BlockerTable(ix)
               => Table!TCreate(id)
      PROVE  Table!TNext
  <2>1. /\ JobTable(ix) = js /\ BlockerTable(ix) = Refs(ix.blockers)
        /\ JobTable(ix)' = Shown(ix'.jobs, now) /\ BlockerTable(ix)' = Refs(ix'.blockers)
        /\ Scopes' = Scopes
        /\ ix.jobs \in [JobIds -> Row \cup {NULL}] /\ ix'.jobs \in [JobIds -> Row \cup {NULL}]
    BY <1>2, MethodShown
  <2> DEFINE g == ix'.jobs
             d == DueAt(g[id], now)
  <2>2. /\ g[id] \in Row /\ g[id].status = "pending" /\ g[id].chain = c /\ g[id].index = i
        /\ g[id].key = key /\ g[id].leasedUntil = Unleased
        /\ (\A q \in JobIds : q # id => g[q] = ix.jobs[q]) /\ ix'.blockers = ix.blockers
    <3>1. NewRow(id, type, c, i, at, key) \in Row
      BY RowType
    <3> QED
      BY <1>2, <3>1 DEF NewRow, OnlyRows
  <2> HIDE DEF g
  <2>3. Table!Plain(Table!CreateJob(js, id, c, i, d, key)) = Shown(g, now)
    BY <2>1, <2>2, CreateShown
  <2>4. d \in BOOLEAN
    BY DueIsBoolean
  <2> HIDE DEF d
  <2>5. Table!TCreate(id)
    BY <1>2, <2>1, <2>2, <2>3, <2>4 DEF g
  <2>6. JobTable(ix)'[id] # JobTable(ix)[id]
    <3>1. Shown(g, now)[id].status = "pending"
      BY <2>1, <2>2, ShownRows, NullIsNoValue DEF g
    <3>2. js[id].status = "absent"
      BY <1>2, <2>1, ShownRows
    <3> QED
      BY <2>1, <3>1, <3>2 DEF g
  <2> QED
    BY <2>1, <2>5, <2>6, MethodOnOne
<1>3. JobTable(ix) = js /\ (ix.jobs[id] = NULL => ~Table!Exists(js, id))
  BY TablesShown, TableFacts DEF JobsOf
<1> HIDE DEF js
<1>4. ASSUME NEW key \in Keys \cup {NULL}, NEW scope \in {"incomplete", "any"},
             CreateRoot(id, type, at, key, scope)
      PROVE  Table!TNext
  <2>1. /\ Advances /\ ix.jobs[id] = NULL /\ ~DedupHit(ix, key, scope)
        /\ ix'.jobs[id] = NewRow(id, type, id, 0, at, key) /\ OnlyRows({id})
    BY <1>4, CreateRootAdvances
  <2>2. ~Table!Deduplicated(js, key, scope)
    BY <2>1, DeduplicationShown DEF js
  <2>3. ASSUME NEW due \in BOOLEAN,
               JobTable(ix)' = Table!Plain(Table!CreateJob(JobTable(ix), id, id, 0, due, key)),
               BlockerTable(ix)' = BlockerTable(ix)
        PROVE  Table!TCreate(id)
    BY Zenon, <1>3, <2>1, <2>2, <2>3 DEF Table!TCreate, Table!Jobs
  <2> QED
    BY <1>2, <2>1, <2>3
<1>5. ASSUME NEW p \in JobsOf(ix),
             CreateContinuation(id, type, ix.jobs[p].chain, ix.jobs[p].index + 1, at)
      PROVE  Table!TNext
  <2> DEFINE c == ix.jobs[p].chain
             i == ix.jobs[p].index + 1
  <2>1. /\ Advances /\ ix.jobs[id] = NULL /\ \A b \in Rows : ~(b.chain = c /\ b.index = i)
        /\ ix'.jobs[id] = NewRow(id, type, c, i, at, NULL) /\ OnlyRows({id})
    BY <1>5, CreateContinuationAdvances
  <2>2. Table!IsLastInChain(js, p)
    BY <2>1, LastShown DEF js
  <2>3. /\ c \in JobIds /\ i \in Nat /\ p \in JobIds
        /\ js[p].chain = c /\ js[p].index + 1 = i
    <3>1. js[p].chain = ix.jobs[p].chain /\ js[p].index = ix.jobs[p].index /\ p \in JobIds
      BY TableFacts DEF js
    <3>2. ix.jobs[p].index \in Nat /\ ix.jobs[p].chain \in JobIds
      BY RowFacts DEF Row
    <3> QED
      BY <3>1, <3>2
  <2> HIDE DEF c, i
  <2>4. ASSUME NEW due \in BOOLEAN,
               JobTable(ix)' = Table!Plain(Table!CreateJob(JobTable(ix), id, c, i, due, NULL)),
               BlockerTable(ix)' = BlockerTable(ix)
        PROVE  Table!TCreate(id)
    BY Zenon, <1>3, <2>1, <2>2, <2>3, <2>4 DEF Table!TCreate, Table!Jobs
  <2> QED
    BY <1>2, <2>1, <2>3, <2>4
<1> QED
  BY <1>1, <1>4, <1>5

(* A step of the refinement, or none.                                      *)
Steps == Table!TNext \/ UNCHANGED Table!tvars

(* An operation on one row, which may find the row as it wants it.         *)
LEMMA OneRowMaps ==
  ASSUME StoreInv, Advances, NEW j \in JobsOf(ix), OnlyRows({j}),
         JobTable(ix) = Shown(ix.jobs, now) /\ JobTable(ix)' = Shown(ix'.jobs, now)
           /\ BlockerTable(ix)' = BlockerTable(ix)
         => \/ Table!TAcquire(j) \/ Table!TRenew(j)
            \/ Table!TReschedule(j) \/ Table!TComplete(j) \/ Table!TReap(j)
  PROVE  Steps
<1>1. /\ JobTable(ix) = Shown(ix.jobs, now) /\ BlockerTable(ix) = Refs(ix.blockers)
      /\ JobTable(ix)' = Shown(ix'.jobs, now) /\ BlockerTable(ix)' = Refs(ix'.blockers)
      /\ Scopes' = Scopes
  BY MethodShown
<1>2. ix'.blockers = ix.blockers /\ \A i \in JobIds : i # j => ix'.jobs[i] = ix.jobs[i]
  BY DEF OnlyRows
<1>3. j \in JobIds
  BY DEF JobsOf
<1>4. CASE JobTable(ix)'[j] # JobTable(ix)[j]
  <2>1. Table!TNext
    BY <1>1, <1>2, <1>3, <1>4, MethodOnOne
  <2> QED
    BY <2>1 DEF Steps
<1>5. CASE JobTable(ix)'[j] = JobTable(ix)[j]
  <2>1. Shown(ix'.jobs, now) = Shown(ix.jobs, now)
    BY <1>1, <1>2, <1>5 DEF Shown
  <2>2. JobTable(ix)' = JobTable(ix) /\ BlockerTable(ix)' = BlockerTable(ix)
    BY <1>1, <1>2, <2>1
  <2> QED
    BY Zenon, <1>1, <2>2 DEF Steps, Table!tvars, Scopes
<1> QED
  BY <1>4, <1>5

(* acquireJob.                                                             *)
LEMMA AcquireMaps ==
  ASSUME StoreInv, AcquireJob
  PROVE  Steps
<1> DEFINE js == Shown(ix.jobs, now)
<1>1. PICK j \in JobsOf(ix) :
        /\ Advances
        /\ ix.jobs[j].status = "pending" /\ ix.jobs[j].scheduledAt <= now /\ OnlyRows({j})
        /\ Becomes(ix.jobs[j], ix'.jobs[j], "running", ix.jobs[j].scheduledAt, ix.jobs[j].leasedUntil)
  BY AcquireAdvances
<1>2. /\ ix.jobs \in [JobIds -> Row \cup {NULL}] /\ j \in JobIds
      /\ \A i \in JobIds : i # j => ix'.jobs[i] = ix.jobs[i]
  BY <1>1, RowFacts DEF OnlyRows, JobsOf
<1>3. /\ Table!Exists(js, j) /\ js[j].status = ix.jobs[j].status
      /\ js[j].due = DueAt(ix.jobs[j], now) /\ js[j].lease = LeaseAt(ix.jobs[j], now)
  BY Zenon, <1>2, TableFacts
<1>4. Table!Plain(Table!AcquireJob(js, j)) = Shown(ix'.jobs, now)
  BY <1>1, <1>2, AcquireShown
<1> HIDE DEF js
<1>6. js[j].status = "pending" /\ js[j].due
  <2>1. DueAt(ix.jobs[j], now)
    BY <1>1 DEF DueAt
  <2> QED
    BY Zenon, <1>1, <1>3, <2>1
<1>5. JobTable(ix) = Shown(ix.jobs, now) /\ JobTable(ix)' = Shown(ix'.jobs, now)
        /\ BlockerTable(ix)' = BlockerTable(ix)
      => Table!TAcquire(j)
  BY Zenon, <1>3, <1>4, <1>6 DEF Table!TAcquire, Table!Jobs, js
<1> QED
  BY <1>1, <1>5, OneRowMaps

(* renewJobLease.                                                          *)
LEMMA RenewMaps ==
  ASSUME StoreInv, RenewJobLease
  PROVE  Steps
<1> DEFINE js == Shown(ix.jobs, now)
<1>1. PICK j \in JobsOf(ix) :
        /\ Advances
        /\ ix.jobs[j].status = "running" /\ OnlyRows({j})
        /\ Becomes(ix.jobs[j], ix'.jobs[j], "running", ix.jobs[j].scheduledAt, now + 1)
  BY RenewAdvances
<1>2. /\ ix.jobs \in [JobIds -> Row \cup {NULL}] /\ j \in JobIds
      /\ \A i \in JobIds : i # j => ix'.jobs[i] = ix.jobs[i]
  BY <1>1, RowFacts DEF OnlyRows, JobsOf
<1>3. /\ Table!Exists(js, j) /\ js[j].status = ix.jobs[j].status
      /\ js[j].due = DueAt(ix.jobs[j], now) /\ js[j].lease = LeaseAt(ix.jobs[j], now)
  BY Zenon, <1>2, TableFacts
<1>4. Table!Plain(Table!RenewJobLease(js, j, "worker")) = Shown(ix'.jobs, now)
  <2>1. now + 1 # Unleased /\ now + 1 > now
    BY RowFacts DEF Unleased
  <2> DEFINE f == ix.jobs
             g == ix'.jobs
             lease == now + 1
  <2>2. /\ lease # Unleased /\ lease > now /\ f \in [JobIds -> Row \cup {NULL}] /\ j \in JobIds
        /\ Becomes(f[j], g[j], "running", f[j].scheduledAt, lease)
        /\ \A i \in JobIds : i # j => g[i] = f[i]
    BY <1>1, <1>2, <2>1
  <2> HIDE DEF lease, f, g
  <2>3. Table!Plain(Table!RenewJobLease(Shown(f, now), j, "worker")) = Shown(g, now)
    BY Zenon, <2>2, RenewShown
  <2> QED
    BY <2>3 DEF f, g
<1> HIDE DEF js
<1>5. JobTable(ix) = Shown(ix.jobs, now) /\ JobTable(ix)' = Shown(ix'.jobs, now)
        /\ BlockerTable(ix)' = BlockerTable(ix)
      => Table!TRenew(j)
  BY Zenon, <1>3, <1>4 DEF Table!TRenew, Table!Jobs, js
<1> QED
  BY <1>1, <1>5, OneRowMaps

(* rescheduleJob.                                                          *)
LEMMA RescheduleMaps ==
  ASSUME StoreInv, RescheduleJob
  PROVE  Steps
<1> DEFINE js == Shown(ix.jobs, now)
<1>1. PICK j \in JobsOf(ix), at \in ScheduleTimes :
        /\ Advances
        /\ ix.jobs[j].status = "running" /\ OnlyRows({j})
        /\ Becomes(ix.jobs[j], ix'.jobs[j], "pending", at, Unleased)
  BY RescheduleAdvances
<1>2. /\ ix.jobs \in [JobIds -> Row \cup {NULL}] /\ j \in JobIds
      /\ \A i \in JobIds : i # j => ix'.jobs[i] = ix.jobs[i]
  BY <1>1, RowFacts DEF OnlyRows, JobsOf
<1>3. /\ Table!Exists(js, j) /\ js[j].status = ix.jobs[j].status
      /\ js[j].due = DueAt(ix.jobs[j], now) /\ js[j].lease = LeaseAt(ix.jobs[j], now)
  BY Zenon, <1>2, TableFacts
<1>4. Table!Plain(Table!RescheduleJob(js, j, DueAt(ix'.jobs[j], now))) = Shown(ix'.jobs, now)
  <2> DEFINE f == ix.jobs
             g == ix'.jobs
  <2>1. /\ f \in [JobIds -> Row \cup {NULL}] /\ j \in JobIds
        /\ Becomes(f[j], g[j], "pending", at, Unleased)
        /\ \A i \in JobIds : i # j => g[i] = f[i]
    BY <1>1, <1>2
  <2> HIDE DEF f, g
  <2>2. Table!Plain(Table!RescheduleJob(Shown(f, now), j, DueAt(g[j], now))) = Shown(g, now)
    BY Zenon, <2>1, RescheduleShown
  <2> QED
    BY <2>2 DEF f, g
<1> HIDE DEF js
<1>6. DueAt(ix'.jobs[j], now) \in BOOLEAN
  BY DueIsBoolean
<1>5. JobTable(ix) = Shown(ix.jobs, now) /\ JobTable(ix)' = Shown(ix'.jobs, now)
        /\ BlockerTable(ix)' = BlockerTable(ix)
      => Table!TReschedule(j)
  BY Zenon, <1>3, <1>4, <1>6 DEF Table!TReschedule, Table!Jobs, js
<1> QED
  BY <1>1, <1>5, OneRowMaps

(* completeJob.                                                            *)
LEMMA CompleteMaps ==
  ASSUME StoreInv, CompleteJob
  PROVE  Steps
<1> DEFINE js == Shown(ix.jobs, now)
<1>1. PICK j \in JobsOf(ix) :
        /\ Advances
        /\ ix.jobs[j].status # "completed" /\ OnlyRows({j})
        /\ Becomes(ix.jobs[j], ix'.jobs[j], "completed", ix.jobs[j].scheduledAt, Unleased)
  BY CompleteAdvances
<1>2. /\ ix.jobs \in [JobIds -> Row \cup {NULL}] /\ j \in JobIds
      /\ \A i \in JobIds : i # j => ix'.jobs[i] = ix.jobs[i]
  BY <1>1, RowFacts DEF OnlyRows, JobsOf
<1>3. /\ Table!Exists(js, j) /\ js[j].status = ix.jobs[j].status
      /\ js[j].due = DueAt(ix.jobs[j], now) /\ js[j].lease = LeaseAt(ix.jobs[j], now)
  BY Zenon, <1>2, TableFacts
<1>4. Table!Plain(Table!CompleteJob(js, j)) = Shown(ix'.jobs, now)
  BY <1>1, <1>2, CompleteShown
<1> HIDE DEF js
<1>5. JobTable(ix) = Shown(ix.jobs, now) /\ JobTable(ix)' = Shown(ix'.jobs, now)
        /\ BlockerTable(ix)' = BlockerTable(ix)
      => Table!TComplete(j)
  BY Zenon, <1>3, <1>4 DEF Table!TComplete, Table!Jobs, js
<1> QED
  BY <1>1, <1>5, OneRowMaps

(* reapExpiredJobLease.                                                    *)
LEMMA ReapMaps ==
  ASSUME StoreInv, ReapExpiredJobLease
  PROVE  Steps
<1> DEFINE js == Shown(ix.jobs, now)
<1>1. PICK j \in JobsOf(ix) :
        /\ Advances
        /\ ix.jobs[j].status = "running" /\ ix.jobs[j].leasedUntil <= now /\ OnlyRows({j})
        /\ Becomes(ix.jobs[j], ix'.jobs[j], "pending", ix.jobs[j].scheduledAt, Unleased)
  BY ReapAdvances
<1>2. /\ ix.jobs \in [JobIds -> Row \cup {NULL}] /\ j \in JobIds
      /\ \A i \in JobIds : i # j => ix'.jobs[i] = ix.jobs[i]
  BY <1>1, RowFacts DEF OnlyRows, JobsOf
<1>3. /\ Table!Exists(js, j) /\ js[j].status = ix.jobs[j].status
      /\ js[j].due = DueAt(ix.jobs[j], now) /\ js[j].lease = LeaseAt(ix.jobs[j], now)
  BY Zenon, <1>2, TableFacts
<1>4. Table!Plain(Table!ReapJobLease(js, j)) = Shown(ix'.jobs, now)
  BY <1>1, <1>2, ReapShown
<1> HIDE DEF js
<1>6. js[j].lease = "expired"
  <2>1. ix.jobs[j].leasedUntil # Unleased /\ ~(ix.jobs[j].leasedUntil > now)
    <3>1. ix.jobs[j].leasedUntil \in Int
      BY <1>1, RowFacts DEF Row
    <3> QED
      BY <1>1, <3>1, RowFacts DEF Unleased
  <2>2. LeaseAt(ix.jobs[j], now) = "expired"
    BY <2>1 DEF LeaseAt
  <2> QED
    BY <1>3, <2>2
<1>5. JobTable(ix) = Shown(ix.jobs, now) /\ JobTable(ix)' = Shown(ix'.jobs, now)
        /\ BlockerTable(ix)' = BlockerTable(ix)
      => Table!TReap(j)
  BY Zenon, <1>3, <1>4, <1>6 DEF Table!TReap, Table!Jobs, js
<1> QED
  BY <1>1, <1>5, OneRowMaps

-----------------------------------------------------------------------------
(* The operations on several rows.                                         *)

(* The pairs of the blocker table.                                         *)
LEMMA RefFacts ==
  ASSUME NEW b \in [JobIds -> SUBSET JobIds]
  PROVE  /\ \A q, c : <<q, c>> \in Refs(b) <=> q \in JobIds /\ c \in b[q]
         /\ \A ref \in Refs(b) : /\ ref = <<ref[1], ref[2]>> /\ ref[1] \in JobIds
                                 /\ ref[2] \in JobIds /\ ref[2] \in b[ref[1]]
         /\ \A q \in JobIds : Table!BlockersOf(Refs(b), q) = b[q]
<1>1. \A q, c : <<q, c>> \in Refs(b) <=> q \in JobIds /\ c \in b[q]
  BY DEF Refs
<1>2. \A ref \in Refs(b) : /\ ref = <<ref[1], ref[2]>> /\ ref[1] \in JobIds
                           /\ ref[2] \in JobIds /\ ref[2] \in b[ref[1]]
  BY DEF Refs
<1>3. \A q \in JobIds : Table!BlockersOf(Refs(b), q) = b[q]
  BY <1>1 DEF Table!BlockersOf
<1> QED
  BY Zenon, <1>1, <1>2, <1>3

(* The blocker map and its inverse.                                        *)
LEMMA InverseFacts ==
  ASSUME StoreInv
  PROVE  \A c \in JobIds : ix.blockedBy[c] = {q \in JobIds : c \in ix.blockers[q]}
  BY DEF StoreInv, Agree

(* addJobsBlockers.                                                        *)
LEMMA BlockMaps ==
  ASSUME StoreInv, AddJobsBlockers
  PROVE  Steps
<1> DEFINE js == Shown(ix.jobs, now)
           g == ix'.jobs
           b2 == ix'.blockers
<1>1. PICK q \in JobsOf(ix), B \in SUBSET JobsOf(ix) :
        /\ Advances /\ ix.jobs[q].status = "pending" /\ \A c \in B : IsRoot(ix.jobs[c])
        /\ \A j \in JobIds : j # q => g[j] = ix.jobs[j] /\ b2[j] = ix.blockers[j]
        /\ \A c \in JobIds : c \in b2[q] <=> c \in ix.blockers[q] \/ c \in B
        /\ (\E c \in B : ~ChainCompleted(ix, c)) =>
             Becomes(ix.jobs[q], g[q], "blocked", ix.jobs[q].scheduledAt,
                     ix.jobs[q].leasedUntil)
        /\ (\A c \in B : ChainCompleted(ix, c)) => g[q] = ix.jobs[q]
  BY AddBlockersAdvances
<1>2. /\ JobTable(ix) = js /\ BlockerTable(ix) = Refs(ix.blockers)
      /\ JobTable(ix)' = Shown(g, now) /\ BlockerTable(ix)' = Refs(b2)
      /\ Scopes' = Scopes
      /\ ix.blockers \in [JobIds -> SUBSET JobIds] /\ b2 \in [JobIds -> SUBSET JobIds]
  BY <1>1, MethodShown
<1>3. q \in JobIds /\ B \in SUBSET JobIds
  BY DEF JobsOf
<1>4. /\ \A j \in JobIds : js[j] = View(ix.jobs[j], now)
      /\ js[q].status = "pending"
  BY <1>1, TableFacts
<1>5. B \in SUBSET Table!Roots(js)
  <2>1. \A c \in B : ix.jobs[c].chain = c
    BY <1>1, RowFacts DEF IsRoot
  <2> QED
    BY <1>3, <2>1, TableFacts
<1>6. \A c \in B : Table!ChainComplete(js, c) <=> ChainCompleted(ix, c)
  BY <1>3, CompletionShown
<1>7. Shown(g, now) = Table!AddJobBlockers(js, q, B)
  <2>1. js = [j \in JobIds |-> js[j]]
    BY DEF Shown
  <2>2. CASE \E c \in B : ~ChainCompleted(ix, c)
    <3>1. Becomes(ix.jobs[q], g[q], "blocked", ix.jobs[q].scheduledAt, ix.jobs[q].leasedUntil)
      BY <1>1, <2>2
    <3>2. DueAt(g[q], now) = DueAt(ix.jobs[q], now)
      BY <3>1, NextView
    <3>3. Marked(js[q], "blocked") = View(g[q], now)
      BY <1>3, <1>4, <3>1, <3>2, MarkedShown
    <3> HIDE DEF js, g
    <3>4. Table!Incomplete(js, B) # {}
      BY <1>6, <2>2 DEF Table!Incomplete
    <3>5. Table!AddJobBlockers(js, q, B) = [js EXCEPT ![q].status = "blocked"]
      BY <1>4, <3>4 DEF Table!AddJobBlockers
    <3>6. Table!AddJobBlockers(js, q, B)
          = [j \in JobIds |-> IF j = q THEN Marked(js[q], "blocked") ELSE js[j]]
      BY <1>3, <2>1, <3>5 DEF Marked
    <3>7. \A j \in JobIds : (IF j = q THEN Marked(js[q], "blocked") ELSE js[j]) = View(g[j], now)
      BY <1>1, <1>4, <3>3 DEF g
    <3> QED
      BY <3>6, <3>7 DEF Shown
  <2>3. CASE \A c \in B : ChainCompleted(ix, c)
    <3>1. \A j \in JobIds : View(g[j], now) = js[j]
      BY <1>1, <1>4, <2>3
    <3> HIDE DEF js, g
    <3>2. Table!Incomplete(js, B) = {}
      BY <1>6, <2>3 DEF Table!Incomplete
    <3>3. Table!AddJobBlockers(js, q, B) = js
      BY <3>2 DEF Table!AddJobBlockers
    <3> QED
      BY <2>1, <3>1, <3>3 DEF Shown
  <2> QED
    BY <2>2, <2>3
<1>8. Refs(b2) = Table!AddBlockerRows(Refs(ix.blockers), q, B)
  <2> DEFINE new == {<<q, c>> : c \in B}
  <2>1. ASSUME NEW ref \in Refs(b2) PROVE ref \in Refs(ix.blockers) \cup new
    <3>1. ref = <<ref[1], ref[2]>> /\ ref[1] \in JobIds /\ ref[2] \in JobIds /\ ref[2] \in b2[ref[1]]
      BY <1>2, RefFacts
    <3>2. ref[2] \in ix.blockers[ref[1]] \/ (ref[1] = q /\ ref[2] \in B)
      BY <1>1, <3>1
    <3> QED
      BY <1>2, <3>1, <3>2, RefFacts
  <2>2. ASSUME NEW ref \in Refs(ix.blockers) PROVE ref \in Refs(b2)
    <3>1. /\ ref = <<ref[1], ref[2]>> /\ ref[1] \in JobIds /\ ref[2] \in JobIds
          /\ ref[2] \in ix.blockers[ref[1]]
      BY <1>2, RefFacts
    <3>2. ref[2] \in b2[ref[1]]
      BY <1>1, <3>1
    <3> QED
      BY <1>2, <3>1, <3>2, RefFacts
  <2>3. ASSUME NEW c \in B PROVE <<q, c>> \in Refs(b2)
    BY <1>1, <1>2, <1>3, RefFacts
  <2>4. Refs(b2) = Refs(ix.blockers) \cup new
    BY <2>1, <2>2, <2>3
  <2> QED
    BY <2>4 DEF Table!AddBlockerRows
<1> HIDE DEF js, g, b2
<1>9. Table!TBlock
  BY <1>2, <1>3, <1>5, <1>7, <1>8 DEF Table!TBlock
<1> QED
  BY Zenon, <1>2, <1>9 DEF Steps, Table!TNext, Table!TMethod, Scopes

(* unblockJobs.                                                            *)
LEMMA UnblockMaps ==
  ASSUME StoreInv, UnblockJobs
  PROVE  Steps
<1> DEFINE js == Shown(ix.jobs, now)
           bl == Refs(ix.blockers)
           g == ix'.jobs
<1>1. PICK c \in JobIds :
        /\ Advances /\ OnlyRows(Unblocked(ix, c))
        /\ \A q \in Unblocked(ix, c) :
             /\ q \in JobsOf(ix)
             /\ Becomes(ix.jobs[q], g[q], "pending", ClampToFloor(ix.jobs[q].scheduledAt),
                        ix.jobs[q].leasedUntil)
  BY UnblockAdvances
<1>2. /\ JobTable(ix) = js /\ BlockerTable(ix) = bl
      /\ JobTable(ix)' = Shown(g, now) /\ BlockerTable(ix)' = Refs(ix'.blockers)
      /\ Scopes' = Scopes
      /\ ix.jobs \in [JobIds -> Row \cup {NULL}]
      /\ ix.blockers \in [JobIds -> SUBSET JobIds]
  BY <1>1, MethodShown
<1>3. ix'.blockers = ix.blockers /\ \A q \in JobIds : q \notin Unblocked(ix, c) => g[q] = ix.jobs[q]
  BY <1>1 DEF OnlyRows
<1>4. \A q \in JobIds : js[q] = View(ix.jobs[q], now)
  BY TableFacts
<1>5. \A q \in JobIds :
        /\ <<q, c>> \in bl <=> c \in ix.blockers[q]
        /\ Table!BlockersOf(bl, q) = ix.blockers[q]
  BY <1>2, RefFacts
<1>6. \A q \in JobIds :
        js[q].status = "blocked" <=> ix.jobs[q] # NULL /\ ix.jobs[q].status = "blocked"
  <2>1. \A q \in JobIds : /\ ix.jobs[q] = NULL => js[q].status = "absent"
                          /\ ix.jobs[q] # NULL => js[q].status = ix.jobs[q].status
    BY <1>2, ShownRows
  <2> QED
    BY <2>1
<1>7. \A q \in JobIds :
        Table!Incomplete(js, ix.blockers[q]) = {} <=> \A b \in ix.blockers[q] : ChainCompleted(ix, b)
  <2>1. \A b \in JobIds : Table!ChainComplete(js, b) <=> ChainCompleted(ix, b)
    BY CompletionShown
  <2> HIDE DEF js
  <2> QED
    BY <1>2, <2>1 DEF Table!Incomplete
<1>8. \A q \in JobIds :
        q \in Unblocked(ix, c) <=> /\ <<q, c>> \in bl /\ js[q].status = "blocked"
                                   /\ Table!Incomplete(js, Table!BlockersOf(bl, q)) = {}
  <2>1. \A q \in JobIds : q \in ix.blockedBy[c] <=> c \in ix.blockers[q]
    BY InverseFacts
  <2> HIDE DEF js, bl
  <2> QED
    BY <1>5, <1>6, <1>7, <2>1 DEF Unblocked
<1>9. ASSUME NEW q \in JobIds, q \in Unblocked(ix, c)
      PROVE  Marked(js[q], "pending") = View(g[q], now)
  <2> DEFINE a == ix.jobs[q]
             b == g[q]
             at == ClampToFloor(a.scheduledAt)
  <2>1. Becomes(a, b, "pending", at, a.leasedUntil)
    BY <1>1, <1>9
  <2>2. DueAt(b, now) = DueAt(a, now)
    <3>1. b.scheduledAt = at /\ a.scheduledAt \in Int /\ now \in Int
      BY <2>1, RowFacts DEF Becomes, Revises, Row
    <3> HIDE DEF a, b
    <3>2. b.scheduledAt <= now <=> a.scheduledAt <= now
      BY <3>1 DEF ClampToFloor
    <3> QED
      BY <3>2 DEF DueAt
  <2> HIDE DEF a, b, at
  <2>3. Marked(View(a, now), "pending") = View(b, now)
    BY <2>1, <2>2, MarkedShown
  <2> QED
    BY <1>4, <2>3 DEF a, b
<1> DEFINE T == Table!UnblockJobs(js, bl, c)
<1>10. \A q \in JobIds : T[q] = IF q \in Unblocked(ix, c) THEN Marked(js[q], "pending") ELSE js[q]
  <2> HIDE DEF js, bl
  <2> QED
    BY <1>8 DEF Table!UnblockJobs, Marked
<1> HIDE DEF js, bl, T
<1>11. ASSUME NEW q \in JobIds PROVE PlainRow(T[q]) = View(g[q], now)
  <2>1. T[q] = View(g[q], now)
    BY <1>3, <1>4, <1>9, <1>10
  <2>2. g[q] \in Row \cup {NULL}
    BY <1>1, <1>2, <1>3 DEF Becomes, Revises
  <2> QED
    BY <2>1, <2>2, ViewIsPlain
<1>12. Table!Plain(T) = Shown(g, now)
  BY <1>11, PlainIsShown
<1>13. Table!TUnblock
  BY <1>2, <1>3, <1>12 DEF Table!TUnblock, Table!Jobs, T, bl
<1> QED
  BY Zenon, <1>2, <1>13 DEF Steps, Table!TNext, Table!TMethod, Scopes

(* triggerJobs.                                                            *)
LEMMA TriggerMaps ==
  ASSUME StoreInv, TriggerJobs
  PROVE  Steps
<1> DEFINE js == Shown(ix.jobs, now)
           g == ix'.jobs
<1>1. PICK J \in SUBSET JobsOf(ix) :
        /\ Advances /\ OnlyRows(J)
        /\ \A j \in J : /\ ix.jobs[j].status = "pending"
                        /\ Becomes(ix.jobs[j], g[j], ix.jobs[j].status, now,
                                   ix.jobs[j].leasedUntil)
  BY TriggerAdvances
<1>2. /\ JobTable(ix) = js /\ BlockerTable(ix) = Refs(ix.blockers)
      /\ JobTable(ix)' = Shown(g, now) /\ BlockerTable(ix)' = Refs(ix'.blockers)
      /\ Scopes' = Scopes
      /\ ix.jobs \in [JobIds -> Row \cup {NULL}]
  BY <1>1, MethodShown
<1>3. ix'.blockers = ix.blockers /\ \A j \in JobIds : j \notin J => g[j] = ix.jobs[j]
  BY <1>1 DEF OnlyRows
<1>4. /\ J \in SUBSET JobIds /\ now \in Int
      /\ \A j \in JobIds : js[j] = View(ix.jobs[j], now)
  BY TableFacts DEF JobsOf
<1>5. Table!Triggerable(js, J)
  <2>1. \A j \in J : js[j].status = ix.jobs[j].status
    BY TableFacts
  <2> HIDE DEF js
  <2> QED
    BY <1>1, <2>1 DEF Table!Triggerable
<1>6. \A j \in J : [js[j] EXCEPT !.due = TRUE] = View(g[j], now)
  <2> TAKE j \in J
  <2> DEFINE a == ix.jobs[j]
             b == g[j]
  <2>1. Becomes(a, b, a.status, now, a.leasedUntil)
    BY <1>1
  <2>2. js[j] = View(a, now)
    BY <1>4
  <2> HIDE DEF a, b, js
  <2>3. [View(a, now) EXCEPT !.due = TRUE] = View(b, now)
    BY <1>4, <2>1, DueShown
  <2>4. [js[j] EXCEPT !.due = TRUE] = View(b, now)
    BY Zenon, <2>2, <2>3
  <2> QED
    BY Zenon, <2>4 DEF b
<1> DEFINE T == Table!TriggerJobs(js, J)
<1>7. \A j \in JobIds : T[j] = IF j \in J THEN [js[j] EXCEPT !.due = TRUE] ELSE js[j]
  <2> HIDE DEF js
  <2> QED
    BY Zenon DEF Table!TriggerJobs
<1> HIDE DEF js, T
<1>8. ASSUME NEW j \in JobIds PROVE PlainRow(T[j]) = View(g[j], now)
  <2>1. CASE j \in J
    <3>1. T[j] = View(g[j], now)
      BY Zenon, <1>6, <1>7, <2>1
    <3>2. g[j] \in Row
      BY <1>1, <2>1 DEF Becomes, Revises
    <3> QED
      BY <3>1, <3>2, ViewIsPlain
  <2>2. CASE j \notin J
    <3>1. T[j] = View(g[j], now)
      BY Zenon, <1>3, <1>4, <1>7, <2>2
    <3>2. g[j] \in Row \cup {NULL}
      BY <1>2, <1>3, <2>2
    <3> QED
      BY <3>1, <3>2, ViewIsPlain
  <2> QED
    BY <2>1, <2>2
<1>9. Table!Plain(T) = Shown(g, now)
  BY <1>8, PlainIsShown
<1>10. Table!TTrigger
  BY <1>2, <1>3, <1>4, <1>5, <1>9 DEF Table!TTrigger, Table!Jobs, T
<1> QED
  BY Zenon, <1>2, <1>10 DEF Steps, Table!TNext, Table!TMethod, Scopes

(* deleteChains.  The operation is given ids that need not be chains; of   *)
(* these it deletes the chains that are there.                             *)
LEMMA DeleteMaps ==
  ASSUME StoreInv, DeleteChains
  PROVE  Steps
<1> DEFINE js == Shown(ix.jobs, now)
           bl == Refs(ix.blockers)
           g == ix'.jobs
           b2 == ix'.blockers
<1>1. PICK E \in SUBSET JobIds :
        /\ Advances /\ ExternalRefs(ix, E) = {} /\ \E j \in JobIds : j \in JobsIn(E)
        /\ \A j \in JobIds :
             /\ j \in JobsIn(E) => Gone(ix', j)
             /\ j \notin JobsIn(E) => g[j] = ix.jobs[j] /\ b2[j] = ix.blockers[j]
  BY DeleteAdvances
<1>2. /\ JobTable(ix) = js /\ BlockerTable(ix) = bl
      /\ JobTable(ix)' = Shown(g, now) /\ BlockerTable(ix)' = Refs(b2)
      /\ Scopes' = Scopes
      /\ ix.jobs \in [JobIds -> Row \cup {NULL}] /\ g \in [JobIds -> Row \cup {NULL}]
      /\ ix.blockers \in [JobIds -> SUBSET JobIds] /\ b2 \in [JobIds -> SUBSET JobIds]
  BY <1>1, MethodShown
<1>3. \A j \in JobIds : /\ js[j] = View(ix.jobs[j], now)
                        /\ Table!Exists(js, j) <=> j \in JobsOf(ix)
                        /\ j \in Table!Roots(js) <=> j \in JobsOf(ix) /\ ix.jobs[j].chain = j
  BY Zenon, TableFacts
<1>4. \A j \in JobsOf(ix) : js[j].chain = ix.jobs[j].chain
  BY Zenon, TableFacts
<1>5. \A j \in JobsOf(ix) : /\ j \in JobIds /\ ix.jobs[j] # NULL /\ ix.jobs[j].chain \in JobsOf(ix)
                            /\ ix.jobs[ix.jobs[j].chain].chain = ix.jobs[j].chain
  BY RowFacts
<1> DEFINE C == E \cap Table!Roots(js)
<1>6. \A j \in JobsOf(ix) : js[j].chain \in C <=> ix.jobs[j].chain \in E
  BY <1>3, <1>4, <1>5
<1> HIDE DEF js, bl
<1>7. \A j \in JobIds : j \in Table!InChains(js, C) <=> j \in JobsIn(E)
  <2> HIDE DEF C
  <2> QED
    BY <1>3, <1>6 DEF Table!InChains, JobsIn
<1>8. Table!ExternalBlockerRefs(js, bl, C) = {}
  <2>1. SUFFICES ASSUME NEW ref \in bl, ref[2] \in C, Table!Exists(js, ref[1]),
                        js[ref[1]].chain \notin C
                 PROVE  FALSE
    BY DEF Table!ExternalBlockerRefs
  <2>2. ref[1] \in JobIds /\ ref[2] \in JobIds /\ ref[2] \in ix.blockers[ref[1]]
    BY <1>2, RefFacts DEF bl
  <2>3. /\ ref[1] \in JobsOf(ix) /\ ix.jobs[ref[1]].chain \notin E
        /\ ix.jobs[ref[1]] # NULL /\ ref[2] \in E
    BY <1>3, <1>5, <1>6, <2>1, <2>2
  <2>4. ref[1] \in ix.blockedBy[ref[2]]
    BY <2>2, InverseFacts
  <2> DEFINE x == <<ref[1], ref[2]>>
  <2>5. x \in JobIds \X E /\ x[1] = ref[1] /\ x[2] = ref[2]
    BY <2>2, <2>3
  <2> HIDE DEF x
  <2>6. x \in ExternalRefs(ix, E)
    BY <2>3, <2>4, <2>5 DEF ExternalRefs
  <2> QED
    BY <1>1, <2>6
<1> DEFINE T == Table!DeleteJobs(js, C)
<1>9. ASSUME NEW j \in JobIds PROVE PlainRow(T[j]) = View(g[j], now)
  <2>1. CASE j \in JobsIn(E)
    <3>1. T[j] = [Table!NoJob EXCEPT !.status = "deleted"]
      BY Zenon, <1>7, <2>1 DEF Table!DeleteJobs
    <3>2. g[j] = NULL
      BY <1>1, <2>1 DEF Gone
    <3>3. PlainRow([Table!NoJob EXCEPT !.status = "deleted"]) = View(NULL, now)
      BY DeletedShown
    <3> QED
      BY Zenon, <3>1, <3>2, <3>3
  <2>2. CASE j \notin JobsIn(E)
    <3>1. T[j] = js[j]
      BY Zenon, <1>7, <2>2 DEF Table!DeleteJobs
    <3>2. js[j] = View(g[j], now) /\ g[j] \in Row \cup {NULL}
      BY <1>1, <1>2, <1>3, <2>2
    <3> HIDE DEF T
    <3> QED
      BY <3>1, <3>2, ViewIsPlain
  <2> QED
    BY <2>1, <2>2
<1> HIDE DEF T
<1>10. Table!Plain(T) = Shown(g, now)
  BY <1>9, PlainIsShown
<1>11. Refs(b2) = Table!DeleteBlockers(js, bl, C)
  <2>1. ASSUME NEW ref \in Refs(b2) PROVE ref \in Table!DeleteBlockers(js, bl, C)
    <3>1. ref = <<ref[1], ref[2]>> /\ ref[1] \in JobIds /\ ref[2] \in JobIds /\ ref[2] \in b2[ref[1]]
      BY <1>2, RefFacts
    <3>2. ref[1] \notin JobsIn(E) /\ ref[2] \in ix.blockers[ref[1]]
      BY <1>1, <3>1 DEF Gone
    <3>3. ref \in bl
      BY <1>2, <3>1, <3>2, RefFacts DEF bl
    <3>4. ref[1] \notin Table!InChains(js, C)
      BY <1>7, <3>1, <3>2
    <3> QED
      BY <3>3, <3>4 DEF Table!DeleteBlockers
  <2>2. ASSUME NEW ref \in Table!DeleteBlockers(js, bl, C) PROVE ref \in Refs(b2)
    <3>1. ref \in bl /\ ref[1] \notin Table!InChains(js, C)
      BY DEF Table!DeleteBlockers
    <3>2. /\ ref = <<ref[1], ref[2]>> /\ ref[1] \in JobIds /\ ref[2] \in JobIds
          /\ ref[2] \in ix.blockers[ref[1]]
      BY <1>2, <3>1, RefFacts DEF bl
    <3>3. ref[2] \in b2[ref[1]]
      BY <1>1, <1>7, <3>1, <3>2
    <3> QED
      BY <1>2, <3>2, <3>3, RefFacts
  <2> QED
    BY <2>1, <2>2
<1> HIDE DEF g, b2
<1>12. Table!TDelete
  <2>1. C \in SUBSET Table!Roots(js) /\ C \in {C, Table!ExpandChainIds(bl, C)}
    OBVIOUS
  <2>2. /\ Table!ExternalBlockerRefs(JobTable(ix), BlockerTable(ix), C) = {}
        /\ JobTable(ix)' = Table!Plain(Table!DeleteJobs(JobTable(ix), C))
        /\ BlockerTable(ix)' = Table!DeleteBlockers(JobTable(ix), BlockerTable(ix), C)
    BY <1>2, <1>8, <1>10, <1>11 DEF T
  <2> HIDE DEF C
  <2> QED
    BY Zenon, <1>2, <2>1, <2>2 DEF Table!TDelete
<1>13. \E j \in JobIds : Table!Exists(JobTable(ix), j) /\ ~Table!Exists(JobTable(ix)', j)
  <2>1. PICK j \in JobIds : j \in JobsIn(E)
    BY <1>1
  <2>2. j \in JobsOf(ix) /\ g[j] = NULL
    BY <1>1, <2>1 DEF JobsIn, Gone, g
  <2>3. ~Table!Exists(Shown(g, now), j)
    BY <1>2, <2>2, ShownRows
  <2> QED
    BY <1>2, <1>3, <2>2, <2>3
<1>14. Table!TMethod
  BY Zenon, <1>12, <1>13 DEF Table!TMethod
<1> QED
  BY Zenon, <1>2, <1>14 DEF Steps, Table!TNext, Scopes

-----------------------------------------------------------------------------
(* Scopes and time.                                                        *)

(* What is kept of a store when a scope is opened.                         *)
Kept(s, t) == <<Shown(s.jobs, t), Refs(s.blockers)>>

(* The scopes that are shown are a sequence of these.                      *)
LEMMA ScopesAreKept ==
  ASSUME NEW sv \in Seq(Store), NEW t
  PROVE  LET S == {Kept(s, t) : s \in Store} IN
           /\ ShownScopes(sv, t) \in Seq(S) /\ Len(ShownScopes(sv, t)) = Len(sv)
           /\ Len(sv) \in Nat
           /\ \A i \in 1 .. Len(sv) : ShownScopes(sv, t)[i] = Kept(sv[i], t)
<1> DEFINE S == {Kept(s, t) : s \in Store}
           f == ShownScopes(sv, t)
           n == Len(sv)
<1>1. n \in Nat /\ DOMAIN sv = 1 .. n /\ \A i \in 1 .. n : sv[i] \in Store
  BY LenProperties
<1>2. f = [i \in 1 .. n |-> Kept(sv[i], t)]
  BY <1>1 DEF ShownScopes, Kept
<1> HIDE DEF n, f
<1>3. \A i \in 1 .. n : Kept(sv[i], t) \in S
  BY <1>1
<1> HIDE DEF S
<1>4. f \in [1 .. n -> S] /\ \A i \in 1 .. n : f[i] = Kept(sv[i], t)
  BY <1>2, <1>3
<1>5. f \in Seq(S) /\ Len(f) = n
  BY <1>1, <1>4
<1> QED
  BY <1>1, <1>4, <1>5 DEF S, n, f

(* A scope is opened.                                                      *)
LEMMA OpenMaps ==
  ASSUME StoreInv, OpenScope
  PROVE  Steps
<1> DEFINE S == {Kept(s, now) : s \in Store}
           f == ShownScopes(saved, now)
           h == ShownScopes(saved', now)
<1>1. saved' = Append(saved, ix) /\ ix' = ix /\ now' = now
  BY DEF OpenScope
<1>2. saved \in Seq(Store) /\ ix \in Store
  BY DEF StoreInv, MarksInOrder, Agree
<1>3. /\ saved' \in Seq(Store) /\ Len(saved') = Len(saved) + 1
      /\ \A i \in 1 .. Len(saved) : saved'[i] = saved[i]
      /\ saved'[Len(saved) + 1] = ix
  BY <1>1, <1>2, AppendProperties
<1>4. /\ f \in Seq(S) /\ Len(f) = Len(saved) /\ Len(saved) \in Nat
      /\ \A i \in 1 .. Len(saved) : f[i] = Kept(saved[i], now)
  BY Zenon, <1>2, ScopesAreKept
<1>5. /\ h \in Seq(S) /\ Len(h) = Len(saved')
      /\ \A i \in 1 .. Len(saved') : h[i] = Kept(saved'[i], now)
  BY Zenon, <1>3, ScopesAreKept
<1>6. Kept(ix, now) \in S
  BY <1>2
<1> HIDE DEF S, f, h
<1>7. h = Append(f, Kept(ix, now))
  <2> DEFINE k == Append(f, Kept(ix, now))
  <2>1. /\ k \in Seq(S) /\ Len(k) = Len(f) + 1 /\ k[Len(f) + 1] = Kept(ix, now)
        /\ \A i \in 1 .. Len(f) : k[i] = f[i]
    BY <1>4, <1>6, AppendProperties
  <2> HIDE DEF k
  <2>2. Len(h) = Len(k)
    BY <1>3, <1>4, <1>5, <2>1
  <2>3. ASSUME NEW i \in 1 .. Len(h) PROVE h[i] = k[i]
    <3>1. CASE i = Len(saved) + 1
      BY <1>3, <1>4, <1>5, <2>1, <3>1
    <3>2. CASE i # Len(saved) + 1
      <4>1. i \in 1 .. Len(saved) /\ i \in 1 .. Len(saved')
        BY <1>3, <1>4, <1>5, <3>2
      <4> QED
        BY <1>3, <1>4, <1>5, <2>1, <4>1
    <3> QED
      BY <3>1, <3>2
  <2>4. h = k
    BY <1>5, <2>1, <2>2, <2>3, SeqEqual
  <2> QED
    BY <2>4 DEF k
<1>8. Scopes = f /\ Scopes' = h /\ Kept(ix, now) = <<JobTable(ix), BlockerTable(ix)>>
  BY <1>1, TablesShown, NextTablesShown DEF Scopes, Kept, f, h
<1>9. JobTable(ix)' = JobTable(ix) /\ BlockerTable(ix)' = BlockerTable(ix)
  BY <1>1, TablesShown, NextTablesShown
<1>10. Scopes' = Append(Scopes, <<JobTable(ix), BlockerTable(ix)>>) /\ Len(Scopes') > Len(Scopes)
  BY <1>3, <1>4, <1>5, <1>7, <1>8
<1> QED
  BY Zenon, <1>9, <1>10 DEF Steps, Table!TNext, Table!TOpen, Scopes

(* The scopes that stay when one ends.                                     *)
LEMMA ScopeEnds ==
  ASSUME StoreInv, InTransaction, marks' = Front(marks), saved' = Front(saved), now' = now
  PROVE  /\ Scopes' = SubSeq(Scopes, 1, Len(Scopes) - 1) /\ Len(Scopes') < Len(Scopes)
         /\ Len(Scopes) = Len(marks) /\ Len(marks) \in 1 .. Len(marks)
         /\ Scopes[Len(Scopes)] = Kept(saved[Len(marks)], now)
<1> DEFINE N == Len(marks)
           S == {Kept(s, now) : s \in Store}
           f == ShownScopes(saved, now)
           h == ShownScopes(saved', now)
<1>1. /\ N \in Nat /\ N \in 1 .. N /\ saved' \in Seq(Store) /\ Len(saved') = N - 1
      /\ \A i \in 1 .. N - 1 : saved'[i] = saved[i]
  BY FrontMarks
<1>2. saved \in Seq(Store) /\ Len(saved) = N
  BY DEF StoreInv, MarksInOrder
<1> HIDE DEF N
<1>3. /\ f \in Seq(S) /\ Len(f) = Len(saved)
      /\ \A i \in 1 .. Len(saved) : f[i] = Kept(saved[i], now)
  BY Zenon, <1>2, ScopesAreKept
<1>4. /\ h \in Seq(S) /\ Len(h) = Len(saved')
      /\ \A i \in 1 .. Len(saved') : h[i] = Kept(saved'[i], now)
  BY Zenon, <1>1, ScopesAreKept
<1> HIDE DEF S, f, h
<1>5. h = SubSeq(f, 1, N - 1)
  <2> DEFINE k == SubSeq(f, 1, N - 1)
  <2>1. \A i \in 1 .. N - 1 : f[i] \in S
    BY <1>1, <1>2, <1>3, ElementOfSeq
  <2>2. /\ k \in Seq(S) /\ Len(k) = N - 1
        /\ \A i \in 1 .. N - 1 : k[i] = f[i]
    BY <1>1, <2>1, SubSeqProperties
  <2> HIDE DEF k
  <2>3. Len(h) = Len(k)
    BY <1>1, <1>4, <2>2
  <2>4. ASSUME NEW i \in 1 .. Len(h) PROVE h[i] = k[i]
    <3>1. i \in 1 .. N - 1 /\ i \in 1 .. Len(saved') /\ i \in 1 .. Len(saved)
      BY <1>1, <1>2, <1>4
    <3> QED
      BY <1>1, <1>3, <1>4, <2>2, <3>1
  <2>5. h = k
    BY <1>4, <2>2, <2>3, <2>4, SeqEqual
  <2> QED
    BY <2>5 DEF k
<1>6. Scopes = f /\ Scopes' = h
  BY TablesShown, NextTablesShown DEF Scopes, f, h
<1>7. Len(Scopes) = N /\ Len(Scopes') = N - 1
  BY <1>1, <1>2, <1>3, <1>4, <1>6
<1> QED
  BY <1>1, <1>2, <1>3, <1>5, <1>6, <1>7 DEF N

(* The callback resolves.                                                  *)
LEMMA ResolveMaps ==
  ASSUME StoreInv, Resolve
  PROVE  Steps
<1>1. /\ InTransaction /\ marks' = Front(marks) /\ saved' = Front(saved)
      /\ ix' = ix /\ now' = now
  BY DEF Resolve
<1>2. Scopes' = SubSeq(Scopes, 1, Len(Scopes) - 1) /\ Len(Scopes') < Len(Scopes)
  BY <1>1, ScopeEnds
<1>3. JobTable(ix)' = JobTable(ix) /\ BlockerTable(ix)' = BlockerTable(ix)
  BY <1>1, TablesShown, NextTablesShown
<1> QED
  BY Zenon, <1>2, <1>3 DEF Steps, Table!TNext, Table!TResolve, Scopes

(* The callback throws.                                                    *)
LEMMA RejectMaps ==
  ASSUME StoreInv, Reject
  PROVE  Steps
<1>1. InTransaction /\ marks' = Front(marks) /\ saved' = Front(saved) /\ now' = now
  BY DEF Reject
<1>2. /\ Scopes' = SubSeq(Scopes, 1, Len(Scopes) - 1) /\ Len(Scopes') < Len(Scopes)
      /\ Scopes[Len(Scopes)] = Kept(saved[Len(marks)], now)
  BY <1>1, ScopeEnds
<1>3. Tables(ix') = Tables(saved[Len(marks)])
  BY RejectKeeps
<1> DEFINE s == saved[Len(marks)]
<1>4. ix'.jobs = s.jobs /\ ix'.blockers = s.blockers
  <2>1. /\ Tables(ix').jobs = ix'.jobs /\ Tables(ix').blockers = ix'.blockers
        /\ Tables(s).jobs = s.jobs /\ Tables(s).blockers = s.blockers
    BY DEF Tables
  <2> HIDE DEF s
  <2> QED
    BY <1>3, <2>1 DEF s
<1> HIDE DEF s
<1>5. /\ JobTable(ix)' = Shown(s.jobs, now) /\ BlockerTable(ix)' = Refs(s.blockers)
  BY <1>1, <1>4, NextTablesShown
<1>6. <<JobTable(ix)', BlockerTable(ix)'>> = Scopes[Len(Scopes)]
  BY <1>2, <1>5 DEF Kept, s
<1> QED
  BY Zenon, <1>2, <1>6 DEF Steps, Table!TNext, Table!TReject, Scopes

(* A row a moment later: it may have come due, and its lease have expired. *)
LEMMA OlderRow ==
  ASSUME NEW r \in Row \cup {NULL}, NEW t \in Int
  PROVE  /\ View(r, t + 1) = [View(r, t) EXCEPT !.due = View(r, t + 1).due,
                                                !.lease = View(r, t + 1).lease]
         /\ View(r, t).due => View(r, t + 1).due
         /\ View(r, t + 1).lease # View(r, t).lease =>
              View(r, t).lease = "live" /\ View(r, t + 1).lease = "expired"
<1>1. CASE r = NULL
  <2>1. View(r, t) = AbsentRow /\ View(r, t + 1) = AbsentRow
    BY <1>1 DEF View
  <2> DEFINE d == FALSE
  <2>2. AbsentRow = JobRec("absent", NULL, 0, d, 0, NULL, "none", NULL)
    BY DEF AbsentRow, JobRec
  <2> HIDE DEF d
  <2>3. AbsentRow.due = d /\ AbsentRow.lease = "none"
    BY <2>2, RecFields
  <2>4. [AbsentRow EXCEPT !.due = AbsentRow.due, !.lease = AbsentRow.lease] = AbsentRow
    BY <2>2, <2>3 DEF JobRec
  <2> QED
    BY Zenon, <2>1, <2>4
<1>2. CASE r \in Row
  <2>1. /\ r.scheduledAt \in Int /\ r.leasedUntil \in Int
    BY <1>2 DEF Row, Unleased
  <2> DEFINE d == DueAt(r, t)
             e == DueAt(r, t + 1)
             l == LeaseAt(r, t)
             m == LeaseAt(r, t + 1)
             v == View(r, t)
             w == View(r, t + 1)
  <2>2. /\ v = JobRec(r.status, r.chain, r.index, d, 0, HolderOf(r), l, r.key)
        /\ v.due = d /\ v.lease = l
    BY Zenon, <1>2, ViewFields
  <2>3. /\ w = JobRec(r.status, r.chain, r.index, e, 0, HolderOf(r), m, r.key)
        /\ w.due = e /\ w.lease = m
    BY Zenon, <1>2, ViewFields
  <2>4. d => e
    BY <2>1 DEF DueAt
  <2>5. m # l => l = "live" /\ m = "expired"
    BY <2>1 DEF LeaseAt
  <2> HIDE DEF d, e, l, m, v, w
  <2>6. w = [v EXCEPT !.due = w.due, !.lease = w.lease]
    <3> DEFINE x == [v EXCEPT !.due = e]
    <3>1. [v EXCEPT !.due = w.due, !.lease = w.lease] = [x EXCEPT !.lease = m]
      BY Zenon, <2>2, <2>3 DEF JobRec
    <3>2. x = JobRec(r.status, r.chain, r.index, e, 0, HolderOf(r), l, r.key)
      BY <2>2 DEF JobRec
    <3> HIDE DEF x
    <3>3. [x EXCEPT !.lease = m] = w
      BY <2>3, <3>2 DEF JobRec
    <3> QED
      BY Zenon, <3>1, <3>3
  <2> QED
    BY Zenon, <2>2, <2>3, <2>4, <2>5, <2>6 DEF v, w
<1> QED
  BY <1>1, <1>2

(* The job table a moment later.                                           *)
LEMMA OlderTable ==
  ASSUME NEW f \in [JobIds -> Row \cup {NULL}], NEW t \in Int
  PROVE  Table!Older(Shown(f, t), Shown(f, t + 1))
<1> DEFINE old == Shown(f, t)
           new == Shown(f, t + 1)
<1>1. ASSUME NEW j \in JobIds
      PROVE  /\ new[j] = [old[j] EXCEPT !.due = new[j].due, !.lease = new[j].lease]
             /\ old[j].due => new[j].due
             /\ new[j].lease # old[j].lease => old[j].lease = "live" /\ new[j].lease = "expired"
  <2>1. f[j] \in Row \cup {NULL} /\ old[j] = View(f[j], t) /\ new[j] = View(f[j], t + 1)
    BY DEF Shown
  <2> HIDE DEF old, new
  <2> DEFINE r == f[j]
             v == View(r, t)
             w == View(r, t + 1)
  <2>2. /\ w = [v EXCEPT !.due = w.due, !.lease = w.lease]
        /\ v.due => w.due
        /\ w.lease # v.lease => v.lease = "live" /\ w.lease = "expired"
    BY Zenon, <2>1, OlderRow
  <2>3. old[j] = v /\ new[j] = w
    BY <2>1
  <2> HIDE DEF v, w
  <2> QED
    BY Zenon, <2>2, <2>3
<1> QED
  BY Zenon, <1>1 DEF Table!Older

(* Time passes.                                                            *)
LEMMA TickMaps ==
  ASSUME StoreInv, Tick
  PROVE  Steps
<1> DEFINE S(t) == {Kept(s, t) : s \in Store}
           f == ShownScopes(saved, now)
           h == ShownScopes(saved, now + 1)
<1>1. now' = now + 1 /\ ix' = ix /\ saved' = saved /\ now \in Int
  BY DEF Tick, StoreInv
<1>2. /\ ix.jobs \in [JobIds -> Row \cup {NULL}] /\ saved \in Seq(Store)
      /\ \A s \in Store : s.jobs \in [JobIds -> Row \cup {NULL}]
  BY RowFacts DEF StoreInv, MarksInOrder, Store
<1>3. /\ JobTable(ix) = Shown(ix.jobs, now) /\ JobTable(ix)' = Shown(ix.jobs, now + 1)
      /\ BlockerTable(ix)' = BlockerTable(ix) /\ Scopes = f /\ Scopes' = h
  BY <1>1, TablesShown, NextTablesShown DEF Scopes
<1>4. Table!Older(JobTable(ix), JobTable(ix)')
  BY <1>1, <1>2, <1>3, OlderTable
<1>5. /\ Len(f) = Len(saved) /\ Len(saved) \in Nat
      /\ \A i \in 1 .. Len(saved) : f[i] = Kept(saved[i], now)
  BY Zenon, <1>2, ScopesAreKept
<1>6. /\ Len(h) = Len(saved) /\ \A i \in 1 .. Len(saved) : h[i] = Kept(saved[i], now + 1)
  BY Zenon, <1>2, ScopesAreKept
<1> HIDE DEF f, h
<1>7. ASSUME NEW i \in 1 .. Len(f)
      PROVE  Table!Older(f[i][1], h[i][1]) /\ h[i][2] = f[i][2]
  <2>1. saved[i] \in Store /\ i \in 1 .. Len(saved)
    BY <1>2, <1>5, ElementOfSeq
  <2> DEFINE s == saved[i]
             n == now + 1
  <2>2. f[i] = <<Shown(s.jobs, now), Refs(s.blockers)>>
    BY <1>5, <2>1 DEF Kept
  <2>3. h[i] = <<Shown(s.jobs, n), Refs(s.blockers)>>
    BY <1>6, <2>1 DEF Kept
  <2>4. Table!Older(Shown(s.jobs, now), Shown(s.jobs, n))
    BY <1>1, <1>2, <2>1, OlderTable
  <2> HIDE DEF s, n
  <2> QED
    BY <2>2, <2>3, <2>4
<1>8. /\ Len(Scopes') = Len(Scopes)
      /\ \A i \in 1 .. Len(Scopes) :
           Table!Older(Scopes[i][1], Scopes'[i][1]) /\ Scopes'[i][2] = Scopes[i][2]
  BY <1>3, <1>5, <1>6, <1>7
<1> QED
  BY Zenon, <1>3, <1>4, <1>8 DEF Steps, Table!TNext, Table!TTick, Scopes

(* Every step of the store is a step of the tables, or none.               *)
LEMMA StepMaps ==
  ASSUME StoreInv, [Next]_vars
  PROVE  [Table!TNext]_(Table!tvars)
<1>1. ASSUME Next PROVE Steps
  <2>1. CASE CreateJobs
    BY <2>1, CreateMaps DEF Steps
  <2>2. CASE AddJobsBlockers
    BY <2>2, BlockMaps
  <2>3. CASE UnblockJobs
    BY <2>3, UnblockMaps
  <2>4. CASE AcquireJob
    BY <2>4, AcquireMaps
  <2>5. CASE RenewJobLease
    BY <2>5, RenewMaps
  <2>6. CASE RescheduleJob
    BY <2>6, RescheduleMaps
  <2>7. CASE CompleteJob
    BY <2>7, CompleteMaps
  <2>8. CASE ReapExpiredJobLease
    BY <2>8, ReapMaps
  <2>9. CASE DeleteChains
    BY <2>9, DeleteMaps
  <2>10. CASE TriggerJobs
    BY <2>10, TriggerMaps
  <2>11. CASE WithTransaction \/ WithSavepoint
    BY <2>11, OpenMaps DEF WithTransaction, WithSavepoint
  <2>12. CASE Resolve
    BY <2>12, ResolveMaps
  <2>13. CASE Reject
    BY <2>13, RejectMaps
  <2>14. CASE Tick
    BY <2>14, TickMaps
  <2> QED
    BY <1>1, <2>1, <2>2, <2>3, <2>4, <2>5, <2>6, <2>7, <2>8, <2>9, <2>10, <2>11, <2>12,
       <2>13, <2>14 DEF Next
<1>2. ASSUME UNCHANGED vars PROVE Steps
  <2>1. ix' = ix /\ saved' = saved /\ now' = now
    BY <1>2 DEF vars
  <2>2. JobTable(ix)' = JobTable(ix) /\ BlockerTable(ix)' = BlockerTable(ix) /\ Scopes' = Scopes
    BY <2>1, TablesShown, NextTablesShown DEF Scopes
  <2> QED
    BY Zenon, <2>2 DEF Steps, Table!tvars, Scopes
<1> QED
  BY <1>1, <1>2 DEF Steps

(* The tables begin empty.                                                 *)
LEMMA InitMaps ==
  ASSUME Init
  PROVE  Table!TInit
<1>1. /\ \A j \in JobIds : ix.jobs[j] = NULL /\ ix.blockers[j] = {}
      /\ saved = <<>>
  BY DEF Init, EmptyStore
<1>2. Table!NoJob = AbsentRow
  BY DEF Table!NoJob, AbsentRow
<1>3. JobTable(ix) = [j \in JobIds |-> Table!NoJob]
  BY <1>1, <1>2 DEF JobTable
<1>4. BlockerTable(ix) = {}
  BY <1>1 DEF BlockerTable
<1>5. [i \in DOMAIN saved |-> <<JobTable(saved[i]), BlockerTable(saved[i])>>] = <<>>
  BY <1>1
<1> QED
  BY Zenon, <1>3, <1>4, <1>5 DEF Table!TInit

(* What the methods do through heads of sorted sets, last jobs and inverse *)
(* maps, and what a rollback does by reading the journal backwards, is     *)
(* what TransactionalTable says they do to the two tables.                 *)
THEOREM StoreImplementsTable == Spec => ImplementsTable
<1>1. Init => Table!TInit
  BY InitMaps
<1>2. StoreInv /\ [Next]_vars => [Table!TNext]_(Table!tvars)
  BY StepMaps
<1> QED
  BY <1>1, <1>2, StoreInvariant, PTL DEF Spec, ImplementsTable, Table!TSpec
=============================================================================
