---------------------------- MODULE ListingProofs ----------------------------
(***************************************************************************)
(* Whoever follows exact cursors sees every row that stays exactly once,   *)
(* for every number of rows, page size and creation time; and the adapter  *)
(* that sorts the whole list and searches it pages as the statements do.   *)
(***************************************************************************)
EXTENDS InProcessListing, SequenceTheorems, FiniteSetTheorems, WellFoundedInduction, TLAPS

-----------------------------------------------------------------------------
(* The order of a list.                                                    *)

Positions == Nat \X Nat

LEMMA BehindOrders ==
  ASSUME NEW q
  PROVE  /\ \A p \in Positions : ~Behind(q, p, p)
         /\ \A p, r, s \in Positions : Behind(q, p, r) /\ Behind(q, r, s) => Behind(q, p, s)
         /\ \A p, r \in Positions : p = r \/ Behind(q, p, r) \/ Behind(q, r, p)
<1>1. \A p \in Positions : ~Less(p, p)
  BY DEF Less, Positions
<1>2. \A p, r, s \in Positions : Less(p, r) /\ Less(r, s) => Less(p, s)
  BY DEF Less, Positions
<1>3. \A p, r \in Positions : p = r \/ Less(p, r) \/ Less(r, p)
  BY DEF Less, Positions
<1> QED
  BY <1>1, <1>2, <1>3 DEF Behind

(* The rows as far as positions need them.                                 *)
Rows(t) == t.job \in [Ids -> JobRow]

LEMMA PositionsDiffer ==
  ASSUME NEW t, Rows(t), NEW q
  PROVE  /\ \A j \in Ids : Position(t, q, j) \in Nat \X Ids /\ Position(t, q, j) \in Positions
         /\ \A j, k \in Ids : Position(t, q, j) = Position(t, q, k) => j = k
BY IdsType, TimeType DEF Position, Rows, JobRow, Positions

(* Among finitely many rows, Before is a strict total order.               *)
LEMMA BeforeOrders ==
  ASSUME NEW t, Rows(t), NEW q, NEW S \in SUBSET Ids
  PROVE  /\ \A j \in S : j \notin Before(t, q, S, j)
         /\ \A j \in S, k \in S : j = k \/ j \in Before(t, q, S, k) \/ k \in Before(t, q, S, j)
         /\ \A j \in S, k \in S :
              k \in Before(t, q, S, j) => /\ Before(t, q, S, k) \subseteq Before(t, q, S, j)
                                          /\ j \notin Before(t, q, S, k)
BY BehindOrders, PositionsDiffer DEF Before

LEMMA BeforeCounts ==
  ASSUME NEW t, Rows(t), NEW q, NEW S \in SUBSET Ids
  PROVE  /\ IsFiniteSet(S) /\ Cardinality(S) \in Nat
         /\ \A j \in S : /\ Cardinality(Before(t, q, S, j)) \in Nat
                         /\ Cardinality(Before(t, q, S, j)) < Cardinality(S)
         /\ \A j \in S, k \in S :
              k \in Before(t, q, S, j) =>
                Cardinality(Before(t, q, S, k)) < Cardinality(Before(t, q, S, j))
<1>1. IsFiniteSet(S) /\ Cardinality(S) \in Nat
  BY IdsType, FS_Subset, FS_CardinalityType
<1>2. \A T \in SUBSET S : IsFiniteSet(T) /\ Cardinality(T) \in Nat
  BY <1>1, FS_Subset, FS_CardinalityType
<1>3. \A U \in SUBSET S : \A T \in SUBSET U : T # U => Cardinality(T) < Cardinality(U)
  <2> SUFFICES ASSUME NEW U \in SUBSET S, NEW T \in SUBSET U, T # U
               PROVE  Cardinality(T) < Cardinality(U)
    OBVIOUS
  <2>1. IsFiniteSet(U) /\ Cardinality(U) \in Nat /\ Cardinality(T) \in Nat
    BY <1>2
  <2>2. Cardinality(T) <= Cardinality(U) /\ Cardinality(T) # Cardinality(U)
    BY <2>1, FS_Subset
  <2> QED
    BY <2>1, <2>2
<1>4. \A j \in S : Before(t, q, S, j) \in SUBSET S /\ j \notin Before(t, q, S, j)
  BY BeforeOrders DEF Before
<1>5. \A j \in S : /\ Cardinality(Before(t, q, S, j)) \in Nat
                   /\ Cardinality(Before(t, q, S, j)) < Cardinality(S)
  BY <1>2, <1>3, <1>4
<1>6. \A j \in S, k \in S :
        k \in Before(t, q, S, j) =>
          Cardinality(Before(t, q, S, k)) < Cardinality(Before(t, q, S, j))
  <2> SUFFICES ASSUME NEW j \in S, NEW k \in S, k \in Before(t, q, S, j)
               PROVE  Cardinality(Before(t, q, S, k)) < Cardinality(Before(t, q, S, j))
    OBVIOUS
  <2>1. Before(t, q, S, k) \in SUBSET Before(t, q, S, j)
    BY BeforeOrders
  <2>2. Before(t, q, S, k) # Before(t, q, S, j)
    BY <1>4
  <2> QED
    BY <1>3, <1>4, <2>1, <2>2
<1> QED
  BY <1>1, <1>5, <1>6

LEMMA LeastNumber ==
  ASSUME NEW T \in SUBSET Nat, T # {}
  PROVE  \E x \in T : \A y \in T : x <= y
<1>1. PICK x \in T : \A y \in T : ~ (<<y, x>> \in OpToRel(<, Nat))
  BY NatLessThanWellFounded, WFMin, Zenon
<1>2. \A y \in T : ~ (y < x)
  BY <1>1 DEF OpToRel
<1> QED
  BY <1>2

(* A set of rows that is not empty has a first one and a last one.         *)
LEMMA EndsExist ==
  ASSUME NEW t, Rows(t), NEW q, NEW S \in SUBSET Ids, S # {}
  PROVE  /\ \E j \in S : \A k \in S \ {j} : j \in Before(t, q, S, k)
         /\ \E j \in S : \A k \in S \ {j} : k \in Before(t, q, S, j)
<1> DEFINE count(j) == Cardinality(Before(t, q, S, j))
<1>1. Cardinality(S) \in Nat /\ \A j \in S : count(j) \in Nat /\ count(j) < Cardinality(S)
  BY BeforeCounts
<1>2. \A j \in S, k \in S : k \in Before(t, q, S, j) => count(k) < count(j)
  BY BeforeCounts
<1>3. \A j \in S, k \in S : j = k \/ j \in Before(t, q, S, k) \/ k \in Before(t, q, S, j)
  BY BeforeOrders
<1> HIDE DEF count
<1>4. \E j \in S : \A k \in S : count(j) <= count(k)
  <2> DEFINE counts == {count(j) : j \in S}
  <2>1. counts \in SUBSET Nat /\ counts # {}
    BY <1>1
  <2>2. PICK x \in counts : \A y \in counts : x <= y
    BY <2>1, LeastNumber
  <2> QED
    BY <2>2
<1>5. \E j \in S : \A k \in S : count(k) <= count(j)
  <2> DEFINE counts == {Cardinality(S) - count(j) : j \in S}
  <2>1. counts \in SUBSET Nat /\ counts # {}
    BY <1>1
  <2>2. PICK x \in counts : \A y \in counts : x <= y
    BY <2>1, LeastNumber
  <2>3. PICK j \in S : x = Cardinality(S) - count(j)
    BY <2>2
  <2>4. \A k \in S : Cardinality(S) - count(j) <= Cardinality(S) - count(k)
    BY <2>2, <2>3
  <2>5. \A k \in S : count(k) <= count(j)
    BY <1>1, <2>4
  <2> QED
    BY <2>5
<1>6. \E j \in S : \A k \in S \ {j} : j \in Before(t, q, S, k)
  <2>1. PICK j \in S : \A k \in S : count(j) <= count(k)
    BY <1>4
  <2>2. \A k \in S \ {j} : j \in Before(t, q, S, k)
    BY <1>1, <1>2, <1>3, <2>1
  <2> QED
    BY <2>2
<1>7. \E j \in S : \A k \in S \ {j} : k \in Before(t, q, S, j)
  <2>1. PICK j \in S : \A k \in S : count(k) <= count(j)
    BY <1>5
  <2>2. \A k \in S \ {j} : k \in Before(t, q, S, j)
    BY <1>1, <1>2, <1>3, <2>1
  <2> QED
    BY <2>2
<1> QED
  BY <1>6, <1>7

-----------------------------------------------------------------------------
(* ORDER BY ... LIMIT.                                                     *)

LEMMA FirstIsBelow ==
  ASSUME NEW t, Rows(t), NEW q, NEW S \in SUBSET Ids, NEW n \in Nat,
         NEW j \in First(t, q, S, n), NEW k \in Before(t, q, S, j)
  PROVE  k \in First(t, q, S, n)
<1>1. j \in S /\ k \in S
  BY DEF First, Before
<1>2. /\ Cardinality(Before(t, q, S, k)) \in Nat /\ Cardinality(Before(t, q, S, j)) \in Nat
      /\ Cardinality(Before(t, q, S, k)) < Cardinality(Before(t, q, S, j))
  BY <1>1, BeforeCounts
<1>3. Cardinality(Before(t, q, S, j)) < n
  BY DEF First
<1> QED
  BY <1>1, <1>2, <1>3 DEF First

(* Fewer rows than the limit are all of them.                              *)
LEMMA FirstIsAll ==
  ASSUME NEW t, Rows(t), NEW q, NEW S \in SUBSET Ids, NEW n \in Nat,
         Cardinality(First(t, q, S, n)) < n \/ Cardinality(S) <= n
  PROVE  First(t, q, S, n) = S
<1> DEFINE R == First(t, q, S, n)
           Rest == S \ R
<1>1. CASE Cardinality(S) <= n
  <2>1. \A j \in S : /\ Cardinality(Before(t, q, S, j)) \in Nat
                     /\ Cardinality(Before(t, q, S, j)) < Cardinality(S)
    BY BeforeCounts
  <2>2. Cardinality(S) \in Nat
    BY BeforeCounts
  <2> QED
    BY <1>1, <2>1, <2>2 DEF First
<1>2. CASE Cardinality(R) < n
  <2> SUFFICES ASSUME Rest # {} PROVE FALSE
    BY DEF First
  <2>1. PICK j \in Rest : \A k \in Rest \ {j} : j \in Before(t, q, Rest, k)
    BY EndsExist, Rest \in SUBSET Ids
  <2>2. Before(t, q, S, j) \subseteq R
    <3> SUFFICES ASSUME NEW k \in Before(t, q, S, j), k \in Rest PROVE FALSE
      BY DEF Before
    <3>1. k # j /\ j \notin Before(t, q, S, k)
      BY BeforeOrders
    <3> QED
      BY <2>1, <3>1 DEF Before
  <2>3. R \in SUBSET S /\ Before(t, q, S, j) \in SUBSET R
    BY <2>2 DEF First
  <2>4. IsFiniteSet(R) /\ Cardinality(R) \in Nat
    BY <2>3, IdsType, FS_Subset, FS_CardinalityType
  <2>5. Cardinality(Before(t, q, S, j)) <= Cardinality(R) /\ Cardinality(Before(t, q, S, j)) \in Nat
    BY <2>3, <2>4, FS_Subset, FS_CardinalityType
  <2> QED
    BY <1>2, <2>4, <2>5 DEF First
<1> QED
  BY <1>1, <1>2

(* A limit that some rows exceed selects at least one.                     *)
LEMMA FirstIsSome ==
  ASSUME NEW t, Rows(t), NEW q, NEW S \in SUBSET Ids, S # {}, NEW n \in Nat \ {0}
  PROVE  First(t, q, S, n) # {}
<1>1. PICK j \in S : \A k \in S \ {j} : j \in Before(t, q, S, k)
  BY EndsExist
<1>2. Before(t, q, S, j) = {}
  <2> SUFFICES ASSUME NEW k \in Before(t, q, S, j) PROVE FALSE
    OBVIOUS
  <2>1. k \in S /\ k # j /\ j \notin Before(t, q, S, k)
    BY BeforeOrders DEF Before
  <2> QED
    BY <1>1, <2>1
<1>3. Cardinality(Before(t, q, S, j)) = 0
  BY <1>2, FS_EmptySet
<1> QED
  BY <1>3 DEF First

-----------------------------------------------------------------------------
(* One page.                                                               *)

LEMMA PageFacts ==
  ASSUME NEW t, Rows(t), NEW q, CoarseLists = {}, NEW cursor, NEW limit \in Limits
  PROVE  LET page == Page(t, q, cursor, limit)
             rest == Remaining(t, q, cursor)
         IN /\ page.items \subseteq rest
            /\ page.nextCursor = NULL => page.items = rest
            /\ page.nextCursor # NULL =>
                 \E last \in page.items :
                   /\ page.nextCursor = Position(t, q, last)
                   /\ \A j \in page.items \ {last} :
                        Behind(q, Position(t, q, j), Position(t, q, last))
                   /\ \A j \in rest \ page.items :
                        Behind(q, Position(t, q, last), Position(t, q, j))
<1> DEFINE page == Page(t, q, cursor, limit)
           rest == Remaining(t, q, cursor)
           rows == First(t, q, rest, limit + 1)
           items == First(t, q, rows, limit)
           last == LastItem(t, q, items)
<1>0. limit \in Nat \ {0} /\ limit + 1 \in Nat
  BY LimitsType
<1>1. rest \in SUBSET Ids /\ rows \in SUBSET rest /\ items \in SUBSET rows
  BY DEF Remaining, Listed, First
<1>2. /\ page.items = items
      /\ page.nextCursor = IF Cardinality(rows) > limit THEN CursorOf(t, q, last) ELSE NULL
  BY DEF Page
<1>3. Cardinality(rows) \in Nat
  BY <1>1, BeforeCounts
<1>4. CASE Cardinality(rows) <= limit
  <2>1. rows = rest
    <3>1. Cardinality(rows) < limit + 1
      BY <1>0, <1>3, <1>4
    <3> QED
      BY <1>0, <1>1, <3>1, FirstIsAll
  <2>2. items = rows
    BY <1>0, <1>1, <1>4, FirstIsAll
  <2>3. page.nextCursor = NULL
    BY <1>0, <1>2, <1>3, <1>4
  <2> QED
    BY <1>2, <2>1, <2>2, <2>3
<1>5. CASE Cardinality(rows) > limit
  <2>1. rows # {}
    BY <1>0, <1>3, <1>5, FS_EmptySet
  <2>2. items # {}
    BY <1>0, <1>1, <2>1, FirstIsSome
  <2>3. last \in items /\ \A k \in items \ {last} : k \in Before(t, q, items, last)
    <3>1. \E j \in items : \A k \in items \ {j} : k \in Before(t, q, items, j)
      BY <1>1, <2>2, EndsExist
    <3> QED
      BY <3>1 DEF LastItem
  <2>4. page.nextCursor = Position(t, q, last)
    BY <1>2, <1>5 DEF CursorOf
  <2>5. page.nextCursor # NULL
    BY <1>1, <2>3, <2>4, PositionsDiffer, NullIsNone
  <2>6. \A j \in items \ {last} : Behind(q, Position(t, q, j), Position(t, q, last))
    BY <2>3 DEF Before
  <2>7. ASSUME NEW j \in rest \ items
        PROVE  Behind(q, Position(t, q, last), Position(t, q, j))
    <3> SUFFICES ASSUME j \in Before(t, q, rest, last) PROVE FALSE
      BY <1>1, <2>3, BeforeOrders DEF Before
    <3>1. j \in rows
      BY <1>0, <1>1, <2>3, FirstIsBelow
    <3>2. j \in Before(t, q, rows, last)
      BY <3>1 DEF Before
    <3>3. j \in items
      BY <1>0, <1>1, <2>3, <3>2, FirstIsBelow
    <3> QED
      BY <3>3
  <2> QED
    BY <1>1, <1>2, <2>3, <2>4, <2>5, <2>6, <2>7
<1> QED
  BY <1>0, <1>3, <1>4, <1>5

-----------------------------------------------------------------------------
(* The invariant: what stayed and was not shown is behind the cursor, and  *)
(* what was shown is not, nor will it come back once it is deleted.        *)

Shown(t, q, cursor, seen) ==
  \A j \in seen : /\ t.job[j].status # "absent"
                  /\ Exists(t, j) => ~Behind(q, cursor, Position(t, q, j))

Ahead(t, q, cursor, rest) == \A j \in rest : Behind(q, cursor, Position(t, q, j))

CursorSplits ==
  reading.query # NULL =>
    /\ reading.stayed \subseteq Listed(table, reading.query)
    /\ reading.cursor = NULL => reading.seen = {}
    /\ reading.cursor # NULL =>
         /\ Shown(table, reading.query, reading.cursor, reading.seen)
         /\ Ahead(table, reading.query, reading.cursor, reading.stayed \ reading.seen)

IInv == TypeOK /\ CursorSplits

LEMMA SplitIsEnough ==
  ASSUME CoarseLists = {}, IInv
  PROVE  StayersListedOnce
<1> SUFFICES ASSUME reading.query # NULL, NEW limit \in Limits
             PROVE  LET page == Page(table, reading.query, reading.cursor, limit)
                    IN /\ page.items \cap reading.seen = {}
                       /\ page.nextCursor = NULL => reading.stayed \subseteq reading.seen \cup page.items
  BY DEF StayersListedOnce
<1> DEFINE q == reading.query
           cursor == reading.cursor
           page == Page(table, q, cursor, limit)
           rest == Remaining(table, q, cursor)
<1>1. Rows(table)
  BY DEF IInv, TypeOK, Rows
<1>2. page.items \subseteq rest /\ (page.nextCursor = NULL => page.items = rest)
  BY <1>1, PageFacts
<1>3. rest \cap reading.seen = {}
  BY DEF IInv, CursorSplits, Remaining, Listed, Shown
<1>4. reading.stayed \ reading.seen \subseteq rest
  BY DEF IInv, CursorSplits, Remaining, Ahead
<1> QED
  BY <1>2, <1>3, <1>4

-----------------------------------------------------------------------------
(* Writers.                                                                *)

(* What a statement may do to a row: write one that never was, remove one  *)
(* for good, leave its place in every list.                                *)
KeepsPlaces(t, u) ==
  \A j \in Ids :
    /\ t.job[j].status # "absent" => u.job[j].status # "absent"
    /\ Exists(u, j) =>
         \/ t.job[j].status = "absent"
         \/ Exists(t, j) /\ u.job[j].created = t.job[j].created /\ u.job[j].index = t.job[j].index

Typed(t) == t \in [job : [Ids -> JobRow], waits : SUBSET (Ids \X Ids)]

LEMMA WrittenKeepsSplit ==
  ASSUME IInv, NEW t, Typed(t), KeepsPlaces(table, t), Written(t)
  PROVE  IInv'
<1>1. TypeOK'
  BY DEF IInv, TypeOK, Written, Typed
<1>2. CursorSplits'
  <2>1. CASE reading.query = NULL
    BY <2>1 DEF Written, CursorSplits, IInv, TypeOK
  <2>2. CASE reading.query # NULL
    <3> DEFINE q == reading.query
               cursor == reading.cursor
    <3>0. /\ reading'.query = q /\ reading'.cursor = cursor /\ reading'.seen = reading.seen
          /\ reading'.stayed = reading.stayed \cap Listed(t, q) /\ table' = t
      BY <2>2 DEF Written, IInv, TypeOK
    <3>1. \A j \in Ids : Exists(table, j) /\ Exists(t, j) =>
            Position(t, q, j) = Position(table, q, j)
      BY DEF KeepsPlaces, Position, Exists, Statuses
    <3>2. ASSUME cursor # NULL
          PROVE  Shown(t, q, cursor, reading.seen)
      <4> SUFFICES ASSUME NEW j \in reading.seen
                   PROVE  /\ t.job[j].status # "absent"
                          /\ Exists(t, j) => ~Behind(q, cursor, Position(t, q, j))
        BY DEF Shown
      <4>1. /\ j \in Ids /\ table.job[j].status # "absent"
            /\ Exists(table, j) => ~Behind(q, cursor, Position(table, q, j))
        BY <2>2, <3>2 DEF IInv, TypeOK, CursorSplits, Shown
      <4>2. t.job[j].status # "absent" /\ (Exists(t, j) => Exists(table, j))
        BY <4>1 DEF KeepsPlaces
      <4> QED
        BY <3>1, <4>1, <4>2
    <3>3. ASSUME cursor # NULL
          PROVE  Ahead(t, q, cursor, (reading.stayed \cap Listed(t, q)) \ reading.seen)
      <4> SUFFICES ASSUME NEW j \in reading.stayed \ reading.seen, j \in Listed(t, q)
                   PROVE  Behind(q, cursor, Position(t, q, j))
        BY DEF Ahead
      <4>1. /\ j \in Ids /\ Exists(table, j) /\ Exists(t, j)
            /\ Behind(q, cursor, Position(table, q, j))
        BY <2>2, <3>3 DEF IInv, CursorSplits, Ahead, Listed
      <4> QED
        BY <3>1, <4>1
    <3> QED
      BY <2>2, <3>0, <3>2, <3>3 DEF CursorSplits, IInv
  <2> QED
    BY <2>1, <2>2
<1> QED
  BY <1>1, <1>2 DEF IInv

LEMMA StartChainsStep ==
  ASSUME IInv, NEW J \in SUBSET Ids, NEW blockers \in SUBSET Ids, NEW time \in 0 .. MaxTime,
         StartChains(J, blockers, time)
  PROVE  IInv'
<1> DEFINE t == [job |-> [j \in Ids |->
                   IF j \in J THEN [table.job[j] EXCEPT !.status = "pending", !.created = time]
                              ELSE table.job[j]],
                 waits |-> table.waits \cup (J \X blockers)]
<1>1. Written(t) /\ \A j \in J : table.job[j].status = "absent"
  BY DEF StartChains
<1>2. Typed(t)
  <2>1. table.job \in [Ids -> JobRow] /\ table.waits \subseteq Ids \X Ids
    BY DEF IInv, TypeOK
  <2>2. \A j \in Ids : [table.job[j] EXCEPT !.status = "pending", !.created = time] \in JobRow
    <3> SUFFICES ASSUME NEW r \in JobRow
                 PROVE  [r EXCEPT !.status = "pending", !.created = time] \in JobRow
      BY <2>1
    <3> QED
      BY DEF JobRow, Statuses
  <2>3. t.job \in [Ids -> JobRow]
    BY <2>1, <2>2
  <2> QED
    BY <2>1, <2>3 DEF Typed
<1>3. KeepsPlaces(table, t)
  BY <1>1 DEF KeepsPlaces, IInv, TypeOK, JobRow, Exists
<1> QED
  BY <1>1, <1>2, <1>3, WrittenKeepsSplit

LEMMA ContinueWithStep ==
  ASSUME IInv, NEW j \in Ids, NEW k \in Ids, NEW blockers \in SUBSET Ids,
         NEW time \in 0 .. MaxTime, ContinueWith(j, k, blockers, time)
  PROVE  IInv'
<1> DEFINE t == [job |-> [table.job EXCEPT
                   ![j].status = "completed",
                   ![k] = [status |-> "pending", created |-> time,
                           chain |-> table.job[j].chain, index |-> table.job[j].index + 1]],
                 waits |-> table.waits \cup ({k} \X blockers)]
<1>1. Written(t) /\ table.job[j].status = "pending" /\ table.job[k].status = "absent"
  BY DEF ContinueWith
<1>2. Typed(t)
  BY DEF Typed, IInv, TypeOK, JobRow, Statuses
<1>3. KeepsPlaces(table, t)
  BY <1>1 DEF KeepsPlaces, IInv, TypeOK, JobRow, Exists, Statuses
<1> QED
  BY <1>1, <1>2, <1>3, WrittenKeepsSplit

LEMMA CompleteJobStep ==
  ASSUME IInv, NEW j \in Ids, CompleteJob(j)
  PROVE  IInv'
<1> DEFINE t == [table EXCEPT !.job[j].status = "completed"]
<1>1. Written(t) /\ table.job[j].status = "pending"
  BY DEF CompleteJob
<1>2. Typed(t)
  BY DEF Typed, IInv, TypeOK, JobRow, Statuses
<1>3. KeepsPlaces(table, t)
  BY <1>1 DEF KeepsPlaces, IInv, TypeOK, JobRow, Exists, Statuses
<1> QED
  BY <1>1, <1>2, <1>3, WrittenKeepsSplit

LEMMA DeleteChainsStep ==
  ASSUME IInv, NEW C \in SUBSET Ids, DeleteChains(C)
  PROVE  IInv'
<1> DEFINE gone == UNION {JobsOf(table, c) : c \in C}
           t == [job |-> [j \in Ids |-> IF j \in gone
                                       THEN [Unwritten(j) EXCEPT !.status = "deleted"]
                                       ELSE table.job[j]],
                 waits |-> {b \in table.waits : b[1] \notin gone}]
<1>1. Written(t)
  BY DEF DeleteChains
<1> HIDE DEF gone
<1>2. Typed(t)
  BY TimeType DEF Typed, IInv, TypeOK, JobRow, Statuses, Unwritten
<1>3. KeepsPlaces(table, t)
  BY DEF KeepsPlaces, IInv, TypeOK, JobRow, Exists, Statuses, Unwritten
<1> QED
  BY <1>1, <1>2, <1>3, WrittenKeepsSplit

-----------------------------------------------------------------------------
(* The reader.                                                             *)

LEMMA StartStep ==
  ASSUME IInv, NEW q \in Query, Start(q)
  PROVE  IInv'
<1>1. reading' = [query |-> q, cursor |-> NULL, seen |-> {}, stayed |-> Listed(table, q)]
  BY DEF Start, NotReading
<1>2. table' = table
  BY DEF Start
<1> QED
  BY <1>1, <1>2 DEF IInv, TypeOK, CursorSplits, Listed

LEMMA NextPageStep ==
  ASSUME CoarseLists = {}, IInv, NEW limit \in Limits, NextPage(limit)
  PROVE  IInv'
<1> DEFINE q == reading.query
           cursor == reading.cursor
           page == Page(table, q, cursor, limit)
           rest == Remaining(table, q, cursor)
           place(j) == Position(table, q, j)
<1>0. q # NULL /\ q \in Query /\ table' = table /\ Rows(table)
  BY DEF NextPage, IInv, TypeOK, Rows
<1>1. CASE page.nextCursor = NULL
  <2>1. reading' = NotReading
    BY <1>1 DEF NextPage
  <2> QED
    BY <1>0, <2>1 DEF NotReading, IInv, TypeOK, CursorSplits
<1>2. CASE page.nextCursor # NULL
  <2>1. reading' = [reading EXCEPT !.cursor = page.nextCursor, !.seen = @ \cup page.items]
    BY <1>2 DEF NextPage
  <2>2. PICK last \in page.items :
          /\ page.nextCursor = place(last)
          /\ \A j \in page.items \ {last} : Behind(q, place(j), place(last))
          /\ \A j \in rest \ page.items : Behind(q, place(last), place(j))
    BY <1>0, <1>2, PageFacts
  <2>3. page.items \subseteq rest /\ rest \subseteq Listed(table, q) /\ rest \subseteq Ids
    BY <1>0, PageFacts DEF Remaining, Listed
  <2>4. /\ reading'.query = q /\ reading'.cursor = place(last)
        /\ reading'.seen = reading.seen \cup page.items /\ reading'.stayed = reading.stayed
    BY <2>1, <2>2 DEF IInv, TypeOK
  <2>5. place(last) \in Nat \X Ids /\ place(last) \in Positions
        /\ \A j \in Ids : place(j) \in Positions
    BY <1>0, <2>2, <2>3, PositionsDiffer
  <2>6. TypeOK'
    BY <1>0, <2>1, <2>2, <2>3, <2>5 DEF IInv, TypeOK
  <2>7. Shown(table, q, place(last), reading.seen \cup page.items)
    <3>1. ASSUME NEW j \in page.items
          PROVE  Exists(table, j) /\ ~Behind(q, place(last), place(j))
      <4>1. Exists(table, j) /\ j \in Ids /\ last \in Ids
        BY <2>3 DEF Listed
      <4>2. j = last \/ Behind(q, place(j), place(last))
        BY <2>2
      <4> QED
        BY <2>5, <4>1, <4>2, BehindOrders
    <3>2. ASSUME NEW j \in reading.seen
          PROVE  /\ table.job[j].status # "absent"
                 /\ Exists(table, j) => ~Behind(q, place(last), place(j))
      <4>1. /\ cursor # NULL /\ j \in Ids /\ table.job[j].status # "absent"
            /\ Exists(table, j) => ~Behind(q, cursor, place(j))
        BY <1>0 DEF IInv, TypeOK, CursorSplits, Shown
      <4>2. cursor \in Positions
        BY <4>1, IdsType DEF IInv, TypeOK, Positions
      <4>3. Behind(q, cursor, place(last))
        BY <2>2, <2>3, <4>1 DEF Remaining
      <4> QED
        BY <2>5, <4>1, <4>2, <4>3, BehindOrders
    <3> QED
      BY <3>1, <3>2 DEF Shown, Exists, Statuses
  <2>8. Ahead(table, q, place(last), reading.stayed \ (reading.seen \cup page.items))
    <3>1. reading.stayed \ reading.seen \subseteq rest
      BY <1>0 DEF IInv, CursorSplits, Remaining, Ahead
    <3> QED
      BY <2>2, <3>1 DEF Ahead
  <2>9. CursorSplits'
    BY <1>0, <2>4, <2>5, <2>7, <2>8, NullIsNone DEF CursorSplits, IInv
  <2> QED
    BY <2>6, <2>9 DEF IInv
<1> QED
  BY <1>1, <1>2

LEMMA NextSplits ==
  ASSUME CoarseLists = {}, IInv, [Next]_vars
  PROVE  IInv'
<1>1. CASE UNCHANGED vars
  BY <1>1 DEF vars, IInv, TypeOK, CursorSplits
<1>2. ASSUME NEW J \in SUBSET Ids, NEW blockers \in SUBSET Ids, NEW time \in 0 .. MaxTime,
             StartChains(J, blockers, time)
      PROVE  IInv'
  BY <1>2, StartChainsStep
<1>3. ASSUME NEW j \in Ids, NEW k \in Ids, NEW blockers \in SUBSET Ids,
             NEW time \in 0 .. MaxTime, ContinueWith(j, k, blockers, time)
      PROVE  IInv'
  BY <1>3, ContinueWithStep
<1>4. ASSUME NEW j \in Ids, CompleteJob(j) PROVE IInv'
  BY <1>4, CompleteJobStep
<1>5. ASSUME NEW C \in SUBSET Ids, DeleteChains(C) PROVE IInv'
  BY <1>5, DeleteChainsStep
<1>6. ASSUME NEW q \in Query, Start(q) PROVE IInv'
  BY <1>6, StartStep
<1>7. ASSUME NEW limit \in Limits, NextPage(limit) PROVE IInv'
  BY <1>7, NextPageStep
<1> QED
  BY <1>1, <1>2, <1>3, <1>4, <1>5, <1>6, <1>7 DEF Next

LEMMA InitSplits == Init => IInv
BY TimeType DEF Init, NotReading, Unwritten, IInv, TypeOK, CursorSplits, JobRow, Statuses

(* When no cursor drops part of what it is compared with (SQLite, and the  *)
(* lists of chains and of a chain's jobs of PostgreSQL), lists that are    *)
(* read to their end are exact, for any number of rows and writers.        *)
THEOREM ExactCursorsSkipNothing == CoarseLists = {} => (Spec => []StayersListedOnce)
<1> SUFFICES ASSUME CoarseLists = {} PROVE Spec => []StayersListedOnce
  OBVIOUS
<1>1. Init => IInv
  BY InitSplits
<1>2. IInv /\ [Next]_vars => IInv'
  BY NextSplits
<1>3. IInv => StayersListedOnce
  BY SplitIsEnough
<1> QED
  BY <1>1, <1>2, <1>3, PTL DEF Spec

-----------------------------------------------------------------------------
(* What the tables hold whatever the cursors are: the chain of a row is    *)
(* there with its root, and only the root has index 0; a row that was      *)
(* never written is its own chain; who waits is there.                     *)
Rooted(t) ==
  /\ \A j \in Ids : t.job[j].status = "absent" => t.job[j].chain = j /\ t.job[j].index = 0
  /\ \A j \in Ids : Exists(t, j) =>
       LET c == t.job[j].chain
       IN Exists(t, c) /\ t.job[c].chain = c /\ (t.job[j].index = 0 <=> j = c)
  /\ \A b \in t.waits : Exists(t, b[1])

RootedInv == TypeOK /\ Rooted(table)

LEMMA Truncates ==
  ASSUME NEW x \in Nat, NEW r \in Nat \ {0}
  PROVE  x - (x % r) \in Nat
<1>1. x % r \in 0 .. r - 1
  OBVIOUS
<1>2. CASE x < r
  BY <1>2
<1>3. CASE x >= r
  BY <1>1, <1>3
<1> QED
  BY <1>2, <1>3

LEMMA PageTypes ==
  ASSUME NEW t, Rows(t), NEW q, NEW cursor, NEW limit \in Limits
  PROVE  LET page == Page(t, q, cursor, limit)
         IN /\ page.items \in SUBSET Ids
            /\ page.nextCursor \in (Nat \X Ids) \cup {NULL}
<1> DEFINE rows == First(t, q, Remaining(t, q, cursor), limit + 1)
           items == First(t, q, rows, limit)
           last == LastItem(t, q, items)
<1>0. limit \in Nat \ {0} /\ limit + 1 \in Nat
  BY LimitsType
<1>1. rows \in SUBSET Ids /\ items \in SUBSET rows
  BY DEF Remaining, Listed, First
<1>2. ASSUME Cardinality(rows) > limit
      PROVE  CursorOf(t, q, last) \in Nat \X Ids
  <2>1. rows # {}
    BY <1>0, <1>2, FS_EmptySet
  <2>2. items # {}
    BY <1>0, <1>1, <2>1, FirstIsSome
  <2>3. last \in Ids
    <3>1. \E j \in items : \A k \in items \ {j} : k \in Before(t, q, items, j)
      BY <1>1, <2>2, EndsExist
    <3> QED
      BY <1>1, <3>1 DEF LastItem
  <2>4. Position(t, q, last) \in Nat \X Ids
    BY <2>3, PositionsDiffer
  <2> HIDE DEF last
  <2>5. Position(t, q, last)[1] - (Position(t, q, last)[1] % Resolution) \in Nat
    BY <2>4, Truncates, TimeType
  <2> QED
    BY <2>4, <2>5 DEF CursorOf
<1> HIDE DEF rows, last
<1> QED
  BY <1>1, <1>2 DEF Page, rows, last

LEMMA WrittenIsRooted ==
  ASSUME RootedInv, NEW t, Written(t), Typed(t), Rooted(t)
  PROVE  RootedInv'
<1>1. table' = t
  BY DEF Written
<1>2. reading' \in [query : Query \cup {NULL}, cursor : (Nat \X Ids) \cup {NULL},
                    seen : SUBSET Ids, stayed : SUBSET Ids]
  BY DEF Written, RootedInv, TypeOK
<1> QED
  BY <1>1, <1>2 DEF RootedInv, TypeOK, Typed

LEMMA StartChainsRooted ==
  ASSUME RootedInv, NEW J \in SUBSET Ids, NEW blockers \in SUBSET Ids, NEW time \in 0 .. MaxTime,
         StartChains(J, blockers, time)
  PROVE  RootedInv'
<1> DEFINE started(r) == [r EXCEPT !.status = "pending", !.created = time]
           t == [job |-> [j \in Ids |-> IF j \in J THEN started(table.job[j]) ELSE table.job[j]],
                 waits |-> table.waits \cup (J \X blockers)]
<1>1. Written(t) /\ \A j \in J : table.job[j].status = "absent"
  BY DEF StartChains
<1>2. table.job \in [Ids -> JobRow] /\ table.waits \subseteq Ids \X Ids /\ Rooted(table)
  BY DEF RootedInv, TypeOK
<1>3. \A r \in JobRow : /\ started(r) \in JobRow /\ started(r).status = "pending"
                        /\ started(r).chain = r.chain /\ started(r).index = r.index
  BY DEF JobRow, Statuses
<1> HIDE DEF started
<1>4. Typed(t)
  BY <1>2, <1>3 DEF Typed
<1>5. \A j \in Ids : /\ t.job[j].chain = table.job[j].chain /\ t.job[j].index = table.job[j].index
                     /\ t.job[j].status = IF j \in J THEN "pending" ELSE table.job[j].status
  BY <1>2, <1>3
<1>6. \A j \in Ids : Exists(t, j) <=> j \in J \/ Exists(table, j)
  BY <1>5 DEF Exists, Statuses
<1>7. \A j \in Ids : table.job[j].chain \in Ids
  BY <1>2 DEF JobRow
<1>8. \A b \in t.waits : b[1] \in Ids /\ Exists(t, b[1])
  BY <1>2, <1>6 DEF Rooted
<1> HIDE DEF t
<1>9. Rooted(t)
  <2>1. ASSUME NEW j \in Ids, t.job[j].status = "absent"
        PROVE  t.job[j].chain = j /\ t.job[j].index = 0
    BY <1>2, <1>5, <2>1 DEF Rooted
  <2>2. ASSUME NEW j \in Ids, Exists(t, j)
        PROVE  LET c == t.job[j].chain
               IN Exists(t, c) /\ t.job[c].chain = c /\ (t.job[j].index = 0 <=> j = c)
    <3>1. CASE j \in J
      BY <1>1, <1>2, <1>5, <1>6, <3>1 DEF Rooted
    <3>2. CASE Exists(table, j)
      BY <1>2, <1>5, <1>6, <1>7, <3>2 DEF Rooted
    <3> QED
      BY <1>6, <2>2, <3>1, <3>2
  <2> QED
    BY <1>8, <2>1, <2>2 DEF Rooted
<1> QED
  BY <1>1, <1>4, <1>9, WrittenIsRooted

LEMMA ContinueWithRooted ==
  ASSUME RootedInv, NEW j \in Ids, NEW k \in Ids, NEW blockers \in SUBSET Ids,
         NEW time \in 0 .. MaxTime, ContinueWith(j, k, blockers, time)
  PROVE  RootedInv'
<1> DEFINE row == [status |-> "pending", created |-> time,
                   chain |-> table.job[j].chain, index |-> table.job[j].index + 1]
           t == [job |-> [table.job EXCEPT ![j].status = "completed", ![k] = row],
                 waits |-> table.waits \cup ({k} \X blockers)]
<1>1. Written(t) /\ table.job[j].status = "pending" /\ table.job[k].status = "absent"
  BY DEF ContinueWith
<1>2. table.job \in [Ids -> JobRow] /\ table.waits \subseteq Ids \X Ids /\ Rooted(table)
  BY DEF RootedInv, TypeOK
<1>3. Typed(t)
  BY <1>2 DEF Typed, JobRow, Statuses
<1>4. j # k
  BY <1>1
<1>5. t.job[k] = row
  BY <1>2
<1>6. \A i \in Ids \ {k} :
        /\ t.job[i].chain = table.job[i].chain /\ t.job[i].index = table.job[i].index
        /\ t.job[i].status = IF i = j THEN "completed" ELSE table.job[i].status
  BY <1>2 DEF JobRow
<1>7. \A i \in Ids : Exists(t, i) <=> i = k \/ Exists(table, i)
  BY <1>1, <1>4, <1>5, <1>6 DEF Exists, Statuses
<1>8. ~Exists(table, k) /\ Exists(table, j)
  BY <1>1 DEF Exists, Statuses
<1>9. \A i \in Ids : table.job[i].chain \in Ids /\ table.job[i].index \in Nat
  BY <1>2 DEF JobRow
<1>10. \A b \in t.waits : b[1] \in Ids /\ Exists(t, b[1])
  BY <1>2, <1>7 DEF Rooted
<1>11. \A i \in Ids : Exists(table, i) => table.job[i].chain # k
  BY <1>2, <1>8 DEF Rooted
<1> HIDE DEF t
<1>12. Rooted(t)
  <2>1. ASSUME NEW i \in Ids, t.job[i].status = "absent"
        PROVE  t.job[i].chain = i /\ t.job[i].index = 0
    BY <1>2, <1>5, <1>6, <2>1 DEF Rooted
  <2>2. ASSUME NEW i \in Ids, Exists(t, i)
        PROVE  LET c == t.job[i].chain
               IN Exists(t, c) /\ t.job[c].chain = c /\ (t.job[i].index = 0 <=> i = c)
    <3>1. CASE i = k
      <4>1. t.job[i].chain = table.job[j].chain /\ t.job[i].index # 0
        BY <1>5, <1>9, <3>1
      <4>2. /\ Exists(table, table.job[j].chain)
            /\ table.job[table.job[j].chain].chain = table.job[j].chain
        BY <1>2, <1>8 DEF Rooted
      <4> QED
        BY <1>6, <1>7, <1>8, <1>9, <3>1, <4>1, <4>2
    <3>2. CASE i # k
      <4>1. Exists(table, i)
        BY <1>7, <2>2, <3>2
      <4>2. /\ Exists(table, table.job[i].chain)
            /\ table.job[table.job[i].chain].chain = table.job[i].chain
            /\ table.job[i].index = 0 <=> i = table.job[i].chain
        BY <1>2, <4>1 DEF Rooted
      <4> QED
        BY <1>6, <1>7, <1>9, <1>11, <3>2, <4>1, <4>2
    <3> QED
      BY <3>1, <3>2
  <2> QED
    BY <1>10, <2>1, <2>2 DEF Rooted
<1> QED
  BY <1>1, <1>3, <1>12, WrittenIsRooted

LEMMA CompleteJobRooted ==
  ASSUME RootedInv, NEW j \in Ids, CompleteJob(j)
  PROVE  RootedInv'
<1> DEFINE t == [table EXCEPT !.job[j].status = "completed"]
<1>1. Written(t) /\ table.job[j].status = "pending"
  BY DEF CompleteJob
<1>2. /\ table \in [job : [Ids -> JobRow], waits : SUBSET (Ids \X Ids)] /\ Rooted(table)
  BY DEF RootedInv, TypeOK
<1>3. Typed(t)
  BY <1>2 DEF Typed, JobRow, Statuses
<1>4. /\ \A i \in Ids :
           /\ t.job[i].chain = table.job[i].chain /\ t.job[i].index = table.job[i].index
           /\ t.job[i].status = IF i = j THEN "completed" ELSE table.job[i].status
      /\ t.waits = table.waits
  BY <1>2 DEF JobRow
<1>5. \A i \in Ids : Exists(t, i) <=> Exists(table, i)
  BY <1>1, <1>4 DEF Exists, Statuses
<1>6. \A i \in Ids : table.job[i].chain \in Ids
  BY <1>2 DEF JobRow
<1>7. \A b \in table.waits : b[1] \in Ids
  BY <1>2
<1> HIDE DEF t
<1>8. Rooted(t)
  BY <1>2, <1>4, <1>5, <1>6, <1>7 DEF Rooted
<1> QED
  BY <1>1, <1>3, <1>8, WrittenIsRooted

LEMMA DeleteChainsRooted ==
  ASSUME RootedInv, NEW C \in SUBSET Ids, DeleteChains(C)
  PROVE  RootedInv'
<1> DEFINE gone == UNION {JobsOf(table, c) : c \in C}
           t == [job |-> [j \in Ids |-> IF j \in gone
                                       THEN [Unwritten(j) EXCEPT !.status = "deleted"]
                                       ELSE table.job[j]],
                 waits |-> {b \in table.waits : b[1] \notin gone}]
<1>1. Written(t)
  BY DEF DeleteChains
<1>2. table.job \in [Ids -> JobRow] /\ table.waits \subseteq Ids \X Ids /\ Rooted(table)
  BY DEF RootedInv, TypeOK
<1>3. \A i \in Ids : i \in gone <=> Exists(table, i) /\ table.job[i].chain \in C
  BY DEF JobsOf
<1> HIDE DEF gone
<1>4. Typed(t)
  BY <1>2, TimeType DEF Typed, JobRow, Statuses, Unwritten
<1>5. /\ \A i \in gone \cap Ids : t.job[i].status = "deleted"
      /\ \A i \in Ids \ gone : t.job[i] = table.job[i]
  BY DEF Unwritten
<1>6. \A i \in Ids : Exists(t, i) <=> i \notin gone /\ Exists(table, i)
  BY <1>5 DEF Exists, Statuses
<1>7. \A i \in Ids : table.job[i].chain \in Ids
  BY <1>2 DEF JobRow
<1>8. \A b \in t.waits : b[1] \in Ids /\ Exists(t, b[1])
  BY <1>2, <1>6 DEF Rooted
<1> HIDE DEF t
<1>9. Rooted(t)
  <2>1. ASSUME NEW i \in Ids, t.job[i].status = "absent"
        PROVE  t.job[i].chain = i /\ t.job[i].index = 0
    BY <1>2, <1>5, <2>1 DEF Rooted
  <2>2. ASSUME NEW i \in Ids, Exists(t, i)
        PROVE  LET c == t.job[i].chain
               IN Exists(t, c) /\ t.job[c].chain = c /\ (t.job[i].index = 0 <=> i = c)
    <3>1. i \notin gone /\ Exists(table, i) /\ t.job[i] = table.job[i]
      BY <1>5, <1>6, <2>2
    <3> DEFINE c == table.job[i].chain
    <3>2. /\ c \in Ids /\ Exists(table, c) /\ table.job[c].chain = c
          /\ table.job[i].index = 0 <=> i = c
      BY <1>2, <1>7, <3>1 DEF Rooted
    <3>3. c \notin gone
      BY <1>3, <3>1, <3>2
    <3> QED
      BY <1>5, <1>6, <3>1, <3>2, <3>3
  <2> QED
    BY <1>8, <2>1, <2>2 DEF Rooted
<1> QED
  BY <1>1, <1>4, <1>9, WrittenIsRooted

LEMMA NextRooted ==
  ASSUME RootedInv, [Next]_vars
  PROVE  RootedInv'
<1>1. CASE UNCHANGED vars
  BY <1>1 DEF vars, RootedInv, TypeOK
<1>2. ASSUME NEW q \in Query, Start(q) PROVE RootedInv'
  <2>1. /\ reading' = [query |-> q, cursor |-> NULL, seen |-> {}, stayed |-> Listed(table, q)]
        /\ table' = table
    BY <1>2 DEF Start, NotReading
  <2> QED
    BY <2>1 DEF RootedInv, TypeOK, Listed
<1>3. ASSUME NEW limit \in Limits, NextPage(limit) PROVE RootedInv'
  <2> DEFINE page == Page(table, reading.query, reading.cursor, limit)
  <2>1. table' = table /\ Rows(table)
    BY <1>3 DEF NextPage, RootedInv, TypeOK, Rows
  <2>2. page.items \in SUBSET Ids /\ page.nextCursor \in (Nat \X Ids) \cup {NULL}
    BY <2>1, PageTypes
  <2>3. reading' = IF page.nextCursor = NULL THEN NotReading
                   ELSE [reading EXCEPT !.cursor = page.nextCursor, !.seen = @ \cup page.items]
    BY <1>3 DEF NextPage
  <2> HIDE DEF page
  <2>4. TypeOK'
    BY <2>1, <2>2, <2>3 DEF RootedInv, TypeOK, NotReading
  <2> QED
    BY <2>1, <2>4 DEF RootedInv
<1>4. ASSUME NEW J \in SUBSET Ids, NEW blockers \in SUBSET Ids, NEW time \in 0 .. MaxTime,
             StartChains(J, blockers, time)
      PROVE  RootedInv'
  BY <1>4, StartChainsRooted
<1>5. ASSUME NEW j \in Ids, NEW k \in Ids, NEW blockers \in SUBSET Ids,
             NEW time \in 0 .. MaxTime, ContinueWith(j, k, blockers, time)
      PROVE  RootedInv'
  BY <1>5, ContinueWithRooted
<1>6. ASSUME NEW j \in Ids, CompleteJob(j) PROVE RootedInv'
  BY <1>6, CompleteJobRooted
<1>7. ASSUME NEW C \in SUBSET Ids, DeleteChains(C) PROVE RootedInv'
  BY <1>7, DeleteChainsRooted
<1> QED
  BY <1>1, <1>2, <1>3, <1>4, <1>5, <1>6, <1>7 DEF Next

LEMMA InitRooted == Init => RootedInv
BY TimeType DEF Init, NotReading, Unwritten, RootedInv, TypeOK, Rooted, Exists, JobRow, Statuses

-----------------------------------------------------------------------------
(* The rows that the two adapters find.                                    *)
LEMMA SameRows ==
  ASSUME RootedInv, NEW q \in Query
  PROVE  Matched(table, q) = Listed(table, q)
<1> DEFINE t == table
<1>1. Rooted(t) /\ t.job \in [Ids -> JobRow] /\ t.waits \subseteq Ids \X Ids
  BY DEF RootedInv, TypeOK
<1>2. q.list \in Lists
  BY DEF Query
<1>3. CASE q.list = "chains"
  <2>1. ASSUME NEW j \in Ids, Exists(t, j)
        PROVE  /\ t.job[j].chain = j <=> t.job[j].index = 0
               /\ j \in {b[2] : b \in t.waits} <=> \E k \in Ids : <<k, j>> \in t.waits
    <3>1. t.job[j].chain = j <=> t.job[j].index = 0
      BY <1>1, <2>1 DEF Rooted
    <3>2. \A b \in t.waits : b[1] \in Ids /\ b = <<b[1], b[2]>>
      BY <1>1
    <3> QED
      BY <3>1, <3>2
  <2>2. ASSUME NEW j \in Ids, Exists(t, j), t.job[j].chain = j, JobsOf(t, j) = {j}
        PROVE  LastOf(t, j) = j
    <3>1. t.job[j].index <= t.job[j].index
      BY <1>1 DEF JobRow
    <3> QED
      BY <2>2, <3>1 DEF LastOf
  <2>3. Matched(t, q) = IteratedChains(t, q)
    BY <1>3 DEF Matched
  <2> QED
    BY <1>3, <2>1, <2>2, <2>3 DEF IteratedChains, Listed, ChainListed
<1>4. CASE q.list = "jobs"
  BY <1>4 DEF Matched, IteratedJobs, Listed, JobListed
<1>5. CASE q.list = "chainJobs"
  BY <1>5 DEF Matched, IteratedChainJobs, JobsOf, Listed, ChainJobListed
<1>6. CASE q.list = "blockedJobs"
  <2>1. \A j \in Ids : j \in {b[1] : b \in {w \in t.waits : w[2] = q.chain}}
                         <=> <<j, q.chain>> \in t.waits
    BY <1>1
  <2>2. \A b \in t.waits : b[1] \in Ids /\ Exists(t, b[1])
    BY <1>1 DEF Rooted
  <2> QED
    BY <1>1, <1>6, <2>1, <2>2 DEF Matched, IteratedBlockedJobs, Listed, BlockedJobListed
<1> QED
  BY <1>2, <1>3, <1>4, <1>5, <1>6 DEF Lists

-----------------------------------------------------------------------------
(* The sorted list.                                                        *)

Increasing(t, q, s) ==
  \A i, k \in DOMAIN s : i < k => Behind(q, Position(t, q, s[i]), Position(t, q, s[k]))

(* The number of rows before it is a row's place in the list.              *)
LEMMA SortingExists ==
  ASSUME NEW t, Rows(t), NEW q, NEW M \in SUBSET Ids
  PROVE  \E s \in [1 .. Cardinality(M) -> M] : Increasing(t, q, s)
<1> DEFINE n == Cardinality(M)
           count(j) == Cardinality(Before(t, q, M, j))
           rank == [j \in M |-> count(j) + 1]
           s == [i \in 1 .. n |-> CHOOSE j \in M : rank[j] = i]
<1>1. /\ n \in Nat /\ IsFiniteSet(M)
      /\ \A j \in M : count(j) \in Nat /\ count(j) < n
      /\ \A j \in M, k \in M : k \in Before(t, q, M, j) => count(k) < count(j)
  BY BeforeCounts
<1>2. \A j \in M, k \in M : j = k \/ j \in Before(t, q, M, k) \/ k \in Before(t, q, M, j)
  BY BeforeOrders
<1> HIDE DEF count, n
<1>3. \A j \in M, k \in M : count(j) < count(k) => j \in Before(t, q, M, k)
  <2> SUFFICES ASSUME NEW j \in M, NEW k \in M, count(j) < count(k)
               PROVE  j \in Before(t, q, M, k)
    OBVIOUS
  <2>1. j # k /\ ~(count(k) < count(j))
    BY <1>1
  <2> QED
    BY <1>1, <1>2, <2>1
<1>4. \A j \in M, k \in M : count(j) = count(k) => j = k
  BY <1>1, <1>2
<1>5. rank \in [M -> 1 .. n] /\ \A j \in M, k \in M : rank[j] = rank[k] => j = k
  BY <1>1, <1>4
<1>6. rank \in Injection(M, 1 .. n)
  BY <1>5 DEF Injection, IsInjective
<1>7. IsFiniteSet(1 .. n) /\ Cardinality(1 .. n) = n
  BY <1>1, FS_Interval
<1>8. rank \in Surjection(M, 1 .. n)
  BY <1>6, <1>7, FS_Injection DEF n
<1>9. \A i \in 1 .. n : \E j \in M : rank[j] = i
  BY <1>8 DEF Surjection
<1>10. s \in [1 .. n -> M] /\ \A i \in 1 .. n : s[i] \in M /\ count(s[i]) + 1 = i
  <2>1. \A i \in 1 .. n : s[i] \in M /\ rank[s[i]] = i
    BY <1>9
  <2> HIDE DEF s
  <2>2. \A i \in 1 .. n : s[i] \in M /\ count(s[i]) + 1 = i
    BY <2>1
  <2> QED
    BY <2>2 DEF s
<1> HIDE DEF s, rank
<1>11. Increasing(t, q, s)
  <2> SUFFICES ASSUME NEW i \in 1 .. n, NEW k \in 1 .. n, i < k
               PROVE  Behind(q, Position(t, q, s[i]), Position(t, q, s[k]))
    BY <1>10 DEF Increasing
  <2>1. count(s[i]) < count(s[k])
    BY <1>1, <1>10
  <2>2. s[i] \in Before(t, q, M, s[k])
    BY <1>3, <1>10, <2>1
  <2> QED
    BY <2>2 DEF Before
<1> QED
  BY <1>10, <1>11 DEF n

(* A sorted list holds every row once, and is sorted both ways round.      *)
LEMMA SortedList ==
  ASSUME NEW t, Rows(t), NEW q, NEW M \in SUBSET Ids,
         NEW s \in [1 .. Cardinality(M) -> M], Increasing(t, q, s)
  PROVE  /\ Cardinality(M) \in Nat
         /\ M = {s[i] : i \in 1 .. Cardinality(M)}
         /\ \A i, k \in 1 .. Cardinality(M) : s[i] = s[k] => i = k
         /\ \A i, k \in 1 .. Cardinality(M) :
              Behind(q, Position(t, q, s[i]), Position(t, q, s[k])) <=> i < k
<1> DEFINE n == Cardinality(M)
           place(i) == Position(t, q, s[i])
<1>1. n \in Nat /\ IsFiniteSet(M)
  BY BeforeCounts
<1>2. \A i \in 1 .. n : s[i] \in M /\ s[i] \in Ids /\ place(i) \in Positions
  BY PositionsDiffer
<1>3. \A i, k \in 1 .. n : i < k => Behind(q, place(i), place(k))
  BY DEF Increasing
<1> HIDE DEF n, place
<1>4. \A i, k \in 1 .. n : Behind(q, place(i), place(k)) => i < k
  <2> SUFFICES ASSUME NEW i \in 1 .. n, NEW k \in 1 .. n, Behind(q, place(i), place(k)), ~(i < k)
               PROVE  FALSE
    OBVIOUS
  <2>1. i = k \/ k < i
    BY <1>1
  <2>2. /\ ~Behind(q, place(i), place(i))
        /\ ~(Behind(q, place(i), place(k)) /\ Behind(q, place(k), place(i)))
    BY <1>2, BehindOrders
  <2> QED
    BY <1>3, <2>1, <2>2
<1>5. \A i, k \in 1 .. n : s[i] = s[k] => i = k
  <2> SUFFICES ASSUME NEW i \in 1 .. n, NEW k \in 1 .. n, s[i] = s[k], i # k
               PROVE  FALSE
    OBVIOUS
  <2>1. i < k \/ k < i
    BY <1>1
  <2>2. place(i) = place(k) /\ ~Behind(q, place(i), place(i))
    BY <1>2, BehindOrders DEF place
  <2> QED
    BY <1>3, <2>1, <2>2
<1>6. IsFiniteSet(1 .. n) /\ Cardinality(1 .. n) = n
  BY <1>1, FS_Interval
<1>7. s \in Injection(1 .. n, M)
  BY <1>5 DEF Injection, IsInjective, n
<1>8. s \in Surjection(1 .. n, M)
  BY <1>1, <1>6, <1>7, FS_Injection DEF n
<1>9. M = {s[i] : i \in 1 .. n}
  BY <1>2, <1>8 DEF Surjection
<1> QED
  BY <1>1, <1>3, <1>4, <1>5, <1>9 DEF n, place

(* A stretch of the list: its rows from a + 1 to b.                        *)
Stretch(s, a, b) == {s[i] : i \in a + 1 .. b}

LEMMA StretchCounts ==
  ASSUME NEW t, Rows(t), NEW q, NEW M \in SUBSET Ids,
         NEW s \in [1 .. Cardinality(M) -> M], Increasing(t, q, s),
         NEW a \in 0 .. Cardinality(M), NEW b \in a .. Cardinality(M)
  PROVE  Cardinality(Stretch(s, a, b)) = b - a
<1> DEFINE n == Cardinality(M)
           f == [i \in a + 1 .. b |-> s[i]]
<1>0. /\ n \in Nat
      /\ M = {s[i] : i \in 1 .. n}
      /\ \A i, k \in 1 .. n : s[i] = s[k] => i = k
      /\ \A i, k \in 1 .. n : Behind(q, Position(t, q, s[i]), Position(t, q, s[k])) <=> i < k
  BY SortedList, Zenon
<1>1. n \in Nat /\ \A i, k \in 1 .. n : s[i] = s[k] => i = k
  BY <1>0
<1> HIDE DEF n
<1>2. a \in Nat /\ b \in Nat /\ a <= b /\ b <= n
  BY <1>1 DEF n
<1>3. /\ f \in Injection(a + 1 .. b, Stretch(s, a, b))
      /\ f \in Surjection(a + 1 .. b, Stretch(s, a, b))
  <2>1. \A i \in a + 1 .. b : i \in 1 .. n
    BY <1>1, <1>2
  <2>2. f \in [a + 1 .. b -> Stretch(s, a, b)]
    BY DEF Stretch
  <2>3. \A x \in Stretch(s, a, b) : \E i \in a + 1 .. b : f[i] = x
    BY DEF Stretch
  <2>4. \A i, k \in a + 1 .. b : f[i] = f[k] => i = k
    BY <1>1, <2>1
  <2> HIDE DEF f
  <2> QED
    BY <2>2, <2>3, <2>4 DEF Injection, IsInjective, Surjection
<1>4. IsFiniteSet(a + 1 .. b) /\ Cardinality(a + 1 .. b) = b - a
  <2>1. IsFiniteSet(a + 1 .. b)
        /\ Cardinality(a + 1 .. b) = IF a + 1 > b THEN 0 ELSE b - (a + 1) + 1
    BY <1>2, FS_Interval
  <2> QED
    BY <1>2, <2>1
<1> QED
  BY <1>3, <1>4, FS_Surjection

(* ORDER BY ... LIMIT takes the first rows of a stretch.                   *)
LEMMA StretchFirst ==
  ASSUME NEW t, Rows(t), NEW q, NEW M \in SUBSET Ids,
         NEW s \in [1 .. Cardinality(M) -> M], Increasing(t, q, s),
         NEW a \in 0 .. Cardinality(M), NEW b \in a .. Cardinality(M), NEW m \in Nat
  PROVE  First(t, q, Stretch(s, a, b), m) = Stretch(s, a, IF a + m < b THEN a + m ELSE b)
<1> DEFINE n == Cardinality(M)
           W == Stretch(s, a, b)
           e == IF a + m < b THEN a + m ELSE b
<1>1. /\ n \in Nat
      /\ M = {s[i] : i \in 1 .. n}
      /\ \A i, k \in 1 .. n : s[i] = s[k] => i = k
      /\ \A i, k \in 1 .. n : Behind(q, Position(t, q, s[i]), Position(t, q, s[k])) <=> i < k
  BY SortedList, Zenon
<1>2. a \in Nat /\ b \in Nat /\ a <= b /\ b <= n
  BY <1>1
<1>3. \A i \in a + 1 .. b : i \in 1 .. n
  BY <1>1, <1>2
<1>4. ASSUME NEW i \in a + 1 .. b
      PROVE  Cardinality(Before(t, q, W, s[i])) = i - 1 - a
  <2>1. Before(t, q, W, s[i]) = Stretch(s, a, i - 1)
    <3>1. \A k \in a + 1 .. b :
            Behind(q, Position(t, q, s[k]), Position(t, q, s[i])) <=> k \in a + 1 .. i - 1
      BY <1>1, <1>2, <1>3, <1>4
    <3>2. \A k \in a + 1 .. i - 1 : k \in a + 1 .. b
      BY <1>2, <1>4
    <3> QED
      BY <3>1, <3>2 DEF Before, Stretch
  <2>2. i - 1 \in a .. n
    BY <1>1, <1>2, <1>4
  <2> QED
    BY <2>1, <2>2, StretchCounts
<1>5. \A i \in a + 1 .. b : Cardinality(Before(t, q, W, s[i])) < m <=> i \in a + 1 .. e
  BY <1>2, <1>4
<1>6. \A i \in a + 1 .. e : i \in a + 1 .. b
  BY <1>2
<1> QED
  BY <1>5, <1>6 DEF First, Stretch

(* The search finds where the rows behind the cursor begin.                *)
LEMMA StartSplits ==
  ASSUME NEW t, Rows(t), NEW q, NEW s \in [1 .. Cardinality(Listed(t, q)) -> Listed(t, q)],
         Increasing(t, q, s), NEW cursor \in (Nat \X Ids) \cup {NULL}
  PROVE  /\ StartIndex(t, q, cursor, s) \in 0 .. Cardinality(Listed(t, q))
         /\ Remaining(t, q, cursor)
              = Stretch(s, StartIndex(t, q, cursor, s), Cardinality(Listed(t, q)))
<1> DEFINE M == Listed(t, q)
           n == Cardinality(M)
           behind == {i \in 1 .. Len(s) : Behind(q, cursor, Position(t, q, s[i]))}
           found == IF behind # {} THEN Min(behind) ELSE 0
           start == StartIndex(t, q, cursor, s)
<1>0. M \in SUBSET Ids
  BY DEF Listed
<1>1. /\ n \in Nat
      /\ M = {s[i] : i \in 1 .. n}
      /\ \A i, k \in 1 .. n : s[i] = s[k] => i = k
      /\ \A i, k \in 1 .. n : Behind(q, Position(t, q, s[i]), Position(t, q, s[k])) <=> i < k
  BY <1>0, SortedList, Zenon
<1>2. Remaining(t, q, cursor) = {j \in M : cursor # NULL => Behind(q, cursor, Position(t, q, j))}
  BY DEF Remaining
<1>3. Len(s) = n
  BY <1>1
<1>4. start = CASE cursor = NULL -> 0
                [] cursor # NULL /\ found = 0 -> Len(s)
                [] OTHER -> found - 1
  BY DEF StartIndex, SelectInSeq
<1>5. \A i \in 1 .. n : s[i] \in M /\ s[i] \in Ids
  BY <1>0
<1> HIDE DEF M, n, found, start
<1>6. CASE cursor = NULL
  <2>1. start = 0 /\ Remaining(t, q, cursor) = M
    BY <1>2, <1>4, <1>6
  <2>2. M = Stretch(s, 0, n)
    BY <1>1 DEF Stretch
  <2> QED
    BY <1>1, <2>1, <2>2 DEF M, n, start
<1>7. CASE cursor # NULL /\ behind = {}
  <2>1. start = n
    BY <1>3, <1>4, <1>7 DEF found
  <2>2. \A i \in 1 .. n : ~Behind(q, cursor, Position(t, q, s[i]))
    BY <1>3, <1>7
  <2>3. Remaining(t, q, cursor) = {}
    BY <1>1, <1>2, <1>7, <2>2
  <2>4. Stretch(s, n, n) = {}
    BY <1>1 DEF Stretch
  <2> QED
    BY <1>1, <2>1, <2>3, <2>4 DEF M, n, start
<1>8. CASE cursor # NULL /\ behind # {}
  <2>1. behind \in SUBSET Nat
    BY <1>1, <1>3
  <2>2. PICK x \in behind : \A y \in behind : x <= y
    BY <1>8, <2>1, LeastNumber
  <2>3. Min(behind) \in behind /\ \A y \in behind : Min(behind) <= y
    BY <2>2 DEF Min
  <2>4. found \in behind /\ found \in 1 .. n /\ \A y \in behind : found <= y
    BY <1>3, <1>8, <2>3 DEF found
  <2>5. start = found - 1 /\ start + 1 = found /\ start \in 0 .. n
    BY <1>1, <1>4, <1>8, <2>4
  <2>6. \A i \in 1 .. n : Behind(q, cursor, Position(t, q, s[i])) <=> found <= i
    <3>1. ASSUME NEW i \in 1 .. n, Behind(q, cursor, Position(t, q, s[i]))
          PROVE  found <= i
      BY <1>3, <2>4, <3>1
    <3>2. ASSUME NEW i \in 1 .. n, found <= i
          PROVE  Behind(q, cursor, Position(t, q, s[i]))
      <4>1. Behind(q, cursor, Position(t, q, s[found]))
        BY <2>4
      <4>2. found = i \/ Behind(q, Position(t, q, s[found]), Position(t, q, s[i]))
        BY <1>1, <2>4, <3>2
      <4>3. /\ cursor \in Positions
            /\ Position(t, q, s[found]) \in Positions /\ Position(t, q, s[i]) \in Positions
        BY <1>5, <1>8, <2>4, IdsType, PositionsDiffer DEF Positions
      <4> QED
        BY <4>1, <4>2, <4>3, BehindOrders
    <3> QED
      BY <3>1, <3>2
  <2>7. Remaining(t, q, cursor) = Stretch(s, start, n)
    <3>1. Remaining(t, q, cursor)
            = {j \in {s[i] : i \in 1 .. n} : Behind(q, cursor, Position(t, q, j))}
      BY <1>1, <1>2, <1>8
    <3>2. \A i \in start + 1 .. n : i \in 1 .. n /\ Behind(q, cursor, Position(t, q, s[i]))
      BY <1>1, <2>4, <2>5, <2>6
    <3>3. \A i \in 1 .. n : Behind(q, cursor, Position(t, q, s[i])) => i \in start + 1 .. n
      BY <1>1, <2>4, <2>5, <2>6
    <3> QED
      BY <3>1, <3>2, <3>3 DEF Stretch
  <2> QED
    BY <2>5, <2>7 DEF M, n, start
<1> QED
  BY <1>6, <1>7, <1>8

(* The last of the rows that a page shows.                                 *)
LEMMA StretchLast ==
  ASSUME NEW t, Rows(t), NEW q, NEW M \in SUBSET Ids,
         NEW s \in [1 .. Cardinality(M) -> M], Increasing(t, q, s),
         NEW a \in 0 .. Cardinality(M), NEW b \in a + 1 .. Cardinality(M)
  PROVE  LastItem(t, q, Stretch(s, a, b)) = s[b]
<1> DEFINE n == Cardinality(M)
           W == Stretch(s, a, b)
<1>1. /\ n \in Nat
      /\ M = {s[i] : i \in 1 .. n}
      /\ \A i, k \in 1 .. n : s[i] = s[k] => i = k
      /\ \A i, k \in 1 .. n : Behind(q, Position(t, q, s[i]), Position(t, q, s[k])) <=> i < k
  BY SortedList, Zenon
<1>2. a \in Nat /\ b \in Nat /\ a < b /\ b <= n
  BY <1>1
<1>3. \A i \in a + 1 .. b : i \in 1 .. n /\ s[i] \in M
  BY <1>1, <1>2
<1>4. s[b] \in W /\ \A i \in a + 1 .. b : i = b \/ s[i] \in Before(t, q, W, s[b])
  <2>1. \A i \in a + 1 .. b : i = b \/ Behind(q, Position(t, q, s[i]), Position(t, q, s[b]))
    BY <1>1, <1>2, <1>3
  <2> QED
    BY <1>2, <2>1 DEF Before, Stretch
<1>5. \A k \in W \ {s[b]} : k \in Before(t, q, W, s[b])
  BY <1>4 DEF Stretch
<1>6. \A j \in W : (\A k \in W \ {j} : k \in Before(t, q, W, j)) => j = s[b]
  <2> SUFFICES ASSUME NEW j \in W, j # s[b], s[b] \in Before(t, q, W, j)
               PROVE  FALSE
    BY <1>4
  <2>1. W \in SUBSET Ids
    BY <1>3 DEF Stretch
  <2>2. j \in Before(t, q, W, s[b])
    BY <1>5
  <2> QED
    BY <1>4, <2>1, <2>2, BeforeOrders
<1> HIDE DEF W
<1>7. LastItem(t, q, W) = CHOOSE j \in W : \A k \in W \ {j} : k \in Before(t, q, W, j)
  BY DEF LastItem
<1> QED
  BY <1>4, <1>5, <1>6, <1>7 DEF W

(* A page of a statement, and the slice of the sorted list.                *)
LEMMA SlicesAgree ==
  ASSUME NEW t, Rows(t), NEW q, NEW s \in [1 .. Cardinality(Listed(t, q)) -> Listed(t, q)],
         Increasing(t, q, s), NEW cursor \in (Nat \X Ids) \cup {NULL}, NEW limit \in Limits
  PROVE  LET here == Paginate(t, q, s, cursor, limit)
             there == Page(t, q, cursor, limit)
         IN here.nextCursor = there.nextCursor /\ ToSet(here.items) = there.items
<1> DEFINE M == Listed(t, q)
           n == Cardinality(M)
           start == StartIndex(t, q, cursor, s)
           stop == IF start + limit < n THEN start + limit ELSE n
           rows == First(t, q, Remaining(t, q, cursor), limit + 1)
           items == First(t, q, rows, limit)
           slice == SubSeq(s, start + 1, Min({start + limit, Len(s)}))
<1>0. M \in SUBSET Ids /\ n \in Nat /\ limit \in Nat /\ 1 <= limit
  <2>1. M \in SUBSET Ids
    BY DEF Listed
  <2> QED
    BY <2>1, BeforeCounts, LimitsType
<1>1. start \in 0 .. n /\ Remaining(t, q, cursor) = Stretch(s, start, n)
  BY StartSplits
<1>2. s \in [1 .. n -> M] /\ Len(s) = n
  BY <1>0
<1> HIDE DEF M, n, start
<1>3. start \in Nat /\ start <= n /\ stop \in start .. n
  BY <1>0, <1>1
<1> DEFINE more == IF start + (limit + 1) < n THEN start + (limit + 1) ELSE n
<1>4. more \in start .. n
  BY <1>0, <1>3
<1>5. rows = Stretch(s, start, more)
  <2>1. n \in start .. n /\ limit + 1 \in Nat
    BY <1>0, <1>3
  <2> QED
    BY <1>0, <1>1, <1>2, <2>1, StretchFirst DEF n
<1>6. Cardinality(rows) = more - start
  BY <1>0, <1>1, <1>2, <1>4, <1>5, StretchCounts DEF n
<1>7. items = Stretch(s, start, IF start + limit < more THEN start + limit ELSE more)
  BY <1>0, <1>1, <1>2, <1>4, <1>5, StretchFirst DEF n
<1>8. items = Stretch(s, start, stop)
  <2>1. stop = IF start + limit < more THEN start + limit ELSE more
    BY <1>0, <1>3
  <2> QED
    BY <1>7, <2>1
<1>9. Cardinality(rows) > limit <=> start + limit < n
  BY <1>0, <1>3, <1>6
<1>10. Min({start + limit, Len(s)}) = stop
  <2>1. \A x \in {start + limit, n} : (\A y \in {start + limit, n} : x <= y) <=> x = stop
    BY <1>0, <1>3
  <2>2. stop \in {start + limit, n}
    OBVIOUS
  <2> HIDE DEF stop
  <2>3. Min({start + limit, n}) = stop
    BY <2>1, <2>2 DEF Min
  <2> QED
    BY <1>2, <2>3
<1> HIDE DEF stop, more
<1>11. slice \in Seq(M) /\ Len(slice) = stop - start
       /\ \A i \in 1 .. stop - start : slice[i] = s[start + i]
  <2>1. slice = SubSeq(s, start + 1, stop)
    BY <1>10
  <2>2. \A i \in start + 1 .. stop : s[i] \in M
    <3>1. \A i \in start + 1 .. stop : i \in 1 .. n
      BY <1>0, <1>3
    <3> QED
      BY <1>2, <3>1
  <2>3. /\ SubSeq(s, start + 1, stop) \in Seq(M)
        /\ Len(SubSeq(s, start + 1, stop)) = IF start + 1 <= stop THEN stop - (start + 1) + 1 ELSE 0
        /\ \A i \in 1 .. stop - (start + 1) + 1 :
             SubSeq(s, start + 1, stop)[i] = s[start + 1 + i - 1]
    BY <1>3, <2>2, SubSeqProperties
  <2>4. stop \in Nat /\ start <= stop
    BY <1>0, <1>3
  <2> HIDE DEF slice
  <2>5. Len(slice) = stop - start
    <3>1. (IF start + 1 <= stop THEN stop - (start + 1) + 1 ELSE 0) = stop - start
      BY <1>3, <2>4
    <3> QED
      BY <2>1, <2>3, <3>1
  <2>6. \A i \in 1 .. stop - start : /\ i \in 1 .. stop - (start + 1) + 1
                                     /\ start + 1 + i - 1 = start + i
    BY <1>3, <2>4
  <2> QED
    BY <2>1, <2>3, <2>5, <2>6
<1>12. ToSet(slice) = Stretch(s, start, stop)
  <2>1. DOMAIN slice = 1 .. stop - start
    BY <1>11
  <2>2. \A i \in start + 1 .. stop : i - start \in 1 .. stop - start /\ start + (i - start) = i
    BY <1>3
  <2>3. \A i \in 1 .. stop - start : start + i \in start + 1 .. stop
    BY <1>3
  <2> HIDE DEF slice
  <2> QED
    BY <1>11, <2>1, <2>2, <2>3 DEF ToSet, Stretch
<1>13. ASSUME start + limit < n
       PROVE  /\ slice # <<>> /\ slice[Len(slice)] = s[stop]
              /\ LastItem(t, q, items) = s[stop]
  <2>1. stop = start + limit /\ stop - start = limit /\ stop \in start + 1 .. n
    BY <1>0, <1>3, <1>13 DEF stop
  <2> HIDE DEF slice
  <2>2. Len(slice) = limit /\ slice[limit] = s[start + limit]
    <3>1. limit \in 1 .. stop - start
      BY <1>0, <2>1
    <3> QED
      BY <1>11, <2>1, <3>1
  <2>3. LastItem(t, q, Stretch(s, start, stop)) = s[stop]
    BY <1>0, <1>1, <1>2, <2>1, StretchLast DEF n
  <2>4. slice # <<>>
    <3>1. Len(<<>>) = 0
      OBVIOUS
    <3> QED
      BY <1>0, <2>2, <3>1
  <2> QED
    BY <1>8, <2>1, <2>2, <2>3, <2>4
<1> DEFINE here == Paginate(t, q, s, cursor, limit)
           there == Page(t, q, cursor, limit)
<1>14. /\ here.items = slice
       /\ here.nextCursor = IF start + limit < n /\ slice # <<>>
                            THEN CursorOf(t, q, slice[Len(slice)]) ELSE NULL
  BY <1>2 DEF Paginate, start
<1>15. /\ there.items = items
       /\ there.nextCursor = IF Cardinality(rows) > limit
                             THEN CursorOf(t, q, LastItem(t, q, items)) ELSE NULL
  BY DEF Page
<1> HIDE DEF here, there, slice, rows, items
<1>16. here.nextCursor = there.nextCursor /\ ToSet(here.items) = there.items
  BY <1>8, <1>9, <1>12, <1>13, <1>14, <1>15
<1> QED
  BY <1>16 DEF here, there

LEMMA RootedIsEnough == RootedInv => PagesAgree
<1> SUFFICES ASSUME RootedInv, reading.query # NULL, NEW limit \in Limits
             PROVE  LET sorted == Sorted(table, reading.query)
                        here == Paginate(table, reading.query, sorted, reading.cursor, limit)
                        there == Page(table, reading.query, reading.cursor, limit)
                    IN here.nextCursor = there.nextCursor /\ ToSet(here.items) = there.items
  BY DEF PagesAgree
<1> DEFINE q == reading.query
           M == Listed(table, q)
           s == Sorted(table, q)
<1>1. q \in Query /\ Rows(table) /\ reading.cursor \in (Nat \X Ids) \cup {NULL}
  BY DEF RootedInv, TypeOK, Rows
<1>2. M \in SUBSET Ids
  BY DEF Listed
<1>3. s = CHOOSE f \in [1 .. Cardinality(M) -> M] : Increasing(table, q, f)
  BY <1>1, SameRows DEF Sorted, Increasing
<1>4. \E f \in [1 .. Cardinality(M) -> M] : Increasing(table, q, f)
  BY <1>1, <1>2, SortingExists
<1>5. s \in [1 .. Cardinality(M) -> M] /\ Increasing(table, q, s)
  BY <1>3, <1>4
<1> HIDE DEF s
<1>6. LET here == Paginate(table, q, s, reading.cursor, limit)
          there == Page(table, q, reading.cursor, limit)
      IN here.nextCursor = there.nextCursor /\ ToSet(here.items) = there.items
  BY <1>1, <1>5, SlicesAgree
<1> QED
  BY <1>6 DEF s

(* Asked for the same page of the same rows, the adapter that searches a   *)
(* sorted list and the statements that filter, order and limit return the  *)
(* same jobs and the same cursor, whatever the cursors are and whatever    *)
(* was written since the cursor was made.                                  *)
THEOREM SlicesArePages == Spec => []PagesAgree
<1>1. Init => RootedInv
  BY InitRooted
<1>2. RootedInv /\ [Next]_vars => RootedInv'
  BY NextRooted
<1>3. RootedInv => PagesAgree
  BY RootedIsEnough
<1> QED
  BY <1>1, <1>2, <1>3, PTL DEF Spec

(* The state stays well typed.                                             *)
THEOREM ListingTypes == Spec => []TypeOK
<1>1. Init => RootedInv
  BY InitRooted
<1>2. RootedInv /\ [Next]_vars => RootedInv'
  BY NextRooted
<1>3. RootedInv => TypeOK
  BY DEF RootedInv
<1> QED
  BY <1>1, <1>2, <1>3, PTL DEF Spec
=============================================================================
