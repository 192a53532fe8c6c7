--------------------------- MODULE HooksProofs ---------------------------
(***************************************************************************)
(* Proofs about TransactionHooks, for every number of effects, hook        *)
(* objects and savepoints.                                                 *)
(*                                                                         *)
(* The invariant compares the hooks with the writes, at present and at     *)
(* each open savepoint.  Both grow at their ends, and a savepoint knows    *)
(* where they ended when it was created, so what they were then is a       *)
(* prefix of what they are (Within), and a rollback that cuts both leaves  *)
(* them matching (Matches).                                                *)
(***************************************************************************)
EXTENDS TransactionHooks, SequenceTheorems, TLAPS

Distinct(s) == \A i, j \in 1 .. Len(s) : s[i] = s[j] => i = j
Prefix(p, s) == Len(p) <= Len(s) /\ \A i \in 1 .. Len(p) : p[i] = s[i]

-----------------------------------------------------------------------------
(* Sequences: what is added at an end, and what is cut off.                *)

LEMMA ElementsIn ==
  ASSUME NEW S, NEW s \in Seq(S)
  PROVE  /\ Elements(s) \subseteq S
         /\ \A i \in 1 .. Len(s) : s[i] \in Elements(s)
         /\ \A e \in Elements(s) : \E i \in 1 .. Len(s) : s[i] = e
         /\ Elements(<<>>) = {}
         /\ Distinct(<<>>)
BY ElementOfSeq DEF Elements, Distinct

LEMMA ElementsOfConcat ==
  ASSUME NEW S, NEW s \in Seq(S), NEW t \in Seq(S)
  PROVE  Elements(s \o t) = Elements(s) \cup Elements(t)
<1>1. /\ Len(s \o t) = Len(s) + Len(t)
      /\ \A i \in 1 .. Len(s) + Len(t) :
           (s \o t)[i] = IF i <= Len(s) THEN s[i] ELSE t[i - Len(s)]
  BY ConcatProperties
<1>2. Len(s) \in Nat /\ Len(t) \in Nat
  BY LenProperties
<1>3. ASSUME NEW e \in Elements(s \o t)
      PROVE  e \in Elements(s) \cup Elements(t)
  BY <1>1, <1>2, <1>3 DEF Elements
<1>4. ASSUME NEW i \in 1 .. Len(s)
      PROVE  s[i] \in Elements(s \o t)
  <2>1. i \in 1 .. Len(s) + Len(t) /\ (s \o t)[i] = s[i]
    BY <1>1, <1>2
  <2> QED
    BY <1>1, <2>1 DEF Elements
<1>5. ASSUME NEW i \in 1 .. Len(t)
      PROVE  t[i] \in Elements(s \o t)
  <2>1. i + Len(s) \in 1 .. Len(s) + Len(t) /\ (s \o t)[i + Len(s)] = t[i]
    BY <1>1, <1>2
  <2> QED
    BY <1>1, <2>1 DEF Elements
<1> QED
  BY <1>3, <1>4, <1>5 DEF Elements

LEMMA DistinctConcat ==
  ASSUME NEW S, NEW s \in Seq(S), NEW t \in Seq(S),
         Distinct(s), Distinct(t), Elements(s) \cap Elements(t) = {}
  PROVE  Distinct(s \o t)
<1>1. /\ Len(s \o t) = Len(s) + Len(t)
      /\ \A i \in 1 .. Len(s) + Len(t) :
           (s \o t)[i] = IF i <= Len(s) THEN s[i] ELSE t[i - Len(s)]
  BY ConcatProperties
<1>2. Len(s) \in Nat /\ Len(t) \in Nat
  BY LenProperties
<1> SUFFICES ASSUME NEW i \in 1 .. Len(s) + Len(t), NEW j \in 1 .. Len(s) + Len(t),
                    (s \o t)[i] = (s \o t)[j]
             PROVE  i = j
  BY <1>1 DEF Distinct
<1>3. ASSUME NEW k \in 1 .. Len(s), NEW l \in 1 .. Len(t)
      PROVE  s[k] # t[l]
  BY DEF Elements
<1>4. CASE i <= Len(s) /\ j <= Len(s)
  BY <1>1, <1>2, <1>4 DEF Distinct
<1>5. CASE i <= Len(s) /\ ~(j <= Len(s))
  <2>1. i \in 1 .. Len(s) /\ j - Len(s) \in 1 .. Len(t)
    BY <1>2, <1>5
  <2> QED
    BY <1>1, <1>3, <1>5, <2>1
<1>6. CASE ~(i <= Len(s)) /\ j <= Len(s)
  <2>1. j \in 1 .. Len(s) /\ i - Len(s) \in 1 .. Len(t)
    BY <1>2, <1>6
  <2> QED
    BY <1>1, <1>3, <1>6, <2>1
<1>7. CASE ~(i <= Len(s)) /\ ~(j <= Len(s))
  <2>1. i - Len(s) \in 1 .. Len(t) /\ j - Len(s) \in 1 .. Len(t)
    BY <1>2, <1>7
  <2>2. i - Len(s) = j - Len(s)
    BY <1>1, <1>7, <2>1 DEF Distinct
  <2> QED
    BY <1>2, <2>2
<1> QED
  BY <1>4, <1>5, <1>6, <1>7

LEMMA PrefixConcat ==
  ASSUME NEW S, NEW p \in Seq(S), NEW s \in Seq(S), NEW t \in Seq(S),
         Prefix(p, s)
  PROVE  Prefix(p, s \o t)
BY ConcatProperties, LenProperties DEF Prefix

LEMMA PrefixReflexive ==
  ASSUME NEW S, NEW s \in Seq(S)
  PROVE  Prefix(s, s)
BY LenProperties DEF Prefix

(* A cut back to the length of a prefix is the prefix.                     *)
LEMMA CutToPrefix ==
  ASSUME NEW S, NEW p \in Seq(S), NEW s \in Seq(S), Prefix(p, s)
  PROVE  SubSeq(s, 1, Len(p)) = p
<1>1. Len(p) \in Nat /\ Len(s) \in Nat /\ Len(p) <= Len(s)
  BY LenProperties DEF Prefix
<1>2. \A i \in 1 .. Len(p) : s[i] \in S
  BY <1>1, ElementOfSeq
<1>3. /\ SubSeq(s, 1, Len(p)) \in Seq(S)
      /\ Len(SubSeq(s, 1, Len(p))) = Len(p)
      /\ \A i \in 1 .. Len(p) : SubSeq(s, 1, Len(p))[i] = s[i]
  BY <1>1, <1>2, SubSeqProperties
<1> QED
  BY <1>3, SeqEqual DEF Prefix

LEMMA CutProperties ==
  ASSUME NEW S, NEW s \in Seq(S), NEW n \in Nat, n <= Len(s)
  PROVE  /\ SubSeq(s, 1, n) \in Seq(S)
         /\ Len(SubSeq(s, 1, n)) = n
         /\ \A i \in 1 .. n : SubSeq(s, 1, n)[i] = s[i]
         /\ Elements(SubSeq(s, 1, n)) = {s[i] : i \in 1 .. n}
         /\ Distinct(s) => Distinct(SubSeq(s, 1, n))
<1>1. Len(s) \in Nat
  BY LenProperties
<1>2. \A i \in 1 .. n : s[i] \in S
  BY <1>1, ElementOfSeq
<1>3. /\ SubSeq(s, 1, n) \in Seq(S)
      /\ Len(SubSeq(s, 1, n)) = n
      /\ \A i \in 1 .. n : SubSeq(s, 1, n)[i] = s[i]
  BY <1>1, <1>2, SubSeqProperties
<1>4. Elements(SubSeq(s, 1, n)) = {s[i] : i \in 1 .. n}
  BY <1>3 DEF Elements
<1>5. Distinct(s) => Distinct(SubSeq(s, 1, n))
  BY <1>1, <1>3 DEF Distinct
<1> QED
  BY <1>3, <1>4, <1>5

LEMMA TailProperties ==
  ASSUME NEW S, NEW s \in Seq(S), NEW n \in Nat, n <= Len(s)
  PROVE  /\ SubSeq(s, n + 1, Len(s)) \in Seq(S)
         /\ Len(SubSeq(s, n + 1, Len(s))) = Len(s) - n
         /\ \A i \in 1 .. Len(s) - n : SubSeq(s, n + 1, Len(s))[i] = s[n + i]
         /\ Elements(SubSeq(s, n + 1, Len(s))) = {s[i] : i \in n + 1 .. Len(s)}
<1>1. Len(s) \in Nat
  BY LenProperties
<1>2. \A i \in n + 1 .. Len(s) : s[i] \in S
  BY <1>1, ElementOfSeq
<1>3. /\ SubSeq(s, n + 1, Len(s)) \in Seq(S)
      /\ Len(SubSeq(s, n + 1, Len(s))) = Len(s) - n
      /\ \A i \in 1 .. Len(s) - n : SubSeq(s, n + 1, Len(s))[i] = s[n + i]
  <2> DEFINE m == n + 1
  <2>1. m \in Int /\ Len(s) \in Int /\ \A i \in m .. Len(s) : s[i] \in S
    BY <1>1, <1>2
  <2>2. /\ SubSeq(s, m, Len(s)) \in Seq(S)
        /\ Len(SubSeq(s, m, Len(s))) = IF m <= Len(s) THEN Len(s) - m + 1 ELSE 0
        /\ \A i \in 1 .. Len(s) - m + 1 : SubSeq(s, m, Len(s))[i] = s[m + i - 1]
    <3> HIDE DEF m
    <3> QED
      BY <2>1, SubSeqProperties
  <2> QED
    BY <1>1, <2>2
<1> HIDE DEF Elements
<1>4. ASSUME NEW i \in n + 1 .. Len(s)
      PROVE  s[i] \in Elements(SubSeq(s, n + 1, Len(s)))
  <2>1. i - n \in 1 .. Len(s) - n /\ n + (i - n) = i
    BY <1>1
  <2>2. SubSeq(s, n + 1, Len(s))[i - n] = s[i]
    BY <1>3, <2>1
  <2> QED
    BY <1>3, <2>1, <2>2 DEF Elements
<1>5. ASSUME NEW e \in Elements(SubSeq(s, n + 1, Len(s)))
      PROVE  \E i \in n + 1 .. Len(s) : e = s[i]
  <2>1. PICK i \in 1 .. Len(s) - n : e = SubSeq(s, n + 1, Len(s))[i]
    BY <1>3, <1>5 DEF Elements
  <2>2. n + i \in n + 1 .. Len(s) /\ e = s[n + i]
    BY <1>1, <1>3, <2>1
  <2> QED
    BY <2>2
<1> QED
  BY <1>3, <1>4, <1>5

LEMMA ButlastProperties ==
  ASSUME NEW S, NEW s \in Seq(S), s # <<>>
  PROVE  /\ Butlast(s) \in Seq(S)
         /\ Len(s) \in Nat \ {0}
         /\ Len(Butlast(s)) = Len(s) - 1
         /\ \A i \in 1 .. Len(s) - 1 : Butlast(s)[i] = s[i]
         /\ Elements(Butlast(s)) \subseteq Elements(s)
         /\ Distinct(s) => Distinct(Butlast(s))
<1>1. Len(s) \in Nat \ {0}
  BY EmptySeq
<1>2. Len(s) - 1 \in Nat /\ Len(s) - 1 <= Len(s)
  BY <1>1
<1>3. /\ Butlast(s) \in Seq(S)
      /\ Len(Butlast(s)) = Len(s) - 1
      /\ \A i \in 1 .. Len(s) - 1 : Butlast(s)[i] = s[i]
      /\ Distinct(s) => Distinct(Butlast(s))
  BY <1>2, CutProperties DEF Butlast
<1>4. Elements(Butlast(s)) \subseteq Elements(s)
  BY <1>1, <1>3 DEF Elements
<1> QED
  BY <1>1, <1>3, <1>4

-----------------------------------------------------------------------------
(* Types, and what the container does.                                     *)

Phases == {"open", "committed", "flushed", "rolledBack"}
Statuses == {"new", "created", "finished", "user", "failed"}

SnapshotType ==
  [hooks : [Keys -> 0 .. MaxObjects], length : [Keys -> Nat], rows : Nat,
   content : [Keys -> Seq(Effects)]]

TypeOK ==
  /\ hooks \in [Keys -> 0 .. MaxObjects]
  /\ buffer \in [Keys -> [1 .. MaxObjects -> Seq(Effects)]]
  /\ saved \in Seq(SnapshotType) /\ rows \in Seq(Effects)
  /\ throwing \in BOOLEAN /\ phase \in Phases
  /\ owner \in {"callback", "context"}
  /\ status \in [Effects -> Statuses]
  /\ fired \in SUBSET Effects /\ ended \in [Effects -> Nat]

LEMMA BatchType ==
  ASSUME NEW b \in Batches
  PROVE  /\ b \in Seq(Effects) /\ Distinct(b)
         /\ Len(b) \in 1 .. MaxBatch
         /\ b \in [1 .. Len(b) -> Effects] /\ b # <<>>
<1>1. PICK n \in 1 .. MaxBatch : b \in [1 .. n -> Effects]
  BY DEF Batches
<1>2. n \in Nat
  BY <1>1, BoundsType
<1>3. b \in Seq(Effects)
  BY <1>1, <1>2, SeqDef
<1>4. Len(b) = n
  BY <1>1, <1>2, <1>3, LenProperties
<1>5. Distinct(b)
  BY DEF Batches, Distinct
<1> QED
  BY <1>1, <1>3, <1>4, <1>5, EmptySeq

LEMMA OneElement ==
  ASSUME NEW e \in Effects
  PROVE  /\ <<e>> \in Seq(Effects) /\ Len(<<e>>) = 1 /\ <<e>>[1] = e
         /\ Elements(<<e>>) = {e} /\ Distinct(<<e>>)
BY DEF Elements, Distinct

LEMMA ContentType ==
  ASSUME TypeOK, NEW k \in Keys
  PROVE  /\ Content(k) \in Seq(Effects) /\ hooks[k] \in 0 .. MaxObjects
         /\ hooks[k] = 0 => Content(k) = <<>>
         /\ hooks[k] # 0 => hooks[k] \in 1 .. MaxObjects /\ Content(k) = buffer[k][hooks[k]]
<1>1. hooks[k] \in 0 .. MaxObjects
  BY DEF TypeOK
<1>2. hooks[k] # 0 => hooks[k] \in 1 .. MaxObjects
  BY <1>1, BoundsType
<1>3. hooks[k] # 0 => buffer[k][hooks[k]] \in Seq(Effects)
  BY <1>2 DEF TypeOK
<1> QED
  BY <1>1, <1>2, <1>3, EmptySeq DEF Content, ContentOf

(* What a snapshot of the present says.                                    *)
Present ==
  /\ Snapshot \in SnapshotType
  /\ Snapshot.hooks = hooks /\ Snapshot.rows = Len(rows)
  /\ \A k \in Keys : /\ Snapshot.content[k] = Content(k)
                     /\ Snapshot.length[k] = Len(Content(k))
                     /\ hooks[k] = 0 => Content(k) = <<>>

LEMMA SnapshotNow == TypeOK => Present
<1> SUFFICES ASSUME TypeOK
             PROVE  Present
  OBVIOUS
<1>1. \A k \in Keys : /\ Content(k) \in Seq(Effects) /\ Len(Content(k)) \in Nat
                      /\ hooks[k] = 0 => Content(k) = <<>>
  BY ContentType, LenProperties
<1>2. hooks \in [Keys -> 0 .. MaxObjects] /\ Len(rows) \in Nat
  BY LenProperties DEF TypeOK
<1>3. [k \in Keys |-> Content(k)] \in [Keys -> Seq(Effects)]
  BY <1>1
<1>4. [k \in Keys |-> Len(Content(k))] \in [Keys -> Nat]
  BY <1>1
<1> QED
  BY <1>1, <1>2, <1>3, <1>4 DEF Snapshot, SnapshotType, Present

LEMMA SnapshotNext == TypeOK' => Present'
BY SnapshotNow, PTL

LEMMA NewObjectType ==
  ASSUME NEW k \in Keys, Unused(k) # {}
  PROVE  NewObject(k) \in 1 .. MaxObjects /\ NewObject(k) \notin Referenced(k)
BY DEF NewObject, Unused

(* A push adds to the content of its keys and changes no registered object.*)
LEMMA PushContent ==
  ASSUME TypeOK, NEW K \in SUBSET Keys, NEW t \in [K -> Seq(Effects)], Push(t)
  PROVE  /\ hooks' \in [Keys -> 0 .. MaxObjects]
         /\ buffer' \in [Keys -> [1 .. MaxObjects -> Seq(Effects)]]
         /\ \A k \in Keys :
              /\ Content(k)' = IF k \in K THEN Content(k) \o t[k] ELSE Content(k)
              /\ hooks[k] # 0 => hooks'[k] = hooks[k]
         /\ \A k \in Keys \ K : buffer'[k] = buffer[k] /\ hooks'[k] = hooks[k]
         /\ \A k \in K, d \in 1 .. MaxObjects :
              /\ buffer'[k][d] \in {buffer[k][d], Content(k) \o t[k]}
              /\ d \in Referenced(k) => Len(buffer[k][d]) <= Len(buffer'[k][d])
<1> DEFINE P == {k \in K : t[k] # <<>>}
           object == [k \in Keys |-> IF hooks[k] = 0 /\ k \in P THEN NewObject(k) ELSE hooks[k]]
<1>0. P \subseteq K /\ \A k \in K : t[k] \in Seq(Effects) /\ (k \notin P => t[k] = <<>>)
  OBVIOUS
<1>1. /\ \A k \in P : hooks[k] = 0 => Unused(k) # {}
      /\ hooks' = object
      /\ buffer' = [k \in Keys |->
                      IF k \in P THEN [buffer[k] EXCEPT ![object[k]] = Content(k) \o t[k]]
                      ELSE buffer[k]]
  BY DEF Push
<1> HIDE DEF P
<1>2. ASSUME NEW k \in Keys
      PROVE  /\ object[k] \in 0 .. MaxObjects
             /\ hooks[k] # 0 \/ k \notin P => object[k] = hooks[k]
             /\ k \in P => object[k] \in 1 .. MaxObjects /\ object[k] # 0
             /\ object[k] # hooks[k] => object[k] \notin Referenced(k)
  BY <1>0, <1>1, ContentType, NewObjectType, BoundsType
<1>3. ASSUME NEW k \in Keys
      PROVE  /\ Content(k) \in Seq(Effects)
             /\ k \in K => Content(k) \o t[k] \in Seq(Effects)
             /\ buffer[k] \in [1 .. MaxObjects -> Seq(Effects)]
  BY <1>0, ContentType, ConcatProperties DEF TypeOK
<1>4. hooks' \in [Keys -> 0 .. MaxObjects]
  BY <1>1, <1>2
<1> HIDE DEF object
<1>5. ASSUME NEW k \in Keys
      PROVE  /\ k \in P => buffer'[k] = [buffer[k] EXCEPT ![object[k]] = Content(k) \o t[k]]
             /\ k \notin P => buffer'[k] = buffer[k]
  BY <1>1
<1>6. ASSUME NEW k \in Keys
      PROVE  /\ buffer'[k] \in [1 .. MaxObjects -> Seq(Effects)]
             /\ k \in P => /\ buffer'[k][object[k]] = Content(k) \o t[k]
                           /\ \A d \in 1 .. MaxObjects :
                                buffer'[k][d] = IF d = object[k] THEN Content(k) \o t[k]
                                                ELSE buffer[k][d]
  <2>1. CASE k \notin P
    BY <1>3, <1>5, <2>1
  <2>2. CASE k \in P
    <3> DEFINE f == buffer[k]
               v == Content(k) \o t[k]
    <3>1. f \in [1 .. MaxObjects -> Seq(Effects)] /\ v \in Seq(Effects)
      BY <1>0, <1>3, <2>2
    <3>2. object[k] \in 1 .. MaxObjects /\ buffer'[k] = [f EXCEPT ![object[k]] = v]
      BY <1>2, <1>5, <2>2
    <3> HIDE DEF f, v
    <3>3. /\ buffer'[k] \in [1 .. MaxObjects -> Seq(Effects)]
          /\ buffer'[k][object[k]] = v
          /\ \A d \in 1 .. MaxObjects : buffer'[k][d] = IF d = object[k] THEN v ELSE f[d]
      BY <3>1, <3>2
    <3> QED
      BY <2>2, <3>3 DEF f, v
  <2> QED
    BY <2>1, <2>2
<1>7. buffer' \in [Keys -> [1 .. MaxObjects -> Seq(Effects)]]
  <2>1. buffer' = [k \in Keys |-> buffer'[k]]
    BY <1>1
  <2> QED
    BY <1>6, <2>1
<1>8. ASSUME NEW k \in Keys
      PROVE  Content(k)' = IF k \in K THEN Content(k) \o t[k] ELSE Content(k)
  <2>1. Content(k)' = IF k \in P THEN Content(k) \o t[k] ELSE Content(k)
    BY <1>1, <1>2, <1>5, <1>6 DEF Content, ContentOf
  <2>2. k \in K \ P => Content(k) \o t[k] = Content(k)
    BY <1>0, <1>3, ConcatEmptySeq
  <2> QED
    BY <1>0, <2>1, <2>2
<1>9. ASSUME NEW k \in K, NEW d \in 1 .. MaxObjects
      PROVE  /\ buffer'[k][d] \in {buffer[k][d], Content(k) \o t[k]}
             /\ d \in Referenced(k) => Len(buffer[k][d]) <= Len(buffer'[k][d])
  <2>1. k \in Keys /\ buffer[k][d] \in Seq(Effects) /\ Len(buffer[k][d]) \in Nat
    <3>1. k \in Keys
      OBVIOUS
    <3>2. buffer[k][d] \in Seq(Effects)
      BY <3>1 DEF TypeOK
    <3> QED
      BY <3>1, <3>2, LenProperties
  <2>2. CASE d # object[k] \/ k \notin P
    <3>1. buffer'[k][d] = buffer[k][d]
      <4>1. CASE k \notin P
        <5>1. buffer'[k] = buffer[k]
          BY <1>5, <2>1, <4>1
        <5> QED
          BY <5>1
      <4>2. CASE k \in P /\ d # object[k]
        BY <1>6, <2>1, <4>2
      <4> QED
        BY <2>2, <4>1, <4>2
    <3> QED
      BY <2>1, <3>1
  <2>3. CASE d = object[k] /\ k \in P /\ d \notin Referenced(k)
    BY <1>6, <2>1, <2>3
  <2>4. CASE d = object[k] /\ k \in P /\ d = hooks[k]
    <3>1. Content(k) = buffer[k][d]
      BY <1>2, <2>1, <2>4, ContentType
    <3>2. Len(Content(k) \o t[k]) = Len(Content(k)) + Len(t[k]) /\ Len(t[k]) \in Nat
      BY <1>0, <2>1, <3>1, ConcatProperties, LenProperties
    <3>3. buffer'[k][d] = Content(k) \o t[k]
      BY <1>6, <2>1, <2>4
    <3>4. Len(buffer[k][d]) <= Len(Content(k) \o t[k])
      BY <2>1, <3>1, <3>2
    <3> QED
      BY <3>3, <3>4
  <2> QED
    BY <1>2, <2>1, <2>2, <2>3, <2>4
<1> QED
  BY <1>0, <1>1, <1>2, <1>4, <1>5, <1>7, <1>8, <1>9

-----------------------------------------------------------------------------
(* The invariant.                                                          *)

Alive == phase \in {"open", "committed"}
Recorded == {"created", "finished"}
FirstOf(r, n) == {r[i] : i \in 1 .. n}

(* The hooks hold effects of the writes W only, and all that the recorded  *)
(* ones of them need.                                                      *)
Matches(content, W, st) ==
  /\ \A k \in LibraryKeys : Elements(content[k]) \subseteq W
  /\ \A e \in W :
       /\ st[e] \in Recorded =>
            e \in Elements(content["events"]) \cap Elements(content["notify"])
       /\ st[e] = "created" => e \in Elements(content["undo"])

(* A snapshot of hooks that matched the writes there were.                 *)
View(s, r, st) ==
  /\ \A k \in LibraryKeys : /\ s.length[k] = Len(s.content[k])
                            /\ s.hooks[k] = 0 => s.content[k] = <<>>
  /\ Matches(s.content, FirstOf(r, s.rows), st)

(* What has happened since snapshot s up to snapshot t added to it.        *)
Within(s, t) ==
  /\ s.rows <= t.rows
  /\ \A k \in LibraryKeys : /\ s.hooks[k] # 0 => t.hooks[k] = s.hooks[k]
                            /\ Prefix(s.content[k], t.content[k])

(* The present now, the savepoints sv and the writes r agree.              *)
NestedIn(now, sv, r, st) ==
  /\ View(now, r, st) /\ Distinct(now.content["undo"])
  /\ \A i \in 1 .. Len(sv) : View(sv[i], r, st) /\ Within(sv[i], now)
  /\ \A i, j \in 1 .. Len(sv) : i < j => Within(sv[i], sv[j])

Nested == NestedIn(Snapshot, saved, rows, status)

UserBuffered ==
  \A d \in 1 .. MaxObjects : \A e \in Elements(buffer["user"][d]) : status[e] = "user"

Rows ==
  /\ Distinct(rows)
  /\ \A e \in Elements(rows) : status[e] \in Recorded \cup {"failed"}
  /\ \A e \in Effects : status[e] = "new" => ended[e] = 0
  /\ UserBuffered

Spans ==
  \A e \in Effects :
    status[e] = "created" => ended[e] = (IF e \in Elements(rows) THEN 0 ELSE 1)

(* User code may replace its hook; the objects the savepoints hold keep    *)
(* what they were marked to have.                                          *)
Marks ==
  /\ \A i \in 1 .. Len(saved) :
       saved[i].hooks["user"] # 0 =>
         saved[i].length["user"] <= Len(buffer["user"][saved[i].hooks["user"]])
  /\ \A i, j \in 1 .. Len(saved) :
       i < j /\ saved[i].hooks["user"] # 0 /\ saved[i].hooks["user"] = saved[j].hooks["user"]
         => saved[i].length["user"] <= saved[j].length["user"]

IInv ==
  /\ TypeOK /\ Rows /\ Marks
  /\ Alive => Nested /\ Spans /\ fired = {}
  /\ phase = "committed" => saved = <<>> /\ ~throwing

-----------------------------------------------------------------------------
(* Snapshots that stay what they are.                                      *)

LEMMA MarksKept ==
  ASSUME TypeOK, Marks, saved' = saved,
         \A d \in 1 .. MaxObjects : d \in Referenced("user") =>
           /\ Len(buffer'["user"][d]) \in Nat
           /\ Len(buffer["user"][d]) <= Len(buffer'["user"][d])
  PROVE  Marks'
<1> SUFFICES ASSUME NEW i \in 1 .. Len(saved), saved[i].hooks["user"] # 0
             PROVE  saved[i].length["user"] <= Len(buffer'["user"][saved[i].hooks["user"]])
  BY DEF Marks
<1> DEFINE d == saved[i].hooks["user"]
<1>1. saved[i] \in SnapshotType
  BY ElementOfSeq DEF TypeOK
<1>2. d \in 1 .. MaxObjects /\ saved[i].length["user"] \in Nat
  BY <1>1, BoundsType DEF SnapshotType, Keys
<1>3. d \in Referenced("user")
  BY DEF Referenced
<1>4. Len(buffer["user"][d]) \in Nat
  BY <1>2, LenProperties DEF TypeOK, Keys
<1>5. saved[i].length["user"] <= Len(buffer["user"][d])
  BY DEF Marks
<1>6. Len(buffer'["user"][d]) \in Nat /\ Len(buffer["user"][d]) <= Len(buffer'["user"][d])
  BY <1>2, <1>3
<1> HIDE DEF d
<1>7. saved[i].length["user"] <= Len(buffer'["user"][d])
  BY <1>2, <1>4, <1>5, <1>6
<1> QED
  BY <1>7 DEF d

LEMMA ViewKept ==
  ASSUME NEW s \in SnapshotType, NEW r \in Seq(Effects), NEW q \in Seq(Effects),
         NEW st \in [Effects -> Statuses], NEW su \in [Effects -> Statuses],
         View(s, r, st), FirstOf(q, s.rows) = FirstOf(r, s.rows),
         \A e \in FirstOf(r, s.rows) : su[e] = st[e]
  PROVE  View(s, q, su)
BY DEF View, Matches

LEMMA WithinTransitive ==
  ASSUME NEW s \in SnapshotType, NEW t \in SnapshotType, NEW u \in SnapshotType,
         Within(s, t), Within(t, u)
  PROVE  Within(s, u)
<1>1. s.rows \in Nat /\ t.rows \in Nat /\ u.rows \in Nat
  BY DEF SnapshotType
<1>2. ASSUME NEW k \in LibraryKeys
      PROVE  Prefix(s.content[k], u.content[k])
  <2>1. s.content[k] \in Seq(Effects) /\ t.content[k] \in Seq(Effects)
        /\ u.content[k] \in Seq(Effects)
    BY DEF SnapshotType, LibraryKeys, Keys
  <2>2. Len(s.content[k]) \in Nat /\ Len(t.content[k]) \in Nat /\ Len(u.content[k]) \in Nat
    BY <2>1, LenProperties
  <2>3. Prefix(s.content[k], t.content[k]) /\ Prefix(t.content[k], u.content[k])
    BY DEF Within
  <2> DEFINE a == s.content[k]
             b == t.content[k]
             c == u.content[k]
  <2>4. /\ Len(a) \in Nat /\ Len(b) \in Nat /\ Len(c) \in Nat
        /\ Prefix(a, b) /\ Prefix(b, c)
    BY <2>2, <2>3
  <2> HIDE DEF a, b, c
  <2>5. Prefix(a, c)
    BY <2>4 DEF Prefix
  <2> QED
    BY <2>5 DEF a, c
<1> QED
  BY <1>1, <1>2 DEF Within

(* What matches the writes there are.                                      *)
LEMMA MatchesNow ==
  ASSUME TypeOK, Nested
  PROVE  /\ FirstOf(rows, Len(rows)) = Elements(rows)
         /\ \A k \in LibraryKeys : Elements(Content(k)) \subseteq Elements(rows)
         /\ \A e \in Elements(rows) :
              /\ status[e] \in Recorded =>
                   e \in Elements(Content("events")) \cap Elements(Content("notify"))
              /\ status[e] = "created" => e \in Elements(Content("undo"))
         /\ Distinct(Content("undo"))
<1>1. FirstOf(rows, Len(rows)) = Elements(rows)
  BY DEF FirstOf, Elements
<1>2. Snapshot.rows = Len(rows) /\ \A k \in LibraryKeys : Snapshot.content[k] = Content(k)
  BY SnapshotNow DEF LibraryKeys, Keys, Present
<1>3. Matches(Snapshot.content, Elements(rows), status) /\ Distinct(Snapshot.content["undo"])
  BY <1>1, <1>2 DEF Nested, NestedIn, View
<1> QED
  BY <1>1, <1>2, <1>3 DEF Matches, LibraryKeys

(* A savepoint has seen no more than there is.                             *)
LEMMA SavedBelow ==
  ASSUME NEW now \in SnapshotType, NEW sv \in Seq(SnapshotType), NEW r \in Seq(Effects),
         NEW st \in [Effects -> Statuses],
         NestedIn(now, sv, r, st), now.rows = Len(r), NEW i \in 1 .. Len(sv)
  PROVE  /\ sv[i] \in SnapshotType
         /\ sv[i].rows \in Nat /\ sv[i].rows <= Len(r)
         /\ FirstOf(r, sv[i].rows) \subseteq Elements(r)
         /\ View(sv[i], r, st) /\ Within(sv[i], now)
<1>1. sv[i] \in SnapshotType
  BY ElementOfSeq
<1>2. View(sv[i], r, st) /\ Within(sv[i], now)
  BY DEF NestedIn
<1>3. sv[i].rows \in Nat /\ sv[i].rows <= Len(r)
  BY <1>1, <1>2 DEF SnapshotType, Within
<1>4. Len(r) \in Nat
  BY LenProperties
<1> QED
  BY <1>1, <1>2, <1>3, <1>4 DEF FirstOf, Elements

LEMMA FirstOfPrefix ==
  ASSUME NEW r \in Seq(Effects), NEW q \in Seq(Effects), Prefix(r, q),
         NEW n \in Nat, n <= Len(r)
  PROVE  FirstOf(q, n) = FirstOf(r, n)
<1>1. Len(r) \in Nat
  BY LenProperties
<1>2. \A i \in 1 .. n : q[i] = r[i]
  BY <1>1 DEF Prefix
<1> QED
  BY <1>2 DEF FirstOf

-----------------------------------------------------------------------------
(* What keeps the present, the savepoints and the writes in agreement.     *)

SameOn(E, st, su) == \A e \in E : su[e] = st[e]

(* The present and the writes grow.                                        *)
LEMMA NestedGrows ==
  ASSUME NEW now \in SnapshotType, NEW next \in SnapshotType,
         NEW sv \in Seq(SnapshotType),
         NEW r \in Seq(Effects), NEW q \in Seq(Effects),
         NEW st \in [Effects -> Statuses], NEW su \in [Effects -> Statuses],
         NestedIn(now, sv, r, st), now.rows = Len(r), Prefix(r, q),
         SameOn(Elements(r), st, su),
         Within(now, next), View(next, q, su), Distinct(next.content["undo"])
  PROVE  NestedIn(next, sv, q, su)
<1>1. ASSUME NEW i \in 1 .. Len(sv)
      PROVE  View(sv[i], q, su) /\ Within(sv[i], next)
  <2>1. /\ sv[i] \in SnapshotType /\ sv[i].rows \in Nat /\ sv[i].rows <= Len(r)
        /\ FirstOf(r, sv[i].rows) \subseteq Elements(r)
        /\ View(sv[i], r, st) /\ Within(sv[i], now)
    BY SavedBelow
  <2>2. FirstOf(q, sv[i].rows) = FirstOf(r, sv[i].rows)
    BY <2>1, FirstOfPrefix
  <2>3. View(sv[i], q, su)
    BY <2>1, <2>2, ViewKept DEF SameOn
  <2>4. Within(sv[i], next)
    BY <2>1, WithinTransitive
  <2> QED
    BY <2>3, <2>4
<1> QED
  BY <1>1 DEF NestedIn

LEMMA NestedOpens ==
  ASSUME NEW now \in SnapshotType, NEW sv \in Seq(SnapshotType),
         NEW r \in Seq(Effects), NEW st \in [Effects -> Statuses],
         NestedIn(now, sv, r, st)
  PROVE  NestedIn(now, Append(sv, now), r, st)
<1> DEFINE tv == Append(sv, now)
<1>1. /\ Len(sv) \in Nat /\ Len(tv) = Len(sv) + 1
      /\ \A i \in 1 .. Len(sv) : tv[i] = sv[i]
      /\ tv[Len(sv) + 1] = now
  BY AppendProperties, LenProperties
<1>2. Within(now, now)
  <2>1. now.rows \in Nat /\ \A k \in LibraryKeys : now.content[k] \in Seq(Effects)
    BY DEF SnapshotType, LibraryKeys, Keys
  <2> QED
    BY <2>1, PrefixReflexive DEF Within
<1> HIDE DEF tv
<1>3. ASSUME NEW i \in 1 .. Len(tv)
      PROVE  View(tv[i], r, st) /\ Within(tv[i], now)
  <2>1. CASE i \in 1 .. Len(sv)
    BY <1>1, <2>1 DEF NestedIn
  <2>2. CASE i = Len(sv) + 1
    BY <1>1, <1>2, <2>2 DEF NestedIn
  <2> QED
    BY <1>1, <2>1, <2>2
<1>4. ASSUME NEW i \in 1 .. Len(tv), NEW j \in 1 .. Len(tv), i < j
      PROVE  Within(tv[i], tv[j])
  <2>1. i \in 1 .. Len(sv)
    BY <1>1, <1>4
  <2>2. CASE j \in 1 .. Len(sv)
    BY <1>1, <1>4, <2>1, <2>2 DEF NestedIn
  <2>3. CASE j = Len(sv) + 1
    BY <1>1, <1>3, <2>3
  <2> QED
    BY <1>1, <2>2, <2>3
<1> QED
  BY <1>3, <1>4 DEF NestedIn, tv

LEMMA NestedReleases ==
  ASSUME NEW now \in SnapshotType, NEW sv \in Seq(SnapshotType), sv # <<>>,
         NEW r \in Seq(Effects), NEW st \in [Effects -> Statuses],
         NestedIn(now, sv, r, st)
  PROVE  NestedIn(now, Butlast(sv), r, st)
<1>1. /\ Len(sv) \in Nat \ {0} /\ Len(Butlast(sv)) = Len(sv) - 1
      /\ \A i \in 1 .. Len(sv) - 1 : Butlast(sv)[i] = sv[i]
  BY ButlastProperties
<1>2. \A i \in 1 .. Len(Butlast(sv)) : i \in 1 .. Len(sv) /\ Butlast(sv)[i] = sv[i]
  BY <1>1
<1> QED
  BY <1>2 DEF NestedIn

(* The present becomes the last savepoint again.                           *)
LEMMA NestedCut ==
  ASSUME NEW now \in SnapshotType, NEW next \in SnapshotType,
         NEW sv \in Seq(SnapshotType), sv # <<>>,
         NEW r \in Seq(Effects), NEW st \in [Effects -> Statuses],
         NestedIn(now, sv, r, st), now.rows = Len(r),
         Distinct(next.content["undo"]),
         next.rows = sv[Len(sv)].rows,
         \A k \in LibraryKeys : /\ next.hooks[k] = sv[Len(sv)].hooks[k]
                                /\ next.length[k] = sv[Len(sv)].length[k]
                                /\ next.content[k] = sv[Len(sv)].content[k]
  PROVE  NestedIn(next, Butlast(sv), SubSeq(r, 1, next.rows), st)
<1> DEFINE n == Len(sv)
           q == SubSeq(r, 1, next.rows)
<1>1. /\ n \in Nat \ {0} /\ Len(Butlast(sv)) = n - 1
      /\ \A i \in 1 .. n - 1 : Butlast(sv)[i] = sv[i]
  BY ButlastProperties
<1>2. n \in 1 .. Len(sv)
  BY <1>1
<1>3. /\ sv[n] \in SnapshotType /\ sv[n].rows \in Nat /\ sv[n].rows <= Len(r)
      /\ View(sv[n], r, st)
  BY <1>2, SavedBelow
<1>4. /\ q \in Seq(Effects) /\ Len(q) = next.rows
      /\ \A i \in 1 .. next.rows : q[i] = r[i]
  BY <1>3, CutProperties
<1> HIDE DEF q
<1>5. ASSUME NEW m \in Nat, m <= next.rows
      PROVE  FirstOf(q, m) = FirstOf(r, m)
  <2>1. \A i \in 1 .. m : q[i] = r[i]
    BY <1>3, <1>4, <1>5
  <2> QED
    BY <2>1 DEF FirstOf
<1>6. View(next, q, st)
  <2>1. View(sv[n], q, st)
    BY <1>3, <1>4, <1>5, ViewKept
  <2> QED
    BY <2>1 DEF View, Matches, LibraryKeys
<1>7. ASSUME NEW i \in 1 .. Len(Butlast(sv))
      PROVE  View(Butlast(sv)[i], q, st) /\ Within(Butlast(sv)[i], next)
  <2>1. i \in 1 .. n /\ i < n /\ Butlast(sv)[i] = sv[i]
    BY <1>1
  <2>2. sv[i] \in SnapshotType /\ sv[i].rows \in Nat /\ View(sv[i], r, st)
    BY <2>1, SavedBelow
  <2>3. Within(sv[i], sv[n])
    BY <1>2, <2>1 DEF NestedIn
  <2>4. Within(sv[i], next)
    BY <2>3 DEF Within
  <2>5. FirstOf(q, sv[i].rows) = FirstOf(r, sv[i].rows)
    BY <1>5, <2>2, <2>4 DEF Within
  <2>6. View(sv[i], q, st)
    BY <1>4, <2>2, <2>5, ViewKept
  <2> QED
    BY <2>1, <2>4, <2>6
<1>8. ASSUME NEW i \in 1 .. Len(Butlast(sv)), NEW j \in 1 .. Len(Butlast(sv)), i < j
      PROVE  Within(Butlast(sv)[i], Butlast(sv)[j])
  BY <1>1, <1>8 DEF NestedIn
<1> QED
  BY <1>6, <1>7, <1>8 DEF NestedIn, q

-----------------------------------------------------------------------------
(* Writes.                                                                 *)

LEMMA WriteAdds ==
  ASSUME TypeOK, Rows, NEW s \in Seq(Effects), Distinct(s), NEW as \in Statuses,
         Write(s, as)
  PROVE  /\ rows' \in Seq(Effects) /\ rows' = rows \o s
         /\ Prefix(rows, rows') /\ Distinct(rows')
         /\ Elements(rows') = Elements(rows) \cup Elements(s)
         /\ Elements(rows) \cap Elements(s) = {}
         /\ status' \in [Effects -> Statuses]
         /\ \A e \in Effects : status'[e] = IF e \in Elements(s) THEN as ELSE status[e]
         /\ \A e \in Elements(s) : status[e] = "new"
<1>1. rows \in Seq(Effects) /\ status \in [Effects -> Statuses]
  BY DEF TypeOK
<1>2. /\ rows' = rows \o s
      /\ status' = [e \in Effects |-> IF e \in Elements(s) THEN as ELSE status[e]]
      /\ \A e \in Elements(s) : status[e] = "new"
  BY DEF Write
<1>3. Elements(rows) \cap Elements(s) = {}
  BY <1>2 DEF Rows, Recorded
<1>4. rows' \in Seq(Effects) /\ Elements(rows') = Elements(rows) \cup Elements(s)
  BY <1>1, <1>2, ConcatProperties, ElementsOfConcat
<1>5. Distinct(rows')
  BY <1>1, <1>2, <1>3, DistinctConcat DEF Rows
<1>6. Prefix(rows, rows')
  BY <1>1, <1>2, PrefixReflexive, PrefixConcat
<1>7. status' \in [Effects -> Statuses]
  BY <1>1, <1>2
<1> QED
  BY <1>2, <1>3, <1>4, <1>5, <1>6, <1>7

(* From now to next, t is added under each key, for writes of s.           *)
Adds(now, next, t, s) ==
  \A k \in LibraryKeys :
    /\ next.length[k] = Len(next.content[k])
    /\ next.hooks[k] = 0 => next.content[k] = <<>>
    /\ now.hooks[k] # 0 => next.hooks[k] = now.hooks[k]
    /\ next.content[k] = now.content[k] \o t[k]
    /\ Elements(t[k]) \subseteq Elements(s)

(* What a write with status as buffers: all of it, the callbacks when it   *)
(* creates jobs.                                                           *)
Buffers(t, s, as) ==
  /\ Distinct(t["undo"])
  /\ as \in Recorded => t["events"] = s /\ t["notify"] = s
  /\ as = "created" => t["undo"] = s

(* The elements of s, new before, are written with status as.              *)
Written(r, q, s, st, su, as) ==
  /\ Prefix(r, q) /\ Elements(q) = Elements(r) \cup Elements(s)
  /\ Elements(r) \cap Elements(s) = {}
  /\ \A e \in Effects : su[e] = IF e \in Elements(s) THEN as ELSE st[e]

(* Writes s and what is buffered with them, t per key, leave the hooks and *)
(* the writes in agreement.                                                *)
LEMMA RecordView ==
  ASSUME NEW now \in SnapshotType, NEW next \in SnapshotType,
         NEW r \in Seq(Effects), NEW q \in Seq(Effects), NEW s \in Seq(Effects),
         NEW st \in [Effects -> Statuses], NEW su \in [Effects -> Statuses],
         NEW as \in Statuses, NEW t \in [LibraryKeys -> Seq(Effects)],
         View(now, r, st), Distinct(now.content["undo"]),
         now.rows = Len(r), next.rows = Len(q),
         Written(r, q, s, st, su, as), Adds(now, next, t, s), Buffers(t, s, as)
  PROVE  Within(now, next) /\ View(next, q, su) /\ Distinct(next.content["undo"])
<1>1. /\ FirstOf(r, now.rows) = Elements(r) /\ FirstOf(q, next.rows) = Elements(q)
      /\ Len(r) \in Nat /\ Len(q) \in Nat /\ now.rows <= next.rows
  BY LenProperties DEF FirstOf, Elements, Prefix, Written
<1>2. ASSUME NEW k \in LibraryKeys
      PROVE  /\ now.content[k] \in Seq(Effects) /\ t[k] \in Seq(Effects)
             /\ Elements(now.content[k]) \subseteq Elements(r)
             /\ Elements(next.content[k]) = Elements(now.content[k]) \cup Elements(t[k])
             /\ Prefix(now.content[k], next.content[k])
  <2>1. now.content[k] \in Seq(Effects) /\ t[k] \in Seq(Effects)
    BY DEF SnapshotType, LibraryKeys, Keys
  <2>2. next.content[k] = now.content[k] \o t[k]
    BY DEF Adds
  <2>3. Elements(now.content[k]) \subseteq Elements(r)
    BY <1>1 DEF View, Matches
  <2> QED
    BY <2>1, <2>2, <2>3, ElementsOfConcat, PrefixReflexive, PrefixConcat
<1>3. Within(now, next)
  BY <1>1, <1>2 DEF Within, Adds
<1>4. Distinct(next.content["undo"])
  <2>1. "undo" \in LibraryKeys
    BY DEF LibraryKeys
  <2>2. Elements(now.content["undo"]) \cap Elements(t["undo"]) = {}
    BY <1>2, <2>1 DEF Adds, Written
  <2>3. next.content["undo"] = now.content["undo"] \o t["undo"] /\ Distinct(t["undo"])
    BY <2>1 DEF Adds, Buffers
  <2>4. now.content["undo"] \in Seq(Effects) /\ t["undo"] \in Seq(Effects)
    BY <1>2, <2>1
  <2> QED
    BY <2>2, <2>3, <2>4, DistinctConcat
<1>5. Matches(next.content, Elements(q), su)
  <2>1. \A k \in LibraryKeys : Elements(next.content[k]) \subseteq Elements(q)
    BY <1>2 DEF Adds, Written
  <2>2. "events" \in LibraryKeys /\ "notify" \in LibraryKeys /\ "undo" \in LibraryKeys
    BY DEF LibraryKeys
  <2>3. ASSUME NEW e \in Elements(r)
        PROVE  /\ su[e] \in Recorded =>
                    e \in Elements(next.content["events"]) \cap Elements(next.content["notify"])
               /\ su[e] = "created" => e \in Elements(next.content["undo"])
    <3>1. e \in Effects /\ su[e] = st[e]
      BY <2>3, ElementsIn DEF Written
    <3>2. /\ st[e] \in Recorded =>
               e \in Elements(now.content["events"]) \cap Elements(now.content["notify"])
          /\ st[e] = "created" => e \in Elements(now.content["undo"])
      BY <1>1 DEF View, Matches
    <3> QED
      BY <1>2, <2>2, <3>1, <3>2
  <2>4. ASSUME NEW e \in Elements(s)
        PROVE  /\ su[e] \in Recorded =>
                    e \in Elements(next.content["events"]) \cap Elements(next.content["notify"])
               /\ su[e] = "created" => e \in Elements(next.content["undo"])
    <3>1. e \in Effects /\ su[e] = as
      BY <2>4, ElementsIn DEF Written
    <3>2. as \in Recorded => e \in Elements(t["events"]) /\ e \in Elements(t["notify"])
      BY DEF Buffers
    <3>3. as = "created" => e \in Elements(t["undo"])
      BY DEF Buffers
    <3>4. \A k \in LibraryKeys : Elements(t[k]) \subseteq Elements(next.content[k])
      BY <1>2
    <3>5. /\ Elements(t["events"]) \subseteq Elements(next.content["events"])
          /\ Elements(t["notify"]) \subseteq Elements(next.content["notify"])
          /\ Elements(t["undo"]) \subseteq Elements(next.content["undo"])
      BY <2>2, <3>4
    <3> QED
      BY <3>1, <3>2, <3>3, <3>5
  <2> QED
    BY <2>1, <2>3, <2>4 DEF Matches, Written
<1> QED
  BY <1>1, <1>3, <1>4, <1>5 DEF View, Adds

LEMMA RecordNested ==
  ASSUME TypeOK, TypeOK', Rows, Nested, saved' = saved,
         NEW s \in Seq(Effects), Distinct(s), NEW as \in Statuses, Write(s, as),
         NEW t \in [LibraryKeys -> Seq(Effects)],
         \A k \in LibraryKeys : /\ Content(k)' = Content(k) \o t[k]
                                /\ hooks[k] # 0 => hooks'[k] = hooks[k]
                                /\ Elements(t[k]) \subseteq Elements(s),
         Buffers(t, s, as)
  PROVE  Nested'
<1> DEFINE now == Snapshot
           next == Snapshot'
<1>1. /\ rows \in Seq(Effects) /\ rows' \in Seq(Effects) /\ saved \in Seq(SnapshotType)
      /\ status \in [Effects -> Statuses] /\ status' \in [Effects -> Statuses]
  BY DEF TypeOK
<1>2. /\ now \in SnapshotType /\ now.hooks = hooks /\ now.rows = Len(rows)
      /\ \A k \in LibraryKeys : now.content[k] = Content(k)
  BY SnapshotNow DEF Present, LibraryKeys, Keys
<1>3. /\ next \in SnapshotType /\ next.hooks = hooks' /\ next.rows = Len(rows')
      /\ \A k \in LibraryKeys : /\ next.content[k] = Content(k)'
                                /\ next.length[k] = Len(Content(k)')
                                /\ hooks'[k] = 0 => Content(k)' = <<>>
  BY SnapshotNext DEF Present, LibraryKeys, Keys
<1>4. NestedIn(now, saved, rows, status)
  BY DEF Nested
<1> HIDE DEF now, next
<1>5. /\ Prefix(rows, rows') /\ Elements(rows') = Elements(rows) \cup Elements(s)
      /\ Elements(rows) \cap Elements(s) = {}
      /\ \A e \in Effects : status'[e] = IF e \in Elements(s) THEN as ELSE status[e]
  BY WriteAdds
<1>6. Within(now, next) /\ View(next, rows', status') /\ Distinct(next.content["undo"])
  <2>1. View(now, rows, status) /\ Distinct(now.content["undo"])
    BY <1>4 DEF NestedIn
  <2>2. Adds(now, next, t, s)
    BY <1>2, <1>3 DEF Adds
  <2>3. now.rows = Len(rows) /\ next.rows = Len(rows')
    BY <1>2, <1>3
  <2>4. now \in SnapshotType /\ next \in SnapshotType
    BY <1>2, <1>3
  <2>5. Written(rows, rows', s, status, status', as)
    BY <1>5 DEF Written
  <2> QED
    BY <1>1, <2>1, <2>2, <2>3, <2>4, <2>5, RecordView
<1>7. SameOn(Elements(rows), status, status')
  BY <1>1, <1>5, ElementsIn DEF SameOn
<1>8. NestedIn(next, saved, rows', status')
  BY <1>1, <1>2, <1>3, <1>4, <1>5, <1>6, <1>7, NestedGrows
<1> QED
  BY <1>8 DEF Nested, next

(* Nothing of the library's changes.                                       *)
LEMMA QuietNested ==
  ASSUME TypeOK, TypeOK', Nested, UNCHANGED <<saved, rows>>,
         \A k \in LibraryKeys : Content(k)' = Content(k) /\ hooks'[k] = hooks[k],
         \A e \in Elements(rows) : status'[e] = status[e]
  PROVE  Nested'
<1> DEFINE now == Snapshot
           next == Snapshot'
<1>1. /\ rows \in Seq(Effects) /\ saved \in Seq(SnapshotType)
      /\ status \in [Effects -> Statuses] /\ status' \in [Effects -> Statuses]
  BY DEF TypeOK
<1>2. /\ now \in SnapshotType /\ now.hooks = hooks /\ now.rows = Len(rows)
      /\ \A k \in LibraryKeys : /\ now.content[k] = Content(k)
                                /\ now.length[k] = Len(Content(k))
  BY SnapshotNow DEF Present, LibraryKeys, Keys
<1>3. /\ next \in SnapshotType /\ next.hooks = hooks' /\ next.rows = Len(rows)
      /\ \A k \in LibraryKeys : /\ next.content[k] = Content(k)'
                                /\ next.length[k] = Len(Content(k)')
  BY SnapshotNext DEF Present, LibraryKeys, Keys
<1>4. NestedIn(now, saved, rows, status)
  BY DEF Nested
<1> HIDE DEF now, next
<1>5. \A k \in LibraryKeys : /\ next.hooks[k] = now.hooks[k]
                             /\ next.length[k] = now.length[k]
                             /\ next.content[k] = now.content[k]
                             /\ now.content[k] \in Seq(Effects)
  BY <1>2, <1>3 DEF SnapshotType, LibraryKeys, Keys
<1>6. Within(now, next)
  <2>1. now.rows \in Nat /\ next.rows = now.rows
    BY <1>2, <1>3 DEF SnapshotType
  <2> QED
    BY <1>5, <2>1, PrefixReflexive DEF Within
<1>7. FirstOf(rows, now.rows) = Elements(rows)
  BY <1>2 DEF FirstOf, Elements
<1>8. View(next, rows, status') /\ Distinct(next.content["undo"])
  <2>1. View(now, rows, status) /\ Distinct(now.content["undo"])
    BY <1>4 DEF NestedIn
  <2>2. View(now, rows, status')
    BY <1>1, <1>2, <1>7, <2>1, ViewKept
  <2>3. next.rows = now.rows
    BY <1>2, <1>3
  <2> QED
    BY <1>5, <2>1, <2>2, <2>3 DEF View, Matches, LibraryKeys
<1>9. SameOn(Elements(rows), status, status') /\ Prefix(rows, rows) /\ now.rows = Len(rows)
  BY <1>1, <1>2, PrefixReflexive DEF SameOn
<1>10. now \in SnapshotType /\ next \in SnapshotType
  BY <1>2, <1>3
<1>11. NestedIn(next, saved, rows, status')
  BY <1>1, <1>4, <1>6, <1>8, <1>9, <1>10, NestedGrows
<1> QED
  BY <1>11 DEF Nested, next

LEMMA RecordRows ==
  ASSUME TypeOK, Rows, Spans, NEW s \in Seq(Effects), Distinct(s),
         NEW as \in Recorded \cup {"failed"}, Write(s, as),
         buffer'["user"] = buffer["user"],
         \A e \in Effects \ Elements(s) : ended'[e] = ended[e],
         as = "created" => ended' = ended
  PROVE  Rows' /\ Spans'
<1>0. as \in Statuses
  BY DEF Statuses, Recorded
<1>1. /\ Distinct(rows')
      /\ Elements(rows') = Elements(rows) \cup Elements(s)
      /\ \A e \in Effects : status'[e] = IF e \in Elements(s) THEN as ELSE status[e]
      /\ \A e \in Elements(s) : status[e] = "new"
  BY <1>0, WriteAdds
<1>2. Elements(rows) \subseteq Effects /\ Elements(s) \subseteq Effects
  BY ElementsIn DEF TypeOK
<1>3. ASSUME NEW e \in Elements(rows')
      PROVE  status'[e] \in Recorded \cup {"failed"}
  <2>1. CASE e \in Elements(s)
    BY <1>1, <1>2, <2>1
  <2>2. CASE e \notin Elements(s)
    BY <1>1, <1>2, <1>3, <2>2 DEF Rows
  <2> QED
    BY <2>1, <2>2
<1>4. \A e \in Effects : status'[e] = "new" => ended'[e] = 0
  BY <1>1, <1>2 DEF Rows, Recorded
<1>5. ASSUME NEW d \in 1 .. MaxObjects, NEW e \in Elements(buffer'["user"][d])
      PROVE  status'[e] = "user"
  <2> DEFINE b == buffer["user"][d]
  <2>1. e \in Elements(b) /\ b \in Seq(Effects)
    BY <1>5 DEF TypeOK, Keys
  <2>2. status[e] = "user"
    BY <2>1 DEF Rows, UserBuffered
  <2> HIDE DEF b
  <2>3. e \in Effects
    BY <2>1, ElementsIn
  <2> QED
    BY <1>1, <2>2, <2>3
<1>6. Spans'
  <2> SUFFICES ASSUME NEW e \in Effects, status'[e] = "created"
               PROVE  ended'[e] = IF e \in Elements(rows') THEN 0 ELSE 1
    BY DEF Spans
  <2>1. CASE e \in Elements(s)
    BY <1>1, <2>1 DEF Rows
  <2>2. CASE e \notin Elements(s)
    BY <1>1, <2>2 DEF Spans
  <2> QED
    BY <2>1, <2>2
<1> QED
  BY <1>1, <1>3, <1>4, <1>5, <1>6 DEF Rows, UserBuffered

-----------------------------------------------------------------------------
(* The invariant holds at first, and every action preserves it.            *)

LEMMA InitInv == Init => IInv
<1> SUFFICES ASSUME Init
             PROVE  IInv
  OBVIOUS
<1>1. TypeOK
  <2>1. NoHooks \in [Keys -> 0 .. MaxObjects]
    BY BoundsType DEF NoHooks
  <2>2. <<>> \in Seq(SnapshotType) /\ <<>> \in Seq(Effects)
    BY EmptySeq
  <2>3. buffer \in [Keys -> [1 .. MaxObjects -> Seq(Effects)]]
    BY <2>2 DEF Init
  <2>4. status \in [Effects -> Statuses] /\ ended \in [Effects -> Nat]
    BY DEF Init, Statuses
  <2> QED
    BY <2>1, <2>2, <2>3, <2>4 DEF Init, TypeOK, Phases
<1>2. Len(saved) = 0 /\ Len(rows) = 0 /\ Elements(rows) = {} /\ Distinct(rows)
  BY EmptySeq, ElementsIn DEF Init
<1>3. \A k \in Keys : hooks[k] = 0 /\ Content(k) = <<>>
  BY DEF Init, NoHooks, Content, ContentOf
<1>4. \A k \in LibraryKeys :
        /\ Snapshot.content[k] = <<>> /\ Snapshot.length[k] = 0 /\ Len(Snapshot.content[k]) = 0
        /\ Elements(Snapshot.content[k]) = {} /\ Distinct(Snapshot.content[k])
  <2>1. Len(<<>>) = 0 /\ Elements(<<>>) = {} /\ Distinct(<<>>)
    BY DEF Elements, Distinct
  <2>2. \A k \in LibraryKeys : Snapshot.content[k] = <<>> /\ Snapshot.length[k] = 0
    BY <1>1, <1>3, <2>1, SnapshotNow DEF Present, LibraryKeys, Keys
  <2> QED
    BY <2>1, <2>2
<1>5. Snapshot.rows = 0
  BY <1>1, <1>2, SnapshotNow DEF Present
<1>6. Nested
  <2>1. FirstOf(rows, Snapshot.rows) = {}
    BY <1>5 DEF FirstOf
  <2>2. View(Snapshot, rows, status)
    BY <1>4, <2>1 DEF View, Matches
  <2>3. Distinct(Snapshot.content["undo"])
    BY <1>4 DEF LibraryKeys
  <2> QED
    BY <1>2, <2>2, <2>3 DEF Nested, NestedIn
<1>7. Rows /\ Spans
  <2>1. \A d \in 1 .. MaxObjects : buffer["user"][d] = <<>>
    BY DEF Init, Keys
  <2>2. Elements(<<>>) = {}
    BY DEF Elements
  <2> QED
    BY <1>2, <2>1, <2>2 DEF Init, Rows, UserBuffered, Spans
<1>8. Marks
  BY <1>2 DEF Marks
<1> QED
  BY <1>1, <1>6, <1>7, <1>8 DEF Init, IInv, Alive

LEMMA CreateInv ==
  ASSUME IInv, NEW b \in Batches, Create(b)
  PROVE  IInv'
<1> DEFINE t == [k \in LibraryKeys |-> b]
<1>1. /\ TypeOK /\ Rows /\ Nested /\ Spans /\ fired = {} /\ phase = "open"
      /\ Write(b, "created") /\ Push(t)
      /\ UNCHANGED <<saved, throwing, phase, owner, fired, ended>>
  BY DEF IInv, Alive, Create, Write, Running
<1>2. b \in Seq(Effects) /\ Distinct(b)
  BY BatchType
<1>3. LibraryKeys \in SUBSET Keys /\ "user" \in Keys \ LibraryKeys
  BY DEF LibraryKeys, Keys
<1>11. /\ t \in [LibraryKeys -> Seq(Effects)] /\ Buffers(t, b, "created")
      /\ \A k \in LibraryKeys : t[k] = b
  BY <1>2 DEF Buffers, LibraryKeys
<1> HIDE DEF t
<1>4. /\ hooks' \in [Keys -> 0 .. MaxObjects]
      /\ buffer' \in [Keys -> [1 .. MaxObjects -> Seq(Effects)]]
      /\ \A k \in LibraryKeys : /\ Content(k)' = Content(k) \o t[k]
                                /\ hooks[k] # 0 => hooks'[k] = hooks[k]
      /\ buffer'["user"] = buffer["user"]
  BY <1>1, <1>3, <1>11, PushContent
<1>5. "created" \in Statuses /\ "created" \in Recorded
  BY DEF Statuses, Recorded
<1>6. TypeOK'
  <2>1. rows' \in Seq(Effects) /\ status' \in [Effects -> Statuses]
    BY <1>1, <1>2, <1>5, WriteAdds
  <2> QED
    BY <1>1, <1>4, <2>1 DEF TypeOK
<1>7. Rows' /\ Spans'
  BY <1>1, <1>2, <1>4, <1>5, RecordRows
<1>8. Nested'
  <2>2. \A k \in LibraryKeys : /\ Content(k)' = Content(k) \o t[k]
                               /\ hooks[k] # 0 => hooks'[k] = hooks[k]
                               /\ Elements(t[k]) \subseteq Elements(b)
    BY <1>4, <1>11
  <2> QED
    BY <1>1, <1>2, <1>5, <1>6, <1>11, <2>2, RecordNested
<1>9. Marks'
  BY <1>1, <1>4 DEF IInv, Marks
<1> QED
  BY <1>1, <1>6, <1>7, <1>8, <1>9 DEF IInv

(* A call that fails after writing s: what it has buffered until then, t,  *)
(* is of its writes, and no span but theirs has ended.                     *)
LEMMA FailedCall ==
  ASSUME IInv, NEW s \in Seq(Effects), Distinct(s), Write(s, "failed"),
         NEW K \in SUBSET LibraryKeys, NEW t \in [K -> Seq(Effects)], Push(t),
         \A k \in K : Elements(t[k]) \subseteq Elements(s),
         "undo" \in K => Distinct(t["undo"]),
         throwing' = TRUE, UNCHANGED <<saved, phase, owner, fired>>,
         ended' \in [Effects -> Nat],
         \A e \in Effects \ Elements(s) : ended'[e] = ended[e]
  PROVE  IInv'
<1> DEFINE u == [k \in LibraryKeys |-> IF k \in K THEN t[k] ELSE <<>>]
<1>1. /\ TypeOK /\ Rows /\ Nested /\ Spans /\ fired = {} /\ phase = "open"
  BY DEF IInv, Alive, Write, Running
<1>2. /\ K \in SUBSET Keys /\ LibraryKeys \subseteq Keys /\ "user" \in Keys \ K
      /\ "undo" \in LibraryKeys
  BY DEF LibraryKeys, Keys
<1>3. <<>> \in Seq(Effects) /\ Distinct(<<>>) /\ Elements(<<>>) = {}
  BY EmptySeq, ElementsIn
<1>4. /\ u \in [LibraryKeys -> Seq(Effects)] /\ Distinct(u["undo"])
      /\ \A k \in LibraryKeys : /\ Elements(u[k]) \subseteq Elements(s)
                                /\ u[k] = IF k \in K THEN t[k] ELSE <<>>
  <2>1. \A k \in LibraryKeys : u[k] = IF k \in K THEN t[k] ELSE <<>>
    OBVIOUS
  <2>2. u \in [LibraryKeys -> Seq(Effects)]
    BY <1>3
  <2> HIDE DEF u
  <2> QED
    BY <1>2, <1>3, <2>1, <2>2
<1> HIDE DEF u
<1>5. /\ hooks' \in [Keys -> 0 .. MaxObjects]
      /\ buffer' \in [Keys -> [1 .. MaxObjects -> Seq(Effects)]]
      /\ \A k \in Keys : /\ Content(k)' = IF k \in K THEN Content(k) \o t[k] ELSE Content(k)
                         /\ hooks[k] # 0 => hooks'[k] = hooks[k]
      /\ buffer'["user"] = buffer["user"]
  BY <1>1, <1>2, PushContent
<1>6. "failed" \in Statuses /\ "failed" \notin Recorded /\ "failed" # "created"
  BY DEF Statuses, Recorded
<1>7. TypeOK'
  <2>1. rows' \in Seq(Effects) /\ status' \in [Effects -> Statuses]
    BY <1>1, <1>6, WriteAdds
  <2> QED
    BY <1>1, <1>5, <2>1 DEF TypeOK
<1>8. Rows' /\ Spans'
  BY <1>1, <1>5, <1>6, RecordRows
<1>9. Nested'
  <2>1. Buffers(u, s, "failed")
    BY <1>4, <1>6 DEF Buffers
  <2>2. ASSUME NEW k \in LibraryKeys
        PROVE  /\ Content(k)' = Content(k) \o u[k]
               /\ hooks[k] # 0 => hooks'[k] = hooks[k]
               /\ Elements(u[k]) \subseteq Elements(s)
    <3>1. k \in Keys /\ Content(k) \in Seq(Effects) /\ Content(k) \o <<>> = Content(k)
      BY <1>1, <1>2, ContentType, ConcatEmptySeq
    <3> QED
      BY <1>4, <1>5, <3>1
  <2> QED
    BY <1>1, <1>4, <1>6, <1>7, <2>1, <2>2, RecordNested
<1>10. Marks'
  BY <1>1, <1>5 DEF IInv, Marks
<1> QED
  BY <1>1, <1>7, <1>8, <1>9, <1>10 DEF IInv

LEMMA CreateFailsInv ==
  ASSUME IInv, NEW b \in Batches, CreateFails(b)
  PROVE  IInv'
<1>1. /\ Write(b, "failed") /\ EndSpans(Elements(b)) /\ throwing' = TRUE
      /\ UNCHANGED <<saved, phase, owner, fired>>
  BY DEF CreateFails
<1>2. /\ b \in Seq(Effects) /\ Distinct(b)
      /\ Butlast(b) \in Seq(Effects) /\ Distinct(Butlast(b))
      /\ Elements(Butlast(b)) \subseteq Elements(b)
  BY BatchType, ButlastProperties
<1>3. PICK events \in {b, Butlast(b)} :
        Push([events |-> events, undo |-> Butlast(b), notify |-> Butlast(b)])
  BY DEF CreateFails
<1> DEFINE K == {"events", "undo", "notify"}
           t == [events |-> events, undo |-> Butlast(b), notify |-> Butlast(b)]
<1>4. /\ t \in [K -> Seq(Effects)] /\ t["undo"] = Butlast(b)
      /\ \A k \in K : Elements(t[k]) \subseteq Elements(b)
  BY <1>2
<1>5. ended' \in [Effects -> Nat] /\ \A e \in Effects \ Elements(b) : ended'[e] = ended[e]
  BY <1>1 DEF EndSpans, IInv, TypeOK
<1>6. Push(t) /\ K \in SUBSET LibraryKeys
  BY <1>3 DEF LibraryKeys
<1> HIDE DEF t, K
<1> QED
  BY <1>1, <1>2, <1>4, <1>5, <1>6, FailedCall

LEMMA FinishFailsInv ==
  ASSUME IInv, NEW x \in Effects, FinishFails(x)
  PROVE  IInv'
<1> DEFINE s == <<x>>
           K == {"events", "notify"}
<1>1. /\ Write(s, "failed") /\ throwing' = TRUE
      /\ UNCHANGED <<saved, phase, owner, fired, ended>>
  BY DEF FinishFails
<1>2. /\ s \in Seq(Effects) /\ Distinct(s)
      /\ <<>> \in Seq(Effects) /\ Elements(<<>>) = {}
  BY OneElement, EmptySeq, ElementsIn
<1>3. PICK notify \in {<<>>, s} : Push([events |-> s, notify |-> notify])
  BY DEF FinishFails
<1> DEFINE t == [events |-> s, notify |-> notify]
<1> HIDE DEF s
<1>4. t \in [K -> Seq(Effects)] /\ \A k \in K : Elements(t[k]) \subseteq Elements(s)
  <2>1. notify \in Seq(Effects) /\ Elements(notify) \subseteq Elements(s)
    BY <1>2, <1>3
  <2>2. t \in [K -> Seq(Effects)] /\ t["events"] = s /\ t["notify"] = notify
    BY <1>2, <2>1
  <2> QED
    BY <2>1, <2>2
<1>5. Push(t) /\ K \in SUBSET LibraryKeys /\ "undo" \notin K
  BY <1>3 DEF LibraryKeys
<1>6. ended' \in [Effects -> Nat] /\ \A e \in Effects \ Elements(s) : ended'[e] = ended[e]
  BY <1>1 DEF IInv, TypeOK
<1> HIDE DEF t, K
<1> QED
  BY <1>1, <1>2, <1>4, <1>5, <1>6, FailedCall

LEMMA FinishInv ==
  ASSUME IInv, NEW x \in Effects, Finish(x)
  PROVE  IInv'
<1> DEFINE s == <<x>>
           K == {"events", "notify"}
           p == [events |-> s, notify |-> s]
           t == [k \in LibraryKeys |-> IF k = "undo" THEN <<>> ELSE s]
<1>1. /\ TypeOK /\ Rows /\ Nested /\ Spans /\ fired = {} /\ phase = "open"
      /\ Write(s, "finished") /\ Push(p)
      /\ UNCHANGED <<saved, throwing, phase, owner, fired, ended>>
  BY DEF IInv, Alive, Finish, Write, Running
<1>2. s \in Seq(Effects) /\ Distinct(s)
  BY OneElement
<1>3. /\ K \in SUBSET Keys /\ "user" \in Keys \ K /\ LibraryKeys = K \cup {"undo"}
      /\ LibraryKeys \subseteq Keys /\ "undo" \notin K
  BY DEF LibraryKeys, Keys
<1>4. /\ t \in [LibraryKeys -> Seq(Effects)]
      /\ t["undo"] = <<>> /\ \A k \in K : t[k] = s
      /\ t["events"] = s /\ t["notify"] = s
  BY <1>2, <1>3, EmptySeq
<1> HIDE DEF s
<1>11. p \in [K -> Seq(Effects)] /\ p["events"] = s /\ p["notify"] = s
  BY <1>2
<1>12. \A k \in K : p[k] = s
  BY <1>11
<1> HIDE DEF K, t, p
<1>5. /\ hooks' \in [Keys -> 0 .. MaxObjects]
      /\ buffer' \in [Keys -> [1 .. MaxObjects -> Seq(Effects)]]
      /\ \A k \in Keys : /\ Content(k)' = IF k \in K THEN Content(k) \o s ELSE Content(k)
                         /\ hooks[k] # 0 => hooks'[k] = hooks[k]
      /\ buffer'["user"] = buffer["user"]
  <2>1. ASSUME NEW k \in Keys
        PROVE  Content(k)' = IF k \in K THEN Content(k) \o p[k] ELSE Content(k)
    BY <1>1, <1>3, <1>11, PushContent
  <2> QED
    BY <1>1, <1>3, <1>11, <1>12, <2>1, PushContent
<1>6. "finished" \in Statuses /\ "finished" \in Recorded /\ "finished" # "created"
  BY DEF Statuses, Recorded
<1>7. TypeOK'
  <2>1. rows' \in Seq(Effects) /\ status' \in [Effects -> Statuses]
    BY <1>1, <1>2, <1>6, WriteAdds
  <2> QED
    BY <1>1, <1>5, <2>1 DEF TypeOK
<1>8. Rows' /\ Spans'
  BY <1>1, <1>2, <1>5, <1>6, RecordRows
<1>9. Nested'
  <2>1. Buffers(t, s, "finished")
    BY <1>4, <1>6, ElementsIn, EmptySeq DEF Buffers
  <2>2. ASSUME NEW k \in LibraryKeys
        PROVE  /\ Content(k)' = Content(k) \o t[k]
               /\ hooks[k] # 0 => hooks'[k] = hooks[k]
               /\ Elements(t[k]) \subseteq Elements(s)
    <3>1. k \in Keys /\ Content(k) \in Seq(Effects)
      BY <1>1, <1>3, ContentType
    <3>2. CASE k \in K
      BY <1>4, <1>5, <3>1, <3>2
    <3>3. CASE k = "undo"
      <4>1. Content(k)' = Content(k) /\ Content(k) \o <<>> = Content(k)
        BY <1>3, <1>5, <3>1, <3>3, ConcatEmptySeq
      <4>2. Elements(<<>>) = {}
        BY DEF Elements
      <4> QED
        BY <1>4, <1>5, <3>1, <3>3, <4>1, <4>2
    <3> QED
      BY <1>3, <3>2, <3>3
  <2> QED
    BY <1>1, <1>2, <1>4, <1>6, <1>7, <2>1, <2>2, RecordNested
<1>10. Marks'
  BY <1>1, <1>5 DEF IInv, Marks
<1> QED
  BY <1>1, <1>7, <1>8, <1>9, <1>10 DEF IInv

(* Steps that leave the library's hooks and the writes alone.              *)
Quiet ==
  /\ UNCHANGED <<saved, rows, ended>>
  /\ \A k \in LibraryKeys : Content(k)' = Content(k) /\ hooks'[k] = hooks[k]
  /\ \A e \in Effects :
       status'[e] = status[e] \/ (status[e] = "new" /\ status'[e] = "user")

LEMMA QuietKeeps ==
  ASSUME TypeOK, TypeOK', Rows, Nested, Spans, Quiet, UserBuffered'
  PROVE  Rows' /\ Nested' /\ Spans'
<1>1. Elements(rows) \subseteq Effects
  BY ElementsIn DEF TypeOK
<1>2. \A e \in Elements(rows) : status'[e] = status[e]
  BY <1>1 DEF Rows, Recorded, Quiet
<1>3. Nested'
  BY <1>2, QuietNested DEF Quiet
<1>4. Rows'
  BY <1>2 DEF Rows, Quiet
<1>5. Spans'
  BY DEF Spans, Quiet
<1> QED
  BY <1>3, <1>4, <1>5

LEMMA StillKeeps ==
  ASSUME TypeOK, TypeOK', Rows, Nested, Spans,
         UNCHANGED <<hooks, buffer, saved, rows, status, ended>>
  PROVE  Rows' /\ Nested' /\ Spans'
<1>1. Quiet
  BY DEF Quiet, Content, ContentOf
<1>2. UserBuffered'
  BY DEF Rows, UserBuffered
<1> QED
  BY <1>1, <1>2, QuietKeeps

LEMMA UserBuffersInv ==
  ASSUME IInv, NEW x \in Effects, UserBuffers(x)
  PROVE  IInv'
<1> DEFINE s == <<x>>
           K == {"user"}
           p == [user |-> s]
<1>1. /\ TypeOK /\ Rows /\ Nested /\ Spans /\ fired = {} /\ phase = "open"
      /\ status[x] = "new" /\ Push(p)
      /\ status' = [status EXCEPT ![x] = "user"]
      /\ UNCHANGED <<saved, rows, throwing, phase, owner, fired, ended>>
  BY DEF IInv, Alive, UserBuffers, Running
<1>2. s \in Seq(Effects) /\ Elements(s) = {x}
  BY OneElement
<1>3. K \in SUBSET Keys /\ LibraryKeys \subseteq Keys \ K /\ "user" \in K /\ "user" \in Keys
  BY DEF LibraryKeys, Keys
<1> HIDE DEF s
<1>12. p \in [K -> Seq(Effects)] /\ p["user"] = s
  BY <1>2
<1>13. \A k \in K : p[k] = s
  BY <1>12
<1> HIDE DEF K, p
<1>4. /\ hooks' \in [Keys -> 0 .. MaxObjects]
      /\ buffer' \in [Keys -> [1 .. MaxObjects -> Seq(Effects)]]
      /\ \A k \in Keys : Content(k)' = IF k \in K THEN Content(k) \o s ELSE Content(k)
      /\ \A k \in Keys \ K : hooks'[k] = hooks[k]
      /\ \A d \in 1 .. MaxObjects :
           /\ buffer'["user"][d] \in {buffer["user"][d], Content("user") \o s}
           /\ d \in Referenced("user") => Len(buffer["user"][d]) <= Len(buffer'["user"][d])
  <2>1. ASSUME NEW k \in Keys
        PROVE  Content(k)' = IF k \in K THEN Content(k) \o p[k] ELSE Content(k)
    BY <1>1, <1>3, <1>12, PushContent
  <2> QED
    BY <1>1, <1>3, <1>12, <1>13, <2>1, PushContent
<1>5. status' \in [Effects -> Statuses]
  BY <1>1 DEF TypeOK, Statuses
<1>6. TypeOK'
  BY <1>1, <1>4, <1>5 DEF TypeOK
<1>7. /\ status'[x] = "user"
      /\ \A e \in Effects \ {x} : status'[e] = status[e]
  BY <1>1 DEF TypeOK
<1>8. Quiet
  <2>1. \A k \in LibraryKeys : Content(k)' = Content(k) /\ hooks'[k] = hooks[k]
    BY <1>3, <1>4
  <2>2. \A e \in Effects :
          status'[e] = status[e] \/ (status[e] = "new" /\ status'[e] = "user")
    BY <1>1, <1>7
  <2> QED
    BY <1>1, <2>1, <2>2 DEF Quiet
<1>9. ASSUME NEW d \in 1 .. MaxObjects, NEW e \in Elements(buffer'["user"][d])
      PROVE  status'[e] = "user"
  <2>1. ASSUME NEW o \in 1 .. MaxObjects, e \in Elements(buffer["user"][o])
        PROVE  status'[e] = "user"
    <3>1. status[e] = "user"
      BY <1>1, <2>1 DEF Rows, UserBuffered
    <3> DEFINE b == buffer["user"][o]
    <3>2. e \in Elements(b) /\ b \in Seq(Effects)
      BY <1>1, <1>3, <2>1 DEF TypeOK
    <3> HIDE DEF b
    <3>3. e \in Effects
      BY <3>2, ElementsIn
    <3> QED
      BY <1>7, <3>1, <3>3
  <2>2. CASE e \in Elements(Content("user") \o s)
    <3>1. /\ Content("user") \in Seq(Effects)
          /\ hooks["user"] = 0 => Content("user") = <<>>
          /\ hooks["user"] # 0 =>
               hooks["user"] \in 1 .. MaxObjects /\ Content("user") = buffer["user"][hooks["user"]]
      BY <1>1, <1>3, ContentType
    <3>2. e \in Elements(Content("user")) \/ e \in Elements(s)
      BY <1>2, <2>2, <3>1, ElementsOfConcat
    <3>3. e \in Elements(Content("user")) => hooks["user"] # 0
      BY <3>1 DEF Elements
    <3> QED
      BY <1>2, <1>7, <2>1, <3>1, <3>2, <3>3
  <2> QED
    BY <1>4, <1>9, <2>1, <2>2
<1>10. Rows' /\ Nested' /\ Spans'
  BY <1>1, <1>6, <1>8, <1>9, QuietKeeps DEF UserBuffered
<1>11. Marks'
  <2>1. \A d \in 1 .. MaxObjects : Len(buffer'["user"][d]) \in Nat
    BY <1>3, <1>4, LenProperties
  <2> QED
    BY <1>1, <1>4, <2>1, MarksKept DEF IInv
<1> QED
  BY <1>1, <1>6, <1>10, <1>11 DEF IInv

LEMMA SetInv ==
  ASSUME IInv, Set
  PROVE  IInv'
<1> DEFINE o == NewObject("user")
<1>1. /\ TypeOK /\ Rows /\ Nested /\ Spans /\ fired = {} /\ phase = "open"
      /\ o \in 1 .. MaxObjects /\ o \notin Referenced("user")
      /\ hooks' = [hooks EXCEPT !["user"] = o]
      /\ buffer' = [buffer EXCEPT !["user"][o] = <<>>]
      /\ UNCHANGED <<saved, rows, throwing, phase, owner, status, fired, ended>>
  BY NewObjectType DEF IInv, Alive, Set, Running, Keys
<1>2. "user" \in Keys /\ LibraryKeys = Keys \ {"user"}
  BY DEF LibraryKeys, Keys
<1> HIDE DEF o
<1>3. /\ hooks' \in [Keys -> 0 .. MaxObjects]
      /\ \A k \in LibraryKeys : hooks'[k] = hooks[k]
  BY <1>1, <1>2, BoundsType DEF TypeOK
<1>4. /\ buffer' \in [Keys -> [1 .. MaxObjects -> Seq(Effects)]]
      /\ \A k \in LibraryKeys : buffer'[k] = buffer[k]
      /\ \A d \in 1 .. MaxObjects :
           buffer'["user"][d] = IF d = o THEN <<>> ELSE buffer["user"][d]
  <2>1. buffer \in [Keys -> [1 .. MaxObjects -> Seq(Effects)]] /\ <<>> \in Seq(Effects)
    BY <1>1, EmptySeq DEF TypeOK
  <2> QED
    BY <1>1, <1>2, <2>1
<1>5. TypeOK'
  BY <1>1, <1>3, <1>4 DEF TypeOK
<1>6. Quiet
  BY <1>1, <1>3, <1>4 DEF Quiet, Content, ContentOf
<1>7. UserBuffered'
  <2>1. Elements(<<>>) = {}
    BY DEF Elements
  <2> QED
    BY <1>1, <1>4, <2>1 DEF Rows, UserBuffered
<1>8. Rows' /\ Nested' /\ Spans'
  BY <1>1, <1>5, <1>6, <1>7, QuietKeeps
<1>9. Marks'
  <2>1. \A d \in 1 .. MaxObjects : Len(buffer["user"][d]) \in Nat
    BY <1>1, <1>2, LenProperties DEF TypeOK
  <2>2. \A d \in 1 .. MaxObjects : d \in Referenced("user") =>
          /\ Len(buffer'["user"][d]) \in Nat
          /\ Len(buffer["user"][d]) <= Len(buffer'["user"][d])
    BY <1>1, <1>4, <2>1
  <2> QED
    BY <1>1, <2>2, MarksKept DEF IInv
<1> QED
  BY <1>1, <1>5, <1>8, <1>9 DEF IInv

LEMMA DeleteInv ==
  ASSUME IInv, Delete
  PROVE  IInv'
<1>1. /\ TypeOK /\ Rows /\ Nested /\ Spans /\ fired = {} /\ phase = "open"
      /\ hooks' = [hooks EXCEPT !["user"] = 0]
      /\ UNCHANGED <<buffer, saved, rows, throwing, phase, owner, status, fired, ended>>
  BY DEF IInv, Alive, Delete, Running
<1>2. "user" \in Keys /\ LibraryKeys = Keys \ {"user"}
  BY DEF LibraryKeys, Keys
<1>3. /\ hooks' \in [Keys -> 0 .. MaxObjects]
      /\ \A k \in LibraryKeys : hooks'[k] = hooks[k]
  BY <1>1, <1>2, BoundsType DEF TypeOK
<1>4. TypeOK'
  BY <1>1, <1>3 DEF TypeOK
<1>5. Quiet
  BY <1>1, <1>3 DEF Quiet, Content, ContentOf
<1>6. UserBuffered'
  BY <1>1 DEF Rows, UserBuffered
<1>7. Rows' /\ Nested' /\ Spans'
  BY <1>1, <1>4, <1>5, <1>6, QuietKeeps
<1>8. Marks'
  BY <1>1 DEF IInv, Marks
<1> QED
  BY <1>1, <1>4, <1>7, <1>8 DEF IInv

LEMMA ThrowingInv ==
  ASSUME IInv, UserThrows \/ UserCatches
  PROVE  IInv'
<1>1. /\ TypeOK /\ Rows /\ Nested /\ Spans /\ fired = {} /\ phase = "open"
      /\ throwing' \in BOOLEAN
      /\ UNCHANGED <<hooks, buffer, saved, rows, phase, owner, status, fired, ended>>
  BY DEF IInv, Alive, UserThrows, UserCatches, Running
<1>2. TypeOK'
  BY <1>1 DEF TypeOK
<1>3. Rows' /\ Nested' /\ Spans'
  BY <1>1, <1>2, StillKeeps
<1>4. Marks'
  BY <1>1 DEF IInv, Marks
<1> QED
  BY <1>1, <1>2, <1>3, <1>4 DEF IInv

LEMMA OpenSavepointInv ==
  ASSUME IInv, OpenSavepoint
  PROVE  IInv'
<1>1. /\ TypeOK /\ Rows /\ Nested /\ Spans /\ fired = {} /\ phase = "open"
      /\ saved' = Append(saved, Snapshot)
      /\ UNCHANGED <<hooks, buffer, rows, throwing, phase, owner, status, fired, ended>>
  BY DEF IInv, Alive, OpenSavepoint, Running
<1>2. Snapshot \in SnapshotType /\ Snapshot' = Snapshot
  BY <1>1, SnapshotNow DEF Present, Snapshot, Content, ContentOf
<1>3. saved' \in Seq(SnapshotType)
  BY <1>1, <1>2, AppendProperties DEF TypeOK
<1>4. TypeOK'
  BY <1>1, <1>3 DEF TypeOK
<1>5. Nested'
  BY <1>1, <1>2, NestedOpens DEF Nested, TypeOK
<1>6. Rows' /\ Spans'
  BY <1>1 DEF Rows, UserBuffered, Spans
<1>7. Marks'
  <2> DEFINE n == Len(saved)
             d == hooks["user"]
             l == Len(Content("user"))
  <2>1. /\ n \in Nat /\ Len(saved') = n + 1 /\ saved'[n + 1] = Snapshot
        /\ \A i \in 1 .. n : saved'[i] = saved[i]
    BY <1>1, <1>2, AppendProperties, LenProperties DEF TypeOK
  <2>2. Snapshot.hooks["user"] = d /\ Snapshot.length["user"] = l
    BY <1>1, SnapshotNow DEF Present, Keys
  <2>3. l \in Nat /\ (d # 0 => l = Len(buffer["user"][d]))
    BY <1>1, ContentType, LenProperties DEF Keys
  <2>4. Marks
    BY DEF IInv
  <2> HIDE DEF n, d, l
  <2>5. ASSUME NEW i \in 1 .. n + 1, saved'[i].hooks["user"] # 0
        PROVE  saved'[i].length["user"] <= Len(buffer["user"][saved'[i].hooks["user"]])
    BY <2>1, <2>2, <2>3, <2>4, <2>5 DEF Marks, n
  <2>6. ASSUME NEW i \in 1 .. n + 1, NEW j \in 1 .. n + 1, i < j,
               saved'[i].hooks["user"] # 0, saved'[i].hooks["user"] = saved'[j].hooks["user"]
        PROVE  saved'[i].length["user"] <= saved'[j].length["user"]
    <3>1. i \in 1 .. n /\ saved'[i] = saved[i]
      BY <2>1, <2>6
    <3>2. CASE j \in 1 .. n
      BY <2>1, <2>4, <2>6, <3>1, <3>2 DEF Marks, n
    <3>3. CASE j = n + 1
      BY <2>1, <2>2, <2>3, <2>4, <2>6, <3>1, <3>3 DEF Marks, n
    <3> QED
      BY <2>1, <3>2, <3>3
  <2> QED
    BY <1>1, <2>1, <2>5, <2>6 DEF Marks
<1> QED
  BY <1>1, <1>4, <1>5, <1>6, <1>7 DEF IInv

LEMMA ReleaseSavepointInv ==
  ASSUME IInv, ReleaseSavepoint
  PROVE  IInv'
<1>1. /\ TypeOK /\ Rows /\ Nested /\ Spans /\ fired = {} /\ phase = "open"
      /\ saved # <<>> /\ saved' = Butlast(saved)
      /\ UNCHANGED <<hooks, buffer, rows, throwing, phase, owner, status, fired, ended>>
  BY DEF IInv, Alive, ReleaseSavepoint, Running
<1>2. Snapshot \in SnapshotType /\ Snapshot' = Snapshot
  BY <1>1, SnapshotNow DEF Present, Snapshot, Content, ContentOf
<1>3. saved' \in Seq(SnapshotType)
  BY <1>1, <1>2, ButlastProperties DEF TypeOK
<1>4. TypeOK'
  BY <1>1, <1>3 DEF TypeOK
<1>5. Nested'
  BY <1>1, <1>2, NestedReleases DEF Nested, TypeOK
<1>6. Rows' /\ Spans'
  BY <1>1 DEF Rows, UserBuffered, Spans
<1>7. Marks'
  <2>1. /\ Len(saved) \in Nat \ {0} /\ Len(saved') = Len(saved) - 1
        /\ \A i \in 1 .. Len(saved) - 1 : saved'[i] = saved[i]
    BY <1>1, ButlastProperties DEF TypeOK
  <2>2. \A i \in 1 .. Len(saved') : i \in 1 .. Len(saved) /\ saved'[i] = saved[i]
    BY <2>1
  <2>3. ASSUME NEW i \in 1 .. Len(saved'), saved'[i].hooks["user"] # 0
        PROVE  saved'[i].length["user"] <= Len(buffer'["user"][saved'[i].hooks["user"]])
    BY <1>1, <2>2, <2>3 DEF IInv, Marks
  <2>4. ASSUME NEW i \in 1 .. Len(saved'), NEW j \in 1 .. Len(saved'), i < j,
               saved'[i].hooks["user"] # 0, saved'[i].hooks["user"] = saved'[j].hooks["user"]
        PROVE  saved'[i].length["user"] <= saved'[j].length["user"]
    BY <2>2, <2>4 DEF IInv, Marks
  <2> QED
    BY <2>3, <2>4 DEF Marks
<1> QED
  BY <1>1, <1>4, <1>5, <1>6, <1>7 DEF IInv

-----------------------------------------------------------------------------
(* Rolling back to a savepoint.                                            *)

LEMMA CutTail ==
  ASSUME NEW S, NEW p \in Seq(S), NEW s \in Seq(S), Prefix(p, s), Distinct(s)
  PROVE  Elements(SubSeq(s, Len(p) + 1, Len(s))) = Elements(s) \ Elements(p)
<1>1. Len(p) \in Nat /\ Len(s) \in Nat /\ Len(p) <= Len(s)
  BY LenProperties DEF Prefix
<1>2. Elements(SubSeq(s, Len(p) + 1, Len(s))) = {s[i] : i \in Len(p) + 1 .. Len(s)}
  BY <1>1, TailProperties
<1>3. Elements(p) = {s[i] : i \in 1 .. Len(p)}
  BY DEF Elements, Prefix
<1>4. \A i \in 1 .. Len(p), j \in Len(p) + 1 .. Len(s) : s[i] # s[j]
  BY <1>1 DEF Distinct
<1>5. 1 .. Len(s) = (1 .. Len(p)) \cup (Len(p) + 1 .. Len(s))
  BY <1>1
<1> QED
  BY <1>2, <1>3, <1>4, <1>5 DEF Elements

(* The last savepoint and the present that it cuts back.                   *)
LEMMA LastProperties ==
  ASSUME IInv, phase = "open", saved # <<>>
  PROVE  /\ Len(saved) \in 1 .. Len(saved) /\ LastSaved \in SnapshotType
         /\ LastSaved.rows \in Nat /\ LastSaved.rows <= Len(rows)
         /\ View(LastSaved, rows, status)
         /\ \A k \in LibraryKeys :
              /\ LastSaved.content[k] \in Seq(Effects)
              /\ LastSaved.length[k] = Len(LastSaved.content[k])
              /\ LastSaved.hooks[k] = 0 => LastSaved.content[k] = <<>>
              /\ LastSaved.hooks[k] # 0 => hooks[k] = LastSaved.hooks[k]
              /\ Prefix(LastSaved.content[k], Content(k))
<1>1. TypeOK /\ NestedIn(Snapshot, saved, rows, status)
  BY DEF IInv, Alive, Nested
<1>2. Len(saved) \in 1 .. Len(saved)
  BY <1>1, EmptySeq DEF TypeOK
<1>3. /\ Snapshot \in SnapshotType /\ Snapshot.rows = Len(rows) /\ Snapshot.hooks = hooks
      /\ \A k \in LibraryKeys : Snapshot.content[k] = Content(k)
  BY <1>1, SnapshotNow DEF Present, LibraryKeys, Keys
<1>4. /\ LastSaved \in SnapshotType /\ LastSaved.rows \in Nat /\ LastSaved.rows <= Len(rows)
      /\ View(LastSaved, rows, status) /\ Within(LastSaved, Snapshot)
  BY <1>1, <1>2, <1>3, SavedBelow DEF TypeOK, LastSaved
<1>5. \A k \in LibraryKeys : LastSaved.content[k] \in Seq(Effects)
  BY <1>4 DEF SnapshotType, LibraryKeys, Keys
<1> QED
  BY <1>2, <1>3, <1>4, <1>5 DEF View, Within

(* The library's hooks are what they were.                                 *)
LEMMA HooksRestored ==
  ASSUME IInv, RollbackSavepoint, NEW k \in LibraryKeys
  PROVE  hooks'[k] = LastSaved.hooks[k] /\ Content(k)' = LastSaved.content[k]
<1> DEFINE s == LastSaved
           o == s.hooks[k]
<1>1. /\ TypeOK /\ saved # <<>> /\ phase = "open"
      /\ hooks' = RestoredHooks(s) /\ buffer' = RestoredBuffer(s)
  BY DEF IInv, RollbackSavepoint
<1>2. k \in Keys
  BY DEF LibraryKeys, Keys
<1>3. /\ s \in SnapshotType /\ s.content[k] \in Seq(Effects)
      /\ s.length[k] = Len(s.content[k])
      /\ o = 0 => s.content[k] = <<>>
      /\ o # 0 => hooks[k] = o
      /\ Prefix(s.content[k], Content(k))
  BY <1>1, LastProperties
<1> HIDE DEF s
<1>4. hooks'[k] = o
  BY <1>1, <1>2, <1>3 DEF RestoredHooks
<1>5. CASE o = 0
  BY <1>3, <1>4, <1>5 DEF Content, ContentOf, s
<1>6. CASE o # 0
  <2>1. o \in 1 .. MaxObjects /\ Content(k) = buffer[k][o] /\ Content(k) \in Seq(Effects)
    BY <1>1, <1>2, <1>3, <1>6, ContentType
  <2>2. buffer'[k] = [buffer[k] EXCEPT ![o] = SubSeq(@, 1, s.length[k])]
    BY <1>1, <1>2, <1>6 DEF RestoredBuffer
  <2>3. buffer[k] \in [1 .. MaxObjects -> Seq(Effects)]
    BY <1>1, <1>2 DEF TypeOK
  <2>4. buffer'[k][o] = SubSeq(Content(k), 1, Len(s.content[k]))
    BY <1>3, <2>1, <2>2, <2>3
  <2>5. buffer'[k][o] = s.content[k]
    BY <1>3, <2>1, <2>4, CutToPrefix
  <2> QED
    BY <1>4, <1>6, <2>5 DEF Content, ContentOf, s
<1> QED
  BY <1>4, <1>5, <1>6 DEF s

(* The objects a rollback cuts, the user's and the library's.              *)
LEMMA BufferRestored ==
  ASSUME IInv, RollbackSavepoint
  PROVE  /\ hooks' \in [Keys -> 0 .. MaxObjects]
         /\ buffer' \in [Keys -> [1 .. MaxObjects -> Seq(Effects)]]
         /\ \A d \in 1 .. MaxObjects :
              /\ Elements(buffer'["user"][d]) \subseteq Elements(buffer["user"][d])
              /\ d # LastSaved.hooks["user"] => buffer'["user"][d] = buffer["user"][d]
              /\ d = LastSaved.hooks["user"] =>
                   Len(buffer'["user"][d]) = LastSaved.length["user"]
<1> DEFINE s == LastSaved
<1>1. /\ TypeOK /\ Marks /\ saved # <<>> /\ phase = "open"
      /\ hooks' = RestoredHooks(s) /\ buffer' = RestoredBuffer(s)
  BY DEF IInv, RollbackSavepoint
<1>2. /\ Len(saved) \in 1 .. Len(saved) /\ s \in SnapshotType
      /\ \A k \in LibraryKeys :
           /\ s.length[k] = Len(s.content[k])
           /\ s.hooks[k] # 0 => hooks[k] = s.hooks[k]
           /\ Prefix(s.content[k], Content(k))
  BY <1>1, LastProperties
<1>3. s.hooks["user"] # 0 => s.length["user"] <= Len(buffer["user"][s.hooks["user"]])
  BY <1>1, <1>2 DEF Marks, LastSaved
<1> HIDE DEF s
<1>4. s.hooks \in [Keys -> 0 .. MaxObjects] /\ s.length \in [Keys -> Nat]
  BY <1>2 DEF SnapshotType
<1>5. hooks' \in [Keys -> 0 .. MaxObjects]
  BY <1>1, <1>4, BoundsType DEF RestoredHooks, TypeOK
<1>6. ASSUME NEW k \in Keys, s.hooks[k] # 0
      PROVE  /\ s.hooks[k] \in 1 .. MaxObjects /\ s.length[k] \in Nat
             /\ s.length[k] <= Len(buffer[k][s.hooks[k]])
  <2>1. s.hooks[k] \in 1 .. MaxObjects /\ s.length[k] \in Nat
    BY <1>4, <1>6, BoundsType
  <2>2. CASE k = "user"
    BY <1>3, <1>6, <2>1, <2>2
  <2>3. CASE k \in LibraryKeys
    <3>1. hooks[k] = s.hooks[k] /\ Content(k) = buffer[k][s.hooks[k]]
      BY <1>1, <1>2, <1>6, <2>3, ContentType
    <3> QED
      BY <1>2, <2>1, <2>3, <3>1 DEF Prefix
  <2> QED
    BY <2>2, <2>3 DEF LibraryKeys, Keys
<1>7. ASSUME NEW k \in Keys
      PROVE  /\ buffer'[k] \in [1 .. MaxObjects -> Seq(Effects)]
             /\ \A d \in 1 .. MaxObjects :
                  /\ Elements(buffer'[k][d]) \subseteq Elements(buffer[k][d])
                  /\ d # s.hooks[k] => buffer'[k][d] = buffer[k][d]
                  /\ d = s.hooks[k] => Len(buffer'[k][d]) = s.length[k]
  <2> DEFINE f == buffer[k]
             o == s.hooks[k]
             v == SubSeq(f[o], 1, s.length[k])
  <2>1. f \in [1 .. MaxObjects -> Seq(Effects)]
    BY <1>1 DEF TypeOK
  <2>2. CASE o = 0
    <3>1. buffer'[k] = f
      BY <1>1, <2>2 DEF RestoredBuffer
    <3>2. o \notin 1 .. MaxObjects
      BY <2>2
    <3> HIDE DEF f, o
    <3> QED
      BY <2>1, <3>1, <3>2 DEF f, o
  <2>3. CASE o # 0
    <3>1. buffer'[k] = [f EXCEPT ![o] = v]
      BY <1>1, <2>3 DEF RestoredBuffer
    <3>2. o \in 1 .. MaxObjects /\ s.length[k] \in Nat /\ s.length[k] <= Len(f[o])
      BY <1>6, <2>3
    <3>3. f[o] \in Seq(Effects)
      BY <2>1, <3>2
    <3>4. v \in Seq(Effects) /\ Len(v) = s.length[k]
          /\ Elements(v) \subseteq Elements(f[o])
      <4>1. /\ v \in Seq(Effects) /\ Len(v) = s.length[k]
            /\ Elements(v) = {f[o][i] : i \in 1 .. s.length[k]}
        <5> DEFINE w == f[o]
                   m == s.length[k]
        <5>1. w \in Seq(Effects) /\ m \in Nat /\ m <= Len(w)
          BY <3>2, <3>3
        <5> HIDE DEF w, m
        <5>2. /\ SubSeq(w, 1, m) \in Seq(Effects) /\ Len(SubSeq(w, 1, m)) = m
              /\ Elements(SubSeq(w, 1, m)) = {w[i] : i \in 1 .. m}
          BY <5>1, CutProperties
        <5> QED
          BY <5>2 DEF w, m
      <4>2. Len(f[o]) \in Nat
        BY <3>3, LenProperties
      <4>3. {f[o][i] : i \in 1 .. s.length[k]} \subseteq Elements(f[o])
        <5> DEFINE w == f[o]
                   m == s.length[k]
        <5>1. m \in Nat /\ m <= Len(w) /\ Len(w) \in Nat
          BY <3>2, <4>2
        <5> HIDE DEF w, m
        <5>2. {w[i] : i \in 1 .. m} \subseteq Elements(w)
          BY <5>1 DEF Elements
        <5> QED
          BY <5>2 DEF w, m
      <4> QED
        BY <4>1, <4>3
    <3> HIDE DEF f, o, v
    <3>5. /\ buffer'[k] \in [1 .. MaxObjects -> Seq(Effects)]
          /\ \A d \in 1 .. MaxObjects : buffer'[k][d] = IF d = o THEN v ELSE f[d]
      BY <2>1, <3>1, <3>2, <3>4
    <3> QED
      BY <3>2, <3>4, <3>5 DEF f, o
  <2> QED
    BY <2>2, <2>3
<1>8. buffer' \in [Keys -> [1 .. MaxObjects -> Seq(Effects)]]
  <2>1. buffer' = [k \in Keys |-> buffer'[k]]
    BY <1>1 DEF RestoredBuffer
  <2> QED
    BY <1>7, <2>1
<1>9. "user" \in Keys
  BY DEF Keys
<1> QED
  BY <1>5, <1>7, <1>8, <1>9 DEF s

(* The callbacks it runs are those of what it takes back.                  *)
LEMMA UndoneByRollback ==
  ASSUME IInv, phase = "open", saved # <<>>
  PROVE  UndoneBy(LastSaved) =
           Elements(Content("undo")) \ Elements(LastSaved.content["undo"])
<1> DEFINE s == LastSaved
           o == s.hooks["undo"]
<1>1. "undo" \in LibraryKeys /\ "undo" \in Keys
  BY DEF LibraryKeys, Keys
<1>2. /\ s.content["undo"] \in Seq(Effects) /\ s \in SnapshotType
      /\ s.length["undo"] = Len(s.content["undo"])
      /\ o = 0 => s.content["undo"] = <<>>
      /\ o # 0 => hooks["undo"] = o
      /\ Prefix(s.content["undo"], Content("undo"))
  BY <1>1, LastProperties
<1>3. TypeOK /\ Distinct(Content("undo"))
  BY MatchesNow DEF IInv, Alive
<1> HIDE DEF s
<1>4. CASE o = 0
  <2>1. Elements(s.content["undo"]) = {}
    BY <1>2, <1>4 DEF Elements
  <2>2. UndoneBy(s) = Elements(Content("undo"))
    BY <1>4 DEF UndoneBy
  <2> QED
    BY <2>1, <2>2 DEF s
<1>5. CASE o # 0
  <2>1. Content("undo") = buffer["undo"][o] /\ Content("undo") \in Seq(Effects)
    BY <1>1, <1>2, <1>3, <1>5, ContentType
  <2>2. UndoneBy(s) = Elements(SubSeq(Content("undo"), Len(s.content["undo"]) + 1,
                                      Len(Content("undo"))))
    BY <1>2, <1>5, <2>1 DEF UndoneBy
  <2> QED
    BY <1>2, <1>3, <2>1, <2>2, CutTail DEF s
<1> QED
  BY <1>4, <1>5

LEMMA RollbackInv ==
  ASSUME IInv, RollbackSavepoint
  PROVE  IInv'
<1> DEFINE s == LastSaved
           U == Elements(Content("undo"))
           P == Elements(s.content["undo"])
<1>1. /\ TypeOK /\ Rows /\ Marks /\ Nested /\ Spans /\ fired = {} /\ phase = "open"
      /\ saved # <<>> /\ saved' = Butlast(saved)
      /\ rows' = SubSeq(rows, 1, s.rows)
      /\ EndSpans(UndoneBy(s)) /\ throwing' \in BOOLEAN
      /\ UNCHANGED <<phase, owner, status, fired>>
  BY DEF IInv, Alive, RollbackSavepoint
<1>2. /\ Len(saved) \in 1 .. Len(saved) /\ s \in SnapshotType
      /\ s.rows \in Nat /\ s.rows <= Len(rows)
      /\ View(s, rows, status)
  BY <1>1, LastProperties
<1>3. \A k \in LibraryKeys : /\ s.length[k] = Len(s.content[k])
                             /\ hooks'[k] = s.hooks[k] /\ Content(k)' = s.content[k]
  BY <1>1, LastProperties, HooksRestored
<1>4. UndoneBy(s) = U \ P
  BY <1>1, UndoneByRollback
<1>5. /\ hooks' \in [Keys -> 0 .. MaxObjects]
      /\ buffer' \in [Keys -> [1 .. MaxObjects -> Seq(Effects)]]
      /\ \A d \in 1 .. MaxObjects :
           /\ Elements(buffer'["user"][d]) \subseteq Elements(buffer["user"][d])
           /\ d # s.hooks["user"] => buffer'["user"][d] = buffer["user"][d]
           /\ d = s.hooks["user"] => Len(buffer'["user"][d]) = s.length["user"]
  BY BufferRestored
<1>6. /\ rows \in Seq(Effects) /\ rows' \in Seq(Effects) /\ Len(rows') = s.rows
      /\ Elements(rows') = FirstOf(rows, s.rows)
      /\ Distinct(rows') /\ Elements(rows') \subseteq Elements(rows)
  <2>1. rows \in Seq(Effects) /\ Distinct(rows) /\ Len(rows) \in Nat
    BY <1>1, LenProperties DEF TypeOK, Rows
  <2>2. /\ rows' \in Seq(Effects) /\ Len(rows') = s.rows /\ Distinct(rows')
        /\ Elements(rows') = FirstOf(rows, s.rows)
    BY <1>1, <1>2, <2>1, CutProperties DEF FirstOf
  <2>3. FirstOf(rows, s.rows) \subseteq Elements(rows)
    BY <1>2, <2>1 DEF FirstOf, Elements
  <2> QED
    BY <2>1, <2>2, <2>3
<1>7. /\ U \subseteq Elements(rows) /\ P \subseteq Elements(rows')
      /\ \A e \in Elements(rows) : status[e] = "created" => e \in U
      /\ \A e \in Elements(rows') : status[e] = "created" => e \in P
      /\ Elements(rows) \subseteq Effects
  <2>1. P \subseteq FirstOf(rows, s.rows)
        /\ \A e \in FirstOf(rows, s.rows) : status[e] = "created" => e \in P
    BY <1>2 DEF View, Matches, LibraryKeys
  <2> QED
    BY <1>1, <1>6, <2>1, MatchesNow, ElementsIn DEF LibraryKeys
<1> HIDE DEF s, U, P
<1>8. /\ ended' \in [Effects -> Nat]
      /\ \A e \in Effects : ended'[e] = IF e \in U \ P THEN ended[e] + 1 ELSE ended[e]
  BY <1>1, <1>4 DEF EndSpans, TypeOK
<1>9. saved' \in Seq(SnapshotType)
  BY <1>1, ButlastProperties DEF TypeOK
<1>10. TypeOK'
  BY <1>1, <1>5, <1>6, <1>8, <1>9 DEF TypeOK
<1>11. Rows'
  <2>1. UserBuffered'
    BY <1>1, <1>5 DEF Rows, UserBuffered
  <2>2. \A e \in Effects : status[e] = "new" => ended'[e] = 0
    BY <1>1, <1>7, <1>8 DEF Rows, Recorded
  <2> QED
    BY <1>1, <1>6, <2>1, <2>2 DEF Rows
<1>12. Spans'
  <2> SUFFICES ASSUME NEW e \in Effects, status[e] = "created"
               PROVE  ended'[e] = IF e \in Elements(rows') THEN 0 ELSE 1
    BY <1>1 DEF Spans
  <2>1. ended[e] = IF e \in Elements(rows) THEN 0 ELSE 1
    BY <1>1 DEF Spans
  <2> QED
    BY <1>6, <1>7, <1>8, <2>1
<1>13. Nested'
  <2> DEFINE now == Snapshot
             next == Snapshot'
  <2>1. /\ now \in SnapshotType /\ now.rows = Len(rows)
        /\ NestedIn(now, saved, rows, status)
    BY <1>1, SnapshotNow DEF Present, Nested
  <2>2. /\ next \in SnapshotType /\ next.rows = s.rows
        /\ \A k \in LibraryKeys : /\ next.hooks[k] = s.hooks[k]
                                  /\ next.length[k] = s.length[k]
                                  /\ next.content[k] = s.content[k]
    BY <1>3, <1>6, <1>10, SnapshotNext DEF Present, LibraryKeys, Keys
  <2> HIDE DEF now, next
  <2>3. Distinct(next.content["undo"])
    <3>1. "undo" \in LibraryKeys /\ next.content["undo"] = s.content["undo"]
      BY <2>2 DEF LibraryKeys
    <3>2. Distinct(Content("undo")) /\ Prefix(s.content["undo"], Content("undo"))
          /\ Len(Content("undo")) \in Nat /\ Len(s.content["undo"]) \in Nat
      <4>1. Distinct(Content("undo"))
        BY <1>1, MatchesNow
      <4>2. Prefix(s.content["undo"], Content("undo"))
        BY <1>1, <3>1, LastProperties DEF s
      <4>3. Len(Content("undo")) \in Nat /\ Len(s.content["undo"]) \in Nat
        BY <1>1, LastProperties, ContentType, LenProperties DEF s, Keys
      <4> QED
        BY <4>1, <4>2, <4>3
    <3> QED
      BY <3>1, <3>2 DEF Distinct, Prefix
  <2>4. s = saved[Len(saved)]
    BY DEF s, LastSaved
  <2>5. NestedIn(next, Butlast(saved), SubSeq(rows, 1, next.rows), status)
    BY <1>1, <2>1, <2>2, <2>3, <2>4, NestedCut DEF TypeOK
  <2> QED
    BY <1>1, <2>2, <2>5 DEF Nested, next
<1>14. Marks'
  <2>1. /\ Len(saved) \in Nat \ {0} /\ Len(saved') = Len(saved) - 1
        /\ \A i \in 1 .. Len(saved) - 1 : saved'[i] = saved[i]
    BY <1>1, ButlastProperties DEF TypeOK
  <2>2. \A i \in 1 .. Len(saved') :
          i \in 1 .. Len(saved) /\ i < Len(saved) /\ saved'[i] = saved[i]
    BY <2>1
  <2>3. ASSUME NEW i \in 1 .. Len(saved'), saved'[i].hooks["user"] # 0
        PROVE  saved'[i].length["user"] <= Len(buffer'["user"][saved'[i].hooks["user"]])
    <3> DEFINE d == saved[i].hooks["user"]
    <3>1. i \in 1 .. Len(saved) /\ i < Len(saved) /\ saved'[i] = saved[i] /\ d # 0
      BY <2>2, <2>3
    <3>2. d \in 1 .. MaxObjects
      <4>1. saved[i] \in SnapshotType
        BY <1>1, <3>1, ElementOfSeq DEF TypeOK
      <4> QED
        BY <3>1, <4>1, BoundsType DEF SnapshotType, Keys
    <3>3. CASE d # s.hooks["user"]
      BY <1>1, <1>5, <3>1, <3>2, <3>3 DEF Marks
    <3>4. CASE d = s.hooks["user"]
      <4>1. saved[i].length["user"] <= s.length["user"]
        BY <1>1, <1>2, <3>1, <3>4 DEF Marks, s, LastSaved
      <4> QED
        BY <1>5, <3>1, <3>2, <3>4, <4>1
    <3> QED
      BY <3>3, <3>4
  <2> QED
    BY <1>1, <2>2, <2>3 DEF Marks
<1> QED
  BY <1>1, <1>10, <1>11, <1>12, <1>13, <1>14 DEF IInv

-----------------------------------------------------------------------------
(* The end of the transaction.                                             *)

LEMMA CommitInv ==
  ASSUME IInv, Commit
  PROVE  IInv'
<1>1. /\ TypeOK /\ Rows /\ Marks /\ Nested /\ Spans /\ fired = {} /\ phase = "open"
      /\ ~throwing /\ saved = <<>> /\ phase' = "committed"
      /\ UNCHANGED <<hooks, buffer, saved, rows, throwing, owner, status, fired, ended>>
  BY DEF IInv, Alive, Commit, Running
<1>2. TypeOK'
  BY <1>1 DEF TypeOK, Phases
<1>3. Rows' /\ Nested' /\ Spans'
  BY <1>1, <1>2, StillKeeps
<1>4. Marks'
  BY <1>1 DEF Marks
<1> QED
  BY <1>1, <1>2, <1>3, <1>4 DEF IInv

(* What discard() ends: the spans of the jobs created and not taken back.  *)
LEMMA DiscardEnds ==
  ASSUME IInv, phase = "open", DiscardFrom(hooks)
  PROVE  /\ ended' \in [Effects -> Nat]
         /\ \A e \in Effects :
              /\ status[e] = "created" => ended'[e] = 1
              /\ status[e] = "new" => ended'[e] = 0
<1> DEFINE U == Elements(Content("undo"))
<1>1. TypeOK /\ Rows /\ Nested /\ Spans
  BY DEF IInv, Alive
<1>2. /\ U \subseteq Elements(rows)
      /\ \A e \in Elements(rows) : status[e] = "created" => e \in U
  BY <1>1, MatchesNow DEF LibraryKeys
<1>3. ended' = [e \in Effects |-> IF e \in U THEN ended[e] + 1 ELSE ended[e]]
  BY DEF DiscardFrom, EndSpans, Content
<1> HIDE DEF U
<1>4. ended' \in [Effects -> Nat]
  BY <1>1, <1>3 DEF TypeOK
<1>5. ASSUME NEW e \in Effects, status[e] = "created"
      PROVE  ended'[e] = 1
  <2>1. ended[e] = IF e \in Elements(rows) THEN 0 ELSE 1
    BY <1>1, <1>5 DEF Spans
  <2> QED
    BY <1>2, <1>3, <1>5, <2>1
<1>6. ASSUME NEW e \in Effects, status[e] = "new"
      PROVE  ended'[e] = 0
  BY <1>1, <1>2, <1>3, <1>6 DEF Rows, Recorded
<1> QED
  BY <1>4, <1>5, <1>6

(* A transaction that is rolled back, by an error or by COMMIT.            *)
LEMMA RolledBackInv ==
  ASSUME IInv, CommitFails \/ Abort
  PROVE  /\ IInv'
         /\ phase' = "rolledBack" /\ fired' = {} /\ status' = status
         /\ DiscardFrom(hooks) \/ (CommitFailures /\ ended' = ended)
<1>1. /\ TypeOK /\ Rows /\ Marks /\ fired = {} /\ phase = "open" /\ saved = <<>>
      /\ phase' = "rolledBack" /\ rows' = <<>>
      /\ UNCHANGED <<buffer, saved, throwing, owner, status, fired>>
      /\ hooks' \in {hooks, Cleared}
      /\ DiscardFrom(hooks) \/ (CommitFailures /\ ended' = ended)
  BY DEF IInv, Alive, CommitFails, Abort, Running, TypeOK
<1>2. /\ ended' \in [Effects -> Nat]
      /\ \A e \in Effects : status[e] = "new" => ended'[e] = 0
  BY <1>1, DiscardEnds DEF TypeOK, Rows
<1>3. Cleared \in [Keys -> 0 .. MaxObjects]
  BY BoundsType DEF Cleared, NoHooks
<1>4. /\ rows' \in Seq(Effects) /\ Elements(rows') = {} /\ Distinct(rows')
  BY <1>1, EmptySeq DEF Elements, Distinct
<1>5. TypeOK'
  BY <1>1, <1>2, <1>3, <1>4 DEF TypeOK, Phases
<1>6. Rows'
  BY <1>1, <1>2, <1>4 DEF Rows, UserBuffered
<1>7. Marks'
  BY <1>1 DEF Marks
<1> QED
  BY <1>1, <1>5, <1>6, <1>7 DEF IInv, Alive

(* What flush() runs: the writes that were buffered, the user's effects.   *)
LEMMA FlushInv ==
  ASSUME IInv, NEW error \in BOOLEAN, Flush(error)
  PROVE  /\ IInv'
         /\ phase = "committed" /\ phase' = "flushed"
         /\ UNCHANGED <<saved, rows, status, ended>>
         /\ \A e \in fired' : e \in Elements(rows) \/ status[e] = "user"
         /\ \A e \in Elements(rows) : status[e] \in Recorded => e \in fired'
<1>1. /\ TypeOK /\ Rows /\ Marks /\ Nested /\ Spans /\ phase = "committed" /\ saved = <<>>
      /\ phase' = "flushed" /\ hooks' = Cleared
      /\ fired' = UNION {Elements(Content(k)) : k \in FlushedKeys}
      /\ UNCHANGED <<buffer, saved, rows, throwing, owner, status>>
      /\ DiscardFrom(Cleared) \/ ended' = ended
  BY DEF IInv, Alive, Flush
<1>2. ended' = ended
  <2>1. ASSUME DiscardFrom(Cleared)
        PROVE  ended' = ended
    <3>1. ContentOf("undo", Cleared["undo"]) = <<>>
      <4>1. Cleared["undo"] = 0
        BY DEF Cleared, NoHooks, Keys, LibraryKeys
      <4> QED
        BY <4>1 DEF ContentOf
    <3>2. Elements(<<>>) = {}
      BY DEF Elements
    <3>3. ended' = [e \in Effects |-> ended[e]]
      BY <2>1, <3>1, <3>2 DEF DiscardFrom, EndSpans
    <3> QED
      BY <1>1, <3>3 DEF TypeOK
  <2> QED
    BY <1>1, <2>1
<1>3. /\ Elements(Content("events")) \subseteq Elements(rows)
      /\ Elements(Content("notify")) \subseteq Elements(rows)
      /\ \A e \in Elements(rows) :
           status[e] \in Recorded => e \in Elements(Content("events"))
  BY <1>1, MatchesNow DEF LibraryKeys
<1>4. ASSUME NEW e \in Elements(Content("user"))
      PROVE  e \in Effects /\ status[e] = "user"
  <2>1. /\ "user" \in Keys /\ Content("user") \in Seq(Effects)
        /\ hooks["user"] = 0 => Content("user") = <<>>
        /\ hooks["user"] # 0 =>
             hooks["user"] \in 1 .. MaxObjects /\ Content("user") = buffer["user"][hooks["user"]]
    BY <1>1, ContentType DEF Keys
  <2>2. hooks["user"] # 0
    BY <1>4, <2>1 DEF Elements
  <2>3. e \in Effects
    BY <2>1, <1>4, ElementsIn
  <2> QED
    BY <1>1, <1>4, <2>1, <2>2, <2>3 DEF Rows, UserBuffered
<1>5. fired' = Elements(Content("events")) \cup Elements(Content("notify"))
                 \cup Elements(Content("user"))
  BY <1>1 DEF FlushedKeys
<1>6. /\ \A e \in fired' : e \in Elements(rows) \/ status[e] = "user"
      /\ \A e \in Elements(rows) : status[e] \in Recorded => e \in fired'
  BY <1>3, <1>4, <1>5
<1>7. TypeOK'
  <2>1. Elements(rows) \subseteq Effects
    BY <1>1, ElementsIn DEF TypeOK
  <2>2. fired' \in SUBSET Effects
    BY <1>3, <1>4, <1>5, <2>1
  <2>3. Cleared \in [Keys -> 0 .. MaxObjects]
    BY BoundsType DEF Cleared, NoHooks
  <2> QED
    BY <1>1, <1>2, <2>2, <2>3 DEF TypeOK, Phases
<1>8. Rows' /\ Marks'
  BY <1>1, <1>2 DEF Rows, UserBuffered, Marks
<1> QED
  BY <1>1, <1>2, <1>6, <1>7, <1>8 DEF IInv, Alive

LEMMA StutterInv ==
  ASSUME IInv, UNCHANGED vars
  PROVE  IInv'
<1>1. TypeOK /\ Rows /\ Marks
  BY DEF IInv
<1>2. TypeOK' /\ Rows' /\ Marks'
  BY <1>1 DEF TypeOK, Rows, UserBuffered, Marks, vars
<1>3. Alive => Nested' /\ Spans'
  BY <1>1, <1>2, StillKeeps DEF IInv, vars
<1> QED
  BY <1>2, <1>3 DEF IInv, Alive, vars

LEMMA NextInv ==
  ASSUME IInv, [Next]_vars
  PROVE  IInv'
<1>1. ASSUME NEW b \in Batches, Create(b) \/ CreateFails(b)
      PROVE  IInv'
  BY <1>1, CreateInv, CreateFailsInv
<1>2. ASSUME NEW e \in Effects, Finish(e) \/ FinishFails(e) \/ UserBuffers(e)
      PROVE  IInv'
  BY <1>2, FinishInv, FinishFailsInv, UserBuffersInv
<1>3. CASE UserThrows \/ UserCatches
  BY <1>3, ThrowingInv
<1>4. CASE Set \/ Delete
  BY <1>4, SetInv, DeleteInv
<1>5. CASE OpenSavepoint \/ ReleaseSavepoint \/ RollbackSavepoint
  BY <1>5, OpenSavepointInv, ReleaseSavepointInv, RollbackInv
<1>6. CASE Commit \/ CommitFails \/ Abort
  BY <1>6, CommitInv, RolledBackInv
<1>7. ASSUME NEW error \in BOOLEAN, Flush(error)
      PROVE  IInv'
  BY <1>7, FlushInv
<1>8. CASE UNCHANGED vars
  BY <1>8, StutterInv
<1> QED
  BY <1>1, <1>2, <1>3, <1>4, <1>5, <1>6, <1>7, <1>8 DEF Next

(* The hooks match the writes, now and at every open savepoint, in every   *)
(* state of a transaction that has not ended.                              *)
THEOREM Invariance == Spec => []IInv
BY InitInv, NextInv, PTL DEF Spec

(* Rolling back a savepoint restores the library's hooks exactly, however  *)
(* savepoints nest and whatever user code does to its own hook             *)
(* (core/src/transaction-hooks.ts:78-100).                                 *)
THEOREM SavepointsRestoreHooks == Spec => LibraryHooksRestored
<1>1. IInv /\ [Next]_vars =>
        [RollbackSavepoint =>
           \A k \in LibraryKeys : ContentOf(k, hooks[k])' = LastSaved.content[k]]_vars
  <2> SUFFICES ASSUME IInv, RollbackSavepoint, NEW k \in LibraryKeys
               PROVE  ContentOf(k, hooks[k])' = LastSaved.content[k]
    OBVIOUS
  <2>1. Content(k)' = LastSaved.content[k]
    BY HooksRestored
  <2> QED
    BY <2>1 DEF Content
<1> QED
  BY <1>1, Invariance, PTL DEF Spec, LibraryHooksRestored

-----------------------------------------------------------------------------
(* How spans end.                                                          *)

(* A transaction that is over stays as it is; it gets there by one of      *)
(* three ends.                                                             *)
LEMMA Ends ==
  ASSUME [Next]_vars
  PROVE  /\ Over => UNCHANGED vars
         /\ \/ ~Over' \/ UNCHANGED vars \/ CommitFails \/ Abort
            \/ \E error \in BOOLEAN : Flush(error)
<1>1. ASSUME Next
      PROVE  phase \in {"open", "committed"}
  BY <1>1 DEF Next, Create, CreateFails, Write, Finish, FinishFails, UserBuffers, UserThrows,
              UserCatches, Set, Delete, OpenSavepoint, ReleaseSavepoint, RollbackSavepoint, Running,
              Commit, CommitFails, Abort, Flush
<1>2. ASSUME Next, phase' # phase
      PROVE  Commit \/ CommitFails \/ Abort \/ \E error \in BOOLEAN : Flush(error)
  BY <1>2 DEF Next, Create, CreateFails, Write, Finish, FinishFails, UserBuffers, UserThrows,
              UserCatches, Set, Delete, OpenSavepoint, ReleaseSavepoint, RollbackSavepoint
<1>3. Commit => ~Over'
  BY DEF Commit, Over
<1>4. phase \in {"open", "committed"} => ~Over
  BY DEF Over
<1>5. phase' = phase => (~Over => ~Over')
  BY DEF Over
<1> QED
  BY <1>1, <1>2, <1>3, <1>4, <1>5

LEMMA NextSpans ==
  ASSUME ~CommitFailures, IInv, SpansEndOnce, [Next]_vars
  PROVE  SpansEndOnce'
<1>1. CASE UNCHANGED vars
  BY <1>1 DEF SpansEndOnce, Over, vars
<1>2. CASE CommitFails \/ Abort
  <2>1. fired' = {} /\ status' = status /\ DiscardFrom(hooks) /\ phase = "open"
    BY <1>2, RolledBackInv DEF CommitFails, Abort, Running
  <2>2. \A e \in Effects : status[e] = "created" => ended'[e] = 1
    BY <2>1, DiscardEnds
  <2> QED
    BY <2>1, <2>2 DEF SpansEndOnce
<1>3. ASSUME NEW error \in BOOLEAN, Flush(error)
      PROVE  SpansEndOnce'
  <2>1. /\ phase = "committed" /\ UNCHANGED <<status, ended>>
        /\ \A e \in fired' : e \in Elements(rows) \/ status[e] = "user"
        /\ \A e \in Elements(rows) : status[e] \in Recorded => e \in fired'
    BY <1>3, FlushInv
  <2>2. \A e \in Effects :
          status[e] = "created" => ended[e] = (IF e \in Elements(rows) THEN 0 ELSE 1)
    BY <2>1 DEF IInv, Alive, Spans
  <2>3. ASSUME NEW e \in Effects, status[e] = "created"
        PROVE  ended[e] = IF e \in fired' THEN 0 ELSE 1
    BY <2>1, <2>2, <2>3 DEF Recorded
  <2> QED
    BY <2>1, <2>3 DEF SpansEndOnce
<1>4. CASE ~Over'
  BY <1>4 DEF SpansEndOnce
<1> QED
  BY <1>1, <1>2, <1>3, <1>4, Ends

(* The span of every job created ends exactly once, whichever savepoint or *)
(* transaction its write belongs to, when the COMMIT of a transaction      *)
(* context does not fail                                                   *)
(* (core/src/implementation/create-state-jobs.ts:176-184).                 *)
THEOREM SpansAreEnded ==
  ASSUME ~CommitFailures
  PROVE  Spec => []SpansEndOnce
<1>1. Init => SpansEndOnce
  BY DEF Init, SpansEndOnce, Over
<1>2. IInv /\ SpansEndOnce /\ [Next]_vars => SpansEndOnce'
  BY NextSpans
<1> QED
  BY <1>1, <1>2, Invariance, PTL DEF Spec

-----------------------------------------------------------------------------
(* Calls that fail.                                                        *)

(* The writes of a failed call are there only until its error is caught,   *)
(* and no savepoint covers them.                                           *)
Failures ==
  /\ ~throwing => \A e \in Elements(rows) : status[e] # "failed"
  /\ \A i \in 1 .. Len(saved) : \A e \in FirstOf(rows, saved[i].rows) : status[e] # "failed"

FInv == Alive => Failures

(* What the savepoints cover while an operation writes.                    *)
LEMMA WriteFailures ==
  ASSUME TypeOK, Rows, Nested, Failures, NEW s \in Seq(Effects), Distinct(s),
         NEW as \in Statuses, Write(s, as), saved' = saved
  PROVE  /\ \A i \in 1 .. Len(saved) :
              \A e \in FirstOf(rows', saved[i].rows) : status'[e] # "failed"
         /\ as # "failed" => \A e \in Elements(rows') : status'[e] # "failed"
<1>1. /\ rows' \in Seq(Effects) /\ Prefix(rows, rows')
      /\ Elements(rows') = Elements(rows) \cup Elements(s)
      /\ Elements(rows) \cap Elements(s) = {}
      /\ \A e \in Effects : status'[e] = IF e \in Elements(s) THEN as ELSE status[e]
  BY WriteAdds
<1>2. Elements(rows) \subseteq Effects /\ Elements(s) \subseteq Effects
  BY ElementsIn DEF TypeOK
<1>3. \A e \in Elements(rows) : status'[e] = status[e]
  BY <1>1, <1>2
<1>4. ASSUME NEW i \in 1 .. Len(saved), NEW e \in FirstOf(rows', saved[i].rows)
      PROVE  status'[e] # "failed"
  <2>1. /\ saved[i].rows \in Nat /\ saved[i].rows <= Len(rows)
        /\ FirstOf(rows, saved[i].rows) \subseteq Elements(rows)
    BY SavedBelow, SnapshotNow DEF TypeOK, Nested, Present
  <2>2. FirstOf(rows', saved[i].rows) = FirstOf(rows, saved[i].rows)
    BY <1>1, <2>1, FirstOfPrefix DEF TypeOK
  <2> QED
    BY <1>3, <1>4, <2>1, <2>2 DEF Failures
<1>5. as # "failed" => \A e \in Elements(rows') : status'[e] # "failed"
  BY <1>1, <1>2, <1>3 DEF Write, Running, Failures
<1> QED
  BY <1>4, <1>5

LEMMA NextFailures ==
  ASSUME ~Catching, IInv, IInv', FInv, [Next]_vars
  PROVE  FInv'
<1>1. ASSUME NEW b \in Batches, Create(b)
      PROVE  FInv'
  <2>1. /\ TypeOK /\ Rows /\ Nested /\ Failures /\ fired = {} /\ Write(b, "created")
        /\ UNCHANGED <<saved, throwing, fired>>
    BY <1>1 DEF IInv, FInv, Alive, Create, Write, Running
  <2>2. "created" \in Statuses /\ "created" # "failed" /\ b \in Seq(Effects) /\ Distinct(b)
    BY BatchType DEF Statuses
  <2> QED
    BY <2>1, <2>2, WriteFailures DEF FInv, Failures
<1>2. ASSUME NEW b \in Batches, CreateFails(b)
      PROVE  FInv'
  <2>1. /\ TypeOK /\ Rows /\ Nested /\ Failures /\ fired = {} /\ Write(b, "failed")
        /\ throwing' = TRUE /\ UNCHANGED <<saved, fired>>
    BY <1>2 DEF IInv, FInv, Alive, CreateFails, Write, Running
  <2>2. "failed" \in Statuses /\ b \in Seq(Effects) /\ Distinct(b)
    BY BatchType DEF Statuses
  <2> QED
    BY <2>1, <2>2, WriteFailures DEF FInv, Failures
<1>3. ASSUME NEW x \in Effects, Finish(x)
      PROVE  FInv'
  <2>1. /\ TypeOK /\ Rows /\ Nested /\ Failures /\ fired = {} /\ Write(<<x>>, "finished")
        /\ UNCHANGED <<saved, throwing, fired>>
    BY <1>3 DEF IInv, FInv, Alive, Finish, Write, Running
  <2>2. "finished" \in Statuses /\ "finished" # "failed"
        /\ <<x>> \in Seq(Effects) /\ Distinct(<<x>>)
    BY OneElement DEF Statuses
  <2> QED
    BY <2>1, <2>2, WriteFailures DEF FInv, Failures
<1>13. ASSUME NEW x \in Effects, FinishFails(x)
      PROVE  FInv'
  <2>1. /\ TypeOK /\ Rows /\ Nested /\ Failures /\ fired = {} /\ Write(<<x>>, "failed")
        /\ throwing' = TRUE /\ UNCHANGED <<saved, fired>>
    BY <1>13 DEF IInv, FInv, Alive, FinishFails, Write, Running
  <2>2. "failed" \in Statuses /\ <<x>> \in Seq(Effects) /\ Distinct(<<x>>)
    BY OneElement DEF Statuses
  <2> QED
    BY <2>1, <2>2, WriteFailures DEF FInv, Failures
<1>4. ASSUME NEW x \in Effects, UserBuffers(x)
      PROVE  FInv'
  <2>1. /\ TypeOK /\ Failures /\ fired = {} /\ status' = [status EXCEPT ![x] = "user"]
        /\ UNCHANGED <<saved, rows, throwing, fired>>
    BY <1>4 DEF IInv, FInv, Alive, UserBuffers, Running
  <2>2. \A e : status'[e] = "failed" => status[e] = "failed"
    BY <2>1 DEF TypeOK
  <2> QED
    BY <2>1, <2>2 DEF FInv, Failures
<1>5. CASE UserThrows \/ UserCatches \/ Set \/ Delete
  <2>1. /\ Failures /\ fired = {} /\ UNCHANGED <<saved, rows, status, fired>>
        /\ ~throwing' => ~throwing \/ \A e \in Elements(rows) : status[e] # "failed"
    BY <1>5 DEF IInv, FInv, Alive, UserThrows, UserCatches, Set, Delete, Running
  <2> QED
    BY <2>1 DEF FInv, Failures
<1>6. CASE OpenSavepoint
  <2>1. /\ TypeOK /\ Nested /\ Failures /\ fired = {} /\ ~throwing
        /\ saved' = Append(saved, Snapshot) /\ UNCHANGED <<rows, status, throwing, fired>>
    BY <1>6 DEF IInv, FInv, Alive, OpenSavepoint, Running
  <2>2. Snapshot \in SnapshotType /\ Snapshot.rows = Len(rows)
        /\ FirstOf(rows, Len(rows)) = Elements(rows)
    BY <2>1, SnapshotNow, MatchesNow DEF Present
  <2>3. /\ Len(saved) \in Nat /\ Len(saved') = Len(saved) + 1
        /\ saved'[Len(saved) + 1] = Snapshot
        /\ \A i \in 1 .. Len(saved) : saved'[i] = saved[i]
    BY <2>1, <2>2, AppendProperties, LenProperties DEF TypeOK
  <2>4. ASSUME NEW i \in 1 .. Len(saved'), NEW e \in FirstOf(rows, saved'[i].rows)
        PROVE  status[e] # "failed"
    <3>1. CASE i \in 1 .. Len(saved)
      BY <2>1, <2>3, <2>4, <3>1 DEF Failures
    <3>2. CASE i = Len(saved) + 1
      BY <2>1, <2>2, <2>3, <2>4, <3>2 DEF Failures
    <3> QED
      BY <2>3, <3>1, <3>2
  <2> QED
    BY <2>1, <2>4 DEF FInv, Failures
<1>7. CASE ReleaseSavepoint
  <2>1. /\ TypeOK /\ Failures /\ fired = {} /\ ~throwing
        /\ saved # <<>> /\ saved' = Butlast(saved) /\ UNCHANGED <<rows, status, throwing, fired>>
    BY <1>7 DEF IInv, FInv, Alive, ReleaseSavepoint, Running
  <2>2. /\ Len(saved) \in Nat \ {0} /\ Len(saved') = Len(saved) - 1
        /\ \A i \in 1 .. Len(saved) - 1 : saved'[i] = saved[i]
    BY <2>1, ButlastProperties DEF TypeOK
  <2>3. \A i \in 1 .. Len(saved') : i \in 1 .. Len(saved) /\ saved'[i] = saved[i]
    BY <2>2
  <2> QED
    BY <2>1, <2>3 DEF FInv, Failures
<1>8. CASE RollbackSavepoint
  <2>1. /\ TypeOK /\ Failures /\ fired = {} /\ phase = "open" /\ phase' = "open"
        /\ saved # <<>> /\ rows' = SubSeq(rows, 1, LastSaved.rows)
        /\ UNCHANGED <<status, fired>>
    BY <1>8 DEF IInv, FInv, Alive, RollbackSavepoint
  <2>2. /\ Len(saved) \in 1 .. Len(saved)
        /\ LastSaved.rows \in Nat /\ LastSaved.rows <= Len(rows)
    BY <2>1, LastProperties
  <2>3. Elements(rows') = FirstOf(rows, LastSaved.rows)
    BY <2>1, <2>2, CutProperties DEF TypeOK, FirstOf
  <2>4. \A e \in Elements(rows') : status[e] # "failed"
    BY <2>1, <2>2, <2>3 DEF Failures, LastSaved
  <2>5. \A i \in 1 .. Len(saved') : FirstOf(rows', saved'[i].rows) \subseteq Elements(rows')
    <3>1. TypeOK' /\ Nested'
      BY <2>1 DEF IInv, Alive
    <3>2. Snapshot' \in SnapshotType /\ (Snapshot').rows = Len(rows')
      BY <3>1, SnapshotNext DEF Present
    <3>3. NestedIn(Snapshot', saved', rows', status')
      BY <3>1 DEF Nested
    <3>4. /\ saved' \in Seq(SnapshotType) /\ rows' \in Seq(Effects)
          /\ status' \in [Effects -> Statuses]
      BY <3>1 DEF TypeOK
    <3> QED
      BY <3>2, <3>3, <3>4, SavedBelow
  <2> QED
    BY <2>1, <2>4, <2>5 DEF FInv, Failures
<1>9. CASE Commit
  BY <1>9 DEF IInv, FInv, Alive, Failures, Commit, Running
<1>10. CASE CommitFails \/ Abort
  BY <1>10, RolledBackInv DEF FInv, Alive
<1>11. ASSUME NEW error \in BOOLEAN, Flush(error)
      PROVE  FInv'
  <2>1. /\ phase = "committed" /\ phase' = "flushed" /\ status' = status
        /\ \A e \in fired' : e \in Elements(rows) \/ status[e] = "user"
    BY <1>11, FlushInv
  <2>2. \A e \in Elements(rows) : status[e] # "failed"
    BY <2>1 DEF IInv, FInv, Alive, Failures
  <2> QED
    BY <2>1, <2>2 DEF FInv, Alive
<1>12. CASE UNCHANGED vars
  BY <1>12 DEF FInv, Alive, Failures, vars
<1> QED
  BY <1>1, <1>2, <1>3, <1>4, <1>5, <1>6, <1>7, <1>8, <1>9, <1>10, <1>11, <1>12, <1>13 DEF Next

LEMMA FailureInvariance == ASSUME ~Catching PROVE Spec => []FInv
<1>1. Init => FInv
  <2>1. ASSUME Init
        PROVE  Elements(rows) = {} /\ Len(saved) = 0 /\ fired = {}
    BY <2>1 DEF Init, Elements
  <2> QED
    BY <2>1 DEF FInv, Failures
<1>2. IInv /\ IInv' /\ FInv /\ [Next]_vars => FInv'
  BY NextFailures
<1> QED
  BY <1>1, <1>2, Invariance, PTL DEF Spec

-----------------------------------------------------------------------------
(* The hooks implement effects that wait for the end of the transaction.   *)

Entry(e, st) == [effect |-> e, undo |-> st[e] = "created"]
Entries(r, st) == [i \in 1 .. Len(r) |-> Entry(r[i], st)]

Scope == Entries(rows, status)
MarksIn(sv) == [i \in 1 .. Len(sv) |-> sv[i].rows]
MarksOfSaved == MarksIn(saved)
Outcome == CASE phase \in {"open", "committed"} -> "open"
             [] phase = "flushed" -> "committed"
             [] phase = "rolledBack" -> "rolledBack"
FiredWrites == {e \in fired : status[e] # "user"}
Undone == {e \in Effects : status[e] = "created" /\ ended[e] > 0}

LEMMA EntriesOf ==
  ASSUME NEW r \in Seq(Effects), NEW st \in [Effects -> Statuses]
  PROVE  /\ Entries(r, st) \in [1 .. Len(r) -> Promise!Records]
         /\ Entries(r, st) \in Seq(Promise!Records) /\ Len(Entries(r, st)) = Len(r)
         /\ \A i \in 1 .. Len(r) : /\ Entries(r, st)[i].effect = r[i]
                                   /\ Entries(r, st)[i].undo = (st[r[i]] = "created")
         /\ Promise!EffectsOf(Entries(r, st)) = Elements(r)
         /\ Promise!Undoable(Entries(r, st)) = {e \in Elements(r) : st[e] = "created"}
<1> DEFINE z == Entries(r, st)
<1>1. Len(r) \in Nat /\ \A i \in 1 .. Len(r) : r[i] \in Effects
  BY LenProperties, ElementOfSeq
<1>2. \A e \in Effects : Entry(e, st) \in Promise!Records
  BY DEF Entry, Promise!Records
<1>3. z \in [1 .. Len(r) -> Promise!Records]
  BY <1>1, <1>2 DEF Entries
<1>4. z \in Seq(Promise!Records) /\ Len(z) = Len(r)
  <2>1. z \in Seq(Promise!Records)
    BY <1>1, <1>3, SeqDef
  <2> QED
    BY <1>1, <1>3, <2>1, LenProperties
<1>5. \A i \in 1 .. Len(r) : z[i].effect = r[i] /\ z[i].undo = (st[r[i]] = "created")
  BY DEF Entries, Entry
<1> HIDE DEF z
<1>6. Promise!EffectsOf(z) = Elements(r)
  BY <1>4, <1>5 DEF Promise!EffectsOf, Elements
<1>7. Promise!Undoable(z) = {e \in Elements(r) : st[e] = "created"}
  <2>1. {j \in 1 .. Len(z) : z[j].undo} = {j \in 1 .. Len(r) : st[r[j]] = "created"}
    BY <1>4, <1>5, Zenon
  <2>2. Promise!Undoable(z) = {r[i] : i \in {j \in 1 .. Len(r) : st[r[j]] = "created"}}
    BY <1>5, <2>1 DEF Promise!Undoable
  <2> QED
    BY <2>2 DEF Elements
<1> QED
  BY <1>3, <1>4, <1>5, <1>6, <1>7 DEF z

(* Entries of sequences that grow and are cut.                             *)
LEMMA EntriesConcat ==
  ASSUME NEW r \in Seq(Effects), NEW s \in Seq(Effects),
         NEW st \in [Effects -> Statuses], NEW su \in [Effects -> Statuses],
         SameOn(Elements(r), st, su)
  PROVE  Entries(r \o s, su) = Entries(r, st) \o Entries(s, su)
<1> DEFINE a == Entries(r, st)
           b == Entries(s, su)
           c == Entries(r \o s, su)
<1>1. /\ r \o s \in Seq(Effects) /\ Len(r \o s) = Len(r) + Len(s)
      /\ \A i \in 1 .. Len(r) + Len(s) :
           (r \o s)[i] = IF i <= Len(r) THEN r[i] ELSE s[i - Len(r)]
      /\ Len(r) \in Nat /\ Len(s) \in Nat
  BY ConcatProperties, LenProperties
<1>2. /\ a \in Seq(Promise!Records) /\ b \in Seq(Promise!Records) /\ c \in Seq(Promise!Records)
      /\ Len(a) = Len(r) /\ Len(b) = Len(s) /\ Len(c) = Len(r) + Len(s)
  BY <1>1, EntriesOf
<1>3. /\ \A i \in 1 .. Len(r) : a[i] = Entry(r[i], st)
      /\ \A i \in 1 .. Len(s) : b[i] = Entry(s[i], su)
      /\ \A i \in 1 .. Len(r) + Len(s) : c[i] = Entry((r \o s)[i], su)
  BY <1>1 DEF Entries
<1> HIDE DEF a, b, c
<1>4. /\ a \o b \in Seq(Promise!Records) /\ Len(a \o b) = Len(r) + Len(s)
      /\ \A i \in 1 .. Len(r) + Len(s) :
           (a \o b)[i] = IF i <= Len(r) THEN a[i] ELSE b[i - Len(r)]
  <2>1. /\ a \o b \in Seq(Promise!Records) /\ Len(a \o b) = Len(a) + Len(b)
        /\ \A i \in 1 .. Len(a) + Len(b) :
             (a \o b)[i] = IF i <= Len(a) THEN a[i] ELSE b[i - Len(a)]
    <3> DEFINE R == Promise!Records
    <3>1. a \in Seq(R) /\ b \in Seq(R)
      BY <1>2
    <3> HIDE DEF R
    <3>2. /\ a \o b \in Seq(R) /\ Len(a \o b) = Len(a) + Len(b)
          /\ \A i \in 1 .. Len(a) + Len(b) :
               (a \o b)[i] = IF i <= Len(a) THEN a[i] ELSE b[i - Len(a)]
      BY <3>1, ConcatProperties
    <3> QED
      BY <3>2 DEF R
  <2> QED
    BY <1>2, <2>1
<1>5. \A i \in 1 .. Len(r) : Entry(r[i], su) = Entry(r[i], st)
  BY DEF Entry, Elements, SameOn
<1>6. ASSUME NEW i \in 1 .. Len(r) + Len(s)
      PROVE  c[i] = (a \o b)[i]
  <2>1. CASE i <= Len(r)
    <3>1. i \in 1 .. Len(r) /\ (r \o s)[i] = r[i] /\ (a \o b)[i] = a[i]
      BY <1>1, <1>4, <2>1
    <3> QED
      BY <1>3, <1>5, <3>1
  <2>2. CASE ~(i <= Len(r))
    <3>1. i - Len(r) \in 1 .. Len(s)
          /\ (r \o s)[i] = s[i - Len(r)] /\ (a \o b)[i] = b[i - Len(r)]
      BY <1>1, <1>4, <2>2
    <3> QED
      BY <1>3, <3>1
  <2> QED
    BY <2>1, <2>2
<1> QED
  BY <1>2, <1>4, <1>6, SeqEqual DEF a, b, c

LEMMA EntriesCut ==
  ASSUME NEW r \in Seq(Effects), NEW st \in [Effects -> Statuses],
         NEW n \in Nat, n <= Len(r)
  PROVE  /\ Entries(SubSeq(r, 1, n), st) = SubSeq(Entries(r, st), 1, n)
         /\ Entries(SubSeq(r, n + 1, Len(r)), st)
              = SubSeq(Entries(r, st), n + 1, Len(Entries(r, st)))
<1> DEFINE z == Entries(r, st)
           p == SubSeq(r, 1, n)
           q == SubSeq(r, n + 1, Len(r))
<1>1. /\ Len(r) \in Nat
      /\ p \in Seq(Effects) /\ Len(p) = n /\ \A i \in 1 .. n : p[i] = r[i]
      /\ q \in Seq(Effects) /\ Len(q) = Len(r) - n /\ \A i \in 1 .. Len(r) - n : q[i] = r[n + i]
  BY LenProperties, CutProperties, TailProperties
<1>2. z \in Seq(Promise!Records) /\ Len(z) = Len(r)
      /\ \A i \in 1 .. Len(r) : z[i] = Entry(r[i], st)
  BY EntriesOf DEF Entries
<1> HIDE DEF z, p, q
<1>3. /\ SubSeq(z, 1, n) \in Seq(Promise!Records) /\ Len(SubSeq(z, 1, n)) = n
      /\ \A i \in 1 .. n : SubSeq(z, 1, n)[i] = z[i]
  BY <1>2, CutProperties
<1>4. /\ SubSeq(z, n + 1, Len(z)) \in Seq(Promise!Records)
      /\ Len(SubSeq(z, n + 1, Len(z))) = Len(r) - n
      /\ \A i \in 1 .. Len(r) - n : SubSeq(z, n + 1, Len(z))[i] = z[n + i]
  BY <1>2, TailProperties
<1>5. /\ Entries(p, st) \in Seq(Promise!Records) /\ Len(Entries(p, st)) = n
      /\ Entries(q, st) \in Seq(Promise!Records) /\ Len(Entries(q, st)) = Len(r) - n
  BY <1>1, EntriesOf
<1>6. /\ \A i \in 1 .. n : Entries(p, st)[i] = Entry(p[i], st)
      /\ \A i \in 1 .. Len(r) - n : Entries(q, st)[i] = Entry(q[i], st)
  BY <1>1 DEF Entries
<1>7. \A i \in 1 .. n : Entries(p, st)[i] = SubSeq(z, 1, n)[i]
  <2>1. \A i \in 1 .. n : i \in 1 .. Len(r)
    BY <1>1
  <2> QED
    BY <1>1, <1>2, <1>3, <1>6, <2>1
<1>8. ASSUME NEW i \in 1 .. Len(r) - n
      PROVE  Entries(q, st)[i] = SubSeq(z, n + 1, Len(z))[i]
  <2>1. n + i \in 1 .. Len(r)
    BY <1>1
  <2> QED
    BY <1>1, <1>2, <1>4, <1>6, <2>1
<1>9. Entries(p, st) = SubSeq(z, 1, n)
  BY <1>3, <1>5, <1>7, SeqEqual
<1>10. Entries(q, st) = SubSeq(z, n + 1, Len(z))
  BY <1>4, <1>5, <1>8, SeqEqual
<1> QED
  BY <1>9, <1>10 DEF z, p, q

LEMMA MarksInProperties ==
  ASSUME NEW sv \in Seq(SnapshotType)
  PROVE  /\ MarksIn(sv) \in Seq(Nat) /\ Len(MarksIn(sv)) = Len(sv)
         /\ \A i \in 1 .. Len(sv) : MarksIn(sv)[i] = sv[i].rows
         /\ MarksIn(sv) = <<>> <=> sv = <<>>
<1>1. Len(sv) \in Nat /\ \A i \in 1 .. Len(sv) : sv[i].rows \in Nat
  <2>1. Len(sv) \in Nat /\ \A i \in 1 .. Len(sv) : sv[i] \in SnapshotType
    BY LenProperties, ElementOfSeq
  <2>2. \A s \in SnapshotType : s.rows \in Nat
    BY DEF SnapshotType
  <2> QED
    BY <2>1, <2>2
<1>2. MarksIn(sv) \in [1 .. Len(sv) -> Nat]
  BY <1>1 DEF MarksIn
<1>3. MarksIn(sv) \in Seq(Nat)
  BY <1>1, <1>2, SeqDef
<1>4. Len(MarksIn(sv)) = Len(sv)
  BY <1>1, <1>2, <1>3, LenProperties
<1>5. \A i \in 1 .. Len(sv) : MarksIn(sv)[i] = sv[i].rows
  BY DEF MarksIn
<1>6. MarksIn(sv) = <<>> <=> sv = <<>>
  BY <1>3, <1>4, EmptySeq
<1> QED
  BY <1>3, <1>4, <1>5, <1>6

LEMMA MarksInAppend ==
  ASSUME NEW sv \in Seq(SnapshotType), NEW s \in SnapshotType
  PROVE  MarksIn(Append(sv, s)) = Append(MarksIn(sv), s.rows)
<1> DEFINE tv == Append(sv, s)
           m == Append(MarksIn(sv), s.rows)
<1>1. s.rows \in Nat /\ Len(sv) \in Nat
  BY LenProperties DEF SnapshotType
<1>2. /\ tv \in Seq(SnapshotType) /\ Len(tv) = Len(sv) + 1 /\ tv[Len(sv) + 1] = s
      /\ \A i \in 1 .. Len(sv) : tv[i] = sv[i]
  BY AppendProperties
<1>3. /\ MarksIn(sv) \in Seq(Nat) /\ Len(MarksIn(sv)) = Len(sv)
      /\ \A i \in 1 .. Len(sv) : MarksIn(sv)[i] = sv[i].rows
  BY MarksInProperties
<1>4. /\ m \in Seq(Nat) /\ Len(m) = Len(sv) + 1 /\ m[Len(sv) + 1] = s.rows
      /\ \A i \in 1 .. Len(sv) : m[i] = sv[i].rows
  BY <1>1, <1>3, AppendProperties
<1> HIDE DEF tv, m
<1>5. /\ MarksIn(tv) \in Seq(Nat) /\ Len(MarksIn(tv)) = Len(sv) + 1
      /\ \A i \in 1 .. Len(sv) + 1 : MarksIn(tv)[i] = tv[i].rows
  BY <1>2, MarksInProperties
<1>6. ASSUME NEW i \in 1 .. Len(sv) + 1
      PROVE  MarksIn(tv)[i] = m[i]
  <2>1. CASE i \in 1 .. Len(sv)
    BY <1>2, <1>4, <1>5, <2>1
  <2>2. CASE i = Len(sv) + 1
    BY <1>2, <1>4, <1>5, <2>2
  <2> QED
    BY <1>1, <2>1, <2>2
<1> QED
  BY <1>4, <1>5, <1>6, SeqEqual DEF tv, m

LEMMA MarksInButlast ==
  ASSUME NEW sv \in Seq(SnapshotType), sv # <<>>
  PROVE  MarksIn(Butlast(sv)) = SubSeq(MarksIn(sv), 1, Len(MarksIn(sv)) - 1)
<1> DEFINE n == Len(sv)
           m == MarksIn(sv)
<1>1. /\ n \in Nat \ {0} /\ Butlast(sv) \in Seq(SnapshotType) /\ Len(Butlast(sv)) = n - 1
      /\ \A i \in 1 .. n - 1 : Butlast(sv)[i] = sv[i]
  BY ButlastProperties
<1>2. m \in Seq(Nat) /\ Len(m) = n /\ m # <<>> /\ \A i \in 1 .. n : m[i] = sv[i].rows
  BY MarksInProperties
<1>3. /\ MarksIn(Butlast(sv)) \in Seq(Nat) /\ Len(MarksIn(Butlast(sv))) = n - 1
      /\ \A i \in 1 .. n - 1 : MarksIn(Butlast(sv))[i] = Butlast(sv)[i].rows
  BY <1>1, MarksInProperties
<1> HIDE DEF n, m
<1>4. /\ Butlast(m) \in Seq(Nat) /\ Len(Butlast(m)) = n - 1
      /\ \A i \in 1 .. n - 1 : Butlast(m)[i] = m[i]
  BY <1>2, ButlastProperties
<1>5. ASSUME NEW i \in 1 .. n - 1
      PROVE  MarksIn(Butlast(sv))[i] = Butlast(m)[i]
  <2>1. i \in 1 .. n
    BY <1>1
  <2>2. Butlast(m)[i] = sv[i].rows
    BY <1>2, <1>4, <2>1
  <2>3. MarksIn(Butlast(sv))[i] = sv[i].rows
    BY <1>1, <1>3
  <2> QED
    BY <2>2, <2>3
<1>6. MarksIn(Butlast(sv)) = Butlast(m)
  BY <1>3, <1>4, <1>5, SeqEqual
<1> QED
  BY <1>2, <1>6 DEF Butlast, m

(* While a transaction lasts, what is undone is what is created and gone.  *)
Gone == {e \in Effects : status[e] = "created" /\ e \notin Elements(rows)}

LEMMA UndoneNow == IInv /\ Alive => Undone = Gone
<1> SUFFICES ASSUME IInv, Alive, NEW e \in Effects, status[e] = "created"
             PROVE  ended[e] > 0 <=> e \notin Elements(rows)
  BY DEF Undone, Gone
<1> QED
  BY DEF IInv, Spans

LEMMA UndoneNext == (IInv /\ Alive)' => (Undone = Gone)'
BY UndoneNow, PTL

-----------------------------------------------------------------------------
(* Every step is one of the promise or changes nothing of it.              *)

LEMMA RecordPromised ==
  ASSUME IInv, IInv', phase = "open", UNCHANGED <<saved, phase, fired>>,
         NEW s \in Seq(Effects), Distinct(s), Len(s) \in 1 .. MaxBatch,
         NEW as \in Statuses, Write(s, as)
  PROVE  Promise!ANext
<1> PICK z : z = Entries(s, status')
  OBVIOUS
<1>1. TypeOK /\ TypeOK' /\ Rows /\ fired = {} /\ Alive /\ Alive'
  BY DEF IInv, Alive
<1>2. /\ rows \in Seq(Effects) /\ status \in [Effects -> Statuses]
      /\ status' \in [Effects -> Statuses] /\ rows' = rows \o s
      /\ Elements(rows') = Elements(rows) \cup Elements(s)
      /\ Elements(rows) \cap Elements(s) = {}
      /\ \A e \in Effects : status'[e] = IF e \in Elements(s) THEN as ELSE status[e]
  BY <1>1, WriteAdds DEF TypeOK
<1>3. Elements(rows) \subseteq Effects
  BY <1>2, ElementsIn
<1>4. Scope' = Scope \o z
  <2>1. SameOn(Elements(rows), status, status')
    BY <1>2, <1>3 DEF SameOn
  <2>2. Entries(rows \o s, status') = Entries(rows, status) \o Entries(s, status')
    <3>1. /\ rows \in Seq(Effects) /\ status \in [Effects -> Statuses]
          /\ status' \in [Effects -> Statuses]
      BY <1>2
    <3> QED
      BY <2>1, <3>1, EntriesConcat
  <2> QED
    BY <1>2, <2>2 DEF Scope
<1>5. /\ z \in [1 .. Len(s) -> Promise!Records]
      /\ Promise!EffectsOf(z) = Elements(s) /\ Promise!EffectsOf(Scope) = Elements(rows)
  BY <1>2, EntriesOf DEF Scope
<1>6. MarksOfSaved' = MarksOfSaved /\ Outcome = "open" /\ Outcome' = Outcome
  BY DEF MarksOfSaved, MarksIn, Outcome
<1>7. FiredWrites' = FiredWrites
  BY <1>1 DEF FiredWrites
<1>8. Undone' = Undone
  <2>1. \A e \in Effects : status'[e] = "created" /\ e \notin Elements(rows')
                             <=> status[e] = "created" /\ e \notin Elements(rows)
    BY <1>2 DEF Write
  <2> QED
    BY <1>1, <2>1, UndoneNow, UndoneNext DEF Gone
<1>9. Promise!ARecord(z)
  <2>1. Promise!EffectsOf(z) \cap Promise!EffectsOf(Scope) = {}
    BY <1>2, <1>5
  <2> QED
    BY <1>4, <1>6, <1>7, <1>8, <2>1
       DEF Promise!ARecord, Scope, Entries, Entry, MarksOfSaved, MarksIn, Outcome,
           FiredWrites, Undone
<1>10. \E n \in 1 .. MaxBatch : \E y \in [1 .. n -> Promise!Records] : Promise!ARecord(y)
  BY <1>5, <1>9
<1> QED
  BY <1>10 DEF Promise!ANext

LEMMA OpenPromised ==
  ASSUME IInv, OpenSavepoint
  PROVE  Promise!ANext
<1>1. /\ TypeOK /\ phase = "open" /\ saved' = Append(saved, Snapshot)
      /\ UNCHANGED <<rows, phase, status, fired, ended>>
  BY DEF IInv, OpenSavepoint, Running
<1>2. Snapshot \in SnapshotType /\ Snapshot.rows = Len(rows) /\ saved \in Seq(SnapshotType)
  BY <1>1, SnapshotNow DEF Present, TypeOK
<1>3. MarksOfSaved' = Append(MarksOfSaved, Len(rows))
  BY <1>1, <1>2, MarksInAppend DEF MarksOfSaved
<1>4. Len(Scope) = Len(rows)
  BY <1>1, EntriesOf DEF Scope, TypeOK
<1>5. /\ Outcome = "open" /\ Outcome' = Outcome /\ Scope' = Scope
      /\ FiredWrites' = FiredWrites /\ Undone' = Undone
  BY <1>1 DEF Outcome, Scope, Entries, Entry, FiredWrites, Undone
<1>6. Promise!AOpen
  BY <1>3, <1>4, <1>5
     DEF Promise!AOpen, Scope, Entries, Entry, MarksOfSaved, MarksIn, Outcome, FiredWrites, Undone
<1> QED
  BY <1>6 DEF Promise!ANext

LEMMA ReleasePromised ==
  ASSUME IInv, ReleaseSavepoint
  PROVE  Promise!ANext
<1>1. /\ saved \in Seq(SnapshotType) /\ saved # <<>> /\ phase = "open" /\ saved' = Butlast(saved)
      /\ UNCHANGED <<rows, phase, status, fired, ended>>
  BY DEF IInv, ReleaseSavepoint, Running, TypeOK
<1>2. /\ MarksOfSaved # <<>>
      /\ MarksOfSaved' = SubSeq(MarksOfSaved, 1, Len(MarksOfSaved) - 1)
  BY <1>1, MarksInProperties, MarksInButlast DEF MarksOfSaved
<1>3. /\ Outcome = "open" /\ Outcome' = Outcome /\ Scope' = Scope
      /\ FiredWrites' = FiredWrites /\ Undone' = Undone
  BY <1>1 DEF Outcome, Scope, Entries, Entry, FiredWrites, Undone
<1>4. Promise!ARelease
  BY <1>2, <1>3
     DEF Promise!ARelease, Scope, Entries, Entry, MarksOfSaved, MarksIn, Outcome, FiredWrites, Undone
<1> QED
  BY <1>4 DEF Promise!ANext

LEMMA RollbackPromised ==
  ASSUME IInv, IInv', RollbackSavepoint
  PROVE  Promise!ANext
<1> DEFINE n == LastSaved.rows
           tail == SubSeq(rows, n + 1, Len(rows))
<1>1. /\ saved \in Seq(SnapshotType) /\ saved # <<>> /\ phase = "open" /\ saved' = Butlast(saved)
      /\ rows \in Seq(Effects) /\ status \in [Effects -> Statuses] /\ Distinct(rows)
      /\ rows' = SubSeq(rows, 1, n) /\ fired = {}
      /\ UNCHANGED <<phase, status, fired>> /\ Alive /\ Alive'
  BY DEF IInv, RollbackSavepoint, TypeOK, Rows, Alive
<1>2. n \in Nat /\ n <= Len(rows) /\ Len(saved) \in 1 .. Len(saved)
  BY <1>1, LastProperties
<1>3. /\ MarksOfSaved # <<>> /\ MarksOfSaved[Len(MarksOfSaved)] = n
      /\ MarksOfSaved' = SubSeq(MarksOfSaved, 1, Len(MarksOfSaved) - 1)
  BY <1>1, <1>2, MarksInProperties, MarksInButlast DEF MarksOfSaved, LastSaved
<1> HIDE DEF n
<1>4. /\ Scope' = SubSeq(Scope, 1, n)
      /\ Entries(tail, status) = SubSeq(Scope, n + 1, Len(Scope))
  BY <1>1, <1>2, EntriesCut DEF Scope
<1>5. tail \in Seq(Effects) /\ Elements(tail) = Elements(rows) \ Elements(rows')
  <2>1. /\ rows' \in Seq(Effects) /\ Len(rows') = n /\ \A i \in 1 .. n : rows'[i] = rows[i]
    BY <1>1, <1>2, CutProperties
  <2>2. Prefix(rows', rows)
    BY <1>2, <2>1 DEF Prefix
  <2> QED
    BY <1>1, <1>2, <2>1, <2>2, CutTail, TailProperties
<1>6. Promise!Undoable(SubSeq(Scope, n + 1, Len(Scope)))
        = {e \in Elements(rows) \ Elements(rows') : status[e] = "created"}
  <2> HIDE DEF tail
  <2>1. tail \in Seq(Effects) /\ status \in [Effects -> Statuses]
    BY <1>1, <1>5
  <2>2. Promise!Undoable(Entries(tail, status)) = {e \in Elements(tail) : status[e] = "created"}
    BY <2>1, EntriesOf
  <2> QED
    BY <1>4, <1>5, <2>2
<1>7. Undone' = Undone \cup Promise!Undoable(SubSeq(Scope, n + 1, Len(Scope)))
  <2>1. Elements(rows') \subseteq Elements(rows) /\ Elements(rows) \subseteq Effects
    <3>1. Elements(rows') = {rows[i] : i \in 1 .. n} /\ Len(rows) \in Nat
      BY <1>1, <1>2, CutProperties, LenProperties
    <3> QED
      BY <1>1, <1>2, <3>1, ElementsIn DEF Elements
  <2>2. Undone = Gone /\ Undone' = Gone'
    BY <1>1, UndoneNow, UndoneNext
  <2> QED
    BY <1>1, <1>6, <2>1, <2>2 DEF Gone
<1>8. /\ Outcome = "open" /\ Outcome' = Outcome /\ FiredWrites' = FiredWrites
  BY <1>1 DEF Outcome, FiredWrites
<1>9. Promise!ARollback
  BY <1>3, <1>4, <1>7, <1>8
     DEF Promise!ARollback, Scope, Entries, Entry, MarksOfSaved, MarksIn, Outcome, FiredWrites,
         Undone
<1> QED
  BY <1>9 DEF Promise!ANext

LEMMA AbortPromised ==
  ASSUME ~CommitFailures, IInv, CommitFails \/ Abort
  PROVE  Promise!ANext
<1>1. /\ TypeOK /\ Alive /\ phase = "open" /\ saved = <<>> /\ saved' = <<>> /\ rows' = <<>>
      /\ fired = {}
  BY DEF IInv, Alive, CommitFails, Abort, Running
<1>2. phase' = "rolledBack" /\ fired' = {} /\ status' = status /\ DiscardFrom(hooks)
  BY RolledBackInv
<1>3. /\ MarksOfSaved = <<>> /\ MarksOfSaved' = MarksOfSaved
      /\ Outcome = "open" /\ Outcome' = "rolledBack" /\ FiredWrites' = FiredWrites
  BY <1>1, <1>2, MarksInProperties DEF MarksOfSaved, Outcome, FiredWrites, TypeOK
<1>4. Scope' = <<>>
  <2>1. <<>> \in Seq(Effects) /\ Len(<<>>) = 0 /\ status \in [Effects -> Statuses]
    BY <1>1, EmptySeq DEF TypeOK
  <2>2. Entries(<<>>, status) \in Seq(Promise!Records) /\ Len(Entries(<<>>, status)) = 0
    BY <2>1, EntriesOf
  <2>3. Entries(<<>>, status) = <<>>
    BY <2>2, EmptySeq
  <2> QED
    BY <1>1, <1>2, <2>3 DEF Scope
<1>5. Undone' = Undone \cup Promise!Undoable(Scope)
  <2>1. Undone' = {e \in Effects : status[e] = "created"}
    <3>1. \A e \in Effects : status[e] = "created" => ended'[e] = 1
      BY <1>1, <1>2, DiscardEnds
    <3> QED
      BY <1>2, <3>1 DEF Undone
  <2>2. Undone = Gone
    BY <1>1, UndoneNow
  <2>3. Promise!Undoable(Scope) = {e \in Elements(rows) : status[e] = "created"}
    BY <1>1, EntriesOf DEF Scope, TypeOK
  <2>4. Elements(rows) \subseteq Effects
    BY <1>1, ElementsIn DEF TypeOK
  <2> QED
    BY <2>1, <2>2, <2>3, <2>4 DEF Gone
<1>6. Promise!AAbort
  BY <1>3, <1>4, <1>5
     DEF Promise!AAbort, Scope, Entries, Entry, MarksOfSaved, MarksIn, Outcome, FiredWrites, Undone
<1> QED
  BY <1>6 DEF Promise!ANext

LEMMA FlushPromised ==
  ASSUME IInv, FInv, NEW error \in BOOLEAN, Flush(error)
  PROVE  Promise!ANext
<1>1. /\ TypeOK /\ Rows /\ Failures /\ phase = "committed" /\ phase' = "flushed"
      /\ saved = <<>> /\ ~throwing
      /\ UNCHANGED <<saved, rows, status, ended>>
      /\ \A e \in fired' : e \in Elements(rows) \/ status[e] = "user"
      /\ \A e \in Elements(rows) : status[e] \in Recorded => e \in fired'
  BY FlushInv DEF IInv, FInv, Alive
<1>2. /\ MarksOfSaved = <<>> /\ MarksOfSaved' = MarksOfSaved /\ Scope' = Scope
      /\ Outcome = "open" /\ Outcome' = "committed" /\ Undone' = Undone
  BY <1>1, MarksInProperties DEF MarksOfSaved, MarksIn, Outcome, Scope, Entries, Entry, Undone, TypeOK
<1>3. FiredWrites' = Promise!EffectsOf(Scope)
  <2>1. Promise!EffectsOf(Scope) = Elements(rows)
    BY <1>1, EntriesOf DEF Scope, TypeOK
  <2>2. \A e \in Elements(rows) : status[e] \in Recorded
    BY <1>1 DEF Rows, Failures
  <2>3. \A e \in Elements(rows) : e \in fired' /\ status[e] # "user"
    BY <1>1, <2>2 DEF Recorded
  <2> QED
    BY <1>1, <2>1, <2>3 DEF FiredWrites
<1>4. Promise!ACommit
  BY <1>2, <1>3
     DEF Promise!ACommit, Scope, Entries, Entry, MarksOfSaved, MarksIn, Outcome, FiredWrites, Undone
<1> QED
  BY <1>4 DEF Promise!ANext

(* Buffering, catching and committing concern no write.                    *)
LEMMA StillPromised ==
  ASSUME IInv, IInv',
         \/ \E x \in Effects : UserBuffers(x)
         \/ UserThrows \/ UserCatches \/ Set \/ Delete \/ Commit \/ UNCHANGED vars
  PROVE  UNCHANGED Promise!avars
<1>1. /\ UNCHANGED <<rows, saved, ended>> /\ Outcome' = Outcome
  BY DEF UserBuffers, UserThrows, UserCatches, Set, Delete, Commit, Running, Outcome, vars
<1>2. TypeOK /\ Rows
  BY DEF IInv
<1>3. /\ UNCHANGED fired
      /\ \/ UNCHANGED status
         \/ /\ fired = {}
            /\ \E x \in Effects : status[x] = "new" /\ status' = [status EXCEPT ![x] = "user"]
  BY DEF UserBuffers, UserThrows, UserCatches, Set, Delete, Commit, Running, vars, IInv, Alive
<1>4. CASE UNCHANGED status
  BY <1>1, <1>3, <1>4
     DEF Promise!avars, Outcome
<1>5. CASE /\ fired = {}
           /\ \E x \in Effects : status[x] = "new" /\ status' = [status EXCEPT ![x] = "user"]
  <2>1. PICK x \in Effects : status[x] = "new" /\ status' = [status EXCEPT ![x] = "user"]
    BY <1>5
  <2>2. \A e \in Effects : (status'[e] = "created") = (status[e] = "created")
    BY <1>2, <2>1 DEF TypeOK
  <2>3. Elements(rows) \subseteq Effects /\ \A i \in 1 .. Len(rows) : rows[i] \in Effects
    BY <1>2, ElementsIn, ElementOfSeq DEF TypeOK
  <2>4. Scope' = Scope
    <3>1. \A i \in 1 .. Len(rows) : Entry(rows[i], status') = Entry(rows[i], status)
      BY <2>2, <2>3 DEF Entry
    <3> QED
      BY <1>1, <3>1 DEF Scope, Entries
  <2>5. Undone' = Undone
    BY <1>1, <2>2 DEF Undone
  <2>6. FiredWrites' = FiredWrites /\ MarksOfSaved' = MarksOfSaved
    BY <1>1, <1>3, <1>5 DEF FiredWrites, MarksOfSaved, MarksIn
  <2> QED
    BY <1>1, <2>4, <2>5, <2>6
       DEF Promise!avars, Scope, Entries, Entry, MarksOfSaved, MarksIn, Outcome, FiredWrites, Undone
<1> QED
  BY <1>3, <1>4, <1>5

LEMMA NextPromised ==
  ASSUME ~CommitFailures, IInv, IInv', FInv, [Next]_vars
  PROVE  [Promise!ANext]_(Promise!avars)
<1>1. ASSUME NEW b \in Batches, Create(b) \/ CreateFails(b)
      PROVE  Promise!ANext
  <2>1. PICK as \in {"created", "failed"} : Write(b, as)
    BY <1>1 DEF Create, CreateFails
  <2>2. phase = "open" /\ UNCHANGED <<saved, phase, fired>> /\ as \in Statuses
    BY <1>1 DEF Create, CreateFails, Write, Running, Statuses
  <2> QED
    BY <2>1, <2>2, BatchType, RecordPromised
<1>2. ASSUME NEW x \in Effects, Finish(x) \/ FinishFails(x)
      PROVE  Promise!ANext
  <2>1. PICK as \in {"finished", "failed"} : Write(<<x>>, as)
    BY <1>2 DEF Finish, FinishFails
  <2>3. phase = "open" /\ UNCHANGED <<saved, phase, fired>> /\ as \in Statuses
    BY <1>2 DEF Finish, FinishFails, Write, Running, Statuses
  <2>2. <<x>> \in Seq(Effects) /\ Distinct(<<x>>) /\ Len(<<x>>) \in 1 .. MaxBatch
    BY OneElement, BoundsType
  <2> QED
    BY <2>1, <2>2, <2>3, RecordPromised
<1>3. ASSUME NEW error \in BOOLEAN, Flush(error)
      PROVE  Promise!ANext
  BY <1>3, FlushPromised
<1>4. CASE OpenSavepoint \/ ReleaseSavepoint \/ RollbackSavepoint
  BY <1>4, OpenPromised, ReleasePromised, RollbackPromised
<1>5. CASE CommitFails \/ Abort
  BY <1>5, AbortPromised
<1>6. CASE \/ \E x \in Effects : UserBuffers(x)
           \/ UserThrows \/ UserCatches \/ Set \/ Delete \/ Commit \/ UNCHANGED vars
  BY <1>6, StillPromised
<1> QED
  BY <1>1, <1>2, <1>3, <1>4, <1>5, <1>6 DEF Next

LEMMA InitPromised == Init => Promise!AInit
<1> SUFFICES ASSUME Init
             PROVE  Promise!AInit
  OBVIOUS
<1>1. TypeOK /\ saved = <<>> /\ rows = <<>> /\ fired = {} /\ phase = "open"
  BY InitInv DEF IInv, Init
<1>2. MarksOfSaved = <<>>
  BY <1>1, MarksInProperties DEF MarksOfSaved, TypeOK
<1>3. Scope = <<>>
  <2>1. Scope \in Seq(Promise!Records) /\ Len(Scope) = 0
    BY <1>1, EntriesOf, EmptySeq DEF Scope, TypeOK
  <2> QED
    BY <2>1, EmptySeq
<1>4. Outcome = "open" /\ FiredWrites = {} /\ Undone = {}
  BY <1>1 DEF Init, Outcome, FiredWrites, Undone
<1> QED
  BY <1>2, <1>3, <1>4
     DEF Promise!AInit, Scope, Entries, Entry, MarksOfSaved, MarksIn, Outcome, FiredWrites, Undone

(* The hooks of a transaction implement effects that wait for its end and  *)
(* are taken back with the writes they belong to, when user code catches   *)
(* errors of failed calls at savepoints only and the COMMIT of a           *)
(* transaction context does not fail                                       *)
(* (core/src/transaction-hooks.ts:153-177).                                *)
THEOREM EffectsWait ==
  ASSUME ~Catching, ~CommitFailures
  PROVE  Spec => EffectsArePromised
<1>1. Init => Promise!AInit
  BY InitPromised
<1>2. IInv /\ IInv' /\ FInv /\ [Next]_vars => [Promise!ANext]_(Promise!avars)
  BY NextPromised
<1>3. Spec => []FInv
  BY FailureInvariance
<1> QED
  BY <1>1, <1>2, <1>3, Invariance, PTL DEF Spec, EffectsArePromised, Promise!ASpec
=============================================================================
