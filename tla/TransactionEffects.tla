------------------------ MODULE TransactionEffects ------------------------
(***************************************************************************)
(* What queuert promises of the side effects of a transaction              *)
(* (docs/guides/transaction-hooks.mdx): every write of the transaction has *)
(* an effect that waits for the end.  A savepoint that is rolled back      *)
(* takes back what was recorded since it was opened, a commit fires what   *)
(* is left, a rollback fires nothing.  An effect may come with a callback  *)
(* that undoes it; it runs when the effect is taken back.                  *)
(***************************************************************************)
EXTENDS Naturals, Sequences

CONSTANTS
  Effects,   \* identities of the writes a transaction may perform
  MaxBatch   \* bound: writes recorded by one operation

VARIABLES
  scope,    \* the effects of the transaction so far, [effect, undo] records
  marks,    \* the open savepoints: how many effects preceded each
  outcome,  \* "open", "committed" or "rolledBack"
  fired,    \* effects that took place
  undone    \* effects that were taken back by their callback

avars == <<scope, marks, outcome, fired, undone>>

Records == [effect : Effects, undo : BOOLEAN]

EffectsOf(s) == {s[i].effect : i \in 1 .. Len(s)}
Undoable(s) == {s[i].effect : i \in {j \in 1 .. Len(s) : s[j].undo}}

AInit ==
  /\ scope = <<>> /\ marks = <<>>
  /\ outcome = "open"
  /\ fired = {} /\ undone = {}

ARecord(s) ==
  /\ outcome = "open" /\ EffectsOf(s) \cap EffectsOf(scope) = {}
  /\ scope' = scope \o s
  /\ UNCHANGED <<marks, outcome, fired, undone>>

AOpen ==
  /\ outcome = "open"
  /\ marks' = Append(marks, Len(scope))
  /\ UNCHANGED <<scope, outcome, fired, undone>>

ARelease ==
  /\ outcome = "open" /\ marks # <<>>
  /\ marks' = SubSeq(marks, 1, Len(marks) - 1)
  /\ UNCHANGED <<scope, outcome, fired, undone>>

ARollback ==
  /\ outcome = "open" /\ marks # <<>>
  /\ LET kept == marks[Len(marks)] IN
       /\ scope' = SubSeq(scope, 1, kept)
       /\ undone' = undone \cup Undoable(SubSeq(scope, kept + 1, Len(scope)))
  /\ marks' = SubSeq(marks, 1, Len(marks) - 1)
  /\ UNCHANGED <<outcome, fired>>

ACommit ==
  /\ outcome = "open" /\ marks = <<>>
  /\ outcome' = "committed"
  /\ fired' = EffectsOf(scope)
  /\ UNCHANGED <<scope, marks, undone>>

AAbort ==
  /\ outcome = "open" /\ marks = <<>>
  /\ outcome' = "rolledBack"
  /\ scope' = <<>>
  /\ undone' = undone \cup Undoable(scope)
  /\ UNCHANGED <<marks, fired>>

ANext ==
  \/ \E n \in 1 .. MaxBatch : \E s \in [1 .. n -> Records] : ARecord(s)
  \/ AOpen \/ ARelease \/ ARollback
  \/ ACommit \/ AAbort

ASpec == AInit /\ [][ANext]_avars
=============================================================================
