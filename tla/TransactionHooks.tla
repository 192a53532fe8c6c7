------------------------- MODULE TransactionHooks -------------------------
(***************************************************************************)
(* A transaction with its buffered side effects: the hooks container of    *)
(* core/src/transaction-hooks.ts, the hooks the repository registers in it *)
(* (helpers/notify-hooks.ts, helpers/observability-hooks.ts), a hook of    *)
(* the user's own, and the two owners of a transaction,                    *)
(* withTransactionHooks and helpers/transaction-context.ts.  A savepoint   *)
(* covers the database and the hooks, as in helpers/savepoint-context.ts.  *)
(*                                                                         *)
(* A hook definition is an object with mutable state; a savepoint holds    *)
(* references to the objects that were registered when it was created, so  *)
(* objects are kept apart from the keys they are registered under.  Hooks  *)
(* only add to their state: a checkpoint that copies a Map or a Set and    *)
(* one that marks the length of an array both restore a prefix.            *)
(***************************************************************************)
EXTENDS Naturals, Sequences

CONSTANTS
  Effects,         \* identities of the writes and effects of a transaction
  MaxBatch,        \* bound: jobs created by one call
  MaxObjects,      \* bound: hook objects alive under one key
  MaxDepth,        \* bound: savepoints open at a time
  Replacing,       \* whether user code sets and deletes its own hook
  Catching,        \* whether it catches a failed call without a savepoint
  CommitFailures   \* whether the COMMIT of a transaction context may fail

ASSUME BoundsType ==
  MaxBatch \in Nat \ {0} /\ MaxObjects \in Nat /\ MaxDepth \in Nat

VARIABLES
  hooks,     \* per key, the object registered, 0 for none
  buffer,    \* per key and object, the object's state
  saved,     \* the open savepoints, oldest first
  rows,      \* the writes the database transaction holds
  throwing,  \* whether an error is on its way to the next catch
  phase,     \* of the transaction: "open", "committed", "flushed", "rolledBack"
  owner,     \* "callback": withTransactionHooks, "context": a transaction context
  status,    \* per effect: "new", "created", "finished", "user", "failed"
  fired,     \* writes and user effects that flush() ran
  ended      \* per job created, how often its span was ended with an error

vars == <<hooks, buffer, saved, rows, throwing, phase, owner, status, fired, ended>>

(* observabilityCommitKey, observabilityRollbackKey, the notify keys.      *)
LibraryKeys == {"events", "undo", "notify"}
Keys == LibraryKeys \cup {"user"}

NoHooks == [k \in Keys |-> 0]

ContentOf(k, d) == IF d = 0 THEN <<>> ELSE buffer[k][d]
Content(k) == ContentOf(k, hooks[k])

Elements(s) == {s[i] : i \in 1 .. Len(s)}
Butlast(s) == SubSeq(s, 1, Len(s) - 1)
LastSaved == saved[Len(saved)]

(* What one call of startChains may create.                                *)
Batches ==
  {b \in UNION {[1 .. n -> Effects] : n \in 1 .. MaxBatch} :
     \A i, j \in 1 .. Len(b) : b[i] = b[j] => i = j}

Init ==
  /\ hooks = NoHooks
  /\ buffer = [k \in Keys |-> [d \in 1 .. MaxObjects |-> <<>>]]
  /\ saved = <<>> /\ rows = <<>>
  /\ throwing = FALSE /\ phase = "open"
  /\ owner \in {"callback", "context"}
  /\ status = [e \in Effects |-> "new"]
  /\ fired = {} /\ ended = [e \in Effects |-> 0]

-----------------------------------------------------------------------------
(* The container.                                                          *)

Referenced(k) == {hooks[k]} \cup {saved[i].hooks[k] : i \in 1 .. Len(saved)}
Unused(k) == 1 .. MaxObjects \ Referenced(k)
NewObject(k) == CHOOSE d \in Unused(k) : TRUE

(* getOrInsert under each key of t that something is added to, then a push *)
(* of it on what it returns.                                               *)
Push(t) ==
  LET K == {k \in DOMAIN t : t[k] # <<>>}
      object == [k \in Keys |-> IF hooks[k] = 0 /\ k \in K THEN NewObject(k) ELSE hooks[k]]
  IN  /\ \A k \in K : hooks[k] = 0 => Unused(k) # {}
      /\ hooks' = object
      /\ buffer' = [k \in Keys |->
                      IF k \in K THEN [buffer[k] EXCEPT ![object[k]] = Content(k) \o t[k]]
                      ELSE buffer[k]]

(* captureSnapshot: the registered objects and how far each has grown; the *)
(* contents are history, for LibraryHooksRestored alone.                   *)
Snapshot ==
  [hooks |-> hooks, length |-> [k \in Keys |-> Len(Content(k))], rows |-> Len(rows),
   content |-> [k \in Keys |-> Content(k)]]

KeepNewKeys(s) ==                        \* mutation: keys added since stay
  [k \in Keys |-> IF hooks[k] = 0 THEN s.hooks[k] ELSE hooks[k]]

(* restoreSnapshot: keys registered since are removed, keys removed since  *)
(* get their object back, captured objects are cut back.                   *)
RestoredHooks(s) ==
  [k \in Keys |-> IF s.hooks[k] = 0 THEN 0
                  ELSE IF hooks[k] = 0 THEN s.hooks[k] ELSE hooks[k]]

RestoredBuffer(s) ==
  [k \in Keys |-> IF s.hooks[k] = 0 THEN buffer[k]
                  ELSE [buffer[k] EXCEPT ![s.hooks[k]] = SubSeq(@, 1, s.length[k])]]

UndoNothing(s) == {}                     \* mutation: truncates, calls nobody

(* The rollback callbacks it runs: those behind the mark, or all of them   *)
(* when the hook itself is removed.                                        *)
UndoneBy(s) ==
  LET d == s.hooks["undo"]
      cut == IF d = 0 THEN Content("undo")
             ELSE SubSeq(buffer["undo"][d], s.length["undo"] + 1, Len(buffer["undo"][d]))
  IN  Elements(cut)

EndSpans(E) == ended' = [e \in Effects |-> IF e \in E THEN ended[e] + 1 ELSE ended[e]]
-----------------------------------------------------------------------------
(* What runs inside the transaction.                                       *)

Running == phase = "open" /\ ~throwing

Write(s, as) ==
  /\ Running
  /\ \A e \in Elements(s) : status[e] = "new"
  /\ rows' = rows \o s
  /\ status' = [e \in Effects |-> IF e \in Elements(s) THEN as ELSE status[e]]

(* createStateJobs: writes, then per job the events, the callback that     *)
(* ends its span on rollback and the notification.                         *)
Create(b) ==
  /\ Write(b, "created")
  /\ Push([k \in LibraryKeys |-> b])
  /\ UNCHANGED <<saved, throwing, phase, owner, fired, ended>>

(* The same, when validateBlockers rejects the last job of the call: all   *)
(* are written, those before it are buffered, the spans of all are ended.  *)
(* The spans of its own blockers are among the events by then.             *)
CreateFails(b) ==
  /\ Write(b, "failed")
  /\ \E events \in {b, Butlast(b)} :
       Push([events |-> events, undo |-> Butlast(b), notify |-> Butlast(b)])
  /\ EndSpans(Elements(b))
  /\ throwing' = TRUE
  /\ UNCHANGED <<saved, phase, owner, fired>>

(* finishJob: writes and buffers events and notifications.                 *)
Finish(e) ==
  /\ Write(<<e>>, "finished")
  /\ Push([events |-> <<e>>, notify |-> <<e>>])
  /\ UNCHANGED <<saved, throwing, phase, owner, fired, ended>>

(* The same, when it throws after completeJob: the root of the chain is    *)
(* missing, or unblockJobs fails after the completion is buffered.         *)
FinishFails(e) ==
  /\ Write(<<e>>, "failed")
  /\ \E notify \in {<<>>, <<e>>} : Push([events |-> <<e>>, notify |-> notify])
  /\ throwing' = TRUE
  /\ UNCHANGED <<saved, phase, owner, fired, ended>>

(* User code buffers an effect of its own, writing nothing.                *)
UserBuffers(e) ==
  /\ Running /\ status[e] = "new"
  /\ Push([user |-> <<e>>])
  /\ status' = [status EXCEPT ![e] = "user"]
  /\ UNCHANGED <<saved, rows, throwing, phase, owner, fired, ended>>

(* User code throws on its own account, or catches an error and goes on;   *)
(* to catch that of a failed call it should have taken a savepoint.        *)
UserThrows ==
  /\ Running /\ throwing' = TRUE
  /\ UNCHANGED <<hooks, buffer, saved, rows, phase, owner, status, fired, ended>>

UserCatches ==
  /\ phase = "open" /\ throwing
  /\ Catching \/ \A e \in Elements(rows) : status[e] # "failed"
  /\ throwing' = FALSE
  /\ UNCHANGED <<hooks, buffer, saved, rows, phase, owner, status, fired, ended>>

(* transactionHooks.set and transactionHooks.delete; the library's keys    *)
(* are symbols user code cannot name.                                      *)
Set ==
  /\ Replacing /\ Running /\ Unused("user") # {}
  /\ hooks' = [hooks EXCEPT !["user"] = NewObject("user")]
  /\ buffer' = [buffer EXCEPT !["user"][NewObject("user")] = <<>>]
  /\ UNCHANGED <<saved, rows, throwing, phase, owner, status, fired, ended>>

Delete ==
  /\ Replacing /\ Running /\ hooks["user"] # 0
  /\ hooks' = [hooks EXCEPT !["user"] = 0]
  /\ UNCHANGED <<buffer, saved, rows, throwing, phase, owner, status, fired, ended>>

OpenSavepoint ==
  /\ Running /\ Len(saved) < MaxDepth
  /\ saved' = Append(saved, Snapshot)
  /\ UNCHANGED <<hooks, buffer, rows, throwing, phase, owner, status, fired, ended>>

ReleaseSavepoint ==
  /\ Running /\ saved # <<>>
  /\ saved' = Butlast(saved)
  /\ UNCHANGED <<hooks, buffer, rows, throwing, phase, owner, status, fired, ended>>

(* An error reaches a savepoint: hooks and database go back to it.  It     *)
(* goes on from there (withSavepoint) or ends (reject of a savepoint       *)
(* context, after which the attempt's error path reschedules the job).     *)
RollbackSavepoint ==
  /\ phase = "open" /\ throwing /\ saved # <<>>
  /\ hooks' = RestoredHooks(LastSaved)
  /\ buffer' = RestoredBuffer(LastSaved)
  /\ EndSpans(UndoneBy(LastSaved))
  /\ rows' = SubSeq(rows, 1, LastSaved.rows)
  /\ saved' = Butlast(saved)
  /\ throwing' \in BOOLEAN
  /\ UNCHANGED <<phase, owner, status, fired>>

-----------------------------------------------------------------------------
(* The end of the transaction.                                             *)

HooksNotCleared == hooks                 \* mutation: the hooks stay registered

(* hooks.clear(), done by flush and discard before they call anyone.       *)
Cleared == NoHooks

DiscardFrom(registered) == EndSpans(Elements(ContentOf("undo", registered["undo"])))

Commit ==
  /\ Running /\ saved = <<>>
  /\ phase' = "committed"
  /\ UNCHANGED <<hooks, buffer, saved, rows, throwing, owner, status, fired, ended>>

(* COMMIT fails.  withTransactionHooks discards; a transaction context is  *)
(* resolved already and neither flushes nor discards.                      *)
CommitFails ==
  /\ Running /\ saved = <<>>
  /\ owner = "context" => CommitFailures
  /\ phase' = "rolledBack" /\ rows' = <<>>
  /\ IF owner = "callback"
     THEN DiscardFrom(hooks) /\ hooks' = Cleared
     ELSE UNCHANGED <<hooks, ended>>
  /\ UNCHANGED <<buffer, saved, throwing, owner, status, fired>>

(* An error leaves the transaction: ROLLBACK, then discard().              *)
Abort ==
  /\ phase = "open" /\ throwing /\ saved = <<>>
  /\ phase' = "rolledBack" /\ rows' = <<>>
  /\ DiscardFrom(hooks) /\ hooks' = Cleared
  /\ UNCHANGED <<buffer, saved, throwing, owner, status, fired>>

FlushedKeys == {"events", "notify", "user"}

(* flush runs every callback, whatever some of them throw; an error then   *)
(* makes withTransactionHooks discard what is registered by that time.     *)
Flush(error) ==
  /\ phase = "committed"
  /\ phase' = "flushed"
  /\ fired' = UNION {Elements(Content(k)) : k \in FlushedKeys}
  /\ hooks' = Cleared
  /\ IF error /\ owner = "callback" THEN DiscardFrom(Cleared) ELSE UNCHANGED ended
  /\ UNCHANGED <<buffer, saved, rows, throwing, owner, status>>

Next ==
  \/ \E b \in Batches : Create(b) \/ CreateFails(b)
  \/ \E e \in Effects : Finish(e) \/ FinishFails(e) \/ UserBuffers(e)
  \/ UserThrows \/ UserCatches
  \/ Set \/ Delete
  \/ OpenSavepoint \/ ReleaseSavepoint \/ RollbackSavepoint
  \/ Commit \/ CommitFails \/ Abort
  \/ \E error \in BOOLEAN : Flush(error)

Spec == Init /\ [][Next]_vars

-----------------------------------------------------------------------------
(* Properties.                                                             *)

Over == phase \in {"flushed", "rolledBack"}

(* The span of every job created ends: once, by its event when the write   *)
(* commits or with an error when it is rolled back, by whichever savepoint *)
(* or transaction (core/src/implementation/create-state-jobs.ts:176-184).  *)
SpansEndOnce ==
  Over => \A e \in Effects :
            status[e] = "created" => ended[e] = (IF e \in fired THEN 0 ELSE 1)

(* Rolling back a savepoint puts the library's hooks back to what they     *)
(* were when it was created, nested savepoints or not                      *)
(* (core/src/transaction-hooks.ts:78-100).                                 *)
LibraryHooksRestored ==
  [][RollbackSavepoint =>
       \A k \in LibraryKeys : ContentOf(k, hooks[k])' = LastSaved.content[k]]_vars

(* "Both createStateJobs and finishJob use TransactionHooks savepoints     *)
(* (via withSavepoint) to automatically roll back buffered observability   *)
(* events on throw" (docs advanced/adapters.md, advanced/otel-internals.md *)
(* say the same): a call that failed leaves no events behind, whoever      *)
(* catches its error.  False with Catching = TRUE, since neither opens a   *)
(* savepoint; no run has it (README, section 5).                           *)
FailuresLeaveNoEvents == \A e \in fired : status[e] # "failed"

(* The library's hooks implement effects that wait for the end of the      *)
(* transaction: what has fired is what is committed, what is undone is     *)
(* what is not (core/src/transaction-hooks.ts:153-177).                    *)
Promise == INSTANCE TransactionEffects WITH
  scope   <- [i \in 1 .. Len(rows) |->
                [effect |-> rows[i], undo |-> status[rows[i]] = "created"]],
  marks   <- [i \in 1 .. Len(saved) |-> saved[i].rows],
  outcome <- CASE phase \in {"open", "committed"} -> "open"
               [] phase = "flushed" -> "committed"
               [] phase = "rolledBack" -> "rolledBack",
  fired   <- {e \in fired : status[e] # "user"},
  undone  <- {e \in Effects : status[e] = "created" /\ ended[e] > 0}

EffectsArePromised == Promise!ASpec
=============================================================================
