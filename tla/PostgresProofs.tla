--------------------------- MODULE PostgresProofs ---------------------------
(***************************************************************************)
(* Proofs about PostgresAdapter, for any number of sessions and jobs.      *)
(*                                                                         *)
(* The argument is by row locks.  Sound says of one transaction what it    *)
(* knows of the committed tables: the rows it wrote are locked and, unless *)
(* it deletes them, incomplete; the row it creates continues such a row.   *)
(* Apart says that the locks of two transactions do not conflict.  Only a  *)
(* commit and the reaper change the tables, and what they change is locked *)
(* by nobody else, so every other transaction stays Sound.                 *)
(***************************************************************************)
EXTENDS PostgresAdapter, TLAPS

Deleted(t, j) == t.own[j] # NULL /\ t.own[j].status = "deleted"

(* What a transaction has done by the time it reaches its pc.              *)
Stages(t) ==
  /\ t.pc = "idle" => t = NoTransaction
  /\ t.pc \in {"lockChain", "delete"} =>
       /\ t.own = NoTransaction.own /\ t.lock = NoTransaction.lock /\ t.refs = {}
       /\ t.created = NULL /\ t.subject = NULL /\ t.waits = {}
  /\ t.pc \in {"handler", "unblock"} => t.created = NULL /\ t.refs = {} /\ t.waits = {}
  /\ t.pc = "handler" => t.subject # NULL
  /\ t.pc = "addBlockers" => t.created # NULL /\ t.refs = {}
  /\ t.pc \in {"handler", "unblock"} \/ t.created # NULL \/ t.subject # NULL =>
       \A j \in JobIds : ~Deleted(t, j)

Writes(t, js) ==
  \A j \in JobIds : t.own[j] # NULL /\ j # t.created =>
    /\ Exists(js, j) /\ t.lock[j] \in {"noKey", "update"}
    /\ Deleted(t, j) => t.lock[j] = "update"
    /\ ~Deleted(t, j) =>
         /\ t.own[j].status # "absent"
         /\ t.own[j].chain = js[j].chain /\ t.own[j].index = js[j].index
         /\ js[j].status # "completed"

(* The new row is a root, or follows the job the transaction completes.    *)
Creation(t, js) ==
  t.created # NULL =>
    LET q == t.created
        j == t.subject
    IN  /\ js[q].status = "absent"
        /\ t.own[q] # NULL /\ t.own[q].status \in {"pending", "blocked"}
        /\ \/ t.own[q].chain = q /\ t.own[q].index = 0
           \/ /\ j # NULL /\ t.own[j] # NULL /\ t.own[j].status = "completed"
              /\ t.own[q].chain = js[j].chain /\ t.own[q].index = js[j].index + 1

SubjectHeld(t, js) ==
  t.subject # NULL =>
    /\ Exists(js, t.subject) /\ js[t.subject].status # "completed"
    /\ t.lock[t.subject] = "update"

(* A deletion takes the root with the rest of a chain, and no row without  *)
(* the blocker rows that refer to it.                                      *)
Deletion(t, js, bl) ==
  /\ t.pc = "delete" => \A j \in t.target :
       /\ js[j].status # "absent"
       /\ Exists(js, j) /\ js[j].chain \in Roots(js) => js[j].chain \in t.target
  /\ \A j \in JobIds :
       Deleted(t, j) /\ js[j].chain \in Roots(js) => Deleted(t, js[j].chain)
  /\ \A ref \in bl : Deleted(t, ref[2]) => Deleted(t, ref[1])

(* A new blocker row refers to a chain whose root is locked.               *)
References(t, js) ==
  /\ \A c \in t.waits : js[c].status # "absent"
  /\ \A ref \in t.refs :
       /\ t.created # NULL /\ ref[1] = t.created
       /\ Exists(js, ref[2]) /\ t.lock[ref[2]] # "none"

Sound(t, js, bl) ==
  /\ t \in Transaction
  /\ Stages(t) /\ Writes(t, js) /\ Creation(t, js) /\ SubjectHeld(t, js)
  /\ Deletion(t, js, bl) /\ References(t, js)

Apart(t, u) ==
  /\ \A j \in JobIds : Compatible(t.lock[j], u.lock[j])
  /\ t.created # NULL => u.own[t.created] = NULL
  /\ u.created # NULL => t.own[u.created] = NULL

(* The chain of a job has been created, whatever became of it.             *)
ChainsCreated(js) ==
  \A j \in JobIds :
    Exists(js, j) => js[j].chain \in JobIds /\ js[js[j].chain].status # "absent"

Ordered(js) ==
  \A j, k \in JobIds :
    /\ j # k /\ Exists(js, j) /\ Exists(js, k) /\ js[j].chain = js[k].chain
    /\ js[j].index <= js[k].index
    => js[j].index < js[k].index /\ js[j].status = "completed"

Referenced(js, bl) ==
  /\ bl \subseteq JobIds \X JobIds
  /\ \A ref \in bl : Exists(js, ref[1]) /\ Exists(js, ref[2])

IInv ==
  /\ job \in [JobIds -> Job] /\ attempt \in [Workers -> JobIds \cup {NULL}]
  /\ tx \in [Workers -> Transaction]
  /\ ChainsCreated(job) /\ Ordered(job) /\ Referenced(job, blocker)
  /\ \A s \in Workers : Sound(tx[s], job, blocker)
  /\ \A s, u \in Workers : s # u => Apart(tx[s], tx[u])

-----------------------------------------------------------------------------
(* Row locks.                                                              *)

LEMMA CompatibleSym == \A m, n : Compatible(m, n) <=> Compatible(n, m)
BY DEF Compatible

LEMMA StrongestMode ==
  ASSUME NEW m \in LockMode, NEW n \in LockMode
  PROVE  /\ Strongest(m, n) \in {m, n}
         /\ "update" \in {m, n} => Strongest(m, n) = "update"
         /\ {m, n} \cap {"noKey", "update"} # {} => Strongest(m, n) \in {"noKey", "update"}
         /\ {m, n} # {"none"} => Strongest(m, n) # "none"
<1> DEFINE Top(k) == \A l \in {m, n} \ {k} :
                       k = "update" \/ l = "none" \/ (k = "noKey" /\ l = "share")
<1>1. \E k \in {m, n} : Top(k)
    BY DEF LockMode
<1>2. Strongest(m, n) \in {m, n} /\ Top(Strongest(m, n))
  <2> HIDE DEF Top
  <2>1. Strongest(m, n) = CHOOSE k \in {m, n} : Top(k)
      BY DEF Strongest, Top
  <2> QED BY <1>1, <2>1
<1> QED BY <1>2 DEF LockMode

LEMMA LocksTaken ==
  ASSUME NEW lock \in [JobIds -> LockMode], NEW J, NEW mode \in LockMode, NEW j \in JobIds
  PROVE  LET taken == WithLocks(lock, J, mode)
         IN  /\ taken \in [JobIds -> LockMode]
             /\ taken[j] \in {lock[j], mode}
             /\ lock[j] = "update" => taken[j] = "update"
             /\ lock[j] \in {"noKey", "update"} => taken[j] \in {"noKey", "update"}
             /\ lock[j] # "none" => taken[j] # "none"
             /\ j \in J /\ mode = "update" => taken[j] = "update"
             /\ j \in J /\ mode = "noKey" => taken[j] \in {"noKey", "update"}
             /\ j \in J /\ mode # "none" => taken[j] # "none"
             /\ j \notin J => taken[j] = lock[j]
<1> DEFINE taken == WithLocks(lock, J, mode)
<1>1. \A k \in JobIds : taken[k] = IF k \in J THEN Strongest(lock[k], mode) ELSE lock[k]
    BY DEF WithLocks
<1>2. \A k \in JobIds : taken[k] \in LockMode
  <2> SUFFICES ASSUME NEW k \in JobIds PROVE taken[k] \in LockMode
      OBVIOUS
  <2>1. Strongest(lock[k], mode) \in {lock[k], mode}
      BY StrongestMode
  <2> QED BY <1>1, <2>1
<1>3. taken \in [JobIds -> LockMode]
    BY <1>2 DEF WithLocks
<1>4. /\ Strongest(lock[j], mode) \in {lock[j], mode}
      /\ "update" \in {lock[j], mode} => Strongest(lock[j], mode) = "update"
      /\ {lock[j], mode} \cap {"noKey", "update"} # {} =>
           Strongest(lock[j], mode) \in {"noKey", "update"}
      /\ {lock[j], mode} # {"none"} => Strongest(lock[j], mode) # "none"
    BY StrongestMode
<1> HIDE DEF taken
<1> QED BY <1>1, <1>3, <1>4 DEF taken

(* Locks that were free leave two transactions apart.                      *)
LEMMA LocksApart ==
  ASSUME NEW lock \in [JobIds -> LockMode], NEW other \in [JobIds -> LockMode],
         \A j \in JobIds : Compatible(lock[j], other[j]),
         NEW J, NEW mode \in LockMode, \A j \in J : Compatible(other[j], mode)
  PROVE  \A j \in JobIds : Compatible(WithLocks(lock, J, mode)[j], other[j])
<1> SUFFICES ASSUME NEW j \in JobIds
             PROVE  Compatible(WithLocks(lock, J, mode)[j], other[j])
    OBVIOUS
<1>1. CASE j \in J
  <2>1. WithLocks(lock, J, mode)[j] \in {lock[j], mode}
      BY LocksTaken
  <2> QED BY <1>1, <2>1, CompatibleSym
<1>2. CASE j \notin J
  <2>1. WithLocks(lock, J, mode)[j] = lock[j]
      BY <1>2, LocksTaken
  <2> QED BY <2>1
<1> QED BY <1>1, <1>2

-----------------------------------------------------------------------------
(* A step that changes one transaction, and no table.                      *)
LEMMA TransactionStep ==
  ASSUME IInv, NEW s \in Workers, tx' \in [Workers -> Transaction],
         \A u \in Workers : u # s => tx'[u] = tx[u],
         UNCHANGED <<job, blocker>>, attempt' \in [Workers -> JobIds \cup {NULL}],
         Sound(tx'[s], job, blocker),
         \A u \in Workers : u # s => Apart(tx'[s], tx[u])
  PROVE  IInv'
<1>1. \A u \in Workers : Sound(tx'[u], job, blocker)
    BY DEF IInv
<1>2. \A u, v \in Workers : u # v => Apart(tx'[u], tx'[v])
  <2> SUFFICES ASSUME NEW u \in Workers, NEW v \in Workers, u # v
               PROVE  Apart(tx'[u], tx'[v])
      OBVIOUS
  <2>1. CASE v = s
    <3>1. Apart(tx'[s], tx[u]) /\ tx'[u] = tx[u]
        BY <2>1
    <3> QED BY <2>1, <3>1, CompatibleSym DEF Apart
  <2>2. CASE v # s
      BY <2>2 DEF IInv
  <2> QED BY <2>1, <2>2
<1> QED BY <1>1, <1>2 DEF IInv

LEMMA NoTransactionTyped ==
  /\ NoTransaction \in Transaction
  /\ \A u \in Transaction : Apart(NoTransaction, u)
<1>1. NoTransaction \in Transaction
    BY DEF NoTransaction, Transaction, LockMode
<1>2. ASSUME NEW u \in Transaction PROVE Apart(NoTransaction, u)
    BY DEF Apart, Compatible, NoTransaction, Transaction
<1> QED BY <1>1, <1>2

LEMMA NoTransactionSound ==
  ASSUME NEW js, NEW bl \in SUBSET (JobIds \X JobIds)
  PROVE  Sound(NoTransaction, js, bl)
<1> DEFINE t == NoTransaction
<1>1. /\ t.pc = "idle" /\ t.own = [j \in JobIds |-> NULL] /\ t.refs = {}
      /\ t.target = {} /\ t.subject = NULL /\ t.created = NULL /\ t.waits = {}
    BY DEF NoTransaction
<1>2. \A j \in JobIds : ~Deleted(t, j)
    BY <1>1 DEF Deleted
<1>3. Stages(t)
    BY <1>1, <1>2 DEF Stages
<1>4. Writes(t, js) /\ Creation(t, js) /\ SubjectHeld(t, js) /\ References(t, js)
    BY <1>1 DEF Writes, Creation, SubjectHeld, References
<1>5. Deletion(t, js, bl)
    BY <1>1, <1>2 DEF Deletion
<1> QED BY <1>3, <1>4, <1>5, NoTransactionTyped DEF Sound

LEMMA RollbackStep ==
  ASSUME IInv, NEW s \in Workers, Rollback(s)
  PROVE  IInv'
<1>1. tx' = [tx EXCEPT ![s] = NoTransaction] /\ UNCHANGED <<job, blocker, attempt>>
    BY DEF Rollback
<1>2. tx' \in [Workers -> Transaction] /\ tx'[s] = NoTransaction
    BY <1>1, NoTransactionTyped DEF IInv
<1>3. \A u \in Workers : u # s => tx'[u] = tx[u] /\ Apart(tx'[s], tx[u])
    BY <1>1, <1>2, NoTransactionTyped DEF IInv
<1>4. Sound(tx'[s], job, blocker)
    BY <1>2, NoTransactionSound DEF IInv, Referenced
<1> QED BY <1>1, <1>2, <1>3, <1>4, TransactionStep DEF IInv

LEMMA EndAttemptStep ==
  ASSUME IInv, NEW s \in Workers, EndAttempt(s)
  PROVE  IInv'
<1>1. attempt' \in [Workers -> JobIds \cup {NULL}] /\ UNCHANGED <<job, blocker, tx>>
    BY DEF EndAttempt, IInv
<1> QED BY <1>1 DEF IInv

LEMMA LockChainStep ==
  ASSUME IInv, NEW s \in Workers, NEW c \in JobIds, LockChain(s, c)
  PROVE  IInv'
<1> DEFINE v == [NoTransaction EXCEPT !.pc = "lockChain", !.target = LastJobs(job, {c})]
<1>1. tx[s] = NoTransaction
    BY DEF LockChain, At, IInv, Sound, Stages
<1>2. v \in Transaction
    BY NoTransactionTyped DEF Transaction, LastJobs
<1>3. /\ tx' \in [Workers -> Transaction] /\ tx'[s] = v
      /\ \A u \in Workers : u # s => tx'[u] = tx[u]
      /\ UNCHANGED <<job, blocker, attempt>>
    BY <1>1, <1>2 DEF LockChain, IInv
<1>4. /\ v.pc = "lockChain" /\ v.own = NoTransaction.own /\ v.lock = NoTransaction.lock
      /\ v.own = [j \in JobIds |-> NULL]
      /\ v.refs = {} /\ v.subject = NULL /\ v.created = NULL /\ v.waits = {}
    BY DEF NoTransaction
<1> HIDE DEF v
<1>5. Sound(v, job, blocker)
  <2>1. \A j \in JobIds : ~Deleted(v, j)
      BY <1>4 DEF Deleted
  <2>2. blocker \subseteq JobIds \X JobIds
      BY DEF IInv, Referenced
  <2> QED
      BY <1>2, <1>4, <2>1, <2>2 DEF Sound, Stages, Writes, Creation, SubjectHeld, Deletion, References
<1>6. \A u \in Workers : Apart(v, tx[u])
    BY <1>4, NoTransactionTyped DEF Apart, IInv, NoTransaction
<1> QED BY <1>3, <1>5, <1>6, TransactionStep DEF IInv

(* A transaction that has written nothing takes a job that it can lock.    *)
LEMMA HandleSound ==
  ASSUME IInv, NEW s \in Workers, tx[s].pc \in {"idle", "lockChain"},
         NEW j \in JobIds, Exists(job, j), job[j].status # "completed",
         CanLock(s, {j}, "update")
  PROVE  LET v == Handle(tx[s], j)
         IN  /\ Sound(v, job, blocker)
             /\ \A u \in Workers : u # s => Apart(v, tx[u])
             /\ v.pc = "handler" /\ v.subject = j /\ v.lock[j] = "update"
             /\ v.own = [i \in JobIds |-> NULL]
             /\ v.created = NULL /\ v.refs = {} /\ v.waits = {}
<1> DEFINE t == tx[s]
           lock == WithLocks(t.lock, {j}, "update")
           v == Handle(t, j)
<1>0. t \in Transaction /\ Stages(t)
    BY DEF IInv, Sound
<1>1. /\ t.own = [i \in JobIds |-> NULL] /\ t.lock = [i \in JobIds |-> "none"]
      /\ t.created = NULL /\ t.refs = {} /\ t.waits = {}
    BY <1>0 DEF Stages, NoTransaction
<1>2. lock \in [JobIds -> LockMode] /\ lock[j] = "update"
    BY <1>0, LocksTaken DEF Transaction, LockMode
<1> HIDE DEF lock
<1>3. /\ v.pc = "handler" /\ v.subject = j /\ v.lock = lock /\ v.target = {}
      /\ v.own = t.own /\ v.created = NULL /\ v.refs = {} /\ v.waits = {}
    BY <1>0, <1>1 DEF Handle, Transaction, lock
<1>4. v \in Transaction
    BY <1>0, <1>2 DEF Handle, Transaction, lock
<1> HIDE DEF v
<1>5. Sound(v, job, blocker)
  <2>1. \A i \in JobIds : ~Deleted(v, i)
      BY <1>1, <1>3 DEF Deleted
  <2>2. blocker \subseteq JobIds \X JobIds
      BY DEF IInv, Referenced
  <2>3. Stages(v)
      BY <1>3, <2>1, NullIsNoId DEF Stages
  <2> QED
      BY <1>1, <1>2, <1>3, <1>4, <2>1, <2>2, <2>3
      DEF Sound, Writes, Creation, SubjectHeld, Deletion, References
<1>6. ASSUME NEW u \in Workers, u # s PROVE Apart(v, tx[u])
  <2>1. tx[u] \in Transaction /\ Apart(t, tx[u])
      BY <1>6 DEF IInv
  <2>2. \A i \in JobIds : Compatible(v.lock[i], tx[u].lock[i])
    <3>1. \A i \in {j} : Compatible(tx[u].lock[i], "update")
        BY <1>6 DEF CanLock
    <3>2. t.lock \in [JobIds -> LockMode] /\ tx[u].lock \in [JobIds -> LockMode]
        BY <1>0, <2>1 DEF Transaction
    <3>3. \A i \in JobIds : Compatible(lock[i], tx[u].lock[i])
        BY <2>1, <3>1, <3>2, LocksApart DEF Apart, LockMode, lock
    <3> QED BY <1>3, <3>3
  <2>3. tx[u].created # NULL => v.own[tx[u].created] = NULL
      BY <1>1, <1>3, <2>1 DEF Transaction
  <2> QED BY <1>3, <2>2, <2>3 DEF Apart
<1> QED BY <1>1, <1>2, <1>3, <1>5, <1>6 DEF v

LEMMA ChainLockedStep ==
  ASSUME IInv, NEW s \in Workers, ChainLocked(s)
  PROVE  IInv'
<1>1. PICK j \in tx[s].target :
        /\ Exists(job, j) /\ job[j].status # "completed"
        /\ tx' = [tx EXCEPT ![s] = Handle(@, j)]
    BY DEF ChainLocked
<1>2. tx[s].pc = "lockChain" /\ j \in JobIds /\ CanLock(s, {j}, "update")
    BY DEF ChainLocked, At, CanLock, IInv, Transaction
<1>3. /\ Sound(Handle(tx[s], j), job, blocker)
      /\ \A u \in Workers : u # s => Apart(Handle(tx[s], j), tx[u])
    BY <1>1, <1>2, HandleSound
<1>4. /\ tx' \in [Workers -> Transaction] /\ tx'[s] = Handle(tx[s], j)
      /\ \A u \in Workers : u # s => tx'[u] = tx[u]
    BY <1>1, <1>3 DEF IInv, Sound
<1>5. UNCHANGED <<job, blocker, attempt>>
    BY DEF ChainLocked
<1> QED BY <1>3, <1>4, <1>5, TransactionStep DEF IInv

LEMMA RefetchJobLockedStep ==
  ASSUME IInv, NEW s \in Workers, RefetchJobLocked(s)
  PROVE  IInv'
<1> DEFINE j == attempt[s]
<1>1. /\ tx[s].pc = "idle" /\ j \in JobIds /\ CanLock(s, {j}, "update")
      /\ Exists(job, j) /\ job[j].status # "completed"
    BY DEF RefetchJobLocked, At, IInv
<1>2. tx' = [tx EXCEPT ![s] = Handle(@, j)] /\ UNCHANGED <<job, blocker, attempt>>
    BY DEF RefetchJobLocked
<1> HIDE DEF j
<1>3. /\ Sound(Handle(tx[s], j), job, blocker)
      /\ \A u \in Workers : u # s => Apart(Handle(tx[s], j), tx[u])
    BY <1>1, HandleSound
<1>4. /\ tx' \in [Workers -> Transaction] /\ tx'[s] = Handle(tx[s], j)
      /\ \A u \in Workers : u # s => tx'[u] = tx[u]
    BY <1>2, <1>3 DEF IInv, Sound
<1> QED BY <1>2, <1>3, <1>4, TransactionStep DEF IInv

(* A transaction writes a new version of the row it holds.                 *)
LEMMA SubjectWritten ==
  ASSUME IInv, NEW s \in Workers, NEW t, NEW v,
         Sound(t, job, blocker), \A u \in Workers : u # s => Apart(t, tx[u]),
         t.pc = "handler", NEW row \in Job,
         row.chain = job[t.subject].chain, row.index = job[t.subject].index,
         row.status \notin {"absent", "deleted"},
         v \in Transaction, v.pc \in {"handler", "unblock", "commit"},
         v.own = [t.own EXCEPT ![t.subject] = row],
         v.lock = t.lock, v.subject = t.subject,
         v.created = NULL, v.refs = {}, v.waits = {}
  PROVE  /\ Sound(v, job, blocker)
         /\ \A u \in Workers : u # s => Apart(v, tx[u])
<1> DEFINE j == t.subject
<1>1. /\ t \in Transaction /\ t.own \in [JobIds -> Job \cup {NULL}]
      /\ j \in JobIds /\ j # NULL
      /\ Exists(job, j) /\ job[j].status # "completed" /\ t.lock[j] = "update"
      /\ t.created = NULL
    BY DEF Sound, Stages, SubjectHeld, Transaction
<1> HIDE DEF j
<1>2. \A i \in JobIds : v.own[i] = IF i = j THEN row ELSE t.own[i]
    BY <1>1 DEF j
<1>3. \A i \in JobIds : ~Deleted(v, i)
  <2>1. \A i \in JobIds : ~Deleted(t, i)
      BY DEF Sound, Stages
  <2> QED BY <1>2, <2>1 DEF Deleted
<1>4. Stages(v)
    BY <1>1, <1>3 DEF Stages, j
<1>5. Writes(v, job)
  <2> SUFFICES ASSUME NEW i \in JobIds, v.own[i] # NULL
               PROVE  /\ Exists(job, i) /\ v.lock[i] \in {"noKey", "update"}
                      /\ v.own[i].status # "absent"
                      /\ v.own[i].chain = job[i].chain /\ v.own[i].index = job[i].index
                      /\ job[i].status # "completed"
      BY <1>3 DEF Writes
  <2>1. CASE i = j
      BY <1>1, <1>2, <2>1 DEF j
  <2>2. CASE i # j
    <3>1. t.own[i] = v.own[i] /\ t.own[i] # NULL /\ ~Deleted(t, i)
        BY <1>2, <1>3, <2>2 DEF Deleted
    <3> QED BY <1>1, <3>1, NullIsNoId DEF Sound, Writes
  <2> QED BY <2>1, <2>2
<1>6. Deletion(v, job, blocker)
  <2>1. blocker \subseteq JobIds \X JobIds
      BY DEF IInv, Referenced
  <2> QED BY <1>3, <2>1 DEF Deletion
<1>7. Sound(v, job, blocker)
    BY <1>1, <1>4, <1>5, <1>6 DEF Sound, Creation, SubjectHeld, References, j
<1>8. ASSUME NEW u \in Workers, u # s PROVE Apart(v, tx[u])
  <2>1. Apart(t, tx[u]) /\ tx[u] \in Transaction /\ Creation(tx[u], job)
      BY <1>8 DEF IInv, Sound
  <2>2. ASSUME tx[u].created # NULL PROVE v.own[tx[u].created] = NULL
    <3>1. tx[u].created \in JobIds /\ job[tx[u].created].status = "absent"
        BY <2>1, <2>2 DEF Creation, Transaction
    <3>2. tx[u].created # j
        BY <1>1, <3>1 DEF Exists
    <3> QED BY <1>2, <2>1, <2>2, <3>1, <3>2 DEF Apart
  <2> QED BY <2>1, <2>2 DEF Apart
<1> QED BY <1>7, <1>8

LEMMA AcquireStep ==
  ASSUME IInv, NEW s \in Workers, NEW j \in JobIds, Acquire(s, j)
  PROVE  IInv'
<1> DEFINE t == Handle(tx[s], j)
           row == AcquireJob(job, j)[j]
           v == [t EXCEPT !.own[j] = row]
<1>1. /\ tx[s].pc = "idle" /\ job[j].status = "pending" /\ CanLock(s, {j}, "update")
      /\ tx' = [tx EXCEPT ![s] = v] /\ UNCHANGED <<job, blocker, attempt>>
    BY DEF Acquire, At
<1>2. /\ Sound(t, job, blocker) /\ \A u \in Workers : u # s => Apart(t, tx[u])
      /\ t.pc = "handler" /\ t.subject = j /\ t.created = NULL /\ t.refs = {} /\ t.waits = {}
    BY <1>1, HandleSound DEF Exists
<1>3. job \in [JobIds -> Job] /\ t \in Transaction
    BY <1>2 DEF IInv, Sound
<1>4. row = [job[j] EXCEPT !.status = "running", !.attempt = @ + 1]
    BY <1>3 DEF AcquireJob
<1>5. /\ row \in Job /\ row.status = "running"
      /\ row.chain = job[j].chain /\ row.index = job[j].index
  <2> HIDE DEF row
  <2>1. job[j] \in Job /\ job[j].attempt + 1 \in Nat
      BY <1>3 DEF Job
  <2> QED BY <1>4, <2>1 DEF Job, JobStatus
<1> HIDE DEF row, t
<1>6. /\ v \in Transaction /\ v.own = [t.own EXCEPT ![j] = row] /\ v.pc = "handler"
      /\ v.lock = t.lock /\ v.subject = t.subject
      /\ v.created = NULL /\ v.refs = {} /\ v.waits = {}
    BY <1>2, <1>3, <1>5 DEF Transaction
<1> HIDE DEF v
<1>7. Sound(v, job, blocker) /\ \A u \in Workers : u # s => Apart(v, tx[u])
    BY <1>2, <1>5, <1>6, SubjectWritten
<1>8. tx' \in [Workers -> Transaction] /\ tx'[s] = v /\ \A u \in Workers : u # s => tx'[u] = tx[u]
    BY <1>1, <1>6 DEF IInv
<1> QED BY <1>1, <1>7, <1>8, TransactionStep DEF IInv

(* What a transaction sees of the rows it did not create.                  *)
LEMMA OwnTables ==
  ASSUME IInv, NEW s \in Workers
  PROVE  /\ Tables(s) \in [JobIds -> Job]
         /\ \A j \in JobIds :
              /\ Tables(s)[j] = IF tx[s].own[j] # NULL THEN tx[s].own[j] ELSE job[j]
              /\ j # tx[s].created /\ ~Deleted(tx[s], j) =>
                   /\ Tables(s)[j].chain = job[j].chain
                   /\ Tables(s)[j].index = job[j].index
                   /\ Exists(Tables(s), j) <=> Exists(job, j)
<1>1. tx[s].own \in [JobIds -> Job \cup {NULL}] /\ job \in [JobIds -> Job]
    BY DEF IInv, Transaction
<1>2. Tables(s) \in [JobIds -> Job]
    BY <1>1 DEF Tables
<1>3. \A j \in JobIds : Tables(s)[j] = IF tx[s].own[j] # NULL THEN tx[s].own[j] ELSE job[j]
    BY DEF Tables
<1>4. ASSUME NEW j \in JobIds, j # tx[s].created, ~Deleted(tx[s], j)
      PROVE  /\ Tables(s)[j].chain = job[j].chain
             /\ Tables(s)[j].index = job[j].index
             /\ Exists(Tables(s), j) <=> Exists(job, j)
  <2>1. CASE tx[s].own[j] = NULL
      BY <1>3, <2>1 DEF Exists
  <2>2. CASE tx[s].own[j] # NULL
    <3>1. /\ Exists(job, j) /\ tx[s].own[j].status # "absent"
          /\ tx[s].own[j].chain = job[j].chain /\ tx[s].own[j].index = job[j].index
        BY <1>4, <2>2 DEF IInv, Sound, Writes
    <3> QED BY <1>3, <1>4, <2>2, <3>1 DEF Exists, Deleted
  <2> QED BY <2>1, <2>2
<1> QED BY <1>2, <1>3, <1>4

(* The row a handler holds.                                                *)
LEMMA SubjectRow ==
  ASSUME IInv, NEW s \in Workers, At(s, "handler")
  PROVE  LET j == tx[s].subject
         IN  /\ j \in JobIds /\ Exists(job, j) /\ tx[s].created = NULL
             /\ tx[s].refs = {} /\ tx[s].waits = {}
             /\ Tables(s)[j] \in Job /\ Exists(Tables(s), j)
             /\ Tables(s)[j].chain = job[j].chain /\ Tables(s)[j].index = job[j].index
<1> DEFINE j == tx[s].subject
<1>1. /\ j \in JobIds /\ Exists(job, j) /\ tx[s].created = NULL /\ ~Deleted(tx[s], j)
      /\ tx[s].refs = {} /\ tx[s].waits = {}
    BY DEF At, IInv, Sound, Stages, SubjectHeld, Transaction
<1> QED BY <1>1, OwnTables, NullIsNoId

(* A handler that writes its job and goes on to v.                         *)
LEMMA SubjectStep ==
  ASSUME IInv, NEW s \in Workers, At(s, "handler"), NEW v,
         NEW row \in Job, row.status \notin {"absent", "deleted"},
         row.chain = job[tx[s].subject].chain, row.index = job[tx[s].subject].index,
         v \in Transaction, v.pc \in {"unblock", "commit"},
         v.own = [tx[s].own EXCEPT ![tx[s].subject] = row],
         v.lock = tx[s].lock, v.subject = tx[s].subject, v.created = tx[s].created,
         v.refs = tx[s].refs, v.waits = tx[s].waits,
         tx' = [tx EXCEPT ![s] = v], UNCHANGED <<job, blocker, attempt>>
  PROVE  IInv'
<1>1. /\ Sound(tx[s], job, blocker) /\ \A u \in Workers : u # s => Apart(tx[s], tx[u])
      /\ tx[s].created = NULL /\ tx[s].refs = {} /\ tx[s].waits = {} /\ tx[s].pc = "handler"
    BY SubjectRow DEF IInv, At
<1>2. Sound(v, job, blocker) /\ \A u \in Workers : u # s => Apart(v, tx[u])
    BY <1>1, SubjectWritten
<1>3. tx' \in [Workers -> Transaction] /\ tx'[s] = v /\ \A u \in Workers : u # s => tx'[u] = tx[u]
    BY DEF IInv
<1> QED BY <1>2, <1>3, TransactionStep DEF IInv

LEMMA RenewLeaseStep ==
  ASSUME IInv, NEW s \in Workers, RenewLease(s)
  PROVE  IInv'
<1> DEFINE t == tx[s]
           j == t.subject
           row == RenewJobLease(Tables(s), j, s)[j]
           v == [t EXCEPT !.pc = "commit", !.keep = j, !.own[j] = row]
<1>1. At(s, "handler") /\ t \in Transaction /\ tx \in [Workers -> Transaction]
    BY DEF RenewLease, IInv
<1>2. /\ j \in JobIds /\ Tables(s)[j] \in Job /\ Tables(s) \in [JobIds -> Job]
      /\ Tables(s)[j].chain = job[j].chain /\ Tables(s)[j].index = job[j].index
    BY <1>1, SubjectRow, OwnTables
<1>3. row = [Tables(s)[j] EXCEPT !.leasedBy = s, !.lease = "live", !.status = "running"]
    BY <1>2 DEF RenewJobLease
<1>4. tx' = [tx EXCEPT ![s] = v] /\ UNCHANGED <<job, blocker, attempt>>
    BY <1>1 DEF RenewLease, Transaction
<1> HIDE DEF row, j
<1>5. /\ row \in Job /\ row.status = "running"
      /\ row.chain = job[j].chain /\ row.index = job[j].index
    BY <1>2, <1>3 DEF Job, JobStatus
<1>6. /\ v \in Transaction /\ v.own = [t.own EXCEPT ![j] = row] /\ v.pc = "commit"
      /\ v.lock = t.lock /\ v.subject = t.subject
      /\ v.created = t.created /\ v.refs = t.refs /\ v.waits = t.waits
    BY <1>1, <1>2, <1>5 DEF Transaction
<1> HIDE DEF v
<1> QED BY <1>1, <1>4, <1>5, <1>6, SubjectStep DEF j

LEMMA RescheduleStep ==
  ASSUME IInv, NEW s \in Workers, Reschedule(s)
  PROVE  IInv'
<1> DEFINE t == tx[s]
           j == t.subject
           row == RescheduleJob(Tables(s), j, TRUE)[j]
           v == [t EXCEPT !.pc = "commit", !.own[j] = row]
<1>1. At(s, "handler") /\ t \in Transaction /\ tx \in [Workers -> Transaction]
    BY DEF Reschedule, IInv
<1>2. /\ j \in JobIds /\ Tables(s)[j] \in Job /\ Tables(s) \in [JobIds -> Job]
      /\ Tables(s)[j].chain = job[j].chain /\ Tables(s)[j].index = job[j].index
    BY <1>1, SubjectRow, OwnTables
<1>3. row = [Tables(s)[j] EXCEPT !.due = TRUE, !.leasedBy = NULL, !.lease = "none",
                                 !.status = "pending"]
    BY <1>2 DEF RescheduleJob
<1>4. tx' = [tx EXCEPT ![s] = v] /\ UNCHANGED <<job, blocker, attempt>>
    BY <1>1 DEF Reschedule, Transaction
<1> HIDE DEF row, j
<1>5. /\ row \in Job /\ row.status = "pending"
      /\ row.chain = job[j].chain /\ row.index = job[j].index
    BY <1>2, <1>3 DEF Job, JobStatus
<1>6. /\ v \in Transaction /\ v.own = [t.own EXCEPT ![j] = row] /\ v.pc = "commit"
      /\ v.lock = t.lock /\ v.subject = t.subject
      /\ v.created = t.created /\ v.refs = t.refs /\ v.waits = t.waits
    BY <1>1, <1>2, <1>5 DEF Transaction
<1> HIDE DEF v
<1> QED BY <1>1, <1>4, <1>5, <1>6, SubjectStep DEF j

LEMMA CompletedRow ==
  ASSUME IInv, NEW s \in Workers, At(s, "handler")
  PROVE  LET j == tx[s].subject
             completed == CompleteJob(Tables(s), j)
         IN  /\ completed \in [JobIds -> Job]
             /\ completed[j].status = "completed"
             /\ completed[j].chain = job[j].chain /\ completed[j].index = job[j].index
<1> DEFINE j == tx[s].subject
<1>1. /\ j \in JobIds /\ Tables(s) \in [JobIds -> Job]
      /\ Tables(s)[j].chain = job[j].chain /\ Tables(s)[j].index = job[j].index
    BY SubjectRow, OwnTables
<1> DEFINE old == Tables(s)[j]
           row == [old EXCEPT !.status = "completed", !.leasedBy = NULL, !.lease = "none"]
<1>2. CompleteJob(Tables(s), j) = [Tables(s) EXCEPT ![j] = row]
    BY <1>1 DEF CompleteJob
<1>3. /\ row \in Job /\ row.status = "completed"
      /\ row.chain = job[j].chain /\ row.index = job[j].index
  <2>1. old \in Job /\ old.chain = job[j].chain /\ old.index = job[j].index
      BY <1>1
  <2> HIDE DEF old
  <2> QED BY <2>1 DEF Job, JobStatus
<1> HIDE DEF row
<1> QED BY <1>1, <1>2, <1>3

LEMMA FinishChainStep ==
  ASSUME IInv, NEW s \in Workers, FinishChain(s)
  PROVE  IInv'
<1> DEFINE t == tx[s]
           j == t.subject
           js == CompleteJob(Tables(s), j)
           waiting == {q \in JobIds :
                         UnblockJobs(js, Refs(s), js[j].chain)[q].status # js[q].status}
           v == [t EXCEPT !.pc = "unblock", !.own[j] = js[j], !.target = waiting]
<1>1. At(s, "handler") /\ t \in Transaction /\ tx \in [Workers -> Transaction]
    BY DEF FinishChain, IInv
<1>2. /\ j \in JobIds /\ js[j] \in Job /\ js[j].status = "completed"
      /\ js[j].chain = job[j].chain /\ js[j].index = job[j].index
  <2>1. j \in JobIds
      BY <1>1, SubjectRow
  <2>2. /\ js \in [JobIds -> Job] /\ js[j].status = "completed"
        /\ js[j].chain = job[j].chain /\ js[j].index = job[j].index
      BY <1>1, CompletedRow
  <2> HIDE DEF js
  <2> QED BY <2>1, <2>2
<1>3. tx' = [tx EXCEPT ![s].pc = "unblock", ![s].own[j] = js[j], ![s].target = waiting]
    BY DEF FinishChain
<1>4. UNCHANGED <<job, blocker, attempt>>
    BY DEF FinishChain
<1>5. waiting \in SUBSET JobIds
    OBVIOUS
<1> HIDE DEF waiting, js, j
<1>6. tx' = [tx EXCEPT ![s] = v]
    BY <1>1, <1>3 DEF Transaction
<1>7. /\ v \in Transaction /\ v.own = [t.own EXCEPT ![j] = js[j]] /\ v.pc = "unblock"
      /\ v.lock = t.lock /\ v.subject = t.subject
      /\ v.created = t.created /\ v.refs = t.refs /\ v.waits = t.waits
    BY <1>1, <1>2, <1>5 DEF Transaction
<1> HIDE DEF v
<1> QED BY <1>1, <1>2, <1>4, <1>6, <1>7, SubjectStep DEF j

(* A transaction adds a row under a fresh id, as a root or behind its job. *)
LEMMA CreationSound ==
  ASSUME IInv, NEW s \in Workers, NEW t,
         Sound(t, job, blocker), \A u \in Workers : u # s => Apart(t, tx[u]),
         t.created = NULL, t.refs = {}, \A j \in JobIds : ~Deleted(t, j),
         NEW q \in JobIds, Fresh(q),
         NEW row \in Job, row.status = "pending",
         \/ row.chain = q /\ row.index = 0
         \/ /\ t.subject # NULL /\ t.own[t.subject] # NULL
            /\ t.own[t.subject].status = "completed"
            /\ row.chain = job[t.subject].chain /\ row.index = job[t.subject].index + 1,
         NEW B \in BlockerSets, NEW v \in Transaction,
         v.pc = IF B = {} THEN "commit" ELSE "addBlockers",
         v.own = [t.own EXCEPT ![q] = row], v.created = q, v.waits = B,
         v.refs = {}, v.lock = t.lock, v.subject = t.subject
  PROVE  /\ Sound(v, job, blocker)
         /\ \A u \in Workers : u # s => Apart(v, tx[u])
<1>1. /\ t \in Transaction /\ t.own \in [JobIds -> Job \cup {NULL}]
      /\ job[q].status = "absent" /\ q # NULL /\ row # NULL
    BY NullIsNoId, NullIsNoRow DEF Sound, Transaction, Fresh
<1>2. \A i \in JobIds : v.own[i] = IF i = q THEN row ELSE t.own[i]
    BY <1>1
<1>3. \A i \in JobIds : ~Deleted(v, i)
    BY <1>2 DEF Deleted
<1>4. Stages(v)
    BY <1>1, <1>3 DEF Stages
<1>5. Writes(v, job)
    BY <1>2, NullIsNoId DEF Sound, Writes, Deleted
<1>6. SubjectHeld(v, job)
    BY DEF Sound, SubjectHeld
<1>7. Creation(v, job)
  <2>1. t.subject # NULL => t.subject \in JobIds /\ t.subject # q
      BY <1>1 DEF Sound, SubjectHeld, Exists, Transaction
  <2> QED BY <1>1, <1>2, <2>1 DEF Creation
<1>8. Deletion(v, job, blocker)
  <2>1. blocker \subseteq JobIds \X JobIds
      BY DEF IInv, Referenced
  <2> QED BY <1>3, <2>1 DEF Deletion
<1>9. References(v, job)
    BY DEF References, BlockerSets, Roots, Exists
<1>10. ASSUME NEW u \in Workers, u # s PROVE Apart(v, tx[u])
  <2>1. /\ Apart(t, tx[u]) /\ tx[u] \in Transaction /\ Creation(tx[u], job)
        /\ tx[u].own[q] = NULL
      BY <1>10 DEF IInv, Sound, Fresh
  <2>2. ASSUME tx[u].created # NULL PROVE v.own[tx[u].created] = NULL
    <3>1. tx[u].created \in JobIds /\ tx[u].own[tx[u].created] # NULL
        BY <2>1, <2>2 DEF Creation, Transaction
    <3>2. tx[u].created # q
        BY <2>1, <3>1
    <3> QED BY <1>2, <2>1, <2>2, <3>1, <3>2 DEF Apart
  <2> QED BY <2>1, <2>2 DEF Apart
<1> QED BY <1>3, <1>4, <1>5, <1>6, <1>7, <1>8, <1>9, <1>10 DEF Sound

LEMMA StartChainStep ==
  ASSUME IInv, NEW s \in Workers, NEW q \in JobIds, NEW B \in BlockerSets, StartChain(s, q, B)
  PROVE  IInv'
<1> DEFINE t == tx[s]
           js == CreateJob(Tables(s), q, q, 0, TRUE, NULL)
           v == Create(t, js, q, B)
<1>1. /\ At(s, "idle") /\ Fresh(q) /\ tx' = [tx EXCEPT ![s] = v]
      /\ UNCHANGED <<job, blocker, attempt>>
    BY DEF StartChain
<1>2. /\ t = NoTransaction /\ Sound(t, job, blocker) /\ t \in Transaction
      /\ \A u \in Workers : u # s => Apart(t, tx[u])
    BY <1>1 DEF At, IInv, Sound, Stages
<1>3. js[q] = [status |-> "pending", chain |-> q, index |-> 0, due |-> TRUE, attempt |-> 0,
               leasedBy |-> NULL, lease |-> "none", key |-> NULL]
    BY OwnTables DEF CreateJob
<1>4. js[q] \in Job /\ js[q].status = "pending" /\ js[q].chain = q /\ js[q].index = 0
  <2> HIDE DEF js
  <2> QED BY <1>3 DEF Job, JobStatus
<1>5. LastJobs(js, B) \in SUBSET JobIds /\ B \in SUBSET JobIds
    BY DEF LastJobs, BlockerSets, Roots
<1> HIDE DEF js
<1>6. /\ t.created = NULL /\ t.refs = {} /\ \A j \in JobIds : t.own[j] = NULL
    BY <1>2 DEF NoTransaction
<1>7. /\ v \in Transaction /\ v.own = [t.own EXCEPT ![q] = js[q]]
      /\ v.pc = (IF B = {} THEN "commit" ELSE "addBlockers")
      /\ v.lock = t.lock /\ v.subject = t.subject
      /\ v.created = q /\ v.refs = {} /\ v.waits = B
    BY <1>2, <1>4, <1>5, <1>6 DEF Create, Transaction
<1>8. tx' \in [Workers -> Transaction] /\ tx'[s] = v /\ \A u \in Workers : u # s => tx'[u] = tx[u]
    BY <1>1, <1>7 DEF IInv
<1> HIDE DEF v
<1>9. Sound(v, job, blocker) /\ \A u \in Workers : u # s => Apart(v, tx[u])
  <2>1. \A j \in JobIds : ~Deleted(t, j)
      BY <1>6 DEF Deleted
  <2> HIDE DEF t
  <2> QED BY <1>1, <1>2, <1>4, <1>6, <1>7, <2>1, CreationSound
<1> QED BY <1>1, <1>8, <1>9, TransactionStep DEF IInv

(* A transaction locks the root its new row will refer to.                 *)
LEMMA RootLocked ==
  ASSUME IInv, NEW s \in Workers, NEW t, NEW v, NEW c \in JobIds,
         Sound(t, job, blocker), \A u \in Workers : u # s => Apart(t, tx[u]),
         t.pc = "handler", CanLock(s, {c}, "share"),
         v = [t EXCEPT !.lock = WithLocks(@, {c}, "share")]
  PROVE  /\ Sound(v, job, blocker)
         /\ \A u \in Workers : u # s => Apart(v, tx[u])
         /\ v.lock[c] # "none"
<1> DEFINE lock == WithLocks(t.lock, {c}, "share")
<1>1. t \in Transaction /\ t.lock \in [JobIds -> LockMode]
    BY DEF Sound, Transaction
<1>2. ASSUME NEW j \in JobIds
      PROVE  /\ lock \in [JobIds -> LockMode]
             /\ t.lock[j] = "update" => lock[j] = "update"
             /\ t.lock[j] \in {"noKey", "update"} => lock[j] \in {"noKey", "update"}
             /\ t.lock[j] # "none" => lock[j] # "none"
             /\ j = c => lock[j] # "none"
    BY <1>1, LocksTaken DEF LockMode
<1>3. ASSUME NEW u \in Workers, u # s
      PROVE  \A j \in JobIds : Compatible(lock[j], tx[u].lock[j])
  <2>1. /\ tx[u].lock \in [JobIds -> LockMode]
        /\ \A j \in JobIds : Compatible(t.lock[j], tx[u].lock[j])
      BY <1>3 DEF Apart, IInv, Transaction
  <2>2. \A j \in {c} : Compatible(tx[u].lock[j], "share")
      BY <1>3 DEF CanLock
  <2> QED BY <1>1, <2>1, <2>2, LocksApart DEF LockMode
<1> HIDE DEF lock
<1>4. /\ v \in Transaction /\ v.lock = lock
      /\ v.pc = t.pc /\ v.own = t.own /\ v.refs = t.refs /\ v.target = t.target
      /\ v.subject = t.subject /\ v.created = t.created /\ v.waits = t.waits
  <2>1. v = [t EXCEPT !.lock = lock]
      BY DEF lock
  <2> QED BY <1>1, <1>2, <2>1 DEF Transaction
<1>5. Sound(v, job, blocker)
  <2>1. \A j \in JobIds : Deleted(v, j) <=> Deleted(t, j)
      BY <1>4 DEF Deleted
  <2>2. Stages(v)
      BY <1>4, <2>1 DEF Sound, Stages
  <2>3. Writes(v, job)
      BY <1>2, <1>4, <2>1 DEF Sound, Writes
  <2>4. Creation(v, job)
      BY <1>4 DEF Sound, Creation
  <2>5. SubjectHeld(v, job)
      BY <1>1, <1>2, <1>4 DEF Sound, SubjectHeld, Transaction
  <2>6. Deletion(v, job, blocker)
      BY <1>4 DEF Sound, Deletion, Deleted
  <2>7. References(v, job)
      BY <1>1, <1>2, <1>4 DEF Sound, References, Transaction
  <2> QED BY <1>4, <2>2, <2>3, <2>4, <2>5, <2>6, <2>7 DEF Sound
<1>6. \A u \in Workers : u # s => Apart(v, tx[u])
    BY <1>3, <1>4 DEF Apart
<1> QED BY <1>2, <1>4, <1>5, <1>6

LEMMA ContinueWithStep ==
  ASSUME IInv, NEW s \in Workers, NEW q \in JobIds, NEW B \in BlockerSets, ContinueWith(s, q, B)
  PROVE  IInv'
<1> DEFINE j == tx[s].subject
           completed == CompleteJob(Tables(s), j)
           c == completed[j].chain
           js == CreateJob(completed, q, c, completed[j].index + 1, TRUE, NULL)
           w == [tx[s] EXCEPT !.own[j] = js[j]]
           t == [tx[s] EXCEPT !.own[j] = js[j], !.lock = WithLocks(@, {c}, "share")]
           v == Create(t, js, q, B)
<1>1. /\ At(s, "handler") /\ Fresh(q) /\ tx' = [tx EXCEPT ![s] = v]
      /\ UNCHANGED <<job, blocker, attempt>> /\ CanLock(s, {c}, "share")
    BY DEF ContinueWith
<1>2. /\ tx[s] \in Transaction /\ Sound(tx[s], job, blocker) /\ tx[s].pc = "handler"
      /\ \A u \in Workers : u # s => Apart(tx[s], tx[u])
    BY <1>1 DEF At, IInv
<1>3. /\ j \in JobIds /\ Exists(job, j) /\ tx[s].created = NULL
      /\ tx[s].refs = {} /\ tx[s].waits = {}
      /\ completed \in [JobIds -> Job] /\ completed[j].status = "completed"
      /\ completed[j].chain = job[j].chain /\ completed[j].index = job[j].index
    BY <1>1, SubjectRow, CompletedRow
<1>4. q # j /\ j # NULL
    BY <1>1, <1>3, NullIsNoId DEF Fresh, Exists
<1> HIDE DEF completed, j
<1>14. c \in JobIds
    BY <1>3 DEF IInv, ChainsCreated
<1>5. /\ js[j] = completed[j]
      /\ js[q] = [status |-> "pending", chain |-> job[j].chain, index |-> job[j].index + 1,
                  due |-> TRUE, attempt |-> 0, leasedBy |-> NULL, lease |-> "none", key |-> NULL]
    BY <1>3, <1>4 DEF CreateJob
<1>6. /\ js[q] \in Job /\ js[q].status = "pending"
      /\ js[q].chain = job[j].chain /\ js[q].index = job[j].index + 1
      /\ js[j] \in Job /\ js[j].status = "completed"
      /\ js[j].chain = job[j].chain /\ js[j].index = job[j].index
  <2>1. job[j].chain \in JobIds \cup {NULL} /\ job[j].index + 1 \in Nat
      BY <1>3 DEF IInv, Job
  <2> HIDE DEF js
  <2> QED BY <1>3, <1>5, <2>1 DEF Job, JobStatus
<1>7. LastJobs(js, B) \in SUBSET JobIds /\ B \in SUBSET JobIds
    BY DEF LastJobs, BlockerSets, Roots
<1> HIDE DEF js
<1>15. /\ w \in Transaction /\ w.own = [tx[s].own EXCEPT ![j] = js[j]] /\ w.pc = "handler"
       /\ w.lock = tx[s].lock /\ w.subject = j
       /\ w.created = NULL /\ w.refs = {} /\ w.waits = {}
    BY <1>2, <1>3, <1>6 DEF Transaction, j
<1>16. t = [w EXCEPT !.lock = WithLocks(@, {c}, "share")]
    BY <1>2 DEF Transaction
<1> HIDE DEF w
<1>17. Sound(w, job, blocker) /\ \A u \in Workers : u # s => Apart(w, tx[u])
    BY <1>2, <1>3, <1>6, <1>15, SubjectWritten DEF j
<1>12. Sound(t, job, blocker) /\ \A u \in Workers : u # s => Apart(t, tx[u])
  <2> HIDE DEF c, t
  <2> QED BY <1>1, <1>14, <1>15, <1>16, <1>17, RootLocked
<1>8. /\ t \in Transaction /\ t.own = [tx[s].own EXCEPT ![j] = js[j]] /\ t.pc = "handler"
      /\ t.subject = j
      /\ t.created = NULL /\ t.refs = {} /\ t.waits = {}
  <2> HIDE DEF t
  <2>1. t \in Transaction
      BY <1>12 DEF Sound
  <2> QED BY <1>15, <1>16, <2>1 DEF Transaction
<1>9. t.own[j] = js[j] /\ js[j] # NULL
    BY <1>2, <1>3, <1>6, <1>8, NullIsNoRow DEF Transaction
<1>10. /\ v \in Transaction /\ v.own = [t.own EXCEPT ![q] = js[q]]
       /\ v.pc = (IF B = {} THEN "commit" ELSE "addBlockers")
       /\ v.lock = t.lock /\ v.subject = t.subject
       /\ v.created = q /\ v.refs = {} /\ v.waits = B
  <2> HIDE DEF t
  <2> QED BY <1>6, <1>7, <1>8 DEF Create, Transaction
<1>11. tx' \in [Workers -> Transaction] /\ tx'[s] = v /\ \A u \in Workers : u # s => tx'[u] = tx[u]
    BY <1>1, <1>10 DEF IInv
<1> HIDE DEF v, t
<1>13. Sound(v, job, blocker) /\ \A u \in Workers : u # s => Apart(v, tx[u])
  <2>1. \A i \in JobIds : ~Deleted(t, i)
      BY <1>8, <1>12 DEF Sound, Stages
  <2>2. /\ t.subject # NULL /\ t.own[t.subject] # NULL
        /\ t.own[t.subject].status = "completed"
        /\ js[q].chain = job[t.subject].chain /\ js[q].index = job[t.subject].index + 1
      BY <1>4, <1>6, <1>8, <1>9
  <2>3. Fresh(q) /\ t.created = NULL /\ t.refs = {} /\ js[q] \in Job /\ js[q].status = "pending"
      BY <1>1, <1>6, <1>8
  <2> QED BY <1>10, <1>12, <2>1, <2>2, <2>3, CreationSound
<1> QED BY <1>1, <1>11, <1>13, TransactionStep DEF IInv

LEMMA AddJobsBlockersStep ==
  ASSUME IInv, NEW s \in Workers, AddJobsBlockers(s)
  PROVE  IInv'
<1> DEFINE t == tx[s]
           js == Tables(s)
           q == t.created
           incomplete == {j \in t.target : Exists(js, j) /\ js[j].status # "completed"}
           one == WithLocks(t.lock, t.target, "update")
           lock == WithLocks(one, t.waits, "share")
           row == [t.own[q] EXCEPT !.status = IF incomplete = {} THEN @ ELSE "blocked"]
           refs == {<<q, c>> : c \in t.waits}
           v == [t EXCEPT !.pc = "commit", !.own[q] = row, !.refs = refs,
                          !.lock = lock, !.target = {}, !.waits = {}]
<1>0. /\ t \in Transaction /\ Sound(t, job, blocker) /\ t.pc = "addBlockers"
      /\ \A u \in Workers : u # s => Apart(t, tx[u])
    BY DEF AddJobsBlockers, At, IInv
<1>1. /\ q # NULL /\ q \in JobIds /\ t.refs = {} /\ \A j \in JobIds : ~Deleted(t, j)
      /\ t.own[q] \in Job /\ t.own[q] # NULL /\ t.own[q].status \in {"pending", "blocked"}
      /\ job[q].status = "absent" /\ t.waits \subseteq JobIds /\ t.target \subseteq JobIds
      /\ t.lock \in [JobIds -> LockMode] /\ t.own \in [JobIds -> Job \cup {NULL}]
    BY <1>0 DEF Sound, Stages, Creation, Transaction
<1>2. /\ \A c \in t.waits : Exists(js, c)
      /\ CanLock(s, t.target, "update") /\ CanLock(s, t.waits, "share")
      /\ UNCHANGED <<job, blocker, attempt>>
    BY DEF AddJobsBlockers, CanAddBlockers
<1>3. tx' = [tx EXCEPT ![s] = v]
  <2>1. tx' = [tx EXCEPT ![s] =
              [t EXCEPT !.pc = "commit",
                        !.own[q].status = IF incomplete = {} THEN @ ELSE "blocked",
                        !.refs = refs, !.lock = lock, !.target = {}, !.waits = {}]]
      BY DEF AddJobsBlockers
  <2> QED BY <2>1, <1>0 DEF Transaction
<1>4. one \in [JobIds -> LockMode] /\ lock \in [JobIds -> LockMode]
  <2>1. ASSUME NEW j \in JobIds PROVE one \in [JobIds -> LockMode]
      BY <1>1, LocksTaken DEF LockMode
  <2>2. one \in [JobIds -> LockMode]
      BY <1>1, <2>1
  <2> HIDE DEF one
  <2>3. ASSUME NEW j \in JobIds PROVE lock \in [JobIds -> LockMode]
      BY <2>2, LocksTaken DEF LockMode
  <2> QED BY <1>1, <2>2, <2>3
<1>5. ASSUME NEW j \in JobIds
      PROVE  /\ t.lock[j] = "update" => lock[j] = "update"
             /\ t.lock[j] \in {"noKey", "update"} => lock[j] \in {"noKey", "update"}
             /\ j \in t.waits => lock[j] # "none"
  <2>1. /\ t.lock[j] = "update" => one[j] = "update"
        /\ t.lock[j] \in {"noKey", "update"} => one[j] \in {"noKey", "update"}
      BY <1>1, LocksTaken DEF LockMode
  <2> HIDE DEF one
  <2>2. /\ one[j] = "update" => lock[j] = "update"
        /\ one[j] \in {"noKey", "update"} => lock[j] \in {"noKey", "update"}
        /\ j \in t.waits => lock[j] # "none"
      BY <1>4, LocksTaken DEF LockMode
  <2> QED BY <2>1, <2>2
<1>6. ASSUME NEW u \in Workers, u # s
      PROVE  \A j \in JobIds : Compatible(lock[j], tx[u].lock[j])
  <2>1. /\ tx[u].lock \in [JobIds -> LockMode]
        /\ \A j \in JobIds : Compatible(t.lock[j], tx[u].lock[j])
      BY <1>0, <1>6 DEF Apart, IInv, Transaction
  <2>2. \A j \in t.target : Compatible(tx[u].lock[j], "update")
      BY <1>2, <1>6 DEF CanLock
  <2>3. \A j \in t.waits : Compatible(tx[u].lock[j], "share")
      BY <1>2, <1>6 DEF CanLock
  <2>4. \A j \in JobIds : Compatible(one[j], tx[u].lock[j])
      BY <1>1, <2>1, <2>2, LocksApart DEF LockMode
  <2> HIDE DEF one
  <2> QED BY <1>4, <2>1, <2>3, <2>4, LocksApart DEF LockMode
<1> HIDE DEF lock, one, incomplete
<1>7. row \in Job /\ row.status \in {"pending", "blocked"} /\ row # NULL
      /\ row.chain = t.own[q].chain /\ row.index = t.own[q].index
    BY <1>1, NullIsNoRow DEF Job, JobStatus
<1> HIDE DEF row
<1>8. refs \in SUBSET (JobIds \X JobIds)
    BY <1>1
<1>9. /\ v \in Transaction /\ v.pc = "commit" /\ v.own = [t.own EXCEPT ![q] = row]
      /\ v.refs = refs /\ v.lock = lock /\ v.target = {} /\ v.waits = {}
      /\ v.created = q /\ v.subject = t.subject
  <2> HIDE DEF refs
  <2> QED BY <1>0, <1>1, <1>4, <1>7, <1>8 DEF Transaction
<1> HIDE DEF v
<1>10. \A j \in JobIds : v.own[j] = IF j = q THEN row ELSE t.own[j]
    BY <1>1, <1>9
<1>11. \A j \in JobIds : ~Deleted(v, j)
    BY <1>1, <1>7, <1>10 DEF Deleted
<1>12. Sound(v, job, blocker)
  <2>1. Stages(v)
      BY <1>9, <1>11 DEF Stages
  <2>2. Writes(v, job)
      BY <1>0, <1>1, <1>5, <1>9, <1>10, <1>11 DEF Sound, Writes
  <2>3. Creation(v, job)
    <3>1. t.subject # NULL => t.subject \in JobIds /\ t.subject # q
        BY <1>0, <1>1 DEF Sound, SubjectHeld, Exists, Transaction
    <3> QED BY <1>0, <1>1, <1>7, <1>9, <1>10, <3>1 DEF Sound, Creation
  <2>4. SubjectHeld(v, job)
      BY <1>0, <1>5, <1>9 DEF Sound, SubjectHeld, Transaction
  <2>5. Deletion(v, job, blocker)
    <3>1. blocker \subseteq JobIds \X JobIds
        BY DEF IInv, Referenced
    <3> QED BY <1>9, <1>11, <3>1 DEF Deletion
  <2>6. References(v, job)
    <3>1. \A c \in t.waits : job[c].status # "absent"
        BY <1>0 DEF Sound, References
    <3>2. \A c \in t.waits : Exists(job, c) /\ lock[c] # "none"
        BY <1>1, <1>2, <1>5, <3>1, OwnTables
    <3> QED BY <1>1, <1>9, <3>2 DEF References
  <2> QED BY <1>9, <2>1, <2>2, <2>3, <2>4, <2>5, <2>6 DEF Sound
<1>13. ASSUME NEW u \in Workers, u # s PROVE Apart(v, tx[u])
  <2>1. Apart(t, tx[u]) /\ tx[u] \in Transaction
      BY <1>0, <1>13 DEF IInv
  <2>2. ASSUME tx[u].created # NULL PROVE v.own[tx[u].created] = NULL
    <3>1. tx[u].created \in JobIds /\ t.own[tx[u].created] = NULL
        BY <2>1, <2>2 DEF Apart, Transaction
    <3> QED BY <1>1, <1>10, <3>1
  <2> QED BY <1>6, <1>9, <1>13, <2>1, <2>2 DEF Apart
<1>14. tx' \in [Workers -> Transaction] /\ tx'[s] = v /\ \A u \in Workers : u # s => tx'[u] = tx[u]
    BY <1>3, <1>9 DEF IInv
<1> QED BY <1>2, <1>12, <1>13, <1>14, TransactionStep DEF IInv

LEMMA UnblockStep ==
  ASSUME IInv, NEW s \in Workers, Unblock(s)
  PROVE  IInv'
<1> DEFINE t == tx[s]
           js == Tables(s)
           ready == {q \in t.target : js[q].status = "blocked"}
           own == [q \in JobIds |->
                     IF q \in ready THEN [js[q] EXCEPT !.status = "pending"] ELSE t.own[q]]
           lock == WithLocks(t.lock, ready, "noKey")
           v == [t EXCEPT !.pc = "commit", !.target = {}, !.own = own, !.lock = lock]
<1>0. /\ t \in Transaction /\ Sound(t, job, blocker) /\ t.pc = "unblock"
      /\ \A u \in Workers : u # s => Apart(t, tx[u])
    BY DEF Unblock, At, IInv
<1>1. /\ t.created = NULL /\ t.refs = {} /\ t.waits = {} /\ \A j \in JobIds : ~Deleted(t, j)
      /\ t.target \subseteq JobIds
      /\ t.lock \in [JobIds -> LockMode] /\ t.own \in [JobIds -> Job \cup {NULL}]
    BY <1>0 DEF Sound, Stages, Transaction
<1>2. /\ CanLock(s, t.target, "noKey") /\ UNCHANGED <<job, blocker, attempt>>
      /\ tx' = [tx EXCEPT ![s].pc = "commit", ![s].target = {}, ![s].own = own, ![s].lock = lock]
    BY DEF Unblock
<1>3. /\ js \in [JobIds -> Job] /\ ready \subseteq JobIds
      /\ \A j \in JobIds : js[j] = IF t.own[j] # NULL THEN t.own[j] ELSE job[j]
    BY <1>1, OwnTables
<1>4. ASSUME NEW q \in ready
      PROVE  /\ Exists(job, q) /\ job[q].status # "completed"
             /\ own[q] \in Job /\ own[q].status = "pending"
             /\ own[q].chain = job[q].chain /\ own[q].index = job[q].index
  <2>1. q \in JobIds /\ js[q] \in Job /\ js[q].status = "blocked"
      BY <1>3
  <2>2. /\ own[q] \in Job /\ own[q].status = "pending"
        /\ own[q].chain = js[q].chain /\ own[q].index = js[q].index
      BY <2>1 DEF Job, JobStatus
  <2> HIDE DEF own
  <2>3. js[q].chain = job[q].chain /\ js[q].index = job[q].index /\ Exists(job, q)
      BY <1>1, <2>1, NullIsNoId, OwnTables DEF Exists
  <2>4. job[q].status # "completed"
      BY <1>0, <1>1, <1>3, <2>1, NullIsNoId DEF Sound, Writes
  <2> QED BY <2>2, <2>3, <2>4
<1>5. ASSUME NEW j \in JobIds, j \notin ready PROVE own[j] = t.own[j]
    BY <1>5
<1>6. own \in [JobIds -> Job \cup {NULL}]
  <2>1. \A j \in JobIds : own[j] \in Job \cup {NULL}
      BY <1>1, <1>4, <1>5
  <2> QED BY <2>1
<1>7. lock \in [JobIds -> LockMode]
  <2>1. ASSUME NEW j \in JobIds PROVE lock \in [JobIds -> LockMode]
      BY <1>1, LocksTaken DEF LockMode
  <2>2. JobIds = {} => lock \in [JobIds -> LockMode]
      BY DEF WithLocks
  <2> QED BY <2>1, <2>2
<1>8. ASSUME NEW j \in JobIds
      PROVE  /\ t.lock[j] = "update" => lock[j] = "update"
             /\ t.lock[j] \in {"noKey", "update"} => lock[j] \in {"noKey", "update"}
             /\ j \in ready => lock[j] \in {"noKey", "update"}
    BY <1>1, LocksTaken DEF LockMode
<1>9. ASSUME NEW u \in Workers, u # s
      PROVE  \A j \in JobIds : Compatible(lock[j], tx[u].lock[j])
  <2>1. /\ tx[u].lock \in [JobIds -> LockMode]
        /\ \A j \in JobIds : Compatible(t.lock[j], tx[u].lock[j])
      BY <1>0, <1>9 DEF Apart, IInv, Transaction
  <2>2. \A j \in ready : Compatible(tx[u].lock[j], "noKey")
      BY <1>2, <1>9 DEF CanLock
  <2> HIDE DEF ready
  <2> QED BY <1>1, <2>1, <2>2, LocksApart DEF LockMode
<1> HIDE DEF own, lock
<1>10. /\ v \in Transaction /\ v.pc = "commit" /\ v.own = own /\ v.lock = lock
       /\ v.target = {} /\ v.subject = t.subject
       /\ v.created = NULL /\ v.refs = {} /\ v.waits = {}
    BY <1>0, <1>1, <1>6, <1>7 DEF Transaction
<1>11. tx' \in [Workers -> Transaction] /\ tx'[s] = v /\ \A u \in Workers : u # s => tx'[u] = tx[u]
    BY <1>2, <1>10 DEF IInv, Transaction
<1> HIDE DEF v, js
<1>12. \A j \in JobIds : ~Deleted(v, j)
    BY <1>1, <1>4, <1>5, <1>10 DEF Deleted
<1>13. Sound(v, job, blocker)
  <2>1. Stages(v)
      BY <1>10, <1>12 DEF Stages
  <2>2. Writes(v, job)
    <3> SUFFICES ASSUME NEW i \in JobIds, v.own[i] # NULL
                 PROVE  /\ Exists(job, i) /\ v.lock[i] \in {"noKey", "update"}
                        /\ v.own[i].status # "absent"
                        /\ v.own[i].chain = job[i].chain /\ v.own[i].index = job[i].index
                        /\ job[i].status # "completed"
        BY <1>12 DEF Writes
    <3>1. CASE i \in ready
      <4> HIDE DEF ready
      <4> QED BY <3>1, <1>4, <1>8, <1>10
    <3>2. CASE i \notin ready
      <4>1. t.own[i] # NULL /\ v.own[i] = t.own[i] /\ ~Deleted(t, i) /\ i # t.created
          BY <3>2, <1>1, <1>5, <1>10, NullIsNoId
      <4>2. /\ Exists(job, i) /\ t.lock[i] \in {"noKey", "update"}
            /\ t.own[i].status # "absent"
            /\ t.own[i].chain = job[i].chain /\ t.own[i].index = job[i].index
            /\ job[i].status # "completed"
          BY <4>1, <1>0 DEF Sound, Writes
      <4> QED BY <4>1, <4>2, <1>8, <1>10
    <3> QED BY <3>1, <3>2
  <2>3. SubjectHeld(v, job)
      BY <1>0, <1>8, <1>10 DEF Sound, SubjectHeld, Transaction
  <2>4. Deletion(v, job, blocker)
    <3>1. blocker \subseteq JobIds \X JobIds
        BY DEF IInv, Referenced
    <3> QED BY <1>10, <1>12, <3>1 DEF Deletion
  <2> QED BY <1>10, <2>1, <2>2, <2>3, <2>4 DEF Sound, Creation, References
<1>14. ASSUME NEW u \in Workers, u # s PROVE Apart(v, tx[u])
  <2>1. Apart(t, tx[u]) /\ tx[u] \in Transaction /\ Creation(tx[u], job)
      BY <1>0, <1>14 DEF IInv, Sound
  <2>2. ASSUME tx[u].created # NULL PROVE v.own[tx[u].created] = NULL
    <3>1. /\ tx[u].created \in JobIds /\ t.own[tx[u].created] = NULL
          /\ job[tx[u].created].status = "absent"
        BY <2>1, <2>2 DEF Apart, Creation, Transaction
    <3>2. tx[u].created \notin ready
        BY <1>4, <3>1 DEF Exists
    <3> QED BY <1>5, <1>10, <3>1, <3>2
  <2> QED BY <1>9, <1>10, <1>14, <2>1, <2>2 DEF Apart
<1> QED BY <1>2, <1>11, <1>13, <1>14, TransactionStep DEF IInv

LEMMA DeleteChainsStep ==
  ASSUME IInv, NEW s \in Workers, NEW C \in SUBSET JobIds, NEW cascade \in BOOLEAN,
         DeleteChains(s, C, cascade)
  PROVE  IInv'
<1> DEFINE E == IF cascade THEN ExpandChainIds(blocker, C) ELSE C
           v == [NoTransaction EXCEPT !.pc = "delete", !.target = InChains(job, E)]
<1>1. tx[s] = NoTransaction
    BY DEF DeleteChains, At, IInv, Sound, Stages
<1>2. v \in Transaction
    BY NoTransactionTyped DEF Transaction, InChains
<1>3. /\ tx' = [tx EXCEPT ![s].pc = "delete", ![s].target = InChains(job, E)]
      /\ UNCHANGED <<job, blocker, attempt>>
    BY DEF DeleteChains
<1> HIDE DEF E
<1>4. /\ tx' \in [Workers -> Transaction] /\ tx'[s] = v
      /\ \A u \in Workers : u # s => tx'[u] = tx[u]
    BY <1>1, <1>2, <1>3 DEF IInv
<1>5. /\ v.pc = "delete" /\ v.own = NoTransaction.own /\ v.lock = NoTransaction.lock
      /\ v.own = [j \in JobIds |-> NULL] /\ v.target = InChains(job, E)
      /\ v.refs = {} /\ v.subject = NULL /\ v.created = NULL /\ v.waits = {}
    BY DEF NoTransaction
<1> HIDE DEF v
<1>6. Sound(v, job, blocker)
  <2>1. \A j \in JobIds : ~Deleted(v, j)
      BY <1>5 DEF Deleted
  <2>2. blocker \subseteq JobIds \X JobIds
      BY DEF IInv, Referenced
  <2>3. Deletion(v, job, blocker)
      BY <1>5, <2>1, <2>2 DEF Deletion, InChains, Roots, Exists
  <2> QED
      BY <1>2, <1>5, <2>1, <2>3 DEF Sound, Stages, Writes, Creation, SubjectHeld, References
<1>7. \A u \in Workers : Apart(v, tx[u])
    BY <1>5, NoTransactionTyped DEF Apart, IInv, NoTransaction
<1> QED BY <1>3, <1>4, <1>6, <1>7, TransactionStep DEF IInv

LEMMA DeleteLockedStep ==
  ASSUME IInv, NEW s \in Workers, DeleteLocked(s)
  PROVE  IInv'
<1> DEFINE t == tx[s]
           D == {j \in t.target : Exists(job, j)}
           gone == [NoJob EXCEPT !.status = "deleted"]
           own == [j \in JobIds |-> IF j \in D THEN gone ELSE t.own[j]]
           lock == WithLocks(t.lock, D, "update")
           v == [t EXCEPT !.pc = "commit", !.target = {}, !.own = own, !.lock = lock]
<1>0. /\ t \in Transaction /\ Sound(t, job, blocker) /\ t.pc = "delete"
      /\ \A u \in Workers : u # s => Apart(t, tx[u])
    BY DEF DeleteLocked, At, IInv
<1>1. /\ t.created = NULL /\ t.subject = NULL /\ t.refs = {} /\ t.waits = {}
      /\ t.target \subseteq JobIds /\ D \subseteq JobIds
      /\ t.lock \in [JobIds -> LockMode] /\ \A j \in JobIds : t.own[j] = NULL
    BY <1>0 DEF Sound, Stages, Transaction, NoTransaction
<1>2. /\ CanLock(s, t.target, "update") /\ ForeignKeyHolds(D)
      /\ UNCHANGED <<job, blocker, attempt>>
      /\ tx' = [tx EXCEPT ![s].pc = "commit", ![s].target = {}, ![s].own = own, ![s].lock = lock]
    BY DEF DeleteLocked
<1>3. gone \in Job /\ gone # NULL /\ gone.status = "deleted"
  <2>1. NoJob \in Job
      BY DEF NoJob, Job, JobStatus
  <2>2. gone \in Job /\ gone.status = "deleted"
      BY <2>1 DEF Job, JobStatus
  <2> QED BY <2>2, NullIsNoRow
<1> HIDE DEF gone
<1>4. /\ own \in [JobIds -> Job \cup {NULL}]
      /\ \A j \in JobIds : own[j] = IF j \in D THEN gone ELSE NULL
    BY <1>1, <1>3
<1>5. /\ \A j \in D : lock[j] = "update"
      /\ lock \in [JobIds -> LockMode]
  <2>1. ASSUME NEW j \in JobIds
        PROVE  lock \in [JobIds -> LockMode] /\ (j \in D => lock[j] = "update")
      BY <1>1, LocksTaken DEF LockMode
  <2>2. JobIds = {} => lock \in [JobIds -> LockMode]
      BY DEF WithLocks
  <2> HIDE DEF D, lock
  <2> QED BY <1>1, <2>1, <2>2
<1>6. ASSUME NEW u \in Workers, u # s
      PROVE  \A j \in JobIds : Compatible(lock[j], tx[u].lock[j])
  <2>1. /\ tx[u].lock \in [JobIds -> LockMode]
        /\ \A j \in JobIds : Compatible(t.lock[j], tx[u].lock[j])
      BY <1>0, <1>6 DEF Apart, IInv, Transaction
  <2>2. \A j \in D : Compatible(tx[u].lock[j], "update")
      BY <1>2, <1>6 DEF CanLock
  <2> HIDE DEF D
  <2> QED BY <1>1, <2>1, <2>2, LocksApart DEF LockMode
<1> HIDE DEF own, lock
<1>7. /\ v \in Transaction /\ v.pc = "commit" /\ v.own = own /\ v.lock = lock
      /\ v.target = {} /\ v.subject = NULL
      /\ v.created = NULL /\ v.refs = {} /\ v.waits = {}
    BY <1>0, <1>1, <1>4, <1>5 DEF Transaction
<1>8. tx' \in [Workers -> Transaction] /\ tx'[s] = v /\ \A u \in Workers : u # s => tx'[u] = tx[u]
    BY <1>2, <1>7 DEF IInv, Transaction
<1> HIDE DEF v
<1>9. \A j \in JobIds : Deleted(v, j) <=> j \in D
    BY <1>3, <1>4, <1>7 DEF Deleted
<1>10. Deletion(v, job, blocker)
  <2>1. ASSUME NEW j \in JobIds, Deleted(v, j), job[j].chain \in Roots(job)
        PROVE  Deleted(v, job[j].chain)
    <3>1. j \in t.target /\ Exists(job, j)
        BY <1>9, <2>1
    <3>2. job[j].chain \in t.target /\ Exists(job, job[j].chain)
        BY <1>0, <2>1, <3>1 DEF Sound, Deletion, Roots
    <3> QED BY <1>1, <1>9, <3>2
  <2>2. \A ref \in blocker : Deleted(v, ref[2]) => Deleted(v, ref[1])
    <3>1. blocker \subseteq JobIds \X JobIds
        BY DEF IInv, Referenced
    <3> HIDE DEF D
    <3> QED BY <1>2, <1>9, <3>1 DEF ForeignKeyHolds
  <2> QED BY <1>7, <2>1, <2>2 DEF Deletion
<1>11. Sound(v, job, blocker)
  <2>1. Stages(v) /\ Creation(v, job) /\ SubjectHeld(v, job) /\ References(v, job)
      BY <1>7 DEF Stages, Creation, SubjectHeld, References
  <2>2. Writes(v, job)
      BY <1>4, <1>5, <1>7, <1>9 DEF Writes
  <2> QED BY <1>7, <1>10, <2>1, <2>2 DEF Sound
<1>12. ASSUME NEW u \in Workers, u # s PROVE Apart(v, tx[u])
  <2>1. tx[u] \in Transaction /\ Creation(tx[u], job)
      BY DEF IInv, Sound
  <2>2. ASSUME tx[u].created # NULL PROVE v.own[tx[u].created] = NULL
    <3>1. tx[u].created \in JobIds /\ tx[u].created \notin D
        BY <2>1, <2>2 DEF Creation, Transaction, Exists
    <3> QED BY <1>4, <1>7, <3>1
  <2> QED BY <1>6, <1>7, <1>12, <2>2 DEF Apart
<1> QED BY <1>2, <1>8, <1>11, <1>12, TransactionStep DEF IInv

-----------------------------------------------------------------------------
(* A step that changes the tables.  What another transaction u knows of    *)
(* them stays true when the rows it has locked are not changed or removed, *)
(* its new id is not used, no id is used again, and no row of another      *)
(* chain comes to refer to a row it deletes.                               *)
LEMMA Undisturbed ==
  ASSUME NEW js, NEW bl, NEW js2, NEW bl2 \in SUBSET (JobIds \X JobIds), NEW u,
         Sound(u, js, bl), ChainsCreated(js),
         \A j \in JobIds : Exists(js, j) /\ u.lock[j] \in {"noKey", "update"} => js2[j] = js[j],
         u.created # NULL => js2[u.created].status = "absent",
         \A j \in JobIds : js[j].status # "absent" => js2[j].status # "absent",
         \A j \in JobIds : Exists(js2, j) /\ js[j].status # "absent" =>
           Exists(js, j) /\ js2[j].chain = js[j].chain,
         \A ref \in bl2 : ref \notin bl => ~Deleted(u, ref[2]),
         \A j \in JobIds : Exists(js, j) /\ u.lock[j] # "none" => Exists(js2, j)
  PROVE  Sound(u, js2, bl2)
<1>1. /\ u \in Transaction /\ Stages(u) /\ Writes(u, js) /\ Creation(u, js)
      /\ SubjectHeld(u, js) /\ Deletion(u, js, bl) /\ References(u, js)
    BY DEF Sound
<1>2. ASSUME NEW j \in JobIds, Exists(js, j), js[j].chain \in Roots(js2)
      PROVE  js[j].chain \in Roots(js)
  <2>1. js[j].chain \in JobIds /\ js[js[j].chain].status # "absent"
      BY <1>2 DEF ChainsCreated
  <2> QED BY <1>2, <2>1 DEF Roots
<1>3. Writes(u, js2)
    BY <1>1 DEF Writes
<1>4. SubjectHeld(u, js2)
    BY <1>1 DEF SubjectHeld, Transaction
<1>5. Creation(u, js2)
  <2>1. u.subject # NULL => js2[u.subject] = js[u.subject]
      BY <1>1 DEF SubjectHeld, Transaction
  <2> QED BY <1>1, <2>1 DEF Creation
<1>6. Deletion(u, js2, bl2)
  <2>1. ASSUME u.pc = "delete", NEW j \in u.target
        PROVE  /\ js2[j].status # "absent"
               /\ Exists(js2, j) /\ js2[j].chain \in Roots(js2) => js2[j].chain \in u.target
    <3>1. /\ j \in JobIds /\ js[j].status # "absent"
          /\ Exists(js, j) /\ js[j].chain \in Roots(js) => js[j].chain \in u.target
        BY <1>1, <2>1 DEF Deletion, Transaction
    <3>2. js2[j].status # "absent"
        BY <3>1
    <3>3. ASSUME Exists(js2, j), js2[j].chain \in Roots(js2) PROVE js2[j].chain \in u.target
      <4>1. Exists(js, j) /\ js2[j].chain = js[j].chain
          BY <3>1, <3>3
      <4> QED BY <1>2, <3>1, <3>3, <4>1
    <3> QED BY <3>2, <3>3
  <2>2. ASSUME NEW j \in JobIds, Deleted(u, j), js2[j].chain \in Roots(js2)
        PROVE  Deleted(u, js2[j].chain)
    <3>1. j # u.created
        BY <1>1, <2>2, NullIsNoId DEF Creation, Deleted
    <3>2. Exists(js, j) /\ u.lock[j] = "update"
        BY <1>1, <2>2, <3>1 DEF Writes, Deleted
    <3>3. js2[j] = js[j]
        BY <3>2
    <3> QED BY <1>1, <1>2, <2>2, <3>2, <3>3 DEF Deletion
  <2>3. \A ref \in bl2 : Deleted(u, ref[2]) => Deleted(u, ref[1])
      BY <1>1 DEF Deletion
  <2> QED BY <2>1, <2>2, <2>3 DEF Deletion
<1>7. References(u, js2)
  <2>1. \A c \in u.waits : c \in JobIds
      BY <1>1 DEF Transaction
  <2>2. \A ref \in u.refs : ref[2] \in JobIds
      BY <1>1 DEF Transaction
  <2> QED BY <1>1, <2>1, <2>2 DEF References
<1> QED BY <1>1, <1>3, <1>4, <1>5, <1>6, <1>7 DEF Sound

LEMMA ReapStep ==
  ASSUME IInv, NEW s \in Workers, NEW j \in JobIds, Reap(s, j)
  PROVE  IInv'
<1>1. /\ job[j].status = "running" /\ CanLock(s, {j}, "update") /\ tx[s].pc = "idle"
      /\ job' = ReapJobLease(job, j) /\ UNCHANGED <<blocker, tx, attempt>>
      /\ job \in [JobIds -> Job] /\ blocker \in SUBSET (JobIds \X JobIds)
    BY DEF Reap, At, IInv, Referenced
<1>2. job' = [job EXCEPT ![j] = [job[j] EXCEPT !.leasedBy = NULL, !.lease = "none",
                                               !.status = "pending"]]
    BY <1>1 DEF ReapJobLease
<1>3. /\ job' \in [JobIds -> Job] /\ job'[j].status = "pending"
      /\ job'[j].chain = job[j].chain /\ job'[j].index = job[j].index
      /\ \A k \in JobIds : k # j => job'[k] = job[k]
  <2> DEFINE row == [job[j] EXCEPT !.leasedBy = NULL, !.lease = "none", !.status = "pending"]
  <2>1. /\ row \in Job /\ row.status = "pending"
        /\ row.chain = job[j].chain /\ row.index = job[j].index
      BY <1>1 DEF Job, JobStatus
  <2> HIDE DEF row
  <2>2. job' = [job EXCEPT ![j] = row]
      BY <1>2 DEF row
  <2> QED BY <1>1, <2>1, <2>2
<1>4. \A k \in JobIds :
        /\ job'[k].chain = job[k].chain /\ job'[k].index = job[k].index
        /\ Exists(job', k) <=> Exists(job, k)
        /\ job'[k].status = "absent" <=> job[k].status = "absent"
        /\ job'[k].status = "completed" <=> job[k].status = "completed"
    BY <1>1, <1>3 DEF Exists
<1>5. ChainsCreated(job') /\ Ordered(job') /\ Referenced(job', blocker)
  <2>1. ChainsCreated(job')
      BY <1>4 DEF IInv, ChainsCreated
  <2>2. Ordered(job')
      BY <1>4 DEF IInv, Ordered
  <2>3. Referenced(job', blocker)
      BY <1>4 DEF IInv, Referenced
  <2> QED BY <2>1, <2>2, <2>3
<1>6. ASSUME NEW u \in Workers PROVE Sound(tx[u], job', blocker)
  <2>1. CASE u = s
    <3>1. tx[u] = NoTransaction
        BY <1>1, <2>1 DEF IInv, Sound, Stages
    <3> QED BY <1>1, <3>1, NoTransactionSound
  <2>2. CASE u # s
    <3>1. tx[u] \in Transaction /\ tx[u].lock[j] \in LockMode /\ Compatible(tx[u].lock[j], "update")
        BY <1>1, <2>2 DEF CanLock, IInv, Transaction
    <3>2. tx[u].lock[j] = "none"
        BY <3>1 DEF Compatible
    <3>3. Sound(tx[u], job, blocker) /\ ChainsCreated(job)
        BY DEF IInv
    <3>4. tx[u].created # NULL =>
            tx[u].created \in JobIds /\ job[tx[u].created].status = "absent"
        BY <3>1, <3>3 DEF Sound, Creation, Transaction
    <3>5. tx[u].created # NULL => job'[tx[u].created].status = "absent"
        BY <1>4, <3>4
    <3>6. \A k \in JobIds :
            Exists(job, k) /\ tx[u].lock[k] \in {"noKey", "update"} => job'[k] = job[k]
        BY <1>3, <3>2
    <3> QED BY <1>1, <1>4, <3>3, <3>5, <3>6, Undisturbed
  <2> QED BY <2>1, <2>2
<1> QED BY <1>1, <1>3, <1>5, <1>6 DEF IInv

(* What a commit writes.                                                   *)
LEMMA Committed ==
  ASSUME IInv, NEW s \in Workers, Commit(s), NEW j \in JobIds
  PROVE  LET t == tx[s]
         IN  /\ t.own[j] = NULL => job'[j] = job[j]
             /\ t.own[j] # NULL => job'[j] = t.own[j]
             /\ j = t.created =>
                  /\ job[j].status = "absent" /\ Exists(job', j)
                  /\ t.own[j] # NULL /\ ~Deleted(t, j)
             /\ j # t.created /\ t.own[j] # NULL =>
                  /\ Exists(job, j) /\ t.lock[j] \in {"noKey", "update"}
                  /\ job'[j].status # "absent"
                  /\ Deleted(t, j) => t.lock[j] = "update" /\ ~Exists(job', j)
                  /\ ~Deleted(t, j) =>
                       /\ Exists(job', j) /\ job[j].status # "completed"
                       /\ job'[j].chain = job[j].chain /\ job'[j].index = job[j].index
<1> DEFINE t == tx[s]
<1>1. job'[j] = IF t.own[j] # NULL THEN t.own[j] ELSE job[j]
    BY DEF Commit, Tables
<1>2. Writes(t, job) /\ Creation(t, job) /\ Stages(t)
    BY DEF IInv, Sound
<1>3. j = t.created =>
        /\ job[j].status = "absent" /\ Exists(job', j)
        /\ t.own[j] # NULL /\ ~Deleted(t, j)
    BY <1>1, <1>2, NullIsNoId DEF Creation, Exists, Deleted
<1>4. j # t.created /\ t.own[j] # NULL =>
        /\ Exists(job, j) /\ t.lock[j] \in {"noKey", "update"}
        /\ job'[j].status # "absent"
        /\ Deleted(t, j) => t.lock[j] = "update" /\ ~Exists(job', j)
        /\ ~Deleted(t, j) =>
             /\ Exists(job', j) /\ job[j].status # "completed"
             /\ job'[j].chain = job[j].chain /\ job'[j].index = job[j].index
    BY <1>1, <1>2 DEF Writes, Deleted, Exists
<1> QED BY <1>1, <1>3, <1>4

(* The row a commit adds is a root, or follows a job it completes.         *)
LEMMA CommittedCreation ==
  ASSUME IInv, NEW s \in Workers, Commit(s), tx[s].created # NULL
  PROVE  LET q == tx[s].created
             j == tx[s].subject
         IN  /\ q \in JobIds /\ job[q].status = "absent"
             /\ \/ job'[q].chain = q
                \/ /\ j \in JobIds /\ j # q
                   /\ Exists(job, j) /\ job[j].status # "completed"
                   /\ job'[j].status = "completed"
                   /\ job'[q].chain = job[j].chain /\ job'[q].index = job[j].index + 1
<1> DEFINE q == tx[s].created
           j == tx[s].subject
<1>1. /\ tx[s] \in Transaction /\ Creation(tx[s], job) /\ SubjectHeld(tx[s], job)
    BY DEF IInv, Sound
<1>2. q \in JobIds /\ job[q].status = "absent" /\ tx[s].own[q] # NULL
    BY <1>1 DEF Creation, Transaction
<1>3. job'[q] = tx[s].own[q]
    BY <1>2, Committed
<1>4. CASE tx[s].own[q].chain = q
    BY <1>2, <1>3, <1>4
<1>5. CASE tx[s].own[q].chain # q
  <2>1. /\ j # NULL /\ tx[s].own[j] # NULL /\ tx[s].own[j].status = "completed"
        /\ tx[s].own[q].chain = job[j].chain /\ tx[s].own[q].index = job[j].index + 1
      BY <1>1, <1>5 DEF Creation
  <2>2. j \in JobIds /\ Exists(job, j) /\ job[j].status # "completed"
      BY <1>1, <2>1 DEF SubjectHeld, Transaction
  <2>3. job'[j] = tx[s].own[j] /\ j # q
      BY <1>2, <2>1, <2>2, Committed DEF Exists
  <2> QED BY <1>2, <1>3, <2>1, <2>2, <2>3
<1> QED BY <1>4, <1>5

(* A row that was there before a commit and is there after it.             *)
LEMMA CommittedRow ==
  ASSUME IInv, NEW s \in Workers, Commit(s), NEW j \in JobIds
  PROVE  /\ job[j].status # "absent" => job'[j].status # "absent"
         /\ Exists(job', j) /\ j # tx[s].created =>
              /\ Exists(job, j)
              /\ job'[j].chain = job[j].chain /\ job'[j].index = job[j].index
              /\ job[j].status = "completed" => job'[j] = job[j]
         /\ j = tx[s].created => job[j].status = "absent"
         /\ job[j].status # "absent" /\ ~Exists(job, j) => ~Exists(job', j)
BY Committed DEF Exists

LEMMA CommitChains ==
  ASSUME IInv, NEW s \in Workers, Commit(s)
  PROVE  ChainsCreated(job')
<1> SUFFICES ASSUME NEW j \in JobIds, Exists(job', j)
             PROVE  job'[j].chain \in JobIds /\ job'[job'[j].chain].status # "absent"
    BY DEF ChainsCreated
<1>1. \A k \in JobIds :
        Exists(job, k) => job[k].chain \in JobIds /\ job'[job[k].chain].status # "absent"
    BY CommittedRow DEF IInv, ChainsCreated
<1>2. CASE j # tx[s].created
    BY <1>1, <1>2, CommittedRow
<1>3. CASE j = tx[s].created
  <2>1. tx[s].created # NULL
      BY <1>3, NullIsNoId
  <2>2. CASE job'[j].chain = j
      BY <2>2 DEF Exists
  <2>3. CASE job'[j].chain # j
      BY <1>1, <1>3, <2>1, <2>3, CommittedCreation
  <2> QED BY <2>2, <2>3
<1> QED BY <1>2, <1>3

LEMMA CommitOrdered ==
  ASSUME IInv, NEW s \in Workers, Commit(s)
  PROVE  Ordered(job')
<1> DEFINE q == tx[s].created
           i == tx[s].subject
<1>0. ChainsCreated(job) /\ Ordered(job) /\ \A k \in JobIds : job[k].index \in Nat
    BY DEF IInv, Job
<1> SUFFICES ASSUME NEW j \in JobIds, NEW k \in JobIds, j # k,
                    Exists(job', j), Exists(job', k), job'[j].chain = job'[k].chain,
                    job'[j].index <= job'[k].index
             PROVE  job'[j].index < job'[k].index /\ job'[j].status = "completed"
    BY DEF Ordered
<1>1. ASSUME q # NULL, NEW m \in JobIds, m # q, Exists(job', m), job'[m].chain = job'[q].chain
      PROVE  /\ Exists(job, m) /\ job'[m].index = job[m].index
             /\ i \in JobIds /\ Exists(job, i) /\ job[i].status # "completed"
             /\ job'[i].status = "completed"
             /\ job[m].chain = job[i].chain /\ job'[q].index = job[i].index + 1
  <2>1. Exists(job, m) /\ job'[m].chain = job[m].chain /\ job'[m].index = job[m].index
      BY <1>1, CommittedRow
  <2>2. job'[q].chain # q
      BY <1>0, <1>1, <2>1, CommittedCreation DEF ChainsCreated
  <2> QED BY <1>1, <2>1, <2>2, CommittedCreation
<1>2. CASE j # q /\ k # q
  <2>1. /\ Exists(job, j) /\ job'[j].chain = job[j].chain /\ job'[j].index = job[j].index
        /\ Exists(job, k) /\ job'[k].chain = job[k].chain /\ job'[k].index = job[k].index
        /\ job[j].status = "completed" => job'[j] = job[j]
      BY <1>2, CommittedRow
  <2>2. job[j].index < job[k].index /\ job[j].status = "completed"
      BY <1>0, <2>1 DEF Ordered
  <2> QED BY <2>1, <2>2
<1>3. CASE j = q
  <2>1. /\ Exists(job, k) /\ job'[k].index = job[k].index
        /\ i \in JobIds /\ Exists(job, i) /\ job[i].status # "completed"
        /\ job[k].chain = job[i].chain /\ job'[j].index = job[i].index + 1
      BY <1>1, <1>3, NullIsNoId
  <2>2. job[i].index + 1 <= job[k].index
      BY <2>1
  <2>3. k # i /\ job[i].index <= job[k].index
      BY <1>0, <2>1, <2>2
  <2> QED BY <1>0, <2>1, <2>3 DEF Ordered
<1>4. CASE k = q
  <2>1. /\ Exists(job, j) /\ job'[j].index = job[j].index
        /\ i \in JobIds /\ Exists(job, i) /\ job[i].status # "completed"
        /\ job'[i].status = "completed"
        /\ job[j].chain = job[i].chain /\ job'[k].index = job[i].index + 1
      BY <1>1, <1>4, NullIsNoId
  <2>2. CASE j = i
      BY <1>0, <2>1, <2>2
  <2>3. CASE j # i
    <3>1. ~(job[i].index <= job[j].index)
        BY <1>0, <2>1, <2>3 DEF Ordered
    <3>2. job[j].index < job[i].index /\ job[j].index < job[i].index + 1
        BY <1>0, <2>1, <3>1
    <3>3. job[j].status = "completed"
        BY <1>0, <2>1, <2>3, <3>2 DEF Ordered
    <3>4. job'[j].status = "completed"
        BY <1>4, <3>3, CommittedRow
    <3> QED BY <2>1, <3>2, <3>4
  <2> QED BY <2>2, <2>3
<1> QED BY <1>2, <1>3, <1>4

LEMMA CommitReferenced ==
  ASSUME IInv, NEW s \in Workers, Commit(s)
  PROVE  Referenced(job', blocker')
<1> DEFINE t == tx[s]
<1>1. /\ t \in Transaction /\ Stages(t) /\ Deletion(t, job, blocker) /\ References(t, job)
      /\ Referenced(job, blocker)
    BY DEF IInv, Sound
<1>2. /\ blocker' \subseteq blocker \cup t.refs
      /\ \A ref \in blocker' : Exists(job', ref[1])
    BY DEF Commit, Refs, Exists
<1>3. blocker' \subseteq JobIds \X JobIds
    BY <1>1, <1>2 DEF Referenced, Transaction
<1>4. ASSUME NEW ref \in blocker' PROVE Exists(job', ref[2])
  <2>1. ref[1] \in JobIds /\ ref[2] \in JobIds /\ Exists(job', ref[1])
      BY <1>2, <1>3
  <2>2. Exists(job, ref[2])
      BY <1>1, <1>2 DEF Referenced, References
  <2>3. ~Deleted(t, ref[2])
    <3>1. CASE ref \in blocker
      <4>1. Deleted(t, ref[2]) => Deleted(t, ref[1])
          BY <1>1, <3>1 DEF Deletion
      <4>2. ~Deleted(t, ref[1])
          BY <2>1, Committed DEF Deleted
      <4> QED BY <4>1, <4>2
    <3>2. CASE ref \in t.refs
        BY <1>1, <2>1, <3>2 DEF References, Stages
    <3> QED BY <1>2, <3>1, <3>2
  <2> QED BY <2>1, <2>2, <2>3, Committed DEF Exists
<1> QED BY <1>2, <1>3, <1>4 DEF Referenced

LEMMA CommitStep ==
  ASSUME IInv, NEW s \in Workers, Commit(s)
  PROVE  IInv'
<1> DEFINE t == tx[s]
<1>0. t \in Transaction /\ Sound(t, job, blocker)
    BY DEF IInv
<1>1. job' \in [JobIds -> Job] /\ attempt' \in [Workers -> JobIds \cup {NULL}]
    BY <1>0, OwnTables DEF Commit, IInv, Transaction
<1>2. /\ tx' \in [Workers -> Transaction] /\ tx'[s] = NoTransaction
      /\ \A u \in Workers : u # s => tx'[u] = tx[u]
    BY NoTransactionTyped DEF Commit, IInv
<1>3. ChainsCreated(job') /\ Ordered(job') /\ Referenced(job', blocker')
    BY CommitChains, CommitOrdered, CommitReferenced
<1>4. blocker' \in SUBSET (JobIds \X JobIds)
    BY <1>3 DEF Referenced
<1>5. ASSUME NEW u \in Workers, u # s PROVE Sound(tx[u], job', blocker')
  <2>1. /\ Sound(tx[u], job, blocker) /\ ChainsCreated(job) /\ Apart(t, tx[u])
        /\ tx[u] \in Transaction /\ Creation(tx[u], job)
      BY <1>5 DEF IInv, Sound
  <2>2. ASSUME NEW j \in JobIds, Exists(job, j), tx[u].lock[j] \in {"noKey", "update"}
        PROVE  job'[j] = job[j]
    <3>1. Compatible(t.lock[j], tx[u].lock[j])
        BY <2>1 DEF Apart
    <3>2. t.lock[j] \notin {"noKey", "update"}
        BY <2>2, <3>1 DEF Compatible
    <3>3. j # t.created
        BY <2>2, Committed DEF Exists
    <3> QED BY <3>2, <3>3, Committed
  <2>3. ASSUME tx[u].created # NULL PROVE job'[tx[u].created].status = "absent"
    <3>1. /\ tx[u].created \in JobIds /\ job[tx[u].created].status = "absent"
          /\ t.own[tx[u].created] = NULL
        BY <2>1, <2>3 DEF Creation, Apart, Transaction
    <3> QED BY <3>1, Committed
  <2>4. \A j \in JobIds : job[j].status # "absent" => job'[j].status # "absent"
      BY CommittedRow
  <2>5. \A j \in JobIds : Exists(job', j) /\ job[j].status # "absent" =>
          Exists(job, j) /\ job'[j].chain = job[j].chain
      BY CommittedRow
  <2>6. ASSUME NEW ref \in blocker', ref \notin blocker PROVE ~Deleted(tx[u], ref[2])
    <3>1. ref \in t.refs
        BY <2>6 DEF Commit, Refs
    <3>2. ref[2] \in JobIds /\ Exists(job, ref[2]) /\ t.lock[ref[2]] # "none"
        BY <1>0, <3>1 DEF Sound, References, Transaction
    <3>3. Compatible(t.lock[ref[2]], tx[u].lock[ref[2]])
        BY <2>1, <3>2 DEF Apart
    <3>4. tx[u].lock[ref[2]] # "update"
        BY <3>2, <3>3 DEF Compatible
    <3>5. ref[2] # tx[u].created
        BY <2>1, <3>2, NullIsNoId DEF Creation, Exists
    <3> QED BY <2>1, <3>2, <3>4, <3>5 DEF Sound, Writes, Deleted
  <2>7. ASSUME NEW j \in JobIds, Exists(job, j), tx[u].lock[j] # "none" PROVE Exists(job', j)
    <3>1. Compatible(t.lock[j], tx[u].lock[j])
        BY <2>1 DEF Apart
    <3>2. t.lock[j] # "update"
        BY <2>7, <3>1 DEF Compatible
    <3> QED BY <2>7, <3>2, Committed DEF Exists
  <2> QED BY <1>4, <2>1, <2>2, <2>3, <2>4, <2>5, <2>6, <2>7, Undisturbed
<1>6. \A u \in Workers : Sound(tx'[u], job', blocker')
    BY <1>2, <1>4, <1>5, NoTransactionSound
<1>7. ASSUME NEW u \in Workers, NEW w \in Workers, u # w PROVE Apart(tx'[u], tx'[w])
  <2>1. \A v \in Transaction : Apart(NoTransaction, v) /\ Apart(v, NoTransaction)
      BY NoTransactionTyped, CompatibleSym DEF Apart
  <2>2. CASE u = s \/ w = s
      BY <1>2, <2>1, <2>2
  <2>3. CASE u # s /\ w # s
      BY <1>2, <1>7, <2>3 DEF IInv
  <2> QED BY <2>2, <2>3
<1> QED BY <1>1, <1>2, <1>3, <1>6, <1>7 DEF IInv

-----------------------------------------------------------------------------
LEMMA InitInv == Init => IInv
<1> SUFFICES ASSUME Init PROVE IInv
    OBVIOUS
<1>1. job = [j \in JobIds |-> NoJob] /\ blocker = {} /\ attempt = [s \in Workers |-> NULL]
      /\ tx = [s \in Workers |-> NoTransaction]
    BY DEF Init
<1>2. NoJob \in Job /\ \A j \in JobIds : ~Exists(job, j)
    BY <1>1 DEF NoJob, Job, JobStatus, Exists
<1>3. job \in [JobIds -> Job] /\ attempt \in [Workers -> JobIds \cup {NULL}]
      /\ tx \in [Workers -> Transaction]
    BY <1>1, <1>2, NoTransactionTyped
<1>4. ChainsCreated(job) /\ Ordered(job) /\ Referenced(job, blocker)
    BY <1>1, <1>2 DEF ChainsCreated, Ordered, Referenced
<1>5. \A s \in Workers : Sound(tx[s], job, blocker)
    BY <1>1, NoTransactionSound
<1>6. \A s, u \in Workers : s # u => Apart(tx[s], tx[u])
    BY <1>1, NoTransactionTyped
<1> QED BY <1>3, <1>4, <1>5, <1>6 DEF IInv

LEMMA NextInv == IInv /\ [Next]_vars => IInv'
<1> SUFFICES ASSUME IInv, [Next]_vars PROVE IInv'
    OBVIOUS
<1>1. CASE UNCHANGED vars
    BY <1>1 DEF vars, IInv
<1>2. ASSUME NEW s \in Workers, NEW q \in JobIds, NEW B \in BlockerSets,
             StartChain(s, q, B) \/ ContinueWith(s, q, B)
      PROVE  IInv'
    BY <1>2, StartChainStep, ContinueWithStep
<1>3. ASSUME NEW s \in Workers, NEW j \in JobIds, LockChain(s, j) \/ Acquire(s, j) \/ Reap(s, j)
      PROVE  IInv'
    BY <1>3, LockChainStep, AcquireStep, ReapStep
<1>4. ASSUME NEW s \in Workers, NEW C \in SUBSET Roots(job), NEW cascade \in BOOLEAN,
             DeleteChains(s, C, cascade)
      PROVE  IInv'
  <2>1. C \in SUBSET JobIds
      BY DEF Roots
  <2> QED BY <1>4, <2>1, DeleteChainsStep
<1>5. ASSUME NEW s \in Workers,
             \/ AddJobsBlockers(s) \/ ChainLocked(s) \/ RefetchJobLocked(s) \/ EndAttempt(s)
             \/ RenewLease(s) \/ Reschedule(s) \/ FinishChain(s) \/ Unblock(s)
             \/ DeleteLocked(s) \/ Commit(s) \/ Rollback(s)
      PROVE  IInv'
    BY <1>5, AddJobsBlockersStep, ChainLockedStep, RefetchJobLockedStep, EndAttemptStep,
       RenewLeaseStep, RescheduleStep, FinishChainStep, UnblockStep, DeleteLockedStep,
       CommitStep, RollbackStep
<1> QED BY <1>1, <1>2, <1>3, <1>4, <1>5 DEF Next

LEMMA Invariant == Spec => []IInv
BY InitInv, NextInv, PTL DEF Spec

(* The jobs of a chain have different indices and all but its last are     *)
(* complete, whatever workers and clients do to it at the same time: the   *)
(* row locks and the checks behind them serialise the writers of a chain.  *)
THEOREM WritersOfChainsSerial == Spec => []ChainsInOrder
<1>1. IInv => ChainsInOrder
    BY DEF IInv, Ordered, ChainsInOrder
<1> QED BY <1>1, Invariant, PTL

(* No blocker row refers to a job that is gone, although a deletion looks  *)
(* for references in an old snapshot: the foreign keys lock what they      *)
(* refer to, and refuse what was committed since.                          *)
THEOREM ReferencesKept == Spec => []ReferencesExist
<1>1. IInv => ReferencesExist
    BY DEF IInv, Referenced, ReferencesExist
<1> QED BY <1>1, Invariant, PTL

(* A commit does not open a completed chain again.                         *)
LEMMA CommitKeepsCompleted ==
  ASSUME IInv, NEW s \in Workers, Commit(s), NEW c \in Roots(job), ChainComplete(job, c),
         c \in Roots(job')
  PROVE  ChainComplete(job', c)
<1> DEFINE t == tx[s]
<1>0. /\ Ordered(job) /\ Deletion(t, job, blocker) /\ c \in JobIds
      /\ \A k \in JobIds : job[k].index \in Nat
    BY DEF IInv, Sound, Roots, Job
<1>1. PICK j \in JobIds :
        /\ Exists(job, j) /\ job[j].chain = c /\ job[j].status = "completed"
        /\ \A k \in JobIds : Exists(job, k) /\ job[k].chain = c => job[k].index <= job[j].index
    BY DEF ChainComplete, ChainJobs, IsLastInChain
<1>2. ~Deleted(t, j)
  <2>1. Deleted(t, j) => Deleted(t, c)
      BY <1>0, <1>1 DEF Deletion
  <2>2. ~Deleted(t, c)
      BY <1>0, Committed DEF Deleted, Roots
  <2> QED BY <2>1, <2>2
<1>3. job'[j] = job[j] /\ Exists(job', j)
  <2>1. j # t.created
      BY <1>1, Committed DEF Exists
  <2>2. t.own[j] = NULL
      BY <1>1, <1>2, <2>1, Committed
  <2> QED BY <1>1, <2>2, Committed DEF Exists
<1>4. ASSUME NEW k \in JobIds, Exists(job', k), job'[k].chain = c
      PROVE  job'[k].index <= job[j].index
  <2>1. CASE k # t.created
      BY <1>1, <1>4, <2>1, CommittedRow
  <2>2. CASE k = t.created
    <3> DEFINE i == t.subject
    <3>1. /\ i \in JobIds /\ Exists(job, i) /\ job[i].status # "completed" /\ job[i].chain = c
      <4>1. k # NULL /\ job[k].status = "absent" /\ c # k
          BY <2>2, NullIsNoId, CommittedRow DEF Roots, Exists
      <4> QED BY <1>4, <2>2, <4>1, CommittedCreation
    <3>2. i # j /\ job[i].index <= job[j].index
        BY <1>1, <3>1
    <3> QED BY <1>0, <1>1, <3>1, <3>2 DEF Ordered
  <2> QED BY <2>1, <2>2
<1> QED BY <1>1, <1>3, <1>4 DEF ChainComplete, ChainJobs, IsLastInChain

LEMMA ReapKeepsCompleted ==
  ASSUME IInv, NEW s \in Workers, NEW q \in JobIds, Reap(s, q),
         NEW c \in Roots(job), ChainComplete(job, c)
  PROVE  ChainComplete(job', c)
<1>1. PICK j \in JobIds :
        /\ Exists(job, j) /\ job[j].chain = c /\ job[j].status = "completed"
        /\ \A k \in JobIds : Exists(job, k) /\ job[k].chain = c => job[k].index <= job[j].index
    BY DEF ChainComplete, ChainJobs, IsLastInChain
<1>2. /\ job[q].status = "running" /\ job \in [JobIds -> Job]
      /\ job' = [job EXCEPT ![q] = [job[q] EXCEPT !.leasedBy = NULL, !.lease = "none",
                                                  !.status = "pending"]]
    BY DEF Reap, IInv, ReapJobLease
<1>3. job'[j] = job[j]
    BY <1>1, <1>2
<1>4. \A k \in JobIds :
        /\ job'[k].chain = job[k].chain /\ job'[k].index = job[k].index
        /\ Exists(job', k) => Exists(job, k)
    BY <1>2 DEF Job, Exists
<1>5. Exists(job', j) /\ job'[j].status = "completed" /\ job'[j].chain = c
    BY <1>1, <1>3 DEF Exists
<1> QED BY <1>1, <1>3, <1>4, <1>5 DEF ChainComplete, ChainJobs, IsLastInChain

(* A completed chain stays complete until it is deleted, also when a       *)
(* client and a worker complete and continue it at the same time.          *)
THEOREM CompletedChainsKept == Spec => CompletedChainsStay
<1> DEFINE Kept == \A c \in Roots(job) : ChainComplete(job, c) =>
                     c \notin Roots(job)' \/ ChainComplete(job, c)'
<1>1. IInv /\ [Next]_vars => [Kept]_vars
  <2> SUFFICES ASSUME IInv, Next, NEW c \in Roots(job), ChainComplete(job, c), c \in Roots(job')
               PROVE  ChainComplete(job', c)
      BY DEF Roots, ChainComplete
  <2>1. CASE job' = job
      BY <2>1
  <2>2. ASSUME NEW s \in Workers, Commit(s) PROVE ChainComplete(job', c)
      BY <2>2, CommitKeepsCompleted
  <2>3. ASSUME NEW s \in Workers, NEW j \in JobIds, Reap(s, j) PROVE ChainComplete(job', c)
      BY <2>3, ReapKeepsCompleted
  <2>4. \/ job' = job
        \/ \E s \in Workers : Commit(s)
        \/ \E s \in Workers, j \in JobIds : Reap(s, j)
    <3>1. ASSUME NEW s \in Workers
          PROVE  /\ \A q \in JobIds, B \in BlockerSets :
                      StartChain(s, q, B) \/ ContinueWith(s, q, B) => job' = job
                 /\ \A j \in JobIds : LockChain(s, j) \/ Acquire(s, j) => job' = job
                 /\ \A C \in SUBSET Roots(job), cascade \in BOOLEAN :
                      DeleteChains(s, C, cascade) => job' = job
      <4>1. \A q \in JobIds, B \in BlockerSets : StartChain(s, q, B) => job' = job
          BY DEF StartChain
      <4>2. \A q \in JobIds, B \in BlockerSets : ContinueWith(s, q, B) => job' = job
          BY DEF ContinueWith
      <4>3. \A j \in JobIds : LockChain(s, j) \/ Acquire(s, j) => job' = job
          BY DEF LockChain, Acquire
      <4>4. \A C \in SUBSET Roots(job), cascade \in BOOLEAN :
              DeleteChains(s, C, cascade) => job' = job
          BY DEF DeleteChains
      <4> QED BY <4>1, <4>2, <4>3, <4>4
    <3>2. ASSUME NEW s \in Workers
          PROVE  \/ AddJobsBlockers(s) \/ ChainLocked(s) \/ RefetchJobLocked(s)
                 \/ EndAttempt(s) \/ RenewLease(s) \/ Reschedule(s) \/ FinishChain(s)
                 \/ Unblock(s) \/ DeleteLocked(s) \/ Rollback(s)
                 => job' = job
      <4>1. AddJobsBlockers(s) \/ ChainLocked(s) \/ RefetchJobLocked(s) => job' = job
          BY DEF AddJobsBlockers, ChainLocked, RefetchJobLocked
      <4>2. EndAttempt(s) \/ RenewLease(s) \/ Reschedule(s) => job' = job
          BY DEF EndAttempt, RenewLease, Reschedule
      <4>3. FinishChain(s) => job' = job
          BY DEF FinishChain
      <4>4. Unblock(s) => job' = job
          BY DEF Unblock
      <4>5. DeleteLocked(s) \/ Rollback(s) => job' = job
          BY DEF DeleteLocked, Rollback
      <4> QED BY <4>1, <4>2, <4>3, <4>4, <4>5
    <3> QED BY <3>1, <3>2 DEF Next
  <2> QED BY <2>1, <2>2, <2>3, <2>4
<1> QED BY <1>1, Invariant, PTL DEF Spec, CompletedChainsStay

-----------------------------------------------------------------------------
(***************************************************************************)
(* A job with one blocker is unblocked.  Two transactions matter to it:    *)
(* the one that creates it holds the open job of the chain that made it    *)
(* blocked until it commits, and the one that completes this chain holds   *)
(* that very job, so one of them comes after the other and knows of it.    *)
(***************************************************************************)

(* The version of a row that a transaction sees.                           *)
Row(t, js, j) == IF t.own[j] # NULL THEN t.own[j] ELSE js[j]

OpenRow(row) == row.status \notin {"absent", "deleted", "completed"}

(* A transaction blocks no job but the one it creates, and completes none  *)
(* but its subject, whose chain it may continue.                           *)
Versions(t) ==
  \A j \in JobIds : t.own[j] # NULL =>
    /\ t.own[j].status = "blocked" => j = t.created
    /\ t.own[j].status = "completed" =>
         j = t.subject /\ (t.created # NULL => t.own[t.created].chain = t.own[j].chain)

(* The jobs addJobsBlockers will lock belong to the chains it waits for.   *)
Targets(t, js) ==
  /\ t.pc \in {"handler", "commit"} => t.target = {}
  /\ t.pc = "addBlockers" =>
       /\ t.own[t.created].status = "pending"
       /\ \A j \in t.target :
            \/ j = t.created /\ t.own[j].chain \in t.waits
            \/ js[j].status # "absent" /\ (Exists(js, j) => js[j].chain \in t.waits)

(* A job that was created as blocked by one chain: the transaction holds   *)
(* an open job of this chain.                                              *)
Decision(t, js) ==
  t.created # NULL /\ t.own[t.created].status = "blocked" =>
    \A c \in JobIds : BlockersOf(t.refs, t.created) = {c} =>
      \E k \in JobIds :
        /\ OpenRow(Row(t, js, k)) /\ Row(t, js, k).chain = c
        /\ k = t.created \/ t.lock[k] = "update"

(* A transaction that has completed the last job of a chain unblocks, or   *)
(* is about to unblock, every job that this chain alone keeps blocked.     *)
Unblocks(t, js, bl) ==
  t.created = NULL /\ t.subject # NULL /\ t.own[t.subject] # NULL
  /\ t.own[t.subject].status = "completed" =>
    \A q \in JobIds :
      js[q].status = "blocked" /\ BlockersOf(bl, q) = {js[t.subject].chain} =>
        t.own[q] # NULL \/ q \in t.target

Outcome(t, js, bl) ==
  Versions(t) /\ Targets(t, js) /\ Decision(t, js) /\ Unblocks(t, js, bl)

(* Where the job that gave a chain its id exists, it is the chain's root.  *)
RootsOfChains(js) ==
  \A j \in JobIds :
    Exists(js, j) /\ Exists(js, js[j].chain) => js[js[j].chain].chain = js[j].chain

Open(js, k, c) == OpenRow(js[k]) /\ js[k].chain = c

(* SingleBlockerUnblocks, by the open job.                                 *)
Supported(js, bl) ==
  \A q, c \in JobIds :
    js[q].status = "blocked" /\ BlockersOf(bl, q) = {c} => \E k \in JobIds : Open(js, k, c)

UInv ==
  /\ IInv /\ RootsOfChains(job) /\ Supported(job, blocker)
  /\ \A s \in Workers : Outcome(tx[s], job, blocker)

-----------------------------------------------------------------------------
(* Two open jobs of one chain are one.                                     *)
LEMMA OneOpen ==
  ASSUME IInv, NEW j \in JobIds, NEW k \in JobIds, OpenRow(job[j]), OpenRow(job[k]),
         job[j].chain = job[k].chain
  PROVE  j = k
<1>1. Exists(job, j) /\ Exists(job, k) /\ job[j].status # "completed" /\ job[k].status # "completed"
    BY DEF Exists, OpenRow
<1>2. job[j].index \in Nat /\ job[k].index \in Nat
    BY DEF IInv, Job
<1>3. job[j].index <= job[k].index \/ job[k].index <= job[j].index
    BY <1>2
<1> QED BY <1>1, <1>3 DEF IInv, Ordered

LEMMA OutcomeStep ==
  ASSUME UInv, IInv', NEW s \in Workers, \A u \in Workers : u # s => tx'[u] = tx[u],
         UNCHANGED <<job, blocker>>, Outcome(tx'[s], job, blocker)
  PROVE  UInv'
<1>1. \A u \in Workers : Outcome(tx'[u], job, blocker)
    BY DEF UInv
<1> QED BY <1>1 DEF UInv

(* A transaction that has written nothing.                                 *)
LEMMA NothingWritten ==
  ASSUME NEW t \in Transaction, NEW js, NEW bl, \A j \in JobIds : t.own[j] = NULL,
         t.created = NULL, t.pc \in {"handler", "commit"} => t.target = {}, t.pc # "addBlockers"
  PROVE  Outcome(t, js, bl)
<1>1. t.subject # NULL => t.subject \in JobIds
    BY DEF Transaction
<1> QED BY <1>1 DEF Outcome, Versions, Targets, Decision, Unblocks

LEMMA NoTransactionOutcome ==
  ASSUME NEW js, NEW bl
  PROVE  Outcome(NoTransaction, js, bl)
<1>1. /\ NoTransaction.pc = "idle" /\ NoTransaction.created = NULL
      /\ \A j \in JobIds : NoTransaction.own[j] = NULL
    BY DEF NoTransaction
<1> QED BY <1>1, NothingWritten, NoTransactionTyped

LEMMA RollbackOutcome ==
  ASSUME UInv, NEW s \in Workers, Rollback(s)
  PROVE  UInv'
<1>1. /\ tx'[s] = NoTransaction /\ \A u \in Workers : u # s => tx'[u] = tx[u]
      /\ UNCHANGED <<job, blocker>>
    BY DEF Rollback, UInv, IInv
<1>2. IInv'
    BY RollbackStep DEF UInv
<1> QED BY <1>1, <1>2, NoTransactionOutcome, OutcomeStep

LEMMA LockChainOutcome ==
  ASSUME UInv, NEW s \in Workers, NEW c \in JobIds, LockChain(s, c)
  PROVE  UInv'
<1>1. IInv' /\ UNCHANGED <<job, blocker>> /\ tx[s] = NoTransaction
    BY LockChainStep DEF UInv, LockChain, At, IInv, Sound, Stages
<1>2. tx' = [tx EXCEPT ![s] = [NoTransaction EXCEPT !.pc = "lockChain", !.target = LastJobs(job, {c})]]
    BY <1>1 DEF LockChain, UInv, IInv
<1>3. /\ tx'[s].pc = "lockChain" /\ tx'[s].created = NULL /\ tx'[s].own = [j \in JobIds |-> NULL]
      /\ \A u \in Workers : u # s => tx'[u] = tx[u]
    BY <1>2 DEF NoTransaction, UInv, IInv
<1>4. Outcome(tx'[s], job, blocker)
    BY <1>1, <1>3, NothingWritten DEF IInv
<1> QED BY <1>1, <1>3, <1>4, OutcomeStep

LEMMA DeleteChainsOutcome ==
  ASSUME UInv, NEW s \in Workers, NEW C \in SUBSET JobIds, NEW cascade \in BOOLEAN,
         DeleteChains(s, C, cascade)
  PROVE  UInv'
<1> DEFINE E == IF cascade THEN ExpandChainIds(blocker, C) ELSE C
<1>1. IInv' /\ UNCHANGED <<job, blocker>> /\ tx[s] = NoTransaction
    BY DeleteChainsStep DEF UInv, DeleteChains, At, IInv, Sound, Stages
<1>2. tx' = [tx EXCEPT ![s].pc = "delete", ![s].target = InChains(job, E)]
    BY DEF DeleteChains
<1> HIDE DEF E
<1>3. tx' = [tx EXCEPT ![s] = [NoTransaction EXCEPT !.pc = "delete", !.target = InChains(job, E)]]
    BY <1>1, <1>2 DEF UInv, IInv
<1>4. /\ tx'[s].pc = "delete" /\ tx'[s].created = NULL /\ tx'[s].own = [j \in JobIds |-> NULL]
      /\ \A u \in Workers : u # s => tx'[u] = tx[u]
    BY <1>3 DEF NoTransaction, UInv, IInv
<1>5. Outcome(tx'[s], job, blocker)
    BY <1>1, <1>4, NothingWritten DEF IInv
<1> QED BY <1>1, <1>4, <1>5, OutcomeStep

LEMMA HandleOutcome ==
  ASSUME UInv, IInv', NEW s \in Workers, tx[s].pc \in {"idle", "lockChain"}, NEW j \in JobIds,
         tx' = [tx EXCEPT ![s] = Handle(@, j)], UNCHANGED <<job, blocker>>
  PROVE  UInv'
<1>1. tx[s] \in Transaction /\ tx[s].created = NULL /\ \A i \in JobIds : tx[s].own[i] = NULL
    BY DEF UInv, IInv, Sound, Stages, NoTransaction
<1>2. /\ tx'[s] = Handle(tx[s], j) /\ \A u \in Workers : u # s => tx'[u] = tx[u]
    BY DEF UInv, IInv
<1>3. /\ tx'[s].pc = "handler" /\ tx'[s].target = {} /\ tx'[s].created = NULL
      /\ tx'[s].own = tx[s].own /\ tx'[s] \in Transaction
    BY <1>1, <1>2 DEF Handle, Transaction, IInv
<1>4. Outcome(tx'[s], job, blocker)
    BY <1>1, <1>3, NothingWritten
<1> QED BY <1>2, <1>4, OutcomeStep

LEMMA ChainLockedOutcome ==
  ASSUME UInv, NEW s \in Workers, ChainLocked(s)
  PROVE  UInv'
<1>1. PICK j \in tx[s].target : tx' = [tx EXCEPT ![s] = Handle(@, j)]
    BY DEF ChainLocked
<1>2. j \in JobIds /\ tx[s].pc = "lockChain" /\ UNCHANGED <<job, blocker>>
    BY DEF ChainLocked, At, UInv, IInv, Transaction
<1>3. IInv'
    BY ChainLockedStep DEF UInv
<1> QED BY <1>1, <1>2, <1>3, HandleOutcome

LEMMA RefetchJobLockedOutcome ==
  ASSUME UInv, NEW s \in Workers, RefetchJobLocked(s)
  PROVE  UInv'
<1>1. /\ attempt[s] \in JobIds /\ tx[s].pc = "idle" /\ UNCHANGED <<job, blocker>>
      /\ tx' = [tx EXCEPT ![s] = Handle(@, attempt[s])]
    BY DEF RefetchJobLocked, At, UInv, IInv
<1>2. IInv'
    BY RefetchJobLockedStep DEF UInv
<1> QED BY <1>1, <1>2, HandleOutcome

(* A transaction that has not created a job writes its subject, without    *)
(* completing it.                                                          *)
LEMMA SubjectOutcome ==
  ASSUME NEW t \in Transaction, NEW v \in Transaction, NEW js, NEW bl,
         Versions(t), t.subject \in JobIds, v.subject = t.subject,
         v.own[t.subject].status \in {"pending", "running"},
         \A j \in JobIds : j # t.subject => v.own[j] = t.own[j], v.created = NULL, v.target = {}, v.pc \in {"handler", "commit"}, t.created = NULL
  PROVE  Outcome(v, js, bl)
<1>1. Versions(v)
    BY DEF Versions
<1>2. Targets(v, js) /\ Decision(v, js) /\ Unblocks(v, js, bl)
    BY DEF Targets, Decision, Unblocks
<1> QED BY <1>1, <1>2 DEF Outcome

LEMMA AcquireOutcome ==
  ASSUME UInv, NEW s \in Workers, NEW j \in JobIds, Acquire(s, j)
  PROVE  UInv'
<1> DEFINE t == Handle(tx[s], j)
           row == AcquireJob(job, j)[j]
           v == [t EXCEPT !.own[j] = row]
<1>1. tx[s].pc = "idle" /\ tx' = [tx EXCEPT ![s] = v] /\ UNCHANGED <<job, blocker>>
    BY DEF Acquire, At
<1>2. IInv'
    BY AcquireStep DEF UInv
<1>3. /\ tx[s] \in Transaction /\ tx[s].created = NULL /\ \A i \in JobIds : tx[s].own[i] = NULL
      /\ job \in [JobIds -> Job]
    BY <1>1 DEF UInv, IInv, Sound, Stages, NoTransaction
<1>4. row.status = "running"
    BY <1>3 DEF AcquireJob, Job
<1> HIDE DEF row
<1>5. /\ t.pc = "handler" /\ t.subject = j /\ t.created = NULL /\ t.target = {}
      /\ t.own = tx[s].own /\ t.lock = WithLocks(tx[s].lock, {j}, "update")
    BY <1>3 DEF Handle, Transaction
<1>6. t \in Transaction
  <2>1. WithLocks(tx[s].lock, {j}, "update") \in [JobIds -> LockMode]
      BY <1>3, LocksTaken DEF Transaction, LockMode
  <2> QED BY <1>3, <2>1 DEF Handle, Transaction
<1>7. Versions(t)
    BY <1>3, <1>5 DEF Versions
<1> HIDE DEF t
<1>8. /\ v.own[j] = row /\ \A i \in JobIds : i # j => v.own[i] = t.own[i]
      /\ v.subject = j /\ v.created = NULL /\ v.target = {} /\ v.pc = "handler"
    BY <1>5, <1>6 DEF Transaction
<1>9. tx'[s] = v /\ tx'[s] \in Transaction /\ \A u \in Workers : u # s => tx'[u] = tx[u]
    BY <1>1, <1>2 DEF UInv, IInv
<1> HIDE DEF v
<1>10. Outcome(tx'[s], job, blocker)
    BY <1>4, <1>5, <1>6, <1>7, <1>8, <1>9, SubjectOutcome
<1> QED BY <1>1, <1>2, <1>9, <1>10, OutcomeStep

(* The subject of a handler is written, and the transaction goes on to v.  *)
LEMMA HandlerOutcome ==
  ASSUME UInv, IInv', NEW s \in Workers, At(s, "handler"), NEW v \in Transaction,
         v.own[tx[s].subject].status \in {"pending", "running"},
         \A j \in JobIds : j # tx[s].subject => v.own[j] = tx[s].own[j],
         v.subject = tx[s].subject,
         v.created = tx[s].created, v.target = tx[s].target, v.pc = "commit",
         tx' = [tx EXCEPT ![s] = v], UNCHANGED <<job, blocker>>
  PROVE  UInv'
<1>1. /\ tx[s] \in Transaction /\ tx[s].subject \in JobIds /\ tx[s].created = NULL
      /\ tx[s].target = {} /\ Versions(tx[s])
    BY SubjectRow DEF UInv, IInv, Outcome, Targets, At
<1>2. tx'[s] = v /\ tx'[s] \in Transaction /\ \A u \in Workers : u # s => tx'[u] = tx[u]
    BY DEF UInv, IInv
<1>3. Outcome(tx'[s], job, blocker)
    BY <1>1, <1>2, SubjectOutcome
<1> QED BY <1>2, <1>3, OutcomeStep

LEMMA RenewLeaseOutcome ==
  ASSUME UInv, NEW s \in Workers, RenewLease(s)
  PROVE  UInv'
<1> DEFINE t == tx[s]
           j == t.subject
           row == RenewJobLease(Tables(s), j, s)[j]
           v == [t EXCEPT !.pc = "commit", !.keep = j, !.own[j] = row]
<1>1. At(s, "handler") /\ t \in Transaction /\ tx \in [Workers -> Transaction] /\ IInv'
    BY RenewLeaseStep DEF RenewLease, UInv, IInv
<1>2. j \in JobIds /\ Tables(s)[j] \in Job /\ Tables(s) \in [JobIds -> Job]
    BY <1>1, SubjectRow, OwnTables DEF UInv
<1>3. row.status = "running"
    BY <1>2 DEF RenewJobLease, Job
<1>4. tx' = [tx EXCEPT ![s] = v] /\ UNCHANGED <<job, blocker>>
    BY <1>1 DEF RenewLease, Transaction
<1> HIDE DEF row, j
<1>5. /\ v.own[j] = row /\ \A i \in JobIds : i # j => v.own[i] = t.own[i]
      /\ v.subject = t.subject /\ v.created = t.created /\ v.target = t.target /\ v.pc = "commit"
    BY <1>1, <1>2 DEF Transaction
<1> HIDE DEF v
<1>6. v \in Transaction
    BY <1>1, <1>4 DEF UInv, IInv
<1> QED BY <1>1, <1>3, <1>4, <1>5, <1>6, HandlerOutcome DEF j

LEMMA RescheduleOutcome ==
  ASSUME UInv, NEW s \in Workers, Reschedule(s)
  PROVE  UInv'
<1> DEFINE t == tx[s]
           j == t.subject
           row == RescheduleJob(Tables(s), j, TRUE)[j]
           v == [t EXCEPT !.pc = "commit", !.own[j] = row]
<1>1. At(s, "handler") /\ t \in Transaction /\ tx \in [Workers -> Transaction] /\ IInv'
    BY RescheduleStep DEF Reschedule, UInv, IInv
<1>2. j \in JobIds /\ Tables(s)[j] \in Job /\ Tables(s) \in [JobIds -> Job]
    BY <1>1, SubjectRow, OwnTables DEF UInv
<1>3. row.status = "pending"
    BY <1>2 DEF RescheduleJob, Job
<1>4. tx' = [tx EXCEPT ![s] = v] /\ UNCHANGED <<job, blocker>>
    BY <1>1 DEF Reschedule, Transaction
<1> HIDE DEF row, j
<1>5. /\ v.own[j] = row /\ \A i \in JobIds : i # j => v.own[i] = t.own[i]
      /\ v.subject = t.subject /\ v.created = t.created /\ v.target = t.target /\ v.pc = "commit"
    BY <1>1, <1>2 DEF Transaction
<1> HIDE DEF v
<1>6. v \in Transaction
    BY <1>1, <1>4 DEF UInv, IInv
<1> QED BY <1>1, <1>3, <1>4, <1>5, <1>6, HandlerOutcome DEF j

(* The job a handler completes is the last of its chain, which is then     *)
(* complete.                                                               *)
LEMMA SubjectIsLast ==
  ASSUME IInv, NEW s \in Workers, At(s, "handler")
  PROVE  LET j == tx[s].subject
             js == CompleteJob(Tables(s), j)
         IN  ChainComplete(js, job[j].chain)
<1> DEFINE j == tx[s].subject
           js == CompleteJob(Tables(s), j)
           c == job[j].chain
<1>1. /\ j \in JobIds /\ Exists(job, j) /\ tx[s].created = NULL
      /\ job[j].status # "completed" /\ \A k \in JobIds : ~Deleted(tx[s], k)
    BY SubjectRow DEF IInv, Sound, Stages, SubjectHeld, At
<1>2. /\ js \in [JobIds -> Job] /\ js[j].status = "completed"
      /\ js[j].chain = c /\ js[j].index = job[j].index
    BY CompletedRow
<1>3. \A k \in JobIds : k # j => js[k] = Tables(s)[k]
    BY <1>1, OwnTables DEF CompleteJob
<1> HIDE DEF js
<1>4. ASSUME NEW k \in JobIds, Exists(js, k), js[k].chain = c
      PROVE  js[k].index <= js[j].index
  <2>1. CASE k = j
      BY <1>2, <2>1 DEF Job
  <2>2. CASE k # j
    <3>1. Exists(job, k) /\ job[k].chain = c /\ job[k].index = js[k].index
        BY <1>1, <1>3, <1>4, <2>2, OwnTables, NullIsNoId DEF Exists
    <3>2. ~(job[j].index <= job[k].index)
        BY <1>1, <2>2, <3>1 DEF IInv, Ordered
    <3>3. job[j].index \in Nat /\ job[k].index \in Nat
        BY <1>1 DEF IInv, Job
    <3> QED BY <1>2, <3>1, <3>2, <3>3
  <2> QED BY <2>1, <2>2
<1>5. Exists(js, j)
    BY <1>2 DEF Exists
<1> QED BY <1>1, <1>2, <1>4, <1>5 DEF ChainComplete, ChainJobs, IsLastInChain, js

LEMMA FinishChainOutcome ==
  ASSUME UInv, NEW s \in Workers, FinishChain(s)
  PROVE  UInv'
<1> DEFINE t == tx[s]
           j == t.subject
           js == CompleteJob(Tables(s), j)
           c == job[j].chain
           waiting == {q \in JobIds :
                         UnblockJobs(js, Refs(s), js[j].chain)[q].status # js[q].status}
           v == [t EXCEPT !.pc = "unblock", !.own[j] = js[j], !.target = waiting]
<1>0. IInv /\ IInv' /\ Outcome(t, job, blocker)
    BY FinishChainStep DEF UInv
<1>1. /\ At(s, "handler")
      /\ tx' = [tx EXCEPT ![s].pc = "unblock", ![s].own[j] = js[j], ![s].target = waiting]
      /\ UNCHANGED <<job, blocker>>
  <2> HIDE DEF js
  <2> QED BY DEF FinishChain, js
<1>2. /\ j \in JobIds /\ t.created = NULL /\ t.refs = {} /\ Versions(t) /\ t \in Transaction
      /\ Tables(s) \in [JobIds -> Job] /\ Referenced(job, blocker)
  <2>1. t \in Transaction /\ Referenced(job, blocker)
      BY <1>0 DEF IInv
  <2>2. j \in JobIds /\ t.created = NULL /\ t.refs = {}
      BY <1>0, <1>1, SubjectRow
  <2>3. Tables(s) \in [JobIds -> Job]
      BY <1>0, OwnTables
  <2> QED BY <1>0, <2>1, <2>2, <2>3 DEF Outcome
<1>3. /\ js \in [JobIds -> Job] /\ js[j].status = "completed" /\ js[j].chain = c
      /\ ChainComplete(js, c)
    BY <1>0, <1>1, CompletedRow, SubjectIsLast
<1>4. \A q \in JobIds : q # j => js[q] = Tables(s)[q]
    BY <1>2 DEF CompleteJob
<1>5. Refs(s) = blocker
    BY <1>2 DEF Refs
<1> HIDE DEF js
<1>6. ASSUME NEW q \in JobIds, job[q].status = "blocked", BlockersOf(blocker, q) = {c},
             q # j, t.own[q] = NULL
      PROVE  q \in waiting
  <2>1. js[q].status = "blocked" /\ js[q] \in Job
      BY <1>3, <1>4, <1>6 DEF Tables
  <2>2. <<q, c>> \in blocker
      BY <1>6 DEF BlockersOf
  <2>3. Incomplete(js, BlockersOf(blocker, q)) = {}
      BY <1>3, <1>6 DEF Incomplete
  <2>4. UnblockJobs(js, Refs(s), c)[q] = [js[q] EXCEPT !.status = "pending"]
      BY <1>5, <2>1, <2>2, <2>3 DEF UnblockJobs
  <2>5. UnblockJobs(js, Refs(s), js[j].chain)[q].status = "pending"
      BY <1>3, <2>1, <2>4 DEF Job
  <2> QED BY <2>1, <2>5
<1> HIDE DEF waiting, j
<1>7. tx' = [tx EXCEPT ![s] = v]
  <2>1. tx \in [Workers -> Transaction]
      BY <1>0 DEF IInv
  <2> QED BY <1>1, <2>1
<1>8. /\ v.own[j] = js[j] /\ \A i \in JobIds : i # j => v.own[i] = t.own[i]
      /\ v.subject = j /\ v.created = NULL /\ v.target = waiting /\ v.pc = "unblock"
    BY <1>2 DEF Transaction, j
<1>9. tx'[s] = v /\ \A u \in Workers : u # s => tx'[u] = tx[u]
    BY <1>0, <1>7 DEF IInv
<1> HIDE DEF v
<1>10. Versions(v)
  <2> SUFFICES ASSUME NEW i \in JobIds, v.own[i] # NULL
               PROVE  v.own[i].status # "blocked" /\ (v.own[i].status = "completed" => i = j)
      BY <1>8 DEF Versions
  <2>1. CASE i = j
      BY <1>3, <1>8, <2>1
  <2>2. CASE i # j
      BY <1>2, <1>8, <2>2, NullIsNoId DEF Versions, j
  <2> QED BY <2>1, <2>2
<1>11. Unblocks(v, job, blocker)
  <2> SUFFICES ASSUME NEW q \in JobIds, job[q].status = "blocked", BlockersOf(blocker, q) = {c},
                      v.own[q] = NULL
               PROVE  q \in waiting
      BY <1>8 DEF Unblocks
  <2>1. js[j] # NULL
      BY <1>2, <1>3, NullIsNoRow
  <2>2. q # j
      BY <1>8, <2>1
  <2> QED BY <1>6, <1>8, <2>2
<1>12. Targets(v, job) /\ Decision(v, job)
    BY <1>8 DEF Targets, Decision
<1>13. Outcome(v, job, blocker)
    BY <1>10, <1>11, <1>12 DEF Outcome
<1> QED BY <1>0, <1>1, <1>9, <1>13, OutcomeStep

LEMMA UnblockOutcome ==
  ASSUME UInv, NEW s \in Workers, Unblock(s)
  PROVE  UInv'
<1> DEFINE t == tx[s]
           js == Tables(s)
           ready == {q \in t.target : js[q].status = "blocked"}
           own == [q \in JobIds |->
                     IF q \in ready THEN [js[q] EXCEPT !.status = "pending"] ELSE t.own[q]]
           lock == WithLocks(t.lock, ready, "noKey")
           v == [t EXCEPT !.pc = "commit", !.target = {}, !.own = own, !.lock = lock]
<1>1. /\ t \in Transaction /\ t.created = NULL /\ Outcome(t, job, blocker)
      /\ js \in [JobIds -> Job] /\ t.target \subseteq JobIds
    BY OwnTables DEF Unblock, At, UInv, IInv, Sound, Stages, Transaction
<1>2. /\ IInv' /\ UNCHANGED <<job, blocker>>
      /\ tx' = [tx EXCEPT ![s].pc = "commit", ![s].target = {}, ![s].own = own, ![s].lock = lock]
    BY UnblockStep DEF Unblock, UInv
<1>3. ASSUME NEW q \in ready PROVE own[q] # NULL /\ own[q].status = "pending"
  <2>1. q \in JobIds /\ js[q] \in Job
      BY <1>1
  <2>2. own[q] \in Job /\ own[q].status = "pending"
      BY <2>1 DEF Job, JobStatus
  <2> QED BY <2>2, NullIsNoRow
<1>4. \A q \in JobIds : q \notin ready => own[q] = t.own[q]
    OBVIOUS
<1>5. \A q \in t.target : t.own[q] = NULL /\ job[q].status = "blocked" => q \in ready
    BY <1>1 DEF Tables
<1> HIDE DEF own, lock, ready
<1>6. /\ v.own = own /\ v.subject = t.subject /\ v.created = NULL /\ v.target = {}
      /\ v.pc = "commit"
    BY <1>1 DEF Transaction
<1>7. tx'[s] = v /\ \A u \in Workers : u # s => tx'[u] = tx[u]
    BY <1>2 DEF UInv, IInv, Transaction
<1> HIDE DEF v
<1>8. Versions(v)
    BY <1>1, <1>3, <1>4, <1>6 DEF Outcome, Versions
<1>9. Targets(v, job) /\ Decision(v, job)
    BY <1>6 DEF Targets, Decision
<1>10. Unblocks(v, job, blocker)
  <2> SUFFICES ASSUME t.subject # NULL, own[t.subject] # NULL,
                      own[t.subject].status = "completed", NEW q \in JobIds,
                      job[q].status = "blocked", BlockersOf(blocker, q) = {job[t.subject].chain}
               PROVE  own[q] # NULL
      BY <1>6 DEF Unblocks
  <2>1. t.subject \in JobIds
      BY <1>1 DEF Transaction
  <2>2. t.own[t.subject] = own[t.subject]
      BY <1>3, <1>4, <2>1
  <2>3. t.own[q] # NULL \/ q \in t.target
      BY <1>1, <2>2 DEF Outcome, Unblocks
  <2> QED BY <1>3, <1>4, <1>5, <2>3
<1>11. Outcome(v, job, blocker)
    BY <1>8, <1>9, <1>10 DEF Outcome
<1> QED BY <1>2, <1>7, <1>11, OutcomeStep

LEMMA DeleteLockedOutcome ==
  ASSUME UInv, NEW s \in Workers, DeleteLocked(s)
  PROVE  UInv'
<1> DEFINE t == tx[s]
           D == {j \in t.target : Exists(job, j)}
           gone == [NoJob EXCEPT !.status = "deleted"]
           own == [j \in JobIds |-> IF j \in D THEN gone ELSE t.own[j]]
           lock == WithLocks(t.lock, D, "update")
           v == [t EXCEPT !.pc = "commit", !.target = {}, !.own = own, !.lock = lock]
<1>1. /\ t \in Transaction /\ t.created = NULL /\ t.subject = NULL
      /\ \A j \in JobIds : t.own[j] = NULL
  <2>1. t.pc = "delete" /\ t \in Transaction /\ Stages(t)
      BY DEF DeleteLocked, At, UInv, IInv, Sound
  <2> QED BY <2>1 DEF Stages, NoTransaction
<1>2. /\ IInv' /\ UNCHANGED <<job, blocker>>
      /\ tx' = [tx EXCEPT ![s].pc = "commit", ![s].target = {}, ![s].own = own, ![s].lock = lock]
    BY DeleteLockedStep DEF DeleteLocked, UInv
<1>3. gone.status = "deleted"
    BY DEF NoJob
<1> HIDE DEF gone, D
<1>4. \A j \in JobIds : own[j] \in {gone, NULL}
    BY <1>1
<1> HIDE DEF own, lock
<1>5. /\ v.own = own /\ v.subject = NULL /\ v.created = NULL /\ v.target = {}
      /\ v.pc = "commit"
    BY <1>1 DEF Transaction
<1>6. tx'[s] = v /\ \A u \in Workers : u # s => tx'[u] = tx[u]
    BY <1>2 DEF UInv, IInv, Transaction
<1> HIDE DEF v
<1>7. Outcome(v, job, blocker)
    BY <1>3, <1>4, <1>5 DEF Outcome, Versions, Targets, Decision, Unblocks
<1> QED BY <1>2, <1>6, <1>7, OutcomeStep

(* A transaction that has just created a job: of the blocking chains it    *)
(* knows the last jobs in what it sees.                                    *)
LEMMA CreationOutcome ==
  ASSUME NEW v \in Transaction, NEW q \in JobIds, NEW js, NEW tables, NEW bl,
         v.created = q, v.own[q].status = "pending", v.own[q] = tables[q],
         v.pc = IF v.waits = {} THEN "commit" ELSE "addBlockers",
         v.target = LastJobs(tables, v.waits),
         \A i \in JobIds : i # q /\ v.own[i] # NULL =>
           /\ v.own[i].status # "blocked"
           /\ v.own[i].status = "completed" => i = v.subject /\ v.own[q].chain = v.own[i].chain,
         \A i \in JobIds : i # q /\ Exists(tables, i) =>
           Exists(js, i) /\ tables[i].chain = js[i].chain
  PROVE  Outcome(v, js, bl)
<1>1. Versions(v)
    BY NullIsNoId DEF Versions
<1>2. Targets(v, js)
  <2>1. ASSUME v.pc \in {"handler", "commit"} PROVE v.target = {}
      BY <2>1 DEF LastJobs
  <2>2. ASSUME NEW i \in v.target
        PROVE  \/ i = v.created /\ v.own[i].chain \in v.waits
               \/ js[i].status # "absent" /\ (Exists(js, i) => js[i].chain \in v.waits)
    <3>1. i \in JobIds /\ Exists(tables, i) /\ tables[i].chain \in v.waits
        BY <2>2 DEF LastJobs, IsLastInChain
    <3> QED BY <3>1 DEF Exists
  <2> QED BY <2>1, <2>2 DEF Targets
<1>3. Decision(v, js) /\ Unblocks(v, js, bl)
    BY NullIsNoId DEF Decision, Unblocks
<1> QED BY <1>1, <1>2, <1>3 DEF Outcome

LEMMA StartChainOutcome ==
  ASSUME UInv, NEW s \in Workers, NEW q \in JobIds, NEW B \in BlockerSets, StartChain(s, q, B)
  PROVE  UInv'
<1> DEFINE t == tx[s]
           js == CreateJob(Tables(s), q, q, 0, TRUE, NULL)
           v == Create(t, js, q, B)
<1>1. tx' = [tx EXCEPT ![s] = v] /\ UNCHANGED <<job, blocker>> /\ IInv'
    BY StartChainStep DEF StartChain, UInv
<1>2. /\ t = NoTransaction /\ t \in Transaction /\ \A j \in JobIds : t.own[j] = NULL
      /\ Tables(s) \in [JobIds -> Job]
    BY OwnTables DEF StartChain, At, UInv, IInv, Sound, Stages, NoTransaction
<1>3. js[q].status = "pending" /\ \A i \in JobIds : i # q => js[i] = job[i]
    BY <1>2 DEF CreateJob, Tables
<1> HIDE DEF js, t
<1>4. /\ v.own[q] = js[q] /\ \A i \in JobIds : i # q => v.own[i] = NULL
      /\ v.created = q /\ v.waits = B /\ v.target = LastJobs(js, B)
      /\ v.pc = IF B = {} THEN "commit" ELSE "addBlockers"
    BY <1>2 DEF Create, Transaction
<1>5. tx'[s] = v /\ v \in Transaction /\ \A u \in Workers : u # s => tx'[u] = tx[u]
    BY <1>1 DEF UInv, IInv
<1> HIDE DEF v
<1>6. Outcome(v, job, blocker)
    BY <1>3, <1>4, <1>5, CreationOutcome DEF Exists
<1> QED BY <1>1, <1>5, <1>6, OutcomeStep

LEMMA ContinueWithOutcome ==
  ASSUME UInv, NEW s \in Workers, NEW q \in JobIds, NEW B \in BlockerSets, ContinueWith(s, q, B)
  PROVE  UInv'
<1>0. /\ IInv /\ IInv' /\ Outcome(tx[s], job, blocker) /\ tx[s] \in Transaction
      /\ At(s, "handler") /\ Fresh(q) /\ UNCHANGED <<job, blocker>>
  <2>1. IInv /\ IInv' /\ Outcome(tx[s], job, blocker)
      BY ContinueWithStep DEF UInv
  <2>2. At(s, "handler") /\ Fresh(q) /\ UNCHANGED <<job, blocker>>
      BY DEF ContinueWith
  <2> QED BY <2>1, <2>2 DEF IInv
<1> DEFINE j == tx[s].subject
           completed == CompleteJob(Tables(s), j)
           c == completed[j].chain
           js == CreateJob(completed, q, c, completed[j].index + 1, TRUE, NULL)
           t == [tx[s] EXCEPT !.own[j] = js[j], !.lock = WithLocks(@, {c}, "share")]
           v == Create(t, js, q, B)
<1>1. tx' = [tx EXCEPT ![s] = v]
    BY DEF ContinueWith
<1>2. /\ j \in JobIds /\ Exists(job, j) /\ tx[s].created = NULL /\ Versions(tx[s])
      /\ completed \in [JobIds -> Job] /\ completed[j].status = "completed"
      /\ completed[j].chain = job[j].chain /\ Tables(s) \in [JobIds -> Job]
      /\ \A i \in JobIds : ~Deleted(tx[s], i)
  <2>1. j \in JobIds /\ Exists(job, j) /\ tx[s].created = NULL
      BY <1>0, SubjectRow
  <2>2. /\ completed \in [JobIds -> Job] /\ completed[j].status = "completed"
        /\ completed[j].chain = job[j].chain
      BY <1>0, CompletedRow
  <2>3. Tables(s) \in [JobIds -> Job]
      BY <1>0, OwnTables
  <2>4. \A i \in JobIds : ~Deleted(tx[s], i)
      BY <1>0 DEF IInv, Sound, Stages, At
  <2> HIDE DEF completed
  <2> QED BY <1>0, <2>1, <2>2, <2>3, <2>4 DEF Outcome
<1>3. q # j
    BY <1>0, <1>2 DEF Fresh, Exists
<1>4. \A i \in JobIds : i # j => completed[i] = Tables(s)[i]
    BY <1>2 DEF CompleteJob
<1> HIDE DEF completed, j
<1>5. /\ js[j] = completed[j] /\ js[q].status = "pending" /\ js[q].chain = job[j].chain
      /\ \A i \in JobIds : i # q => js[i] = completed[i]
    BY <1>2, <1>3 DEF CreateJob
<1> HIDE DEF js
<1>6. ASSUME NEW i \in JobIds, i # q, Exists(js, i)
      PROVE  Exists(job, i) /\ js[i].chain = job[i].chain
  <2>1. CASE i = j
      BY <1>2, <1>5, <2>1
  <2>2. CASE i # j
      BY <1>0, <1>2, <1>4, <1>5, <1>6, <2>2, OwnTables, NullIsNoId DEF Exists
  <2> QED BY <2>1, <2>2
<1>7. /\ t.own[j] = js[j] /\ \A i \in JobIds : i # j => t.own[i] = tx[s].own[i]
      /\ t.own \in [JobIds -> Job \cup {NULL}]
      /\ t.subject = j /\ DOMAIN t = DOMAIN tx[s]
    BY <1>0, <1>2, <1>5 DEF Transaction, j
<1>8. /\ v.own = [t.own EXCEPT ![q] = js[q]]
      /\ v.created = q /\ v.waits = B /\ v.target = LastJobs(js, B) /\ v.subject = j
      /\ v.pc = IF B = {} THEN "commit" ELSE "addBlockers"
    BY <1>0, <1>2 DEF Create, Transaction, j
<1>9. tx'[s] = v /\ v \in Transaction /\ \A u \in Workers : u # s => tx'[u] = tx[u]
    BY <1>0, <1>1 DEF IInv
<1> HIDE DEF v, t
<1>10. /\ v.own[q] = js[q] /\ v.own[j] = js[j]
       /\ \A i \in JobIds : i \notin {q, j} => v.own[i] = tx[s].own[i]
    BY <1>2, <1>3, <1>7, <1>8
<1>11. ASSUME NEW i \in JobIds, i # q, v.own[i] # NULL
       PROVE  /\ v.own[i].status # "blocked"
              /\ v.own[i].status = "completed" => i = j /\ v.own[q].chain = v.own[i].chain
  <2>1. CASE i = j
      BY <1>2, <1>5, <1>10, <2>1
  <2>2. CASE i # j
      BY <1>2, <1>10, <1>11, <2>2, NullIsNoId DEF Versions, j
  <2> QED BY <2>1, <2>2
<1>12. Outcome(v, job, blocker)
  <2>1. /\ v.target = LastJobs(js, v.waits) /\ v.own[q] = js[q] /\ v.own[q].status = "pending"
        /\ v.pc = IF v.waits = {} THEN "commit" ELSE "addBlockers"
      BY <1>5, <1>8, <1>10
  <2>2. \A i \in JobIds : i # q /\ v.own[i] # NULL =>
          /\ v.own[i].status # "blocked"
          /\ v.own[i].status = "completed" => i = v.subject /\ v.own[q].chain = v.own[i].chain
      BY <1>8, <1>11
  <2>3. v.created = q /\ v \in Transaction
      BY <1>8, <1>9
  <2> QED BY <1>6, <2>1, <2>2, <2>3, CreationOutcome
<1> QED BY <1>0, <1>9, <1>12, OutcomeStep

LEMMA AddJobsBlockersOutcome ==
  ASSUME UInv, NEW s \in Workers, AddJobsBlockers(s)
  PROVE  UInv'
<1> DEFINE t == tx[s]
           js == Tables(s)
           q == t.created
           incomplete == {j \in t.target : Exists(js, j) /\ js[j].status # "completed"}
           status == IF incomplete = {} THEN t.own[q].status ELSE "blocked"
           refs == {<<q, c>> : c \in t.waits}
           lock == WithLocks(WithLocks(t.lock, t.target, "update"), t.waits, "share")
           v == [t EXCEPT !.pc = "commit", !.own[q].status = status, !.refs = refs,
                          !.lock = lock, !.target = {}, !.waits = {}]
<1>1. /\ t \in Transaction /\ q \in JobIds /\ t.own[q] # NULL /\ job[q].status = "absent"
      /\ t.own[q].status = "pending" /\ IInv /\ Outcome(t, job, blocker)
      /\ t.pc = "addBlockers" /\ \A j \in JobIds : ~Deleted(t, j)
  <2>1. IInv /\ Outcome(t, job, blocker) /\ t.pc = "addBlockers"
      BY DEF AddJobsBlockers, At, UInv
  <2>2. t \in Transaction /\ Stages(t) /\ Creation(t, job)
      BY <2>1 DEF IInv, Sound
  <2>3. q # NULL /\ \A j \in JobIds : ~Deleted(t, j)
      BY <2>1, <2>2 DEF Stages
  <2>4. t.own[q].status = "pending"
      BY <2>1 DEF Outcome, Targets
  <2>5. q \in JobIds /\ t.own[q] # NULL /\ job[q].status = "absent"
      BY <2>2, <2>3 DEF Creation, Transaction
  <2> QED BY <2>1, <2>2, <2>3, <2>4, <2>5
<1>2. /\ IInv' /\ UNCHANGED <<job, blocker>> /\ tx' = [tx EXCEPT ![s] = v]
  <2>1. IInv'
      BY <1>1, AddJobsBlockersStep
  <2> QED BY <2>1 DEF AddJobsBlockers
<1>3. \A j \in JobIds : t.lock[j] = "update" \/ j \in t.target => lock[j] = "update"
  <2> SUFFICES ASSUME NEW j \in JobIds, t.lock[j] = "update" \/ j \in t.target
               PROVE  lock[j] = "update"
      OBVIOUS
  <2> DEFINE first == WithLocks(t.lock, t.target, "update")
  <2>1. first \in [JobIds -> LockMode] /\ first[j] = "update"
      BY <1>1, LocksTaken DEF Transaction, LockMode
  <2> HIDE DEF first
  <2>2. WithLocks(first, t.waits, "share")[j] = "update"
      BY <2>1, LocksTaken DEF LockMode
  <2> QED BY <2>2 DEF first
<1>4. ASSUME incomplete # {}, NEW c \in JobIds, BlockersOf(refs, q) = {c}
      PROVE  \E k \in t.target : OpenRow(js[k]) /\ js[k].chain = c
  <2>1. t.waits = {c}
      BY <1>1, <1>4 DEF BlockersOf, Transaction
  <2>2. PICK k \in t.target : Exists(js, k) /\ js[k].status # "completed"
      BY <1>4
  <2>3. k \in JobIds
      BY <1>1 DEF Transaction
  <2>4. js[k].chain \in t.waits
    <3>1. CASE k = q /\ t.own[k].chain \in t.waits
        BY <1>1, <3>1 DEF Tables
    <3>2. CASE job[k].status # "absent" /\ (Exists(job, k) => job[k].chain \in t.waits)
        BY <1>1, <2>2, <2>3, <3>2, OwnTables
    <3> QED BY <1>1, <3>1, <3>2 DEF Outcome, Targets
  <2> QED BY <2>1, <2>2, <2>4 DEF OpenRow, Exists
<1>5. incomplete = {} => status = "pending"
    BY <1>1
<1>6. incomplete # {} => status = "blocked"
    OBVIOUS
<1> HIDE DEF status, lock, refs, q, incomplete
<1>7. /\ v.own = [t.own EXCEPT ![q] = [t.own[q] EXCEPT !.status = status]]
      /\ v.created = q /\ v.subject = t.subject /\ v.target = {} /\ v.pc = "commit"
      /\ v.refs = refs /\ v.lock = lock
    BY <1>1 DEF Transaction, q
<1>8. /\ v.own[q].status = status /\ v.own[q].chain = t.own[q].chain
      /\ \A i \in JobIds : i # q => v.own[i] = t.own[i]
  <2>1. t.own[q] \in Job
      BY <1>1 DEF Transaction
  <2> HIDE DEF v
  <2> QED BY <1>1, <1>7, <2>1 DEF Transaction, Job
<1>9. tx'[s] = v /\ v \in Transaction /\ \A u \in Workers : u # s => tx'[u] = tx[u]
    BY <1>2 DEF UInv, IInv
<1> HIDE DEF v
<1>10. Versions(v)
  <2>1. Versions(t)
      BY <1>1 DEF Outcome
  <2>2. t.created = q
      BY DEF q
  <2> HIDE DEF t
  <2> QED BY <1>1, <1>5, <1>6, <1>7, <1>8, <2>1, <2>2 DEF Versions
<1>11. Targets(v, job) /\ Unblocks(v, job, blocker)
    BY <1>1, <1>7, NullIsNoId DEF Targets, Unblocks
<1>12. Decision(v, job)
  <2> SUFFICES ASSUME status = "blocked", NEW c \in JobIds, BlockersOf(refs, q) = {c}
               PROVE  \E k \in JobIds : /\ OpenRow(Row(v, job, k)) /\ Row(v, job, k).chain = c
                                        /\ k = q \/ lock[k] = "update"
      BY <1>7, <1>8 DEF Decision
  <2>1. PICK k \in t.target : OpenRow(js[k]) /\ js[k].chain = c
      BY <1>4, <1>5
  <2>2. k \in JobIds /\ lock[k] = "update"
      BY <1>1, <1>3, <2>1 DEF Transaction
  <2>3. CASE k # q
    <3>1. Row(v, job, k) = js[k]
        BY <1>8, <2>2, <2>3 DEF Row, Tables
    <3> QED BY <2>1, <2>2, <3>1
  <2>4. CASE k = q
    <3>1. v.own[q] \in Job \cup {NULL}
        BY <1>1, <1>9 DEF Transaction
    <3>2. v.own[q] # NULL
      <4>1. t.own[q] \in Job /\ status \in JobStatus
          BY <1>1, <1>5, <1>6 DEF Transaction, JobStatus
      <4>2. [t.own[q] EXCEPT !.status = status] \in Job
          BY <4>1 DEF Job
      <4> QED BY <1>1, <1>7, <4>2, NullIsNoRow DEF Transaction
    <3>3. Row(v, job, k) = v.own[q] /\ js[k] = t.own[q]
        BY <1>1, <2>2, <2>4, <3>2 DEF Row, Tables
    <3> QED BY <1>8, <2>1, <2>2, <2>4, <3>3 DEF OpenRow
  <2> QED BY <2>3, <2>4
<1>13. Outcome(v, job, blocker)
    BY <1>10, <1>11, <1>12 DEF Outcome
<1> QED BY <1>2, <1>9, <1>13, OutcomeStep

LEMMA EndAttemptOutcome ==
  ASSUME UInv, NEW s \in Workers, EndAttempt(s)
  PROVE  UInv'
<1>1. UNCHANGED <<job, blocker, tx>> /\ IInv'
    BY EndAttemptStep DEF EndAttempt, UInv
<1> QED BY <1>1 DEF UInv

LEMMA ReapOutcome ==
  ASSUME UInv, NEW s \in Workers, NEW j \in JobIds, Reap(s, j)
  PROVE  UInv'
<1>1. /\ IInv' /\ UNCHANGED <<blocker, tx>>
      /\ job[j].status = "running" /\ job \in [JobIds -> Job]
    BY ReapStep DEF Reap, UInv, IInv
<1>2. job' = [job EXCEPT ![j] = [job[j] EXCEPT !.leasedBy = NULL, !.lease = "none",
                                               !.status = "pending"]]
    BY <1>1 DEF Reap, ReapJobLease
<1>3. /\ job'[j].status = "pending" /\ job'[j].chain = job[j].chain
      /\ \A k \in JobIds : k # j => job'[k] = job[k]
    BY <1>1, <1>2 DEF Job
<1>4. \A k \in JobIds :
        /\ job'[k].chain = job[k].chain
        /\ Exists(job', k) <=> Exists(job, k)
        /\ OpenRow(job[k]) => OpenRow(job'[k])
        /\ job'[k].status = "absent" <=> job[k].status = "absent"
        /\ job'[k].status = "blocked" => job[k].status = "blocked"
    BY <1>1, <1>3 DEF Exists, OpenRow
<1>5. RootsOfChains(job')
  <2> SUFFICES ASSUME NEW k \in JobIds, Exists(job', k), Exists(job', job'[k].chain)
               PROVE  job'[job'[k].chain].chain = job'[k].chain
      BY DEF RootsOfChains
  <2>1. Exists(job, k) /\ job[k].chain \in JobIds
      BY <1>4 DEF UInv, IInv, ChainsCreated
  <2> QED BY <1>4, <2>1 DEF UInv, RootsOfChains
<1>6. Supported(job', blocker)
    BY <1>4 DEF UInv, Supported, Open
<1>7. ASSUME NEW u \in Workers PROVE Outcome(tx[u], job', blocker)
  <2>1. Outcome(tx[u], job, blocker) /\ tx[u] \in Transaction
      BY DEF UInv, IInv
  <2>2. Targets(tx[u], job')
    <3>1. tx[u].target \subseteq JobIds
        BY <2>1 DEF Transaction
    <3> QED BY <1>4, <2>1, <3>1 DEF Outcome, Targets
  <2>3. Decision(tx[u], job')
    <3>1. \A k \in JobIds : /\ Row(tx[u], job', k).chain = Row(tx[u], job, k).chain
                            /\ OpenRow(Row(tx[u], job, k)) => OpenRow(Row(tx[u], job', k))
        BY <1>4 DEF Row
    <3> QED BY <2>1, <3>1 DEF Outcome, Decision
  <2>4. Unblocks(tx[u], job', blocker)
    <3>1. tx[u].subject # NULL => tx[u].subject \in JobIds
        BY <2>1 DEF Transaction
    <3> QED BY <1>4, <2>1, <3>1 DEF Outcome, Unblocks
  <2> QED BY <2>1, <2>2, <2>3, <2>4 DEF Outcome
<1> QED BY <1>1, <1>5, <1>6, <1>7 DEF UInv

LEMMA CommitRoots ==
  ASSUME UInv, NEW s \in Workers, Commit(s)
  PROVE  RootsOfChains(job')
<1>0. IInv /\ ChainsCreated(job) /\ RootsOfChains(job)
    BY DEF UInv, IInv
<1>1. ASSUME NEW j \in JobIds, Exists(job, j), Exists(job', job[j].chain)
      PROVE  job'[job[j].chain].chain = job[j].chain
  <2> DEFINE c == job[j].chain
  <2>1. c \in JobIds /\ job[c].status # "absent"
      BY <1>0, <1>1 DEF ChainsCreated
  <2>2. Exists(job, c) /\ job'[c].chain = job[c].chain
      BY <1>0, <1>1, <2>1, CommittedRow
  <2> QED BY <1>0, <1>1, <2>2 DEF RootsOfChains
<1> SUFFICES ASSUME NEW j \in JobIds, Exists(job', j), Exists(job', job'[j].chain)
             PROVE  job'[job'[j].chain].chain = job'[j].chain
    BY DEF RootsOfChains
<1>2. CASE j # tx[s].created
    BY <1>0, <1>1, <1>2, CommittedRow
<1>3. CASE j = tx[s].created
    BY <1>0, <1>1, <1>3, NullIsNoId, CommittedCreation
<1> QED BY <1>2, <1>3

(* The blocker rows of a job after a commit.                               *)
LEMMA CommittedBlockers ==
  ASSUME IInv, NEW s \in Workers, Commit(s), NEW q \in JobIds, Exists(job', q)
  PROVE  BlockersOf(blocker', q) =
           IF q = tx[s].created THEN BlockersOf(tx[s].refs, q) ELSE BlockersOf(blocker, q)
<1>1. \A c \in JobIds : <<q, c>> \in blocker' <=> <<q, c>> \in blocker \cup tx[s].refs
    BY DEF Commit, Refs, Exists
<1>2. CASE q = tx[s].created
  <2>1. job[q].status = "absent"
      BY <1>2, CommittedRow
  <2>2. \A c \in JobIds : <<q, c>> \notin blocker
      BY <2>1 DEF IInv, Referenced, Exists
  <2> QED BY <1>1, <1>2, <2>2 DEF BlockersOf
<1>3. CASE q # tx[s].created
  <2>1. \A c \in JobIds : <<q, c>> \notin tx[s].refs
      BY <1>3 DEF IInv, Sound, References
  <2> QED BY <1>1, <1>3, <2>1 DEF BlockersOf
<1> QED BY <1>2, <1>3

LEMMA CommitSupported ==
  ASSUME UInv, NEW s \in Workers, Commit(s)
  PROVE  Supported(job', blocker')
<1> DEFINE t == tx[s]
<1>0. /\ IInv /\ t \in Transaction /\ Outcome(t, job, blocker) /\ RootsOfChains(job)
      /\ Deletion(t, job, blocker) /\ Creation(t, job) /\ Referenced(job, blocker)
      /\ Supported(job, blocker) /\ t.target = {}
    BY DEF UInv, IInv, Sound, Outcome, Targets, Commit, At
<1> SUFFICES ASSUME NEW q \in JobIds, NEW c \in JobIds, job'[q].status = "blocked",
                    BlockersOf(blocker', q) = {c}
             PROVE  \E k \in JobIds : Open(job', k, c)
    BY DEF Supported
<1>1. Exists(job', q)
    BY DEF Exists
<1>2. CASE q = t.created
  <2>1. t.own[q] # NULL /\ t.own[q].status = "blocked" /\ BlockersOf(t.refs, q) = {c}
      BY <1>0, <1>1, <1>2, Committed, CommittedBlockers
  <2>2. PICK k \in JobIds : OpenRow(Row(t, job, k)) /\ Row(t, job, k).chain = c
      BY <1>0, <1>2, <2>1, NullIsNoId DEF Outcome, Decision
  <2>3. job'[k] = Row(t, job, k)
      BY <1>0, Committed DEF Row
  <2> QED BY <2>2, <2>3 DEF Open
<1>3. CASE q # t.created
  <2>1. t.own[q] = NULL /\ job[q].status = "blocked" /\ BlockersOf(blocker, q) = {c}
      BY <1>0, <1>1, <1>3, Committed, CommittedBlockers DEF Outcome, Versions
  <2>2. PICK k \in JobIds : Open(job, k, c)
      BY <1>0, <2>1 DEF Supported
  <2>3. Exists(job, k) /\ job[k].chain = c /\ OpenRow(job[k])
      BY <2>2 DEF Open, OpenRow, Exists
  <2>4. <<q, c>> \in blocker /\ Exists(job, c)
      BY <1>0, <2>1 DEF BlockersOf, Referenced
  <2>5. CASE t.own[k] = NULL
      BY <1>0, <2>3, <2>5, Committed DEF Open
  <2>6. CASE Deleted(t, k)
    <3>1. c \in Roots(job)
        BY <1>0, <2>3, <2>4 DEF RootsOfChains, Roots
    <3>2. Deleted(t, q)
        BY <1>0, <2>3, <2>4, <2>6, <3>1 DEF Deletion
    <3> QED BY <2>1, <3>2 DEF Deleted
  <2>7. CASE t.own[k] # NULL /\ ~Deleted(t, k)
    <3>1. k # t.created
        BY <1>0, <2>3, Committed DEF Exists
    <3>2. job'[k] = t.own[k] /\ Exists(job', k) /\ job'[k].chain = c
        BY <1>0, <2>3, <2>7, <3>1, Committed
    <3>3. CASE job'[k].status # "completed"
        BY <3>2, <3>3 DEF Open, OpenRow, Exists
    <3>4. CASE job'[k].status = "completed"
      <4>1. k = t.subject /\ (t.created # NULL => t.own[t.created].chain = c)
          BY <1>0, <2>7, <3>2, <3>4 DEF Outcome, Versions
      <4>2. CASE t.created = NULL
          BY <1>0, <2>1, <2>3, <2>7, <3>2, <3>4, <4>1, <4>2, NullIsNoId DEF Outcome, Unblocks
      <4>3. CASE t.created # NULL
        <5>1. t.created \in JobIds /\ t.own[t.created].status \in {"pending", "blocked"}
              /\ job'[t.created] = t.own[t.created]
            BY <1>0, <4>3, Committed DEF Creation, Transaction
        <5> QED BY <4>1, <4>3, <5>1 DEF Open, OpenRow
      <4> QED BY <4>2, <4>3
    <3> QED BY <3>3, <3>4
  <2> QED BY <2>5, <2>6, <2>7 DEF Deleted
<1> QED BY <1>2, <1>3

(* A row another transaction holds is not changed by a commit.             *)
LEMMA CommittedLocked ==
  ASSUME IInv, NEW s \in Workers, Commit(s), NEW u \in Workers, u # s, NEW j \in JobIds,
         Exists(job, j), tx[u].lock[j] \in {"noKey", "update"}
  PROVE  job'[j] = job[j]
<1>1. Compatible(tx[s].lock[j], tx[u].lock[j])
    BY DEF IInv, Apart
<1>2. tx[s].lock[j] \notin {"noKey", "update"}
    BY <1>1 DEF Compatible
<1>3. j # tx[s].created
    BY Committed DEF Exists
<1> QED BY <1>2, <1>3, Committed

(* The job whose open predecessor, or whose own chain, made a new job      *)
(* blocked is not being completed by another transaction.                  *)
LEMMA DecisionHolds ==
  ASSUME UInv, NEW s \in Workers, NEW u \in Workers, u # s,
         tx[s].created # NULL, tx[s].own[tx[s].created].status = "blocked",
         tx[u].subject # NULL,
         BlockersOf(tx[s].refs, tx[s].created) = {job[tx[u].subject].chain}
  PROVE  FALSE
<1> DEFINE t == tx[s]
           q == t.created
           i == tx[u].subject
           c == job[i].chain
<1>1. /\ IInv /\ t \in Transaction /\ tx[u] \in Transaction /\ Apart(t, tx[u])
      /\ Creation(t, job) /\ SubjectHeld(t, job) /\ SubjectHeld(tx[u], job) /\ Writes(t, job)
      /\ Decision(t, job) /\ ChainsCreated(job)
    BY DEF UInv, IInv, Sound, Outcome
<1>2. /\ i \in JobIds /\ Exists(job, i) /\ job[i].status # "completed" /\ OpenRow(job[i])
      /\ tx[u].lock[i] = "update" /\ c \in JobIds /\ job[c].status # "absent"
    BY <1>1 DEF SubjectHeld, Transaction, ChainsCreated, OpenRow, Exists
<1>3. ASSUME NEW k \in JobIds, Exists(job, k), job[k].status # "completed", job[k].chain = c,
             t.lock[k] = "update"
      PROVE  FALSE
  <2>1. OpenRow(job[k])
      BY <1>3 DEF OpenRow, Exists
  <2>2. k = i
      BY <1>1, <1>2, <1>3, <2>1, OneOpen
  <2> QED BY <1>1, <1>2, <1>3, <2>2 DEF Apart, Compatible
<1>4. q \in JobIds /\ job[q].status = "absent" /\ t.own[q] # NULL
    BY <1>1 DEF Creation, Transaction
<1>5. PICK k \in JobIds : /\ OpenRow(Row(t, job, k)) /\ Row(t, job, k).chain = c
                          /\ k = q \/ t.lock[k] = "update"
    BY <1>1, <1>2 DEF Decision
<1>6. CASE k = q
  <2>1. t.own[q].chain = c
      BY <1>4, <1>5, <1>6 DEF Row
  <2>2. c # q
      BY <1>2, <1>4
  <2>3. /\ t.subject # NULL /\ job[t.subject].chain = c
      BY <1>1, <2>1, <2>2 DEF Creation
  <2>4. /\ t.subject \in JobIds /\ Exists(job, t.subject)
        /\ job[t.subject].status # "completed" /\ t.lock[t.subject] = "update"
      BY <1>1, <2>3 DEF SubjectHeld, Transaction
  <2> QED BY <1>3, <2>3, <2>4
<1>7. CASE k # q
  <2>1. CASE t.own[k] = NULL
      BY <1>3, <1>5, <1>7, <2>1 DEF Row, OpenRow, Exists
  <2>2. CASE t.own[k] # NULL
    <3>1. ~Deleted(t, k) /\ t.own[k].chain = c
        BY <1>5, <2>2 DEF Row, OpenRow, Deleted
    <3>2. Exists(job, k) /\ job[k].status # "completed" /\ job[k].chain = c
        BY <1>1, <1>7, <2>2, <3>1 DEF Writes
    <3> QED BY <1>3, <1>5, <1>7, <3>2
  <2> QED BY <2>1, <2>2
<1> QED BY <1>6, <1>7

LEMMA CommitOthers ==
  ASSUME UInv, NEW s \in Workers, Commit(s), NEW u \in Workers, u # s
  PROVE  Outcome(tx[u], job', blocker')
<1> DEFINE t == tx[s]
           v == tx[u]
<1>1. /\ IInv /\ v \in Transaction /\ Outcome(v, job, blocker) /\ Outcome(t, job, blocker)
      /\ Creation(v, job) /\ SubjectHeld(v, job) /\ t \in Transaction
    BY DEF UInv, IInv, Sound
<1>2. Versions(v)
    BY <1>1 DEF Outcome
<1>3. Targets(v, job')
  <2>1. v.pc \in {"handler", "commit"} => v.target = {}
      BY <1>1 DEF Outcome, Targets
  <2>2. ASSUME v.pc = "addBlockers"
        PROVE  /\ v.own[v.created].status = "pending"
               /\ \A j \in v.target :
                    \/ j = v.created /\ v.own[j].chain \in v.waits
                    \/ job'[j].status # "absent" /\ (Exists(job', j) => job'[j].chain \in v.waits)
    <3>1. /\ v.own[v.created].status = "pending"
          /\ \A j \in v.target :
               \/ j = v.created /\ v.own[j].chain \in v.waits
               \/ job[j].status # "absent" /\ (Exists(job, j) => job[j].chain \in v.waits)
        BY <1>1, <2>2 DEF Outcome, Targets
    <3>2. ASSUME NEW j \in v.target, job[j].status # "absent",
                 Exists(job, j) => job[j].chain \in v.waits
          PROVE  job'[j].status # "absent" /\ (Exists(job', j) => job'[j].chain \in v.waits)
      <4>1. j \in JobIds /\ j # t.created
          BY <1>1, <3>2, CommittedRow DEF Transaction
      <4> QED BY <1>1, <3>2, <4>1, CommittedRow
    <3> QED BY <3>1, <3>2
  <2> QED BY <2>1, <2>2 DEF Targets
<1>4. Decision(v, job')
  <2> SUFFICES ASSUME v.created # NULL, v.own[v.created].status = "blocked",
                      NEW c \in JobIds, BlockersOf(v.refs, v.created) = {c}
               PROVE  \E k \in JobIds :
                        /\ OpenRow(Row(v, job', k)) /\ Row(v, job', k).chain = c
                        /\ k = v.created \/ v.lock[k] = "update"
      BY DEF Decision
  <2>1. PICK k \in JobIds :
          /\ OpenRow(Row(v, job, k)) /\ Row(v, job, k).chain = c
          /\ k = v.created \/ v.lock[k] = "update"
      BY <1>1 DEF Outcome, Decision
  <2>2. Row(v, job', k) = Row(v, job, k)
    <3>1. CASE v.own[k] # NULL
        BY <3>1 DEF Row
    <3>2. CASE v.own[k] = NULL
      <4>1. k # v.created /\ Exists(job, k)
          BY <1>1, <2>1, <3>2 DEF Creation, Row, OpenRow, Exists
      <4>2. job'[k] = job[k]
          BY <1>1, <2>1, <4>1, CommittedLocked
      <4> QED BY <3>2, <4>2 DEF Row
    <3> QED BY <3>1, <3>2
  <2> QED BY <2>1, <2>2
<1>5. Unblocks(v, job', blocker')
  <2> DEFINE i == v.subject
  <2> SUFFICES ASSUME v.created = NULL, i # NULL, v.own[i] # NULL,
                      v.own[i].status = "completed", NEW q \in JobIds,
                      job'[q].status = "blocked", BlockersOf(blocker', q) = {job'[i].chain}
               PROVE  v.own[q] # NULL \/ q \in v.target
      BY DEF Unblocks
  <2>1. i \in JobIds /\ Exists(job, i) /\ job'[i] = job[i]
      BY <1>1, CommittedLocked DEF SubjectHeld, Transaction
  <2>2. Exists(job', q)
      BY DEF Exists
  <2>3. CASE q = t.created
    <3>1. t.created # NULL /\ t.own[q] # NULL /\ t.own[q].status = "blocked"
        BY <1>1, <2>3, NullIsNoId, Committed
    <3>2. BlockersOf(t.refs, q) = {job[i].chain}
        BY <1>1, <2>1, <2>2, <2>3, CommittedBlockers
    <3> QED BY <2>3, <3>1, <3>2, DecisionHolds
  <2>4. CASE q # t.created
    <3>1. job[q].status = "blocked" /\ BlockersOf(blocker, q) = {job[i].chain}
        BY <1>1, <2>1, <2>2, <2>4, Committed, CommittedBlockers DEF Outcome, Versions
    <3> QED BY <1>1, <3>1 DEF Outcome, Unblocks
  <2> QED BY <2>3, <2>4
<1> QED BY <1>2, <1>3, <1>4, <1>5 DEF Outcome

LEMMA CommitOutcome ==
  ASSUME UInv, NEW s \in Workers, Commit(s)
  PROVE  UInv'
<1>1. /\ IInv' /\ tx'[s] = NoTransaction
      /\ \A u \in Workers : u # s => tx'[u] = tx[u]
    BY CommitStep DEF Commit, UInv, IInv
<1>2. \A u \in Workers : Outcome(tx'[u], job', blocker')
    BY <1>1, NoTransactionOutcome, CommitOthers
<1> QED BY <1>1, <1>2, CommitRoots, CommitSupported DEF UInv

LEMMA InitUnblocked == Init => UInv
<1> SUFFICES ASSUME Init PROVE UInv
    OBVIOUS
<1>1. IInv /\ \A j \in JobIds : ~Exists(job, j) /\ job[j].status = "absent"
    BY InitInv DEF Init, NoJob, Exists
<1>2. \A s \in Workers : Outcome(tx[s], job, blocker)
    BY NoTransactionOutcome DEF Init
<1> QED BY <1>1, <1>2 DEF UInv, RootsOfChains, Supported

LEMMA NextUnblocked == UInv /\ [Next]_vars => UInv'
<1> SUFFICES ASSUME UInv, [Next]_vars PROVE UInv'
    OBVIOUS
<1>1. CASE UNCHANGED vars
  <2>1. IInv'
      BY <1>1, NextInv DEF UInv
  <2> QED BY <1>1, <2>1 DEF vars, UInv
<1>2. ASSUME NEW s \in Workers, NEW q \in JobIds, NEW B \in BlockerSets,
             StartChain(s, q, B) \/ ContinueWith(s, q, B)
      PROVE  UInv'
    BY <1>2, StartChainOutcome, ContinueWithOutcome
<1>3. ASSUME NEW s \in Workers, NEW j \in JobIds, LockChain(s, j) \/ Acquire(s, j) \/ Reap(s, j)
      PROVE  UInv'
    BY <1>3, LockChainOutcome, AcquireOutcome, ReapOutcome
<1>4. ASSUME NEW s \in Workers, NEW C \in SUBSET Roots(job), NEW cascade \in BOOLEAN,
             DeleteChains(s, C, cascade)
      PROVE  UInv'
  <2>1. C \in SUBSET JobIds
      BY DEF Roots
  <2> QED BY <1>4, <2>1, DeleteChainsOutcome
<1>5. ASSUME NEW s \in Workers,
             \/ AddJobsBlockers(s) \/ ChainLocked(s) \/ RefetchJobLocked(s) \/ EndAttempt(s)
             \/ RenewLease(s) \/ Reschedule(s) \/ FinishChain(s) \/ Unblock(s)
             \/ DeleteLocked(s) \/ Commit(s) \/ Rollback(s)
      PROVE  UInv'
    BY <1>5, AddJobsBlockersOutcome, ChainLockedOutcome, RefetchJobLockedOutcome,
       EndAttemptOutcome, RenewLeaseOutcome, RescheduleOutcome, FinishChainOutcome,
       UnblockOutcome, DeleteLockedOutcome, CommitOutcome, RollbackOutcome
<1> QED BY <1>1, <1>2, <1>3, <1>4, <1>5 DEF Next

(* A job that one chain blocks does not stay blocked when this chain       *)
(* completes, whichever transaction commits first: addJobsBlockers locks   *)
(* the last job of the chain before it decides, and so does the completion *)
(* that looks for the jobs to unblock.                                     *)
THEOREM SingleBlockersUnblock == Spec => []SingleBlockerUnblocks
<1>1. UInv => SingleBlockerUnblocks
  <2> SUFFICES ASSUME UInv, NEW q \in JobIds, NEW c \in JobIds, job[q].status = "blocked",
                      BlockersOf(blocker, q) = {c}, ChainComplete(job, c)
               PROVE  FALSE
      BY DEF SingleBlockerUnblocks
  <2>1. PICK k \in JobIds : Open(job, k, c)
      BY DEF UInv, Supported
  <2>2. Exists(job, k) /\ job[k].chain = c /\ job[k].status # "completed"
      BY <2>1 DEF Open, OpenRow, Exists
  <2>3. PICK j \in JobIds :
          /\ Exists(job, j) /\ job[j].chain = c /\ job[j].status = "completed"
          /\ \A i \in JobIds : Exists(job, i) /\ job[i].chain = c => job[i].index <= job[j].index
      BY DEF ChainComplete, ChainJobs, IsLastInChain
  <2>4. k # j /\ job[k].index <= job[j].index
      BY <2>2, <2>3
  <2> QED BY <2>2, <2>3, <2>4 DEF UInv, IInv, Ordered
<1> QED BY <1>1, InitUnblocked, NextUnblocked, PTL DEF Spec
-----------------------------------------------------------------------------
(***************************************************************************)
(* A chain is deleted as a whole.  The deletion locks the rows its         *)
(* snapshot shows; a job added to the chain since then is refused by the   *)
(* foreign key of chain_id when it is committed, and keeps the root locked *)
(* when it is not.                                                         *)
(***************************************************************************)

(* A transaction that deletes a root deletes every job of its chain, and   *)
(* one that continues a chain has its root locked.                         *)
ChainKept(t, js) ==
  /\ \A j \in JobIds : Exists(js, j) /\ Deleted(t, js[j].chain) => Deleted(t, j)
  /\ t.created # NULL =>
       \/ t.own[t.created].chain = t.created
       \/ /\ t.own[t.created].chain \in Roots(js)
          /\ t.lock[t.own[t.created].chain] # "none"

WInv ==
  /\ IInv /\ ChainsDeletedWhole
  /\ \A s \in Workers : ChainKept(tx[s], job)

LEMMA KeptStep ==
  ASSUME WInv, IInv', NEW s \in Workers, \A u \in Workers : u # s => tx'[u] = tx[u],
         job' = job, ChainKept(tx'[s], job)
  PROVE  WInv'
<1>1. \A u \in Workers : ChainKept(tx'[u], job)
    BY DEF WInv
<1> QED BY <1>1 DEF WInv, ChainsDeletedWhole, Roots, Exists

(* A transaction that deletes nothing and creates nothing.                 *)
LEMMA NothingCreated ==
  ASSUME WInv, IInv', NEW s \in Workers, \A u \in Workers : u # s => tx'[u] = tx[u],
         job' = job, tx'[s].created = NULL,
         tx'[s].subject # NULL \/ tx'[s].pc \in {"idle", "lockChain", "delete"}
  PROVE  WInv'
<1>1. Stages(tx'[s]) /\ ChainsCreated(job)
    BY DEF IInv, Sound, WInv
<1>2. \A j \in JobIds : ~Deleted(tx'[s], j)
    BY <1>1 DEF Stages, Deleted, NoTransaction
<1>3. ChainKept(tx'[s], job)
    BY <1>1, <1>2 DEF ChainKept, ChainsCreated
<1> QED BY <1>3, KeptStep

LEMMA WorkKept ==
  ASSUME WInv, NEW s \in Workers,
         \/ \E c \in JobIds : LockChain(s, c) \/ Acquire(s, c)
         \/ \E C \in SUBSET JobIds, cascade \in BOOLEAN : DeleteChains(s, C, cascade)
         \/ ChainLocked(s) \/ RefetchJobLocked(s)
         \/ RenewLease(s) \/ Reschedule(s) \/ FinishChain(s) \/ Unblock(s) \/ Rollback(s)
  PROVE  WInv'
<1>0. /\ IInv /\ tx[s] \in Transaction /\ Stages(tx[s])
      /\ tx \in [Workers -> Transaction]
    BY DEF WInv, IInv, Sound
<1>13. tx[s].pc \in {"idle", "lockChain"} => tx[s].created = NULL
    BY <1>0 DEF Stages, NoTransaction
<1>1. ASSUME NEW c \in JobIds, LockChain(s, c) PROVE WInv'
  <2>1. tx[s].created = NULL /\ IInv' /\ job' = job
      BY <1>0, <1>1, <1>13, LockChainStep DEF LockChain, At
  <2>2. tx'[s].created = NULL /\ tx'[s].pc = "lockChain" /\ \A u \in Workers : u # s => tx'[u] = tx[u]
      BY <1>0, <1>1, <2>1 DEF LockChain, Transaction
  <2> QED BY <2>1, <2>2, NothingCreated
<1>2. ASSUME NEW C \in SUBSET JobIds, NEW cascade \in BOOLEAN, DeleteChains(s, C, cascade)
      PROVE  WInv'
  <2>1. tx[s].created = NULL /\ IInv' /\ job' = job
      BY <1>0, <1>2, <1>13, DeleteChainsStep DEF DeleteChains, At
  <2>2. tx'[s].created = NULL /\ tx'[s].pc = "delete" /\ \A u \in Workers : u # s => tx'[u] = tx[u]
      BY <1>0, <1>2, <2>1 DEF DeleteChains, Transaction
  <2> QED BY <2>1, <2>2, NothingCreated
<1>3. ASSUME NEW j \in JobIds, tx[s].pc \in {"idle", "lockChain"}, IInv', job' = job,
             tx' = [tx EXCEPT ![s] = Handle(@, j)]
      PROVE  WInv'
  <2>1. tx[s].created = NULL
      BY <1>3, <1>13
  <2>2. /\ tx'[s].created = NULL /\ tx'[s].subject = j
        /\ \A u \in Workers : u # s => tx'[u] = tx[u]
      BY <1>0, <1>3, <2>1 DEF Handle, Transaction
  <2> QED BY <1>3, <2>2, NullIsNoId, NothingCreated
<1>4. ASSUME ChainLocked(s) PROVE WInv'
  <2>1. PICK j \in tx[s].target : tx' = [tx EXCEPT ![s] = Handle(@, j)]
      BY <1>4 DEF ChainLocked
  <2>2. j \in JobIds /\ tx[s].pc = "lockChain" /\ job' = job /\ IInv'
      BY <1>0, <1>4, ChainLockedStep DEF ChainLocked, At, Transaction
  <2> QED BY <1>3, <2>1, <2>2
<1>5. ASSUME RefetchJobLocked(s) PROVE WInv'
  <2>1. /\ attempt[s] \in JobIds /\ tx[s].pc = "idle" /\ job' = job /\ IInv'
        /\ tx' = [tx EXCEPT ![s] = Handle(@, attempt[s])]
      BY <1>0, <1>5, RefetchJobLockedStep DEF RefetchJobLocked, At, IInv
  <2> QED BY <1>3, <2>1
<1>6. ASSUME NEW j \in JobIds, Acquire(s, j) PROVE WInv'
  <2> DEFINE row == AcquireJob(job, j)[j]
  <2>1. /\ tx[s].created = NULL /\ IInv' /\ job' = job
        /\ tx' = [tx EXCEPT ![s] = [Handle(@, j) EXCEPT !.own[j] = row]]
    <3>1. IInv' /\ tx[s].pc = "idle"
        BY <1>0, <1>6, AcquireStep DEF Acquire, At
    <3>2. job' = job /\ tx' = [tx EXCEPT ![s] = [Handle(@, j) EXCEPT !.own[j] = row]]
        BY <1>6 DEF Acquire
    <3> QED BY <1>13, <3>1, <3>2
  <2> HIDE DEF row
  <2>2. /\ tx'[s].created = NULL /\ tx'[s].subject = j
        /\ \A u \in Workers : u # s => tx'[u] = tx[u]
      BY <1>0, <2>1 DEF Handle, Transaction
  <2> QED BY <2>1, <2>2, NullIsNoId, NothingCreated
<1>7. ASSUME At(s, "handler"), IInv', job' = job, \A u \in Workers : u # s => tx'[u] = tx[u],
             tx'[s].created = tx[s].created, tx'[s].subject = tx[s].subject
      PROVE  WInv'
  <2>1. tx[s].created = NULL /\ tx[s].subject # NULL
      BY <1>0, <1>7 DEF At, Stages
  <2> QED BY <1>7, <2>1, NothingCreated
<1>8. ASSUME RenewLease(s) PROVE WInv'
  <2>1. At(s, "handler") /\ IInv' /\ job' = job
      BY <1>0, <1>8, RenewLeaseStep DEF RenewLease
  <2>2. /\ tx'[s].created = tx[s].created /\ tx'[s].subject = tx[s].subject
        /\ \A u \in Workers : u # s => tx'[u] = tx[u]
      BY <1>0, <1>8 DEF RenewLease, Transaction
  <2> QED BY <1>7, <2>1, <2>2
<1>9. ASSUME Reschedule(s) PROVE WInv'
  <2>1. At(s, "handler") /\ IInv' /\ job' = job
      BY <1>0, <1>9, RescheduleStep DEF Reschedule
  <2>2. /\ tx'[s].created = tx[s].created /\ tx'[s].subject = tx[s].subject
        /\ \A u \in Workers : u # s => tx'[u] = tx[u]
      BY <1>0, <1>9 DEF Reschedule, Transaction
  <2> QED BY <1>7, <2>1, <2>2
<1>10. ASSUME FinishChain(s) PROVE WInv'
  <2>1. At(s, "handler") /\ IInv' /\ job' = job
      BY <1>0, <1>10, FinishChainStep DEF FinishChain
  <2>2. /\ tx'[s].created = tx[s].created /\ tx'[s].subject = tx[s].subject
        /\ \A u \in Workers : u # s => tx'[u] = tx[u]
      BY <1>0, <1>10 DEF FinishChain, Transaction
  <2> QED BY <1>7, <2>1, <2>2
<1>11. ASSUME Unblock(s) PROVE WInv'
  <2>1. tx[s].pc = "unblock" /\ IInv' /\ job' = job
      BY <1>0, <1>11, UnblockStep DEF Unblock, At
  <2>2. /\ tx'[s].created = tx[s].created /\ tx'[s].subject = tx[s].subject
        /\ \A u \in Workers : u # s => tx'[u] = tx[u]
      BY <1>0, <1>11 DEF Unblock, Transaction
  <2>3. tx[s].created = NULL /\ \A j \in JobIds : ~Deleted(tx[s], j)
      BY <1>0, <2>1 DEF Stages
  <2>4. ASSUME NEW j \in JobIds PROVE ~Deleted(tx'[s], j)
    <3> DEFINE ready == {q \in tx[s].target : Tables(s)[q].status = "blocked"}
               row(q) == [Tables(s)[q] EXCEPT !.status = "pending"]
    <3>1. tx'[s].own[j] = IF j \in ready THEN row(j) ELSE tx[s].own[j]
        BY <1>0, <1>11 DEF Unblock, Transaction
    <3>2. row(j).status = "pending"
        BY <1>0, OwnTables DEF Job
    <3> HIDE DEF ready, row
    <3> QED BY <2>3, <3>1, <3>2 DEF Deleted
  <2>5. ChainKept(tx'[s], job)
      BY <1>0, <2>2, <2>3, <2>4 DEF ChainKept, IInv, ChainsCreated
  <2> QED BY <2>1, <2>2, <2>5, KeptStep
<1>12. ASSUME Rollback(s) PROVE WInv'
  <2>1. IInv' /\ job' = job
      BY <1>0, <1>12, RollbackStep DEF Rollback
  <2>2. /\ tx'[s].created = NULL /\ tx'[s].pc = "idle"
        /\ \A u \in Workers : u # s => tx'[u] = tx[u]
      BY <1>0, <1>12 DEF Rollback, NoTransaction
  <2> QED BY <2>1, <2>2, NothingCreated
<1> QED BY <1>1, <1>2, <1>4, <1>5, <1>6, <1>8, <1>9, <1>10, <1>11, <1>12

LEMMA StartChainKept ==
  ASSUME WInv, NEW s \in Workers, NEW q \in JobIds, NEW B \in BlockerSets, StartChain(s, q, B)
  PROVE  WInv'
<1> DEFINE js == CreateJob(Tables(s), q, q, 0, TRUE, NULL)
<1>1. /\ IInv /\ tx[s] \in Transaction /\ tx \in [Workers -> Transaction]
      /\ \A j \in JobIds : tx[s].own[j] = NULL
      /\ Tables(s) \in [JobIds -> Job]
    BY OwnTables DEF WInv, IInv, Sound, Stages, StartChain, At, NoTransaction
<1>2. js[q].chain = q /\ IInv' /\ job' = job /\ tx' = [tx EXCEPT ![s] = Create(@, js, q, B)]
    BY <1>1, StartChainStep DEF StartChain, CreateJob
<1> HIDE DEF js
<1>3. /\ tx'[s].created = q /\ tx'[s].own[q] = js[q]
      /\ \A u \in Workers : u # s => tx'[u] = tx[u]
    BY <1>1, <1>2 DEF Create, Transaction
<1>4. Stages(tx'[s]) /\ ChainsCreated(job)
    BY <1>1, <1>2 DEF IInv, Sound
<1>5. \A j \in JobIds : ~Deleted(tx'[s], j)
    BY <1>3, <1>4, NullIsNoId DEF Stages
<1>6. ChainKept(tx'[s], job)
    BY <1>2, <1>3, <1>4, <1>5 DEF ChainKept, ChainsCreated
<1> QED BY <1>2, <1>3, <1>6, KeptStep

LEMMA ContinueWithKept ==
  ASSUME WInv, NEW s \in Workers, NEW q \in JobIds, NEW B \in BlockerSets, ContinueWith(s, q, B)
  PROVE  WInv'
<1> DEFINE j == tx[s].subject
           completed == CompleteJob(Tables(s), j)
           c == completed[j].chain
           js == CreateJob(completed, q, c, completed[j].index + 1, TRUE, NULL)
           lock == WithLocks(tx[s].lock, {c}, "share")
           t == [tx[s] EXCEPT !.own[j] = js[j], !.lock = WithLocks(@, {c}, "share")]
           v == Create(t, js, q, B)
<1>0. IInv /\ At(s, "handler") /\ IInv' /\ job' = job /\ ChainsDeletedWhole
    BY ContinueWithStep DEF WInv, ContinueWith
<1>1. tx' = [tx EXCEPT ![s] = v]
    BY DEF ContinueWith
<1>2. /\ tx[s] \in Transaction /\ tx \in [Workers -> Transaction] /\ job \in [JobIds -> Job]
      /\ j \in JobIds /\ Exists(job, j)
      /\ completed \in [JobIds -> Job] /\ completed[j].chain = job[j].chain
    BY <1>0, SubjectRow, CompletedRow DEF IInv
<1>3. c \in Roots(job) /\ c \in JobIds
    BY <1>0, <1>2 DEF ChainsDeletedWhole, Roots
<1> HIDE DEF completed, c
<1>4. js[q].chain = c
    BY <1>2 DEF CreateJob
<1>5. lock \in [JobIds -> LockMode] /\ lock[c] # "none"
    BY <1>2, <1>3, LocksTaken DEF Transaction, LockMode
<1> HIDE DEF js, lock
<1>6. /\ v.created = q /\ v.own[q] = js[q] /\ v.lock = lock
    BY <1>2 DEF Create, Transaction, lock
<1>7. tx'[s] = v /\ \A u \in Workers : u # s => tx'[u] = tx[u]
    BY <1>1, <1>2
<1> HIDE DEF v
<1>8. Stages(v) /\ ChainsCreated(job)
    BY <1>0, <1>7 DEF IInv, Sound
<1>9. \A i \in JobIds : ~Deleted(v, i)
    BY <1>6, <1>8, NullIsNoId DEF Stages
<1>10. ChainKept(v, job)
    BY <1>3, <1>4, <1>5, <1>6, <1>8, <1>9 DEF ChainKept, ChainsCreated
<1> QED BY <1>0, <1>7, <1>10, KeptStep

LEMMA AddJobsBlockersKept ==
  ASSUME WInv, NEW s \in Workers, AddJobsBlockers(s)
  PROVE  WInv'
<1> DEFINE t == tx[s]
           v == tx'[s]
           lock == WithLocks(WithLocks(t.lock, t.target, "update"), t.waits, "share")
<1>1. /\ IInv /\ IInv' /\ job' = job /\ t \in Transaction /\ tx \in [Workers -> Transaction]
      /\ t.created # NULL /\ t.created \in JobIds /\ ChainsCreated(job)
      /\ t.own[t.created] # NULL /\ t.own[t.created] \in Job
      /\ ChainKept(t, job)
  <2>1. IInv /\ IInv' /\ job' = job /\ ChainsCreated(job) /\ ChainKept(t, job)
      BY AddJobsBlockersStep DEF WInv, AddJobsBlockers, IInv
  <2>2. /\ t \in Transaction /\ tx \in [Workers -> Transaction] /\ t.created # NULL
        /\ Creation(t, job)
      BY <2>1 DEF AddJobsBlockers, At, IInv, Sound, Stages
  <2> QED BY <2>1, <2>2 DEF Creation, Transaction
<1>2. /\ v.created = t.created /\ v.lock = lock
      /\ v.own[t.created].chain = t.own[t.created].chain
      /\ \A u \in Workers : u # s => tx'[u] = tx[u]
    BY <1>1 DEF AddJobsBlockers, Transaction, Job
<1>3. ASSUME NEW c \in JobIds, t.lock[c] # "none" PROVE lock[c] # "none"
  <2> DEFINE first == WithLocks(t.lock, t.target, "update")
  <2>1. first \in [JobIds -> LockMode] /\ first[c] # "none"
      BY <1>1, <1>3, LocksTaken DEF Transaction, LockMode
  <2> HIDE DEF first
  <2>2. WithLocks(first, t.waits, "share")[c] # "none"
      BY <2>1, LocksTaken DEF LockMode
  <2> QED BY <2>2 DEF first
<1> HIDE DEF lock
<1>4. \A j \in JobIds : ~Deleted(v, j)
    BY <1>1, <1>2 DEF IInv, Sound, Stages
<1>5. ChainKept(v, job)
    BY <1>1, <1>2, <1>3, <1>4 DEF ChainKept, ChainsCreated, Roots
<1> QED BY <1>1, <1>2, <1>5, KeptStep

LEMMA DeleteLockedKept ==
  ASSUME WInv, NEW s \in Workers, DeleteLocked(s)
  PROVE  WInv'
<1> DEFINE t == tx[s]
           D == {j \in t.target : Exists(job, j)}
           gone == [NoJob EXCEPT !.status = "deleted"]
           own == [j \in JobIds |-> IF j \in D THEN gone ELSE t.own[j]]
<1>1. /\ IInv /\ IInv' /\ job' = job /\ t \in Transaction /\ tx \in [Workers -> Transaction]
      /\ ChainsCreated(job) /\ t.created = NULL /\ \A j \in JobIds : t.own[j] = NULL
  <2>1. IInv /\ IInv' /\ job' = job
      BY DeleteLockedStep DEF WInv, DeleteLocked
  <2>2. t \in Transaction /\ Stages(t) /\ t.pc = "delete"
      BY <2>1 DEF IInv, Sound, DeleteLocked, At
  <2>3. t.created = NULL /\ \A j \in JobIds : t.own[j] = NULL
      BY <2>2 DEF Stages, NoTransaction
  <2> QED BY <2>1, <2>2, <2>3 DEF IInv
<1>2. /\ ForeignKeyHolds(D) /\ tx'[s].own = own /\ tx'[s].created = NULL
      /\ \A u \in Workers : u # s => tx'[u] = tx[u]
    BY <1>1 DEF DeleteLocked, Transaction
<1>3. gone.status = "deleted" /\ gone # NULL
  <2>1. NoJob \in Job
      BY DEF NoJob, Job, JobStatus
  <2>2. gone \in Job /\ gone.status = "deleted"
      BY <2>1 DEF Job, JobStatus
  <2> QED BY <2>2, NullIsNoRow
<1> HIDE DEF gone, D
<1>4. \A j \in JobIds : Deleted(tx'[s], j) <=> j \in D
    BY <1>1, <1>2, <1>3 DEF Deleted
<1>5. ChainKept(tx'[s], job)
    BY <1>1, <1>2, <1>4 DEF ChainKept, ForeignKeyHolds, ChainsCreated
<1> QED BY <1>1, <1>2, <1>5, KeptStep

LEMMA ReapKept ==
  ASSUME WInv, NEW s \in Workers, NEW j \in JobIds, Reap(s, j)
  PROVE  WInv'
<1>1. /\ IInv /\ IInv' /\ job \in [JobIds -> Job] /\ tx' = tx /\ job[j].status = "running"
      /\ job' = [job EXCEPT ![j] = [job[j] EXCEPT !.leasedBy = NULL, !.lease = "none",
                                                  !.status = "pending"]]
    BY ReapStep DEF WInv, IInv, Reap, ReapJobLease
<1>2. \A k \in JobIds : job'[k].chain = job[k].chain /\ (Exists(job', k) <=> Exists(job, k))
    BY <1>1 DEF Job, Exists
<1>3. Roots(job') = Roots(job)
    BY <1>2 DEF Roots
<1> HIDE DEF Exists
<1>4. ChainsDeletedWhole'
    BY <1>2, <1>3 DEF WInv, ChainsDeletedWhole
<1>5. \A u \in Workers : ChainKept(tx[u], job')
    BY <1>2, <1>3 DEF WInv, ChainKept
<1> QED BY <1>1, <1>4, <1>5 DEF WInv

LEMMA CommitKept ==
  ASSUME WInv, NEW s \in Workers, Commit(s)
  PROVE  WInv'
<1> DEFINE t == tx[s]
<1>1. /\ IInv /\ IInv' /\ ChainsDeletedWhole /\ ChainKept(t, job) /\ Stages(t)
      /\ ChainsCreated(job) /\ ChainsCreated(job')
      /\ tx'[s] = NoTransaction /\ \A u \in Workers : u # s => tx'[u] = tx[u]
    BY CommitStep DEF WInv, IInv, Sound, Commit
<1>2. ASSUME NEW c \in Roots(job), ~Deleted(t, c)
      PROVE  c \in Roots(job')
  <2>1. c \in JobIds /\ Exists(job, c) /\ job[c].chain = c /\ c # t.created
      BY <1>1, <1>2, Committed DEF Roots, Exists
  <2> QED BY <1>1, <1>2, <2>1, Committed DEF Roots, Exists
<1>3. ASSUME NEW j \in JobIds, Exists(job', j)
      PROVE  job'[j].chain \in Roots(job')
  <2>1. CASE j # t.created
    <3>1. Exists(job, j) /\ job'[j].chain = job[j].chain
        BY <1>1, <1>3, <2>1, CommittedRow
    <3>2. ~Deleted(t, j)
        BY <1>1, <1>3, <2>1, Committed DEF Deleted
    <3>3. job[j].chain \in Roots(job) /\ ~Deleted(t, job[j].chain)
        BY <1>1, <3>1, <3>2 DEF ChainsDeletedWhole, ChainKept
    <3> QED BY <1>2, <3>1, <3>3
  <2>2. CASE j = t.created
    <3>1. t.created # NULL /\ job'[j] = t.own[j] /\ \A k \in JobIds : ~Deleted(t, k)
        BY <1>1, <2>2, NullIsNoId, Committed DEF Stages
    <3>2. CASE t.own[j].chain = j
        BY <1>3, <3>1, <3>2 DEF Roots
    <3>3. CASE t.own[j].chain # j
      <4>1. t.own[j].chain \in Roots(job)
          BY <1>1, <2>2, <3>1, <3>3 DEF ChainKept
      <4> QED BY <1>2, <3>1, <4>1 DEF Roots
    <3> QED BY <3>2, <3>3
  <2> QED BY <2>1, <2>2
<1>4. ASSUME NEW u \in Workers, u # s
      PROVE  ChainKept(tx[u], job')
  <2> DEFINE v == tx[u]
  <2>1. /\ ChainKept(v, job) /\ Sound(v, job, blocker) /\ Apart(t, v) /\ v \in Transaction
        /\ Sound(t, job, blocker) /\ t \in Transaction
      BY <1>1, <1>4 DEF WInv, IInv
  <2>2. ASSUME NEW c \in JobIds, Deleted(v, c)
        PROVE  v.lock[c] = "update" /\ Exists(job, c)
    <3>1. c # v.created
        BY <2>1, <2>2, NullIsNoId DEF Sound, Creation, Deleted
    <3> QED BY <2>1, <2>2, <3>1 DEF Sound, Writes, Deleted
  <2>3. ASSUME NEW j \in JobIds, Exists(job', j), Deleted(v, job'[j].chain)
        PROVE  Deleted(v, j)
    <3>1. job'[j].chain \in JobIds
        BY <1>1, <2>3 DEF ChainsCreated
    <3>2. v.lock[job'[j].chain] = "update" /\ Exists(job, job'[j].chain)
        BY <2>2, <2>3, <3>1
    <3>3. CASE j # t.created
      <4>1. Exists(job, j) /\ job'[j].chain = job[j].chain
          BY <1>1, <2>3, <3>3, CommittedRow
      <4> QED BY <2>1, <2>3, <4>1 DEF ChainKept
    <3>4. CASE j = t.created
      <4>1. t.created # NULL /\ job'[j] = t.own[j] /\ job[j].status = "absent"
          BY <1>1, <3>4, NullIsNoId, Committed
      <4>2. t.own[j].chain # j
          BY <3>2, <4>1 DEF Exists
      <4>3. t.lock[job'[j].chain] # "none"
          BY <1>1, <3>4, <4>1, <4>2 DEF ChainKept
      <4>4. Compatible(t.lock[job'[j].chain], v.lock[job'[j].chain])
          BY <2>1, <3>1 DEF Apart
      <4> QED BY <3>2, <4>3, <4>4 DEF Compatible
    <3> QED BY <3>3, <3>4
  <2>4. ASSUME v.created # NULL, v.own[v.created].chain # v.created
        PROVE  /\ v.own[v.created].chain \in Roots(job')
               /\ v.lock[v.own[v.created].chain] # "none"
    <3> DEFINE c == v.own[v.created].chain
    <3>1. c \in Roots(job) /\ c \in JobIds /\ v.lock[c] # "none"
        BY <2>1, <2>4 DEF ChainKept, Roots
    <3>2. ~Deleted(t, c)
      <4>1. SUFFICES ASSUME Deleted(t, c) PROVE FALSE
          OBVIOUS
      <4>2. c # t.created
          BY <1>1, <3>1, <4>1, Committed
      <4>3. t.lock[c] = "update"
          BY <2>1, <3>1, <4>1, <4>2 DEF Sound, Writes, Deleted
      <4>4. Compatible(t.lock[c], v.lock[c])
          BY <2>1, <3>1 DEF Apart
      <4> QED BY <3>1, <4>3, <4>4 DEF Compatible
    <3> QED BY <1>2, <3>1, <3>2
  <2> QED BY <2>3, <2>4 DEF ChainKept
<1>5. ChainKept(NoTransaction, job')
  <2>1. NoTransaction.created = NULL /\ \A j \in JobIds : ~Deleted(NoTransaction, j)
      BY DEF NoTransaction, Deleted
  <2> QED BY <1>1, <2>1 DEF ChainKept, ChainsCreated
<1>6. \A u \in Workers : ChainKept(tx'[u], job')
    BY <1>1, <1>4, <1>5
<1>7. ChainsDeletedWhole'
    BY <1>3 DEF ChainsDeletedWhole
<1> QED BY <1>1, <1>6, <1>7 DEF WInv

LEMMA InitKept == Init => WInv
<1> SUFFICES ASSUME Init PROVE WInv
    OBVIOUS
<1>1. IInv /\ \A j \in JobIds : ~Exists(job, j)
    BY InitInv DEF Init, NoJob, Exists
<1>2. \A s \in Workers : tx[s] = NoTransaction
    BY DEF Init
<1> QED BY <1>1, <1>2 DEF WInv, ChainsDeletedWhole, ChainKept, NoTransaction

LEMMA NextKept == WInv /\ [Next]_vars => WInv'
<1> SUFFICES ASSUME WInv, [Next]_vars PROVE WInv'
    OBVIOUS
<1>1. CASE UNCHANGED vars
  <2>1. IInv'
      BY <1>1, NextInv DEF WInv
  <2> QED BY <1>1, <2>1 DEF vars, WInv, ChainsDeletedWhole
<1>2. ASSUME NEW s \in Workers, NEW q \in JobIds, NEW B \in BlockerSets,
             StartChain(s, q, B) \/ ContinueWith(s, q, B)
      PROVE  WInv'
    BY <1>2, StartChainKept, ContinueWithKept
<1>3. ASSUME NEW s \in Workers, NEW j \in JobIds, LockChain(s, j) \/ Acquire(s, j) \/ Reap(s, j)
      PROVE  WInv'
    BY <1>3, WorkKept, ReapKept
<1>4. ASSUME NEW s \in Workers, NEW C \in SUBSET Roots(job), NEW cascade \in BOOLEAN,
             DeleteChains(s, C, cascade)
      PROVE  WInv'
  <2>1. C \in SUBSET JobIds
      BY DEF Roots
  <2> QED BY <1>4, <2>1, WorkKept
<1>5. ASSUME NEW s \in Workers, EndAttempt(s) PROVE WInv'
  <2>1. IInv' /\ UNCHANGED <<job, tx>>
      BY <1>5, EndAttemptStep DEF WInv, EndAttempt
  <2> QED BY <2>1 DEF WInv, ChainsDeletedWhole
<1>6. ASSUME NEW s \in Workers,
             \/ ChainLocked(s) \/ RefetchJobLocked(s)
             \/ RenewLease(s) \/ Reschedule(s) \/ FinishChain(s) \/ Unblock(s) \/ Rollback(s)
      PROVE  WInv'
    BY <1>6, WorkKept
<1>7. ASSUME NEW s \in Workers, AddJobsBlockers(s) \/ DeleteLocked(s) \/ Commit(s)
      PROVE  WInv'
    BY <1>7, AddJobsBlockersKept, DeleteLockedKept, CommitKept
<1> QED BY <1>1, <1>2, <1>3, <1>4, <1>5, <1>6, <1>7 DEF Next

(* No job outlives the root of its chain, for any number of sessions:      *)
(* deleteChains locks and deletes the rows of a snapshot, and the foreign  *)
(* key of chain_id makes it wait for, or refuses it beside, a job that was *)
(* added to the chain since (postgres/src/state-adapter/sql.ts:58).        *)
THEOREM DeletionTakesChains == Spec => []ChainsDeletedWhole
<1>1. WInv => ChainsDeletedWhole
    BY DEF WInv
<1> QED BY <1>1, InitKept, NextKept, PTL DEF Spec
=============================================================================
