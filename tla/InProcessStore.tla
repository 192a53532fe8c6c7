-------------------------- MODULE InProcessStore --------------------------
(***************************************************************************)
(* The storage of the in-process state adapter                             *)
(* (core/src/state-adapter/state-adapter.in-process.ts): the job map, the  *)
(* ten indices kept beside it, the journal a transaction writes and the    *)
(* rollback that reads it backwards.                                       *)
(*                                                                         *)
(* An operation is synchronous: it looks its jobs up in the indices and    *)
(* writes a sequence of journal entries.  One transaction at a time holds  *)
(* the write lock; an operation called outside a transaction writes the    *)
(* same entries and no journal.  Rows are immutable objects: an index      *)
(* holds the row it was given, which may be an old version of the job.     *)
(*                                                                         *)
(* Left out: payloads, attempt counters, chain type names (of which there  *)
(* is one), creation times (all equal, so root jobs are ordered by their   *)
(* sequence numbers) and the order of a job's blockers.                    *)
(***************************************************************************)
EXTENDS Integers, SequencesExt

CONSTANTS
  JobIds, Types, Keys, NULL,
  Delays,         \* bound: how far ahead jobs are scheduled, 0 or 1
  MaxNow,         \* bound: of the clock
  MaxEntries,     \* bound: entries in the journal
  MaxSavepoints,  \* bound: nesting of savepoints
  MaxBlockers     \* bound: blockers given to one job

ASSUME BoundsType == {MaxNow, MaxEntries, MaxSavepoints, MaxBlockers} \subseteq Nat
ASSUME DelaysType == Delays \subseteq {0, 1}
ASSUME FiniteIds == IsFiniteSet(JobIds)

VARIABLES
  ix,       \* the job map, the indices and the blocker maps
  journal,  \* the entries of the open transaction
  marks,    \* journal lengths at withTransaction and each withSavepoint
  saved,    \* ghost: what ix was at each of the marks
  now

vars == <<ix, journal, marks, saved, now>>

(* A null leasedUntil compares as Infinity, behind every lease.            *)
Unleased == MaxNow + 2

Row ==
  [id : JobIds, type : Types, chain : JobIds, index : Nat,
   status : {"blocked", "pending", "running", "completed"},
   scheduledAt : 0 .. MaxNow + 1, leasedUntil : 0 .. Unleased, key : Keys \cup {NULL}]

ASSUME NullIsNoValue == NULL \notin Row \cup JobIds \cup Keys

IsRoot(job) == job.id = job.chain

Store ==
  [jobs : [JobIds -> Row \cup {NULL}],
   seqs : Seq(JobIds),            \* seqByJobId: ids by ascending number
   pending : [Types -> Seq(Row)], running : [Types -> Seq(Row)],
   byChain : [JobIds -> SUBSET Row], last : [JobIds -> Row \cup {NULL}],
   roots : Seq(Row), dedup : [Keys -> SUBSET Row],
   blockers : [JobIds -> SUBSET JobIds], blockedBy : [JobIds -> SUBSET JobIds]]

EmptyStore ==
  [jobs |-> [j \in JobIds |-> NULL], seqs |-> <<>>,
   pending |-> [t \in Types |-> <<>>], running |-> [t \in Types |-> <<>>],
   byChain |-> [c \in JobIds |-> {}], last |-> [c \in JobIds |-> NULL],
   roots |-> <<>>, dedup |-> [k \in Keys |-> {}],
   blockers |-> [j \in JobIds |-> {}], blockedBy |-> [c \in JobIds |-> {}]]

Init ==
  /\ ix = EmptyStore
  /\ journal = <<>> /\ marks = <<>> /\ saved = <<>>
  /\ now = 0

-----------------------------------------------------------------------------
(* SortedSet, with the comparators on a time and the sequence number.      *)

Seq0(seqs, id) == IF id \in ToSet(seqs) THEN CHOOSE i \in DOMAIN seqs : seqs[i] = id ELSE 0

(* Rows are created at one instant: among the roots only the number counts.*)
Time(by, job) == IF by = "createdAt" THEN 0 ELSE job[by]

Earlier(seqs, by, a, b) ==
  \/ Time(by, a) < Time(by, b)
  \/ Time(by, a) = Time(by, b) /\ Seq0(seqs, a.id) < Seq0(seqs, b.id)

(* lowerBound: binary search for the first item not before job.  A round   *)
(* halves the window from lo to hi; there are at most as many as items.    *)
Narrowed(seqs, by, items, job, w) ==
  LET mid == (w.lo + w.hi) \div 2 IN
    IF w.lo >= w.hi THEN w
    ELSE IF Earlier(seqs, by, items[mid + 1], job) THEN [w EXCEPT !.lo = mid + 1]
    ELSE [w EXCEPT !.hi = mid]

LowerBound(seqs, by, items, job) ==
  LET window[n \in 0 .. Len(items)] ==
        IF n = 0 THEN [lo |-> 0, hi |-> Len(items)]
        ELSE Narrowed(seqs, by, items, job, window[n - 1])
  IN  window[Len(items)].lo

Inserted(seqs, by, items, job) ==
  InsertAt(items, LowerBound(seqs, by, items, job) + 1, job)

Deleted(seqs, by, items, job) ==
  LET i == LowerBound(seqs, by, items, job) + 1 IN
  IF i <= Len(items) /\ items[i].id = job.id /\ Time(by, items[i]) = Time(by, job)
  THEN RemoveAt(items, i) ELSE items

-----------------------------------------------------------------------------
(* The indices, for one row.                                               *)

IndexInsertJob(s, job) ==
  LET seqs == IF job.id \in ToSet(s.seqs) THEN s.seqs ELSE Append(s.seqs, job.id) IN
  [s EXCEPT
     !.seqs = seqs,
     !.pending[job.type] = IF job.status = "pending"
                           THEN Inserted(seqs, "scheduledAt", @, job) ELSE @,
     !.running[job.type] = IF job.status = "running"
                           THEN Inserted(seqs, "leasedUntil", @, job) ELSE @,
     !.byChain[job.chain] = {r \in @ : r.index # job.index} \cup {job},
     !.last[job.chain] = IF @ = NULL \/ job.index > @.index THEN job ELSE @,
     !.roots = IF IsRoot(job) THEN Inserted(seqs, "createdAt", @, job) ELSE @,
     !.dedup = [k \in Keys |-> IF IsRoot(job) /\ job.key = k
                               THEN @[k] \cup {job} ELSE @[k]]]

HighestIndex(rows) ==
  IF rows = {} THEN NULL ELSE CHOOSE r \in rows : \A q \in rows : q.index <= r.index

IndexRemoveJob(s, job) ==
  LET left == {r \in s.byChain[job.chain] : r.index # job.index \/ r.id # job.id} IN
  [s EXCEPT
     !.pending[job.type] = IF job.status = "pending"
                           THEN Deleted(s.seqs, "scheduledAt", @, job) ELSE @,
     !.running[job.type] = IF job.status = "running"
                           THEN Deleted(s.seqs, "leasedUntil", @, job) ELSE @,
     !.byChain[job.chain] = left,
     !.last[job.chain] = IF @ # NULL /\ @.id = job.id THEN HighestIndex(left) ELSE @,
     !.roots = IF IsRoot(job) THEN Deleted(s.seqs, "createdAt", @, job) ELSE @,
     !.dedup = [k \in Keys |-> IF IsRoot(job) /\ job.key = k
                               THEN @[k] \ {job} ELSE @[k]]]

Unnumbered(seqs, id) ==
  IF id \in ToSet(seqs) THEN RemoveAt(seqs, Seq0(seqs, id)) ELSE seqs

(* The job map loses the row, and the row its sequence number.             *)
Forget(s, id) == [s EXCEPT !.jobs[id] = NULL, !.seqs = Unnumbered(@, id)]

ReplaceAnew(s, from, to) ==       \* mutation: an update renumbers the job
  LET removed == IF from = NULL THEN s ELSE Forget(IndexRemoveJob(s, from), from.id) IN
  IF to # NULL THEN IndexInsertJob([removed EXCEPT !.jobs[to.id] = to], to) ELSE removed

Replace(s, from, to) ==
  LET removed == IF from = NULL THEN s ELSE IndexRemoveJob(s, from) IN
  IF to # NULL THEN IndexInsertJob([removed EXCEPT !.jobs[to.id] = to], to)
  ELSE IF from # NULL THEN Forget(removed, from.id) ELSE removed

(* The two maps of the blocker table.                                      *)
PutBlocker(s, q, c, present) ==
  IF present
  THEN [s EXCEPT !.blockers[q] = @ \cup {c}, !.blockedBy[c] = @ \cup {q}]
  ELSE [s EXCEPT !.blockers[q] = @ \ {c}, !.blockedBy[c] = @ \ {q}]

-----------------------------------------------------------------------------
(* The journal.                                                            *)

JobEntry(prev, next) == [kind |-> "job", prev |-> prev, next |-> next]

BlockerEntry(q, c, prev, next) ==
  [kind |-> "blocker", job |-> q, chain |-> c, prev |-> prev, next |-> next]

(* writeJob and writeBlocker.                                              *)
Write(s, e) ==
  IF e.kind = "job" THEN Replace(s, e.prev, e.next)
  ELSE PutBlocker(s, e.job, e.chain, e.next)

UndoJobsOnly(s, e) ==             \* mutation: blocker entries are skipped
  IF e.kind = "job" THEN Replace(s, e.next, e.prev) ELSE s

(* What rollbackTo does with one entry.                                    *)
Undo(s, e) ==
  IF e.kind = "job" THEN Replace(s, e.next, e.prev)
  ELSE PutBlocker(s, e.job, e.chain, e.prev)

(* What s is after the entries are written, and ix after those behind the  *)
(* target are undone, the latest first.                                    *)
Written(s, entries) ==
  LET after[n \in 0 .. Len(entries)] ==
        IF n = 0 THEN s ELSE Write(after[n - 1], entries[n])
  IN  after[Len(entries)]

UndoInWriteOrder(target) ==       \* mutation: the oldest entry first
  LET after[n \in 0 .. Len(journal) - target] ==
        IF n = 0 THEN ix ELSE Undo(after[n - 1], journal[target + n])
  IN  after[Len(journal) - target]

RolledBackTo(target) ==
  LET after[n \in 0 .. Len(journal) - target] ==
        IF n = 0 THEN ix ELSE Undo(after[n - 1], journal[Len(journal) + 1 - n])
  IN  after[Len(journal) - target]

InTransaction == marks # <<>>

Perform(entries) ==
  /\ entries # <<>>
  /\ InTransaction => Len(journal) + Len(entries) <= MaxEntries
  /\ ix' = Written(ix, entries)
  /\ journal' = IF InTransaction THEN journal \o entries ELSE <<>>
  /\ UNCHANGED <<marks, saved, now>>

-----------------------------------------------------------------------------
(* Lookups: what the operations read from the indices.                     *)

JobsOf(s) == {j \in JobIds : s.jobs[j] # NULL}

(* findExistingContinuation.                                               *)
HasContinuation(s, c, i) == \E r \in s.byChain[c] : r.index = i /\ ~IsRoot(r)

DedupHitPending(s, key, scope) == \* mutation: only pending jobs are incomplete
  key # NULL /\ \E r \in s.dedup[key] : scope = "incomplete" => r.status = "pending"

(* findDeduplicatedJob, on the rows the key's set holds.                   *)
DedupHit(s, key, scope) ==
  key # NULL /\ \E r \in s.dedup[key] : scope = "incomplete" => r.status # "completed"

ChainCompleted(s, c) == s.last[c] # NULL /\ s.last[c].status = "completed"

FirstOf(items) == IF items = <<>> THEN NULL ELSE items[1]

(* The heads of the pending sets of the types T that are due.              *)
DueHeads(s, T) ==
  {r \in {FirstOf(s.pending[t]) : t \in T} : r # NULL /\ r.scheduledAt <= now}

(* acquireJob's choice: NULL when nothing is due.                          *)
BestJob(s, T) ==
  IF DueHeads(s, T) = {} THEN NULL
  ELSE CHOOSE r \in DueHeads(s, T) :
         \A q \in DueHeads(s, T) \ {r} : Earlier(s.seqs, "scheduledAt", r, q)

HasMoreSameType(s, T) ==          \* mutation: the other types are not asked
  LET set == s.pending[BestJob(s, T).type] IN
    Len(set) > 1 /\ set[2].scheduledAt <= now

HasMore(s, T) ==
  LET best == BestJob(s, T)
      set == s.pending[best.type]
  IN  \/ Len(set) > 1 /\ set[2].scheduledAt <= now
      \/ \E r \in DueHeads(s, T) : r.type # best.type

FirstExpiredHead(items, ignored) == \* mutation: stops at an ignored job
  IF items # <<>> /\ items[1].leasedUntil <= now /\ items[1].id \notin ignored
  THEN items[1] ELSE NULL

(* reapExpiredJobLease's scan of one running set: it stops at the first    *)
(* lease that has not expired and passes over the ignored jobs.            *)
FirstExpired(items, ignored) ==
  LET expired == {i \in DOMAIN items :
                    \A k \in 1 .. i : items[k].leasedUntil <= now}
      found == {i \in expired : items[i].id \notin ignored}
  IN  IF found = {} THEN NULL ELSE items[CHOOSE i \in found : \A k \in found : i <= k]

(* The candidate with the oldest lease; ties go to the type asked first.   *)
ReapCandidates(s, T, ignored) ==
  LET C == {FirstExpired(s.running[t], ignored) : t \in T} \ {NULL}
  IN  {r \in C : \A q \in C : r.leasedUntil <= q.leasedUntil}

(* expandChainIds: closes C under the blockers of root jobs.               *)
ExpandedChainIds(s, C) ==
  LET step[n \in 0 .. Cardinality(JobIds)] ==
        IF n = 0 THEN C
        ELSE step[n - 1] \cup UNION {s.blockers[c] : c \in step[n - 1]}
  IN  step[Cardinality(JobIds)]

(* findExternalBlockerRefs.                                                *)
ExternalRefs(s, C) ==
  {ref \in JobIds \X C :
     /\ ref[1] \in s.blockedBy[ref[2]]
     /\ s.jobs[ref[1]] # NULL /\ s.jobs[ref[1]].chain \notin C}

-----------------------------------------------------------------------------
(* Operations.                                                             *)

NewRow(id, type, chain, index, at, key) ==
  [id |-> id, type |-> type, chain |-> chain, index |-> index, status |-> "pending",
   scheduledAt |-> at, leasedUntil |-> Unleased, key |-> key]

ScheduleTimes == {now + d : d \in Delays}

(* createJobs for one job; a batch is a sequence of these.  The id is one  *)
(* that no job has: generated, or given by the caller.                     *)
CreateRoot(id, type, at, key, scope) ==
  /\ ix.jobs[id] = NULL
  /\ ~DedupHit(ix, key, scope)
  /\ Perform(<<JobEntry(NULL, NewRow(id, type, id, 0, at, key))>>)

CreateContinuation(id, type, c, i, at) ==
  /\ ix.jobs[id] = NULL
  /\ ~HasContinuation(ix, c, i)
  /\ Perform(<<JobEntry(NULL, NewRow(id, type, c, i, at, NULL))>>)

CreateJobs ==
  \E id \in JobIds, type \in Types, at \in ScheduleTimes :
    \/ \E key \in Keys \cup {NULL}, scope \in {"incomplete", "any"} :
         CreateRoot(id, type, at, key, scope)
    \/ \E j \in JobsOf(ix) :
         CreateContinuation(id, type, ix.jobs[j].chain, ix.jobs[j].index + 1, at)

BlockerEntries(q, B) ==
  LET new == SetToSeq(B) IN
    [i \in DOMAIN new |-> BlockerEntry(q, new[i], new[i] \in ix.blockers[q], TRUE)]

(* addJobsBlockers for one job, called after its creation.                 *)
AddJobBlockersOf(q, B) ==
  LET job == ix.jobs[q]
      waits == \E c \in B : ~ChainCompleted(ix, c)
  IN  Perform(BlockerEntries(q, B) \o
              IF waits /\ job.status = "pending"
              THEN <<JobEntry(job, [job EXCEPT !.status = "blocked"])>> ELSE <<>>)

AddJobsBlockers ==
  \E q \in JobsOf(ix), B \in SUBSET JobsOf(ix) :
    /\ ix.jobs[q].status = "pending" /\ ix.blockers[q] = {}
    /\ \A c \in B : IsRoot(ix.jobs[c])
    /\ Cardinality(B) \in 1 .. MaxBlockers
    /\ AddJobBlockersOf(q, B)

Unblocked(s, c) ==
  {q \in s.blockedBy[c] :
     /\ c \in s.blockers[q] /\ s.jobs[q] # NULL /\ s.jobs[q].status = "blocked"
     /\ \A b \in s.blockers[q] : ChainCompleted(s, b)}

ClampToFloor(t) == IF t > now THEN t ELSE now

UnblockJobsOf(c) ==
  LET ready == SetToSeq(Unblocked(ix, c))
      Ready(job) == [job EXCEPT !.status = "pending", !.scheduledAt = ClampToFloor(@)]
  IN  Perform([i \in DOMAIN ready |->
                 JobEntry(ix.jobs[ready[i]], Ready(ix.jobs[ready[i]]))])

UnblockJobs == \E c \in JobIds : UnblockJobsOf(c)

Update(job, new) == Perform(<<JobEntry(job, new)>>)

AcquireJob ==
  \E T \in SUBSET Types :
    LET job == BestJob(ix, T) IN
      job # NULL /\ Update(job, [job EXCEPT !.status = "running"])

(* The next three look the job up by id and do not look at its state; the  *)
(* attempt that calls them has checked it.                                 *)
RenewJobLease ==
  \E j \in JobsOf(ix) :
    /\ ix.jobs[j].status = "running"
    /\ Update(ix.jobs[j], [ix.jobs[j] EXCEPT !.leasedUntil = now + 1])

RescheduleJob ==
  \E j \in JobsOf(ix), at \in ScheduleTimes :
    /\ ix.jobs[j].status = "running"
    /\ Update(ix.jobs[j], [ix.jobs[j] EXCEPT !.status = "pending", !.scheduledAt = at,
                                             !.leasedUntil = Unleased])

CompleteJob ==
  \E j \in JobsOf(ix) :
    /\ ix.jobs[j].status # "completed"
    /\ Update(ix.jobs[j], [ix.jobs[j] EXCEPT !.status = "completed",
                                             !.leasedUntil = Unleased])

ReapExpiredJobLease ==
  \E T \in SUBSET Types, ignored \in SUBSET JobsOf(ix) :
    \E job \in ReapCandidates(ix, T, ignored) :
      Update(job, [job EXCEPT !.status = "pending", !.leasedUntil = Unleased])

DeleteEntries(job) ==
  LET B == SetToSeq(ix.blockers[job.id]) IN
    [i \in DOMAIN B |-> BlockerEntry(job.id, B[i], TRUE, FALSE)]
    \o <<JobEntry(job, NULL)>>

DeleteChains ==
  \E C \in SUBSET JobIds, cascade \in BOOLEAN :
    LET E == IF cascade THEN ExpandedChainIds(ix, C) ELSE C
        rows == SetToSeq(UNION {ix.byChain[c] : c \in E})
    IN  /\ ExternalRefs(ix, E) = {}
        /\ Perform(FlattenSeq([i \in DOMAIN rows |-> DeleteEntries(rows[i])]))

TriggerJobs ==
  \E J \in SUBSET JobsOf(ix) :
    LET rows == SetToSeq({ix.jobs[j] : j \in J}) IN
      /\ \A j \in J : ix.jobs[j].status = "pending"
      /\ Perform([i \in DOMAIN rows |->
                    JobEntry(rows[i], [rows[i] EXCEPT !.scheduledAt = now])])

-----------------------------------------------------------------------------
(* Transactions and savepoints.                                            *)

OpenScope ==
  /\ marks' = Append(marks, Len(journal))
  /\ saved' = Append(saved, ix)
  /\ UNCHANGED <<ix, journal, now>>

WithTransaction == ~InTransaction /\ OpenScope

WithSavepoint == InTransaction /\ Len(marks) <= MaxSavepoints /\ OpenScope

(* The callback resolves: the entries of a savepoint stay in the journal.  *)
Resolve ==
  /\ InTransaction
  /\ marks' = Front(marks) /\ saved' = Front(saved)
  /\ journal' = IF Len(marks) = 1 THEN <<>> ELSE journal
  /\ UNCHANGED <<ix, now>>

(* The callback throws: rollbackTo the start of the innermost scope.       *)
Reject ==
  /\ InTransaction
  /\ ix' = RolledBackTo(Last(marks))
  /\ journal' = SubSeq(journal, 1, Last(marks))
  /\ marks' = Front(marks) /\ saved' = Front(saved)
  /\ UNCHANGED now

Tick ==
  /\ now < MaxNow
  /\ now' = now + 1
  /\ UNCHANGED <<ix, journal, marks, saved>>

Next ==
  \/ CreateJobs \/ AddJobsBlockers \/ UnblockJobs
  \/ AcquireJob \/ RenewJobLease \/ RescheduleJob \/ CompleteJob
  \/ ReapExpiredJobLease \/ DeleteChains \/ TriggerJobs
  \/ WithTransaction \/ WithSavepoint \/ Resolve \/ Reject \/ Tick

Spec == Init /\ [][Next]_vars

-----------------------------------------------------------------------------
Rows == {ix.jobs[j] : j \in JobsOf(ix)}

InOrder(items, by) ==
  \A i, k \in DOMAIN items : i < k => Earlier(ix.seqs, by, items[i], items[k])

Holds(items, rows) == ToSet(items) = rows /\ Len(items) = Cardinality(rows)

(* After any operations, failed savepoints and failed transactions, every  *)
(* job has its one sequence number, and every                              *)
(* index holds the current rows of the job map that belong in it and no    *)
(* old version of one, the sorted ones in order: an index that kept a      *)
(* stale row would acquire, reap or deduplicate against a job that is no   *)
(* longer so, one that lost a row would forget the job for good.           *)
IndicesAgree ==
  /\ Holds(ix.seqs, JobsOf(ix))
  /\ \A t \in Types :
       /\ Holds(ix.pending[t], {r \in Rows : r.type = t /\ r.status = "pending"})
       /\ InOrder(ix.pending[t], "scheduledAt")
       /\ Holds(ix.running[t], {r \in Rows : r.type = t /\ r.status = "running"})
       /\ InOrder(ix.running[t], "leasedUntil")
  /\ Holds(ix.roots, {r \in Rows : IsRoot(r)}) /\ InOrder(ix.roots, "createdAt")
  /\ \A c \in JobIds :
       /\ ix.byChain[c] = {r \in Rows : r.chain = c}
       /\ ix.last[c] = HighestIndex(ix.byChain[c])
       /\ ix.blockedBy[c] = {q \in JobIds : c \in ix.blockers[q]}
  /\ \A k \in Keys : ix.dedup[k] = {r \in Rows : IsRoot(r) /\ r.key = k}

(* Deduplication under either scope, through deletions and rollbacks,      *)
(* keeps the chains of one key whose root job is not completed down to     *)
(* one.  A chain that has continued past its root is not counted: the key  *)
(* is free again although the chain goes on.                               *)
OneOpenRootPerKey ==
  \A k \in Keys :
    Cardinality({r \in Rows : IsRoot(r) /\ r.key = k /\ r.status # "completed"}) <= 1

(* What acquireJob finds by looking at heads only: a due job exactly when  *)
(* there is one, the one that came due first, and hasMore exactly when     *)
(* another is due.  A worker that is told hasMore = FALSE sleeps.          *)
AcquisitionFindsTheEarliest ==
  \A T \in SUBSET Types :
    LET due == {r \in Rows : r.type \in T /\ r.status = "pending" /\ r.scheduledAt <= now}
        best == BestJob(ix, T)
    IN  /\ (best = NULL) <=> (due = {})
        /\ best # NULL =>
             /\ best \in due
             /\ \A r \in due : best.scheduledAt <= r.scheduledAt
             /\ HasMore(ix, T) <=> Cardinality(due) > 1

(* What reapExpiredJobLease finds although it stops at the first lease     *)
(* that has not expired: an expired lease of a job it does not ignore      *)
(* whenever there is one, and the oldest.                                  *)
ReaperFindsTheOldest ==
  \A T \in SUBSET Types, ignored \in SUBSET JobsOf(ix) :
    LET expired == {r \in Rows : /\ r.type \in T /\ r.status = "running"
                                  /\ r.leasedUntil <= now /\ r.id \notin ignored}
    IN  /\ (ReapCandidates(ix, T, ignored) = {}) <=> (expired = {})
        /\ \A r \in ReapCandidates(ix, T, ignored) :
             r \in expired /\ \A q \in expired : r.leasedUntil <= q.leasedUntil

(* A step that shortens the journal past the deletion of job j.            *)
UndoesDeletionOf(j) ==
  \E i \in Len(journal') + 1 .. Len(journal) :
    journal[i].kind = "job" /\ journal[i].next = NULL /\ journal[i].prev.id = j

(* Jobs of one scheduledAt are taken in the order of their sequence        *)
(* numbers.  Two jobs that are there before and after a step keep theirs,  *)
(* whatever the step writes or rolls back; only a job whose deletion is    *)
(* rolled back loses its place.                                            *)
OrderIsStable ==
  [][\A a, b \in JobsOf(ix) \cap JobsOf(ix)' :
       Seq0(ix.seqs, a) < Seq0(ix.seqs, b) /\ ~UndoesDeletionOf(a) /\ ~UndoesDeletionOf(b)
       => Seq0(ix.seqs', a) < Seq0(ix.seqs', b)]_vars

-----------------------------------------------------------------------------
(* The tables as StateAdapter has them.                                    *)

TableRow(s, j) ==
  LET r == s.jobs[j]
      lease == IF r.leasedUntil = Unleased THEN "none"
               ELSE IF r.leasedUntil > now THEN "live" ELSE "expired"
  IN  [status |-> r.status, chain |-> r.chain, index |-> r.index,
       due |-> r.scheduledAt <= now, attempt |-> 0,
       leasedBy |-> IF lease = "none" THEN NULL ELSE "worker",
       lease |-> lease, key |-> r.key]

AbsentRow ==
  [status |-> "absent", chain |-> NULL, index |-> 0, due |-> FALSE, attempt |-> 0,
   leasedBy |-> NULL, lease |-> "none", key |-> NULL]

JobTable(s) == [j \in JobIds |-> IF s.jobs[j] = NULL THEN AbsentRow ELSE TableRow(s, j)]

BlockerTable(s) == {ref \in JobIds \X JobIds : ref[2] \in s.blockers[ref[1]]}

Table == INSTANCE TransactionalTable WITH
  Workers <- {"worker"},
  js <- JobTable(ix), bl <- BlockerTable(ix),
  opened <- [i \in DOMAIN saved |-> <<JobTable(saved[i]), BlockerTable(saved[i])>>]

(* Each operation, though it reads heads, last jobs and inverse maps, has  *)
(* on the tables the effect that the rest of this development takes the    *)
(* method to have, and a rollback that walks the journal backwards         *)
(* restores the tables as they were when the scope was opened.             *)
ImplementsTable == Table!TSpec
=============================================================================
