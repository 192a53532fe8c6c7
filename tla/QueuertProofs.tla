--------------------------- MODULE QueuertProofs ---------------------------
(***************************************************************************)
(* Proofs about Queuert, for every set of jobs, workers, slots and keys.   *)
(*                                                                         *)
(* The argument is by tables.  A pair of tables is Consistent when the     *)
(* chains are well formed, jobs are blocked exactly while they wait, and   *)
(* leases sit on running jobs; each composition of adapter operators that  *)
(* an action commits takes consistent tables to consistent tables.         *)
(*                                                                         *)
(* The last part is about the tables on SQLite: what its statements        *)
(* compute is, on consistent tables, what the in-process adapter's loops   *)
(* compute.                                                                *)
(***************************************************************************)
EXTENDS SqliteConformance, FiniteSetTheorems, WellFoundedInduction, TLAPS

Typed(js) == js \in [JobIds -> Job]

(* Blocker rows belong to existing jobs: the half of NoDanglingBlockers    *)
(* that holds even when blockers may be stale.                             *)
RowsOwned(js, bl) ==
  /\ bl \subseteq JobIds \X JobIds
  /\ \A ref \in bl : Exists(js, ref[1])

Consistent(js, bl) ==
  /\ Typed(js)
  /\ WellFormedChains(js)
  /\ LeasedOnlyIfRunning(js)
  /\ RowsOwned(js, bl)
  /\ BlockedIffWaiting(js, bl)

(* No complete chain of js is incomplete or gone in js2.                   *)
KeepsComplete(js, js2) == \A d : ChainComplete(js, d) => ChainComplete(js2, d)

(* Tables with the same chains, completed to the same point.               *)
SameLayout(js, js2) ==
  \A q \in JobIds :
    /\ js2[q].chain = js[q].chain /\ js2[q].index = js[q].index
    /\ Exists(js2, q) <=> Exists(js, q)
    /\ js2[q].status = "completed" <=> js[q].status = "completed"

-----------------------------------------------------------------------------
(* One write to one column keeps the table's type; the operators that      *)
(* write several columns of a row are compositions of such writes.         *)
LEMMA ColumnTyped ==
  ASSUME NEW js, Typed(js), NEW j \in JobIds
  PROVE  /\ \A s \in JobStatus : Typed([js EXCEPT ![j].status = s])
         /\ \A w \in Workers \cup {NULL} : Typed([js EXCEPT ![j].leasedBy = w])
         /\ \A l \in {"none", "live", "expired"} : Typed([js EXCEPT ![j].lease = l])
         /\ \A d \in BOOLEAN : Typed([js EXCEPT ![j].due = d])
         /\ \A n \in Nat : Typed([js EXCEPT ![j].attempt = n])
<1>1. \A s \in JobStatus : Typed([js EXCEPT ![j].status = s])
    BY DEF Typed, Job
<1>2. \A w \in Workers \cup {NULL} : Typed([js EXCEPT ![j].leasedBy = w])
    BY DEF Typed, Job
<1>3. \A l \in {"none", "live", "expired"} : Typed([js EXCEPT ![j].lease = l])
    BY DEF Typed, Job
<1>4. \A d \in BOOLEAN : Typed([js EXCEPT ![j].due = d])
    BY DEF Typed, Job
<1>5. \A n \in Nat : Typed([js EXCEPT ![j].attempt = n])
    BY DEF Typed, Job
<1> QED BY <1>1, <1>2, <1>3, <1>4, <1>5

LEMMA AcquireTyped ==
  ASSUME NEW js, Typed(js), NEW j \in JobIds
  PROVE  Typed(AcquireJob(js, j))
<1> DEFINE moved == [js EXCEPT ![j].status = "running"]
           counted == [moved EXCEPT ![j].attempt = @ + 1]
<1>1. Typed(moved)
    BY ColumnTyped DEF JobStatus
<1>2. moved[j].attempt + 1 \in Nat
    BY <1>1 DEF Typed, Job
<1>3. Typed(counted)
    BY <1>1, <1>2, ColumnTyped
<1>4. counted = AcquireJob(js, j)
    BY DEF AcquireJob, Typed
<1> QED BY <1>3, <1>4

LEMMA RenewTyped ==
  ASSUME NEW js, Typed(js), NEW j \in JobIds, NEW w \in Workers
  PROVE  Typed(RenewJobLease(js, j, w))
<1> DEFINE owned == [js EXCEPT ![j].leasedBy = w]
           leased == [owned EXCEPT ![j].lease = "live"]
           renewed == [leased EXCEPT ![j].status = "running"]
<1>1. Typed(owned)
    BY ColumnTyped
<1>2. Typed(leased)
    BY <1>1, ColumnTyped
<1>3. Typed(renewed)
    BY <1>2, ColumnTyped DEF JobStatus
<1>4. renewed = RenewJobLease(js, j, w)
    BY DEF RenewJobLease, Typed
<1> QED BY <1>3, <1>4

(* Giving up the lease and moving to status s: rescheduleJob, completeJob  *)
(* and reapExpiredJobLease.                                                *)
LEMMA ReleasedTyped ==
  ASSUME NEW js, Typed(js), NEW j \in JobIds, NEW s \in JobStatus
  PROVE  /\ Typed([js EXCEPT ![j].leasedBy = NULL, ![j].lease = "none", ![j].status = s])
         /\ Typed([js EXCEPT ![j].status = s, ![j].leasedBy = NULL, ![j].lease = "none"])
<1> DEFINE owned == [js EXCEPT ![j].leasedBy = NULL]
           leased == [owned EXCEPT ![j].lease = "none"]
           first == [leased EXCEPT ![j].status = s]
           moved == [js EXCEPT ![j].status = s]
           disowned == [moved EXCEPT ![j].leasedBy = NULL]
           second == [disowned EXCEPT ![j].lease = "none"]
<1>1. Typed(owned) /\ Typed(moved)
    BY ColumnTyped
<1>2. Typed(leased) /\ Typed(disowned)
    BY <1>1, ColumnTyped
<1>3. Typed(first) /\ Typed(second)
    BY <1>2, ColumnTyped
<1>4. first = [js EXCEPT ![j].leasedBy = NULL, ![j].lease = "none", ![j].status = s]
    BY DEF Typed
<1>5. second = [js EXCEPT ![j].status = s, ![j].leasedBy = NULL, ![j].lease = "none"]
    BY DEF Typed
<1> QED BY <1>3, <1>4, <1>5

LEMMA RescheduleTyped ==
  ASSUME NEW js, Typed(js), NEW j \in JobIds, NEW due \in BOOLEAN
  PROVE  Typed(RescheduleJob(js, j, due))
<1> DEFINE moved == [js EXCEPT ![j].due = due]
           freed == [moved EXCEPT ![j].leasedBy = NULL, ![j].lease = "none",
                                  ![j].status = "pending"]
<1>1. Typed(moved)
    BY ZenonT(60), ColumnTyped
<1>2. Typed(freed)
    BY ZenonT(60), <1>1, ReleasedTyped DEF JobStatus
<1>3. freed = RescheduleJob(js, j, due)
    BY DEF RescheduleJob, Typed
<1> HIDE DEF freed
<1> QED BY <1>2, <1>3

LEMMA CompleteTyped ==
  ASSUME NEW js, Typed(js), NEW j \in JobIds
  PROVE  Typed(CompleteJob(js, j))
BY ZenonT(60), ReleasedTyped DEF CompleteJob, JobStatus

LEMMA ReapTyped ==
  ASSUME NEW js, Typed(js), NEW j \in JobIds
  PROVE  Typed(ReapJobLease(js, j))
BY ZenonT(60), ReleasedTyped DEF ReapJobLease, JobStatus

LEMMA CreateTyped ==
  ASSUME NEW js, Typed(js), NEW j \in JobIds, NEW c \in JobIds, NEW i \in Nat,
         NEW due \in BOOLEAN, NEW key \in Keys \cup {NULL}
  PROVE  Typed(CreateJob(js, j, c, i, due, key))
BY DEF Typed, CreateJob, Job, JobStatus

LEMMA AddBlockersTyped ==
  ASSUME NEW js, Typed(js), NEW j \in JobIds, NEW B
  PROVE  Typed(AddJobBlockers(js, j, B))
BY ColumnTyped DEF AddJobBlockers, JobStatus

LEMMA UnblockTyped ==
  ASSUME NEW js, Typed(js), NEW bl, NEW c
  PROVE  Typed(UnblockJobs(js, bl, c))
BY DEF Typed, UnblockJobs, Job, JobStatus

LEMMA TriggerTyped ==
  ASSUME NEW js, Typed(js), NEW J
  PROVE  Typed(TriggerJobs(js, J))
<1>1. \A j \in JobIds : js[j] \in Job /\ [js[j] EXCEPT !.due = TRUE] \in Job
    BY DEF Typed, Job
<1> QED BY <1>1 DEF Typed, TriggerJobs

LEMMA DeleteTyped ==
  ASSUME NEW js, Typed(js), NEW E
  PROVE  Typed(DeleteJobs(js, E))
BY DEF Typed, DeleteJobs, Job, JobStatus, NoJob

-----------------------------------------------------------------------------
(* An incomplete job is the last of its chain.                             *)
LEMMA IncompleteIsLast ==
  ASSUME NEW js, WellFormedChains(js), Typed(js), NEW j \in JobIds,
         Exists(js, j), js[j].status # "completed"
  PROVE  IsLastInChain(js, j)
<1> SUFFICES ASSUME NEW k \in ChainJobs(js, js[j].chain), ~(js[k].index <= js[j].index)
             PROVE  FALSE
    BY DEF IsLastInChain
<1>1. k \in JobIds /\ Exists(js, k) /\ js[k].chain = js[j].chain
    BY DEF ChainJobs
<1>2. js[j].index \in Nat /\ js[k].index \in Nat
    BY <1>1 DEF Typed, Job
<1>3. j \in ChainJobs(js, js[k].chain) /\ js[j].index < js[k].index
    BY <1>1, <1>2 DEF ChainJobs
<1> QED BY <1>1, <1>3 DEF WellFormedChains

(* Whether a chain is complete depends on the layout alone.                *)
LEMMA LayoutCompletes ==
  ASSUME NEW js, NEW js2, SameLayout(js, js2), NEW c
  PROVE  /\ ChainJobs(js2, c) = ChainJobs(js, c)
         /\ ChainComplete(js2, c) <=> ChainComplete(js, c)
<1>1. \A d : ChainJobs(js2, d) = ChainJobs(js, d)
    BY DEF ChainJobs, SameLayout
<1>2. ASSUME NEW j \in ChainJobs(js, c)
      PROVE  /\ IsLastInChain(js2, j) <=> IsLastInChain(js, j)
             /\ js2[j].status = "completed" <=> js[j].status = "completed"
    BY <1>1 DEF ChainJobs, IsLastInChain, SameLayout
<1> QED BY <1>1, <1>2 DEF ChainComplete

(* Well-formedness too.                                                    *)
LEMMA LayoutWellFormed ==
  ASSUME NEW js, NEW js2, SameLayout(js, js2), WellFormedChains(js)
  PROVE  WellFormedChains(js2)
<1>1. \A d : ChainJobs(js2, d) = ChainJobs(js, d)
    BY DEF ChainJobs, SameLayout
<1>2. Roots(js2) = Roots(js)
    BY DEF Roots, SameLayout
<1> SUFFICES ASSUME NEW j \in JobIds, Exists(js2, j)
    PROVE /\ js2[j].chain \in Roots(js2)
          /\ js2[j].index = 0 <=> js2[j].chain = j
          /\ \A i \in 0 .. js2[j].index :
               \E k \in ChainJobs(js2, js2[j].chain) : js2[k].index = i
          /\ \A k \in ChainJobs(js2, js2[j].chain) :
               /\ js2[k].index = js2[j].index => k = j
               /\ js2[k].index < js2[j].index => js2[k].status = "completed"
    BY DEF WellFormedChains
<1>3. /\ js2[j].chain = js[j].chain /\ js2[j].index = js[j].index /\ Exists(js, j)
      /\ \A k \in ChainJobs(js, js[j].chain) :
           k \in JobIds /\ js2[k].index = js[k].index
                        /\ (js2[k].status = "completed" <=> js[k].status = "completed")
    BY DEF SameLayout, ChainJobs
<1> QED BY <1>1, <1>2, <1>3 DEF WellFormedChains

(* A write that moves no job into or out of "blocked", "completed" or the  *)
(* table keeps the tables consistent.                                      *)
LEMMA QuietWrite ==
  ASSUME NEW js, NEW bl, NEW js2, Consistent(js, bl),
         Typed(js2), LeasedOnlyIfRunning(js2), SameLayout(js, js2),
         \A q \in JobIds : js2[q].status = "blocked" <=> js[q].status = "blocked"
  PROVE  Consistent(js2, bl) /\ KeepsComplete(js, js2)
<1>1. WellFormedChains(js2)
    BY LayoutWellFormed DEF Consistent
<1>2. RowsOwned(js2, bl)
  <2>1. \A ref \in bl : ref[1] \in JobIds
      BY DEF Consistent, RowsOwned
  <2> QED BY <2>1 DEF Consistent, RowsOwned, SameLayout
<1>3. \A q : Incomplete(js2, BlockersOf(bl, q)) = Incomplete(js, BlockersOf(bl, q))
    BY LayoutCompletes DEF Incomplete
<1>4. \A q \in JobIds :
        js2[q].status \in {"pending", "running"} => js[q].status \in {"pending", "running"}
    BY DEF SameLayout, Exists, Consistent, Typed, Job, JobStatus
<1>5. BlockedIffWaiting(js2, bl)
    BY <1>3, <1>4 DEF BlockedIffWaiting, Consistent
<1>6. KeepsComplete(js, js2)
    BY LayoutCompletes DEF KeepsComplete
<1> QED BY <1>1, <1>2, <1>5, <1>6 DEF Consistent

LEMMA AcquireConsistent ==
  ASSUME NEW js, NEW bl, Consistent(js, bl),
         NEW j \in JobIds, js[j].status = "pending"
  PROVE  /\ Consistent(AcquireJob(js, j), bl) /\ KeepsComplete(js, AcquireJob(js, j))
         /\ AcquireJob(js, j)[j].status = "running"
<1> DEFINE js2 == AcquireJob(js, j)
<1>1. Typed(js2)
    BY AcquireTyped DEF Consistent
<1>2. LeasedOnlyIfRunning(js2)
    BY DEF AcquireJob, Consistent, Typed, LeasedOnlyIfRunning
<1>3. SameLayout(js, js2)
    BY DEF AcquireJob, Consistent, Typed, SameLayout, Exists
<1>4. \A q \in JobIds : js2[q].status = "blocked" <=> js[q].status = "blocked"
    BY DEF AcquireJob, Consistent, Typed
<1>5. js2[j].status = "running"
    BY DEF AcquireJob, Consistent, Typed
<1> QED BY <1>1, <1>2, <1>3, <1>4, <1>5, QuietWrite

LEMMA RenewConsistent ==
  ASSUME NEW js, NEW bl, Consistent(js, bl), NEW w \in Workers,
         NEW j \in JobIds, js[j].status = "running"
  PROVE  /\ Consistent(RenewJobLease(js, j, w), bl)
         /\ KeepsComplete(js, RenewJobLease(js, j, w))
<1> DEFINE js2 == RenewJobLease(js, j, w)
<1>1. Typed(js2)
    BY RenewTyped DEF Consistent
<1>2. LeasedOnlyIfRunning(js2)
    BY NullIsNoId DEF RenewJobLease, Consistent, Typed, LeasedOnlyIfRunning
<1>3. SameLayout(js, js2)
    BY DEF RenewJobLease, Consistent, Typed, SameLayout, Exists
<1>4. \A q \in JobIds : js2[q].status = "blocked" <=> js[q].status = "blocked"
    BY DEF RenewJobLease, Consistent, Typed
<1> QED BY <1>1, <1>2, <1>3, <1>4, QuietWrite

LEMMA RescheduleConsistent ==
  ASSUME NEW js, NEW bl, Consistent(js, bl), NEW due \in BOOLEAN,
         NEW j \in JobIds, js[j].status = "running"
  PROVE  /\ Consistent(RescheduleJob(js, j, due), bl)
         /\ KeepsComplete(js, RescheduleJob(js, j, due))
<1> DEFINE js2 == RescheduleJob(js, j, due)
<1>1. Typed(js2)
    BY RescheduleTyped DEF Consistent
<1>2. LeasedOnlyIfRunning(js2)
    BY DEF RescheduleJob, Consistent, Typed, LeasedOnlyIfRunning
<1>3. SameLayout(js, js2)
    BY DEF RescheduleJob, Consistent, Typed, SameLayout, Exists
<1>4. \A q \in JobIds : js2[q].status = "blocked" <=> js[q].status = "blocked"
    BY DEF RescheduleJob, Consistent, Typed
<1> QED BY <1>1, <1>2, <1>3, <1>4, QuietWrite

LEMMA ReapConsistent ==
  ASSUME NEW js, NEW bl, Consistent(js, bl),
         NEW j \in JobIds, js[j].status = "running"
  PROVE  /\ Consistent(ReapJobLease(js, j), bl)
         /\ KeepsComplete(js, ReapJobLease(js, j))
<1> DEFINE js2 == ReapJobLease(js, j)
<1>1. Typed(js2)
    BY ReapTyped DEF Consistent
<1>2. LeasedOnlyIfRunning(js2)
    BY DEF ReapJobLease, Consistent, Typed, LeasedOnlyIfRunning
<1>3. SameLayout(js, js2)
    BY DEF ReapJobLease, Consistent, Typed, SameLayout, Exists
<1>4. \A q \in JobIds : js2[q].status = "blocked" <=> js[q].status = "blocked"
    BY DEF ReapJobLease, Consistent, Typed
<1> QED BY <1>1, <1>2, <1>3, <1>4, QuietWrite

(* Writes of times alone: triggerJobs, and the passing of deadlines.       *)
LEMMA TimesConsistent ==
  ASSUME NEW js, NEW bl, NEW js2, Consistent(js, bl), Typed(js2),
         \A q \in JobIds :
           /\ js2[q].status = js[q].status /\ js2[q].chain = js[q].chain
           /\ js2[q].index = js[q].index /\ js2[q].leasedBy = js[q].leasedBy
           /\ js2[q].lease = "none" <=> js[q].lease = "none"
  PROVE  Consistent(js2, bl) /\ KeepsComplete(js, js2)
<1>1. LeasedOnlyIfRunning(js2)
    BY DEF Consistent, LeasedOnlyIfRunning
<1>2. SameLayout(js, js2)
    BY DEF SameLayout, Exists
<1> QED BY <1>1, <1>2, QuietWrite

-----------------------------------------------------------------------------
(* startChain: a new root job leaves every other chain as it was.          *)
LEMMA RootAdded ==
  ASSUME NEW js, NEW js2, WellFormedChains(js), Typed(js), Typed(js2),
         NEW c \in JobIds, js[c].status = "absent",
         js2[c].status \in {"pending", "blocked"}, js2[c].chain = c, js2[c].index = 0,
         \A q \in JobIds \ {c} : js2[q] = js[q]
  PROVE  /\ WellFormedChains(js2)
         /\ \A d : ChainComplete(js2, d) <=> ChainComplete(js, d)
<1>1. ~Exists(js, c) /\ Exists(js2, c)
    BY DEF Exists
<1>2. ChainJobs(js, c) = {}
    BY <1>1 DEF WellFormedChains, ChainJobs, Roots
<1>3. ChainJobs(js2, c) = {c}
    BY <1>1, <1>2 DEF ChainJobs, Exists
<1>4. \A d : d # c => ChainJobs(js2, d) = ChainJobs(js, d)
    BY <1>1 DEF ChainJobs, Exists
<1>5. \A d, j : j \in ChainJobs(js, d) => d # c /\ j # c /\ j \in JobIds /\ js2[j] = js[j]
    BY <1>1, <1>2 DEF ChainJobs
<1>6. ASSUME NEW d PROVE ChainComplete(js2, d) <=> ChainComplete(js, d)
  <2>1. CASE d = c
      BY <2>1, <1>2, <1>3 DEF ChainComplete
  <2>2. CASE d # c
    <3>1. ASSUME NEW j \in ChainJobs(js, d)
          PROVE  /\ IsLastInChain(js2, j) <=> IsLastInChain(js, j)
                 /\ js2[j].status = js[j].status
      <4>1. js[j].chain = d /\ js2[j] = js[j] /\ j \in JobIds /\ j # c
          BY <1>5 DEF ChainJobs
      <4>2. \A k \in ChainJobs(js, d) : js2[k] = js[k]
          BY <1>5
      <4> QED BY <1>4, <2>2, <4>1, <4>2 DEF IsLastInChain, Exists
    <3> QED BY <3>1, <1>4, <2>2 DEF ChainComplete
  <2> QED BY <2>1, <2>2
<1>7. ASSUME NEW j \in JobIds, Exists(js2, j)
      PROVE /\ js2[j].chain \in Roots(js2)
            /\ js2[j].index = 0 <=> js2[j].chain = j
            /\ \A i \in 0 .. js2[j].index :
                 \E k \in ChainJobs(js2, js2[j].chain) : js2[k].index = i
            /\ \A k \in ChainJobs(js2, js2[j].chain) :
                 /\ js2[k].index = js2[j].index => k = j
                 /\ js2[k].index < js2[j].index => js2[k].status = "completed"
  <2>1. CASE j = c
      BY <2>1, <1>1, <1>3 DEF Roots
  <2>2. CASE j # c
    <3>1. js2[j] = js[j] /\ Exists(js, j)
        BY <1>7, <2>2 DEF Exists
    <3>2. j \in ChainJobs(js, js[j].chain)
        BY <3>1 DEF ChainJobs
    <3>3. js[j].chain # c /\ ChainJobs(js2, js[j].chain) = ChainJobs(js, js[j].chain)
        BY <3>2, <1>4, <1>5
    <3>4. \A k \in ChainJobs(js, js[j].chain) : js2[k] = js[k]
        BY <1>5
    <3>5. js[j].chain \in Roots(js2)
        BY <3>1, <3>3 DEF WellFormedChains, Roots, Exists
    <3> QED BY <3>1, <3>3, <3>4, <3>5 DEF WellFormedChains
  <2> QED BY <2>1, <2>2
<1> QED BY <1>6, <1>7 DEF WellFormedChains

(* continueWith: a chain whose last job gets a successor is as incomplete  *)
(* as before, whether or not that job is completed already.                *)
LEMMA SuccessorIncomplete ==
  ASSUME NEW js, NEW js2, WellFormedChains(js), Typed(js), Typed(js2),
         NEW j \in JobIds, IsLastInChain(js, j), js[j].status # "completed",
         NEW k \in JobIds, js[k].status = "absent",
         js2[k].status \in {"pending", "blocked"},
         js2[k].chain = js[j].chain, js2[k].index = js[j].index + 1,
         Exists(js2, j), js2[j].chain = js[j].chain, js2[j].index = js[j].index,
         \A q \in JobIds \ {j, k} : js2[q] = js[q]
  PROVE  /\ \A d : d # js[j].chain => ChainJobs(js2, d) = ChainJobs(js, d)
         /\ ChainJobs(js2, js[j].chain) = ChainJobs(js, js[j].chain) \cup {k}
         /\ j # k
         /\ \A d : ChainComplete(js2, d) <=> ChainComplete(js, d)
<1> DEFINE c == js[j].chain
<1>1. ~Exists(js, k) /\ Exists(js2, k) /\ Exists(js, j) /\ j # k
    BY DEF Exists, IsLastInChain
<1>2. \A d : d # c => ChainJobs(js2, d) = ChainJobs(js, d)
    BY <1>1 DEF ChainJobs, Exists
<1>3. ChainJobs(js2, c) = ChainJobs(js, c) \cup {k}
    BY <1>1 DEF ChainJobs, Exists
<1>4. \A q \in ChainJobs(js, c) : q \in JobIds /\ q # k /\ js2[q].index = js[q].index
    BY <1>1 DEF ChainJobs
<1>5. \A q \in JobIds : js[q].index \in Nat /\ js2[q].index \in Nat
    BY DEF Typed, Job
<1>6. ~ChainComplete(js2, c)
  <2> SUFFICES ASSUME NEW q \in ChainJobs(js2, c), IsLastInChain(js2, q),
                      js2[q].status = "completed"
               PROVE  FALSE
      BY DEF ChainComplete
  <2>1. q \in JobIds /\ js2[q].chain = c
      BY DEF ChainJobs
  <2>2. js2[k].index <= js2[q].index
      BY <1>3, <2>1 DEF IsLastInChain
  <2>3. q # k
      OBVIOUS
  <2>4. q \in ChainJobs(js, c) /\ js[q].index <= js[j].index
      BY <1>3, <2>3 DEF IsLastInChain
  <2> QED BY <1>4, <1>5, <2>1, <2>2, <2>4
<1>7. ~ChainComplete(js, c)
  <2> SUFFICES ASSUME NEW q \in ChainJobs(js, c), IsLastInChain(js, q),
                      js[q].status = "completed"
               PROVE  FALSE
      BY DEF ChainComplete
  <2>1. q \in JobIds /\ js[q].chain = c /\ j \in ChainJobs(js, c)
      BY <1>1 DEF ChainJobs
  <2>2. js[j].index <= js[q].index /\ js[q].index <= js[j].index
      BY <2>1 DEF IsLastInChain
  <2>3. q = j
      BY <1>1, <1>5, <2>1, <2>2 DEF WellFormedChains
  <2> QED BY <2>3
<1>8. ASSUME NEW d, d # c PROVE ChainComplete(js2, d) <=> ChainComplete(js, d)
  <2>1. \A q \in ChainJobs(js, d) : js2[q] = js[q] /\ js[q].chain = d
      BY <1>1, <1>8 DEF ChainJobs
  <2>2. ASSUME NEW q \in ChainJobs(js, d)
        PROVE  IsLastInChain(js2, q) <=> IsLastInChain(js, q)
      BY <2>1, <1>2, <1>8 DEF IsLastInChain, Exists
  <2> QED BY <2>1, <2>2, <1>2, <1>8 DEF ChainComplete
<1> QED BY <1>1, <1>2, <1>3, <1>6, <1>7, <1>8

LEMMA SuccessorAdded ==
  ASSUME NEW js, NEW js2, WellFormedChains(js), Typed(js), Typed(js2),
         NEW j \in JobIds, IsLastInChain(js, j), js[j].status # "completed",
         NEW k \in JobIds, js[k].status = "absent",
         js2[k].status \in {"pending", "blocked"},
         js2[k].chain = js[j].chain, js2[k].index = js[j].index + 1,
         js2[j].status = "completed", js2[j].chain = js[j].chain,
         js2[j].index = js[j].index,
         \A q \in JobIds \ {j, k} : js2[q] = js[q]
  PROVE  WellFormedChains(js2)
<1> DEFINE c == js[j].chain
<1>1. ~Exists(js, k) /\ Exists(js2, k) /\ Exists(js, j) /\ Exists(js2, j)
    BY DEF Exists, IsLastInChain
<1>2. /\ \A d : d # c => ChainJobs(js2, d) = ChainJobs(js, d)
      /\ ChainJobs(js2, c) = ChainJobs(js, c) \cup {k}
      /\ j # k
    BY <1>1, SuccessorIncomplete
<1>3. \A q \in JobIds : js[q].index \in Nat /\ js2[q].index \in Nat
    BY DEF Typed, Job
<1>4. \A q \in JobIds \ {k} :
        /\ js2[q].chain = js[q].chain /\ js2[q].index = js[q].index
        /\ Exists(js2, q) <=> Exists(js, q)
    BY <1>1
    DEF Exists
<1>5. \A q \in ChainJobs(js, c) :
        /\ q \in JobIds \ {k} /\ js[q].index <= js[j].index
        /\ js2[q].status = "completed"
  <2> TAKE q \in ChainJobs(js, c)
  <2>1. q \in JobIds \ {k} /\ Exists(js, q) /\ js[q].chain = c
      BY <1>1 DEF ChainJobs
  <2>2. js[q].index <= js[j].index
      BY DEF IsLastInChain
  <2>3. CASE q = j
      BY <2>1, <2>2, <2>3
  <2>4. CASE q # j
    <3>1. j \in ChainJobs(js, js[q].chain)
        BY <1>1, <2>1 DEF ChainJobs
    <3>2. js[q].index < js[j].index
        BY <1>3, <2>1, <2>2, <2>4, <3>1 DEF WellFormedChains
    <3>3. q \in ChainJobs(js, js[j].chain)
        OBVIOUS
    <3>4. js[q].status = "completed"
        BY <1>1, <3>2, <3>3 DEF WellFormedChains
    <3> QED BY <2>1, <2>2, <2>4, <3>4
  <2> QED BY <2>3, <2>4
<1>6. js[j].chain \in Roots(js2)
  <2>1. js[j].chain \in Roots(js)
      BY <1>1 DEF WellFormedChains
  <2> QED BY <1>1, <1>4, <2>1 DEF Roots
<1>7. ASSUME NEW x \in JobIds, Exists(js2, x)
      PROVE /\ js2[x].chain \in Roots(js2)
            /\ js2[x].index = 0 <=> js2[x].chain = x
            /\ \A i \in 0 .. js2[x].index :
                 \E y \in ChainJobs(js2, js2[x].chain) : js2[y].index = i
            /\ \A y \in ChainJobs(js2, js2[x].chain) :
                 /\ js2[y].index = js2[x].index => y = x
                 /\ js2[y].index < js2[x].index => js2[y].status = "completed"
  <2>1. CASE x = k
    <3>1. js2[k].chain = c /\ js2[k].index = js[j].index + 1
        OBVIOUS
    <3>2. js2[k].index # 0 /\ c # k
        BY <1>1, <1>3, <1>6, <3>1 DEF WellFormedChains, Roots
    <3>3. \A y \in ChainJobs(js, c) :
            js2[y].index < js2[k].index /\ js2[y].status = "completed"
        BY <1>3, <1>4, <1>5, <3>1
    <3>4. \A i \in 0 .. js[j].index : \E y \in ChainJobs(js, c) : js[y].index = i
        BY <1>1 DEF WellFormedChains
    <3>5. \A i \in 0 .. js2[k].index : \E y \in ChainJobs(js2, c) : js2[y].index = i
      <4> TAKE i \in 0 .. js2[k].index
      <4>1. CASE i = js2[k].index
          BY <4>1, <1>2
      <4>2. CASE i # js2[k].index
        <5>1. i \in 0 .. js[j].index
            BY <4>2, <3>1, <1>3
        <5> QED BY <5>1, <3>4, <1>2, <1>4, <1>5
      <4> QED BY <4>1, <4>2
    <3> QED BY <2>1, <1>2, <1>3, <1>6, <3>1, <3>2, <3>3, <3>5
  <2>2. CASE x # k /\ js[x].chain = c
    <3>1. /\ Exists(js, x) /\ x \in ChainJobs(js, c)
          /\ js2[x].chain = c /\ js2[x].index = js[x].index
        BY <1>4, <1>7, <2>2 DEF ChainJobs
    <3>2. js2[x].index < js2[k].index
        BY <1>3, <1>5, <3>1
    <3>3. \A i \in 0 .. js2[x].index : \E y \in ChainJobs(js2, c) : js2[y].index = i
        BY <1>2, <1>4, <1>5, <2>2, <3>1 DEF WellFormedChains
    <3>4. \A y \in ChainJobs(js2, c) :
            /\ js2[y].index = js2[x].index => y = x
            /\ js2[y].index < js2[x].index => js2[y].status = "completed"
      <4> TAKE y \in ChainJobs(js2, c)
      <4>1. CASE y = k
          BY <4>1, <3>2, <1>3
      <4>2. CASE y # k
        <5>1. y \in ChainJobs(js, js[x].chain) /\ js2[y].index = js[y].index
            BY <4>2, <2>2, <1>2, <1>4, <1>5
        <5> QED BY <5>1, <3>1, <2>2, <1>5 DEF WellFormedChains
      <4> QED BY <4>1, <4>2
    <3> QED BY <1>4, <1>6, <2>2, <3>1, <3>3, <3>4 DEF WellFormedChains
  <2>3. CASE x # k /\ js[x].chain # c
    <3>1. /\ Exists(js, x) /\ js2[x].chain = js[x].chain /\ js2[x].index = js[x].index
          /\ ChainJobs(js2, js[x].chain) = ChainJobs(js, js[x].chain)
        BY <1>2, <1>4, <1>7, <2>3
    <3>2. \A y \in ChainJobs(js, js[x].chain) : js2[y] = js[y]
      <4> TAKE y \in ChainJobs(js, js[x].chain)
      <4>1. y \in JobIds /\ Exists(js, y) /\ js[y].chain = js[x].chain
          BY DEF ChainJobs
      <4> QED BY <4>1, <1>1, <2>3
    <3>3. js[x].chain \in Roots(js2)
      <4>1. js[x].chain \in Roots(js)
          BY <3>1 DEF WellFormedChains
      <4> QED BY <1>1, <1>4, <4>1 DEF Roots
    <3> QED BY <3>1, <3>2, <3>3 DEF WellFormedChains
  <2> QED BY <2>1, <2>2, <2>3
<1> QED BY <1>7 DEF WellFormedChains

(* finishJob without a continuation: its chain becomes complete, no other  *)
(* chain changes.                                                          *)
LEMMA LastCompleted ==
  ASSUME NEW js, NEW js2, WellFormedChains(js), Typed(js),
         NEW j \in JobIds, IsLastInChain(js, j), js[j].status # "completed",
         js2[j].status = "completed",
         \A q \in JobIds : js2[q].chain = js[q].chain /\ js2[q].index = js[q].index,
         \A q \in JobIds \ {j} : js2[q].status = js[q].status
  PROVE  /\ WellFormedChains(js2)
         /\ \A d : ChainComplete(js2, d) <=> d = js[j].chain \/ ChainComplete(js, d)
<1>1. \A q \in JobIds : Exists(js2, q) <=> Exists(js, q)
    BY DEF Exists, IsLastInChain
<1>2. \A d : ChainJobs(js2, d) = ChainJobs(js, d)
    BY <1>1 DEF ChainJobs
<1>3. \A q \in JobIds : IsLastInChain(js2, q) <=> IsLastInChain(js, q)
    BY <1>1, <1>2 DEF IsLastInChain, ChainJobs
<1>4. j \in ChainJobs(js, js[j].chain)
    BY DEF ChainJobs, IsLastInChain
<1>5. ASSUME NEW d
      PROVE  ChainComplete(js2, d) <=> d = js[j].chain \/ ChainComplete(js, d)
  <2>1. CASE d = js[j].chain
      BY <2>1, <1>2, <1>3, <1>4 DEF ChainComplete
  <2>2. CASE d # js[j].chain
    <3>1. \A q \in ChainJobs(js, d) : q \in JobIds \ {j}
        BY <2>2 DEF ChainJobs
    <3> QED BY <3>1, <2>2, <1>2, <1>3 DEF ChainComplete
  <2> QED BY <2>1, <2>2
<1>6. Roots(js2) = Roots(js)
    BY <1>1 DEF Roots
<1>7. ASSUME NEW x \in JobIds, Exists(js2, x)
      PROVE /\ js2[x].chain \in Roots(js2)
            /\ js2[x].index = 0 <=> js2[x].chain = x
            /\ \A i \in 0 .. js2[x].index :
                 \E y \in ChainJobs(js2, js2[x].chain) : js2[y].index = i
            /\ \A y \in ChainJobs(js2, js2[x].chain) :
                 /\ js2[y].index = js2[x].index => y = x
                 /\ js2[y].index < js2[x].index => js2[y].status = "completed"
  <2>1. Exists(js, x) /\ js2[x].chain = js[x].chain /\ js2[x].index = js[x].index
      BY <1>1, <1>7
  <2>2. \A y \in ChainJobs(js, js[x].chain) :
          /\ y \in JobIds /\ js2[y].index = js[y].index
          /\ js[y].status = "completed" => js2[y].status = "completed"
      BY DEF ChainJobs
  <2> QED BY <1>2, <1>6, <2>1, <2>2 DEF WellFormedChains
<1> QED BY <1>5, <1>7 DEF WellFormedChains

(* deleteChains: whole chains go, the others stay as they are.             *)
LEMMA ChainsDeleted ==
  ASSUME NEW js, WellFormedChains(js), Typed(js), NEW E
  PROVE  /\ WellFormedChains(DeleteJobs(js, E))
         /\ \A d : d \notin E => (ChainComplete(DeleteJobs(js, E), d) <=> ChainComplete(js, d))
         /\ \A q \in JobIds : /\ Exists(DeleteJobs(js, E), q)
                                   <=> Exists(js, q) /\ js[q].chain \notin E
                              /\ Exists(DeleteJobs(js, E), q) => DeleteJobs(js, E)[q] = js[q]
<1> DEFINE js2 == DeleteJobs(js, E)
<1>1. \A q \in JobIds : /\ Exists(js2, q) <=> Exists(js, q) /\ js[q].chain \notin E
                        /\ Exists(js2, q) => js2[q] = js[q]
    BY DEF DeleteJobs, InChains, Exists, NoJob
<1> HIDE DEF js2
<1>2. \A d : d \notin E => ChainJobs(js2, d) = ChainJobs(js, d)
    BY <1>1 DEF ChainJobs
<1>3. ASSUME NEW d, d \notin E
      PROVE  ChainComplete(js2, d) <=> ChainComplete(js, d)
  <2>1. \A q \in ChainJobs(js, d) : /\ js2[q] = js[q] /\ q \in JobIds
                                    /\ js[q].chain = d /\ Exists(js2, q) /\ Exists(js, q)
      BY <1>1, <1>3 DEF ChainJobs
  <2>2. \A q \in ChainJobs(js, d) : IsLastInChain(js2, q) <=> IsLastInChain(js, q)
      BY <2>1, <1>2, <1>3 DEF IsLastInChain
  <2> QED BY <2>1, <2>2, <1>2, <1>3 DEF ChainComplete
<1>4. ASSUME NEW x \in JobIds, Exists(js2, x)
      PROVE /\ js2[x].chain \in Roots(js2)
            /\ js2[x].index = 0 <=> js2[x].chain = x
            /\ \A i \in 0 .. js2[x].index :
                 \E y \in ChainJobs(js2, js2[x].chain) : js2[y].index = i
            /\ \A y \in ChainJobs(js2, js2[x].chain) :
                 /\ js2[y].index = js2[x].index => y = x
                 /\ js2[y].index < js2[x].index => js2[y].status = "completed"
  <2>1. Exists(js, x) /\ js2[x] = js[x] /\ js[x].chain \notin E
      BY <1>1, <1>4
  <2>2. \A y \in ChainJobs(js, js[x].chain) : js2[y] = js[y]
      BY <1>1, <2>1 DEF ChainJobs
  <2>3. js[x].chain \in Roots(js2)
    <3>1. js[x].chain \in Roots(js)
        BY <2>1 DEF WellFormedChains
    <3> QED BY <1>1, <2>1, <3>1 DEF Roots
  <2> QED BY <1>2, <2>1, <2>2, <2>3 DEF WellFormedChains
<1>5. WellFormedChains(js2)
    BY <1>4 DEF WellFormedChains
<1> QED BY <1>1, <1>3, <1>5 DEF js2

-----------------------------------------------------------------------------
(* Rows are added only for a job that did not exist.                       *)
LEMMA RowsAdded ==
  ASSUME NEW js, NEW bl, RowsOwned(js, bl), NEW k \in JobIds, ~Exists(js, k),
         NEW B \in SUBSET JobIds, NEW bl2, bl2 = AddBlockerRows(bl, k, B)
  PROVE  /\ bl2 \subseteq JobIds \X JobIds
         /\ BlockersOf(bl2, k) = B
         /\ \A q \in JobIds \ {k} : BlockersOf(bl2, q) = BlockersOf(bl, q)
<1> USE DEF AddBlockerRows
<1>1. bl2 \subseteq JobIds \X JobIds
    BY DEF RowsOwned
<1>2. \A b : <<k, b>> \notin bl
    BY DEF RowsOwned
<1>3. BlockersOf(bl2, k) = B
    BY <1>2 DEF BlockersOf
<1>4. \A q \in JobIds \ {k} : BlockersOf(bl2, q) = BlockersOf(bl, q)
    BY DEF BlockersOf
<1> QED BY <1>1, <1>3, <1>4

(* What createJobs followed by addJobsBlockers writes.                     *)
LEMMA CreatedRow ==
  ASSUME NEW js, Typed(js), NEW k \in JobIds, NEW c \in JobIds, NEW i \in Nat,
         NEW due \in BOOLEAN, NEW key \in Keys \cup {NULL}, NEW B
  PROVE  LET created == CreateJob(js, k, c, i, due, key)
             marked == AddJobBlockers(created, k, B)
         IN  /\ Typed(created) /\ Typed(marked)
             /\ created[k].status = "pending"
             /\ marked[k].status =
                  IF Incomplete(created, B) # {} THEN "blocked" ELSE "pending"
             /\ created[k].chain = c /\ marked[k].chain = c
             /\ created[k].index = i /\ marked[k].index = i
             /\ marked[k].leasedBy = NULL /\ marked[k].lease = "none"
             /\ \A q \in JobIds \ {k} : created[q] = js[q] /\ marked[q] = js[q]
<1> DEFINE created == CreateJob(js, k, c, i, due, key)
           marked == AddJobBlockers(created, k, B)
<1>1. Typed(created) /\ Typed(marked)
    BY CreateTyped, AddBlockersTyped
<1>2. /\ created[k].status = "pending" /\ created[k].chain = c /\ created[k].index = i
      /\ created[k].leasedBy = NULL /\ created[k].lease = "none"
      /\ \A q \in JobIds \ {k} : created[q] = js[q]
    BY DEF CreateJob, Typed
<1> HIDE DEF created
<1>3. /\ marked[k].status = IF Incomplete(created, B) # {} THEN "blocked" ELSE "pending"
      /\ marked[k].chain = c /\ marked[k].index = i
      /\ marked[k].leasedBy = NULL /\ marked[k].lease = "none"
      /\ \A q \in JobIds \ {k} : marked[q] = created[q]
    BY <1>1, <1>2 DEF AddJobBlockers, Typed, Job
<1> QED BY <1>1, <1>2, <1>3 DEF created

(* New job k and its rows, in tables where chains are complete just as     *)
(* they were: blocked or pending as its blockers are incomplete or not.    *)
LEMMA NewJobWaits ==
  ASSUME NEW js, NEW bl, NEW js2, Consistent(js, bl), Typed(js2),
         NEW k \in JobIds, js[k].status = "absent", NEW B \in SUBSET JobIds,
         \A d : ChainComplete(js2, d) <=> ChainComplete(js, d),
         js2[k].status = IF Incomplete(js, B) # {} THEN "blocked" ELSE "pending",
         \A q \in JobIds \ {k} :
           /\ js2[q].status # js[q].status => js2[q].status = "completed"
           /\ Exists(js, q) => Exists(js2, q),
         NEW bl2, bl2 = AddBlockerRows(bl, k, B)
  PROVE  RowsOwned(js2, bl2) /\ BlockedIffWaiting(js2, bl2)
<1>1. ~Exists(js, k) /\ Exists(js2, k)
    BY DEF Exists
<1>2. /\ bl2 \subseteq JobIds \X JobIds
      /\ BlockersOf(bl2, k) = B
      /\ \A q \in JobIds \ {k} : BlockersOf(bl2, q) = BlockersOf(bl, q)
    BY <1>1, RowsAdded DEF Consistent
<1>3. RowsOwned(js2, bl2)
  <2>1. \A ref \in bl : ref[1] \in JobIds \ {k} /\ Exists(js, ref[1])
      BY <1>1 DEF Consistent, RowsOwned
  <2> QED BY <1>1, <1>2, <2>1 DEF RowsOwned, AddBlockerRows
<1>4. \A X : Incomplete(js2, X) = Incomplete(js, X)
    BY DEF Incomplete
<1>5. BlockedIffWaiting(js2, bl2)
  <2> SUFFICES ASSUME NEW q \in JobIds
               PROVE  /\ js2[q].status = "blocked" =>
                           Incomplete(js2, BlockersOf(bl2, q)) # {}
                      /\ js2[q].status \in {"pending", "running"} =>
                           Incomplete(js2, BlockersOf(bl2, q)) = {}
      BY DEF BlockedIffWaiting
  <2>1. CASE q = k
      BY <2>1, <1>2, <1>4
  <2>2. CASE q # k
      BY <2>2, <1>2, <1>4 DEF Consistent, BlockedIffWaiting
  <2> QED BY <2>1, <2>2
<1> QED BY <1>3, <1>5

LEMMA StartConsistent ==
  ASSUME NEW js, NEW bl, Consistent(js, bl), NEW c \in JobIds, js[c].status = "absent",
         NEW B \in SUBSET JobIds, NEW due \in BOOLEAN, NEW key \in Keys \cup {NULL},
         NEW bl2, bl2 = AddBlockerRows(bl, c, B)
  PROVE  LET js2 == AddJobBlockers(CreateJob(js, c, c, 0, due, key), c, B)
         IN  Consistent(js2, bl2) /\ KeepsComplete(js, js2)
<1> DEFINE created == CreateJob(js, c, c, 0, due, key)
           marked == AddJobBlockers(created, c, B)
<1>1. Typed(js) /\ WellFormedChains(js) /\ LeasedOnlyIfRunning(js)
    BY DEF Consistent
<1>2. /\ Typed(created) /\ Typed(marked)
      /\ created[c].status = "pending"
      /\ marked[c].status = IF Incomplete(created, B) # {} THEN "blocked" ELSE "pending"
      /\ created[c].chain = c /\ marked[c].chain = c
      /\ created[c].index = 0 /\ marked[c].index = 0
      /\ marked[c].leasedBy = NULL /\ marked[c].lease = "none"
      /\ \A q \in JobIds \ {c} : created[q] = js[q] /\ marked[q] = js[q]
    BY <1>1, CreatedRow
<1> HIDE DEF created, marked
<1>3. \A d : ChainComplete(created, d) <=> ChainComplete(js, d)
    BY <1>1, <1>2, RootAdded
<1>4. marked[c].status \in {"pending", "blocked"}
    BY <1>2
<1>5. /\ WellFormedChains(marked)
      /\ \A d : ChainComplete(marked, d) <=> ChainComplete(js, d)
    BY <1>1, <1>2, <1>4, RootAdded
<1>6. Incomplete(created, B) = Incomplete(js, B)
    BY <1>3 DEF Incomplete
<1>7. \A q \in JobIds \ {c} :
        /\ marked[q].status # js[q].status => marked[q].status = "completed"
        /\ Exists(js, q) => Exists(marked, q)
    BY <1>2 DEF Exists
<1>8. RowsOwned(marked, bl2) /\ BlockedIffWaiting(marked, bl2)
    BY <1>2, <1>5, <1>6, <1>7, NewJobWaits
<1>9. LeasedOnlyIfRunning(marked)
    BY <1>1, <1>2 DEF LeasedOnlyIfRunning
<1> QED BY <1>2, <1>5, <1>8, <1>9 DEF Consistent, KeepsComplete, created, marked

(* What completeJob writes.                                                *)
LEMMA CompletedRow ==
  ASSUME NEW js, Typed(js), NEW j \in JobIds
  PROVE  LET js2 == CompleteJob(js, j)
         IN  /\ Typed(js2)
             /\ js2[j].status = "completed"
             /\ js2[j].leasedBy = NULL /\ js2[j].lease = "none"
             /\ js2[j].chain = js[j].chain /\ js2[j].index = js[j].index
             /\ \A q \in JobIds \ {j} : js2[q] = js[q]
<1> DEFINE js2 == CompleteJob(js, j)
<1>1. Typed(js2)
    BY CompleteTyped
<1>2. js2[j].status = "completed" /\ js2[j].leasedBy = NULL /\ js2[j].lease = "none"
    BY DEF CompleteJob, Typed, Job
<1>3. js2[j].chain = js[j].chain /\ js2[j].index = js[j].index
    BY DEF CompleteJob, Typed, Job
<1>4. \A q \in JobIds \ {j} : js2[q] = js[q]
    BY DEF CompleteJob, Typed
<1> QED BY <1>1, <1>2, <1>3, <1>4

LEMMA ContinueConsistent ==
  ASSUME NEW js, NEW bl, Consistent(js, bl),
         NEW j \in JobIds, Exists(js, j), js[j].status # "completed",
         NEW k \in JobIds, js[k].status = "absent",
         NEW B \in SUBSET JobIds, NEW due \in BOOLEAN,
         NEW bl2, bl2 = AddBlockerRows(bl, k, B)
  PROVE  LET created == CreateJob(js, k, js[j].chain, js[j].index + 1, due, NULL)
             js2 == CompleteJob(AddJobBlockers(created, k, B), j)
         IN  Consistent(js2, bl2) /\ KeepsComplete(js, js2)
<1> DEFINE created == CreateJob(js, k, js[j].chain, js[j].index + 1, due, NULL)
           marked == AddJobBlockers(created, k, B)
           js2 == CompleteJob(marked, j)
<1>1. Typed(js) /\ WellFormedChains(js) /\ LeasedOnlyIfRunning(js)
    BY DEF Consistent
<1>2. /\ IsLastInChain(js, j)
      /\ js[j].chain \in JobIds /\ js[j].index + 1 \in Nat /\ j # k
  <2>1. IsLastInChain(js, j)
      BY <1>1, IncompleteIsLast
  <2>2. js[j].chain \in JobIds
      BY <1>1 DEF WellFormedChains, Roots
  <2>3. js[j].index \in Nat
      BY <1>1 DEF Typed, Job
  <2> QED BY <2>1, <2>2, <2>3 DEF Exists
<1>3. /\ Typed(created) /\ Typed(marked)
      /\ created[k].status = "pending"
      /\ marked[k].status = IF Incomplete(created, B) # {} THEN "blocked" ELSE "pending"
      /\ created[k].chain = js[j].chain /\ marked[k].chain = js[j].chain
      /\ created[k].index = js[j].index + 1 /\ marked[k].index = js[j].index + 1
      /\ marked[k].leasedBy = NULL /\ marked[k].lease = "none"
      /\ \A q \in JobIds \ {k} : created[q] = js[q] /\ marked[q] = js[q]
  <2> DEFINE c == js[j].chain
             n == js[j].index + 1
  <2>1. c \in JobIds /\ n \in Nat /\ NULL \in Keys \cup {NULL}
      BY <1>2
  <2>2. created = CreateJob(js, k, c, n, due, NULL) /\ marked = AddJobBlockers(created, k, B)
      OBVIOUS
  <2> HIDE DEF c, n
  <2>3. LET new == CreateJob(js, k, c, n, due, NULL)
            held == AddJobBlockers(new, k, B)
        IN  /\ Typed(new) /\ Typed(held)
            /\ new[k].status = "pending"
            /\ held[k].status = IF Incomplete(new, B) # {} THEN "blocked" ELSE "pending"
            /\ new[k].chain = c /\ held[k].chain = c
            /\ new[k].index = n /\ held[k].index = n
            /\ held[k].leasedBy = NULL /\ held[k].lease = "none"
            /\ \A q \in JobIds \ {k} : new[q] = js[q] /\ held[q] = js[q]
      BY <1>1, <2>1, CreatedRow
  <2> QED BY <2>2, <2>3 DEF c, n
<1> HIDE DEF created, marked
<1>4. /\ Typed(js2)
      /\ js2[j].status = "completed"
      /\ js2[j].leasedBy = NULL /\ js2[j].lease = "none"
      /\ js2[j].chain = marked[j].chain /\ js2[j].index = marked[j].index
      /\ \A q \in JobIds \ {j} : js2[q] = marked[q]
    BY <1>3, CompletedRow
<1> HIDE DEF js2
<1>5. \A d : ChainComplete(created, d) <=> ChainComplete(js, d)
  <2>1. Exists(created, j) /\ created[j].chain = js[j].chain /\ created[j].index = js[j].index
      BY <1>2, <1>3 DEF Exists
  <2>2. \A q \in JobIds \ {j, k} : created[q] = js[q]
      BY <1>3
  <2> QED BY <1>1, <1>2, <1>3, <2>1, <2>2, SuccessorIncomplete
<1>6. /\ Exists(js2, j) /\ js2[j].chain = js[j].chain /\ js2[j].index = js[j].index
      /\ js2[k] = marked[k] /\ js2[k].status \in {"pending", "blocked"}
      /\ \A q \in JobIds \ {j, k} : js2[q] = js[q]
    BY <1>2, <1>3, <1>4 DEF Exists
<1>7. \A d : ChainComplete(js2, d) <=> ChainComplete(js, d)
    BY <1>1, <1>2, <1>3, <1>4, <1>6, SuccessorIncomplete
<1>8. WellFormedChains(js2)
    BY <1>1, <1>2, <1>3, <1>4, <1>6, SuccessorAdded
<1>9. Incomplete(created, B) = Incomplete(js, B)
    BY <1>5 DEF Incomplete
<1>10. \A q \in JobIds \ {k} :
        /\ js2[q].status # js[q].status => js2[q].status = "completed"
        /\ Exists(js, q) => Exists(js2, q)
    BY <1>4, <1>6 DEF Exists
<1>11. js2[k].status = IF Incomplete(js, B) # {} THEN "blocked" ELSE "pending"
    BY <1>3, <1>6, <1>9
<1>12. RowsOwned(js2, bl2) /\ BlockedIffWaiting(js2, bl2)
    BY <1>4, <1>7, <1>10, <1>11, NewJobWaits
<1>13. LeasedOnlyIfRunning(js2)
    BY <1>1, <1>3, <1>4, <1>6 DEF LeasedOnlyIfRunning
<1>14. KeepsComplete(js, js2)
    BY <1>7 DEF KeepsComplete
<1> QED BY <1>4, <1>8, <1>12, <1>13, <1>14 DEF Consistent, js2, marked, created

LEMMA FinishConsistent ==
  ASSUME NEW js, NEW bl, Consistent(js, bl),
         NEW j \in JobIds, Exists(js, j), js[j].status # "completed"
  PROVE  LET js2 == UnblockJobs(CompleteJob(js, j), bl, js[j].chain)
         IN  Consistent(js2, bl) /\ KeepsComplete(js, js2)
<1> DEFINE c == js[j].chain
           mid == CompleteJob(js, j)
           js2 == UnblockJobs(mid, bl, c)
<1>1. Typed(js) /\ WellFormedChains(js) /\ LeasedOnlyIfRunning(js)
    BY DEF Consistent
<1>2. IsLastInChain(js, j)
    BY <1>1, IncompleteIsLast
<1>3. /\ Typed(mid)
      /\ mid[j].status = "completed"
      /\ mid[j].leasedBy = NULL /\ mid[j].lease = "none"
      /\ mid[j].chain = js[j].chain /\ mid[j].index = js[j].index
      /\ \A q \in JobIds \ {j} : mid[q] = js[q]
    BY <1>1, CompletedRow
<1> HIDE DEF mid
<1>4. /\ WellFormedChains(mid)
      /\ \A d : ChainComplete(mid, d) <=> d = c \/ ChainComplete(js, d)
    BY <1>1, <1>2, <1>3, LastCompleted
<1>5. Typed(js2)
    BY <1>3, UnblockTyped
<1>6. \A q \in JobIds :
        /\ js2[q].chain = mid[q].chain /\ js2[q].index = mid[q].index
        /\ js2[q].leasedBy = mid[q].leasedBy /\ js2[q].lease = mid[q].lease
        /\ js2[q].status =
             IF /\ <<q, c>> \in bl /\ mid[q].status = "blocked"
                /\ Incomplete(mid, BlockersOf(bl, q)) = {}
             THEN "pending" ELSE mid[q].status
  <2> TAKE q \in JobIds
  <2>1. mid[q] \in Job
      BY <1>3 DEF Typed
  <2>2. CASE /\ <<q, c>> \in bl /\ mid[q].status = "blocked"
             /\ Incomplete(mid, BlockersOf(bl, q)) = {}
    <3>1. js2[q] = [mid[q] EXCEPT !.status = "pending"]
        BY <2>2 DEF UnblockJobs
    <3> QED BY <2>1, <2>2, <3>1 DEF Job
  <2>3. CASE ~ (/\ <<q, c>> \in bl /\ mid[q].status = "blocked"
                /\ Incomplete(mid, BlockersOf(bl, q)) = {})
    <3>1. js2[q] = mid[q]
        BY <2>3 DEF UnblockJobs
    <3> QED BY <2>3, <3>1
  <2> QED BY <2>2, <2>3
<1> HIDE DEF js2
<1>7. SameLayout(mid, js2)
    BY <1>6 DEF SameLayout, Exists
<1>8. WellFormedChains(js2)
    BY <1>4, <1>7, LayoutWellFormed
<1>9. \A X : Incomplete(js2, X) = Incomplete(mid, X)
    BY <1>7, LayoutCompletes DEF Incomplete
<1>10. LeasedOnlyIfRunning(js2)
  <2>1. \A q \in JobIds : mid[q].status = "blocked" => mid[q].leasedBy = NULL
      BY <1>1, <1>3 DEF LeasedOnlyIfRunning
  <2>2. LeasedOnlyIfRunning(mid)
      BY <1>1, <1>3 DEF LeasedOnlyIfRunning
  <2> QED BY <1>6, <2>1, <2>2 DEF LeasedOnlyIfRunning
<1>11. RowsOwned(js2, bl)
  <2>1. \A q \in JobIds : Exists(js, q) => Exists(js2, q)
      BY <1>3, <1>6 DEF Exists
  <2> QED BY <2>1 DEF RowsOwned, Consistent
<1>12. BlockedIffWaiting(js2, bl)
  <2> SUFFICES ASSUME NEW q \in JobIds
               PROVE  /\ js2[q].status = "blocked" =>
                           Incomplete(mid, BlockersOf(bl, q)) # {}
                      /\ js2[q].status \in {"pending", "running"} =>
                           Incomplete(mid, BlockersOf(bl, q)) = {}
      BY <1>9 DEF BlockedIffWaiting
  <2>1. CASE q = j
      BY <2>1, <1>3, <1>6
  <2>2. CASE q # j
    <3>1. mid[q] = js[q]
        BY <2>2, <1>3
    <3>2. Incomplete(mid, BlockersOf(bl, q)) = Incomplete(js, BlockersOf(bl, q)) \ {c}
        BY <1>4 DEF Incomplete
    <3>3. <<q, c>> \notin bl => Incomplete(mid, BlockersOf(bl, q))
                                  = Incomplete(js, BlockersOf(bl, q))
        BY <3>2 DEF Incomplete, BlockersOf
    <3>4. /\ js[q].status = "blocked" => Incomplete(js, BlockersOf(bl, q)) # {}
          /\ js[q].status \in {"pending", "running"} =>
               Incomplete(js, BlockersOf(bl, q)) = {}
        BY DEF Consistent, BlockedIffWaiting
    <3> QED BY <1>6, <3>1, <3>2, <3>3, <3>4
  <2> QED BY <2>1, <2>2
<1>13. KeepsComplete(js, js2)
    BY <1>4, <1>7, LayoutCompletes DEF KeepsComplete
<1> QED BY <1>5, <1>8, <1>10, <1>11, <1>12, <1>13 DEF Consistent, js2, mid

LEMMA DeleteConsistent ==
  ASSUME NEW js, NEW bl, Consistent(js, bl), NEW E \in SUBSET JobIds,
         ExternalBlockerRefs(js, bl, E) = {}
  PROVE  /\ Consistent(DeleteJobs(js, E), DeleteBlockers(js, bl, E))
         /\ \A d \in JobIds : ChainComplete(js, d) =>
              ChainComplete(DeleteJobs(js, E), d) \/ DeleteJobs(js, E)[d].status = "deleted"
<1> DEFINE js2 == DeleteJobs(js, E)
           bl2 == DeleteBlockers(js, bl, E)
<1>1. Typed(js) /\ WellFormedChains(js) /\ LeasedOnlyIfRunning(js) /\ RowsOwned(js, bl)
    BY DEF Consistent
<1>2. Typed(js2)
    BY <1>1, DeleteTyped
<1>3. /\ WellFormedChains(js2)
      /\ \A d : d \notin E => (ChainComplete(js2, d) <=> ChainComplete(js, d))
      /\ \A q \in JobIds : /\ Exists(js2, q) <=> Exists(js, q) /\ js[q].chain \notin E
                           /\ Exists(js2, q) => js2[q] = js[q]
    BY <1>1, ChainsDeleted
<1>4. LeasedOnlyIfRunning(js2)
  <2>1. \A q \in JobIds : \/ js2[q] = js[q]
                          \/ js2[q].leasedBy = NULL /\ js2[q].lease = "none"
      BY DEF DeleteJobs, NoJob
  <2> QED BY <1>1, <2>1 DEF LeasedOnlyIfRunning
<1> HIDE DEF js2
<1>5. \A q \in JobIds : q \notin InChains(js, E) <=> (Exists(js, q) => js[q].chain \notin E)
    BY DEF InChains
<1>6. RowsOwned(js2, bl2)
    BY <1>1, <1>3, <1>5 DEF RowsOwned, DeleteBlockers
<1>7. ASSUME NEW q \in JobIds, Exists(js2, q)
      PROVE  Incomplete(js2, BlockersOf(bl2, q)) = Incomplete(js, BlockersOf(bl, q))
  <2>1. Exists(js, q) /\ js[q].chain \notin E
      BY <1>3, <1>7
  <2>2. BlockersOf(bl2, q) = BlockersOf(bl, q)
      BY <2>1, <1>5 DEF BlockersOf, DeleteBlockers
  <2>3. \A b \in BlockersOf(bl, q) : b \notin E
    <3> SUFFICES ASSUME NEW b \in BlockersOf(bl, q), b \in E PROVE FALSE
        OBVIOUS
    <3>1. <<q, b>> \in bl
        BY DEF BlockersOf
    <3>2. <<q, b>> \in ExternalBlockerRefs(js, bl, E)
        BY <2>1, <3>1 DEF ExternalBlockerRefs
    <3> QED BY <3>2
  <2> QED BY <1>3, <2>2, <2>3 DEF Incomplete
<1>8. BlockedIffWaiting(js2, bl2)
  <2> SUFFICES ASSUME NEW q \in JobIds
               PROVE  /\ js2[q].status = "blocked" =>
                           Incomplete(js2, BlockersOf(bl2, q)) # {}
                      /\ js2[q].status \in {"pending", "running"} =>
                           Incomplete(js2, BlockersOf(bl2, q)) = {}
      BY DEF BlockedIffWaiting
  <2>1. CASE Exists(js2, q)
      BY <2>1, <1>3, <1>7 DEF Consistent, BlockedIffWaiting
  <2>2. CASE ~Exists(js2, q)
      BY <2>2 DEF Exists
  <2> QED BY <2>1, <2>2
<1>9. ASSUME NEW d \in JobIds, ChainComplete(js, d), d \in E
      PROVE  js2[d].status = "deleted"
  <2>1. Exists(js, d) /\ js[d].chain = d
      BY <1>1, <1>9 DEF ChainComplete, ChainJobs, WellFormedChains, Roots
  <2> QED BY <2>1, <1>9 DEF js2, DeleteJobs, InChains, NoJob
<1> QED BY <1>2, <1>3, <1>4, <1>6, <1>8, <1>9 DEF Consistent, js2

LEMMA TriggerConsistent ==
  ASSUME NEW js, NEW bl, Consistent(js, bl), NEW J
  PROVE  /\ Consistent(TriggerJobs(js, J), bl)
         /\ KeepsComplete(js, TriggerJobs(js, J))
<1> DEFINE js2 == TriggerJobs(js, J)
<1>1. Typed(js2)
    BY TriggerTyped DEF Consistent
<1>2. \A q \in JobIds :
        /\ js2[q].status = js[q].status /\ js2[q].chain = js[q].chain
        /\ js2[q].index = js[q].index /\ js2[q].leasedBy = js[q].leasedBy
        /\ js2[q].lease = js[q].lease
  <2> TAKE q \in JobIds
  <2>1. js[q] \in Job
      BY DEF Consistent, Typed
  <2>2. js2[q] = IF q \in J THEN [js[q] EXCEPT !.due = TRUE] ELSE js[q]
      BY DEF TriggerJobs
  <2> QED BY <2>1, <2>2 DEF Job
<1> QED BY <1>1, <1>2, TimesConsistent

-----------------------------------------------------------------------------
(* The inductive invariant of the tables, and the types of the rest.       *)
MemoryTyped ==
  /\ slot \in [Slots -> Slot]
  /\ inProgress \in [Workers -> SUBSET JobIds]
  /\ alive \subseteq Workers

IInv == Consistent(jobs, blockers) /\ MemoryTyped

LEMMA FinishKeeps ==
  ASSUME NEW js, Consistent(js, blockers),
         NEW j \in JobIds, Exists(js, j), js[j].status # "completed", FinishJob(js, j)
  PROVE  Consistent(jobs', blockers') /\ KeepsComplete(js, jobs')
<1>1. CASE FinishChain(js, j)
    BY <1>1, FinishConsistent DEF FinishChain
<1>2. CASE \E k \in JobIds, due \in BOOLEAN,
              B \in (IF ContinuationBlockers THEN BlockerSets ELSE {{}}) :
             ContinueWith(js, j, k, B, due)
  <2>1. PICK k \in JobIds, due \in BOOLEAN,
             B \in (IF ContinuationBlockers THEN BlockerSets ELSE {{}}) :
               ContinueWith(js, j, k, B, due)
      BY <1>2
  <2>2. B \in SUBSET JobIds
      BY DEF BlockerSets, Handles, Roots
  <2> QED BY <2>1, <2>2, ContinueConsistent DEF ContinueWith
<1> QED BY <1>1, <1>2 DEF FinishJob

(* The guard of a staged attempt holds of running jobs only.               *)
LEMMA OwnedIsRunning ==
  ASSUME IInv, NEW s \in Slots, Owned(s), Busy(s)
  PROVE  /\ slot[s].job \in JobIds /\ jobs[slot[s].job].status = "running"
         /\ Exists(jobs, slot[s].job) /\ Owner[s] \in Workers
<1>1. slot[s].job \in JobIds
    BY DEF IInv, MemoryTyped, Slot, Busy
<1>2. Owner[s] \in Workers /\ Owner[s] # NULL
    BY OwnerType, NullIsNoId
<1>3. jobs[slot[s].job].status = "running"
    BY <1>1, <1>2 DEF IInv, Consistent, LeasedOnlyIfRunning, Owned
<1> QED BY <1>1, <1>2, <1>3 DEF Exists

LEMMA InitInvariant == Init => IInv
<1> SUFFICES ASSUME Init PROVE IInv
    OBVIOUS
<1>1. Typed(jobs)
    BY DEF Init, Typed, NoJob, Job, JobStatus
<1>2. \A j \in JobIds : ~Exists(jobs, j) /\ jobs[j].status = "absent"
                        /\ jobs[j].leasedBy = NULL /\ jobs[j].lease = "none"
    BY DEF Init, NoJob, Exists
<1>3. WellFormedChains(jobs) /\ LeasedOnlyIfRunning(jobs) /\ BlockedIffWaiting(jobs, blockers)
    BY <1>2 DEF WellFormedChains, LeasedOnlyIfRunning, BlockedIffWaiting
<1>4. RowsOwned(jobs, blockers)
    BY DEF Init, RowsOwned
<1>5. MemoryTyped
    BY DEF Init, MemoryTyped, Slot, Idle
<1> QED BY <1>1, <1>3, <1>4, <1>5 DEF IInv, Consistent

LEMMA MemoryStep ==
  ASSUME IInv, [Next]_vars
  PROVE  MemoryTyped'
<1> USE DEF MemoryTyped
<1>0. MemoryTyped
    BY DEF IInv
<1>1. ASSUME NEW s \in Slots, NEW j \in JobIds, StagedPrepare(s, j) PROVE MemoryTyped'
  <2>1. [job |-> j, attempt |-> jobs[j].attempt + 1, aborted |-> FALSE] \in Slot
      BY DEF Slot, IInv, Consistent, Typed, Job
  <2> QED BY <1>0, <1>1, <2>1, OwnerType DEF StagedPrepare
<1>2. ASSUME NEW s \in Slots, Leave(s) PROVE MemoryTyped'
    BY <1>0, <1>2 DEF Leave, Slot, Idle
<1>3. ASSUME NEW s \in Slots, LoseOwnership(s) PROVE MemoryTyped'
    BY <1>0, <1>3 DEF LoseOwnership, Slot
<1>4. ASSUME NEW w \in Workers, Crash(w) PROVE MemoryTyped'
    BY <1>0, <1>4 DEF Crash, Slot, Idle
<1>5. CASE ClientStep
    BY <1>0, <1>5 DEF ClientStep, StartChain, Trigger, DeleteChains, CompleteChain
<1>6. CASE WorkerStep
    BY <1>0, <1>1, <1>2, <1>3, <1>6
    DEF WorkerStep, AtomicAttempt, StagedComplete, StagedFail, Abandon, RenewLease, Reap
<1>7. CASE EnvironmentStep
    BY <1>0, <1>4, <1>7 DEF EnvironmentStep, BecomeDue, ExpireLease
<1>8. CASE UNCHANGED vars
    BY <1>0, <1>8 DEF vars
<1> QED BY <1>5, <1>6, <1>7, <1>8 DEF Next

(* What every step keeps of the tables.                                    *)
Stays ==
  /\ Consistent(jobs', blockers')
  /\ \A d \in JobIds :
       ChainComplete(jobs, d) => ChainComplete(jobs', d) \/ jobs'[d].status = "deleted"

LEMMA KeptStays ==
  ASSUME Consistent(jobs', blockers'), KeepsComplete(jobs, jobs')
  PROVE  Stays
BY DEF Stays, KeepsComplete

LEMMA ClientTablesStep ==
  ASSUME IInv, ClientStep
  PROVE  Stays
<1>0. Consistent(jobs, blockers)
    BY DEF IInv
<1>1. ASSUME NEW c \in JobIds, NEW B \in BlockerSets, NEW due \in BOOLEAN,
             NEW key \in Keys \cup {NULL}, NEW scope, StartChain(c, B, due, key, scope)
      PROVE  Stays
  <2>1. B \in SUBSET JobIds
      BY DEF BlockerSets, Handles, Roots
  <2> QED BY <1>0, <1>1, <2>1, StartConsistent, KeptStays DEF StartChain
<1>2. ASSUME NEW J, Trigger(J) PROVE Stays
    BY <1>0, <1>2, TriggerConsistent, KeptStays DEF Trigger
<1>3. ASSUME NEW E \in Deletions, DeleteChains(E)
      PROVE  Stays
  <2>1. E \in SUBSET JobIds
      BY DEF Deletions, Roots, ExpandChainIds
  <2>2. /\ ExternalBlockerRefs(jobs, blockers, E) = {}
        /\ jobs' = DeleteJobs(jobs, E) /\ blockers' = DeleteBlockers(jobs, blockers, E)
      BY <1>3 DEF DeleteChains
  <2> QED BY <1>0, <2>1, <2>2, DeleteConsistent DEF Stays
<1>4. ASSUME NEW j \in JobIds, CompleteChain(j) PROVE Stays
    BY <1>0, <1>4, FinishKeeps, KeptStays DEF CompleteChain, IsLastInChain
<1> QED BY <1>1, <1>2, <1>3, <1>4 DEF ClientStep

LEMMA WorkerTablesStep ==
  ASSUME IInv, WorkerStep
  PROVE  Stays
<1>0. Consistent(jobs, blockers)
    BY DEF IInv
<1>1. ASSUME NEW s \in Slots, NEW j \in JobIds, AtomicAttempt(s, j)
      PROVE  Stays
  <2>1. /\ Consistent(AcquireJob(jobs, j), blockers) /\ KeepsComplete(jobs, AcquireJob(jobs, j))
        /\ AcquireJob(jobs, j)[j].status = "running"
      BY <1>0, <1>1, AcquireConsistent DEF AtomicAttempt, Acquirable
  <2>2. CASE FinishJob(AcquireJob(jobs, j), j)
      BY <2>1, <2>2, FinishKeeps, KeptStays DEF Exists, KeepsComplete
  <2>3. CASE /\ \E due \in BOOLEAN : jobs' = RescheduleJob(AcquireJob(jobs, j), j, due)
             /\ UNCHANGED blockers
      BY <2>1, <2>3, RescheduleConsistent, KeptStays DEF KeepsComplete
  <2>4. CASE jobs' = AcquireJob(jobs, j) /\ UNCHANGED blockers
      BY <2>1, <2>4, KeptStays
  <2> QED BY <1>1, <2>2, <2>3, <2>4 DEF AtomicAttempt
<1>2. ASSUME NEW s \in Slots, NEW j \in JobIds, StagedPrepare(s, j)
      PROVE  Stays
  <2>1. /\ Consistent(AcquireJob(jobs, j), blockers) /\ KeepsComplete(jobs, AcquireJob(jobs, j))
        /\ AcquireJob(jobs, j)[j].status = "running"
      BY <1>0, <1>2, AcquireConsistent DEF StagedPrepare, Acquirable
  <2>2. Owner[s] \in Workers
      BY OwnerType
  <2> QED BY <1>2, <2>1, <2>2, RenewConsistent, KeptStays DEF StagedPrepare, KeepsComplete
<1>3. ASSUME NEW s \in Slots, StagedComplete(s) PROVE Stays
    BY <1>0, <1>3, OwnedIsRunning, FinishKeeps, KeptStays DEF StagedComplete
<1>4. ASSUME NEW s \in Slots, StagedFail(s) PROVE Stays
    BY <1>0, <1>4, OwnedIsRunning, RescheduleConsistent, KeptStays DEF StagedFail
<1>5. ASSUME NEW s \in Slots, RenewLease(s) PROVE Stays
    BY <1>0, <1>5, OwnedIsRunning, RenewConsistent, KeptStays DEF RenewLease
<1>6. ASSUME NEW s \in Slots, Abandon(s) \/ LoseOwnership(s)
      PROVE  Stays
    BY <1>0, <1>6 DEF Abandon, LoseOwnership, Stays
<1>7. ASSUME NEW w \in Workers, NEW j \in JobIds, Reap(w, j)
      PROVE  Stays
    BY <1>0, <1>7, ReapConsistent, KeptStays DEF Reap
<1> QED BY <1>1, <1>2, <1>3, <1>4, <1>5, <1>6, <1>7 DEF WorkerStep

LEMMA EnvironmentTablesStep ==
  ASSUME IInv, EnvironmentStep
  PROVE  Stays
<1>0. Consistent(jobs, blockers) /\ Typed(jobs)
    BY DEF IInv, Consistent
<1>1. ASSUME NEW j \in JobIds, BecomeDue(j) PROVE Stays
  <2>1. Typed(jobs') /\ blockers' = blockers
      BY <1>0, <1>1, ColumnTyped DEF BecomeDue
  <2>2. \A q \in JobIds :
          /\ jobs'[q].status = jobs[q].status /\ jobs'[q].chain = jobs[q].chain
          /\ jobs'[q].index = jobs[q].index /\ jobs'[q].leasedBy = jobs[q].leasedBy
          /\ jobs'[q].lease = jobs[q].lease
      BY <1>0, <1>1 DEF BecomeDue, Typed, Job
  <2> QED BY <1>0, <2>1, <2>2, TimesConsistent, KeptStays
<1>2. ASSUME NEW j \in JobIds, ExpireLease(j) PROVE Stays
  <2>1. Typed(jobs') /\ blockers' = blockers
      BY <1>0, <1>2, ColumnTyped DEF ExpireLease
  <2>2. \A q \in JobIds :
          /\ jobs'[q].status = jobs[q].status /\ jobs'[q].chain = jobs[q].chain
          /\ jobs'[q].index = jobs[q].index /\ jobs'[q].leasedBy = jobs[q].leasedBy
          /\ jobs'[q].lease = "none" <=> jobs[q].lease = "none"
      BY <1>0, <1>2 DEF ExpireLease, Typed, Job
  <2> QED BY <1>0, <2>1, <2>2, TimesConsistent, KeptStays
<1>3. ASSUME NEW w \in Workers, Crash(w) PROVE Stays
    BY <1>0, <1>3 DEF Crash, Stays
<1> QED BY <1>1, <1>2, <1>3 DEF EnvironmentStep

LEMMA StepInvariant == IInv /\ [Next]_vars => IInv'
<1> SUFFICES ASSUME IInv, [Next]_vars PROVE IInv'
    OBVIOUS
<1>1. MemoryTyped'
    BY MemoryStep
<1>2. CASE UNCHANGED vars
    BY <1>2 DEF vars, IInv, MemoryTyped
<1>3. CASE Next
    BY <1>1, <1>3, ClientTablesStep, WorkerTablesStep, EnvironmentTablesStep
    DEF Next, IInv, Stays
<1> QED BY <1>2, <1>3

LEMMA Invariance == Spec => []IInv
BY InitInvariant, StepInvariant, PTL DEF Spec

-----------------------------------------------------------------------------
(* Every reachable state has the declared type.                            *)
THEOREM TypeCorrect == Spec => []TypeOK
<1>1. IInv => TypeOK
    BY DEF IInv, Consistent, Typed, RowsOwned, MemoryTyped, TypeOK
<1> QED BY <1>1, Invariance, PTL

(* Chains stay well formed: a continuation appears in the step that        *)
(* completes its predecessor, whoever completes it.                        *)
THEOREM ChainsWellFormed == Spec => []ChainShape
<1>1. IInv => ChainShape
    BY DEF IInv, Consistent, ChainShape
<1> QED BY <1>1, Invariance, PTL

(* No unblocking is missed and no job runs early, with any number of jobs, *)
(* blockers, workers, retries, crashes and deletions.                      *)
THEOREM NoMissedUnblock == Spec => []BlockedWhileWaiting
<1>1. IInv => BlockedWhileWaiting
    BY DEF IInv, Consistent, BlockedWhileWaiting
<1> QED BY <1>1, Invariance, PTL

(* Leases sit on running jobs alone.                                       *)
THEOREM LeasesOnRunningJobs == Spec => []LeaseOnlyWhileRunning
<1>1. IInv => LeaseOnlyWhileRunning
    BY DEF IInv, Consistent, LeaseOnlyWhileRunning
<1> QED BY <1>1, Invariance, PTL

-----------------------------------------------------------------------------
(* What a step may do to a row, besides the acquisition of a staged        *)
(* attempt: a completed row stays or is deleted, a row keeps its chain     *)
(* until it is deleted by deleteChains, a lease is given up or kept by the *)
(* same attempt, and no running row loses its lease.                       *)
Deleting == \E E \in Deletions : DeleteChains(E)

RowStep(r, r2) ==
  /\ r.status = "completed" => r2 = r \/ r2.status = "deleted"
  /\ r.status \notin {"absent", "deleted"} =>
       \/ r2.status = "deleted"
       \/ r2.status # "absent" /\ r2.chain = r.chain
  /\ r2.status = "deleted" => r.status = "deleted" \/ Deleting
  /\ r2.leasedBy # NULL => r2.leasedBy = r.leasedBy /\ r2.attempt = r.attempt
  /\ r2.status = "running" /\ r2.lease = "none" =>
       EscapingErrors \/ (r.status = "running" /\ r.lease = "none")

LEMMA SameRow == \A r : RowStep(r, r)
BY DEF RowStep

LEMMA FinishRows ==
  ASSUME NEW js, Typed(js), WellFormedChains(js),
         NEW j \in JobIds, Exists(js, j), js[j].status # "completed", FinishJob(js, j)
  PROVE  /\ jobs'[j].status = "completed" /\ jobs'[j].leasedBy = NULL
         /\ jobs'[j].lease = "none" /\ jobs'[j].chain = js[j].chain
         /\ \A q \in JobIds \ {j} : RowStep(js[q], jobs'[q])
<1>1. CASE FinishChain(js, j)
  <2> DEFINE mid == CompleteJob(js, j)
  <2>1. /\ Typed(mid) /\ mid[j].status = "completed"
        /\ mid[j].leasedBy = NULL /\ mid[j].lease = "none" /\ mid[j].chain = js[j].chain
        /\ \A q \in JobIds \ {j} : mid[q] = js[q]
      BY CompletedRow
  <2>2. jobs' = UnblockJobs(mid, blockers, js[j].chain)
      BY <1>1 DEF FinishChain
  <2> HIDE DEF mid
  <2>3. \A q \in JobIds :
          \/ jobs'[q] = mid[q]
          \/ mid[q].status = "blocked" /\ jobs'[q] = [mid[q] EXCEPT !.status = "pending"]
      BY <2>2 DEF UnblockJobs
  <2>4. ASSUME NEW q \in JobIds \ {j} PROVE RowStep(js[q], jobs'[q])
    <3>1. CASE jobs'[q] = mid[q]
        BY <2>1, <3>1, SameRow
    <3>2. CASE mid[q].status = "blocked" /\ jobs'[q] = [mid[q] EXCEPT !.status = "pending"]
      <4>1. mid[q] = js[q] /\ js[q] \in Job
          BY <2>1 DEF Typed
      <4>2. /\ jobs'[q].status = "pending" /\ jobs'[q].chain = js[q].chain
            /\ jobs'[q].leasedBy = js[q].leasedBy /\ jobs'[q].attempt = js[q].attempt
          BY <3>2, <4>1 DEF Job
      <4> QED BY <3>2, <4>1, <4>2 DEF RowStep
    <3> QED BY <2>3, <3>1, <3>2
  <2> QED BY <2>1, <2>3, <2>4
<1>2. CASE \E k \in JobIds, due \in BOOLEAN,
              B \in (IF ContinuationBlockers THEN BlockerSets ELSE {{}}) :
             ContinueWith(js, j, k, B, due)
  <2>1. PICK k \in JobIds, due \in BOOLEAN,
             B \in (IF ContinuationBlockers THEN BlockerSets ELSE {{}}) :
               ContinueWith(js, j, k, B, due)
      BY <1>2
  <2> DEFINE n == js[j].index + 1
             created == CreateJob(js, k, js[j].chain, n, due, NULL)
             marked == AddJobBlockers(created, k, B)
  <2>2. js[k].status = "absent" /\ j # k
      BY <2>1 DEF ContinueWith, Exists
  <2>3. jobs' = CompleteJob(marked, j)
      BY <2>1 DEF ContinueWith
  <2>4. /\ Typed(marked) /\ marked[j] = js[j]
        /\ marked[k].status \in {"pending", "blocked"} /\ marked[k].leasedBy = NULL
        /\ \A q \in JobIds \ {k} : marked[q] = js[q]
    <3>1. js[j].chain \in JobIds
        BY DEF WellFormedChains, Roots
    <3>2. n \in Nat
        BY DEF Typed, Job
    <3> HIDE DEF n
    <3> QED BY <2>2, <3>1, <3>2, CreatedRow
  <2> HIDE DEF marked
  <2>5. /\ jobs'[j].status = "completed" /\ jobs'[j].leasedBy = NULL
        /\ jobs'[j].lease = "none" /\ jobs'[j].chain = js[j].chain
        /\ \A q \in JobIds \ {j} : jobs'[q] = marked[q]
    <3>1. LET done == CompleteJob(marked, j)
          IN  /\ done[j].status = "completed" /\ done[j].leasedBy = NULL
              /\ done[j].lease = "none" /\ done[j].chain = marked[j].chain
              /\ \A q \in JobIds \ {j} : done[q] = marked[q]
        BY <2>4, CompletedRow
    <3> QED BY <2>3, <2>4, <3>1
  <2>6. ASSUME NEW q \in JobIds \ {j} PROVE RowStep(js[q], jobs'[q])
    <3>1. CASE q = k
        BY <2>2, <2>4, <2>5, <3>1 DEF RowStep
    <3>2. CASE q # k
        BY <2>4, <2>5, <3>2, SameRow
    <3> QED BY <3>1, <3>2
  <2> QED BY <2>5, <2>6
<1> QED BY <1>1, <1>2 DEF FinishJob

LEMMA StartRows ==
  ASSUME NEW c \in JobIds, NEW B \in SUBSET JobIds, NEW due \in BOOLEAN,
         NEW key \in Keys \cup {NULL}, NEW scope,
         Typed(jobs), StartChain(c, B, due, key, scope), NEW q \in JobIds
  PROVE  RowStep(jobs[q], jobs'[q])
<1> DEFINE created == CreateJob(jobs, c, c, 0, due, key)
           marked == AddJobBlockers(created, c, B)
<1>1. jobs' = marked /\ jobs[c].status = "absent"
    BY DEF StartChain
<1>2. /\ marked[c].status \in {"pending", "blocked"} /\ marked[c].leasedBy = NULL
      /\ \A x \in JobIds \ {c} : marked[x] = jobs[x]
    BY CreatedRow
<1> HIDE DEF marked
<1>3. CASE q = c
    BY <1>1, <1>2, <1>3 DEF RowStep
<1>4. CASE q # c
    BY <1>1, <1>2, <1>4, SameRow
<1> QED BY <1>3, <1>4

(* Every step but the acquisition of a staged attempt is a RowStep of all  *)
(* rows, and that one is of all but the acquired row.                      *)
LEMMA Rows ==
  ASSUME IInv, [Next]_vars, NEW q \in JobIds
  PROVE  \/ RowStep(jobs[q], jobs'[q])
         \/ /\ jobs[q].status = "pending" /\ jobs'[q].status = "running"
            /\ jobs'[q].chain = jobs[q].chain /\ jobs'[q].lease = "live"
            /\ \E s \in Slots : StagedPrepare(s, q)
<1> DEFINE Row == RowStep(jobs[q], jobs'[q])
<1>0. Consistent(jobs, blockers) /\ Typed(jobs) /\ WellFormedChains(jobs)
      /\ LeasedOnlyIfRunning(jobs) /\ jobs[q] \in Job
    BY DEF IInv, Consistent, Typed
<1>1. ASSUME NEW c \in JobIds, NEW B \in BlockerSets, NEW due \in BOOLEAN,
             NEW key \in Keys \cup {NULL}, NEW scope, StartChain(c, B, due, key, scope)
      PROVE  Row
  <2>1. B \in SUBSET JobIds
      BY DEF BlockerSets, Handles, Roots
  <2> QED BY <1>0, <1>1, <2>1, StartRows
<1>2. ASSUME NEW J, Trigger(J) PROVE Row
  <2>1. jobs'[q] = IF q \in J THEN [jobs[q] EXCEPT !.due = TRUE] ELSE jobs[q]
      BY <1>2 DEF Trigger, TriggerJobs
  <2>2. q \in J => jobs[q].status = "pending"
      BY <1>2 DEF Trigger, Triggerable
  <2>3. CASE q \in J
    <3>1. /\ jobs'[q].status = jobs[q].status /\ jobs'[q].chain = jobs[q].chain
          /\ jobs'[q].leasedBy = jobs[q].leasedBy /\ jobs'[q].attempt = jobs[q].attempt
        BY <1>0, <2>1, <2>3 DEF Job
    <3> QED BY <2>2, <2>3, <3>1 DEF RowStep
  <2>4. CASE q \notin J
      BY <2>1, <2>4, SameRow
  <2> QED BY <2>3, <2>4
<1>3. ASSUME NEW E \in Deletions, DeleteChains(E)
      PROVE  Row
  <2>1. jobs'[q] = jobs[q] \/ jobs'[q] = [NoJob EXCEPT !.status = "deleted"]
      BY <1>3 DEF DeleteChains, DeleteJobs
  <2>2. CASE jobs'[q] = [NoJob EXCEPT !.status = "deleted"]
    <3>1. Deleting
        BY <1>3 DEF Deleting
    <3> QED BY <2>2, <3>1 DEF NoJob, RowStep
  <2> QED BY <2>1, <2>2, SameRow
<1>4. ASSUME NEW j \in JobIds, CompleteChain(j) PROVE Row
  <2>1. /\ jobs'[j].status = "completed" /\ jobs'[j].leasedBy = NULL
        /\ jobs'[j].chain = jobs[j].chain /\ jobs[j].status # "completed"
        /\ q # j => Row
      BY <1>0, <1>4, FinishRows DEF CompleteChain, IsLastInChain
  <2> QED BY <2>1 DEF RowStep
<1>5. CASE ClientStep
    BY <1>1, <1>2, <1>3, <1>4, <1>5 DEF ClientStep
<1>6. ASSUME NEW s \in Slots, NEW j \in JobIds, AtomicAttempt(s, j) PROVE Row
  <2> DEFINE acq == AcquireJob(jobs, j)
  <2>1. Consistent(acq, blockers) /\ acq[j].status = "running" /\ jobs[j].status = "pending"
      BY <1>0, <1>6, AcquireConsistent DEF AtomicAttempt, Acquirable
  <2>2. /\ acq[j].chain = jobs[j].chain
        /\ acq[j].leasedBy = jobs[j].leasedBy /\ jobs[j].leasedBy = NULL
        /\ \A x \in JobIds \ {j} : acq[x] = jobs[x]
    <3>1. /\ acq[j].chain = jobs[j].chain /\ acq[j].leasedBy = jobs[j].leasedBy
          /\ \A x \in JobIds \ {j} : acq[x] = jobs[x]
        BY <1>0 DEF AcquireJob, Typed
    <3>2. jobs[j].leasedBy = NULL
        BY <1>0, <2>1 DEF LeasedOnlyIfRunning
    <3> QED BY <3>1, <3>2
  <2> HIDE DEF acq
  <2>3. CASE FinishJob(acq, j)
    <3>1. Exists(acq, j) /\ acq[j].status # "completed" /\ Typed(acq) /\ WellFormedChains(acq)
        BY <2>1 DEF Exists, Consistent
    <3>2. /\ jobs'[j].status = "completed" /\ jobs'[j].leasedBy = NULL
          /\ jobs'[j].chain = acq[j].chain
          /\ q # j => RowStep(acq[q], jobs'[q])
        BY <2>3, <3>1, FinishRows
    <3> QED BY <2>1, <2>2, <3>2 DEF RowStep
  <2>4. CASE \E due \in BOOLEAN : jobs' = RescheduleJob(acq, j, due)
    <3>1. /\ jobs'[j].status = "pending" /\ jobs'[j].leasedBy = NULL
          /\ jobs'[j].chain = acq[j].chain
          /\ \A x \in JobIds \ {j} : jobs'[x] = acq[x]
        BY <2>1, <2>4 DEF RescheduleJob, Consistent, Typed
    <3> QED BY <2>1, <2>2, <3>1 DEF RowStep
  <2>5. CASE EscapingErrors /\ jobs' = acq
      BY <2>1, <2>2, <2>5 DEF RowStep
  <2> QED BY <1>6, <2>3, <2>4, <2>5 DEF AtomicAttempt, acq
<1>7. ASSUME NEW s \in Slots, NEW j \in JobIds, StagedPrepare(s, j)
      PROVE  \/ Row
             \/ /\ jobs[q].status = "pending" /\ jobs'[q].status = "running"
                /\ jobs'[q].chain = jobs[q].chain /\ jobs'[q].lease = "live"
                /\ \E x \in Slots : StagedPrepare(x, q)
  <2>1. /\ jobs[j].status = "pending" /\ jobs'[j].status = "running"
        /\ jobs'[j].chain = jobs[j].chain /\ jobs'[j].lease = "live"
        /\ \A x \in JobIds \ {j} : jobs'[x] = jobs[x]
      BY <1>0, <1>7
      DEF StagedPrepare, Acquirable, AcquireJob, RenewJobLease, Typed
  <2> QED BY <1>7, <2>1, SameRow
<1>8. ASSUME NEW s \in Slots, StagedComplete(s) PROVE Row
  <2>1. /\ slot[s].job \in JobIds /\ jobs[slot[s].job].status = "running"
        /\ Exists(jobs, slot[s].job)
      BY <1>8, OwnedIsRunning DEF StagedComplete
  <2>2. ASSUME NEW j \in JobIds, j = slot[s].job
        PROVE  /\ jobs'[j].status = "completed" /\ jobs'[j].leasedBy = NULL
               /\ jobs'[j].chain = jobs[j].chain
               /\ q # j => Row
    <3>1. FinishJob(jobs, j) /\ Exists(jobs, j) /\ jobs[j].status # "completed"
        BY <1>8, <2>1, <2>2 DEF StagedComplete
    <3> QED BY <1>0, <3>1, FinishRows
  <2> QED BY <2>1, <2>2 DEF RowStep
<1>9. ASSUME NEW s \in Slots, StagedFail(s) PROVE Row
  <2>1. slot[s].job \in JobIds /\ jobs[slot[s].job].status = "running"
      BY <1>9, OwnedIsRunning DEF StagedFail
  <2>2. ASSUME NEW j \in JobIds, j = slot[s].job
        PROVE  /\ jobs'[j].status = "pending" /\ jobs'[j].leasedBy = NULL
               /\ jobs'[j].chain = jobs[j].chain
               /\ \A x \in JobIds \ {j} : jobs'[x] = jobs[x]
    <3>1. PICK due \in BOOLEAN : jobs' = RescheduleJob(jobs, j, due)
        BY <1>9, <2>2 DEF StagedFail
    <3> QED BY <1>0, <3>1 DEF RescheduleJob, Typed
  <2> QED BY <2>1, <2>2, SameRow DEF RowStep
<1>10. ASSUME NEW s \in Slots, RenewLease(s) PROVE Row
  <2>1. /\ slot[s].job \in JobIds /\ jobs[slot[s].job].status = "running"
        /\ jobs[slot[s].job].leasedBy = Owner[s]
      BY <1>10, OwnedIsRunning DEF RenewLease, Owned
  <2>2. LET j == slot[s].job IN
          /\ jobs'[j].status = "running" /\ jobs'[j].leasedBy = Owner[s]
          /\ jobs'[j].chain = jobs[j].chain /\ jobs'[j].attempt = jobs[j].attempt
          /\ jobs'[j].lease = "live"
          /\ \A x \in JobIds \ {j} : jobs'[x] = jobs[x]
      BY <1>0, <1>10, <2>1 DEF RenewLease, RenewJobLease, Typed
  <2> QED BY <2>1, <2>2, SameRow DEF RowStep
<1>11. ASSUME NEW w \in Workers, NEW j \in JobIds, Reap(w, j) PROVE Row
  <2>1. /\ jobs[j].status = "running" /\ jobs'[j].status = "pending"
        /\ jobs'[j].leasedBy = NULL /\ jobs'[j].chain = jobs[j].chain
        /\ \A x \in JobIds \ {j} : jobs'[x] = jobs[x]
      BY <1>0, <1>11 DEF Reap, ReapJobLease, Typed
  <2> QED BY <2>1, SameRow DEF RowStep
<1>12. ASSUME NEW s \in Slots, Abandon(s) \/ LoseOwnership(s) PROVE Row
    BY <1>12, SameRow DEF Abandon, LoseOwnership
<1>13. ASSUME NEW j \in JobIds, BecomeDue(j) \/ ExpireLease(j) PROVE Row
  <2>1. /\ jobs'[q].status = jobs[q].status /\ jobs'[q].chain = jobs[q].chain
        /\ jobs'[q].leasedBy = jobs[q].leasedBy /\ jobs'[q].attempt = jobs[q].attempt
        /\ jobs'[q].lease = "none" <=> jobs[q].lease = "none"
        /\ jobs[q].status = "completed" => jobs'[q] = jobs[q]
    <3>1. CASE BecomeDue(j)
        BY <1>0, <3>1 DEF BecomeDue, Typed, Job
    <3>2. CASE ExpireLease(j)
      <4>1. jobs[j].status = "running"
          BY <1>0, <3>2 DEF ExpireLease, LeasedOnlyIfRunning
      <4> QED BY <1>0, <3>2, <4>1 DEF ExpireLease, Typed, Job
    <3> QED BY <1>13, <3>1, <3>2
  <2> QED BY <2>1 DEF RowStep
<1>14. CASE UNCHANGED jobs
    BY <1>14, SameRow
<1> QED
  <2>1. CASE ClientStep
      BY <2>1, <1>5
  <2>2. CASE WorkerStep
      BY <2>2, <1>6, <1>7, <1>8, <1>9, <1>10, <1>11, <1>12 DEF WorkerStep
  <2>3. CASE EnvironmentStep
      BY <2>3, <1>13, <1>14 DEF EnvironmentStep, Crash
  <2>4. CASE UNCHANGED vars
      BY <2>4, <1>14 DEF vars
  <2> QED BY <2>1, <2>2, <2>3, <2>4 DEF Next

-----------------------------------------------------------------------------
(* Completed jobs and chains are final, through retries, late attempts,    *)
(* reaping and continuations.                                              *)
THEOREM CompletionFinal == Spec => CompletionIsFinal
<1> DEFINE Final ==
      \A j \in JobIds :
        /\ jobs[j].status = "completed" => jobs'[j] = jobs[j] \/ jobs'[j].status = "deleted"
        /\ ChainComplete(jobs, j) => ChainComplete(jobs', j) \/ jobs'[j].status = "deleted"
<1>1. IInv /\ [Next]_vars => Final
  <2> SUFFICES ASSUME IInv, [Next]_vars, NEW j \in JobIds
               PROVE  /\ jobs[j].status = "completed" =>
                           jobs'[j] = jobs[j] \/ jobs'[j].status = "deleted"
                      /\ ChainComplete(jobs, j) =>
                           ChainComplete(jobs', j) \/ jobs'[j].status = "deleted"
      OBVIOUS
  <2>1. jobs[j].status = "completed" => jobs'[j] = jobs[j] \/ jobs'[j].status = "deleted"
      BY Rows DEF RowStep
  <2>2. Stays \/ UNCHANGED jobs
      BY ClientTablesStep, WorkerTablesStep, EnvironmentTablesStep DEF Next, vars
  <2>3. ChainComplete(jobs, j) => ChainComplete(jobs', j) \/ jobs'[j].status = "deleted"
      BY <2>2 DEF Stays
  <2> QED BY <2>1, <2>3
<1>2. IInv /\ [Next]_vars => [Final]_vars
    BY <1>1
<1> QED BY <1>2, Invariance, PTL DEF Spec, CompletionIsFinal

(* With no attempt letting another job's error escape, every committed     *)
(* running job carries the lease that lets the reaper recover it.          *)
THEOREM RunningRecoverable ==
  ASSUME ~EscapingErrors PROVE Spec => []RunningIsRecoverable
<1>1. Init => RunningIsRecoverable
    BY DEF Init, NoJob, RunningIsRecoverable
<1>2. IInv /\ RunningIsRecoverable /\ [Next]_vars => RunningIsRecoverable'
  <2> SUFFICES ASSUME IInv, RunningIsRecoverable, [Next]_vars, NEW j \in JobIds,
                      jobs'[j].status = "running"
               PROVE  jobs'[j].lease # "none"
      BY DEF RunningIsRecoverable
  <2> QED BY Rows DEF RowStep, RunningIsRecoverable
<1> QED BY <1>1, <1>2, Invariance, PTL DEF Spec

-----------------------------------------------------------------------------
(* A worker that runs one attempt at a time (the default concurrency).     *)
OneSlotPerWorker == \A s, t \in Slots : Owner[s] = Owner[t] => s = t

(* The slot that holds a job under its worker's id runs its current        *)
(* attempt, and its worker lists the job.                                  *)
SlotsCurrent ==
  \A s \in Slots : Busy(s) =>
    /\ slot[s].job \in inProgress[Owner[s]]
    /\ jobs[slot[s].job].leasedBy = Owner[s] => slot[s].attempt = jobs[slot[s].job].attempt

(* A staged attempt begins with one more attempt on its row.               *)
LEMMA PreparedRow ==
  ASSUME NEW js, Typed(js), NEW j \in JobIds, NEW w
  PROVE  LET row == RenewJobLease(AcquireJob(js, j), j, w)[j]
         IN  row.attempt = js[j].attempt + 1 /\ row.leasedBy = w
<1>1. AcquireJob(js, j)[j].attempt = js[j].attempt + 1
    BY DEF AcquireJob, Typed, Job
<1>2. DOMAIN AcquireJob(js, j) = JobIds
    BY DEF AcquireJob, Typed
<1>3. LET row == RenewJobLease(AcquireJob(js, j), j, w)[j]
      IN  row.attempt = AcquireJob(js, j)[j].attempt /\ row.leasedBy = w
    BY <1>2 DEF RenewJobLease, AcquireJob, Typed, Job
<1> QED BY <1>1, <1>3

LEMMA SlotsCurrentStep ==
  ASSUME OneSlotPerWorker, IInv, SlotsCurrent, [Next]_vars
  PROVE  SlotsCurrent'
<1> SUFFICES ASSUME NEW s \in Slots, slot'[s].job # NULL
             PROVE  /\ slot'[s].job \in inProgress'[Owner[s]]
                    /\ jobs'[slot'[s].job].leasedBy = Owner[s] =>
                         slot'[s].attempt = jobs'[slot'[s].job].attempt
    BY DEF SlotsCurrent, Busy
<1>0. /\ MemoryTyped /\ MemoryTyped' /\ Typed(jobs)
      /\ Owner[s] \in Workers /\ Owner[s] # NULL
    BY MemoryStep, OwnerType, NullIsNoId DEF IInv, Consistent
<1> DEFINE j == slot'[s].job
<1>1. j \in JobIds
    BY <1>0 DEF MemoryTyped, Slot
<1>2. CASE StagedPrepare(s, j)
  <2>1. slot'[s].attempt = jobs[j].attempt + 1 /\ j \in inProgress'[Owner[s]]
      BY <1>0, <1>2 DEF StagedPrepare, MemoryTyped
  <2>2. jobs' = RenewJobLease(AcquireJob(jobs, j), j, Owner[s])
      BY <1>2 DEF StagedPrepare
  <2>3. jobs'[j].attempt = jobs[j].attempt + 1
      BY <1>0, <1>1, <2>2, PreparedRow
  <2> QED BY <2>1, <2>3
<1>3. CASE slot'[s].job = slot[s].job /\ slot'[s].attempt = slot[s].attempt
           /\ slot[s].job \in inProgress'[Owner[s]] /\ ~StagedPrepare(s, j)
  <2>1. CASE RowStep(jobs[j], jobs'[j])
      BY <1>0, <1>3, <2>1 DEF RowStep, SlotsCurrent, Busy
  <2>2. CASE \E t \in Slots : StagedPrepare(t, j)
    <3>1. PICK t \in Slots : StagedPrepare(t, j)
        BY <2>2
    <3>2. jobs' = RenewJobLease(AcquireJob(jobs, j), j, Owner[t])
        BY <3>1 DEF StagedPrepare
    <3>3. jobs'[j].leasedBy = Owner[t]
        BY <1>0, <1>1, <3>2, PreparedRow
    <3>4. t # s
        BY <1>3, <3>1
    <3>5. Owner[t] # Owner[s]
        BY <3>4 DEF OneSlotPerWorker
    <3> QED BY <1>3, <3>3, <3>5
  <2> QED BY <1>1, <2>1, <2>2, Rows
<1>4. StagedPrepare(s, j) \/ (/\ slot'[s].job = slot[s].job
                              /\ slot'[s].attempt = slot[s].attempt
                              /\ slot[s].job \in inProgress'[Owner[s]])
  <2> DEFINE Same == /\ slot'[s].job = slot[s].job
                     /\ slot'[s].attempt = slot[s].attempt
                     /\ slot[s].job \in inProgress'[Owner[s]]
  <2>1. CASE UNCHANGED <<slot, inProgress>>
      BY <2>1 DEF SlotsCurrent, Busy
  <2>2. ASSUME NEW t \in Slots, Leave(t) PROVE Same
    <3>1. t # s
        BY <1>0, <2>2 DEF Leave, Idle, MemoryTyped
    <3>2. slot'[s] = slot[s] /\ inProgress'[Owner[s]] = inProgress[Owner[s]]
        BY <1>0, <2>2, <3>1 DEF Leave, MemoryTyped, OneSlotPerWorker
    <3> QED BY <3>2 DEF SlotsCurrent, Busy
  <2>3. ASSUME NEW t \in Slots, NEW k \in JobIds, StagedPrepare(t, k)
        PROVE  StagedPrepare(s, j) \/ Same
    <3>1. CASE t = s
        BY <1>0, <2>3, <3>1 DEF StagedPrepare, MemoryTyped
    <3>2. CASE t # s
      <4>1. slot'[s] = slot[s] /\ inProgress[Owner[s]] \subseteq inProgress'[Owner[s]]
          BY <1>0, <2>3, <3>2 DEF StagedPrepare, MemoryTyped
      <4> QED BY <4>1 DEF SlotsCurrent, Busy
    <3> QED BY <3>1, <3>2
  <2>4. ASSUME NEW t \in Slots, LoseOwnership(t) PROVE Same
    <3>1. /\ slot'[s].job = slot[s].job /\ slot'[s].attempt = slot[s].attempt
          /\ inProgress' = inProgress
        BY <1>0, <2>4 DEF LoseOwnership, MemoryTyped, Slot
    <3> QED BY <3>1 DEF SlotsCurrent, Busy
  <2>5. ASSUME NEW w \in Workers, Crash(w) PROVE Same
    <3>1. Owner[s] # w
        BY <2>5 DEF Crash, Idle
    <3>2. slot'[s] = slot[s] /\ inProgress'[Owner[s]] = inProgress[Owner[s]]
        BY <1>0, <2>5, <3>1 DEF Crash, MemoryTyped
    <3> QED BY <3>2 DEF SlotsCurrent, Busy
  <2>6. CASE ClientStep
      BY <2>1, <2>6 DEF ClientStep, StartChain, Trigger, DeleteChains, CompleteChain
  <2>7. CASE WorkerStep
      BY <2>1, <2>2, <2>3, <2>4, <2>7
      DEF WorkerStep, AtomicAttempt, StagedComplete, StagedFail, Abandon, RenewLease, Reap
  <2>8. CASE EnvironmentStep
      BY <2>1, <2>5, <2>8 DEF EnvironmentStep, BecomeDue, ExpireLease
  <2>9. CASE UNCHANGED vars
      BY <2>1, <2>9 DEF vars
  <2> QED BY <2>6, <2>7, <2>8, <2>9 DEF Next
<1> QED BY <1>2, <1>3, <1>4

LEMMA SlotsCurrentInvariant == ASSUME OneSlotPerWorker PROVE Spec => []SlotsCurrent
<1>1. Init => SlotsCurrent
    BY DEF Init, Idle, SlotsCurrent, Busy
<1> QED BY <1>1, SlotsCurrentStep, Invariance, PTL DEF Spec

(* Workers of one slot: the attempt that passes the ownership guard is the *)
(* one that acquired the job last.                                         *)
THEOREM CurrentAttemptWrites ==
  ASSUME OneSlotPerWorker PROVE Spec => []OnlyCurrentAttemptWrites
<1>1. SlotsCurrent => OnlyCurrentAttemptWrites
    BY DEF SlotsCurrent, OnlyCurrentAttemptWrites, Owned
<1> QED BY <1>1, SlotsCurrentInvariant, PTL

-----------------------------------------------------------------------------
(* Root jobs stay until their chain is deleted.                            *)
LEMMA RootsStay ==
  ASSUME IInv, [Next]_vars, ~Deleting
  PROVE  Roots(jobs) \subseteq Roots(jobs')
<1> SUFFICES ASSUME NEW c \in Roots(jobs) PROVE c \in Roots(jobs')
    OBVIOUS
<1>1. c \in JobIds /\ Exists(jobs, c) /\ jobs[c].chain = c
    BY DEF Roots
<1>2. CASE RowStep(jobs[c], jobs'[c])
    BY <1>1, <1>2 DEF RowStep, Roots, Exists
<1>3. CASE jobs'[c].status = "running" /\ jobs'[c].chain = jobs[c].chain
    BY <1>1, <1>3 DEF Roots, Exists
<1> QED BY <1>1, <1>2, <1>3, Rows

(* When chains are not deleted between the handing out of their handle and *)
(* its use as a blocker, every blocker row joins two existing rows.        *)
THEOREM NoBlockerDangles ==
  ASSUME ~StaleBlockers PROVE Spec => []NoDanglingBlockers
<1>1. Init => NoDanglingBlockers
    BY DEF Init, NoDanglingBlockers
<1>2. IInv /\ NoDanglingBlockers /\ [Next]_vars => NoDanglingBlockers'
  <2> SUFFICES ASSUME IInv, NoDanglingBlockers, [Next]_vars PROVE NoDanglingBlockers'
      OBVIOUS
  <2>1. \A ref \in blockers' : Exists(jobs', ref[1])
      BY StepInvariant DEF IInv, Consistent, RowsOwned
  <2>2. \A B \in BlockerSets : B \subseteq Roots(jobs)
      BY DEF BlockerSets, Handles
  <2>3. CASE Deleting
    <3>1. PICK E \in Deletions : DeleteChains(E)
        BY <2>3 DEF Deleting
    <3>2. /\ ExternalBlockerRefs(jobs, blockers, E) = {}
          /\ jobs' = DeleteJobs(jobs, E) /\ blockers' = DeleteBlockers(jobs, blockers, E)
        BY <3>1 DEF DeleteChains
    <3>3. ASSUME NEW ref \in blockers' PROVE ref[2] \in Roots(jobs')
      <4>1. ref \in blockers /\ ref[1] \in JobIds \ InChains(jobs, E)
          BY <3>2, <3>3 DEF DeleteBlockers, IInv, Consistent, RowsOwned
      <4>2. Exists(jobs, ref[1]) /\ ref[2] \in Roots(jobs)
          BY <4>1 DEF NoDanglingBlockers
      <4>3. ref[2] \notin E
          BY <3>2, <4>1, <4>2 DEF ExternalBlockerRefs, InChains
      <4> QED BY <3>2, <4>2, <4>3 DEF Roots, DeleteJobs, InChains, Exists
    <3> QED BY <2>1, <3>3 DEF NoDanglingBlockers
  <2>4. CASE ~Deleting
    <3>1. Roots(jobs) \subseteq Roots(jobs')
        BY <2>4, RootsStay
    <3>2. ASSUME NEW k \in JobIds, NEW B \in BlockerSets,
                 blockers' = AddBlockerRows(blockers, k, B)
          PROVE  \A ref \in blockers' : ref[2] \in Roots(jobs')
        BY <2>2, <3>1, <3>2 DEF AddBlockerRows, NoDanglingBlockers
    <3>3. CASE UNCHANGED blockers
        BY <2>1, <3>1, <3>3 DEF NoDanglingBlockers
    <3>5. ASSUME NEW js, NEW j, FinishJob(js, j), ~ UNCHANGED blockers
          PROVE  \E k \in JobIds, B \in BlockerSets \cup {{}} :
                   blockers' = AddBlockerRows(blockers, k, B)
        BY <3>5 DEF FinishJob, FinishChain, ContinueWith
    <3>6. ASSUME NEW k \in JobIds, blockers' = AddBlockerRows(blockers, k, {})
          PROVE  UNCHANGED blockers
        BY <3>6 DEF AddBlockerRows
    <3>7. \/ UNCHANGED blockers
          \/ \E k \in JobIds, B \in BlockerSets : blockers' = AddBlockerRows(blockers, k, B)
      <4>1. CASE ClientStep
          BY <2>4, <3>5, <3>6, <4>1
          DEF ClientStep, StartChain, Trigger, Deleting, CompleteChain
      <4>2. CASE WorkerStep
          BY <3>5, <3>6, <4>2
          DEF WorkerStep, AtomicAttempt, StagedPrepare, StagedComplete, StagedFail, Abandon,
              RenewLease, LoseOwnership, Reap
      <4>3. CASE EnvironmentStep
          BY <4>3 DEF EnvironmentStep, BecomeDue, ExpireLease, Crash
      <4>4. CASE UNCHANGED vars
          BY <4>4 DEF vars
      <4> QED BY <4>1, <4>2, <4>3, <4>4 DEF Next
    <3> QED BY <2>1, <3>2, <3>3, <3>7 DEF NoDanglingBlockers
  <2> QED BY <2>3, <2>4
<1> QED BY <1>1, <1>2, Invariance, PTL DEF Spec

-----------------------------------------------------------------------------
(* The tables on SQLite.                                                   *)

(* Only root jobs carry a deduplication key.                               *)
KeysOnRoots(js) == \A j \in JobIds : js[j].key # NULL => js[j].index = 0

(* A write that moves no key and no index.                                 *)
SameKeys(js, js2) ==
  \A q \in JobIds : js2[q].key = js[q].key /\ js2[q].index = js[q].index

-----------------------------------------------------------------------------
(* The status of the last row of a chain says whether the chain is         *)
(* complete.                                                               *)
LEMMA LatestStatusCompletes ==
  ASSUME NEW js, Typed(js), WellFormedChains(js), NEW c \in JobIds
  PROVE  LatestStatus(js, c) = {"completed"} <=> ChainComplete(js, c)
<1> DEFINE last == {k \in TableRows(js) : js[k].chain = c /\ IsLastInChain(js, k)}
<1>1. LatestStatus(js, c) = {js[j].status : j \in last}
    BY DEF LatestStatus
<1>2. \A j : j \in last <=> j \in ChainJobs(js, c) /\ IsLastInChain(js, j)
    BY DEF TableRows, ChainJobs
<1>3. ASSUME NEW j \in last, NEW k \in last
      PROVE  j = k
  <2>1. /\ j \in JobIds /\ k \in JobIds /\ Exists(js, j) /\ Exists(js, k)
        /\ js[j].chain = c /\ js[k].chain = c /\ IsLastInChain(js, j) /\ IsLastInChain(js, k)
      BY <1>2 DEF ChainJobs
  <2>2. k \in ChainJobs(js, js[j].chain) /\ j \in ChainJobs(js, js[k].chain)
      BY <2>1 DEF ChainJobs
  <2>3. js[k].index \in Nat /\ js[j].index \in Nat
      BY <2>1 DEF Typed, Job
  <2>4. js[k].index = js[j].index
      BY <2>1, <2>2, <2>3 DEF IsLastInChain
  <2> QED BY <2>1, <2>2, <2>4 DEF WellFormedChains
<1> HIDE DEF last
<1>4. ChainComplete(js, c) <=> \E j \in last : js[j].status = "completed"
    BY <1>2 DEF ChainComplete
<1>5. CASE \E j \in last : js[j].status = "completed"
    BY <1>1, <1>3, <1>4, <1>5
<1>6. CASE ~ \E j \in last : js[j].status = "completed"
    BY <1>1, <1>4, <1>6
<1> QED BY <1>5, <1>6

-----------------------------------------------------------------------------
LEMMA CreationAgrees ==
  ASSUME NEW js, NEW bl, Consistent(js, bl)
  PROVE  AgreesOnCreation(js)
<1> SUFFICES ASSUME NEW j \in JobIds, NEW c \in JobIds,
                    NEW i \in {0} \cup {js[k].index + 1 : k \in TableRows(js)},
                    NEW due \in BOOLEAN, NEW key \in Keys \cup {NULL},
                    js[j].status = "absent",
                    IF i = 0 THEN c = j
                    ELSE \E k \in TableRows(js) :
                           js[k].chain = c /\ js[k].index + 1 = i /\ IsLastInChain(js, k)
             PROVE  InsertJob(js, j, c, i, due, key) = CreateJob(js, j, c, i, due, key)
    BY DEF AgreesOnCreation
<1>1. \A k \in TableRows(js) : /\ k \in JobIds /\ Exists(js, k) /\ js[k].index \in Nat
                               /\ js[k].chain \in Roots(js)
    BY DEF Consistent, Typed, Job, TableRows, WellFormedChains
<1>2. CASE i = 0
  <2>1. j \notin Roots(js)
      BY DEF Roots, Exists
  <2> QED BY <1>1, <1>2, <2>1 DEF InsertJob, CreateJob
<1>3. CASE i # 0
  <2>1. PICK k \in TableRows(js) :
               js[k].chain = c /\ js[k].index + 1 = i /\ IsLastInChain(js, k)
      BY <1>3
  <2>2. \A q \in TableRows(js) : js[q].chain = c => js[q].index <= js[k].index
      BY <1>1, <2>1 DEF IsLastInChain, ChainJobs
  <2>3. ~ \E q \in TableRows(js) : js[q].chain = c /\ js[q].index = i
      BY <1>1, <2>1, <2>2
  <2> QED BY <2>3 DEF InsertJob, CreateJob
<1> QED BY <1>2, <1>3

LEMMA DeduplicationAgrees ==
  ASSUME NEW js, KeysOnRoots(js)
  PROVE  AgreesOnDeduplication(js)
<1> SUFFICES ASSUME NEW key \in Keys, NEW scope
             PROVE  FindDeduplicatedJob(js, key, scope) # {} <=> Deduplicated(js, key, scope)
    BY DEF AgreesOnDeduplication
<1>1. \A r \in JobIds :
        r \in FindDeduplicatedJob(js, key, scope) <=>
          /\ Exists(js, r)
          /\ key # NULL /\ js[r].key = key
          /\ scope = "incomplete" => js[r].status # "completed"
    BY DEF FindDeduplicatedJob, KeysOnRoots, TableRows
<1>2. FindDeduplicatedJob(js, key, scope) \subseteq JobIds
    BY DEF FindDeduplicatedJob, TableRows
<1> QED BY <1>1, <1>2 DEF Deduplicated

LEMMA BlockersAgree ==
  ASSUME NEW js, NEW bl, Consistent(js, bl)
  PROVE  AgreesOnBlockers(js, bl)
<1> SUFFICES ASSUME NEW q \in JobIds, NEW B \in SUBSET Roots(js),
                    js[q].status = "pending", BlockersOf(bl, q) = {}
             PROVE  /\ SqliteAddJobBlockers(js, bl, q, B) = AddJobBlockers(js, q, B)
                    /\ InsertJobBlockers(bl, q, B) = AddBlockerRows(bl, q, B)
    BY DEF AgreesOnBlockers
<1> DEFINE rows == InsertJobBlockers(bl, q, B)
<1>1. rows = AddBlockerRows(bl, q, B)
    BY DEF InsertJobBlockers, AddBlockerRows
<1>2. \A c \in JobIds : <<q, c>> \in rows <=> c \in B
    BY DEF InsertJobBlockers, BlockersOf
<1>3. B \subseteq JobIds
    BY DEF Roots
<1> HIDE DEF rows
<1>4. IncompleteBlockers(js, rows, q) = Incomplete(js, B)
  <2>1. \A c \in JobIds : LatestStatus(js, c) = {"completed"} <=> ChainComplete(js, c)
      BY LatestStatusCompletes DEF Consistent
  <2> QED BY <1>2, <1>3, <2>1 DEF IncompleteBlockers, Incomplete
<1>5. UpdateJobToBlocked(js, q) = [js EXCEPT ![q].status = "blocked"]
    BY DEF UpdateJobToBlocked, Consistent, Typed
<1>6. SqliteAddJobBlockers(js, bl, q, B) = AddJobBlockers(js, q, B)
    BY <1>4, <1>5 DEF SqliteAddJobBlockers, AddJobBlockers, rows
<1> QED BY <1>1, <1>6 DEF rows

(* A chain whose last job was just completed leaves well-formed chains.    *)
LEMMA CompletedTables ==
  ASSUME NEW js, NEW bl, Consistent(js, bl), NEW j \in JobIds, IsLastInChain(js, j)
  PROVE  Typed(CompleteJob(js, j)) /\ WellFormedChains(CompleteJob(js, j))
<1> DEFINE done == CompleteJob(js, j)
<1>1. Typed(done)
    BY CompleteTyped DEF Consistent
<1>2. /\ done[j].status = "completed"
      /\ \A q \in JobIds : done[q].chain = js[q].chain /\ done[q].index = js[q].index
      /\ \A q \in JobIds \ {j} : done[q].status = js[q].status
    BY DEF CompleteJob, Consistent, Typed, Job
<1> HIDE DEF done
<1>3. CASE js[j].status # "completed"
    BY <1>1, <1>2, <1>3, LastCompleted DEF Consistent, done
<1>4. CASE js[j].status = "completed"
  <2>1. SameLayout(js, done)
      BY <1>2, <1>4 DEF SameLayout, Exists
  <2> QED BY <1>1, <2>1, LayoutWellFormed DEF Consistent, done
<1> QED BY <1>3, <1>4

LEMMA UnblockingAgrees ==
  ASSUME NEW js, NEW bl, Consistent(js, bl)
  PROVE  AgreesOnUnblocking(js, bl)
<1> SUFFICES ASSUME NEW done, Typed(done), WellFormedChains(done), NEW c
             PROVE  SqliteUnblockJobs(done, bl, c) = UnblockJobs(done, bl, c)
    BY CompletedTables DEF AgreesOnUnblocking
<1> DEFINE ready == FindReadyJobs(done, bl, c)
<1>1. \A b \in JobIds : LatestStatus(done, b) = {"completed"} <=> ChainComplete(done, b)
    BY LatestStatusCompletes
<1>2. \A q \in JobIds :
        q \in ready <=> <<q, c>> \in bl /\ Incomplete(done, BlockersOf(bl, q)) = {}
    BY <1>1 DEF FindReadyJobs, Incomplete, BlockersOf
<1> HIDE DEF ready
<1>3. ScheduleBlockedJobs(done, ready) = UnblockJobs(done, bl, c)
    BY <1>2 DEF ScheduleBlockedJobs, UnblockJobs
<1>4. ASSUME ready = {} PROVE ScheduleBlockedJobs(done, ready) = done
    BY <1>4 DEF ScheduleBlockedJobs, Typed
<1> QED BY <1>3, <1>4 DEF SqliteUnblockJobs, ready

LEMMA TriggeringAgrees ==
  ASSUME NEW js, Typed(js)
  PROVE  AgreesOnTriggering(js)
<1> SUFFICES ASSUME NEW J \in SUBSET JobIds
             PROVE  SqliteTriggerJobs(js, J)
                      = IF Triggerable(js, J) THEN TriggerJobs(js, J) ELSE js
    BY DEF AgreesOnTriggering
<1>1. (\A k \in J : k \in TableRows(js) /\ js[k].status = "pending") <=> Triggerable(js, J)
    BY DEF Triggerable, TableRows, Exists
<1>2. CASE Triggerable(js, J)
    BY <1>1, <1>2 DEF SqliteTriggerJobs, TriggerJobs
<1>3. CASE ~Triggerable(js, J)
    BY <1>1, <1>3 DEF SqliteTriggerJobs, Typed
<1> QED BY <1>2, <1>3

(* Deleting the rows of the chains E, none of which blocks a job outside.  *)
LEMMA DeletionAgrees ==
  ASSUME NEW js, NEW bl, Consistent(js, bl),
         \A ref \in bl : ref[2] \in Roots(js)
  PROVE  AgreesOnDeletion(js, bl)
<1> SUFFICES ASSUME NEW E \in SUBSET Roots(js)
    PROVE /\ CheckExternalBlockerRefs(js, bl, E) = ExternalBlockerRefs(js, bl, E)
          /\ ExternalBlockerRefs(js, bl, E) = {} =>
               LET left == DeleteBlockersByChainIds(js, bl, E) IN
                 /\ left = DeleteBlockers(js, bl, E)
                 /\ SqliteDeleteJobs(js, E) = DeleteJobs(js, E)
                 /\ ForeignKeysHold(js, left) /\ ForeignKeysHold(SqliteDeleteJobs(js, E), left)
    BY DEF AgreesOnDeletion
<1> DEFINE left == DeleteBlockersByChainIds(js, bl, E)
<1>1. bl \subseteq JobIds \X JobIds /\ \A ref \in bl : Exists(js, ref[1])
    BY DEF Consistent, RowsOwned
<1>2. CheckExternalBlockerRefs(js, bl, E) = ExternalBlockerRefs(js, bl, E)
    BY <1>1 DEF CheckExternalBlockerRefs, ExternalBlockerRefs, TableRows
<1>3. InChains(js, E) = {j \in TableRows(js) : js[j].chain \in E}
    BY DEF InChains, TableRows
<1>4. left = DeleteBlockers(js, bl, E)
    BY <1>1, <1>3 DEF DeleteBlockersByChainIds, DeleteBlockers
<1>5. SqliteDeleteJobs(js, E) = DeleteJobs(js, E)
    BY <1>3 DEF SqliteDeleteJobs, DeleteJobs
<1>6. ASSUME NEW ref \in left
      PROVE  /\ ref \in bl /\ ref[1] \in JobIds /\ ref[2] \in JobIds
             /\ Exists(js, ref[1]) /\ js[ref[1]].chain \notin E
    BY <1>1, <1>4 DEF DeleteBlockers, InChains
<1> HIDE DEF left
<1>7. ForeignKeysHold(js, left)
  <2>1. \A j \in TableRows(js) : js[j].chain \in TableRows(js)
      BY DEF Consistent, WellFormedChains, Roots, TableRows
  <2> QED BY <1>6, <2>1 DEF ForeignKeysHold, TableRows, Roots
<1>8. ASSUME ExternalBlockerRefs(js, bl, E) = {}
      PROVE  ForeignKeysHold(DeleteJobs(js, E), left)
  <2> DEFINE js2 == DeleteJobs(js, E)
  <2>1. /\ WellFormedChains(js2)
        /\ \A q \in JobIds : Exists(js2, q) <=> Exists(js, q) /\ js[q].chain \notin E
      BY ChainsDeleted DEF Consistent
  <2> HIDE DEF js2
  <2>2. \A j \in TableRows(js2) : js2[j].chain \in TableRows(js2)
      BY <2>1 DEF WellFormedChains, Roots, TableRows
  <2>3. ASSUME NEW ref \in left
        PROVE  ref[1] \in TableRows(js2) /\ ref[2] \in TableRows(js2)
    <3>1. ref[1] \in TableRows(js2)
        BY <1>6, <2>1 DEF TableRows
    <3>2. ref[2] \notin E
        BY <1>6, <1>8 DEF ExternalBlockerRefs
    <3>3. ref[2] \in Roots(js)
        BY <1>6
    <3> QED BY <2>1, <3>1, <3>2, <3>3 DEF TableRows, Roots
  <2> QED BY <2>2, <2>3 DEF ForeignKeysHold, js2
<1> QED BY <1>2, <1>4, <1>5, <1>7, <1>8 DEF left

LEMMA AttemptsAgree ==
  ASSUME NEW js, Typed(js)
  PROVE  AgreesOnAttempts(js)
<1> SUFFICES ASSUME NEW j \in TableRows(js)
             PROVE  /\ js[j].status = "pending" /\ js[j].due =>
                         SqliteAcquireJob(js, j) = AcquireJob(js, j)
                    /\ \A w \in Workers :
                         SqliteRenewJobLease(js, j, w) = RenewJobLease(js, j, w)
                    /\ \A due \in BOOLEAN :
                         SqliteRescheduleJob(js, j, due) = RescheduleJob(js, j, due)
                    /\ SqliteCompleteJob(js, j) = CompleteJob(js, j)
                    /\ js[j].status = "running" /\ js[j].lease = "expired" =>
                         /\ SqliteReapJobLease(js, j, {}) = ReapJobLease(js, j)
                         /\ SqliteReapJobLease(js, j, {j}) = js
    BY DEF AgreesOnAttempts
<1>0. j \in JobIds
    BY DEF TableRows
<1>1. ASSUME js[j].status = "pending", js[j].due
      PROVE  SqliteAcquireJob(js, j) = AcquireJob(js, j)
    BY <1>0, <1>1 DEF SqliteAcquireJob, AcquireJob, Typed, Job
<1>2. ASSUME NEW w \in Workers
      PROVE  SqliteRenewJobLease(js, j, w) = RenewJobLease(js, j, w)
    BY <1>0 DEF SqliteRenewJobLease, RenewJobLease, Typed, Job
<1>3. ASSUME NEW due \in BOOLEAN
      PROVE  SqliteRescheduleJob(js, j, due) = RescheduleJob(js, j, due)
    BY <1>0 DEF SqliteRescheduleJob, RescheduleJob, Typed, Job
<1>4. SqliteCompleteJob(js, j) = CompleteJob(js, j)
    BY <1>0 DEF SqliteCompleteJob, CompleteJob, Typed, Job
<1>5. ASSUME js[j].status = "running", js[j].lease = "expired"
      PROVE  /\ SqliteReapJobLease(js, j, {}) = ReapJobLease(js, j)
             /\ SqliteReapJobLease(js, j, {j}) = js
  <2>1. SqliteReapJobLease(js, j, {}) = ReapJobLease(js, j)
      BY <1>0, <1>5 DEF SqliteReapJobLease, ReapJobLease, Typed, Job
  <2>2. SqliteReapJobLease(js, j, {j}) = js
      BY <1>0 DEF SqliteReapJobLease, Typed
  <2> QED BY <2>1, <2>2
<1> QED BY <1>1, <1>2, <1>3, <1>4, <1>5

LEMMA TablesAgree ==
  ASSUME NEW js, NEW bl, Consistent(js, bl), KeysOnRoots(js),
         \A ref \in bl : ref[2] \in Roots(js)
  PROVE  Agrees(js, bl)
BY CreationAgrees, DeduplicationAgrees, BlockersAgree, UnblockingAgrees, AttemptsAgree,
   TriggeringAgrees, DeletionAgrees
DEF Agrees, Consistent

-----------------------------------------------------------------------------
(* The writes to existing rows leave keys and indices alone.               *)
LEMMA RowWritesKeepKeys ==
  ASSUME NEW js, Typed(js), NEW j \in JobIds
  PROVE  /\ SameKeys(js, AcquireJob(js, j))
         /\ \A w : SameKeys(js, RenewJobLease(js, j, w))
         /\ \A due : SameKeys(js, RescheduleJob(js, j, due))
         /\ SameKeys(js, CompleteJob(js, j))
         /\ SameKeys(js, ReapJobLease(js, j))
         /\ \A B : SameKeys(js, AddJobBlockers(js, j, B))
<1>1. SameKeys(js, AcquireJob(js, j))
    BY DEF SameKeys, AcquireJob, Typed, Job
<1>2. ASSUME NEW w PROVE SameKeys(js, RenewJobLease(js, j, w))
    BY DEF SameKeys, RenewJobLease, Typed, Job
<1>3. ASSUME NEW due PROVE SameKeys(js, RescheduleJob(js, j, due))
    BY DEF SameKeys, RescheduleJob, Typed, Job
<1>4. SameKeys(js, CompleteJob(js, j))
    BY DEF SameKeys, CompleteJob, Typed, Job
<1>5. SameKeys(js, ReapJobLease(js, j))
    BY DEF SameKeys, ReapJobLease, Typed, Job
<1>6. ASSUME NEW B PROVE SameKeys(js, AddJobBlockers(js, j, B))
    BY DEF SameKeys, AddJobBlockers, Typed, Job
<1> QED BY <1>1, <1>2, <1>3, <1>4, <1>5, <1>6

LEMMA TableWritesKeepKeys ==
  ASSUME NEW js, Typed(js)
  PROVE  /\ \A bl, c : SameKeys(js, UnblockJobs(js, bl, c))
         /\ \A J : SameKeys(js, TriggerJobs(js, J))
<1>1. ASSUME NEW bl, NEW c PROVE SameKeys(js, UnblockJobs(js, bl, c))
    BY DEF SameKeys, UnblockJobs, Typed, Job
<1>2. ASSUME NEW J PROVE SameKeys(js, TriggerJobs(js, J))
    BY DEF SameKeys, TriggerJobs, Typed, Job
<1> QED BY <1>1, <1>2

LEMMA SameKeysOnRoots ==
  ASSUME NEW js, KeysOnRoots(js), NEW js2, SameKeys(js, js2)
  PROVE  KeysOnRoots(js2)
BY DEF KeysOnRoots, SameKeys

(* createJobs gives a key to roots alone.                                  *)
LEMMA CreatedKeysOnRoots ==
  ASSUME NEW js, Typed(js), KeysOnRoots(js), NEW j \in JobIds, NEW c, NEW i, NEW due, NEW key,
         key = NULL \/ i = 0
  PROVE  KeysOnRoots(CreateJob(js, j, c, i, due, key))
BY DEF KeysOnRoots, CreateJob, Typed

LEMMA FinishKeysOnRoots ==
  ASSUME NEW js, Typed(js), WellFormedChains(js), KeysOnRoots(js),
         NEW j \in JobIds, Exists(js, j), FinishJob(js, j)
  PROVE  KeysOnRoots(jobs')
<1>1. CASE FinishChain(js, j)
  <2> DEFINE done == CompleteJob(js, j)
  <2>1. Typed(done) /\ KeysOnRoots(done)
      BY CompleteTyped, RowWritesKeepKeys, SameKeysOnRoots
  <2>2. jobs' = UnblockJobs(done, blockers, js[j].chain)
      BY <1>1 DEF FinishChain
  <2> HIDE DEF done
  <2> QED BY <2>1, <2>2, TableWritesKeepKeys, SameKeysOnRoots
<1>2. ASSUME NEW k \in JobIds, NEW due \in BOOLEAN, NEW B, ContinueWith(js, j, k, B, due)
      PROVE  KeysOnRoots(jobs')
  <2> DEFINE n == js[j].index + 1
             created == CreateJob(js, k, js[j].chain, n, due, NULL)
             marked == AddJobBlockers(created, k, B)
  <2>1. n \in Nat /\ js[j].chain \in JobIds
      BY DEF Typed, Job, WellFormedChains, Roots
  <2>2. jobs' = CompleteJob(marked, j)
      BY <1>2 DEF ContinueWith
  <2> HIDE DEF n
  <2>3. Typed(created) /\ KeysOnRoots(created)
      BY <2>1, CreateTyped, CreatedKeysOnRoots
  <2> HIDE DEF created
  <2>4. Typed(marked) /\ KeysOnRoots(marked)
      BY <2>3, AddBlockersTyped, RowWritesKeepKeys, SameKeysOnRoots
  <2> HIDE DEF marked
  <2> QED BY <2>2, <2>4, RowWritesKeepKeys, SameKeysOnRoots
<1> QED BY <1>1, <1>2 DEF FinishJob

LEMMA KeysStep ==
  ASSUME IInv, KeysOnRoots(jobs), [Next]_vars
  PROVE  KeysOnRoots(jobs')
<1>0. Typed(jobs) /\ WellFormedChains(jobs)
    BY DEF IInv, Consistent
<1>1. ASSUME NEW c \in JobIds, NEW B, NEW due \in BOOLEAN,
             NEW key \in Keys \cup {NULL}, NEW scope, StartChain(c, B, due, key, scope)
      PROVE  KeysOnRoots(jobs')
  <2> DEFINE created == CreateJob(jobs, c, c, 0, due, key)
  <2>1. Typed(created) /\ KeysOnRoots(created)
      BY <1>0, CreateTyped, CreatedKeysOnRoots
  <2>2. jobs' = AddJobBlockers(created, c, B)
      BY <1>1 DEF StartChain
  <2> HIDE DEF created
  <2> QED BY <2>1, <2>2, RowWritesKeepKeys, SameKeysOnRoots
<1>2. ASSUME NEW J, Trigger(J) PROVE KeysOnRoots(jobs')
    BY <1>0, <1>2, TableWritesKeepKeys, SameKeysOnRoots DEF Trigger
<1>3. ASSUME NEW E, DeleteChains(E) PROVE KeysOnRoots(jobs')
  <2>1. jobs' = DeleteJobs(jobs, E)
      BY <1>3 DEF DeleteChains
  <2> QED BY <2>1 DEF DeleteJobs, KeysOnRoots, NoJob
<1>4. ASSUME NEW j \in JobIds, CompleteChain(j) PROVE KeysOnRoots(jobs')
    BY <1>0, <1>4, FinishKeysOnRoots DEF CompleteChain, IsLastInChain
<1>5. ASSUME NEW s \in Slots, NEW j \in JobIds, AtomicAttempt(s, j)
      PROVE  KeysOnRoots(jobs')
  <2> DEFINE taken == AcquireJob(jobs, j)
  <2>1. /\ Typed(taken) /\ WellFormedChains(taken) /\ KeysOnRoots(taken) /\ Exists(taken, j)
    <3>1. Consistent(taken, blockers) /\ taken[j].status = "running"
        BY <1>5, AcquireConsistent DEF AtomicAttempt, Acquirable, IInv
    <3>2. KeysOnRoots(taken)
        BY <1>0, RowWritesKeepKeys, SameKeysOnRoots
    <3> QED BY <3>1, <3>2 DEF Consistent, Exists
  <2>2. \/ FinishJob(taken, j)
        \/ \E due \in BOOLEAN : jobs' = RescheduleJob(taken, j, due)
        \/ jobs' = taken
      BY <1>5 DEF AtomicAttempt
  <2> HIDE DEF taken
  <2> QED BY <2>1, <2>2, FinishKeysOnRoots, RowWritesKeepKeys, SameKeysOnRoots
<1>6. ASSUME NEW s \in Slots, NEW j \in JobIds, StagedPrepare(s, j)
      PROVE  KeysOnRoots(jobs')
  <2> DEFINE taken == AcquireJob(jobs, j)
  <2>1. Typed(taken) /\ KeysOnRoots(taken)
      BY <1>0, AcquireTyped, RowWritesKeepKeys, SameKeysOnRoots
  <2>2. jobs' = RenewJobLease(taken, j, Owner[s])
      BY <1>6 DEF StagedPrepare
  <2> HIDE DEF taken
  <2> QED BY <2>1, <2>2, RowWritesKeepKeys, SameKeysOnRoots
<1>7. ASSUME NEW s \in Slots, StagedComplete(s) PROVE KeysOnRoots(jobs')
    BY <1>0, <1>7, OwnedIsRunning, FinishKeysOnRoots DEF StagedComplete
<1>8. ASSUME NEW s \in Slots, StagedFail(s) PROVE KeysOnRoots(jobs')
    BY <1>0, <1>8, OwnedIsRunning, RowWritesKeepKeys, SameKeysOnRoots DEF StagedFail
<1>9. ASSUME NEW s \in Slots, RenewLease(s) PROVE KeysOnRoots(jobs')
    BY <1>0, <1>9, OwnedIsRunning, RowWritesKeepKeys, SameKeysOnRoots DEF RenewLease
<1>10. ASSUME NEW w \in Workers, NEW j \in JobIds, Reap(w, j) PROVE KeysOnRoots(jobs')
    BY <1>0, <1>10, RowWritesKeepKeys, SameKeysOnRoots DEF Reap
<1>11. ASSUME NEW j \in JobIds, BecomeDue(j) \/ ExpireLease(j) PROVE KeysOnRoots(jobs')
  <2>1. SameKeys(jobs, jobs')
      BY <1>0, <1>11 DEF BecomeDue, ExpireLease, SameKeys, Typed, Job
  <2> QED BY <2>1, SameKeysOnRoots
<1>12. CASE UNCHANGED jobs
    BY <1>12 DEF KeysOnRoots
<1>13. CASE ClientStep
    BY <1>1, <1>2, <1>3, <1>4, <1>13 DEF ClientStep
<1>14. CASE WorkerStep
    BY <1>5, <1>6, <1>7, <1>8, <1>9, <1>10, <1>12, <1>14 DEF WorkerStep, Abandon, LoseOwnership
<1>15. CASE EnvironmentStep
    BY <1>11, <1>12, <1>15 DEF EnvironmentStep, Crash
<1> QED BY <1>12, <1>13, <1>14, <1>15 DEF Next, vars

(* Every client and worker sees the same effects on either adapter, with   *)
(* any number of jobs, chains and blockers, as long as blockers name       *)
(* chains that exist (the foreign key would refuse others).                *)
THEOREM SqliteAgreement ==
  ASSUME ~StaleBlockers PROVE Spec => []SqliteAgrees
<1>1. Init => KeysOnRoots(jobs)
    BY DEF Init, KeysOnRoots, NoJob
<1>2. IInv /\ KeysOnRoots(jobs) /\ [Next]_vars => KeysOnRoots(jobs)'
    BY KeysStep DEF KeysOnRoots
<1>3. IInv /\ KeysOnRoots(jobs) /\ NoDanglingBlockers => SqliteAgrees
    BY TablesAgree DEF IInv, NoDanglingBlockers, SqliteAgrees
<1> QED BY <1>1, <1>2, <1>3, Invariance, NoBlockerDangles, PTL DEF Spec

-----------------------------------------------------------------------------
(* The recursive query of a cascading delete, round by round.  Induction   *)
(* is by the least round that breaks what is claimed of all of them.       *)

Reached(bl, S) == S \cup {c \in JobIds : \E q \in S : <<q, c>> \in bl}

Rounds(f, bl, C, n) ==
  f = [i \in 0 .. n |-> IF i = 0 THEN C ELSE Reached(bl, f[i - 1])]

LEMMA LeastElement ==
  ASSUME NEW T \in SUBSET Nat, T # {}
  PROVE  \E x \in T : \A y \in T : x <= y
<1>1. \E x \in T : \A y \in T : ~(<<y, x>> \in OpToRel(<, Nat))
  BY NatLessThanWellFounded, WFMin
<1>2. PICK x \in T : \A y \in T : ~(<<y, x>> \in OpToRel(<, Nat))
  BY <1>1
<1>3. \A y \in T : ~(y < x)
  BY <1>2 DEF OpToRel
<1> QED
  BY <1>3

(* The recursive definition has a solution, so it is one.                  *)
LEMMA RoundsExist ==
  ASSUME NEW bl, NEW C
  PROVE  \A n \in Nat : \E f : Rounds(f, bl, C, n)
<1> DEFINE T == {n \in Nat : ~ \E f : Rounds(f, bl, C, n)}
<1> SUFFICES ASSUME T # {} PROVE FALSE
  OBVIOUS
<1>1. PICK n \in T : \A m \in T : n <= m
  BY LeastElement
<1>2. CASE n = 0
  <2>1. Rounds([i \in 0 .. 0 |-> C], bl, C, 0)
    BY DEF Rounds
  <2> QED
    BY <1>1, <1>2, <2>1
<1>3. CASE n # 0
  <2>1. n - 1 \in Nat /\ n - 1 \notin T
    BY <1>1, <1>3
  <2>2. PICK f : Rounds(f, bl, C, n - 1)
    BY <2>1
  <2> DEFINE g == [i \in 0 .. n |-> IF i = n THEN Reached(bl, f[n - 1]) ELSE f[i]]
  <2>3. \A i \in 0 .. n : g[i] = IF i = 0 THEN C ELSE Reached(bl, g[i - 1])
    <3>1. \A i \in 0 .. n - 1 : f[i] = IF i = 0 THEN C ELSE Reached(bl, f[i - 1])
      BY <2>2 DEF Rounds
    <3> QED
      BY <1>1, <1>3, <3>1
  <2>4. g = [i \in 0 .. n |-> IF i = 0 THEN C ELSE Reached(bl, g[i - 1])]
    BY <2>3
  <2>5. Rounds(g, bl, C, n)
    BY <2>4 DEF Rounds
  <2> QED
    BY <1>1, <2>5
<1> QED
  BY <1>2, <1>3

LEMMA ConnectedRounds ==
  ASSUME NEW bl, NEW C, Cardinality(JobIds) \in Nat
  PROVE  \E f : /\ Rounds(f, bl, C, Cardinality(JobIds))
                /\ ConnectedChainIds(bl, C) = f[Cardinality(JobIds)]
<1> DEFINE N == Cardinality(JobIds)
           f == CHOOSE f : Rounds(f, bl, C, N)
<1>1. Rounds(f, bl, C, N)
  BY RoundsExist
<1>2. ConnectedChainIds(bl, C) = f[N]
  BY DEF ConnectedChainIds, Rounds, Reached
<1> QED
  BY <1>1, <1>2

(* Each round but the last reaches another chain.                          *)
LEMMA RoundsGrow ==
  ASSUME IsFiniteSet(JobIds), NEW bl \in SUBSET (JobIds \X JobIds), NEW C \in SUBSET JobIds,
         NEW N \in Nat, NEW f, Rounds(f, bl, C, N)
  PROVE  \A n \in 0 .. N :
           /\ f[n] \in SUBSET JobIds /\ C \subseteq f[n]
           /\ Reached(bl, f[n]) = f[n] \/ Cardinality(f[n]) >= n
<1> DEFINE P(n) == /\ f[n] \in SUBSET JobIds /\ C \subseteq f[n]
                   /\ Reached(bl, f[n]) = f[n] \/ Cardinality(f[n]) >= n
           T == {n \in 0 .. N : ~P(n)}
<1> SUFFICES ASSUME T # {} PROVE FALSE
  OBVIOUS
<1>0. T \in SUBSET Nat
  OBVIOUS
<1> HIDE DEF T
<1>1. PICK n \in T : \A m \in T : n <= m
  BY <1>0, LeastElement
<1> USE DEF T
<1>2. CASE n = 0
  <2>1. f[0] = C
    BY DEF Rounds
  <2>2. Cardinality(C) \in Nat
    BY FS_Subset, FS_CardinalityType
  <2> QED
    BY <1>1, <1>2, <2>1, <2>2
<1>3. CASE n # 0
  <2> DEFINE m == n - 1
  <2>1. m \in 0 .. N /\ P(m) /\ n = m + 1
    BY <1>1, <1>3
  <2>2. f[n] = Reached(bl, f[m])
    BY <1>1, <1>3 DEF Rounds
  <2> HIDE DEF m
  <2>3. f[n] \in SUBSET JobIds /\ C \subseteq f[n] /\ f[m] \subseteq f[n]
    BY <2>1, <2>2 DEF Reached
  <2>4. CASE f[n] = f[m]
    BY <1>1, <2>2, <2>3, <2>4
  <2>5. CASE f[n] # f[m]
    <3>1. Cardinality(f[m]) >= m
      BY <2>1, <2>2, <2>5
    <3>2. /\ IsFiniteSet(f[n]) /\ Cardinality(f[m]) \in Nat /\ Cardinality(f[n]) \in Nat
          /\ Cardinality(f[m]) < Cardinality(f[n])
      BY <2>1, <2>3, <2>5, FS_Subset, FS_CardinalityType
    <3> QED
      BY <1>1, <2>1, <2>3, <3>1, <3>2
  <2> QED
    BY <2>4, <2>5
<1> QED
  BY <1>2, <1>3

(* Nothing is reached that a closed set does not have.                     *)
LEMMA RoundsStayInside ==
  ASSUME NEW bl, NEW C, NEW N \in Nat, NEW f, Rounds(f, bl, C, N),
         NEW S, C \subseteq S, \A c \in S : BlockersOf(bl, c) \subseteq S
  PROVE  \A n \in 0 .. N : f[n] \subseteq S
<1> DEFINE T == {n \in 0 .. N : ~(f[n] \subseteq S)}
<1> SUFFICES ASSUME T # {} PROVE FALSE
  OBVIOUS
<1>0. T \in SUBSET Nat
  OBVIOUS
<1> HIDE DEF T
<1>1. PICK n \in T : \A m \in T : n <= m
  BY <1>0, LeastElement
<1> USE DEF T
<1>2. CASE n = 0
  BY <1>1, <1>2 DEF Rounds
<1>3. CASE n # 0
  <2>1. n - 1 \in 0 .. N /\ f[n - 1] \subseteq S
    BY <1>1, <1>3
  <2>2. f[n] = Reached(bl, f[n - 1])
    BY <1>1, <1>3 DEF Rounds
  <2> QED
    BY <1>1, <2>1, <2>2 DEF Reached, BlockersOf
<1> QED
  BY <1>2, <1>3

(* After as many rounds as there are ids the query is closed.              *)
LEMMA CascadeAgrees ==
  ASSUME IsFiniteSet(JobIds), NEW js, NEW bl \in SUBSET (JobIds \X JobIds)
  PROVE  AgreesOnCascade(js, bl)
<1> SUFFICES ASSUME NEW C \in SUBSET Roots(js)
             PROVE  ConnectedChainIds(bl, C) = ExpandChainIds(bl, C)
  BY DEF AgreesOnCascade
<1> DEFINE N == Cardinality(JobIds)
<1>1. N \in Nat /\ C \in SUBSET JobIds
  BY FS_CardinalityType DEF Roots
<1>2. PICK f : Rounds(f, bl, C, N) /\ ConnectedChainIds(bl, C) = f[N]
  BY <1>1, ConnectedRounds
<1>3. /\ f[N] \in SUBSET JobIds /\ C \subseteq f[N]
      /\ Reached(bl, f[N]) = f[N] \/ Cardinality(f[N]) >= N
  <2> HIDE DEF N
  <2>1. N \in 0 .. N
    BY <1>1
  <2> QED
    BY <1>1, <1>2, <2>1, RoundsGrow
<1>4. Reached(bl, f[N]) = f[N]
  <2>1. CASE Cardinality(f[N]) >= N
    <3>1. f[N] = JobIds
      BY <1>1, <1>3, <2>1, FS_Subset, FS_CardinalityType
    <3> QED
      BY <3>1 DEF Reached
  <2> QED
    BY <1>3, <2>1
<1>5. \A c \in f[N] : BlockersOf(bl, c) \subseteq f[N]
  BY <1>4 DEF Reached, BlockersOf
<1>6. \A S \in SUBSET JobIds :
        C \subseteq S /\ (\A c \in S : BlockersOf(bl, c) \subseteq S) => f[N] \subseteq S
  <2> HIDE DEF N
  <2>1. N \in 0 .. N
    BY <1>1
  <2> QED
    BY <1>1, <1>2, <2>1, RoundsStayInside
<1> QED
  BY <1>2, <1>3, <1>5, <1>6 DEF ExpandChainIds

(* A cascading delete finds the same chains on either adapter, where       *)
(* blockers are shared or form a cycle too, for any finite set of jobs     *)
(* (sqlite/src/state-adapter/sql.ts, getConnectedChainIdsSql).             *)
THEOREM CascadesAgree ==
  ASSUME IsFiniteSet(JobIds) PROVE Spec => []SqliteCascades
<1>1. IInv => SqliteCascades
  <2> SUFFICES ASSUME IInv PROVE SqliteCascades
    OBVIOUS
  <2>1. blockers \in SUBSET (JobIds \X JobIds)
    BY DEF IInv, Consistent, RowsOwned
  <2> QED
    BY <2>1, CascadeAgrees DEF SqliteCascades
<1> QED
  BY <1>1, Invariance, PTL
=============================================================================
