--------------------------- MODULE StateAdapter ---------------------------
(***************************************************************************)
(* The job table and the blocker table of a state adapter, and what each   *)
(* StateAdapter method does to them, as operators on their values.  The    *)
(* reference is the in-process adapter                                     *)
(* (core/src/state-adapter/state-adapter.in-process.ts), whose             *)
(* transactions are serial: a transaction is a composition of these        *)
(* operators and one step of the modules that use them.                    *)
(*                                                                         *)
(* js is a function from job ids to job records, bl a set of pairs         *)
(* <<job id, blocking chain id>>.  The id of a chain is the id of its      *)
(* first job.  Times are abstracted to what the methods compare:           *)
(*   due    scheduledAt <= now                                             *)
(*   lease  leasedUntil is null ("none"), in the future ("live") or not    *)
(*          ("expired")                                                    *)
(* Inputs, outputs, type names, errors and trace contexts are left out.    *)
(***************************************************************************)
EXTENDS Naturals, FiniteSets

CONSTANTS
  JobIds,   \* ids a job may get; ids are never reused
  Workers,  \* worker ids, as stored in leasedBy
  Keys,     \* deduplication keys
  NULL

ASSUME NullIsNoId == NULL \notin JobIds \cup Workers \cup Keys

(* "absent": the id is not used yet; "deleted": it was, its row is gone.   *)
JobStatus == {"absent", "blocked", "pending", "running", "completed", "deleted"}

Job ==
  [status   : JobStatus,
   chain    : JobIds \cup {NULL},
   index    : Nat,
   due      : BOOLEAN,
   attempt  : Nat,
   leasedBy : Workers \cup {NULL},
   lease    : {"none", "live", "expired"},
   key      : Keys \cup {NULL}]

NoJob ==
  [status |-> "absent", chain |-> NULL, index |-> 0, due |-> FALSE, attempt |-> 0,
   leasedBy |-> NULL, lease |-> "none", key |-> NULL]

-----------------------------------------------------------------------------
Exists(js, j) == js[j].status \notin {"absent", "deleted"}

Roots(js) == {c \in JobIds : Exists(js, c) /\ js[c].chain = c}

ChainJobs(js, c) == {j \in JobIds : Exists(js, j) /\ js[j].chain = c}

(* getLastJobInChain: the job of the highest index.                        *)
IsLastInChain(js, j) ==
  Exists(js, j) /\ \A k \in ChainJobs(js, js[j].chain) : js[k].index <= js[j].index

ChainComplete(js, c) ==
  \E j \in ChainJobs(js, c) : IsLastInChain(js, j) /\ js[j].status = "completed"

BlockersOf(bl, q) == {c \in JobIds : <<q, c>> \in bl}

(* A blocking chain without a row counts as incomplete.                    *)
Incomplete(js, B) == {c \in B : ~ChainComplete(js, c)}

-----------------------------------------------------------------------------
(* createJobs for one job that no deduplication rule matched.              *)
CreateJob(js, j, c, i, due, key) ==
  [js EXCEPT ![j] =
     [status |-> "pending", chain |-> c, index |-> i, due |-> due, attempt |-> 0,
      leasedBy |-> NULL, lease |-> "none", key |-> key]]

(* findDeduplicatedJob: a root job with the key; the "incomplete" scope    *)
(* looks at the status of that job.                                        *)
Deduplicated(js, key, scope) ==
  \E r \in JobIds : /\ Exists(js, r)
                    /\ key # NULL /\ js[r].key = key
                    /\ scope = "incomplete" => js[r].status # "completed"

(* addJobsBlockers for job q.                                              *)
AddBlockerRows(bl, q, B) == bl \cup {<<q, b>> : b \in B}

AddJobBlockers(js, q, B) ==
  IF Incomplete(js, B) # {} /\ js[q].status = "pending"
  THEN [js EXCEPT ![q].status = "blocked"]
  ELSE js

AcquireJob(js, j) ==
  [js EXCEPT ![j].status = "running", ![j].attempt = @ + 1]

(* The three writes below do not look at the job's state.                  *)
RenewJobLease(js, j, w) ==
  [js EXCEPT ![j].leasedBy = w, ![j].lease = "live", ![j].status = "running"]

RescheduleJob(js, j, due) ==
  [js EXCEPT ![j].due = due, ![j].leasedBy = NULL, ![j].lease = "none",
             ![j].status = "pending"]

CompleteJob(js, j) ==
  [js EXCEPT ![j].status = "completed", ![j].leasedBy = NULL, ![j].lease = "none"]

UnblockJobs(js, bl, c) ==
  [q \in JobIds |->
     IF /\ <<q, c>> \in bl /\ js[q].status = "blocked"
        /\ Incomplete(js, BlockersOf(bl, q)) = {}
     THEN [js[q] EXCEPT !.status = "pending"]
     ELSE js[q]]

ReapJobLease(js, j) ==
  [js EXCEPT ![j].leasedBy = NULL, ![j].lease = "none", ![j].status = "pending"]

Triggerable(js, J) == \A j \in J : js[j].status = "pending"

TriggerJobs(js, J) ==
  [j \in JobIds |-> IF j \in J THEN [js[j] EXCEPT !.due = TRUE] ELSE js[j]]

-----------------------------------------------------------------------------
(* expandChainIds: the least set that holds C and, with a chain, the       *)
(* chains that block its root job.                                         *)
ExpandChainIds(bl, C) ==
  LET closed == {S \in SUBSET JobIds :
                   C \subseteq S /\ \A c \in S : BlockersOf(bl, c) \subseteq S}
  IN  {x \in JobIds : \A S \in closed : x \in S}

ExternalRootRefs(js, bl, E) ==          \* mutation: overlooks continuations
  {ref \in bl : ref[2] \in E /\ ref[1] \in Roots(js) \ E}

(* findExternalBlockerRefs: jobs outside the chains E that E blocks.       *)
ExternalBlockerRefs(js, bl, E) ==
  {ref \in bl : ref[2] \in E /\ Exists(js, ref[1]) /\ js[ref[1]].chain \notin E}

InChains(js, E) == {j \in JobIds : Exists(js, j) /\ js[j].chain \in E}

DeleteJobs(js, E) ==
  [j \in JobIds |-> IF j \in InChains(js, E)
                    THEN [NoJob EXCEPT !.status = "deleted"] ELSE js[j]]

DeleteBlockers(js, bl, E) == {ref \in bl : ref[1] \notin InChains(js, E)}

-----------------------------------------------------------------------------
(* What a consistent pair of tables is; Queuert states these of its state. *)

(* A chain is its root job at index 0 and one continuation per further     *)
(* index, and only its last job may be incomplete.                         *)
WellFormedChains(js) ==
  \A j \in JobIds : Exists(js, j) =>
    /\ js[j].chain \in Roots(js)
    /\ js[j].index = 0 <=> js[j].chain = j
    /\ \A i \in 0 .. js[j].index : \E k \in ChainJobs(js, js[j].chain) : js[k].index = i
    /\ \A k \in ChainJobs(js, js[j].chain) :
         /\ js[k].index = js[j].index => k = j
         /\ js[k].index < js[j].index => js[k].status = "completed"

(* A job is blocked exactly while one of its blocking chains is incomplete.*)
BlockedIffWaiting(js, bl) ==
  \A j \in JobIds :
    LET waiting == Incomplete(js, BlockersOf(bl, j)) # {} IN
      /\ js[j].status = "blocked" => waiting
      /\ js[j].status \in {"pending", "running"} => ~waiting

(* A lease belongs to a worker and to a running job.                       *)
LeasedOnlyIfRunning(js) ==
  \A j \in JobIds :
    /\ js[j].leasedBy # NULL <=> js[j].lease # "none"
    /\ js[j].leasedBy # NULL => js[j].status = "running"
=============================================================================
