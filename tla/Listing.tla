------------------------------- MODULE Listing -------------------------------
(***************************************************************************)
(* Lists of chains and jobs, read page by page while the tables change:    *)
(* listChains, listJobs, listChainJobs and listBlockedJobs of the SQL      *)
(* adapters (postgres, sqlite: state-adapter.*.ts), called by the client.  *)
(*                                                                         *)
(* A page is one statement; between two pages anything may be written.  A  *)
(* new row may get any creation time: transactions commit in another order *)
(* than they began, clocks are set back.  Writers are reduced to what      *)
(* lists can tell apart: "pending" is every status but completed.          *)
(* Conditions on what never changes in a row (type names, ids, dates of    *)
(* creation) are left out.                                                 *)
(***************************************************************************)
EXTENDS Naturals, FiniteSets

CONSTANTS
  Ids,          \* of jobs, in the order of the database; a chain has its root's
  NULL,
  Limits,       \* page.limit, chosen anew for every page
  MaxTime,      \* bound: of creation times
  Resolution,   \* ticks of the database per tick of a JavaScript Date
  CoarseLists   \* the lists whose cursor carries a Date

Lists == {"chains", "jobs", "chainJobs", "blockedJobs"}

ASSUME IdsType == Ids \subseteq Nat /\ IsFiniteSet(Ids)
ASSUME LimitsType == Limits \subseteq Nat \ {0}
ASSUME TimeType == MaxTime \in Nat /\ Resolution \in Nat \ {0}
ASSUME CoarseType == CoarseLists \subseteq Lists

VARIABLES
  table,    \* the rows of job and job_blocker
  reading   \* a traversal of a list: no query, and nothing else, between two

vars == <<table, reading>>

Statuses == {"pending", "completed"}

JobRow == [status : Statuses \cup {"absent", "deleted"}, created : 0 .. MaxTime,
           chain : Ids, index : Nat]

(* page.orderDirection and the filters a list has; no status is any.       *)
Query ==
  {q \in [list : Lists, chain : Ids \cup {NULL}, orderDirection : {"asc", "desc"},
          status : SUBSET Statuses \ {Statuses}, rootOnly : BOOLEAN] :
     /\ q.chain # NULL <=> q.list \in {"chainJobs", "blockedJobs"}
     /\ q.status # {} => q.list \in {"chains", "jobs"}
     /\ q.rootOnly => q.list = "chains"}

ASSUME NullIsNone == NULL \notin Nat \X Ids /\ NULL \notin Query /\ NULL \notin Ids

-----------------------------------------------------------------------------
(* What a list selects.                                                    *)

Exists(t, j) == t.job[j].status \in Statuses

JobsOf(t, c) == {j \in Ids : Exists(t, j) /\ t.job[j].chain = c}

LastOf(t, c) ==
  CHOOSE j \in JobsOf(t, c) : \A k \in JobsOf(t, c) : t.job[k].index <= t.job[j].index

HasStatus(q, status) == q.status = {} \/ status \in q.status

ChainListed(t, q, j) ==
  /\ t.job[j].index = 0
  /\ HasStatus(q, t.job[LastOf(t, j)].status)
  /\ q.rootOnly => \A k \in Ids : <<k, j>> \notin t.waits

JobListed(t, q, j) == HasStatus(q, t.job[j].status)

ChainJobListed(t, q, j) == t.job[j].chain = q.chain

BlockedJobListed(t, q, j) == <<j, q.chain>> \in t.waits

Listed(t, q) ==
  {j \in Ids : /\ Exists(t, j)
               /\ q.list = "chains" => ChainListed(t, q, j)
               /\ q.list = "jobs" => JobListed(t, q, j)
               /\ q.list = "chainJobs" => ChainJobListed(t, q, j)
               /\ q.list = "blockedJobs" => BlockedJobListed(t, q, j)}

-----------------------------------------------------------------------------
(* The order of a list, and its cursors.                                   *)

Position(t, q, j) ==
  <<IF q.list = "chainJobs" THEN t.job[j].index ELSE t.job[j].created, j>>

Less(p, r) == p[1] < r[1] \/ (p[1] = r[1] /\ p[2] < r[2])

Behind(q, p, r) == IF q.orderDirection = "asc" THEN Less(p, r) ELSE Less(r, p)

(* The drivers of PostgreSQL return a timestamp as a Date, which drops its *)
(* microseconds; inside row_to_json, and in SQLite, it is text.            *)
CursorOf(t, q, j) ==
  LET p == Position(t, q, j)
  IN IF q.list \in CoarseLists THEN <<p[1] - (p[1] % Resolution), p[2]>> ELSE p

RemainingByTime(t, q, cursor) ==      \* mutation: a cursor without the id
  {j \in Listed(t, q) : cursor # NULL =>
     IF q.orderDirection = "asc" THEN cursor[1] < Position(t, q, j)[1]
                                 ELSE Position(t, q, j)[1] < cursor[1]}

Remaining(t, q, cursor) ==
  {j \in Listed(t, q) : cursor # NULL => Behind(q, cursor, Position(t, q, j))}

Before(t, q, S, j) == {k \in S : Behind(q, Position(t, q, k), Position(t, q, j))}

(* ORDER BY ... LIMIT n                                                    *)
First(t, q, S, n) == {j \in S : Cardinality(Before(t, q, S, j)) < n}

LastItem(t, q, S) == CHOOSE j \in S : \A k \in S \ {j} : k \in Before(t, q, S, j)

(* One row more than asked for tells whether there is a next page.         *)
Page(t, q, cursor, limit) ==
  LET rows == First(t, q, Remaining(t, q, cursor), limit + 1)
      hasMore == Cardinality(rows) > limit
      items == First(t, q, rows, limit)
  IN [items |-> items,
      nextCursor |-> IF hasMore THEN CursorOf(t, q, LastItem(t, q, items)) ELSE NULL]

-----------------------------------------------------------------------------
(* Writers.                                                                *)

Unwritten(j) == [status |-> "absent", created |-> 0, chain |-> j, index |-> 0]

NotReading == [query |-> NULL, cursor |-> NULL, seen |-> {}, stayed |-> {}]

Init ==
  /\ table = [job |-> [j \in Ids |-> Unwritten(j)], waits |-> {}]
  /\ reading = NotReading

(* What was in the list at every moment so far.                            *)
Written(t) ==
  /\ table' = t
  /\ reading' = [reading EXCEPT
       !.stayed = IF reading.query = NULL THEN {} ELSE @ \cap Listed(t, reading.query)]

IsChain(c) == Exists(table, c) /\ table.job[c].index = 0

(* The rows of one transaction have one creation time, and are written     *)
(* together with what they wait for.                                       *)
StartChains(J, blockers, time) ==
  /\ J # {} /\ \A j \in J : table.job[j].status = "absent"
  /\ \A c \in blockers : IsChain(c)
  /\ Written([job |-> [j \in Ids |->
                IF j \in J THEN [table.job[j] EXCEPT !.status = "pending", !.created = time]
                           ELSE table.job[j]],
              waits |-> table.waits \cup (J \X blockers)])

ContinueWith(j, k, blockers, time) ==
  /\ table.job[j].status = "pending" /\ table.job[k].status = "absent"
  /\ \A c \in blockers : IsChain(c)
  /\ Written([job |-> [table.job EXCEPT
                ![j].status = "completed",
                ![k] = [status |-> "pending", created |-> time,
                        chain |-> table.job[j].chain, index |-> table.job[j].index + 1]],
              waits |-> table.waits \cup ({k} \X blockers)])

CompleteJob(j) ==
  /\ table.job[j].status = "pending"
  /\ Written([table EXCEPT !.job[j].status = "completed"])

DeleteChains(C) ==
  LET gone == UNION {JobsOf(table, c) : c \in C}
  IN /\ C # {} /\ \A c \in C : IsChain(c)
     /\ \A b \in table.waits : b[2] \in C => b[1] \in gone
     /\ Written([job |-> [j \in Ids |-> IF j \in gone
                                        THEN [Unwritten(j) EXCEPT !.status = "deleted"]
                                        ELSE table.job[j]],
                 waits |-> {b \in table.waits : b[1] \notin gone}])

-----------------------------------------------------------------------------
(* A caller that passes nextCursor back until there is none.               *)

Start(q) ==
  /\ reading.query = NULL
  /\ reading' = [NotReading EXCEPT !.query = q, !.stayed = Listed(table, q)]
  /\ UNCHANGED table

NextPage(limit) ==
  /\ reading.query # NULL
  /\ LET page == Page(table, reading.query, reading.cursor, limit)
     IN reading' = IF page.nextCursor = NULL THEN NotReading
                   ELSE [reading EXCEPT !.cursor = page.nextCursor, !.seen = @ \cup page.items]
  /\ UNCHANGED table

Next ==
  \/ \E J, blockers \in SUBSET Ids, time \in 0 .. MaxTime : StartChains(J, blockers, time)
  \/ \E j, k \in Ids, blockers \in SUBSET Ids, time \in 0 .. MaxTime :
       ContinueWith(j, k, blockers, time)
  \/ \E j \in Ids : CompleteJob(j)
  \/ \E C \in SUBSET Ids : DeleteChains(C)
  \/ \E q \in Query : Start(q)
  \/ \E limit \in Limits : NextPage(limit)

Spec == Init /\ [][Next]_vars

-----------------------------------------------------------------------------
(* Properties.                                                             *)

TypeOK ==
  /\ table \in [job : [Ids -> JobRow], waits : SUBSET (Ids \X Ids)]
  /\ reading \in [query : Query \cup {NULL}, cursor : (Nat \X Ids) \cup {NULL},
                  seen : SUBSET Ids, stayed : SUBSET Ids]

(* Whoever follows the cursors to the end is shown each row that was in    *)
(* the list all the time exactly once, whatever is created, completed and  *)
(* deleted between the pages (the row of the cursor among it): the next    *)
(* page holds nothing that was shown before, and when it is the last one,  *)
(* nothing is missing.                                                     *)
StayersListedOnce ==
  reading.query # NULL => \A limit \in Limits :
    LET page == Page(table, reading.query, reading.cursor, limit)
    IN /\ page.items \cap reading.seen = {}
       /\ page.nextCursor = NULL => reading.stayed \subseteq reading.seen \cup page.items
=============================================================================
