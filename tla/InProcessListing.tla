--------------------------- MODULE InProcessListing ---------------------------
(***************************************************************************)
(* The lists of the in-process adapter (core: state-adapter.in-process.ts) *)
(* compared with those of the SQL adapters.  It sorts the whole list in    *)
(* memory and searches it for the cursor.                                  *)
(***************************************************************************)
EXTENDS Listing, SequencesExt

IteratedChains(t, q) ==
  LET blockerChainIds == {b[2] : b \in t.waits}
      last(j) == IF JobsOf(t, j) = {j} THEN j ELSE LastOf(t, j)
  IN {j \in Ids : /\ Exists(t, j) /\ t.job[j].chain = j
                  /\ ~(q.rootOnly /\ j \in blockerChainIds)
                  /\ HasStatus(q, t.job[last(j)].status)}

IteratedJobs(t, q) == {j \in Ids : Exists(t, j) /\ HasStatus(q, t.job[j].status)}

IteratedChainJobs(t, q) == JobsOf(t, q.chain)

IteratedBlockedJobs(t, q) == {b[1] : b \in {w \in t.waits : w[2] = q.chain}}

Matched(t, q) ==
  CASE q.list = "chains" -> IteratedChains(t, q)
    [] q.list = "jobs" -> IteratedJobs(t, q)
    [] q.list = "chainJobs" -> IteratedChainJobs(t, q)
    [] q.list = "blockedJobs" -> IteratedBlockedJobs(t, q)

Sorted(t, q) ==
  LET matched == Matched(t, q)
  IN CHOOSE s \in [1 .. Cardinality(matched) -> matched] :
       \A i, k \in DOMAIN s : i < k => Behind(q, Position(t, q, s[i]), Position(t, q, s[k]))

StartIndexUnchecked(t, q, cursor, sorted) ==    \* mutation: not found is 0
  IF cursor = NULL THEN 0
  ELSE LET found == SelectInSeq(sorted, LAMBDA j : Behind(q, cursor, Position(t, q, j)))
       IN IF found = 0 THEN 0 ELSE found - 1

(* findIndex, counting from zero; past the end when there is none.         *)
StartIndex(t, q, cursor, sorted) ==
  LET found == SelectInSeq(sorted, LAMBDA j : Behind(q, cursor, Position(t, q, j)))
  IN CASE cursor = NULL -> 0
       [] cursor # NULL /\ found = 0 -> Len(sorted)
       [] OTHER -> found - 1

Paginate(t, q, sorted, cursor, limit) ==
  LET start == StartIndex(t, q, cursor, sorted)
      pageItems == SubSeq(sorted, start + 1, Min({start + limit, Len(sorted)}))
      hasMore == start + limit < Len(sorted)
  IN [items |-> pageItems,
      nextCursor |-> IF hasMore /\ pageItems # <<>>
                     THEN CursorOf(t, q, pageItems[Len(pageItems)]) ELSE NULL]

-----------------------------------------------------------------------------
(* Asked for the same page of the same rows, the adapters return the same  *)
(* jobs and the same cursor, also when the row of the cursor, or all that  *)
(* followed it, is gone.                                                   *)
PagesAgree ==
  reading.query # NULL =>
    LET sorted == Sorted(table, reading.query)
    IN \A limit \in Limits :
         LET here == Paginate(table, reading.query, sorted, reading.cursor, limit)
             there == Page(table, reading.query, reading.cursor, limit)
         IN here.nextCursor = there.nextCursor /\ ToSet(here.items) = there.items
=============================================================================
