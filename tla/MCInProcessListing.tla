-------------------------- MODULE MCInProcessListing --------------------------
EXTENDS InProcessListing

(* What a job waits for only keeps chains from being deleted, except for   *)
(* the two lists that read it: for the others, a traversal with edges is   *)
(* also one without.                                                       *)
EdgesWhereRead ==
  reading.query # NULL /\ table.waits # {} =>
    reading.query.rootOnly \/ reading.query.list = "blockedJobs"
=============================================================================
