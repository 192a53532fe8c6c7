------------------------ MODULE SqliteConformance -------------------------
(***************************************************************************)
(* In every state the library reaches on the tables of StateAdapter, the   *)
(* statements of the SQLite adapter do what the in-process adapter does:   *)
(* the two adapters are interchangeable below the library, and what is     *)
(* shown of Queuert holds of it on SQLite.                                 *)
(***************************************************************************)
EXTENDS Queuert, SqliteAdapter

(* Creation, blocking, unblocking, triggering and deletion have the same   *)
(* effect on both adapters, and no delete trips over a foreign key.        *)
SqliteAgrees == Agrees(jobs, blockers)

(* A cascading delete finds the same chains: the recursive query reaches   *)
(* the closure, also where blockers are shared or form a cycle.            *)
SqliteCascades == AgreesOnCascade(jobs, blockers)
=============================================================================
