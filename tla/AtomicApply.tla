----------------------------- MODULE AtomicApply -----------------------------
(***************************************************************************)
(* What README.md and the technical document promise of a node change: the *)
(* saved state and the formal configuration move together.  One step       *)
(* publishes a table and the file generated from it; a failed operation is *)
(* no step at all.                                                         *)
(***************************************************************************)
CONSTANTS
  Table,         \* the possible contents of proxy_nodes
  Inbounds(_)    \* the file generated from a table

VARIABLES
  db,            \* the committed table
  live           \* the formal file

Init == db \in Table /\ live = Inbounds(db)

Publish ==
  /\ db' \in Table
  /\ live' = Inbounds(db')

Spec == Init /\ [][Publish]_<<db, live>>
==============================================================================
