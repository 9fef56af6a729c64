-------------------------- MODULE MCStagedMutation --------------------------
(* A small instance of StagedMutation for TLC. *)
EXTENDS StagedMutation, TLC

CONSTANTS c1, c2, n1, n2

(* n1 is changed in every way, n2 is where it may be moved to or created. *)
Conflicts ==
  {[op |-> op, src |-> n1, dst |-> n1] : op \in {"edit", "delete"}}
  \cup {[op |-> "create", src |-> n2, dst |-> n2], [op |-> "move", src |-> n1, dst |-> n2]}
=============================================================================
