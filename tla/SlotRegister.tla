----------------------------- MODULE SlotRegister -----------------------------
(***************************************************************************)
(* What the release controllers take the store for: one register that is   *)
(* written whole, stated anew whole, or erased, and never seen in between. *)
(* ReleaseStore implements it with files and directories.                  *)
(***************************************************************************)
EXTENDS ReleaseModel

VARIABLE register      \* the active transaction, or NoSlot

Empty == register = NoSlot

(* A transaction enters an empty register, as prepared. *)
Publish == /\ register = NoSlot
           /\ register' \in {m \in Manifest : m.state = "prepared"}

(* Only the state of a transaction can be rewritten. *)
Restate == /\ register # NoSlot
           /\ \E t \in ActiveStates : register' = [register EXCEPT !.state = t]

Erase == register # NoSlot /\ register' = NoSlot

RegisterSpec == Empty /\ [][Publish \/ Restate \/ Erase]_register
=============================================================================
