----------------------------- MODULE ReleaseSlot -----------------------------
(***************************************************************************)
(* What the local release lifecycle promises, without the machinery that   *)
(* keeps the promise: one transaction slot, a state that only moves        *)
(* forward, and an end that is either acceptance of the candidate or       *)
(* recovery of what was installed before.  ReleaseActivation implements    *)
(* it.                                                                     *)
(***************************************************************************)
EXTENDS ReleaseModel

VARIABLES slot,         \* the active transaction, or NoSlot
          issued,       \* how many release identities have been published
          live          \* the executable the last finished release settled on

slotVars == <<slot, issued, live>>

(* Legal moves of Manifest.State inside one transaction. *)
Forward == {<<"prepared", "pending">>, <<"prepared", "rolling_back">>,
            <<"pending", "accepting">>, <<"pending", "rolling_back">>}

SlotInit == /\ slot = NoSlot
            /\ issued = 0
            /\ live \in Runnable

(* A release is published only into a clear slot, as prepared, and under an *)
(* identity that no earlier release had.                                    *)
Publish == /\ slot = NoSlot
           /\ issued < MaxReleases
           /\ issued' = issued + 1
           /\ slot' \in {m \in Manifest : m.id = issued + 1 /\ m.state = "prepared"}
           /\ UNCHANGED live

Advance == /\ slot # NoSlot
           /\ \E t \in ActiveStates : /\ <<slot.state, t>> \in Forward
                                      /\ slot' = [slot EXCEPT !.state = t]
           /\ UNCHANGED <<issued, live>>

(* The slot empties only at the end of one of the two terminal states. *)
Finish == /\ slot # NoSlot
          /\ \/ slot.state = "accepting" /\ live' = slot.cand
             \/ slot.state = "rolling_back" /\ live' = slot.prev
          /\ slot' = NoSlot
          /\ UNCHANGED issued

SlotNext == Publish \/ Advance \/ Finish

SlotSpec == SlotInit /\ [][SlotNext]_slotVars
=============================================================================
