---------------------------- MODULE PagedAnswer ----------------------------
(* What a paged tool promises to a client that follows its cursors: what it *)
(* has received only grows, every cursor lies behind the one before, and an *)
(* answer that is complete or refused is final.                             *)
EXTENDS SequencesExt

CONSTANTS Results,      \* what a page may hold
          Behind(_, _)  \* Behind(c, d): cursor d lies behind cursor c

VARIABLES shown,        \* the results received
          cursor,       \* the cursor held: none at first, and when all is done
          phase,        \* "open", "complete" or "failed"
          pages         \* the pages received

Init == shown = <<>> /\ cursor = <<>> /\ phase = "open" /\ pages = 0

(* A page with more to come, the last one, and a refusal.                   *)
More == /\ phase = "open" /\ phase' = "open" /\ pages' = pages + 1
        /\ IsPrefix(shown, shown') /\ Range(shown') \subseteq Results
        /\ cursor' # cursor /\ (cursor # <<>> => Behind(cursor[1], cursor'[1]))

Complete == /\ phase = "open" /\ phase' = "complete" /\ pages' = pages + 1
            /\ IsPrefix(shown, shown') /\ Range(shown') \subseteq Results
            /\ UNCHANGED cursor

Refuse == phase = "open" /\ phase' = "failed" /\ UNCHANGED <<shown, cursor, pages>>

Next == More \/ Complete \/ Refuse

Spec == Init /\ [][Next]_<<shown, cursor, phase, pages>>
=============================================================================
