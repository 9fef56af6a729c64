--------------------------- MODULE MCYnabDispatch ---------------------------
(* Instances of YnabDispatch for TLC: which call runs in which process and  *)
(* against which operation family.                                          *)
EXTENDS YnabDispatch, TLC

CONSTANTS p1, p2, c1, c2, c3, c4, get, post

(* All calls are reads of one family in one process. *)
ReadsHome   == [c \in Calls |-> p1]
ReadsFamily == [c \in Calls |-> get]

(* The same in two processes: only c3 and c4 run in the second one. *)
PairHome   == [c \in Calls |-> IF c \in {c3, c4} THEN p2 ELSE p1]

(* A write beside a read, in one process. *)
MixedHome   == (c1 :> p1) @@ (c2 :> p1)
MixedFamily == (c1 :> post) @@ (c2 :> get)

(* Calls of one family and process can be told apart by nothing. *)
AnyCall  == Permutations(Calls)
Patient  == Permutations(Calls \ Impatient)
SamePair == Permutations(Calls \cap {c1, c2}) \cup Permutations(Calls \cap {c3, c4})
=============================================================================
