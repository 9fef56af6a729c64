--------------------------- MODULE DocumentLedger ---------------------------
(* What the native document path promises about memory: every document holds  *)
(* its bytes from one reservation to one release, and the counter is exactly  *)
(* what is held.  DocumentBridge implements this.                             *)
EXTENDS Integers, FiniteSets

CONSTANTS
  Documents,  \* document requests
  Capacity    \* bytes of native documents at a time

VARIABLES
  held,  \* bytes every document holds now
  used   \* the counter of the gate

vars == <<held, used>>

(* A document that is not there yet, that holds bytes, that gave them back. *)
Never == -1
Init == held = [d \in Documents |-> Never] /\ used = 0

(* The bytes that are held, one by one, and how many they are. *)
HeldBytes == {p \in Documents \X (1..Capacity) : p[2] <= held[p[1]]}
Total == Cardinality(HeldBytes)

Reserve(d) ==
  /\ held[d] = Never
  /\ \E size \in 1..Capacity :
       /\ Total + size <= Capacity
       /\ held' = [held EXCEPT ![d] = size] /\ used' = used + size

Release(d) ==
  /\ held[d] > 0
  /\ held' = [held EXCEPT ![d] = 0] /\ used' = used - held[d]

Next == \E d \in Documents : Reserve(d) \/ Release(d)

Spec == Init /\ [][Next]_vars
=============================================================================
