----------------------------- MODULE VaultCalls -----------------------------
(* What a client of the vault mutation tools may rely on: a call changes the  *)
(* vault at most once, at one instant, while it runs, and its answer does not *)
(* lie about that change.  StagedMutation implements this.                    *)
CONSTANTS
  Calls,    \* tool calls
  Names,    \* names in one vault directory
  Contents  \* what a name may hold

VARIABLES
  vault,  \* what every name holds
  state   \* how far every call is

vars == <<vault, state>>

States == {"idle", "running", "applied", "ok", "rejected", "uncertain"}

Init == vault \in [Names -> Contents] /\ state = [c \in Calls |-> "idle"]

Advance(c, from, to) ==
  state[c] \in from /\ \E s \in to : state' = [state EXCEPT ![c] = s]

(* The call starts; it cannot change anything before. *)
Start(c) == Advance(c, {"idle"}, {"running"}) /\ UNCHANGED vault

(* The single instant at which the call changes the vault. *)
Apply(c) == Advance(c, {"running"}, {"applied"}) /\ vault' \in [Names -> Contents]

(* The answer: success only after the change, refusal only without it. *)
Answer(c) == /\ \/ Advance(c, {"running"}, {"rejected", "uncertain"})
                \/ Advance(c, {"applied"}, {"ok", "uncertain"})
             /\ UNCHANGED vault

(* Another application writes to the vault. *)
Other == vault' \in [Names -> Contents] /\ UNCHANGED state

Next == Other \/ \E c \in Calls : Start(c) \/ Apply(c) \/ Answer(c)

Spec == Init /\ [][Next]_vars
=============================================================================
