----------------------------- MODULE YnabCircuit -----------------------------
(***************************************************************************)
(* The recovery circuit of one operation family (circuitState, admit and   *)
(* complete in internal/tools/ynab/quota.go): closed while open and lease  *)
(* are 0, open until a time, or half open while one probe holds a lease.   *)
(* Instants are natural numbers; 0 stands for "not set".                   *)
(***************************************************************************)
EXTENDS Naturals

CONSTANTS Threshold,    \* circuitThreshold
          Cooldown,     \* circuitCooldown
          Lease         \* probeLease

ASSUME CircuitAssumption == /\ Threshold \in Nat \ {0}
                            /\ Cooldown \in Nat \ {0}
                            /\ Lease \in Nat \ {0}

Circuit == [failures : Nat, epoch : Nat, floor : Nat, open : Nat, lease : Nat]
Closed  == [failures |-> 0, epoch |-> 0, floor |-> 0, open |-> 0, lease |-> 0]

Permit  == [epoch : Nat, probe : BOOLEAN]
Outcome == {"healthy", "transient", "neutral"}

Later(a, b) == IF a > b THEN a ELSE b

(* An attempt at n would be told to come back later. *)
Blocked(s, n)   == s.open > n \/ s.lease > n

(* Faulty variant, for mutation runs: a probe takes no lease. *)
AdmitUnleased(s, n) == IF s.open = 0 /\ s.lease = 0 THEN s ELSE [s EXCEPT !.epoch = @ + 1]

(* admit, for an attempt that is not blocked. *)
Probes(s)   == s.open # 0 \/ s.lease # 0
Admit(s, n) == IF Probes(s)
               THEN [s EXCEPT !.epoch = @ + 1, !.open = 0, !.lease = n + Lease]
               ELSE s
PermitOf(s, n) == [epoch |-> Admit(s, n).epoch, probe |-> Probes(s)]

(* A completion that the circuit takes no notice of. *)
Outdated(s, p) == (p.probe /\ p.epoch # s.epoch) \/ p.epoch < s.floor

(* Faulty variant, for mutation runs: any success heals. *)
HealedByAny(s, p) == [s EXCEPT !.failures = 0, !.open = 0, !.lease = 0,
                               !.floor = IF p.probe THEN p.epoch ELSE @]

(* A success heals only if nothing happened to the circuit since it was     *)
(* admitted, and a successful probe fences what was admitted before it.     *)
Healed(s, p) == IF p.epoch = s.epoch
                THEN [s EXCEPT !.failures = 0, !.open = 0, !.lease = 0,
                               !.floor = IF p.probe THEN p.epoch ELSE @]
                ELSE s

Failed(s, p, n) ==
  IF ~p.probe /\ Probes(s) THEN s
  ELSE IF p.probe \/ s.failures + 1 >= Threshold
       THEN [s EXCEPT !.epoch = @ + 1, !.failures = @ + 1, !.open = n + Cooldown, !.lease = 0]
       ELSE [s EXCEPT !.epoch = @ + 1, !.failures = @ + 1]

(* Cancellation proves nothing: a canceled probe goes back into cooldown. *)
Canceled(s, p, n) == IF p.probe THEN [s EXCEPT !.epoch = @ + 1, !.open = n + Cooldown, !.lease = 0]
                                ELSE s

(* complete. *)
Complete(s, p, outcome, n) ==
  CASE Outdated(s, p) -> s
    [] ~Outdated(s, p) /\ outcome = "neutral"   -> Canceled(s, p, n)
    [] ~Outdated(s, p) /\ outcome = "healthy"   -> Healed(s, p)
    [] ~Outdated(s, p) /\ outcome = "transient" -> Failed(s, p, n)

(* Faulty variant, for mutation runs: a delay is added to the outage. *)
DeferAdds(s, until, n) ==
  IF until > n THEN [s EXCEPT !.epoch = @ + 1, !.open = Later(@, n) + (until - n), !.lease = 0] ELSE s

(* record: a delay that the server asked for extends the outage. *)
Defer(s, until, n) ==
  IF until > n THEN [s EXCEPT !.epoch = @ + 1, !.open = Later(@, until), !.lease = 0] ELSE s
=============================================================================
