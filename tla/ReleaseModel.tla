---------------------------- MODULE ReleaseModel ----------------------------
(***************************************************************************)
(* The data of a local release transaction and the pure lifecycle model    *)
(* over it (internal/releaseactivation/types.go and model.go): one event   *)
(* applied to one manifest and one observation gives the command that the  *)
(* manager carries out.                                                    *)
(***************************************************************************)
EXTENDS Naturals

CONSTANTS Builds,       \* gateway executables, told apart by their SHA-256
          Versions,     \* release controllers, told apart by their SHA-256
          Services,     \* supervised services, numbered in canonical order
          Absent,       \* no executable at GATEWAY_BIN
          NoSlot,       \* no active/ directory
          MaxReleases   \* bound: releases published in one behaviour

ASSUME ModelAssumption == /\ Absent \notin Builds
                          /\ Services \subseteq Nat
                          /\ MaxReleases \in Nat

ReleaseIds == 1 .. MaxReleases
Runnable   == Builds \cup {Absent}

(* The durable lifecycle states; StateClear is an empty slot. *)
ActiveStates == {"prepared", "pending", "accepting", "rolling_back"}

(* Fingerprints of everything else the supervised runtime is made of: the   *)
(* plist, the wrappers and the environment file of each captured service.   *)
Configs == {"cfgA", "cfgB"}

(* The manifest.  Only its state ever changes; svcs are the services        *)
(* captured when the release was prepared, at least the first of the        *)
(* canonical order, and prev is Absent for a first installation.            *)
Manifest == [id : ReleaseIds, state : ActiveStates, cand : Builds,
             prev : Runnable, auth : Versions, cfg : Configs,
             svcs : (SUBSET Services) \ {{}}]

ASSUME SlotAssumption == NoSlot \notin Manifest

(* An observation: the executable at GATEWAY_BIN, the fingerprints, whether *)
(* every captured service is loaded and answers its probes, and whether     *)
(* none of them is loaded.  Artifacts inside the slot are immutable and     *)
(* re-hashed by every load, so they are not observed separately.            *)
Observation == [target : Runnable, cfg : Configs,
                ready : BOOLEAN, unloaded : BOOLEAN]

Events == {"resume", "deployment_ready", "accept", "rollback"}

(* The commands; the three CommandPersistState decisions are told apart by  *)
(* the state they persist.                                                  *)
Commands == {"resume_deployment", "persist_pending", "persist_accepting",
             "persist_rolling_back", "resume_rollback", "clear", "reject"}

EventAllowed(state, event) ==
  event \in CASE state = "prepared"     -> {"resume", "deployment_ready", "rollback"}
              [] state = "pending"      -> {"accept", "rollback"}
              [] state = "accepting"    -> {"accept"}
              [] state = "rolling_back" -> {"rollback"}

(* The target is one of the two executables the transaction can account for. *)
TargetAllowed(m, o) == o.target \in {m.cand, m.prev}

PrepareAllowed(m, o) == o.target = m.prev /\ o.cfg = m.cfg

AcceptanceReady(m, o) ==
  o.cfg = m.cfg /\ o.target = m.cand /\ o.ready /\ ~o.unloaded

(* Faulty variant, for mutation runs: an unloaded first installation counts as removed. *)
RecoveryConfirmedKeepsTarget(m, o, rollbackReady) ==
  IF m.prev = Absent THEN o.unloaded
  ELSE rollbackReady /\ o.target = m.prev /\ o.ready

(* Faulty variant, for mutation runs: readiness seen before the restart is trusted. *)
RecoveryConfirmedEarly(m, o, rollbackReady) ==
  IF m.prev = Absent THEN o.target = Absent /\ o.unloaded
  ELSE o.target = m.prev /\ o.ready

RecoveryConfirmed(m, o, rollbackReady) ==
  IF m.prev = Absent
  THEN o.target = Absent /\ o.unloaded
  ELSE rollbackReady /\ o.target = m.prev /\ o.ready

DecidePrepared(m, event, o) ==
  IF o.cfg # m.cfg THEN "reject"
  ELSE CASE event = "resume" /\ TargetAllowed(m, o) -> "resume_deployment"
         [] event = "rollback" /\ TargetAllowed(m, o) -> "persist_rolling_back"
         [] event = "deployment_ready" /\ o.target = m.cand /\ o.ready -> "persist_pending"
         [] OTHER -> "reject"

(* Faulty variant, for mutation runs: accepting is never made durable. *)
DecidePendingShortcut(m, event, o) ==
  CASE event = "accept" /\ AcceptanceReady(m, o) -> "clear"
    [] event = "rollback" /\ o.cfg = m.cfg /\ o.target = m.cand -> "persist_rolling_back"
    [] OTHER -> "reject"

DecidePending(m, event, o) ==
  CASE event = "accept" /\ AcceptanceReady(m, o) -> "persist_accepting"
    [] event = "rollback" /\ o.cfg = m.cfg /\ o.target = m.cand -> "persist_rolling_back"
    [] OTHER -> "reject"

DecideAccepting(m, o) == IF AcceptanceReady(m, o) THEN "clear" ELSE "reject"

DecideRollingBack(m, o, rollbackReady) ==
  IF o.cfg # m.cfg \/ ~TargetAllowed(m, o) THEN "reject"
  ELSE IF RecoveryConfirmed(m, o, rollbackReady) THEN "clear" ELSE "resume_rollback"

Decide(m, event, o, rollbackReady) ==
  IF ~EventAllowed(m.state, event) THEN "reject"
  ELSE CASE m.state = "prepared"     -> DecidePrepared(m, event, o)
         [] m.state = "pending"      -> DecidePending(m, event, o)
         [] m.state = "accepting"    -> DecideAccepting(m, o)
         [] m.state = "rolling_back" -> DecideRollingBack(m, o, rollbackReady)
=============================================================================
