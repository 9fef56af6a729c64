-------------------------- MODULE ReleaseActivation --------------------------
(***************************************************************************)
(* Local release activation: short-lived release controllers, the durable  *)
(* transaction slot they share under one advisory lock, and the host they  *)
(* change (the executable at GATEWAY_BIN and the launchd jobs that run it). *)
(* Models internal/releaseactivation/manager.go over the pure decisions of *)
(* ReleaseModel; runtime.go and store.go appear as atomic host and slot    *)
(* effects that may fail before or after they took effect.                 *)
(***************************************************************************)
EXTENDS ReleaseModel

CONSTANTS Controllers,  \* controller processes
          Broken,       \* builds whose process never becomes ready
          NoOne,        \* nobody holds the lock, no process, no observation
          MaxFaults,    \* bound: crashes, failed effects, timeouts, service deaths
          MaxTampers    \* bound: outside edits of the target or of fingerprints

ASSUME HostAssumption == /\ Broken \subseteq Builds
                         /\ NoOne \notin Controllers \cup Builds \cup Observation
                         /\ \E s \in Services : \A t \in Services : s <= t
                         /\ MaxFaults \in Nat /\ MaxTampers \in Nat

VARIABLES slot,     \* active/: the published manifest, or NoSlot
          lock,     \* holder of the advisory lock file, or NoOne
          target,   \* the executable at GATEWAY_BIN, or Absent
          config,   \* fingerprints of plist, wrapper and environment files
          jobs,     \* the launchd job of each service
          ctl,      \* the local state of each controller
          issued,   \* release identities published so far
          live,     \* history: the executable the last finished release left
          faults,   \* faults spent
          tampers   \* outside edits spent

host == <<target, config, jobs>>
vars == <<slot, lock, target, config, jobs, ctl, issued, live, faults, tampers>>

(***************************************************************************)
(* A job is loaded or not; proc is the build its process was started from, *)
(* NoOne when it has no process; probe says what a readiness probe meets:  *)
(* a process that is still "starting", one that is "ready", or nobody      *)
(* ("mute": no process, or a process whose health URL file was removed,    *)
(* which only a restarted process writes again).  A job that is not loaded *)
(* has no process, one without a process answers no probe, and only a      *)
(* build that can serve ever gets ready.                                   *)
(***************************************************************************)
Job == {j \in [loaded : BOOLEAN, proc : Builds \cup {NoOne}, probe : {"starting", "ready", "mute"}] :
          /\ ~j.loaded => j.proc = NoOne
          /\ j.proc = NoOne => j.probe = "mute"
          /\ j.probe = "ready" => j.proc \notin Broken}

Unloaded == [loaded |-> FALSE, proc |-> NoOne, probe |-> "mute"]
Waiting  == [loaded |-> TRUE,  proc |-> NoOne, probe |-> "mute"]
Ready(s) == jobs[s].loaded /\ jobs[s].probe = "ready"

(* launchd would get this service ready if left alone. *)
WillServe(s) == jobs[s].loaded /\ target \notin Broken \cup {Absent}

Observe(m) == [target   |-> target,
               cfg      |-> config,
               ready    |-> \A s \in m.svcs : Ready(s),
               unloaded |-> \A s \in m.svcs : ~jobs[s].loaded]

(***************************************************************************)
(* A controller runs one command: release (Status, Prepare when the slot   *)
(* is clear, Resume), accept, rollback, or an administrative command that  *)
(* requires a clear slot.  pc names the next step:                         *)
(*   status, restatus, prepare, acquire    before the lock is taken        *)
(*   capture, publish                      Prepare                         *)
(*   observe                               first observation of run        *)
(*   install .. persist_pending            Resume                          *)
(*   fail                                  rollbackDeploymentFailure       *)
(*   persist_rolling_back .. confirm_rollback   Rollback                   *)
(*   persist_accepting, confirm_accept     Accept                          *)
(*   clear                                 Store.Clear                     *)
(*   admin                                 the effect run by WithClear     *)
(***************************************************************************)
AdminCommands == {"restart", "install_agent", "uninstall_agent"}
CliCommands   == {"release", "accept", "rollback"} \cup AdminCommands

Unlocked   == {"idle", "status", "restatus", "prepare", "acquire"}
Preparing  == {"capture", "publish"}
Deploying  == {"install", "verify", "confirm", "persist_pending", "fail"}
Restarting == {"restart", "wait"}
Deciding   == {"observe", "persist_accepting", "persist_rolling_back"}
Recovering == {"restore", "bootout", "remove", "confirm_rollback"}
Running    == Deploying \cup Restarting \cup Deciding \cup Recovering
                \cup {"confirm_accept", "clear"}
Steps      == Unlocked \cup Preparing \cup Running \cup {"admin"}

Local == [pc   : Steps,
          cmd  : CliCommands \cup {"none"},
          want : ReleaseIds \cup {0},             \* RELEASE_ID argument; 0 is empty
          ver  : Versions \cup {NoOne},           \* the controller binary dispatched
          man  : Manifest \cup {NoSlot},          \* the manifest it works on
          obs  : Observation \cup {NoOne},        \* the observation it last used
          todo : SUBSET Services]                 \* services still to be handled

Idle == [pc |-> "idle", cmd |-> "none", want |-> 0, ver |-> NoOne,
         man |-> NoSlot, obs |-> NoOne, todo |-> {}]

(* serviceManifests are handled in canonical order. *)
IsNext(s, todo) == s \in todo /\ \A t \in todo : s <= t

Go(c, step) == ctl' = [ctl EXCEPT ![c].pc = step]

(* Faulty variant, for mutation runs: the lock outlives its holder. *)
EndKeepsLock(c) == /\ ctl'  = [ctl EXCEPT ![c] = Idle]
                   /\ UNCHANGED lock

(* The command returns, or its process dies: the kernel drops the lock.  *)
End(c) == /\ ctl'  = [ctl EXCEPT ![c] = Idle]
          /\ lock' = IF lock = c THEN NoOne ELSE lock

Fault   == faults < MaxFaults /\ faults' = faults + 1
NoFault == UNCHANGED faults
(* A fault, or a failure that needs no fault because cond already holds. *)
FaultUnless(cond) == (cond /\ NoFault) \/ (~cond /\ Fault)

Holding(c, step) == lock = c /\ ctl[c].pc = step

-----------------------------------------------------------------------------
Init == /\ slot = NoSlot /\ lock = NoOne
        /\ target \in Runnable \ Broken
        /\ config = "cfgA"
        /\ jobs \in [Services -> {Unloaded, Waiting}]
        /\ ctl = [c \in Controllers |-> Idle]
        /\ issued = 0 /\ live = target
        /\ faults = 0 /\ tampers = 0

(* scripts/release-activation.sh: an active slot pins the controller that   *)
(* prepared it, otherwise the checkout's own controller runs.  The slot is  *)
(* read here without the lock.                                              *)
Dispatch(c, cmd, id) ==
  /\ ctl[c].pc = "idle"
  /\ \E v \in IF slot = NoSlot THEN Versions ELSE {slot.auth} :
       ctl' = [ctl EXCEPT ![c] = [Idle EXCEPT !.pc = IF cmd = "release" THEN "status" ELSE "acquire",
                                              !.cmd = cmd, !.want = id, !.ver = v]]
  /\ UNCHANGED <<slot, lock, host, issued, live, faults, tampers>>

(* releaseOrGuide: Status decides between Prepare, Resume and guidance; it  *)
(* holds the lock only while it reads.                                      *)
Resumable(c) == slot # NoSlot /\ slot.auth = ctl[c].ver /\ slot.state = "prepared"

Status(c) ==
  /\ ctl[c].pc \in {"status", "restatus"}
  /\ \/ /\ lock = NoOne /\ slot = NoSlot /\ ctl[c].pc = "status"
        /\ Go(c, "prepare") /\ UNCHANGED lock
     \/ /\ lock = NoOne /\ Resumable(c)
        /\ Go(c, "acquire") /\ UNCHANGED lock
     \/ /\ lock # NoOne \/ (~Resumable(c) /\ ~(slot = NoSlot /\ ctl[c].pc = "status"))
        /\ End(c)
  /\ UNCHANGED <<slot, host, issued, live, faults, tampers>>

(* Manager.Prepare up to the observation: under the lock and over a clear   *)
(* slot it fixes the identity, both executables and the captured services.  *)
(* A slot that filled since Status is a conflict, which releaseOrGuide      *)
(* answers with one more Status.                                            *)
NewManifest(c, build) ==
  [id |-> issued + 1, state |-> "prepared", cand |-> build, prev |-> target,
   auth |-> ctl[c].ver, cfg |-> config,
   svcs |-> {s \in Services : jobs[s].loaded \/ IsNext(s, Services)}]

BeginPrepare(c) ==
  /\ ctl[c].pc = "prepare"
  /\ \/ /\ lock # NoOne \/ (slot = NoSlot /\ issued = MaxReleases)
        /\ End(c)
     \/ /\ lock = NoOne /\ slot # NoSlot
        /\ Go(c, "restatus") /\ UNCHANGED lock
     \/ /\ lock = NoOne /\ slot = NoSlot /\ issued < MaxReleases
        /\ lock' = c
        /\ \E build \in Builds :
             ctl' = [ctl EXCEPT ![c].pc = "capture", ![c].man = NewManifest(c, build)]
  /\ UNCHANGED <<slot, host, issued, live, faults, tampers>>

Capture(c) ==
  /\ Holding(c, "capture")
  /\ LET m == ctl[c].man IN
       \/ PrepareAllowed(m, Observe(m)) /\ Go(c, "publish") /\ UNCHANGED lock
       \/ ~PrepareAllowed(m, Observe(m)) /\ End(c)
  /\ UNCHANGED <<slot, host, issued, live, faults, tampers>>

(* Store.Prepare copies the artifacts, compares them with the chosen hashes *)
(* and publishes active/.  On success releaseOrGuide goes on to Resume; an  *)
(* error after the publishing rename leaves the release prepared.           *)
PublishPrepared(c) ==
  /\ Holding(c, "publish")
  /\ LET m == ctl[c].man IN
       \/ /\ target = m.prev /\ slot = NoSlot
          /\ slot' = m /\ issued' = m.id
          /\ \/ /\ NoFault /\ lock' = NoOne
                /\ ctl' = [ctl EXCEPT ![c].pc = "acquire", ![c].man = NoSlot]
             \/ Fault /\ End(c)
       \/ /\ ~(target = m.prev /\ slot = NoSlot)
          /\ End(c) /\ UNCHANGED <<slot, issued, faults>>
  /\ UNCHANGED <<host, live, tampers>>

-----------------------------------------------------------------------------
(* Manager.run and WithClear take the lock, load the slot and authenticate  *)
(* the request; anything else is an error with no effect.                   *)
Event(c) == IF ctl[c].cmd = "release" THEN "resume" ELSE ctl[c].cmd

(* Faulty variant, for mutation runs: the authority of the slot is not compared. *)
AdmissibleAnyVersion(c) ==
  IF ctl[c].cmd \in AdminCommands
  THEN slot = NoSlot
  ELSE /\ slot # NoSlot
       /\ EventAllowed(slot.state, Event(c))
       /\ ctl[c].cmd = "release" \/ ctl[c].want = slot.id

(* Faulty variant, for mutation runs: an administrative command does not look at the slot. *)
AdmissibleAdminAlways(c) ==
  \/ ctl[c].cmd \in AdminCommands
  \/ /\ slot # NoSlot
     /\ slot.auth = ctl[c].ver
     /\ EventAllowed(slot.state, Event(c))
     /\ ctl[c].cmd = "release" \/ ctl[c].want = slot.id

Admissible(c) ==
  IF ctl[c].cmd \in AdminCommands
  THEN slot = NoSlot
  ELSE /\ slot # NoSlot
       /\ slot.auth = ctl[c].ver
       /\ EventAllowed(slot.state, Event(c))
       /\ ctl[c].cmd = "release" \/ ctl[c].want = slot.id

(* Faulty variant, for mutation runs: the advisory lock is not taken. *)
AcquireUnlocked(c) ==
  /\ ctl[c].pc = "acquire"
  /\ \/ /\ Admissible(c)
        /\ lock' = c
        /\ ctl' = [ctl EXCEPT ![c].pc = IF ctl[c].cmd \in AdminCommands THEN "admin" ELSE "observe",
                              ![c].man = slot]
     \/ ~Admissible(c) /\ End(c)
  /\ UNCHANGED <<slot, host, issued, live, faults, tampers>>

Acquire(c) ==
  /\ ctl[c].pc = "acquire"
  /\ \/ /\ lock = NoOne /\ Admissible(c)
        /\ lock' = c
        /\ ctl' = [ctl EXCEPT ![c].pc = IF ctl[c].cmd \in AdminCommands THEN "admin" ELSE "observe",
                              ![c].man = slot]
     \/ ~(lock = NoOne /\ Admissible(c)) /\ End(c)
  /\ UNCHANGED <<slot, host, issued, live, faults, tampers>>

(* Faulty variant, for mutation runs: an installed candidate is not restarted. *)
StepForSkipsRestart(m, decision, o) ==
  CASE decision = "resume_deployment" -> IF o.target = m.cand THEN "confirm" ELSE "install"
    [] decision = "resume_rollback" /\ m.prev = Absent -> "bootout"
    [] decision = "resume_rollback" /\ m.prev # Absent ->
         IF o.target = m.prev THEN "restart" ELSE "restore"
    [] OTHER -> decision

(* What a decision makes the controller do next, on manifest m after        *)
(* observation o.                                                           *)
StepFor(m, decision, o) ==
  CASE decision = "resume_deployment" -> IF o.target = m.cand THEN "restart" ELSE "install"
    [] decision = "resume_rollback" /\ m.prev = Absent -> "bootout"
    [] decision = "resume_rollback" /\ m.prev # Absent ->
         IF o.target = m.prev THEN "restart" ELSE "restore"
    [] OTHER -> decision

Proceed(c, m, decision, o) ==
  \/ /\ decision # "reject"
     /\ ctl' = [ctl EXCEPT ![c].pc = StepFor(m, decision, o), ![c].man = m,
                           ![c].obs = o, ![c].todo = m.svcs]
     /\ UNCHANGED lock
  \/ decision = "reject" /\ End(c)

FirstObservation(c) ==
  /\ Holding(c, "observe")
  /\ LET m == ctl[c].man  o == Observe(m)
     IN  Proceed(c, m, Decide(m, Event(c), o, FALSE), o)
  /\ UNCHANGED <<slot, host, issued, live, faults, tampers>>

(* Faulty variant, for mutation runs: a failed deployment just returns its error. *)
FailedReturns(c) == End(c)

(* A failed restart or readiness wait: a deployment turns to rollback, a    *)
(* rollback stays unconfirmed and the command ends.                         *)
Failed(c) == \/ ctl[c].man.state = "prepared" /\ Go(c, "fail") /\ UNCHANGED lock
             \/ ctl[c].man.state # "prepared" /\ End(c)

InstallCandidate(c) ==
  /\ Holding(c, "install")
  /\ \/ target' = ctl[c].man.cand /\ Go(c, "verify") /\ NoFault
     \/ target' \in {target, ctl[c].man.cand} /\ Go(c, "fail") /\ Fault
  /\ UNCHANGED <<slot, lock, config, jobs, issued, live, tampers>>

VerifyInstalled(c) ==
  /\ Holding(c, "verify")
  /\ \/ /\ target = ctl[c].man.cand /\ NoFault
        /\ ctl' = [ctl EXCEPT ![c].pc = "restart", ![c].obs = Observe(ctl[c].man)]
     \/ FaultUnless(target # ctl[c].man.cand) /\ Go(c, "fail")
  /\ UNCHANGED <<slot, lock, host, issued, live, tampers>>

(* OSRuntime.Restart removes the health URL file, then asks launchd to kill *)
(* and restart the job, which fails when the job is not loaded.             *)
Muted(s)     == [jobs EXCEPT ![s].probe = "mute"]
Restarted(s) == [jobs EXCEPT ![s] = Waiting]

RestartService(c) ==
  /\ Holding(c, "restart")
  /\ \E s \in ctl[c].todo :
       /\ IsNext(s, ctl[c].todo)
       /\ \/ /\ jobs[s].loaded /\ NoFault
             /\ jobs' = Restarted(s) /\ Go(c, "wait") /\ UNCHANGED lock
          \/ /\ jobs[s].loaded /\ Fault
             /\ jobs' \in {Muted(s), Restarted(s)} /\ Failed(c)
          \/ /\ ~jobs[s].loaded /\ NoFault
             /\ jobs' = Muted(s) /\ Failed(c)
  /\ UNCHANGED <<slot, target, config, issued, live, tampers>>

WaitReady(c) ==
  /\ Holding(c, "wait")
  /\ \E s \in ctl[c].todo :
       /\ IsNext(s, ctl[c].todo)
       /\ \/ /\ Ready(s) /\ NoFault /\ UNCHANGED lock
             /\ ctl' = [ctl EXCEPT ![c].todo = @ \ {s},
                          ![c].pc = IF ctl[c].todo # {s} THEN "restart"
                                    ELSE IF ctl[c].man.state = "prepared" THEN "confirm"
                                    ELSE "confirm_rollback"]
          \/ ~Ready(s) /\ FaultUnless(~WillServe(s)) /\ Failed(c)
  /\ UNCHANGED <<slot, host, issued, live, tampers>>

ConfirmDeployment(c) ==
  /\ Holding(c, "confirm")
  /\ LET m == ctl[c].man  o == Observe(m)  d == Decide(m, "deployment_ready", o, FALSE) IN
       \/ d # "reject" /\ Proceed(c, m, d, o) /\ NoFault
       \/ FaultUnless(d = "reject") /\ Go(c, "fail") /\ UNCHANGED lock
  /\ UNCHANGED <<slot, host, issued, live, tampers>>

(* Faulty variant, for mutation runs: recovery starts before rolling_back is durable. *)
RollbackDeploymentFailureUnlogged(c) ==
  /\ Holding(c, "fail")
  /\ LET m == ctl[c].man  o == Observe(m)
     IN  Proceed(c, m, IF Decide(m, "rollback", o, FALSE) = "reject" THEN "reject"
                       ELSE "resume_rollback", o)
  /\ UNCHANGED <<slot, host, issued, live, faults, tampers>>

(* rollbackDeploymentFailure: a fresh observation decides whether recovery  *)
(* may start; if not, the release stays prepared with its evidence.         *)
RollbackDeploymentFailure(c) ==
  /\ Holding(c, "fail")
  /\ LET m == ctl[c].man  o == Observe(m)
     IN  Proceed(c, m, Decide(m, "rollback", o, FALSE), o)
  /\ UNCHANGED <<slot, host, issued, live, faults, tampers>>

(* LockedStore.Rewrite and what follows it.  Entering rolling_back goes on  *)
(* with the observation made before the rewrite; entering accepting takes a *)
(* fresh one.  An error after the publishing rename ends the command with   *)
(* the new state in place.                                                  *)
StateOf == [persist_pending |-> "pending", persist_accepting |-> "accepting",
            persist_rolling_back |-> "rolling_back"]

Persist(c) ==
  /\ lock = c /\ ctl[c].pc \in DOMAIN StateOf
  /\ LET m == [ctl[c].man EXCEPT !.state = StateOf[ctl[c].pc]] IN
       /\ slot # NoSlot /\ [m EXCEPT !.state = slot.state] = slot
       /\ slot' = m
       /\ \/ Fault /\ End(c)
          \/ m.state = "pending" /\ NoFault /\ End(c)
          \/ /\ m.state = "accepting" /\ NoFault /\ UNCHANGED lock
             /\ ctl' = [ctl EXCEPT ![c].pc = "confirm_accept", ![c].man = m]
          \/ /\ m.state = "rolling_back" /\ NoFault
             /\ Proceed(c, m, Decide(m, "rollback", ctl[c].obs, FALSE), ctl[c].obs)
  /\ UNCHANGED <<host, issued, live, tampers>>

ConfirmAccept(c) ==
  /\ Holding(c, "confirm_accept")
  /\ LET m == ctl[c].man  o == Observe(m)
     IN  Proceed(c, m, Decide(m, "accept", o, FALSE), o)
  /\ UNCHANGED <<slot, host, issued, live, faults, tampers>>

-----------------------------------------------------------------------------
(* resumeRollback with a previous executable: put it back if the last       *)
(* observation did not show it, then restart every captured service.        *)
RestorePrevious(c) ==
  /\ Holding(c, "restore")
  /\ \/ target' = ctl[c].man.prev /\ Go(c, "restart") /\ UNCHANGED lock /\ NoFault
     \/ target' \in {target, ctl[c].man.prev} /\ End(c) /\ Fault
  /\ UNCHANGED <<slot, config, jobs, issued, live, tampers>>

(* resumeRollback of a first installation: unload every captured service,   *)
(* then remove the target if the last observation showed one.               *)
Bootout(c) ==
  /\ Holding(c, "bootout")
  /\ \E s \in ctl[c].todo :
       /\ IsNext(s, ctl[c].todo)
       /\ \/ /\ jobs' = [jobs EXCEPT ![s] = Unloaded] /\ NoFault /\ UNCHANGED lock
             /\ ctl' = [ctl EXCEPT ![c].todo = @ \ {s},
                          ![c].pc = IF ctl[c].todo # {s} THEN "bootout"
                                    ELSE IF ctl[c].obs.target # Absent THEN "remove"
                                    ELSE "confirm_rollback"]
          \/ jobs' \in {jobs, [jobs EXCEPT ![s] = Unloaded]} /\ Fault /\ End(c)
  /\ UNCHANGED <<slot, target, config, issued, live, tampers>>

RemoveTarget(c) ==
  /\ Holding(c, "remove")
  /\ \/ target' = Absent /\ Go(c, "confirm_rollback") /\ UNCHANGED lock /\ NoFault
     \/ target' \in {target, Absent} /\ End(c) /\ Fault
  /\ UNCHANGED <<slot, config, jobs, issued, live, tampers>>

(* finishRollback: only a fresh observation, after every service was        *)
(* restarted in this very session, may confirm the recovery.                *)
ConfirmRollback(c) ==
  /\ Holding(c, "confirm_rollback")
  /\ LET m == ctl[c].man  o == Observe(m)  d == Decide(m, "rollback", o, m.prev # Absent) IN
       \/ d = "clear" /\ Proceed(c, m, d, o)
       \/ d # "clear" /\ End(c)
  /\ UNCHANGED <<slot, host, issued, live, faults, tampers>>

(* LockedStore.Clear: the rename of active/ is the commit point. *)
Clear(c) ==
  /\ Holding(c, "clear")
  /\ slot # NoSlot /\ slot.id = ctl[c].man.id
  /\ slot' = NoSlot
  /\ live' = IF ctl[c].man.state = "accepting" THEN ctl[c].man.cand ELSE ctl[c].man.prev
  /\ End(c)
  /\ UNCHANGED <<host, issued, faults, tampers>>

(* The administrative effects run by WithClear, one service each.  The      *)
(* install adapter rewrites the plist, boots a loaded job out and           *)
(* bootstraps it again; the uninstall adapter boots the job out and removes *)
(* the plist.                                                               *)
AdminRestart(c) ==
  /\ Holding(c, "admin") /\ ctl[c].cmd = "restart"
  /\ \E s \in Services :
       \/ jobs[s].loaded /\ jobs' = Restarted(s) /\ NoFault
       \/ jobs' = Muted(s) /\ FaultUnless(~jobs[s].loaded)
  /\ End(c)
  /\ UNCHANGED <<slot, target, config, issued, live, tampers>>

AdminInstall(c) ==
  /\ Holding(c, "admin") /\ ctl[c].cmd = "install_agent"
  /\ config' \in Configs
  /\ \E s \in Services :
       \/ jobs' = Restarted(s) /\ NoFault
       \/ jobs' \in {jobs, [jobs EXCEPT ![s] = Unloaded], Restarted(s)} /\ Fault
  /\ End(c)
  /\ UNCHANGED <<slot, target, issued, live, tampers>>

AdminUninstall(c) ==
  /\ Holding(c, "admin") /\ ctl[c].cmd = "uninstall_agent"
  /\ \E s \in Services :
       \/ jobs' = [jobs EXCEPT ![s] = Unloaded] /\ config' \in Configs /\ NoFault
       \/ jobs' \in {jobs, [jobs EXCEPT ![s] = Unloaded]} /\ UNCHANGED config /\ Fault
  /\ End(c)
  /\ UNCHANGED <<slot, target, issued, live, tampers>>

(* The controller dies (kill, watchdog, reboot), or the step fails before   *)
(* any effect where the code answers a failure by returning.                *)
Crash(c) == /\ ctl[c].pc # "idle" /\ Fault /\ End(c)
            /\ UNCHANGED <<slot, host, issued, live, tampers>>

-----------------------------------------------------------------------------
(* launchd and the services: KeepAlive starts a missing process from the    *)
(* executable installed at that moment, a healthy process becomes ready,    *)
(* and any process may die.                                                 *)
Respawn(s) ==
  /\ jobs[s].loaded /\ jobs[s].proc = NoOne /\ target # Absent
  /\ jobs' = [jobs EXCEPT ![s].proc = target, ![s].probe = "starting"]
  /\ UNCHANGED <<slot, lock, target, config, ctl, issued, live, faults, tampers>>

Serve(s) ==
  /\ jobs[s].proc \notin Broken /\ jobs[s].probe = "starting"
  /\ jobs' = [jobs EXCEPT ![s].probe = "ready"]
  /\ UNCHANGED <<slot, lock, target, config, ctl, issued, live, faults, tampers>>

Die(s) ==
  /\ jobs[s].proc # NoOne /\ Fault
  /\ jobs' = Restarted(s)
  /\ UNCHANGED <<slot, lock, target, config, ctl, issued, live, tampers>>

(* The operator edits what the lifecycle fingerprints, at any moment except *)
(* between a command's first observation and its end.                       *)
Tamper == /\ tampers < MaxTampers /\ tampers' = tampers + 1
          /\ lock # NoOne => ctl[lock].pc \in Preparing \cup {"observe", "admin"}
          /\ \/ target' \in Runnable \ {target} /\ UNCHANGED config
             \/ config' \in Configs \ {config} /\ UNCHANGED target
          /\ UNCHANGED <<slot, lock, jobs, ctl, issued, live, faults>>

Operator(c) == \/ \E cmd \in {"release"} \cup AdminCommands : Dispatch(c, cmd, 0)
               \/ \E cmd \in {"accept", "rollback"}, id \in 1 .. issued : Dispatch(c, cmd, id)

Session(c) ==
  \/ Status(c) \/ BeginPrepare(c) \/ Capture(c) \/ PublishPrepared(c) \/ Acquire(c)
  \/ FirstObservation(c) \/ InstallCandidate(c) \/ VerifyInstalled(c) \/ RestartService(c)
  \/ WaitReady(c) \/ ConfirmDeployment(c) \/ RollbackDeploymentFailure(c) \/ Persist(c)
  \/ ConfirmAccept(c) \/ RestorePrevious(c) \/ Bootout(c) \/ RemoveTarget(c)
  \/ ConfirmRollback(c) \/ Clear(c)
  \/ AdminRestart(c) \/ AdminInstall(c) \/ AdminUninstall(c)

Launchd(s) == Respawn(s) \/ Serve(s)

Next == \/ \E c \in Controllers : Operator(c) \/ Session(c) \/ Crash(c)
        \/ \E s \in Services : Launchd(s) \/ Die(s)
        \/ Tamper

Spec == Init /\ [][Next]_vars

-----------------------------------------------------------------------------
(* Every variable keeps its type. *)
TypeOK == /\ slot \in Manifest \cup {NoSlot}
          /\ lock \in Controllers \cup {NoOne}
          /\ target \in Runnable /\ live \in Runnable
          /\ config \in Configs
          /\ jobs \in [Services -> Job]
          /\ ctl \in [Controllers -> Local]
          /\ issued \in 0 .. MaxReleases
          /\ faults \in 0 .. MaxFaults /\ tampers \in 0 .. MaxTampers

(* A controller is past its acquire exactly while it holds the advisory     *)
(* lock, and then the manifest it works on is what is on disk: nobody else  *)
(* moves the slot under it, and it never works from a stale copy            *)
(* (manager.go loads once per command and decides from that copy).          *)
HolderOwnsSlot ==
  \A c \in Controllers :
    /\ ctl[c].pc # "idle" => ctl[c].ver \in Versions
    /\ ctl[c].pc \notin Unlocked <=> lock = c
    /\ ctl[c].pc \in Running => slot # NoSlot /\ ctl[c].man = slot
    /\ ctl[c].pc \in Preparing => slot = NoSlot /\ ctl[c].man # NoSlot
    /\ ctl[c].pc = "admin" => slot = NoSlot

(* What a running command may rely on between two of its steps: its step    *)
(* fits its command and the durable state, the pinned controller runs it,   *)
(* fingerprints and target are those it observed, and every service it has  *)
(* already handled is where it left it.  Deployment and recovery re-read    *)
(* the host only at a few points; everything in between rests on this.      *)
Fresh(s)   == jobs[s].loaded /\ jobs[s].proc \in {target, NoOne}
Handled(c) == {s \in ctl[c].man.svcs : \/ s \notin ctl[c].todo
                                       \/ ctl[c].pc = "wait" /\ IsNext(s, ctl[c].todo)}

StepFits(c) ==
  LET pc == ctl[c].pc  state == ctl[c].man.state  prev == ctl[c].man.prev IN
    /\ pc \in Deploying => state = "prepared" /\ ctl[c].cmd = "release"
    /\ pc \in Restarting => \/ state = "prepared" /\ ctl[c].cmd = "release"
                            \/ state = "rolling_back" /\ prev # Absent
    /\ pc = "persist_accepting" => state = "pending" /\ ctl[c].cmd = "accept"
    /\ pc = "confirm_accept" => state = "accepting"
    /\ pc = "persist_rolling_back" => state \in {"prepared", "pending"} /\ ctl[c].cmd # "accept"
    /\ pc \in Recovering => state = "rolling_back"
    /\ pc = "restore" => prev # Absent
    /\ pc \in {"bootout", "remove"} => prev = Absent
    /\ pc = "clear" => state \in {"accepting", "rolling_back"}

RequestFits(c, m) ==
  /\ ctl[c].ver = m.auth
  /\ \/ ctl[c].cmd = "release" /\ m.state \in {"prepared", "rolling_back"}
     \/ ctl[c].cmd = "accept" /\ m.state \in {"pending", "accepting"} /\ ctl[c].want = m.id
     \/ ctl[c].cmd = "rollback" /\ m.state # "accepting" /\ ctl[c].want = m.id

HostFits(c) ==
  LET pc == ctl[c].pc  m == ctl[c].man  o == ctl[c].obs IN
    /\ config = m.cfg
    /\ target \in {m.cand, m.prev}
    /\ pc \in {"verify", "confirm", "persist_pending", "persist_accepting"} => target = m.cand
    /\ pc \in Restarting => target = IF m.state = "prepared" THEN m.cand ELSE m.prev
    /\ pc = "confirm_rollback" /\ m.prev # Absent => target = m.prev
    /\ pc = "clear" => target = IF m.state = "accepting" THEN m.cand ELSE m.prev
    /\ pc = "persist_pending" => m.cand \notin Broken
    /\ pc = "persist_rolling_back" =>
         /\ o.target = target /\ o.cfg = config
         /\ o.unloaded => \A s \in m.svcs : ~jobs[s].loaded
    /\ pc \in {"install", "verify", "restore"} => m.svcs \subseteq ctl[c].todo
    /\ pc \in Restarting => \A s \in Handled(c) : Fresh(s)
    /\ pc \in {"confirm", "persist_pending"} => \A s \in m.svcs : Fresh(s)
    /\ pc = "bootout" => \A s \in m.svcs \ ctl[c].todo : ~jobs[s].loaded
    /\ pc = "remove" => \A s \in m.svcs : ~jobs[s].loaded
    /\ pc = "confirm_rollback" \/ (pc = "clear" /\ m.state = "rolling_back") =>
         \A s \in m.svcs : IF m.prev = Absent THEN ~jobs[s].loaded
                           ELSE jobs[s].loaded /\ jobs[s].proc \in {m.prev, NoOne}

SessionFits(c) ==
  /\ ctl[c].pc \in Running => StepFits(c) /\ RequestFits(c, ctl[c].man)
  /\ ctl[c].pc \in Running \ {"observe"} => HostFits(c)
  /\ ctl[c].pc \in Preparing => ctl[c].man.id = issued + 1 /\ ctl[c].man.state = "prepared"

SessionInv == \A c \in Controllers : SessionFits(c)

(* Without outside edits the executable at GATEWAY_BIN can always be        *)
(* accounted for: a clear slot means the machine runs what the last         *)
(* finished release settled on, whatever crashed on the way; an active one  *)
(* still holds that executable as previous and the target is one of its two. *)
TargetAccounted ==
  tampers = 0 => IF slot = NoSlot THEN target = live
                 ELSE slot.prev = live /\ target \in {slot.cand, slot.prev}

(* A release is pending, or being accepted, only while the candidate is     *)
(* installed and no captured service still runs an older executable: the    *)
(* readiness that was waited for belongs to the candidate                   *)
(* (resumeDeployment restarts before it waits).                             *)
PendingProven ==
  slot # NoSlot /\ slot.state \in {"pending", "accepting"} /\ tampers = 0 =>
    /\ target = slot.cand
    /\ slot.cand \notin Broken
    /\ \A s \in slot.svcs : jobs[s].loaded /\ jobs[s].proc \in {slot.cand, NoOne}

(* Write-ahead: the controllers change the executable only while a durable  *)
(* manifest already says which way: to the candidate while prepared, back   *)
(* to the previous one only once rolling_back is on disk; and they never    *)
(* overwrite an executable that the transaction does not know               *)
(* (targetAllowed).                                                         *)
WriteAhead ==
  [][target' # target /\ tampers' = tampers =>
       /\ slot # NoSlot
       /\ target \in {slot.cand, slot.prev}
       /\ \/ slot.state = "prepared" /\ target' = slot.cand
          \/ slot.state = "rolling_back" /\ target' = slot.prev]_vars

(* Recovery state is thrown away only when its purpose is fulfilled, even   *)
(* if the operator edited the host between commands: acceptance needs the   *)
(* candidate installed under the recorded fingerprints; an update's         *)
(* rollback needs the previous executable installed and no captured service *)
(* running another; a first installation's needs target and services gone.  *)
ClearProven ==
  [][slot # NoSlot /\ slot' = NoSlot =>
       /\ config = slot.cfg
       /\ IF slot.state = "accepting" THEN target = slot.cand
          ELSE /\ target = slot.prev
               /\ \A s \in slot.svcs :
                    IF slot.prev = Absent THEN ~jobs[s].loaded
                    ELSE jobs[s].loaded /\ jobs[s].proc \in {slot.prev, NoOne}]_vars

(* Only the pinned controller, asked for this very release, moves an active *)
(* transaction or its target: a dispatch that read the slot before another  *)
(* command changed it has no effect (validateCurrentAuthority,              *)
(* validateRequestedEvent under the lock).                                  *)
Authorized ==
  [][slot # NoSlot /\ (slot' # slot \/ (target' # target /\ tampers' = tampers)) =>
       /\ lock # NoOne
       /\ ctl[lock].ver = slot.auth
       /\ \/ ctl[lock].cmd = "release" /\ slot.state \in {"prepared", "rolling_back"}
          \/ ctl[lock].cmd = "accept" /\ slot.state \in {"pending", "accepting"} /\ ctl[lock].want = slot.id
          \/ ctl[lock].cmd = "rollback" /\ slot.state # "accepting" /\ ctl[lock].want = slot.id]_vars

(* The captured services of an active release are not unloaded by anyone    *)
(* but a first installation's rollback, and its fingerprints are changed by *)
(* no administrative command (WithClear).                                   *)
AdminWaits ==
  [][slot # NoSlot =>
       /\ \A s \in slot.svcs : jobs[s].loaded /\ ~jobs'[s].loaded =>
            slot.state = "rolling_back" /\ slot.prev = Absent
       /\ config' # config => tampers' # tampers]_vars

(* install-launchagent "never unloads an already-running job, even on       *)
(* failure" (docs/runbooks/openai-tunnel.md; runAdmin repeats it).          *)
InstallFailed == /\ faults' # faults
                 /\ \E c \in Controllers : AdminInstall(c)

FailedInstallKeepsJobs ==
  [][InstallFailed => \A s \in Services : jobs[s].proc # NoOne => jobs'[s].loaded]_vars

(* The controllers implement the abstract lifecycle: the slot, the          *)
(* identities and the settled executable move as ReleaseSlot allows.        *)
Slot == INSTANCE ReleaseSlot
ImplementsSlot == Slot!SlotSpec

(***************************************************************************)
(* Liveness.  A command that was started goes on, launchd starts and       *)
(* serves, and the operator keeps giving the command that the status       *)
(* report names for the slot's state.  Faults are bounded, so from some    *)
(* point on nothing fails any more.                                        *)
(***************************************************************************)
NextCommand(c) ==
  /\ slot # NoSlot
  /\ \/ slot.state = "prepared" /\ Dispatch(c, "release", 0)
     \/ slot.state = "accepting" /\ Dispatch(c, "accept", slot.id)
     \/ slot.state = "rolling_back" /\ Dispatch(c, "rollback", slot.id)

Fairness == /\ \A c \in Controllers : WF_vars(Session(c))
            /\ \A s \in Services : WF_vars(Launchd(s))
            /\ SF_vars(\E c \in Controllers : NextCommand(c))

FairSpec == Spec /\ Fairness

CapturedLoaded == \A s \in slot.svcs : jobs[s].loaded

(* A prepared release does not stay prepared, however often its command was *)
(* interrupted: rerunning release makes it pending or starts its rollback.  *)
PreparedSettles ==
  (slot # NoSlot /\ slot.state = "prepared") ~> (slot = NoSlot \/ slot.state # "prepared")

(* An irreversible choice is carried through: an interrupted acceptance or  *)
(* rollback ends in a clear slot, provided launchd still has the captured   *)
(* services (an update's rollback cannot restart a job that is not loaded). *)
ChoiceCompletes ==
  (slot # NoSlot /\ slot.state \in {"accepting", "rolling_back"}
     /\ (slot.prev = Absent \/ CapturedLoaded)) ~> slot = NoSlot
=============================================================================
