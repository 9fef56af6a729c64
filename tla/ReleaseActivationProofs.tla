----------------------- MODULE ReleaseActivationProofs -----------------------
(***************************************************************************)
(* Proofs about ReleaseActivation for any number of controllers, services, *)
(* builds and releases, and any number of faults and outside edits.        *)
(*                                                                         *)
(*   Locked  == TypeOK /\ HolderOwnsSlot       the lock discipline         *)
(*   IInv    == Locked /\ SessionInv           what a session relies on    *)
(*                                                                         *)
(* Locked is inductive by itself; IInv is inductive given Locked; the      *)
(* remaining results need IInv in the step they speak of.                  *)
(***************************************************************************)
EXTENDS ReleaseActivation, TLAPS

Locked == TypeOK /\ HolderOwnsSlot
IInv   == Locked /\ SessionInv

USE ModelAssumption, SlotAssumption, HostAssumption

(* Two services cannot both be the next one to be handled. *)
LEMMA NextIsUnique ==
  ASSUME NEW todo \in SUBSET Services, NEW s, NEW t, IsNext(s, todo), IsNext(t, todo)
  PROVE  s = t
BY DEF IsNext

(* A decision is one of the commands. *)
LEMMA DecideType ==
  ASSUME NEW m \in Manifest, NEW event, NEW o, NEW r
  PROVE  Decide(m, event, o, r) \in Commands
BY DEF Decide, DecidePrepared, DecidePending, DecideAccepting, DecideRollingBack,
       Commands, Manifest, ActiveStates

(* A decision that is not a rejection leads into a step of a running command. *)
LEMMA StepForType ==
  ASSUME NEW m \in Manifest, NEW d \in Commands \ {"reject"}, NEW o
  PROVE  StepFor(m, d, o) \in Running
BY DEF StepFor, Commands, Running, Deploying, Restarting, Deciding, Recovering

(* An observation is well typed. *)
LEMMA ObserveType ==
  ASSUME TypeOK, NEW m
  PROVE  Observe(m) \in Observation
BY DEF TypeOK, Observe, Observation

(* The local state of an ended command is well typed. *)
LEMMA IdleType == Idle \in Local
BY DEF Idle, Local, Steps, Unlocked


(* The steps of a command fall into those without the lock, those over a    *)
(* clear slot and those over an active one.                                 *)
LEMMA StepKinds ==
  /\ Unlocked \cap Running = {} /\ Unlocked \cap Preparing = {}
  /\ Preparing \cap Running = {} /\ "admin" \notin Unlocked \cup Preparing \cup Running
  /\ Steps = Unlocked \cup Preparing \cup Running \cup {"admin"}
  /\ "idle" \in Unlocked
BY DEF Unlocked, Preparing, Running, Deploying, Restarting, Deciding, Recovering, Steps

(* Ending a command keeps the lock discipline, whatever else stays the same. *)
LEMMA EndLocked ==
  ASSUME Locked, NEW c \in Controllers, End(c),
         slot' = slot \/ lock = c, slot' \in Manifest \cup {NoSlot}
  PROVE  ctl' \in [Controllers -> Local] /\ lock' \in Controllers \cup {NoOne} /\ HolderOwnsSlot'
BY IdleType, StepKinds DEF Locked, TypeOK, HolderOwnsSlot, End, Idle

(* What a step that updates a controller's local state leaves of the others. *)
LEMMA LocalUpdate ==
  ASSUME TypeOK, NEW c \in Controllers, NEW r \in Local, ctl' = [ctl EXCEPT ![c] = r]
  PROVE  /\ ctl' \in [Controllers -> Local]
         /\ ctl'[c] = r
         /\ \A d \in Controllers : d # c => ctl'[d] = ctl[d]
BY DEF TypeOK

(* Taking the free lock for a preparation, an administrative command or a   *)
(* running command that read the slot keeps the lock discipline.            *)
LEMMA TakesLocked ==
  ASSUME Locked, NEW c \in Controllers, NEW r \in Local, ctl' = [ctl EXCEPT ![c] = r],
         lock = NoOne, lock' = c, slot' = slot, r.ver \in Versions,
         \/ r.pc \in Preparing /\ slot = NoSlot /\ r.man # NoSlot
         \/ r.pc = "admin" /\ slot = NoSlot
         \/ r.pc \in Running /\ slot # NoSlot /\ r.man = slot
  PROVE  ctl' \in [Controllers -> Local] /\ lock' \in Controllers \cup {NoOne} /\ HolderOwnsSlot'
<1>1. /\ ctl' \in [Controllers -> Local] /\ ctl'[c] = r
      /\ \A d \in Controllers : d # c => ctl'[d] = ctl[d]
  BY LocalUpdate DEF Locked
<1>2. \A d \in Controllers :
         ctl[d].pc \in Unlocked /\ (ctl[d].pc # "idle" => ctl[d].ver \in Versions)
  BY DEF Locked, HolderOwnsSlot
<1>3. r.pc \notin Unlocked
  BY StepKinds
<1>4. HolderOwnsSlot'
  <2> SUFFICES ASSUME NEW d \in Controllers
      PROVE  /\ ctl'[d].pc # "idle" => ctl'[d].ver \in Versions
             /\ ctl'[d].pc \notin Unlocked <=> lock' = d
             /\ ctl'[d].pc \in Running => slot' # NoSlot /\ ctl'[d].man = slot'
             /\ ctl'[d].pc \in Preparing => slot' = NoSlot /\ ctl'[d].man # NoSlot
             /\ ctl'[d].pc = "admin" => slot' = NoSlot
    BY DEF HolderOwnsSlot
  <2>1. CASE d = c
    BY <1>1, <1>3, <2>1, StepKinds
  <2>2. CASE d # c
    BY <1>1, <1>2, <2>2, StepKinds
  <2> QED  BY <2>1, <2>2
<1> QED  BY <1>1, <1>4

(* And so does the holder that lets the lock go, whatever it did to the slot. *)
LEMMA FreesLocked ==
  ASSUME Locked, NEW c \in Controllers, NEW r \in Local, ctl' = [ctl EXCEPT ![c] = r],
         lock = c, lock' = NoOne, r.pc \in Unlocked, r.ver = ctl[c].ver
  PROVE  ctl' \in [Controllers -> Local] /\ lock' \in Controllers \cup {NoOne} /\ HolderOwnsSlot'
<1>1. /\ ctl' \in [Controllers -> Local] /\ ctl'[c] = r
      /\ \A d \in Controllers : d # c => ctl'[d] = ctl[d]
  BY LocalUpdate DEF Locked
<1>2. /\ ctl[c].ver \in Versions
      /\ \A d \in Controllers : d # c =>
           ctl[d].pc \in Unlocked /\ (ctl[d].pc # "idle" => ctl[d].ver \in Versions)
  BY StepKinds DEF Locked, HolderOwnsSlot
<1>3. HolderOwnsSlot'
  <2> SUFFICES ASSUME NEW d \in Controllers
      PROVE  /\ ctl'[d].pc # "idle" => ctl'[d].ver \in Versions
             /\ ctl'[d].pc \in Unlocked /\ lock' # d
    BY StepKinds DEF HolderOwnsSlot
  <2>1. ctl'[d].pc \in Unlocked /\ (ctl'[d].pc # "idle" => ctl'[d].ver \in Versions)
    BY <1>1, <1>2
  <2> QED  BY <2>1, SlotAssumption
<1> QED  BY <1>1, <1>3

(* So does a step of a running command that goes on with the active manifest. *)
LEMMA RunningLocked ==
  ASSUME Locked, NEW c \in Controllers, NEW r \in Local, ctl' = [ctl EXCEPT ![c] = r],
         ctl[c].pc \in Running, r.pc \in Running, r.ver = ctl[c].ver,
         r.man = slot', slot' # NoSlot, UNCHANGED lock
  PROVE  ctl' \in [Controllers -> Local] /\ lock' \in Controllers \cup {NoOne} /\ HolderOwnsSlot'
<1>1. /\ ctl' \in [Controllers -> Local] /\ ctl'[c] = r
      /\ \A d \in Controllers : d # c => ctl'[d] = ctl[d]
  BY LocalUpdate DEF Locked
<1>2. lock = c /\ lock' = c /\ ctl[c].pc # "idle"
  BY StepKinds DEF Locked, HolderOwnsSlot
<1>3. \A d \in Controllers : d # c => ctl[d].pc \in Unlocked
  BY <1>2 DEF Locked, HolderOwnsSlot
<1>4. r.pc \notin Unlocked /\ r.pc \notin Preparing /\ r.pc # "admin" /\ r.ver \in Versions
  BY <1>2, StepKinds DEF Locked, HolderOwnsSlot
<1>5. HolderOwnsSlot'
  <2> SUFFICES ASSUME NEW d \in Controllers
      PROVE  /\ ctl'[d].pc # "idle" => ctl'[d].ver \in Versions
             /\ ctl'[d].pc \notin Unlocked <=> lock' = d
             /\ ctl'[d].pc \in Running => slot' # NoSlot /\ ctl'[d].man = slot'
             /\ ctl'[d].pc \in Preparing => slot' = NoSlot /\ ctl'[d].man # NoSlot
             /\ ctl'[d].pc = "admin" => slot' = NoSlot
    BY DEF HolderOwnsSlot
  <2>1. CASE d = c
    BY <1>1, <1>2, <1>4, <2>1
  <2>2. CASE d # c
    BY <1>1, <1>2, <1>3, <2>2, StepKinds DEF Locked, HolderOwnsSlot
  <2> QED  BY <2>1, <2>2
<1> QED  BY <1>1, <1>2, <1>5

(* So does a step that only moves the holder's program counter. *)
LEMMA GoLocked ==
  ASSUME Locked, NEW c \in Controllers, NEW step, Go(c, step), UNCHANGED <<slot, lock>>,
         \/ ctl[c].pc \in Unlocked \ {"idle"} /\ step \in Unlocked
         \/ ctl[c].pc \in Preparing /\ step \in Preparing
         \/ ctl[c].pc \in Running /\ step \in Running
  PROVE  ctl' \in [Controllers -> Local] /\ lock' \in Controllers \cup {NoOne} /\ HolderOwnsSlot'
<1>1. ctl' \in [Controllers -> Local]
  BY StepKinds DEF Locked, TypeOK, Go, Local
<1>2. /\ ctl'[c].pc = step /\ ctl'[c].man = ctl[c].man /\ ctl'[c].ver = ctl[c].ver
      /\ \A d \in Controllers : d # c => ctl'[d] = ctl[d]
  BY DEF Locked, TypeOK, Go, Local
<1>3. HolderOwnsSlot'
  BY <1>2, StepKinds DEF Locked, HolderOwnsSlot
<1> QED  BY <1>1, <1>3 DEF Locked, TypeOK

(* And so does going on with a decision about the active manifest. *)
LEMMA ProceedLocked ==
  ASSUME Locked, NEW c \in Controllers, lock = c, ctl[c].pc \in Running,
         NEW m \in Manifest, slot' = m, NEW d \in Commands, NEW o \in Observation \cup {NoOne},
         Proceed(c, m, d, o)
  PROVE  ctl' \in [Controllers -> Local] /\ lock' \in Controllers \cup {NoOne} /\ HolderOwnsSlot'
<1>1. CASE d = "reject"
  BY <1>1, EndLocked DEF Proceed
<1>2. CASE d # "reject"
  <2>1. StepFor(m, d, o) \in Running
    BY <1>2, StepForType
  <2>2. /\ ctl' = [ctl EXCEPT ![c].pc = StepFor(m, d, o), ![c].man = m, ![c].obs = o, ![c].todo = m.svcs]
        /\ lock' = lock
    BY <1>2 DEF Proceed
  <2>3. m.svcs \in SUBSET Services
    BY DEF Manifest
  <2> DEFINE r == [ctl[c] EXCEPT !.pc = StepFor(m, d, o), !.man = m, !.obs = o, !.todo = m.svcs]
  <2>4. ctl[c] \in Local /\ StepFor(m, d, o) \in Steps
    BY <2>1, StepKinds DEF Locked, TypeOK
  <2>5. r \in Local /\ r.pc = StepFor(m, d, o) /\ r.man = m /\ r.ver = ctl[c].ver
    BY <2>3, <2>4 DEF Local
  <2>6. ctl' = [ctl EXCEPT ![c] = r]
    BY <2>2 DEF Locked, TypeOK
  <2> HIDE DEF r
  <2>7. r.pc \in Running /\ r.man = slot' /\ slot' # NoSlot /\ UNCHANGED lock
    BY <2>1, <2>2, <2>5
  <2> QED  BY <2>5, <2>6, <2>7, RunningLocked
<1> QED  BY <1>1, <1>2

(* Whatever a host effect does to a job leaves well-typed jobs. *)
LEMMA JobsType ==
  ASSUME TypeOK, NEW s \in Services
  PROVE  /\ Restarted(s) \in [Services -> Job] /\ Muted(s) \in [Services -> Job]
         /\ [jobs EXCEPT ![s] = Unloaded] \in [Services -> Job]
<1>1. Waiting \in Job /\ Unloaded \in Job
  BY DEF Job, Waiting, Unloaded
<1>2. [jobs[s] EXCEPT !.probe = "mute"] \in Job
  BY DEF TypeOK, Job
<1>3. Muted(s) = [jobs EXCEPT ![s] = [jobs[s] EXCEPT !.probe = "mute"]]
  BY DEF Muted
<1> QED  BY <1>1, <1>2, <1>3 DEF TypeOK, Restarted

(* Fault and NoFault keep the counter of faults within its bound. *)
LEMMA FaultType ==
  ASSUME TypeOK
  PROVE  /\ Fault => faults' \in 0 .. MaxFaults
         /\ NoFault => faults' \in 0 .. MaxFaults
         /\ \A cond \in BOOLEAN : FaultUnless(cond) => faults' \in 0 .. MaxFaults
<1> USE DEF TypeOK
<1>1. Fault => faults' \in 0 .. MaxFaults
  BY DEF Fault
<1>2. NoFault => faults' \in 0 .. MaxFaults
  BY DEF NoFault
<1> QED  BY <1>1, <1>2 DEF FaultUnless

(* The lock discipline holds at the start ... *)
LEMMA LockedInit == Init => Locked
<1> SUFFICES ASSUME Init PROVE Locked
  OBVIOUS
<1>1. Unloaded \in Job /\ Waiting \in Job
  BY DEF Unloaded, Waiting, Job
<1>2. TypeOK
  BY <1>1, IdleType DEF Init, TypeOK, Configs, Runnable
<1>3. HolderOwnsSlot
  BY StepKinds DEF Init, HolderOwnsSlot, Idle
<1> QED  BY <1>2, <1>3 DEF Locked

(* ... and is kept by every step. *)
LEMMA LockedStep == Locked /\ [Next]_vars => Locked'
<1> SUFFICES ASSUME Locked, [Next]_vars PROVE Locked'
  OBVIOUS
<1> USE DEF Holding, host
<1>0. TypeOK /\ HolderOwnsSlot
  BY DEF Locked
<1>s. \A c \in Controllers : ctl[c].pc \in Running => slot \in Manifest /\ ctl[c].man = slot
  BY <1>0 DEF TypeOK, HolderOwnsSlot
<1>l. \A c \in Controllers : ctl[c] \in Local
  BY <1>0 DEF TypeOK
<1>1. ASSUME NEW c \in Controllers, Operator(c) PROVE Locked'
  <2>1. PICK cmd \in CliCommands, id \in 0 .. MaxReleases : Dispatch(c, cmd, id)
    <3>1. issued \in 0 .. MaxReleases
      BY <1>0 DEF TypeOK
    <3>2. 1 .. issued \subseteq 0 .. MaxReleases /\ 0 \in 0 .. MaxReleases
      BY <3>1
    <3> QED  BY <1>1, <3>2 DEF Operator, CliCommands
  <2>2. \A v \in (IF slot = NoSlot THEN Versions ELSE {slot.auth}) : v \in Versions
    BY <1>0 DEF TypeOK, Manifest
  <2>3. PICK v \in Versions, step \in {"status", "acquire"} :
          ctl' = [ctl EXCEPT ![c] = [Idle EXCEPT !.pc = step, !.cmd = cmd, !.want = id, !.ver = v]]
    BY <2>1, <2>2 DEF Dispatch
  <2>4. [Idle EXCEPT !.pc = step, !.cmd = cmd, !.want = id, !.ver = v] \in Local
    <3>1. step \in Steps /\ id \in ReleaseIds \cup {0}
      BY DEF Steps, Unlocked, ReleaseIds
    <3> QED  BY <3>1 DEF Idle, Local
  <2>5. ctl' \in [Controllers -> Local]
    BY <1>0, <2>3, <2>4 DEF TypeOK
  <2>6. /\ ctl[c].pc \in Unlocked /\ ctl'[c].pc \in Unlocked /\ ctl'[c].ver \in Versions
        /\ \A d \in Controllers : d # c => ctl'[d] = ctl[d]
    BY <1>0, <2>1, <2>3 DEF TypeOK, Dispatch, Idle, Unlocked
  <2>7. HolderOwnsSlot'
    BY <1>0, <2>1, <2>6, StepKinds DEF HolderOwnsSlot, Dispatch
  <2> QED  BY <1>0, <2>1, <2>5, <2>7 DEF Dispatch, Locked, TypeOK
<1>2. ASSUME NEW c \in Controllers, Status(c) PROVE Locked'
  <2>1. ctl' \in [Controllers -> Local] /\ lock' \in Controllers \cup {NoOne} /\ HolderOwnsSlot'
    BY <1>0, <1>2, EndLocked, GoLocked DEF Status, Unlocked, TypeOK
  <2> QED  BY <1>0, <1>2, <2>1 DEF Status, Locked, TypeOK
<1>3. ASSUME NEW c \in Controllers, BeginPrepare(c) PROVE Locked'
  <2>0. UNCHANGED <<slot, target, config, jobs, issued, live, faults, tampers>>
    BY <1>3 DEF BeginPrepare
  <2>1. CASE End(c)
    BY <1>0, <2>0, <2>1, EndLocked DEF Locked, TypeOK
  <2>2. CASE Go(c, "restatus") /\ UNCHANGED lock
    <3>1. ctl' \in [Controllers -> Local] /\ HolderOwnsSlot'
      BY <1>3, <2>0, <2>2, GoLocked DEF BeginPrepare, Unlocked
    <3> QED  BY <1>0, <2>0, <2>2, <3>1 DEF Locked, TypeOK
  <2>3. ASSUME NEW build \in Builds, lock = NoOne, slot = NoSlot, issued < MaxReleases, lock' = c,
               ctl' = [ctl EXCEPT ![c].pc = "capture", ![c].man = NewManifest(c, build)]
        PROVE  Locked'
    <3>1. IsNext(CHOOSE s \in Services : IsNext(s, Services), Services)
      BY DEF IsNext
    <3>2. NewManifest(c, build) \in Manifest
      <4>1. {s \in Services : jobs[s].loaded \/ IsNext(s, Services)} \in (SUBSET Services) \ {{}}
        BY <3>1 DEF IsNext
      <4>2. issued + 1 \in ReleaseIds
        BY <1>0, <2>3 DEF TypeOK, ReleaseIds
      <4>3. ctl[c].ver \in Versions
        BY <1>0, <1>3 DEF HolderOwnsSlot, BeginPrepare
      <4> QED  BY <1>0, <4>1, <4>2, <4>3 DEF NewManifest, Manifest, TypeOK, ActiveStates
    <3> DEFINE r == [ctl[c] EXCEPT !.pc = "capture", !.man = NewManifest(c, build)]
    <3>3. ctl' = [ctl EXCEPT ![c] = r]
      BY <1>l, <2>3
    <3>4. "capture" \in Steps /\ "capture" \in Preparing
      BY StepKinds DEF Preparing
    <3>5. r \in Local /\ r.pc = "capture" /\ r.man = NewManifest(c, build) /\ r.ver = ctl[c].ver
      BY <1>l, <3>2, <3>4 DEF Local
    <3> HIDE DEF r
    <3>6. r.man # NoSlot
      BY <3>2, <3>5, SlotAssumption
    <3>7. r.ver \in Versions
      BY <1>0, <1>3, <3>5 DEF HolderOwnsSlot, BeginPrepare
    <3>8. slot' = slot /\ slot = NoSlot /\ lock = NoOne /\ lock' = c
      BY <2>0, <2>3
    <3>9. ctl' \in [Controllers -> Local] /\ lock' \in Controllers \cup {NoOne} /\ HolderOwnsSlot'
      BY <3>3, <3>4, <3>5, <3>6, <3>7, <3>8, TakesLocked
    <3> QED  BY <1>0, <2>0, <3>9 DEF Locked, TypeOK
  <2> QED  BY <1>3, <2>1, <2>2, <2>3 DEF BeginPrepare
<1>4. ASSUME NEW c \in Controllers, Capture(c) PROVE Locked'
  <2>1. ctl' \in [Controllers -> Local] /\ lock' \in Controllers \cup {NoOne} /\ HolderOwnsSlot'
    BY <1>0, <1>4, EndLocked, GoLocked DEF Capture, Preparing, TypeOK
  <2> QED  BY <1>0, <1>4, <2>1 DEF Capture, Locked, TypeOK
<1>5. ASSUME NEW c \in Controllers, PublishPrepared(c) PROVE Locked'
  <2>0. ctl[c].man \in Manifest /\ slot = NoSlot /\ lock = c
    BY <1>0, <1>5 DEF PublishPrepared, TypeOK, HolderOwnsSlot, Local, Preparing
  <2>1. ctl' \in [Controllers -> Local] /\ lock' \in Controllers \cup {NoOne} /\ HolderOwnsSlot'
    <3>1. CASE End(c)
      BY <1>5, <2>0, <3>1, EndLocked DEF PublishPrepared
    <3>2. CASE /\ lock' = NoOne
               /\ ctl' = [ctl EXCEPT ![c].pc = "acquire", ![c].man = NoSlot]
      <4> DEFINE r == [ctl[c] EXCEPT !.pc = "acquire", !.man = NoSlot]
      <4>1. ctl' = [ctl EXCEPT ![c] = r]
        BY <1>l, <3>2
      <4>2. "acquire" \in Steps /\ "acquire" \in Unlocked
        BY StepKinds DEF Unlocked
      <4>3. r \in Local /\ r.pc = "acquire" /\ r.ver = ctl[c].ver
        BY <1>l, <4>2 DEF Local
      <4> HIDE DEF r
      <4>4. lock' = NoOne
        BY <3>2
      <4> QED  BY <2>0, <4>1, <4>2, <4>3, <4>4, FreesLocked
    <3> QED  BY <1>5, <3>1, <3>2 DEF PublishPrepared
  <2>2. slot' \in Manifest \cup {NoSlot} /\ issued' \in 0 .. MaxReleases
    BY <1>0, <1>5, <2>0 DEF PublishPrepared, TypeOK, Manifest, ReleaseIds
  <2> QED  BY <1>0, <1>5, <2>1, <2>2, FaultType DEF PublishPrepared, Locked, TypeOK
<1>6. ASSUME NEW c \in Controllers, Acquire(c) PROVE Locked'
  <2>1. CASE End(c)
    BY <1>0, <1>6, <2>1, EndLocked DEF Acquire, Locked, TypeOK
  <2>2. CASE lock = NoOne /\ Admissible(c) /\ ~End(c)
    <3> DEFINE r == [ctl[c] EXCEPT !.pc = IF ctl[c].cmd \in AdminCommands THEN "admin" ELSE "observe",
                                   !.man = slot]
    <3>1. slot \in Manifest \cup {NoSlot} /\ {"admin", "observe"} \subseteq Steps /\ "observe" \in Running
      BY <1>0, StepKinds DEF TypeOK, Running, Deciding
    <3>2. /\ r \in Local /\ r.man = slot /\ r.ver = ctl[c].ver
          /\ r.pc = IF ctl[c].cmd \in AdminCommands THEN "admin" ELSE "observe"
      BY <1>l, <3>1 DEF Local
    <3>3. ctl' = [ctl EXCEPT ![c] = r] /\ lock' = c /\ slot' = slot
      BY <1>l, <1>6, <2>2 DEF Acquire
    <3> HIDE DEF r
    <3>4. \/ r.pc = "admin" /\ slot = NoSlot
          \/ r.pc \in Running /\ slot # NoSlot
      <4>1. ctl[c].cmd \in AdminCommands <=> slot = NoSlot
        BY <2>2 DEF Admissible
      <4> QED  BY <3>1, <3>2, <4>1
    <3>5. r.ver \in Versions
      BY <1>0, <1>6, <3>2 DEF HolderOwnsSlot, Acquire
    <3>6. ctl' \in [Controllers -> Local] /\ lock' \in Controllers \cup {NoOne} /\ HolderOwnsSlot'
      <4>1. lock = NoOne
        BY <2>2
      <4> QED  BY <3>2, <3>3, <3>4, <3>5, <4>1, TakesLocked
    <3> QED  BY <1>0, <1>6, <3>6 DEF Acquire, Locked, TypeOK
  <2> QED  BY <1>6, <2>1, <2>2 DEF Acquire
<1>7. ASSUME NEW c \in Controllers, FirstObservation(c) PROVE Locked'
  <2>0. ctl[c].pc \in Running
    BY <1>7 DEF FirstObservation, Running, Deciding
  <2>1. ctl' \in [Controllers -> Local] /\ lock' \in Controllers \cup {NoOne} /\ HolderOwnsSlot'
    BY <1>0, <1>7, <1>s, <2>0, ProceedLocked, DecideType, ObserveType DEF FirstObservation
  <2> QED  BY <1>0, <1>7, <2>1 DEF FirstObservation, Locked, TypeOK
<1>8. ASSUME NEW c \in Controllers, InstallCandidate(c) PROVE Locked'
  <2>0. ctl[c].pc \in Running /\ {"verify", "fail"} \subseteq Running
    BY <1>8 DEF InstallCandidate, Running, Deploying
  <2>1. ctl' \in [Controllers -> Local] /\ lock' \in Controllers \cup {NoOne} /\ HolderOwnsSlot'
    BY <1>8, <2>0, GoLocked DEF InstallCandidate
  <2>2. target' \in Runnable
    BY <1>0, <1>8, <1>s, <2>0 DEF InstallCandidate, TypeOK, Manifest, Runnable
  <2> QED  BY <1>0, <1>8, <2>1, <2>2, FaultType DEF InstallCandidate, Locked, TypeOK
<1>9. ASSUME NEW c \in Controllers, VerifyInstalled(c) PROVE Locked'
  <2>0. ctl[c].pc \in Running /\ {"restart", "fail"} \subseteq Running
    BY <1>9 DEF VerifyInstalled, Running, Deploying, Restarting
  <2>1. CASE Go(c, "fail")
    <3>1. ctl' \in [Controllers -> Local] /\ HolderOwnsSlot'
      BY <1>9, <2>0, <2>1, GoLocked DEF VerifyInstalled
    <3> QED  BY <1>0, <1>9, <3>1, FaultType DEF VerifyInstalled, Locked, TypeOK
  <2>2. CASE ctl' = [ctl EXCEPT ![c].pc = "restart", ![c].obs = Observe(ctl[c].man)] /\ NoFault
    <3> DEFINE r == [ctl[c] EXCEPT !.pc = "restart", !.obs = Observe(ctl[c].man)]
    <3>1. r \in Local /\ r.pc = "restart" /\ r.man = ctl[c].man /\ r.ver = ctl[c].ver
      <4>1. "restart" \in Steps /\ Observe(ctl[c].man) \in Observation
        BY <1>0, <2>0, StepKinds, ObserveType
      <4> QED  BY <1>l, <4>1 DEF Local
    <3>2. ctl' = [ctl EXCEPT ![c] = r]
      BY <1>l, <2>2
    <3> HIDE DEF r
    <3>3. UNCHANGED <<slot, lock>>
      BY <1>9 DEF VerifyInstalled
    <3>4. slot \in Manifest /\ ctl[c].man = slot
      BY <1>s, <2>0
    <3>5. r.pc \in Running /\ r.man = slot' /\ slot' # NoSlot
      BY <2>0, <3>1, <3>3, <3>4, SlotAssumption
    <3>6. ctl' \in [Controllers -> Local] /\ lock' \in Controllers \cup {NoOne} /\ HolderOwnsSlot'
      BY <2>0, <3>1, <3>2, <3>3, <3>5, RunningLocked
    <3> QED  BY <1>0, <1>9, <2>2, <3>6, FaultType DEF VerifyInstalled, Locked, TypeOK
  <2> QED  BY <1>9, <2>1, <2>2 DEF VerifyInstalled
<1>10. ASSUME NEW c \in Controllers, RestartService(c) PROVE Locked'
  <2>0. ctl[c].pc \in Running /\ {"wait", "fail"} \subseteq Running
    BY <1>10 DEF RestartService, Running, Deploying, Restarting
  <2>1. PICK s \in Services : \/ jobs' = Restarted(s) /\ Go(c, "wait") /\ UNCHANGED lock /\ NoFault
                              \/ jobs' \in {Muted(s), Restarted(s)} /\ Failed(c) /\ (Fault \/ NoFault)
    BY <1>0, <1>10 DEF RestartService, TypeOK, Local
  <2>2. ctl' \in [Controllers -> Local] /\ lock' \in Controllers \cup {NoOne} /\ HolderOwnsSlot'
    BY <1>10, <2>0, <2>1, GoLocked, EndLocked, <1>0 DEF RestartService, Failed, TypeOK
  <2>3. jobs' \in [Services -> Job] /\ faults' \in 0 .. MaxFaults
    <3>1. jobs' = Restarted(s) \/ jobs' = Muted(s)
      BY <2>1
    <3>2. Fault \/ NoFault
      BY <2>1
    <3> QED  BY <1>0, <3>1, <3>2, JobsType, FaultType
  <2>4. UNCHANGED <<slot, target, config, issued, live, tampers>>
    BY <1>10 DEF RestartService
  <2> QED  BY <1>0, <2>2, <2>3, <2>4 DEF Locked, TypeOK
<1>11. ASSUME NEW c \in Controllers, WaitReady(c) PROVE Locked'
  <2>0. ctl[c].pc \in Running /\ {"restart", "confirm", "confirm_rollback", "fail"} \subseteq Running
    BY <1>11 DEF WaitReady, Running, Deploying, Restarting, Recovering
  <2>1. ctl' \in [Controllers -> Local] /\ lock' \in Controllers \cup {NoOne} /\ HolderOwnsSlot'
    <3>1. CASE Failed(c)
      BY <1>0, <1>11, <2>0, <3>1, GoLocked, EndLocked DEF WaitReady, Failed, TypeOK
    <3>2. ASSUME NEW s \in Services, NEW step \in {"restart", "confirm", "confirm_rollback"},
                 ctl' = [ctl EXCEPT ![c].todo = @ \ {s}, ![c].pc = step], UNCHANGED lock
          PROVE  ctl' \in [Controllers -> Local] /\ lock' \in Controllers \cup {NoOne} /\ HolderOwnsSlot'
      <4> DEFINE r == [ctl[c] EXCEPT !.todo = ctl[c].todo \ {s}, !.pc = step]
      <4>1. r \in Local /\ r.pc = step /\ r.man = ctl[c].man /\ r.ver = ctl[c].ver
        <5>1. step \in Steps
          BY <2>0, StepKinds
        <5> QED  BY <1>l, <5>1 DEF Local
      <4>2. ctl' = [ctl EXCEPT ![c] = r]
        BY <1>l, <3>2
      <4> HIDE DEF r
      <4>3. slot' = slot /\ slot \in Manifest /\ ctl[c].man = slot
        BY <1>s, <1>11, <2>0 DEF WaitReady
      <4>4. r.pc \in Running /\ r.man = slot' /\ slot' # NoSlot
        BY <2>0, <4>1, <4>3, SlotAssumption
      <4>5. UNCHANGED lock
        BY <3>2
      <4> QED  BY <2>0, <4>1, <4>2, <4>4, <4>5, RunningLocked
    <3>3. ctl[c].todo \subseteq Services
      BY <1>0 DEF TypeOK, Local
    <3> QED  BY <1>11, <3>1, <3>2, <3>3 DEF WaitReady
  <2>2. faults' \in 0 .. MaxFaults
    BY <1>11, <1>0, FaultType DEF WaitReady, FaultUnless
  <2> QED  BY <1>0, <1>11, <2>1, <2>2 DEF WaitReady, Locked, TypeOK
<1>12. ASSUME NEW c \in Controllers, ConfirmDeployment(c) PROVE Locked'
  <2>0. ctl[c].pc \in Running /\ "fail" \in Running
    BY <1>12 DEF ConfirmDeployment, Running, Deploying
  <2>1. ctl' \in [Controllers -> Local] /\ lock' \in Controllers \cup {NoOne} /\ HolderOwnsSlot'
    BY <1>0, <1>12, <1>s, <2>0, ProceedLocked, GoLocked, DecideType, ObserveType DEF ConfirmDeployment
  <2>2. faults' \in 0 .. MaxFaults
    BY <1>12, <1>0, FaultType DEF ConfirmDeployment
  <2> QED  BY <1>0, <1>12, <2>1, <2>2 DEF ConfirmDeployment, Locked, TypeOK
<1>13. ASSUME NEW c \in Controllers, RollbackDeploymentFailure(c) PROVE Locked'
  <2>0. ctl[c].pc \in Running
    BY <1>13 DEF RollbackDeploymentFailure, Running, Deploying
  <2>1. ctl' \in [Controllers -> Local] /\ lock' \in Controllers \cup {NoOne} /\ HolderOwnsSlot'
    BY <1>0, <1>13, <1>s, <2>0, ProceedLocked, DecideType, ObserveType DEF RollbackDeploymentFailure
  <2> QED  BY <1>0, <1>13, <2>1 DEF RollbackDeploymentFailure, Locked, TypeOK
<1>14. ASSUME NEW c \in Controllers, Persist(c) PROVE Locked'
  <2> DEFINE m == [ctl[c].man EXCEPT !.state = StateOf[ctl[c].pc]]
  <2>0. ctl[c].pc \in Running /\ "confirm_accept" \in Running
    BY <1>14 DEF Persist, StateOf, Running, Deploying, Deciding
  <2>1. m \in Manifest /\ slot' = m /\ slot # NoSlot /\ lock = c
    <3>1. ctl[c].man \in Manifest
      BY <1>s, <2>0
    <3>2. StateOf[ctl[c].pc] \in ActiveStates
      BY <1>14 DEF Persist, StateOf, ActiveStates
    <3> QED  BY <1>14, <3>1, <3>2 DEF Persist, Manifest
  <2> HIDE DEF m
  <2>2. ctl' \in [Controllers -> Local] /\ lock' \in Controllers \cup {NoOne} /\ HolderOwnsSlot'
    <3>1. CASE End(c)
      BY <2>1, <3>1, EndLocked
    <3>2. CASE ctl' = [ctl EXCEPT ![c].pc = "confirm_accept", ![c].man = m] /\ UNCHANGED lock
      <4> DEFINE r == [ctl[c] EXCEPT !.pc = "confirm_accept", !.man = m]
      <4>1. r \in Local /\ r.pc = "confirm_accept" /\ r.man = m /\ r.ver = ctl[c].ver
        <5>1. "confirm_accept" \in Steps
          BY <2>0, StepKinds
        <5> QED  BY <1>l, <2>1, <5>1 DEF Local
      <4>2. ctl' = [ctl EXCEPT ![c] = r]
        BY <1>l, <3>2
      <4> HIDE DEF r
      <4>3. r.pc \in Running /\ r.man = slot' /\ slot' # NoSlot
        BY <2>0, <2>1, <4>1, SlotAssumption
      <4>4. UNCHANGED lock
        BY <3>2
      <4> QED  BY <2>0, <4>1, <4>2, <4>3, <4>4, RunningLocked
    <3>3. CASE Proceed(c, m, Decide(m, "rollback", ctl[c].obs, FALSE), ctl[c].obs)
      <4>1. ctl[c].obs \in Observation \cup {NoOne}
        BY <1>0 DEF TypeOK, Local
      <4> QED  BY <2>0, <2>1, <3>3, <4>1, ProceedLocked, DecideType
    <3> QED  BY <1>14, <3>1, <3>2, <3>3 DEF Persist, m
  <2> QED  BY <1>0, <1>14, <2>1, <2>2, FaultType DEF Persist, Locked, TypeOK
<1>15. ASSUME NEW c \in Controllers, ConfirmAccept(c) PROVE Locked'
  <2>0. ctl[c].pc \in Running
    BY <1>15 DEF ConfirmAccept, Running
  <2>1. ctl' \in [Controllers -> Local] /\ lock' \in Controllers \cup {NoOne} /\ HolderOwnsSlot'
    BY <1>0, <1>15, <1>s, <2>0, ProceedLocked, DecideType, ObserveType DEF ConfirmAccept
  <2> QED  BY <1>0, <1>15, <2>1 DEF ConfirmAccept, Locked, TypeOK
<1>16. ASSUME NEW c \in Controllers, RestorePrevious(c) PROVE Locked'
  <2>0. ctl[c].pc \in Running /\ "restart" \in Running
    BY <1>16 DEF RestorePrevious, Running, Recovering, Restarting
  <2>1. ctl' \in [Controllers -> Local] /\ lock' \in Controllers \cup {NoOne} /\ HolderOwnsSlot'
    BY <1>0, <1>16, <2>0, GoLocked, EndLocked DEF RestorePrevious, TypeOK
  <2>2. target' \in Runnable
    BY <1>0, <1>16, <1>s, <2>0 DEF RestorePrevious, TypeOK, Manifest, Runnable
  <2> QED  BY <1>0, <1>16, <2>1, <2>2, FaultType DEF RestorePrevious, Locked, TypeOK
<1>17. ASSUME NEW c \in Controllers, Bootout(c) PROVE Locked'
  <2>0. ctl[c].pc \in Running /\ {"bootout", "remove", "confirm_rollback"} \subseteq Running
    BY <1>17 DEF Bootout, Running, Recovering
  <2>1. PICK s \in Services :
          \/ /\ jobs' = [jobs EXCEPT ![s] = Unloaded] /\ NoFault /\ UNCHANGED lock
             /\ \E step \in {"bootout", "remove", "confirm_rollback"} :
                  ctl' = [ctl EXCEPT ![c].todo = @ \ {s}, ![c].pc = step]
          \/ jobs' \in {jobs, [jobs EXCEPT ![s] = Unloaded]} /\ Fault /\ End(c)
    BY <1>0, <1>17 DEF Bootout, TypeOK, Local
  <2>2. ctl' \in [Controllers -> Local] /\ lock' \in Controllers \cup {NoOne} /\ HolderOwnsSlot'
    <3>1. CASE End(c)
      BY <1>0, <1>17, <3>1, EndLocked DEF Bootout, TypeOK
    <3>2. ASSUME NEW step \in {"bootout", "remove", "confirm_rollback"},
                 ctl' = [ctl EXCEPT ![c].todo = @ \ {s}, ![c].pc = step], UNCHANGED lock
          PROVE  ctl' \in [Controllers -> Local] /\ lock' \in Controllers \cup {NoOne} /\ HolderOwnsSlot'
      <4> DEFINE r == [ctl[c] EXCEPT !.todo = ctl[c].todo \ {s}, !.pc = step]
      <4>1. r \in Local /\ r.pc = step /\ r.man = ctl[c].man /\ r.ver = ctl[c].ver
        <5>1. step \in Steps
          BY <2>0, StepKinds
        <5> QED  BY <1>l, <5>1 DEF Local
      <4>2. ctl' = [ctl EXCEPT ![c] = r]
        BY <1>l, <3>2
      <4> HIDE DEF r
      <4>3. slot' = slot /\ slot \in Manifest /\ ctl[c].man = slot
        BY <1>s, <1>17, <2>0 DEF Bootout
      <4>4. r.pc \in Running /\ r.man = slot' /\ slot' # NoSlot
        BY <2>0, <4>1, <4>3, SlotAssumption
      <4>5. UNCHANGED lock
        BY <3>2
      <4> QED  BY <2>0, <4>1, <4>2, <4>4, <4>5, RunningLocked
    <3> QED  BY <2>1, <3>1, <3>2
  <2>3. jobs' \in [Services -> Job] /\ faults' \in 0 .. MaxFaults
    <3>1. jobs' = jobs \/ jobs' = [jobs EXCEPT ![s] = Unloaded]
      BY <2>1
    <3>2. Fault \/ NoFault
      BY <2>1
    <3>3. jobs \in [Services -> Job]
      BY <1>0 DEF TypeOK
    <3> QED  BY <1>0, <3>1, <3>2, <3>3, JobsType, FaultType
  <2>4. UNCHANGED <<slot, target, config, issued, live, tampers>>
    BY <1>17 DEF Bootout
  <2> QED  BY <1>0, <2>2, <2>3, <2>4 DEF Locked, TypeOK
<1>18. ASSUME NEW c \in Controllers, RemoveTarget(c) PROVE Locked'
  <2>0. ctl[c].pc \in Running /\ "confirm_rollback" \in Running
    BY <1>18 DEF RemoveTarget, Running, Recovering
  <2>1. ctl' \in [Controllers -> Local] /\ lock' \in Controllers \cup {NoOne} /\ HolderOwnsSlot'
    BY <1>0, <1>18, <2>0, GoLocked, EndLocked DEF RemoveTarget, TypeOK
  <2>2. target' \in Runnable
    BY <1>0, <1>18 DEF RemoveTarget, TypeOK, Runnable
  <2> QED  BY <1>0, <1>18, <2>1, <2>2, FaultType DEF RemoveTarget, Locked, TypeOK
<1>19. ASSUME NEW c \in Controllers, ConfirmRollback(c) PROVE Locked'
  <2>0. ctl[c].pc \in Running
    BY <1>19 DEF ConfirmRollback, Running, Recovering
  <2>1. ctl' \in [Controllers -> Local] /\ lock' \in Controllers \cup {NoOne} /\ HolderOwnsSlot'
    BY <1>0, <1>19, <1>s, <2>0, ProceedLocked, EndLocked, DecideType, ObserveType DEF ConfirmRollback, TypeOK
  <2> QED  BY <1>0, <1>19, <2>1 DEF ConfirmRollback, Locked, TypeOK
<1>20. ASSUME NEW c \in Controllers, Clear(c) PROVE Locked'
  <2>0. ctl[c].pc \in Running
    BY <1>20 DEF Clear, Running
  <2>1. ctl' \in [Controllers -> Local] /\ lock' \in Controllers \cup {NoOne} /\ HolderOwnsSlot'
    BY <1>20, EndLocked DEF Clear
  <2>2. live' \in Runnable
    BY <1>20, <1>s, <2>0 DEF Clear, Manifest, Runnable
  <2> QED  BY <1>0, <1>20, <2>1, <2>2 DEF Clear, Locked, TypeOK
<1>21. ASSUME NEW c \in Controllers, AdminRestart(c) \/ AdminInstall(c) \/ AdminUninstall(c)
       PROVE  Locked'
  <2>1. ctl' \in [Controllers -> Local] /\ lock' \in Controllers \cup {NoOne} /\ HolderOwnsSlot'
    BY <1>0, <1>21, EndLocked DEF AdminRestart, AdminInstall, AdminUninstall, TypeOK
  <2>2. jobs' \in [Services -> Job] /\ config' \in Configs
    BY <1>0, <1>21, JobsType DEF AdminRestart, AdminInstall, AdminUninstall, TypeOK
  <2>3. faults' \in 0 .. MaxFaults
    BY <1>0, <1>21, FaultType DEF AdminRestart, AdminInstall, AdminUninstall, FaultUnless
  <2> QED  BY <1>0, <1>21, <2>1, <2>2, <2>3
           DEF AdminRestart, AdminInstall, AdminUninstall, Locked, TypeOK
<1>22. ASSUME NEW c \in Controllers, Crash(c) PROVE Locked'
  <2>1. ctl' \in [Controllers -> Local] /\ lock' \in Controllers \cup {NoOne} /\ HolderOwnsSlot'
    BY <1>0, <1>22, EndLocked DEF Crash, TypeOK
  <2> QED  BY <1>0, <1>22, <2>1, FaultType DEF Crash, Locked, TypeOK
<1>23. ASSUME NEW s \in Services, Launchd(s) \/ Die(s) PROVE Locked'
  <2>1. jobs' \in [Services -> Job]
    <3>1. CASE Respawn(s)
      BY <1>0, <3>1 DEF Respawn, TypeOK, Job, Runnable
    <3>2. CASE Serve(s)
      BY <1>0, <3>2 DEF Serve, TypeOK, Job
    <3>3. CASE Die(s)
      BY <1>0, <3>3, JobsType DEF Die
    <3> QED  BY <1>23, <3>1, <3>2, <3>3 DEF Launchd
  <2>2. UNCHANGED <<slot, lock, target, config, ctl, issued, live, tampers>> /\ faults' \in 0 .. MaxFaults
    BY <1>0, <1>23, FaultType DEF Launchd, Respawn, Serve, Die, TypeOK
  <2> QED  BY <1>0, <2>1, <2>2 DEF Locked, TypeOK, HolderOwnsSlot
<1>24. CASE Tamper
  BY <1>0, <1>24 DEF Tamper, Locked, TypeOK, HolderOwnsSlot
<1>25. CASE UNCHANGED vars
  BY <1>0, <1>25 DEF vars, Locked, TypeOK, HolderOwnsSlot
<1> QED
  BY <1>1, <1>2, <1>3, <1>4, <1>5, <1>6, <1>7, <1>8, <1>9, <1>10, <1>11, <1>12, <1>13, <1>14,
     <1>15, <1>16, <1>17, <1>18, <1>19, <1>20, <1>21, <1>22, <1>23, <1>24, <1>25
  DEF Next, Session

(* The lock discipline, for any number of controllers: the advisory lock    *)
(* serialises every command, and its holder's copy of the manifest is the   *)
(* one on disk.                                                             *)
THEOREM TypeCorrect == Spec => []TypeOK
<1>1. Spec => []Locked
  BY LockedInit, LockedStep, PTL DEF Spec
<1> QED  BY <1>1, PTL DEF Locked

(* The same induction gives the holder's exclusive hold on the slot.        *)
THEOREM LockDiscipline == Spec => []HolderOwnsSlot
<1>1. Spec => []Locked
  BY LockedInit, LockedStep, PTL DEF Spec
<1> QED  BY <1>1, PTL DEF Locked

-----------------------------------------------------------------------------
(* What each decision says about the manifest, the request and the           *)
(* observation it was made from.                                            *)
LEMMA DecideFacts ==
  ASSUME NEW m \in Manifest, NEW event, NEW o, NEW r
  PROVE  LET d == Decide(m, event, o, r) IN
         /\ d # "reject" => o.cfg = m.cfg /\ o.target \in {m.cand, m.prev}
         /\ d = "resume_deployment" => m.state = "prepared" /\ event = "resume"
         /\ d = "persist_pending" => /\ m.state = "prepared" /\ event = "deployment_ready"
                                     /\ o.target = m.cand /\ o.ready
         /\ d = "persist_accepting" => /\ m.state = "pending" /\ event = "accept"
                                       /\ AcceptanceReady(m, o)
         /\ d = "persist_rolling_back" => m.state \in {"prepared", "pending"} /\ event = "rollback"
         /\ d = "resume_rollback" => m.state = "rolling_back"
         /\ d = "clear" => \/ m.state = "accepting" /\ AcceptanceReady(m, o)
                           \/ m.state = "rolling_back" /\ RecoveryConfirmed(m, o, r)
<1> USE DEF Decide, EventAllowed, DecidePrepared, DecidePending, DecideAccepting,
            DecideRollingBack, Manifest, ActiveStates, TargetAllowed
<1>1. CASE m.state = "prepared"
  BY <1>1
<1>2. CASE m.state = "pending"
  BY <1>2 DEF AcceptanceReady
<1>3. CASE m.state = "accepting"
  BY <1>3 DEF AcceptanceReady
<1>4. CASE m.state = "rolling_back"
  BY <1>4
<1> QED  BY <1>1, <1>2, <1>3, <1>4

(* Before every service was restarted and found ready in this session, no   *)
(* decision confirms an update's rollback.                                  *)
LEMMA DecideUnready ==
  ASSUME NEW m \in Manifest, NEW event, NEW o, NEW d, d = Decide(m, event, o, FALSE)
  PROVE  /\ d = "persist_pending" => event = "deployment_ready" /\ o.target = m.cand /\ o.ready
         /\ d = "clear" => m.state # "rolling_back" \/ m.prev = Absent
<1> USE DEF Decide, EventAllowed, DecidePrepared, DecidePending, DecideAccepting,
            DecideRollingBack, Manifest, ActiveStates, RecoveryConfirmed
<1>1. CASE m.state = "prepared"
  BY <1>1
<1>2. CASE m.state = "pending"
  BY <1>2
<1>3. CASE m.state = "accepting"
  BY <1>3
<1>4. CASE m.state = "rolling_back"
  BY <1>4
<1> QED  BY <1>1, <1>2, <1>3, <1>4

(* Only the holder of the lock has to be looked at after a step. *)
LEMMA SessionFrame ==
  ASSUME Locked', \A d \in Controllers : lock' = d => SessionFits(d)'
  PROVE  SessionInv'
<1> SUFFICES ASSUME NEW d \in Controllers, lock' # d PROVE SessionFits(d)'
  BY DEF SessionInv
<1>1. ctl'[d].pc \in Unlocked
  BY DEF Locked, HolderOwnsSlot
<1> QED  BY <1>1, StepKinds DEF SessionFits

(* Going on with a decision establishes what the next step relies on. *)
LEMMA ProceedFits ==
  ASSUME Locked, NEW c \in Controllers, NEW m \in Manifest, NEW event, NEW o, NEW r,
         NEW d, d = Decide(m, event, o, r), d # "reject", Proceed(c, m, d, o),
         UNCHANGED <<target, config, jobs, issued>>,
         RequestFits(c, m),
         event = "accept" <=> ctl[c].cmd = "accept",
         event \in {"resume", "deployment_ready"} => ctl[c].cmd = "release",
         o.target = target, o.cfg = config,
         o.unloaded => \A s \in m.svcs : ~jobs[s].loaded,
         d = "persist_pending" => m.cand \notin Broken /\ \A s \in m.svcs : Fresh(s),
         d = "clear" /\ m.state = "rolling_back" /\ m.prev # Absent =>
           \A s \in m.svcs : jobs[s].loaded /\ jobs[s].proc \in {m.prev, NoOne}
  PROVE  SessionFits(c)'
<1>1. d \in Commands
  BY DecideType
<1>2. /\ ctl'[c].pc = StepFor(m, d, o) /\ ctl'[c].man = m /\ ctl'[c].todo = m.svcs /\ ctl'[c].obs = o
      /\ ctl'[c].cmd = ctl[c].cmd /\ ctl'[c].ver = ctl[c].ver /\ ctl'[c].want = ctl[c].want
  BY DEF Proceed, Locked, TypeOK, Local
<1> DEFINE step == StepFor(m, d, o)
<1>3. step \in Running
  BY <1>1, StepForType
<1>4. RequestFits(c, ctl[c].man)'
  BY <1>2 DEF RequestFits
<1>5. /\ m.state = "prepared" => ctl[c].cmd \in {"release", "rollback"}
      /\ config = m.cfg /\ target \in {m.cand, m.prev}
  BY DecideFacts DEF RequestFits
<1>6. Handled(c)' = {} \/ step = "wait"
  BY <1>2 DEF Handled
<1>6a. /\ d = "resume_deployment" => m.state = "prepared" /\ event = "resume"
       /\ d = "persist_pending" => m.state = "prepared" /\ event = "deployment_ready" /\ o.target = m.cand
       /\ d = "persist_accepting" => m.state = "pending" /\ event = "accept" /\ AcceptanceReady(m, o)
       /\ d = "persist_rolling_back" => m.state \in {"prepared", "pending"} /\ event = "rollback"
       /\ d = "resume_rollback" => m.state = "rolling_back"
       /\ d = "clear" => \/ m.state = "accepting" /\ AcceptanceReady(m, o)
                         \/ m.state = "rolling_back" /\ RecoveryConfirmed(m, o, r)
  BY DecideFacts
<1> DEFINE state == ctl'[c].man.state
           pc    == ctl'[c].pc
<1>7. StepFits(c)' /\ HostFits(c)'
  <2> USE <1>2, <1>5 DEF StepFits, HostFits, Deploying, Restarting, Recovering
  <2>1. CASE d = "resume_deployment"
    <3>1. step = IF target = m.cand THEN "restart" ELSE "install"
      BY <2>1 DEF StepFor
    <3>2. m.state = "prepared" /\ ctl[c].cmd = "release"
      BY <1>6a, <2>1
    <3>3. Handled(c)' = {}
      BY <1>6, <3>1
    <3>4. StepFits(c)'
      BY <3>1, <3>2
    <3>5. HostFits(c)'
      BY <3>1, <3>2, <3>3
    <3> QED  BY <3>4, <3>5
  <2>2. CASE d = "persist_pending"
    <3>1. step = "persist_pending"
      BY <2>2 DEF StepFor
    <3>2. m.state = "prepared" /\ target = m.cand /\ ctl[c].cmd = "release"
      BY <1>6a, <2>2
    <3>3. StepFits(c)'
      BY <3>1, <3>2
    <3>4. \A s \in m.svcs : Fresh(s)'
      BY <2>2 DEF Fresh
    <3>5. HostFits(c)'
      BY <2>2, <3>1, <3>2, <3>4
    <3> QED  BY <3>3, <3>5
  <2>3. CASE d = "persist_accepting"
    <3>1. step = "persist_accepting"
      BY <2>3 DEF StepFor
    <3>2. m.state = "pending" /\ target = m.cand /\ ctl[c].cmd = "accept"
      BY <1>6a, <2>3 DEF AcceptanceReady
    <3>3. StepFits(c)'
      BY <3>1, <3>2
    <3>4. HostFits(c)'
      BY <3>1, <3>2
    <3> QED  BY <3>3, <3>4
  <2>4. CASE d = "persist_rolling_back"
    <3>1. step = "persist_rolling_back"
      BY <2>4 DEF StepFor
    <3>2. m.state \in {"prepared", "pending"} /\ ctl[c].cmd # "accept"
      BY <1>6a, <2>4
    <3>3. StepFits(c)'
      BY <3>1, <3>2
    <3>4. HostFits(c)'
      BY <3>1, <3>2
    <3> QED  BY <3>3, <3>4
  <2>5. CASE d = "resume_rollback"
    <3>1. step = IF m.prev = Absent THEN "bootout" ELSE IF target = m.prev THEN "restart" ELSE "restore"
      BY <2>5 DEF StepFor
    <3>2. m.state = "rolling_back"
      BY <1>6a, <2>5
    <3>3. Handled(c)' = {} /\ m.svcs \ ctl'[c].todo = {}
      BY <1>6, <3>1
    <3>4. StepFits(c)'
      BY <3>1, <3>2
    <3>5. HostFits(c)'
      BY <3>1, <3>2, <3>3
    <3> QED  BY <3>4, <3>5
  <2>6. CASE d = "clear"
    <3>1. step = "clear"
      BY <2>6 DEF StepFor
    <3>2. CASE m.state = "accepting"
      <4>1. target = m.cand
        BY <1>6a, <2>6, <3>2 DEF AcceptanceReady
      <4>2. StepFits(c)'
        BY <3>1, <3>2
      <4>3. HostFits(c)'
        BY <3>1, <3>2, <4>1
      <4> QED  BY <4>2, <4>3
    <3>3. CASE m.state = "rolling_back"
      <4>1. target = m.prev /\ (m.prev = Absent => o.unloaded)
        BY <1>6a, <2>6, <3>3 DEF RecoveryConfirmed
      <4>2. StepFits(c)'
        BY <3>1, <3>3
      <4>3. \A s \in m.svcs : IF m.prev = Absent THEN ~jobs[s].loaded
                               ELSE jobs[s].loaded /\ jobs[s].proc \in {m.prev, NoOne}
        BY <2>6, <3>3, <4>1
      <4>4. HostFits(c)'
        BY <3>1, <3>3, <4>1, <4>3
      <4> QED  BY <4>2, <4>4
    <3> QED  BY <1>6a, <2>6, <3>2, <3>3
  <2> QED  BY <1>1, <2>1, <2>2, <2>3, <2>4, <2>5, <2>6 DEF Commands
<1>8. step \notin Preparing
  BY <1>3, StepKinds
<1> QED  BY <1>2, <1>4, <1>7, <1>8 DEF SessionFits

(* A controller that did not move relies on nothing that moved. *)
LEMMA SessionKept ==
  ASSUME SessionInv, NEW d \in Controllers, ctl'[d] = ctl[d],
         UNCHANGED <<target, config, jobs, issued>>
  PROVE  SessionFits(d)'
BY DEF SessionInv, SessionFits, StepFits, RequestFits, HostFits, Handled, Fresh

(* No session is left behind by a command that ended. *)
LEMMA SessionEnded ==
  ASSUME IInv, NEW c \in Controllers, End(c), NEW d \in Controllers, lock' = d,
         lock = c \/ UNCHANGED <<target, config, jobs, issued>>
  PROVE  SessionFits(d)'
<1>1. lock = d /\ d # c
  BY DEF End
<1>2. ctl'[d] = ctl[d]
  BY <1>1 DEF IInv, Locked, TypeOK, End
<1> QED  BY <1>1, <1>2, SessionKept DEF IInv

(* Moving the program counter moves nothing else of the local state. *)
LEMMA GoEffect ==
  ASSUME TypeOK, NEW c \in Controllers, NEW step, Go(c, step)
  PROVE  /\ ctl'[c].pc = step /\ ctl'[c].man = ctl[c].man /\ ctl'[c].todo = ctl[c].todo
         /\ ctl'[c].cmd = ctl[c].cmd /\ ctl'[c].ver = ctl[c].ver /\ ctl'[c].want = ctl[c].want
         /\ ctl'[c].obs = ctl[c].obs
BY DEF TypeOK, Go, Local

(* What launchd and a dying service do to a job: it stays loaded or         *)
(* unloaded, and a new process runs the installed executable.               *)
JobEffect(t) == /\ jobs'[t].loaded = jobs[t].loaded
                /\ jobs'[t].proc \in {jobs[t].proc, target, NoOne}
                /\ jobs'[t] \in Job

LEMMA LaunchdEffect ==
  ASSUME TypeOK, NEW s \in Services, Launchd(s) \/ Die(s), NEW t \in Services
  PROVE  JobEffect(t)
<1>1. CASE Respawn(s)
  BY <1>1 DEF Respawn, TypeOK, Job, Runnable, JobEffect
<1>2. CASE Serve(s)
  BY <1>2 DEF Serve, TypeOK, Job, JobEffect
<1>3. CASE Die(s)
  BY <1>3 DEF Die, TypeOK, Job, Restarted, Waiting, JobEffect
<1> QED  BY <1>1, <1>2, <1>3 DEF Launchd

(* What a session relies on is established by every step. *)
LEMMA SessionStep == IInv /\ [Next]_vars => SessionInv'
<1> SUFFICES ASSUME IInv, [Next]_vars, NEW d \in Controllers, lock' = d
             PROVE  SessionFits(d)'
  BY LockedStep, SessionFrame DEF IInv
<1> USE DEF Holding, host
<1>0. Locked /\ TypeOK /\ HolderOwnsSlot /\ SessionInv /\ Locked'
  BY LockedStep DEF IInv, Locked
<1>s. \A c \in Controllers : ctl[c].pc \in Running => /\ slot \in Manifest /\ ctl[c].man = slot
                                                      /\ StepFits(c) /\ RequestFits(c, slot)
                                                      /\ ctl[c].pc # "observe" => HostFits(c)
  BY <1>0 DEF TypeOK, HolderOwnsSlot, SessionInv, SessionFits
<1>1. ASSUME NEW c \in Controllers, Operator(c) PROVE SessionFits(d)'
  <2>1. PICK cmd, id : Dispatch(c, cmd, id)
    BY <1>1 DEF Operator
  <2>2. lock = d /\ ctl[c].pc \in Unlocked
    BY <2>1, StepKinds DEF Dispatch
  <2>3. d # c
    BY <1>0, <2>2 DEF HolderOwnsSlot
  <2>4. ctl'[d] = ctl[d]
    BY <1>0, <2>1, <2>3 DEF Dispatch, TypeOK
  <2> QED  BY <1>0, <2>1, <2>4, SessionKept DEF Dispatch
<1>2. ASSUME NEW c \in Controllers, Status(c) PROVE SessionFits(d)'
  <2>1. lock = NoOne => End(c) \/ UNCHANGED lock
    BY <1>2 DEF Status
  <2>2. lock = d /\ End(c)
    BY <1>2, <2>1 DEF Status, End
  <2> QED  BY <1>2, <2>2, SessionEnded DEF Status
<1>3. ASSUME NEW c \in Controllers, BeginPrepare(c) PROVE SessionFits(d)'
  <2>1. CASE End(c)
    BY <1>3, <2>1, SessionEnded DEF BeginPrepare
  <2>2. CASE lock = NoOne /\ UNCHANGED lock
    BY <2>2
  <2>3. ASSUME NEW build \in Builds, lock' = c,
               ctl' = [ctl EXCEPT ![c].pc = "capture", ![c].man = NewManifest(c, build)]
        PROVE  SessionFits(d)'
    <3>1. d = c /\ ctl'[c].pc = "capture" /\ ctl'[c].man = NewManifest(c, build) /\ issued' = issued
      <4>1. ctl[c] \in Local /\ ctl'[c] = [ctl[c] EXCEPT !.pc = "capture", !.man = NewManifest(c, build)]
        BY <1>0, <2>3 DEF TypeOK
      <4> QED  BY <1>3, <2>3, <4>1 DEF Local, BeginPrepare
    <3>2. ctl'[c].pc \notin Running
      BY <3>1, StepKinds DEF Preparing
    <3> QED  BY <3>1, <3>2 DEF SessionFits, NewManifest
  <2> QED  BY <1>3, <2>1, <2>2, <2>3 DEF BeginPrepare
<1>4. ASSUME NEW c \in Controllers, Capture(c) PROVE SessionFits(d)'
  <2>1. CASE End(c)
    BY <1>4, <2>1, SessionEnded DEF Capture
  <2>2. CASE Go(c, "publish") /\ UNCHANGED lock
    <3>1. d = c /\ ctl'[c].pc = "publish" /\ ctl'[c].man = ctl[c].man /\ issued' = issued
      BY <1>0, <1>4, <2>2 DEF Capture, Go, TypeOK, Local
    <3>2. ctl'[c].pc \notin Running /\ ctl[c].pc \in Preparing
      BY <1>4, <3>1, StepKinds DEF Preparing, Capture
    <3> QED  BY <1>0, <3>1, <3>2 DEF SessionFits, SessionInv
  <2> QED  BY <1>4, <2>1, <2>2 DEF Capture
<1>5. ASSUME NEW c \in Controllers, PublishPrepared(c) PROVE SessionFits(d)'
  <2>1. lock' # NoOne => End(c)
    BY <1>5 DEF PublishPrepared
  <2>2. End(c)
    BY <2>1
  <2> QED  BY <1>5, <2>2, SessionEnded DEF PublishPrepared
<1>6. ASSUME NEW c \in Controllers, Acquire(c) PROVE SessionFits(d)'
  <2>1. CASE End(c)
    BY <1>6, <2>1, SessionEnded DEF Acquire
  <2>2. CASE /\ lock = NoOne /\ Admissible(c) /\ lock' = c
             /\ ctl' = [ctl EXCEPT ![c].pc = IF ctl[c].cmd \in AdminCommands THEN "admin" ELSE "observe",
                                   ![c].man = slot]
    <3>1. /\ d = c
          /\ ctl'[c] = [ctl[c] EXCEPT !.pc = IF ctl[c].cmd \in AdminCommands THEN "admin" ELSE "observe",
                                      !.man = slot]
      BY <1>0, <2>2 DEF TypeOK
    <3>2. ctl[c] \in Local
      BY <1>0 DEF TypeOK
    <3>3. CASE ctl[c].cmd \in AdminCommands
      <4>1. ctl'[c].pc = "admin"
        BY <3>1, <3>2, <3>3 DEF Local
      <4> QED  BY <3>1, <4>1, StepKinds DEF SessionFits
    <3>4. CASE ctl[c].cmd \notin AdminCommands
      <4>1. /\ ctl'[c].pc = "observe" /\ ctl'[c].man = slot /\ ctl'[c].cmd = ctl[c].cmd
            /\ ctl'[c].ver = ctl[c].ver /\ ctl'[c].want = ctl[c].want
        BY <3>1, <3>2, <3>4 DEF Local
      <4>2. slot \in Manifest
        BY <1>0, <2>2, <3>4 DEF TypeOK, Admissible
      <4>3. ctl[c].cmd \in {"release", "accept", "rollback", "none"}
        BY <3>2, <3>4 DEF Local, CliCommands
      <4>4. RequestFits(c, slot)
        BY <2>2, <3>4, <4>2, <4>3 DEF RequestFits, Admissible, EventAllowed, Event, Manifest, ActiveStates
      <4>5. RequestFits(c, ctl[c].man)'
        BY <4>1, <4>4 DEF RequestFits
      <4>6. StepFits(c)' /\ ctl'[c].pc \notin Preparing
        BY <4>1, StepKinds DEF StepFits, Deploying, Restarting, Recovering, Preparing
      <4> QED  BY <3>1, <4>1, <4>5, <4>6 DEF SessionFits
    <3> QED  BY <3>3, <3>4
  <2> QED  BY <1>6, <2>1, <2>2 DEF Acquire
<1>7. ASSUME NEW c \in Controllers, FirstObservation(c) PROVE SessionFits(d)'
  <2>0. ctl[c].pc \in Running /\ lock = c
    BY <1>7 DEF FirstObservation, Running, Deciding
  <2> DEFINE m == ctl[c].man
             o == Observe(m)
             e == Decide(m, Event(c), o, FALSE)
  <2>1. CASE e = "reject"
    BY <1>7, <2>0, <2>1, SessionEnded DEF FirstObservation, Proceed
  <2>2. CASE e # "reject"
    <3>1. d = c /\ m \in Manifest /\ RequestFits(c, m) /\ Proceed(c, m, e, o)
      BY <1>7, <1>s, <2>0, <2>2 DEF FirstObservation, Proceed
    <3>2. /\ Event(c) = "accept" <=> ctl[c].cmd = "accept"
          /\ Event(c) \in {"resume", "deployment_ready"} => ctl[c].cmd = "release"
      BY <3>1 DEF Event, RequestFits
    <3>3. /\ o.target = target /\ o.cfg = config
          /\ o.unloaded => \A s \in m.svcs : ~jobs[s].loaded
      BY DEF Observe
    <3>4. e = Decide(m, Event(c), o, FALSE)
      OBVIOUS
    <3> HIDE DEF m, o, e
    <3>5. /\ e = "persist_pending" => Event(c) = "deployment_ready"
          /\ e = "clear" => m.state # "rolling_back" \/ m.prev = Absent
      BY <3>1, <3>4, DecideUnready
    <3>6. /\ e # "persist_pending"
          /\ ~(e = "clear" /\ m.state = "rolling_back" /\ m.prev # Absent)
      BY <3>2, <3>5 DEF Event
    <3>7. UNCHANGED <<target, config, jobs, issued>>
      BY <1>7 DEF FirstObservation
    <3> QED  BY <1>0, <2>2, <3>1, <3>2, <3>3, <3>4, <3>5, <3>6, <3>7, ProceedFits
  <2> QED  BY <2>1, <2>2
<1>8. ASSUME NEW c \in Controllers, InstallCandidate(c) PROVE SessionFits(d)'
  <2>0. ctl[c].pc \in Running /\ d = c /\ ctl[c].pc = "install"
    BY <1>8 DEF InstallCandidate, Running, Deploying
  <2>1. /\ slot \in Manifest /\ ctl[c].man = slot /\ StepFits(c) /\ RequestFits(c, slot) /\ HostFits(c)
    BY <1>s, <2>0
  <2>2. PICK step \in {"verify", "fail"} :
          /\ Go(c, step) /\ target' \in {target, slot.cand} /\ (step = "verify" => target' = slot.cand)
    BY <1>8, <2>1 DEF InstallCandidate
  <2>3. /\ ctl'[c].pc = step /\ ctl'[c].man = slot /\ ctl'[c].todo = ctl[c].todo
        /\ ctl'[c].cmd = ctl[c].cmd /\ ctl'[c].ver = ctl[c].ver /\ ctl'[c].want = ctl[c].want
    BY <1>0, <2>1, <2>2, GoEffect
  <2>4. StepFits(c)' /\ RequestFits(c, ctl[c].man)'
    BY <2>0, <2>1, <2>3 DEF StepFits, RequestFits, Deploying, Restarting, Recovering
  <2>5. HostFits(c)'
    BY <1>8, <2>0, <2>1, <2>2, <2>3 DEF HostFits, Restarting, InstallCandidate
  <2> QED  BY <2>0, <2>3, <2>4, <2>5 DEF SessionFits, Preparing
<1>9. ASSUME NEW c \in Controllers, VerifyInstalled(c) PROVE SessionFits(d)'
  <2>0. ctl[c].pc \in Running /\ d = c /\ ctl[c].pc = "verify" /\ UNCHANGED <<target, config, jobs>>
    BY <1>9 DEF VerifyInstalled, Running, Deploying
  <2>1. /\ slot \in Manifest /\ ctl[c].man = slot /\ StepFits(c) /\ RequestFits(c, slot) /\ HostFits(c)
    BY <1>s, <2>0
  <2>2. PICK step \in {"restart", "fail"} :
          /\ ctl'[c].pc = step /\ ctl'[c].man = slot /\ ctl'[c].todo = ctl[c].todo
          /\ ctl'[c].cmd = ctl[c].cmd /\ ctl'[c].ver = ctl[c].ver /\ ctl'[c].want = ctl[c].want
          /\ step = "restart" => target = slot.cand
    <3>1. CASE Go(c, "fail")
      BY <1>0, <2>1, <3>1, GoEffect
    <3>2. CASE /\ target = ctl[c].man.cand
               /\ ctl' = [ctl EXCEPT ![c].pc = "restart", ![c].obs = Observe(ctl[c].man)]
      BY <1>0, <2>1, <3>2 DEF TypeOK, Local
    <3> QED  BY <1>9, <3>1, <3>2 DEF VerifyInstalled
  <2>3. StepFits(c)' /\ RequestFits(c, ctl[c].man)'
    BY <2>0, <2>1, <2>2 DEF StepFits, RequestFits, Deploying, Restarting, Recovering
  <2>4. slot.state = "prepared" /\ slot.svcs \subseteq ctl[c].todo
    BY <2>0, <2>1 DEF StepFits, HostFits, Deploying
  <2>5. step = "restart" => Handled(c)' = {}
    BY <2>2, <2>4 DEF Handled
  <2>6. HostFits(c)'
    BY <2>0, <2>1, <2>2, <2>4, <2>5 DEF HostFits, Restarting
  <2> QED  BY <2>0, <2>2, <2>3, <2>6 DEF SessionFits, Preparing
<1>10. ASSUME NEW c \in Controllers, RestartService(c) PROVE SessionFits(d)'
  <2>0. ctl[c].pc \in Running /\ lock = c /\ ctl[c].pc = "restart" /\ UNCHANGED <<target, config, issued>>
    BY <1>10 DEF RestartService, Running, Restarting
  <2>1. /\ slot \in Manifest /\ ctl[c].man = slot /\ StepFits(c) /\ RequestFits(c, slot) /\ HostFits(c)
    BY <1>s, <2>0
  <2>2. CASE End(c)
    BY <2>0, <2>2, SessionEnded
  <2>3. CASE Go(c, "fail") /\ slot.state = "prepared" /\ UNCHANGED lock
    <3>1. /\ ctl'[c].pc = "fail" /\ ctl'[c].man = slot /\ d = c
          /\ ctl'[c].cmd = ctl[c].cmd /\ ctl'[c].ver = ctl[c].ver /\ ctl'[c].want = ctl[c].want
      BY <1>0, <2>0, <2>1, <2>3, GoEffect
    <3>2. StepFits(c)' /\ RequestFits(c, ctl[c].man)'
      BY <2>0, <2>1, <2>3, <3>1 DEF StepFits, RequestFits, Deploying, Restarting, Recovering
    <3>3. HostFits(c)'
      BY <2>0, <2>1, <3>1 DEF HostFits, Restarting
    <3> QED  BY <3>1, <3>2, <3>3 DEF SessionFits, Preparing
  <2>4. ASSUME NEW s \in ctl[c].todo, IsNext(s, ctl[c].todo), jobs' = Restarted(s), Go(c, "wait"), UNCHANGED lock
        PROVE  SessionFits(d)'
    <3>1. /\ ctl'[c].pc = "wait" /\ ctl'[c].man = slot /\ ctl'[c].todo = ctl[c].todo /\ d = c
          /\ ctl'[c].cmd = ctl[c].cmd /\ ctl'[c].ver = ctl[c].ver /\ ctl'[c].want = ctl[c].want
      BY <1>0, <2>0, <2>1, <2>4, GoEffect
    <3>2. StepFits(c)' /\ RequestFits(c, ctl[c].man)'
      BY <2>0, <2>1, <3>1 DEF StepFits, RequestFits, Deploying, Restarting, Recovering
    <3>3. ctl[c].todo \in SUBSET Services /\ s \in Services
      BY <1>0, <2>4 DEF TypeOK, Local
    <3>4. ASSUME NEW t \in Handled(c)' PROVE Fresh(t)'
      <4>1. t \notin ctl[c].todo \/ t = s
        BY <2>4, <3>1, <3>3, NextIsUnique DEF Handled
      <4>2. CASE t = s
        BY <1>0, <2>4, <3>3, <4>2 DEF TypeOK, Fresh, Restarted, Waiting
      <4>3. CASE t \notin ctl[c].todo
        <5>1. t \in Services /\ t # s /\ jobs'[t] = jobs[t]
          BY <1>0, <2>1, <2>4, <3>1, <4>3 DEF TypeOK, Restarted, Handled, Manifest
        <5>2. Fresh(t)
          BY <2>0, <2>1, <3>1, <4>3 DEF HostFits, Handled, Restarting
        <5> QED  BY <2>0, <5>1, <5>2 DEF Fresh
      <4> QED  BY <4>1, <4>2, <4>3
    <3>5. HostFits(c)'
      BY <2>0, <2>1, <3>1, <3>4 DEF HostFits, Restarting
    <3> QED  BY <3>1, <3>2, <3>5 DEF SessionFits, Preparing
  <2> QED  BY <1>10, <2>0, <2>1, <2>2, <2>3, <2>4 DEF RestartService, Failed
<1>11. ASSUME NEW c \in Controllers, WaitReady(c) PROVE SessionFits(d)'
  <2>0. ctl[c].pc \in Running /\ lock = c /\ ctl[c].pc = "wait" /\ UNCHANGED <<target, config, jobs, issued>>
    BY <1>11 DEF WaitReady, Running, Restarting
  <2>1. /\ slot \in Manifest /\ ctl[c].man = slot /\ StepFits(c) /\ RequestFits(c, slot) /\ HostFits(c)
    BY <1>s, <2>0
  <2>2. CASE End(c)
    BY <2>0, <2>2, SessionEnded
  <2>3. CASE Go(c, "fail") /\ slot.state = "prepared" /\ UNCHANGED lock
    <3>1. /\ ctl'[c].pc = "fail" /\ ctl'[c].man = slot /\ d = c
          /\ ctl'[c].cmd = ctl[c].cmd /\ ctl'[c].ver = ctl[c].ver /\ ctl'[c].want = ctl[c].want
      BY <1>0, <2>0, <2>1, <2>3, GoEffect
    <3>2. StepFits(c)' /\ RequestFits(c, ctl[c].man)'
      BY <2>0, <2>1, <2>3, <3>1 DEF StepFits, RequestFits, Deploying, Restarting, Recovering
    <3>3. HostFits(c)'
      BY <2>0, <2>1, <3>1 DEF HostFits, Restarting
    <3> QED  BY <3>1, <3>2, <3>3 DEF SessionFits, Preparing
  <2>4. ASSUME NEW s \in ctl[c].todo, IsNext(s, ctl[c].todo), UNCHANGED lock,
               NEW step, step = IF ctl[c].todo # {s} THEN "restart"
                                ELSE IF slot.state = "prepared" THEN "confirm" ELSE "confirm_rollback",
               ctl' = [ctl EXCEPT ![c].todo = @ \ {s}, ![c].pc = step]
        PROVE  SessionFits(d)'
    <3>1. /\ ctl'[c].pc = step /\ ctl'[c].man = slot /\ ctl'[c].todo = ctl[c].todo \ {s} /\ d = c
          /\ ctl'[c].cmd = ctl[c].cmd /\ ctl'[c].ver = ctl[c].ver /\ ctl'[c].want = ctl[c].want
      BY <1>0, <2>0, <2>1, <2>4 DEF TypeOK, Local
    <3>2. StepFits(c)' /\ RequestFits(c, ctl[c].man)'
      BY <2>0, <2>1, <2>4, <3>1 DEF StepFits, RequestFits, Deploying, Restarting, Recovering
    <3>3. \A t \in slot.svcs \ ctl'[c].todo : Fresh(t)'
      BY <2>0, <2>1, <2>4, <3>1 DEF HostFits, Handled, Restarting, Fresh
    <3>4. step # "restart" => ctl'[c].todo = {}
      BY <2>4, <3>1
    <3>5. step = "restart" => Handled(c)' = slot.svcs \ ctl'[c].todo
      BY <3>1 DEF Handled
    <3>6. target = (IF slot.state = "prepared" THEN slot.cand ELSE slot.prev)
      BY <2>0, <2>1 DEF HostFits, Restarting
    <3>7. slot.state # "prepared" => slot.prev # Absent
      BY <2>0, <2>1 DEF StepFits, Restarting
    <3>8. HostFits(c)'
      <4>1. config = slot.cfg /\ target \in {slot.cand, slot.prev}
        BY <2>0, <2>1 DEF HostFits
      <4>2. CASE step = "restart"
        BY <2>0, <3>1, <3>3, <3>5, <3>6, <4>1, <4>2 DEF HostFits, Restarting
      <4>3. CASE step = "confirm"
        BY <2>0, <2>4, <3>1, <3>3, <3>4, <3>6, <4>1, <4>3 DEF HostFits, Restarting
      <4>4. CASE step = "confirm_rollback"
        BY <2>0, <2>4, <3>1, <3>3, <3>4, <3>6, <3>7, <4>1, <4>4 DEF HostFits, Restarting, Fresh
      <4> QED  BY <2>4, <4>2, <4>3, <4>4
    <3>9. ctl'[c].pc \in {"restart", "confirm", "confirm_rollback"}
      BY <2>4, <3>1
    <3> QED  BY <3>1, <3>2, <3>8, <3>9 DEF SessionFits, Preparing
  <2> QED  BY <1>11, <2>0, <2>1, <2>2, <2>3, <2>4 DEF WaitReady, Failed
<1>12. ASSUME NEW c \in Controllers, ConfirmDeployment(c) PROVE SessionFits(d)'
  <2>0. ctl[c].pc \in Running /\ lock = c /\ ctl[c].pc = "confirm" /\ UNCHANGED <<target, config, jobs, issued>>
    BY <1>12 DEF ConfirmDeployment, Running, Deploying
  <2>1. /\ slot \in Manifest /\ ctl[c].man = slot /\ StepFits(c) /\ RequestFits(c, slot) /\ HostFits(c)
    BY <1>s, <2>0
  <2>2. slot.state = "prepared" /\ ctl[c].cmd = "release"
    BY <2>0, <2>1 DEF StepFits, Deploying
  <2>3. CASE Go(c, "fail") /\ UNCHANGED lock
    <3>1. /\ ctl'[c].pc = "fail" /\ ctl'[c].man = slot /\ d = c
          /\ ctl'[c].cmd = ctl[c].cmd /\ ctl'[c].ver = ctl[c].ver /\ ctl'[c].want = ctl[c].want
      BY <1>0, <2>0, <2>1, <2>3, GoEffect
    <3>2. StepFits(c)' /\ RequestFits(c, ctl[c].man)'
      BY <2>0, <2>1, <2>2, <3>1 DEF StepFits, RequestFits, Deploying, Restarting, Recovering
    <3>3. HostFits(c)'
      BY <2>0, <2>1, <3>1 DEF HostFits, Restarting
    <3> QED  BY <3>1, <3>2, <3>3 DEF SessionFits, Preparing
  <2> DEFINE o  == Observe(slot)
             ev == "deployment_ready"
             e  == Decide(slot, ev, o, FALSE)
  <2>4. CASE Proceed(c, slot, e, o) /\ e # "reject"
    <3>1. d = c
      BY <2>0, <2>4 DEF Proceed
    <3>2. /\ o.target = target /\ o.cfg = config
          /\ o.unloaded => \A s \in slot.svcs : ~jobs[s].loaded
          /\ o.ready => \A s \in slot.svcs : Ready(s)
      BY DEF Observe
    <3>3. e = Decide(slot, ev, o, FALSE) /\ ev = "deployment_ready"
      OBVIOUS
    <3> HIDE DEF o, ev, e
    <3>4. /\ e = "persist_pending" => o.ready
          /\ e = "clear" => slot.state # "rolling_back" \/ slot.prev = Absent
      <4>1. slot \in Manifest /\ e = Decide(slot, ev, o, FALSE)
        BY <2>1, <3>3
      <4> QED  BY <4>1, DecideUnready
    <3>5. \A s \in slot.svcs : Fresh(s)
      BY <2>0, <2>1 DEF HostFits
    <3>6. e = "persist_pending" => slot.cand \notin Broken
      <4> SUFFICES ASSUME \A s \in slot.svcs : Ready(s) PROVE slot.cand \notin Broken
        BY <3>2, <3>4
      <4>1. PICK s \in slot.svcs : TRUE
        BY <2>1 DEF Manifest
      <4>2. jobs[s] \in Job
        BY <1>0, <2>1 DEF TypeOK, Manifest
      <4>3. jobs[s].probe = "ready" /\ jobs[s].proc \in {target, NoOne}
        BY <3>5 DEF Ready, Fresh
      <4>4. jobs[s].proc = target /\ jobs[s].proc \notin Broken
        BY <4>2, <4>3 DEF Job
      <4>5. target = slot.cand
        BY <2>0, <2>1 DEF HostFits
      <4> QED  BY <4>4, <4>5
    <3>7. /\ ev = "accept" <=> ctl[c].cmd = "accept"
          /\ ev \in {"resume", "deployment_ready"} => ctl[c].cmd = "release"
      BY <2>2, <3>3
    <3>8. slot \in Manifest /\ RequestFits(c, slot) /\ e = Decide(slot, ev, o, FALSE)
      BY <2>1, <3>3
    <3>9. ~(e = "clear" /\ slot.state = "rolling_back" /\ slot.prev # Absent)
      BY <3>4
    <3>10. SessionFits(c)'
      BY <1>0, <2>0, <2>4, <3>2, <3>5, <3>6, <3>7, <3>8, <3>9, ProceedFits
    <3> QED  BY <3>1, <3>10
  <2> QED  BY <1>12, <2>1, <2>3, <2>4 DEF ConfirmDeployment
<1>13. ASSUME NEW c \in Controllers, RollbackDeploymentFailure(c) PROVE SessionFits(d)'
  <2>0. /\ ctl[c].pc \in Running /\ lock = c /\ ctl[c].pc = "fail"
        /\ UNCHANGED <<target, config, jobs, issued>>
    BY <1>13 DEF RollbackDeploymentFailure, Running, Deploying
  <2>1. /\ slot \in Manifest /\ ctl[c].man = slot /\ StepFits(c) /\ RequestFits(c, slot) /\ HostFits(c)
    BY <1>s, <2>0
  <2>2. slot.state = "prepared" /\ ctl[c].cmd = "release"
    BY <2>0, <2>1 DEF StepFits, Deploying
  <2> DEFINE o  == Observe(slot)
             ev == "rollback"
             e  == Decide(slot, ev, o, FALSE)
  <2>3. Proceed(c, slot, e, o)
    BY <1>13, <2>1 DEF RollbackDeploymentFailure
  <2>4. CASE e = "reject"
    BY <2>0, <2>3, <2>4, SessionEnded DEF Proceed
  <2>5. CASE e # "reject"
    <3>1. d = c
      BY <2>0, <2>3, <2>5 DEF Proceed
    <3>2. /\ o.target = target /\ o.cfg = config
          /\ o.unloaded => \A s \in slot.svcs : ~jobs[s].loaded
      BY DEF Observe
    <3>3. e = Decide(slot, ev, o, FALSE) /\ ev = "rollback"
      OBVIOUS
    <3> HIDE DEF o, ev, e
    <3>4. /\ e = "persist_pending" => ev = "deployment_ready"
          /\ e = "clear" => slot.state # "rolling_back" \/ slot.prev = Absent
      BY <2>1, <3>3, DecideUnready
    <3>5. /\ ~(e = "persist_pending")
          /\ ~(e = "clear" /\ slot.state = "rolling_back" /\ slot.prev # Absent)
      BY <3>3, <3>4
    <3>6. /\ ev = "accept" <=> ctl[c].cmd = "accept"
          /\ ev \in {"resume", "deployment_ready"} => ctl[c].cmd = "release"
      BY <2>2, <3>3
    <3>7. slot \in Manifest /\ RequestFits(c, slot) /\ e = Decide(slot, ev, o, FALSE)
      BY <2>1, <3>3
    <3>8. SessionFits(c)'
      BY <1>0, <2>0, <2>3, <2>5, <3>2, <3>5, <3>6, <3>7, ProceedFits
    <3> QED  BY <3>1, <3>8
  <2> QED  BY <2>4, <2>5
<1>14. ASSUME NEW c \in Controllers, Persist(c) PROVE SessionFits(d)'
  <2>0. ctl[c].pc \in Running /\ lock = c /\ UNCHANGED <<target, config, jobs, issued>>
    BY <1>14 DEF Persist, StateOf, Running, Deploying, Deciding
  <2>1. /\ slot \in Manifest /\ ctl[c].man = slot /\ StepFits(c) /\ RequestFits(c, slot)
        /\ ctl[c].pc # "observe" => HostFits(c)
    BY <1>s, <2>0
  <2> DEFINE m == [slot EXCEPT !.state = StateOf[ctl[c].pc]]
  <2>2. /\ m \in Manifest /\ m.auth = slot.auth /\ m.id = slot.id /\ m.svcs = slot.svcs
        /\ m.cand = slot.cand /\ m.prev = slot.prev /\ m.cfg = slot.cfg /\ m.state = StateOf[ctl[c].pc]
    BY <1>14, <2>1 DEF Persist, StateOf, Manifest, ActiveStates
  <2>3. CASE End(c)
    BY <2>0, <2>3, SessionEnded
  <2>4. CASE /\ m.state = "accepting" /\ UNCHANGED lock
             /\ ctl' = [ctl EXCEPT ![c].pc = "confirm_accept", ![c].man = m]
    <3> HIDE DEF m
    <3>1. /\ ctl'[c].pc = "confirm_accept" /\ ctl'[c].man = m /\ d = c
          /\ ctl'[c].cmd = ctl[c].cmd /\ ctl'[c].ver = ctl[c].ver /\ ctl'[c].want = ctl[c].want
      BY <1>0, <2>0, <2>4 DEF TypeOK, Local
    <3>2. ctl[c].pc = "persist_accepting"
      BY <1>14, <2>2, <2>4 DEF Persist, StateOf
    <3>3. StepFits(c)' /\ RequestFits(c, ctl[c].man)'
      BY <2>1, <2>2, <2>4, <3>1, <3>2 DEF StepFits, RequestFits, Deploying, Restarting, Recovering
    <3>4. HostFits(c)'
      BY <2>0, <2>1, <2>2, <3>1, <3>2 DEF HostFits, Restarting
    <3> QED  BY <3>1, <3>3, <3>4 DEF SessionFits, Preparing
  <2>5. CASE /\ m.state = "rolling_back"
             /\ Proceed(c, m, Decide(m, "rollback", ctl[c].obs, FALSE), ctl[c].obs)
    <3> DEFINE o  == ctl[c].obs
               ev == "rollback"
               e  == Decide(m, ev, o, FALSE)
    <3>1. Proceed(c, m, e, o) /\ ev = "rollback" /\ e = Decide(m, ev, o, FALSE)
      BY <2>5
    <3>2. ctl[c].pc = "persist_rolling_back"
      BY <1>14, <2>2, <2>5 DEF Persist, StateOf
    <3>3. /\ o.target = target /\ o.cfg = config
          /\ o.unloaded => \A s \in m.svcs : ~jobs[s].loaded
      BY <2>1, <2>2, <3>2 DEF HostFits
    <3> HIDE DEF m, o, ev, e
    <3>4. /\ e = "persist_pending" => ev = "deployment_ready"
          /\ e = "clear" => m.state # "rolling_back" \/ m.prev = Absent
      <4>1. m \in Manifest /\ e = Decide(m, ev, o, FALSE)
        BY <2>2, <3>1
      <4> QED  BY <4>1, DecideUnready
    <3>5. CASE e = "reject"
      BY <2>0, <3>1, <3>5, SessionEnded DEF Proceed
    <3>6. CASE e # "reject"
      <4>1. d = c
        BY <2>0, <3>1, <3>6 DEF Proceed
      <4>2. ctl[c].cmd # "accept" /\ RequestFits(c, m)
        BY <2>1, <2>2, <2>5, <3>2 DEF StepFits, RequestFits
      <4>3. /\ ev = "accept" <=> ctl[c].cmd = "accept"
            /\ ev \in {"resume", "deployment_ready"} => ctl[c].cmd = "release"
        BY <3>1, <4>2
      <4>4. /\ ~(e = "persist_pending")
            /\ ~(e = "clear" /\ m.state = "rolling_back" /\ m.prev # Absent)
        BY <3>1, <3>4
      <4>5. m \in Manifest
        BY <2>2
      <4>6. SessionFits(c)'
        BY <1>0, <2>0, <3>1, <3>3, <3>6, <4>2, <4>3, <4>4, <4>5, ProceedFits
      <4> QED  BY <4>1, <4>6
    <3> QED  BY <3>5, <3>6
  <2> QED  BY <1>14, <2>1, <2>3, <2>4, <2>5 DEF Persist
<1>15. ASSUME NEW c \in Controllers, ConfirmAccept(c) PROVE SessionFits(d)'
  <2>0. /\ ctl[c].pc \in Running /\ lock = c /\ ctl[c].pc = "confirm_accept"
        /\ UNCHANGED <<target, config, jobs, issued>>
    BY <1>15 DEF ConfirmAccept, Running
  <2>1. /\ slot \in Manifest /\ ctl[c].man = slot /\ StepFits(c) /\ RequestFits(c, slot)
    BY <1>s, <2>0
  <2>2. slot.state = "accepting" /\ ctl[c].cmd = "accept"
    BY <2>0, <2>1 DEF StepFits, RequestFits
  <2> DEFINE o  == Observe(slot)
             ev == "accept"
             e  == Decide(slot, ev, o, FALSE)
  <2>3. Proceed(c, slot, e, o) /\ ev = "accept" /\ e = Decide(slot, ev, o, FALSE)
    BY <1>15, <2>1 DEF ConfirmAccept
  <2>4. CASE e = "reject"
    BY <2>0, <2>3, <2>4, SessionEnded DEF Proceed
  <2>5. CASE e # "reject"
    <3>1. d = c
      BY <2>0, <2>3, <2>5 DEF Proceed
    <3>2. /\ o.target = target /\ o.cfg = config
          /\ o.unloaded => \A s \in slot.svcs : ~jobs[s].loaded
      BY DEF Observe
    <3> HIDE DEF o, ev, e
    <3>3. e = "persist_pending" => ev = "deployment_ready"
      BY <2>1, <2>3, DecideUnready
    <3>4. ~(e = "persist_pending") /\ ~(slot.state = "rolling_back")
      BY <2>2, <2>3, <3>3
    <3>5. /\ ev = "accept" <=> ctl[c].cmd = "accept"
          /\ ev \in {"resume", "deployment_ready"} => ctl[c].cmd = "release"
      BY <2>2, <2>3
    <3>6. SessionFits(c)'
      BY <1>0, <2>0, <2>1, <2>3, <2>5, <3>2, <3>4, <3>5, ProceedFits
    <3> QED  BY <3>1, <3>6
  <2> QED  BY <2>4, <2>5
<1>16. ASSUME NEW c \in Controllers, RestorePrevious(c) PROVE SessionFits(d)'
  <2>0. /\ ctl[c].pc \in Running /\ lock = c /\ ctl[c].pc = "restore"
        /\ UNCHANGED <<config, jobs, issued>>
    BY <1>16 DEF RestorePrevious, Running, Recovering
  <2>1. /\ slot \in Manifest /\ ctl[c].man = slot /\ StepFits(c) /\ RequestFits(c, slot) /\ HostFits(c)
    BY <1>s, <2>0
  <2>2. CASE End(c)
    BY <2>0, <2>2, SessionEnded
  <2>3. CASE target' = slot.prev /\ Go(c, "restart") /\ UNCHANGED lock
    <3>1. /\ ctl'[c].pc = "restart" /\ ctl'[c].man = slot /\ ctl'[c].todo = ctl[c].todo /\ d = c
          /\ ctl'[c].cmd = ctl[c].cmd /\ ctl'[c].ver = ctl[c].ver /\ ctl'[c].want = ctl[c].want
      BY <1>0, <2>0, <2>1, <2>3, GoEffect
    <3>2. slot.state = "rolling_back" /\ slot.prev # Absent /\ slot.svcs \subseteq ctl[c].todo
      BY <2>0, <2>1 DEF StepFits, HostFits, Recovering
    <3>3. StepFits(c)' /\ RequestFits(c, ctl[c].man)'
      BY <2>1, <3>1, <3>2 DEF StepFits, RequestFits, Deploying, Restarting, Recovering
    <3>4. Handled(c)' = {}
      BY <3>1, <3>2 DEF Handled
    <3>5. HostFits(c)'
      BY <2>0, <2>1, <2>3, <3>1, <3>2, <3>4 DEF HostFits, Restarting
    <3> QED  BY <3>1, <3>3, <3>5 DEF SessionFits, Preparing
  <2> QED  BY <1>16, <2>1, <2>2, <2>3 DEF RestorePrevious
<1>17. ASSUME NEW c \in Controllers, Bootout(c) PROVE SessionFits(d)'
  <2>0. /\ ctl[c].pc \in Running /\ lock = c /\ ctl[c].pc = "bootout"
        /\ UNCHANGED <<target, config, issued>>
    BY <1>17 DEF Bootout, Running, Recovering
  <2>1. /\ slot \in Manifest /\ ctl[c].man = slot /\ StepFits(c) /\ RequestFits(c, slot) /\ HostFits(c)
    BY <1>s, <2>0
  <2>2. CASE End(c)
    BY <2>0, <2>2, SessionEnded
  <2>3. ASSUME NEW s \in ctl[c].todo, UNCHANGED lock, jobs' = [jobs EXCEPT ![s] = Unloaded],
               NEW step, step \in {"bootout", "remove", "confirm_rollback"},
               step # "bootout" => ctl[c].todo = {s},
               ctl' = [ctl EXCEPT ![c].todo = @ \ {s}, ![c].pc = step]
        PROVE  SessionFits(d)'
    <3>1. /\ ctl'[c].pc = step /\ ctl'[c].man = slot /\ ctl'[c].todo = ctl[c].todo \ {s} /\ d = c
          /\ ctl'[c].cmd = ctl[c].cmd /\ ctl'[c].ver = ctl[c].ver /\ ctl'[c].want = ctl[c].want
      BY <1>0, <2>0, <2>1, <2>3 DEF TypeOK, Local
    <3>2. slot.state = "rolling_back" /\ slot.prev = Absent
      BY <2>0, <2>1 DEF StepFits, Recovering
    <3>3. StepFits(c)' /\ RequestFits(c, ctl[c].man)'
      BY <2>1, <2>3, <3>1, <3>2 DEF StepFits, RequestFits, Deploying, Restarting, Recovering
    <3>4. \A t \in slot.svcs \ ctl'[c].todo : ~jobs'[t].loaded
      <4> SUFFICES ASSUME NEW t \in slot.svcs, t \notin ctl'[c].todo PROVE ~jobs'[t].loaded
        OBVIOUS
      <4>1. t \in Services
        BY <2>1 DEF Manifest
      <4>2. CASE t = s
        BY <1>0, <2>3, <4>1, <4>2 DEF TypeOK, Unloaded
      <4>3. CASE t # s
        <5>1. jobs'[t] = jobs[t] /\ t \notin ctl[c].todo
          BY <1>0, <2>3, <3>1, <4>1, <4>3 DEF TypeOK
        <5> QED  BY <2>0, <2>1, <5>1 DEF HostFits
      <4> QED  BY <4>2, <4>3
    <3>5. step # "bootout" => ctl'[c].todo = {}
      BY <2>3, <3>1
    <3>6. HostFits(c)'
      BY <2>0, <2>1, <2>3, <3>1, <3>2, <3>4, <3>5 DEF HostFits, Restarting
    <3> QED  BY <2>3, <3>1, <3>3, <3>6 DEF SessionFits, Preparing
  <2> QED  BY <1>17, <2>2, <2>3 DEF Bootout
<1>18. ASSUME NEW c \in Controllers, RemoveTarget(c) PROVE SessionFits(d)'
  <2>0. /\ ctl[c].pc \in Running /\ lock = c /\ ctl[c].pc = "remove"
        /\ UNCHANGED <<config, jobs, issued>>
    BY <1>18 DEF RemoveTarget, Running, Recovering
  <2>1. /\ slot \in Manifest /\ ctl[c].man = slot /\ StepFits(c) /\ RequestFits(c, slot) /\ HostFits(c)
    BY <1>s, <2>0
  <2>2. CASE End(c)
    BY <2>0, <2>2, SessionEnded
  <2>3. CASE target' = Absent /\ Go(c, "confirm_rollback") /\ UNCHANGED lock
    <3>1. /\ ctl'[c].pc = "confirm_rollback" /\ ctl'[c].man = slot /\ d = c
          /\ ctl'[c].cmd = ctl[c].cmd /\ ctl'[c].ver = ctl[c].ver /\ ctl'[c].want = ctl[c].want
      BY <1>0, <2>0, <2>1, <2>3, GoEffect
    <3>2. slot.state = "rolling_back" /\ slot.prev = Absent
      BY <2>0, <2>1 DEF StepFits, Recovering
    <3>3. StepFits(c)' /\ RequestFits(c, ctl[c].man)'
      BY <2>1, <3>1, <3>2 DEF StepFits, RequestFits, Deploying, Restarting, Recovering
    <3>4. HostFits(c)'
      BY <2>0, <2>1, <2>3, <3>1, <3>2 DEF HostFits, Restarting
    <3> QED  BY <3>1, <3>3, <3>4 DEF SessionFits, Preparing
  <2> QED  BY <1>18, <2>1, <2>2, <2>3 DEF RemoveTarget
<1>19. ASSUME NEW c \in Controllers, ConfirmRollback(c) PROVE SessionFits(d)'
  <2>0. /\ ctl[c].pc \in Running /\ lock = c /\ ctl[c].pc = "confirm_rollback"
        /\ UNCHANGED <<target, config, jobs, issued>>
    BY <1>19 DEF ConfirmRollback, Running, Recovering
  <2>1. /\ slot \in Manifest /\ ctl[c].man = slot /\ StepFits(c) /\ RequestFits(c, slot) /\ HostFits(c)
    BY <1>s, <2>0
  <2>2. CASE End(c)
    BY <2>0, <2>2, SessionEnded
  <2> DEFINE o  == Observe(slot)
             ev == "rollback"
             r  == slot.prev # Absent
             e  == Decide(slot, ev, o, r)
  <2>3. CASE e = "clear" /\ Proceed(c, slot, e, o)
    <3>1. d = c /\ ev = "rollback" /\ e = Decide(slot, ev, o, r)
      BY <2>0, <2>3 DEF Proceed
    <3>2. /\ o.target = target /\ o.cfg = config
          /\ o.unloaded => \A s \in slot.svcs : ~jobs[s].loaded
      BY DEF Observe
    <3>3. slot.state = "rolling_back" /\ ctl[c].cmd # "accept"
      BY <2>0, <2>1 DEF StepFits, RequestFits, Recovering
    <3>4. slot.prev # Absent => \A s \in slot.svcs : jobs[s].loaded /\ jobs[s].proc \in {slot.prev, NoOne}
      BY <2>0, <2>1, <3>3 DEF HostFits
    <3> HIDE DEF o, ev, r, e
    <3>5. /\ ev = "accept" <=> ctl[c].cmd = "accept"
          /\ ev \in {"resume", "deployment_ready"} => ctl[c].cmd = "release"
          /\ ~(e = "persist_pending") /\ e # "reject"
      BY <2>3, <3>1, <3>3
    <3>6. SessionFits(c)'
      BY <1>0, <2>0, <2>1, <2>3, <3>1, <3>2, <3>4, <3>5, ProceedFits
    <3> QED  BY <3>1, <3>6
  <2> QED  BY <1>19, <2>1, <2>2, <2>3 DEF ConfirmRollback
<1>20. ASSUME NEW c \in Controllers, Clear(c) PROVE SessionFits(d)'
  BY <1>20, SessionEnded DEF Clear
<1>21. ASSUME NEW c \in Controllers, AdminRestart(c) \/ AdminInstall(c) \/ AdminUninstall(c)
       PROVE  SessionFits(d)'
  BY <1>21, SessionEnded DEF AdminRestart, AdminInstall, AdminUninstall
<1>22. ASSUME NEW c \in Controllers, Crash(c) PROVE SessionFits(d)'
  BY <1>22, SessionEnded DEF Crash
<1>23. ASSUME NEW s \in Services, Launchd(s) \/ Die(s) PROVE SessionFits(d)'
  <2>0. UNCHANGED <<slot, lock, target, config, ctl, issued>> /\ lock = d
    BY <1>23 DEF Launchd, Respawn, Serve, Die
  <2>1. \A t \in Services : JobEffect(t)
    BY <1>0, <1>23, LaunchdEffect
  <2>2. CASE ctl[d].pc \in Running
    <3>1. slot \in Manifest /\ ctl[d].man = slot
      BY <1>s, <2>2
    <3>2. StepFits(d)' /\ RequestFits(d, ctl[d].man)'
      BY <1>s, <2>0, <2>2, <3>1 DEF StepFits, RequestFits
    <3>3. CASE ctl[d].pc = "observe"
      BY <2>0, <3>2, <3>3 DEF SessionFits, Preparing
    <3>4. CASE ctl[d].pc # "observe"
      <4>1. HostFits(d)
        BY <1>s, <2>2, <3>4
      <4>2. \A t \in slot.svcs : JobEffect(t)
        BY <2>1, <3>1 DEF Manifest
      <4>3. \A t \in slot.svcs : Fresh(t) => Fresh(t)'
        BY <2>0, <4>2 DEF JobEffect, Fresh
      <4>4. Handled(d)' = Handled(d) /\ Handled(d) \subseteq slot.svcs
        BY <2>0, <3>1 DEF Handled
      <4>5. /\ ctl[d].pc = "confirm_rollback" /\ slot.prev # Absent => target = slot.prev
            /\ ctl[d].pc = "clear" /\ slot.state = "rolling_back" => target = slot.prev
        BY <3>1, <4>1 DEF HostFits
      <4>6. ctl[d].pc = "confirm_rollback" \/ (ctl[d].pc = "clear" /\ slot.state = "rolling_back") =>
              \A t \in slot.svcs : IF slot.prev = Absent THEN ~jobs'[t].loaded
                                   ELSE jobs'[t].loaded /\ jobs'[t].proc \in {slot.prev, NoOne}
        BY <3>1, <4>1, <4>2, <4>5 DEF HostFits, JobEffect
      <4>7. HostFits(d)'
        BY <2>0, <3>1, <4>1, <4>2, <4>3, <4>4, <4>6 DEF HostFits, JobEffect
      <4> QED  BY <2>0, <2>2, <3>2, <4>7, StepKinds DEF SessionFits
    <3> QED  BY <3>3, <3>4
  <2>3. CASE ctl[d].pc \notin Running
    BY <1>0, <2>0, <2>3 DEF SessionInv, SessionFits
  <2> QED  BY <2>2, <2>3
<1>24. CASE Tamper
  <2>1. /\ UNCHANGED <<lock, ctl, issued>> /\ lock = d
        /\ ctl[d].pc \in Preparing \cup {"observe", "admin"}
    BY <1>24 DEF Tamper
  <2>2. StepFits(d) => StepFits(d)'
    BY <2>1 DEF StepFits
  <2>3. RequestFits(d, ctl[d].man) => RequestFits(d, ctl[d].man)'
    BY <2>1 DEF RequestFits
  <2> QED  BY <1>0, <2>1, <2>2, <2>3, StepKinds DEF SessionInv, SessionFits
<1>25. CASE UNCHANGED vars
  BY <1>0, <1>25, SessionKept DEF vars
<1> QED
  BY <1>1, <1>2, <1>3, <1>4, <1>5, <1>6, <1>7, <1>8, <1>9, <1>10, <1>11, <1>12, <1>13, <1>14,
     <1>15, <1>16, <1>17, <1>18, <1>19, <1>20, <1>21, <1>22, <1>23, <1>24, <1>25
  DEF Next, Session

(* The strengthened invariant holds in every reachable state. *)
LEMMA Invariant == Spec => []IInv
<1>1. Init => IInv
  BY LockedInit, StepKinds DEF Init, IInv, SessionInv, SessionFits, Idle
<1>2. IInv /\ [Next]_vars => IInv'
  BY LockedStep, SessionStep DEF IInv
<1> QED  BY <1>1, <1>2, PTL DEF Spec

(* Between two steps of a command everything it relies on still holds: the  *)
(* manager re-reads the host only at a few points of a deployment or a      *)
(* recovery.                                                                *)
THEOREM SessionsSound == Spec => []SessionInv
BY Invariant, PTL DEF IInv

-----------------------------------------------------------------------------
(* What a step can do outside the controllers' local states: nothing but    *)
(* processes coming and going, an administrative effect over a clear slot,  *)
(* an outside edit, or one of the seven effects of a transaction.           *)
Keeps        == UNCHANGED <<slot, target, config, issued, live, tampers>>
AdminEffect  == slot = NoSlot /\ UNCHANGED <<slot, target, issued, live, tampers>>
Effectful(c) == \/ PublishPrepared(c) \/ InstallCandidate(c) \/ Persist(c) \/ RestorePrevious(c)
                \/ Bootout(c) \/ RemoveTarget(c) \/ Clear(c)

LEMMA StepSummary ==
  ASSUME IInv, [Next]_vars
  PROVE  \/ Keeps /\ \A s \in Services : JobEffect(s)
         \/ AdminEffect
         \/ Tamper
         \/ \E c \in Controllers : Effectful(c)
<1> USE DEF host
<1>1. TypeOK /\ HolderOwnsSlot
  BY DEF IInv, Locked
<1>2. UNCHANGED jobs => \A s \in Services : JobEffect(s)
  BY <1>1 DEF TypeOK, JobEffect
<1>3. ASSUME NEW c \in Controllers, RestartService(c)
      PROVE  Keeps /\ \A s \in Services : JobEffect(s)
  <2>1. PICK s \in Services : \/ jobs[s].loaded /\ jobs' = Restarted(s)
                              \/ jobs' = Muted(s)
    BY <1>1, <1>3 DEF RestartService, TypeOK, Local
  <2>2. ASSUME NEW t \in Services PROVE JobEffect(t)
    <3>1. CASE jobs[s].loaded /\ jobs' = Restarted(s)
      BY <1>1, <3>1 DEF TypeOK, JobEffect, Restarted, Waiting, Job
    <3>2. CASE jobs' = Muted(s)
      BY <1>1, <3>2 DEF TypeOK, JobEffect, Muted, Job
    <3> QED  BY <2>1, <3>1, <3>2
  <2> QED  BY <1>3, <2>2 DEF RestartService, Keeps
<1>4. ASSUME NEW c \in Controllers, AdminRestart(c) \/ AdminInstall(c) \/ AdminUninstall(c)
      PROVE  AdminEffect
  BY <1>1, <1>4 DEF AdminRestart, AdminInstall, AdminUninstall, AdminEffect, HolderOwnsSlot, Holding
<1>5. ASSUME NEW s \in Services, Launchd(s) \/ Die(s)
      PROVE  Keeps /\ \A t \in Services : JobEffect(t)
  BY <1>1, <1>5, LaunchdEffect DEF Launchd, Respawn, Serve, Die, Keeps
<1>6. ASSUME NEW c \in Controllers, Operator(c) \/ Crash(c)
      PROVE  Keeps /\ UNCHANGED jobs
  BY <1>6 DEF Operator, Dispatch, Crash, Keeps
<1>7. ASSUME NEW c \in Controllers, Session(c), ~Effectful(c), ~RestartService(c),
             ~(AdminRestart(c) \/ AdminInstall(c) \/ AdminUninstall(c))
      PROVE  Keeps /\ UNCHANGED jobs
  BY <1>7 DEF Session, Effectful, Keeps, Status, BeginPrepare, Capture, Acquire, FirstObservation,
              VerifyInstalled, WaitReady, ConfirmDeployment, RollbackDeploymentFailure,
              ConfirmAccept, ConfirmRollback
<1>8. CASE UNCHANGED vars
  BY <1>2, <1>8 DEF vars, Keeps
<1> QED  BY <1>2, <1>3, <1>4, <1>5, <1>6, <1>7, <1>8 DEF Next

(* An effect is the lock holder's, on the slot that is on disk. *)
LEMMA EffectOfHolder ==
  ASSUME IInv, NEW c \in Controllers, Effectful(c), ~PublishPrepared(c)
  PROVE  /\ lock = c /\ ctl[c].pc \in Running /\ slot \in Manifest /\ ctl[c].man = slot
         /\ StepFits(c) /\ RequestFits(c, slot) /\ HostFits(c)
<1>1. lock = c /\ ctl[c].pc \in Running \ {"observe"}
  BY DEF Effectful, InstallCandidate, Persist, RestorePrevious, Bootout, RemoveTarget, Clear,
         Holding, StateOf, Running, Deploying, Deciding, Recovering
<1> QED  BY <1>1 DEF IInv, Locked, TypeOK, HolderOwnsSlot, SessionInv, SessionFits

(* Rewriting the manifest changes its state and nothing else. *)
LEMMA PersistEffect ==
  ASSUME NEW c, slot \in Manifest, ctl[c].man = slot, Persist(c)
  PROVE  /\ slot' \in Manifest /\ slot' = [slot EXCEPT !.state = StateOf[ctl[c].pc]]
         /\ slot'.state = StateOf[ctl[c].pc]
         /\ slot'.cand = slot.cand /\ slot'.prev = slot.prev /\ slot'.svcs = slot.svcs
<1>1. slot' = [slot EXCEPT !.state = StateOf[ctl[c].pc]] /\ StateOf[ctl[c].pc] \in ActiveStates
  BY DEF Persist, StateOf, ActiveStates
<1> QED  BY <1>1 DEF Manifest

(* No step loses track of the executable at GATEWAY_BIN. *)
LEMMA TargetStep == IInv /\ TargetAccounted /\ [Next]_vars => TargetAccounted'
<1> SUFFICES ASSUME IInv, TargetAccounted, [Next]_vars, tampers' = 0 PROVE TargetAccounted'
  BY DEF TargetAccounted
<1> USE DEF TargetAccounted, host
<1>1. TypeOK /\ HolderOwnsSlot
  BY DEF IInv, Locked
<1>2. CASE Keeps \/ AdminEffect
  BY <1>2 DEF Keeps, AdminEffect
<1>3. ~Tamper
  BY <1>1 DEF Tamper, TypeOK
<1>4. ASSUME NEW c \in Controllers, PublishPrepared(c) PROVE TargetAccounted'
  <2>1. slot = NoSlot /\ ctl[c].man \in Manifest
    BY <1>1, <1>4 DEF PublishPrepared, Holding, HolderOwnsSlot, Preparing, TypeOK, Local
  <2> QED  BY <1>4, <2>1 DEF PublishPrepared
<1>5. ASSUME NEW c \in Controllers, Effectful(c), ~PublishPrepared(c) PROVE TargetAccounted'
  <2>1. /\ slot \in Manifest /\ ctl[c].man = slot /\ StepFits(c) /\ HostFits(c)
    BY <1>5, EffectOfHolder
  <2>2. CASE InstallCandidate(c)
    BY <2>1, <2>2 DEF InstallCandidate
  <2>3. CASE RestorePrevious(c)
    BY <2>1, <2>3 DEF RestorePrevious
  <2>4. CASE RemoveTarget(c)
    BY <2>1, <2>4 DEF RemoveTarget, Holding, StepFits
  <2>5. CASE Bootout(c)
    BY <2>5 DEF Bootout
  <2>6. CASE Persist(c)
    <3>1. slot' \in Manifest /\ slot'.cand = slot.cand /\ slot'.prev = slot.prev
      BY <2>1, <2>6, PersistEffect
    <3> QED  BY <2>1, <2>6, <3>1 DEF Persist
  <2>7. CASE Clear(c)
    BY <2>1, <2>7 DEF Clear, Holding, HostFits
  <2> QED  BY <1>5, <2>2, <2>3, <2>4, <2>5, <2>6, <2>7 DEF Effectful
<1> QED  BY <1>2, <1>3, <1>4, <1>5, StepSummary DEF Keeps

(* Whatever crashed and whoever raced, the executable at GATEWAY_BIN is     *)
(* accounted for by the slot or by the last finished release.               *)
THEOREM TargetAlwaysAccounted == Spec => []TargetAccounted
<1>1. Init => TargetAccounted
  BY DEF Init, TargetAccounted
<1> QED  BY <1>1, Invariant, TargetStep, PTL DEF Spec

(* No step leaves a pending release with a service of an older executable. *)
LEMMA PendingStep == IInv /\ PendingProven /\ [Next]_vars => PendingProven'
<1> SUFFICES ASSUME IInv, PendingProven, [Next]_vars, tampers' = 0,
                    slot' # NoSlot, slot'.state \in {"pending", "accepting"}
             PROVE  /\ target' = slot'.cand /\ slot'.cand \notin Broken
                    /\ \A s \in slot'.svcs : jobs'[s].loaded /\ jobs'[s].proc \in {slot'.cand, NoOne}
  BY DEF PendingProven
<1> USE DEF host
<1>1. TypeOK /\ HolderOwnsSlot
  BY DEF IInv, Locked
<1>2. CASE Keeps /\ \A s \in Services : JobEffect(s)
  <2>1. slot' = slot /\ target' = target /\ tampers = 0
    BY <1>2 DEF Keeps
  <2>2. slot.svcs \subseteq Services
    BY <1>1, <2>1 DEF TypeOK, Manifest
  <2> QED  BY <1>2, <2>1, <2>2 DEF PendingProven, JobEffect
<1>3. ~AdminEffect
  BY DEF AdminEffect
<1>4. ~Tamper
  BY <1>1 DEF Tamper, TypeOK
<1>5. ASSUME NEW c \in Controllers, PublishPrepared(c) PROVE FALSE
  <2>1. slot = NoSlot /\ ctl[c].man.state = "prepared"
    BY <1>1, <1>5 DEF PublishPrepared, Holding, HolderOwnsSlot, Preparing, IInv, SessionInv, SessionFits
  <2> QED  BY <1>5, <2>1 DEF PublishPrepared
<1>6. ASSUME NEW c \in Controllers, Effectful(c), ~PublishPrepared(c)
      PROVE  /\ target' = slot'.cand /\ slot'.cand \notin Broken
             /\ \A s \in slot'.svcs : jobs'[s].loaded /\ jobs'[s].proc \in {slot'.cand, NoOne}
  <2>1. /\ slot \in Manifest /\ ctl[c].man = slot /\ StepFits(c) /\ HostFits(c)
    BY <1>6, EffectOfHolder
  <2>2. ~InstallCandidate(c) /\ ~RestorePrevious(c) /\ ~RemoveTarget(c) /\ ~Bootout(c)
    BY <2>1 DEF InstallCandidate, RestorePrevious, RemoveTarget, Bootout, Holding, StepFits,
                Deploying, Recovering
  <2>3. ~Clear(c)
    BY DEF Clear
  <2>4. Persist(c)
    BY <1>6, <2>2, <2>3 DEF Effectful
  <2>5. /\ UNCHANGED <<target, jobs>> /\ tampers = 0
        /\ ctl[c].pc \in {"persist_pending", "persist_accepting", "persist_rolling_back"}
    BY <2>4 DEF Persist, StateOf
  <2>6. slot'.cand = slot.cand /\ slot'.svcs = slot.svcs /\ slot'.state = StateOf[ctl[c].pc]
    BY <2>1, <2>4, PersistEffect
  <2>7. CASE ctl[c].pc = "persist_pending"
    BY <2>1, <2>5, <2>6, <2>7 DEF HostFits, Fresh
  <2>8. CASE ctl[c].pc = "persist_accepting"
    <3>1. slot.state = "pending" /\ slot # NoSlot
      BY <2>1, <2>8 DEF StepFits
    <3> QED  BY <2>5, <2>6, <3>1 DEF PendingProven
  <2>9. ctl[c].pc # "persist_rolling_back"
    BY <2>6 DEF StateOf
  <2> QED  BY <2>5, <2>7, <2>8, <2>9
<1> QED  BY <1>2, <1>3, <1>4, <1>5, <1>6, StepSummary

(* A release that is pending or being accepted was proven on the candidate. *)
THEOREM PendingAlwaysProven == Spec => []PendingProven
<1>1. Init => PendingProven
  BY DEF Init, PendingProven
<1> QED  BY <1>1, Invariant, PendingStep, PTL DEF Spec

-----------------------------------------------------------------------------
(* The executable moves only the way the durable state already says. *)
THEOREM WriteAheadHolds == Spec => WriteAhead
<1> DEFINE Moved  == target' # target /\ tampers' = tampers
           Logged == /\ slot # NoSlot
                     /\ target \in {slot.cand, slot.prev}
                     /\ \/ slot.state = "prepared" /\ target' = slot.cand
                        \/ slot.state = "rolling_back" /\ target' = slot.prev
<1>1. IInv /\ [Next]_vars => [Moved => Logged]_vars
  <2> SUFFICES ASSUME IInv, [Next]_vars, Moved PROVE Logged
    OBVIOUS
  <2> USE DEF host
  <2>1. ~Tamper
    BY DEF Tamper, IInv, Locked, TypeOK
  <2>2. PICK c \in Controllers : Effectful(c)
    BY <2>1, StepSummary DEF Keeps, AdminEffect
  <2>3. ~PublishPrepared(c)
    BY DEF PublishPrepared
  <2>4. slot \in Manifest /\ ctl[c].man = slot /\ StepFits(c) /\ HostFits(c)
    BY <2>2, <2>3, EffectOfHolder
  <2>5. slot # NoSlot /\ target \in {slot.cand, slot.prev}
    BY <2>2, <2>3, <2>4, EffectOfHolder DEF HostFits
  <2>6. CASE InstallCandidate(c)
    BY <2>4, <2>5, <2>6 DEF InstallCandidate, Holding, StepFits, Deploying
  <2>7. CASE RestorePrevious(c)
    BY <2>4, <2>5, <2>7 DEF RestorePrevious, Holding, StepFits, Recovering
  <2>8. CASE RemoveTarget(c)
    BY <2>4, <2>5, <2>8 DEF RemoveTarget, Holding, StepFits, Recovering
  <2> QED  BY <2>2, <2>3, <2>6, <2>7, <2>8 DEF Effectful, Bootout, Persist, Clear
<1> QED  BY <1>1, Invariant, PTL DEF Spec, WriteAhead

(* Recovery state goes away only when acceptance or recovery is complete,   *)
(* with outside edits or without.                                           *)
THEOREM ClearProvenHolds == Spec => ClearProven
<1> DEFINE Cleared == slot # NoSlot /\ slot' = NoSlot
           Proven  == /\ config = slot.cfg
                      /\ IF slot.state = "accepting" THEN target = slot.cand
                         ELSE /\ target = slot.prev
                              /\ \A s \in slot.svcs :
                                   IF slot.prev = Absent THEN ~jobs[s].loaded
                                   ELSE jobs[s].loaded /\ jobs[s].proc \in {slot.prev, NoOne}
<1>1. IInv /\ [Next]_vars => [Cleared => Proven]_vars
  <2> SUFFICES ASSUME IInv, [Next]_vars, Cleared PROVE Proven
    OBVIOUS
  <2> USE DEF host
  <2>1. ~Tamper
    BY DEF Tamper
  <2>2. PICK c \in Controllers : Effectful(c)
    BY <2>1, StepSummary DEF Keeps, AdminEffect
  <2>3. ~PublishPrepared(c)
    BY DEF PublishPrepared, IInv, Locked, HolderOwnsSlot, Holding, Preparing
  <2>4. slot \in Manifest /\ ctl[c].man = slot /\ StepFits(c) /\ HostFits(c)
    BY <2>2, <2>3, EffectOfHolder
  <2>5. ~Persist(c)
    BY <2>4, PersistEffect
  <2>6. Clear(c)
    BY <2>2, <2>3, <2>5 DEF Effectful, InstallCandidate, RestorePrevious, RemoveTarget, Bootout
  <2>7. slot.state \in {"accepting", "rolling_back"}
    BY <2>4, <2>6 DEF Clear, Holding, StepFits
  <2> QED  BY <2>4, <2>6, <2>7 DEF Clear, Holding, HostFits
<1> QED  BY <1>1, Invariant, PTL DEF Spec, ClearProven

(* Only the pinned controller, asked for this release, moves an active      *)
(* transaction or its target.                                               *)
THEOREM AuthorizedHolds == Spec => Authorized
<1> DEFINE Moved == slot # NoSlot /\ (slot' # slot \/ (target' # target /\ tampers' = tampers))
           Asked == /\ lock # NoOne
                    /\ ctl[lock].ver = slot.auth
                    /\ \/ ctl[lock].cmd = "release" /\ slot.state \in {"prepared", "rolling_back"}
                       \/ /\ ctl[lock].cmd = "accept" /\ slot.state \in {"pending", "accepting"}
                          /\ ctl[lock].want = slot.id
                       \/ ctl[lock].cmd = "rollback" /\ slot.state # "accepting" /\ ctl[lock].want = slot.id
<1>1. IInv /\ [Next]_vars => [Moved => Asked]_vars
  <2> SUFFICES ASSUME IInv, [Next]_vars, Moved PROVE Asked
    OBVIOUS
  <2>1. ~Tamper
    BY DEF Tamper, IInv, Locked, TypeOK
  <2>2. PICK c \in Controllers : Effectful(c)
    BY <2>1, StepSummary DEF Keeps, AdminEffect
  <2>3. ~PublishPrepared(c)
    BY DEF PublishPrepared, IInv, Locked, HolderOwnsSlot, Holding, Preparing
  <2>4. lock = c /\ RequestFits(c, slot)
    BY <2>2, <2>3, EffectOfHolder
  <2> QED  BY <2>4 DEF RequestFits
<1> QED  BY <1>1, Invariant, PTL DEF Spec, Authorized

(* While a transaction is active nobody unloads its services, except the    *)
(* rollback of a first installation, and no command changes fingerprints.   *)
THEOREM AdminWaitsHolds == Spec => AdminWaits
<1> DEFINE Waits == /\ \A s \in slot.svcs : jobs[s].loaded /\ ~jobs'[s].loaded =>
                         slot.state = "rolling_back" /\ slot.prev = Absent
                    /\ config' # config => tampers' # tampers
<1>1. IInv /\ [Next]_vars => [slot # NoSlot => Waits]_vars
  <2> SUFFICES ASSUME IInv, [Next]_vars, slot # NoSlot PROVE Waits
    OBVIOUS
  <2> USE DEF host
  <2>0. slot.svcs \subseteq Services
    BY DEF IInv, Locked, TypeOK, Manifest
  <2>1. CASE Keeps /\ \A s \in Services : JobEffect(s)
    BY <2>0, <2>1 DEF Keeps, JobEffect
  <2>2. CASE Tamper
    BY <2>2 DEF Tamper, IInv, Locked, TypeOK
  <2>3. ASSUME NEW c \in Controllers, Effectful(c) PROVE Waits
    <3>1. ~PublishPrepared(c)
      BY DEF PublishPrepared, IInv, Locked, HolderOwnsSlot, Holding, Preparing
    <3>2. ctl[c].man = slot /\ StepFits(c)
      BY <2>3, <3>1, EffectOfHolder
    <3>3. CASE Bootout(c)
      BY <3>2, <3>3 DEF Bootout, Holding, StepFits, Recovering
    <3>4. CASE ~Bootout(c)
      <4>1. UNCHANGED <<config, jobs>>
        BY <2>3, <3>1, <3>4 DEF Effectful, InstallCandidate, Persist, RestorePrevious, RemoveTarget, Clear
      <4> QED  BY <4>1
    <3> QED  BY <3>3, <3>4
  <2> QED  BY <2>1, <2>2, <2>3, StepSummary DEF AdminEffect
<1> QED  BY <1>1, Invariant, PTL DEF Spec, AdminWaits

-----------------------------------------------------------------------------
(* The controllers implement the abstract lifecycle: every step of theirs   *)
(* publishes, advances or finishes a release, or leaves all three variables *)
(* of ReleaseSlot alone.                                                    *)
THEOREM Refinement == Spec => ImplementsSlot
<1>1. Init => Slot!SlotInit
  BY DEF Init, Slot!SlotInit, Runnable, Slot!Runnable
<1>2. IInv /\ [Next]_vars => [Slot!SlotNext]_(Slot!slotVars)
  <2> SUFFICES ASSUME IInv, [Next]_vars, ~UNCHANGED <<slot, issued, live>> PROVE Slot!SlotNext
    BY DEF Slot!slotVars
  <2> USE DEF host
  <2>0. TypeOK /\ HolderOwnsSlot
    BY DEF IInv, Locked
  <2>1. PICK c \in Controllers : Effectful(c)
    BY StepSummary DEF Keeps, AdminEffect, Tamper
  <2>2. CASE PublishPrepared(c)
    <3> DEFINE m == ctl[c].man
    <3>1. slot = NoSlot /\ m \in Manifest /\ m.id = issued + 1 /\ m.state = "prepared"
      BY <2>0, <2>2 DEF PublishPrepared, Holding, HolderOwnsSlot, Preparing, TypeOK, Local,
                        IInv, SessionInv, SessionFits
    <3>2. slot' = m /\ issued' = m.id /\ live' = live
      BY <2>2 DEF PublishPrepared, End
    <3>3. m \in Slot!Manifest
      BY <3>1 DEF Manifest, Slot!Manifest, ReleaseIds, Slot!ReleaseIds, ActiveStates, Slot!ActiveStates,
                  Runnable, Slot!Runnable, Configs, Slot!Configs
    <3>4. issued < MaxReleases
      BY <2>0, <3>1 DEF Manifest, ReleaseIds, TypeOK
    <3> QED  BY <3>1, <3>2, <3>3, <3>4 DEF Slot!SlotNext, Slot!Publish
  <2>3. CASE ~PublishPrepared(c)
    <3>1. /\ slot \in Manifest /\ slot # NoSlot /\ ctl[c].man = slot /\ StepFits(c)
      BY <2>1, <2>3, EffectOfHolder
    <3>2. CASE Persist(c)
      <4>1. /\ slot' = [slot EXCEPT !.state = StateOf[ctl[c].pc]] /\ UNCHANGED <<issued, live>>
            /\ ctl[c].pc \in {"persist_pending", "persist_accepting", "persist_rolling_back"}
        BY <3>1, <3>2, PersistEffect DEF Persist, StateOf
      <4>2. <<slot.state, StateOf[ctl[c].pc]>> \in Slot!Forward
        BY <3>1, <4>1 DEF StepFits, StateOf, Slot!Forward, Deploying
      <4>3. StateOf[ctl[c].pc] \in Slot!ActiveStates
        BY <4>1 DEF StateOf, Slot!ActiveStates
      <4> QED  BY <3>1, <4>1, <4>2, <4>3 DEF Slot!SlotNext, Slot!Advance
    <3>3. CASE Clear(c)
      BY <3>1, <3>3 DEF Clear, Holding, StepFits, Slot!SlotNext, Slot!Finish
    <3> QED  BY <2>1, <2>3, <3>2, <3>3 DEF Effectful, InstallCandidate, RestorePrevious, Bootout, RemoveTarget
  <2> QED  BY <2>2, <2>3
<1> QED  BY <1>1, <1>2, Invariant, PTL DEF Spec, ImplementsSlot, Slot!SlotSpec
=============================================================================
