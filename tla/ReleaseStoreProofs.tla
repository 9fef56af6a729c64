-------------------------- MODULE ReleaseStoreProofs --------------------------
(***************************************************************************)
(* Proofs about ReleaseStore for any number of sessions, releases and      *)
(* faults.                                                                 *)
(*                                                                         *)
(*   Core == TypeOK /\ VisibleComplete /\ HolderView /\ SessionInv         *)
(*                                                                         *)
(* is inductive; BoundedResidue is inductive given Core, and the           *)
(* implementation of the register follows from Core step by step.          *)
(***************************************************************************)
EXTENDS ReleaseStore, TLAPS

Core == TypeOK /\ VisibleComplete /\ HolderView /\ SessionInv

USE ModelAssumption, SlotAssumption, StoreAssumption, DirAssumption

(* Removing an entry leaves a directory or none. *)
LEMMA RemoveEntryType ==
  ASSUME NEW d \in Dir, NEW e \in RemoveEntry(d)
  PROVE  e \in Dir \cup {NoDir}
<1>1. \A a \in Artifacts : [d EXCEPT !.files[a] = "missing"] \in Dir
  BY DEF Dir, Contents
<1>2. [d EXCEPT !.man = Missing] \in Dir
  BY DEF Dir, Documents
<1>3. \A t \in TempNames : [d EXCEPT !.temps[t] = Missing] \in Dir
  BY DEF Dir, Documents
<1> QED BY <1>1, <1>2, <1>3 DEF RemoveEntry, Unlinked

(* An edit of a temporary touches that temporary only. *)
LEMMA EditTemp ==
  ASSUME NEW d \in Dir, NEW t \in TempNames, NEW x \in Documents
  PROVE  LET e == [d EXCEPT !.temps[t] = x] IN
         /\ e \in Dir /\ e.files = d.files /\ e.man = d.man
         /\ e.temps = [d.temps EXCEPT ![t] = x]
BY DEF Dir

(* Filling a temporary of a directory that has no other one. *)
LEMMA OnlyTemp ==
  ASSUME NEW d \in Dir, NEW e \in Dir, NEW t \in TempNames, NEW x,
         e.temps = [d.temps EXCEPT ![t] = x], TempsIn(d) \subseteq {t}, d # NoDir
  PROVE  TempsIn(e) \subseteq {t}
<1> SUFFICES ASSUME NEW w \in TempNames, w # t, e.temps[w] # Missing PROVE FALSE
  BY DEF TempsIn
<1>1. d.temps[w] # Missing
  BY DEF Dir
<1> QED BY <1>1 DEF TempsIn

(* Renaming the only temporary of a directory leaves none. *)
LEMMA NoTemp ==
  ASSUME NEW d \in Dir, NEW e \in Dir, NEW t \in TempNames,
         e.temps = [d.temps EXCEPT ![t] = Missing], TempsIn(d) \subseteq {t}, d # NoDir
  PROVE  TempsIn(e) = {}
<1> SUFFICES ASSUME NEW w \in TempNames, e.temps[w] # Missing PROVE FALSE
  BY DEF TempsIn
<1>1. d.temps[w] # Missing /\ w # t
  BY DEF Dir
<1> QED BY <1>1 DEF TempsIn

(* A manifest is neither of the two unfinished documents. *)
LEMMA ManifestDocument == Manifest \subseteq Documents \ {Missing, Torn}
BY DEF Documents

(* A new directory is well typed. *)
LEMMA EmptyDirType == EmptyDir \in Dir
BY DEF EmptyDir, Dir, Documents, Contents

(* The local state of an ended session is well typed. *)
LEMMA IdleType == Idle \in Local
BY DEF Idle, Local, Steps

(* While one session holds the lock, every other one is idle. *)
LEMMA OthersIdle ==
  ASSUME HolderView, NEW s, lock = s, NEW t \in Sessions, t # s
  PROVE  ctl[t].pc = "idle"
BY DEF HolderView

(* An idle session relies on nothing. *)
LEMMA IdleRelies ==
  ASSUME NEW t, ctl[t].pc = "idle", ctl[t].temp = NoOne
  PROVE  Relies(t)
BY DEF Relies, Storing

(* A step that leaves an idle session alone leaves it relying on nothing. *)
LEMMA OthersRely ==
  ASSUME Core, NEW s \in Sessions, lock = s, NEW t \in Sessions, t # s, ctl'[t] = ctl[t]
  PROVE  Relies(t)'
<1>1. ctl[t].pc = "idle"
  BY OthersIdle DEF Core
<1>2. ctl[t].temp = NoOne
  BY <1>1 DEF Core, SessionInv, Relies
<1> QED BY <1>1, <1>2 DEF Relies, Storing

(* Ending a session establishes everything about sessions. *)
LEMMA EndRelies ==
  ASSUME Core, NEW s \in Sessions, lock = s, End(s)
  PROVE  SessionInv' /\ HolderView' /\ ctl' \in [Sessions -> Local] /\ lock' = NoOne
<1>1. ctl' \in [Sessions -> Local] /\ lock' = NoOne
  BY IdleType DEF End, Core, TypeOK
<1>2. \A t \in Sessions : ctl'[t].pc = "idle" /\ ctl'[t].temp = NoOne
  <2> TAKE t \in Sessions
  <2>1. CASE t = s
    BY <2>1 DEF End, Idle, Core, TypeOK
  <2>2. CASE t # s
    <3>1. ctl[t].pc = "idle"
      BY <2>2, OthersIdle DEF Core
    <3>2. ctl[t].temp = NoOne
      BY <3>1 DEF Core, SessionInv, Relies
    <3> QED BY <2>2, <3>1, <3>2 DEF End, Core, TypeOK
  <2> QED BY <2>1, <2>2
<1>3. SessionInv'
  BY <1>2 DEF SessionInv, Relies, Storing
<1>4. HolderView'
  BY <1>2 DEF HolderView
<1> QED BY <1>1, <1>3, <1>4

(* What is left to prove of a step that keeps the lock. *)
LEMMA HolderStep ==
  ASSUME Core, NEW s \in Sessions, lock = s, lock' = lock,
         \A t \in Sessions : t # s => ctl'[t] = ctl[t],
         TypeOK', VisibleComplete', ctl'[s].cur = View(active)', Relies(s)'
  PROVE  Core'
<1>1. SessionInv'
  BY OthersRely DEF SessionInv
<1>2. HolderView'
  <2> SUFFICES ASSUME NEW t \in Sessions, ctl'[t].pc # "idle"
               PROVE  lock' = t /\ ctl'[t].cur = View(active)'
    BY DEF HolderView
  <2>1. t = s
    BY OthersIdle DEF Core
  <2> QED BY <2>1
<1> QED BY <1>1, <1>2 DEF Core

(* What a session that prepares a release relies on, one demand at a time. *)
LEMMA PreparingRelies ==
  ASSUME NEW s \in Sessions, NEW m \in Manifest, m.state = "prepared",
         ctl'[s].pc \in Storing, ctl'[s].cur = NoSlot, ctl'[s].man = m, nexts'[m.id] # NoDir,
         ctl'[s].pc \notin {"copy", "check"} =>
           \A a \in Wanted(m) : nexts'[m.id].files[a] = "whole",
         ctl'[s].pc = "publish" => nexts'[m.id].man = m,
         TempsIn(nexts'[m.id]) \subseteq {ctl'[s].temp}, TempsIn(active') \subseteq {ctl'[s].temp},
         ctl'[s].temp # NoOne <=> ctl'[s].pc \in {"write", "rename"},
         ctl'[s].pc = "rename" => Where(s)'.temps[ctl'[s].temp] = m,
         \A i \in ReleaseIds : (nexts'[i] # NoDir => i = m.id) /\ cleans'[i] = NoDir
  PROVE  Relies(s)'
<1>1. ctl'[s].pc \notin {"idle", "open", "sweep_temps", "sweep_dirs"} /\ ctl'[s].pc # "discard"
  BY DEF Storing
<1> QED BY <1>1 DEF Relies

(* A session that holds no empty slot works over active/, which is whole. *)
LEMMA ViewOfHolder ==
  ASSUME Core, NEW s \in Sessions, lock = s, ctl[s].pc # "idle"
  PROVE  /\ ctl[s].cur = View(active)
         /\ ctl[s].cur = NoSlot <=> active = NoDir
         /\ active # NoDir => /\ active \in Dir /\ Complete(active)
                              /\ active.man \in Manifest /\ ctl[s].cur = active.man
BY DEF Core, HolderView, VisibleComplete, Complete, View, TypeOK

LEMMA OpenStep ==
  ASSUME Core, NEW s \in Sessions, Open(s)
  PROVE  Core'
<1> USE DEF Open, dirs
<1>1. TypeOK'
  BY DEF Core, TypeOK, Local, Idle, Steps, View, VisibleComplete, Complete
<1>2. VisibleComplete'
  BY DEF Core, VisibleComplete, Complete
<1>3. ctl'[s].cur = View(active)' /\ ctl'[s].pc = "open" /\ ctl'[s].temp = NoOne
  BY DEF Core, TypeOK, View, Idle
<1>4. \A t \in Sessions : ctl[t].pc = "idle"
  BY DEF Core, HolderView
<1>5. \A t \in Sessions : t # s => ctl'[t] = ctl[t]
  BY DEF Core, TypeOK
<1>6. SessionInv'
  <2> SUFFICES ASSUME NEW t \in Sessions PROVE Relies(t)'
    BY DEF SessionInv
  <2>1. CASE t = s
    BY <2>1, <1>3 DEF Relies, Storing
  <2>2. CASE t # s
    <3>1. ctl[t].temp = NoOne
      BY <1>4 DEF Core, SessionInv, Relies
    <3> QED BY <1>4, <1>5, <2>2, <3>1 DEF Relies, Storing
  <2> QED BY <2>1, <2>2
<1>7. HolderView'
  BY <1>3, <1>4, <1>5 DEF HolderView
<1> QED BY <1>1, <1>2, <1>6, <1>7 DEF Core

(* Going on after the checks changes nothing on disk. *)
LEMMA AdmitStep ==
  ASSUME Core, NEW s \in Sessions, Admit(s)
  PROVE  Core'
<1>1. lock = s /\ ctl[s].pc = "open" /\ lock' = lock /\ UNCHANGED <<active, nexts, cleans, issued, faults>>
  BY DEF Admit, At, dirs
<1>2. ctl[s].temp = NoOne /\ ctl[s].cur = View(active)
  BY <1>1, ViewOfHolder DEF Core, SessionInv, Relies
<1>3. TypeOK'
  BY <1>1 DEF Admit, Go, Core, TypeOK, Local, Steps
<1>4. ctl'[s] = [ctl[s] EXCEPT !.pc = "sweep_temps"] /\ \A t \in Sessions : t # s => ctl'[t] = ctl[t]
  BY DEF Admit, Go, Core, TypeOK
<1>5. ctl'[s].pc = "sweep_temps" /\ ctl'[s].cur = ctl[s].cur /\ ctl'[s].temp = NoOne
  BY <1>2, <1>4 DEF Core, TypeOK, Local
<1>6. Relies(s)'
  BY <1>5 DEF Relies, Storing
<1>7. VisibleComplete' /\ View(active)' = View(active)
  BY <1>1 DEF Core, VisibleComplete, Complete, View
<1> QED BY <1>1, <1>2, <1>3, <1>4, <1>5, <1>6, <1>7, HolderStep

LEMMA SweepTempsStep ==
  ASSUME Core, NEW s \in Sessions, SweepTemps(s)
  PROVE  Core'
<1>0. lock = s /\ ctl[s].pc = "sweep_temps" /\ lock' = lock /\ nexts' = nexts /\ cleans' = cleans
      /\ issued' = issued /\ faults' = faults
  BY DEF SweepTemps, At
<1>v. /\ ctl[s].cur = View(active)
      /\ active # NoDir => active \in Dir /\ Complete(active) /\ active.man \in Manifest
  BY <1>0, ViewOfHolder
<1>t. ctl[s].temp = NoOne
  BY <1>0 DEF Core, SessionInv, Relies
<1>1. CASE TempsIn(active) = {} /\ Go(s, "sweep_dirs") /\ UNCHANGED active
  <2>1. TypeOK'
    BY <1>0, <1>1 DEF Core, TypeOK, Go, Local, Steps
  <2>2. VisibleComplete'
    BY <1>1 DEF Core, VisibleComplete, Complete
  <2>3. ctl'[s] = [ctl[s] EXCEPT !.pc = "sweep_dirs"] /\ \A t \in Sessions : t # s => ctl'[t] = ctl[t]
    BY <1>1 DEF Go, Core, TypeOK
  <2>4. ctl'[s].pc = "sweep_dirs" /\ ctl'[s].cur = ctl[s].cur /\ ctl'[s].temp = NoOne
    BY <2>3, <1>t DEF Core, TypeOK, Local
  <2>5. Relies(s)'
    BY <1>1, <2>4 DEF Relies, Storing, TempsIn
  <2> QED BY <1>0, <1>1, <1>v, <2>1, <2>2, <2>3, <2>4, <2>5, HolderStep DEF View
<1>2. ASSUME NEW t \in TempsIn(active), active' = [active EXCEPT !.temps[t] = Missing], UNCHANGED ctl
      PROVE  Core'
  <2>1. active \in Dir /\ active # NoDir /\ t \in TempNames
    BY <1>2, <1>v DEF TempsIn
  <2>2. active' \in Dir /\ active'.files = active.files /\ active'.man = active.man
    BY <1>2, <2>1, EditTemp DEF Documents
  <2>3. active' # NoDir
    BY <2>2
  <2>4. TypeOK'
    BY <1>0, <1>2, <2>1, <2>2 DEF Core, TypeOK
  <2>5. VisibleComplete'
    BY <1>v, <2>1, <2>2 DEF VisibleComplete, Complete
  <2>6. View(active)' = View(active)
    BY <2>1, <2>2, <2>3 DEF View
  <2>7. Relies(s)'
    BY <1>0, <1>t, <1>2 DEF Relies, Storing
  <2> QED BY <1>0, <1>2, <1>v, <2>4, <2>5, <2>6, <2>7, HolderStep
<1> QED BY <1>1, <1>2 DEF SweepTemps

(* Removing an entry of a remnant disturbs nothing but the remnant. *)
LEMMA SweepDirsStep ==
  ASSUME Core, NEW s \in Sessions, SweepDirs(s)
  PROVE  Core'
<1>0. lock = s /\ ctl[s].pc = "sweep_dirs" /\ lock' = lock /\ active' = active
      /\ issued' = issued /\ faults' = faults
  BY DEF SweepDirs, At
<1>v. ctl[s].cur = View(active)
  BY <1>0, ViewOfHolder
<1>t. ctl[s].temp = NoOne /\ TempsIn(active) \subseteq {NoOne}
  BY <1>0 DEF Core, SessionInv, Relies
<1>c. VisibleComplete' /\ View(active)' = View(active)
  BY <1>0 DEF Core, VisibleComplete, Complete, View
<1>1. CASE /\ \A i \in ReleaseIds : nexts[i] = NoDir /\ cleans[i] = NoDir
           /\ Go(s, "ready") /\ UNCHANGED <<nexts, cleans>>
  <2>1. TypeOK'
    BY <1>0, <1>1 DEF Core, TypeOK, Go, Local, Steps
  <2>2. ctl'[s] = [ctl[s] EXCEPT !.pc = "ready"] /\ \A t \in Sessions : t # s => ctl'[t] = ctl[t]
    BY <1>1 DEF Go, Core, TypeOK
  <2>3. ctl'[s].pc = "ready" /\ ctl'[s].cur = ctl[s].cur /\ ctl'[s].temp = NoOne
    BY <2>2, <1>t DEF Core, TypeOK, Local
  <2>4. Relies(s)'
    BY <1>0, <1>1, <1>t, <2>3 DEF Relies, Storing, TempsIn
  <2> QED BY <1>0, <1>v, <1>c, <2>1, <2>2, <2>3, <2>4, HolderStep
<1>2. ASSUME UNCHANGED ctl,
             nexts' \in [ReleaseIds -> Dir \cup {NoDir}], cleans' \in [ReleaseIds -> Dir \cup {NoDir}],
             \A i \in ReleaseIds : (nexts'[i] # NoDir => nexts[i] # NoDir)
                                   /\ (cleans'[i] # NoDir => cleans[i] # NoDir)
      PROVE  Core'
  <2>1. TypeOK'
    BY <1>0, <1>2 DEF Core, TypeOK
  <2>2. Relies(s)'
    BY <1>0, <1>2, <1>t DEF Relies, Storing, TempsIn
  <2> QED BY <1>0, <1>2, <1>v, <1>c, <2>1, <2>2, HolderStep
<1>3. ASSUME NEW i \in ReleaseIds, nexts[i] # NoDir, NEW d \in RemoveEntry(nexts[i]),
             nexts' = [nexts EXCEPT ![i] = d], UNCHANGED <<cleans, ctl>>
      PROVE  Core'
  <2>1. d \in Dir \cup {NoDir}
    BY <1>3, RemoveEntryType DEF Core, TypeOK
  <2> QED BY <1>2, <1>3, <2>1 DEF Core, TypeOK
<1>4. ASSUME NEW i \in ReleaseIds, cleans[i] # NoDir, NEW d \in RemoveEntry(cleans[i]),
             cleans' = [cleans EXCEPT ![i] = d], UNCHANGED <<nexts, ctl>>
      PROVE  Core'
  <2>1. d \in Dir \cup {NoDir}
    BY <1>4, RemoveEntryType DEF Core, TypeOK
  <2> QED BY <1>2, <1>4, <2>1 DEF Core, TypeOK
<1> QED BY <1>1, <1>3, <1>4 DEF SweepDirs

LEMMA BeginPrepareStep ==
  ASSUME Core, NEW s \in Sessions, BeginPrepare(s)
  PROVE  Core'
<1>1. PICK m \in Manifest :
        /\ m.id = issued + 1 /\ m.state = "prepared"
        /\ nexts' = [nexts EXCEPT ![m.id] = EmptyDir]
        /\ ctl' = [ctl EXCEPT ![s].pc = "copy", ![s].man = m]
  BY DEF BeginPrepare
<1>0. /\ lock = s /\ ctl[s].pc = "ready" /\ active = NoDir /\ active' = active /\ cleans' = cleans
      /\ lock' = lock /\ faults' = faults /\ issued' = issued + 1 /\ issued < MaxReleases
  BY DEF BeginPrepare, At
<1>2. m.id \in ReleaseIds /\ nexts'[m.id] = EmptyDir /\ \A i \in ReleaseIds : i # m.id => nexts'[i] = nexts[i]
  BY <1>1 DEF Manifest, Core, TypeOK
<1>3. /\ ctl'[s] = [ctl[s] EXCEPT !.pc = "copy", !.man = m]
      /\ \A t \in Sessions : t # s => ctl'[t] = ctl[t]
  BY <1>1 DEF Core, TypeOK
<1>4. /\ ctl'[s].pc = "copy" /\ ctl'[s].man = m /\ ctl'[s].temp = ctl[s].temp
      /\ ctl'[s].cur = ctl[s].cur /\ ctl[s].cur = View(active) /\ ctl[s].cur = NoSlot
  BY <1>0, <1>3, ViewOfHolder DEF Core, TypeOK, Local
<1>5. TypeOK'
  <2>1. nexts' \in [ReleaseIds -> Dir \cup {NoDir}]
    BY <1>1, EmptyDirType DEF Core, TypeOK
  <2>2. ctl' \in [Sessions -> Local]
    <3>1. ctl \in [Sessions -> Local] /\ ctl[s] \in Local
      BY DEF Core, TypeOK
    <3>2. [ctl[s] EXCEPT !.pc = "copy", !.man = m] \in Local
      BY <3>1 DEF Local, Steps
    <3>3. ctl' = [ctl EXCEPT ![s] = [ctl[s] EXCEPT !.pc = "copy", !.man = m]]
      BY <1>1, <3>1
    <3> QED BY <3>1, <3>2, <3>3
  <2>3. issued' \in 0 .. MaxReleases
    BY <1>0 DEF Core, TypeOK
  <2>4. \A i \in ReleaseIds : nexts'[i] # NoDir \/ cleans'[i] # NoDir => i <= issued'
    BY <1>0, <1>1, <1>2 DEF Core, TypeOK, ReleaseIds
  <2> QED BY <1>0, <2>1, <2>2, <2>3, <2>4 DEF Core, TypeOK
<1>6. Relies(s)'
  <2>1. \A i \in ReleaseIds : nexts[i] = NoDir /\ cleans[i] = NoDir
    BY <1>0 DEF Core, SessionInv, Relies, Storing
  <2>2. ctl[s].temp = NoOne
    BY <1>0 DEF Core, SessionInv, Relies
  <2>3. TempsIn(EmptyDir) = {} /\ TempsIn(active)' = {}
    BY <1>0 DEF TempsIn, EmptyDir
  <2> QED BY <1>0, <1>1, <1>2, <1>4, <2>1, <2>2, <2>3, EmptyDirType DEF Relies, Storing
<1> QED BY <1>0, <1>3, <1>4, <1>5, <1>6, HolderStep DEF VisibleComplete, View

(* Filling one file of the directory that Prepare works in. *)
LEMMA CopyStep ==
  ASSUME Core, NEW s \in Sessions, Copy(s)
  PROVE  Core'
<1> DEFINE m == ctl[s].man
<1>0. /\ lock = s /\ ctl[s].pc = "copy" /\ lock' = lock /\ active' = active /\ cleans' = cleans
      /\ issued' = issued
  BY DEF Copy, At
<1>1. /\ ctl[s].cur = NoSlot /\ active = NoDir /\ View(active)' = NoSlot /\ m \in Manifest
      /\ m.state = "prepared" /\ m.id \in ReleaseIds
      /\ nexts[m.id] \in Dir
  <2>1. ctl[s].cur = NoSlot
    BY <1>0 DEF Core, SessionInv, Relies, Storing
  <2>2. m \in Manifest /\ m.state = "prepared" /\ nexts[m.id] # NoDir
    BY <1>0, <2>1 DEF Core, SessionInv, Relies, Storing
  <2> QED BY <1>0, <2>1, <2>2, ViewOfHolder DEF View, Core, TypeOK, Manifest
<1>2. CASE /\ \A a \in Wanted(m) : nexts[m.id].files[a] \notin {"missing", "torn"}
           /\ Go(s, "check") /\ UNCHANGED <<nexts, faults>>
  <2>1. TypeOK'
    BY <1>0, <1>2 DEF Core, TypeOK, Go, Local, Steps
  <2>2. ctl'[s] = [ctl[s] EXCEPT !.pc = "check"] /\ \A t \in Sessions : t # s => ctl'[t] = ctl[t]
    BY <1>2 DEF Go, Core, TypeOK
  <2>3. ctl'[s].pc = "check" /\ ctl'[s].cur = ctl[s].cur /\ ctl'[s].temp = ctl[s].temp /\ ctl'[s].man = m
    BY <2>2 DEF Core, TypeOK, Local
  <2>4. Relies(s)'
    <3>1. /\ TempsIn(nexts[m.id]) \subseteq {ctl[s].temp} /\ ctl[s].temp = NoOne
          /\ \A i \in ReleaseIds : (nexts[i] # NoDir => i = m.id) /\ cleans[i] = NoDir
      BY <1>0, <1>1 DEF Core, SessionInv, Relies, Storing
    <3>2. "check" \in Storing /\ ctl'[s].cur = NoSlot /\ ctl'[s].temp = NoOne
      BY <1>1, <2>3, <3>1 DEF Storing
    <3>3. TempsIn(nexts'[m.id]) \subseteq {ctl'[s].temp} /\ TempsIn(active') \subseteq {ctl'[s].temp}
      BY <1>0, <1>1, <1>2, <3>1, <3>2 DEF TempsIn
    <3> QED BY <1>0, <1>1, <1>2, <2>3, <3>1, <3>2, <3>3, PreparingRelies
  <2> QED BY <1>0, <1>1, <2>1, <2>2, <2>3, <2>4, HolderStep DEF VisibleComplete
<1>3. ASSUME NEW a \in Artifacts, NEW x \in Contents, nexts' = [nexts EXCEPT ![m.id].files[a] = x],
             UNCHANGED ctl, faults' \in 0 .. MaxFaults
      PROVE  Core'
  <2>1. [nexts[m.id] EXCEPT !.files[a] = x] \in Dir
    BY <1>1 DEF Dir
  <2>2. /\ nexts' = [nexts EXCEPT ![m.id] = [nexts[m.id] EXCEPT !.files[a] = x]]
    BY <1>1, <1>3 DEF Core, TypeOK, Dir
  <2>3. /\ nexts' \in [ReleaseIds -> Dir \cup {NoDir}]
        /\ \A i \in ReleaseIds : nexts'[i] # NoDir => nexts[i] # NoDir
        /\ nexts'[m.id] # NoDir
    BY <1>1, <2>1, <2>2 DEF Core, TypeOK
  <2>4. TypeOK'
    BY <1>0, <1>3, <2>3 DEF Core, TypeOK
  <2>5. nexts'[m.id].temps = nexts[m.id].temps /\ nexts[m.id] # NoDir
    BY <1>1, <2>2 DEF Core, TypeOK, Dir
  <2>6. TempsIn(nexts'[m.id]) = TempsIn(nexts[m.id]) /\ TempsIn(active)' = {}
    BY <1>0, <1>1, <2>3, <2>5 DEF TempsIn
  <2>7. Relies(s)'
    <3>1. /\ TempsIn(nexts[m.id]) \subseteq {ctl[s].temp} /\ ctl[s].temp = NoOne
          /\ \A i \in ReleaseIds : (nexts[i] # NoDir => i = m.id) /\ cleans[i] = NoDir
      BY <1>0, <1>1 DEF Core, SessionInv, Relies, Storing
    <3>2. \A i \in ReleaseIds : (nexts'[i] # NoDir => i = m.id) /\ cleans'[i] = NoDir
      BY <1>0, <2>3, <3>1
    <3>3. /\ ctl'[s].pc = "copy" /\ ctl'[s].cur = NoSlot /\ ctl'[s].man = m
          /\ ctl'[s].temp = NoOne /\ "copy" \in Storing
      BY <1>0, <1>1, <1>3, <3>1 DEF Storing
    <3>4. TempsIn(nexts'[m.id]) \subseteq {ctl'[s].temp} /\ TempsIn(active') \subseteq {ctl'[s].temp}
      BY <2>6, <3>1, <3>3
    <3> QED BY <1>1, <2>3, <3>2, <3>3, <3>4, PreparingRelies
  <2> QED BY <1>0, <1>1, <1>3, <2>4, <2>7, HolderStep DEF VisibleComplete
<1>4. \/ /\ \A a \in Wanted(m) : nexts[m.id].files[a] \notin {"missing", "torn"}
         /\ Go(s, "check") /\ UNCHANGED <<nexts, faults>>
      \/ \E a \in Wanted(m) :
           /\ \E x \in {"torn", "whole", "changed"} : nexts' = [nexts EXCEPT ![m.id].files[a] = x]
           /\ (UNCHANGED faults \/ Fault) /\ UNCHANGED ctl
  BY Zenon DEF Copy
<1>5. ASSUME NEW a \in Wanted(m), UNCHANGED faults \/ Fault
      PROVE  a \in Artifacts /\ faults' \in 0 .. MaxFaults
  BY <1>5 DEF Wanted, Fault, Core, TypeOK
<1>6. {"torn", "whole", "changed"} \subseteq Contents
  BY DEF Contents
<1> QED BY <1>2, <1>3, <1>4, <1>5, <1>6

(* Ending the session is harmless where the files stay well typed and the   *)
(* visible slot whole.                                                      *)
LEMMA EndStep ==
  ASSUME Core, NEW s \in Sessions, lock = s, End(s), issued' = issued, faults' \in 0 .. MaxFaults,
         cleans' = cleans,
         nexts' \in [ReleaseIds -> Dir \cup {NoDir}],
         \A i \in ReleaseIds : nexts'[i] # NoDir => nexts[i] # NoDir,
         active' = active \/ (/\ active # NoDir /\ active' \in Dir
                             /\ active'.files = active.files /\ active'.man = active.man)
  PROVE  Core'
<1>1. SessionInv' /\ HolderView' /\ ctl' \in [Sessions -> Local] /\ lock' = NoOne
  BY EndRelies
<1>2. VisibleComplete'
  BY DEF Core, VisibleComplete, Complete
<1>3. TypeOK'
  BY <1>1 DEF Core, TypeOK
<1> QED BY <1>1, <1>2, <1>3 DEF Core

(* The cleanup of a failed call removes what the call made, nothing else.   *)
LEMMA UndoEffect ==
  ASSUME Core, NEW s \in Sessions, lock = s, Undo(s)
  PROVE  /\ cleans' = cleans
         /\ nexts' \in [ReleaseIds -> Dir \cup {NoDir}]
         /\ \A i \in ReleaseIds : nexts'[i] # NoDir => nexts[i] # NoDir
         /\ active' = active \/ (/\ active # NoDir /\ active' \in Dir
                                 /\ active'.files = active.files /\ active'.man = active.man)
<1>1. CASE ctl[s].cur = NoSlot /\ ctl[s].pc \in Storing
  BY <1>1 DEF Undo, Core, TypeOK
<1>2. CASE ~(ctl[s].cur = NoSlot /\ ctl[s].pc \in Storing) /\ ctl[s].temp # NoOne
  <2>1. ctl[s].pc \in {"write", "rename"} /\ ctl[s].pc \in Storing /\ ctl[s].pc # "idle" /\ ctl[s].temp \in TempNames
    BY <1>2 DEF Core, SessionInv, Relies, TypeOK, Local, Storing
  <2>2. active # NoDir /\ active \in Dir
    BY <1>2, <2>1, ViewOfHolder
  <2>3. active' = [active EXCEPT !.temps[ctl[s].temp] = Missing] /\ nexts' = nexts /\ cleans' = cleans
    BY <1>2 DEF Undo
  <2> QED BY <2>1, <2>2, <2>3, EditTemp DEF Documents, Core, TypeOK
<1>3. CASE ~(ctl[s].cur = NoSlot /\ ctl[s].pc \in Storing) /\ ctl[s].temp = NoOne
  BY <1>3 DEF Undo, dirs, Core, TypeOK
<1> QED BY <1>1, <1>2, <1>3

LEMMA CheckHashesStep ==
  ASSUME Core, NEW s \in Sessions, CheckHashes(s)
  PROVE  Core'
<1> DEFINE m == ctl[s].man
<1>0. lock = s /\ ctl[s].pc = "check" /\ issued' = issued /\ faults' = faults
  BY DEF CheckHashes, At
<1>1. CASE /\ \A a \in Wanted(m) : nexts[m.id].files[a] = "whole"
           /\ Go(s, "temp") /\ UNCHANGED <<dirs, lock>>
  <2>1. TypeOK' /\ VisibleComplete' /\ View(active)' = View(active)
    BY <1>0, <1>1 DEF Core, TypeOK, VisibleComplete, Complete, View, Go, Local, Steps, dirs
  <2>2. ctl'[s] = [ctl[s] EXCEPT !.pc = "temp"] /\ \A t \in Sessions : t # s => ctl'[t] = ctl[t]
    BY <1>1 DEF Go, Core, TypeOK
  <2>3. ctl'[s].pc = "temp" /\ ctl'[s].cur = ctl[s].cur /\ ctl'[s].temp = ctl[s].temp /\ ctl'[s].man = m
    BY <2>2 DEF Core, TypeOK, Local
  <2>4. Relies(s)'
    <3>1. Relies(s) /\ ctl[s].temp = NoOne
      BY <1>0 DEF Core, SessionInv, Relies
    <3>2. UNCHANGED <<active, nexts, cleans>>
      BY <1>1 DEF dirs
    <3> QED BY <1>0, <1>1, <2>3, <3>1, <3>2 DEF Relies, Storing, TempsIn
  <2> QED BY <1>0, <1>1, <2>1, <2>2, <2>3, <2>4, HolderStep, ViewOfHolder
<1>2. CASE Undo(s) /\ End(s)
  BY <1>0, <1>2, UndoEffect, EndStep DEF Core, TypeOK
<1> QED BY <1>1, <1>2 DEF CheckHashes

LEMMA BeginRewriteStep ==
  ASSUME Core, NEW s \in Sessions, BeginRewrite(s)
  PROVE  Core'
<1>0. /\ lock = s /\ ctl[s].pc = "ready" /\ issued' = issued /\ faults' = faults /\ lock' = lock
      /\ active' = active /\ nexts' = nexts /\ cleans' = cleans /\ active # NoDir
  BY DEF BeginRewrite, At, dirs
<1>1. PICK t \in ActiveStates :
        ctl' = [ctl EXCEPT ![s].pc = "temp", ![s].man = [active.man EXCEPT !.state = t]]
  BY DEF BeginRewrite
<1>2. ctl[s].cur = active.man /\ active.man \in Manifest /\ ctl[s].cur = View(active) /\ ctl[s].cur # NoSlot
  BY <1>0, ViewOfHolder
<1>3. [active.man EXCEPT !.state = t] \in Manifest
  BY <1>2 DEF Manifest
<1>4. TypeOK'
  <2> DEFINE r == [ctl[s] EXCEPT !.pc = "temp", !.man = [active.man EXCEPT !.state = t]]
  <2>1. ctl \in [Sessions -> Local] /\ ctl[s] \in Local
    BY DEF Core, TypeOK
  <2>2. r \in Local
    BY <1>3, <2>1 DEF Local, Steps
  <2>3. ctl' = [ctl EXCEPT ![s] = r]
    BY <1>1, <2>1
  <2> HIDE DEF r
  <2>4. ctl' \in [Sessions -> Local]
    BY <2>1, <2>2, <2>3
  <2> QED BY <1>0, <2>4 DEF Core, TypeOK
<1>5. /\ ctl'[s].pc = "temp" /\ ctl'[s].cur = ctl[s].cur /\ ctl'[s].temp = ctl[s].temp
      /\ ctl'[s].man = [ctl[s].cur EXCEPT !.state = t]
      /\ \A u \in Sessions : u # s => ctl'[u] = ctl[u]
  BY <1>1, <1>2 DEF Core, TypeOK, Local
<1>6. Relies(s)'
  BY <1>0, <1>2, <1>5 DEF Core, SessionInv, Relies, Storing, TempsIn
<1>7. VisibleComplete' /\ View(active)' = View(active)
  BY <1>0 DEF Core, VisibleComplete, Complete, View
<1> QED BY <1>0, <1>2, <1>4, <1>5, <1>6, <1>7, HolderStep

(* Replacing the directory that the manifest is written in by one with the  *)
(* same files and manifest disturbs nothing outside it.                     *)
LEMMA PutEffect ==
  ASSUME Core, NEW s \in Sessions, lock = s, ctl[s].pc \in {"temp", "write", "rename"}
  PROVE  /\ Where(s) \in Dir /\ ctl[s].man \in Manifest /\ ctl[s].man.id \in ReleaseIds
         /\ ctl[s].cur = NoSlot => active = NoDir /\ nexts[ctl[s].man.id] # NoDir
         /\ ctl[s].cur # NoSlot => active # NoDir /\ active \in Dir
<1>1. CASE ctl[s].cur = NoSlot
  <2>1. ctl[s].man \in Manifest /\ nexts[ctl[s].man.id] # NoDir /\ active = NoDir
    BY <1>1, ViewOfHolder DEF Core, SessionInv, Relies, Storing
  <2>2. ctl[s].man.id \in ReleaseIds
    BY <2>1 DEF Manifest
  <2> QED BY <1>1, <2>1, <2>2 DEF Core, TypeOK, Where
<1>2. CASE ctl[s].cur # NoSlot
  <2>1. active # NoDir /\ active \in Dir /\ ctl[s].cur \in Manifest
    BY <1>2, ViewOfHolder
  <2>2. PICK t \in ActiveStates : ctl[s].man = [ctl[s].cur EXCEPT !.state = t]
    BY <1>2 DEF Core, SessionInv, Relies, Storing
  <2>3. ctl[s].man \in Manifest /\ ctl[s].man.id \in ReleaseIds
    BY <2>1, <2>2 DEF Manifest
  <2> QED BY <1>2, <2>1, <2>3 DEF Where
<1> QED BY <1>1, <1>2

(* Both steps that fill the temporary keep the rest of the directory.       *)
LEMMA TempStep ==
  ASSUME Core, NEW s \in Sessions, lock = s, lock' = lock, cleans' = cleans,
         issued' = issued, faults' = faults,
         ctl[s].pc \in {"temp", "write"}, NEW t \in TempNames, NEW x \in Documents,
         Put(s, [Where(s) EXCEPT !.temps[t] = x]), ctl' \in [Sessions -> Local],
         \A u \in Sessions : u # s => ctl'[u] = ctl[u],
         ctl'[s].cur = ctl[s].cur, ctl'[s].man = ctl[s].man, ctl'[s].temp = t,
         ctl[s].pc = "write" => ctl[s].temp = t,
         \/ ctl'[s].pc = "write"
         \/ ctl'[s].pc = "rename" /\ x = ctl[s].man
  PROVE  Core'
<1> DEFINE d == [Where(s) EXCEPT !.temps[t] = x]
           m == ctl[s].man
<1>1. /\ Where(s) \in Dir /\ m \in Manifest /\ m.id \in ReleaseIds
      /\ ctl[s].cur = NoSlot => active = NoDir /\ nexts[m.id] # NoDir
      /\ ctl[s].cur # NoSlot => active # NoDir /\ active \in Dir
  BY PutEffect
<1>2. /\ d \in Dir /\ d.files = Where(s).files /\ d.man = Where(s).man
      /\ d.temps = [Where(s).temps EXCEPT ![t] = x] /\ d.temps[t] = x
  BY <1>1, EditTemp DEF Dir
<1>v. ctl[s].cur = View(active)
  BY ViewOfHolder
<1>0. TempsIn(active) \subseteq {ctl[s].temp} /\ (ctl[s].pc = "temp" => ctl[s].temp = NoOne)
  BY DEF Core, SessionInv, Relies
<1>o. ctl[s].temp = t \/ ctl[s].temp = NoOne
  BY <1>0
<1> HIDE DEF d
<1>3. CASE ctl[s].cur = NoSlot
  <2>1. nexts' = [nexts EXCEPT ![m.id] = d] /\ active' = active
    BY <1>3 DEF Put, d
  <2>2. /\ nexts' \in [ReleaseIds -> Dir \cup {NoDir}] /\ nexts'[m.id] = d
        /\ \A i \in ReleaseIds : nexts'[i] # NoDir => nexts[i] # NoDir
    BY <1>1, <1>2, <1>3, <2>1 DEF Core, TypeOK
  <2>3. TypeOK'
    BY <2>1, <2>2 DEF Core, TypeOK
  <2>4. d.files = nexts[m.id].files
    BY <1>2, <1>3 DEF Where
  <2>5. Where(s)' = d
    BY <1>3, <2>2 DEF Where
  <2>6. Relies(s)'
    <3>1. m.state = "prepared" /\ \A a \in Wanted(m) : nexts[m.id].files[a] = "whole"
      BY <1>3 DEF Core, SessionInv, Relies, Storing
    <3>2. \A i \in ReleaseIds : (nexts'[i] # NoDir => i = m.id) /\ cleans'[i] = NoDir
      BY <2>2 DEF Core, SessionInv, Relies, Storing
    <3>3. TempsIn(active)' = {}
      BY <1>1, <1>3, <2>1 DEF TempsIn
    <3>4. nexts'[m.id] # NoDir /\ \A a \in Wanted(m) : nexts'[m.id].files[a] = "whole"
      BY <1>2, <2>2, <2>4, <3>1
    <3>5. ctl'[s].pc = "rename" => Where(s)'.temps[t] = ctl'[s].man
      BY <1>2, <2>5
    <3>6. TempsIn(nexts[m.id]) \subseteq {ctl[s].temp}
      BY <1>3 DEF Core, SessionInv, Relies, Storing
    <3>7. TempsIn(nexts'[m.id]) \subseteq {t}
      <4>1. Where(s) = nexts[m.id] /\ TempsIn(Where(s)) \subseteq {ctl[s].temp} /\ Where(s) # NoDir
        BY <1>3, <3>6, <1>1 DEF Where
      <4>2. TempsIn(Where(s)) \subseteq {t}
        BY <1>o, <4>1 DEF TempsIn
      <4>3. Where(s) \in Dir /\ d \in Dir /\ d.temps = [Where(s).temps EXCEPT ![t] = x]
        BY <1>1, <1>2
      <4>4. TempsIn(d) \subseteq {t}
        BY <4>1, <4>2, <4>3, OnlyTemp
      <4> QED BY <2>2, <4>4
    <3>8. /\ ctl'[s].pc \in {"write", "rename"} /\ ctl'[s].cur = NoSlot /\ ctl'[s].man = m
          /\ ctl'[s].temp = t /\ t # NoOne /\ ctl'[s].pc \in Storing
      BY <1>3 DEF Storing
    <3>9. TempsIn(active') \subseteq {t} /\ m \in Manifest
      BY <1>1, <3>3
    <3>10. /\ ctl'[s].pc = "rename" => Where(s)'.temps[ctl'[s].temp] = m
           /\ TempsIn(nexts'[m.id]) \subseteq {ctl'[s].temp} /\ TempsIn(active') \subseteq {ctl'[s].temp}
           /\ ctl'[s].temp # NoOne <=> ctl'[s].pc \in {"write", "rename"}
           /\ ctl'[s].pc # "publish"
      BY <3>5, <3>7, <3>8, <3>9
    <3>11. ctl'[s].pc \in Storing /\ ctl'[s].cur = NoSlot /\ ctl'[s].man = m /\ m \in Manifest
      BY <3>8, <3>9
    <3> HIDE DEF m
    <3> QED BY <3>1, <3>2, <3>4, <3>10, <3>11, PreparingRelies
  <2>7. VisibleComplete' /\ ctl'[s].cur = View(active)'
    BY <1>1, <1>3, <1>v, <2>1 DEF VisibleComplete, View
  <2> QED BY <2>3, <2>6, <2>7, HolderStep
<1>4. CASE ctl[s].cur # NoSlot
  <2>1. active' = d /\ nexts' = nexts /\ Where(s) = active /\ Where(s)' = d
    <3>1. Where(s) = active /\ ctl'[s].cur # NoSlot
      BY <1>4 DEF Where
    <3>2. active' = d /\ nexts' = nexts
      BY <1>4 DEF Put, d
    <3>3. Where(s)' = active'
      BY <3>1 DEF Where
    <3> QED BY <3>1, <3>2, <3>3
  <2>2. /\ active' \in Dir /\ active' # NoDir /\ active'.files = active.files /\ active'.man = active.man
    BY <1>2, <2>1
  <2>3. TypeOK'
    BY <1>1, <1>4, <2>1, <2>2 DEF Core, TypeOK
  <2>4. VisibleComplete' /\ View(active)' = View(active)
    BY <1>1, <1>4, <2>2 DEF Core, VisibleComplete, Complete, View
  <2>5. TempsIn(active)' \subseteq {t}
    <3>1. TempsIn(active) \subseteq {t}
      BY <1>0, <1>o DEF TempsIn
    <3>2. active \in Dir /\ active # NoDir /\ d \in Dir /\ d.temps = [active.temps EXCEPT ![t] = x]
      BY <1>1, <1>2, <1>4, <2>1
    <3>3. TempsIn(d) \subseteq {t}
      BY <3>1, <3>2, OnlyTemp
    <3> QED BY <2>1, <3>3
  <2>6. Relies(s)'
    <3>1. PICK q \in ActiveStates : m = [ctl[s].cur EXCEPT !.state = q]
      BY <1>4 DEF Core, SessionInv, Relies, Storing
    <3>2. \A i \in ReleaseIds : nexts'[i] = NoDir /\ cleans'[i] = NoDir
      BY <1>4, <2>1 DEF Core, SessionInv, Relies, Storing
    <3>3. ctl'[s].pc = "rename" => Where(s)'.temps[t] = ctl'[s].man
      BY <1>2, <2>1
    <3>4. TempsIn(active)' \subseteq {ctl'[s].temp}
      BY <2>5
    <3>5. ctl'[s].pc \in {"write", "rename"} /\ ctl'[s].temp = t /\ t # NoOne
      OBVIOUS
    <3>6. \E z \in ActiveStates : ctl'[s].man = [ctl'[s].cur EXCEPT !.state = z]
      BY <3>1
    <3> QED BY <1>4, <3>2, <3>3, <3>4, <3>5, <3>6 DEF Relies, Storing
  <2> QED BY <1>v, <2>3, <2>4, <2>6, HolderStep
<1> QED BY <1>3, <1>4

LEMMA CreateTempStep ==
  ASSUME Core, NEW s \in Sessions, CreateTemp(s)
  PROVE  Core'
<1>0. /\ lock = s /\ ctl[s].pc = "temp" /\ issued' = issued /\ faults' = faults /\ lock' = lock
      /\ cleans' = cleans
  BY DEF CreateTemp, At
<1>1. PICK t \in TempNames \ TempsIn(Where(s)) :
        /\ Put(s, [Where(s) EXCEPT !.temps[t] = Torn])
        /\ ctl' = [ctl EXCEPT ![s].pc = "write", ![s].temp = t]
  BY DEF CreateTemp
<1>2. /\ ctl' \in [Sessions -> Local] /\ \A u \in Sessions : u # s => ctl'[u] = ctl[u]
      /\ ctl'[s].cur = ctl[s].cur /\ ctl'[s].man = ctl[s].man /\ ctl'[s].temp = t /\ ctl'[s].pc = "write"
  BY <1>1 DEF Core, TypeOK, Local, Steps
<1>3. t \in TempNames /\ Torn \in Documents
  BY DEF Documents
<1> QED BY <1>0, <1>1, <1>2, <1>3, TempStep

LEMMA WriteTempStep ==
  ASSUME Core, NEW s \in Sessions, WriteTemp(s)
  PROVE  Core'
<1>0. /\ lock = s /\ ctl[s].pc = "write" /\ issued' = issued /\ faults' = faults /\ lock' = lock
      /\ cleans' = cleans
  BY DEF WriteTemp, At
<1>1. /\ Put(s, [Where(s) EXCEPT !.temps[ctl[s].temp] = ctl[s].man])
      /\ ctl' = [ctl EXCEPT ![s].pc = "rename"]
  BY DEF WriteTemp, Go
<1>2. /\ ctl' \in [Sessions -> Local] /\ \A u \in Sessions : u # s => ctl'[u] = ctl[u]
      /\ ctl'[s].cur = ctl[s].cur /\ ctl'[s].man = ctl[s].man /\ ctl'[s].temp = ctl[s].temp
      /\ ctl'[s].pc = "rename"
  BY <1>1 DEF Core, TypeOK, Local, Steps
<1>3. ctl[s].temp \in TempNames
  BY <1>0 DEF Core, SessionInv, Relies, TypeOK, Local
<1>4. ctl[s].man \in Documents
  BY <1>0, PutEffect DEF Documents
<1> QED BY <1>0, <1>1, <1>2, <1>3, <1>4, TempStep

(* The manifest that a rename puts in place belongs to the artifacts that   *)
(* are already there: Prepare has compared them, Rewrite changes the state  *)
(* alone.                                                                   *)
LEMMA RenameTempStep ==
  ASSUME Core, NEW s \in Sessions, RenameTemp(s)
  PROVE  Core'
<1> DEFINE m == ctl[s].man
           d == [Where(s) EXCEPT !.man = Where(s).temps[ctl[s].temp], !.temps[ctl[s].temp] = Missing]
<1>0. /\ lock = s /\ ctl[s].pc = "rename" /\ issued' = issued /\ faults' = faults /\ lock' = lock
      /\ cleans' = cleans /\ Put(s, d)
  BY DEF RenameTemp, At
<1>1. /\ Where(s) \in Dir /\ m \in Manifest /\ m.id \in ReleaseIds
      /\ ctl[s].cur = NoSlot => active = NoDir /\ nexts[m.id] # NoDir
      /\ ctl[s].cur # NoSlot => active # NoDir /\ active \in Dir
  BY <1>0, PutEffect
<1>t. ctl[s].temp \in TempNames /\ Where(s).temps[ctl[s].temp] = m
  BY <1>0 DEF Core, SessionInv, Relies, TypeOK, Local
<1>2. /\ d \in Dir /\ d.files = Where(s).files /\ d.man = m
      /\ d.temps = [Where(s).temps EXCEPT ![ctl[s].temp] = Missing]
  BY <1>1, <1>t DEF Dir, Documents
<1> HIDE DEF d
<1>v. ctl[s].cur = View(active)
  BY <1>0, ViewOfHolder
<1>3. CASE ctl[s].cur = NoSlot
  <2>1. nexts' = [nexts EXCEPT ![m.id] = d] /\ active' = active
    BY <1>0, <1>3 DEF Put
  <2>2. /\ nexts' \in [ReleaseIds -> Dir \cup {NoDir}] /\ nexts'[m.id] = d
        /\ \A i \in ReleaseIds : nexts'[i] # NoDir => nexts[i] # NoDir
    BY <1>1, <1>2, <1>3, <2>1 DEF Core, TypeOK
  <2>3. ctl' = [ctl EXCEPT ![s].pc = "publish", ![s].temp = NoOne]
    BY <1>3 DEF RenameTemp
  <2>4. /\ ctl' \in [Sessions -> Local] /\ \A u \in Sessions : u # s => ctl'[u] = ctl[u]
        /\ ctl'[s].cur = ctl[s].cur /\ ctl'[s].man = m /\ ctl'[s].temp = NoOne /\ ctl'[s].pc = "publish"
    BY <2>3 DEF Core, TypeOK, Local, Steps
  <2>5. TypeOK'
    BY <1>0, <2>1, <2>2, <2>4 DEF Core, TypeOK
  <2>6. Relies(s)'
    <3>1. m.state = "prepared" /\ \A a \in Wanted(m) : nexts[m.id].files[a] = "whole"
      BY <1>0, <1>3 DEF Core, SessionInv, Relies, Storing
    <3>2. \A i \in ReleaseIds : (nexts'[i] # NoDir => i = m.id) /\ cleans'[i] = NoDir
      BY <1>0, <2>2 DEF Core, SessionInv, Relies, Storing
    <3>3. TempsIn(active)' = {}
      BY <1>1, <1>3, <2>1 DEF TempsIn
    <3>4. /\ nexts'[m.id] # NoDir /\ nexts'[m.id].man = m
          /\ \A a \in Wanted(m) : nexts'[m.id].files[a] = "whole"
      BY <1>2, <1>3, <2>2, <3>1 DEF Where
    <3>5. TempsIn(nexts[m.id]) \subseteq {ctl[s].temp}
      BY <1>0, <1>3 DEF Core, SessionInv, Relies, Storing
    <3>6. TempsIn(nexts'[m.id]) = {}
      BY <1>1, <1>2, <1>3, <1>t, <2>2, <3>5, NoTemp DEF Where
    <3> QED BY <1>1, <1>3, <2>4, <3>1, <3>2, <3>3, <3>4, <3>6 DEF Relies, Storing
  <2> QED BY <1>0, <1>1, <1>3, <1>v, <2>1, <2>4, <2>5, <2>6, HolderStep DEF VisibleComplete, View
<1>4. CASE ctl[s].cur # NoSlot
  <2>1. active' = d /\ nexts' = nexts /\ Where(s) = active
    BY <1>0, <1>4 DEF Put, Where
  <2>2. PICK q \in ActiveStates : m = [ctl[s].cur EXCEPT !.state = q]
    BY <1>0, <1>4 DEF Core, SessionInv, Relies, Storing
  <2>3. /\ active # NoDir /\ Complete(active) /\ active.man \in Manifest /\ ctl[s].cur = active.man
    BY <1>0, <1>1, <1>4, ViewOfHolder
  <2>4. m.id = active.man.id /\ m.prev = active.man.prev
    BY <2>2, <2>3 DEF Manifest
  <2>5. ctl' = [ctl EXCEPT ![s].pc = "ready", ![s].temp = NoOne, ![s].cur = m]
    BY <1>4 DEF RenameTemp
  <2>6. /\ ctl' \in [Sessions -> Local] /\ \A u \in Sessions : u # s => ctl'[u] = ctl[u]
        /\ ctl'[s].cur = m /\ ctl'[s].man = m /\ ctl'[s].temp = NoOne /\ ctl'[s].pc = "ready"
    <3> DEFINE r == [ctl[s] EXCEPT !.pc = "ready", !.temp = NoOne, !.cur = m]
    <3>1. ctl \in [Sessions -> Local] /\ ctl[s] \in Local
      BY DEF Core, TypeOK
    <3>2. r \in Local /\ r.cur = m /\ r.man = m /\ r.temp = NoOne /\ r.pc = "ready"
      BY <1>1, <3>1 DEF Local, Steps
    <3>3. ctl' = [ctl EXCEPT ![s] = r]
      BY <2>5, <3>1
    <3> HIDE DEF r
    <3> QED BY <3>1, <3>2, <3>3
  <2>7. active' \in Dir /\ active' # NoDir /\ View(active)' = m /\ Complete(active)'
    <3>1. Wanted(m) = Wanted(active.man)
      BY <2>4 DEF Wanted
    <3> QED BY <1>1, <1>2, <2>1, <2>3, <3>1 DEF View, Complete
  <2>8. TypeOK'
    BY <1>0, <1>2, <2>1, <2>3, <2>4, <2>6, <2>7 DEF Core, TypeOK
  <2>9. Relies(s)'
    <3>1. \A i \in ReleaseIds : nexts'[i] = NoDir /\ cleans'[i] = NoDir
      BY <1>0, <1>4, <2>1 DEF Core, SessionInv, Relies, Storing
    <3>2. TempsIn(active)' = {}
      <4>1. TempsIn(active) \subseteq {ctl[s].temp}
        BY <1>0 DEF Core, SessionInv, Relies
      <4> QED BY <1>1, <1>2, <1>4, <1>t, <2>1, <4>1, NoTemp
    <3> QED BY <2>6, <3>1, <3>2 DEF Relies, Storing
  <2> QED BY <1>0, <2>6, <2>7, <2>8, <2>9, HolderStep DEF VisibleComplete
<1> QED BY <1>3, <1>4

(* The rename that publishes puts a complete directory in place.            *)
LEMMA PublishActiveStep ==
  ASSUME Core, NEW s \in Sessions, PublishActive(s)
  PROVE  Core'
<1> DEFINE m == ctl[s].man
<1>0. /\ lock = s /\ ctl[s].pc = "publish" /\ issued' = issued /\ faults' = faults /\ lock' = lock
      /\ cleans' = cleans /\ active' = nexts[m.id] /\ nexts' = [nexts EXCEPT ![m.id] = NoDir]
      /\ ctl' = [ctl EXCEPT ![s].pc = "ready", ![s].cur = m]
  BY DEF PublishActive, At
<1>1. ctl[s].cur = NoSlot
  BY <1>0 DEF Core, SessionInv, Relies, Storing
<1>2. /\ m \in Manifest /\ nexts[m.id] # NoDir /\ nexts[m.id].man = m
      /\ \A a \in Wanted(m) : nexts[m.id].files[a] = "whole"
  BY <1>0, <1>1 DEF Core, SessionInv, Relies, Storing
<1>3. m.id \in ReleaseIds /\ nexts[m.id] \in Dir /\ m.id <= issued
  BY <1>2 DEF Manifest, Core, TypeOK
<1>4. /\ ctl' \in [Sessions -> Local] /\ \A u \in Sessions : u # s => ctl'[u] = ctl[u]
      /\ ctl'[s].cur = m /\ ctl'[s].temp = ctl[s].temp /\ ctl'[s].pc = "ready"
  <2> DEFINE r == [ctl[s] EXCEPT !.pc = "ready", !.cur = m]
  <2>1. ctl \in [Sessions -> Local] /\ ctl[s] \in Local
    BY DEF Core, TypeOK
  <2>2. r \in Local /\ r.cur = m /\ r.temp = ctl[s].temp /\ r.pc = "ready"
    BY <1>2, <2>1 DEF Local, Steps
  <2>3. ctl' = [ctl EXCEPT ![s] = r]
    BY <1>0, <2>1
  <2> HIDE DEF r
  <2> QED BY <2>1, <2>2, <2>3
<1>5. Complete(active)' /\ View(active)' = m /\ active' # NoDir
  BY <1>0, <1>2 DEF Complete, View
<1>6. TypeOK'
  BY <1>0, <1>2, <1>3, <1>4 DEF Core, TypeOK
<1>7. Relies(s)'
  <2>1. ctl[s].temp = NoOne /\ \A i \in ReleaseIds : (nexts[i] # NoDir => i = m.id) /\ cleans[i] = NoDir
    BY <1>0 DEF Core, SessionInv, Relies, Storing
  <2>2. \A i \in ReleaseIds : nexts'[i] = NoDir /\ cleans'[i] = NoDir
    BY <1>0, <2>1 DEF Core, TypeOK
  <2>3. TempsIn(nexts[m.id]) \subseteq {NoOne}
    BY <1>0, <1>1, <2>1 DEF Core, SessionInv, Relies, Storing
  <2>4. TempsIn(active)' \subseteq {NoOne}
    BY <1>0, <2>3 DEF TempsIn
  <2> QED BY <1>4, <2>1, <2>2, <2>4 DEF Relies, Storing
<1> QED BY <1>0, <1>4, <1>5, <1>6, <1>7, HolderStep DEF VisibleComplete

LEMMA ClearStep ==
  ASSUME Core, NEW s \in Sessions, Clear(s)
  PROVE  Core'
<1> DEFINE m == active.man
<1>0. /\ lock = s /\ ctl[s].pc = "ready" /\ issued' = issued /\ faults' = faults /\ lock' = lock
      /\ nexts' = nexts /\ active' = NoDir /\ cleans' = [cleans EXCEPT ![m.id] = active]
      /\ active # NoDir
      /\ ctl' = [ctl EXCEPT ![s].pc = "discard", ![s].cur = NoSlot, ![s].man = m]
  BY DEF Clear, At
<1>1. active \in Dir /\ m \in Manifest /\ m.id \in ReleaseIds /\ m.id <= issued
  BY <1>0, ViewOfHolder DEF Manifest, Core, TypeOK
<1>2. /\ ctl' \in [Sessions -> Local] /\ \A u \in Sessions : u # s => ctl'[u] = ctl[u]
      /\ ctl'[s].cur = NoSlot /\ ctl'[s].temp = ctl[s].temp /\ ctl'[s].pc = "discard" /\ ctl'[s].man = m
  BY <1>0, <1>1 DEF Core, TypeOK, Local, Steps
<1>3. TypeOK'
  BY <1>0, <1>1, <1>2 DEF Core, TypeOK
<1>4. \A i \in ReleaseIds : nexts[i] = NoDir /\ cleans[i] = NoDir
  BY <1>0 DEF Core, SessionInv, Relies, Storing
<1>5. Relies(s)'
  <2>1. ctl[s].temp = NoOne
    BY <1>0 DEF Core, SessionInv, Relies
  <2> QED BY <1>0, <1>1, <1>2, <1>4, <2>1 DEF Relies, Storing, TempsIn, Core, TypeOK
<1> QED BY <1>0, <1>2, <1>3, <1>5, HolderStep DEF VisibleComplete, View

LEMMA DiscardStep ==
  ASSUME Core, NEW s \in Sessions, Discard(s)
  PROVE  Core'
<1> DEFINE m == ctl[s].man
<1>0. /\ lock = s /\ ctl[s].pc = "discard" /\ issued' = issued /\ faults' = faults /\ lock' = lock
      /\ nexts' = nexts /\ active' = active
  BY DEF Discard, At
<1>1. ctl[s].cur = View(active) /\ VisibleComplete' /\ View(active)' = View(active)
  BY <1>0, ViewOfHolder DEF Core, VisibleComplete, Complete, View
<1>2. /\ m \in Manifest /\ m.id \in ReleaseIds /\ ctl[s].temp = NoOne
      /\ \A i \in ReleaseIds : nexts[i] = NoDir /\ (cleans[i] # NoDir => i = m.id)
  BY <1>0 DEF Core, SessionInv, Relies, Storing, Manifest
<1>3. CASE cleans[m.id] = NoDir /\ Go(s, "ready") /\ UNCHANGED cleans
  <2>1. /\ ctl' \in [Sessions -> Local] /\ \A u \in Sessions : u # s => ctl'[u] = ctl[u]
        /\ ctl'[s].cur = ctl[s].cur /\ ctl'[s].temp = NoOne /\ ctl'[s].pc = "ready"
    BY <1>2, <1>3 DEF Go, Core, TypeOK, Local, Steps
  <2>2. TypeOK'
    BY <1>0, <1>3, <2>1 DEF Core, TypeOK
  <2>3. Relies(s)'
    BY <1>0, <1>2, <1>3, <2>1 DEF Relies, Storing, TempsIn, Core, SessionInv
  <2> QED BY <1>0, <1>1, <2>1, <2>2, <2>3, HolderStep
<1>4. ASSUME NEW d \in RemoveEntry(cleans[m.id]), cleans[m.id] # NoDir,
             cleans' = [cleans EXCEPT ![m.id] = d], UNCHANGED ctl
      PROVE  Core'
  <2>1. d \in Dir \cup {NoDir}
    BY <1>2, <1>4, RemoveEntryType DEF Core, TypeOK
  <2>2. /\ cleans' \in [ReleaseIds -> Dir \cup {NoDir}]
        /\ \A i \in ReleaseIds : cleans'[i] # NoDir => cleans[i] # NoDir
    BY <1>2, <1>4, <2>1 DEF Core, TypeOK
  <2>3. TypeOK'
    BY <1>0, <1>4, <2>2 DEF Core, TypeOK
  <2>4. Relies(s)'
    BY <1>0, <1>2, <1>4, <2>2 DEF Relies, Storing, TempsIn, Core, SessionInv
  <2> QED BY <1>0, <1>1, <1>4, <2>3, <2>4, HolderStep
<1> QED BY <1>3, <1>4 DEF Discard

LEMMA CoreInit == Init => Core
BY IdleType DEF Init, Core, TypeOK, VisibleComplete, HolderView, SessionInv, Relies, Idle, Storing, ReleaseIds

(* Every step of every session keeps the invariant. *)
LEMMA CoreStep ==
  ASSUME Core, [Next]_vars
  PROVE  Core'
<1>1. CASE UNCHANGED vars
  <2>1. TypeOK' /\ VisibleComplete' /\ HolderView'
    BY <1>1 DEF vars, Core, TypeOK, VisibleComplete, Complete, HolderView, View
  <2>2. SessionInv'
    <3> SUFFICES ASSUME NEW s \in Sessions PROVE Relies(s)'
      BY DEF SessionInv
    <3>1. Relies(s)
      BY DEF Core, SessionInv
    <3> QED BY <1>1, <3>1 DEF vars, Relies, Where, TempsIn
  <2> QED BY <2>1, <2>2 DEF Core
<1>2. ASSUME NEW s \in Sessions, Open(s) \/ Work(s) \/ Fail(s) \/ Crash(s)
      PROVE  Core'
  <2>1. CASE Open(s) BY <2>1, OpenStep
  <2>2. CASE SweepTemps(s) BY <2>2, SweepTempsStep
  <2>3. CASE SweepDirs(s) BY <2>3, SweepDirsStep
  <2>4. CASE BeginPrepare(s) BY <2>4, BeginPrepareStep
  <2>5. CASE Copy(s) BY <2>5, CopyStep
  <2>6. CASE CheckHashes(s) BY <2>6, CheckHashesStep
  <2>7. CASE BeginRewrite(s) BY <2>7, BeginRewriteStep
  <2>8. CASE CreateTemp(s) BY <2>8, CreateTempStep
  <2>9. CASE WriteTemp(s) BY <2>9, WriteTempStep
  <2>10. CASE RenameTemp(s) BY <2>10, RenameTempStep
  <2>11. CASE PublishActive(s) BY <2>11, PublishActiveStep
  <2>12. CASE Clear(s) BY <2>12, ClearStep
  <2>13. CASE Discard(s) BY <2>13, DiscardStep
  <2>14. CASE Close(s) BY <2>14, EndStep DEF Close, At, dirs, Core, TypeOK
  <2>15. CASE Fail(s)
    <3>1. lock = s /\ End(s) /\ Undo(s) /\ issued' = issued /\ faults' \in 0 .. MaxFaults
      BY <2>15 DEF Fail, Fault, Core, TypeOK
    <3> QED BY <3>1, UndoEffect, EndStep
  <2>16. CASE Crash(s)
    <3>1. /\ lock = s /\ End(s) /\ issued' = issued /\ faults' \in 0 .. MaxFaults
          /\ active' = active /\ nexts' = nexts /\ cleans' = cleans
      BY <2>16 DEF Crash, Fault, dirs, Core, TypeOK
    <3> QED BY <3>1, EndStep DEF Core, TypeOK
  <2>17. CASE Admit(s) BY <2>17, AdmitStep
  <2>18. CASE Refuse(s) BY <2>18, EndStep DEF Refuse, At, dirs, Core, TypeOK
  <2> QED BY <1>2, <2>1, <2>2, <2>3, <2>4, <2>5, <2>6, <2>7, <2>8, <2>9, <2>10, <2>11, <2>12,
             <2>13, <2>14, <2>15, <2>16, <2>17, <2>18 DEF Work
<1> QED BY <1>1, <1>2 DEF Next

(* The four parts hold together in every reachable state. *)
THEOREM CoreInvariant == Spec => []Core
BY CoreInit, CoreStep, PTL DEF Spec

(* Every variable keeps its type. *)
THEOREM TypeCorrect == Spec => []TypeOK
BY CoreInvariant, PTL DEF Core

(* No death or failure leaves a visible slot that does not validate. *)
THEOREM VisibleAlwaysComplete == Spec => []VisibleComplete
BY CoreInvariant, PTL DEF Core

(* Only the lock holder works, and on what is on disk. *)
THEOREM HolderSeesDisk == Spec => []HolderView
BY CoreInvariant, PTL DEF Core

(* What a session relies on holds at each of its steps. *)
THEOREM SessionsSound == Spec => []SessionInv
BY CoreInvariant, PTL DEF Core

-----------------------------------------------------------------------------
(* A session past its sweep has nothing left but what it made itself: one   *)
(* directory of Prepare, one temporary of Rewrite or one of Clear.          *)
AloneAtWork ==
  \A s \in Sessions : lock = s /\ ctl[s].pc \notin {"idle", "open", "sweep_temps", "sweep_dirs"} => BoundedResidue

LEMMA WorkerAlone == Core => AloneAtWork
<1> SUFFICES ASSUME Core, NEW s \in Sessions, lock = s, ctl[s].pc \notin {"idle", "open", "sweep_temps", "sweep_dirs"}
             PROVE  BoundedResidue
  BY DEF AloneAtWork
<1>1. /\ TempsIn(active) \subseteq {ctl[s].temp}
      /\ \A i \in ReleaseIds :
           /\ nexts[i] # NoDir => ctl[s].pc \in Storing /\ ctl[s].cur = NoSlot /\ i = ctl[s].man.id
           /\ cleans[i] # NoDir => ctl[s].pc = "discard" /\ ctl[s].cur = NoSlot /\ i = ctl[s].man.id
  BY DEF Core, SessionInv, Relies
<1>2. ctl[s].cur = NoSlot => TempsIn(active) = {}
  BY ViewOfHolder DEF TempsIn
<1>3. CASE \E i \in ReleaseIds : nexts[i] # NoDir
  BY <1>1, <1>2, <1>3 DEF BoundedResidue, Remnants, Storing
<1>4. CASE \A i \in ReleaseIds : nexts[i] = NoDir
  BY <1>1, <1>2, <1>4 DEF BoundedResidue, Remnants
<1> QED BY <1>3, <1>4

(* The same after a step. *)
LEMMA WorkerAlonePrimed == Core' => AloneAtWork'
BY WorkerAlone, PTL

(* Without a new remnant, at most one stays at most one. *)
LEMMA FewerRemnants ==
  ASSUME BoundedResidue, TempsIn(active)' \subseteq TempsIn(active),
         \A i \in ReleaseIds : (nexts'[i] # NoDir => nexts[i] # NoDir)
                               /\ (cleans'[i] # NoDir => cleans[i] # NoDir)
  PROVE  BoundedResidue'
<1>1. Remnants' \subseteq Remnants
  BY DEF Remnants
<1> QED BY <1>1 DEF BoundedResidue

LEMMA ResidueStep ==
  ASSUME Core, Core', BoundedResidue, [Next]_vars
  PROVE  BoundedResidue'
<1>1. CASE UNCHANGED vars
  BY <1>1, FewerRemnants DEF vars, TempsIn
<1>2. ASSUME NEW s \in Sessions, Open(s) \/ Work(s) \/ Fail(s) \/ Crash(s)
      PROVE  BoundedResidue'
  <2>1. CASE Open(s) \/ Admit(s) \/ Refuse(s) \/ Close(s) \/ Crash(s)
    BY <2>1, FewerRemnants DEF Open, Admit, Refuse, Close, Crash, dirs, TempsIn
  <2>2. CASE SweepTemps(s)
    <3>1. TempsIn(active)' \subseteq TempsIn(active)
      <4>1. CASE UNCHANGED active
        BY <4>1 DEF TempsIn
      <4>2. ASSUME NEW t \in TempsIn(active), active' = [active EXCEPT !.temps[t] = Missing]
            PROVE  TempsIn(active)' \subseteq TempsIn(active)
        <5>1. active \in Dir /\ t \in TempNames
          BY DEF Core, TypeOK, TempsIn
        <5>2. active' \in Dir /\ active'.temps = [active.temps EXCEPT ![t] = Missing]
          BY <4>2, <5>1, EditTemp DEF Documents
        <5> QED BY <5>1, <5>2 DEF TempsIn, Dir
      <4> QED BY <2>2, <4>1, <4>2 DEF SweepTemps
    <3> QED BY <2>2, <3>1, FewerRemnants DEF SweepTemps
  <2>3. CASE SweepDirs(s)
    BY <2>3, FewerRemnants DEF SweepDirs, TempsIn, Core, TypeOK
  <2>4. CASE Fail(s) \/ CheckHashes(s)
    <3>1. lock = s
      BY <2>4 DEF Fail, CheckHashes, At
    <3>2. CASE Undo(s)
      <4>1. TempsIn(active)' \subseteq TempsIn(active)
        <5>1. CASE active' = active
          BY <5>1 DEF TempsIn
        <5>2. CASE active' # active
          <6>1. ctl[s].temp # NoOne /\ active' = [active EXCEPT !.temps[ctl[s].temp] = Missing]
            BY <3>2, <5>2 DEF Undo, dirs
          <6>2. ctl[s].temp \in TempNames /\ ctl[s].pc \in {"write", "rename"}
            BY <6>1 DEF Core, SessionInv, Relies, TypeOK, Local
          <6>3. active \in Dir
            <7>1. ctl[s].cur # NoSlot
              BY <3>2, <5>2, <6>2 DEF Undo, Storing
            <7> QED BY <3>1, <6>2, <7>1, ViewOfHolder
          <6>4. active' \in Dir /\ active'.temps = [active.temps EXCEPT ![ctl[s].temp] = Missing]
            BY <6>1, <6>2, <6>3, EditTemp DEF Documents
          <6> QED BY <6>2, <6>3, <6>4 DEF TempsIn, Dir
        <5> QED BY <5>1, <5>2
      <4> QED BY <3>1, <3>2, <4>1, UndoEffect, FewerRemnants
    <3>3. CASE Go(s, "temp") /\ UNCHANGED <<dirs, lock>>
      BY <3>3, FewerRemnants DEF dirs, TempsIn
    <3> QED BY <2>4, <3>2, <3>3 DEF Fail, CheckHashes
  <2>5. ASSUME lock' = s, ctl'[s].pc \notin {"idle", "open", "sweep_temps", "sweep_dirs"}
        PROVE  BoundedResidue'
    BY <2>5, WorkerAlonePrimed DEF AloneAtWork
  <2>6. CASE BeginPrepare(s)
    <3>1. PICK m \in Manifest : ctl' = [ctl EXCEPT ![s].pc = "copy", ![s].man = m]
      BY <2>6 DEF BeginPrepare
    <3>2. lock' = s
      BY <2>6 DEF BeginPrepare, At
    <3>3. ctl'[s].pc = "copy"
      BY <3>1 DEF Core, TypeOK, Local
    <3> QED BY <2>5, <3>2, <3>3
  <2>7. CASE Copy(s)
    <3>1. lock' = s /\ ctl[s].pc = "copy" /\ (UNCHANGED ctl \/ Go(s, "check"))
      BY <2>7, Zenon DEF Copy, At
    <3>2. ctl'[s].pc \in {"copy", "check"}
      BY <3>1 DEF Go, Core, TypeOK, Local
    <3> QED BY <2>5, <3>1, <3>2
  <2>8. CASE BeginRewrite(s) \/ CreateTemp(s)
    <3>1. lock' = s
      BY <2>8 DEF BeginRewrite, CreateTemp, At
    <3>2. \/ \E x : ctl' = [ctl EXCEPT ![s].pc = "temp", ![s].man = x]
          \/ \E x : ctl' = [ctl EXCEPT ![s].pc = "write", ![s].temp = x]
      BY <2>8, Zenon DEF BeginRewrite, CreateTemp
    <3>3. ctl'[s].pc \in {"temp", "write"}
      BY <3>2 DEF Core, TypeOK, Local
    <3> QED BY <2>5, <3>1, <3>3
  <2>9. CASE WriteTemp(s) \/ RenameTemp(s) \/ PublishActive(s)
    BY <2>5, <2>9 DEF WriteTemp, RenameTemp, PublishActive, At, Go, Core, TypeOK, Local
  <2>10. CASE Clear(s) \/ Discard(s)
    BY <2>5, <2>10 DEF Clear, Discard, At, Go, Core, TypeOK, Local
  <2> QED BY <1>2, <2>1, <2>2, <2>3, <2>4, <2>6, <2>7, <2>8, <2>9, <2>10 DEF Work
<1> QED BY <1>1, <1>2 DEF Next

(* Deaths do not pile up remnants. *)
THEOREM ResidueBounded == Spec => []BoundedResidue
<1>1. Init => BoundedResidue
  BY DEF Init, BoundedResidue, Remnants, TempsIn, ReleaseIds
<1>2. Core /\ Core' /\ BoundedResidue /\ [Next]_vars => BoundedResidue'
  BY ResidueStep
<1> QED BY <1>1, <1>2, CoreInvariant, PTL DEF Spec

-----------------------------------------------------------------------------
(* The register is made of the same data. *)
LEMMA SameData == Register!Manifest = Manifest /\ Register!ActiveStates = ActiveStates
BY DEF Register!Manifest, Register!ReleaseIds, Register!ActiveStates, Register!Runnable,
       Register!Configs, Manifest, ReleaseIds, ActiveStates, Runnable, Configs

(* Every file operation is a step of the register or leaves it alone.       *)
LEMMA RegisterStep ==
  ASSUME Core, Core', [Next]_vars
  PROVE  [Register!Publish \/ Register!Restate \/ Register!Erase]_(View(active))
<1>1. CASE UNCHANGED vars
  BY <1>1 DEF vars, View
<1>2. ASSUME NEW s \in Sessions, Open(s) \/ Work(s) \/ Fail(s) \/ Crash(s)
      PROVE  [Register!Publish \/ Register!Restate \/ Register!Erase]_(View(active))
  <2>1. CASE UNCHANGED active
    BY <2>1 DEF View
  <2>2. ASSUME lock = s, ctl[s].pc # "idle", lock' = s, ctl'[s].pc # "idle", ctl'[s].cur = ctl[s].cur
        PROVE  View(active)' = View(active)
    BY <2>2 DEF Core, HolderView
  <2>3. CASE SweepTemps(s) \/ CreateTemp(s) \/ WriteTemp(s)
    <3>1. lock = s /\ ctl[s].pc # "idle" /\ lock' = s
      BY <2>3 DEF SweepTemps, CreateTemp, WriteTemp, At
    <3>2. \/ UNCHANGED active
          \/ UNCHANGED ctl
          \/ \E x : ctl' = [ctl EXCEPT ![s].pc = "write", ![s].temp = x]
          \/ ctl' = [ctl EXCEPT ![s].pc = "rename"]
      BY <2>3, Zenon DEF SweepTemps, CreateTemp, WriteTemp, Go
    <3>3. CASE ~UNCHANGED active
      <4>1. ctl'[s].pc # "idle" /\ ctl'[s].cur = ctl[s].cur
        BY <3>1, <3>2, <3>3 DEF Core, TypeOK, Local
      <4> QED BY <2>2, <3>1, <4>1 DEF View
    <3> QED BY <2>1, <3>3
  <2>4. CASE Fail(s) \/ CheckHashes(s)
    <3>1. lock = s /\ (Undo(s) \/ UNCHANGED active)
      BY <2>4 DEF Fail, CheckHashes, At, dirs
    <3>2. CASE Undo(s)
      BY <3>1, <3>2, UndoEffect DEF View
    <3> QED BY <2>1, <3>1, <3>2
  <2>5. CASE RenameTemp(s)
    <3>1. /\ lock = s /\ ctl[s].pc = "rename" /\ lock' = s
      BY <2>5 DEF RenameTemp, At
    <3>2. CASE ctl[s].cur = NoSlot
      BY <2>1, <2>5, <3>2 DEF RenameTemp, Put
    <3>3. CASE ctl[s].cur # NoSlot
      <4>1. PICK q \in ActiveStates : ctl[s].man = [ctl[s].cur EXCEPT !.state = q]
        BY <3>1, <3>3 DEF Core, SessionInv, Relies, Storing
      <4>2. ctl' = [ctl EXCEPT ![s].pc = "ready", ![s].temp = NoOne, ![s].cur = ctl[s].man]
        BY <2>5, <3>3 DEF RenameTemp
      <4>3. ctl'[s].pc = "ready" /\ ctl'[s].cur = ctl[s].man
        BY <4>2 DEF Core, TypeOK, Local
      <4>4. HolderView /\ HolderView'
        BY DEF Core
      <4>5. View(active)' = ctl[s].man /\ View(active) = ctl[s].cur
        BY <3>1, <4>3, <4>4 DEF HolderView
      <4>6. Register!Restate
        BY <3>3, <4>1, <4>5, SameData DEF Register!Restate
      <4> QED BY <4>6
    <3> QED BY <3>2, <3>3
  <2>6. CASE PublishActive(s)
    <3>1. /\ lock = s /\ ctl[s].pc = "publish" /\ lock' = s
          /\ ctl' = [ctl EXCEPT ![s].pc = "ready", ![s].cur = ctl[s].man]
      BY <2>6 DEF PublishActive, At
    <3>2. ctl[s].cur = NoSlot /\ ctl[s].man \in Manifest /\ ctl[s].man.state = "prepared"
      BY <3>1 DEF Core, SessionInv, Relies, Storing
    <3>3. ctl'[s].pc = "ready" /\ ctl'[s].cur = ctl[s].man
      BY <3>1 DEF Core, TypeOK, Local
    <3>4. HolderView /\ HolderView'
      BY DEF Core
    <3>5. View(active)' = ctl[s].man /\ View(active) = NoSlot
      BY <3>1, <3>2, <3>3, <3>4 DEF HolderView
    <3>6. Register!Publish
      BY <3>2, <3>5, SameData DEF Register!Publish
    <3> QED BY <3>6
  <2>7. CASE Clear(s)
    <3>1. active # NoDir /\ active' = NoDir /\ active.man \in Manifest
      BY <2>7 DEF Clear, Complete
    <3> QED BY <3>1 DEF View, Register!Erase
  <2>8. CASE Open(s) \/ Admit(s) \/ Refuse(s) \/ SweepDirs(s) \/ BeginPrepare(s) \/ Copy(s) \/ BeginRewrite(s) \/ Discard(s)
             \/ Close(s) \/ Crash(s)
    BY <2>1, <2>8 DEF Open, Admit, Refuse, SweepDirs, BeginPrepare, Copy, BeginRewrite, Discard, Close, Crash, dirs
  <2> QED BY <1>2, <2>3, <2>4, <2>5, <2>6, <2>7, <2>8 DEF Work
<1> QED BY <1>1, <1>2 DEF Next

(* The store implements the register that ReleaseActivation takes it for.   *)
THEOREM Refinement == Spec => ImplementsRegister
<1>1. Init => Register!Empty
  BY DEF Init, View, Register!Empty
<1>2. Core /\ Core' /\ [Next]_vars
        => [Register!Publish \/ Register!Restate \/ Register!Erase]_(View(active))
  BY RegisterStep
<1> QED BY <1>1, <1>2, CoreInvariant, PTL DEF Spec, ImplementsRegister, Register!RegisterSpec
=============================================================================
