----------------------------- MODULE ReleaseStore -----------------------------
(***************************************************************************)
(* The release store on disk (internal/releaseactivation/store.go): the    *)
(* file operations by which a lock session prepares, rewrites and clears   *)
(* the active transaction, in the order the code makes them.  A process    *)
(* may die between any two; what it leaves behind is collected by the next *)
(* session whose command passes its checks, before anything is changed.    *)
(* Loss of power is not modelled: a file operation that returned is        *)
(* visible to every later process.                                         *)
(***************************************************************************)
EXTENDS ReleaseModel

CONSTANTS Sessions,     \* processes that open the store
          TempNames,    \* random names of manifest temporaries
          NoOne,        \* the lock is free
          NoDir,        \* no such directory
          Missing,      \* no such manifest file
          Torn,         \* a manifest file that is not written completely
          MaxFaults     \* bound: process deaths and failed file operations

ASSUME StoreAssumption == /\ NoOne \notin Sessions \cup TempNames
                          /\ Missing # Torn /\ {Missing, Torn} \cap Manifest = {}
                          /\ MaxFaults \in Nat

VARIABLES active,    \* active/
          nexts,     \* active.next.<id>
          cleans,    \* cleanup.<id>
          lock,      \* holder of the lock file, or NoOne
          ctl,       \* the local state of each session
          issued,    \* release identities drawn so far
          faults     \* faults spent

dirs == <<active, nexts, cleans>>
vars == <<active, nexts, cleans, lock, ctl, issued, faults>>

(* A transaction directory.  "changed" are bytes other than those the       *)
(* manifest was made for.                                                   *)
Artifacts == {"candidate", "authority", "previous"}
Contents  == {"missing", "torn", "changed", "whole"}
Documents == Manifest \cup {Missing, Torn}
Dir == [files : [Artifacts -> Contents], man : Documents, temps : [TempNames -> Documents]]

ASSUME DirAssumption == NoDir \notin Dir

EmptyDir == [files |-> [a \in Artifacts |-> "missing"], man |-> Missing,
             temps |-> [t \in TempNames |-> Missing]]

(* Prepare copies the artifacts in this order; the previous executable only *)
(* when there is one.                                                       *)
Rank == [candidate |-> 1, authority |-> 2, previous |-> 3]
Wanted(m) == {a \in Artifacts : a = "previous" => m.prev # Absent}

(* loadActive accepts the directory. *)
Complete(d) == /\ d.man \in Manifest
               /\ \A a \in Wanted(d.man) : d.files[a] = "whole"

View(d) == IF d = NoDir THEN NoSlot ELSE d.man

(* What os.RemoveAll leaves after its next unlink: an entry less, in any    *)
(* order, and at last no directory.                                         *)
Unlinked(d) == {[d EXCEPT !.files[a] = "missing"] : a \in {b \in Artifacts : d.files[b] # "missing"}}
          \cup (IF d.man = Missing THEN {} ELSE {[d EXCEPT !.man = Missing]})
          \cup {[d EXCEPT !.temps[t] = Missing] : t \in {u \in TempNames : d.temps[u] # Missing}}
RemoveEntry(d) == IF Unlinked(d) = {} THEN {NoDir} ELSE Unlinked(d)

(***************************************************************************)
(* pc is the next step of a session: open are the checks of the command,   *)
(* sweep_temps and sweep_dirs are CleanupOrphans, copy .. publish are      *)
(* Prepare, temp .. rename are also Rewrite, discard ends Clear.           *)
(***************************************************************************)
Steps == {"idle", "open", "sweep_temps", "sweep_dirs", "ready", "copy", "check",
          "temp", "write", "rename", "publish", "discard"}
Storing == {"copy", "check", "temp", "write", "rename", "publish"}
Local == [pc   : Steps,
          cur  : Manifest \cup {NoSlot},        \* what the session last loaded or stored
          man  : Manifest \cup {NoSlot},        \* what it is storing or discarding
          temp : TempNames \cup {NoOne}]        \* the temporary it has open
Idle == [pc |-> "idle", cur |-> NoSlot, man |-> NoSlot, temp |-> NoOne]

At(s, step) == lock = s /\ ctl[s].pc = step
Go(s, step) == ctl' = [ctl EXCEPT ![s].pc = step]
End(s)      == ctl' = [ctl EXCEPT ![s] = Idle] /\ lock' = NoOne
Fault       == faults < MaxFaults /\ faults' = faults + 1

(* writeManifestAtomic works in active.next.<id> for Prepare, which needs   *)
(* an empty slot, and in active/ for Rewrite.                               *)
Where(s)  == IF ctl[s].cur = NoSlot THEN nexts[ctl[s].man.id] ELSE active
Put(s, d) == IF ctl[s].cur = NoSlot
             THEN nexts' = [nexts EXCEPT ![ctl[s].man.id] = d] /\ UNCHANGED active
             ELSE active' = d /\ UNCHANGED nexts

TempsIn(d) == IF d = NoDir THEN {} ELSE {t \in TempNames : d.temps[t] # Missing}

-----------------------------------------------------------------------------
Init == /\ active = NoDir
        /\ nexts = [i \in ReleaseIds |-> NoDir] /\ cleans = [i \in ReleaseIds |-> NoDir]
        /\ lock = NoOne /\ ctl = [s \in Sessions |-> Idle]
        /\ issued = 0 /\ faults = 0

(* Acquire, fail-fast, and Load: a slot that does not validate ends here.   *)
Open(s) ==
  /\ lock = NoOne /\ ctl[s].pc = "idle"
  /\ active # NoDir => Complete(active)
  /\ lock' = s
  /\ ctl' = [ctl EXCEPT ![s] = [Idle EXCEPT !.pc = "open", !.cur = View(active)]]
  /\ UNCHANGED <<dirs, issued, faults>>

(* The command passes its checks, and the first thing it does is to collect *)
(* what dead sessions left.                                                 *)
Admit(s) == /\ At(s, "open")
            /\ Go(s, "sweep_temps")
            /\ UNCHANGED <<dirs, lock, issued, faults>>

(* It does not: the slot is empty or taken, the authority, the identity or  *)
(* the sources are not the right ones.  Nor does a status report or a probe *)
(* go further.                                                              *)
Refuse(s) == /\ At(s, "open")
             /\ End(s)
             /\ UNCHANGED <<dirs, issued, faults>>

(* Faulty variant, for mutation runs: temporaries are never collected. *)
SweepTempsForgets(s) == /\ At(s, "sweep_temps")
                        /\ Go(s, "sweep_dirs")
                        /\ UNCHANGED <<dirs, lock, issued, faults>>

(* cleanupManifestTemps, one removal at a time. *)
SweepTemps(s) ==
  /\ At(s, "sweep_temps")
  /\ \/ /\ TempsIn(active) = {}
        /\ Go(s, "sweep_dirs") /\ UNCHANGED active
     \/ /\ \E t \in TempsIn(active) : active' = [active EXCEPT !.temps[t] = Missing]
        /\ UNCHANGED ctl
  /\ UNCHANGED <<nexts, cleans, lock, issued, faults>>

(* Faulty variant, for mutation runs: cleared transactions are not collected. *)
SweepDirsNextOnly(s) ==
  /\ At(s, "sweep_dirs")
  /\ \/ /\ \A i \in ReleaseIds : nexts[i] = NoDir
        /\ Go(s, "ready") /\ UNCHANGED nexts
     \/ /\ \E i \in {j \in ReleaseIds : nexts[j] # NoDir} :
             \E d \in RemoveEntry(nexts[i]) : nexts' = [nexts EXCEPT ![i] = d]
        /\ UNCHANGED ctl
  /\ UNCHANGED <<active, cleans, lock, issued, faults>>

(* cleanupRootOrphans. *)
SweepDirs(s) ==
  /\ At(s, "sweep_dirs")
  /\ \/ /\ \A i \in ReleaseIds : nexts[i] = NoDir /\ cleans[i] = NoDir
        /\ Go(s, "ready") /\ UNCHANGED <<nexts, cleans>>
     \/ /\ \E i \in {j \in ReleaseIds : nexts[j] # NoDir} :
             \E d \in RemoveEntry(nexts[i]) : nexts' = [nexts EXCEPT ![i] = d]
        /\ UNCHANGED <<cleans, ctl>>
     \/ /\ \E i \in {j \in ReleaseIds : cleans[j] # NoDir} :
             \E d \in RemoveEntry(cleans[i]) : cleans' = [cleans EXCEPT ![i] = d]
        /\ UNCHANGED <<nexts, ctl>>
  /\ UNCHANGED <<active, lock, issued, faults>>

(* Prepare: an absent active/, a fresh identity, a new active.next.<id>. *)
BeginPrepare(s) ==
  /\ At(s, "ready") /\ active = NoDir /\ issued < MaxReleases
  /\ issued' = issued + 1
  /\ \E m \in {x \in Manifest : x.id = issued + 1 /\ x.state = "prepared"} :
       /\ nexts' = [nexts EXCEPT ![m.id] = EmptyDir]
       /\ ctl' = [ctl EXCEPT ![s].pc = "copy", ![s].man = m]
  /\ UNCHANGED <<active, cleans, lock, faults>>

(* copyRegular: the destination is created, then filled.  The source may    *)
(* have changed since the manager hashed it.                                *)
Copy(s) ==
  LET m == ctl[s].man
      Left == {a \in Wanted(m) : nexts[m.id].files[a] \in {"missing", "torn"}}
      Fill(a, content) == nexts' = [nexts EXCEPT ![m.id].files[a] = content]
  IN /\ At(s, "copy")
     /\ \/ /\ Left = {}
           /\ Go(s, "check") /\ UNCHANGED <<nexts, faults>>
        \/ \E a \in Left :
             /\ \A b \in Left : Rank[a] <= Rank[b]
             /\ IF nexts[m.id].files[a] = "missing"
                THEN Fill(a, "torn") /\ UNCHANGED faults
                ELSE \/ Fill(a, "whole") /\ UNCHANGED faults
                     \/ Fill(a, "changed") /\ Fault
             /\ UNCHANGED ctl
     /\ UNCHANGED <<active, cleans, lock, issued>>

(* The deferred cleanup of a call that returns an error: the temporary and  *)
(* an unpublished active.next.<id> go.                                      *)
Undo(s) ==
  IF ctl[s].cur = NoSlot /\ ctl[s].pc \in Storing
  THEN nexts' = [nexts EXCEPT ![ctl[s].man.id] = NoDir] /\ UNCHANGED <<active, cleans>>
  ELSE IF ctl[s].temp # NoOne
       THEN active' = [active EXCEPT !.temps[ctl[s].temp] = Missing] /\ UNCHANGED <<nexts, cleans>>
       ELSE UNCHANGED dirs

(* The copies are compared with the hashes the manifest was made from. *)
CheckHashes(s) ==
  /\ At(s, "check")
  /\ \/ /\ \A a \in Wanted(ctl[s].man) : nexts[ctl[s].man.id].files[a] = "whole"
        /\ Go(s, "temp") /\ UNCHANGED <<dirs, lock>>
     \/ /\ \E a \in Wanted(ctl[s].man) : nexts[ctl[s].man.id].files[a] = "changed"
        /\ Undo(s) /\ End(s)
  /\ UNCHANGED <<issued, faults>>

(* Faulty variant, for mutation runs: the immutable fields are not compared. *)
BeginRewriteAny(s) ==
  /\ At(s, "ready") /\ active # NoDir /\ Complete(active)
  /\ \E m \in {x \in Manifest : x.id = active.man.id} :
       ctl' = [ctl EXCEPT ![s].pc = "temp", ![s].man = m]
  /\ UNCHANGED <<dirs, lock, issued, faults>>

(* Rewrite: what is on disk is loaded again, and only its state may differ. *)
BeginRewrite(s) ==
  /\ At(s, "ready") /\ active # NoDir /\ Complete(active)
  /\ \E t \in ActiveStates :
       ctl' = [ctl EXCEPT ![s].pc = "temp", ![s].man = [active.man EXCEPT !.state = t]]
  /\ UNCHANGED <<dirs, lock, issued, faults>>

(* Faulty variant, for mutation runs: manifest.json is truncated in place. *)
CreateTempInPlace(s) ==
  /\ At(s, "temp")
  /\ \E t \in TempNames \ TempsIn(Where(s)) :
       /\ Put(s, [Where(s) EXCEPT !.temps[t] = Torn, !.man = Torn])
       /\ ctl' = [ctl EXCEPT ![s].pc = "write", ![s].temp = t]
  /\ UNCHANGED <<cleans, lock, issued, faults>>

(* writeManifestAtomic: a new file under a random name, *)
CreateTemp(s) ==
  /\ At(s, "temp")
  /\ \E t \in TempNames \ TempsIn(Where(s)) :
       /\ Put(s, [Where(s) EXCEPT !.temps[t] = Torn])
       /\ ctl' = [ctl EXCEPT ![s].pc = "write", ![s].temp = t]
  /\ UNCHANGED <<cleans, lock, issued, faults>>

(* written, synced and closed, *)
WriteTemp(s) ==
  /\ At(s, "write")
  /\ Put(s, [Where(s) EXCEPT !.temps[ctl[s].temp] = ctl[s].man])
  /\ Go(s, "rename")
  /\ UNCHANGED <<cleans, lock, issued, faults>>

(* and renamed over manifest.json. *)
RenameTemp(s) ==
  /\ At(s, "rename")
  /\ Put(s, [Where(s) EXCEPT !.man = Where(s).temps[ctl[s].temp], !.temps[ctl[s].temp] = Missing])
  /\ ctl' = IF ctl[s].cur = NoSlot
            THEN [ctl EXCEPT ![s].pc = "publish", ![s].temp = NoOne]
            ELSE [ctl EXCEPT ![s].pc = "ready", ![s].temp = NoOne, ![s].cur = ctl[s].man]
  /\ UNCHANGED <<cleans, lock, issued, faults>>

(* active.next.<id> becomes active/. *)
PublishActive(s) ==
  /\ At(s, "publish")
  /\ active' = nexts[ctl[s].man.id]
  /\ nexts' = [nexts EXCEPT ![ctl[s].man.id] = NoDir]
  /\ ctl' = [ctl EXCEPT ![s].pc = "ready", ![s].cur = ctl[s].man]
  /\ UNCHANGED <<cleans, lock, issued, faults>>

(* Clear: active/ is renamed to cleanup.<id>; that is the commit point. *)
Clear(s) ==
  /\ At(s, "ready") /\ active # NoDir /\ Complete(active)
  /\ cleans[active.man.id] = NoDir
  /\ cleans' = [cleans EXCEPT ![active.man.id] = active]
  /\ active' = NoDir
  /\ ctl' = [ctl EXCEPT ![s].pc = "discard", ![s].cur = NoSlot, ![s].man = active.man]
  /\ UNCHANGED <<nexts, lock, issued, faults>>

(* The best-effort removal after the commit point. *)
Discard(s) ==
  /\ At(s, "discard")
  /\ \/ /\ cleans[ctl[s].man.id] = NoDir
        /\ Go(s, "ready") /\ UNCHANGED cleans
     \/ /\ cleans[ctl[s].man.id] # NoDir
        /\ \E d \in RemoveEntry(cleans[ctl[s].man.id]) : cleans' = [cleans EXCEPT ![ctl[s].man.id] = d]
        /\ UNCHANGED ctl
  /\ UNCHANGED <<active, nexts, lock, issued, faults>>

Close(s) == /\ At(s, "ready")
            /\ End(s)
            /\ UNCHANGED <<dirs, issued, faults>>

(* A file operation fails and the call returns its error. *)
Fail(s) == /\ lock = s /\ Fault
           /\ Undo(s) /\ End(s)
           /\ UNCHANGED issued

(* The process dies: the kernel drops the lock, the files stay. *)
Crash(s) == /\ lock = s /\ Fault
            /\ End(s)
            /\ UNCHANGED <<dirs, issued>>

Work(s) == \/ Admit(s) \/ Refuse(s) \/ SweepTemps(s) \/ SweepDirs(s)
           \/ BeginPrepare(s) \/ Copy(s) \/ CheckHashes(s)
           \/ BeginRewrite(s) \/ CreateTemp(s) \/ WriteTemp(s) \/ RenameTemp(s)
           \/ PublishActive(s) \/ Clear(s) \/ Discard(s) \/ Close(s)

Next == \E s \in Sessions : Open(s) \/ Work(s) \/ Fail(s) \/ Crash(s)

Spec == Init /\ [][Next]_vars

(* A session that runs goes on.  Nothing is assumed of the operator.        *)
FairSpec == Spec /\ \A s \in Sessions : WF_vars(Work(s))

-----------------------------------------------------------------------------
(* Every variable has its type, a holder has a session, and a directory     *)
(* under an identity was made after the identity was drawn.                 *)
TypeOK ==
  /\ active \in Dir \cup {NoDir}
  /\ nexts \in [ReleaseIds -> Dir \cup {NoDir}] /\ cleans \in [ReleaseIds -> Dir \cup {NoDir}]
  /\ lock \in Sessions \cup {NoOne}
  /\ ctl \in [Sessions -> Local]
  /\ issued \in 0 .. MaxReleases /\ faults \in 0 .. MaxFaults
  /\ \A i \in ReleaseIds : nexts[i] # NoDir \/ cleans[i] # NoDir => i <= issued
  /\ active # NoDir /\ active.man \in Manifest => active.man.id <= issued

(* Whatever a process left half done, a visible active/ has a whole         *)
(* manifest and every artifact that manifest names (loadActive never finds  *)
(* the slot malformed).                                                     *)
VisibleComplete == active # NoDir => Complete(active)

(* Only the lock holder has a session, and what it loaded or stored last is *)
(* what is on disk (the decisions of the manager rest on it).               *)
HolderView == \A s \in Sessions : ctl[s].pc # "idle" => lock = s /\ ctl[s].cur = View(active)

(* What a session relies on from one file operation to the next: Prepare    *)
(* works in a directory of its own beside an empty slot, on copies it has   *)
(* compared; Rewrite differs from what is on disk in the state alone; the   *)
(* temporary about to be renamed holds the manifest; and a session past     *)
(* CleanupOrphans has nothing beside active/ but what it made itself.       *)
Relies(s) == LET c == ctl[s] IN
  /\ c.pc \in Storing /\ c.cur = NoSlot =>
       /\ c.man \in Manifest /\ c.man.state = "prepared" /\ nexts[c.man.id] # NoDir
       /\ c.pc \notin {"copy", "check"} =>
            \A a \in Wanted(c.man) : nexts[c.man.id].files[a] = "whole"
       /\ c.pc = "publish" => nexts[c.man.id].man = c.man
       /\ TempsIn(nexts[c.man.id]) \subseteq {c.temp}
  /\ c.pc \in Storing /\ c.cur # NoSlot =>
       /\ c.pc \in {"temp", "write", "rename"}
       /\ \E t \in ActiveStates : c.man = [c.cur EXCEPT !.state = t]
  /\ c.temp # NoOne <=> c.pc \in {"write", "rename"}
  /\ c.pc = "rename" => Where(s).temps[c.temp] = c.man
  /\ c.pc = "discard" => c.man \in Manifest /\ c.cur = NoSlot
  /\ c.pc \notin {"idle", "open", "sweep_temps"} => TempsIn(active) \subseteq {c.temp}
  /\ c.pc \notin {"idle", "open", "sweep_temps", "sweep_dirs"} => \A i \in ReleaseIds :
       /\ nexts[i] # NoDir => c.pc \in Storing /\ c.cur = NoSlot /\ i = c.man.id
       /\ cleans[i] # NoDir => c.pc = "discard" /\ i = c.man.id
SessionInv == \A s \in Sessions : Relies(s)

(* Crashes do not pile up: at any time there is at most one remnant, be it  *)
(* a temporary in active/ or a directory beside it (CleanupOrphans runs     *)
(* before every mutation).                                                  *)
Remnants == {<<"temp", t>> : t \in TempsIn(active)}
              \cup {<<"next", i>> : i \in {j \in ReleaseIds : nexts[j] # NoDir}}
              \cup {<<"cleanup", i>> : i \in {j \in ReleaseIds : cleans[j] # NoDir}}
BoundedResidue == \A r1, r2 \in Remnants : r1 = r2

(* The files implement the register the manager relies on: every process    *)
(* death leaves the old or the new transaction, never a mixture.            *)
Register == INSTANCE SlotRegister WITH register <- View(active)
ImplementsRegister == Register!RegisterSpec

(* A remnant is collected in the end, provided that commands which pass     *)
(* their checks are run time and again (run, Prepare and WithClear collect  *)
(* only then): refused commands, probes and status reports collect nothing. *)
Collecting == \E s \in Sessions : ctl[s].pc \in {"sweep_temps", "sweep_dirs"}
ResidueCollected == []<>Collecting => ((Remnants # {}) ~> (Remnants = {}))
=============================================================================
