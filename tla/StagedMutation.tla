--------------------------- MODULE StagedMutation ---------------------------
(* Vault mutations (internal/fsx, internal/tools/obsidian/mutation_tools.go): *)
(* create, replace, edit, move and delete of one name.  Creating and          *)
(* replacing go through a helper process that writes a private stage file and *)
(* renames it over the target when the gateway says so; the two talk over a   *)
(* socket.  Either process may die, the caller may cancel at any time, and    *)
(* other applications write to the same directory.                            *)
EXTENDS Integers, FiniteSets

CONSTANTS
  Calls,      \* tool calls
  Names,      \* names in one vault directory, as matched on disk
  Present,    \* names that hold a file at first
  NoFile,     \* what an absent name holds
  Asked,      \* what the calls may ask for: operation, source and destination
  Slots,      \* helper processes at a time (4 in the code)
  MaxFaults,  \* bound: deaths of a helper and failed system calls
  MaxEdits    \* bound: changes by other applications

ASSUME NamesAssumption == Names # {}
ASSUME SlotsAssumption == Slots \in Nat \ {0}
ASSUME BoundsAssumption == MaxFaults \in Nat /\ MaxEdits \in Nat
ASSUME NoFileAssumption == NoFile \notin [id : Nat, whole : BOOLEAN]
ASSUME AskedAssumption ==
  \A a \in Asked :
    /\ a.op \in {"create", "replace", "edit", "move", "delete"}
    /\ a.src \in Names /\ a.dst \in Names
    /\ a.op # "move" => a.dst = a.src

VARIABLES
  vault,    \* the file every name holds: its identity, and whether its bytes are whole
  ids,      \* identities given out so far (device, inode, size and times in the code)
  request,  \* the call's operation, source, destination and expected identity
  pc,       \* where the gateway is in the call
  child,    \* where the call's helper process is
  down,     \* the frame on its way to the helper
  up,       \* the frame on its way to the gateway
  stage,    \* the helper's stage file
  terminal, \* the outcome the helper is about to report
  outcome,  \* the outcome the gateway is about to return
  verdict,  \* the outcome the caller was told
  canceled, \* whether the call's context has ended
  applied,  \* history: whether the call has changed the vault
  raced,    \* history: whether the name changed after its last revalidation
  gateway,  \* whether the gateway runs
  faults, edits  \* counters of the two bounds

vars == <<vault, ids, request, pc, child, down, up, stage, terminal, outcome, verdict,
          canceled, applied, raced, gateway, faults, edits>>
disk == <<vault, ids, applied, raced>>
helper == <<child, stage, terminal>>
wire == <<down, up>>
told == <<outcome, verdict, canceled>>
world == <<request, gateway, edits>>

Files == [id : Nat, whole : BOOLEAN]
NoFrame == "none"
Frames == {NoFrame, "request", "stage_created", "stage_ack", "stage_announced",
           "payload", "payload_complete", "commit"}
Terminals == {"committed", "source_changed", "destination_exists", "io", "unsupported",
              "uncertain"}
Verdicts == {"ok", "source_changed", "destination_exists", "not_found", "invalid_patch",
             "path_denied", "unsupported", "canceled", "uncertain"}
Requests == [op : {"create", "replace", "edit", "move", "delete"}, src : Names, dst : Names,
             expected : Nat]
Preparing == {"read", "prepare", "revalidate", "effect", "report"}
(* Between taking a helper slot and returning. *)
Launched == {"launch", "created", "announced", "complete", "decide", "commit", "await",
             "wait", "settle", "kill", "cleanup"}
Alive == {"start", "staged", "announced", "complete", "revalidate", "rename", "refuse",
          "report", "exiting", "cleaning"}

TypeOK ==
  /\ vault \in [Names -> Files \cup {NoFile}] /\ ids \in Nat
  /\ request \in [Calls -> Requests]
  /\ pc \in [Calls -> {"idle", "slot", "done", "lost"} \cup Preparing \cup Launched]
  /\ child \in [Calls -> Alive \cup {"none", "exited", "failed", "killed"}]
  /\ down \in [Calls -> Frames] /\ up \in [Calls -> Frames \cup Terminals]
  /\ stage \in [Calls -> {"none", "empty", "torn", "full", "stuck"}]
  /\ terminal \in [Calls -> Terminals \cup {"none"}]
  /\ outcome \in [Calls -> Verdicts \cup {"none"}]
  /\ verdict \in [Calls -> Verdicts \cup {"none"}]
  /\ canceled \in [Calls -> BOOLEAN] /\ applied \in [Calls -> BOOLEAN]
  /\ raced \in [Calls -> BOOLEAN] /\ gateway \in {"up", "down"}
  /\ faults \in 0..MaxFaults /\ edits \in 0..MaxEdits

Init ==
  /\ vault = [n \in Names |-> IF n \in Present THEN [id |-> 0, whole |-> TRUE] ELSE NoFile]
  /\ ids = 0
  /\ LET n == CHOOSE n \in Names : TRUE IN
     request = [c \in Calls |-> [op |-> "create", src |-> n, dst |-> n, expected |-> 0]]
  /\ pc = [c \in Calls |-> "idle"] /\ child = [c \in Calls |-> "none"]
  /\ down = [c \in Calls |-> NoFrame] /\ up = [c \in Calls |-> NoFrame]
  /\ stage = [c \in Calls |-> "none"] /\ terminal = [c \in Calls |-> "none"]
  /\ outcome = [c \in Calls |-> "none"] /\ verdict = [c \in Calls |-> "none"]
  /\ canceled = [c \in Calls |-> FALSE] /\ applied = [c \in Calls |-> FALSE]
  /\ raced = [c \in Calls |-> FALSE]
  /\ gateway = "up" /\ faults = 0 /\ edits = 0

-----------------------------------------------------------------------------
(* Steps every operation shares. *)

Goto(c, l) == pc' = [pc EXCEPT ![c] = l]
HelperAt(c, l) == child' = [child EXCEPT ![c] = l]
StageIs(c, s) == stage' = [stage EXCEPT ![c] = s]

(* Return to the caller; the deferred calls free the helper slot and end the context. *)
Return(c, v) ==
  /\ Goto(c, "done") /\ verdict' = [verdict EXCEPT ![c] = v]
  /\ outcome' = [outcome EXCEPT ![c] = "none"]
  /\ canceled' = [canceled EXCEPT ![c] = TRUE]

(* The outcome is known, and not yet returned. *)
Learn(c, v) == outcome' = [outcome EXCEPT ![c] = v] /\ UNCHANGED <<verdict, canceled>>

(* One more failed system call or killed process. *)
Fault == faults < MaxFaults /\ faults' = faults + 1

Holds(n, id) == vault[n] # NoFile /\ vault[n].id = id

(* The name holds the file the caller expects. *)
Matches(c) == Holds(request[c].src, request[c].expected)

(* Calls between their last look at the source and the system call. *)
Window == {c \in Calls : pc[c] = "effect" \/ child[c] = "rename"}

(* Call c makes its change. *)
Put(c, v) ==
  /\ vault' = v /\ applied' = [applied EXCEPT ![c] = TRUE]
  /\ raced' = [d \in Calls |-> IF d = c THEN FALSE ELSE
       raced[d] \/ (d \in Window /\ v[request[d].src] # vault[request[d].src])]

(* A file that has just been renamed into place: its identity is new. *)
Fresh(whole) == [id |-> ids + 1, whole |-> whole]

-----------------------------------------------------------------------------
(* The tool handlers, up to the effect. *)

(* A call: the client names a fingerprint it was given by an earlier stat or read. *)
Ask(c) ==
  /\ pc[c] = "idle" /\ gateway = "up"
  /\ \E a \in Asked :
       /\ a.op = "create" \/ vault[a.src] # NoFile
       /\ request' = [request EXCEPT ![c] = [op |-> a.op, src |-> a.src, dst |-> a.dst,
                        expected |-> IF a.op = "create" THEN 0 ELSE vault[a.src].id]]
       /\ Goto(c, IF a.op = "edit" THEN "read" ELSE "prepare")
  /\ UNCHANGED <<disk, helper, wire, told, gateway, edits, faults>>

(* The client cancels, or the operation deadline passes. *)
Cancel(c) ==
  /\ pc[c] \notin {"idle", "done", "lost"} /\ ~canceled[c]
  /\ canceled' = [canceled EXCEPT ![c] = TRUE]
  /\ UNCHANGED <<disk, helper, wire, outcome, verdict, pc, world, faults>>

(* An edit first reads the expected version and computes the patched bytes. *)
ReadSource(c) ==
  /\ pc[c] = "read"
  /\ \/ Matches(c) /\ Goto(c, "prepare") /\ UNCHANGED told
     \/ Matches(c) /\ Return(c, "invalid_patch")
     \/ ~Matches(c) /\ Return(c, IF vault[request[c].src] = NoFile THEN "not_found"
                                 ELSE "source_changed")
     \/ canceled[c] /\ Return(c, "canceled")
  /\ UNCHANGED <<disk, helper, wire, world, faults>>

(* Open and fingerprint the target, and look at the destination. *)
Prepare(c) ==
  LET r == request[c] IN
  /\ pc[c] = "prepare"
  /\ \/ canceled[c] /\ Return(c, "canceled")
     \/ r.op # "create" /\ vault[r.src] = NoFile /\ Return(c, "not_found")
     \/ r.op # "create" /\ vault[r.src] # NoFile /\ ~Matches(c) /\ Return(c, "source_changed")
     \/ /\ r.op = "create" \/ (r.op = "move" /\ Matches(c))
        /\ vault[r.dst] # NoFile /\ Return(c, "destination_exists")
     \/ /\ \/ r.op = "create" /\ vault[r.dst] = NoFile
           \/ r.op \in {"replace", "edit"} /\ Matches(c)
        /\ Goto(c, "slot") /\ UNCHANGED told
     \/ /\ r.op = "delete" \/ (r.op = "move" /\ vault[r.dst] = NoFile)
        /\ Matches(c) /\ Goto(c, "revalidate") /\ UNCHANGED told
  /\ UNCHANGED <<disk, helper, wire, world, faults>>

(* Move and delete look at the name again just before the effect. *)
Revalidate(c) ==
  LET r == request[c] IN
  /\ pc[c] = "revalidate"
  /\ \/ canceled[c] /\ Return(c, "canceled") /\ UNCHANGED raced
     \/ ~canceled[c] /\ ~Matches(c) /\ Return(c, "source_changed") /\ UNCHANGED raced
     \/ /\ ~canceled[c] /\ Matches(c) /\ r.op = "move" /\ vault[r.dst] # NoFile
        /\ Return(c, "destination_exists") /\ UNCHANGED raced
     \/ /\ ~canceled[c] /\ Matches(c) /\ (r.op = "move" => vault[r.dst] = NoFile)
        /\ Goto(c, "effect") /\ raced' = [raced EXCEPT ![c] = FALSE] /\ UNCHANGED told
  /\ UNCHANGED <<vault, ids, applied, helper, wire, world, faults>>

(* The exclusive rename of a move; it moves whatever the name holds now. *)
MoveEffect(c) ==
  LET r == request[c] IN
  /\ pc[c] = "effect" /\ r.op = "move"
  /\ \/ vault[r.dst] # NoFile /\ Return(c, "destination_exists")
        /\ UNCHANGED <<disk, faults>>
     \/ vault[r.src] = NoFile /\ Return(c, "path_denied") /\ UNCHANGED <<disk, faults>>
     \/ Fault /\ \E v \in {"unsupported", "path_denied"} : Return(c, v) /\ UNCHANGED disk
     \/ /\ vault[r.dst] = NoFile /\ vault[r.src] # NoFile
        /\ Put(c, [vault EXCEPT ![r.dst] = Fresh(vault[r.src].whole), ![r.src] = NoFile])
        /\ ids' = ids + 1
        /\ Goto(c, "report") /\ UNCHANGED <<told, faults>>
  /\ UNCHANGED <<helper, wire, world>>

(* The unlink of a delete. *)
DeleteEffect(c) ==
  LET r == request[c] IN
  /\ pc[c] = "effect" /\ r.op = "delete"
  /\ \/ vault[r.src] = NoFile /\ Return(c, "source_changed") /\ UNCHANGED <<disk, faults>>
     \/ Fault /\ Return(c, "source_changed") /\ UNCHANGED disk
     \/ /\ vault[r.src] # NoFile /\ Put(c, [vault EXCEPT ![r.src] = NoFile])
        /\ Goto(c, "report") /\ UNCHANGED <<ids, told, faults>>
  /\ UNCHANGED <<helper, wire, world>>

(* A move reads the moved file's new identity; a failure leaves it uncertain. *)
ReportEffect(c) ==
  /\ pc[c] = "report"
  /\ \/ Return(c, "ok") /\ UNCHANGED faults
     \/ request[c].op = "move" /\ Fault /\ Return(c, "uncertain")
  /\ UNCHANGED <<disk, helper, wire, world>>

-----------------------------------------------------------------------------
(* What either side may send after a frame; any other order is an error. *)
Following(frame) ==
  CASE frame = "request" -> "stage_created"
    [] frame = "stage_created" -> "stage_ack"
    [] frame = "stage_ack" -> "stage_announced"
    [] frame = "stage_announced" -> "payload"
    [] frame = "payload" -> "payload_complete"
    [] frame = "payload_complete" -> "commit"

(* The launcher: the gateway's side of a staged mutation. *)

Holders == {c \in Calls : pc[c] \in Launched}

TakeSlot(c) ==
  /\ pc[c] = "slot"
  /\ \/ Cardinality(Holders) < Slots /\ Goto(c, "launch") /\ UNCHANGED told
     \/ canceled[c] /\ Return(c, "canceled")
  /\ UNCHANGED <<disk, helper, wire, world, faults>>

(* Start the helper from this executable and send it the request. *)
Launch(c) ==
  /\ pc[c] = "launch"
  /\ \/ /\ HelperAt(c, "start") /\ down' = [down EXCEPT ![c] = "request"]
        /\ Goto(c, "created") /\ UNCHANGED <<told, faults>>
     \/ Fault /\ Return(c, "path_denied") /\ UNCHANGED <<child, down>>
  /\ UNCHANGED <<disk, stage, terminal, up, world>>

(* A receive that fails because the helper is gone or the context has ended. *)
Abort(c, v) == Goto(c, "kill") /\ Learn(c, v)

(* Faulty variant, for mutation runs: only the context is watched. *)
BrokenIfCanceled(c) ==
  /\ pc[c] \in {"created", "announced", "complete"} /\ canceled[c] /\ Abort(c, "canceled")
  /\ UNCHANGED <<disk, helper, wire, world, faults>>

Broken(c) ==
  /\ pc[c] \in {"created", "announced", "complete"}
  /\ canceled[c] \/ (child[c] \notin Alive /\ up[c] = NoFrame)
  /\ Abort(c, IF canceled[c] THEN "canceled" ELSE "path_denied")
  /\ UNCHANGED <<disk, helper, wire, world, faults>>

(* Receive the frame, send the one that follows and wait for the next. *)
Exchange(c, at, frame, then) ==
  /\ pc[c] = at /\ up[c] = frame
  /\ up' = [up EXCEPT ![c] = NoFrame] /\ down' = [down EXCEPT ![c] = Following(frame)]
  /\ Goto(c, then)
  /\ UNCHANGED <<disk, helper, told, world, faults>>

Acknowledge(c) == Exchange(c, "created", "stage_created", "announced")
SendPayload(c) == Exchange(c, "announced", "stage_announced", "complete")

Completed(c) ==
  /\ pc[c] = "complete" /\ up[c] = "payload_complete" /\ Goto(c, "decide")
  /\ up' = [up EXCEPT ![c] = NoFrame]
  /\ UNCHANGED <<disk, helper, down, told, world, faults>>

(* The helper turns out to run another executable than the one looked at. *)
WrongExecutable(c) ==
  /\ pc[c] = "created" /\ up[c] = "stage_created" /\ Fault /\ Abort(c, "path_denied")
  /\ UNCHANGED <<disk, helper, wire, world>>

(* The last look at the context before the commit. *)
Decide(c) ==
  /\ pc[c] = "decide"
  /\ \/ canceled[c] /\ Abort(c, "canceled")
     \/ ~canceled[c] /\ Goto(c, "commit") /\ UNCHANGED told
  /\ UNCHANGED <<disk, helper, wire, world, faults>>

(* Past this point the helper alone decides. *)
SendCommit(c) ==
  /\ pc[c] = "commit"
  /\ \/ /\ child[c] \in Alive /\ down' = [down EXCEPT ![c] = Following("payload_complete")]
        /\ Goto(c, "await") /\ UNCHANGED told
     \/ /\ child[c] \notin Alive \/ canceled[c]
        /\ Abort(c, "path_denied") /\ UNCHANGED down
  /\ UNCHANGED <<disk, helper, up, world, faults>>

(* Not committed: close the socket, kill the helper and wait for it. *)
KillHelper(c) ==
  /\ pc[c] = "kill" /\ Goto(c, "cleanup")
  /\ HelperAt(c, "none")
  /\ down' = [down EXCEPT ![c] = NoFrame] /\ up' = [up EXCEPT ![c] = NoFrame]
  /\ UNCHANGED <<disk, stage, terminal, told, world, faults>>

(* Unlink the stage the helper may have left. *)
Unlinked(c) == StageIs(c, "none") /\ UNCHANGED faults
NotUnlinked(c) == stage[c] # "none" /\ Fault /\ StageIs(c, "stuck")

CleanupStage(c) ==
  /\ pc[c] = "cleanup"
  /\ \/ Unlinked(c) /\ Return(c, outcome[c])
     \/ NotUnlinked(c) /\ Return(c, "uncertain")
  /\ UNCHANGED <<disk, child, terminal, wire, world>>

(* What the caller is told for the outcome the helper reports. *)
VerdictOf(t) == CASE t = "committed" -> "ok" [] t = "io" -> "path_denied" [] OTHER -> t

(* The answer to the commit, or its loss. *)
ReceiveTerminal(c) ==
  /\ pc[c] = "await" /\ Goto(c, "wait")
  /\ \/ /\ up[c] \in Terminals /\ up' = [up EXCEPT ![c] = NoFrame]
        /\ Learn(c, VerdictOf(up[c]))
     \/ /\ canceled[c] \/ (child[c] \notin Alive /\ up[c] = NoFrame)
        /\ Learn(c, "uncertain") /\ UNCHANGED up
  /\ UNCHANGED <<disk, helper, down, world, faults>>

(* Wait for the helper to exit, and kill it when the context ends first; the  *)
(* process is gone and reaped afterwards.                                     *)
WaitHelper(c) ==
  /\ pc[c] = "wait" /\ Goto(c, "settle")
  /\ \/ child[c] = "exited" /\ UNCHANGED told
     \/ child[c] \in {"failed", "killed"} /\ Learn(c, "uncertain")
     \/ child[c] \in Alive /\ canceled[c] /\ Learn(c, "uncertain")
  /\ HelperAt(c, "none") /\ down' = [down EXCEPT ![c] = NoFrame]
  /\ up' = [up EXCEPT ![c] = NoFrame]
  /\ UNCHANGED <<disk, stage, terminal, world, faults>>

(* Unless the mutation is known to be done, look for a stage file once more. *)
Settle(c) ==
  /\ pc[c] = "settle"
  /\ \/ outcome[c] = "ok" /\ Return(c, "ok") /\ UNCHANGED <<stage, faults>>
     \/ outcome[c] # "ok" /\ Unlinked(c) /\ Return(c, outcome[c])
     \/ outcome[c] # "ok" /\ NotUnlinked(c) /\ Return(c, "uncertain")
  /\ UNCHANGED <<disk, child, terminal, wire, world>>

-----------------------------------------------------------------------------
(* The helper process. *)

HelperOnly(c) == UNCHANGED <<pc, told, world>>

(* Receive the request, look at the source, create the private stage file and *)
(* say so.  A stage that cannot be looked at is left to the gateway.          *)
HelperStage(c) ==
  LET sourced == request[c].op = "create" \/ Matches(c) IN
  /\ child[c] = "start" /\ down[c] = "request"
  /\ down' = [down EXCEPT ![c] = NoFrame]
  /\ \/ /\ sourced /\ StageIs(c, "empty") /\ HelperAt(c, "staged")
        /\ up' = [up EXCEPT ![c] = Following("request")] /\ UNCHANGED faults
     \/ ~sourced /\ HelperAt(c, "failed") /\ UNCHANGED <<stage, up, faults>>
     \/ /\ Fault /\ UNCHANGED up
        /\ \/ HelperAt(c, "failed") /\ StageIs(c, "none")
           \/ HelperAt(c, "failed") /\ StageIs(c, "stuck")
           \/ HelperAt(c, "cleaning") /\ StageIs(c, "empty")
  /\ HelperOnly(c) /\ UNCHANGED <<disk, terminal>>

HelperAnnounce(c) ==
  /\ child[c] = "staged" /\ down[c] = "stage_ack"
  /\ down' = [down EXCEPT ![c] = NoFrame] /\ up' = [up EXCEPT ![c] = Following("stage_ack")]
  /\ HelperAt(c, "announced")
  /\ HelperOnly(c) /\ UNCHANGED <<disk, stage, terminal, faults>>

(* Faulty variant, for mutation runs: a short write is not noticed. *)
HelperWriteShort(c) ==
  /\ child[c] = "announced" /\ down[c] = "payload"
  /\ down' = [down EXCEPT ![c] = NoFrame]
  /\ \E s \in {"torn", "full"} : StageIs(c, s)
  /\ HelperAt(c, "complete") /\ up' = [up EXCEPT ![c] = Following("payload")]
  /\ HelperOnly(c) /\ UNCHANGED <<disk, terminal, faults>>

(* Receive the payload, write all of it and say so; a short write is an error. *)
HelperWrite(c) ==
  /\ child[c] = "announced" /\ down[c] = "payload"
  /\ down' = [down EXCEPT ![c] = NoFrame]
  /\ \/ /\ StageIs(c, "full") /\ HelperAt(c, "complete")
        /\ up' = [up EXCEPT ![c] = Following("payload")] /\ UNCHANGED faults
     \/ /\ Fault /\ StageIs(c, "torn") /\ HelperAt(c, "cleaning")
        /\ UNCHANGED up
  /\ HelperOnly(c) /\ UNCHANGED <<disk, terminal>>

HelperAccept(c) ==
  /\ child[c] = "complete" /\ down[c] = "commit"
  /\ down' = [down EXCEPT ![c] = NoFrame] /\ HelperAt(c, "revalidate")
  /\ HelperOnly(c) /\ UNCHANGED <<disk, stage, terminal, up, faults>>

Conclude(c, l, t) == HelperAt(c, l) /\ terminal' = [terminal EXCEPT ![c] = t]

(* Faulty variant, for mutation runs: the source is not looked at again. *)
HelperRevalidateNot(c) ==
  /\ child[c] = "revalidate" /\ HelperAt(c, "rename")
  /\ raced' = [raced EXCEPT ![c] = FALSE]
  /\ HelperOnly(c) /\ UNCHANGED <<vault, ids, applied, stage, terminal, wire, faults>>

(* The last look at the source, or at the absence of the destination. *)
HelperRevalidate(c) ==
  LET create == request[c].op = "create" IN
  /\ child[c] = "revalidate"
  /\ \/ /\ IF create THEN vault[request[c].dst] = NoFile ELSE Matches(c)
        /\ HelperAt(c, "rename") /\ raced' = [raced EXCEPT ![c] = FALSE]
        /\ UNCHANGED terminal
     \/ /\ create /\ vault[request[c].dst] # NoFile
        /\ Conclude(c, "refuse", "destination_exists") /\ UNCHANGED raced
     \/ /\ ~create /\ ~Matches(c)
        /\ Conclude(c, "refuse", "source_changed") /\ UNCHANGED raced
  /\ HelperOnly(c) /\ UNCHANGED <<vault, ids, applied, stage, wire, faults>>

(* Faulty variant, for mutation runs: a failed look at the new file is an error. *)
HelperRenameForgets(c) ==
  LET r == request[c] IN
  /\ child[c] = "rename"
  /\ Put(c, [vault EXCEPT ![r.dst] = Fresh(stage[c] = "full")]) /\ ids' = ids + 1
  /\ StageIs(c, "none")
  /\ \/ Conclude(c, "report", "committed") /\ UNCHANGED faults
     \/ Fault /\ Conclude(c, "report", "io")
  /\ HelperOnly(c) /\ UNCHANGED wire

(* The rename that is the effect: exclusive for a create, replacing otherwise. *)
HelperRename(c) ==
  LET r == request[c] IN
  /\ child[c] = "rename"
  /\ \/ /\ r.op = "create" /\ vault[r.dst] # NoFile
        /\ Conclude(c, "refuse", "destination_exists") /\ UNCHANGED <<disk, stage, faults>>
     \/ /\ Fault /\ \E t \in {"io", "unsupported"} :
             (t = "unsupported" => r.op = "create") /\ Conclude(c, "refuse", t)
        /\ UNCHANGED <<disk, stage>>
     \/ /\ r.op = "create" => vault[r.dst] = NoFile
        /\ Put(c, [vault EXCEPT ![r.dst] = Fresh(stage[c] = "full")]) /\ ids' = ids + 1
        /\ StageIs(c, "none")
        /\ \/ Conclude(c, "report", "committed") /\ UNCHANGED faults
           \/ Fault /\ Conclude(c, "report", "uncertain")
  /\ HelperOnly(c) /\ UNCHANGED wire

(* Without an effect the helper removes its stage before it answers. *)
HelperRefuse(c) ==
  /\ child[c] = "refuse"
  /\ \/ Unlinked(c) /\ HelperAt(c, "report")
     \/ NotUnlinked(c) /\ HelperAt(c, "failed")
  /\ HelperOnly(c) /\ UNCHANGED <<disk, terminal, wire>>

(* Send the terminal frame; nobody reads it when the gateway is gone. *)
HelperReport(c) ==
  /\ child[c] = "report"
  /\ \/ pc[c] # "lost" /\ up' = [up EXCEPT ![c] = terminal[c]] /\ HelperAt(c, "exiting")
     \/ pc[c] = "lost" /\ HelperAt(c, "failed") /\ UNCHANGED up
  /\ terminal' = [terminal EXCEPT ![c] = "none"]
  /\ HelperOnly(c) /\ UNCHANGED <<disk, stage, down, faults>>

HelperExit(c) ==
  /\ child[c] = "exiting" /\ HelperAt(c, "exited")
  /\ HelperOnly(c) /\ UNCHANGED <<disk, stage, terminal, wire, faults>>

(* The gateway is gone: the next receive fails. *)
HelperEof(c) ==
  /\ child[c] \in {"start", "staged", "announced", "complete"}
  /\ pc[c] = "lost" /\ down[c] = NoFrame /\ HelperAt(c, "cleaning")
  /\ HelperOnly(c) /\ UNCHANGED <<disk, stage, terminal, wire, faults>>

(* Faulty variant, for mutation runs: the stage is left behind. *)
HelperCleanNot(c) ==
  /\ child[c] = "cleaning" /\ HelperAt(c, "failed")
  /\ HelperOnly(c) /\ UNCHANGED <<disk, stage, terminal, wire, faults>>

(* An error before the commit: the helper removes its stage and exits. *)
HelperClean(c) ==
  /\ child[c] = "cleaning" /\ HelperAt(c, "failed")
  /\ Unlinked(c) \/ NotUnlinked(c)
  /\ HelperOnly(c) /\ UNCHANGED <<disk, terminal, wire>>

-----------------------------------------------------------------------------
(* The surroundings. *)

KillByOther(c) ==
  /\ child[c] \in Alive /\ Fault /\ HelperAt(c, "killed")
  /\ down' = [down EXCEPT ![c] = NoFrame]
  /\ HelperOnly(c) /\ UNCHANGED <<disk, stage, terminal, up>>

(* The gateway dies; its helpers live on and find the socket closed. *)
Crash ==
  /\ gateway = "up" /\ gateway' = "down"
  /\ pc' = [c \in Calls |-> IF pc[c] \in {"idle", "done"} THEN pc[c] ELSE "lost"]
  /\ UNCHANGED <<disk, helper, wire, told, request, edits, faults>>

(* Another application saves or removes a file. *)
OtherWriter(n) ==
  /\ edits < MaxEdits /\ edits' = edits + 1
  /\ \/ vault' = [vault EXCEPT ![n] = Fresh(TRUE)] /\ ids' = ids + 1
     \/ vault[n] # NoFile /\ vault' = [vault EXCEPT ![n] = NoFile] /\ UNCHANGED ids
  /\ raced' = [c \in Calls |-> raced[c] \/ (c \in Window /\ request[c].src = n)]
  /\ UNCHANGED <<applied, helper, wire, told, pc, request, gateway, faults>>

Gateway(c) ==
  \/ ReadSource(c) \/ Prepare(c) \/ Revalidate(c) \/ MoveEffect(c) \/ DeleteEffect(c)
  \/ ReportEffect(c) \/ TakeSlot(c) \/ Launch(c) \/ Broken(c) \/ Acknowledge(c)
  \/ SendPayload(c) \/ Completed(c) \/ WrongExecutable(c) \/ Decide(c) \/ SendCommit(c)
  \/ KillHelper(c) \/ CleanupStage(c) \/ ReceiveTerminal(c) \/ WaitHelper(c) \/ Settle(c)

Helper(c) ==
  \/ HelperStage(c) \/ HelperAnnounce(c) \/ HelperWrite(c) \/ HelperAccept(c)
  \/ HelperRevalidate(c) \/ HelperRename(c) \/ HelperRefuse(c) \/ HelperReport(c)
  \/ HelperExit(c) \/ HelperEof(c) \/ HelperClean(c)

Next ==
  \/ \E c \in Calls : Ask(c) \/ Cancel(c) \/ Gateway(c) \/ Helper(c) \/ KillByOther(c)
  \/ \E n \in Names : OtherWriter(n)
  \/ Crash

Spec == Init /\ [][Next]_vars

(* Both processes keep running until they die; nobody need cancel. *)
FairSpec == Spec /\ \A c \in Calls : WF_vars(Gateway(c)) /\ WF_vars(Helper(c))

-----------------------------------------------------------------------------
(* Properties. *)

(* A name never holds part of a payload: only a stage written to its end is   *)
(* ever renamed into place, whichever process dies when (the "complete prior  *)
(* or final bytes" of the tool descriptions).                                 *)
NeverTorn == \A n \in Names : vault[n] # NoFile => vault[n].whole

(* A call that has returned leaves no stage file in the user's directory,     *)
(* unless it said that its outcome is uncertain; the helper may have died     *)
(* before it announced the stage, or been killed beside its own cleanup.      *)
StageSwept ==
  \A c \in Calls : pc[c] = "done" /\ verdict[c] # "uncertain" => stage[c] = "none"

(* A create or a move never replaces a file, however late it appears, and a   *)
(* replacement, move or deletion hits the version the caller named unless     *)
(* another writer came between the last revalidation and the system call.     *)
OverwritesExpected ==
  [][\A c \in Calls : applied'[c] /\ ~applied[c] =>
       /\ request[c].op \in {"create", "move"} => vault[request[c].dst] = NoFile
       /\ request[c].op # "create" => Matches(c) \/ raced[c]]_vars

(* How far a call is for its client. *)
StateOf(c) ==
  CASE pc[c] = "idle" -> "idle"
    [] pc[c] = "done" /\ verdict[c] \in {"ok", "uncertain"} -> verdict[c]
    [] pc[c] = "done" /\ verdict[c] \notin {"ok", "uncertain"} -> "rejected"
    [] pc[c] \notin {"idle", "done"} /\ applied[c] -> "applied"
    [] OTHER -> "running"

Client == INSTANCE VaultCalls WITH
  Contents <- Files \cup {NoFile}, state <- [c \in Calls |-> StateOf(c)]

(* Answers are true: a success was done, once; a refusal, cancellation or     *)
(* error did nothing and will do nothing, although the process that renames   *)
(* is another one than the process that answers and either may die.           *)
ImplementsVaultCalls == Client!Spec

(* Every call returns, also the one that waits for a helper slot. *)
CallsReturn ==
  \A c \in Calls : pc[c] \notin {"idle", "done", "lost"} ~> pc[c] \in {"done", "lost"}

(* A stage file does not stay: whichever of the two processes survives takes  *)
(* it away, unless unlinking it fails or both are gone.                       *)
StagesVanish ==
  \A c \in Calls : stage[c] \in {"empty", "torn", "full"} ~>
    \/ stage[c] \in {"none", "stuck"}
    \/ pc[c] = "lost" /\ child[c] \in {"killed", "none"}
=============================================================================
