------------------------ MODULE StagedMutationProofs ------------------------
(***************************************************************************)
(* Proofs about StagedMutation for any number of calls, names, helper      *)
(* slots, faults and edits.                                                *)
(*                                                                         *)
(*   IInv == TypeOK /\ NeverTorn /\ \A c \in Calls : CallInv(c)            *)
(*                                                                         *)
(* is inductive.  A step of one call leaves the others as they were        *)
(* (OthersKept), so that each action needs only its own call to be looked  *)
(* at; the refinement of VaultCalls follows step by step.                  *)
(***************************************************************************)
EXTENDS StagedMutation, TLAPS

(* Where a call may have a helper process.                                 *)
Hosting == {"created", "announced", "complete", "decide", "commit", "await", "wait", "kill", "lost"}

(* A helper that has read the commit, and one that has answered or died.   *)
Committing == {"revalidate", "rename", "refuse", "report", "exiting", "exited"}
Spent      == {"exiting", "exited", "killed"}

(* A helper that has not made its change, wherever it stands.              *)
Unapplied == {"start", "staged", "announced", "complete", "revalidate", "rename", "refuse", "cleaning"}

(* Where a call cannot have made its change, and where no stage exists.    *)
Innocent == {"idle", "read", "prepare", "revalidate", "effect", "slot", "launch"}
Unstaged == Innocent \cup {"report"}

Staging == {"create", "replace", "edit"}

(* An outcome or terminal frame that is true of the call.                  *)
Tells(c, v) == /\ v \in {"ok", "committed"} => applied[c]
               /\ v \notin {"ok", "committed", "uncertain"} => ~applied[c]

(* The two processes of a call agree about where it stands.                *)
ProtocolInv(c) ==
  /\ child[c] # "none" => pc[c] \in Hosting
  /\ child[c] \in Committing \/ down[c] = "commit" => pc[c] \in {"await", "wait", "lost"}
  /\ pc[c] \in Launched \cup {"slot"} \/ child[c] # "none" => request[c].op \in Staging
  /\ up[c] \in Terminals => child[c] \in Spent
  /\ pc[c] = "wait" /\ outcome[c] # "uncertain" => child[c] \in Spent

(* Whatever is said about the change is true.                              *)
TruthInv(c) ==
  /\ applied[c] => pc[c] \in {"report", "await", "wait", "settle", "done", "lost"}
  /\ pc[c] = "report" => applied[c]
  /\ child[c] \in Unapplied => ~applied[c]
  /\ child[c] \in {"refuse", "report"} => Tells(c, terminal[c])
  /\ up[c] \in Terminals => Tells(c, up[c])
  /\ pc[c] \in {"wait", "settle"} => Tells(c, outcome[c])
  /\ pc[c] \in {"kill", "cleanup"} => outcome[c] \in {"canceled", "path_denied"}

(* The stage is whole before it is renamed, and gone once it was.          *)
StageInv(c) ==
  /\ child[c] \in {"complete", "revalidate", "rename"} => stage[c] = "full"
  /\ applied[c] \/ pc[c] \in Unstaged => stage[c] = "none"
  /\ pc[c] = "done" /\ verdict[c] # "uncertain" => stage[c] = "none"

(* Between the last look and the system call the name holds what is        *)
(* expected, or somebody came between.                                     *)
WindowInv(c) == c \in Window /\ request[c].op # "create" => Matches(c) \/ raced[c]

CallInv(c) == ProtocolInv(c) /\ TruthInv(c) /\ StageInv(c) /\ WindowInv(c)

IInv == TypeOK /\ NeverTorn /\ \A c \in Calls : CallInv(c)

USE SlotsAssumption, BoundsAssumption, NoFileAssumption, AskedAssumption, NamesAssumption
USE DEF Goto, HelperAt, StageIs, Learn, Fault, Abort, Exchange, Unlinked, NotUnlinked, HelperOnly, Conclude,
        disk, helper, wire, told, world

(***************************************************************************)
(* Types: what a call is told, and the rest.                               *)
(***************************************************************************)
Places == {"idle", "slot", "done", "lost"} \cup Preparing \cup Launched

Told == /\ pc \in [Calls -> Places] /\ canceled \in [Calls -> BOOLEAN]
        /\ outcome \in [Calls -> Verdicts \cup {"none"}]
        /\ verdict \in [Calls -> Verdicts \cup {"none"}]
Rest == /\ vault \in [Names -> Files \cup {NoFile}] /\ ids \in Nat
        /\ request \in [Calls -> Requests]
        /\ child \in [Calls -> Alive \cup {"none", "exited", "failed", "killed"}]
        /\ down \in [Calls -> Frames] /\ up \in [Calls -> Frames \cup Terminals]
        /\ stage \in [Calls -> {"none", "empty", "torn", "full", "stuck"}]
        /\ terminal \in [Calls -> Terminals \cup {"none"}]
        /\ applied \in [Calls -> BOOLEAN] /\ raced \in [Calls -> BOOLEAN]
        /\ gateway \in {"up", "down"} /\ faults \in 0..MaxFaults /\ edits \in 0..MaxEdits

(* Types: what is told, and the rest.                                      *)
LEMMA Parts == TypeOK <=> Told /\ Rest
BY DEF TypeOK, Told, Rest, Places

(* A new file and the outcome of a frame are well typed.                   *)
LEMMA FreshType == ASSUME Rest, NEW w \in BOOLEAN PROVE Fresh(w) \in Files
BY DEF Rest, Fresh, Files

(* A terminal frame stands for one verdict.                                *)
LEMMA VerdictType == ASSUME NEW t \in Terminals PROVE VerdictOf(t) \in Verdicts
BY DEF Terminals, VerdictOf, Verdicts

(* Requests name what is in the vault.                                     *)
LEMMA RequestNames == ASSUME Rest, NEW c \in Calls PROVE request[c].src \in Names /\ request[c].dst \in Names
BY DEF Rest, Requests

(* A change keeps the types of what it touches.                            *)
LEMMA PutTypes ==
  ASSUME Rest, NEW c \in Calls, NEW v \in [Names -> Files \cup {NoFile}], Put(c, v)
  PROVE  /\ vault' \in [Names -> Files \cup {NoFile}] /\ applied' \in [Calls -> BOOLEAN]
         /\ raced' \in [Calls -> BOOLEAN]
BY DEF Rest, Put

(* The ways to move on that all actions share.                             *)
LEMMA GotoTold ==
  ASSUME Told, NEW c, NEW l \in Places, pc' = [pc EXCEPT ![c] = l], UNCHANGED <<outcome, verdict, canceled>>
  PROVE  Told'
BY DEF Told
(* What a call learns is a verdict.                                        *)
LEMMA LearnTold ==
  ASSUME Told, NEW c, NEW l \in Places, NEW v \in Verdicts, pc' = [pc EXCEPT ![c] = l],
         outcome' = [outcome EXCEPT ![c] = v], UNCHANGED <<verdict, canceled>>
  PROVE  Told'
BY DEF Told
(* What it returns is a verdict.                                           *)
LEMMA ReturnTold ==
  ASSUME Told, NEW c, NEW v \in Verdicts \cup {"none"}, Return(c, v) PROVE Told'
BY DEF Told, Return, Places

(* What a call is told stays well typed.                                   *)
LEMMA ToldStep == ASSUME TypeOK, NEW c \in Calls, Gateway(c) PROVE Told'
<1> USE Parts
<1> DEFINE Words == {"ok", "source_changed", "destination_exists", "not_found", "invalid_patch",
                     "path_denied", "unsupported", "canceled", "uncertain"}
<1>v. Verdicts = Words
  BY DEF Verdicts
<1>1. ASSUME ReadSource(c) PROVE Told'
  BY <1>1, <1>v, ReturnTold, GotoTold DEF ReadSource, Places, Preparing, Launched
<1>2. ASSUME Prepare(c) PROVE Told'
  BY <1>2, <1>v, ReturnTold, GotoTold DEF Prepare, Places, Preparing, Launched
<1>3. ASSUME Revalidate(c) PROVE Told'
  BY <1>3, <1>v, ReturnTold, GotoTold DEF Revalidate, Places, Preparing, Launched
<1>4. ASSUME MoveEffect(c) PROVE Told'
  BY <1>4, <1>v, ReturnTold, GotoTold DEF MoveEffect, Places, Preparing, Launched
<1>5. ASSUME DeleteEffect(c) PROVE Told'
  BY <1>5, <1>v, ReturnTold, GotoTold DEF DeleteEffect, Places, Preparing, Launched
<1>6. ASSUME ReportEffect(c) PROVE Told'
  BY <1>6, <1>v, ReturnTold DEF ReportEffect, Places, Preparing, Launched
<1>7. ASSUME TakeSlot(c) PROVE Told'
  BY <1>7, <1>v, ReturnTold, GotoTold DEF TakeSlot, Places, Preparing, Launched
<1>8. ASSUME Launch(c) PROVE Told'
  BY <1>8, <1>v, ReturnTold, GotoTold DEF Launch, Places, Preparing, Launched
<1>9. ASSUME Broken(c) PROVE Told'
  BY <1>9, <1>v, LearnTold DEF Broken, Places, Preparing, Launched
<1>10. ASSUME Acknowledge(c) PROVE Told'
  BY <1>10, <1>v, GotoTold DEF Acknowledge, Places, Preparing, Launched
<1>11. ASSUME SendPayload(c) PROVE Told'
  BY <1>11, <1>v, GotoTold DEF SendPayload, Places, Preparing, Launched
<1>12. ASSUME Completed(c) PROVE Told'
  BY <1>12, <1>v, GotoTold DEF Completed, Places, Preparing, Launched
<1>13. ASSUME WrongExecutable(c) PROVE Told'
  BY <1>13, <1>v, LearnTold DEF WrongExecutable, Places, Preparing, Launched
<1>14. ASSUME Decide(c) PROVE Told'
  BY <1>14, <1>v, GotoTold, LearnTold DEF Decide, Places, Preparing, Launched
<1>15. ASSUME SendCommit(c) PROVE Told'
  BY <1>15, <1>v, GotoTold, LearnTold DEF SendCommit, Places, Preparing, Launched
<1>16. ASSUME KillHelper(c) PROVE Told'
  BY <1>16, <1>v, GotoTold DEF KillHelper, Places, Preparing, Launched
<1>17. ASSUME CleanupStage(c) PROVE Told'
  BY <1>17, <1>v, ReturnTold DEF CleanupStage, Told, Places, Preparing, Launched
<1>18. ASSUME ReceiveTerminal(c) PROVE Told'
  BY <1>18, <1>v, GotoTold, LearnTold, VerdictType DEF ReceiveTerminal, Places, Preparing, Launched
<1>19. ASSUME WaitHelper(c) PROVE Told'
  BY <1>19, <1>v, GotoTold, LearnTold DEF WaitHelper, Told, Places, Preparing, Launched
<1>20. ASSUME Settle(c) PROVE Told'
  BY <1>20, <1>v, ReturnTold DEF Settle, Told, Places, Preparing, Launched
<1> QED BY <1>1, <1>2, <1>3, <1>4, <1>5, <1>6, <1>7, <1>8, <1>9, <1>10, <1>11, <1>12, <1>13, <1>14, <1>15, <1>16,
   <1>17, <1>18, <1>19, <1>20 DEF Gateway

(* The rest stays well typed.                                              *)
LEMMA GatewayRest == ASSUME TypeOK, NEW c \in Calls, Gateway(c) PROVE Rest'
<1> USE Parts, RequestNames
<1>1. ASSUME ReadSource(c) PROVE Rest'
  BY <1>1 DEF ReadSource, Rest
<1>2. ASSUME Prepare(c) PROVE Rest'
  BY <1>2 DEF Prepare, Rest
<1>3. ASSUME Revalidate(c) PROVE Rest'
  BY <1>3 DEF Revalidate, Rest
<1>4. ASSUME MoveEffect(c) PROVE Rest'
  <2>1. CASE UNCHANGED disk
    BY <1>4, <2>1 DEF MoveEffect, Rest
  <2> DEFINE v == [vault EXCEPT ![request[c].dst] = Fresh(vault[request[c].src].whole), ![request[c].src] = NoFile]
  <2>2. CASE vault[request[c].src] # NoFile /\ Put(c, v) /\ ids' = ids + 1 /\ UNCHANGED faults
    <3>1. vault[request[c].src] \in Files
      BY <2>2 DEF Rest
    <3>2. Fresh(vault[request[c].src].whole) \in Files
      BY <3>1, FreshType DEF Files
    <3>3. v \in [Names -> Files \cup {NoFile}]
      BY <3>2 DEF Rest
    <3>4. /\ vault' \in [Names -> Files \cup {NoFile}] /\ applied' \in [Calls -> BOOLEAN]
          /\ raced' \in [Calls -> BOOLEAN]
      BY <2>2, <3>3, PutTypes
    <3> QED BY <1>4, <2>2, <3>4 DEF MoveEffect, Rest
  <2> QED BY <1>4, <2>1, <2>2 DEF MoveEffect
<1>5. ASSUME DeleteEffect(c) PROVE Rest'
  <2>1. CASE UNCHANGED disk
    BY <1>5, <2>1 DEF DeleteEffect, Rest
  <2>2. CASE Put(c, [vault EXCEPT ![request[c].src] = NoFile]) /\ UNCHANGED <<ids, faults>>
    <3>1. [vault EXCEPT ![request[c].src] = NoFile] \in [Names -> Files \cup {NoFile}]
      BY DEF Rest
    <3> QED BY <1>5, <2>2, <3>1, PutTypes DEF DeleteEffect, Rest
  <2> QED BY <1>5, <2>1, <2>2 DEF DeleteEffect
<1>6. ASSUME ReportEffect(c) PROVE Rest'
  BY <1>6 DEF ReportEffect, Rest
<1>7. ASSUME TakeSlot(c) PROVE Rest'
  BY <1>7 DEF TakeSlot, Rest
<1>8. ASSUME Launch(c) PROVE Rest'
  BY <1>8 DEF Launch, Rest, Frames, NoFrame, Alive
<1>9. ASSUME Broken(c) PROVE Rest'
  BY <1>9 DEF Broken, Rest, Frames, NoFrame
<1>10. ASSUME Acknowledge(c) PROVE Rest'
  BY <1>10 DEF Acknowledge, Rest, Following, Frames, NoFrame
<1>11. ASSUME SendPayload(c) PROVE Rest'
  BY <1>11 DEF SendPayload, Rest, Following, Frames, NoFrame
<1>12. ASSUME Completed(c) PROVE Rest'
  BY <1>12 DEF Completed, Rest, Frames, NoFrame
<1>13. ASSUME WrongExecutable(c) PROVE Rest'
  BY <1>13 DEF WrongExecutable, Rest
<1>14. ASSUME Decide(c) PROVE Rest'
  BY <1>14 DEF Decide, Rest
<1>15. ASSUME SendCommit(c) PROVE Rest'
  BY <1>15 DEF SendCommit, Rest, Following, Frames, NoFrame
<1>16. ASSUME KillHelper(c) PROVE Rest'
  BY <1>16 DEF KillHelper, Rest, Frames, NoFrame, Alive
<1>17. ASSUME CleanupStage(c) PROVE Rest'
  BY <1>17 DEF CleanupStage, Rest
<1>18. ASSUME ReceiveTerminal(c) PROVE Rest'
  BY <1>18 DEF ReceiveTerminal, Rest, Frames, NoFrame
<1>19. ASSUME WaitHelper(c) PROVE Rest'
  BY <1>19 DEF WaitHelper, Rest, Frames, NoFrame, Alive
<1>20. ASSUME Settle(c) PROVE Rest'
  BY <1>20 DEF Settle, Rest
<1> QED BY <1>1, <1>2, <1>3, <1>4, <1>5, <1>6, <1>7, <1>8, <1>9, <1>10, <1>11, <1>12, <1>13, <1>14, <1>15, <1>16,
   <1>17, <1>18, <1>19, <1>20 DEF Gateway

(* The helper keeps the types.                                             *)
LEMMA HelperTypes == ASSUME TypeOK, NEW c \in Calls, Helper(c) PROVE Told' /\ Rest'
<1> USE Parts, RequestNames
<1>1. ASSUME HelperStage(c) PROVE Rest'
  <2>1. /\ "none" \in Frames /\ Following("request") \in Frames
        /\ {"staged", "cleaning"} \subseteq Alive
    BY DEF Frames, NoFrame, Following, Alive
  <2>2. /\ down' = [down EXCEPT ![c] = "none"]
        /\ up' = up \/ up' = [up EXCEPT ![c] = Following("request")]
        /\ \/ child' = [child EXCEPT ![c] = "staged"]
           \/ child' = [child EXCEPT ![c] = "failed"]
           \/ child' = [child EXCEPT ![c] = "cleaning"]
    BY <1>1 DEF HelperStage, HelperAt, NoFrame
  <2>3. /\ stage' = stage \/ \E x \in {"none", "empty", "stuck"} : stage' = [stage EXCEPT ![c] = x]
        /\ faults' = faults \/ Fault
    BY <1>1 DEF HelperStage, StageIs
  <2>4. /\ down' \in [Calls -> Frames] /\ up' \in [Calls -> Frames \cup Terminals]
        /\ child' \in [Calls -> Alive \cup {"none", "exited", "failed", "killed"}]
    BY <2>1, <2>2 DEF Rest
  <2>5. stage' \in [Calls -> {"none", "empty", "torn", "full", "stuck"}] /\ faults' \in 0..MaxFaults
    BY <2>3 DEF Rest, Fault
  <2>6. UNCHANGED <<vault, ids, request, terminal, applied, raced, gateway, edits>>
    BY <1>1 DEF HelperStage, HelperOnly, disk
  <2> QED BY <2>4, <2>5, <2>6 DEF Rest
<1>2. ASSUME HelperAnnounce(c) PROVE Rest'
  BY <1>2 DEF HelperAnnounce, Rest, Following, Frames, NoFrame, Alive
<1>3. ASSUME HelperWrite(c) PROVE Rest'
  BY <1>3 DEF HelperWrite, Rest, Following, Frames, NoFrame, Alive
<1>4. ASSUME HelperAccept(c) PROVE Rest'
  BY <1>4 DEF HelperAccept, Rest, Frames, NoFrame, Alive
<1>5. ASSUME HelperRevalidate(c) PROVE Rest'
  BY <1>5 DEF HelperRevalidate, Rest, Alive, Terminals
<1>6. ASSUME HelperRename(c) PROVE Rest'
  <2>1. /\ {"refuse", "report"} \subseteq Alive
        /\ {"destination_exists", "io", "unsupported", "committed", "uncertain"} \subseteq Terminals
    BY DEF Alive, Terminals
  <2>2. CASE UNCHANGED <<disk, stage>>
    BY <1>6, <2>1, <2>2 DEF HelperRename, Rest
  <2> DEFINE v == [vault EXCEPT ![request[c].dst] = Fresh(stage[c] = "full")]
  <2>3. CASE Put(c, v) /\ ids' = ids + 1 /\ stage' = [stage EXCEPT ![c] = "none"]
    <3>1. v \in [Names -> Files \cup {NoFile}]
      BY FreshType DEF Rest
    <3>3. /\ child' \in [Calls -> Alive \cup {"none", "exited", "failed", "killed"}]
          /\ terminal' \in [Calls -> Terminals \cup {"none"}]
      BY <1>6, <2>1 DEF HelperRename, Rest
    <3>4. /\ vault' \in [Names -> Files \cup {NoFile}] /\ applied' \in [Calls -> BOOLEAN]
          /\ raced' \in [Calls -> BOOLEAN]
      BY <2>3, <3>1, PutTypes
    <3> QED BY <1>6, <2>3, <3>3, <3>4 DEF HelperRename, Rest
  <2> QED BY <1>6, <2>2, <2>3 DEF HelperRename
<1>7. ASSUME HelperRefuse(c) PROVE Rest'
  BY <1>7 DEF HelperRefuse, Rest, Alive
<1>8. ASSUME HelperReport(c) PROVE Rest'
  BY <1>8 DEF HelperReport, Rest, Frames, NoFrame, Alive
<1>9. ASSUME HelperExit(c) PROVE Rest'
  BY <1>9 DEF HelperExit, Rest, Alive
<1>10. ASSUME HelperEof(c) PROVE Rest'
  BY <1>10 DEF HelperEof, Rest, Frames, NoFrame, Alive
<1>11. ASSUME HelperClean(c) PROVE Rest'
  BY <1>11 DEF HelperClean, Rest, Alive
<1>12. Told'
  BY DEF Helper, Told, HelperStage, HelperAnnounce, HelperWrite, HelperAccept, HelperRevalidate, HelperRename,
     HelperRefuse, HelperReport, HelperExit, HelperEof, HelperClean
<1> QED BY <1>1, <1>2, <1>3, <1>4, <1>5, <1>6, <1>7, <1>8, <1>9, <1>10, <1>11, <1>12 DEF Helper

(* Every step keeps the types.                                             *)
LEMMA TypeStep == TypeOK /\ [Next]_vars => TypeOK'
<1> SUFFICES ASSUME TypeOK, [Next]_vars PROVE Told' /\ Rest'
  BY DEF TypeOK, Told, Rest, Places
<1> USE Parts
<1>1. ASSUME NEW c \in Calls, Ask(c) PROVE Told' /\ Rest'
  <2> PICK a \in Asked :
        /\ a.op = "create" \/ vault[a.src] # NoFile
        /\ request' = [request EXCEPT ![c] = [op |-> a.op, src |-> a.src, dst |-> a.dst,
                         expected |-> IF a.op = "create" THEN 0 ELSE vault[a.src].id]]
        /\ pc' = [pc EXCEPT ![c] = IF a.op = "edit" THEN "read" ELSE "prepare"]
    BY <1>1 DEF Ask
  <2>1. [op |-> a.op, src |-> a.src, dst |-> a.dst,
         expected |-> IF a.op = "create" THEN 0 ELSE vault[a.src].id] \in Requests
    <3>1. a.op # "create" => vault[a.src] \in Files
      BY DEF Rest
    <3>2. (IF a.op = "create" THEN 0 ELSE vault[a.src].id) \in Nat
      BY <3>1 DEF Files
    <3> QED BY <3>2 DEF Requests
  <2> QED BY <1>1, <2>1 DEF Ask, Told, Rest, Places, Preparing
<1>2. ASSUME NEW c \in Calls, Cancel(c) PROVE Told' /\ Rest'
  BY <1>2 DEF Cancel, Told, Rest
<1>3. ASSUME NEW c \in Calls, KillByOther(c) PROVE Told' /\ Rest'
  <2>1. Told'
    BY <1>3 DEF KillByOther, Told
  <2>2. Rest'
    BY <1>3 DEF KillByOther, Rest, Frames, NoFrame
  <2> QED BY <2>1, <2>2
<1>4. ASSUME NEW m \in Names, OtherWriter(m) PROVE Told' /\ Rest'
  <2>2. Told'
    BY <1>4 DEF OtherWriter, Told
  <2>3. Rest'
    <3>1. vault' \in [Names -> Files \cup {NoFile}] /\ ids' \in Nat
      <4>1. Fresh(TRUE) \in Files
        BY FreshType
      <4>2. PICK w \in Files \cup {NoFile} : vault' = [vault EXCEPT ![m] = w]
        BY <1>4, <4>1 DEF OtherWriter
      <4>3. ids' = ids + 1 \/ ids' = ids
        BY <1>4 DEF OtherWriter
      <4> QED BY <4>1, <4>2, <4>3 DEF Rest
    <3>2. raced' \in [Calls -> BOOLEAN] /\ edits' \in 0..MaxEdits
      BY <1>4 DEF OtherWriter, Rest
    <3> QED BY <1>4, <3>1, <3>2 DEF OtherWriter, Rest
  <2> QED BY <2>2, <2>3
<1>5. ASSUME Crash PROVE Told' /\ Rest'
  BY <1>5 DEF Crash, Told, Rest, Places
<1>6. ASSUME UNCHANGED vars PROVE Told' /\ Rest'
  BY <1>6 DEF vars, Told, Rest
<1> QED BY <1>1, <1>2, <1>3, <1>4, <1>5, <1>6, ToldStep, GatewayRest, HelperTypes DEF Next

(***************************************************************************)
(* The invariant of one call, and what the steps of the others leave of it.*)
(***************************************************************************)
(* Nothing of the call changes.                                            *)
Same(d) ==
  /\ request'[d] = request[d] /\ pc'[d] = pc[d] /\ child'[d] = child[d] /\ down'[d] = down[d] /\ up'[d] = up[d]
  /\ stage'[d] = stage[d] /\ terminal'[d] = terminal[d] /\ outcome'[d] = outcome[d] /\ verdict'[d] = verdict[d]
  /\ applied'[d] = applied[d]

(* A change of the name in the window of a call is remembered.             *)
Noted(d) == d \in Window => raced'[d] \/ (raced'[d] = raced[d] /\ vault'[request[d].src] = vault[request[d].src])

(* A call that a step leaves alone keeps its invariant.                    *)
LEMMA OthersKept == ASSUME NEW d \in Calls, CallInv(d), Same(d), Noted(d) PROVE CallInv(d)'
<1>1. ProtocolInv(d)' /\ StageInv(d)'
  BY DEF CallInv, ProtocolInv, StageInv, Same
<1>2. TruthInv(d)'
  BY DEF CallInv, TruthInv, Tells, Same
<1>3. WindowInv(d)'
  BY DEF CallInv, WindowInv, Window, Matches, Holds, Same, Noted
<1> QED BY <1>1, <1>2, <1>3 DEF CallInv

(* A change made by one call.                                              *)
LEMMA PutNoted ==
  ASSUME TypeOK, NEW c \in Calls, NEW v, Put(c, v), NEW d \in Calls, d # c
  PROVE  Noted(d) /\ applied'[d] = applied[d]
BY DEF Put, Noted, TypeOK
(* Putting a file under a name changes the vault and nothing else.         *)
LEMMA PutMade == ASSUME TypeOK, NEW c \in Calls, NEW v, Put(c, v) PROVE vault' = v /\ applied'[c] /\ ~raced'[c]
BY DEF Put, TypeOK

(* The step of a call keeps its own invariant.                             *)
LEMMA ClientOwn == ASSUME IInv, NEW c \in Calls, Ask(c) \/ Cancel(c) \/ KillByOther(c) PROVE CallInv(c)'
<1> USE DEF IInv
<1>1. ASSUME Ask(c) PROVE CallInv(c)'
  <2>1. ProtocolInv(c)'
    BY <1>1 DEF Ask, TypeOK, CallInv, ProtocolInv, Hosting, Committing, Spent, Staging, Launched, Terminals
  <2>2. TruthInv(c)'
    BY <1>1 DEF Ask, TypeOK, CallInv, ProtocolInv, TruthInv, Tells, Hosting, Spent, Unapplied, Terminals
  <2>3. StageInv(c)'
    BY <1>1 DEF Ask, TypeOK, CallInv, ProtocolInv, TruthInv, StageInv, Hosting, Unstaged, Innocent, Unapplied
  <2>4. WindowInv(c)'
    BY <1>1 DEF Ask, Matches, Holds, TypeOK, CallInv, ProtocolInv, WindowInv, Window
  <2> QED BY <2>1, <2>2, <2>3, <2>4 DEF CallInv
<1>2. ASSUME Cancel(c) PROVE CallInv(c)'
  <2>1. ProtocolInv(c)'
    BY <1>2 DEF Cancel, TypeOK, CallInv, ProtocolInv, Hosting, Committing, Spent, Staging, Launched, Terminals
  <2>2. TruthInv(c)'
    BY <1>2 DEF Cancel, TypeOK, CallInv, ProtocolInv, TruthInv, Tells, Hosting, Spent, Unapplied, Terminals
  <2>3. StageInv(c)'
    BY <1>2 DEF Cancel, TypeOK, CallInv, ProtocolInv, TruthInv, StageInv, Hosting, Unstaged, Innocent, Unapplied
  <2>4. WindowInv(c)'
    BY <1>2 DEF Cancel, Matches, Holds, TypeOK, CallInv, ProtocolInv, WindowInv, Window
  <2> QED BY <2>1, <2>2, <2>3, <2>4 DEF CallInv
<1>3. ASSUME KillByOther(c) PROVE CallInv(c)'
  <2>1. ProtocolInv(c)'
    BY <1>3 DEF KillByOther, NoFrame, TypeOK, CallInv, ProtocolInv, Hosting, Committing, Spent, Staging, Launched,
       Alive, Terminals
  <2>2. TruthInv(c)'
    BY <1>3 DEF KillByOther, NoFrame, TypeOK, CallInv, ProtocolInv, TruthInv, Tells, Hosting, Spent, Unapplied,
       Terminals
  <2>3. StageInv(c)'
    BY <1>3 DEF KillByOther, TypeOK, CallInv, ProtocolInv, TruthInv, StageInv, Hosting, Unstaged, Innocent, Unapplied
  <2>4. WindowInv(c)'
    BY <1>3 DEF KillByOther, Matches, Holds, TypeOK, CallInv, ProtocolInv, WindowInv, Window
  <2> QED BY <2>1, <2>2, <2>3, <2>4 DEF CallInv
<1> QED BY <1>1, <1>2, <1>3

(* The steps of a call in the gateway keep its own invariant.              *)
LEMMA GatewayOwn == ASSUME IInv, NEW c \in Calls, Gateway(c) PROVE CallInv(c)'
<1> USE DEF IInv
<1>1. ASSUME ReadSource(c) PROVE CallInv(c)'
  <2>1. ProtocolInv(c)'
    BY <1>1 DEF ReadSource, Return, Holds, Matches, TypeOK, CallInv, ProtocolInv, Hosting, Committing, Spent,
       Staging, Launched, Terminals
  <2>2. TruthInv(c)'
    BY <1>1 DEF ReadSource, Return, Holds, Matches, TypeOK, CallInv, ProtocolInv, TruthInv, Tells, Hosting, Spent,
       Unapplied, Terminals
  <2>3. StageInv(c)'
    BY <1>1 DEF ReadSource, Return, Holds, Matches, TypeOK, CallInv, ProtocolInv, TruthInv, StageInv, Hosting,
       Unstaged, Innocent, Unapplied
  <2>4. WindowInv(c)'
    BY <1>1 DEF ReadSource, Return, Holds, Matches, TypeOK, CallInv, ProtocolInv, WindowInv, Window
  <2> QED BY <2>1, <2>2, <2>3, <2>4 DEF CallInv
<1>2. ASSUME Prepare(c) PROVE CallInv(c)'
  <2>1. ProtocolInv(c)'
    BY <1>2 DEF Prepare, Return, Holds, Matches, TypeOK, CallInv, ProtocolInv, Hosting, Committing, Spent, Staging,
       Launched, Terminals
  <2>2. TruthInv(c)'
    BY <1>2 DEF Prepare, Return, Holds, Matches, TypeOK, CallInv, ProtocolInv, TruthInv, Tells, Hosting, Spent,
       Unapplied, Terminals
  <2>3. StageInv(c)'
    BY <1>2 DEF Prepare, Return, Holds, Matches, TypeOK, CallInv, ProtocolInv, TruthInv, StageInv, Hosting, Unstaged,
       Innocent, Unapplied
  <2>4. WindowInv(c)'
    BY <1>2 DEF Prepare, Return, Holds, Matches, TypeOK, CallInv, ProtocolInv, WindowInv, Window
  <2> QED BY <2>1, <2>2, <2>3, <2>4 DEF CallInv
<1>3. ASSUME Revalidate(c) PROVE CallInv(c)'
  <2>1. ProtocolInv(c)'
    BY <1>3 DEF Revalidate, Return, Holds, Matches, TypeOK, CallInv, ProtocolInv, Hosting, Committing, Spent,
       Staging, Launched, Terminals
  <2>2. TruthInv(c)'
    BY <1>3 DEF Revalidate, Return, Holds, Matches, TypeOK, CallInv, ProtocolInv, TruthInv, Tells, Hosting, Spent,
       Unapplied, Terminals
  <2>3. StageInv(c)'
    BY <1>3 DEF Revalidate, Return, Holds, Matches, TypeOK, CallInv, ProtocolInv, TruthInv, StageInv, Hosting,
       Unstaged, Innocent, Unapplied
  <2>4. WindowInv(c)'
    BY <1>3 DEF Revalidate, Return, Holds, Matches, TypeOK, CallInv, ProtocolInv, WindowInv, Window
  <2> QED BY <2>1, <2>2, <2>3, <2>4 DEF CallInv
<1>4. ASSUME MoveEffect(c) PROVE CallInv(c)'
  <2>0. /\ pc[c] = "effect" /\ UNCHANGED <<request, child, down, up, stage, terminal>>
        /\ \/ pc'[c] = "report" /\ applied'[c]
           \/ pc'[c] = "done" /\ UNCHANGED applied
    BY <1>4, PutMade DEF MoveEffect, Return, TypeOK
  <2>1. child[c] = "none" /\ down[c] # "commit" /\ up[c] \notin Terminals /\ stage[c] = "none" /\ ~applied[c]
    BY <2>0 DEF CallInv, ProtocolInv, TruthInv, StageInv, Hosting, Unstaged, Innocent, Spent
  <2>2. ProtocolInv(c)'
    BY <2>0, <2>1 DEF ProtocolInv, Committing, Launched
  <2>3. TruthInv(c)'
    BY <2>0, <2>1 DEF TruthInv, Unapplied
  <2>4. StageInv(c)' /\ WindowInv(c)'
    BY <2>0, <2>1 DEF StageInv, WindowInv, Window
  <2> QED BY <2>2, <2>3, <2>4 DEF CallInv
<1>5. ASSUME DeleteEffect(c) PROVE CallInv(c)'
  <2>0. /\ pc[c] = "effect" /\ UNCHANGED <<request, child, down, up, stage, terminal>>
        /\ \/ pc'[c] = "report" /\ applied'[c]
           \/ pc'[c] = "done" /\ UNCHANGED applied
    BY <1>5, PutMade DEF DeleteEffect, Return, TypeOK
  <2>1. child[c] = "none" /\ down[c] # "commit" /\ up[c] \notin Terminals /\ stage[c] = "none" /\ ~applied[c]
    BY <2>0 DEF CallInv, ProtocolInv, TruthInv, StageInv, Hosting, Unstaged, Innocent, Spent
  <2>2. ProtocolInv(c)'
    BY <2>0, <2>1 DEF ProtocolInv, Committing, Launched
  <2>3. TruthInv(c)'
    BY <2>0, <2>1 DEF TruthInv, Unapplied
  <2>4. StageInv(c)' /\ WindowInv(c)'
    BY <2>0, <2>1 DEF StageInv, WindowInv, Window
  <2> QED BY <2>2, <2>3, <2>4 DEF CallInv
<1>6. ASSUME ReportEffect(c) PROVE CallInv(c)'
  <2>1. ProtocolInv(c)'
    BY <1>6 DEF ReportEffect, Return, TypeOK, CallInv, ProtocolInv, Hosting, Committing, Spent, Staging, Launched,
       Terminals
  <2>2. TruthInv(c)'
    BY <1>6 DEF ReportEffect, Return, TypeOK, CallInv, ProtocolInv, TruthInv, Tells, Hosting, Spent, Unapplied,
       Terminals
  <2>3. StageInv(c)'
    BY <1>6 DEF ReportEffect, Return, TypeOK, CallInv, ProtocolInv, TruthInv, StageInv, Hosting, Unstaged, Innocent,
       Unapplied
  <2>4. WindowInv(c)'
    BY <1>6 DEF ReportEffect, Return, Matches, Holds, TypeOK, CallInv, ProtocolInv, WindowInv, Window
  <2> QED BY <2>1, <2>2, <2>3, <2>4 DEF CallInv
<1>7. ASSUME TakeSlot(c) PROVE CallInv(c)'
  <2>1. ProtocolInv(c)'
    BY <1>7 DEF TakeSlot, Return, TypeOK, CallInv, ProtocolInv, Hosting, Committing, Spent, Staging, Launched,
       Terminals
  <2>2. TruthInv(c)'
    BY <1>7 DEF TakeSlot, Return, TypeOK, CallInv, ProtocolInv, TruthInv, Tells, Hosting, Spent, Unapplied, Terminals
  <2>3. StageInv(c)'
    BY <1>7 DEF TakeSlot, Return, TypeOK, CallInv, ProtocolInv, TruthInv, StageInv, Hosting, Unstaged, Innocent,
       Unapplied
  <2>4. WindowInv(c)'
    BY <1>7 DEF TakeSlot, Return, Matches, Holds, TypeOK, CallInv, ProtocolInv, WindowInv, Window
  <2> QED BY <2>1, <2>2, <2>3, <2>4 DEF CallInv
<1>8. ASSUME Launch(c) PROVE CallInv(c)'
  <2>1. ProtocolInv(c)'
    BY <1>8 DEF Launch, Return, TypeOK, CallInv, ProtocolInv, Hosting, Committing, Spent, Staging, Launched, Terminals
  <2>2. TruthInv(c)'
    BY <1>8 DEF Launch, Return, TypeOK, CallInv, ProtocolInv, TruthInv, Tells, Hosting, Spent, Unapplied, Terminals
  <2>3. StageInv(c)'
    BY <1>8 DEF Launch, Return, TypeOK, CallInv, ProtocolInv, TruthInv, StageInv, Hosting, Unstaged, Innocent,
       Unapplied
  <2>4. WindowInv(c)'
    BY <1>8 DEF Launch, Return, Matches, Holds, TypeOK, CallInv, ProtocolInv, WindowInv, Window
  <2> QED BY <2>1, <2>2, <2>3, <2>4 DEF CallInv
<1>9. ASSUME Broken(c) PROVE CallInv(c)'
  <2>1. ProtocolInv(c)'
    BY <1>9 DEF Broken, TypeOK, CallInv, ProtocolInv, Hosting, Committing, Spent, Staging, Launched, Alive, Terminals
  <2>2. TruthInv(c)'
    BY <1>9 DEF Broken, TypeOK, CallInv, ProtocolInv, TruthInv, Tells, Hosting, Spent, Unapplied, Terminals
  <2>3. StageInv(c)'
    BY <1>9 DEF Broken, TypeOK, CallInv, ProtocolInv, TruthInv, StageInv, Hosting, Unstaged, Innocent, Unapplied
  <2>4. WindowInv(c)'
    BY <1>9 DEF Broken, Matches, Holds, TypeOK, CallInv, ProtocolInv, WindowInv, Window
  <2> QED BY <2>1, <2>2, <2>3, <2>4 DEF CallInv
<1>10. ASSUME Acknowledge(c) PROVE CallInv(c)'
  <2>1. ProtocolInv(c)'
    BY <1>10 DEF Acknowledge, Following, NoFrame, TypeOK, CallInv, ProtocolInv, Hosting, Committing, Spent, Staging,
       Launched, Terminals
  <2>2. TruthInv(c)'
    BY <1>10 DEF Acknowledge, Following, NoFrame, TypeOK, CallInv, ProtocolInv, TruthInv, Tells, Hosting, Spent,
       Unapplied, Terminals
  <2>3. StageInv(c)'
    BY <1>10 DEF Acknowledge, Following, TypeOK, CallInv, ProtocolInv, TruthInv, StageInv, Hosting, Unstaged,
       Innocent, Unapplied
  <2>4. WindowInv(c)'
    BY <1>10 DEF Acknowledge, Following, Matches, Holds, TypeOK, CallInv, ProtocolInv, WindowInv, Window
  <2> QED BY <2>1, <2>2, <2>3, <2>4 DEF CallInv
<1>11. ASSUME SendPayload(c) PROVE CallInv(c)'
  <2>1. ProtocolInv(c)'
    BY <1>11 DEF SendPayload, Following, NoFrame, TypeOK, CallInv, ProtocolInv, Hosting, Committing, Spent, Staging,
       Launched, Terminals
  <2>2. TruthInv(c)'
    BY <1>11 DEF SendPayload, Following, NoFrame, TypeOK, CallInv, ProtocolInv, TruthInv, Tells, Hosting, Spent,
       Unapplied, Terminals
  <2>3. StageInv(c)'
    BY <1>11 DEF SendPayload, Following, TypeOK, CallInv, ProtocolInv, TruthInv, StageInv, Hosting, Unstaged,
       Innocent, Unapplied
  <2>4. WindowInv(c)'
    BY <1>11 DEF SendPayload, Following, Matches, Holds, TypeOK, CallInv, ProtocolInv, WindowInv, Window
  <2> QED BY <2>1, <2>2, <2>3, <2>4 DEF CallInv
<1>12. ASSUME Completed(c) PROVE CallInv(c)'
  <2>1. ProtocolInv(c)'
    BY <1>12 DEF Completed, NoFrame, TypeOK, CallInv, ProtocolInv, Hosting, Committing, Spent, Staging, Launched,
       Terminals
  <2>2. TruthInv(c)'
    BY <1>12 DEF Completed, NoFrame, TypeOK, CallInv, ProtocolInv, TruthInv, Tells, Hosting, Spent, Unapplied,
       Terminals
  <2>3. StageInv(c)'
    BY <1>12 DEF Completed, TypeOK, CallInv, ProtocolInv, TruthInv, StageInv, Hosting, Unstaged, Innocent, Unapplied
  <2>4. WindowInv(c)'
    BY <1>12 DEF Completed, Matches, Holds, TypeOK, CallInv, ProtocolInv, WindowInv, Window
  <2> QED BY <2>1, <2>2, <2>3, <2>4 DEF CallInv
<1>13. ASSUME WrongExecutable(c) PROVE CallInv(c)'
  <2>1. ProtocolInv(c)'
    BY <1>13 DEF WrongExecutable, TypeOK, CallInv, ProtocolInv, Hosting, Committing, Spent, Staging, Launched,
       Terminals
  <2>2. TruthInv(c)'
    BY <1>13 DEF WrongExecutable, TypeOK, CallInv, ProtocolInv, TruthInv, Tells, Hosting, Spent, Unapplied, Terminals
  <2>3. StageInv(c)'
    BY <1>13 DEF WrongExecutable, TypeOK, CallInv, ProtocolInv, TruthInv, StageInv, Hosting, Unstaged, Innocent,
       Unapplied
  <2>4. WindowInv(c)'
    BY <1>13 DEF WrongExecutable, Matches, Holds, TypeOK, CallInv, ProtocolInv, WindowInv, Window
  <2> QED BY <2>1, <2>2, <2>3, <2>4 DEF CallInv
<1>14. ASSUME Decide(c) PROVE CallInv(c)'
  <2>1. ProtocolInv(c)'
    BY <1>14 DEF Decide, TypeOK, CallInv, ProtocolInv, Hosting, Committing, Spent, Staging, Launched, Terminals
  <2>2. TruthInv(c)'
    BY <1>14 DEF Decide, TypeOK, CallInv, ProtocolInv, TruthInv, Tells, Hosting, Spent, Unapplied, Terminals
  <2>3. StageInv(c)'
    BY <1>14 DEF Decide, TypeOK, CallInv, ProtocolInv, TruthInv, StageInv, Hosting, Unstaged, Innocent, Unapplied
  <2>4. WindowInv(c)'
    BY <1>14 DEF Decide, Matches, Holds, TypeOK, CallInv, ProtocolInv, WindowInv, Window
  <2> QED BY <2>1, <2>2, <2>3, <2>4 DEF CallInv
<1>15. ASSUME SendCommit(c) PROVE CallInv(c)'
  <2>1. ProtocolInv(c)'
    BY <1>15 DEF SendCommit, Following, TypeOK, CallInv, ProtocolInv, Hosting, Committing, Spent, Staging, Launched,
       Alive, Terminals
  <2>2. TruthInv(c)'
    BY <1>15 DEF SendCommit, Following, TypeOK, CallInv, ProtocolInv, TruthInv, Tells, Hosting, Spent, Unapplied,
       Terminals
  <2>3. StageInv(c)'
    BY <1>15 DEF SendCommit, Following, TypeOK, CallInv, ProtocolInv, TruthInv, StageInv, Hosting, Unstaged,
       Innocent, Unapplied
  <2>4. WindowInv(c)'
    BY <1>15 DEF SendCommit, Following, Matches, Holds, TypeOK, CallInv, ProtocolInv, WindowInv, Window
  <2> QED BY <2>1, <2>2, <2>3, <2>4 DEF CallInv
<1>16. ASSUME KillHelper(c) PROVE CallInv(c)'
  <2>1. ProtocolInv(c)'
    BY <1>16 DEF KillHelper, NoFrame, TypeOK, CallInv, ProtocolInv, Hosting, Committing, Spent, Staging, Launched,
       Terminals
  <2>2. TruthInv(c)'
    BY <1>16 DEF KillHelper, NoFrame, TypeOK, CallInv, ProtocolInv, TruthInv, Tells, Hosting, Spent, Unapplied,
       Terminals
  <2>3. StageInv(c)'
    BY <1>16 DEF KillHelper, TypeOK, CallInv, ProtocolInv, TruthInv, StageInv, Hosting, Unstaged, Innocent, Unapplied
  <2>4. WindowInv(c)'
    BY <1>16 DEF KillHelper, Matches, Holds, TypeOK, CallInv, ProtocolInv, WindowInv, Window
  <2> QED BY <2>1, <2>2, <2>3, <2>4 DEF CallInv
<1>17. ASSUME CleanupStage(c) PROVE CallInv(c)'
  <2>1. ProtocolInv(c)'
    BY <1>17 DEF CleanupStage, Return, TypeOK, CallInv, ProtocolInv, Hosting, Committing, Spent, Staging, Launched,
       Terminals
  <2>2. TruthInv(c)'
    BY <1>17 DEF CleanupStage, Return, TypeOK, CallInv, ProtocolInv, TruthInv, Tells, Hosting, Spent, Unapplied,
       Terminals
  <2>3. StageInv(c)'
    BY <1>17 DEF CleanupStage, Return, TypeOK, CallInv, ProtocolInv, TruthInv, StageInv, Hosting, Unstaged, Innocent,
       Unapplied
  <2>4. WindowInv(c)'
    BY <1>17 DEF CleanupStage, Return, Matches, Holds, TypeOK, CallInv, ProtocolInv, WindowInv, Window
  <2> QED BY <2>1, <2>2, <2>3, <2>4 DEF CallInv
<1>18. ASSUME ReceiveTerminal(c) PROVE CallInv(c)'
  <2>1. ProtocolInv(c)'
    BY <1>18 DEF ReceiveTerminal, VerdictOf, NoFrame, TypeOK, CallInv, ProtocolInv, Hosting, Committing, Spent,
       Staging, Launched, Alive, Terminals
  <2>2. TruthInv(c)'
    BY <1>18 DEF ReceiveTerminal, VerdictOf, NoFrame, TypeOK, CallInv, ProtocolInv, TruthInv, Tells, Hosting, Spent,
       Unapplied, Terminals
  <2>3. StageInv(c)'
    BY <1>18 DEF ReceiveTerminal, VerdictOf, TypeOK, CallInv, ProtocolInv, TruthInv, StageInv, Hosting, Unstaged,
       Innocent, Unapplied
  <2>4. WindowInv(c)'
    BY <1>18 DEF ReceiveTerminal, VerdictOf, Matches, Holds, TypeOK, CallInv, ProtocolInv, WindowInv, Window
  <2> QED BY <2>1, <2>2, <2>3, <2>4 DEF CallInv
<1>19. ASSUME WaitHelper(c) PROVE CallInv(c)'
  <2>1. ProtocolInv(c)'
    BY <1>19 DEF WaitHelper, NoFrame, TypeOK, CallInv, ProtocolInv, Hosting, Committing, Spent, Staging, Launched,
       Alive, Terminals
  <2>2. TruthInv(c)'
    BY <1>19 DEF WaitHelper, NoFrame, TypeOK, CallInv, ProtocolInv, TruthInv, Tells, Hosting, Spent, Unapplied,
       Terminals
  <2>3. StageInv(c)'
    BY <1>19 DEF WaitHelper, TypeOK, CallInv, ProtocolInv, TruthInv, StageInv, Hosting, Unstaged, Innocent, Unapplied
  <2>4. WindowInv(c)'
    BY <1>19 DEF WaitHelper, Matches, Holds, TypeOK, CallInv, ProtocolInv, WindowInv, Window
  <2> QED BY <2>1, <2>2, <2>3, <2>4 DEF CallInv
<1>20. ASSUME Settle(c) PROVE CallInv(c)'
  <2>1. ProtocolInv(c)'
    BY <1>20 DEF Settle, Return, TypeOK, CallInv, ProtocolInv, Hosting, Committing, Spent, Staging, Launched,
       Terminals
  <2>2. TruthInv(c)'
    BY <1>20 DEF Settle, Return, TypeOK, CallInv, ProtocolInv, TruthInv, Tells, Hosting, Spent, Unapplied, Terminals
  <2>3. StageInv(c)'
    BY <1>20 DEF Settle, Return, TypeOK, CallInv, ProtocolInv, TruthInv, Tells, StageInv, Hosting, Unstaged,
       Innocent, Unapplied
  <2>4. WindowInv(c)'
    BY <1>20 DEF Settle, Return, Matches, Holds, TypeOK, CallInv, ProtocolInv, WindowInv, Window
  <2> QED BY <2>1, <2>2, <2>3, <2>4 DEF CallInv
<1> QED BY <1>1, <1>2, <1>3, <1>4, <1>5, <1>6, <1>7, <1>8, <1>9, <1>10, <1>11, <1>12, <1>13, <1>14, <1>15, <1>16,
   <1>17, <1>18, <1>19, <1>20 DEF Gateway

(* So do the steps of its helper.                                          *)
LEMMA HelperOwn == ASSUME IInv, NEW c \in Calls, Helper(c) PROVE CallInv(c)'
<1> USE DEF IInv
<1>1. ASSUME HelperStage(c) PROVE CallInv(c)'
  <2>1. ProtocolInv(c)'
    BY <1>1 DEF HelperStage, Holds, Matches, Following, NoFrame, TypeOK, CallInv, ProtocolInv, Hosting, Committing,
       Spent, Staging, Terminals
  <2>2. TruthInv(c)'
    BY <1>1 DEF HelperStage, Holds, Matches, Following, NoFrame, TypeOK, CallInv, ProtocolInv, TruthInv, Tells,
       Hosting, Spent, Unapplied, Terminals
  <2>3. StageInv(c)'
    BY <1>1 DEF HelperStage, Holds, Matches, Following, TypeOK, CallInv, ProtocolInv, TruthInv, StageInv, Hosting,
       Unstaged, Innocent, Unapplied
  <2>4. WindowInv(c)'
    BY <1>1 DEF HelperStage, Holds, Matches, Following, TypeOK, CallInv, ProtocolInv, WindowInv, Window
  <2> QED BY <2>1, <2>2, <2>3, <2>4 DEF CallInv
<1>2. ASSUME HelperAnnounce(c) PROVE CallInv(c)'
  <2>1. ProtocolInv(c)'
    BY <1>2 DEF HelperAnnounce, Following, NoFrame, TypeOK, CallInv, ProtocolInv, Hosting, Committing, Spent,
       Staging, Terminals
  <2>2. TruthInv(c)'
    BY <1>2 DEF HelperAnnounce, Following, NoFrame, TypeOK, CallInv, ProtocolInv, TruthInv, Tells, Hosting, Spent,
       Unapplied, Terminals
  <2>3. StageInv(c)'
    BY <1>2 DEF HelperAnnounce, Following, TypeOK, CallInv, ProtocolInv, TruthInv, StageInv, Hosting, Unstaged,
       Innocent, Unapplied
  <2>4. WindowInv(c)'
    BY <1>2 DEF HelperAnnounce, Following, Matches, Holds, TypeOK, CallInv, ProtocolInv, WindowInv, Window
  <2> QED BY <2>1, <2>2, <2>3, <2>4 DEF CallInv
<1>3. ASSUME HelperWrite(c) PROVE CallInv(c)'
  <2>1. ProtocolInv(c)'
    BY <1>3 DEF HelperWrite, Following, NoFrame, TypeOK, CallInv, ProtocolInv, Hosting, Committing, Spent, Staging,
       Terminals
  <2>2. TruthInv(c)'
    BY <1>3 DEF HelperWrite, Following, NoFrame, TypeOK, CallInv, ProtocolInv, TruthInv, Tells, Hosting, Spent,
       Unapplied, Terminals
  <2>3. StageInv(c)'
    BY <1>3 DEF HelperWrite, Following, TypeOK, CallInv, ProtocolInv, TruthInv, StageInv, Hosting, Unstaged,
       Innocent, Unapplied
  <2>4. WindowInv(c)'
    BY <1>3 DEF HelperWrite, Following, Matches, Holds, TypeOK, CallInv, ProtocolInv, WindowInv, Window
  <2> QED BY <2>1, <2>2, <2>3, <2>4 DEF CallInv
<1>4. ASSUME HelperAccept(c) PROVE CallInv(c)'
  <2>1. ProtocolInv(c)'
    BY <1>4 DEF HelperAccept, TypeOK, CallInv, ProtocolInv, Hosting, Committing, Spent, Staging
  <2>2. TruthInv(c)'
    BY <1>4 DEF HelperAccept, TypeOK, CallInv, ProtocolInv, TruthInv, Tells, Hosting, Spent, Unapplied, Terminals
  <2>3. StageInv(c)'
    BY <1>4 DEF HelperAccept, TypeOK, CallInv, ProtocolInv, TruthInv, StageInv, Hosting, Unstaged, Innocent, Unapplied
  <2>4. WindowInv(c)'
    BY <1>4 DEF HelperAccept, Matches, Holds, TypeOK, CallInv, ProtocolInv, WindowInv, Window
  <2> QED BY <2>1, <2>2, <2>3, <2>4 DEF CallInv
<1>5. ASSUME HelperRevalidate(c) PROVE CallInv(c)'
  <2>1. ProtocolInv(c)'
    BY <1>5 DEF HelperRevalidate, Holds, Matches, TypeOK, CallInv, ProtocolInv, Hosting, Committing, Spent, Staging
  <2>2. TruthInv(c)'
    BY <1>5 DEF HelperRevalidate, Holds, Matches, TypeOK, CallInv, ProtocolInv, TruthInv, Tells, Hosting, Spent,
       Unapplied, Terminals
  <2>3. StageInv(c)'
    BY <1>5 DEF HelperRevalidate, Holds, Matches, TypeOK, CallInv, ProtocolInv, TruthInv, StageInv, Hosting,
       Unstaged, Innocent, Unapplied
  <2>4. WindowInv(c)'
    BY <1>5 DEF HelperRevalidate, Holds, Matches, TypeOK, CallInv, ProtocolInv, WindowInv, Window
  <2> QED BY <2>1, <2>2, <2>3, <2>4 DEF CallInv
<1>6. ASSUME HelperRename(c) PROVE CallInv(c)'
  <2>0. /\ child[c] = "rename" /\ UNCHANGED <<request, pc, down, up, outcome, verdict>>
        /\ \/ /\ UNCHANGED <<applied, stage>> /\ child'[c] = "refuse"
              /\ terminal'[c] \in {"destination_exists", "io", "unsupported"}
           \/ /\ applied'[c] /\ child'[c] = "report" /\ terminal'[c] \in {"committed", "uncertain"}
              /\ stage'[c] = "none"
    BY <1>6, PutMade DEF HelperRename, TypeOK
  <2>1. /\ pc[c] \in {"await", "wait", "lost"} /\ up[c] \notin Terminals /\ ~applied[c]
        /\ pc[c] = "wait" => outcome[c] = "uncertain"
    BY <2>0 DEF CallInv, ProtocolInv, TruthInv, Committing, Spent, Unapplied
  <2>2. ProtocolInv(c)'
    BY <2>0, <2>1 DEF CallInv, ProtocolInv, Hosting, Committing
  <2>3. TruthInv(c)'
    BY <2>0, <2>1 DEF TruthInv, Tells, Unapplied
  <2>4. StageInv(c)' /\ WindowInv(c)'
    BY <2>0, <2>1 DEF StageInv, WindowInv, Window, Unstaged, Innocent
  <2> QED BY <2>2, <2>3, <2>4 DEF CallInv
<1>7. ASSUME HelperRefuse(c) PROVE CallInv(c)'
  <2>1. ProtocolInv(c)'
    BY <1>7 DEF HelperRefuse, TypeOK, CallInv, ProtocolInv, Hosting, Committing, Spent, Staging
  <2>2. TruthInv(c)'
    BY <1>7 DEF HelperRefuse, TypeOK, CallInv, ProtocolInv, TruthInv, Tells, Hosting, Spent, Unapplied, Terminals
  <2>3. StageInv(c)'
    BY <1>7 DEF HelperRefuse, TypeOK, CallInv, ProtocolInv, TruthInv, StageInv, Hosting, Unstaged, Innocent, Unapplied
  <2>4. WindowInv(c)'
    BY <1>7 DEF HelperRefuse, Matches, Holds, TypeOK, CallInv, ProtocolInv, WindowInv, Window
  <2> QED BY <2>1, <2>2, <2>3, <2>4 DEF CallInv
<1>8. ASSUME HelperReport(c) PROVE CallInv(c)'
  <2>1. ProtocolInv(c)'
    BY <1>8 DEF HelperReport, TypeOK, CallInv, ProtocolInv, Hosting, Committing, Spent, Staging, Terminals
  <2>2. TruthInv(c)'
    BY <1>8 DEF HelperReport, TypeOK, CallInv, ProtocolInv, TruthInv, Tells, Hosting, Spent, Unapplied, Terminals
  <2>3. StageInv(c)'
    BY <1>8 DEF HelperReport, TypeOK, CallInv, ProtocolInv, TruthInv, StageInv, Hosting, Unstaged, Innocent, Unapplied
  <2>4. WindowInv(c)'
    BY <1>8 DEF HelperReport, Matches, Holds, TypeOK, CallInv, ProtocolInv, WindowInv, Window
  <2> QED BY <2>1, <2>2, <2>3, <2>4 DEF CallInv
<1>9. ASSUME HelperExit(c) PROVE CallInv(c)'
  <2>1. ProtocolInv(c)'
    BY <1>9 DEF HelperExit, TypeOK, CallInv, ProtocolInv, Hosting, Committing, Spent, Staging
  <2>2. TruthInv(c)'
    BY <1>9 DEF HelperExit, TypeOK, CallInv, ProtocolInv, TruthInv, Tells, Hosting, Spent, Unapplied, Terminals
  <2>3. StageInv(c)'
    BY <1>9 DEF HelperExit, TypeOK, CallInv, ProtocolInv, TruthInv, StageInv, Hosting, Unstaged, Innocent, Unapplied
  <2>4. WindowInv(c)'
    BY <1>9 DEF HelperExit, Matches, Holds, TypeOK, CallInv, ProtocolInv, WindowInv, Window
  <2> QED BY <2>1, <2>2, <2>3, <2>4 DEF CallInv
<1>10. ASSUME HelperEof(c) PROVE CallInv(c)'
  <2>1. ProtocolInv(c)'
    BY <1>10 DEF HelperEof, TypeOK, CallInv, ProtocolInv, Hosting, Committing, Spent, Staging
  <2>2. TruthInv(c)'
    BY <1>10 DEF HelperEof, TypeOK, CallInv, ProtocolInv, TruthInv, Tells, Hosting, Spent, Unapplied, Terminals
  <2>3. StageInv(c)'
    BY <1>10 DEF HelperEof, TypeOK, CallInv, ProtocolInv, TruthInv, StageInv, Hosting, Unstaged, Innocent, Unapplied
  <2>4. WindowInv(c)'
    BY <1>10 DEF HelperEof, Matches, Holds, TypeOK, CallInv, ProtocolInv, WindowInv, Window
  <2> QED BY <2>1, <2>2, <2>3, <2>4 DEF CallInv
<1>11. ASSUME HelperClean(c) PROVE CallInv(c)'
  <2>1. ProtocolInv(c)'
    BY <1>11 DEF HelperClean, TypeOK, CallInv, ProtocolInv, Hosting, Committing, Spent, Staging
  <2>2. TruthInv(c)'
    BY <1>11 DEF HelperClean, TypeOK, CallInv, ProtocolInv, TruthInv, Tells, Hosting, Spent, Unapplied, Terminals
  <2>3. StageInv(c)'
    BY <1>11 DEF HelperClean, TypeOK, CallInv, ProtocolInv, TruthInv, StageInv, Hosting, Unstaged, Innocent, Unapplied
  <2>4. WindowInv(c)'
    BY <1>11 DEF HelperClean, Matches, Holds, TypeOK, CallInv, ProtocolInv, WindowInv, Window
  <2> QED BY <2>1, <2>2, <2>3, <2>4 DEF CallInv
<1> QED BY <1>1, <1>2, <1>3, <1>4, <1>5, <1>6, <1>7, <1>8, <1>9, <1>10, <1>11 DEF Helper

(***************************************************************************)
(* The invariant is inductive.                                             *)
(***************************************************************************)
(* A step of one call leaves the others alone.                             *)
LEMMA ClientAlone ==
  ASSUME IInv, NEW c \in Calls, Ask(c) \/ Cancel(c) \/ KillByOther(c), NEW d \in Calls, d # c
  PROVE  Same(d) /\ Noted(d)
<1> USE DEF IInv
<1>1. ASSUME Ask(c) PROVE Same(d) /\ Noted(d)
  BY <1>1 DEF Ask, TypeOK, Same, Noted
<1>2. ASSUME Cancel(c) PROVE Same(d) /\ Noted(d)
  BY <1>2 DEF Cancel, TypeOK, Same, Noted
<1>3. ASSUME KillByOther(c) PROVE Same(d) /\ Noted(d)
  BY <1>3 DEF KillByOther, TypeOK, Same, Noted
<1> QED BY <1>1, <1>2, <1>3

(* A call in the gateway leaves the other calls alone.                     *)
LEMMA GatewayAlone ==
  ASSUME IInv, NEW c \in Calls, Gateway(c), NEW d \in Calls, d # c
  PROVE  Same(d) /\ Noted(d)
<1> USE DEF IInv
<1>1. ASSUME ReadSource(c) PROVE Same(d) /\ Noted(d)
  BY <1>1 DEF ReadSource, Return, TypeOK, Same, Noted
<1>2. ASSUME Prepare(c) PROVE Same(d) /\ Noted(d)
  BY <1>2 DEF Prepare, Return, TypeOK, Same, Noted
<1>3. ASSUME Revalidate(c) PROVE Same(d) /\ Noted(d)
  BY <1>3 DEF Revalidate, Return, TypeOK, Same, Noted
<1>4. ASSUME MoveEffect(c) PROVE Same(d) /\ Noted(d)
  <2>1. Same(d)
    BY <1>4, PutNoted DEF MoveEffect, Return, TypeOK, Same
  <2>2. Noted(d)
    BY <1>4, PutNoted DEF MoveEffect, Noted
  <2> QED BY <2>1, <2>2
<1>5. ASSUME DeleteEffect(c) PROVE Same(d) /\ Noted(d)
  <2>1. Same(d)
    BY <1>5, PutNoted DEF DeleteEffect, Return, TypeOK, Same
  <2>2. Noted(d)
    BY <1>5, PutNoted DEF DeleteEffect, Noted
  <2> QED BY <2>1, <2>2
<1>6. ASSUME ReportEffect(c) PROVE Same(d) /\ Noted(d)
  BY <1>6 DEF ReportEffect, Return, TypeOK, Same, Noted
<1>7. ASSUME TakeSlot(c) PROVE Same(d) /\ Noted(d)
  BY <1>7 DEF TakeSlot, Return, TypeOK, Same, Noted
<1>8. ASSUME Launch(c) PROVE Same(d) /\ Noted(d)
  BY <1>8 DEF Launch, Return, TypeOK, Same, Noted
<1>9. ASSUME Broken(c) PROVE Same(d) /\ Noted(d)
  BY <1>9 DEF Broken, TypeOK, Same, Noted
<1>10. ASSUME Acknowledge(c) PROVE Same(d) /\ Noted(d)
  BY <1>10 DEF Acknowledge, TypeOK, Same, Noted
<1>11. ASSUME SendPayload(c) PROVE Same(d) /\ Noted(d)
  BY <1>11 DEF SendPayload, TypeOK, Same, Noted
<1>12. ASSUME Completed(c) PROVE Same(d) /\ Noted(d)
  BY <1>12 DEF Completed, TypeOK, Same, Noted
<1>13. ASSUME WrongExecutable(c) PROVE Same(d) /\ Noted(d)
  BY <1>13 DEF WrongExecutable, TypeOK, Same, Noted
<1>14. ASSUME Decide(c) PROVE Same(d) /\ Noted(d)
  BY <1>14 DEF Decide, TypeOK, Same, Noted
<1>15. ASSUME SendCommit(c) PROVE Same(d) /\ Noted(d)
  BY <1>15 DEF SendCommit, TypeOK, Same, Noted
<1>16. ASSUME KillHelper(c) PROVE Same(d) /\ Noted(d)
  BY <1>16 DEF KillHelper, TypeOK, Same, Noted
<1>17. ASSUME CleanupStage(c) PROVE Same(d) /\ Noted(d)
  BY <1>17 DEF CleanupStage, Return, TypeOK, Same, Noted
<1>18. ASSUME ReceiveTerminal(c) PROVE Same(d) /\ Noted(d)
  BY <1>18 DEF ReceiveTerminal, TypeOK, Same, Noted
<1>19. ASSUME WaitHelper(c) PROVE Same(d) /\ Noted(d)
  BY <1>19 DEF WaitHelper, TypeOK, Same, Noted
<1>20. ASSUME Settle(c) PROVE Same(d) /\ Noted(d)
  BY <1>20 DEF Settle, Return, TypeOK, Same, Noted
<1> QED BY <1>1, <1>2, <1>3, <1>4, <1>5, <1>6, <1>7, <1>8, <1>9, <1>10, <1>11, <1>12, <1>13, <1>14, <1>15, <1>16,
   <1>17, <1>18, <1>19, <1>20 DEF Gateway

(* So does its helper.                                                     *)
LEMMA HelperAlone ==
  ASSUME IInv, NEW c \in Calls, Helper(c), NEW d \in Calls, d # c
  PROVE  Same(d) /\ Noted(d)
<1> USE DEF IInv
<1>1. ASSUME HelperStage(c) PROVE Same(d) /\ Noted(d)
  BY <1>1 DEF HelperStage, TypeOK, Same, Noted
<1>2. ASSUME HelperAnnounce(c) PROVE Same(d) /\ Noted(d)
  BY <1>2 DEF HelperAnnounce, TypeOK, Same, Noted
<1>3. ASSUME HelperWrite(c) PROVE Same(d) /\ Noted(d)
  BY <1>3 DEF HelperWrite, TypeOK, Same, Noted
<1>4. ASSUME HelperAccept(c) PROVE Same(d) /\ Noted(d)
  BY <1>4 DEF HelperAccept, TypeOK, Same, Noted
<1>5. ASSUME HelperRevalidate(c) PROVE Same(d) /\ Noted(d)
  BY <1>5 DEF HelperRevalidate, TypeOK, Same, Noted
<1>6. ASSUME HelperRename(c) PROVE Same(d) /\ Noted(d)
  <2>1. Same(d)
    BY <1>6, PutNoted DEF HelperRename, TypeOK, Same
  <2>2. Noted(d)
    BY <1>6, PutNoted DEF HelperRename, Noted
  <2> QED BY <2>1, <2>2
<1>7. ASSUME HelperRefuse(c) PROVE Same(d) /\ Noted(d)
  BY <1>7 DEF HelperRefuse, TypeOK, Same, Noted
<1>8. ASSUME HelperReport(c) PROVE Same(d) /\ Noted(d)
  BY <1>8 DEF HelperReport, TypeOK, Same, Noted
<1>9. ASSUME HelperExit(c) PROVE Same(d) /\ Noted(d)
  BY <1>9 DEF HelperExit, TypeOK, Same, Noted
<1>10. ASSUME HelperEof(c) PROVE Same(d) /\ Noted(d)
  BY <1>10 DEF HelperEof, TypeOK, Same, Noted
<1>11. ASSUME HelperClean(c) PROVE Same(d) /\ Noted(d)
  BY <1>11 DEF HelperClean, TypeOK, Same, Noted
<1> QED BY <1>1, <1>2, <1>3, <1>4, <1>5, <1>6, <1>7, <1>8, <1>9, <1>10, <1>11 DEF Helper

(* What changes the vault changes it whole.                                *)
LEMMA WholeStep == ASSUME IInv, [Next]_vars PROVE NeverTorn'
<1> USE DEF IInv, NeverTorn
<1>1. ASSUME NEW c \in Calls, MoveEffect(c) PROVE NeverTorn'
  <2> request[c].src \in Names /\ request[c].dst \in Names
    BY DEF TypeOK, Requests
  <2>1. CASE UNCHANGED vault
    BY <2>1
  <2>2. CASE /\ vault[request[c].src] # NoFile
             /\ vault' = [vault EXCEPT ![request[c].dst] = Fresh(vault[request[c].src].whole), ![request[c].src] = NoFile]
    BY <2>2 DEF TypeOK, Fresh
  <2> QED BY <1>1, <2>1, <2>2, PutMade DEF MoveEffect
<1>2. ASSUME NEW c \in Calls, DeleteEffect(c) PROVE NeverTorn'
  <2>1. vault' = vault \/ vault' = [vault EXCEPT ![request[c].src] = NoFile]
    BY <1>2, PutMade DEF DeleteEffect
  <2> QED BY <2>1 DEF TypeOK
<1>3. ASSUME NEW c \in Calls, HelperRename(c) PROVE NeverTorn'
  <2>1. vault' = vault \/ vault' = [vault EXCEPT ![request[c].dst] = Fresh(stage[c] = "full")]
    BY <1>3, PutMade DEF HelperRename
  <2>2. stage[c] = "full"
    BY <1>3 DEF HelperRename, CallInv, StageInv
  <2>3. Fresh(stage[c] = "full").whole
    BY <2>2 DEF Fresh
  <2> QED BY <2>1, <2>3 DEF TypeOK
<1>4. ASSUME NEW m \in Names, OtherWriter(m) PROVE NeverTorn'
  BY <1>4 DEF OtherWriter, TypeOK, Fresh
<1>5. ASSUME UNCHANGED vault PROVE NeverTorn'
  BY <1>5
<1>6. ASSUME NEW c \in Calls, Gateway(c) PROVE NeverTorn'
  BY <1>1, <1>2, <1>5, <1>6 DEF Gateway, ReadSource, Prepare, Revalidate, ReportEffect, TakeSlot, Launch, Broken,
     Acknowledge, SendPayload, Completed, WrongExecutable, Decide, SendCommit, KillHelper, CleanupStage,
     ReceiveTerminal, WaitHelper, Settle
<1>7. ASSUME NEW c \in Calls, Helper(c) PROVE NeverTorn'
  BY <1>3, <1>5, <1>7 DEF Helper, HelperStage, HelperAnnounce, HelperWrite, HelperAccept, HelperRevalidate,
     HelperRefuse, HelperReport, HelperExit, HelperEof, HelperClean
<1>8. ASSUME NEW c \in Calls, Ask(c) \/ Cancel(c) \/ KillByOther(c) PROVE NeverTorn'
  BY <1>5, <1>8 DEF Ask, Cancel, KillByOther
<1>9. ASSUME Crash \/ UNCHANGED vars PROVE NeverTorn'
  BY <1>5, <1>9 DEF Crash, vars
<1> QED BY <1>4, <1>6, <1>7, <1>8, <1>9 DEF Next

(* The invariant holds at first and after every step.                      *)
LEMMA InitInv == Init => IInv
<1> SUFFICES ASSUME Init PROVE IInv
  OBVIOUS
<1>1. TypeOK
  BY DEF Init, TypeOK, Files, Requests, Frames, NoFrame
<1>2. NeverTorn
  BY DEF Init, NeverTorn
<1>3. ASSUME NEW c \in Calls PROVE CallInv(c)
  BY DEF Init, CallInv, ProtocolInv, TruthInv, StageInv, WindowInv, Window, Committing, Launched, Spent, Unapplied,
         Terminals, NoFrame
<1> QED BY <1>1, <1>2, <1>3 DEF IInv

(* Every step keeps the invariant of every call.                           *)
LEMMA InvStep == IInv /\ [Next]_vars => IInv'
<1> SUFFICES ASSUME IInv, [Next]_vars PROVE \A d \in Calls : CallInv(d)'
  BY TypeStep, WholeStep DEF IInv
<1>1. ASSUME NEW c \in Calls, Ask(c) \/ Cancel(c) \/ KillByOther(c) \/ Gateway(c) \/ Helper(c),
             NEW d \in Calls
      PROVE  CallInv(d)'
  <2>1. CASE d = c
    BY <1>1, <2>1, ClientOwn, GatewayOwn, HelperOwn
  <2>2. CASE d # c
    <3>1. Same(d) /\ Noted(d)
      BY <1>1, <2>2, ClientAlone, GatewayAlone, HelperAlone
    <3> QED BY <3>1, OthersKept DEF IInv
  <2> QED BY <2>1, <2>2
<1>2. ASSUME NEW m \in Names, OtherWriter(m), NEW d \in Calls PROVE CallInv(d)'
  <2>1. Same(d)
    BY <1>2 DEF OtherWriter, Same
  <2>2. ASSUME d \in Window PROVE raced'[d] = (raced[d] \/ request[d].src = m)
    BY <1>2, <2>2 DEF OtherWriter
  <2>3. vault' = [vault EXCEPT ![m] = vault'[m]]
    BY <1>2 DEF OtherWriter, IInv, TypeOK
  <2>4. Noted(d)
    <3>1. request[d].src \in Names /\ raced[d] \in BOOLEAN
      BY DEF IInv, TypeOK, Requests
    <3>2. CASE request[d].src = m
      BY <2>2, <3>2 DEF Noted
    <3>3. CASE request[d].src # m
      BY <2>2, <2>3, <3>1, <3>3 DEF Noted, IInv, TypeOK
    <3> QED BY <3>2, <3>3
  <2> QED BY <2>1, <2>4, OthersKept DEF IInv
<1>3. ASSUME Crash, NEW d \in Calls PROVE CallInv(d)'
  <2>1. pc'[d] = IF pc[d] \in {"idle", "done"} THEN pc[d] ELSE "lost"
    BY <1>3 DEF Crash
  <2>2. CallInv(d)
    BY DEF IInv
  <2>3. ProtocolInv(d)' /\ StageInv(d)'
    BY <1>3, <2>1, <2>2 DEF Crash, CallInv, ProtocolInv, StageInv, Hosting, Launched, Unstaged, Innocent
  <2>4. TruthInv(d)'
    BY <1>3, <2>1, <2>2 DEF Crash, CallInv, TruthInv, Tells
  <2>5. WindowInv(d)'
    BY <1>3, <2>1, <2>2 DEF Crash, CallInv, WindowInv, Window, Matches, Holds
  <2> QED BY <2>3, <2>4, <2>5 DEF CallInv
<1>4. ASSUME UNCHANGED vars, NEW d \in Calls PROVE CallInv(d)'
  <2>1. Same(d) /\ Noted(d)
    BY <1>4 DEF vars, Same, Noted
  <2> QED BY <2>1, OthersKept DEF IInv
<1> QED BY <1>1, <1>2, <1>3, <1>4 DEF Next

(* The inductive invariant: files are whole, and what a call, its helper   *)
(* and the frames between them know of the vault is true of it.            *)
THEOREM Invariance == Spec => []IInv
BY InitInv, InvStep, PTL DEF Spec

(***************************************************************************)
(* What the invariant gives.                                               *)
(***************************************************************************)
(* Every variable keeps its type.                                          *)
THEOREM TypeCorrect == Spec => []TypeOK
<1>1. IInv => TypeOK
  BY DEF IInv
<1> QED BY <1>1, Invariance, PTL

(* NeverTorn: no name ever holds part of a payload (HelperWrite, Rename).  *)
THEOREM Untorn == Spec => []NeverTorn
<1>1. IInv => NeverTorn
  BY DEF IInv
<1> QED BY <1>1, Invariance, PTL

(* StageSwept: a call that has returned leaves no stage file unless it said*)
(* that it is uncertain (cleanupStage, settle).                            *)
THEOREM StagesSwept == Spec => []StageSwept
<1>1. IInv => StageSwept
  BY DEF IInv, CallInv, StageInv, StageSwept
<1> QED BY <1>1, Invariance, PTL

(* Only three actions change the vault on behalf of a call.                *)
LEMMA Effects ==
  ASSUME IInv, [Next]_vars, NEW c \in Calls, applied'[c], ~applied[c]
  PROVE  MoveEffect(c) \/ DeleteEffect(c) \/ HelperRename(c)
<1>1. ASSUME NEW d \in Calls, d # c, Ask(d) \/ Cancel(d) \/ KillByOther(d) \/ Gateway(d) \/ Helper(d) PROVE FALSE
  <2>1. Same(c)
    BY <1>1, ClientAlone, GatewayAlone, HelperAlone
  <2> QED BY <2>1 DEF Same
<1>2. ASSUME Gateway(c) PROVE MoveEffect(c) \/ DeleteEffect(c)
  BY <1>2 DEF Gateway, ReadSource, Prepare, Revalidate, ReportEffect, TakeSlot, Launch, Broken, Acknowledge,
     SendPayload, Completed, WrongExecutable, Decide, SendCommit, KillHelper, CleanupStage, ReceiveTerminal,
     WaitHelper, Settle
<1>3. ASSUME Helper(c) PROVE HelperRename(c)
  BY <1>3 DEF Helper, HelperStage, HelperAnnounce, HelperWrite, HelperAccept, HelperRevalidate, HelperRefuse,
     HelperReport, HelperExit, HelperEof, HelperClean
<1>4. ASSUME Ask(c) \/ Cancel(c) \/ KillByOther(c) PROVE FALSE
  BY <1>4 DEF Ask, Cancel, KillByOther
<1>5. ASSUME Crash \/ UNCHANGED vars \/ \E m \in Names : OtherWriter(m) PROVE FALSE
  BY <1>5 DEF Crash, vars, OtherWriter
<1> QED BY <1>1, <1>2, <1>3, <1>4, <1>5 DEF Next

(* OverwritesExpected: a change hits the version the caller named unless   *)
(* somebody came after the last look, and a create or a move replaces      *)
(* nothing (revalidate, renameatx exclusive).                              *)
THEOREM ExpectedOverwritten == Spec => OverwritesExpected
<1> DEFINE A(c) == applied'[c] /\ ~applied[c] =>
                     /\ request[c].op \in {"create", "move"} => vault[request[c].dst] = NoFile
                     /\ request[c].op # "create" => Matches(c) \/ raced[c]
<1>1. IInv /\ [Next]_vars => \A c \in Calls : A(c)
  <2> SUFFICES ASSUME IInv, [Next]_vars, NEW c \in Calls, applied'[c], ~applied[c]
               PROVE  /\ request[c].op \in {"create", "move"} => vault[request[c].dst] = NoFile
                      /\ request[c].op # "create" => Matches(c) \/ raced[c]
    OBVIOUS
  <2> CallInv(c)
    BY DEF IInv
  <2>1. CASE MoveEffect(c)
    <3>1. pc[c] = "effect" /\ request[c].op = "move"
      BY <2>1 DEF MoveEffect
    <3>2. vault[request[c].dst] = NoFile
      BY <2>1 DEF MoveEffect
    <3> QED BY <3>1, <3>2 DEF CallInv, WindowInv, Window
  <2>2. CASE DeleteEffect(c)
    BY <2>2 DEF DeleteEffect, CallInv, WindowInv, Window
  <2>3. CASE HelperRename(c)
    <3>1. child[c] = "rename" /\ (request[c].op = "create" => vault[request[c].dst] = NoFile)
      BY <2>3 DEF HelperRename
    <3>2. request[c].op # "move"
      BY <3>1 DEF CallInv, ProtocolInv, Staging
    <3> QED BY <3>1, <3>2 DEF CallInv, WindowInv, Window
  <2> QED BY <2>1, <2>2, <2>3, Effects
<1>2. IInv /\ [Next]_vars => [\A c \in Calls : A(c)]_vars
  BY <1>1
<1> QED BY <1>2, Invariance, PTL DEF Spec, OverwritesExpected

(***************************************************************************)
(* StagedMutation implements VaultCalls: each step of a call leaves its    *)
(* state and the vault alone, or is its start, its change or its answer.   *)
(***************************************************************************)
Silent(c)  == StateOf(c)' = StateOf(c) /\ vault' = vault
Starts(c)  == StateOf(c) = "idle" /\ StateOf(c)' = "running" /\ vault' = vault
Answers(c) == /\ \/ StateOf(c) = "running" /\ StateOf(c)' \in {"rejected", "uncertain"}
                 \/ StateOf(c) = "applied" /\ StateOf(c)' \in {"ok", "uncertain"}
              /\ vault' = vault
Applies(c) == StateOf(c) = "running" /\ StateOf(c)' = "applied"
Moves(c)   == Silent(c) \/ Starts(c) \/ Answers(c) \/ Applies(c)

(* An answer that is true of the call is allowed.                          *)
LEMMA ReturnAnswers ==
  ASSUME TypeOK, NEW c \in Calls, NEW v, Return(c, v), pc[c] \notin {"idle", "done"}, UNCHANGED <<vault, applied>>,
         v = "ok" => applied[c], v \notin {"ok", "uncertain"} => ~applied[c]
  PROVE  Answers(c)
<1>1. pc'[c] = "done" /\ verdict'[c] = v
  BY DEF Return, TypeOK
<1> QED BY <1>1 DEF Answers, StateOf

(* A step inside a call that does not touch the vault is silent.           *)
LEMMA InsideSilent ==
  ASSUME NEW c \in Calls, pc[c] \notin {"idle", "done"}, pc'[c] \notin {"idle", "done"}, UNCHANGED <<vault, applied>>
  PROVE  Silent(c)
BY DEF Silent, StateOf

(* A helper lives inside its call.                                         *)
LEMMA HelperInside == ASSUME IInv, NEW c \in Calls, child[c] # "none" PROVE pc[c] \notin {"idle", "done"}
BY DEF IInv, CallInv, ProtocolInv, Hosting

(* A step in the gateway moves its call as VaultCalls allows.              *)
LEMMA GatewayMoves == ASSUME IInv, NEW c \in Calls, Gateway(c) PROVE Moves(c)
<1> USE DEF IInv
<1>1. ASSUME ReadSource(c) PROVE Moves(c)
  BY <1>1, ReturnAnswers, InsideSilent DEF ReadSource, Moves, TypeOK, CallInv, TruthInv
<1>2. ASSUME Prepare(c) PROVE Moves(c)
  BY <1>2, ReturnAnswers, InsideSilent DEF Prepare, Moves, TypeOK, CallInv, TruthInv
<1>3. ASSUME Revalidate(c) PROVE Moves(c)
  BY <1>3, ReturnAnswers, InsideSilent DEF Revalidate, Moves, TypeOK, CallInv, TruthInv
<1>4. ASSUME MoveEffect(c) PROVE Moves(c)
  <2>1. pc[c] = "effect" /\ ~applied[c]
    BY <1>4 DEF MoveEffect, CallInv, TruthInv
  <2>2. CASE UNCHANGED disk /\ \E v \in Verdicts \ {"ok"} : Return(c, v)
    BY <2>1, <2>2, ReturnAnswers DEF Moves
  <2>3. CASE applied'[c] /\ pc' = [pc EXCEPT ![c] = "report"]
    <3>1. pc'[c] = "report"
      BY <2>3 DEF TypeOK
    <3> QED BY <2>1, <2>3, <3>1 DEF Moves, Applies, StateOf
  <2> QED BY <1>4, <2>2, <2>3, PutMade DEF MoveEffect, Verdicts
<1>5. ASSUME DeleteEffect(c) PROVE Moves(c)
  <2>1. pc[c] = "effect" /\ ~applied[c]
    BY <1>5 DEF DeleteEffect, CallInv, TruthInv
  <2>2. CASE UNCHANGED disk /\ \E v \in Verdicts \ {"ok"} : Return(c, v)
    BY <2>1, <2>2, ReturnAnswers DEF Moves
  <2>3. CASE applied'[c] /\ pc' = [pc EXCEPT ![c] = "report"]
    <3>1. pc'[c] = "report"
      BY <2>3 DEF TypeOK
    <3> QED BY <2>1, <2>3, <3>1 DEF Moves, Applies, StateOf
  <2> QED BY <1>5, <2>2, <2>3, PutMade DEF DeleteEffect, Verdicts
<1>6. ASSUME ReportEffect(c) PROVE Moves(c)
  BY <1>6, ReturnAnswers DEF ReportEffect, Moves, TypeOK, CallInv, TruthInv
<1>7. ASSUME TakeSlot(c) PROVE Moves(c)
  BY <1>7, ReturnAnswers, InsideSilent DEF TakeSlot, Moves, TypeOK, CallInv, TruthInv
<1>8. ASSUME Launch(c) PROVE Moves(c)
  BY <1>8, ReturnAnswers, InsideSilent DEF Launch, Moves, TypeOK, CallInv, TruthInv
<1>9. ASSUME Broken(c) PROVE Moves(c)
  BY <1>9, InsideSilent DEF Broken, Moves, TypeOK
<1>10. ASSUME Acknowledge(c) PROVE Moves(c)
  BY <1>10, InsideSilent DEF Acknowledge, Moves, TypeOK
<1>11. ASSUME SendPayload(c) PROVE Moves(c)
  BY <1>11, InsideSilent DEF SendPayload, Moves, TypeOK
<1>12. ASSUME Completed(c) PROVE Moves(c)
  BY <1>12, InsideSilent DEF Completed, Moves, TypeOK
<1>13. ASSUME WrongExecutable(c) PROVE Moves(c)
  BY <1>13, InsideSilent DEF WrongExecutable, Moves, TypeOK
<1>14. ASSUME Decide(c) PROVE Moves(c)
  BY <1>14, InsideSilent DEF Decide, Moves, TypeOK
<1>15. ASSUME SendCommit(c) PROVE Moves(c)
  BY <1>15, InsideSilent DEF SendCommit, Moves, TypeOK
<1>16. ASSUME KillHelper(c) PROVE Moves(c)
  BY <1>16, InsideSilent DEF KillHelper, Moves, TypeOK
<1>17. ASSUME CleanupStage(c) PROVE Moves(c)
  BY <1>17, ReturnAnswers DEF CleanupStage, Moves, TypeOK, CallInv, TruthInv
<1>18. ASSUME ReceiveTerminal(c) PROVE Moves(c)
  BY <1>18, InsideSilent DEF ReceiveTerminal, Moves, TypeOK
<1>19. ASSUME WaitHelper(c) PROVE Moves(c)
  BY <1>19, InsideSilent DEF WaitHelper, Moves, TypeOK
<1>20. ASSUME Settle(c) PROVE Moves(c)
  BY <1>20, ReturnAnswers DEF Settle, Moves, TypeOK, CallInv, TruthInv, Tells, Verdicts
<1> QED BY <1>1, <1>2, <1>3, <1>4, <1>5, <1>6, <1>7, <1>8, <1>9, <1>10, <1>11, <1>12, <1>13, <1>14, <1>15, <1>16,
   <1>17, <1>18, <1>19, <1>20 DEF Gateway

(* So does a step of the helper.                                           *)
LEMMA HelperMoves == ASSUME IInv, NEW c \in Calls, Helper(c) PROVE Moves(c)
<1> USE DEF IInv
<1>1. child[c] # "none"
  BY DEF Helper, HelperStage, HelperAnnounce, HelperWrite, HelperAccept, HelperRevalidate, HelperRename,
     HelperRefuse, HelperReport, HelperExit, HelperEof, HelperClean
<1>2. pc[c] \notin {"idle", "done"}
  BY <1>1, HelperInside
<1>3. CASE HelperRename(c)
  <2>1. pc'[c] = pc[c]
    BY <1>3 DEF HelperRename
  <2>2. CASE UNCHANGED disk
    BY <1>2, <2>1, <2>2, InsideSilent DEF Moves
  <2>3. CASE applied'[c]
    <3>1. ~applied[c]
      BY <1>3 DEF HelperRename, CallInv, TruthInv, Unapplied
    <3> QED BY <1>2, <2>1, <2>3, <3>1 DEF Moves, Applies, StateOf
  <2> QED BY <1>3, <2>2, <2>3, PutMade DEF HelperRename
<1>4. CASE ~HelperRename(c)
  <2>1. UNCHANGED <<pc, vault, applied>>
    BY <1>4 DEF Helper, HelperStage, HelperAnnounce, HelperWrite, HelperAccept, HelperRevalidate, HelperRefuse,
       HelperReport, HelperExit, HelperEof, HelperClean
  <2> QED BY <1>2, <2>1, InsideSilent DEF Moves
<1> QED BY <1>3, <1>4

(* So do a request, a cancellation and a helper killed from outside.       *)
LEMMA ClientMoves == ASSUME IInv, NEW c \in Calls, Ask(c) \/ Cancel(c) \/ KillByOther(c) PROVE Moves(c)
<1>1. CASE Ask(c)
  <2>1. pc[c] = "idle" /\ pc'[c] \in {"read", "prepare"} /\ ~applied'[c] /\ vault' = vault
    BY <1>1 DEF Ask, IInv, TypeOK, CallInv, TruthInv
  <2> QED BY <2>1 DEF Moves, Starts, StateOf
<1>2. CASE Cancel(c) \/ KillByOther(c)
  BY <1>2 DEF Cancel, KillByOther, Moves, Silent, StateOf
<1> QED BY <1>1, <1>2

(* The state of the calls as VaultCalls sees it.                           *)
States == [c \in Calls |-> StateOf(c)]

(* Every step of the detailed model is one of VaultCalls, or a stutter.    *)
LEMMA StatesStep ==
  ASSUME IInv, TypeOK', NEW c \in Calls, Moves(c), \A d \in Calls : d # c => StateOf(d)' = StateOf(d)
  PROVE  Client!Next \/ UNCHANGED Client!vars
<1> DEFINE s == StateOf(c)'
<1>1. States' = [States EXCEPT ![c] = s]
  BY DEF States
<1>2. vault' \in [Names -> Files \cup {NoFile}]
  BY DEF TypeOK
<1>3. CASE Silent(c)
  <2>1. States' = States
    BY <1>3 DEF Silent, States
  <2> QED BY <1>3, <2>1 DEF Silent, States, Client!vars
<1> HIDE DEF s
<1>4. CASE Starts(c)
  <2>1. States[c] = "idle" /\ s = "running" /\ vault' = vault
    BY <1>4 DEF Starts, States, s
  <2> QED BY <1>1, <2>1 DEF States, Client!Next, Client!Start, Client!Advance
<1>5. CASE Answers(c)
  <2>1. /\ \/ States[c] = "running" /\ s \in {"rejected", "uncertain"}
           \/ States[c] = "applied" /\ s \in {"ok", "uncertain"}
        /\ vault' = vault
    BY <1>5 DEF Answers, States, s
  <2> QED BY <1>1, <2>1 DEF States, Client!Next, Client!Answer, Client!Advance
<1>6. CASE Applies(c)
  <2>1. States[c] = "running" /\ s = "applied"
    BY <1>6 DEF Applies, States, s
  <2> QED BY <1>1, <1>2, <2>1 DEF States, Client!Next, Client!Apply, Client!Advance
<1> QED BY <1>3, <1>4, <1>5, <1>6 DEF Moves

(* ImplementsVaultCalls: a call changes the vault at most once, while it   *)
(* runs, and its answer is true, whichever process dies.                   *)
THEOREM Refinement == Spec => ImplementsVaultCalls
<1>1. Init => Client!Init
  <2> SUFFICES ASSUME Init PROVE Client!Init
    OBVIOUS
  <2>1. vault \in [Names -> Files \cup {NoFile}]
    BY InitInv DEF IInv, TypeOK
  <2>2. \A c \in Calls : StateOf(c) = "idle"
    BY DEF Init, StateOf
  <2> QED BY <2>1, <2>2 DEF Client!Init
<1>2. IInv /\ [Next]_vars => [Client!Next]_Client!vars
  <2> SUFFICES ASSUME IInv, [Next]_vars PROVE Client!Next \/ UNCHANGED Client!vars
    OBVIOUS
  <2>0. TypeOK'
    BY TypeStep DEF IInv
  <2>1. ASSUME NEW c \in Calls, Ask(c) \/ Cancel(c) \/ KillByOther(c) \/ Gateway(c) \/ Helper(c)
        PROVE  Client!Next \/ UNCHANGED Client!vars
    <3>1. Moves(c)
      BY <2>1, ClientMoves, GatewayMoves, HelperMoves
    <3>2. \A d \in Calls : d # c => Same(d)
      BY <2>1, ClientAlone, GatewayAlone, HelperAlone
    <3>3. \A d \in Calls : d # c => StateOf(d)' = StateOf(d)
      BY <3>2 DEF Same, StateOf
    <3> QED BY <2>0, <3>1, <3>3, StatesStep
  <2>2. ASSUME NEW m \in Names, OtherWriter(m) PROVE Client!Next
    <3>1. States' = States
      BY <2>2 DEF OtherWriter, States, StateOf
    <3>2. vault' \in [Names -> Files \cup {NoFile}]
      BY <2>0 DEF TypeOK
    <3> QED BY <3>1, <3>2 DEF States, Client!Next, Client!Other
  <2>3. ASSUME Crash PROVE UNCHANGED Client!vars
    <3>1. vault' = vault /\ \A c \in Calls : StateOf(c)' = StateOf(c)
      BY <2>3 DEF Crash, StateOf
    <3> QED BY <3>1 DEF Client!vars
  <2>4. ASSUME UNCHANGED vars PROVE UNCHANGED Client!vars
    <3>1. vault' = vault /\ \A c \in Calls : StateOf(c)' = StateOf(c)
      BY <2>4 DEF vars, StateOf
    <3> QED BY <3>1 DEF Client!vars
  <2> QED BY <2>1, <2>2, <2>3, <2>4 DEF Next
<1> QED BY <1>1, <1>2, Invariance, PTL DEF Spec, ImplementsVaultCalls, Client!Spec

=============================================================================
