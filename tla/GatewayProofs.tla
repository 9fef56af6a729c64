---------------------------- MODULE GatewayProofs ----------------------------
(***************************************************************************)
(* Proofs about GatewayProcess for any documents, checks, sizes, command   *)
(* lines and sink failures.                                                *)
(*                                                                         *)
(*   IInv == Shape /\ DocumentInv /\ ConfigInv /\ LogInv /\ EndInv         *)
(*                                                                         *)
(* is inductive, part by part: a step of the document path concerns one    *)
(* document (DocumentKept), the log is changed by three operations only,   *)
(* and the end of the process by the main goroutine.                       *)
(***************************************************************************)
EXTENDS GatewayProcess, FiniteSetTheorems, TLAPS

(* What may have the payload of a document to close.                       *)
Carriers == {"register", "discard"} \cup WritingLabels
Carried(d)  == at[d] \in Carriers
Stored(d)   == d \in entries
Expiring(d) == timer[d] = "closing"
Detached(d) == d \in bridge.detached

(* A live payload has one owner, another none.                             *)
OwnerInv(d) ==
  /\ pool[d] = "live" <=> Carried(d) \/ Stored(d) \/ Expiring(d) \/ Detached(d)
  /\ Carried(d)  => ~Stored(d) /\ ~Expiring(d) /\ ~Detached(d)
  /\ Stored(d)   => ~Expiring(d) /\ ~Detached(d)
  /\ Expiring(d) => ~Detached(d)

(* Before the snapshot takes over, the handler's deferred calls own it.    *)
CaptureInv(d) ==
  /\ at[d] \in {"idle", "reserve", "capture"} => pool[d] = "none"
  /\ at[d] \in {"read", "unwind"} => pool[d] = "reserved"
  /\ at[d] \in {"capture", "read", "unwind", "leave"} <=> slot = d

BridgeInv == IF bridge.closed THEN entries = {} ELSE bridge.detached = {}

DocumentInv == BridgeInv /\ \A d \in Documents : OwnerInv(d) /\ CaptureInv(d)

(* The types, but for the counter of bytes and the numbers of the log.     *)
Shape ==
  /\ at \in [Calls -> CallLabels \cup DocumentLabels \cup WritingLabels]
  /\ result \in [Documents -> {"none", "document", "error"}] /\ slot \in Documents \cup {NoDocument}
  /\ pool \in [Documents -> {"none", "reserved", "live", "free"}]
  /\ entries \subseteq Documents /\ timer \in [Documents -> {"off", "armed", "fired", "closing"}]
  /\ bridge \in [closed : BOOLEAN, detached : SUBSET Documents]

(* The log: nothing is owed or told before the degradation.                *)
LogInv ==
  /\ log \in LogType
  /\ log.lost => log.degraded
  /\ ~log.degraded => log.warned = 0 /\ log.owes = Nobody
  /\ log.degraded => log.warned = IF log.owes = Nobody THEN 1 ELSE 0

(* What a gateway that exits with code 0 claims.                           *)
Asked   == signaled \/ probe = "failed" \/ (~Http /\ input = "eof")
EndInv ==
  /\ phase = "shutdown" => Http /\ Interrupted
  /\ phase = "stopped" /\ ended = "ok" => Asked /\ (Http => Quiet)
  /\ phase \in {"close_app", "detach", "exit", "exited"} /\ code = 0 =>
       /\ signaled \/ (~Http /\ input = "eof")
       /\ log.kind # "off" => "gateway.stop" \in log.journal \/ log.lost
       /\ Http => Quiet

(* The configuration names a kind of log.                                  *)
ConfigInv == config.telemetry \in {"sqlite", "stderr", "off"}

IInv == Shape /\ DocumentInv /\ ConfigInv /\ LogInv /\ EndInv

USE SizesAssumption, DocumentsAssumption, LogAssumption, CallsAssumption
USE DEF Go, To, Exits, documents, pdf, registry, process, wire, Handled

(***************************************************************************)
(* The document path.                                                      *)
(***************************************************************************)
(* Nothing of a document changes.                                          *)
Kept(e) ==
  /\ at'[e] = at[e] /\ pool'[e] = pool[e] /\ timer'[e] = timer[e]
  /\ e \in entries' <=> e \in entries
  /\ e \in bridge'.detached <=> e \in bridge.detached
  /\ slot' = e <=> slot = e

(* A document that a step leaves alone keeps its invariant.                *)
LEMMA DocumentKept == ASSUME NEW e \in Documents, OwnerInv(e), CaptureInv(e), Kept(e) PROVE OwnerInv(e)' /\ CaptureInv(e)'
BY DEF OwnerInv, CaptureInv, Carried, Stored, Expiring, Detached, Kept

(* A step that concerns one document keeps the invariant of them all.      *)
LEMMA OneDocument ==
  ASSUME DocumentInv, BridgeInv', NEW d \in Documents, OwnerInv(d)' /\ CaptureInv(d)',
         \A e \in Documents \ {d} : Kept(e)
  PROVE  DocumentInv'
BY DocumentKept DEF DocumentInv

(* So do all of them when nothing of any document changes.                 *)
LEMMA NoDocumentTouched ==
  ASSUME Shape, DocumentInv, UNCHANGED <<slot, pool, entries, timer, bridge>>, \A e \in Documents : at'[e] = at[e]
  PROVE  DocumentInv'
<1>1. \A e \in Documents : Kept(e)
  BY DEF Kept
<1> QED BY <1>1, DocumentKept DEF DocumentInv, BridgeInv

(* The handler, the timer and the writer, one action after the other.      *)

(* The handler: from the slot to the bridge.                               *)
LEMMA HandlerDocuments ==
  ASSUME Shape, DocumentInv, NEW d \in Documents,
         \/ ReserveSlot(d) \/ Capture(d) \/ ReadDocument(d) \/ Unwind(d) \/ Leave(d) \/ Register(d) \/ Discard(d)
  PROVE  Shape' /\ DocumentInv'
<1> d \in Calls
  BY DEF Calls
<1> USE DEF DocumentInv
<1>1. ASSUME ReserveSlot(d) PROVE Shape' /\ DocumentInv'
  <2>1. Shape'
    BY <1>1 DEF ReserveSlot, Answer, Shape, CallLabels, DocumentLabels, WritingLabels
  <2>2. BridgeInv' /\ OwnerInv(d)' /\ CaptureInv(d)'
    BY <1>1 DEF ReserveSlot, Answer, Shape, BridgeInv, OwnerInv, CaptureInv, Carried, Stored, Expiring, Detached,
       Carriers, WritingLabels
  <2>3. \A e \in Documents \ {d} : Kept(e)
    BY <1>1 DEF ReserveSlot, Answer, Shape, Calls, CaptureInv, Kept
  <2> QED BY <2>1, <2>2, <2>3, OneDocument
<1>2. ASSUME Capture(d) PROVE Shape' /\ DocumentInv'
  <2>1. Shape'
    BY <1>2 DEF Capture, Shape, CallLabels, DocumentLabels, WritingLabels
  <2>2. BridgeInv' /\ OwnerInv(d)' /\ CaptureInv(d)'
    BY <1>2 DEF Capture, Shape, BridgeInv, OwnerInv, CaptureInv, Carried, Stored, Expiring, Detached, Carriers,
       WritingLabels
  <2>3. \A e \in Documents \ {d} : Kept(e)
    BY <1>2 DEF Capture, Shape, Calls, CaptureInv, Kept
  <2> QED BY <2>1, <2>2, <2>3, OneDocument
<1>3. ASSUME ReadDocument(d) PROVE Shape' /\ DocumentInv'
  <2>1. Shape'
    BY <1>3 DEF ReadDocument, Shape, CallLabels, DocumentLabels, WritingLabels
  <2>2. BridgeInv' /\ OwnerInv(d)' /\ CaptureInv(d)'
    BY <1>3 DEF ReadDocument, Shape, BridgeInv, OwnerInv, CaptureInv, Carried, Stored, Expiring, Detached, Carriers,
       WritingLabels
  <2>3. \A e \in Documents \ {d} : Kept(e)
    BY <1>3 DEF ReadDocument, Shape, Calls, CaptureInv, Kept
  <2> QED BY <2>1, <2>2, <2>3, OneDocument
<1>4. ASSUME Unwind(d) PROVE Shape' /\ DocumentInv'
  <2>1. Shape'
    BY <1>4 DEF Unwind, Release, Shape, CallLabels, DocumentLabels, WritingLabels
  <2>2. BridgeInv' /\ OwnerInv(d)' /\ CaptureInv(d)'
    BY <1>4 DEF Unwind, Release, Shape, BridgeInv, OwnerInv, CaptureInv, Carried, Stored, Expiring, Detached,
       Carriers, WritingLabels
  <2>3. \A e \in Documents \ {d} : Kept(e)
    BY <1>4 DEF Unwind, Release, Shape, Calls, CaptureInv, Kept
  <2> QED BY <2>1, <2>2, <2>3, OneDocument
<1>5. ASSUME Leave(d) PROVE Shape' /\ DocumentInv'
  <2>1. Shape'
    BY <1>5 DEF Leave, Answer, Shape, CallLabels, DocumentLabels, WritingLabels
  <2>2. BridgeInv' /\ OwnerInv(d)' /\ CaptureInv(d)'
    BY <1>5 DEF Leave, Answer, Shape, BridgeInv, OwnerInv, CaptureInv, Carried, Stored, Expiring, Detached, Carriers,
       WritingLabels
  <2>3. \A e \in Documents \ {d} : Kept(e)
    BY <1>5 DEF Leave, Answer, Shape, Calls, CaptureInv, Kept
  <2> QED BY <2>1, <2>2, <2>3, OneDocument
<1>6. ASSUME Register(d) PROVE Shape' /\ DocumentInv'
  <2>1. Shape'
    BY <1>6 DEF Register, Answer, Shape, CallLabels, DocumentLabels, WritingLabels
  <2>2. BridgeInv' /\ OwnerInv(d)' /\ CaptureInv(d)'
    BY <1>6 DEF Register, Answer, Shape, BridgeInv, OwnerInv, CaptureInv, Carried, Stored, Expiring, Detached,
       Carriers, WritingLabels
  <2>3. \A e \in Documents \ {d} : Kept(e)
    BY <1>6 DEF Register, Answer, Shape, Calls, CaptureInv, Kept
  <2> QED BY <2>1, <2>2, <2>3, OneDocument
<1>7. ASSUME Discard(d) PROVE Shape' /\ DocumentInv'
  <2>1. Shape'
    BY <1>7 DEF Discard, Answer, CloseSnapshot, Release, Shape, CallLabels, DocumentLabels, WritingLabels
  <2>2. BridgeInv' /\ OwnerInv(d)' /\ CaptureInv(d)'
    BY <1>7 DEF Discard, Answer, CloseSnapshot, Release, Shape, BridgeInv, OwnerInv, CaptureInv, Carried, Stored,
       Expiring, Detached, Carriers, WritingLabels
  <2>3. \A e \in Documents \ {d} : Kept(e)
    BY <1>7 DEF Discard, Answer, CloseSnapshot, Release, Shape, Calls, CaptureInv, Kept
  <2> QED BY <2>1, <2>2, <2>3, OneDocument
<1> QED BY <1>1, <1>2, <1>3, <1>4, <1>5, <1>6, <1>7

(* The timer, and the end of a detached document.                          *)
LEMMA TimerDocuments ==
  ASSUME Shape, DocumentInv, NEW d \in Documents, Fire(d) \/ Expire(d) \/ CloseExpired(d) \/ CloseDetached(d)
  PROVE  Shape' /\ DocumentInv'
<1> d \in Calls
  BY DEF Calls
<1> USE DEF DocumentInv
<1>1. ASSUME Fire(d) PROVE Shape' /\ DocumentInv'
  <2>1. Shape'
    BY <1>1 DEF Fire, Shape, CallLabels, DocumentLabels, WritingLabels
  <2>2. BridgeInv' /\ OwnerInv(d)' /\ CaptureInv(d)'
    BY <1>1 DEF Fire, Shape, BridgeInv, OwnerInv, CaptureInv, Carried, Stored, Expiring, Detached, Carriers,
       WritingLabels
  <2>3. \A e \in Documents \ {d} : Kept(e)
    BY <1>1 DEF Fire, Shape, Calls, CaptureInv, Kept
  <2> QED BY <2>1, <2>2, <2>3, OneDocument
<1>2. ASSUME Expire(d) PROVE Shape' /\ DocumentInv'
  <2>1. Shape'
    BY <1>2 DEF Expire, Shape, CallLabels, DocumentLabels, WritingLabels
  <2>2. BridgeInv' /\ OwnerInv(d)' /\ CaptureInv(d)'
    BY <1>2 DEF Expire, Shape, BridgeInv, OwnerInv, CaptureInv, Carried, Stored, Expiring, Detached, Carriers,
       WritingLabels
  <2>3. \A e \in Documents \ {d} : Kept(e)
    BY <1>2 DEF Expire, Shape, Calls, CaptureInv, Kept
  <2> QED BY <2>1, <2>2, <2>3, OneDocument
<1>3. ASSUME CloseExpired(d) PROVE Shape' /\ DocumentInv'
  <2>1. Shape'
    BY <1>3 DEF CloseExpired, CloseSnapshot, Release, Shape, CallLabels, DocumentLabels, WritingLabels
  <2>2. BridgeInv' /\ OwnerInv(d)' /\ CaptureInv(d)'
    BY <1>3 DEF CloseExpired, CloseSnapshot, Release, Shape, BridgeInv, OwnerInv, CaptureInv, Carried, Stored,
       Expiring, Detached, Carriers, WritingLabels
  <2>3. \A e \in Documents \ {d} : Kept(e)
    BY <1>3 DEF CloseExpired, CloseSnapshot, Release, Shape, Calls, CaptureInv, Kept
  <2> QED BY <2>1, <2>2, <2>3, OneDocument
<1>4. ASSUME CloseDetached(d) PROVE Shape' /\ DocumentInv'
  <2>1. Shape'
    BY <1>4 DEF CloseDetached, StopTimer, CloseSnapshot, Release, Shape, CallLabels, DocumentLabels, WritingLabels
  <2>2. BridgeInv' /\ OwnerInv(d)' /\ CaptureInv(d)'
    BY <1>4 DEF CloseDetached, StopTimer, CloseSnapshot, Release, Shape, BridgeInv, OwnerInv, CaptureInv, Carried,
       Stored, Expiring, Detached, Carriers, WritingLabels
  <2>3. \A e \in Documents \ {d} : Kept(e)
    BY <1>4 DEF CloseDetached, StopTimer, CloseSnapshot, Release, Shape, Calls, CaptureInv, Kept
  <2> QED BY <2>1, <2>2, <2>3, OneDocument
<1> QED BY <1>1, <1>2, <1>3, <1>4

(* The writer: take, stream and close.                                     *)
LEMMA WriterDocuments ==
  ASSUME Shape, DocumentInv, NEW d \in Documents,
         WriteDocument(d) \/ MissDocument(d) \/ StreamDocument(d) \/ CloseDocument(d)
  PROVE  Shape' /\ DocumentInv'
<1> d \in Calls
  BY DEF Calls
<1> USE DEF DocumentInv
<1>1. ASSUME WriteDocument(d) PROVE Shape' /\ DocumentInv'
  <2>1. Shape'
    BY <1>1 DEF WriteDocument, Take, StopTimer, Shape, CallLabels, DocumentLabels, WritingLabels
  <2>2. BridgeInv' /\ OwnerInv(d)' /\ CaptureInv(d)'
    BY <1>1 DEF WriteDocument, Take, StopTimer, Shape, BridgeInv, OwnerInv, CaptureInv, Carried, Stored, Expiring,
       Detached, Carriers, WritingLabels
  <2>3. \A e \in Documents \ {d} : Kept(e)
    BY <1>1 DEF WriteDocument, Take, StopTimer, Shape, Calls, CaptureInv, Kept
  <2> QED BY <2>1, <2>2, <2>3, OneDocument
<1>2. ASSUME MissDocument(d) PROVE Shape' /\ DocumentInv'
  <2>1. Shape'
    BY <1>2 DEF MissDocument, Untaken, After, Shape, CallLabels, DocumentLabels, WritingLabels
  <2>2. BridgeInv' /\ OwnerInv(d)' /\ CaptureInv(d)'
    BY <1>2 DEF MissDocument, Untaken, After, Shape, BridgeInv, OwnerInv, CaptureInv, Carried, Stored, Expiring,
       Detached, Carriers, WritingLabels
  <2>3. \A e \in Documents \ {d} : Kept(e)
    BY <1>2 DEF MissDocument, Untaken, After, Shape, Calls, CaptureInv, Kept
  <2> QED BY <2>1, <2>2, <2>3, OneDocument
<1>3. ASSUME StreamDocument(d) PROVE Shape' /\ DocumentInv'
  <2>1. Shape'
    BY <1>3 DEF StreamDocument, Stream, Shape, CallLabels, DocumentLabels, WritingLabels
  <2>2. BridgeInv' /\ OwnerInv(d)' /\ CaptureInv(d)'
    BY <1>3 DEF StreamDocument, Stream, Shape, BridgeInv, OwnerInv, CaptureInv, Carried, Stored, Expiring, Detached,
       Carriers, WritingLabels
  <2>3. \A e \in Documents \ {d} : Kept(e)
    BY <1>3 DEF StreamDocument, Stream, Shape, Calls, CaptureInv, Kept
  <2> QED BY <2>1, <2>2, <2>3, OneDocument
<1>4. ASSUME CloseDocument(d) PROVE Shape' /\ DocumentInv'
  <2>1. Shape'
    BY <1>4 DEF CloseDocument, CloseWritten, CloseSnapshot, Release, After, Shape, CallLabels, DocumentLabels,
       WritingLabels
  <2>2. BridgeInv' /\ OwnerInv(d)' /\ CaptureInv(d)'
    BY <1>4 DEF CloseDocument, CloseWritten, CloseSnapshot, Release, After, Shape, BridgeInv, OwnerInv, CaptureInv,
       Carried, Stored, Expiring, Detached, Carriers, WritingLabels
  <2>3. \A e \in Documents \ {d} : Kept(e)
    BY <1>4 DEF CloseDocument, CloseWritten, CloseSnapshot, Release, After, Shape, Calls, CaptureInv, Kept
  <2> QED BY <2>1, <2>2, <2>3, OneDocument
<1> QED BY <1>1, <1>2, <1>3, <1>4

(* The shutdown of the bridge hands every registered document to Close.    *)
LEMMA BridgeDocuments == ASSUME Shape, DocumentInv, CloseBridge PROVE Shape' /\ DocumentInv'
<1>1. Shape'
  BY DEF CloseBridge, Shape
<1>2. BridgeInv'
  BY DEF CloseBridge, BridgeInv, Shape
<1>3. ASSUME NEW d \in Documents PROVE OwnerInv(d)' /\ CaptureInv(d)'
  BY DEF CloseBridge, DocumentInv, BridgeInv, OwnerInv, CaptureInv, Carried, Stored, Expiring, Detached
<1> QED BY <1>1, <1>2, <1>3 DEF DocumentInv

(* The other steps of a call.                                              *)
LEMMA CallDocuments ==
  ASSUME Shape, DocumentInv, NEW c \in Calls, Arrive(c) \/ Ready(c) \/ LogTool(c) \/ Respond(c) \/ LogRequest(c)
  PROVE  Shape' /\ DocumentInv'
<1>1. /\ at' = [at EXCEPT ![c] = at'[c]] /\ UNCHANGED <<slot, pool, entries, timer, bridge>>
      /\ \/ at[c] = "idle" /\ at'[c] \in {"reserve", "ready", "logrequest"}
         \/ /\ at[c] \in {"ready", "logtool", "respond", "is_ready", "logrequest"}
            /\ at'[c] \in {"ready", "respond", "is_ready", "logrequest", "done"}
  BY DEF Arrive, Ready, LogTool, Respond, LogRequest, After, Shape
<1>2. Shape'
  <2>1. result' \in [Documents -> {"none", "document", "error"}]
    BY DEF Arrive, Ready, LogTool, Respond, LogRequest, Shape
  <2> QED BY <1>1, <2>1 DEF Shape, CallLabels, DocumentLabels
<1>3. CASE c \in Documents
  <2>1. OwnerInv(c)' /\ CaptureInv(c)' /\ BridgeInv'
    BY <1>1, <1>3 DEF DocumentInv, Shape, BridgeInv, OwnerInv, CaptureInv, Carried, Stored, Expiring, Detached,
       Carriers, WritingLabels
  <2>2. \A e \in Documents \ {c} : Kept(e)
    BY <1>1 DEF Shape, Calls, Kept
  <2> QED BY <1>2, <1>3, <2>1, <2>2, OneDocument
<1>4. CASE c \notin Documents
  <2>1. \A e \in Documents : at'[e] = at[e]
    BY <1>1, <1>4 DEF Shape, Calls
  <2> QED BY <1>1, <1>2, <2>1, NoDocumentTouched
<1> QED BY <1>3, <1>4

(***************************************************************************)
(* The log.                                                                *)
(***************************************************************************)
(* The three operations on it keep its invariant and forget nothing.       *)
Grows == log.kind = log'.kind /\ log.journal \subseteq log'.journal /\ (log.lost => log'.lost)

(* The first failure owes a warning, a later one nothing.                  *)
LEMMA DegradeLog ==
  ASSUME LogInv, NEW l \in LogType, NEW w \in Writers, l.degraded = log.degraded, l.warned = log.warned, l.owes = log.owes
  PROVE  /\ Degrade(l, w) \in LogType /\ Degrade(l, w).degraded
         /\ Degrade(l, w).warned = IF Degrade(l, w).owes = Nobody THEN 1 ELSE 0
         /\ Degrade(l, w).kind = l.kind /\ Degrade(l, w).journal = l.journal /\ Degrade(l, w).lost = l.lost
<1>1. CASE l.degraded
  BY <1>1 DEF Degrade, LogInv
<1>2. CASE ~l.degraded
  <2> DEFINE m == [l EXCEPT !.degraded = TRUE, !.owes = w]
  <2>1. m \in LogType /\ m.degraded /\ m.owes = w /\ m.warned = l.warned /\ m.kind = l.kind /\ m.journal = l.journal
        /\ m.lost = l.lost
    BY DEF LogType
  <2>2. l.warned = 0 /\ w # Nobody
    BY <1>2 DEF LogInv
  <2>3. Degrade(l, w) = m
    BY <1>2 DEF Degrade
  <2> QED BY <2>1, <2>2, <2>3
<1> QED BY <1>1, <1>2

(* An event is in the journal or it is lost.                               *)
LEMMA EventLog ==
  ASSUME LogInv, NEW w \in Writers, NEW name, Event(w, name)
  PROVE  LogInv' /\ Grows /\ (name \in Lifecycle => log'.kind = "off" \/ name \in log'.journal \/ log'.lost)
<1>1. CASE log' = log /\ log.kind = "off"
  BY <1>1 DEF LogInv, Grows
<1>2. CASE log' = [log EXCEPT !.journal = @ \cup ({name} \cap Lifecycle)]
  <2>1. log' \in LogType
    BY <1>2 DEF LogInv, LogType
  <2> QED BY <1>2, <2>1 DEF LogInv, LogType, Grows
<1>3. ASSUME NEW l \in {log, [log EXCEPT !.faults = @ + 1]}, SinkFails(l), log' = Degrade([l EXCEPT !.lost = TRUE], w)
      PROVE  LogInv' /\ Grows /\ log'.lost
  <2> DEFINE m == [l EXCEPT !.lost = TRUE]
  <2>1. l \in LogType /\ l.degraded = log.degraded /\ l.warned = log.warned /\ l.owes = log.owes
        /\ l.kind = log.kind /\ l.journal = log.journal
    BY <1>3 DEF LogInv, LogType, SinkFails
  <2>2. m \in LogType /\ m.degraded = log.degraded /\ m.warned = log.warned /\ m.owes = log.owes
        /\ m.kind = log.kind /\ m.journal = log.journal /\ m.lost
    BY <2>1 DEF LogType
  <2> HIDE DEF m
  <2>3. log' = Degrade(m, w)
    BY <1>3 DEF m
  <2> QED BY <2>2, <2>3, DegradeLog DEF LogInv, Grows
<1> QED BY <1>1, <1>2, <1>3 DEF Event

(* Closing the sink may fail, and loses no event.                          *)
LEMMA CloseLogKeeps ==
  ASSUME LogInv, NEW w \in Writers, NEW failed \in BOOLEAN, CloseLog(w, failed)
  PROVE  LogInv' /\ Grows
<1>1. CASE log' = [log EXCEPT !.closed = log.kind # "off"]
  BY <1>1 DEF LogInv, LogType, Grows
<1>2. CASE log.faults < MaxSinkFaults /\ log' = Degrade([log EXCEPT !.closed = TRUE, !.faults = @ + 1], w)
  <2> DEFINE m == [log EXCEPT !.closed = TRUE, !.faults = @ + 1]
  <2>a. log \in LogType /\ log.faults + 1 \in 0..MaxSinkFaults
    BY <1>2 DEF LogInv, LogType
  <2>b. [log EXCEPT !.closed = TRUE] \in LogType /\ [log EXCEPT !.closed = TRUE].faults = log.faults
    BY <2>a DEF LogType
  <2>c. m = [[log EXCEPT !.closed = TRUE] EXCEPT !.faults = @ + 1]
    BY <2>a DEF LogType
  <2>d. m \in LogType
    BY <2>a, <2>b, <2>c DEF LogType
  <2>1. /\ m.degraded = log.degraded /\ m.warned = log.warned /\ m.owes = log.owes
        /\ m.kind = log.kind /\ m.journal = log.journal /\ m.lost = log.lost
    BY <2>a DEF LogType
  <2> HIDE DEF m
  <2>2. log' = Degrade(m, w)
    BY <1>2 DEF m
  <2> QED BY <2>d, <2>1, <2>2, DegradeLog DEF LogInv, Grows
<1> QED BY <1>1, <1>2 DEF CloseLog

(* The warning that is owed is given, once.                                *)
LEMMA WarnLog == ASSUME LogInv, NEW w \in Writers, Warn(w) PROVE LogInv' /\ Grows
<1>1. log.owes # Nobody /\ log.degraded /\ log.warned = 0
  BY DEF Warn, LogInv
<1>2. log' = [log EXCEPT !.owes = Nobody, !.warned = 1]
  BY <1>1 DEF Warn
<1> QED BY <1>1, <1>2 DEF LogInv, LogType, Grows

(* A new log owes nothing.                                                 *)
LEMMA NewLogSound == ASSUME NEW kind \in {"sqlite", "stderr", "off"}, log' = NewLog(kind) PROVE LogInv'
BY DEF NewLog, LogInv, LogType

(***************************************************************************)
(* Every step keeps the documents and the log.                             *)
(***************************************************************************)
(* A configuration that is accepted names a kind of log.                   *)
LEMMA ConfigStep == ConfigInv /\ [Next]_vars => ConfigInv'
<1> SUFFICES ASSUME ConfigInv, [Next]_vars PROVE ConfigInv'
  OBVIOUS
<1>1. CASE Parse
  BY <1>1 DEF Parse, ConfigInv, Config, Valid, Telemetry
<1>2. CASE config' = config
  BY <1>2 DEF ConfigInv
<1> QED
  BY <1>1, <1>2 DEF Next, vars, MainSteps, OpenLog, Start, NewApp, StartFailed, StdioEnds, Ends, Shutdown,
     ShutdownEnds,
     Stopped, CloseApp, CloseNext, EndLog, Exit, ListenFails, RefuseLine, Signal, ProbeStops, Arrive, CallStep, Ready,
     LogTool, Respond, LogRequest, DocumentStep, Handle, WriteDocument, MissDocument, StreamDocument, CloseDocument, Served,
     TimerStep, Tell

(* The steps that leave the documents alone, and those that leave the log. *)
LEMMA DocumentsStep == Shape /\ DocumentInv /\ [Next]_vars => Shape' /\ DocumentInv'
<1> SUFFICES ASSUME Shape, DocumentInv, [Next]_vars PROVE Shape' /\ DocumentInv'
  OBVIOUS
<1>1. CASE UNCHANGED documents
  <2>1. Shape'
    BY <1>1 DEF Shape
  <2> QED BY <1>1, <2>1, NoDocumentTouched
<1>2. ASSUME NEW c \in Calls, Arrive(c) \/ CallStep(c) PROVE Shape' /\ DocumentInv'
  BY <1>2, CallDocuments, HandlerDocuments, WriterDocuments DEF CallStep, DocumentStep, Handle
<1>3. ASSUME NEW d \in Documents, TimerStep(d) \/ CloseDetached(d) PROVE Shape' /\ DocumentInv'
  BY <1>3, TimerDocuments DEF TimerStep
<1>4. CASE CloseBridge
  BY <1>4, BridgeDocuments
<1>5. CASE MainSteps
  BY <1>1, <1>3, <1>4, <1>5 DEF MainSteps, Parse, OpenLog, Start, NewApp, StartFailed, StdioEnds, Ends, Shutdown,
     ShutdownEnds, Stopped, CloseApp, CloseNext, EndLog, Exit
<1>6. CASE ListenFails \/ RefuseLine \/ Signal \/ ProbeStops \/ (\E w \in Writers : Tell(w)) \/ UNCHANGED vars
  BY <1>1, <1>6 DEF ListenFails, Ends, RefuseLine, Signal, ProbeStops, Tell, vars
<1> QED BY <1>2, <1>3, <1>5, <1>6 DEF Next

(* Every step keeps the log; only opening it replaces it.                  *)
LEMMA LogStep == ConfigInv /\ LogInv /\ [Next]_vars => LogInv' /\ (OpenLog \/ Grows)
<1> SUFFICES ASSUME ConfigInv, LogInv, [Next]_vars PROVE LogInv' /\ (OpenLog \/ Grows)
  OBVIOUS
<1> Main \in Writers /\ Calls \subseteq Writers
  BY DEF Calls
<1>1. ASSUME UNCHANGED log PROVE LogInv' /\ Grows
  BY <1>1 DEF LogInv, Grows
<1>2. CASE OpenLog
  BY <1>1, <1>2, NewLogSound DEF OpenLog, ConfigInv
<1>3. ASSUME NEW w \in Writers, NEW name, Event(w, name) PROVE LogInv' /\ Grows
  BY <1>3, EventLog
<1>4. CASE EndLog
  BY <1>4, CloseLogKeeps DEF EndLog
<1>5. CASE MainSteps /\ ~OpenLog /\ ~EndLog
  BY <1>1, <1>3, <1>5 DEF MainSteps, Parse, Start, NewApp, StartFailed, StdioEnds, Ends, Shutdown,
     ShutdownEnds, Stopped, CloseApp, CloseNext, Exit
<1>6. ASSUME NEW c \in Calls, Arrive(c) \/ CallStep(c) PROVE LogInv' /\ Grows
  <2>1. CASE LogTool(c)
    BY <1>3, <2>1 DEF LogTool
  <2>2. CASE LogRequest(c)
    BY <1>3, <2>2 DEF LogRequest
  <2>3. CASE Arrive(c)
    BY <1>1, <2>3 DEF Arrive
  <2>4. CASE Ready(c) \/ Respond(c)
    BY <1>1, <2>4 DEF Ready, Respond
  <2>5. CASE c \in Documents /\ DocumentStep(c)
    BY <1>1, <2>5 DEF DocumentStep, Handle, WriteDocument, MissDocument, StreamDocument, CloseDocument
  <2> QED BY <1>6, <2>1, <2>2, <2>3, <2>4, <2>5 DEF CallStep
<1>7. CASE ListenFails \/ RefuseLine \/ Signal \/ ProbeStops \/ (\E d \in Documents : TimerStep(d)) \/ UNCHANGED vars
  BY <1>1, <1>7 DEF ListenFails, Ends, RefuseLine, Signal, ProbeStops, TimerStep, vars
<1>8. ASSUME NEW w \in Writers, Tell(w) PROVE LogInv' /\ Grows
  BY <1>8, WarnLog DEF Tell
<1> QED BY <1>2, <1>4, <1>5, <1>6, <1>7, <1>8 DEF Next

(***************************************************************************)
(* The end of the process.                                                 *)
(***************************************************************************)
(* The main goroutine stays where it is, and nothing it relies on is lost. *)
Still ==
  /\ phase' = phase /\ code' = code /\ config' = config /\ ended' = ended
  /\ signaled => signaled'
  /\ probe = "failed" => probe' = "failed"
  /\ input = "eof" => input' = "eof"
  /\ phase # "serve" => (Quiet => Quiet')
  /\ Grows

(* What was true of the end of the process stays true.                     *)
LEMMA StillEnds == ASSUME EndInv, Still PROVE EndInv'
BY DEF EndInv, Still, Asked, Interrupted, Http, Grows

(* A call that has not come, or is done, takes no step.                    *)
LEMMA QuietStays == ASSUME NEW c \in Calls, CallStep(c) PROVE ~Quiet
<1>1. at[c] \notin Idle
  BY DEF CallStep, Ready, LogTool, Respond, LogRequest, DocumentStep, Handle, WriteDocument, MissDocument,
     StreamDocument,
     CloseDocument, ReserveSlot, Capture, ReadDocument, Unwind, Leave, Register, Discard, Stream, CloseWritten, Idle
<1> QED BY <1>1 DEF Quiet

(* A call does not move the main goroutine.                                *)
LEMMA CallsStill == ASSUME NEW c \in Calls, Arrive(c) \/ CallStep(c), Grows PROVE Still
<1>1. UNCHANGED <<phase, code, config, ended, signaled, probe, input>>
  BY DEF Arrive, CallStep, Served, Ready, LogTool, Respond, LogRequest, DocumentStep, Handle, WriteDocument,
     MissDocument,
     StreamDocument, CloseDocument
<1>2. CASE Arrive(c)
  BY <1>1, <1>2 DEF Arrive, Still
<1>3. CASE CallStep(c)
  BY <1>1, <1>3, QuietStays DEF Still
<1> QED BY <1>2, <1>3

(* Nor does a timer, a warning, a signal or the probe bring a call back.   *)
LEMMA TimersStill ==
  ASSUME NEW d \in Documents, Grows, TimerStep(d) \/ CloseDetached(d), UNCHANGED <<log, wire, process>>
  PROVE  Still
<1>1. at' = at
  BY DEF TimerStep, Fire, Expire, CloseExpired, CloseDetached
<1>2. Quiet => Quiet'
  BY <1>1 DEF Quiet
<1> QED BY <1>2 DEF Still

(* Nor do a warning, a signal, the probe or stdin.                         *)
LEMMA OthersStill ==
  ASSUME Grows, (\E w \in Writers : Tell(w)) \/ RefuseLine \/ Signal \/ ProbeStops \/ UNCHANGED vars
  PROVE  Still
<1>1. at' = at
  BY DEF Tell, RefuseLine, Signal, ProbeStops, vars
<1>2. Quiet => Quiet'
  BY <1>1 DEF Quiet
<1> QED
  BY <1>2 DEF Still, Tell, RefuseLine, Signal, ProbeStops, vars

(* The phases of a gateway whose server has ended.                         *)
LEMMA EndStep == ASSUME EndInv, [Next]_vars, OpenLog \/ Grows, LogInv PROVE EndInv'
<1>1. ASSUME NEW c \in Calls, Arrive(c) \/ CallStep(c), Grows PROVE EndInv'
  BY <1>1, CallsStill, StillEnds
<1>2. ASSUME Grows, (\E w \in Writers : Tell(w)) \/ RefuseLine \/ Signal \/ ProbeStops \/ UNCHANGED vars
      PROVE  EndInv'
  BY <1>2, OthersStill, StillEnds
<1>3. CASE Parse \/ OpenLog \/ Start \/ NewApp \/ StartFailed
  BY <1>3 DEF Parse, OpenLog, Start, NewApp, StartFailed, EndInv
<1>4. CASE StdioEnds
  BY <1>4 DEF StdioEnds, Ends, EndInv, Asked, Interrupted, Http
<1>5. CASE ListenFails \/ Shutdown
  BY <1>5 DEF ListenFails, Shutdown, Ends, EndInv, Asked, Interrupted, Http
<1>6. CASE ShutdownEnds
  BY <1>6 DEF ShutdownEnds, Ends, EndInv, Asked, Interrupted, Http, Quiet
<1>7. CASE Stopped
  <2>0. Main \in Writers
    OBVIOUS
  <2>1. Quiet' <=> Quiet
    BY <1>7 DEF Stopped, Quiet
  <2>2. phase' = "close_app" /\ UNCHANGED <<config, signaled, input, probe, ended>>
    BY <1>7 DEF Stopped
  <2>3. CASE Exits(1)
    BY <2>2, <2>3 DEF EndInv
  <2>4. CASE ended = "ok" /\ ~(probe = "failed" /\ ~signaled) /\ Event(Main, "gateway.stop")
    <3>1. log'.kind = "off" \/ "gateway.stop" \in log'.journal \/ log'.lost
      BY <2>0, <2>4, EventLog DEF Lifecycle
    <3>2. Asked /\ (Http => Quiet)
      BY <1>7, <2>4 DEF Stopped, EndInv
    <3> QED BY <2>1, <2>2, <2>4, <3>1, <3>2 DEF EndInv, Asked, Http
  <2> QED BY <1>7, <2>3, <2>4 DEF Stopped
<1>8. CASE CloseApp
  BY <1>8 DEF CloseApp, CloseBridge, EndInv, Http, Quiet
<1>9. CASE CloseNext
  <2>1. Grows /\ UNCHANGED <<log, wire, process>>
    BY <1>9 DEF CloseNext, Grows
  <2> QED BY <1>9, <2>1, TimersStill, StillEnds DEF CloseNext
<1>10. CASE EndLog
  <2>1. PICK failed \in BOOLEAN : CloseLog(Main, failed) /\ Exits(IF failed /\ code = 0 THEN 1 ELSE code)
    BY <1>10 DEF EndLog
  <2>2. Grows
    BY <2>1, CloseLogKeeps
  <2>3. code' = 0 => code = 0
    BY <2>1
  <2> QED BY <1>10, <2>2, <2>3 DEF EndLog, EndInv, Grows, Http, Quiet
<1>11. CASE Exit
  BY <1>11 DEF Exit, EndInv, Http, Quiet
<1>12. CASE OpenLog
  BY <1>3, <1>12
<1>13. CASE Grows
  <2>1. CASE MainSteps
    BY <1>3, <1>4, <1>5, <1>6, <1>7, <1>8, <1>9, <1>10, <1>11, <2>1 DEF MainSteps
  <2>2. CASE ListenFails
    BY <1>5, <2>2
  <2>3. CASE \E c \in Calls : Arrive(c) \/ CallStep(c)
    BY <1>1, <1>13, <2>3
  <2>4. ASSUME NEW d \in Documents, TimerStep(d) PROVE EndInv'
    <3>1. UNCHANGED <<log, wire, process>>
      BY <2>4 DEF TimerStep
    <3> QED BY <3>1, <2>4, <1>13, TimersStill, StillEnds
  <2>5. CASE \E w \in Writers : Tell(w)
    BY <1>2, <1>13, <2>5
  <2>6. CASE RefuseLine \/ Signal \/ ProbeStops \/ UNCHANGED vars
    BY <1>2, <1>13, <2>6
  <2> QED BY <2>1, <2>2, <2>3, <2>4, <2>5, <2>6 DEF Next
<1> QED BY <1>12, <1>13

(***************************************************************************)
(* The results.                                                            *)
(***************************************************************************)
LEMMA InitInv == Init => IInv
<1> SUFFICES ASSUME Init PROVE IInv
  OBVIOUS
<1>1. log = NewLog("off") /\ config.telemetry = "off"
  BY DEF Init
<1>2. LogInv
  BY <1>1 DEF NewLog, LogInv, LogType
<1>3. Shape
  BY DEF Init, BridgeInit, Shape, CallLabels
<1>4. DocumentInv
  BY DEF Init, BridgeInit, DocumentInv, BridgeInv, OwnerInv, CaptureInv, Carried, Stored, Expiring, Detached,
     Carriers,
     WritingLabels, Calls
<1>5. EndInv
  BY DEF Init, EndInv
<1> QED BY <1>1, <1>2, <1>3, <1>4, <1>5 DEF IInv, ConfigInv

(* Every step keeps the whole invariant.                                   *)
LEMMA InvStep == IInv /\ [Next]_vars => IInv'
<1> SUFFICES ASSUME IInv, [Next]_vars PROVE IInv'
  OBVIOUS
<1>1. ConfigInv' /\ Shape' /\ DocumentInv'
  BY ConfigStep, DocumentsStep DEF IInv
<1>2. LogInv' /\ (OpenLog \/ Grows)
  BY LogStep DEF IInv
<1>3. EndInv'
  BY <1>2, EndStep DEF IInv
<1> QED BY <1>1, <1>2, <1>3 DEF IInv

(* The inductive invariant: every live payload has one owner, the log owes *)
(* no more than one warning, and a clean exit was asked for.               *)
THEOREM Invariance == Spec => []IInv
<1>1. Init => IInv
  BY InitInv
<1>2. IInv /\ [Next]_vars => IInv'
  BY InvStep
<1> QED BY <1>1, <1>2, PTL DEF Spec

(* A payload that a writer has taken stays mapped until it closes it,      *)
(* whoever else was about to: the timer or the shutdown of the bridge.     *)
THEOREM TakenAlwaysLive == Spec => []TakenStaysLive
<1>1. IInv => TakenStaysLive
  BY DEF IInv, DocumentInv, OwnerInv, Carried, Carriers, TakenStaysLive
<1> QED BY <1>1, Invariance, PTL

(* An event that is lost degrades the log, and that is told exactly once.  *)
THEOREM LossAlwaysTold == Spec => []LossTold
<1>1. IInv => LossTold
  BY DEF IInv, LogInv, LogType, LossTold
<1> QED BY <1>1, Invariance, PTL

(* Exit code 0 is only that of a gateway that was asked to stop, whose stop*)
(* is in the log unless it was lost, and that left no HTTP request behind. *)
THEOREM ExitCodeTrue == Spec => []ExitTells
<1>1. IInv => ExitTells
  BY DEF IInv, EndInv, ExitTells
<1> QED BY <1>1, Invariance, PTL

(* A live payload has exactly one owner that will close it, whoever loses  *)
(* the race for it, and the validator slot belongs to a capture in progress*)
(* (Register, take, expire, Close, Reserve).                               *)
THEOREM OneOwnerAlways == Spec => []OneOwner
<1>1. ASSUME NEW d \in Documents, OwnerInv(d) PROVE Owners(d) = IF pool[d] = "live" THEN 1 ELSE 0
  <2> DEFINE S == {o \in 1..4 : \/ o = 1 /\ at[d] \in {"register", "discard"} \cup WritingLabels
                                \/ o = 2 /\ d \in entries
                                \/ o = 3 /\ timer[d] = "closing"
                                \/ o = 4 /\ d \in bridge.detached}
  <2>1. Owners(d) = Cardinality(S)
    BY DEF Owners
  <2>2. CASE pool[d] = "live"
    <3>1. PICK o \in 1..4 : S = {o}
      <4>1. CASE Carried(d)
        <5>1. S = {1}
          BY <1>1, <4>1 DEF OwnerInv, Carried, Carriers, Stored, Expiring, Detached
        <5> QED BY <5>1
      <4>2. CASE Stored(d)
        <5>1. S = {2}
          BY <1>1, <4>2 DEF OwnerInv, Carried, Carriers, Stored, Expiring, Detached
        <5> QED BY <5>1
      <4>3. CASE Expiring(d)
        <5>1. S = {3}
          BY <1>1, <4>3 DEF OwnerInv, Carried, Carriers, Stored, Expiring, Detached
        <5> QED BY <5>1
      <4>4. CASE Detached(d)
        <5>1. S = {4}
          BY <1>1, <4>4 DEF OwnerInv, Carried, Carriers, Stored, Expiring, Detached
        <5> QED BY <5>1
      <4> QED BY <1>1, <2>2, <4>1, <4>2, <4>3, <4>4 DEF OwnerInv
    <3>2. Cardinality({o}) = 1
      BY FS_Singleton
    <3> QED BY <2>1, <2>2, <3>1, <3>2
  <2>3. CASE pool[d] # "live"
    <3>1. S = {}
      BY <1>1, <2>3 DEF OwnerInv, Carried, Carriers, Stored, Expiring, Detached
    <3> QED BY <2>1, <2>3, <3>1, FS_EmptySet
  <2> QED BY <2>2, <2>3
<1>2. ASSUME Shape, DocumentInv, slot # NoDocument PROVE at[slot] \in {"capture", "read", "unwind", "leave"}
  BY <1>2 DEF Shape, DocumentInv, CaptureInv
<1>3. IInv => OneOwner
  BY <1>1, <1>2 DEF IInv, DocumentInv, BridgeInv, OneOwner
<1> QED BY <1>3, Invariance, PTL

(* A readiness check that is still to come when an event is lost is refused*)
(* (App.ready asks the log).                                               *)
THEOREM ReadyWhileSound == Spec => ReadyIsSound
<1>1. IInv /\ [Next]_vars => [\A c \in Checks : at'[c] = "is_ready" /\ at[c] # "is_ready" => ~log.lost]_vars
  <2> SUFFICES ASSUME IInv, Next, NEW c \in Checks, at'[c] = "is_ready", at[c] # "is_ready" PROVE ~log.lost
    BY DEF vars
  <2>0. at \in [Calls -> CallLabels \cup DocumentLabels \cup WritingLabels] /\ c \in Calls /\ c \notin Documents
    BY DEF IInv, Shape, Calls
  <2>1. PICK d \in Calls : Arrive(d) \/ CallStep(d)
    <3>1. ASSUME at' = at PROVE FALSE
      BY <3>1
    <3> QED
      BY <3>1 DEF Next, MainSteps, Parse, OpenLog, Start, NewApp, StartFailed, StdioEnds, Ends, Shutdown,
         ShutdownEnds,
         Stopped, CloseApp, CloseBridge, CloseNext, CloseDetached, EndLog, Exit, ListenFails, RefuseLine, Signal, ProbeStops,
         TimerStep, Fire, Expire, CloseExpired, Tell
  <2>2. CASE Ready(d)
    BY <2>0, <2>2 DEF Ready, IInv, LogInv
  <2>3. CASE ~Ready(d)
    <3>1. at'[c] # "is_ready" \/ at'[c] = at[c]
      BY <2>0, <2>1, <2>3 DEF Arrive, CallStep, LogTool, Respond, LogRequest, DocumentStep, Handle, WriteDocument,
         MissDocument, StreamDocument, CloseDocument, ReserveSlot, Capture, ReadDocument, Unwind, Leave, Register, Discard,
         Answer, Take, Untaken, Stream, CloseWritten, After
    <3> QED BY <3>1
  <2> QED BY <2>2, <2>3
<1> QED BY <1>1, Invariance, PTL DEF Spec, ReadyIsSound

(***************************************************************************)
(* The counter of the gate.                                                *)
(***************************************************************************)
(* The bytes of documents of such sizes, one by one.                       *)
BytesOf(sizes) == {p \in Documents \X (1..Capacity) : p[2] <= sizes[p[1]]}

(* A document has bytes while it is reserved or live, and the counter is   *)
(* what all of them have.                                                  *)
LedgerInv ==
  /\ size \in [Documents -> 0..Capacity]
  /\ \A d \in Documents : size[d] = 0 <=> pool[d] \in {"none", "free"}
  /\ IsFiniteSet(BytesOf(size)) /\ used = Cardinality(BytesOf(size)) /\ used <= Capacity

(* The bytes of one document.                                              *)
LEMMA OneSize ==
  ASSUME NEW d \in Documents, NEW n \in 0..Capacity
  PROVE  IsFiniteSet({d} \X (1..n)) /\ Cardinality({d} \X (1..n)) = n
<1>1. IsFiniteSet({d}) /\ Cardinality({d}) = 1
  BY FS_Singleton
<1>2. IsFiniteSet(1..n) /\ Cardinality(1..n) = n
  BY FS_Interval
<1>3. IsFiniteSet({d} \X (1..n)) /\ Cardinality({d} \X (1..n)) = Cardinality({d}) * Cardinality(1..n)
  BY <1>1, <1>2, FS_Product
<1> QED BY <1>1, <1>2, <1>3

(* A document without bytes gets some.                                     *)
LEMMA BytesAdded ==
  ASSUME NEW sizes \in [Documents -> 0..Capacity], NEW d \in Documents, NEW n \in 0..Capacity, sizes[d] = 0,
         IsFiniteSet(BytesOf(sizes))
  PROVE  LET more == BytesOf([sizes EXCEPT ![d] = n])
         IN  IsFiniteSet(more) /\ Cardinality(more) = Cardinality(BytesOf(sizes)) + n
<1> DEFINE S == BytesOf(sizes)
           T == {d} \X (1..n)
           more == BytesOf([sizes EXCEPT ![d] = n])
<1>1. more = S \cup T
  <2>1. ASSUME NEW e \in Documents, NEW b \in 1..Capacity PROVE <<e, b>> \in more <=> <<e, b>> \in S \cup T
    <3>1. CASE e = d
      BY <3>1 DEF BytesOf
    <3>2. CASE e # d
      BY <3>2 DEF BytesOf
    <3> QED BY <3>1, <3>2
  <2>2. more \subseteq Documents \X (1..Capacity) /\ S \cup T \subseteq Documents \X (1..Capacity)
    BY DEF BytesOf
  <2> HIDE DEF more, S, T
  <2> QED BY <2>1, <2>2
<1>2. S \cap T = {}
  BY DEF BytesOf
<1>3. IsFiniteSet(T) /\ Cardinality(T) = n
  BY OneSize
<1> HIDE DEF S, T, more
<1>4. IsFiniteSet(S)
  BY DEF S
<1>5. IsFiniteSet(S \cup T) /\ Cardinality(S \cup T) = Cardinality(S) + Cardinality(T) - Cardinality(S \cap T)
  BY <1>3, <1>4, FS_Union
<1>6. Cardinality(S \cap T) = 0 /\ Cardinality(S) \in Nat
  BY <1>2, <1>4, FS_EmptySet, FS_CardinalityType
<1>7. IsFiniteSet(more) /\ Cardinality(more) = Cardinality(S) + n
  BY <1>1, <1>3, <1>5, <1>6
<1> QED BY <1>7 DEF S, more

(* A document gives its bytes back.                                        *)
LEMMA BytesRemoved ==
  ASSUME NEW sizes \in [Documents -> 0..Capacity], NEW d \in Documents, IsFiniteSet(BytesOf(sizes))
  PROVE  LET rest == BytesOf([sizes EXCEPT ![d] = 0])
         IN  IsFiniteSet(rest) /\ Cardinality(rest) = Cardinality(BytesOf(sizes)) - sizes[d]
<1> DEFINE less == [sizes EXCEPT ![d] = 0]
<1>1. less \in [Documents -> 0..Capacity] /\ less[d] = 0 /\ sizes[d] \in 0..Capacity
  OBVIOUS
<1>2. sizes = [less EXCEPT ![d] = sizes[d]]
  OBVIOUS
<1>3. BytesOf(less) \subseteq BytesOf(sizes)
  BY DEF BytesOf
<1>4. IsFiniteSet(BytesOf(less))
  BY <1>3, FS_Subset
<1> HIDE DEF less
<1>5. Cardinality(BytesOf(sizes)) = Cardinality(BytesOf(less)) + sizes[d]
  BY <1>1, <1>2, <1>4, BytesAdded
<1>6. Cardinality(BytesOf(less)) \in Nat
  BY <1>4, FS_CardinalityType
<1> QED BY <1>1, <1>4, <1>5, <1>6 DEF less

(* What DocumentLedger sees of a document.                                 *)
Hold == [d \in Documents |-> IF pool[d] = "none" THEN -1 ELSE IF pool[d] = "free" THEN 0 ELSE size[d]]

LEMMA LedgerTotal == ASSUME LedgerInv PROVE Ledger!Total = used
<1>1. Ledger!HeldBytes = BytesOf(size)
  <2>1. ASSUME NEW p \in Documents \X (1..Capacity) PROVE p[2] <= Hold[p[1]] <=> p[2] <= size[p[1]]
    <3>1. p[1] \in Documents /\ p[2] \in 1..Capacity
      OBVIOUS
    <3>2. Hold[p[1]] = size[p[1]] \/ (Hold[p[1]] \in {-1, 0} /\ size[p[1]] = 0)
      BY <3>1 DEF Hold, LedgerInv
    <3> QED BY <3>1, <3>2
  <2>2. Ledger!HeldBytes = {p \in Documents \X (1..Capacity) : p[2] <= Hold[p[1]]}
    BY DEF Ledger!HeldBytes, Hold
  <2>3. {p \in Documents \X (1..Capacity) : p[2] <= Hold[p[1]]} = {p \in Documents \X (1..Capacity) : p[2] <= size[p[1]]}
    BY <2>1, Zenon
  <2> QED BY <2>2, <2>3 DEF BytesOf
<1>2. Ledger!Cardinality(BytesOf(size)) = Cardinality(BytesOf(size))
  BY DEF Ledger!Cardinality, Cardinality
<1> QED BY <1>1, <1>2 DEF Ledger!Total, LedgerInv

(* The steps of a document's bytes: reserve, hand over, release.           *)
BytesKept == UNCHANGED <<used, size, pool>>
HandedOver(d) == pool[d] = "reserved" /\ pool' = [pool EXCEPT ![d] = "live"] /\ UNCHANGED <<used, size>>
Reserved(d, s) ==
  /\ pool[d] = "none" /\ s \in Sizes \ {0} /\ s <= Capacity - used
  /\ used' = used + s /\ size' = [size EXCEPT ![d] = s] /\ pool' = [pool EXCEPT ![d] = "reserved"]
Released(d) == pool[d] \in {"reserved", "live"} /\ Release(d)

LEMMA BytesSteps ==
  ASSUME Shape, DocumentInv, [Next]_vars
  PROVE  \/ BytesKept
         \/ \E d \in Documents : HandedOver(d) \/ Released(d) \/ \E s \in Sizes : Reserved(d, s)
<1>1. ASSUME NEW d \in Documents, CloseSnapshot(d) PROVE BytesKept \/ Released(d)
  BY <1>1 DEF CloseSnapshot, BytesKept, Released
<1>2. ASSUME NEW d \in Documents, Handle(d)
      PROVE  BytesKept \/ HandedOver(d) \/ Released(d) \/ \E s \in Sizes : Reserved(d, s)
  <2>1. CASE Capture(d)
    <3>1. pool[d] = "none"
      BY <2>1 DEF Capture, DocumentInv, CaptureInv
    <3> QED BY <2>1, <3>1 DEF Capture, BytesKept, Reserved
  <2>2. CASE ReadDocument(d)
    <3>1. pool[d] = "reserved"
      BY <2>2 DEF ReadDocument, DocumentInv, CaptureInv
    <3> QED BY <2>2, <3>1 DEF ReadDocument, BytesKept, HandedOver
  <2>3. CASE Unwind(d)
    <3>1. pool[d] = "reserved"
      BY <2>3 DEF Unwind, DocumentInv, CaptureInv
    <3> QED BY <2>3, <3>1 DEF Unwind, Released
  <2>4. CASE Discard(d)
    BY <1>1, <2>4 DEF Discard
  <2>5. CASE ReserveSlot(d) \/ Leave(d) \/ Register(d)
    BY <2>5 DEF ReserveSlot, Leave, Register, BytesKept
  <2> QED BY <1>2, <2>1, <2>2, <2>3, <2>4, <2>5 DEF Handle
<1>3. ASSUME NEW d \in Documents, DocumentStep(d), ~Handle(d) PROVE BytesKept \/ Released(d)
  <2>1. CASE CloseDocument(d)
    BY <1>1, <2>1 DEF CloseDocument, CloseWritten
  <2>2. CASE WriteDocument(d) \/ MissDocument(d) \/ StreamDocument(d)
    BY <2>2 DEF WriteDocument, MissDocument, StreamDocument, Take, Untaken, Stream, BytesKept
  <2> QED BY <1>3, <2>1, <2>2 DEF DocumentStep
<1>4. ASSUME NEW c \in Calls, Arrive(c) \/ Ready(c) \/ LogTool(c) \/ Respond(c) \/ LogRequest(c) PROVE BytesKept
  BY <1>4 DEF Arrive, Ready, LogTool, Respond, LogRequest, BytesKept
<1>5. ASSUME NEW d \in Documents, TimerStep(d) \/ CloseDetached(d) PROVE BytesKept \/ Released(d)
  <2>1. CASE Fire(d) \/ Expire(d)
    BY <2>1 DEF Fire, Expire, BytesKept
  <2>2. CASE CloseExpired(d) \/ CloseDetached(d)
    BY <1>1, <2>2 DEF CloseExpired, CloseDetached
  <2> QED BY <1>5, <2>1, <2>2 DEF TimerStep
<1>6. CASE UNCHANGED documents \/ CloseBridge
  BY <1>6 DEF CloseBridge, BytesKept
<1>7. CASE MainSteps
  BY <1>5, <1>6, <1>7 DEF MainSteps, Parse, OpenLog, Start, NewApp, StartFailed, StdioEnds, Ends, Shutdown,
     ShutdownEnds, Stopped, CloseApp, CloseNext, EndLog, Exit
<1>8. CASE ListenFails \/ RefuseLine \/ Signal \/ ProbeStops \/ (\E w \in Writers : Tell(w)) \/ UNCHANGED vars
  BY <1>6, <1>8 DEF ListenFails, Ends, RefuseLine, Signal, ProbeStops, Tell, vars
<1>9. CASE \E c \in Calls : Arrive(c) \/ CallStep(c)
  BY <1>2, <1>3, <1>4, <1>9 DEF CallStep
<1> QED BY <1>5, <1>7, <1>8, <1>9 DEF Next

(* Each of them is a step of the ledger, or none, and keeps the counter.   *)
LEMMA LedgerStep ==
  ASSUME Shape, DocumentInv, LedgerInv, [Next]_vars
  PROVE  LedgerInv' /\ [Ledger!Next]_Ledger!vars
<1>1. pool \in [Documents -> {"none", "reserved", "live", "free"}] /\ size \in [Documents -> 0..Capacity]
      /\ used \in Nat /\ Capacity \in Nat /\ Sizes \subseteq Nat /\ used <= Capacity
  BY FS_CardinalityType DEF Shape, LedgerInv
<1>2. CASE BytesKept
  <2>1. LedgerInv'
    BY <1>2 DEF BytesKept, LedgerInv, BytesOf
  <2>2. UNCHANGED Ledger!vars
    BY <1>2 DEF BytesKept, Ledger!vars
  <2> QED BY <2>1, <2>2
<1>3. ASSUME NEW d \in Documents, HandedOver(d) PROVE LedgerInv' /\ [Ledger!Next]_Ledger!vars
  <2>1. LedgerInv'
    BY <1>1, <1>3 DEF HandedOver, LedgerInv, BytesOf
  <2>2. Hold' = Hold
    BY <1>1, <1>3 DEF HandedOver, Hold
  <2>3. UNCHANGED Ledger!vars
    BY <1>3, <2>2 DEF HandedOver, Hold, Ledger!vars
  <2> QED BY <2>1, <2>3
<1>4. ASSUME NEW d \in Documents, NEW s \in Sizes, Reserved(d, s) PROVE LedgerInv' /\ [Ledger!Next]_Ledger!vars
  <2>1. s \in 1..Capacity /\ size[d] = 0 /\ size' = [size EXCEPT ![d] = s] /\ used' = used + s
        /\ pool' = [pool EXCEPT ![d] = "reserved"] /\ used + s <= Capacity
    BY <1>1, <1>4 DEF Reserved, LedgerInv
  <2>2. IsFiniteSet(BytesOf(size')) /\ Cardinality(BytesOf(size')) = Cardinality(BytesOf(size)) + s
    <3>1. s \in 0..Capacity /\ IsFiniteSet(BytesOf(size))
      BY <2>1 DEF LedgerInv
    <3>2. LET more == BytesOf([size EXCEPT ![d] = s])
          IN  IsFiniteSet(more) /\ Cardinality(more) = Cardinality(BytesOf(size)) + s
      BY <1>1, <2>1, <3>1, BytesAdded
    <3> QED BY <2>1, <3>2
  <2>3. LedgerInv'
    <3>1. size' \in [Documents -> 0..Capacity] /\ \A e \in Documents : size'[e] = 0 <=> pool'[e] \in {"none", "free"}
      BY <1>1, <2>1 DEF LedgerInv
    <3>2. used' = Cardinality(BytesOf(size')) /\ used' <= Capacity
      BY <2>1, <2>2 DEF LedgerInv
    <3> QED BY <2>2, <3>1, <3>2 DEF LedgerInv, BytesOf
  <2>4. Hold[d] = -1 /\ Hold' = [Hold EXCEPT ![d] = s]
    BY <1>1, <1>4, <2>1 DEF Reserved, Hold
  <2>5. Ledger!Reserve(d)
    BY <2>1, <2>4, LedgerTotal DEF Ledger!Reserve, Ledger!Never, Hold
  <2> QED BY <2>3, <2>5 DEF Ledger!Next
<1>5. ASSUME NEW d \in Documents, Released(d) PROVE LedgerInv' /\ [Ledger!Next]_Ledger!vars
  <2>1. size[d] \in 1..Capacity /\ size' = [size EXCEPT ![d] = 0] /\ used' = used - size[d]
        /\ pool' = [pool EXCEPT ![d] = "free"]
    BY <1>1, <1>5 DEF Released, Release, LedgerInv
  <2>2. IsFiniteSet(BytesOf(size')) /\ Cardinality(BytesOf(size')) = Cardinality(BytesOf(size)) - size[d]
    BY <1>1, <2>1, BytesRemoved DEF LedgerInv
  <2>3. LedgerInv'
    <3>1. size' \in [Documents -> 0..Capacity] /\ \A e \in Documents : size'[e] = 0 <=> pool'[e] \in {"none", "free"}
      BY <1>1, <2>1 DEF LedgerInv
    <3>2. used' = Cardinality(BytesOf(size')) /\ used' <= Capacity
      BY <1>1, <2>1, <2>2 DEF LedgerInv
    <3> QED BY <2>2, <3>1, <3>2 DEF LedgerInv, BytesOf
  <2>4. Hold[d] = size[d] /\ Hold' = [Hold EXCEPT ![d] = 0]
    BY <1>1, <1>5, <2>1 DEF Released, Hold
  <2>5. Ledger!Release(d)
    BY <2>1, <2>4 DEF Ledger!Release, Hold
  <2> QED BY <2>3, <2>5 DEF Ledger!Next
<1> QED BY <1>2, <1>3, <1>4, <1>5, BytesSteps

LEMMA LedgerStarts == ASSUME Init PROVE LedgerInv /\ Ledger!Init
<1>1. used = 0 /\ size = [d \in Documents |-> 0] /\ pool = [d \in Documents |-> "none"]
  BY DEF Init, BridgeInit
<1>2. BytesOf(size) = {}
  BY <1>1 DEF BytesOf
<1>3. IsFiniteSet(BytesOf(size)) /\ Cardinality(BytesOf(size)) = 0
  BY <1>2, FS_EmptySet
<1>4. LedgerInv
  BY <1>1, <1>3 DEF LedgerInv
<1>5. Ledger!Init
  BY <1>1 DEF Ledger!Init, Ledger!Never
<1> QED BY <1>4, <1>5

(* The counter of the gate is what the documents hold: every byte reserved *)
(* is released exactly once, by whoever closes the snapshot or unwinds the *)
(* capture, and no more than the capacity is held                          *)
(* (documentByteGate.reserve, capturePDF, documentSnapshot.Close).         *)
THEOREM LedgerKept == Spec => ImplementsLedger
<1>1. Init => Ledger!Init /\ LedgerInv
  BY LedgerStarts
<1>2. IInv /\ LedgerInv /\ [Next]_vars => LedgerInv' /\ [Ledger!Next]_Ledger!vars
  BY LedgerStep DEF IInv
<1> QED BY <1>1, <1>2, Invariance, PTL DEF Spec, ImplementsLedger, Ledger!Spec
=============================================================================
