--------------------------- MODULE DocumentBridge ---------------------------
(* A PDF on its way from the vault to the client: read_document captures it   *)
(* into an anonymous mapping, under one validator slot and a gate on bytes,   *)
(* and registers it with the bridge (internal/tools/obsidian/read_document.go,*)
(* pdf_validator.go); the transport takes it when it writes the response and  *)
(* streams it (internal/mcp/native_document.go).  Whoever owns the payload    *)
(* closes it: the handler, the timer, the bridge or the writer.               *)
EXTENDS Integers, FiniteSets

CONSTANTS
  Documents,  \* read_document calls
  NoDocument, \* the validator slot is free
  Sizes,      \* sizes of the files they name
  Capacity    \* DocumentMaxBytes: the largest document, and all of them together

ASSUME SizesAssumption == Capacity \in Nat \ {0} /\ Sizes \subseteq Nat
ASSUME DocumentsAssumption == NoDocument \notin Documents

VARIABLES
  at,       \* where the call is
  result,   \* what its handler answered
  slot,     \* who holds the slot of the validator process
  used,     \* bytes reserved at the gate
  size,     \* the document's bytes
  pool,     \* its mapping and reservation: none, reserved, live, free
  entries,  \* documents registered and not taken
  timer,    \* the timer of a registered document: off, armed, fired, closing
  bridge    \* open or closed, and what Close still has to close

pdf == <<slot, used, size, pool>>
registry == <<entries, timer, bridge>>
documents == <<at, result, slot, used, size, pool, entries, timer, bridge>>

DocumentLabels == {"reserve", "capture", "read", "unwind", "leave", "register", "discard"}
WritingLabels == {"stream", "close", "abandon"}

BridgeTypeOK ==
  /\ result \in [Documents -> {"none", "document", "error"}]
  /\ slot \in Documents \cup {NoDocument} /\ used \in 0..Capacity
  /\ size \in [Documents -> Nat]
  /\ pool \in [Documents -> {"none", "reserved", "live", "free"}]
  /\ entries \subseteq Documents
  /\ timer \in [Documents -> {"off", "armed", "fired", "closing"}]
  /\ bridge \in [closed : BOOLEAN, detached : SUBSET Documents]

BridgeInit ==
  /\ result = [d \in Documents |-> "none"] /\ slot = NoDocument /\ used = 0
  /\ size = [d \in Documents |-> 0]
  /\ pool = [d \in Documents |-> "none"] /\ entries = {}
  /\ timer = [d \in Documents |-> "off"] /\ bridge = [closed |-> FALSE, detached |-> {}]

Go(c, l) == at' = [at EXCEPT ![c] = l]
Answer(d, r) == Go(d, "logtool") /\ result' = [result EXCEPT ![d] = r]

(* The mapping and the reservation end together. *)
Release(d) ==
  /\ pool' = [pool EXCEPT ![d] = "free"] /\ used' = used - size[d]
  /\ size' = [size EXCEPT ![d] = 0]

-----------------------------------------------------------------------------
(* The handler: capturePDF and Register. *)

(* One helper validates at a time, and nobody waits for it. *)
ReserveSlot(d) ==
  /\ at[d] = "reserve" /\ UNCHANGED <<used, size, pool, registry>>
  /\ \/ slot = NoDocument /\ slot' = d /\ Go(d, "capture") /\ UNCHANGED result
     \/ slot # NoDocument /\ Answer(d, "error") /\ UNCHANGED slot
     \/ Answer(d, "error") /\ UNCHANGED slot  \* not the name of a PDF

(* Open the file, check its size, reserve its bytes, map them. *)
Capture(d) ==
  /\ at[d] = "capture" /\ UNCHANGED <<result, slot, registry>>
  /\ \/ Go(d, "leave") /\ UNCHANGED <<used, size, pool>>  \* not opened, busy, or no mapping
     \/ \E s \in Sizes \ {0} :
          /\ s <= Capacity - used
          /\ used' = used + s /\ size' = [size EXCEPT ![d] = s]
          /\ pool' = [pool EXCEPT ![d] = "reserved"] /\ Go(d, "read")

(* Faulty variant, for mutation runs: the defers run although the snapshot owns the bytes. *)
ReadDocumentKeepsDefers(d) ==
  /\ at[d] = "read" /\ UNCHANGED <<result, size, registry, slot>>
  /\ \/ Go(d, "unwind") /\ UNCHANGED <<used, pool>>
     \/ /\ pool' = [pool EXCEPT ![d] = "live"] /\ used' = used - size[d]
        /\ Go(d, "register")

(* Read, validate and revalidate; the context may end or the file change.  On *)
(* success the snapshot owns the bytes; the deferred calls free the slot.     *)
ReadDocument(d) ==
  /\ at[d] = "read" /\ UNCHANGED <<result, size, registry, used>>
  /\ \/ Go(d, "unwind") /\ UNCHANGED <<slot, pool>>
     \/ pool' = [pool EXCEPT ![d] = "live"] /\ slot' = NoDocument /\ Go(d, "register")

(* The deferred calls of a failed capture: the mapping and its bytes, then the slot. *)
Unwind(d) ==
  /\ at[d] = "unwind" /\ Go(d, "leave")
  /\ Release(d) /\ UNCHANGED <<result, slot, registry>>
Leave(d) == at[d] = "leave" /\ Answer(d, "error") /\ slot' = NoDocument
            /\ UNCHANGED <<used, size, pool, registry>>

(* Faulty variant, for mutation runs: no timer is started. *)
RegisterForGood(d) ==
  /\ at[d] = "register" /\ UNCHANGED <<pdf, bridge, timer>>
  /\ \/ ~bridge.closed /\ entries' = entries \cup {d} /\ Answer(d, "document")
     \/ bridge.closed /\ Go(d, "discard") /\ UNCHANGED <<entries, result>>

(* Store the payload under a marker until it is taken, or its time is up. *)
Register(d) ==
  /\ at[d] = "register" /\ UNCHANGED <<pdf, bridge>>
  /\ \/ /\ ~bridge.closed
        /\ entries' = entries \cup {d} /\ timer' = [timer EXCEPT ![d] = "armed"]
        /\ Answer(d, "document")
     \/ bridge.closed /\ Go(d, "discard") /\ UNCHANGED <<entries, timer, result>>

-----------------------------------------------------------------------------
(* documentSnapshot.Close, by anyone: it waits for a stream in progress, and  *)
(* the second time it does nothing.                                           *)
CloseSnapshot(d) ==
  /\ at[d] # "stream"
  /\ IF pool[d] = "live"
     THEN Release(d) ELSE UNCHANGED <<pool, used, size>>
  /\ UNCHANGED slot

(* The handler closes what it could not register. *)
Discard(d) == at[d] = "discard" /\ CloseSnapshot(d) /\ Answer(d, "error")
              /\ UNCHANGED registry

(* The timer fires; its goroutine has not locked the bridge yet. *)
Fire(d) == timer[d] = "armed" /\ timer' = [timer EXCEPT ![d] = "fired"]
           /\ UNCHANGED <<at, result, pdf, entries, bridge>>

(* Faulty variant, for mutation runs: expires without looking the entry up. *)
ExpireAnyway(d) ==
  /\ timer[d] = "fired" /\ UNCHANGED <<at, result, pdf, bridge>>
  /\ entries' = entries \ {d} /\ timer' = [timer EXCEPT ![d] = "closing"]

(* The entry is detached if it is still registered, and then closed. *)
Expire(d) ==
  /\ timer[d] = "fired" /\ UNCHANGED <<at, result, pdf, bridge>>
  /\ entries' = entries \ {d}
  /\ timer' = [timer EXCEPT ![d] = IF d \in entries THEN "closing" ELSE "off"]
CloseExpired(d) == timer[d] = "closing" /\ CloseSnapshot(d)
                   /\ timer' = [timer EXCEPT ![d] = "off"]
                   /\ UNCHANGED <<at, result, entries, bridge>>

(* NativeDocumentBridge.Close: detach everything, and then close every payload. *)
CloseBridge ==
  /\ ~bridge.closed /\ bridge' = [closed |-> TRUE, detached |-> entries]
  /\ entries' = {} /\ UNCHANGED <<at, result, pdf, timer>>
StopTimer(d) == timer' = [timer EXCEPT ![d] = IF @ = "armed" THEN "off" ELSE @]
CloseDetached(d) ==
  /\ d \in bridge.detached /\ StopTimer(d) /\ CloseSnapshot(d)
  /\ bridge' = [bridge EXCEPT !.detached = @ \ {d}]
  /\ UNCHANGED <<at, result, entries>>

-----------------------------------------------------------------------------
(* The writer of the response. *)

(* take: whoever detaches the entry owns the payload. *)
Take(d, l) ==
  /\ d \in entries /\ ~bridge.closed
  /\ entries' = entries \ {d} /\ StopTimer(d) /\ Go(d, l)
  /\ UNCHANGED <<result, pdf, bridge>>
Untaken(d, l) ==
  /\ ~(d \in entries /\ ~bridge.closed) /\ Go(d, l)
  /\ result' = [result EXCEPT ![d] = "none"] /\ UNCHANGED <<pdf, registry>>

(* Chunk by chunk, with the snapshot locked; it ends whole when its bytes are  *)
(* there, or torn by the context, the deadline or the connection.             *)
Stream(d) ==
  /\ at[d] = "stream" /\ UNCHANGED <<pdf, registry>>
  /\ Go(d, "close")
  /\ \/ pool[d] = "live" /\ UNCHANGED result
     \/ result' = [result EXCEPT ![d] = "error"]

(* The deferred Close of the writer, or the close after a refused deadline. *)
CloseWritten(d, l) ==
  /\ at[d] \in {"close", "abandon"} /\ CloseSnapshot(d) /\ Go(d, l)
  /\ result' = [result EXCEPT ![d] = "none"] /\ UNCHANGED registry

-----------------------------------------------------------------------------
(* A payload that a writer has taken stays mapped until that writer closes it:*)
(* neither the timer that fired meanwhile nor the shutdown of the bridge      *)
(* releases bytes that are being written (take, expire, Close).               *)
TakenStaysLive == \A d \in Documents : at[d] \in WritingLabels => pool[d] = "live"

(* Every live document has exactly one owner that will close it; a closed     *)
(* bridge has registered nothing, and the validator slot belongs to a capture *)
(* in progress (Register, take, expire, Close, Reserve).                      *)
Owners(d) ==
  Cardinality({o \in 1..4 : \/ o = 1 /\ at[d] \in {"register", "discard"} \cup WritingLabels
                            \/ o = 2 /\ d \in entries
                            \/ o = 3 /\ timer[d] = "closing"
                            \/ o = 4 /\ d \in bridge.detached})
OneOwner ==
  /\ \A d \in Documents : Owners(d) = IF pool[d] = "live" THEN 1 ELSE 0
  /\ bridge.closed => entries = {}
  /\ slot # NoDocument => at[slot] \in {"capture", "read", "unwind", "leave"}

(* The bytes every document holds, as DocumentLedger counts them. *)
Ledger == INSTANCE DocumentLedger WITH
  held <- [d \in Documents |-> IF pool[d] = "none" THEN -1
                               ELSE IF pool[d] = "free" THEN 0 ELSE size[d]]

(* The gate's counter is what the documents hold, no document is released     *)
(* twice, and none beyond the capacity is admitted (documentByteGate.reserve, *)
(* capturePDF's deferred calls, documentSnapshot.Close).                      *)
ImplementsLedger == Ledger!Spec
=============================================================================
