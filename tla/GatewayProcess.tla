--------------------------- MODULE GatewayProcess ---------------------------
(* The gateway process (cmd/gateway, internal/app, internal/mcp): it starts,  *)
(* serves calls over stdio or HTTP, is stopped by a signal, by the end of its *)
(* input or by the resource probe, and unwinds in the order of its deferred   *)
(* calls.  Calls go through the request filters, a tool handler, the          *)
(* telemetry middleware and the writer of the response.                       *)
EXTENDS DocumentBridge, AuditLog, GatewayConfig

CONSTANTS
  Checks,  \* readiness checks over HTTP
  Main,    \* the main goroutine
  Given    \* command lines the gateway may be started with

Calls == Documents \cup Checks

ASSUME CallsAssumption == /\ Documents \cap Checks = {} /\ Nobody \notin Calls
                          /\ Writers = Calls \cup {Main} /\ Given \subseteq Arguments

VARIABLES
  phase,    \* where the main goroutine is
  code,     \* the exit code so far
  config,   \* the configuration, once it is accepted
  signaled, \* SIGINT or SIGTERM has arrived
  input,    \* stdin: open, ended, or refused as too large or as a batch
  probe,    \* the goroutine of the resource probe
  ended,    \* how the server ended: none, ok or error
  writer,   \* stdio: the call that is writing its response
  broken    \* stdio: a response could not be written

process == <<phase, code, config, signaled, input, probe, ended>>
wire == <<writer, broken>>
vars == <<documents, log, process, wire>>

Http == config.mode = "http"
CallLabels == {"idle", "ready", "logtool", "respond", "is_ready", "logrequest",
               "done"}
Idle == {"idle", "done"}
Phases == {"parse", "audit", "start", "app", "serve", "shutdown", "stopped",
           "close_app", "detach", "exit", "exited"}

TypeOK ==
  /\ BridgeTypeOK /\ log \in LogType
  /\ at \in [Calls -> CallLabels \cup DocumentLabels \cup WritingLabels]
  /\ phase \in Phases /\ code \in 0..2
  /\ config \in [mode : {"none", "stdio", "http"}, server : {"none", "obsidian", "ynab"},
                 telemetry : {"sqlite", "stderr", "off"}, named : BOOLEAN]
  /\ signaled \in BOOLEAN /\ input \in {"open", "eof", "refused"}
  /\ probe \in {"none", "given", "running", "failed", "ended"} /\ ended \in {"none", "ok", "error"}
  /\ writer \in Calls \cup {Nobody} /\ broken \in BOOLEAN

Init ==
  /\ BridgeInit /\ at = [c \in Calls |-> "idle"] /\ log = NewLog("off")
  /\ phase = "parse" /\ code = 0
  /\ config = [mode |-> "none", server |-> "none", telemetry |-> "off", named |-> FALSE]
  /\ signaled = FALSE /\ input = "open" /\ probe = "none" /\ ended = "none"
  /\ writer = Nobody /\ broken = FALSE

-----------------------------------------------------------------------------
(* The main goroutine; it goes on when it has told of a degradation it met. *)

To(l) == phase' = l
Main_ == log.owes # Main

Exits(n) == code' = n

(* Parse the command line and the probe's descriptors. *)
Parse ==
  /\ phase = "parse" /\ UNCHANGED <<documents, log, wire, signaled, input, ended>>
  /\ \E a \in Given :
       IF Valid(a) /\ ValidProbe(a)
       THEN /\ config' = Config(a) /\ To("audit") /\ UNCHANGED code
            /\ probe' = IF a.probe = "pipes" THEN "given" ELSE "none"
       ELSE Exits(2) /\ To("exited") /\ UNCHANGED <<config, probe>>

(* Open the event log; without it the gateway does not start. *)
OpenLog ==
  /\ phase = "audit" /\ UNCHANGED <<documents, wire, config, signaled, input, probe, ended>>
  /\ \/ log' = NewLog(config.telemetry) /\ To("start") /\ UNCHANGED code
     \/ config.telemetry = "sqlite" /\ Exits(2) /\ To("exited") /\ UNCHANGED log

Start ==
  /\ phase = "start" /\ Event(Main, "gateway.start") /\ To("app")
  /\ UNCHANGED <<documents, wire, code, config, signaled, input, probe, ended>>

(* app.New: the tools and the server; the probe runs once they are there. *)
NewApp ==
  /\ phase = "app" /\ Main_ /\ UNCHANGED <<documents, wire, code, config, signaled, input, ended>>
  /\ Event(Main, "gateway.backend_ready") /\ To("serve")
  /\ probe' = IF probe = "given" THEN "running" ELSE probe
StartFailed ==
  /\ phase = "app" /\ Main_ /\ Event(Main, "gateway.start_failed") /\ Exits(1) /\ To("detach")
  /\ UNCHANGED <<documents, wire, config, signaled, input, probe, ended>>

(* Faulty variant, for mutation runs: the end of the probe does not cancel it. *)
InterruptedBySignal == signaled

(* The context of the server is done: a signal, or the probe has ended. *)
Interrupted == signaled \/ probe = "failed"

Ends(how) == /\ ended' = how /\ To("stopped")
             /\ UNCHANGED <<documents, log, wire, code, config, signaled, input, probe>>

(* server.Run over stdio; handlers may still be running when it returns. *)
StdioEnds ==
  /\ phase = "serve" /\ Main_ /\ ~Http
  /\ \/ (Interrupted \/ input = "eof") /\ Ends("ok")
     \/ (broken \/ input = "refused") /\ Ends("error")

(* Serve over HTTP: the listener may fail, or the server is shut down. *)
ListenFails == phase = "serve" /\ Main_ /\ Http /\ Ends("error")
Shutdown ==
  /\ phase = "serve" /\ Main_ /\ Http /\ Interrupted /\ To("shutdown")
  /\ UNCHANGED <<documents, log, wire, code, config, signaled, input, probe, ended>>

Quiet == \A c \in Calls : at[c] \in Idle

(* Faulty variant, for mutation runs: the error of Shutdown is dropped. *)
ShutdownEndsWell == phase = "shutdown" /\ Main_ /\ Ends("ok")

(* Shutdown returns when no call is left, or with an error when its time is up. *)
ShutdownEnds == 
  /\ phase = "shutdown" /\ Main_
  /\ \/ Quiet /\ Ends("ok")
     \/ ~Quiet /\ Ends("error")

(* The last event; the exit code tells of an error and of a failed probe. *)
Stopped ==
  /\ phase = "stopped" /\ Main_ /\ To("close_app")
  /\ \/ ended = "error" /\ Event(Main, "gateway.runtime_error") /\ Exits(1)
     \/ ended = "ok" /\ probe = "failed" /\ ~signaled /\ Exits(1) /\ UNCHANGED log
     \/ /\ ended = "ok" /\ ~(probe = "failed" /\ ~signaled)
        /\ Event(Main, "gateway.stop") /\ UNCHANGED code
  /\ UNCHANGED <<documents, wire, config, signaled, input, probe, ended>>

(* The deferred calls, the last one first: the probe, the application, the log. *)
CloseApp ==
  /\ phase = "close_app" /\ Main_ /\ CloseBridge /\ To("detach")
  /\ probe' = IF probe = "running" THEN "ended" ELSE probe
  /\ UNCHANGED <<log, wire, code, config, signaled, input, ended>>
CloseNext ==
  /\ phase = "detach" /\ \E d \in Documents : CloseDetached(d)
  /\ UNCHANGED <<log, wire, process>>
EndLog ==
  /\ phase = "detach" /\ Main_ /\ bridge.detached = {} /\ To("exit")
  /\ \E failed \in BOOLEAN :
       CloseLog(Main, failed) /\ Exits(IF failed /\ code = 0 THEN 1 ELSE code)
  /\ UNCHANGED <<documents, wire, config, signaled, input, probe, ended>>
Exit == /\ phase = "exit" /\ Main_ /\ To("exited")
        /\ UNCHANGED <<documents, log, wire, code, config, signaled, input, probe, ended>>

MainSteps == \/ Parse \/ OpenLog \/ Start \/ NewApp \/ StartFailed \/ StdioEnds \/ Shutdown
             \/ ShutdownEnds \/ Stopped \/ CloseApp \/ CloseNext \/ EndLog \/ Exit

-----------------------------------------------------------------------------
(* A call.  Everything after its request has arrived may outlive the server.  *)

Running == phase \notin {"parse", "audit", "start", "app", "exited"}
Served(c) == Running /\ log.owes # c /\ UNCHANGED process
Handled == <<result, pdf, registry>>

(* What an HTTP request is refused for before any handler sees it: its Host,   *)
(* its origin, its size, or a batch with a read_document in it.               *)
Filters == {"host", "origin", "body", "batch"}

(* A request arrives; over stdio a line that is refused ends the session.     *)
Arrive(c) ==
  /\ at[c] = "idle" /\ phase = "serve" /\ Served(c) /\ UNCHANGED <<log, wire, Handled>>
  /\ \/ c \in Documents /\ config.server = "obsidian" /\ Go(c, "reserve")
     \/ c \in Checks /\ Http /\ Go(c, "ready")
     \/ Http /\ \E f \in Filters : Go(c, "logrequest")
RefuseLine ==
  /\ phase = "serve" /\ ~Http /\ input = "open" /\ input' \in {"refused", "eof"}
  /\ UNCHANGED <<documents, log, wire, phase, code, config, signaled, probe, ended>>

(* The native document path, up to the result of the tool. *)
Handle(d) ==
  /\ Served(d) /\ UNCHANGED <<log, wire>>
  /\ \/ ReserveSlot(d) \/ Capture(d) \/ ReadDocument(d) \/ Unwind(d) \/ Leave(d)
     \/ Register(d) \/ Discard(d)

(* A readiness check: not ready once the log is degraded, or the vault is gone. *)
Ready(c) ==
  /\ at[c] = "ready" /\ Served(c) /\ UNCHANGED <<log, wire, Handled>>
  /\ \/ ~log.degraded /\ Go(c, "is_ready")
     \/ Go(c, "logrequest")

(* The middleware logs the call when its handler has returned. *)
LogTool(c) ==
  /\ at[c] = "logtool" /\ Served(c) /\ Event(c, "tool.call") /\ Go(c, "respond")
  /\ UNCHANGED <<wire, Handled>>

(* After the response: HTTP logs the request as well. *)
After == IF Http THEN "logrequest" ELSE "done"
IsDocument(c) == c \in Documents /\ result[c] = "document"

(* A response without a marker is copied as it is, or replaced by an error    *)
(* when it is too large; the response of a canceled call, or after the end of *)
(* the session, is dropped: a document may stay registered.                   *)
Respond(c) ==
  /\ at[c] = "respond" /\ Served(c) /\ writer = Nobody
  /\ Go(c, After) /\ UNCHANGED <<log, wire, pdf, registry>>
  /\ result' = [d \in Documents |-> IF d = c THEN "none" ELSE result[d]]
(* A document is taken when its response is written: over HTTP the deadline of*)
(* the connection is set, and the payload given up when it cannot be; over    *)
(* stdio one response is written at a time.                                   *)
WriteDocument(d) ==
  /\ at[d] = "respond" /\ Served(d) /\ IsDocument(d) /\ UNCHANGED log
  /\ IF Http
     THEN \E l \in {"stream", "abandon"} : Take(d, l) /\ UNCHANGED <<writer, broken>>
     ELSE /\ writer = Nobody /\ ~broken /\ ended = "none"
          /\ Take(d, "stream") /\ writer' = d /\ UNCHANGED broken
(* There is nothing to take: over stdio the error of the writer ends the session. *)
MissDocument(d) ==
  /\ at[d] = "respond" /\ Served(d) /\ IsDocument(d) /\ writer = Nobody
  /\ UNCHANGED <<log, writer>> /\ Untaken(d, After)
  /\ broken' = (broken \/ ~Http)
StreamDocument(d) ==
  Served(d) /\ Stream(d) /\ UNCHANGED <<log, wire>>
CloseDocument(d) ==
  /\ Served(d) /\ CloseWritten(d, After) /\ UNCHANGED log /\ writer' = Nobody
  /\ broken' = (broken \/ (~Http /\ result[d] = "error"))

LogRequest(c) ==
  /\ at[c] \in {"is_ready", "logrequest"} /\ Served(c) /\ Event(c, "http.request") /\ Go(c, "done")
  /\ UNCHANGED <<wire, Handled>>

DocumentStep(d) == \/ Handle(d) \/ WriteDocument(d) \/ MissDocument(d)
                   \/ StreamDocument(d) \/ CloseDocument(d)
CallStep(c) == \/ Ready(c) \/ LogTool(c) \/ Respond(c) \/ LogRequest(c)
               \/ c \in Documents /\ DocumentStep(c)

(* The goroutine of a timer. *)
TimerStep(d) == Running /\ (Fire(d) \/ Expire(d) \/ CloseExpired(d)) /\ UNCHANGED <<log, wire, process>>

(* A degradation is told by the goroutine that met it. *)
Tell(w) == phase # "exited" /\ Warn(w) /\ UNCHANGED <<documents, process, wire>>

(* A signal; one that comes earlier is seen when the server runs. *)
Signal == /\ phase \in {"serve", "shutdown", "stopped"} /\ ~signaled
          /\ signaled' = TRUE
          /\ UNCHANGED <<documents, log, wire, phase, code, config, input, probe, ended>>

(* The probe stops by itself: a malformed command, or a pipe that is closed.  *)
(* Its error is there before the server's context is canceled.                *)
ProbeStops == /\ probe = "running" /\ probe' = "failed"
              /\ UNCHANGED <<documents, log, wire, phase, code, config, signaled, input, ended>>

Next ==
  \/ MainSteps \/ ListenFails \/ RefuseLine \/ Signal \/ ProbeStops
  \/ \E c \in Calls : Arrive(c) \/ CallStep(c)
  \/ \E d \in Documents : TimerStep(d)
  \/ \E w \in Writers : Tell(w)

Spec == Init /\ [][Next]_vars

(* Go runs some goroutine that can run; the deadlines bound a write, and a    *)
(* timer fires.  No step here can be repeated for ever, so one weak fairness  *)
(* for all of them is enough, and it asks for less than one for each.         *)
Progress ==
  \/ MainSteps
  \/ \E c \in Calls : CallStep(c)
  \/ \E d \in Documents : TimerStep(d)
  \/ \E w \in Writers : Tell(w)
FairSpec == Spec /\ WF_vars(Progress)

-----------------------------------------------------------------------------
(* The exit code is the truth: 0 only when the gateway was asked to stop, its *)
(* stop is in the log unless events were lost, and, over HTTP, no request was *)
(* left behind; a failed start or stop is never 0 (runWithContext, runHTTP).  *)
ExitTells ==
  phase = "exited" /\ code = 0 =>
    /\ signaled \/ (~Http /\ input = "eof")
    /\ log.kind # "off" => "gateway.stop" \in log.journal \/ log.lost
    /\ Http => Quiet

(* A readiness check that starts after the log was degraded is refused: the   *)
(* answer "ready" is given only while the log is sound (App.ready).           *)
ReadyIsSound ==
  [][\A c \in Checks : at'[c] = "is_ready" /\ at[c] # "is_ready" => ~log.lost]_vars

(* Once documents are captured all of them are released in the end, whatever  *)
(* becomes of their calls, of the connection and of the process (the timer,   *)
(* the deadlines, Close): the capacity is never lost.                         *)
PayloadsReleased == used > 0 ~> used = 0 \/ phase = "exited"

(* A gateway that is told to stop, or whose probe has ended, exits: calls in  *)
(* flight cannot hold it up (runHTTP's deadline, the deferred calls).         *)
StopsWhenAsked == signaled \/ probe = "failed" ~> phase = "exited"
=============================================================================
