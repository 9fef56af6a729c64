------------------------------ MODULE AuditLog ------------------------------
(* The structured event log (internal/audit): every event goes to one sink    *)
(* under the logger's mutex; the first failure degrades the log for good and  *)
(* is told once, after the mutex is released, by the goroutine that met it.   *)
EXTENDS Integers

CONSTANTS
  Writers,      \* goroutines that log
  Nobody,       \* not a goroutine
  MaxSinkFaults \* bound: failures of an open sink

ASSUME LogAssumption == Nobody \notin Writers /\ MaxSinkFaults \in Nat

VARIABLE log

(* Events of the process itself; those of requests are only counted as lost or not. *)
Lifecycle == {"gateway.start", "gateway.backend_ready", "gateway.start_failed",
              "gateway.runtime_error", "gateway.stop"}

LogType ==
  [kind : {"sqlite", "stderr", "off"}, closed : BOOLEAN,
   journal : SUBSET Lifecycle,       \* process events the sink has
   lost : BOOLEAN,                   \* history: an event did not reach the sink
   degraded : BOOLEAN,
   owes : Writers \cup {Nobody},     \* who must still tell of the degradation
   warned : Nat, faults : 0..MaxSinkFaults]

NewLog(kind) == [kind |-> kind, closed |-> FALSE, journal |-> {}, lost |-> FALSE,
                 degraded |-> FALSE, owes |-> Nobody, warned |-> 0, faults |-> 0]

(* Faulty variant, for mutation runs: every failure is told, not the first alone. *)
DegradeAlways(l, w) == [l EXCEPT !.degraded = TRUE, !.owes = w]

(* Only the first failure is told, by the goroutine that met it. *)
Degrade(l, w) == IF l.degraded THEN l ELSE [l EXCEPT !.degraded = TRUE, !.owes = w]

(* The sink refuses: a closed database always, an open sink when it fails. *)
SinkWrites == ~(log.kind = "sqlite" /\ log.closed)
SinkFails(l) ==
  \/ ~SinkWrites /\ l = log
  \/ log.faults < MaxSinkFaults /\ l = [log EXCEPT !.faults = @ + 1]

(* Logger.Event, by w, up to the call of the degradation handler. *)
Event(w, name) ==
  \/ log.kind = "off" /\ UNCHANGED log
  \/ /\ log.kind # "off" /\ SinkWrites
     /\ log' = [log EXCEPT !.journal = @ \cup ({name} \cap Lifecycle)]
  \/ /\ log.kind # "off"
     /\ \E l \in {log, [log EXCEPT !.faults = @ + 1]} :
          SinkFails(l) /\ log' = Degrade([l EXCEPT !.lost = TRUE], w)

(* Logger.Close, by w: closing the database may fail; a stream is not closed. *)
CloseLog(w, failed) ==
  \/ failed = FALSE /\ log' = [log EXCEPT !.closed = log.kind # "off"]
  \/ /\ failed = TRUE /\ log.kind = "sqlite" /\ log.faults < MaxSinkFaults
     /\ log' = Degrade([log EXCEPT !.closed = TRUE, !.faults = @ + 1], w)

(* The handler writes its warning, outside the mutex. *)
Warn(w) == log.owes = w /\ log' = [log EXCEPT !.owes = Nobody, !.warned = @ + 1]

-----------------------------------------------------------------------------
(* An event that did not reach the sink is never silent: the log is degraded, *)
(* and the degradation is told exactly once, however many goroutines fail and *)
(* whether they fail before or after the log is closed (Logger.Event).        *)
LossTold ==
  /\ log.lost => log.degraded
  /\ log.degraded <=> log.warned + (IF log.owes = Nobody THEN 0 ELSE 1) = 1
  /\ log.warned <= 1
=============================================================================
