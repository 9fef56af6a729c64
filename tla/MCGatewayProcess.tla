-------------------------- MODULE MCGatewayProcess --------------------------
(* A small instance of GatewayProcess for TLC. *)
EXTENDS GatewayProcess, TLC

CONSTANTS d1, d2, r1

(* Starts that are accepted, and starts that lack one thing. *)
Plain == [mode |-> "http", extra |-> FALSE, server |-> Absent, token |-> Absent,
          exports |-> Absent, root |-> "directory", addr |-> Absent, host |-> Absent,
          telemetry |-> Absent, db |-> Absent, probe |-> Absent]
Accepted == {Plain, [Plain EXCEPT !.mode = "stdio", !.telemetry = "off", !.probe = "pipes"]}
Refused == {[Plain EXCEPT !.mode = "other"], [Plain EXCEPT !.root = "relative"],
            [Plain EXCEPT !.addr = "any"], [Plain EXCEPT !.host = "label"],
            [Plain EXCEPT !.db = "relative"], [Plain EXCEPT !.probe = "other"],
            [Plain EXCEPT !.mode = "stdio", !.host = "dns"]}
Starts == Accepted \cup Refused
=============================================================================
