---------------------------- MODULE GatewayConfig ----------------------------
(* What the gateway's command line and environment come to (internal/config). *)
(* Strings are classes: a path is relative or names a directory or not, an    *)
(* address is loopback or not, a host is one DNS name or not.                 *)
CONSTANT Absent  \* a flag or variable that is not given, or is empty

Arguments ==
  [mode : {"stdio", "http", "other"}, extra : BOOLEAN,
   server : {Absent, "obsidian", "ynab", "other"}, token : {Absent, "text"},
   exports : {Absent, "absolute", "relative"},
   root : {Absent, "directory", "nothing", "relative"},
   addr : {Absent, "loopback", "localhost", "any", "nohost", "noport"},
   host : {Absent, "dns", "label", "ip"},
   telemetry : {Absent, "sqlite", "stderr", "off", "other"},
   db : {Absent, "absolute", "relative"},
   probe : {Absent, "pipes", "other"}]

Default(value, d) == IF value = Absent THEN d ELSE value

Server(a) == Default(a.server, "obsidian")
Telemetry(a) == Default(a.telemetry, "sqlite")

(* The listener is bound to an explicit loopback host, and a port. *)
ValidateLoopbackAddr(addr) == addr \in {"loopback", "localhost"}

(* One exact name of several labels: not an address, a pattern or a bare label. *)
ValidDNSName(host) == host = "dns"

(* resourceprobe.FromEnvironment: two inherited pipe ends, or no probe at all. *)
ValidProbe(a) == a.probe # "other"

(* Parse and Validate: flags of one mode are refused in the other. *)
Valid(a) ==
  /\ a.mode \in {"stdio", "http"} /\ ~a.extra
  /\ Server(a) \in {"obsidian", "ynab"}
  /\ Telemetry(a) \in {"sqlite", "stderr", "off"}
  /\ Telemetry(a) = "sqlite" => Default(a.db, "absolute") = "absolute"
  /\ Server(a) = "ynab" => /\ a.token # Absent /\ a.root = Absent
                           /\ Default(a.exports, "absolute") = "absolute"
  /\ Server(a) = "obsidian" => a.root = "directory"
  /\ IF a.mode = "http"
     THEN /\ ValidateLoopbackAddr(Default(a.addr, "loopback"))
          /\ a.host # Absent => ValidDNSName(a.host)
     ELSE a.addr = Absent /\ a.host = Absent

(* The configuration of a gateway that starts. *)
Config(a) == [mode |-> a.mode, server |-> Server(a), telemetry |-> Telemetry(a),
             
 named |-> a.host # Absent]
=============================================================================
