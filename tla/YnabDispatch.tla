----------------------------- MODULE YnabDispatch -----------------------------
(***************************************************************************)
(* The provider attempt boundary (dispatch in internal/tools/ynab/         *)
(* reliability.go over the quota store of quota.go): concurrent calls of   *)
(* several gateway processes of one user and token that share an SQLite    *)
(* file with the reservations of the rolling allowance, the token cooldown *)
(* and one circuit per operation family.                                   *)
(***************************************************************************)
EXTENDS YnabCircuit, FiniteSets

CONSTANTS Procs,        \* gateway processes
          Calls,        \* dispatch calls; each runs once
          Home,         \* the process of a call
          Family,       \* method and resource family of a call
          Writes,       \* families whose method is not GET
          SlotLimit,    \* capacity of providerSlots
          QuotaLimit,   \* quotaLimit
          Window,       \* quotaWindow
          Attempts,     \* readAttempts
          Delays,       \* Retry-After delays the provider may name
          Skew,         \* longest time between a clock read and its commit
          HttpTimeout,  \* longest time an HTTP request takes
          Impatient,    \* bound: calls that may be canceled or time out
          MaxTime,      \* bound: instants in one behaviour
          MaxFaults     \* bound: process deaths and SQLite failures

Families == {Family[c] : c \in Calls}

ASSUME DispatchAssumption ==
  /\ Home \in [Calls -> Procs] /\ IsFiniteSet(Calls)
  /\ DOMAIN Family = Calls /\ Writes \subseteq Families
  /\ SlotLimit \in Nat \ {0} /\ QuotaLimit \in Nat \ {0} /\ Attempts \in Nat \ {0}
  /\ Window \in Nat /\ Skew \in Nat /\ Skew < Window /\ HttpTimeout \in Nat
  /\ Delays \subseteq Nat /\ Impatient \subseteq Calls /\ MaxTime \in Nat \ {0} /\ MaxFaults \in Nat

VARIABLES now,          \* real time
          rows,         \* table reservations: one row for each admitted attempt
          cooldown,     \* table cooldowns: the token's until_at, or 0
          circuits,     \* table circuits
          slots,        \* providerSlots in use, for each process
          ctl,          \* the local state of each call
          canceled,     \* calls whose context has ended
          sent,         \* history: HTTP requests sent for each call
          applied,      \* history: calls whose change the provider made
          log,          \* history: attempts admitted within a window, with the time of the commit
          faults        \* faults spent

state == <<rows, cooldown, circuits>>
vars  == <<now, rows, cooldown, circuits, slots, ctl, canceled, sent, applied, log, faults>>

IsWrite(c) == Family[c] \in Writes

(***************************************************************************)
(* pc of a call: idle; select (waiting for a slot); reserve (clock read,   *)
(* transaction not committed); permit (reserved, not sent); sent; record   *)
(* (answer judged, not recorded); sleep; done; dead (its process died).    *)
(* at is the clock reading the next transaction uses, or the time of the   *)
(* send.  news is history: what became known about the family since the    *)
(* attempt was admitted.                                                   *)
(***************************************************************************)
Steps    == {"idle", "select", "reserve", "permit", "sent", "record", "yield", "sleep", "done", "dead"}
Verdicts == {"none", "success", "error", "uncertain", "not_attempted"}
Local == [pc : Steps, try : Nat, at : Nat, permit : Permit,
          outcome : Outcome, hint : Nat, token : Nat, transient : BOOLEAN,
          verdict : Verdicts, news : SUBSET {"failure", "recovery"}]
Fresh == [pc |-> "idle", try |-> 0, at |-> 0, permit |-> [epoch |-> 0, probe |-> FALSE],
          outcome |-> "healthy", hint |-> 0, token |-> 0, transient |-> FALSE,
          verdict |-> "none", news |-> {}]

Row == [call : Calls, try : Nat, at : Nat]
Logged == [call : Calls, try : Nat, commit : Nat]

At(c, step) == ctl[c].pc = step
Fault   == faults < MaxFaults /\ faults' = faults + 1
NoFault == UNCHANGED faults

(* The attempt is admitted and its outcome not recorded yet. *)
InFlight(c) == ctl[c].pc \in {"permit", "sent", "record", "yield"}

Done(c, verdict) == [Fresh EXCEPT !.pc = "done", !.try = ctl[c].try, !.verdict = verdict]

(* Faulty variant, for mutation runs: a write cut off is reported as not attempted. *)
CanceledVerdictHopeful(c, dispatched) ==
  IF dispatched /\ ~IsWrite(c) THEN "error" ELSE "not_attempted"

(* canceledResult. *)
CanceledVerdict(c, dispatched) ==
  IF ~dispatched THEN "not_attempted" ELSE IF IsWrite(c) THEN "uncertain" ELSE "error"

(* providerFailure for an answer that does not tell whether the request counted. *)
AmbiguousVerdict(c) == IF IsWrite(c) THEN "uncertain" ELSE "error"

-----------------------------------------------------------------------------
Init == /\ now = 1
        /\ rows = {} /\ cooldown = 0 /\ circuits = [f \in Families |-> Closed]
        /\ slots = [p \in Procs |-> 0]
        /\ ctl = [c \in Calls |-> Fresh]
        /\ canceled = {}
        /\ sent = [c \in Calls |-> 0] /\ applied = {} /\ log = {}
        /\ faults = 0

(* Time passes, but not past the bounds on a transaction, on the send after *)
(* it and on a request.                                                     *)
Tick == /\ now < MaxTime /\ now' = now + 1
        /\ \A c \in Calls : /\ ctl[c].pc \in {"reserve", "permit", "record", "yield"} => now < ctl[c].at + Skew
                            /\ ctl[c].pc = "sent" => now < ctl[c].at + HttpTimeout
        /\ UNCHANGED <<state, slots, ctl, canceled, sent, applied, log, faults>>

(* The caller gives up, or the deadline of the call passes. *)
Cancel(c) == /\ c \in Impatient \ canceled /\ ctl[c].pc \notin {"idle", "done", "dead"}
             /\ canceled' = canceled \cup {c}
             /\ UNCHANGED <<now, state, slots, ctl, sent, applied, log, faults>>

Start(c) == /\ At(c, "idle")
            /\ ctl' = [ctl EXCEPT ![c].pc = "select"]
            /\ UNCHANGED <<now, state, slots, canceled, sent, applied, log, faults>>

(* A free slot, and the clock read for the reservation.  With the context   *)
(* ended as well, the select may still take the slot.                       *)
TakeSlot(c) == /\ At(c, "select") /\ slots[Home[c]] < SlotLimit
               /\ slots' = [slots EXCEPT ![Home[c]] = @ + 1]
               /\ ctl' = [ctl EXCEPT ![c].pc = "reserve", ![c].at = now]
               /\ UNCHANGED <<now, state, canceled, sent, applied, log, faults>>

GiveUp(c) == /\ At(c, "select") /\ c \in canceled
             /\ ctl' = [ctl EXCEPT ![c] = Done(c, CanceledVerdict(c, ctl[c].try > 0))]
             /\ UNCHANGED <<now, state, slots, canceled, sent, applied, log, faults>>

Release(c) == slots' = [slots EXCEPT ![Home[c]] = @ - 1]

(* Rows that still count at the clock reading n. *)
Counted(n) == {r \in rows : r.at + Window > n}

(* reserve refuses: token cooldown, allowance used up, circuit not closed. *)
Refused(c, n) == \/ cooldown > n
                 \/ Cardinality(Counted(n)) >= QuotaLimit
                 \/ Blocked(circuits[Family[c]], n)

(* Faulty variant, for mutation runs: a refused call keeps its slot. *)
DenyKeepsSlot(c) ==
  /\ At(c, "reserve")
  /\ \/ Refused(c, ctl[c].at) /\ NoFault
     \/ c \in canceled /\ NoFault
     \/ Fault
  /\ ctl' = [ctl EXCEPT ![c] = Done(c, IF c \in canceled THEN CanceledVerdict(c, ctl[c].try > 0)
                                        ELSE IF ctl[c].try > 0 THEN "error" ELSE "not_attempted")]
  /\ UNCHANGED <<now, state, slots, canceled, sent, applied, log>>

(* A refusal, a transaction ended by the context or one that failed: the    *)
(* transaction is rolled back and the slot returned.                        *)
Deny(c) ==
  /\ At(c, "reserve")
  /\ \/ Refused(c, ctl[c].at) /\ NoFault
     \/ c \in canceled /\ NoFault
     \/ Fault
  /\ Release(c)
  /\ ctl' = [ctl EXCEPT ![c] = Done(c, IF c \in canceled THEN CanceledVerdict(c, ctl[c].try > 0)
                                        ELSE IF ctl[c].try > 0 THEN "error" ELSE "not_attempted")]
  /\ UNCHANGED <<now, state, canceled, sent, applied, log>>

(* What the committed transaction of reserve does to the store. *)
Reservation(c) == [call |-> c, try |-> ctl[c].try, at |-> ctl[c].at]
Admitted(c) ==
  LET n == ctl[c].at IN
  /\ rows' = Counted(n) \cup {Reservation(c)}
  /\ circuits' = [circuits EXCEPT ![Family[c]] = Admit(@, n)]
  /\ log' = {l \in log : l.commit + Window > now}
             \cup {[call |-> c, try |-> ctl[c].try, commit |-> now]}
  /\ UNCHANGED cooldown

(* Faulty variant, for mutation runs: the allowance counts from the send. *)
ReserveUncounted(c) ==
  LET n == ctl[c].at IN
  /\ At(c, "reserve") /\ ~(cooldown > n \/ Blocked(circuits[Family[c]], n))
  /\ Admitted(c)
  /\ ctl' = [ctl EXCEPT ![c].pc = "permit", ![c].news = {},
                        ![c].permit = PermitOf(circuits[Family[c]], n)]
  /\ UNCHANGED <<now, slots, canceled, sent, applied, faults>>

(* reserve: reservation and probe admission commit together. *)
Reserve(c) ==
  LET n == ctl[c].at IN
  /\ At(c, "reserve") /\ ~Refused(c, n)
  /\ Admitted(c)
  /\ ctl' = [ctl EXCEPT ![c].pc = "permit", ![c].news = {},
                        ![c].permit = PermitOf(circuits[Family[c]], n)]
  /\ UNCHANGED <<now, slots, canceled, sent, applied, faults>>

(* The commit took effect but reported an error: the slot is returned, and  *)
(* what was committed stays.                                                *)
ReserveUnreported(c) ==
  /\ At(c, "reserve") /\ ~Refused(c, ctl[c].at) /\ Fault
  /\ Admitted(c) /\ Release(c)
  /\ ctl' = [ctl EXCEPT ![c] = Done(c, IF c \in canceled THEN CanceledVerdict(c, ctl[c].try > 0)
                                        ELSE IF ctl[c].try > 0 THEN "error" ELSE "not_attempted")]
  /\ UNCHANGED <<now, canceled, sent, applied>>

(* The context is tested once more before the send. *)
AbandonPermit(c) ==
  /\ At(c, "permit") /\ c \in canceled
  /\ Release(c)
  /\ ctl' = [ctl EXCEPT ![c].pc = "yield", ![c].at = now, ![c].outcome = "neutral"]
  /\ UNCHANGED <<now, state, canceled, sent, applied, log, faults>>

Send(c) == /\ At(c, "permit") /\ c \notin canceled
           /\ sent' = [sent EXCEPT ![c] = @ + 1]
           /\ ctl' = [ctl EXCEPT ![c].pc = "sent", ![c].at = now]
           /\ UNCHANGED <<now, state, slots, canceled, applied, log, faults>>

(***************************************************************************)
(* How a request ends: a complete 2xx answer; one that is unusable but not *)
(* transient (too large, 501); a 4xx refusal; 408 or 5xx, or an answer cut *)
(* short, perhaps with a Retry-After; no answer at all; and 429, whose     *)
(* delay is at least a second and a whole window when none is named.       *)
(***************************************************************************)
Endings == [kind : {"ok", "strange", "refused", "lost"}, delay : {0}]
      \cup [kind : {"down", "cut"}, delay : Delays \cup {0}]
      \cup [kind : {"limited"}, delay : {Later(d, 1) : d \in Delays} \cup {Window}]

(* A change may have been made unless the answer says it was not. *)
MayApply(kind) == CASE kind = "ok" -> {TRUE}
                    [] kind \in {"refused", "limited"} -> {FALSE}
                    [] OTHER -> BOOLEAN

EndingVerdict(c, kind) == CASE kind = "ok" -> "success"
                            [] kind \in {"refused", "limited"} -> "error"
                            [] OTHER -> AmbiguousVerdict(c)

(* The answer is judged, the slot returned and the clock read to record it. *)
Reply(c) ==
  /\ At(c, "sent")
  /\ \E e \in Endings, change \in BOOLEAN :
       /\ IsWrite(c) => change \in MayApply(e.kind)
       /\ ~IsWrite(c) => ~change
       /\ LET transient == e.kind = "down" \/ (e.kind \in {"lost", "cut"} /\ c \notin canceled)
          IN ctl' = [ctl EXCEPT ![c].pc = "record", ![c].at = now,
                       ![c].transient = transient,
                       ![c].outcome = IF c \in canceled THEN "neutral"
                                      ELSE IF transient THEN "transient" ELSE "healthy",
                       ![c].hint = IF transient /\ e.delay # 0 THEN now + e.delay ELSE 0,
                       ![c].token = IF e.kind = "limited" THEN now + e.delay ELSE 0,
                       ![c].verdict = EndingVerdict(c, e.kind)]
       /\ applied' = IF change THEN applied \cup {c} ELSE applied
  /\ Release(c)
  /\ UNCHANGED <<now, state, canceled, sent, log, faults>>

(* Faulty variant, for mutation runs: the last 429 sets the token cooldown. *)
RecordedShortens(c) ==
  LET l == ctl[c] IN
  /\ circuits' = [circuits EXCEPT ![Family[c]] = Defer(Complete(@, l.permit, l.outcome, l.at), l.hint, l.at)]
  /\ cooldown' = IF l.token = 0 THEN cooldown ELSE l.token
  /\ UNCHANGED rows

(* record: the circuit hears of the outcome, a named delay of a transient   *)
(* failure extends its outage, and a 429 extends the token cooldown.        *)
Recorded(c) ==
  LET l == ctl[c] IN
  /\ circuits' = [circuits EXCEPT ![Family[c]] = Defer(Complete(@, l.permit, l.outcome, l.at), l.hint, l.at)]
  /\ cooldown' = Later(cooldown, l.token)
  /\ UNCHANGED rows

(* History: the other attempts in flight learn that the family failed, or   *)
(* that a probe recovered it, after they were admitted.                     *)
Tidings(c) ==
  LET s == circuits[Family[c]]
      l == ctl[c]
      t == Complete(s, l.permit, l.outcome, l.at)
  IN (IF t.failures > s.failures \/ l.hint > l.at THEN {"failure"} ELSE {})
       \cup (IF l.permit.probe /\ l.outcome = "healthy" /\ ~Outdated(s, l.permit) THEN {"recovery"} ELSE {})

Told(c, local) == [d \in Calls |->
  IF d = c THEN local
  ELSE IF Family[d] = Family[c] /\ InFlight(d) THEN [ctl[d] EXCEPT !.news = @ \cup Tidings(c)]
  ELSE ctl[d]]

(* A read may go on to a second attempt after a transient failure, unless   *)
(* its family is now open.                                                  *)
Repeats(c) == /\ ~IsWrite(c) /\ ctl[c].transient /\ c \notin canceled
              /\ circuits'[Family[c]].open <= ctl[c].at
              /\ ctl[c].try + 1 < Attempts

Record(c) ==
  /\ At(c, "record")
  /\ Recorded(c)
  /\ \/ ctl' = Told(c, Done(c, IF c \in canceled THEN CanceledVerdict(c, TRUE)
                               ELSE ctl[c].verdict))
     \/ /\ Repeats(c)
        /\ ctl' = Told(c, [Fresh EXCEPT !.pc = "sleep", !.try = ctl[c].try])
  /\ UNCHANGED <<now, slots, canceled, sent, applied, log, faults>>

(* Recording failed or ran out of its two seconds. *)
RecordFails(c) ==
  /\ At(c, "record") /\ Fault
  /\ ctl' = [ctl EXCEPT ![c] = Done(c, AmbiguousVerdict(c))]
  /\ UNCHANGED <<now, state, slots, canceled, sent, applied, log>>

(* A canceled attempt that was not sent is recorded as neutral; whether     *)
(* recording worked is not looked at.                                       *)
Yield(c) ==
  /\ At(c, "yield")
  /\ LET local == Done(c, CanceledVerdict(c, ctl[c].try > 0))
     IN \/ Recorded(c) /\ ctl' = Told(c, local) /\ NoFault
        \/ ctl' = [ctl EXCEPT ![c] = local] /\ Fault /\ UNCHANGED state
  /\ UNCHANGED <<now, slots, canceled, sent, applied, log>>

(* The jittered delay of at most retryCap is over, or was interrupted. *)
Wake(c) ==
  /\ At(c, "sleep")
  /\ ctl' = IF c \in canceled THEN [ctl EXCEPT ![c] = Done(c, "error")]
            ELSE [ctl EXCEPT ![c].pc = "select", ![c].try = @ + 1]
  /\ UNCHANGED <<now, state, slots, canceled, sent, applied, log, faults>>

(* A gateway process dies; the store keeps what was committed. *)
Crash(p) ==
  /\ Fault
  /\ \E c \in Calls : Home[c] = p /\ ctl[c].pc \notin {"idle", "done", "dead"}
  /\ ctl' = [c \in Calls |-> IF Home[c] = p /\ ctl[c].pc \notin {"idle", "done", "dead"}
                             THEN [Fresh EXCEPT !.pc = "dead"] ELSE ctl[c]]
  /\ slots' = [slots EXCEPT ![p] = 0]
  /\ UNCHANGED <<now, state, canceled, sent, applied, log>>

Proceed(c) == \/ TakeSlot(c) \/ GiveUp(c) \/ Deny(c) \/ Reserve(c) \/ ReserveUnreported(c)
              \/ AbandonPermit(c) \/ Send(c) \/ Reply(c) \/ Record(c) \/ RecordFails(c)
              \/ Yield(c) \/ Wake(c)

(* Every call has ended: nothing is left to do but let time pass. *)
Finished == (\A c \in Calls : ctl[c].pc \in {"done", "dead"}) /\ UNCHANGED vars

Next == \/ Tick \/ Finished
        \/ \E c \in Calls : Start(c) \/ Cancel(c) \/ Proceed(c)
        \/ \E p \in Procs : Crash(p)

Spec == Init /\ [][Next]_vars

(* A running call goes on: requests time out, transactions end, the Go      *)
(* runtime schedules every goroutine.                                       *)
FairSpec == Spec /\ \A c \in Calls : WF_vars(Proceed(c))

-----------------------------------------------------------------------------
(* Every variable has its type, no process uses more slots than it has, and *)
(* a pending transaction or request is not overdue.                         *)
TypeOK ==
  /\ now \in 1 .. MaxTime
  /\ rows \subseteq Row /\ cooldown \in Nat /\ circuits \in [Families -> Circuit]
  /\ slots \in [Procs -> 0 .. SlotLimit]
  /\ ctl \in [Calls -> Local]
  /\ canceled \subseteq Calls /\ sent \in [Calls -> 0 .. Attempts] /\ applied \subseteq Calls
  /\ log \subseteq Logged
  /\ faults \in 0 .. MaxFaults

(* A slot is held exactly while a call reserves, holds a permit or waits    *)
(* for an answer; none leaks and none is returned twice.                    *)
SlotsBalanced ==
  \A p \in Procs : slots[p] = Cardinality({c \in Calls : Home[c] = p /\ ctl[c].pc \in {"reserve", "permit", "sent"}})

(* What a caller is told is true of the provider: a call not attempted sent *)
(* nothing, a write that succeeded was made, one that failed was not, and   *)
(* no write was sent twice (providerFailure, canceledResult).               *)
VerdictSound ==
  \A c \in Calls :
    /\ ctl[c].verdict = "not_attempted" => sent[c] = 0
    /\ IsWrite(c) => /\ sent[c] <= 1
                     /\ ctl[c].verdict = "success" => c \in applied
                     /\ ctl[c].verdict = "error" => c \notin applied

(* In any rolling window, less the delay a commit may have, no more         *)
(* attempts are admitted than the allowance, whichever process admits them  *)
(* and whether or not it lived to send them.                                *)
RollingQuota ==
  \A r \in log : Cardinality({q \in log : q.commit <= r.commit /\ r.commit + Skew < q.commit + Window}) <= QuotaLimit

(* A cooldown that callers were told of is never shortened: neither the     *)
(* token's nor an outage of a family ends before its time.                  *)
CooldownKept ==
  [][/\ cooldown' >= cooldown
     /\ \A f \in Families : circuits[f].open > now => circuits'[f].open >= circuits[f].open]_vars

(* No circuit stays shut longer than its cooldown, its lease or the longest *)
(* delay the provider named, even when the probe's process died.            *)
OutageBounded ==
  \A f \in Families :
    /\ circuits[f].lease <= now + Lease
    /\ circuits[f].open <= now + Cooldown \/ \E d \in Delays : circuits[f].open <= now + d

(* Stale completions are no news: an attempt admitted before the last       *)
(* counted failure cannot heal the circuit, and one admitted before the     *)
(* last recovery cannot count as a failure.                                 *)
StaleIgnored ==
  [][\A c \in Calls : ctl[c].pc = "record" /\ ctl'[c].pc # "record" =>
       LET s == circuits[Family[c]]
           t == circuits'[Family[c]]
       IN /\ "failure" \in ctl[c].news => t.failures >= s.failures /\ (t.open = 0 => s.open = 0)
          /\ "recovery" \in ctl[c].news => t.failures <= s.failures]_vars

(* While the circuit recovers, one request at a time probes the provider.   *)
SoleProbe ==
  \A c, d \in Calls : /\ c # d /\ Family[c] = Family[d]
                      /\ ctl[c].pc = "sent" /\ ctl[c].permit.probe
                      => ~(ctl[d].pc \in {"permit", "sent"} /\ ctl[d].permit.probe)

(* Every call that was started ends with a verdict or with its process.     *)
CallsSettle == \A c \in Calls : (ctl[c].pc = "select") ~> (ctl[c].pc \in {"done", "dead"})
=============================================================================
