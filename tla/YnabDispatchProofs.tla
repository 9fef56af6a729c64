-------------------------- MODULE YnabDispatchProofs --------------------------
(***************************************************************************)
(* Proofs about YnabDispatch for any number of processes, calls, slots and *)
(* attempts, any allowance and any bounds.                                 *)
(*                                                                         *)
(*   Typed      types, without the bounds that other parts imply           *)
(*   CallInv    what each call may rely on at each of its steps            *)
(*   SlotsInv   who occupies the slots of a process                        *)
(*   EpochInv   where attempts in flight stand to their circuit            *)
(*   OutageInv  which instants calls and circuits carry                    *)
(*   LeaseInv   what a probe's lease outlasts                              *)
(*   QuotaInv   which rows stand for the attempts within a window          *)
(***************************************************************************)
EXTENDS YnabDispatch, FiniteSetTheorems, FunctionTheorems, TLAPS

USE CircuitAssumption, DispatchAssumption

Typed ==
  /\ now \in Nat \ {0} /\ now <= MaxTime
  /\ rows \subseteq Row /\ cooldown \in Nat /\ circuits \in [Families -> Circuit]
  /\ slots \in [Procs -> Int]
  /\ ctl \in [Calls -> Local]
  /\ canceled \subseteq Calls /\ sent \in [Calls -> Nat] /\ applied \subseteq Calls
  /\ log \subseteq Logged
  /\ faults \in Nat /\ faults <= MaxFaults

-----------------------------------------------------------------------------
(* The circuit.                                                             *)

(* An instant is a natural number, the later of two is one of them. *)
LEMMA LaterType ==
  ASSUME NEW a \in Nat, NEW b \in Nat
  PROVE  /\ Later(a, b) \in Nat /\ Later(a, b) >= a /\ Later(a, b) >= b
         /\ Later(a, b) \in {a, b}
BY DEF Later

(* The fields of a circuit are natural numbers. *)
LEMMA Fields ==
  ASSUME NEW s \in Circuit
  PROVE  /\ s.failures \in Nat /\ s.epoch \in Nat /\ s.floor \in Nat
         /\ s.open \in Nat /\ s.lease \in Nat
BY DEF Circuit

(* Admission and completion keep a circuit a circuit. *)
LEMMA AdmitType ==
  ASSUME NEW s \in Circuit, NEW n \in Nat
  PROVE  Admit(s, n) \in Circuit /\ PermitOf(s, n) \in Permit
<1>1. s.epoch \in Nat /\ s.epoch + 1 \in Nat /\ n + Lease \in Nat BY Fields
<1>2. Admit(s, n) \in Circuit BY <1>1 DEF Admit, Circuit
<1>3. Probes(s) \in BOOLEAN BY DEF Probes
<1> QED BY <1>2, <1>3, Fields DEF PermitOf, Permit

LEMMA CompleteType ==
  ASSUME NEW s \in Circuit, NEW p \in Permit, NEW o \in Outcome, NEW n \in Nat
  PROVE  Complete(s, p, o, n) \in Circuit
<1>1. s.epoch + 1 \in Nat /\ s.failures + 1 \in Nat /\ n + Cooldown \in Nat /\ p.epoch \in Nat
  BY Fields DEF Permit
<1>2. Canceled(s, p, n) \in Circuit BY <1>1 DEF Canceled, Circuit
<1>3. Healed(s, p) \in Circuit BY <1>1 DEF Healed, Circuit
<1>4. Failed(s, p, n) \in Circuit BY <1>1 DEF Failed, Circuit
<1> QED BY <1>2, <1>3, <1>4 DEF Complete, Outcome

LEMMA DeferType ==
  ASSUME NEW s \in Circuit, NEW h \in Nat, NEW n \in Nat
  PROVE  Defer(s, h, n) \in Circuit
<1> DEFINE o == Later(s.open, h)
<1>0. s.epoch \in Nat /\ s.open \in Nat BY Fields
<1>1. s.epoch + 1 \in Nat /\ o \in Nat BY <1>0 DEF Later
<1> HIDE DEF o
<1>2. [s EXCEPT !.epoch = s.epoch + 1, !.open = o, !.lease = 0] \in Circuit
  BY <1>1 DEF Circuit
<1> QED BY <1>2 DEF Defer, o

-----------------------------------------------------------------------------
(* Types.                                                                   *)

LEMMA FreshType == Fresh \in Local
BY DEF Fresh, Local, Steps, Permit, Outcome, Verdicts

LEMMA DoneType ==
  ASSUME Typed, NEW c \in Calls, NEW v \in Verdicts
  PROVE  Done(c, v) \in Local
BY DEF Typed, Done, Fresh, Local, Steps, Permit, Outcome, Verdicts

LEMMA VerdictType ==
  ASSUME NEW c, NEW b \in BOOLEAN
  PROVE  CanceledVerdict(c, b) \in Verdicts /\ AmbiguousVerdict(c) \in Verdicts
BY DEF CanceledVerdict, AmbiguousVerdict, Verdicts

LEMMA HomeType ==
  ASSUME NEW c \in Calls
  PROVE  Home[c] \in Procs /\ Family[c] \in Families
BY DEF Families

(* Telling the others changes only what they have heard of. *)
LEMMA ToldFacts ==
  ASSUME Typed, NEW c \in Calls, NEW local \in Local
  PROVE  /\ Told(c, local) \in [Calls -> Local]
         /\ Told(c, local)[c] = local
         /\ \A d \in Calls \ {c} :
              Told(c, local)[d] = IF Family[d] = Family[c] /\ InFlight(d)
                                  THEN [ctl[d] EXCEPT !.news = @ \cup Tidings(c)] ELSE ctl[d]
<1>1. Tidings(c) \subseteq {"failure", "recovery"} BY DEF Tidings
<1>2. ASSUME NEW d \in Calls PROVE [ctl[d] EXCEPT !.news = @ \cup Tidings(c)] \in Local
  BY <1>1 DEF Typed, Local
<1> QED BY <1>2 DEF Told, Typed

LEMMA RecordedType ==
  ASSUME Typed, NEW c \in Calls, Recorded(c)
  PROVE  /\ circuits' \in [Families -> Circuit] /\ cooldown' \in Nat
         /\ cooldown' >= cooldown /\ rows' = rows
         /\ circuits' = [circuits EXCEPT ![Family[c]] =
              Defer(Complete(circuits[Family[c]], ctl[c].permit, ctl[c].outcome, ctl[c].at), ctl[c].hint, ctl[c].at)]
<1>1. ctl[c] \in Local /\ circuits[Family[c]] \in Circuit /\ Family[c] \in Families
  BY HomeType DEF Typed
<1>2. /\ ctl[c].permit \in Permit /\ ctl[c].outcome \in Outcome
      /\ ctl[c].at \in Nat /\ ctl[c].hint \in Nat /\ ctl[c].token \in Nat
  BY <1>1 DEF Local
<1>3. Defer(Complete(circuits[Family[c]], ctl[c].permit, ctl[c].outcome, ctl[c].at), ctl[c].hint, ctl[c].at) \in Circuit
  BY <1>1, <1>2, CompleteType, DeferType
<1>4. Later(cooldown, ctl[c].token) \in Nat /\ Later(cooldown, ctl[c].token) >= cooldown
  BY <1>2, LaterType DEF Typed
<1> QED BY <1>1, <1>3, <1>4 DEF Recorded, Typed

(* What SMT needs to know of an update of one call. *)
LEMMA OneCall ==
  ASSUME Typed, NEW c \in Calls, NEW local \in Local, ctl' = [ctl EXCEPT ![c] = local]
  PROVE  /\ ctl' \in [Calls -> Local] /\ ctl'[c] = local
         /\ \A d \in Calls \ {c} : ctl'[d] = ctl[d]
BY DEF Typed

-----------------------------------------------------------------------------
(* Types and what each call relies on.                                      *)

(* The clock reading a call carries is not in the future and not overdue;   *)
(* attempts are counted; what a call will tell is true of what was sent and *)
(* applied.                                                                 *)
Clocked(c) ==
  /\ ctl[c].pc \in {"reserve", "permit", "record", "yield"} =>
       ctl[c].at <= now /\ now <= ctl[c].at + Skew
  /\ ctl[c].pc = "sent" => ctl[c].at <= now /\ now <= ctl[c].at + HttpTimeout

Tried(c) ==
  /\ ctl[c].pc \notin {"done", "dead"} => ctl[c].try < Attempts
  /\ ctl[c].pc \in {"idle", "select", "reserve", "permit", "yield"} => sent[c] <= ctl[c].try
  /\ ctl[c].pc \in {"sent", "record", "sleep"} => sent[c] <= ctl[c].try + 1
  /\ ctl[c].pc = "sleep" => ctl[c].try + 1 < Attempts
  /\ sent[c] <= Attempts

Truthful(c) ==
  /\ ctl[c].verdict = "not_attempted" => ctl[c].pc = "done" /\ sent[c] = 0
  /\ ctl[c].verdict # "none" => ctl[c].pc \in {"record", "done"}
  /\ IsWrite(c) =>
       /\ ctl[c].pc # "sleep" /\ sent[c] <= 1
       /\ ctl[c].pc # "done" => ctl[c].try = 0
       /\ ctl[c].pc \in {"idle", "select", "reserve", "permit", "yield", "sent"} => c \notin applied
       /\ ctl[c].verdict = "success" => c \in applied
       /\ ctl[c].verdict = "error" => c \notin applied

CallInv == \A c \in Calls : Clocked(c) /\ Tried(c) /\ Truthful(c)

Fits(c) == Clocked(c) /\ Tried(c) /\ Truthful(c)

LEMMA InitBase == Init => Typed /\ CallInv
<1> SUFFICES ASSUME Init PROVE Typed /\ CallInv OBVIOUS
<1>1. Closed \in Circuit BY DEF Closed, Circuit
<1>2. Typed
  <2>1. \A c \in Calls : ctl[c] = Fresh BY DEF Init
  <2> QED BY <1>1, FreshType DEF Init, Typed
<1>3. CallInv
  BY DEF Init, CallInv, Clocked, Tried, Truthful, Fresh
<1> QED BY <1>2, <1>3

(* A call about which nothing changes but what it has heard still fits. *)
LEMMA KeptFits ==
  ASSUME Typed, NEW d \in Calls, Fits(d), now' = now,
         ctl'[d].pc = ctl[d].pc, ctl'[d].at = ctl[d].at,
         ctl'[d].try = ctl[d].try, ctl'[d].verdict = ctl[d].verdict,
         sent'[d] = sent[d], d \in applied' <=> d \in applied
  PROVE  Fits(d)'
<1>1. Clocked(d)' BY DEF Clocked, Fits
<1>2. Tried(d)' BY DEF Tried, Fits
<1>3. Truthful(d)' BY DEF Truthful, Fits, IsWrite
<1> QED BY <1>1, <1>2, <1>3 DEF Fits

(* A call that ends fits if its verdict is true. *)
LEMMA DoneFits ==
  ASSUME Typed, NEW c \in Calls, Fits(c), NEW v \in Verdicts,
         ctl[c].pc \notin {"done", "dead"},
         ctl'[c] = Done(c, v), sent' = sent, applied' = applied,
         v = "not_attempted" => sent[c] = 0,
         IsWrite(c) => (v = "success" => c \in applied) /\ (v = "error" => c \notin applied)
  PROVE  Fits(c)'
<1>1. /\ ctl'[c].pc = "done" /\ ctl'[c].try = ctl[c].try /\ ctl'[c].verdict = v
  BY DEF Done, Fresh
<1>2. Clocked(c)' BY <1>1 DEF Clocked
<1>3. Tried(c)' BY <1>1 DEF Tried, Fits
<1>4. Truthful(c)' BY <1>1 DEF Truthful, Fits, IsWrite
<1> QED BY <1>2, <1>3, <1>4 DEF Fits

(* A step that changes one call and neither sends nor applies anything for  *)
(* others.                                                                  *)
LEMMA OthersFit ==
  ASSUME Typed, CallInv, NEW c \in Calls, NEW local, ctl' = [ctl EXCEPT ![c] = local],
         now' = now, Fits(c)',
         \A d \in Calls \ {c} : sent'[d] = sent[d] /\ (d \in applied' <=> d \in applied)
  PROVE  CallInv'
<1> SUFFICES ASSUME NEW d \in Calls PROVE Fits(d)'
  BY DEF CallInv, Fits
<1>1. CASE d = c BY <1>1
<1>2. CASE d # c
  <2>1. ctl'[d] = ctl[d] BY <1>2 DEF Typed
  <2> QED BY <1>2, <2>1, KeptFits DEF CallInv, Fits
<1> QED BY <1>1, <1>2

(* The verdict of a call that ends before its next request. *)
LEMMA EarlyVerdict ==
  ASSUME Typed, NEW c \in Calls, Fits(c),
         ctl[c].pc \in {"select", "reserve", "permit", "yield"},
         NEW v, v \in {CanceledVerdict(c, ctl[c].try > 0), IF ctl[c].try > 0 THEN "error" ELSE "not_attempted"}
  PROVE  /\ v \in Verdicts /\ (v = "not_attempted" => sent[c] = 0)
         /\ IsWrite(c) => (v = "success" => c \in applied) /\ (v = "error" => c \notin applied)
<1>1. ctl[c].try \in Nat /\ sent[c] \in Nat BY DEF Typed, Local
<1> QED BY <1>1 DEF Fits, Tried, Truthful, CanceledVerdict, Verdicts

-----------------------------------------------------------------------------
(* The steps one by one.                                                    *)

LEMMA TickStep == ASSUME Typed, CallInv, Tick PROVE Typed' /\ CallInv'
<1>1. Typed' BY DEF Typed, Tick, state
<1>2. ASSUME NEW c \in Calls PROVE Fits(c)'
  <2>1. ctl[c] \in Local /\ ctl[c].at \in Nat BY DEF Typed, Local
  <2>2. Clocked(c)' BY <2>1 DEF Tick, CallInv, Clocked, Typed
  <2>3. Tried(c)' BY DEF Tick, CallInv, Tried
  <2>4. Truthful(c)' BY DEF Tick, CallInv, Truthful, IsWrite
  <2> QED BY <2>2, <2>3, <2>4 DEF Fits
<1> QED BY <1>1, <1>2 DEF CallInv, Fits

LEMMA CancelStep == ASSUME Typed, CallInv, NEW c \in Calls, Cancel(c) PROVE Typed' /\ CallInv'
<1>1. Typed' BY DEF Typed, Cancel, state
<1> QED BY <1>1 DEF Cancel, CallInv, Clocked, Tried, Truthful, IsWrite

LEMMA StartStep == ASSUME Typed, CallInv, NEW c \in Calls, Start(c) PROVE Typed' /\ CallInv'
<1> DEFINE local == [ctl[c] EXCEPT !.pc = "select"]
<1>1. ctl[c] \in Local /\ Fits(c) BY DEF Typed, CallInv, Fits
<1>2. local \in Local /\ ctl' = [ctl EXCEPT ![c] = local] BY <1>1 DEF Local, Steps, Start
<1>3. Typed' BY <1>2, OneCall DEF Typed, Start, state
<1>4. Fits(c)'
  <2>1. ctl'[c] = local BY <1>2, OneCall
  <2> QED BY <2>1, <1>1 DEF Start, At, Fits, Clocked, Tried, Truthful, IsWrite, Local
<1> QED BY <1>2, <1>3, <1>4, OthersFit DEF Start

LEMMA TakeSlotStep == ASSUME Typed, CallInv, NEW c \in Calls, TakeSlot(c) PROVE Typed' /\ CallInv'
<1> DEFINE local == [ctl[c] EXCEPT !.pc = "reserve", !.at = now]
<1>1. ctl[c] \in Local /\ Fits(c) BY DEF Typed, CallInv, Fits
<1>2. local \in Local /\ ctl' = [ctl EXCEPT ![c] = local] BY <1>1 DEF Local, Steps, TakeSlot, Typed
<1>3. slots' \in [Procs -> Int] BY HomeType DEF Typed, TakeSlot
<1>4. Typed' BY <1>2, <1>3, OneCall DEF Typed, TakeSlot, state
<1>5. Fits(c)'
  <2>1. ctl'[c] = local BY <1>2, OneCall
  <2> QED BY <2>1, <1>1 DEF TakeSlot, At, Fits, Clocked, Tried, Truthful, IsWrite, Local, Typed
<1> QED BY <1>2, <1>4, <1>5, OthersFit DEF TakeSlot

(* The common part of the steps with which a call ends. *)
LEMMA EndStep ==
  ASSUME Typed, CallInv, NEW c \in Calls, NEW v \in Verdicts,
         ctl[c].pc \notin {"done", "dead"}, ctl' = [ctl EXCEPT ![c] = Done(c, v)],
         sent' = sent, applied' = applied, now' = now,
         v = "not_attempted" => sent[c] = 0,
         IsWrite(c) => (v = "success" => c \in applied) /\ (v = "error" => c \notin applied)
  PROVE  ctl' \in [Calls -> Local] /\ CallInv'
<1>1. Done(c, v) \in Local BY DoneType
<1>2. ctl' \in [Calls -> Local] /\ ctl'[c] = Done(c, v) BY <1>1, OneCall
<1>3. Fits(c)' BY <1>2, DoneFits DEF CallInv, Fits
<1> QED BY <1>2, <1>3, OthersFit

LEMMA GiveUpStep == ASSUME Typed, CallInv, NEW c \in Calls, GiveUp(c) PROVE Typed' /\ CallInv'
<1> DEFINE v == CanceledVerdict(c, ctl[c].try > 0)
<1>1. Fits(c) /\ ctl[c].pc = "select" /\ ctl' = [ctl EXCEPT ![c] = Done(c, v)]
  BY DEF CallInv, Fits, GiveUp, At
<1>2. /\ v \in Verdicts /\ (v = "not_attempted" => sent[c] = 0)
      /\ IsWrite(c) => (v = "success" => c \in applied) /\ (v = "error" => c \notin applied)
  BY <1>1, EarlyVerdict
<1> HIDE DEF v
<1>3. ctl' \in [Calls -> Local] /\ CallInv' BY <1>1, <1>2, EndStep DEF GiveUp
<1> QED BY <1>3 DEF Typed, GiveUp, state

LEMMA ReleaseType == ASSUME Typed, NEW c \in Calls, Release(c) PROVE slots' \in [Procs -> Int]
BY HomeType DEF Typed, Release

LEMMA DenyStep == ASSUME Typed, CallInv, NEW c \in Calls, Deny(c) PROVE Typed' /\ CallInv'
<1> DEFINE v == IF c \in canceled THEN CanceledVerdict(c, ctl[c].try > 0)
                ELSE IF ctl[c].try > 0 THEN "error" ELSE "not_attempted"
<1>1. Fits(c) /\ ctl[c].pc = "reserve" /\ ctl' = [ctl EXCEPT ![c] = Done(c, v)]
  BY DEF CallInv, Fits, Deny, At
<1>2. /\ v \in Verdicts /\ (v = "not_attempted" => sent[c] = 0)
      /\ IsWrite(c) => (v = "success" => c \in applied) /\ (v = "error" => c \notin applied)
  BY <1>1, EarlyVerdict
<1> HIDE DEF v
<1>3. ctl' \in [Calls -> Local] /\ CallInv' BY <1>1, <1>2, EndStep DEF Deny
<1>4. slots' \in [Procs -> Int] BY ReleaseType DEF Deny
<1>5. faults' \in Nat /\ faults' <= MaxFaults BY DEF Typed, Deny, NoFault, Fault
<1> QED BY <1>3, <1>4, <1>5 DEF Typed, Deny, state

(* The reservation's effect on the store. *)
LEMMA AdmittedType ==
  ASSUME Typed, NEW c \in Calls, Admitted(c)
  PROVE  /\ rows' \subseteq Row /\ log' \subseteq Logged /\ circuits' \in [Families -> Circuit]
         /\ cooldown' = cooldown
<1>1. ctl[c] \in Local /\ ctl[c].at \in Nat /\ ctl[c].try \in Nat BY DEF Typed, Local
<1>2. rows' \subseteq Row BY <1>1 DEF Admitted, Counted, Reservation, Row, Typed
<1>3. log' \subseteq Logged BY <1>1 DEF Admitted, Logged, Typed
<1>4. circuits' \in [Families -> Circuit] BY <1>1, AdmitType, HomeType DEF Admitted, Typed
<1> QED BY <1>2, <1>3, <1>4 DEF Admitted

LEMMA ReserveStep == ASSUME Typed, CallInv, NEW c \in Calls, Reserve(c) PROVE Typed' /\ CallInv'
<1> DEFINE permit == PermitOf(circuits[Family[c]], ctl[c].at)
           local == [ctl[c] EXCEPT !.pc = "permit", !.news = {}, !.permit = permit]
<1>1. ctl[c] \in Local /\ Fits(c) /\ ctl[c].at \in Nat BY DEF Typed, CallInv, Fits, Local
<1>2. permit \in Permit BY <1>1, AdmitType, HomeType DEF Typed
<1>3. ctl' = [ctl EXCEPT ![c] = local] BY DEF Reserve
<1> HIDE DEF permit
<1>4. local \in Local BY <1>1, <1>2 DEF Local, Steps
<1>5. Typed' BY <1>3, <1>4, OneCall, AdmittedType DEF Typed, Reserve
<1>6. Fits(c)'
  <2>1. ctl'[c] = local BY <1>3, <1>4, OneCall
  <2>2. /\ ctl'[c].pc = "permit" /\ ctl'[c].at = ctl[c].at
        /\ ctl'[c].try = ctl[c].try /\ ctl'[c].verdict = ctl[c].verdict
    BY <2>1, <1>1 DEF Local
  <2>3. ctl[c].pc = "reserve" /\ now' = now /\ sent' = sent /\ applied' = applied
    BY DEF Reserve, At
  <2> QED BY <2>2, <2>3, <1>1 DEF Fits, Clocked, Tried, Truthful, IsWrite
<1> QED BY <1>3, <1>5, <1>6, OthersFit DEF Reserve

LEMMA ReserveUnreportedStep ==
  ASSUME Typed, CallInv, NEW c \in Calls, ReserveUnreported(c) PROVE Typed' /\ CallInv'
<1> DEFINE v == IF c \in canceled THEN CanceledVerdict(c, ctl[c].try > 0)
                ELSE IF ctl[c].try > 0 THEN "error" ELSE "not_attempted"
<1>1. Fits(c) /\ ctl[c].pc = "reserve" /\ ctl' = [ctl EXCEPT ![c] = Done(c, v)]
  BY DEF CallInv, Fits, ReserveUnreported, At
<1>2. /\ v \in Verdicts /\ (v = "not_attempted" => sent[c] = 0)
      /\ IsWrite(c) => (v = "success" => c \in applied) /\ (v = "error" => c \notin applied)
  BY <1>1, EarlyVerdict
<1> HIDE DEF v
<1>3. ctl' \in [Calls -> Local] /\ CallInv' BY <1>1, <1>2, EndStep DEF ReserveUnreported
<1>4. slots' \in [Procs -> Int] BY ReleaseType DEF ReserveUnreported
<1>5. faults' \in Nat /\ faults' <= MaxFaults BY DEF Typed, ReserveUnreported, Fault
<1> QED BY <1>3, <1>4, <1>5, AdmittedType DEF Typed, ReserveUnreported

LEMMA AbandonPermitStep ==
  ASSUME Typed, CallInv, NEW c \in Calls, AbandonPermit(c) PROVE Typed' /\ CallInv'
<1> DEFINE local == [ctl[c] EXCEPT !.pc = "yield", !.at = now, !.outcome = "neutral"]
<1>1. ctl[c] \in Local /\ Fits(c) BY DEF Typed, CallInv, Fits
<1>2. local \in Local /\ ctl' = [ctl EXCEPT ![c] = local]
  BY <1>1 DEF Local, Steps, AbandonPermit, Typed, Outcome
<1>3. slots' \in [Procs -> Int] BY ReleaseType DEF AbandonPermit
<1>4. Typed' BY <1>2, <1>3, OneCall DEF Typed, AbandonPermit, state
<1>5. Fits(c)'
  <2>1. ctl'[c] = local BY <1>2, OneCall
  <2>2. /\ ctl'[c].pc = "yield" /\ ctl'[c].at = now
        /\ ctl'[c].try = ctl[c].try /\ ctl'[c].verdict = ctl[c].verdict
    BY <2>1, <1>1 DEF Local
  <2>3. ctl[c].pc = "permit" /\ now' = now /\ now \in Nat /\ sent' = sent /\ applied' = applied
    BY DEF AbandonPermit, At, Typed
  <2> QED BY <2>2, <2>3, <1>1 DEF Fits, Clocked, Tried, Truthful, IsWrite
<1> QED BY <1>2, <1>4, <1>5, OthersFit DEF AbandonPermit

LEMMA SendStep == ASSUME Typed, CallInv, NEW c \in Calls, Send(c) PROVE Typed' /\ CallInv'
<1> DEFINE local == [ctl[c] EXCEPT !.pc = "sent", !.at = now]
<1>1. ctl[c] \in Local /\ Fits(c) BY DEF Typed, CallInv, Fits
<1>2. local \in Local /\ ctl' = [ctl EXCEPT ![c] = local] BY <1>1 DEF Local, Steps, Send, Typed
<1>3. sent' \in [Calls -> Nat] /\ sent'[c] = sent[c] + 1 /\ \A d \in Calls \ {c} : sent'[d] = sent[d]
  BY DEF Typed, Send
<1>4. Typed' BY <1>2, <1>3, OneCall DEF Typed, Send, state
<1>5. Fits(c)'
  <2>1. ctl'[c] = local BY <1>2, OneCall
  <2>2. /\ ctl'[c].pc = "sent" /\ ctl'[c].at = now
        /\ ctl'[c].try = ctl[c].try /\ ctl'[c].verdict = ctl[c].verdict
    BY <2>1, <1>1 DEF Local
  <2>3. ctl[c].pc = "permit" /\ now' = now /\ now \in Nat /\ applied' = applied
    BY DEF Send, At, Typed
  <2>4. ctl[c].try \in Nat /\ sent[c] \in Nat BY <1>1 DEF Local, Typed
  <2>5. Clocked(c)' BY <2>2, <2>3 DEF Clocked
  <2>6. Tried(c)' BY <2>2, <2>3, <2>4, <1>1, <1>3 DEF Fits, Tried
  <2>7. Truthful(c)' BY <2>2, <2>3, <2>4, <1>1, <1>3 DEF Fits, Truthful, Tried, IsWrite
  <2> QED BY <2>5, <2>6, <2>7 DEF Fits
<1> QED BY <1>2, <1>3, <1>4, <1>5, OthersFit DEF Send

(* The answer is judged by what it says and the change the provider made. *)
LEMMA ReplyFacts ==
  ASSUME Typed, NEW c \in Calls, Reply(c)
  PROVE  /\ \E local \in Local : /\ ctl' = [ctl EXCEPT ![c] = local] /\ local.pc = "record"
                                 /\ local.at = now /\ local.try = ctl[c].try
                                 /\ local.verdict \in {"success", "error", "uncertain"}
                                 /\ IsWrite(c) => /\ local.verdict = "success" => c \in applied'
                                                  /\ local.verdict = "error" => applied' = applied
                                 /\ local.hint = 0 \/ \E d \in Delays : local.hint = now + d
                                 /\ local.permit = ctl[c].permit /\ local.news = ctl[c].news
         /\ applied' \in {applied, applied \cup {c}}
<1>1. PICK e \in Endings, change \in BOOLEAN :
        /\ IsWrite(c) => change \in MayApply(e.kind)
        /\ ~IsWrite(c) => ~change
        /\ LET transient == e.kind = "down" \/ (e.kind \in {"lost", "cut"} /\ c \notin canceled)
           IN ctl' = [ctl EXCEPT ![c].pc = "record", ![c].at = now,
                ![c].transient = transient,
                ![c].outcome = IF c \in canceled THEN "neutral"
                               ELSE IF transient THEN "transient" ELSE "healthy",
                ![c].hint = IF transient /\ e.delay # 0 THEN now + e.delay ELSE 0,
                ![c].token = IF e.kind = "limited" THEN now + e.delay ELSE 0,
                ![c].verdict = EndingVerdict(c, e.kind)]
        /\ applied' = IF change THEN applied \cup {c} ELSE applied
  BY DEF Reply
<1>2. /\ e.delay \in Nat /\ (e.kind # "limited" => e.delay \in Delays \cup {0})
      /\ e.kind \in {"ok", "strange", "refused", "lost", "down", "cut", "limited"}
  <2>1. \A d \in Delays : Later(d, 1) \in Nat BY DEF Later
  <2>2. CASE e \in [kind : {"ok", "strange", "refused", "lost"}, delay : {0}] BY <2>2
  <2>3. CASE e \in [kind : {"down", "cut"}, delay : Delays \cup {0}]
    <3>1. e.kind \in {"down", "cut"} /\ e.delay \in Delays \cup {0} BY <2>3
    <3>2. Delays \cup {0} \subseteq Nat OBVIOUS
    <3>4. e.delay \in Nat BY <3>1, <3>2
    <3>3. e.kind # "limited" BY <3>1
    <3> QED BY <3>1, <3>4
  <2>4. CASE e \in [kind : {"limited"}, delay : {Later(d, 1) : d \in Delays} \cup {Window}]
    <3>1. e.kind = "limited" /\ e.delay \in {Later(d, 1) : d \in Delays} \cup {Window} BY <2>4
    <3> QED BY <3>1, <2>1
  <2> QED BY <2>2, <2>3, <2>4 DEF Endings
<1> DEFINE transient == e.kind = "down" \/ (e.kind \in {"lost", "cut"} /\ c \notin canceled)
           outcome == IF c \in canceled THEN "neutral" ELSE IF transient THEN "transient" ELSE "healthy"
           hint  == IF transient /\ e.delay # 0 THEN now + e.delay ELSE 0
           token == IF e.kind = "limited" THEN now + e.delay ELSE 0
           verdict == EndingVerdict(c, e.kind)
           local == [ctl[c] EXCEPT !.pc = "record", !.at = now, !.transient = transient,
                       !.outcome = outcome, !.hint = hint, !.token = token, !.verdict = verdict]
<1>3. transient \in BOOLEAN /\ outcome \in Outcome /\ hint \in Nat /\ token \in Nat
  BY <1>2 DEF Outcome, Typed
<1>4. /\ verdict \in {"success", "error", "uncertain"}
      /\ verdict = "success" <=> e.kind = "ok"
      /\ IsWrite(c) => (verdict = "error" <=> e.kind \in {"refused", "limited"})
  BY <1>2 DEF EndingVerdict, AmbiguousVerdict
<1>5. hint = 0 \/ \E d \in Delays : hint = now + d BY <1>2
<1>6. ctl' = [ctl EXCEPT ![c] = local]
  <2>1. ctl' = [ctl EXCEPT ![c].pc = "record", ![c].at = now, ![c].transient = transient,
                  ![c].outcome = outcome, ![c].hint = hint, ![c].token = token, ![c].verdict = verdict]
    BY <1>1
  <2>2. ctl \in [Calls -> Local] BY DEF Typed
  <2> HIDE DEF transient, outcome, hint, token, verdict
  <2> QED BY <2>1, <2>2
<1>7. IsWrite(c) => /\ verdict = "success" => c \in applied'
                    /\ verdict = "error" => applied' = applied
  BY <1>1, <1>4 DEF MayApply
<1> HIDE DEF transient, outcome, hint, token, verdict
<1>8. ctl[c] \in Local BY DEF Typed
<1>9. local \in Local BY <1>3, <1>4, <1>8 DEF Local, Steps, Verdicts, Typed
<1>10. /\ local.pc = "record" /\ local.at = now /\ local.try = ctl[c].try /\ local.verdict = verdict
       /\ local.hint = hint /\ local.permit = ctl[c].permit /\ local.news = ctl[c].news
  BY <1>8 DEF Local
<1>11. applied' \in {applied, applied \cup {c}} BY <1>1
<1> QED BY <1>4, <1>5, <1>6, <1>7, <1>9, <1>10, <1>11

LEMMA ReplyStep == ASSUME Typed, CallInv, NEW c \in Calls, Reply(c) PROVE Typed' /\ CallInv'
<1>1. PICK local \in Local : /\ ctl' = [ctl EXCEPT ![c] = local] /\ local.pc = "record"
                             /\ local.at = now /\ local.try = ctl[c].try
                             /\ local.verdict \in {"success", "error", "uncertain"}
                             /\ IsWrite(c) => /\ local.verdict = "success" => c \in applied'
                                              /\ local.verdict = "error" => applied' = applied
  BY ReplyFacts
<1>2. applied' \in {applied, applied \cup {c}} BY ReplyFacts
<1>3. /\ ctl[c].pc = "sent" /\ now' = now /\ sent' = sent /\ slots' \in [Procs -> Int]
      /\ UNCHANGED <<state, canceled, log, faults>>
  BY ReleaseType DEF Reply, At
<1>4. ctl' \in [Calls -> Local] /\ ctl'[c] = local BY <1>1, OneCall
<1>5. Typed' BY <1>2, <1>3, <1>4 DEF Typed, state
<1>6. Fits(c)'
  <2>1. Fits(c) /\ now \in Nat BY DEF CallInv, Fits, Typed
  <2>2. Clocked(c)' BY <1>1, <1>3, <1>4, <2>1 DEF Clocked
  <2>3. Tried(c)' BY <1>1, <1>3, <1>4, <2>1 DEF Tried, Fits
  <2>4. Truthful(c)' BY <1>1, <1>3, <1>4, <2>1 DEF Truthful, Fits, IsWrite
  <2> QED BY <2>2, <2>3, <2>4 DEF Fits
<1> QED BY <1>1, <1>2, <1>3, <1>5, <1>6, OthersFit

(* What others hear of a completion does not change what they rely on. *)
LEMMA ToldFit ==
  ASSUME Typed, CallInv, NEW c \in Calls, NEW local \in Local, ctl' = Told(c, local),
         now' = now, sent' = sent, applied' = applied, Fits(c)'
  PROVE  ctl' \in [Calls -> Local] /\ CallInv'
<1>1. /\ ctl' \in [Calls -> Local]
      /\ \A e \in Calls \ {c} : ctl'[e] = IF Family[e] = Family[c] /\ InFlight(e)
                                  THEN [ctl[e] EXCEPT !.news = @ \cup Tidings(c)] ELSE ctl[e]
  <2>1. ctl' \in [Calls -> Local] BY ToldFacts
  <2> QED BY <2>1 DEF Told
<1> SUFFICES ASSUME NEW d \in Calls PROVE Fits(d)'
  BY <1>1 DEF CallInv, Fits
<1>2. CASE d = c BY <1>2
<1>3. CASE d # c
  <2>1. ctl[d] \in Local BY DEF Typed
  <2>2. /\ ctl'[d].pc = ctl[d].pc /\ ctl'[d].at = ctl[d].at
        /\ ctl'[d].try = ctl[d].try /\ ctl'[d].verdict = ctl[d].verdict
    <3>1. \/ ctl'[d] = ctl[d]
          \/ ctl'[d] = [ctl[d] EXCEPT !.news = @ \cup Tidings(c)]
      BY <1>1, <1>3
    <3> QED BY <2>1, <3>1 DEF Local
  <2> QED BY <2>2, KeptFits DEF CallInv, Fits
<1> QED BY <1>2, <1>3

(* The verdict with which a recorded call ends. *)
LEMMA LateVerdict ==
  ASSUME Typed, NEW c \in Calls, Fits(c), ctl[c].pc = "record",
         NEW v, v \in {CanceledVerdict(c, TRUE), ctl[c].verdict, AmbiguousVerdict(c)}
  PROVE  /\ v \in Verdicts /\ (v = "not_attempted" => sent[c] = 0)
         /\ IsWrite(c) => (v = "success" => c \in applied) /\ (v = "error" => c \notin applied)
<1>1. ctl[c].verdict \in Verdicts BY DEF Typed, Local
<1> QED BY <1>1 DEF Fits, Truthful, CanceledVerdict, AmbiguousVerdict, Verdicts

LEMMA RecordStep == ASSUME Typed, CallInv, NEW c \in Calls, Record(c) PROVE Typed' /\ CallInv'
<1>1. /\ Fits(c) /\ ctl[c].pc = "record" /\ Recorded(c) /\ ctl[c] \in Local
      /\ UNCHANGED <<now, slots, canceled, sent, applied, log, faults>>
  BY DEF CallInv, Fits, Record, At, Typed
<1>2. ctl' \in [Calls -> Local] /\ CallInv'
  <2>1. CASE ctl' = Told(c, Done(c, IF c \in canceled THEN CanceledVerdict(c, TRUE) ELSE ctl[c].verdict))
    <3> DEFINE v == IF c \in canceled THEN CanceledVerdict(c, TRUE) ELSE ctl[c].verdict
    <3>1. /\ v \in Verdicts /\ (v = "not_attempted" => sent[c] = 0)
          /\ IsWrite(c) => (v = "success" => c \in applied) /\ (v = "error" => c \notin applied)
      BY <1>1, LateVerdict
    <3>2. ctl' = Told(c, Done(c, v)) BY <2>1
    <3> HIDE DEF v
    <3>3. Done(c, v) \in Local BY <3>1, DoneType
    <3>4. ctl'[c] = Done(c, v) BY <3>2, <3>3, ToldFacts
    <3>5. Fits(c)' BY <1>1, <3>1, <3>4, DoneFits
    <3> QED BY <1>1, <3>2, <3>3, <3>5, ToldFit
  <2>2. CASE Repeats(c) /\ ctl' = Told(c, [Fresh EXCEPT !.pc = "sleep", !.try = ctl[c].try])
    <3> DEFINE local == [Fresh EXCEPT !.pc = "sleep", !.try = ctl[c].try]
    <3>1. local \in Local BY <1>1, FreshType DEF Local, Steps
    <3>2. ctl'[c] = local BY <2>2, <3>1, ToldFacts
    <3>3. ctl'[c].pc = "sleep" /\ ctl'[c].try = ctl[c].try /\ ctl'[c].verdict = "none"
      BY <3>2 DEF Fresh
    <3>4. Fits(c)'
      BY <1>1, <2>2, <3>3 DEF Repeats, Fits, Clocked, Tried, Truthful, IsWrite
    <3> QED BY <1>1, <2>2, <3>1, <3>4, ToldFit
  <2> QED BY <2>1, <2>2 DEF Record
<1> QED BY <1>1, <1>2, RecordedType DEF Typed

LEMMA RecordFailsStep ==
  ASSUME Typed, CallInv, NEW c \in Calls, RecordFails(c) PROVE Typed' /\ CallInv'
<1> DEFINE v == AmbiguousVerdict(c)
<1>1. Fits(c) /\ ctl[c].pc = "record" /\ ctl' = [ctl EXCEPT ![c] = Done(c, v)]
  BY DEF CallInv, Fits, RecordFails, At
<1>2. /\ v \in Verdicts /\ (v = "not_attempted" => sent[c] = 0)
      /\ IsWrite(c) => (v = "success" => c \in applied) /\ (v = "error" => c \notin applied)
  BY <1>1, LateVerdict
<1> HIDE DEF v
<1>3. ctl' \in [Calls -> Local] /\ CallInv' BY <1>1, <1>2, EndStep DEF RecordFails
<1>4. faults' \in Nat /\ faults' <= MaxFaults BY DEF Typed, RecordFails, Fault
<1> QED BY <1>3, <1>4 DEF Typed, RecordFails, state

LEMMA YieldStep == ASSUME Typed, CallInv, NEW c \in Calls, Yield(c) PROVE Typed' /\ CallInv'
<1> DEFINE v == CanceledVerdict(c, ctl[c].try > 0)
<1>1. /\ Fits(c) /\ ctl[c].pc = "yield"
      /\ UNCHANGED <<now, slots, canceled, sent, applied, log>>
  BY DEF CallInv, Fits, Yield, At
<1>2. /\ v \in Verdicts /\ (v = "not_attempted" => sent[c] = 0)
      /\ IsWrite(c) => (v = "success" => c \in applied) /\ (v = "error" => c \notin applied)
  BY <1>1, EarlyVerdict
<1>3. \/ Recorded(c) /\ ctl' = Told(c, Done(c, v)) /\ NoFault
      \/ ctl' = [ctl EXCEPT ![c] = Done(c, v)] /\ Fault /\ UNCHANGED state
  BY DEF Yield
<1> HIDE DEF v
<1>4. CASE Recorded(c) /\ ctl' = Told(c, Done(c, v)) /\ NoFault
  <2>1. Done(c, v) \in Local BY <1>2, DoneType
  <2>2. ctl'[c] = Done(c, v) BY <1>4, <2>1, ToldFacts
  <2>3. Fits(c)' BY <1>1, <1>2, <2>2, DoneFits
  <2>4. ctl' \in [Calls -> Local] /\ CallInv' BY <1>1, <1>4, <2>1, <2>3, ToldFit
  <2> QED BY <1>1, <1>4, <2>4, RecordedType DEF Typed, NoFault
<1>5. CASE ctl' = [ctl EXCEPT ![c] = Done(c, v)] /\ Fault /\ UNCHANGED state
  <2>1. ctl' \in [Calls -> Local] /\ CallInv' BY <1>1, <1>2, <1>5, EndStep
  <2> QED BY <1>1, <1>5, <2>1 DEF Typed, state, Fault
<1> QED BY <1>3, <1>4, <1>5

LEMMA WakeStep == ASSUME Typed, CallInv, NEW c \in Calls, Wake(c) PROVE Typed' /\ CallInv'
<1>1. /\ Fits(c) /\ ctl[c].pc = "sleep" /\ ctl[c] \in Local
      /\ UNCHANGED <<now, state, slots, canceled, sent, applied, log, faults>>
  BY DEF CallInv, Fits, Wake, At, Typed
<1>2. CASE c \in canceled
  <2>1. ctl' = [ctl EXCEPT ![c] = Done(c, "error")] BY <1>2 DEF Wake
  <2>2. "error" \in Verdicts /\ ~IsWrite(c) BY <1>1 DEF Verdicts, Fits, Truthful
  <2>3. ctl' \in [Calls -> Local] /\ CallInv' BY <1>1, <2>1, <2>2, EndStep
  <2> QED BY <1>1, <2>3 DEF Typed, state
<1>3. CASE c \notin canceled
  <2> DEFINE local == [ctl[c] EXCEPT !.pc = "select", !.try = @ + 1]
  <2>1. ctl[c].try \in Nat /\ ctl[c].try + 1 \in Nat /\ sent[c] \in Nat BY <1>1 DEF Local, Typed
  <2>2. local \in Local BY <1>1, <2>1 DEF Local, Steps
  <2>3. ctl' = [ctl EXCEPT ![c] = local] BY <1>3 DEF Wake
  <2>4. ctl' \in [Calls -> Local] /\ ctl'[c] = local BY <2>2, <2>3, OneCall
  <2>5. ctl'[c].pc = "select" /\ ctl'[c].try = ctl[c].try + 1 /\ ctl'[c].verdict = ctl[c].verdict
    BY <1>1, <2>4 DEF Local
  <2>6. Fits(c)' BY <1>1, <2>1, <2>5 DEF Fits, Clocked, Tried, Truthful, IsWrite
  <2>7. CallInv' BY <1>1, <2>3, <2>6, OthersFit
  <2> QED BY <1>1, <2>4, <2>7 DEF Typed, state
<1> QED BY <1>2, <1>3

LEMMA CrashStep == ASSUME Typed, CallInv, NEW p \in Procs, Crash(p) PROVE Typed' /\ CallInv'
<1>1. [Fresh EXCEPT !.pc = "dead"] \in Local BY FreshType DEF Local, Steps
<1>2. ctl' \in [Calls -> Local] BY <1>1 DEF Crash, Typed
<1>3. slots' \in [Procs -> Int] /\ faults' \in Nat /\ faults' <= MaxFaults
  BY DEF Crash, Typed, Fault
<1>4. Typed' BY <1>2, <1>3 DEF Typed, Crash, state
<1>5. ASSUME NEW d \in Calls PROVE Fits(d)'
  <2>1. Fits(d) /\ now' = now /\ sent' = sent /\ applied' = applied BY DEF CallInv, Fits, Crash
  <2>2. CASE ctl'[d] = ctl[d] BY <2>1, <2>2, KeptFits
  <2>3. CASE ctl'[d] = [Fresh EXCEPT !.pc = "dead"]
    <3>1. ctl'[d].pc = "dead" /\ ctl'[d].verdict = "none" /\ ctl'[d].try = 0 BY <2>3 DEF Fresh
    <3> QED BY <2>1, <3>1 DEF Fits, Clocked, Tried, Truthful, IsWrite
  <2> QED BY <2>2, <2>3 DEF Crash
<1> QED BY <1>4, <1>5 DEF CallInv, Fits

LEMMA BaseStep == Typed /\ CallInv /\ [Next]_vars => Typed' /\ CallInv'
<1> SUFFICES ASSUME Typed, CallInv, [Next]_vars PROVE Typed' /\ CallInv' OBVIOUS
<1>1. CASE Tick BY <1>1, TickStep
<1>2. CASE UNCHANGED vars
  BY <1>2 DEF vars, state, Typed, CallInv, Clocked, Tried, Truthful, IsWrite
<1>3. ASSUME NEW c \in Calls, Start(c) \/ Cancel(c) \/ Proceed(c) PROVE Typed' /\ CallInv'
  BY <1>3, StartStep, CancelStep, TakeSlotStep, GiveUpStep, DenyStep, ReserveStep,
     ReserveUnreportedStep, AbandonPermitStep, SendStep, ReplyStep, RecordStep,
     RecordFailsStep, YieldStep, WakeStep DEF Proceed
<1>4. ASSUME NEW p \in Procs, Crash(p) PROVE Typed' /\ CallInv' BY <1>4, CrashStep
<1> QED BY <1>1, <1>2, <1>3, <1>4 DEF Next, Finished

Base == Typed /\ CallInv

LEMMA BaseInvariant == Spec => []Base
<1>1. Init => Base BY InitBase DEF Base
<1>2. Base /\ [Next]_vars => Base' BY BaseStep DEF Base
<1> QED BY <1>1, <1>2, PTL DEF Spec

(* No caller is told anything untrue: a call not attempted sent nothing, a  *)
(* write that succeeded was made, a write that failed was not, and no write *)
(* is sent twice.                                                           *)
THEOREM VerdictsSound == Spec => []VerdictSound
<1>1. Base => VerdictSound BY DEF Base, CallInv, Truthful, VerdictSound
<1> QED BY <1>1, BaseInvariant, PTL

-----------------------------------------------------------------------------
(* Slots.                                                                   *)

Occupied(c) == ctl[c].pc \in {"reserve", "permit", "sent"}
Occupants(p) == {c \in Calls : Home[c] = p /\ Occupied(c)}

SlotsInv == SlotsBalanced /\ \A p \in Procs : slots[p] <= SlotLimit

(* A finite number of calls occupies the slots of a process. *)
LEMMA OccupantsFinite ==
  ASSUME NEW p
  PROVE  IsFiniteSet(Occupants(p)) /\ Cardinality(Occupants(p)) \in Nat
<1>1. Occupants(p) \subseteq Calls BY DEF Occupants
<1> QED BY <1>1, FS_Subset, FS_CardinalityType

(* Every step leaves slots alone, takes one, returns one, or loses a process. *)
LEMMA SlotEffect ==
  ASSUME Base, [Next]_vars
  PROVE  \/ slots' = slots /\ \A d \in Calls : Occupied(d)' <=> Occupied(d)
         \/ \E c \in Calls : /\ slots[Home[c]] < SlotLimit /\ ~Occupied(c) /\ Occupied(c)'
                             /\ slots' = [slots EXCEPT ![Home[c]] = @ + 1]
                             /\ \A d \in Calls \ {c} : Occupied(d)' <=> Occupied(d)
         \/ \E c \in Calls : /\ Occupied(c) /\ ~Occupied(c)'
                             /\ slots' = [slots EXCEPT ![Home[c]] = @ - 1]
                             /\ \A d \in Calls \ {c} : Occupied(d)' <=> Occupied(d)
         \/ \E p \in Procs : /\ slots' = [slots EXCEPT ![p] = 0]
                             /\ \A d \in Calls : IF Home[d] = p THEN ~Occupied(d)'
                                                 ELSE Occupied(d)' <=> Occupied(d)
<1>0. Typed BY DEF Base
<1>1. CASE UNCHANGED vars BY <1>1 DEF vars, Occupied
<1>2. CASE Tick BY <1>2 DEF Tick, Occupied
<1>3. ASSUME NEW c \in Calls,
             Cancel(c) \/ Start(c) \/ GiveUp(c) \/ Send(c) \/ RecordFails(c) \/ Wake(c)
      PROVE  slots' = slots /\ \A d \in Calls : Occupied(d)' <=> Occupied(d)
  <2>1. CASE Cancel(c) BY <2>1 DEF Cancel, Occupied
  <2>2. CASE Start(c) BY <1>0, <2>2 DEF Start, At, Occupied, Typed
  <2>3. CASE GiveUp(c) BY <1>0, <2>3 DEF GiveUp, At, Occupied, Typed, Done, Fresh
  <2>4. CASE Send(c) BY <1>0, <2>4 DEF Send, At, Occupied, Typed, Local
  <2>5. CASE RecordFails(c) BY <1>0, <2>5 DEF RecordFails, At, Occupied, Typed, Done, Fresh
  <2>6. CASE Wake(c) BY <1>0, <2>6 DEF Wake, At, Occupied, Typed, Done, Fresh
  <2> QED BY <1>3, <2>1, <2>2, <2>3, <2>4, <2>5, <2>6
<1>4. ASSUME NEW c \in Calls, Record(c) \/ Yield(c)
      PROVE  slots' = slots /\ \A d \in Calls : Occupied(d)' <=> Occupied(d)
  <2>1. PICK local \in Local :
          /\ local.pc \in {"done", "sleep"} /\ ctl[c].pc \in {"record", "yield"} /\ slots' = slots
          /\ ctl' = Told(c, local) \/ ctl' = [ctl EXCEPT ![c] = local]
    <3>1. \A v \in Verdicts : Done(c, v) \in Local /\ Done(c, v).pc = "done"
      BY <1>0, DoneType DEF Done, Fresh
    <3>2. CASE Yield(c)
      <4>1. CanceledVerdict(c, ctl[c].try > 0) \in Verdicts BY DEF CanceledVerdict, Verdicts
      <4> QED BY <3>1, <3>2, <4>1 DEF Yield, At
    <3>3. CASE Record(c) /\ ctl' = Told(c, Done(c, IF c \in canceled THEN CanceledVerdict(c, TRUE) ELSE ctl[c].verdict))
      <4>1. (IF c \in canceled THEN CanceledVerdict(c, TRUE) ELSE ctl[c].verdict) \in Verdicts
        BY <1>0, VerdictType DEF Typed, Local
      <4> QED BY <3>1, <3>3, <4>1 DEF Record, At
    <3>4. CASE Record(c) /\ ctl' = Told(c, [Fresh EXCEPT !.pc = "sleep", !.try = ctl[c].try])
      <4>1. ctl[c].try \in Nat BY <1>0 DEF Typed, Local
      <4>2. /\ [Fresh EXCEPT !.pc = "sleep", !.try = ctl[c].try] \in Local
            /\ [Fresh EXCEPT !.pc = "sleep", !.try = ctl[c].try].pc = "sleep"
        BY <4>1, FreshType DEF Local, Steps
      <4> QED BY <3>4, <4>2 DEF Record, At
    <3> QED BY <1>4, <3>2, <3>3, <3>4 DEF Record
  <2>2. ASSUME NEW d \in Calls PROVE Occupied(d)' <=> Occupied(d)
    <3>1. CASE d = c
      <4>1. ctl'[c] = local BY <1>0, <2>1 DEF Told, Typed
      <4> QED BY <2>1, <3>1, <4>1 DEF Occupied
    <3>2. CASE d # c
      <4>1. ctl'[d] = ctl[d] \/ ctl'[d] = [ctl[d] EXCEPT !.news = @ \cup Tidings(c)]
        BY <1>0, <2>1, <3>2 DEF Told, Typed
      <4>2. ctl[d] \in Local BY <1>0 DEF Typed
      <4> QED BY <4>1, <4>2 DEF Occupied, Local
    <3> QED BY <3>1, <3>2
  <2> QED BY <2>1, <2>2
<1>5. ASSUME NEW c \in Calls, TakeSlot(c)
      PROVE  /\ slots[Home[c]] < SlotLimit /\ ~Occupied(c) /\ Occupied(c)'
             /\ slots' = [slots EXCEPT ![Home[c]] = @ + 1]
             /\ \A d \in Calls \ {c} : Occupied(d)' <=> Occupied(d)
  BY <1>0, <1>5 DEF TakeSlot, At, Occupied, Typed, Local
<1>6. ASSUME NEW c \in Calls, Reserve(c)
      PROVE  slots' = slots /\ \A d \in Calls : Occupied(d)' <=> Occupied(d)
  BY <1>0, <1>6 DEF Reserve, At, Occupied, Typed, Local
<1>7. ASSUME NEW c \in Calls, Deny(c) \/ ReserveUnreported(c) \/ AbandonPermit(c) \/ Reply(c)
      PROVE  /\ Occupied(c) /\ ~Occupied(c)'
             /\ slots' = [slots EXCEPT ![Home[c]] = @ - 1]
             /\ \A d \in Calls \ {c} : Occupied(d)' <=> Occupied(d)
  <2>1. CASE Deny(c) BY <1>0, <2>1 DEF Deny, At, Occupied, Typed, Release, Done, Fresh
  <2>2. CASE ReserveUnreported(c)
    BY <1>0, <2>2 DEF ReserveUnreported, At, Occupied, Typed, Release, Done, Fresh
  <2>3. CASE AbandonPermit(c) BY <1>0, <2>3 DEF AbandonPermit, At, Occupied, Typed, Release, Local
  <2>4. CASE Reply(c)
    <3>1. PICK local \in Local : ctl' = [ctl EXCEPT ![c] = local] /\ local.pc = "record"
      BY <1>0, <2>4, ReplyFacts
    <3> QED BY <1>0, <2>4, <3>1 DEF Reply, At, Occupied, Typed, Release
  <2> QED BY <1>7, <2>1, <2>2, <2>3, <2>4
<1>8. ASSUME NEW p \in Procs, Crash(p)
      PROVE  /\ slots' = [slots EXCEPT ![p] = 0]
             /\ \A d \in Calls : IF Home[d] = p THEN ~Occupied(d)' ELSE Occupied(d)' <=> Occupied(d)
  BY <1>0, <1>8 DEF Crash, Occupied, Typed, Fresh
<1> QED BY <1>1, <1>2, <1>3, <1>4, <1>5, <1>6, <1>7, <1>8 DEF Next, Proceed, Finished

LEMMA SlotsInit == Init => SlotsInv
<1> SUFFICES ASSUME Init PROVE SlotsInv OBVIOUS
<1>1. ASSUME NEW p \in Procs PROVE slots[p] = Cardinality(Occupants(p)) /\ slots[p] <= SlotLimit
  <2>1. Occupants(p) = {} BY DEF Init, Occupants, Occupied, Fresh
  <2> QED BY <2>1, FS_EmptySet DEF Init
<1> QED BY <1>1 DEF SlotsInv, SlotsBalanced, Occupants, Occupied

LEMMA SlotsStep == Base /\ SlotsInv /\ [Next]_vars => SlotsInv'
<1> SUFFICES ASSUME Base, SlotsInv, [Next]_vars,
                    NEW p \in Procs
             PROVE  slots'[p] = Cardinality(Occupants(p)') /\ slots'[p] <= SlotLimit
  BY DEF SlotsInv, SlotsBalanced, Occupants, Occupied
<1>0. /\ slots \in [Procs -> Int] /\ slots[p] = Cardinality(Occupants(p)) /\ slots[p] <= SlotLimit
      /\ IsFiniteSet(Occupants(p)) /\ Cardinality(Occupants(p)) \in Nat
  BY OccupantsFinite DEF Base, Typed, SlotsInv, SlotsBalanced, Occupants, Occupied
<1>1. CASE slots' = slots /\ \A d \in Calls : Occupied(d)' <=> Occupied(d)
  <2>1. Occupants(p)' = Occupants(p) BY <1>1 DEF Occupants
  <2> QED BY <1>0, <1>1, <2>1
<1>2. ASSUME NEW c \in Calls, slots[Home[c]] < SlotLimit, ~Occupied(c), Occupied(c)',
             slots' = [slots EXCEPT ![Home[c]] = @ + 1],
             \A d \in Calls \ {c} : Occupied(d)' <=> Occupied(d)
      PROVE  slots'[p] = Cardinality(Occupants(p)') /\ slots'[p] <= SlotLimit
  <2>1. CASE Home[c] # p
    <3>1. Occupants(p)' = Occupants(p) BY <1>2, <2>1 DEF Occupants
    <3>2. slots'[p] = slots[p] BY <1>0, <1>2, <2>1, HomeType
    <3> QED BY <1>0, <3>1, <3>2
  <2>2. CASE Home[c] = p
    <3>1. Occupants(p)' = Occupants(p) \cup {c} /\ c \notin Occupants(p) BY <1>2, <2>2 DEF Occupants
    <3>2. Cardinality(Occupants(p) \cup {c}) = Cardinality(Occupants(p)) + 1
      BY <1>0, <3>1, FS_AddElement
    <3>3. slots'[p] = slots[p] + 1 BY <1>0, <1>2, <2>2, HomeType
    <3> QED BY <1>0, <1>2, <2>2, <3>1, <3>2, <3>3
  <2> QED BY <2>1, <2>2
<1>3. ASSUME NEW c \in Calls, Occupied(c), ~Occupied(c)',
             slots' = [slots EXCEPT ![Home[c]] = @ - 1],
             \A d \in Calls \ {c} : Occupied(d)' <=> Occupied(d)
      PROVE  slots'[p] = Cardinality(Occupants(p)') /\ slots'[p] <= SlotLimit
  <2>1. CASE Home[c] # p
    <3>1. Occupants(p)' = Occupants(p) BY <1>3, <2>1 DEF Occupants
    <3>2. slots'[p] = slots[p] BY <1>0, <1>3, <2>1, HomeType
    <3> QED BY <1>0, <3>1, <3>2
  <2>2. CASE Home[c] = p
    <3>1. Occupants(p)' = Occupants(p) \ {c} /\ c \in Occupants(p) BY <1>3, <2>2 DEF Occupants
    <3>2. Cardinality(Occupants(p) \ {c}) = Cardinality(Occupants(p)) - 1
      BY <1>0, <3>1, FS_RemoveElement
    <3>3. slots'[p] = slots[p] - 1 BY <1>0, <1>3, <2>2, HomeType
    <3> QED BY <1>0, <3>1, <3>2, <3>3
  <2> QED BY <2>1, <2>2
<1>4. ASSUME NEW q \in Procs, slots' = [slots EXCEPT ![q] = 0],
             \A d \in Calls : IF Home[d] = q THEN ~Occupied(d)' ELSE Occupied(d)' <=> Occupied(d)
      PROVE  slots'[p] = Cardinality(Occupants(p)') /\ slots'[p] <= SlotLimit
  <2>1. CASE q # p
    <3>1. Occupants(p)' = Occupants(p) BY <1>4, <2>1 DEF Occupants
    <3> QED BY <1>0, <1>4, <2>1, <3>1
  <2>2. CASE q = p
    <3>1. Occupants(p)' = {} BY <1>4, <2>2 DEF Occupants
    <3>2. slots'[p] = 0 BY <1>0, <1>4, <2>2
    <3> QED BY <3>1, <3>2, FS_EmptySet
  <2> QED BY <2>1, <2>2
<1> QED BY <1>1, <1>2, <1>3, <1>4, SlotEffect

LEMMA SlotsInvariant == Spec => []SlotsInv
<1> QED BY SlotsInit, SlotsStep, BaseInvariant, PTL DEF Spec

(* A request slot is held by exactly one call that is between taking and    *)
(* returning it: no refusal, cancellation, error or answer leaks one or     *)
(* returns one twice.                                                       *)
THEOREM SlotsNeverLeak == Spec => []SlotsBalanced
<1>1. SlotsInv => SlotsBalanced BY DEF SlotsInv
<1> QED BY <1>1, SlotsInvariant, PTL

(* Every variable has its type, attempts and slots stay within their bounds. *)
THEOREM TypeCorrect == Spec => []TypeOK
<1>1. Base /\ SlotsInv => TypeOK
  <2> SUFFICES ASSUME Base, SlotsInv PROVE TypeOK OBVIOUS
  <2>1. slots \in [Procs -> 0 .. SlotLimit]
    <3>1. ASSUME NEW p \in Procs PROVE slots[p] \in 0 .. SlotLimit
      <4>1. slots[p] = Cardinality(Occupants(p)) /\ slots[p] <= SlotLimit
        BY DEF SlotsInv, SlotsBalanced, Occupants, Occupied
      <4> QED BY <4>1, OccupantsFinite
    <3> QED BY <3>1 DEF Base, Typed
  <2>2. sent \in [Calls -> 0 .. Attempts]
    <3>1. \A c \in Calls : sent[c] \in 0 .. Attempts BY DEF Base, Typed, CallInv, Tried
    <3> QED BY <3>1 DEF Base, Typed
  <2> QED BY <2>1, <2>2 DEF Base, Typed, TypeOK
<1> QED BY <1>1, BaseInvariant, SlotsInvariant, PTL

-----------------------------------------------------------------------------
(* The circuit over time.                                                   *)

(* What recording does to a circuit: recovery needs a permit of the current *)
(* epoch, and everything else that matters starts a new epoch.              *)
LEMMA CompleteFacts ==
  ASSUME NEW s \in Circuit, NEW p \in Permit, NEW o \in Outcome, NEW n \in Nat,
         s.floor <= s.epoch, p.epoch <= s.epoch,
         s.open # 0 => p.epoch < s.epoch
  PROVE  LET t == Complete(s, p, o, n)
         IN  /\ t \in Circuit /\ t.epoch >= s.epoch /\ t.floor >= s.floor /\ t.floor <= t.epoch
             /\ t.failures > s.failures => t.epoch > s.epoch /\ p.epoch >= s.floor
             /\ \/ t = s
                \/ t.epoch > s.epoch /\ s.open = 0 /\ t.floor = s.floor /\ t.failures >= s.failures
                \/ /\ t.epoch = s.epoch /\ p.epoch = s.epoch /\ t.open = 0 /\ t.lease = 0
                   /\ t.failures = 0 /\ t.floor \in {s.floor, p.epoch}
             /\ p.probe /\ o = "healthy" /\ ~Outdated(s, p) => t.floor = p.epoch /\ p.epoch = s.epoch
             /\ t.open \in {s.open, 0, n + Cooldown} /\ t.lease \in {s.lease, 0}
             /\ t.epoch > s.epoch /\ s.lease # 0 => p.probe /\ p.epoch = s.epoch
<1> DEFINE t == Complete(s, p, o, n)
<1>1. /\ s.failures \in Nat /\ s.epoch \in Nat /\ s.floor \in Nat /\ s.open \in Nat /\ s.lease \in Nat
      /\ p.epoch \in Nat /\ p.probe \in BOOLEAN /\ t \in Circuit
  BY Fields, CompleteType DEF Permit
<1>2. CASE Outdated(s, p)
  <2>1. t = s BY <1>2 DEF Complete
  <2> QED BY <1>1, <1>2, <2>1
<1>3. CASE ~Outdated(s, p) /\ o = "neutral"
  <2>1. t = Canceled(s, p, n) BY <1>3 DEF Complete
  <2>2. CASE ~p.probe
    <3>1. t = s BY <2>1, <2>2 DEF Canceled
    <3> QED BY <1>1, <1>3, <3>1
  <2>3. CASE p.probe
    <3>1. p.epoch = s.epoch /\ s.open = 0 BY <1>1, <1>3, <2>3 DEF Outdated
    <3>2. t = [s EXCEPT !.epoch = @ + 1, !.open = n + Cooldown, !.lease = 0]
      BY <2>1, <2>3 DEF Canceled
    <3>3. /\ t.epoch = s.epoch + 1 /\ t.open = n + Cooldown /\ t.lease = 0
          /\ t.floor = s.floor /\ t.failures = s.failures
      BY <3>2 DEF Circuit
    <3> QED BY <1>1, <1>3, <2>3, <3>1, <3>3
  <2> QED BY <2>2, <2>3
<1>4. CASE ~Outdated(s, p) /\ o = "healthy"
  <2>1. t = Healed(s, p) BY <1>4 DEF Complete
  <2>2. CASE p.epoch # s.epoch
    <3>1. t = s BY <2>1, <2>2 DEF Healed
    <3>2. ~p.probe BY <1>4, <2>2 DEF Outdated
    <3> QED BY <1>1, <1>4, <3>1, <3>2
  <2>3. CASE p.epoch = s.epoch
    <3>1. t = [s EXCEPT !.failures = 0, !.open = 0, !.lease = 0,
                        !.floor = IF p.probe THEN p.epoch ELSE @]
      BY <2>1, <2>3 DEF Healed
    <3>2. /\ t.epoch = s.epoch /\ t.open = 0 /\ t.lease = 0 /\ t.failures = 0
          /\ t.floor = IF p.probe THEN p.epoch ELSE s.floor
      BY <3>1 DEF Circuit
    <3> QED BY <1>1, <1>4, <2>3, <3>2
  <2> QED BY <2>2, <2>3
<1>5. CASE ~Outdated(s, p) /\ o = "transient"
  <2>1. t = Failed(s, p, n) BY <1>5 DEF Complete
  <2>2. CASE ~p.probe /\ Probes(s)
    <3>1. t = s BY <2>1, <2>2 DEF Failed
    <3> QED BY <1>1, <1>5, <3>1
  <2>3. CASE ~(~p.probe /\ Probes(s))
    <3>1. s.open = 0 /\ p.epoch >= s.floor BY <1>1, <1>5, <2>3 DEF Outdated, Probes
    <3>2. \/ t = [s EXCEPT !.epoch = @ + 1, !.failures = @ + 1, !.open = n + Cooldown, !.lease = 0]
          \/ t = [s EXCEPT !.epoch = @ + 1, !.failures = @ + 1]
      BY <2>1, <2>3 DEF Failed
    <3>3. /\ t.epoch = s.epoch + 1 /\ t.failures = s.failures + 1 /\ t.floor = s.floor
          /\ t.open \in {s.open, n + Cooldown} /\ t.lease \in {s.lease, 0}
      BY <3>2 DEF Circuit
    <3>4. s.lease # 0 => p.probe /\ p.epoch = s.epoch
      BY <1>1, <1>5, <2>3 DEF Outdated, Probes
    <3> QED BY <1>1, <1>5, <3>1, <3>3, <3>4
  <2> QED BY <2>2, <2>3
<1> QED BY <1>2, <1>3, <1>4, <1>5 DEF Outcome

(* A named delay only lengthens an outage, and starts a new epoch. *)
LEMMA DeferFacts ==
  ASSUME NEW s \in Circuit, NEW h \in Nat, NEW n \in Nat
  PROVE  LET t == Defer(s, h, n)
         IN  /\ t \in Circuit /\ t.floor = s.floor /\ t.failures = s.failures
             /\ t.open >= s.open /\ t.open \in {s.open, h} /\ t.lease \in {s.lease, 0}
             /\ h > n => t.epoch = s.epoch + 1
             /\ ~(h > n) => t = s
<1> DEFINE t == Defer(s, h, n)
<1>1. /\ s.failures \in Nat /\ s.epoch \in Nat /\ s.floor \in Nat /\ s.open \in Nat /\ s.lease \in Nat
      /\ t \in Circuit
  BY Fields, DeferType
<1>2. CASE ~(h > n)
  <2>1. t = s BY <1>2 DEF Defer
  <2> QED BY <1>1, <1>2, <2>1
<1>3. CASE h > n
  <2>1. t = [s EXCEPT !.epoch = @ + 1, !.open = Later(@, h), !.lease = 0] BY <1>3 DEF Defer
  <2>2. /\ t.epoch = s.epoch + 1 /\ t.open = Later(s.open, h) /\ t.lease = 0
        /\ t.floor = s.floor /\ t.failures = s.failures
    BY <2>1 DEF Circuit
  <2>3. Later(s.open, h) \in {s.open, h} /\ Later(s.open, h) >= s.open BY <1>1 DEF Later
  <2> QED BY <1>1, <1>3, <2>2, <2>3
<1> QED BY <1>2, <1>3

(* Admission leaves a closed circuit alone and gives out a lease otherwise. *)
LEMMA AdmitFacts ==
  ASSUME NEW s \in Circuit, NEW n \in Nat
  PROVE  LET t == Admit(s, n)
         IN  /\ t \in Circuit /\ PermitOf(s, n) \in Permit
             /\ PermitOf(s, n).epoch = t.epoch /\ PermitOf(s, n).probe = Probes(s)
             /\ ~Probes(s) => t = s /\ s.open = 0 /\ s.lease = 0
             /\ Probes(s) => /\ t.epoch = s.epoch + 1 /\ t.open = 0 /\ t.lease = n + Lease
                             /\ t.floor = s.floor /\ t.failures = s.failures
<1> DEFINE t == Admit(s, n)
<1>1. t \in Circuit /\ PermitOf(s, n) \in Permit BY AdmitType
<1>2. PermitOf(s, n).epoch = t.epoch /\ PermitOf(s, n).probe = Probes(s) BY DEF PermitOf
<1>3. ~Probes(s) => t = s /\ s.open = 0 /\ s.lease = 0 BY DEF Admit, Probes
<1>4. ASSUME Probes(s)
      PROVE  /\ t.epoch = s.epoch + 1 /\ t.open = 0 /\ t.lease = n + Lease
             /\ t.floor = s.floor /\ t.failures = s.failures
  <2>1. t = [s EXCEPT !.epoch = @ + 1, !.open = 0, !.lease = n + Lease] BY <1>4 DEF Admit
  <2> QED BY <2>1 DEF Circuit
<1> QED BY <1>1, <1>2, <1>3, <1>4

(* What an attempt in flight carries. *)
SameAttempt(d) == /\ InFlight(d)' => InFlight(d)
                  /\ InFlight(d)' => ctl'[d].permit = ctl[d].permit /\ ctl'[d].news = ctl[d].news

AdmitStep(c) == /\ ctl[c].pc = "reserve" /\ ~Refused(c, ctl[c].at) /\ cooldown' = cooldown
                /\ circuits' = [circuits EXCEPT ![Family[c]] = Admit(@, ctl[c].at)]
                /\ \A d \in Calls \ {c} : ctl'[d] = ctl[d]
                /\ InFlight(c)' => /\ ctl'[c].permit = PermitOf(circuits[Family[c]], ctl[c].at)
                                   /\ ctl'[c].news = {}

CompleteStep(c) ==
  /\ ctl[c].pc \in {"record", "yield"} /\ Recorded(c) /\ ~InFlight(c)'
  /\ \A d \in Calls \ {c} :
       ctl'[d] = IF Family[d] = Family[c] /\ InFlight(d)
                 THEN [ctl[d] EXCEPT !.news = @ \cup Tidings(c)] ELSE ctl[d]

QuietStep == /\ circuits' = circuits /\ cooldown' = cooldown
             /\ \A d \in Calls : SameAttempt(d)

(* A step admits an attempt, completes one, or leaves the circuits alone. *)
LEMMA CircuitEffect ==
  ASSUME Base, [Next]_vars
  PROVE  QuietStep \/ \E c \in Calls : AdmitStep(c) \/ CompleteStep(c)
<1>0. Typed BY DEF Base
<1>1. CASE UNCHANGED vars BY <1>1 DEF vars, state, QuietStep, SameAttempt, InFlight
<1>2. CASE Tick BY <1>2 DEF Tick, state, QuietStep, SameAttempt, InFlight
<1>3. ASSUME NEW c \in Calls, NEW local, ctl' = [ctl EXCEPT ![c] = local], UNCHANGED state,
             local.pc \notin {"permit", "sent", "record", "yield"}
      PROVE  QuietStep
  BY <1>0, <1>3 DEF QuietStep, SameAttempt, InFlight, state, Typed
<1>4. ASSUME NEW c \in Calls, NEW local, ctl' = [ctl EXCEPT ![c] = local], UNCHANGED state,
             InFlight(c), local.permit = ctl[c].permit, local.news = ctl[c].news
      PROVE  QuietStep
  <2>1. ctl'[c] = local /\ \A d \in Calls \ {c} : ctl'[d] = ctl[d] BY <1>0, <1>4 DEF Typed
  <2>2. SameAttempt(c) BY <1>4, <2>1 DEF SameAttempt
  <2>3. \A d \in Calls \ {c} : SameAttempt(d) BY <2>1 DEF SameAttempt, InFlight
  <2> QED BY <1>4, <2>2, <2>3 DEF QuietStep, state
<1>5. \A v : \A c \in Calls : Done(c, v).pc = "done" BY DEF Done, Fresh
<1>6. ASSUME NEW c \in Calls,
             Cancel(c) \/ Start(c) \/ TakeSlot(c) \/ GiveUp(c) \/ Deny(c) \/ RecordFails(c) \/ Wake(c)
      PROVE  QuietStep
  <2>1. CASE Cancel(c) BY <2>1 DEF Cancel, state, QuietStep, SameAttempt, InFlight
  <2>2. CASE Start(c)
    <3>1. [ctl[c] EXCEPT !.pc = "select"].pc = "select" BY <1>0 DEF Typed, Local
    <3> QED BY <1>3, <2>2, <3>1 DEF Start
  <2>3. CASE TakeSlot(c)
    <3> DEFINE local == [ctl[c] EXCEPT !.pc = "reserve", !.at = now]
    <3>1. local.pc = "reserve" BY <1>0 DEF Typed, Local
    <3>2. ctl' = [ctl EXCEPT ![c] = local] /\ UNCHANGED state BY <2>3 DEF TakeSlot
    <3> HIDE DEF local
    <3> QED BY <1>3, <3>1, <3>2
  <2>4. CASE GiveUp(c) BY <1>3, <1>5, <2>4 DEF GiveUp
  <2>5. CASE Deny(c) BY <1>3, <1>5, <2>5 DEF Deny
  <2>6. CASE RecordFails(c) BY <1>3, <1>5, <2>6 DEF RecordFails
  <2>7. CASE Wake(c)
    <3>1. [ctl[c] EXCEPT !.pc = "select", !.try = @ + 1].pc = "select" BY <1>0 DEF Typed, Local
    <3>2. ctl' = [ctl EXCEPT ![c] = Done(c, "error")]
            \/ ctl' = [ctl EXCEPT ![c] = [ctl[c] EXCEPT !.pc = "select", !.try = @ + 1]]
      BY <2>7 DEF Wake
    <3> QED BY <1>3, <1>5, <2>7, <3>1, <3>2 DEF Wake
  <2> QED BY <1>6, <2>1, <2>2, <2>3, <2>4, <2>5, <2>6, <2>7
<1>7. ASSUME NEW c \in Calls, AbandonPermit(c) \/ Send(c) \/ Reply(c) PROVE QuietStep
  <2>1. ctl[c] \in Local BY <1>0 DEF Typed
  <2>2. CASE AbandonPermit(c)
    <3> DEFINE local == [ctl[c] EXCEPT !.pc = "yield", !.at = now, !.outcome = "neutral"]
    <3>1. local.permit = ctl[c].permit /\ local.news = ctl[c].news BY <2>1 DEF Local
    <3>2. ctl' = [ctl EXCEPT ![c] = local] /\ UNCHANGED state /\ InFlight(c)
      BY <2>2 DEF AbandonPermit, At, InFlight
    <3> QED BY <1>4, <3>1, <3>2
  <2>3. CASE Send(c)
    <3> DEFINE local == [ctl[c] EXCEPT !.pc = "sent", !.at = now]
    <3>1. local.permit = ctl[c].permit /\ local.news = ctl[c].news BY <2>1 DEF Local
    <3>2. ctl' = [ctl EXCEPT ![c] = local] /\ UNCHANGED state /\ InFlight(c)
      BY <2>3 DEF Send, At, InFlight
    <3> QED BY <1>4, <3>1, <3>2
  <2>4. CASE Reply(c)
    <3>1. PICK local \in Local : /\ ctl' = [ctl EXCEPT ![c] = local]
                                 /\ local.permit = ctl[c].permit /\ local.news = ctl[c].news
      BY <1>0, <2>4, ReplyFacts
    <3>2. UNCHANGED state /\ InFlight(c) BY <2>4 DEF Reply, At, InFlight
    <3> QED BY <1>4, <3>1, <3>2
  <2> QED BY <1>7, <2>2, <2>3, <2>4
<1>8. ASSUME NEW c \in Calls, Reserve(c) PROVE AdmitStep(c)
  <2> DEFINE permit == PermitOf(circuits[Family[c]], ctl[c].at)
             local == [ctl[c] EXCEPT !.pc = "permit", !.news = {}, !.permit = permit]
  <2>1. ctl' = [ctl EXCEPT ![c] = local] BY <1>8 DEF Reserve
  <2>2. ctl[c] \in Local BY <1>0 DEF Typed
  <2>3. local.permit = permit /\ local.news = {} BY <2>2 DEF Local
  <2>4. ctl'[c] = local /\ \A d \in Calls \ {c} : ctl'[d] = ctl[d] BY <1>0, <2>1 DEF Typed
  <2>6. /\ ctl[c].pc = "reserve" /\ ~Refused(c, ctl[c].at) /\ cooldown' = cooldown
        /\ circuits' = [circuits EXCEPT ![Family[c]] = Admit(@, ctl[c].at)]
    BY <1>8 DEF Reserve, At, Admitted
  <2> QED BY <2>3, <2>4, <2>6 DEF AdmitStep
<1>9. ASSUME NEW c \in Calls, ReserveUnreported(c) PROVE AdmitStep(c)
  <2>1. PICK v : ctl' = [ctl EXCEPT ![c] = Done(c, v)] BY <1>9 DEF ReserveUnreported
  <2>2. ctl'[c].pc = "done" /\ \A d \in Calls \ {c} : ctl'[d] = ctl[d] BY <1>0, <1>5, <2>1 DEF Typed
  <2>3. ~InFlight(c)' BY <2>2 DEF InFlight
  <2> QED BY <1>9, <2>2, <2>3 DEF ReserveUnreported, At, Admitted, AdmitStep
<1>10. ASSUME NEW c \in Calls, NEW local, local.pc \in {"done", "sleep"}, ctl' = Told(c, local),
              ctl[c].pc \in {"record", "yield"}, Recorded(c)
       PROVE  CompleteStep(c)
  BY <1>10 DEF Told, CompleteStep, InFlight
<1>11. ASSUME NEW c \in Calls, Record(c) PROVE CompleteStep(c)
  <2> DEFINE asleep == [Fresh EXCEPT !.pc = "sleep", !.try = ctl[c].try]
             ended == Done(c, IF c \in canceled THEN CanceledVerdict(c, TRUE) ELSE ctl[c].verdict)
  <2>1. asleep.pc = "sleep" /\ ended.pc = "done" BY <1>5 DEF Fresh
  <2>2. /\ ctl' = Told(c, ended) \/ ctl' = Told(c, asleep)
        /\ ctl[c].pc = "record" /\ Recorded(c)
    BY <1>11 DEF Record, At
  <2> HIDE DEF asleep, ended
  <2> QED BY <1>10, <2>1, <2>2
<1>12. ASSUME NEW c \in Calls, Yield(c) PROVE CompleteStep(c) \/ QuietStep
  <2> DEFINE local == Done(c, CanceledVerdict(c, ctl[c].try > 0))
  <2>1. \/ Recorded(c) /\ ctl' = Told(c, local)
        \/ ctl' = [ctl EXCEPT ![c] = local] /\ UNCHANGED state
    BY <1>12 DEF Yield
  <2>2. local.pc = "done" /\ ctl[c].pc = "yield" BY <1>5, <1>12 DEF Yield, At
  <2> HIDE DEF local
  <2> QED BY <1>3, <1>10, <2>1, <2>2
<1>13. ASSUME NEW p \in Procs, Crash(p) PROVE QuietStep
  <2>1. [Fresh EXCEPT !.pc = "dead"].pc = "dead" BY DEF Fresh
  <2> QED BY <1>0, <1>13, <2>1 DEF Crash, state, QuietStep, SameAttempt, InFlight, Typed
<1> QED BY <1>1, <1>2, <1>6, <1>7, <1>8, <1>9, <1>11, <1>12, <1>13 DEF Next, Proceed, Finished

(***************************************************************************)
(* Where the attempts in flight stand to the circuit of their family.      *)
(* Every failure, outage and probe starts a new epoch, so an attempt with  *)
(* the current epoch has missed nothing, a probe with the current epoch is *)
(* the only attempt with it, and what was admitted before the last         *)
(* recovery lies below the floor.                                          *)
(***************************************************************************)
Placed(c) ==
  LET s == circuits[Family[c]]
      p == ctl[c].permit
  IN  /\ p.epoch <= s.epoch
      /\ s.open # 0 => p.epoch < s.epoch
      /\ p.probe /\ p.epoch = s.epoch => s.lease # 0
      /\ "failure" \in ctl[c].news => p.epoch < s.epoch
      /\ "recovery" \in ctl[c].news => p.epoch < s.floor

Alone(c, d) ==
  Family[d] = Family[c] /\ ctl[c].permit.probe /\ ctl[c].permit.epoch = circuits[Family[c]].epoch
  => ctl[d].permit.epoch < ctl[c].permit.epoch

EpochInv ==
  /\ \A f \in Families : circuits[f].floor <= circuits[f].epoch
  /\ \A c \in Calls : InFlight(c) => Placed(c)
  /\ \A c, d \in Calls : c # d /\ InFlight(c) /\ InFlight(d) => Alone(c, d)

LEMMA EpochInit == Init => EpochInv
BY DEF Init, EpochInv, InFlight, Fresh, Closed

(* The types used below, for one call. *)
LEMMA CallTypes ==
  ASSUME Typed, NEW c \in Calls
  PROVE  /\ Family[c] \in Families /\ circuits[Family[c]] \in Circuit
         /\ ctl[c].permit \in Permit /\ ctl[c].permit.epoch \in Nat /\ ctl[c].permit.probe \in BOOLEAN
         /\ ctl[c].outcome \in Outcome /\ ctl[c].at \in Nat /\ ctl[c].hint \in Nat
         /\ circuits[Family[c]].epoch \in Nat /\ circuits[Family[c]].floor \in Nat
         /\ circuits[Family[c]].open \in Nat /\ circuits[Family[c]].lease \in Nat
         /\ circuits[Family[c]].failures \in Nat
<1>1. ctl[c] \in Local /\ Family[c] \in Families /\ circuits[Family[c]] \in Circuit
  BY HomeType DEF Typed
<1> QED BY <1>1, Fields DEF Local, Permit

LEMMA QuietEpochs == ASSUME Typed, EpochInv, QuietStep PROVE EpochInv'
<1>1. \A f \in Families : circuits'[f].floor <= circuits'[f].epoch BY DEF EpochInv, QuietStep
<1>2. ASSUME NEW c \in Calls, InFlight(c)' PROVE Placed(c)'
  <2>1. InFlight(c) /\ ctl'[c].permit = ctl[c].permit /\ ctl'[c].news = ctl[c].news
    BY <1>2 DEF QuietStep, SameAttempt
  <2> QED BY <2>1 DEF EpochInv, Placed, QuietStep
<1>3. ASSUME NEW c \in Calls, NEW d \in Calls, c # d, InFlight(c)', InFlight(d)' PROVE Alone(c, d)'
  <2>1. /\ InFlight(c) /\ ctl'[c].permit = ctl[c].permit
        /\ InFlight(d) /\ ctl'[d].permit = ctl[d].permit
    BY <1>3 DEF QuietStep, SameAttempt
  <2>2. Alone(c, d) BY <1>3, <2>1 DEF EpochInv
  <2> QED BY <2>1, <2>2 DEF Alone, QuietStep
<1> QED BY <1>1, <1>2, <1>3 DEF EpochInv

LEMMA AdmitEpochs == ASSUME Typed, EpochInv, NEW c \in Calls, AdmitStep(c) PROVE EpochInv'
<1> DEFINE f == Family[c]
           s == circuits[f]
           t == Admit(s, ctl[c].at)
           permit == PermitOf(s, ctl[c].at)
<1>1. /\ f \in Families /\ s \in Circuit /\ ctl[c].at \in Nat
      /\ s.epoch \in Nat /\ s.floor \in Nat /\ s.floor <= s.epoch /\ s.lease \in Nat
  BY CallTypes DEF EpochInv
<1>2. /\ circuits'[f] = t /\ \A g \in Families \ {f} : circuits'[g] = circuits[g]
      /\ \A d \in Calls \ {c} : ctl'[d] = ctl[d]
      /\ InFlight(c)' => ctl'[c].permit = permit /\ ctl'[c].news = {}
  BY <1>1 DEF AdmitStep, Typed
<1>3. /\ permit.epoch = t.epoch /\ permit.probe = Probes(s)
      /\ ~Probes(s) => t = s /\ s.open = 0 /\ s.lease = 0
      /\ Probes(s) => /\ t.epoch = s.epoch + 1 /\ t.open = 0 /\ t.lease = ctl[c].at + Lease
                      /\ t.floor = s.floor
  <2>1. s \in Circuit /\ ctl[c].at \in Nat BY <1>1
  <2> HIDE DEF s
  <2> QED BY <2>1, AdmitFacts
<1>4. ctl[c].at + Lease # 0 BY <1>1
<1> HIDE DEF s, t, permit
<1>5. \A g \in Families : circuits'[g].floor <= circuits'[g].epoch
  BY <1>1, <1>2, <1>3 DEF EpochInv
<1>6. ASSUME NEW d \in Calls, InFlight(d)' PROVE Placed(d)'
  <2>1. CASE d = c BY <1>1, <1>2, <1>3, <1>4, <1>6, <2>1 DEF Placed
  <2>2. CASE d # c
    <3>1. ctl'[d] = ctl[d] /\ Placed(d) BY <1>2, <1>6, <2>2 DEF EpochInv, InFlight
    <3>2. CASE Family[d] # f BY <1>2, <3>1, <3>2, CallTypes DEF Placed
    <3>3. CASE Family[d] = f
      BY <1>1, <1>2, <1>3, <3>1, <3>3, CallTypes DEF Placed, s
    <3> QED BY <3>2, <3>3
  <2> QED BY <2>1, <2>2
<1>7. ASSUME NEW d \in Calls, NEW e \in Calls, d # e, InFlight(d)', InFlight(e)' PROVE Alone(d, e)'
  <2>1. CASE d # c /\ e # c
    <3>1. ctl'[d] = ctl[d] /\ ctl'[e] = ctl[e] /\ Alone(d, e) /\ Placed(d)
      BY <1>2, <1>7, <2>1 DEF EpochInv, InFlight
    <3> QED BY <1>1, <1>2, <1>3, <3>1, CallTypes DEF Alone, Placed, s
  <2>2. CASE d # c /\ e = c
    <3>1. ctl'[d] = ctl[d] /\ Placed(d) BY <1>2, <1>7, <2>2 DEF EpochInv, InFlight
    <3> QED BY <1>1, <1>2, <1>3, <1>7, <2>2, <3>1, CallTypes DEF Alone, Placed, s
  <2>3. CASE d = c
    <3>1. ctl'[e] = ctl[e] /\ Placed(e) BY <1>2, <1>7, <2>3 DEF EpochInv, InFlight
    <3> QED BY <1>1, <1>2, <1>3, <1>7, <2>3, <3>1, CallTypes DEF Alone, Placed, s
  <2> QED BY <2>1, <2>2, <2>3
<1> QED BY <1>5, <1>6, <1>7 DEF EpochInv

(* What completing an attempt does to the circuit of its family, once the   *)
(* delay the provider named has been added.                                 *)
LEMMA CompletedFacts ==
  ASSUME Typed, EpochInv, NEW c \in Calls, CompleteStep(c)
  PROVE  LET s == circuits[Family[c]]
             t == circuits'[Family[c]]
             p == ctl[c].permit
         IN  /\ t \in Circuit /\ t.epoch >= s.epoch /\ t.floor >= s.floor /\ t.floor <= t.epoch
             /\ "failure" \in Tidings(c) => t.epoch > s.epoch
             /\ "recovery" \in Tidings(c) => p.epoch = s.epoch /\ t.floor = s.epoch
             /\ \/ t = s
                \/ t.epoch > s.epoch /\ t.floor \in {s.floor, p.epoch}
                   /\ (s.open # 0 => t.open >= s.open /\ t.failures >= s.failures)
                   /\ (p.epoch < s.epoch => t.failures >= s.failures /\ (t.open = 0 => s.open = 0))
                \/ t.epoch = s.epoch /\ p.epoch = s.epoch /\ s.open = 0 /\ t.open = 0 /\ t.lease = 0
             /\ p.epoch < s.floor => t.failures <= s.failures
             /\ t.open \in {s.open, 0, ctl[c].at + Cooldown, ctl[c].hint} /\ t.lease \in {s.lease, 0}
             /\ t.epoch > s.epoch /\ s.lease # 0 /\ ~(ctl[c].hint > ctl[c].at) => p.probe /\ p.epoch = s.epoch
             /\ \A g \in Families \ {Family[c]} : circuits'[g] = circuits[g]
<1> DEFINE s == circuits[Family[c]]
           p == ctl[c].permit
           u == Complete(s, p, ctl[c].outcome, ctl[c].at)
           t == Defer(u, ctl[c].hint, ctl[c].at)
<1>1. /\ Family[c] \in Families /\ s \in Circuit /\ p \in Permit /\ p.epoch \in Nat /\ p.probe \in BOOLEAN
      /\ ctl[c].outcome \in Outcome /\ ctl[c].at \in Nat /\ ctl[c].hint \in Nat
      /\ s.epoch \in Nat /\ s.floor \in Nat /\ s.open \in Nat /\ s.lease \in Nat /\ s.failures \in Nat
  BY CallTypes
<1>2. InFlight(c) /\ Recorded(c) BY DEF CompleteStep, InFlight
<1>3. circuits'[Family[c]] = t /\ \A g \in Families \ {Family[c]} : circuits'[g] = circuits[g]
  BY <1>1, <1>2 DEF Recorded, Typed
<1>4. s.floor <= s.epoch /\ p.epoch <= s.epoch /\ (s.open # 0 => p.epoch < s.epoch)
  BY <1>1, <1>2 DEF EpochInv, Placed
<1>5. /\ u \in Circuit /\ u.epoch >= s.epoch /\ u.floor >= s.floor /\ u.floor <= u.epoch
      /\ u.failures > s.failures => u.epoch > s.epoch /\ p.epoch >= s.floor
      /\ \/ u = s
         \/ u.epoch > s.epoch /\ s.open = 0 /\ u.floor = s.floor /\ u.failures >= s.failures
         \/ /\ u.epoch = s.epoch /\ p.epoch = s.epoch /\ u.open = 0 /\ u.lease = 0
            /\ u.failures = 0 /\ u.floor \in {s.floor, p.epoch}
      /\ p.probe /\ ctl[c].outcome = "healthy" /\ ~Outdated(s, p) => u.floor = p.epoch /\ p.epoch = s.epoch
      /\ u.open \in {s.open, 0, ctl[c].at + Cooldown} /\ u.lease \in {s.lease, 0}
      /\ u.epoch > s.epoch /\ s.lease # 0 => p.probe /\ p.epoch = s.epoch
  BY <1>1, <1>4, CompleteFacts
<1>6. /\ "failure" \in Tidings(c) => u.failures > s.failures \/ ctl[c].hint > ctl[c].at
      /\ "recovery" \in Tidings(c) => p.probe /\ ctl[c].outcome = "healthy" /\ ~Outdated(s, p)
  BY DEF Tidings
<1> HIDE DEF u
<1>7. /\ t \in Circuit /\ t.floor = u.floor /\ t.failures = u.failures
      /\ t.open >= u.open /\ t.open \in {u.open, ctl[c].hint} /\ t.lease \in {u.lease, 0}
      /\ ctl[c].hint > ctl[c].at => t.epoch = u.epoch + 1
      /\ ~(ctl[c].hint > ctl[c].at) => t = u
  <2> DEFINE h == ctl[c].hint
             n == ctl[c].at
  <2>1. u \in Circuit /\ h \in Nat /\ n \in Nat BY <1>1, <1>5
  <2> HIDE DEF h, n
  <2>2. LET v == Defer(u, h, n)
        IN  /\ v \in Circuit /\ v.floor = u.floor /\ v.failures = u.failures
            /\ v.open >= u.open /\ v.open \in {u.open, h} /\ v.lease \in {u.lease, 0}
            /\ h > n => v.epoch = u.epoch + 1
            /\ ~(h > n) => v = u
    BY <2>1, DeferFacts
  <2> QED BY <2>2 DEF h, n
<1>8. /\ u.failures \in Nat /\ u.epoch \in Nat /\ u.floor \in Nat /\ u.open \in Nat /\ u.lease \in Nat
      /\ t.failures \in Nat /\ t.epoch \in Nat /\ t.floor \in Nat /\ t.open \in Nat /\ t.lease \in Nat
  BY <1>5, <1>7, Fields
<1> HIDE DEF s, p, u, t
<1>9. /\ t.epoch >= s.epoch /\ t.floor >= s.floor /\ t.floor <= t.epoch
      /\ "failure" \in Tidings(c) => t.epoch > s.epoch
      /\ "recovery" \in Tidings(c) => p.epoch = s.epoch /\ t.floor = s.epoch
  BY <1>1, <1>5, <1>6, <1>7, <1>8
<1>10. \/ t = s
       \/ t.epoch > s.epoch /\ t.floor \in {s.floor, p.epoch}
          /\ (s.open # 0 => t.open >= s.open /\ t.failures >= s.failures)
          /\ (p.epoch < s.epoch => t.failures >= s.failures /\ (t.open = 0 => s.open = 0))
       \/ t.epoch = s.epoch /\ p.epoch = s.epoch /\ s.open = 0 /\ t.open = 0 /\ t.lease = 0
  BY <1>1, <1>4, <1>5, <1>7, <1>8
<1>11. /\ p.epoch < s.floor => t.failures <= s.failures
       /\ t.open \in {s.open, 0, ctl[c].at + Cooldown, ctl[c].hint} /\ t.lease \in {s.lease, 0}
       /\ t.epoch > s.epoch /\ s.lease # 0 /\ ~(ctl[c].hint > ctl[c].at) => p.probe /\ p.epoch = s.epoch
  BY <1>1, <1>4, <1>5, <1>7, <1>8
<1> QED BY <1>3, <1>7, <1>9, <1>10, <1>11 DEF s, p, t

LEMMA CompleteEpochs == ASSUME Typed, EpochInv, NEW c \in Calls, CompleteStep(c) PROVE EpochInv'
<1> DEFINE f == Family[c]
           s == circuits[f]
           t == circuits'[f]
           p == ctl[c].permit
<1>1. /\ f \in Families /\ s.epoch \in Nat /\ s.floor \in Nat /\ s.lease \in Nat /\ s.open \in Nat
      /\ p.epoch \in Nat /\ InFlight(c) /\ ~InFlight(c)'
  BY CallTypes DEF CompleteStep, InFlight
<1>2. /\ t \in Circuit /\ t.epoch >= s.epoch /\ t.floor >= s.floor /\ t.floor <= t.epoch
      /\ "failure" \in Tidings(c) => t.epoch > s.epoch
      /\ "recovery" \in Tidings(c) => p.epoch = s.epoch /\ t.floor = s.epoch
      /\ \/ t = s
         \/ t.epoch > s.epoch
         \/ t.epoch = s.epoch /\ p.epoch = s.epoch /\ t.open = 0 /\ t.lease = 0
      /\ \A g \in Families \ {f} : circuits'[g] = circuits[g]
  BY CompletedFacts
<1>3. t.epoch \in Nat /\ t.floor \in Nat /\ t.open \in Nat /\ t.lease \in Nat BY <1>2, Fields
<1>4. ASSUME NEW d \in Calls \ {c}, InFlight(d)'
      PROVE  /\ InFlight(d) /\ ctl'[d].permit = ctl[d].permit
             /\ ctl'[d].news \subseteq ctl[d].news \cup (IF Family[d] = f THEN Tidings(c) ELSE {})
  <2>1. ctl[d] \in Local BY DEF Typed
  <2>2. CASE Family[d] = f /\ InFlight(d)
    <3>1. ctl'[d] = [ctl[d] EXCEPT !.news = @ \cup Tidings(c)] BY <2>2 DEF CompleteStep
    <3> QED BY <2>1, <2>2, <3>1 DEF Local
  <2>3. CASE ~(Family[d] = f /\ InFlight(d))
    <3>1. ctl'[d] = ctl[d] BY <2>3 DEF CompleteStep
    <3> QED BY <1>4, <3>1 DEF InFlight
  <2> QED BY <2>2, <2>3
<1>5. \A g \in Families : circuits'[g].floor <= circuits'[g].epoch
  BY <1>1, <1>2 DEF EpochInv
<1>6. ASSUME NEW d \in Calls, InFlight(d)' PROVE Placed(d)'
  <2>1. d # c BY <1>1, <1>6
  <2>2. /\ InFlight(d) /\ ctl'[d].permit = ctl[d].permit
        /\ ctl'[d].news \subseteq ctl[d].news \cup (IF Family[d] = f THEN Tidings(c) ELSE {})
    BY <1>4, <1>6, <2>1
  <2>3. Placed(d) /\ Alone(c, d) /\ Alone(d, c) BY <1>1, <2>1, <2>2 DEF EpochInv
  <2>4. ctl[d].permit.epoch \in Nat /\ Family[d] \in Families BY CallTypes
  <2>5. CASE Family[d] # f
    <3>1. circuits'[Family[d]] = circuits[Family[d]] BY <1>2, <2>4, <2>5
    <3> QED BY <2>2, <2>3, <2>5, <3>1 DEF Placed
  <2>6. CASE Family[d] = f
    <3> DEFINE e == ctl[d].permit.epoch
    <3>0. "recovery" \in Tidings(c) => p.probe BY DEF Tidings
    <3>1. /\ e <= s.epoch /\ (s.open # 0 => e < s.epoch) /\ (ctl[d].permit.probe /\ e = s.epoch => s.lease # 0)
          /\ ("failure" \in ctl[d].news => e < s.epoch) /\ ("recovery" \in ctl[d].news => e < s.floor)
      BY <2>3, <2>6 DEF Placed
    <3>2. /\ p.probe /\ p.epoch = s.epoch => e < s.epoch
          /\ ctl[d].permit.probe /\ e = s.epoch => p.epoch < s.epoch
      BY <2>3, <2>6 DEF Alone
    <3> HIDE DEF e, p, s, t
    <3>3. /\ e <= t.epoch /\ (t.open # 0 => e < t.epoch) /\ (ctl[d].permit.probe /\ e = t.epoch => t.lease # 0)
      BY <1>1, <1>2, <1>3, <2>4, <3>1, <3>2 DEF e
    <3>4. /\ "failure" \in ctl'[d].news => e < t.epoch
      BY <1>1, <1>2, <1>3, <2>2, <2>4, <2>6, <3>1 DEF e
    <3>5. "recovery" \in ctl'[d].news => e < t.floor
      BY <1>1, <1>2, <1>3, <2>2, <2>4, <2>6, <3>0, <3>1, <3>2 DEF e
    <3> QED BY <2>2, <2>6, <3>3, <3>4, <3>5 DEF Placed, e, t
  <2> QED BY <2>5, <2>6
<1>7. ASSUME NEW d \in Calls, NEW e \in Calls, d # e, InFlight(d)', InFlight(e)' PROVE Alone(d, e)'
  <2>1. d # c /\ e # c BY <1>1, <1>7
  <2>2. /\ InFlight(d) /\ ctl'[d].permit = ctl[d].permit
        /\ InFlight(e) /\ ctl'[e].permit = ctl[e].permit
    BY <1>4, <1>7, <2>1
  <2>3. Placed(d) /\ Alone(d, e) BY <1>7, <2>2 DEF EpochInv
  <2>4. ctl[d].permit.epoch \in Nat /\ Family[d] \in Families BY CallTypes
  <2>5. circuits'[Family[d]].epoch = ctl[d].permit.epoch => circuits[Family[d]].epoch = ctl[d].permit.epoch
    BY <1>1, <1>2, <1>3, <2>3, <2>4 DEF Placed
  <2> QED BY <2>2, <2>3, <2>5 DEF Alone
<1> QED BY <1>5, <1>6, <1>7 DEF EpochInv

LEMMA EpochStep == Base /\ EpochInv /\ [Next]_vars => EpochInv'
<1> SUFFICES ASSUME Base, EpochInv, [Next]_vars PROVE EpochInv' OBVIOUS
<1>1. Typed BY DEF Base
<1> QED BY <1>1, CircuitEffect, QuietEpochs, AdmitEpochs, CompleteEpochs

LEMMA EpochInvariant == Spec => []EpochInv
<1> QED BY EpochInit, EpochStep, BaseInvariant, PTL DEF Spec

(* A cooldown that callers were told of is never shortened.  The attempts   *)
(* whose completion could end an outage have the epoch before it, and an    *)
(* attempt is admitted only after it: the clock it read is not ahead.       *)
THEOREM CooldownsKept == Spec => CooldownKept
<1> DEFINE A == /\ cooldown' >= cooldown
                /\ \A f \in Families : circuits[f].open > now => circuits'[f].open >= circuits[f].open
<1>1. ASSUME Base, EpochInv, [Next]_vars PROVE A
  <2>0. Typed BY <1>1 DEF Base
  <2>1. \A f \in Families : circuits[f] \in Circuit /\ circuits[f].open \in Nat
    BY <2>0, Fields DEF Typed
  <2>2. CASE QuietStep BY <2>0, <2>1, <2>2 DEF QuietStep, Typed
  <2>3. ASSUME NEW c \in Calls, AdmitStep(c) PROVE A
    <3>1. /\ cooldown' = cooldown /\ cooldown \in Nat
          /\ \A f \in Families \ {Family[c]} : circuits'[f] = circuits[f]
      BY <2>0, <2>3 DEF AdmitStep, Typed
    <3>2. ctl[c].at <= now /\ circuits[Family[c]].open <= ctl[c].at /\ ctl[c].at \in Nat
      BY <1>1, <2>0, <2>3, CallTypes DEF AdmitStep, Refused, Blocked, Base, CallInv, Clocked
    <3>3. ~(circuits[Family[c]].open > now) BY <2>0, <2>1, <3>2, HomeType DEF Typed
    <3> QED BY <2>1, <3>1, <3>3
  <2>4. ASSUME NEW c \in Calls, CompleteStep(c) PROVE A
    <3>1. cooldown' >= cooldown BY <2>0, <2>4, RecordedType DEF CompleteStep
    <3>2. \A f \in Families \ {Family[c]} : circuits'[f] = circuits[f]
      BY <1>1, <2>0, <2>4, CompletedFacts
    <3>3. circuits[Family[c]].open > now => circuits'[Family[c]].open >= circuits[Family[c]].open
      <4>1. now \in Nat BY <2>0 DEF Typed
      <4> QED BY <1>1, <2>0, <2>4, <4>1, CallTypes, CompletedFacts
    <3> QED BY <2>1, <3>1, <3>2, <3>3
  <2> QED BY <1>1, <2>2, <2>3, <2>4, CircuitEffect
<1> QED BY <1>1, BaseInvariant, EpochInvariant, PTL DEF Spec, CooldownKept

(* Stale completions are no news: an attempt admitted before the last       *)
(* counted failure cannot heal the circuit or forget failures, and one      *)
(* admitted before the last recovery cannot count as a failure.             *)
THEOREM StaleCompletionsIgnored == Spec => StaleIgnored
<1> DEFINE A == \A c \in Calls : ctl[c].pc = "record" /\ ctl'[c].pc # "record" =>
                  LET s == circuits[Family[c]]
                      t == circuits'[Family[c]]
                  IN /\ "failure" \in ctl[c].news => t.failures >= s.failures /\ (t.open = 0 => s.open = 0)
                     /\ "recovery" \in ctl[c].news => t.failures <= s.failures
<1>1. ASSUME Base, EpochInv, [Next]_vars PROVE A
  <2>0. Typed BY <1>1 DEF Base
  <2> SUFFICES ASSUME NEW c \in Calls, ctl[c].pc = "record", ctl'[c].pc # "record"
               PROVE  LET s == circuits[Family[c]]
                          t == circuits'[Family[c]]
                      IN /\ "failure" \in ctl[c].news => t.failures >= s.failures /\ (t.open = 0 => s.open = 0)
                         /\ "recovery" \in ctl[c].news => t.failures <= s.failures
    OBVIOUS
  <2>1. /\ circuits[Family[c]].failures \in Nat /\ circuits[Family[c]].open \in Nat
        /\ circuits[Family[c]].epoch \in Nat /\ circuits[Family[c]].floor \in Nat
        /\ ctl[c].permit.epoch \in Nat
    BY <2>0, CallTypes
  <2>2. CASE QuietStep BY <2>1, <2>2 DEF QuietStep
  <2>3. ASSUME NEW d \in Calls, AdmitStep(d) PROVE FALSE
    <3>1. d # c BY <2>3 DEF AdmitStep
    <3> QED BY <2>3, <3>1 DEF AdmitStep
  <2>4. ASSUME NEW d \in Calls \ {c}, CompleteStep(d) PROVE FALSE
    <3>1. ctl[c] \in Local BY <2>0 DEF Typed
    <3>2. ctl'[c] = [ctl[c] EXCEPT !.news = @ \cup Tidings(d)] \/ ctl'[c] = ctl[c]
      BY <2>4 DEF CompleteStep
    <3> QED BY <3>1, <3>2 DEF Local
  <2>5. ASSUME CompleteStep(c)
        PROVE  LET s == circuits[Family[c]]
                   t == circuits'[Family[c]]
               IN /\ "failure" \in ctl[c].news => t.failures >= s.failures /\ (t.open = 0 => s.open = 0)
                  /\ "recovery" \in ctl[c].news => t.failures <= s.failures
    <3>1. Placed(c) BY <1>1 DEF EpochInv, InFlight
    <3>2. /\ "failure" \in ctl[c].news => ctl[c].permit.epoch < circuits[Family[c]].epoch
          /\ "recovery" \in ctl[c].news => ctl[c].permit.epoch < circuits[Family[c]].floor
      BY <3>1 DEF Placed
    <3> QED BY <1>1, <2>0, <2>1, <2>5, <3>2, CompletedFacts
  <2> QED BY <1>1, <2>2, <2>3, <2>4, <2>5, CircuitEffect
<1> QED BY <1>1, BaseInvariant, EpochInvariant, PTL DEF Spec, StaleIgnored

-----------------------------------------------------------------------------
(* The instants that calls carry.                                           *)

SameCall(c) == /\ ctl'[c].pc = ctl[c].pc /\ ctl'[c].at = ctl[c].at /\ ctl'[c].try = ctl[c].try
               /\ ctl'[c].permit = ctl[c].permit /\ ctl'[c].hint = ctl[c].hint

(* Before and after the reservation of an attempt. *)
Before == {"idle", "select", "reserve"}
After  == {"permit", "sent", "record", "yield", "sleep"}

(* Going on to a step pc without passing a reservation. *)
Counts(c, pc, try) ==
  \/ pc \in {"done", "dead"}
  \/ ctl[c].pc \in Before /\ pc \in Before /\ try = ctl[c].try
  \/ ctl[c].pc \in After /\ pc \in After /\ try = ctl[c].try
  \/ ctl[c].pc \in After /\ pc \in Before /\ try = ctl[c].try + 1

MovesOn(c) == /\ ctl'[c].pc \notin {"permit", "sent"}
              /\ Counts(c, ctl'[c].pc, ctl'[c].try)
              /\ ctl'[c].hint \in {ctl[c].hint, 0} \/ \E d \in Delays : ctl'[c].hint = now + d

(* A step sends a request, obtains a permit, or leaves a call without either *)
(* or as it was.                                                             *)
LEMMA CallEffect ==
  ASSUME Typed, [Next]_vars, NEW c \in Calls
  PROVE  SameCall(c) \/ MovesOn(c) \/ Reserve(c) \/ Send(c)
<1>0. ctl[c] \in Local BY DEF Typed
<1>1. CASE UNCHANGED ctl BY <1>1 DEF SameCall
<1>2. ASSUME NEW d \in Calls, NEW local, ctl' = [ctl EXCEPT ![d] = local], d # c PROVE SameCall(c)
  BY <1>2 DEF SameCall, Typed
<1>3. ASSUME NEW local, ctl' = [ctl EXCEPT ![c] = local], local.pc \notin {"permit", "sent"},
             Counts(c, local.pc, local.try),
             local.hint \in {ctl[c].hint, 0} \/ \E d \in Delays : local.hint = now + d
      PROVE  MovesOn(c)
  BY <1>3 DEF MovesOn, Typed
<1>4. \A v : /\ Done(c, v).pc = "done" /\ Done(c, v).hint = 0
             /\ Counts(c, Done(c, v).pc, Done(c, v).try)
  BY DEF Done, Fresh, Counts
<1>5. ASSUME Start(c) \/ TakeSlot(c) \/ GiveUp(c) \/ Deny(c) \/ ReserveUnreported(c)
               \/ AbandonPermit(c) \/ RecordFails(c) \/ Wake(c)
      PROVE  MovesOn(c)
  <2>1. CASE Start(c)
    <3> DEFINE local == [ctl[c] EXCEPT !.pc = "select"]
    <3>1. ctl' = [ctl EXCEPT ![c] = local] BY <2>1 DEF Start
    <3>2. local.pc = "select" /\ local.hint = ctl[c].hint /\ local.try = ctl[c].try BY <1>0 DEF Local
    <3>3. Counts(c, local.pc, local.try) BY <2>1, <3>2 DEF Start, At, Counts, Before, After
    <3> HIDE DEF local
    <3> QED BY <1>3, <3>1, <3>2, <3>3
  <2>2. CASE TakeSlot(c)
    <3> DEFINE local == [ctl[c] EXCEPT !.pc = "reserve", !.at = now]
    <3>1. ctl' = [ctl EXCEPT ![c] = local] BY <2>2 DEF TakeSlot
    <3>2. local.pc = "reserve" /\ local.hint = ctl[c].hint /\ local.try = ctl[c].try BY <1>0 DEF Local
    <3>3. Counts(c, local.pc, local.try) BY <2>2, <3>2 DEF TakeSlot, At, Counts, Before, After
    <3> HIDE DEF local
    <3> QED BY <1>3, <3>1, <3>2, <3>3
  <2>3. CASE GiveUp(c) BY <1>3, <1>4, <2>3 DEF GiveUp
  <2>4. CASE Deny(c) BY <1>3, <1>4, <2>4 DEF Deny
  <2>5. CASE ReserveUnreported(c) BY <1>3, <1>4, <2>5 DEF ReserveUnreported
  <2>6. CASE AbandonPermit(c)
    <3> DEFINE local == [ctl[c] EXCEPT !.pc = "yield", !.at = now, !.outcome = "neutral"]
    <3>1. ctl' = [ctl EXCEPT ![c] = local] BY <2>6 DEF AbandonPermit
    <3>2. local.pc = "yield" /\ local.hint = ctl[c].hint /\ local.try = ctl[c].try BY <1>0 DEF Local
    <3>3. Counts(c, local.pc, local.try) BY <2>6, <3>2 DEF AbandonPermit, At, Counts, Before, After
    <3> HIDE DEF local
    <3> QED BY <1>3, <3>1, <3>2, <3>3
  <2>7. CASE RecordFails(c) BY <1>3, <1>4, <2>7 DEF RecordFails
  <2>8. CASE Wake(c)
    <3> DEFINE local == [ctl[c] EXCEPT !.pc = "select", !.try = @ + 1]
    <3>1. ctl' = [ctl EXCEPT ![c] = Done(c, "error")] \/ ctl' = [ctl EXCEPT ![c] = local]
      BY <2>8 DEF Wake
    <3>2. local.pc = "select" /\ local.hint = ctl[c].hint /\ local.try = ctl[c].try + 1 BY <1>0 DEF Local
    <3>3. Counts(c, local.pc, local.try) BY <2>8, <3>2 DEF Wake, At, Counts, Before, After
    <3> HIDE DEF local
    <3> QED BY <1>3, <1>4, <3>1, <3>2, <3>3
  <2> QED BY <1>5, <2>1, <2>2, <2>3, <2>4, <2>5, <2>6, <2>7, <2>8
<1>6. ASSUME Reply(c) PROVE MovesOn(c)
  <2>1. PICK local \in Local : /\ ctl' = [ctl EXCEPT ![c] = local] /\ local.pc = "record"
                               /\ local.hint = 0 \/ \E d \in Delays : local.hint = now + d
                               /\ local.try = ctl[c].try
    BY <1>6, ReplyFacts
  <2>2. Counts(c, local.pc, local.try) BY <1>6, <2>1 DEF Reply, At, Counts, After
  <2> QED BY <1>3, <2>1, <2>2
<1>7. ASSUME NEW d \in Calls, NEW local, local.pc \in {"done", "sleep"}, local.hint = 0, ctl' = Told(d, local),
             Counts(d, local.pc, local.try)
      PROVE  SameCall(c) \/ MovesOn(c)
  <2>1. CASE d = c BY <1>7, <2>1 DEF Told, MovesOn
  <2>2. CASE d # c
    <3>1. ctl'[c] = [ctl[c] EXCEPT !.news = @ \cup Tidings(d)] \/ ctl'[c] = ctl[c]
      BY <1>7, <2>2 DEF Told
    <3> QED BY <1>0, <3>1 DEF SameCall, Local
  <2> QED BY <2>1, <2>2
<1>8. ASSUME NEW d \in Calls, Record(d) PROVE SameCall(c) \/ MovesOn(c)
  <2> DEFINE asleep == [Fresh EXCEPT !.pc = "sleep", !.try = ctl[d].try]
             ended == Done(d, IF d \in canceled THEN CanceledVerdict(d, TRUE) ELSE ctl[d].verdict)
  <2>1. /\ asleep.pc = "sleep" /\ ended.pc = "done" /\ asleep.hint = 0 /\ ended.hint = 0
        /\ asleep.try = ctl[d].try /\ ctl[d].pc = "record"
    BY <1>8 DEF Fresh, Done, Record, At
  <2>2. ctl' = Told(d, ended) \/ ctl' = Told(d, asleep) BY <1>8 DEF Record
  <2> HIDE DEF asleep, ended
  <2>3. Counts(d, asleep.pc, asleep.try) /\ Counts(d, ended.pc, ended.try)
    BY <2>1 DEF Counts, After
  <2> QED BY <1>7, <2>1, <2>2, <2>3
<1>9. ASSUME NEW d \in Calls, Yield(d) PROVE SameCall(c) \/ MovesOn(c)
  <2> DEFINE local == Done(d, CanceledVerdict(d, ctl[d].try > 0))
  <2>1. local.pc = "done" /\ local.hint = 0 BY DEF Fresh, Done
  <2>2. ctl' = Told(d, local) \/ ctl' = [ctl EXCEPT ![d] = local] BY <1>9 DEF Yield
  <2> HIDE DEF local
  <2>3. Counts(d, local.pc, local.try) BY <2>1 DEF Counts
  <2> QED BY <1>2, <1>3, <1>7, <2>1, <2>2, <2>3
<1>10. ASSUME NEW p \in Procs, Crash(p) PROVE SameCall(c) \/ MovesOn(c)
  <2>1. ctl'[c] = ctl[c] \/ ctl'[c] = [Fresh EXCEPT !.pc = "dead"] BY <1>10 DEF Crash
  <2>2. [Fresh EXCEPT !.pc = "dead"].pc = "dead" /\ [Fresh EXCEPT !.pc = "dead"].hint = 0 BY DEF Fresh
  <2> QED BY <2>1, <2>2 DEF SameCall, MovesOn, Counts
<1>11. ASSUME NEW d \in Calls, d # c,
              Start(d) \/ TakeSlot(d) \/ GiveUp(d) \/ Deny(d) \/ Reserve(d) \/ ReserveUnreported(d)
                \/ AbandonPermit(d) \/ Send(d) \/ Reply(d) \/ RecordFails(d) \/ Wake(d)
       PROVE  SameCall(c)
  <2>1. \E local : ctl' = [ctl EXCEPT ![d] = local]
    <3>1. CASE Start(d) \/ TakeSlot(d) \/ GiveUp(d) \/ Deny(d)
      BY <3>1 DEF Start, TakeSlot, GiveUp, Deny
    <3>2. CASE Reserve(d) \/ ReserveUnreported(d) \/ AbandonPermit(d) \/ Send(d)
      BY <3>2 DEF Reserve, ReserveUnreported, AbandonPermit, Send
    <3>3. CASE RecordFails(d) BY <3>3 DEF RecordFails
    <3>4. CASE Wake(d) BY <3>4 DEF Wake
    <3>5. CASE Reply(d) BY <3>5, ReplyFacts
    <3> QED BY <1>11, <3>1, <3>2, <3>3, <3>4, <3>5
  <2> QED BY <1>2, <1>11, <2>1
<1>12. CASE Tick \/ Finished \/ \E d \in Calls : Cancel(d)
  BY <1>1, <1>12 DEF Tick, Finished, Cancel, vars
<1>13. CASE UNCHANGED vars BY <1>1, <1>13 DEF vars
<1> QED BY <1>5, <1>6, <1>8, <1>9, <1>10, <1>11, <1>12, <1>13 DEF Next, Proceed

(* The delay a call asks for was named by the provider before now. *)
HintInv == \A c \in Calls : ctl[c].hint = 0 \/ \E d \in Delays : ctl[c].hint <= now + d

LEMMA TimePasses ==
  ASSUME Typed, [Next]_vars
  PROVE  now \in Nat /\ now' \in Nat /\ now <= now'
<1>1. now \in Nat BY DEF Typed
<1>2. CASE Tick BY <1>1, <1>2 DEF Tick
<1>3. CASE UNCHANGED now BY <1>1, <1>3
<1>4. ASSUME NEW c \in Calls, Proceed(c) PROVE UNCHANGED now
  BY <1>4 DEF Proceed, TakeSlot, GiveUp, Deny, Reserve, ReserveUnreported, AbandonPermit, Send, Reply,
              Record, RecordFails, Yield, Wake
<1>5. ASSUME NEW c \in Calls, Start(c) \/ Cancel(c) PROVE UNCHANGED now BY <1>5 DEF Start, Cancel
<1>6. ASSUME NEW p \in Procs, Crash(p) PROVE UNCHANGED now BY <1>6 DEF Crash
<1> QED BY <1>2, <1>3, <1>4, <1>5, <1>6 DEF Next, Finished, vars

LEMMA HintStep == ASSUME Base, HintInv, [Next]_vars PROVE HintInv'
<1>0. Typed BY DEF Base
<1>1. now \in Nat /\ now' \in Nat /\ now <= now' BY <1>0, TimePasses
<1> SUFFICES ASSUME NEW c \in Calls PROVE ctl'[c].hint = 0 \/ \E d \in Delays : ctl'[c].hint <= now' + d
  BY DEF HintInv
<1>2. ctl[c] \in Local /\ ctl[c].hint \in Nat BY <1>0 DEF Typed, Local
<1>3. \A d \in Delays : d \in Nat OBVIOUS
<1>4. ctl'[c].hint \in {ctl[c].hint, 0} \/ \E d \in Delays : ctl'[c].hint = now + d
  <2>1. ASSUME Reserve(c) \/ Send(c) PROVE ctl'[c].hint = ctl[c].hint
    BY <1>0, <1>2, <2>1 DEF Reserve, Send, Typed, Local
  <2>2. SameCall(c) \/ MovesOn(c) \/ ctl'[c].hint = ctl[c].hint BY <1>0, <2>1, CallEffect
  <2> QED BY <2>2 DEF SameCall, MovesOn
<1>5. CASE ctl'[c].hint = ctl[c].hint BY <1>1, <1>2, <1>3, <1>5 DEF HintInv
<1>6. CASE \E d \in Delays : ctl'[c].hint = now + d
  <2>1. PICK d \in Delays : ctl'[c].hint = now + d BY <1>6
  <2>2. d \in Nat BY <1>3
  <2>3. ctl'[c].hint <= now' + d BY <1>1, <2>1, <2>2
  <2> QED BY <2>3
<1> QED BY <1>4, <1>5, <1>6

OutageInv == HintInv /\ OutageBounded

LEMMA OutageInit == Init => OutageInv
BY DEF Init, OutageInv, HintInv, OutageBounded, Fresh, Closed

LEMMA OutageStep == Base /\ EpochInv /\ OutageInv /\ [Next]_vars => OutageInv'
<1> SUFFICES ASSUME Base, EpochInv, OutageInv, [Next]_vars PROVE OutageInv' OBVIOUS
<1>0. Typed /\ HintInv BY DEF Base, OutageInv
<1>1. now \in Nat /\ now' \in Nat /\ now <= now' BY <1>0, TimePasses
<1>2. \A d \in Delays : d \in Nat OBVIOUS
<1> SUFFICES ASSUME NEW f \in Families
             PROVE  /\ circuits'[f].lease <= now' + Lease
                    /\ circuits'[f].open <= now' + Cooldown \/ \E d \in Delays : circuits'[f].open <= now' + d
  BY <1>0, HintStep DEF OutageInv, OutageBounded
<1>3. circuits[f] \in Circuit /\ circuits[f].lease \in Nat /\ circuits[f].open \in Nat
  BY <1>0, Fields DEF Typed
<1>4. /\ circuits[f].lease <= now + Lease
      /\ circuits[f].open <= now + Cooldown \/ \E d \in Delays : circuits[f].open <= now + d
  BY DEF OutageInv, OutageBounded
<1>5. CASE circuits'[f] = circuits[f] BY <1>1, <1>2, <1>3, <1>4, <1>5
<1>6. ASSUME NEW c \in Calls, Family[c] = f, AdmitStep(c)
      PROVE  /\ circuits'[f].lease <= now' + Lease
             /\ circuits'[f].open <= now' + Cooldown
  <2>1. ctl[c].at \in Nat /\ ctl[c].at <= now BY <1>0, <1>6, CallTypes DEF AdmitStep, Base, CallInv, Clocked
  <2>2. circuits'[f] = Admit(circuits[f], ctl[c].at) BY <1>0, <1>6 DEF AdmitStep, Typed
  <2>3. /\ circuits'[f].open = 0
        /\ circuits'[f].lease \in {0, ctl[c].at + Lease}
    <3> DEFINE s == circuits[f]
               n == ctl[c].at
    <3>1. s \in Circuit /\ n \in Nat BY <1>3, <2>1
    <3> HIDE DEF s, n
    <3>2. LET v == Admit(s, n)
          IN  /\ ~Probes(s) => v = s /\ s.open = 0 /\ s.lease = 0
              /\ Probes(s) => v.open = 0 /\ v.lease = n + Lease
      BY <3>1, AdmitFacts
    <3> QED BY <2>2, <3>2 DEF s, n
  <2> QED BY <1>1, <2>1, <2>3
<1>7. ASSUME NEW c \in Calls, Family[c] = f, CompleteStep(c)
      PROVE  /\ circuits'[f].lease <= now' + Lease
             /\ circuits'[f].open <= now' + Cooldown \/ \E d \in Delays : circuits'[f].open <= now' + d
  <2>1. ctl[c].at \in Nat /\ ctl[c].hint \in Nat /\ ctl[c].at <= now
    BY <1>0, <1>7, CallTypes DEF CompleteStep, Base, CallInv, Clocked
  <2>2. /\ circuits'[f].open \in {circuits[f].open, 0, ctl[c].at + Cooldown, ctl[c].hint}
        /\ circuits'[f].lease \in {circuits[f].lease, 0}
    BY <1>0, <1>7, CompletedFacts
  <2>3. CASE circuits'[f].open \in {circuits[f].open, 0, ctl[c].at + Cooldown}
    BY <1>1, <1>2, <1>3, <1>4, <2>1, <2>2, <2>3
  <2>4. CASE circuits'[f].open = ctl[c].hint
    <3>1. ctl[c].hint = 0 \/ \E d \in Delays : ctl[c].hint <= now + d BY <1>0 DEF HintInv
    <3> QED BY <1>1, <1>2, <1>3, <1>4, <2>1, <2>2, <2>4, <3>1
  <2> QED BY <2>2, <2>3, <2>4
<1>8. ASSUME NEW c \in Calls, Family[c] # f, AdmitStep(c) \/ CompleteStep(c)
      PROVE  circuits'[f] = circuits[f]
  BY <1>0, <1>8, CompletedFacts DEF AdmitStep, Typed
<1> QED BY <1>0, <1>5, <1>6, <1>7, <1>8, CircuitEffect DEF QuietStep

(* However failures, probes, cancellations, named delays and deaths follow  *)
(* each other, no family stays shut longer than its cooldown, the longest   *)
(* delay the provider names, or a probe's lease.                            *)
THEOREM OutagesBounded == Spec => []OutageBounded
<1>1. OutageInv => OutageBounded BY DEF OutageInv
<1> QED BY <1>1, OutageInit, OutageStep, BaseInvariant, EpochInvariant, PTL DEF Spec

-----------------------------------------------------------------------------
(* Probes, where the provider names no delay.                               *)

Prompt == Delays = {} /\ Skew + HttpTimeout < Lease

(* A call that holds or uses a probe permit. *)
Probing(c) == ctl[c].pc \in {"permit", "sent"} /\ ctl[c].permit.probe

(* The probe's epoch is current, and its lease outlasts the request. *)
Leased(c) ==
  LET s == circuits[Family[c]]
  IN  /\ ctl[c].permit.epoch = s.epoch
      /\ ctl[c].pc = "permit" => s.lease >= ctl[c].at + Lease
      /\ ctl[c].pc = "sent"   => s.lease + Skew >= ctl[c].at + Lease

LeaseInv == \A c \in Calls : Probing(c) => Leased(c)

LEMMA LeaseRuns ==
  ASSUME Prompt, Base, LeaseInv, NEW c \in Calls, Probing(c)
  PROVE  circuits[Family[c]].lease > now
<1>1. Typed BY DEF Base
<1>2. now \in Nat /\ ctl[c].at \in Nat /\ circuits[Family[c]].lease \in Nat BY <1>1, CallTypes DEF Typed
<1>3. Clocked(c) /\ Leased(c) BY DEF Base, CallInv, LeaseInv
<1> QED BY <1>2, <1>3 DEF Prompt, Probing, Clocked, Leased

(* While a probe is under way nothing touches its circuit but its own step. *)
LEMMA ProbeUndisturbed ==
  ASSUME Prompt, Base, EpochInv, HintInv, LeaseInv, [Next]_vars, NEW c \in Calls, Probing(c)
  PROVE  circuits'[Family[c]] = circuits[Family[c]]
<1>0. Typed BY DEF Base
<1> DEFINE f == Family[c]
           s == circuits[f]
<1>1. /\ s.lease > now /\ s.lease # 0 /\ ctl[c].permit.epoch = s.epoch /\ s.lease \in Nat /\ s.epoch \in Nat
      /\ InFlight(c) /\ f \in Families /\ now \in Nat
  <2>1. s.lease > now BY LeaseRuns
  <2>2. Leased(c) /\ InFlight(c) BY DEF LeaseInv, Probing, InFlight
  <2> QED BY <1>0, <2>1, <2>2, CallTypes DEF Leased, Typed
<1>2. CASE QuietStep BY <1>2 DEF QuietStep
<1>3. ASSUME NEW d \in Calls, AdmitStep(d) PROVE circuits'[f] = s
  <2>1. CASE Family[d] # f BY <1>0, <1>3, <2>1 DEF AdmitStep, Typed
  <2>2. CASE Family[d] = f
    <3>1. ctl[d].at <= now /\ ~(s.lease > ctl[d].at) /\ ctl[d].at \in Nat
      BY <1>0, <1>3, <2>2, CallTypes DEF AdmitStep, Refused, Blocked, Base, CallInv, Clocked
    <3> QED BY <1>1, <3>1
  <2> QED BY <2>1, <2>2
<1>4. ASSUME NEW d \in Calls, CompleteStep(d) PROVE circuits'[f] = s
  <2>1. CASE Family[d] # f BY <1>0, <1>1, <1>4, <2>1, CompletedFacts
  <2>2. CASE Family[d] = f
    <3>1. d # c /\ InFlight(d) BY <1>4 DEF CompleteStep, Probing, InFlight
    <3>2. Alone(c, d) /\ Alone(d, c) BY <1>1, <3>1 DEF EpochInv
    <3>3. ctl[d].hint = 0 /\ ctl[d].at \in Nat /\ ctl[d].permit.epoch \in Nat
      BY <1>0, CallTypes DEF HintInv, Prompt
    <3>4. ctl[c].permit.probe BY DEF Probing
    <3>5. /\ ctl[d].permit.epoch < s.epoch
          /\ ~(ctl[d].permit.probe /\ ctl[d].permit.epoch = s.epoch)
      BY <1>1, <2>2, <3>2, <3>3, <3>4 DEF Alone
    <3>6. LET t == circuits'[f]
          IN  /\ t \in Circuit
              /\ t = s \/ t.epoch > s.epoch \/ ctl[d].permit.epoch = s.epoch
              /\ t.epoch > s.epoch /\ s.lease # 0 /\ ~(ctl[d].hint > ctl[d].at)
                 => ctl[d].permit.probe /\ ctl[d].permit.epoch = s.epoch
      BY <1>0, <1>4, <2>2, CompletedFacts
    <3> QED BY <1>1, <3>3, <3>5, <3>6
  <2> QED BY <2>1, <2>2
<1> QED BY <1>2, <1>3, <1>4, CircuitEffect

LEMMA LeaseStep == ASSUME Prompt PROVE Base /\ EpochInv /\ HintInv /\ LeaseInv /\ [Next]_vars => LeaseInv'
<1> SUFFICES ASSUME Base, EpochInv, HintInv, LeaseInv, [Next]_vars, NEW c \in Calls, Probing(c)'
             PROVE  Leased(c)'
  BY DEF LeaseInv
<1>0. Typed BY DEF Base
<1>1. /\ ctl[c] \in Local /\ ctl[c].at \in Nat /\ Family[c] \in Families /\ circuits[Family[c]] \in Circuit
      /\ circuits[Family[c]].lease \in Nat /\ now \in Nat
  BY <1>0, CallTypes DEF Typed
<1>2. CASE SameCall(c)
  <2>1. Probing(c) BY <1>2 DEF SameCall, Probing
  <2>2. circuits'[Family[c]] = circuits[Family[c]] /\ Leased(c) BY <2>1, ProbeUndisturbed DEF LeaseInv
  <2> QED BY <1>2, <2>2 DEF SameCall, Leased
<1>3. CASE MovesOn(c) BY <1>3 DEF MovesOn, Probing
<1>4. CASE Send(c)
  <2> DEFINE local == [ctl[c] EXCEPT !.pc = "sent", !.at = now]
  <2>1. ctl' = [ctl EXCEPT ![c] = local] /\ ctl[c].pc = "permit" /\ circuits' = circuits
    BY <1>4 DEF Send, At, state
  <2>2. ctl'[c] = local BY <1>0, <2>1 DEF Typed
  <2>3. /\ ctl'[c].pc = "sent" /\ ctl'[c].at = now /\ ctl'[c].permit = ctl[c].permit
    BY <1>1, <2>2 DEF Local
  <2>4. Probing(c) BY <2>1, <2>3 DEF Probing
  <2>5. Leased(c) /\ now <= ctl[c].at + Skew BY <2>1, <2>4 DEF LeaseInv, Base, CallInv, Clocked
  <2> QED BY <1>1, <2>1, <2>3, <2>5 DEF Leased
<1>5. CASE Reserve(c)
  <2> DEFINE s == circuits[Family[c]]
             n == ctl[c].at
             permit == PermitOf(s, n)
             local == [ctl[c] EXCEPT !.pc = "permit", !.news = {}, !.permit = permit]
  <2>1. ctl' = [ctl EXCEPT ![c] = local] BY <1>5 DEF Reserve
  <2>2. ctl'[c] = local BY <1>0, <2>1 DEF Typed
  <2> HIDE DEF permit
  <2>3. /\ ctl'[c].pc = "permit" /\ ctl'[c].at = n /\ ctl'[c].permit = permit
    BY <1>1, <2>2 DEF Local
  <2>4. circuits'[Family[c]] = Admit(s, n) BY <1>0, <1>1, <1>5 DEF Reserve, Admitted, Typed
  <2>5. /\ permit.epoch = Admit(s, n).epoch /\ permit.probe = Probes(s)
        /\ Probes(s) => Admit(s, n).lease = n + Lease
    <3>1. s \in Circuit /\ n \in Nat BY <1>1
    <3> HIDE DEF s, n
    <3> QED BY <3>1, AdmitFacts DEF permit
  <2>6. permit.probe BY <2>3 DEF Probing
  <2> QED BY <1>1, <2>3, <2>4, <2>5, <2>6 DEF Leased
<1> QED BY <1>0, <1>2, <1>3, <1>4, <1>5, CallEffect

(* While a circuit recovers, one request at a time probes the provider, if  *)
(* the provider names no delay and a lease outlasts a request.  (Both are   *)
(* needed: a delay named by an older attempt drops the lease of a probe.)   *)
THEOREM OneProbe == ASSUME Prompt PROVE Spec => []SoleProbe
<1>1. Init => LeaseInv BY DEF Init, LeaseInv, Probing, Fresh
<1>2. Base /\ EpochInv /\ LeaseInv => SoleProbe
  <2> SUFFICES ASSUME Base, EpochInv, LeaseInv, NEW c \in Calls, NEW d \in Calls, c # d, Family[c] = Family[d],
                      Probing(c), Probing(d)
               PROVE  FALSE
    BY DEF SoleProbe, Probing
  <2>1. Leased(c) /\ Leased(d) /\ Alone(c, d) BY DEF LeaseInv, EpochInv, Probing, InFlight
  <2>2. ctl[c].permit.probe /\ circuits[Family[c]].epoch \in Nat BY CallTypes DEF Probing, Base
  <2> QED BY <2>1, <2>2 DEF Leased, Alone
<1>3. OutageInv => HintInv BY DEF OutageInv
<1>4. Base /\ EpochInv /\ HintInv /\ LeaseInv /\ [Next]_vars => LeaseInv' BY LeaseStep
<1> QED BY <1>1, <1>2, <1>3, <1>4, OutageInit, OutageStep, BaseInvariant, EpochInvariant, PTL DEF Spec

-----------------------------------------------------------------------------
(* The rolling allowance.                                                   *)

(* The attempt k of call c may still be reserved. *)
MayReserve(c, k) == \/ ctl[c].pc \in Before /\ k >= ctl[c].try
                    \/ ctl[c].pc \in After  /\ k > ctl[c].try

Covers(r, q) == r.call = q.call /\ r.try = q.try /\ r.at + Skew >= q.commit

(* Every attempt is logged once, and as long as it counts against the       *)
(* allowance a row of the table stands for it.                              *)
QuotaInv ==
  /\ IsFiniteSet(rows) /\ IsFiniteSet(log)
  /\ \A q \in log : q.commit <= now /\ ~MayReserve(q.call, q.try)
  /\ \A q, r \in log : q.call = r.call /\ q.try = r.try => q = r
  /\ \A q \in log : now + Skew < q.commit + Window => \E r \in rows : Covers(r, q)
  /\ RollingQuota

(* No attempt becomes possible again. *)
LEMMA AttemptsRunOut ==
  ASSUME Typed, [Next]_vars, NEW c \in Calls, NEW k \in Nat, MayReserve(c, k)'
  PROVE  MayReserve(c, k)
<1>0. ctl[c] \in Local /\ ctl[c].try \in Nat BY DEF Typed, Local
<1>1. CASE SameCall(c) BY <1>1 DEF SameCall, MayReserve
<1>2. CASE MovesOn(c)
  <2>1. Counts(c, ctl'[c].pc, ctl'[c].try) BY <1>2 DEF MovesOn
  <2> QED BY <1>0, <2>1 DEF Counts, MayReserve, Before, After
<1>3. CASE Reserve(c)
  <2> DEFINE permit == PermitOf(circuits[Family[c]], ctl[c].at)
             local == [ctl[c] EXCEPT !.pc = "permit", !.news = {}, !.permit = permit]
  <2>1. ctl' = [ctl EXCEPT ![c] = local] /\ ctl[c].pc = "reserve" BY <1>3 DEF Reserve, At
  <2> HIDE DEF permit
  <2>2. ctl'[c].pc = "permit" /\ ctl'[c].try = ctl[c].try BY <1>0, <2>1 DEF Typed, Local
  <2> QED BY <1>0, <2>1, <2>2 DEF MayReserve, Before, After
<1>4. CASE Send(c)
  <2> DEFINE local == [ctl[c] EXCEPT !.pc = "sent", !.at = now]
  <2>1. ctl' = [ctl EXCEPT ![c] = local] /\ ctl[c].pc = "permit" BY <1>4 DEF Send, At
  <2>2. ctl'[c].pc = "sent" /\ ctl'[c].try = ctl[c].try BY <1>0, <2>1 DEF Typed, Local
  <2> QED BY <1>0, <2>1, <2>2 DEF MayReserve, Before, After
<1> QED BY <1>1, <1>2, <1>3, <1>4, CallEffect

(* Only a reservation touches the table. *)
LEMMA StoreEffect ==
  ASSUME Typed, [Next]_vars
  PROVE  \/ UNCHANGED <<rows, log>>
         \/ \E c \in Calls : Reserve(c) \/ ReserveUnreported(c)
<1>1. CASE Tick \/ Finished \/ UNCHANGED vars BY <1>1 DEF Tick, Finished, vars, state
<1>2. ASSUME NEW c \in Calls, Start(c) \/ Cancel(c) \/ TakeSlot(c) \/ GiveUp(c) \/ Deny(c)
      PROVE  UNCHANGED <<rows, log>>
  BY <1>2 DEF Start, Cancel, TakeSlot, GiveUp, Deny, state
<1>3. ASSUME NEW c \in Calls, AbandonPermit(c) \/ Send(c) \/ Reply(c) \/ RecordFails(c) \/ Wake(c)
      PROVE  UNCHANGED <<rows, log>>
  BY <1>3 DEF AbandonPermit, Send, Reply, RecordFails, Wake, state
<1>4. ASSUME NEW c \in Calls, Record(c) \/ Yield(c) PROVE UNCHANGED <<rows, log>>
  BY <1>4 DEF Record, Yield, Recorded, state
<1>5. ASSUME NEW p \in Procs, Crash(p) PROVE UNCHANGED <<rows, log>> BY <1>5 DEF Crash, state
<1> QED BY <1>1, <1>2, <1>3, <1>4, <1>5 DEF Next, Proceed

(* The attempts that count at the time of a reservation are no more than    *)
(* the rows that count at the clock reading it uses.                        *)
LEMMA WindowFits ==
  ASSUME Base, QuotaInv, NEW n \in Nat, n <= now
  PROVE  LET W == {q \in log : now + Skew < q.commit + Window}
         IN  IsFiniteSet(W) /\ Cardinality(W) <= Cardinality(Counted(n))
             /\ IsFiniteSet(Counted(n))
<1> DEFINE W == {q \in log : now + Skew < q.commit + Window}
           f == [q \in W |-> CHOOSE r \in Counted(n) : Covers(r, q)]
<1>0. Typed BY DEF Base
<1>1. now \in Nat /\ log \subseteq Logged /\ rows \subseteq Row BY <1>0 DEF Typed
<1>2. IsFiniteSet(Counted(n)) BY FS_Subset DEF QuotaInv, Counted
<1>3. ASSUME NEW q \in W PROVE \E r \in Counted(n) : Covers(r, q)
  <2>1. PICK r \in rows : Covers(r, q) BY DEF QuotaInv
  <2>2. r.at \in Nat /\ q.commit \in Nat BY <1>1 DEF Row, Logged
  <2>3. r.at + Window > n BY <1>1, <2>1, <2>2 DEF Covers
  <2> QED BY <2>1, <2>3 DEF Counted
<1>4. \A q \in W : f[q] \in Counted(n) /\ Covers(f[q], q) BY <1>3
<1>5. f \in Injection(W, Counted(n))
  <2>1. f \in [W -> Counted(n)] BY <1>4
  <2>2. ASSUME NEW q \in W, NEW r \in W, f[q] = f[r] PROVE q = r
    <3>1. Covers(f[q], q) /\ Covers(f[q], r) BY <1>4, <2>2
    <3>2. q.call = r.call /\ q.try = r.try BY <3>1 DEF Covers
    <3> QED BY <3>2 DEF QuotaInv
  <2> HIDE DEF f, W
  <2> QED BY <2>1, <2>2, Fun_IsInj
<1> HIDE DEF f, W
<1>6. IsFiniteSet(W) /\ Cardinality(W) <= Cardinality(Counted(n)) BY <1>2, <1>5, FS_Injection
<1> QED BY <1>2, <1>6 DEF W

(* What a committed reservation leaves: facts shared by the two ways it can *)
(* be reported.                                                             *)
LEMMA ReservedFacts ==
  ASSUME Base, [Next]_vars, NEW c \in Calls, Reserve(c) \/ ReserveUnreported(c)
  PROVE  /\ Admitted(c) /\ ~Refused(c, ctl[c].at) /\ ctl[c].pc = "reserve" /\ now' = now
         /\ ctl[c].at \in Nat /\ ctl[c].try \in Nat /\ now \in Nat
         /\ ctl[c].at <= now /\ now <= ctl[c].at + Skew
         /\ \A k \in Nat : k = ctl[c].try => ~MayReserve(c, k)'
<1>0. Typed /\ ctl[c] \in Local BY DEF Base, Typed
<1>1. ctl[c].at \in Nat /\ ctl[c].try \in Nat /\ now \in Nat BY <1>0 DEF Typed, Local
<1>2. Admitted(c) /\ ~Refused(c, ctl[c].at) /\ ctl[c].pc = "reserve" /\ now' = now
  BY DEF Reserve, ReserveUnreported, At
<1>3. ctl[c].at <= now /\ now <= ctl[c].at + Skew BY <1>2 DEF Base, CallInv, Clocked
<1>4. CASE Reserve(c)
  <2> DEFINE permit == PermitOf(circuits[Family[c]], ctl[c].at)
             local == [ctl[c] EXCEPT !.pc = "permit", !.news = {}, !.permit = permit]
  <2>1. ctl' = [ctl EXCEPT ![c] = local] BY <1>4 DEF Reserve
  <2> HIDE DEF permit
  <2>2. ctl'[c].pc = "permit" /\ ctl'[c].try = ctl[c].try BY <1>0, <2>1 DEF Typed, Local
  <2>3. \A k \in Nat : k = ctl[c].try => ~MayReserve(c, k)' BY <1>1, <2>2 DEF MayReserve, Before, After
  <2> QED BY <1>1, <1>2, <1>3, <2>3
<1>5. CASE ReserveUnreported(c)
  <2>1. PICK v : ctl' = [ctl EXCEPT ![c] = Done(c, v)] BY <1>5 DEF ReserveUnreported
  <2>2. ctl'[c].pc = "done" BY <1>0, <2>1 DEF Typed, Done, Fresh
  <2>3. \A k \in Nat : k = ctl[c].try => ~MayReserve(c, k)' BY <2>2 DEF MayReserve, Before, After
  <2> QED BY <1>1, <1>2, <1>3, <2>3
<1> QED BY <1>4, <1>5

LEMMA QuotaInit == Init => QuotaInv
<1> SUFFICES ASSUME Init PROVE QuotaInv OBVIOUS
<1>1. rows = {} /\ log = {} BY DEF Init
<1> QED BY <1>1, FS_EmptySet DEF QuotaInv, RollingQuota

LEMMA QuotaQuiet ==
  ASSUME Base, QuotaInv, [Next]_vars, UNCHANGED <<rows, log>>
  PROVE  QuotaInv'
<1>0. Typed BY DEF Base
<1>1. now \in Nat /\ now' \in Nat /\ now <= now' /\ log \subseteq Logged BY <1>0, TimePasses DEF Typed
<1>2. ASSUME NEW q \in log PROVE q.commit <= now' /\ ~MayReserve(q.call, q.try)'
  <2>1. q.call \in Calls /\ q.try \in Nat /\ q.commit \in Nat BY <1>1 DEF Logged
  <2>2. ~MayReserve(q.call, q.try) /\ q.commit <= now BY DEF QuotaInv
  <2>3. ~MayReserve(q.call, q.try)' BY <1>0, <2>1, <2>2, AttemptsRunOut
  <2> QED BY <1>1, <2>1, <2>2, <2>3
<1>3. ASSUME NEW q \in log, now' + Skew < q.commit + Window PROVE \E r \in rows : Covers(r, q)
  <2>1. q.commit \in Nat BY <1>1 DEF Logged
  <2>2. now + Skew < q.commit + Window BY <1>1, <1>3, <2>1
  <2> QED BY <2>2 DEF QuotaInv
<1>4. RollingQuota' BY DEF QuotaInv, RollingQuota
<1> QED BY <1>2, <1>3, <1>4 DEF QuotaInv, Covers

LEMMA QuotaReserve ==
  ASSUME Base, QuotaInv, [Next]_vars, NEW c \in Calls, Reserve(c) \/ ReserveUnreported(c)
  PROVE  QuotaInv'
<1> DEFINE n == ctl[c].at
           x == [call |-> c, try |-> ctl[c].try, commit |-> now]
           W == {q \in log : now + Skew < q.commit + Window}
           S(r) == {q \in log : q.commit <= r.commit /\ r.commit + Skew < q.commit + Window}
           T(r) == {q \in log' : q.commit <= r.commit /\ r.commit + Skew < q.commit + Window}
<1>0. Typed /\ log \subseteq Logged /\ rows \subseteq Row BY DEF Base, Typed
<1>1. /\ Admitted(c) /\ ~Refused(c, n) /\ ctl[c].pc = "reserve" /\ now' = now
      /\ n \in Nat /\ ctl[c].try \in Nat /\ now \in Nat
      /\ n <= now /\ now <= n + Skew
      /\ \A k \in Nat : k = ctl[c].try => ~MayReserve(c, k)'
  BY ReservedFacts
<1>2. /\ rows' = Counted(n) \cup {Reservation(c)}
      /\ log' = {l \in log : l.commit + Window > now} \cup {x}
  BY <1>1 DEF Admitted
<1>3. /\ IsFiniteSet(W) /\ Cardinality(W) <= Cardinality(Counted(n)) /\ IsFiniteSet(Counted(n))
  BY <1>1, WindowFits
<1>4. Cardinality(W) \in Nat /\ Cardinality(Counted(n)) \in Nat /\ Cardinality(W) < QuotaLimit
  <2>1. Cardinality(W) \in Nat /\ Cardinality(Counted(n)) \in Nat BY <1>3, FS_CardinalityType
  <2>2. ~(Cardinality(Counted(n)) >= QuotaLimit) BY <1>1 DEF Refused
  <2> QED BY <1>3, <2>1, <2>2
<1>5. IsFiniteSet(rows') BY <1>2, <1>3, FS_AddElement
<1>6. IsFiniteSet(log')
  <2>1. IsFiniteSet({l \in log : l.commit + Window > now}) BY FS_Subset DEF QuotaInv
  <2> QED BY <1>2, <2>1, FS_AddElement
<1>7. \A q \in log' : q \in log \/ q = x BY <1>2
<1>8. x.call = c /\ x.try = ctl[c].try /\ x.commit = now OBVIOUS
<1>9. ASSUME NEW q \in log
      PROVE  /\ q.call \in Calls /\ q.try \in Nat /\ q.commit \in Nat /\ q.commit <= now
             /\ ~MayReserve(q.call, q.try) /\ ~MayReserve(q.call, q.try)'
  <2>1. q.call \in Calls /\ q.try \in Nat /\ q.commit \in Nat BY <1>0 DEF Logged
  <2>2. ~MayReserve(q.call, q.try) /\ q.commit <= now BY DEF QuotaInv
  <2>3. ~MayReserve(q.call, q.try)' BY <1>0, <2>1, <2>2, AttemptsRunOut
  <2> QED BY <2>1, <2>2, <2>3
<1> HIDE DEF x
<1>10. ASSUME NEW q \in log' PROVE q.commit <= now' /\ ~MayReserve(q.call, q.try)'
  <2>1. CASE q = x BY <1>1, <1>8, <2>1
  <2>2. CASE q \in log BY <1>1, <1>9, <2>2
  <2> QED BY <1>7, <2>1, <2>2
<1>11. ASSUME NEW q \in log', NEW r \in log', q.call = r.call, q.try = r.try PROVE q = r
  <2>1. MayReserve(c, ctl[c].try) BY <1>1 DEF MayReserve, Before
  <2>2. \A l \in log : ~(l.call = c /\ l.try = ctl[c].try) BY <1>9, <2>1
  <2> QED BY <1>7, <1>8, <1>11, <2>2 DEF QuotaInv
<1>12. ASSUME NEW q \in log', now' + Skew < q.commit + Window PROVE \E r \in rows' : Covers(r, q)
  <2>1. CASE q = x
    <3>1. Reservation(c) \in rows' BY <1>2
    <3>2. Covers(Reservation(c), q) BY <1>1, <1>8, <2>1 DEF Covers, Reservation
    <3> QED BY <3>1, <3>2
  <2>2. CASE q \in log
    <3>1. PICK r \in rows : Covers(r, q) BY <1>1, <1>12, <2>2 DEF QuotaInv
    <3>2. r.at \in Nat /\ q.commit \in Nat BY <1>0, <2>2 DEF Row, Logged
    <3>3. r.at + Window > n BY <1>1, <1>12, <3>1, <3>2 DEF Covers
    <3> QED BY <1>2, <3>1, <3>3 DEF Counted
  <2> QED BY <1>7, <2>1, <2>2
<1>13. ASSUME NEW r \in log' PROVE Cardinality(T(r)) <= QuotaLimit
  <2>1. CASE r.commit = now
    <3>1. T(r) \subseteq W \cup {x} BY <1>7, <2>1
    <3>2. IsFiniteSet(W \cup {x}) /\ Cardinality(W \cup {x}) <= Cardinality(W) + 1
      <4> HIDE DEF W
      <4>1. /\ IsFiniteSet(W \cup {x})
            /\ Cardinality(W \cup {x}) = IF x \in W THEN Cardinality(W) ELSE Cardinality(W) + 1
        BY <1>3, FS_AddElement
      <4> QED BY <1>4, <4>1
    <3> HIDE DEF W, T
    <3>3. /\ IsFiniteSet(T(r)) /\ Cardinality(T(r)) <= Cardinality(W \cup {x})
      BY <3>1, <3>2, FS_Subset
    <3>4. Cardinality(T(r)) \in Nat /\ Cardinality(W \cup {x}) \in Nat BY <3>2, <3>3, FS_CardinalityType
    <3> QED BY <1>4, <3>2, <3>3, <3>4
  <2>2. CASE r.commit # now
    <3>1. r \in log /\ r.commit \in Nat /\ r.commit < now BY <1>1, <1>7, <1>8, <1>9, <2>2
    <3>2. T(r) \subseteq S(r) BY <1>1, <1>7, <1>8, <3>1
    <3>3. Cardinality(S(r)) <= QuotaLimit BY <3>1 DEF QuotaInv, RollingQuota
    <3>4. IsFiniteSet(S(r)) BY FS_Subset DEF QuotaInv
    <3> HIDE DEF S, T
    <3>5. IsFiniteSet(T(r)) /\ Cardinality(T(r)) <= Cardinality(S(r)) BY <3>2, <3>4, FS_Subset
    <3>6. Cardinality(T(r)) \in Nat /\ Cardinality(S(r)) \in Nat BY <3>4, <3>5, FS_CardinalityType
    <3> QED BY <3>3, <3>5, <3>6
  <2> QED BY <2>1, <2>2
<1>14. RollingQuota' BY <1>13 DEF RollingQuota
<1> HIDE DEF n, W, S, T
<1> QED BY <1>5, <1>6, <1>10, <1>11, <1>12, <1>14 DEF QuotaInv, Covers

LEMMA QuotaStep == Base /\ QuotaInv /\ [Next]_vars => QuotaInv'
<1> SUFFICES ASSUME Base, QuotaInv, [Next]_vars PROVE QuotaInv' OBVIOUS
<1>1. Typed BY DEF Base
<1> QED BY <1>1, StoreEffect, QuotaQuiet, QuotaReserve

(* The allowance holds in every rolling window, however many processes      *)
(* share the table and whichever of them die: no more attempts are admitted *)
(* than it allows, but for the delay between a clock reading and its commit. *)
THEOREM AllowanceKept == Spec => []RollingQuota
<1>1. QuotaInv => RollingQuota BY DEF QuotaInv
<1> QED BY <1>1, QuotaInit, QuotaStep, BaseInvariant, PTL DEF Spec
=============================================================================
