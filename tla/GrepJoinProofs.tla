--------------------------- MODULE GrepJoinProofs ---------------------------
(***************************************************************************)
(* Proof that a grep leaves nothing behind once it answers, for any vault, *)
(* queries, window and cancellation (AllReturned).                         *)
(*                                                                         *)
(* A file of the window is open or holds a place only while the reducer    *)
(* still has it pending or a worker scans it (JobInv), and no more files   *)
(* are scanned than there are workers: when the last one has been joined,  *)
(* what is left is pending, and the end of the call gives that back.       *)
(***************************************************************************)
EXTENDS ToolCalls, FiniteSetTheorems, TLAPS

JobFields == {"path", "entry", "size", "partial", "allowance", "events", "closed", "stage", "reserved", "open",
              "read", "scan"}
CallFields == {"pc", "o", "frames", "cand", "pending", "files", "bytes", "walkErr", "cancelled", "stopped", "answer"}

JobShape(j)  == j = [f \in JobFields |-> j[f]]
CallShape(c) == c = [f \in CallFields |-> c[f]] /\ c.pending \in Seq(Nat)

(* A file of the window, and what it holds.                                *)
Pending(k) == \E i \in DOMAIN call.pending : call.pending[i] = k

JobInv(k) ==
  /\ jobs[k].stage = "queued" => Pending(k) /\ jobs[k].events = <<>> /\ ~jobs[k].closed
  /\ jobs[k].open => jobs[k].stage \in {"queued", "scanning"}
  /\ jobs[k].reserved => Pending(k)

(* The jobs are a sequence.                                                *)
Listed == \E S : jobs \in Seq(S)

(* A call in progress, and one that has answered or has not come.          *)
Busy == call.pc \notin {"idle", "answer"}

IInv ==
  /\ CallShape(call) /\ Listed /\ workers \in Nat /\ workers >= Cardinality(Scanning)
  /\ \A k \in DOMAIN jobs : JobShape(jobs[k]) /\ (Busy => JobInv(k))
  /\ ~Busy => workers = 0 /\ queue = <<>>
  /\ call.pc = "idle" => jobs = <<>>
  /\ AllReturned

-----------------------------------------------------------------------------
(* The files under scan can be counted.                                    *)
LEMMA FiniteScanning == ASSUME Listed PROVE IsFiniteSet(Scanning)
<1>1. PICK S : jobs \in Seq(S)
  BY DEF Listed
<1>2. IsFiniteSet(1..Len(jobs))
  BY <1>1, FS_Interval
<1>3. Scanning \subseteq 1..Len(jobs)
  BY <1>1 DEF Scanning
<1> QED BY <1>2, <1>3, FS_Subset

(* Without workers no file is under scan.                                  *)
LEMMA NobodyScans == ASSUME IInv, workers = 0 PROVE Scanning = {}
<1>1. IsFiniteSet(Scanning) /\ Cardinality(Scanning) \in Nat
  BY FiniteScanning, FS_CardinalityType DEF IInv
<1>2. Cardinality(Scanning) = 0
  BY <1>1 DEF IInv
<1> QED BY <1>1, <1>2, FS_EmptySet

(* Outside a call no worker can do anything.                               *)
LEMMA IdleWorkers == ASSUME IInv, ~Busy PROVE ~Worker
<1>1. workers = 0 /\ Scanning = {}
  BY NobodyScans DEF IInv
<1>2. Cardinality(Scanning) = 0
  BY <1>1, FS_EmptySet
<1>3. ~(Free > 0)
  BY <1>1, <1>2 DEF Free
<1> QED BY <1>1, <1>3 DEF Worker, TakeJob, LeaveWorker

(* A step of a call that goes on and leaves the jobs to the workers.       *)
Onwards ==
  /\ UNCHANGED <<jobs, queue, workers>> /\ CallShape(call') /\ call'.pending = call.pending
  /\ Busy /\ Busy'

(* Such a step keeps what the jobs hold.                                   *)
LEMMA OnwardsKeeps == ASSUME IInv, Onwards PROVE IInv'
<1>1. Scanning' = Scanning
  BY DEF Onwards, Scanning
<1>2. \A k : Pending(k)' <=> Pending(k)
  BY DEF Onwards, Pending
<1>3. \A k \in DOMAIN jobs : JobInv(k)'
  BY <1>2 DEF IInv, JobInv, Onwards
<1> QED BY <1>1, <1>3 DEF IInv, Onwards, Busy, Listed, AllReturned

(* The steps of the walk are such steps.                                   *)
LEMMA WalkOnwards ==
  ASSUME IInv, \/ PathStep \/ PathEnd \/ NoticeCancel \/ ScanDirectory \/ ScannedDirectory \/ Descend \/ VisitNext
               \/ VerifyDirectory \/ EndOfWalk \/ Visit \/ OpenPath \/ VisitResume \/ MakeRoom \/ Drained
  PROVE  Onwards
<1> CallShape(call)
  BY DEF IInv
<1> USE DEF Onwards, Busy, CallShape, CallFields, Quiet, Go, WalkError
<1>1. CASE PathStep
  BY <1>1 DEF PathStep
<1>2. CASE PathEnd
  BY <1>2 DEF PathEnd
<1>3. CASE NoticeCancel
  BY <1>3 DEF NoticeCancel
<1>4. CASE ScanDirectory
  BY <1>4 DEF ScanDirectory
<1>5. CASE ScannedDirectory
  BY <1>5 DEF ScannedDirectory
<1>6. CASE Descend
  BY <1>6 DEF Descend
<1>7. CASE VisitNext
  BY <1>7 DEF VisitNext
<1>8. CASE VerifyDirectory
  BY <1>8 DEF VerifyDirectory
<1>9. CASE EndOfWalk
  BY <1>9 DEF EndOfWalk
<1>10. CASE Visit
  BY <1>10 DEF Visit
<1>11. CASE OpenPath
  BY <1>11 DEF OpenPath
<1>12. CASE VisitResume
  <2>1. AfterFile \in {"final", "next"}
    BY DEF AfterFile
  <2> QED BY <1>12, <2>1 DEF VisitResume, Ready
<1>13. CASE MakeRoom
  <2> DEFINE pc == CASE Len(call.pending) = Window -> "window"
                     [] Len(call.pending) < Window /\ call.files >= run.query.files -> "files"
                     [] Len(call.pending) < Window /\ call.files < run.query.files /\ call.bytes >= run.query.bytes -> "bytes"
                     [] OTHER -> "open"
  <2>1. pc \in {"window", "files", "bytes", "open"}
    OBVIOUS
  <2>2. Quiet /\ call.pc = "schedule" /\ call' = [call EXCEPT !.pc = pc]
    BY <1>13 DEF MakeRoom
  <2> HIDE DEF pc
  <2> QED BY <2>1, <2>2
<1>14. CASE Drained
  BY <1>14 DEF Drained, Draining, Limited
<1> QED BY <1>1, <1>2, <1>3, <1>4, <1>5, <1>6, <1>7, <1>8, <1>9, <1>10, <1>11, <1>12, <1>13, <1>14

(***************************************************************************)
(* The steps on the jobs.                                                  *)
(***************************************************************************)
(* One job is changed.                                                     *)
LEMMA OneJob ==
  ASSUME IInv, NEW k \in DOMAIN jobs, NEW j, JobShape(j), jobs' = [jobs EXCEPT ![k] = j],
         Busy, Busy', CallShape(call'), workers' \in Nat, workers' >= Cardinality(Scanning'),
         \A i \in DOMAIN jobs \ {k} : Pending(i) => Pending(i)',
         JobInv(k)'
  PROVE  IInv'
<1>1. PICK S : jobs \in Seq(S)
  BY DEF IInv, Listed
<1>2. jobs' \in Seq(S \cup {j}) /\ DOMAIN jobs' = DOMAIN jobs /\ jobs'[k] = j
  BY <1>1
<1>3. \A i \in DOMAIN jobs \ {k} : jobs'[i] = jobs[i]
  BY <1>1
<1>4. \A i \in DOMAIN jobs \ {k} : JobShape(jobs'[i]) /\ JobInv(i)'
  BY <1>3 DEF IInv, JobInv
<1> QED BY <1>2, <1>4 DEF IInv, Listed, Busy, AllReturned

(* None is.                                                                *)
LEMMA SameJobs ==
  ASSUME IInv, Busy, jobs' = jobs, call' = call, workers' \in Nat, workers' >= Cardinality(Scanning)
  PROVE  IInv'
<1>1. Scanning' = Scanning
  BY DEF Scanning
<1>2. \A k \in DOMAIN jobs : JobInv(k)'
  BY DEF IInv, JobInv, Pending
<1>3. Listed' /\ Busy'
  BY DEF IInv, Listed, Busy
<1> QED BY <1>1, <1>2, <1>3 DEF IInv, Busy, AllReturned

(* An idle worker takes a file; no more are scanned than there are workers.*)
LEMMA TakeKeeps == ASSUME IInv, TakeJob PROVE IInv'
<1>1. Busy
  BY IdleWorkers DEF Worker
<1>2. PICK k : k = Head(queue)
  OBVIOUS
<1>3. PICK scan : jobs' = [jobs EXCEPT ![k].stage = "scanning", ![k].scan = scan]
  BY <1>2 DEF TakeJob
<1>4. UNCHANGED <<call, workers>> /\ Free > 0
  BY DEF TakeJob
<1>5. CASE k \notin DOMAIN jobs
  <2>1. jobs' = jobs
    <3>1. PICK S : jobs \in Seq(S)
      BY DEF IInv, Listed
    <3>2. jobs = [i \in DOMAIN jobs |-> jobs[i]]
      BY <3>1
    <3>3. PICK f : f = [jobs EXCEPT ![k].stage = "scanning"]
      OBVIOUS
    <3>4. f = jobs
      BY <1>5, <3>2, <3>3
    <3>5. jobs' = [f EXCEPT ![k].scan = scan]
      BY <1>3, <3>3
    <3> QED BY <1>5, <3>2, <3>4, <3>5
  <2>2. workers' \in Nat /\ workers' >= Cardinality(Scanning)
    BY <1>4 DEF IInv
  <2> QED BY <1>1, <1>4, <2>1, <2>2, SameJobs
<1>6. CASE k \in DOMAIN jobs
  <2>1. PICK j : j = [jobs[k] EXCEPT !.stage = "scanning", !.scan = scan]
    OBVIOUS
  <2>2. JobShape(j) /\ j.stage = "scanning" /\ j.open = jobs[k].open /\ j.reserved = jobs[k].reserved
    BY <1>6, <2>1 DEF IInv, JobShape, JobFields
  <2>3. jobs' = [jobs EXCEPT ![k] = j]
    BY <1>3, <2>1
  <2>4. jobs'[k] = j /\ Scanning' \subseteq Scanning \cup {k}
    BY <1>6, <2>2, <2>3 DEF Scanning
  <2>5. \A i : Pending(i)' <=> Pending(i)
    BY <1>4 DEF Pending
  <2>6. JobInv(k)'
    <3>1. JobInv(k)
      BY <1>1, <1>6 DEF IInv
    <3> QED BY <2>2, <2>4, <2>5, <3>1 DEF JobInv
  <2>7. IsFiniteSet(Scanning) /\ Cardinality(Scanning) \in Nat
    BY FiniteScanning, FS_CardinalityType DEF IInv
  <2>8. Cardinality(Scanning') \in Nat /\ Cardinality(Scanning') <= Cardinality(Scanning) + 1
    <3>1. /\ IsFiniteSet(Scanning \cup {k}) /\ Cardinality(Scanning \cup {k}) <= Cardinality(Scanning) + 1
          /\ Cardinality(Scanning \cup {k}) \in Nat
      BY <2>7, FS_AddElement, FS_CardinalityType
    <3>2. IsFiniteSet(Scanning') /\ Cardinality(Scanning') <= Cardinality(Scanning \cup {k})
      BY <2>4, <3>1, FS_Subset
    <3> QED BY <2>7, <3>1, <3>2, FS_CardinalityType
  <2>9. workers' \in Nat /\ workers' >= Cardinality(Scanning')
    BY <1>4, <2>7, <2>8 DEF IInv, Free
  <2>10. CallShape(call') /\ Busy'
    BY <1>1, <1>4 DEF IInv, Busy
  <2> QED BY <1>1, <1>6, <2>2, <2>3, <2>5, <2>6, <2>9, <2>10, OneJob
<1> QED BY <1>5, <1>6

(* A worker that leaves was not scanning.                                  *)
LEMMA LeaveKeeps == ASSUME IInv, LeaveWorker PROVE IInv'
<1>1. Busy
  BY IdleWorkers DEF Worker
<1>2. Cardinality(Scanning) \in Nat
  BY FiniteScanning, FS_CardinalityType DEF IInv
<1>3. workers' \in Nat /\ workers' >= Cardinality(Scanning)
  BY <1>2 DEF LeaveWorker, Free, IInv
<1> QED BY <1>1, <1>3, SameJobs DEF LeaveWorker

(* A worker goes on with its file, or is done with it and closes it.       *)
LEMMA ScanKeeps ==
  ASSUME IInv, Busy, NEW k \in Scanning, NEW j, JobShape(j), jobs' = [jobs EXCEPT ![k] = j],
         UNCHANGED <<call, workers, queue>>, j.reserved = jobs[k].reserved,
         j.stage = "scanning" \/ (j.stage = "done" /\ ~j.open)
  PROVE  IInv'
<1>1. k \in DOMAIN jobs /\ jobs[k].stage = "scanning" /\ JobInv(k)
  BY DEF Scanning, IInv
<1>2. Scanning' \subseteq Scanning
  BY <1>1 DEF Scanning
<1>3. workers' \in Nat /\ workers' >= Cardinality(Scanning')
  <2>1. /\ Cardinality(Scanning) \in Nat /\ Cardinality(Scanning') \in Nat
        /\ Cardinality(Scanning') <= Cardinality(Scanning)
    BY <1>2, FiniteScanning, FS_CardinalityType, FS_Subset DEF IInv
  <2> QED BY <2>1 DEF IInv
<1>4. \A i : Pending(i)' <=> Pending(i)
  BY DEF Pending
<1>5. JobInv(k)'
  BY <1>1, <1>4 DEF JobInv
<1>6. CallShape(call') /\ Busy'
  BY DEF IInv, Busy
<1> QED BY <1>1, <1>3, <1>4, <1>5, <1>6, OneJob

(* A read changes nothing that is held.                                    *)
LEMMA ReadKeeps == ASSUME IInv, NEW k \in Scanning, ReadFile(k) PROVE IInv'
<1>1. Busy
  BY IdleWorkers DEF Worker
<1>2. JobShape(jobs[k]) /\ jobs[k].stage = "scanning"
  BY DEF IInv, Scanning
<1>3. PICK read, scan : jobs' = [jobs EXCEPT ![k].read = read, ![k].scan = scan]
  BY DEF ReadFile
<1>4. PICK j : j = [jobs[k] EXCEPT !.read = read, !.scan = scan]
  OBVIOUS
<1>5. JobShape(j) /\ j.stage = "scanning" /\ j.reserved = jobs[k].reserved
  BY <1>2, <1>4 DEF JobShape, JobFields
<1>6. jobs' = [jobs EXCEPT ![k] = j]
  BY <1>3, <1>4
<1> QED BY <1>1, <1>5, <1>6, ScanKeeps DEF ReadFile

(* A file is closed by the step that ends its scan.                        *)
LEMMA SendKeeps == ASSUME IInv, NEW k \in Scanning, SendEvent(k) PROVE IInv'
<1>1. Busy
  BY IdleWorkers DEF Worker
<1>2. JobShape(jobs[k]) /\ jobs[k].stage = "scanning"
  BY DEF IInv, Scanning
<1> DEFINE sent == [jobs[k] EXCEPT !.events = Append(@, Head(jobs[k].scan.events)), !.scan.events = Tail(@)]
           shut == [jobs[k] EXCEPT !.closed = TRUE, !.stage = "done", !.open = FALSE, !.scan = ScanStart(jobs[k].partial)]
           last == [shut EXCEPT !.events = sent.events]
<1>3. jobs' = [jobs EXCEPT ![k] = sent] \/ jobs' = [jobs EXCEPT ![k] = shut] \/ jobs' = [jobs EXCEPT ![k] = last]
  BY DEF SendEvent
<1>4. JobShape(sent) /\ sent.stage = "scanning" /\ sent.reserved = jobs[k].reserved
  BY <1>2 DEF JobShape, JobFields
<1>5. JobShape(shut) /\ shut.stage = "done" /\ ~shut.open /\ shut.reserved = jobs[k].reserved
  BY <1>2 DEF JobShape, JobFields
<1> HIDE DEF sent
<1>6. JobShape(last) /\ last.stage = "done" /\ ~last.open /\ last.reserved = jobs[k].reserved
  BY <1>5 DEF JobShape, JobFields
<1> HIDE DEF shut, last
<1>7. PICK j : /\ jobs' = [jobs EXCEPT ![k] = j] /\ JobShape(j) /\ j.reserved = jobs[k].reserved
               /\ j.stage = "scanning" \/ (j.stage = "done" /\ ~j.open)
  BY <1>3, <1>4, <1>5, <1>6
<1> QED BY <1>1, <1>7, ScanKeeps DEF SendEvent

(***************************************************************************)
(* The caller's steps on the jobs.                                         *)
(***************************************************************************)
(* A file is added to the window.                                          *)
LEMMA AddedJob ==
  ASSUME IInv, Busy, Busy', NEW j, JobShape(j), jobs' = Append(jobs, j), CallShape(call'),
         workers' \in Nat, workers' >= workers, j.stage # "scanning",
         call'.pending = Append(call.pending, Len(jobs) + 1),
         j.stage = "queued" => j.events = <<>> /\ ~j.closed, j.open => j.stage = "queued"
  PROVE  IInv'
<1>1. PICK S : jobs \in Seq(S)
  BY DEF IInv, Listed
<1>0. PICK n : n = Len(jobs) + 1
  OBVIOUS
<1>2. /\ jobs' \in Seq(S \cup {j}) /\ DOMAIN jobs' = DOMAIN jobs \cup {n}
      /\ jobs'[n] = j /\ n \notin DOMAIN jobs
      /\ \A i \in DOMAIN jobs : jobs'[i] = jobs[i]
  BY <1>0, <1>1
<1>3. Scanning' = Scanning
  BY <1>2 DEF Scanning
<1>4. workers' >= Cardinality(Scanning')
  <2>1. Cardinality(Scanning) \in Nat
    BY FiniteScanning, FS_CardinalityType DEF IInv
  <2> QED BY <1>3, <2>1 DEF IInv
<1>5. call.pending \in Seq(Nat) /\ n \in Nat
  BY <1>0, <1>1 DEF IInv, CallShape
<1>6. Pending(n)' /\ \A i : Pending(i) => Pending(i)'
  <2>1. /\ DOMAIN call'.pending = DOMAIN call.pending \cup {Len(call.pending) + 1}
        /\ call'.pending[Len(call.pending) + 1] = n
        /\ \A i \in DOMAIN call.pending : call'.pending[i] = call.pending[i]
    BY <1>0, <1>5
  <2>2. \E i \in DOMAIN call'.pending : call'.pending[i] = n
    BY <2>1
  <2> QED BY <2>1, <2>2 DEF Pending
<1>7. \A i \in DOMAIN jobs : JobShape(jobs'[i]) /\ JobInv(i)'
  BY <1>2, <1>6 DEF IInv, JobInv
<1>8. JobInv(n)'
  BY <1>2, <1>6 DEF JobInv
<1> QED BY <1>2, <1>4, <1>7, <1>8 DEF IInv, Listed, Busy, AllReturned

(* The window stays a sequence of numbers of jobs.                         *)
LEMMA WindowGrows == ASSUME IInv PROVE Append(call.pending, Len(jobs) + 1) \in Seq(Nat)
<1>1. PICK S : jobs \in Seq(S)
  BY DEF IInv, Listed
<1>2. Len(jobs) + 1 \in Nat /\ call.pending \in Seq(Nat)
  BY <1>1 DEF IInv, CallShape
<1> QED BY <1>2

(* A scheduled file is pending before anyone scans it.                     *)
LEMMA ScheduleKeeps == ASSUME IInv, ScheduleNothing \/ ScheduleJob PROVE IInv'
<1>0. Busy
  BY DEF ScheduleNothing, ScheduleJob, Ready, Busy
<1>1. CASE ScheduleNothing
  <2>1. CASE Opened # "opened" \/ Stale
    <3>1. PICK code : jobs' = Append(jobs, errorJob(code))
      BY <1>1, <2>1 DEF ScheduleNothing, Pushed
    <3>2. /\ call' = [call EXCEPT !.pc = "final", !.pending = Append(@, Len(jobs) + 1)]
          /\ UNCHANGED <<queue, workers>>
      BY <1>1, <2>1 DEF ScheduleNothing
    <3>3. PICK j : j = errorJob(code)
      OBVIOUS
    <3>4. JobShape(j) /\ j.stage = "none" /\ j.open = FALSE
      BY <3>3 DEF errorJob, Job, JobShape, JobFields
    <3>5. CallShape(call') /\ Busy' /\ call'.pending = Append(call.pending, Len(jobs) + 1)
      <4>1. PICK p : p = Append(call.pending, Len(jobs) + 1)
        OBVIOUS
      <4>2. p \in Seq(Nat)
        BY <4>1, WindowGrows
      <4>3. call' = [call EXCEPT !.pc = "final", !.pending = p]
        BY <3>2, <4>1
      <4> QED BY <4>1, <4>2, <4>3 DEF IInv, CallShape, CallFields, Busy
    <3>6. workers' \in Nat /\ workers' >= workers
      BY <3>2 DEF IInv
    <3> QED BY <1>0, <3>1, <3>2, <3>3, <3>4, <3>5, <3>6, AddedJob
  <2>2. CASE Limited("byte_limit") /\ Quiet
    <3>1. Onwards
      BY <1>0, <2>2 DEF Onwards, Busy, CallShape, CallFields, Quiet, Go, WalkError, Limited, IInv
    <3> QED BY <3>1, OnwardsKeeps
  <2> QED BY <1>1, <2>1, <2>2 DEF ScheduleNothing
<1>2. CASE ScheduleJob
  <2>1. /\ workers' = workers \/ workers' = workers + 1
    BY <1>2 DEF ScheduleJob
  <2>2. workers' \in Nat /\ workers' >= workers
    BY <2>1 DEF IInv
  <2>3. PICK job : job = Job(File, Partial, Allowance)
    OBVIOUS
  <2>4. PICK shut : shut = [job EXCEPT !.events = <<[kind |-> "error", code |-> "canceled"]>>, !.closed = TRUE,
                                        !.stage = "none", !.open = FALSE]
    OBVIOUS
  <2>5. JobShape(job) /\ job.stage = "queued" /\ job.events = <<>> /\ ~job.closed
    BY <2>3 DEF Job, JobShape, JobFields
  <2>6. JobShape(shut) /\ shut.stage = "none" /\ ~shut.open
    BY <2>4, <2>5 DEF JobShape, JobFields
  <2>7. jobs' = Append(jobs, job) \/ jobs' = Append(jobs, shut)
    BY <1>2, <2>3, <2>4 DEF ScheduleJob, Pushed
  <2>8. CallShape(call') /\ Busy' /\ call'.pending = Append(call.pending, Len(jobs) + 1)
    <3>1. PICK p : p = Append(call.pending, Len(jobs) + 1)
      OBVIOUS
    <3>2. PICK next : next = [call EXCEPT !.pending = p, !.files = @ + 1, !.bytes = @ + Allowance]
      OBVIOUS
    <3>3. CallShape(next) /\ next.pending = Append(call.pending, Len(jobs) + 1)
      <4>1. p \in Seq(Nat)
        BY <3>1, WindowGrows
      <4> QED BY <3>1, <3>2, <4>1 DEF IInv, CallShape, CallFields
    <3>4. call' = [next EXCEPT !.pc = AfterFile] \/ call' = [next EXCEPT !.pc = "final", !.walkErr = "canceled"]
      BY <1>2, <3>1, <3>2 DEF ScheduleJob
    <3>5. AfterFile \in {"final", "next"}
      BY DEF AfterFile
    <3> QED BY <3>3, <3>4, <3>5 DEF CallShape, CallFields, Busy
  <2> QED BY <1>0, <2>2, <2>5, <2>6, <2>7, <2>8, AddedJob
<1> QED BY <1>1, <1>2

(* The reducer takes an event of the oldest file, and has done with it.    *)
LEMMA ReduceKeeps == ASSUME IInv, ReduceEvent \/ ReduceClosed PROVE IInv'
<1>0. Busy /\ call.pending \in Seq(Nat) /\ call.pending # <<>>
  BY DEF ReduceEvent, ReduceClosed, Draining, Busy, IInv, CallShape
<1>1. PICK k : k = call.pending[1]
  OBVIOUS
<1>2. UNCHANGED <<queue, workers>> /\ (jobs[k].events # <<>> \/ jobs[k].closed)
  BY <1>1 DEF ReduceEvent, ReduceClosed, Oldest
<1>3. RemoveAt(call.pending, 1) = Tail(call.pending) /\ Tail(call.pending) \in Seq(Nat)
  BY <1>0 DEF RemoveAt
<1>4. PICK p : p = Popped
  OBVIOUS
<1>5. CallShape(p) /\ p.pc = call.pc /\ p.pending = Tail(call.pending)
  BY <1>3, <1>4 DEF Popped, Oldest, IInv, CallShape, CallFields
<1>6. \A page : /\ CallShape(Reduced(p, page)) /\ Reduced(p, page).pending = p.pending
                /\ Reduced(p, page).pc \notin {"idle", "answer"}
  <2> SUFFICES ASSUME NEW page PROVE /\ CallShape(Reduced(p, page)) /\ Reduced(p, page).pending = p.pending
                                     /\ Reduced(p, page).pc \notin {"idle", "answer"}
    OBVIOUS
  <2>1. \/ Reduced(p, page) = [p EXCEPT !.pc = "join"] \/ Reduced(p, page) = [p EXCEPT !.pc = "schedule"]
        \/ Reduced(p, page) = [p EXCEPT !.pc = "final", !.walkErr = page.err] \/ Reduced(p, page) = p
    BY DEF Reduced
  <2> QED BY <1>0, <1>5, <2>1 DEF CallShape, CallFields, Busy
<1>7. CallShape(call') /\ Busy' /\ (call'.pending = call.pending \/ call'.pending = Tail(call.pending))
  <2>1. CASE call' = call
    BY <1>0, <2>1 DEF IInv, Busy
  <2>2. ASSUME NEW page, call' = Reduced(p, page) PROVE CallShape(call') /\ Busy' /\ call'.pending = Tail(call.pending)
    BY <1>5, <1>6, <2>2 DEF Busy
  <2>3. ASSUME NEW page, NEW stopped, call' = [Reduced(p, page) EXCEPT !.stopped = stopped]
        PROVE  CallShape(call') /\ Busy' /\ call'.pending = Tail(call.pending)
    <3>1. PICK q : q = Reduced(p, page)
      OBVIOUS
    <3>2. CallShape(q) /\ q.pending = Tail(call.pending) /\ q.pc \notin {"idle", "answer"}
      BY <1>5, <1>6, <3>1
    <3>3. call' = [q EXCEPT !.stopped = stopped]
      BY <2>3, <3>1
    <3> QED BY <3>2, <3>3 DEF CallShape, CallFields, Busy
  <2>4. CASE ReduceEvent
    <3>1. call' = call \/ \E page, stopped : call' = [Reduced(p, page) EXCEPT !.stopped = stopped]
      BY <1>4, <2>4 DEF ReduceEvent
    <3> QED BY <2>1, <2>3, <3>1
  <2>5. CASE ReduceClosed
    <3>1. \E page : call' = Reduced(p, page)
      BY <1>4, <2>5 DEF ReduceClosed
    <3> QED BY <2>2, <3>1
  <2> QED BY <2>4, <2>5
<1>8. \A i : Pending(i) /\ i # k => Pending(i)'
  <2> SUFFICES ASSUME NEW i, NEW m \in DOMAIN call.pending, call.pending[m] = i, i # k
               PROVE  \E n \in DOMAIN call'.pending : call'.pending[n] = i
    BY DEF Pending
  <2>1. CASE call'.pending = call.pending
    BY <2>1
  <2>2. CASE call'.pending = Tail(call.pending)
    <3>1. PICK w : w = call.pending
      OBVIOUS
    <3>2. w \in Seq(Nat) /\ w # <<>> /\ m \in DOMAIN w /\ w[m] = i /\ w[1] = k
      BY <1>0, <1>1, <3>1
    <3>3. m \in 2..Len(w)
      BY <3>2
    <3>4. m - 1 \in DOMAIN Tail(w) /\ Tail(w)[m - 1] = i
      BY <3>2, <3>3
    <3> QED BY <2>2, <3>1, <3>4
  <2> QED BY <1>7, <2>1, <2>2
<1>9. \A i \in DOMAIN jobs \ {k} : jobs'[i] = jobs[i]
  BY <1>1 DEF ReduceEvent, ReduceClosed, Oldest
<1>10. ASSUME k \in DOMAIN jobs
       PROVE  /\ JobShape(jobs'[k]) /\ jobs'[k].stage = jobs[k].stage /\ jobs'[k].open = jobs[k].open
              /\ jobs'[k].reserved => jobs[k].reserved /\ call' = call
  <2>1. JobShape(jobs[k])
    BY <1>10 DEF IInv
  <2>2. CASE ReduceEvent
    <3>1. PICK over : /\ jobs' = [jobs EXCEPT ![k].events = Tail(@), ![k].reserved = @ /\ ~over]
                      /\ ~over => call' = call
      BY <1>1, <2>2 DEF ReduceEvent, Oldest
    <3>2. PICK j : j = [jobs[k] EXCEPT !.events = Tail(@), !.reserved = @ /\ ~over]
      OBVIOUS
    <3>3. jobs'[k] = j
      BY <1>10, <3>1, <3>2
    <3>4. JobShape(j) /\ j.stage = jobs[k].stage /\ j.open = jobs[k].open /\ (j.reserved => jobs[k].reserved /\ ~over)
      BY <2>1, <3>2 DEF JobShape, JobFields
    <3> QED BY <3>1, <3>3, <3>4
  <2>3. CASE ReduceClosed
    <3>1. jobs' = [jobs EXCEPT ![k].reserved = FALSE]
      BY <1>1, <2>3 DEF ReduceClosed, Oldest
    <3>2. PICK j : j = [jobs[k] EXCEPT !.reserved = FALSE]
      OBVIOUS
    <3>3. jobs'[k] = j
      BY <1>10, <3>1, <3>2
    <3>4. JobShape(j) /\ j.stage = jobs[k].stage /\ j.open = jobs[k].open /\ ~j.reserved
      BY <2>1, <3>2 DEF JobShape, JobFields
    <3> QED BY <3>3, <3>4
  <2> QED BY <2>2, <2>3
<1>11. Listed' /\ DOMAIN jobs' = DOMAIN jobs
  <2>1. PICK S : jobs \in Seq(S)
    BY DEF IInv, Listed
  <2>2. DOMAIN jobs' = DOMAIN jobs
    BY DEF ReduceEvent, ReduceClosed
  <2>3. PICK j : jobs' = [jobs EXCEPT ![k] = j]
    BY <1>1 DEF ReduceEvent, ReduceClosed, Oldest
  <2>4. CASE k \in DOMAIN jobs
    <3>1. jobs' \in Seq(S \cup {j})
      BY <2>1, <2>3, <2>4
    <3> QED BY <2>2, <3>1 DEF Listed
  <2>5. CASE k \notin DOMAIN jobs
    <3>1. jobs = [i \in DOMAIN jobs |-> jobs[i]]
      BY <2>1
    <3>2. jobs' = jobs
      BY <2>3, <2>5, <3>1
    <3> QED BY <2>1, <2>2, <3>2 DEF Listed
  <2> QED BY <2>4, <2>5
<1>12. ASSUME NEW i \in DOMAIN jobs PROVE JobShape(jobs'[i]) /\ jobs'[i].stage = jobs[i].stage /\ JobInv(i)'
  <2>1. JobShape(jobs[i]) /\ JobInv(i)
    BY <1>0, <1>12 DEF IInv
  <2>2. CASE i # k
    <3>1. jobs'[i] = jobs[i]
      BY <1>9, <1>12, <2>2
    <3> QED BY <1>8, <2>1, <2>2, <3>1 DEF JobInv
  <2>3. CASE i = k
    <3>1. jobs[k].stage # "queued"
      BY <1>2, <2>1, <2>3 DEF JobInv
    <3>2. call' = call => (Pending(i)' <=> Pending(i))
      BY DEF Pending
    <3> QED BY <1>10, <1>12, <2>1, <2>3, <3>1, <3>2 DEF JobInv
  <2> QED BY <2>2, <2>3
<1>13. Scanning' = Scanning
  BY <1>11, <1>12 DEF Scanning
<1> QED BY <1>0, <1>2, <1>7, <1>11, <1>12, <1>13 DEF IInv, Busy, AllReturned

(***************************************************************************)
(* The client, and the end of a call.                                      *)
(***************************************************************************)
LEMMA AnswerKeeps == ASSUME IInv, Answer PROVE IInv'
<1>1. workers = 0 /\ call.pc = "join" /\ Busy /\ Scanning = {}
  BY NobodyScans DEF Answer, Joined, Busy
<1>2. CallShape(call') /\ call'.pc = "answer" /\ queue' = <<>> /\ workers' = 0
  <2>1. PICK answer : call' = [call EXCEPT !.pc = "answer", !.pending = <<>>, !.answer = answer]
    BY DEF Answer
  <2>2. PICK c : c = [call EXCEPT !.pc = "answer"]
    OBVIOUS
  <2>3. c = [f \in CallFields |-> c[f]] /\ c.pc = "answer"
    BY <2>2 DEF IInv, CallShape, CallFields
  <2>4. PICK d : d = [c EXCEPT !.pending = <<>>]
    OBVIOUS
  <2>5. d = [f \in CallFields |-> d[f]] /\ d.pc = "answer" /\ d.pending = <<>>
    BY <2>3, <2>4 DEF CallFields
  <2>6. call' = [d EXCEPT !.answer = answer]
    BY <2>1, <2>2, <2>4
  <2>7. PICK e : e = [d EXCEPT !.answer = answer]
    OBVIOUS
  <2>8. e = [f \in CallFields |-> e[f]]
    BY <2>5, <2>7 DEF CallFields
  <2>9. e.pc = "answer" /\ e.pending = <<>>
    BY <2>5, <2>7 DEF CallFields
  <2>10. CallShape(e)
    <3>1. <<>> \in Seq(Nat)
      OBVIOUS
    <3>2. e.pending \in Seq(Nat)
      BY <2>9, <3>1
    <3> QED BY <2>8, <3>2 DEF CallShape
  <2>11. call' = e
    BY <2>6, <2>7
  <2>12. CallShape(call') /\ call'.pc = "answer"
    BY <2>9, <2>10, <2>11
  <2> QED BY <1>1, <2>12 DEF Answer
<1>3. jobs' = [k \in DOMAIN jobs |-> IF Pending(k) THEN [jobs[k] EXCEPT !.open = FALSE, !.reserved = FALSE] ELSE jobs[k]]
  BY DEF Answer, Pending
<1>4. ASSUME NEW k \in DOMAIN jobs
      PROVE  JobShape(jobs'[k]) /\ ~jobs'[k].open /\ ~jobs'[k].reserved /\ jobs'[k].stage # "scanning"
  <2>1. JobShape(jobs[k]) /\ JobInv(k) /\ jobs[k].stage # "scanning"
    BY <1>1, <1>4 DEF IInv, Scanning
  <2>2. CASE Pending(k)
    <3>1. PICK j : j = [jobs[k] EXCEPT !.open = FALSE, !.reserved = FALSE]
      OBVIOUS
    <3>2. jobs'[k] = j
      BY <1>3, <1>4, <2>2, <3>1
    <3>3. JobShape(j) /\ j.open = FALSE /\ j.reserved = FALSE /\ j.stage = jobs[k].stage
      BY <2>1, <3>1 DEF JobShape, JobFields
    <3> QED BY <2>1, <3>2, <3>3
  <2>3. CASE ~Pending(k)
    BY <1>3, <1>4, <2>1, <2>3 DEF JobInv
  <2> QED BY <2>2, <2>3
<1>5. Listed' /\ DOMAIN jobs' = DOMAIN jobs
  <2>1. PICK S : jobs \in Seq(S)
    BY DEF IInv, Listed
  <2>0. DOMAIN jobs' = DOMAIN jobs
    BY <1>3
  <2>2. DOMAIN jobs = 1..Len(jobs) /\ Len(jobs) \in Nat /\ DOMAIN jobs' = DOMAIN jobs
    BY <2>0, <2>1
  <2>3. PICK T : T = {jobs'[k] : k \in DOMAIN jobs}
    OBVIOUS
  <2>4. jobs' \in [1..Len(jobs) -> T]
    BY <1>3, <2>2, <2>3
  <2>5. jobs' \in Seq(T)
    BY <2>2, <2>4
  <2> QED BY <2>2, <2>5 DEF Listed
<1>6. Scanning' = {}
  BY <1>4, <1>5 DEF Scanning
<1> QED BY <1>2, <1>4, <1>5, <1>6, FS_EmptySet DEF IInv, Busy, AllReturned

(* Without jobs there is nothing to show but the call itself.              *)
LEMMA NoJobs ==
  ASSUME jobs' = <<>>, CallShape(call'), workers' = 0, queue' = <<>>, call'.pc # "answer"
  PROVE  IInv'
<1>1. jobs' \in Seq({}) /\ DOMAIN jobs' = {}
  OBVIOUS
<1>2. Scanning' = {}
  BY <1>1 DEF Scanning
<1> QED BY <1>1, <1>2, FS_EmptySet DEF IInv, Listed, AllReturned

(* A call that has not come is a call.                                     *)
LEMMA IdleShape == CallShape(Idle) /\ Idle.pc = "idle"
<1>1. Idle.pending = <<>> /\ <<>> \in Seq(Nat) /\ Idle.pc = "idle"
  BY DEF Idle
<1>2. Idle = [f \in CallFields |-> Idle[f]]
  BY DEF Idle, CallFields
<1> QED BY <1>1, <1>2 DEF CallShape

(* A call begins with nothing, and leaves nothing to the next.             *)
LEMMA ClientKeeps == ASSUME IInv, CallGrep \/ Take \/ Lose PROVE IInv'
<1>0. ~Busy /\ jobs' = <<>> /\ UNCHANGED <<queue, workers>>
  BY DEF CallGrep, Grep, Take, Lose, Busy
<1>1. queue' = <<>> /\ workers' = 0
  BY <1>0 DEF IInv
<1>2. CASE Take \/ Lose
  <2>1. call' = Idle
    BY <1>2 DEF Take, Lose
  <2> QED BY <1>0, <1>1, <2>1, IdleShape, NoJobs
<1>3. CASE CallGrep
  <2>1. PICK o : call' = [Idle EXCEPT !.pc = "join"] \/ call' = [Idle EXCEPT !.pc = "resolve", !.o = o]
    BY <1>3 DEF CallGrep, Grep
  <2>2. CallShape(call') /\ call'.pc # "answer"
    BY <2>1, IdleShape DEF CallShape, CallFields
  <2> QED BY <1>0, <1>1, <2>2, NoJobs
<1> QED BY <1>2, <1>3

(* A cancellation gives nothing back by itself.                            *)
LEMMA CancelKeeps == ASSUME IInv, Cancel PROVE IInv'
<1>1. Onwards
  BY DEF Cancel, Onwards, Busy, IInv, CallShape, CallFields
<1> QED BY <1>1, OnwardsKeeps

(* The invariant holds at first.                                           *)
LEMMA InitInv == Init => IInv
<1> SUFFICES ASSUME Init PROVE IInv
  OBVIOUS
<1>1. call = Idle /\ jobs = <<>> /\ queue = <<>> /\ workers = 0
  BY DEF Init, GrepInit
<1>2. jobs \in Seq({}) /\ DOMAIN jobs = {}
  BY <1>1
<1>3. Scanning = {}
  BY <1>2 DEF Scanning
<1>4. CallShape(call) /\ call.pc = "idle"
  BY <1>1, IdleShape
<1> QED BY <1>1, <1>2, <1>3, <1>4, FS_EmptySet DEF IInv, Listed, AllReturned

(* The other tools and the editors leave a grep alone.                     *)
LEMMA OthersKeep == ASSUME IInv, UNCHANGED <<call, jobs, queue, workers>> PROVE IInv'
<1>1. Scanning' = Scanning /\ (Busy' <=> Busy)
  BY DEF Scanning, Busy
<1>2. \A k \in DOMAIN jobs : JobInv(k)' <=> JobInv(k)
  BY DEF JobInv, Pending
<1>3. Listed'
  BY DEF IInv, Listed
<1> QED BY <1>1, <1>2, <1>3 DEF IInv, AllReturned

(* Every step keeps it.                                                    *)
LEMMA InvStep == IInv /\ [Next]_vars => IInv'
<1> SUFFICES ASSUME IInv, [Next]_vars PROVE IInv'
  OBVIOUS
<1>1. CASE Caller
  <2>1. CASE \/ PathStep \/ PathEnd \/ NoticeCancel \/ ScanDirectory \/ ScannedDirectory \/ Descend \/ VisitNext
             \/ VerifyDirectory \/ EndOfWalk \/ Visit \/ OpenPath \/ VisitResume \/ MakeRoom \/ Drained
    BY <2>1, WalkOnwards, OnwardsKeeps
  <2>2. CASE ScheduleNothing \/ ScheduleJob
    BY <2>2, ScheduleKeeps
  <2>3. CASE ReduceEvent \/ ReduceClosed
    BY <2>3, ReduceKeeps
  <2>4. CASE Answer
    BY <2>4, AnswerKeeps
  <2> QED BY <1>1, <2>1, <2>2, <2>3, <2>4 DEF Caller
<1>2. CASE Worker
  BY <1>2, TakeKeeps, LeaveKeeps, ReadKeeps, SendKeeps DEF Worker
<1>3. CASE GrepClient
  BY <1>3, ClientKeeps, CancelKeeps DEF GrepClient
<1>4. CASE \/ ListCaller \/ ListClient \/ ReadCaller \/ ReadClient \/ BatchCall \/ BatchWorld \/ Editing
           \/ UNCHANGED vars
  <2>1. UNCHANGED <<call, jobs, queue, workers>>
    BY <1>4 DEF ListCaller, ListClient, ReadCaller, ReadClient, BatchCall, BatchWorld, Editing, GrepIdle, ListRest,
                ReadRest, BatchRest, grepVars, vars
  <2> QED BY <2>1, OthersKeep
<1> QED BY <1>1, <1>2, <1>3, <1>4 DEF Next, GrepCaller, GrepWorker

(* The inductive invariant: what a file of the window holds, somebody is   *)
(* still going to give back, and no more files are scanned than there are  *)
(* workers.                                                                *)
THEOREM Invariance == Spec => []IInv
<1>1. Init => IInv
  BY InitInv
<1>2. IInv /\ [Next]_vars => IInv'
  BY InvStep
<1> QED BY <1>1, <1>2, PTL DEF Spec

(* A grep that answers has joined every worker, closed every file and given*)
(* back every place of the window, whatever ended it: a limit, an error, a *)
(* cancellation or the end of the vault (walkConcurrent's deferred calls). *)
THEOREM NothingLeftBehind == Spec => []AllReturned
<1>1. IInv => AllReturned
  BY DEF IInv
<1> QED BY <1>1, Invariance, PTL
=============================================================================
