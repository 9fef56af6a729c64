------------------------------ MODULE VaultGrep ------------------------------
(* grep over the vault: a client follows a chain of cursors from page to    *)
(* page, and the server, which keeps nothing between two calls, walks the   *)
(* vault, lets a pool of workers scan files ahead, and reduces what they    *)
(* find in canonical order until a limit ends the page.                     *)
EXTENDS GrepScan

CONSTANTS Queries,     \* the queries: base, path, regex, context, limit, files, bytes
          Window,      \* grepWorkerCeiling
          Chunk,       \* the bytes that one read brings
          MaxCalls,    \* bound: calls of a chain
          MaxFaults(_) \* bound: calls cancelled and changes of the vault together, in a chain

VARIABLES chain,       \* the client: tool, query, cursor, results received, phase, calls
          call,        \* the calling goroutine: walker and ordered reducer
          run,         \* the page built so far (grepRun)
          jobs,        \* the files scheduled by this call
          queue,       \* the channel of jobs the workers take from
          workers,     \* the workers started and not returned
          cancels      \* the calls cancelled so far

grepVars == <<chain, call, run, jobs, queue, workers, cancels>>

ASSUME GrepAssumption == Window \in Nat \ {0} /\ Chunk \in Nat \ {0} /\ MaxCalls \in Nat

ToolGrep == "grep"

Idle == [pc |-> "idle", o |-> PathStart(<<>>, "resolved"), frames |-> <<>>, cand |-> Nil, pending |-> <<>>,
         files |-> 0, bytes |-> 0, walkErr |-> NoError, cancelled |-> FALSE, stopped |-> FALSE,
         answer |-> [kind |-> "none"]]

NewChain(tool, query) ==
  [tool |-> tool, query |-> query, cursor |-> Nil, got |-> <<>>, phase |-> "open", calls |-> 0, pages |-> 0, since |-> 0]

GrepInit ==
  /\ run = RunStart(CHOOSE q \in Queries : TRUE, Nil)
  /\ call = Idle /\ jobs = <<>> /\ queue = <<>> /\ workers = 0 /\ cancels = 0

(* The workers' context.  Faulty variant, for mutation runs: the deferred   *)
(* cancel is forgotten.                                                     *)
DoneOnStop == call.cancelled \/ call.stopped

Done == call.cancelled \/ call.stopped \/ call.pc \in {"join", "answer"}

Go(pc)    == call' = [call EXCEPT !.pc = pc]
Fail(code) == run' = Failed(run, code)

(***************************************************************************)
(* Cursors.  A cursor is sealed over the tool, the query and its state, so  *)
(* a client can hold no other than those it was given.                     *)
(***************************************************************************)
EncodeCursorState(tool, query, state) == <<[tool |-> tool, query |-> query, state |-> state]>>
DecodeCursorState(cursor, tool, query) ==
  IF cursor.tool # tool \/ cursor.query # query THEN [code |-> "cursor_mismatch"]
  ELSE [code |-> NoError, state |-> cursor.state]

(* The client calls with the cursor it holds, for its own query or, once    *)
(* it has a cursor, for another.                                            *)
Grep(query) ==
  LET decoded == DecodeCursorState(chain.cursor[1], ToolGrep, query)
  IN /\ chain.tool = ToolGrep /\ call.pc = "idle" /\ chain.phase = "open" /\ chain.calls < MaxCalls
     /\ chain.cursor = Nil => query = chain.query
     /\ chain' = [chain EXCEPT !.calls = @ + 1, !.since = IF chain.cursor = Nil THEN edits ELSE @]
     /\ jobs' = <<>>
     /\ IF chain.cursor # Nil /\ decoded.code # NoError
        THEN /\ run' = Failed(RunStart(query, Nil), decoded.code)
             /\ call' = [Idle EXCEPT !.pc = "join"]
        ELSE /\ run' = RunStart(query, IF chain.cursor = Nil THEN Nil ELSE <<decoded.state>>)
             /\ call' = [Idle EXCEPT !.pc = "resolve",
                                     !.o = PathStart(normalizeRel(query.base, query.path), "resolved")]
     /\ UNCHANGED <<queue, workers, cancels>>

CallGrep == \E q \in Queries : Grep(q)

(* The two-second timeout of the handler, or the client's cancellation.     *)
Cancel == /\ call.pc \notin {"idle", "answer"} /\ ~call.cancelled /\ edits + cancels < MaxFaults(chain.query)
          /\ call' = [call EXCEPT !.cancelled = TRUE]
          /\ cancels' = cancels + 1
          /\ UNCHANGED <<chain, run, jobs, queue, workers>>

(***************************************************************************)
(* The walk.                                                                *)
(***************************************************************************)
Quiet == UNCHANGED <<chain, jobs, queue, workers, cancels>>

PathStep ==
  /\ call.pc \in {"resolve", "walk", "opendir"} /\ Walking(call.o) /\ Quiet
  /\ call' = [call EXCEPT !.o = ResolveStep(@, call.pc = "opendir")]
  /\ UNCHANGED run

ScopeError(e) == CASE e.kind = "none" -> "not_found"
                   [] e.kind = "link" -> "symlink_denied"
                   [] e.kind = "file" /\ ~isMarkdownPath(call.o.at.path) -> "unsupported_file_type"
                   [] OTHER -> NoError

PathEnd ==
  LET o == call.o
      code == IF o.state \in {"resolved", "opened"} THEN ScopeError(o.base) ELSE o.state
      file == [path |-> o.at.path, entry |-> o.base, dir |-> Nil]
      frame == [dir |-> o.at, id |-> Absent, rest |-> <<>>, names |-> {}]
  IN /\ call.pc \in {"resolve", "walk", "opendir"} /\ ~Walking(o) /\ Quiet
     /\ IF code # NoError THEN Fail(code) /\ Go("join")
        ELSE /\ UNCHANGED run
             /\ call' = CASE call.pc = "resolve" ->
                               [call EXCEPT !.pc = "walk", !.o = PathStart(o.at.path, "resolved")]
                          [] call.pc = "walk" /\ o.base.kind = "file" ->
                               [call EXCEPT !.pc = "visit", !.cand = <<file>>]
                          [] call.pc = "opendir" ->
                               [call EXCEPT !.pc = "scan", !.frames = <<frame>>]
                          [] OTHER ->  \* a directory
                               [call EXCEPT !.pc = "opendir", !.o = PathStart(o.at.path, "opened")]

(* The walk ends with an error of its own; what is pending is drained.      *)
WalkError(code) == call' = [call EXCEPT !.pc = "final", !.walkErr = code]

NoticeCancel ==
  /\ call.cancelled /\ call.pc \in {"resolve", "walk", "opendir", "scan", "scanned", "next", "visit", "open"} /\ Quiet
  /\ IF call.pc = "resolve" THEN Fail("canceled") /\ Go("join") ELSE WalkError("canceled") /\ UNCHANGED run

Top == Head(call.frames)

(* scanWalkDirectory: the identity before, the entries, the identity after. *)
ScanDirectory ==
  /\ call.pc = "scan" /\ Quiet /\ UNCHANGED run
  /\ call' = [call EXCEPT !.pc = "scanned", !.frames[1].id = statDirectory(Top.dir)]

Order(d) ==
  LET key(n) == walkOrderPosition(Append(d.path, n), EntryAt(d, n).kind)
  IN SetToSortSeq(Names(d), LAMBDA m, n : comparePosition(key(m), key(n)))
Candidates(d, names) ==
  [i \in DOMAIN names |-> [path |-> Append(d.path, names[i]), entry |-> EntryAt(d, names[i]), dir |-> <<d>>]]

ScannedDirectory ==
  /\ call.pc = "scanned" /\ Quiet /\ UNCHANGED run
  /\ IF statDirectory(Top.dir) = Top.id
     THEN \E sorted \in {Order(Top.dir)} :
            call' = [call EXCEPT !.pc = "next", !.frames[1].rest = Candidates(Top.dir, sorted), !.frames[1].names = Range(sorted)]
     ELSE WalkError("source_changed")

(* openWalkDirectory: the entry found by the scan, or nothing.              *)
Descend ==
  LET cand == Head(Top.rest)
      name == Last(cand.path)
      rest == <<[Top EXCEPT !.rest = Tail(@)]>> \o Tail(call.frames)
  IN /\ call.pc = "next" /\ call.frames # <<>> /\ Top.rest # <<>> /\ cand.entry.kind = "dir" /\ Quiet /\ UNCHANGED run
     /\ IF sameEntryIdentity(cand.entry, EntryAt(Top.dir, name))
        THEN call' = [call EXCEPT !.pc = "scan",
                                  !.frames = <<[dir |-> Handle(cand.path), id |-> Absent, rest |-> <<>>, names |-> {}]>> \o rest]
        ELSE WalkError("source_changed")

VisitNext ==
  LET cand == Head(Top.rest)
      visited == cand.entry.kind = "file" /\ isMarkdownPath(cand.path)
  IN /\ call.pc = "next" /\ call.frames # <<>> /\ Top.rest # <<>> /\ cand.entry.kind # "dir" /\ Quiet /\ UNCHANGED run
     /\ call' = [call EXCEPT !.pc = IF visited THEN "visit" ELSE "next", !.cand = IF visited THEN <<cand>> ELSE @,
                             !.frames[1].rest = Tail(@)]

(* verifyWalkDirectory: the same directory with the same names.             *)
VerifyDirectory ==
  /\ call.pc = "next" /\ call.frames # <<>> /\ Top.rest = <<>> /\ Quiet /\ UNCHANGED run
  /\ IF statDirectory(Top.dir) = Top.id /\ Names(Top.dir) = Top.names
     THEN call' = [call EXCEPT !.frames = Tail(@)]
     ELSE WalkError("source_changed")

EndOfWalk ==
  /\ call.pc = "next" /\ call.frames = <<>> /\ Quiet /\ UNCHANGED run
  /\ Go("final")

(***************************************************************************)
(* A file of the walk.                                                      *)
(***************************************************************************)
Cand == call.cand[1]
Skipping == run.resume # Nil /\ ~run.seen

Visit ==
  /\ call.pc = "visit" /\ Quiet /\ UNCHANGED run
  /\ IF Skipping /\ Before(run.resume[1].boundary, Cand.path) THEN WalkError("cursor_stale")
     ELSE call' = [call EXCEPT !.pc = IF Skipping THEN "open" ELSE "schedule", !.o = PathStart(Cand.path, "opened")]

(* Opening is one step through the directory of the walk, a walk along its  *)
(* path for a file that is the whole scope.                                 *)
OpenPath ==
  /\ call.pc = "open" /\ Cand.dir = Nil /\ Walking(call.o) /\ Quiet /\ UNCHANGED run
  /\ call' = [call EXCEPT !.o = OpenStep(@)]

Opened == IF Cand.dir = Nil THEN call.o.state
          ELSE IF sameFileIdentity(Cand.entry, EntryAt(Cand.dir[1], Last(Cand.path))) THEN "opened" ELSE "source_changed"
File == [path |-> Cand.path, entry |-> IF Cand.dir = Nil THEN call.o.base ELSE Cand.entry]
Ready == call.pc = "open" /\ (Cand.dir = Nil => ~Walking(call.o))

AfterFile == IF call.frames = <<>> THEN "final" ELSE "next"

(* visitResume: a file of the earlier pages must be what it was.            *)
VisitResume ==
  LET boundary == run.resume[1].boundary = Cand.path
      partial  == run.resume[1].partial
      prefix   == IF boundary /\ partial # Nil THEN run.prefix
                  ELSE extendGrepPrefix(run.prefix, File.path, File.entry)
  IN /\ Ready /\ Skipping /\ Quiet
     /\ \/ Opened # "opened" /\ WalkError(Opened) /\ UNCHANGED run
        \/ Opened = "opened" /\ ~Revalidated(File) /\ WalkError("source_changed") /\ UNCHANGED run
        \/ /\ Opened = "opened" /\ Revalidated(File) /\ ~boundary
           /\ Go(AfterFile) /\ run' = [run EXCEPT !.prefix = prefix]
        \/ /\ Opened = "opened" /\ Revalidated(File) /\ boundary /\ prefix # run.resume[1].prefix
           /\ WalkError("cursor_stale") /\ run' = [run EXCEPT !.seen = TRUE]
        \/ /\ Opened = "opened" /\ Revalidated(File) /\ boundary /\ prefix = run.resume[1].prefix /\ partial = Nil
           /\ Go(AfterFile) /\ run' = [run EXCEPT !.seen = TRUE, !.prefix = prefix, !.lastFull = <<File.path>>]
        \/ /\ Opened = "opened" /\ Revalidated(File) /\ boundary /\ prefix = run.resume[1].prefix /\ partial # Nil
           /\ run' = [run EXCEPT !.seen = TRUE]
           /\ IF partial[1].entry # File.entry THEN WalkError("cursor_stale")
              ELSE call' = [call EXCEPT !.pc = "schedule", !.o = PathStart(Cand.path, "opened")]

(* schedule: make room in the window, then see whether the page has any     *)
(* files and bytes left.                                                    *)
MakeRoom ==
  /\ call.pc = "schedule" /\ Quiet /\ UNCHANGED run
  /\ Go(CASE Len(call.pending) = Window -> "window"
          [] Len(call.pending) < Window /\ call.files >= run.query.files -> "files"
          [] Len(call.pending) < Window /\ call.files < run.query.files /\ call.bytes >= run.query.bytes -> "bytes"
          [] OTHER -> "open")

Partial == IF run.resume # Nil /\ run.resume[1].boundary = Cand.path THEN run.resume[1].partial ELSE Nil

Job(file, partial, allowance) ==
  [path |-> file.path, entry |-> file.entry, size |-> SizeOf(Source(Cand.path, Cand.entry)), partial |-> partial,
   allowance |-> allowance, events |-> <<>>, closed |-> FALSE, stage |-> "queued", reserved |-> TRUE, open |-> TRUE,
   read |-> StartOf(partial), scan |-> ScanStart(partial)]
errorJob(code) ==
  [Job(File, Nil, 0) EXCEPT !.events = <<[kind |-> "error", code |-> code]>>, !.closed = TRUE, !.stage = "none",
                            !.reserved = FALSE, !.open = FALSE]

Limited(reason) ==
  /\ run' = IF run.lastFull = Nil THEN run ELSE limitStop(run, reason)
  /\ IF run.lastFull = Nil THEN WalkError("limit_exceeded") ELSE Go("join")

Pushed(job) == /\ jobs' = Append(jobs, job)
               /\ UNCHANGED <<chain, cancels>>

Allowance == Smaller(SizeOf(Source(Cand.path, Cand.entry)) - StartOf(Partial), run.query.bytes - call.bytes)
Stale     == StartOf(Partial) > SizeOf(Source(Cand.path, Cand.entry))

(* A file that no worker scans: it cannot be opened, or the cursor points   *)
(* behind its end; a file without bytes is taken for the end of the budget. *)
ScheduleNothing ==
  LET code == IF Opened # "opened" THEN (IF Partial # Nil /\ Opened = "source_changed" THEN "cursor_stale" ELSE Opened)
              ELSE "cursor_stale"
  IN /\ Ready /\ ~Skipping
     /\ IF Opened # "opened" \/ Stale
        THEN /\ Pushed(errorJob(code)) /\ UNCHANGED <<run, queue, workers>>
             /\ call' = [call EXCEPT !.pc = "final", !.pending = Append(@, Len(jobs) + 1)]
        ELSE Allowance = 0 /\ Partial = Nil /\ Quiet /\ Limited("byte_limit")

ScheduleJob ==
  LET k == Len(jobs) + 1
      next == [call EXCEPT !.pending = Append(@, k), !.files = @ + 1, !.bytes = @ + Allowance]
      job == Job(File, Partial, Allowance)
  IN /\ Ready /\ ~Skipping /\ Opened = "opened" /\ ~Stale /\ (Allowance = 0 => Partial # Nil)
     /\ UNCHANGED run
     /\ workers' = IF workers < Len(next.pending) THEN workers + 1 ELSE workers
     /\ \/ /\ Pushed(job) /\ queue' = Append(queue, k)
           /\ call' = [next EXCEPT !.pc = AfterFile]
        \/ /\ Done /\ queue' = queue
           /\ Pushed([job EXCEPT !.events = <<[kind |-> "error", code |-> "canceled"]>>, !.closed = TRUE,
                                 !.stage = "none", !.open = FALSE])
           /\ call' = [next EXCEPT !.pc = "final", !.walkErr = "canceled"]

(***************************************************************************)
(* The workers.                                                             *)
(***************************************************************************)
Scanning == {k \in DOMAIN jobs : jobs[k].stage = "scanning"}
Free     == workers - Cardinality(Scanning)

(* worker: a job of the channel, or the end of the context.                 *)
TakeJob ==
  LET k == Head(queue)
      job == jobs[k]
      stale == job.partial # Nil /\ (\/ job.partial[1].entry # job.entry \/ job.partial[1].place.resume > job.size
                                     \/ ~Revalidated(job))
  IN /\ Free > 0 /\ queue # <<>>
     /\ queue' = Tail(queue)
     /\ jobs' = [jobs EXCEPT ![k].stage = "scanning",
                             ![k].scan = IF stale THEN Finish(@, [kind |-> "error", code |-> "cursor_stale"]) ELSE @]
     /\ UNCHANGED <<chain, call, run, workers, cancels>>

LeaveWorker ==
  /\ Free > 0 /\ Done
  /\ workers' = workers - 1
  /\ UNCHANGED <<chain, call, run, jobs, queue, cancels>>

(* A read; what it brings is scanned when the file is still the one opened. *)
ReadFile(k) ==
  LET job  == jobs[k]
      have == Smaller(job.size, SizeOf(Source(job.path, job.entry)))
      upto == Smaller(job.read + Chunk, Smaller(StartOf(job.partial) + job.allowance, have))
      lines == LinesIn(Lines(job.path, job.entry, job.size), job.read, upto, job.partial)
      error(code) == Finish(job.scan, [kind |-> "error", code |-> code])
      next(scan) ==
        CASE Done -> error("canceled")
          [] ~Done /\ (~Revalidated(job) \/ (upto = job.read /\ upto < job.size)) -> error("source_changed")
          [] ~Done /\ Revalidated(job) /\ upto = job.size -> ScanEnd(scan)
          [] ~Done /\ Revalidated(job) /\ job.read < upto /\ upto < job.size /\ upto = StartOf(job.partial) + job.allowance ->
               ScanBudget(scan)
          [] OTHER -> scan
  IN /\ k \in Scanning /\ job.scan.events = <<>> /\ ~job.scan.ended
     /\ \E found \in {lines} : \E scan \in {next(ScanLines(job.scan, found, job.partial, run.query))} :
          jobs' = [jobs EXCEPT ![k].read = upto, ![k].scan = scan]
     /\ UNCHANGED <<chain, call, run, queue, workers, cancels>>

(* send: an event that nobody can take any more ends the scan.              *)
SendEvent(k) ==
  LET job  == jobs[k]
      sent == [job EXCEPT !.events = Append(@, Head(job.scan.events)), !.scan.events = Tail(@)]
      shut == [job EXCEPT !.closed = TRUE, !.stage = "done", !.open = FALSE, !.scan = ScanStart(job.partial)]
  IN /\ k \in Scanning /\ job.scan.events # <<>>
     /\ \/ /\ job.events = <<>>
           /\ jobs' = [jobs EXCEPT ![k] = IF sent.scan.events = <<>> /\ sent.scan.ended
                                          THEN [shut EXCEPT !.events = sent.events] ELSE sent]
        \/ /\ Done
           /\ jobs' = [jobs EXCEPT ![k] = shut]
     /\ UNCHANGED <<chain, call, run, queue, workers, cancels>>

Worker == TakeJob \/ LeaveWorker \/ \E k \in Scanning : ReadFile(k) \/ SendEvent(k)

(***************************************************************************)
(* The ordered reducer.                                                     *)
(***************************************************************************)
Draining == {"files", "bytes", "final"}

(* Faulty variant, for mutation runs: whichever file has something to say   *)
(* is reduced first.                                                        *)
Eager == LET talking == {i \in DOMAIN call.pending : jobs[call.pending[i]].events # <<>>}
         IN IF talking = {} THEN 1 ELSE CHOOSE i \in talking : \A j \in talking : i <= j

(* The place in the window of the file that is reduced: the oldest one.     *)
Oldest == 1

Popped == [call EXCEPT !.pending = RemoveAt(@, Oldest)]

(* Where the call goes once a file is reduced, with the page as it is then. *)
Reduced(c, page) ==
  CASE page.err # NoError /\ c.pc = "final" -> [c EXCEPT !.pc = "join"]
    [] page.err # NoError /\ c.pc # "final" -> [c EXCEPT !.pc = "final", !.walkErr = page.err]
    [] page.err = NoError /\ page.stop # Nil -> [c EXCEPT !.pc = "join"]
    [] page.err = NoError /\ page.stop = Nil /\ c.pc = "window" -> [c EXCEPT !.pc = "schedule"]
    [] OTHER -> c

(* reduceOldest, one event.                                                 *)
ReduceEvent ==
  LET k     == call.pending[Oldest]
      event == Head(jobs[k].events)
      page  == IF event.kind = "hit" /\ Done THEN Failed(run, "canceled") ELSE accept(run, jobs[k], event)
      over  == event.kind # "hit" \/ Settled(page)
  IN /\ call.pc \in Draining \cup {"window"} /\ call.pending # <<>> /\ jobs[k].events # <<>>
     /\ run' = IF page.err # NoError /\ call.pc # "final" THEN run ELSE page
     /\ jobs' = [jobs EXCEPT ![k].events = Tail(@), ![k].reserved = @ /\ ~over]
     /\ call' = IF ~over THEN call
                ELSE [Reduced(Popped, page) EXCEPT !.stopped = @ \/ (Settled(page) /\ event.kind # "partial")]
     /\ UNCHANGED <<chain, queue, workers, cancels>>

(* A file whose worker ended without a last word.                           *)
ReduceClosed ==
  LET k == call.pending[Oldest]
      page == Failed(run, IF Done THEN "canceled" ELSE "source_changed")
  IN /\ call.pc \in Draining \cup {"window"} /\ call.pending # <<>> /\ jobs[k].events = <<>> /\ jobs[k].closed
     /\ run' = IF call.pc # "final" THEN run ELSE page
     /\ jobs' = [jobs EXCEPT ![k].reserved = FALSE]
     /\ call' = Reduced(Popped, page)
     /\ UNCHANGED <<chain, queue, workers, cancels>>

Drained ==
  /\ call.pc \in Draining /\ call.pending = <<>> /\ Quiet
  /\ CASE call.pc = "files" -> Limited("file_limit")
       [] call.pc = "bytes" -> Limited("byte_limit")
       [] call.pc = "final" -> /\ run' = Failed(run, call.walkErr)
                               /\ Go("join")

(***************************************************************************)
(* The end of a call: the workers are joined, what is still pending is     *)
(* given back, and the answer is written.                                  *)
(***************************************************************************)
terminatingRetrievalError(code) == code \in {"canceled", "source_changed"}

(* On a later page most errors mean that the cursor no longer applies.      *)
grepErrorCode == IF run.resume # Nil /\ ~terminatingRetrievalError(run.err)
                    /\ run.err \notin {"cursor_mismatch", "response_too_large"}
                 THEN "cursor_stale" ELSE run.err

(* Faulty variant, for mutation runs: the call answers before its workers   *)
(* have returned.                                                           *)
JoinNobody == call.pc = "join"

Joined == call.pc = "join" /\ workers = 0

Answer ==
  /\ Joined
  /\ call' = [call EXCEPT !.pc = "answer", !.pending = <<>>, !.answer =
       CASE run.err # NoError -> [kind |-> "error", code |-> grepErrorCode]
         [] run.err = NoError /\ run.resume # Nil /\ ~run.seen -> [kind |-> "error", code |-> "cursor_stale"]
         [] run.err = NoError /\ (run.resume # Nil => run.seen) /\ run.stop # Nil ->
              [kind |-> "page", cursor |-> EncodeCursorState(ToolGrep, run.query, run.stop[1].state)]
         [] OTHER -> [kind |-> "whole"]]
  /\ jobs' = [k \in DOMAIN jobs |-> IF \E i \in DOMAIN call.pending : call.pending[i] = k
                                    THEN [jobs[k] EXCEPT !.open = FALSE, !.reserved = FALSE] ELSE jobs[k]]
  /\ queue' = <<>>
  /\ UNCHANGED <<chain, run, workers, cancels>>

(* The client takes the answer, or loses it and will ask again.             *)
Take ==
  /\ call.pc = "answer"
  /\ call' = Idle /\ jobs' = <<>>
  /\ chain' = IF run.query # chain.query THEN chain
              ELSE CASE call.answer.kind = "error" -> [chain EXCEPT !.phase = "failed"]
                     [] call.answer.kind = "page"  -> [chain EXCEPT !.got = @ \o run.matches, !.pages = @ + 1, !.cursor = call.answer.cursor]
                     [] call.answer.kind = "whole" -> [chain EXCEPT !.got = @ \o run.matches, !.pages = @ + 1, !.phase = "complete"]
  /\ UNCHANGED <<run, queue, workers, cancels>>

Lose == /\ call.pc = "answer" /\ chain.calls < MaxCalls
        /\ call' = Idle /\ jobs' = <<>>
        /\ UNCHANGED <<chain, run, queue, workers, cancels>>

Caller ==
  \/ PathStep \/ PathEnd \/ NoticeCancel \/ ScanDirectory \/ ScannedDirectory \/ Descend \/ VisitNext
  \/ VerifyDirectory \/ EndOfWalk \/ Visit \/ OpenPath \/ VisitResume \/ MakeRoom \/ ScheduleNothing
  \/ ScheduleJob \/ ReduceEvent \/ ReduceClosed \/ Drained \/ Answer
=============================================================================
