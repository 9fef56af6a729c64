------------------------------ MODULE GrepScan ------------------------------
(* The sequential meaning of grep: how one file is scanned under a budget   *)
(* (what a worker computes), how a page is built from the events of its     *)
(* files (what the ordered reducer computes), and, from the two, the page   *)
(* that a scan of one file after the other would return.                    *)
(*                                                                          *)
(* A file is a sequence of lines, each with a size and whether the pattern  *)
(* matches it.  A pointer of the code that may be nil is a sequence of at   *)
(* most one element.                                                        *)
EXTENDS VaultTree

CONSTANTS Body,        \* Body[p]: the lines of a file, at first and once changed
          Fit,         \* the matches that fit a response
          LargeLine    \* a line of this size leaves no room for its context

ASSUME BodyAssumption ==
  \A p \in Paths : Planted[p] # "dir" => Body[p] \in [1..2 -> Seq([hit : BOOLEAN, size : Nat])]

Nil == <<>>
NoError == ""
Smaller(m, n) == IF m < n THEN m ELSE n

Source(path, entry) == Body[path][IF entry.ver = 0 THEN 1 ELSE 2]
Sums(sizes) == LET sum[i \in 0..Len(sizes)] == IF i = 0 THEN 0 ELSE sum[i - 1] + sizes[i] IN sum
Ends(lines) == LET sums == Sums([i \in DOMAIN lines |-> lines[i].size]) IN [i \in DOMAIN lines |-> sums[i]]
SizeOf(lines) == IF lines = <<>> THEN 0 ELSE Last(Ends(lines))

(* grepLineReader.next over a file taken to have the given size.            *)
Lines(path, entry, size) ==
  LET lines == Source(path, entry)
      all   == [i \in DOMAIN lines |-> [number |-> i, hit |-> lines[i].hit, large |-> lines[i].size >= LargeLine,
                                        start |-> Ends(lines)[i] - lines[i].size, end |-> Smaller(Ends(lines)[i], size)]]
  IN SelectSeq(all, LAMBDA l : l.start < size)

(***************************************************************************)
(* The scan of a file: the events produced so far, the lines kept as       *)
(* context, the matches whose context is not complete yet, the place where *)
(* a next page may resume, and whether it lies behind the place where this *)
(* scan began.  A place is an offset to resume at and one to reread context*)
(* from.                                                                   *)
(***************************************************************************)
Place(resume, context) == [resume |-> resume, context |-> context]

StartOf(partial) == IF partial = Nil THEN 0 ELSE partial[1].place.context
ResumeOf(partial) == IF partial = Nil THEN 0 ELSE partial[1].place.resume

ScanStart(partial) ==
  [events |-> <<>>, before |-> <<>>, pending |-> <<>>, advanced |-> FALSE, ended |-> FALSE,
   checkpoint |-> Place(StartOf(partial), StartOf(partial))]

Emit(scan, event)   == [scan EXCEPT !.events = Append(@, event)]
Finish(scan, event) == [Emit(scan, event) EXCEPT !.ended = TRUE]

appendGrepRing(ring, line, capacity) ==
  IF capacity = 0 THEN <<>>
  ELSE Append(IF Len(ring) = capacity THEN Tail(ring) ELSE ring, line)

grepResumeContext(before, line, contextLines) ==
  IF contextLines = 0 THEN line.end
  ELSE LET combined == Append(before, line)
       IN combined[IF Len(combined) > contextLines THEN Len(combined) - contextLines + 1 ELSE 1].start

(* A candidate, with where to resume once it is returned (emission) and     *)
(* where to resume to find it again (retry).                                *)
Candidate(line, before, query) ==
  [kind |-> "hit", line |-> line.number, remaining |-> query.context,
   place |-> Place(line.end, grepResumeContext(before, line, query.context)),
   retry |-> Place(line.start, IF before = <<>> THEN line.start ELSE before[1].start)]

(* Matches whose context is complete are sent.                              *)
Release(scan) ==
  LET ready == SelectSeq(scan.pending, LAMBDA m : m.remaining = 0)
  IN [scan EXCEPT !.events = @ \o ready, !.pending = SubSeq(@, Len(ready) + 1, Len(@))]

(* Faulty variant, for mutation runs: a line read again as context is       *)
(* searched like any other.                                                 *)
ScanLineAgain(scan, line, partial, query) ==
  LET ring == appendGrepRing(scan.before, line, query.context)
      aged == Release([scan EXCEPT !.pending = [i \in DOMAIN @ |-> [@[i] EXCEPT !.remaining = @ - 1]]])
      found == IF line.hit THEN [aged EXCEPT !.pending = Append(@, Candidate(line, scan.before, query))] ELSE aged
      noted == [found EXCEPT !.before = ring, !.advanced = TRUE,
                             !.checkpoint = Place(line.end, grepResumeContext(scan.before, line, query.context))]
  IN IF query.context = 0 THEN Release(noted) ELSE noted

ScanLine(scan, line, partial, query) ==
  LET ring   == appendGrepRing(scan.before, line, query.context)
      unfit  == [kind |-> "unfit"]
      aged   == Release([scan EXCEPT !.advanced = TRUE,
                                     !.pending = [i \in DOMAIN @ |-> [@[i] EXCEPT !.remaining = @ - 1]]])
      found  == IF line.hit THEN [aged EXCEPT !.pending = Append(@, Candidate(line, scan.before, query))] ELSE aged
      noted  == [found EXCEPT !.before = ring,
                              !.checkpoint = Place(line.end, grepResumeContext(scan.before, line, query.context))]
  IN IF scan.ended THEN scan
     ELSE IF line.start < ResumeOf(partial) THEN [scan EXCEPT !.before = ring]
     ELSE IF line.start # ResumeOf(partial) /\ ~scan.advanced
          THEN Finish(scan, [kind |-> "error", code |-> "cursor_stale"])
     ELSE IF query.regex /\ line.large /\ scan.pending # <<>> THEN Finish(scan, unfit)
     ELSE IF query.regex /\ line.hit /\ (line.large \/ \E i \in DOMAIN scan.before : scan.before[i].large)
          THEN Finish(aged, unfit)
     ELSE IF query.context = 0 THEN Release(noted) ELSE noted

(* The end of the file, and the end of the budget inside it.                *)
ScanEnd(scan) ==
  IF scan.ended THEN scan
  ELSE Finish([scan EXCEPT !.events = @ \o scan.pending, !.pending = <<>>], [kind |-> "full"])

ScanBudget(scan) ==
  IF scan.ended THEN scan
  ELSE Finish(scan, [kind |-> "partial", advanced |-> scan.advanced,
                     place |-> IF scan.pending # <<>> THEN scan.pending[1].retry ELSE scan.checkpoint])

(* The lines that a read of the bytes from..upto completes, and the scan of *)
(* them (each step is bound by a set, so that TLC computes it once).        *)
LinesIn(lines, from, upto, partial) ==
  SelectSeq(lines, LAMBDA l : l.start >= StartOf(partial) /\ l.end > from /\ l.end <= upto)
ScanLines(scan, lines, partial, query) ==
  FoldLeft(LAMBDA s, l : CHOOSE t \in {ScanLine(r, l, partial, query) : r \in {s}} : TRUE, scan, lines)

(***************************************************************************)
(* The page: what the reducer has accepted.                                *)
(***************************************************************************)
RunStart(query, resume) ==
  [query |-> query, resume |-> resume, seen |-> FALSE, prefix |-> <<>>, lastFull |-> Nil,
   matches |-> <<>>, emission |-> Nil, stop |-> Nil, err |-> NoError]

(* A chain of digests stands for the sequence it digests.                   *)
extendGrepPrefix(prefix, path, entry) == Append(prefix, [path |-> path, entry |-> entry])

partialCheckpoint(run, job, place) ==
  [boundary |-> job.path, prefix |-> run.prefix, partial |-> <<[entry |-> job.entry, place |-> place]>>]
fullBoundaryState(run) ==
  [boundary |-> run.lastFull[1], prefix |-> run.prefix, partial |-> Nil]

StopAt(run, reason, state) == [run EXCEPT !.stop = <<[reason |-> reason, state |-> state]>>]
Failed(run, code)          == [run EXCEPT !.err = code]

(* Faulty variant, for mutation runs: every cursor is taken to get on.      *)
checkpointAnyhow(run, path, resume) == TRUE

checkpointAdvances(run, path, resume) ==
  IF run.resume = Nil THEN run.lastFull # Nil \/ resume > 0
  ELSE \/ Before(run.resume[1].boundary, path)
       \/ /\ path = run.resume[1].boundary /\ run.resume[1].partial # Nil
          /\ resume > run.resume[1].partial[1].place.resume

fullBoundaryAdvances(run) ==
  run.resume # Nil => \/ Before(run.resume[1].boundary, run.lastFull[1])
                      \/ run.lastFull[1] = run.resume[1].boundary /\ run.resume[1].partial # Nil

stopForUnfitGrepCandidate(run) ==
  IF run.matches = <<>> THEN Failed(run, "response_too_large")
  ELSE StopAt(run, "response_limit", run.emission[1])

emit(run, job, candidate) ==
  LET state == partialCheckpoint(run, job, candidate.place)
      more  == [run EXCEPT !.matches = Append(@, [path |-> job.path, ver |-> job.entry.ver,
                                                  line |-> candidate.line]),
                           !.emission = <<state>>]
  IN IF Len(more.matches) > Fit THEN stopForUnfitGrepCandidate(run)
     ELSE IF Len(more.matches) >= run.query.limit THEN StopAt(more, "result_limit", state)
     ELSE more

acceptPartial(run, job, event) ==
  IF event.advanced
  THEN IF checkpointAdvances(run, job.path, event.place.resume)
       THEN StopAt(run, "byte_limit", partialCheckpoint(run, job, event.place))
       ELSE Failed(run, "limit_exceeded")
  ELSE IF run.lastFull # Nil /\ fullBoundaryAdvances(run)
       THEN StopAt(run, "byte_limit", fullBoundaryState(run))
       ELSE Failed(run, "limit_exceeded")

accept(run, job, event) ==
  CASE event.kind = "hit"     -> emit(run, job, event)
    [] event.kind = "full"    -> [run EXCEPT !.prefix = extendGrepPrefix(@, job.path, job.entry),
                                             !.lastFull = <<job.path>>]
    [] event.kind = "partial" -> acceptPartial(run, job, event)
    [] event.kind = "unfit"   -> stopForUnfitGrepCandidate(run)
    [] event.kind = "error"   -> Failed(run, event.code)

Settled(run) == run.stop # Nil \/ run.err # NoError

limitStop(run, reason) ==
  IF run.lastFull = Nil THEN Failed(run, "limit_exceeded")
  ELSE StopAt(run, reason, fullBoundaryState(run))

(***************************************************************************)
(* The page of a scan that takes one file after the other.                 *)
(***************************************************************************)
ScanWhole(path, entry, partial, allowance, query) ==
  LET upto  == StartOf(partial) + allowance
      lines == LinesIn(Lines(path, entry, SizeOf(Source(path, entry))), StartOf(partial), upto, partial)
      scan  == ScanLines(ScanStart(partial), lines, partial, query)
  IN IF upto = SizeOf(Source(path, entry)) THEN ScanEnd(scan) ELSE ScanBudget(scan)

ScanNext(page, path, entry) ==
  LET run     == page.run
      earlier == run.resume # Nil /\ ~run.seen
      partial == IF earlier THEN run.resume[1].partial ELSE Nil
      left    == run.query.bytes - page.bytes
      need    == SizeOf(Source(path, entry)) - StartOf(partial)
      job     == [path |-> path, entry |-> entry]
      begun   == [run EXCEPT !.seen = @ \/ (earlier /\ path = run.resume[1].boundary)]
  IN CASE Settled(run) -> page
       [] ~Settled(run) /\ earlier /\ (Before(path, run.resume[1].boundary) \/ run.resume[1].partial = Nil) ->
            [page EXCEPT !.run = [begun EXCEPT !.prefix = extendGrepPrefix(@, path, entry),
                                               !.lastFull = IF begun.seen THEN <<path>> ELSE Nil]]
       [] ~Settled(run) /\ page.files = run.query.files -> [page EXCEPT !.run = limitStop(run, "file_limit")]
       [] ~Settled(run) /\ left = 0 -> [page EXCEPT !.run = limitStop(run, "byte_limit")]
       [] OTHER ->
            [files |-> page.files + 1, bytes |-> page.bytes + Smaller(need, left),
             run |-> FoldLeft(LAMBDA r, e : IF Settled(r) THEN r ELSE accept(r, job, e), begun,
                              ScanWhole(path, entry, partial, Smaller(need, left), run.query).events)]

SequentialPage(query, resume, paths) ==
  FoldLeft(LAMBDA page, p : ScanNext(page, p, vault[p]),
           [files |-> 0, bytes |-> 0, run |-> RunStart(query, resume)], paths).run
=============================================================================
