----------------------------- MODULE VaultRead -----------------------------
(* read and read_many over the vault.  read returns one unit of a note, cut *)
(* to the bytes asked for and to the room of a response; its cursor is bound*)
(* to the version of the note.  read_many runs read on one request after the*)
(* other under a common budget; its cursor also carries what came of every  *)
(* request so far, and a page begins by looking whether that still holds.   *)
(* A rune is one byte here, and the size of a text is its bytes.            *)
EXTENDS VaultList

CONSTANTS ReadQueries, \* the queries: tool, base, bytes for a page, and requests: path, unit, bytes
          ReadRoom     \* what a response has room for

VARIABLE reading       \* the handler

ASSUME ReadAssumption ==
  /\ ReadRoom \in Nat \ {0}
  /\ \A q \in ReadQueries :
       /\ q.tool \in {"read", "read_many"} /\ q.base \in Seq(Seq(Nat)) /\ q.bytes \in Nat
       /\ q.requests \in Seq([path : Seq(Seq(Nat)), unit : {"content", "heading", "outline", "invalid"}, bytes : Nat])
       /\ q.requests # <<>> /\ (q.tool = "read" => Len(q.requests) = 1)

ToolRead == "read"
ToolReadMany == "read_many"

ReadAgain == [max |-> 0, from |-> "item", inner |-> Nil]
NoRead == [code |-> NoError, told |-> <<>>, used |-> 0, fp |-> Nil, rest |-> Nil]

NotReading ==
  [pc |-> "idle", query |-> CHOOSE q \in ReadQueries : TRUE, o |-> PathStart(<<>>, "not_file"), check |-> 0,
   state |-> [next |-> 0, seen |-> <<>>], checkpoints |-> <<>>, attempt |-> ReadAgain, upto |-> 0, out |-> NoRead,
   answer |-> [kind |-> "none"], cancelled |-> FALSE]

ReadInit == reading = NotReading

ReadError(code) == reading' = [reading EXCEPT !.pc = "answer", !.answer = [kind |-> "error", code |-> code]]

(* The request in hand, and the file that was opened for it.                *)
Index  == reading.state.next + 1
Wanted == reading.query.requests[Index]
Located(x) == PathStart(normalizeRel(reading.query.base, x.path), "not_file")
Opening == [path |-> reading.o.at.path, entry |-> reading.o.base]

(* Faulty variant, for mutation runs: a file is told by its inode alone.    *)
FingerprintOfInode == <<reading.o.base.ino>>

(* fingerprintFile covers the path and every stamp of the file.             *)
Fingerprint == <<Opening>>

(* A request that no file can answer: a bad selector, bytes out of range.   *)
Unusable(x) == x.unit = "invalid" \/ x.bytes = 0

retrievalErrorCode(code) == IF code \in {"not_file", "not_directory"} THEN "unsupported_file" ELSE code

(***************************************************************************)
(* Units of a note.  A line that a search would hit is a heading.          *)
(***************************************************************************)
Headings(lines) ==
  LET hits == {i \in DOMAIN lines : lines[i].hit}
  IN [k \in 1..Cardinality(hits) |-> CHOOSE i \in hits : Cardinality({j \in hits : j <= i}) = k]

Select(lines, unit) ==
  LET heads == Headings(lines)
      start(i) == Ends(lines)[i] - lines[i].size
  IN IF unit # "heading" THEN <<[start |-> 0, end |-> SizeOf(lines)]>>
     ELSE IF heads = <<>> THEN Nil
     ELSE <<[start |-> start(heads[1]), end |-> IF Len(heads) = 1 THEN SizeOf(lines) ELSE start(heads[2])]>>

(* What the client is told: a byte of a note, a heading of its outline, or  *)
(* the error of an item.                                                    *)
Mark(i, file, at) == [item |-> i, path |-> file.path, ver |-> file.entry.ver, at |-> at, code |-> NoError]
ItemError(i, code) == [item |-> i, path |-> <<>>, ver |-> 0, at |-> 0, code |-> code]

(***************************************************************************)
(* Fitting one read.  A result takes one, a cursor another.                *)
(***************************************************************************)
ReadFits(bytes, partial) == 1 + bytes + (IF partial THEN 1 ELSE 0) <= ReadRoom

(* How many of n bytes fit, by bisection: a number that fits, and of which  *)
(* one more does not; at -1 or 0 nothing has fitted.                        *)
largestFittingContentPrefix(state, n) ==
  LET fits(count) == ReadFits(count, state.next + count < state.end)
  IN CHOOSE count \in -1..n : (count >= 0 => fits(count)) /\ (count < n => ~fits(count + 1))

ReadQueryHash(x, max) == [path |-> normalizeRel(reading.query.base, x.path), unit |-> x.unit, max |-> max]

Refusal(code) == [NoRead EXCEPT !.code = code]

fitContentRead(state, available) ==
  LET count == largestFittingContentPrefix(state, available)
      next  == [state EXCEPT !.next = @ + count]
  IN IF count <= 0 /\ available > 0 THEN Refusal("response_too_large")
     ELSE [NoRead EXCEPT !.told = [k \in 1..count |-> Mark(Index, Opening, state.next + k)], !.used = count,
                         !.rest = IF next.next = state.end THEN Nil
                                  ELSE EncodeCursorState(ToolRead, ReadQueryHash(Wanted, reading.attempt.max), next)]

fitOutlineRead(state, lines) ==
  LET heads == Headings(lines)
      left  == Len(heads) - state.next
      sums  == Sums([k \in 1..left |-> lines[heads[state.next + k]].size])
      bytes(e) == sums[e - state.next]
      upto  == Max({e \in state.next..Len(heads) : bytes(e) <= reading.attempt.max})
      fit   == {e \in state.next..upto : /\ e > state.next \/ e = Len(heads)
                                         /\ ReadFits(bytes(e), e < Len(heads))}
      end   == Max(fit)
  IN IF upto = state.next /\ state.next < Len(heads) THEN Refusal("limit_exceeded")
     ELSE IF fit = {} THEN Refusal("response_too_large")
     ELSE [NoRead EXCEPT !.told = [k \in 1..end - state.next |-> Mark(Index, Opening, heads[state.next + k])],
                         !.used = bytes(end),
                         !.rest = IF end = Len(heads) THEN Nil
                                  ELSE EncodeCursorState(ToolRead, ReadQueryHash(Wanted, reading.attempt.max),
                                                         [state EXCEPT !.next = end])]

(***************************************************************************)
(* The engine of both tools (readPageCore): what it returns goes to the    *)
(* client of read, and to read_many for judgement.                         *)
(***************************************************************************)
Returned(out) ==
  reading' = IF reading.query.tool = ToolReadMany
             THEN [reading EXCEPT !.pc = "judge", !.out = out]
             ELSE [reading EXCEPT !.pc = "answer",
                     !.answer = IF out.code # NoError THEN [kind |-> "error", code |-> out.code]
                                ELSE [kind |-> IF out.rest = Nil THEN "whole" ELSE "page",
                                      told |-> out.told, cursor |-> out.rest]]

OfFile(out) == [out EXCEPT !.fp = Fingerprint]
Inner == reading.attempt.inner

BeginRead ==
  LET decoded == DecodeCursorState(Inner[1], ToolRead, ReadQueryHash(Wanted, reading.attempt.max))
  IN /\ reading.pc = "begin"
     /\ IF Wanted.unit = "invalid" THEN Returned(Refusal("invalid_selector"))
        ELSE IF reading.attempt.max = 0 THEN Returned(Refusal("limit_exceeded"))
        ELSE IF Inner # Nil /\ decoded.code # NoError THEN Returned(Refusal(decoded.code))
        ELSE reading' = [reading EXCEPT !.pc = "open", !.o = Located(Wanted)]

OpenNext == /\ reading.pc \in {"open", "check", "rebase"} /\ Walking(reading.o)
            /\ reading' = [reading EXCEPT !.o = OpenStep(@)]

(* What a cursor was bound to must still be there, in the same version.     *)
OpenedRead ==
  /\ reading.pc = "open" /\ ~Walking(reading.o)
  /\ LET code == reading.o.state
     IN IF code = "source_changed" \/ (code # "opened" /\ Inner = Nil) THEN Returned(Refusal(retrievalErrorCode(code)))
        ELSE IF code # "opened" THEN Returned(Refusal("cursor_stale"))
        ELSE IF Inner = Nil /\ ~isMarkdownPath(Opening.path) THEN Returned(OfFile(Refusal("unsupported_file")))
        ELSE IF Inner # Nil /\ Inner[1].state.fp # Fingerprint THEN Returned(OfFile(Refusal("cursor_stale")))
        ELSE reading' = [reading EXCEPT !.pc = "load", !.upto = IF Inner = Nil \/ Wanted.unit = "outline" THEN 0
                                                                ELSE Inner[1].state.next]

(* Reads, each between two looks at the file, until the whole note or the   *)
(* rest that this page may show is there; then a last look, and the page.   *)
LoadGoal == IF Inner = Nil \/ Wanted.unit = "outline" THEN SizeOf(Source(Opening.path, Opening.entry))
            ELSE Smaller(Inner[1].state.end, Inner[1].state.next + reading.attempt.max)

Load ==
  LET lines == Source(Opening.path, Opening.entry)
      unit  == Select(lines, Wanted.unit)
      state == IF Inner # Nil THEN Inner[1].state
               ELSE [fp |-> Fingerprint, start |-> unit[1].start, end |-> unit[1].end,
                     next |-> IF Wanted.unit = "outline" THEN 0 ELSE unit[1].start]
  IN /\ reading.pc = "load"
     /\ IF ~Revalidated(Opening) THEN Returned(OfFile(Refusal("source_changed")))
        ELSE IF reading.upto < LoadGoal THEN reading' = [reading EXCEPT !.upto = Smaller(@ + Chunk, LoadGoal)]
        ELSE IF Inner = Nil /\ unit = Nil THEN Returned(OfFile(Refusal("selector_not_found")))
        ELSE IF Wanted.unit = "outline" THEN Returned(OfFile(fitOutlineRead(state, lines)))
        ELSE Returned(OfFile(fitContentRead(state, Smaller(state.end - state.next, reading.attempt.max))))

(***************************************************************************)
(* read_many.  A checkpoint is where the page may end: the state for the   *)
(* cursor, what is told by then, what it takes and the bytes it used.      *)
(***************************************************************************)
Requests == reading.query.requests
Latest == IF reading.checkpoints # <<>> THEN Last(reading.checkpoints)
          ELSE [state |-> reading.state, told |-> <<>>, cost |-> 0, used |-> 0]

ManySize(c) == 2 + c.cost + (IF c.state.next < Len(Requests) THEN 2 ELSE 0)

AnswerMany(c) ==
  reading' = [reading EXCEPT !.pc = "answer",
                !.answer = [kind |-> IF c.state.next < Len(Requests) THEN "page" ELSE "whole", told |-> c.told,
                            cursor |-> IF c.state.next < Len(Requests)
                                       THEN EncodeCursorState(ToolReadMany, reading.query, c.state) ELSE Nil]]

(* readManyPartialResult: the longest page that fits, or the error.         *)
PartialMany(checkpoints, code) ==
  LET fit == {k \in DOMAIN checkpoints : ManySize(checkpoints[k]) <= ReadRoom}
  IN IF fit = {} THEN ReadError(code) ELSE AnswerMany(checkpoints[Max(fit)])

(* Faulty variant, for mutation runs: earlier observations are believed.    *)
DueNone(first) == {}

(* The observations to look at again: all but the one under way, and those  *)
(* that no file was asked for.                                              *)
Due(first) == {k \in first..reading.state.next : ~Unusable(Requests[k])}

CheckNext(first, r) ==
  reading' = IF Due(first) = {} THEN [r EXCEPT !.pc = "turn"]
             ELSE [r EXCEPT !.pc = "check", !.check = Min(Due(first)), !.o = Located(Requests[Min(Due(first))])]

CheckMany == reading.pc = "checks" /\ CheckNext(1, reading)

(* revalidateReadManyObservation: the same version, or the same refusal.    *)
CheckedMany ==
  LET seen == reading.state.seen[reading.check]
      code == reading.o.state
  IN /\ reading.pc = "check" /\ ~Walking(reading.o)
     /\ IF code = "source_changed" THEN ReadError(code)
        ELSE IF \/ seen.fp # Nil /\ code = "opened" /\ Fingerprint = seen.fp
                \/ seen.fp = Nil /\ code # "opened" /\ retrievalErrorCode(code) = seen.code
             THEN CheckNext(reading.check + 1, reading)
        ELSE ReadError("cursor_stale")

(* The next request, under the bytes that are left; an inner cursor must be *)
(* bound to the bytes of this attempt.                                      *)
TurnMany ==
  LET left  == reading.query.bytes - Latest.used
      max   == IF Wanted.bytes = 0 THEN 0 ELSE Smaller(Wanted.bytes, left)
      inner == IF Len(reading.state.seen) = Index THEN reading.state.seen[Index].inner ELSE Nil
      try   == [reading EXCEPT !.attempt = [max |-> max, from |-> IF max < Wanted.bytes THEN "aggregate" ELSE "item",
                                            inner |-> inner]]
  IN /\ reading.pc = "turn"
     /\ IF reading.state.next = Len(Requests) THEN AnswerMany(Latest)
        ELSE IF inner # Nil /\ inner[1].query.max # max
             THEN reading' = [try EXCEPT !.pc = "rebase", !.o = Located(Wanted)]
        ELSE reading' = [try EXCEPT !.pc = "begin"]

Rebound(max) == EncodeCursorState(ToolRead, ReadQueryHash(Wanted, max), Inner[1].state)

(* rebaseCurrentReadManyCursor, once the file is open.                      *)
RebaseMany ==
  /\ reading.pc = "rebase" /\ ~Walking(reading.o)
  /\ IF reading.o.state = "source_changed" THEN ReadError("source_changed")
     ELSE IF reading.o.state # "opened" \/ Fingerprint # reading.state.seen[Index].fp THEN ReadError("cursor_stale")
     ELSE reading' = [reading EXCEPT !.pc = "begin", !.attempt.inner = Rebound(reading.attempt.max)]

readManyItemLocal ==
  {"path_denied", "symlink_denied", "not_found", "unsupported_file", "invalid_selector", "selector_not_found",
   "limit_exceeded"}

(* What the page comes to with the outcome of this request.                 *)
Attempted ==
  LET out  == reading.out
      seen == [code |-> out.code, fp |-> out.fp, inner |-> out.rest]
  IN [state |-> [next |-> IF out.rest = Nil THEN Index ELSE reading.state.next,
                 seen |-> Append(SubSeq(reading.state.seen, 1, reading.state.next), seen)],
      told  |-> Latest.told \o (IF out.code = NoError THEN out.told ELSE <<ItemError(Index, out.code)>>),
      cost  |-> Latest.cost + 1 + out.used, used |-> Latest.used + out.used]

lowerReadManyAttempt(current, selected, excess) ==
  LET basis == Smaller(current, selected)
  IN IF basis <= 1 THEN 0 ELSE Max({basis - Max({excess, basis \div 4, 1}), 1})

(* An outcome is the item's own unless it is about the call, the response or *)
(* the bytes that were left for the page.                                   *)
ItsOwn == /\ reading.out.code \in readManyItemLocal \cup {NoError}
          /\ reading.out.code = "limit_exceeded" => Wanted.bytes = 0 \/ reading.attempt.from = "item"

EndMany ==
  LET code == reading.out.code
      from == reading.attempt.from
  IN /\ reading.pc = "judge"
     /\ ~ItsOwn
     /\ IF code \in {"response_too_large", "limit_exceeded"}
        THEN PartialMany(reading.checkpoints, IF from = "aggregate" THEN code ELSE "response_too_large")
        ELSE ReadError(code)

(* It does not fit: the page ends before it, or the first item is cut.      *)
ShrinkMany ==
  LET lower == lowerReadManyAttempt(reading.attempt.max, reading.out.used, ManySize(Attempted) - ReadRoom)
  IN /\ reading.pc = "judge" /\ ItsOwn /\ ManySize(Attempted) > ReadRoom
     /\ IF reading.checkpoints # <<>> THEN PartialMany(reading.checkpoints, "response_too_large")
        ELSE IF reading.out.code # NoError \/ lower < 1 THEN ReadError("response_too_large")
        ELSE reading' = [reading EXCEPT !.pc = "begin",
                           !.attempt = [max |-> lower, from |-> "response",
                                        inner |-> IF Inner = Nil THEN Nil ELSE Rebound(lower)]]

AcceptMany ==
  LET found == Append(reading.checkpoints, Attempted)
  IN /\ reading.pc = "judge" /\ ItsOwn /\ ManySize(Attempted) <= ReadRoom
     /\ IF reading.out.rest # Nil THEN AnswerMany(Attempted)
        ELSE IF Attempted.used >= reading.query.bytes /\ Index < Len(Requests)
             THEN PartialMany(found, "limit_exceeded")
        ELSE reading' = [reading EXCEPT !.pc = "turn", !.state = Attempted.state, !.checkpoints = found]

(***************************************************************************)
(* The client, and cancellation.                                           *)
(***************************************************************************)
CallRead ==
  \E q \in ReadQueries :
    /\ chain.tool = q.tool /\ reading.pc = "idle" /\ chain.phase = "open" /\ chain.calls < MaxCalls
    /\ chain.cursor = Nil => q = chain.query
    /\ chain' = [chain EXCEPT !.calls = @ + 1, !.since = edits]
    /\ LET start   == [NotReading EXCEPT !.query = q]
           decoded == DecodeCursorState(chain.cursor[1], ToolReadMany, q)
       IN reading' =
            IF q.tool = ToolRead
            THEN [start EXCEPT !.pc = "begin",
                               !.attempt = [max |-> q.requests[1].bytes, from |-> "item", inner |-> chain.cursor]]
            ELSE IF chain.cursor = Nil THEN [start EXCEPT !.pc = "checks"]
            ELSE IF decoded.code # NoError THEN [start EXCEPT !.pc = "answer", !.answer = [kind |-> "error", code |-> decoded.code]]
            ELSE [start EXCEPT !.pc = "checks", !.state = decoded.state]

CancelRead == /\ reading.pc \notin {"idle", "answer"} /\ ~reading.cancelled
              /\ edits + cancels < MaxFaults(chain.query)
              /\ reading' = [reading EXCEPT !.cancelled = TRUE]
              /\ cancels' = cancels + 1

NoticeCancelRead == reading.cancelled /\ reading.pc \notin {"idle", "answer"} /\ ReadError("canceled")

TakeRead ==
  LET answer == reading.answer
  IN /\ reading.pc = "answer"
     /\ reading' = NotReading
     /\ chain' = CASE answer.kind = "error" -> [chain EXCEPT !.phase = "failed"]
                   [] answer.kind = "page"  -> [chain EXCEPT !.got = @ \o answer.told, !.pages = @ + 1, !.cursor = answer.cursor]
                   [] answer.kind = "whole" -> [chain EXCEPT !.got = @ \o answer.told, !.pages = @ + 1, !.phase = "complete"]

LoseRead == reading.pc = "answer" /\ chain.calls < MaxCalls /\ reading' = NotReading /\ UNCHANGED chain

Reader == BeginRead \/ OpenNext \/ OpenedRead \/ Load \/ CheckMany \/ CheckedMany \/ TurnMany \/ RebaseMany
          \/ EndMany \/ ShrinkMany \/ AcceptMany \/ NoticeCancelRead

ReadClientStep == ((CallRead \/ TakeRead \/ LoseRead) /\ UNCHANGED cancels) \/ (CancelRead /\ UNCHANGED chain)
=============================================================================
