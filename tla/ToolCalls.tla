----------------------------- MODULE ToolCalls -----------------------------
(* The tools over the vault and the provider, called by a client: a chain   *)
(* of grep, ls, read or read_many pages, or a batch of YNAB items.  They     *)
(* share no state, so a behaviour is about one of them; those over the      *)
(* vault run while other applications change it.                            *)
EXTENDS VaultRead, YnabBatch

vars == <<vault, past, grepVars, listing, reading, batchVars>>

Init ==
  /\ VaultInit /\ GrepInit /\ ListInit /\ ReadInit /\ BatchInit
  /\ chain \in {NewChain(ToolGrep, q) : q \in Queries} \cup {NewChain(ToolLS, q) : q \in ListQueries}
               \cup {NewChain(q.tool, q) : q \in ReadQueries} \cup {NewChain("ynab", "none")}

GrepIdle  == UNCHANGED <<call, run, jobs, queue, workers>>
GrepRest  == UNCHANGED <<vault, past, listing, reading, batchVars>>
ListRest  == GrepIdle /\ UNCHANGED <<vault, past, reading, batchVars>>
ReadRest  == GrepIdle /\ UNCHANGED <<vault, past, listing, batchVars>>
BatchRest == UNCHANGED <<vault, past, grepVars, listing, reading>>

GrepCaller == chain.tool = ToolGrep /\ Caller /\ GrepRest
GrepWorker == chain.tool = ToolGrep /\ Worker /\ GrepRest
GrepClient == chain.tool = ToolGrep /\ (CallGrep \/ Cancel \/ Take \/ Lose) /\ GrepRest
ListCaller == chain.tool = ToolLS /\ Lister /\ UNCHANGED <<chain, cancels>> /\ ListRest
ListClient == chain.tool = ToolLS /\ ListClientStep /\ ListRest
ReadCaller == chain.tool \in {ToolRead, ToolReadMany} /\ Reader /\ UNCHANGED <<chain, cancels>> /\ ReadRest
ReadClient == chain.tool \in {ToolRead, ToolReadMany} /\ ReadClientStep /\ ReadRest
BatchCall  == chain.tool = "ynab" /\ Batcher /\ BatchRest
BatchWorld == chain.tool = "ynab" /\ (CallBatch \/ CancelBatch \/ OtherExports) /\ BatchRest

Editing  == /\ chain.tool # "ynab" /\ chain.phase = "open" /\ edits + cancels < MaxFaults(chain.query)
            /\ EditSome
            /\ UNCHANGED <<grepVars, listing, reading, batchVars>>

Next == GrepCaller \/ GrepWorker \/ GrepClient \/ ListCaller \/ ListClient \/ ReadCaller \/ ReadClient
        \/ BatchCall \/ BatchWorld \/ Editing

Spec == Init /\ [][Next]_vars

(* The goroutines of a call run; a client, an editor or a cancellation need *)
(* never come.  A chain has one calling goroutine: that of its tool.        *)
FairSpec ==
  /\ Spec
  /\ WF_vars(GrepCaller \/ ListCaller \/ ReadCaller \/ BatchCall)
  /\ WF_vars(GrepWorker)

(***************************************************************************)
(* The properties of grep and ls.                                          *)
(***************************************************************************)
InScope(base) == {p \in Paths : vault[p].kind = "file" /\ isMarkdownPath(p) /\ IsPrefix(base, p)}

(* Whatever order the workers finish in, a page is the page of a scan that  *)
(* takes one file after the other: the same matches, the same limit, the    *)
(* same cursor (walkConcurrent).  A call that was cancelled, or whose vault *)
(* was changed, may end otherwise.                                          *)
PageIsSequential ==
  call.pc = "answer" /\ cancels = 0 /\ edits = 0 /\ run.query = chain.query =>
    LET page == SequentialPage(run.query, run.resume, SetToSortSeq(InScope(run.query.base), Before))
    IN /\ run.err = page.err
       /\ run.err = NoError => run.matches = page.matches /\ run.stop = page.stop

(* Nothing of a call is left once it answers: no worker runs, no file is    *)
(* open, no place in the window is taken (walkConcurrent's deferred calls). *)
AllReturned ==
  call.pc = "answer" => /\ workers = 0 /\ queue = <<>>
                        /\ \A k \in DOMAIN jobs : ~jobs[k].open /\ ~jobs[k].reserved

(* The vault at some moment since the chain began, for read and read_many   *)
(* since its last call began.                                               *)
Moments == {past[i] : i \in (chain.since + 1)..edits} \cup {vault}

(* What a grep of the vault v comes to.                                     *)
HitsIn(v, p) ==
  SelectSeq([i \in DOMAIN Source(p, v[p]) |-> [path |-> p, ver |-> v[p].ver, line |-> i]],
            LAMBDA m : Source(p, v[p])[m.line].hit)
GrepOf(v) ==
  LET files == SetToSortSeq({p \in Paths : v[p].kind = "file" /\ isMarkdownPath(p) /\ IsPrefix(chain.query.base, p)}, Before)
  IN FlattenSeq([i \in DOMAIN files |-> HitsIn(v, files[i])])

(* A listing tells the entries of one directory, each once, in order.       *)
IsListing(v, d, told) ==
  LET shown == {p \in Paths \ {<<>>} : Front(p) = d /\ v[p].kind # "none" /\ ~deniedSegment(Last(p))}
  IN /\ Range(told) = {[path |-> p, ino |-> v[p].ino] : p \in shown}
     /\ \A i, j \in DOMAIN told : i < j => Before(told[i].path, told[j].path)

(* The directory is the one asked for, but for case and normal form.        *)
SpelledAs(d, asked) == Len(d) = Len(asked) /\ \A i \in DOMAIN d : Fold(d[i]) = Fold(asked[i])
ListOf(v, told) ==
  \E d \in Paths : SpelledAs(d, normalizeRel(chain.query.base, chain.query.path)) /\ IsListing(v, d, told)

(* What a request comes to in the vault v with the note p: its unit, or none. *)
UnitOf(v, i, p) ==
  LET x == chain.query.requests[i]
      lines == Source(p, v[p])
      unit  == Select(lines, x.unit)
      mark(at) == Mark(i, [path |-> p, entry |-> v[p]], at)
  IN IF ~(p \in Paths /\ isMarkdownPath(p)) THEN Nil
     ELSE IF Unusable(x) \/ v[p].kind # "file" \/ unit = Nil THEN Nil
     ELSE IF x.unit = "outline" THEN <<[k \in DOMAIN Headings(lines) |-> mark(Headings(lines)[k])]>>
     ELSE <<[k \in 1..unit[1].end - unit[1].start |-> mark(unit[1].start + k)]>>

(* What was told of a request, in the order in which it was told.           *)
ToldOf(told, i) ==
  LET at == {k \in DOMAIN told : told[k].item = i}
  IN [n \in 1..Cardinality(at) |-> told[CHOOSE k \in at : Cardinality({j \in at : j <= k}) = n]]

(* It is told whole and from one version of the note asked for; as an error *)
(* where it has none; or given up at a heading that is larger than its bytes. *)
UnitTold(v, i) ==
  LET told  == ToldOf(chain.got, i)
      asked == normalizeRel(chain.query.base, chain.query.requests[i].path)
      notes == {p \in Paths : SpelledAs(p, asked)}
  IN IF told = <<>> \/ Last(told).code = NoError THEN \E p \in notes : UnitOf(v, i, p) = <<told>>
     ELSE IF Last(told).code # "limit_exceeded" \/ Unusable(chain.query.requests[i])
          THEN Len(told) = 1 /\ UnitOf(v, i, asked) = Nil
     ELSE \E p \in notes : UnitOf(v, i, p) # Nil /\ IsStrictPrefix(Front(told), UnitOf(v, i, p)[1])

(* The pages of a chain, however they were cut and whatever was lost and    *)
(* asked again, add up to the answer for the vault at one moment: nothing   *)
(* twice, nothing missing, no two versions of a file (visitResume,          *)
(* openWalkFile, sourceFingerprint).  It holds of ls whatever changes, of   *)
(* grep with one change: grep reads one file after the other.  Of read and  *)
(* read_many it holds request by request, and what an earlier page told was *)
(* still so when the last page was asked for                                *)
(* (revalidateReadManyObservations).                                        *)
WholeAnswer ==
  chain.phase = "complete" =>
    CASE chain.tool = ToolGrep -> \E v \in Moments : chain.got = GrepOf(v)
      [] chain.tool = ToolLS   -> \E v \in Moments : ListOf(v, chain.got)
      [] OTHER -> \A i \in DOMAIN chain.query.requests : \E v \in Moments : UnitTold(v, i)

(* Where a cursor stands.                                                   *)
InnerReached(inner) == IF inner = Nil THEN -1 ELSE inner[1].state.next
Reached(c) ==
  CASE c.tool = ToolLS   -> [at |-> Append(c.query.dir, c.position), offset |-> 0, full |-> TRUE]
    [] c.tool = ToolGrep -> [at |-> c.state.boundary, full |-> c.state.partial = Nil,
                             offset |-> IF c.state.partial = Nil THEN 0 ELSE c.state.partial[1].place.resume]
    [] c.tool = ToolRead -> [request |-> 0, inner |-> c.state.next]
    [] OTHER -> [request |-> c.state.next,
                 inner |-> IF Len(c.state.seen) = c.state.next THEN -1 ELSE InnerReached(Last(c.state.seen).inner)]
Behind(c, d) ==
  IF c.tool \in {ToolRead, ToolReadMany}
  THEN \/ Reached(c).request < Reached(d).request
       \/ Reached(c).request = Reached(d).request /\ Reached(c).inner < Reached(d).inner
  ELSE \/ Before(Reached(c).at, Reached(d).at)
       \/ /\ Reached(c).at = Reached(d).at /\ ~Reached(c).full
          /\ Reached(d).full \/ Reached(d).offset > Reached(c).offset

(* A match, an entry of a listing, a piece of a note or the error of an     *)
(* item.                                                                    *)
Received == [path : Paths, ver : 0..MaxEdits, line : Nat] \cup [path : Paths, ino : 0..MaxEdits]
            \cup [item : Nat, path : Paths, ver : 0..MaxEdits, at : Nat, code : {NoError} \cup readManyItemLocal]

Pages == INSTANCE PagedAnswer WITH
  Results <- Received, Behind <- Behind, shown <- chain.got, cursor <- chain.cursor, phase <- chain.phase,
  pages <- chain.pages

(* Every page goes on from the one before and the end is final: a client    *)
(* that follows cursors gets on, and is never led back (checkpointAdvances, *)
(* fullBoundaryAdvances, ListPage, advanceReadManyState).                   *)
ImplementsPages == Pages!Spec

(* Every call answers, whatever its limits and errors.  A cancelled grep is *)
(* left out: it may not (CancelledReturns).  Only the handler of the chain's*)
(* tool is ever at work.                                                    *)
CallsReturn ==
  (\/ call.pc # "idle" \/ listing.pc # "idle" \/ reading.pc # "idle" \/ batch.pc # "idle")
    ~> (\/ call.pc = "answer" \/ call.cancelled
        \/ "answer" \in {listing.pc, reading.pc, batch.pc})

(* "every worker is joined before the handler returns", within the two      *)
(* seconds of a call: a cancelled call returns as well.                     *)
CancelledReturns == (call.pc # "idle") ~> (call.pc \in {"answer", "idle"})

(* limit_exceeded says that the budget "cannot process one complete source  *)
(* line at the continuation boundary".                                      *)
LimitMeansBudget ==
  call.pc = "answer" /\ run.err = "limit_exceeded" =>
    \E p \in InScope(run.query.base) : \E i \in DOMAIN Source(p, vault[p]) :
       Source(p, vault[p])[i].size > run.query.bytes
=============================================================================
