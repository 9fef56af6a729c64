------------------------------ MODULE VaultList ------------------------------
(* ls over the vault: one directory, read in canonical order and returned   *)
(* in pages that fit a response.  Every page reads the whole directory; the *)
(* cursor carries the last entry returned and a digest of the directory     *)
(* with all its names, so a later page is one of the same directory or is   *)
(* refused.                                                                 *)
EXTENDS VaultGrep

CONSTANTS ListQueries, \* the queries: base, path, limit
          EntryBytes,  \* EntryBytes[name]: what an entry takes in a response
          CursorBytes, \* CursorBytes[name]: what a cursor at that entry takes
          Room         \* what a response has room for

VARIABLE listing       \* the handler

ASSUME ListAssumption ==
  \A q \in ListQueries : q.limit \in Nat \ {0} /\ q.base \in Seq(Seq(Nat)) /\ q.path \in Seq(Seq(Nat))

ToolLS == "ls"

NotListing == [pc |-> "idle", o |-> PathStart(<<>>, "opened"), cursor |-> Nil, before |-> Absent, names |-> {},
               selected |-> <<>>, baseline |-> <<>>, answer |-> [kind |-> "none"], cancelled |-> FALSE]

ListInit == listing = NotListing

ListError(code) == listing' = [listing EXCEPT !.pc = "answer", !.answer = [kind |-> "error", code |-> code]]
Dir == listing.o.at

(* LSQueryHash: the directory as it is stored, not as the caller spells it. *)
LSQueryHash == [dir |-> Dir.path, base |-> Clean(chain.query.base), limit |-> chain.query.limit]

CallLS ==
  /\ chain.tool = ToolLS /\ listing.pc = "idle" /\ chain.phase = "open" /\ chain.calls < MaxCalls
  /\ chain' = [chain EXCEPT !.calls = @ + 1, !.since = IF chain.cursor = Nil THEN edits ELSE @]
  /\ listing' = [NotListing EXCEPT !.pc = "open", !.cursor = chain.cursor,
                                   !.o = PathStart(normalizeRel(chain.query.base, chain.query.path), "opened")]

OpenListed ==
  /\ listing.pc = "open" /\ Walking(listing.o)
  /\ listing' = [listing EXCEPT !.o = ResolveStep(@, TRUE)]

(* The cursor must be one of this query; then the directory is looked at.   *)
BeginList ==
  /\ listing.pc = "open" /\ ~Walking(listing.o)
  /\ IF listing.o.state # "opened" THEN ListError(listing.o.state)
     ELSE IF listing.cursor # Nil /\ listing.cursor[1].query # LSQueryHash THEN ListError("cursor_mismatch")
     ELSE listing' = [listing EXCEPT !.pc = "names", !.before = statDirectory(Dir)]

ReadNames == /\ listing.pc = "names"
             /\ listing' = [listing EXCEPT !.pc = "select", !.names = Names(Dir)]

(* Faulty variant, for mutation runs: the digest covers no names.           *)
sourceOfIdentity(names) == [dir |-> Dir]

(* sourceFingerprint: the identity of the directory and all its names.      *)
sourceFingerprint(names) == [id |-> listing.before, dir |-> Dir, names |-> names]

Path(name) == Append(Dir.path, name)
After(name) == listing.cursor # Nil => Before(Path(listing.cursor[1].position), Path(name))

(* The first entries in order; one more than a page holds shows that there  *)
(* are more.                                                                *)
Later == {n \in listing.names : After(n)}
FirstAfter ==
  {s \in [1..Smaller(chain.query.limit + 1, Cardinality(Later)) -> Later] :
     \A i \in DOMAIN s : /\ \A j \in 1..i - 1 : Before(Path(s[j]), Path(s[i]))
                         /\ \A n \in Later \ Range(s) : Before(Path(s[i]), Path(n))}

SelectEntries ==
  /\ listing.pc = "select"
  /\ IF statDirectory(Dir) # listing.before THEN ListError("source_changed")
     ELSE IF listing.cursor # Nil /\ listing.cursor[1].source # sourceFingerprint(listing.names)
          THEN ListError("cursor_stale")
     ELSE IF listing.cursor # Nil /\ listing.cursor[1].position \notin listing.names
          THEN ListError("cursor_invalid")
     ELSE \E first \in FirstAfter : listing' = [listing EXCEPT !.pc = "baseline", !.selected = first]

(* The entries of the page, twice, and the directory a last time.           *)
Entries == [i \in DOMAIN listing.selected |-> EntryAt(Dir, listing.selected[i])]
Gone == \E i \in DOMAIN Entries : Entries[i].kind = "none"

BaselineEntries ==
  /\ listing.pc = "baseline"
  /\ IF Gone THEN ListError("source_changed")
     ELSE listing' = [listing EXCEPT !.pc = "final", !.baseline = Entries]

FinalEntries ==
  /\ listing.pc = "final"
  /\ IF \E i \in DOMAIN Entries : ~sameEntryIdentity(listing.baseline[i], Entries[i])
     THEN ListError("source_changed")
     ELSE listing' = [listing EXCEPT !.pc = "page", !.baseline = Entries]

(* FitLSOutput: the longest page that fits with the cursor it needs.  Since *)
(* cursors differ in size a longer page may fit where a shorter does not.   *)
HasMore == Len(listing.selected) > chain.query.limit
Shown   == SubSeq(listing.selected, 1, Smaller(chain.query.limit, Len(listing.selected)))
NeedsCursor(count) == count < Len(Shown) \/ HasMore
PageBytes(count) ==
  FoldLeft(LAMBDA sum, n : sum + EntryBytes[n], 0, SubSeq(Shown, 1, count))
    + (IF NeedsCursor(count) THEN CursorBytes[Shown[count]] ELSE 0)
Fitting == {count \in DOMAIN Shown : PageBytes(count) <= Room}

Page(count) ==
  [kind |-> IF NeedsCursor(count) THEN "page" ELSE "whole",
   entries |-> [i \in 1..count |-> [path |-> Path(Shown[i]), ino |-> listing.baseline[i].ino]],
   cursor |-> IF ~NeedsCursor(count) THEN Nil
              ELSE <<[tool |-> ToolLS, query |-> LSQueryHash, source |-> sourceFingerprint(listing.names),
                      position |-> Shown[count]]>>]

AnswerLS ==
  /\ listing.pc = "page"
  /\ IF statDirectory(Dir) # listing.before THEN ListError("source_changed")
     ELSE IF Shown # <<>> /\ Fitting = {} THEN ListError("response_too_large")
     ELSE listing' = [listing EXCEPT !.pc = "answer", !.answer = Page(IF Shown = <<>> THEN 0 ELSE Max(Fitting))]

CancelLS == /\ listing.pc \notin {"idle", "answer"} /\ ~listing.cancelled /\ edits + cancels < MaxFaults(chain.query)
            /\ listing' = [listing EXCEPT !.cancelled = TRUE]
            /\ cancels' = cancels + 1

NoticeCancelLS == listing.cancelled /\ listing.pc \notin {"idle", "answer"} /\ ListError("canceled")

TakeLS ==
  LET answer == listing.answer
  IN /\ listing.pc = "answer"
     /\ listing' = NotListing
     /\ chain' = CASE answer.kind = "error" -> [chain EXCEPT !.phase = "failed"]
                   [] answer.kind = "page"  -> [chain EXCEPT !.got = @ \o answer.entries, !.pages = @ + 1, !.cursor = answer.cursor]
                   [] answer.kind = "whole" -> [chain EXCEPT !.got = @ \o answer.entries, !.pages = @ + 1, !.phase = "complete"]

LoseLS == listing.pc = "answer" /\ chain.calls < MaxCalls /\ listing' = NotListing /\ UNCHANGED chain

Lister == OpenListed \/ BeginList \/ ReadNames \/ SelectEntries \/ BaselineEntries \/ FinalEntries \/ AnswerLS \/ NoticeCancelLS

ListClientStep == ((CallLS \/ TakeLS \/ LoseLS) /\ UNCHANGED cancels) \/ (CancelLS /\ UNCHANGED chain)
=============================================================================
