----------------------------- MODULE VaultTree -----------------------------
(* The vault as the read-only tools see it: a tree of directories, files    *)
(* and symbolic links that other applications change at any moment, and     *)
(* the bounded operations of internal/fsx on it.  An operation is a chain   *)
(* of system calls; an operator below is what lies between two of them.     *)
(*                                                                          *)
(* A name is a sequence of bytes.  A byte above 100 is the decomposed       *)
(* spelling of the byte 100 below it, one above 10 the capital of the one   *)
(* 10 below; Dot and Slash are the characters of that name, Md stands for   *)
(* the letters of the extension.  An inode number or version is the number  *)
(* of the change that made it, so neither is ever used again; a directory   *)
(* that goes away goes with all that is in it.                              *)
EXTENDS Integers, SequencesExt

CONSTANTS Paths,       \* the paths that may exist, as sequences of names
          Planted,     \* Planted[p]: the kind of entry that p is at first
          Editable,    \* the paths that other applications change
          MaxEdits     \* bound: changes by other applications

VARIABLES vault,       \* the entry at every path
          past         \* history: the vault before each change

ASSUME VaultAssumption ==
  /\ IsFiniteSet(Paths) /\ <<>> \in Paths /\ Planted[<<>>] = "dir" /\ Editable \subseteq Paths /\ MaxEdits \in Nat
  /\ \A p \in Paths : p \in Seq(Seq(Nat)) /\ (p # <<>> => Front(p) \in Paths)
  /\ \A p \in Paths : Planted[p] \in {"dir", "file", "link", "none"}
  /\ \A p \in Paths \ {<<>>} : Planted[p] # "none" => Planted[Front(p)] = "dir"

edits == Len(past)

Dot == 1
Slash == 2
Md == 9

Entry  == [kind : {"dir", "file", "link", "none"}, ino : 0..MaxEdits, ver : 0..MaxEdits]
Absent == [kind |-> "none", ino |-> 0, ver |-> 0]

VaultInit ==
  /\ vault = [p \in Paths |-> [kind |-> Planted[p], ino |-> 0, ver |-> 0]]
  /\ past = <<>>

(***************************************************************************)
(* What other applications do.  A change of membership gives the directory *)
(* a new modification time; a save in place changes only the file.         *)
(***************************************************************************)
Replaced(p, e) ==
  [q \in Paths |-> IF q = p THEN e
                   ELSE IF q = Front(p) /\ e.ino # vault[p].ino THEN [vault[q] EXCEPT !.ver = edits + 1]
                   ELSE IF IsStrictPrefix(p, q) THEN Absent
                   ELSE vault[q]]

Edit(p) ==
  /\ edits < MaxEdits
  /\ vault[Front(p)].kind = "dir"
  /\ past' = Append(past, vault)
  /\ \/ vault[p].kind = "file" /\ vault' = Replaced(p, [vault[p] EXCEPT !.ver = edits + 1])
     \/ \E k \in {"file", "link", "none"} :
          /\ k # "file" => vault[p].kind # k
          /\ Planted[p] = "dir" => k = "link"
          /\ vault' = Replaced(p, [kind |-> k, ino |-> edits + 1, ver |-> edits + 1])

EditSome == \E p \in Editable : Edit(p)

(***************************************************************************)
(* Names, paths and their order.                                           *)
(***************************************************************************)
Nfc(name)  == [i \in DOMAIN name |-> name[i] % 100]
Fold(name) == [i \in DOMAIN name |-> Nfc(name)[i] % 10]

deniedSegment(name)  == name[1] = Dot
isMarkdownPath(path) == path # <<>> /\ Last(Last(path)) = Md

(* normalizeRel: "." and ".." are resolved inside the vault; a path that    *)
(* leaves it or names something hidden is refused.                          *)
Up == <<Dot, Dot>>
Resolved(done, s) == CASE s = <<Dot>> -> done
                       [] s = Up /\ done # <<>> /\ Last(done) # Up -> Front(done)
                       [] OTHER -> Append(done, s)
Clean(path) ==
  LET done[i \in 0..Len(path)] == IF i = 0 THEN <<>> ELSE Resolved(done[i - 1], path[i]) IN done[Len(path)]
normalizeRel(base, input) == Clean(base \o input)
PathDenied(path) == \E i \in DOMAIN path : deniedSegment(path[i])

LexLess(s, t) ==
  \E i \in 1..Len(t) : /\ i <= Len(s) + 1
                       /\ SubSeq(s, 1, i - 1) = SubSeq(t, 1, i - 1)
                       /\ i = Len(s) + 1 \/ s[i] < t[i]

joinRel(path) == FlattenSeq([i \in DOMAIN path |-> IF i = 1 THEN path[i] ELSE <<Slash>> \o path[i]])
comparePosition(s, t) == \/ LexLess(Nfc(s), Nfc(t))
                         \/ Nfc(s) = Nfc(t) /\ LexLess(s, t)
Before(p, q) == comparePosition(joinRel(p), joinRel(q))

(* Faulty variant, for mutation runs: a directory sorts by its bare name.   *)
walkOrderBare(path, kind) == joinRel(path)

(* The descendants of a directory begin with its path and a slash.          *)
walkOrderPosition(path, kind) == joinRel(path) \o (IF kind = "dir" THEN <<Slash>> ELSE <<>>)

(***************************************************************************)
(* Directories.  The descriptor of a directory that is gone shows one that *)
(* has been emptied.                                                       *)
(***************************************************************************)
Handle(p)        == [path |-> p, ino |-> vault[p].ino]
Present(d)       == vault[d.path].kind = "dir" /\ vault[d.path].ino = d.ino
statDirectory(d) == IF Present(d) THEN vault[d.path] ELSE [kind |-> "dir", ino |-> d.ino, ver |-> MaxEdits + 1]
EntryAt(d, name) == IF Present(d) /\ Append(d.path, name) \in Paths
                    THEN vault[Append(d.path, name)] ELSE Absent
Names(d) == {n \in {Last(p) : p \in Paths \ {<<>>}} :
               EntryAt(d, n).kind # "none" /\ ~deniedSegment(n)}

sameEntryIdentity(e, f) == e.ino = f.ino /\ e.kind = f.kind
sameFileIdentity(e, f)  == e = f

(* segmentMatcher: the exact spelling wins; else the only name with the     *)
(* same normal form; else, when none has it, the only one that differs in   *)
(* case.  Several candidates of one class are no match.                     *)
Matching(d, caller) ==
  LET nfc  == {n \in Names(d) : Nfc(n) = Nfc(caller)}
      fold == {n \in Names(d) : Fold(n) = Fold(caller)}
  IN IF caller \in Names(d) THEN {caller} ELSE IF nfc # {} THEN nfc ELSE fold
matchStoredSegment(d, caller) == IF Cardinality(Matching(d, caller)) = 1 THEN Matching(d, caller) ELSE {}

(***************************************************************************)
(* A walk along a path.  state is "look" or "enter" under way, "resolved"   *)
(* (base is what is there), "opened" (at is what was opened, base its      *)
(* entry), or the code of the error.  A Look matches the next segment and  *)
(* reads its entry, an Enter opens it.                                     *)
(***************************************************************************)
PathStart(path, root) ==
  [state |-> IF PathDenied(path) THEN "path_denied" ELSE IF path = <<>> THEN root ELSE "look",
   want  |-> path, at |-> Handle(<<>>), base |-> vault[<<>>]]

Walking(o) == o.state \in {"look", "enter"}
Enter(o, e) == [path |-> Append(o.at.path, Head(o.want)), ino |-> e.ino]

(* Resolve (final = FALSE) and OpenDir (final = TRUE).  What an Enter opens *)
(* is taken as it is; a name that is missing is the answer.                 *)
ResolveLook(o, final) ==
  LET found == matchStoredSegment(o.at, Head(o.want))
      name  == CHOOSE n \in found : TRUE
      e     == EntryAt(o.at, name)
      step  == [o EXCEPT !.want = <<name>> \o Tail(@), !.base = e]
  IN IF found = {} THEN [o EXCEPT !.state = IF final THEN "not_found" ELSE "resolved", !.base = Absent]
     ELSE IF Len(o.want) = 1 /\ ~final
          THEN [step EXCEPT !.state = "resolved", !.at = Enter(step, e)]
     ELSE [step EXCEPT !.state = CASE e.kind = "dir"  -> "enter"
                                   [] e.kind = "link" -> "symlink_denied"
                                   [] e.kind = "file" -> "not_directory"]

ResolveEnter(o) ==
  LET e == EntryAt(o.at, Head(o.want))
  IN CASE e.kind = "link" -> [o EXCEPT !.state = "symlink_denied"]
       [] e.kind = "none" -> [o EXCEPT !.state = "not_found"]
       [] e.kind = "file" -> [o EXCEPT !.state = "not_directory"]
       [] e.kind = "dir"  -> [o EXCEPT !.state = IF Len(o.want) = 1 THEN "opened" ELSE "look",
                                       !.want = Tail(@), !.at = Enter(o, e), !.base = e]

ResolveStep(o, final) == IF o.state = "look" THEN ResolveLook(o, final) ELSE ResolveEnter(o)

(* OpenFile: what was opened must be what was found.                        *)
OpenLook(o) ==
  LET found == matchStoredSegment(o.at, Head(o.want))
      name  == CHOOSE n \in found : TRUE
      e     == EntryAt(o.at, name)
      want  == IF Len(o.want) = 1 THEN "file" ELSE "dir"
  IN IF found = {} THEN [o EXCEPT !.state = "not_found"]
     ELSE [o EXCEPT !.state = CASE e.kind = want   -> "enter"
                                [] e.kind = "link" -> "symlink_denied"
                                [] e.kind \notin {want, "link"} ->
                                     (IF want = "file" THEN "not_file" ELSE "not_directory"),
                    !.want = <<name>> \o Tail(@), !.base = e]

OpenEnter(o) ==
  LET e    == EntryAt(o.at, Head(o.want))
      same == IF Len(o.want) = 1 THEN sameFileIdentity(o.base, e) ELSE sameEntryIdentity(o.base, e)
  IN IF e.kind = "link" THEN [o EXCEPT !.state = "symlink_denied"]
     ELSE IF ~same THEN [o EXCEPT !.state = "source_changed"]
     ELSE [o EXCEPT !.state = IF Len(o.want) = 1 THEN "opened" ELSE "look",
                    !.want = Tail(@), !.at = Enter(o, e), !.base = e]

OpenStep(o) == IF o.state = "look" THEN OpenLook(o) ELSE OpenEnter(o)

(***************************************************************************)
(* An open file is the path and entry it was opened with; its stamp is the *)
(* whole entry, so a save, a replacement and a removal all change it.      *)
(***************************************************************************)
Revalidated(file) == vault[file.path] = file.entry
=============================================================================
