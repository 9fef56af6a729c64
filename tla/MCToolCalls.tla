---------------------------- MODULE MCToolCalls ----------------------------
(* A small instance of ToolCalls for TLC.  The vault: a.md, a directory d,  *)
(* a file d.md whose name sorts between d and what is in d, and d/e.md.     *)
EXTENDS ToolCalls

A  == <<<<3, 1, 9>>>>
D  == <<<<4>>>>
DM == <<<<4, 1, 9>>>>
E  == <<<<4>>, <<5, 1, 9>>>>

Tree == {<<>>, A, D, DM, E}
Kinds == [p \in Tree |-> IF p \in {<<>>, D} THEN "dir" ELSE "file"]
Shaken == {D, DM}

Hit(n) == [hit |-> TRUE, size |-> n]
Txt(n) == [hit |-> FALSE, size |-> n]
Bodies == [p \in {A, DM, E} |-> CASE p = A  -> <<<<Hit(1), Txt(1)>>, <<Txt(1)>>>>
                                  [] p = DM -> <<<<Hit(1), Hit(1), Txt(1)>>, <<Hit(1)>>>>
                                  [] p = E  -> <<<<Hit(3), Txt(1)>>, <<Hit(2), Hit(1)>>>>]
WithEmpty == [Bodies EXCEPT ![DM] = <<<<>>, <<>>>>]

Q(base, path, regex, context, limit, files, bytes) ==
  [base |-> base, path |-> path, regex |-> regex, context |-> context, limit |-> limit, files |-> files, bytes |-> bytes]

(* By results; by files and bytes, with context; one file by another case;  *)
(* a regex that meets lines too large to return.                            *)
Searches == {Q(<<>>, <<>>, FALSE, 0, 2, 9, 9), Q(<<>>, <<>>, FALSE, 1, 9, 9, 2),
             Q(<<>>, <<>>, FALSE, 1, 9, 2, 4),
             Q(D, <<<<15, 1, 19>>>>, FALSE, 0, 9, 9, 3), Q(<<>>, <<>>, TRUE, 0, 4, 2, 9)}
OneSearch == {Q(<<>>, <<>>, FALSE, 0, 2, 9, 9)}
OneFault(q) == 1
NoFault(q) == 0

Listings == {[base |-> <<>>, path |-> <<>>, limit |-> 2], [base |-> D, path |-> <<>>, limit |-> 1],
             [base |-> A, path |-> <<>>, limit |-> 1]}
NoListings == {}
(* Reads: a unit in pieces, an outline line by line; many: pieces under the *)
(* bytes of a page, an item cut to the room, errors of every kind.          *)
R(path, unit, bytes) == [path |-> path, unit |-> unit, bytes |-> bytes]
One(path, unit, bytes) == [tool |-> "read", base |-> <<>>, bytes |-> 9, requests |-> <<R(path, unit, bytes)>>]
Many(requests, bytes) == [tool |-> "read_many", base |-> <<>>, bytes |-> bytes, requests |-> requests]

Checked == Many(<<R(DM, "content", 9), R(D, "content", 9), R(E, "heading", 9)>>, 3)
Reads == {One(E, "content", 2), One(DM, "outline", 1), Checked,
          Many(<<R(DM, "content", 9), R(E, "content", 9)>>, 3),
          Many(<<R(E, "content", 9), R(A, "content", 9)>>, 9),
          Many(<<R(E, "outline", 9), R(E, "outline", 2), R(A, "invalid", 9), R(A, "heading", 0), R(DM, "outline", 1)>>, 9)}
OneRead == {One(E, "content", 2)}
TwoForLists(q) == IF q \in Listings \cup {Checked} THEN 2 ELSE 1

Two == [n \in {p[Len(p)] : p \in Tree \ {<<>>}} |-> 2]
CursorSize == [Two EXCEPT ![<<3, 1, 9>>] = 3, ![<<4>>] = 1]

(* Batches: native groups by import ID and by identity, one that cannot be  *)
(* told apart, updates by import ID sent alone with and without a field     *)
(* that is compared, two exports under one name, reads that do not fit      *)
(* together, an invalid item, no item, an import.                           *)
Plain == [type |-> "transaction", plan |-> "p", id |-> "", importID |-> "", scopes |-> 0, data |-> TRUE, sound |-> TRUE,
          checked |-> FALSE, source |-> "", format |-> "", file |-> "", size |-> 1]
ByImport(k) == [Plain EXCEPT !.importID = k]
ByID(k)     == [Plain EXCEPT !.id = k]
Account     == [Plain EXCEPT !.type = "account"]
Export      == [Plain EXCEPT !.type = "export", !.source = "plan", !.format = "json", !.file = "f"]

SomeBatches ==
  {[verb |-> "create", items |-> <<ByImport("x"), ByImport("y"), Account>>],
   [verb |-> "update", items |-> <<[ByID("a") EXCEPT !.checked = TRUE], ByImport("x"), [Account EXCEPT !.id = "b"]>>],
   [verb |-> "create", items |-> <<ByImport("x"), ByImport("x")>>],
   [verb |-> "update", items |-> <<[ByID("a") EXCEPT !.checked = TRUE], [Account EXCEPT !.id = "b"]>>],
   [verb |-> "update", items |-> <<ByImport("x"), [Account EXCEPT !.id = "b"], [ByImport("x") EXCEPT !.checked = TRUE]>>],
   [verb |-> "create", items |-> <<Export, Export, Account>>],
   [verb |-> "get", items |-> <<ByID("a"), [ByID("b") EXCEPT !.size = 3]>>],
   [verb |-> "update", items |-> <<ByID("a"), Plain>>],
   [verb |-> "delete", items |-> <<ByID("a"), ByID("b")>>],
   [verb |-> "import", items |-> <<[Plain EXCEPT !.type = "bank_import"]>>],
   [verb |-> "list", items |-> <<>>]}
NoBatches == {}
=============================================================================
