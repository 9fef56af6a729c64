----------------------------- MODULE BatchProofs -----------------------------
(***************************************************************************)
(* Proof that what the caller of a YNAB tool is told of a batch is true    *)
(* (BatchTold), for any calls, limits and other exports, and for what      *)
(* YnabBatch lets the provider do and show.  The one success that may be   *)
(* false is named in the statement: an update sent alone by its import ID  *)
(* that the answer did not name (Unnamed).                                 *)
(*                                                                         *)
(* While a batch runs, what is behind it is settled and what is ahead of   *)
(* it untouched: requests were sent for items before the current one only  *)
(* and the items from there on were never sent.  A batch of writes has     *)
(* nothing but successes behind it, because it ends with the first group   *)
(* that has none.  That no item of a native group is taken for another     *)
(* comes from what makes a group: its identities are distinct.             *)
(***************************************************************************)
EXTENDS ToolCalls, FiniteSetTheorems, SequenceTheorems, WellFoundedInduction, TLAPS

Statuses == {"success", "error", "uncertain", "not_attempted"}
Codes    == {Blank, "invalid_request", "local_state", "rate_limited", "wait", "canceled", "not_found", "permission",
             "invalid_response", "upstream_unavailable", "response_too_large", "conflict", "uncertain_write"}
Result   == [index : Nat, status : Statuses, code : Codes]
DeedSet  == {"made", "duplicate", "ignored", "none"}

Exporting == {"fetch", "open", "write", "publish"}
Running   == {"next"} \cup Exporting
Verbs     == {b.verb : b \in Batches} \cup {"get"}
ItemLists == {b.items : b \in Batches} \cup {<<>>}

BatchType ==
  /\ batch \in [pc : Running \cup {"idle", "finish", "answer"}, verb : Verbs, items : ItemLists, i : Nat,
                results : Seq(Result), cancelled : BOOLEAN, stops : Nat]
  /\ provider \in [sent : Seq(SUBSET Nat), deeds : [DOMAIN batch.items -> DeedSet]]
  /\ exports \in [files : [Files -> Int], staged : BOOLEAN, slot : {"free", "mine", "other"}, others : SUBSET Files]

GoodItem(i) == IF batch.items[i].type = "export" THEN exports.files[batch.items[i].file] = i
               ELSE provider.deeds[i] \in {"made", "duplicate"} \/ Unnamed(i)
DoneItem(i) == IF batch.items[i].type = "export" THEN exports.files[batch.items[i].file] = i
               ELSE provider.deeds[i] # "none"

Writes == Mutation(batch.verb)

(* Every item is valid, and there are as many as may be.                   *)
Accepted == Len(batch.items) \in 1..MaxItems /\ \A j \in DOMAIN batch.items : validateItem(batch.verb, batch.items[j])

(* Before the call.                                                        *)
Fresh == /\ provider.sent = <<>> /\ ~exports.staged /\ exports.slot = "free" /\ exports.others = {}
         /\ \A f \in Files : exports.files[f] = 0

(* What was told so far is true.                                           *)
TrueSoFar ==
  /\ \A k \in DOMAIN batch.results : batch.results[k].index = k
  /\ \A k \in DOMAIN batch.results : batch.results[k].status = "not_attempted" =>
       \A m \in DOMAIN provider.sent : k \notin provider.sent[m]
  /\ Writes => \A k \in DOMAIN batch.results : /\ batch.results[k].status = "success" => GoodItem(k)
                                               /\ batch.results[k].status = "error" => ~DoneItem(k)

(* The current item: all before it is settled, nothing of it or after it   *)
(* was sent, but for the export under way.                                 *)
SentBefore(m) ==
  \/ provider.sent[m] \subseteq 1..(batch.i - 1)
  \/ batch.pc \in Exporting \ {"fetch"} /\ m = Len(provider.sent) /\ provider.sent[m] = {batch.i}

Current ==
  /\ batch.i \in 1..Len(batch.items) /\ Len(batch.results) = batch.i - 1
  /\ Writes => \A k \in DOMAIN batch.results : batch.results[k].status = "success"
  /\ \A m \in DOMAIN provider.sent : SentBefore(m)
  /\ \A j \in batch.i..Len(batch.items) : provider.deeds[j] = "none"
  /\ \A f \in Files : exports.files[f] < batch.i
  /\ batch.pc \in Exporting => Item.type = "export"

(* A batch of writes went on after successes only.                         *)
Ended ==
  /\ Len(batch.results) = Len(batch.items)
  /\ \A m \in DOMAIN provider.sent : provider.sent[m] \subseteq DOMAIN batch.items
  /\ Writes => \A m \in DOMAIN provider.sent : m < Len(provider.sent) =>
       \A k \in provider.sent[m] : batch.results[k].status = "success"

(* What an export holds.                                                   *)
Holds ==
  /\ exports.staged => batch.pc \in {"write", "publish"}
  /\ exports.slot = "mine" => batch.pc \in Exporting
  /\ \A f \in exports.others : exports.files[f] = -1

BInv ==
  /\ BatchType /\ Holds
  /\ batch.pc = "idle" => Fresh
  /\ batch.pc \in Running => Accepted /\ TrueSoFar /\ Current
  /\ batch.pc = "finish" => Accepted /\ TrueSoFar /\ Ended
  /\ BatchTold
-----------------------------------------------------------------------------
(* What a result is made of.                                               *)
LEMMA ToldIsResult ==
  ASSUME NEW k \in Nat, NEW s \in Statuses, NEW c \in Codes
  PROVE  Told(k, s, c) \in Result /\ Told(k, s, c).index = k /\ Told(k, s, c).status = s /\ Told(k, s, c).code = c
BY DEF Told, Result

(* Every reason for which an attempt was denied or brought nothing.        *)
LEMMA ReasonsAreCodes == Denied \subseteq Codes /\ ReadLosses \subseteq Codes /\ Refusals \subseteq Codes
BY DEF Denied, ReadLosses, Refusals, Codes

(* What was sent alone was sent alone, whatever is sent after it.          *)
LEMMA UnnamedKept ==
  ASSUME batch'.items = batch.items, batch'.verb = batch.verb, NEW k, Unnamed(k),
         \A m \in DOMAIN provider.sent : m \in DOMAIN provider'.sent /\ provider'.sent[m] = provider.sent[m]
  PROVE  Unnamed(k)'
BY DEF Unnamed

(***************************************************************************)
(* The items of a request.                                                 *)
(***************************************************************************)
(* A row of items has a last one.                                          *)
LEMMA MaxRow == ASSUME NEW n \in Nat, NEW S \in SUBSET (1..n), S # {} PROVE Max(S) \in S
<1> DEFINE T == {n - e : e \in S}
<1>1. T \subseteq Nat /\ T # {}
  <2>1. PICK e \in S : TRUE
    OBVIOUS
  <2>2. n - e \in T
    BY <2>1
  <2>3. \A d \in S : n - d \in Nat
    OBVIOUS
  <2> QED BY <2>2, <2>3
<1>2. PICK x \in T : \A y \in T : ~(<<y, x>> \in OpToRel(<, Nat))
  BY <1>1, NatLessThanWellFounded, WFMin
<1>3. PICK m \in S : x = n - m
  BY <1>2
<1>4. ASSUME NEW e \in S PROVE m >= e
  <2>1. n - e \in T /\ n - e \in Nat /\ x \in Nat
    BY <1>1, <1>2
  <2>2. ~(n - e < x)
    BY <1>2, <2>1 DEF OpToRel
  <2> QED BY <1>3, <2>1, <2>2
<1> QED BY <1>3, <1>4 DEF Max

(* A batch is at one of its items.                                         *)
AtItem == BatchType /\ batch.i \in 1..Len(batch.items)

(* Its items are a sequence, those of exports name a file.                 *)
LEMMA ItemsListed ==
  ASSUME BatchType
  PROVE  /\ Len(batch.items) \in Nat /\ DOMAIN batch.items = 1..Len(batch.items)
         /\ batch.items \in Seq({batch.items[j] : j \in DOMAIN batch.items})
         /\ \A j \in DOMAIN batch.items : batch.items[j].type = "export" => batch.items[j].file \in Files
<1>1. batch.items \in ItemLists
  BY DEF BatchType
<1>2. batch.items = <<>> \/ \E b \in Batches : batch.items = b.items
  BY <1>1 DEF ItemLists
<1>3. CASE batch.items = <<>>
  BY <1>3
<1>4. CASE \E b \in Batches : batch.items = b.items
  <2>1. PICK b \in Batches : batch.items = b.items
    BY <1>4
  <2>2. b.items \in Seq({b.items[j] : j \in DOMAIN b.items})
        /\ \A j \in DOMAIN b.items : b.items[j].type = "export" => b.items[j].file \in Files
    BY BatchAssumption
  <2> QED BY <2>1, <2>2
<1> QED BY <1>2, <1>3, <1>4

(* A request is for a row of items from the current one on.                *)
LEMMA GroupIsRow ==
  ASSUME AtItem
  PROVE  GroupEnd \in batch.i..Len(batch.items) /\ Group \subseteq DOMAIN batch.items
         /\ Cardinality(Group) = GroupEnd - batch.i + 1
<1>1. batch.i \in Nat /\ batch.i >= 1 /\ Len(batch.items) \in Nat /\ batch.i <= Len(batch.items)
      /\ DOMAIN batch.items = 1..Len(batch.items)
  BY ItemsListed DEF AtItem
<1>2. RowEnds \in SUBSET (1..Len(batch.items)) /\ RowEnds \subseteq batch.i..Len(batch.items)
  BY <1>1 DEF RowEnds
<1>3. RowEnds # {} => Max(RowEnds) \in RowEnds
  BY <1>1, <1>2, MaxRow
<1>4. GroupEnd \in batch.i..Len(batch.items)
  <2>1. GroupEnd = batch.i \/ (RowEnds # {} /\ GroupEnd = Max(RowEnds))
    BY DEF GroupEnd
  <2>2. GroupEnd = batch.i \/ GroupEnd \in batch.i..Len(batch.items)
    BY <1>2, <1>3, <2>1
  <2> QED BY <1>1, <2>2
<1>5. Cardinality(Group) = GroupEnd - batch.i + 1
  <2>1. batch.i \in Int /\ GroupEnd \in Int /\ ~(batch.i > GroupEnd)
    BY <1>1, <1>4
  <2> QED BY <2>1, FS_Interval DEF Group
<1> QED BY <1>1, <1>4, <1>5 DEF Group

(* The place of an item in a group.                                        *)
LEMMA PlaceInGroup ==
  ASSUME NEW i \in Nat, NEW w \in Nat, NEW k \in i..w
  PROVE  k - i + 1 \in 1..(w - i + 1) /\ i + (k - i + 1) - 1 = k
OBVIOUS

(* One of several items is a transaction that is created or updated, and   *)
(* no other one of them has its identity.                                  *)
LEMMA GroupTold ==
  ASSUME AtItem, GroupEnd # batch.i, NEW j \in Group
  PROVE  /\ isNativeTransaction(batch.verb, batch.items[j])
         /\ \A k \in Group : k # j =>
              transactionIdentity(batch.verb, batch.items[k]) # transactionIdentity(batch.verb, batch.items[j])
<1> DEFINE e == Max(RowEnds)
           row == SubSeq(batch.items, batch.i, e)
<1>1. RowEnds # {} /\ GroupEnd = e /\ nativeBatchIdentifiable(batch.verb, row)
  BY DEF GroupEnd
<1>2. batch.i \in Nat /\ batch.i >= 1 /\ Len(batch.items) \in Nat /\ e \in batch.i..Len(batch.items)
  BY <1>1, GroupIsRow, ItemsListed DEF AtItem
<1>3. e \in RowEnds
  <2>1. RowEnds \in SUBSET (1..Len(batch.items))
    BY <1>2 DEF RowEnds
  <2> QED BY <1>1, <1>2, <2>1, MaxRow
<1>4. j \in batch.i..e
  BY <1>1 DEF Group
<1> HIDE DEF e
<1>5. isNativeTransaction(batch.verb, batch.items[j])
  BY <1>3, <1>4 DEF RowEnds
<1>6. DOMAIN row = 1..(e - batch.i + 1) /\ \A k \in 1..(e - batch.i + 1) : row[k] = batch.items[batch.i + k - 1]
  <2> DEFINE S == {batch.items[m] : m \in DOMAIN batch.items}
  <2>1. batch.i \in Int /\ e \in Int /\ batch.i <= e /\ \A m \in batch.i..e : batch.items[m] \in S
    BY <1>2, ItemsListed DEF AtItem
  <2> HIDE DEF S
  <2>2. row \in Seq(S) /\ Len(row) = e - batch.i + 1 /\ \A k \in 1..(e - batch.i + 1) : row[k] = batch.items[batch.i + k - 1]
    BY <2>1, SubSeqProperties
  <2> HIDE DEF row
  <2> QED BY <2>2
<1>7. ASSUME NEW k \in Group, k # j
      PROVE  transactionIdentity(batch.verb, batch.items[k]) # transactionIdentity(batch.verb, batch.items[j])
  <2> DEFINE a == k - batch.i + 1
             b == j - batch.i + 1
  <2>1. k \in batch.i..e
    BY <1>1, <1>7 DEF Group
  <2>2. a \in DOMAIN row /\ b \in DOMAIN row /\ a # b
    <3>1. k \in Nat /\ j \in Nat /\ e \in Nat
      BY <1>2, <1>4, <2>1
    <3>2. a \in 1..(e - batch.i + 1) /\ b \in 1..(e - batch.i + 1)
      BY <1>2, <1>4, <2>1, <3>1, PlaceInGroup
    <3>3. a # b
      BY <1>2, <1>7, <3>1
    <3> HIDE DEF a, b, row
    <3> QED BY <1>6, <3>2, <3>3
  <2>3. row[a] = batch.items[k] /\ row[b] = batch.items[j]
    <3>1. batch.i + a - 1 = k /\ batch.i + b - 1 = j
      BY <1>2, <1>4, <2>1, PlaceInGroup
    <3> HIDE DEF a, b, row
    <3> QED BY <1>6, <2>2, <3>1
  <2> HIDE DEF a, b, row
  <2>4. transactionIdentity(batch.verb, row[a]) # transactionIdentity(batch.verb, row[b])
    BY <1>1, <2>2 DEF nativeBatchIdentifiable
  <2> QED BY <2>3, <2>4
<1> QED BY <1>5, <1>7

(* Two transactions of a group that the answer does not tell apart are one.*)
LEMMA CorrelatesItself ==
  ASSUME AtItem, Accepted, GroupEnd # batch.i, NEW shown \in SUBSET Group, NEW deeds, NEW k \in Group,
         correlateNativeResults(batch.verb, batch.items, k, deeds, shown)
  PROVE  k \in shown
<1> DEFINE x == batch.items[k]
<1>1. PICK j \in shown : \/ x.id # Blank /\ batch.verb = "update" /\ batch.items[j].id = x.id
                         \/ x.importID # Blank /\ batch.items[j].importID = x.importID
  BY DEF correlateNativeResults
<1> DEFINE y == batch.items[j]
<1>2. k \in DOMAIN batch.items /\ j \in DOMAIN batch.items
  BY <1>1, GroupIsRow
<1>3. validatePayload(batch.verb, x) /\ validatePayload(batch.verb, y)
  BY <1>2 DEF Accepted, validateItem
<1>4. x.type = "transaction" /\ y.type = "transaction" /\ batch.verb \in {"create", "update"}
  BY <1>1, GroupTold DEF isNativeTransaction
<1>5. batch.verb = "update" => (x.id = Blank) # (x.importID = Blank) /\ (y.id = Blank) # (y.importID = Blank)
  <2> HIDE DEF x, y
  <2> QED BY <1>3, <1>4 DEF validatePayload
<1>6. transactionIdentity(batch.verb, x) = transactionIdentity(batch.verb, y)
  <2> HIDE DEF x
  <2>1. CASE x.importID # Blank /\ y.importID = x.importID
    BY <2>1 DEF transactionIdentity
  <2>2. CASE x.id # Blank /\ batch.verb = "update" /\ y.id = x.id
    <3>1. x.importID = Blank /\ y.importID = Blank
      BY <1>5, <2>2
    <3> QED BY <2>2, <3>1 DEF transactionIdentity
  <2> QED BY <1>1, <2>1, <2>2 DEF x
<1> QED BY <1>1, <1>6, GroupTold

(* An update sent alone, of which the answer shows nothing that is looked  *)
(* at.                                                                     *)
SentAlone(k) == batch.verb = "update" /\ ListSuffices(batch.verb, batch.items[k]) /\ ~batch.items[k].checked /\ Group = {k}

(* What is told of an item the provider answered for.                      *)
LEMMA ConfirmedIsTrue ==
  ASSUME AtItem, Accepted, NEW shown \in SUBSET Group, NEW deeds \in [Group -> DeedSet], NEW k \in Group,
         deeds[k] = "ignored" => batch.verb = "update" /\ batch.items[k].type = "transaction" /\ batch.items[k].checked,
         deeds[k] = "none" => CarriesList(batch.verb, batch.items[k], Cardinality(Group) = 1),
         \A j \in shown : deeds[j] # "none"
  PROVE  LET r == Confirmed(batch.verb, batch.items, Group, k, deeds, shown)
         IN  /\ r \in Result /\ r.index = k /\ r.status \in {"success", "uncertain"}
             /\ Writes /\ r.status = "success" => deeds[k] \in {"made", "duplicate"} \/ SentAlone(k)
<1> DEFINE r == Confirmed(batch.verb, batch.items, Group, k, deeds, shown)
<1>1. k \in Nat /\ batch.i \in Nat /\ Cardinality(Group) = GroupEnd - batch.i + 1 /\ GroupEnd \in Nat /\ GroupEnd >= batch.i
  BY GroupIsRow DEF AtItem, Group
<1> DEFINE x == batch.items[k]
           named == IF Cardinality(Group) > 1 THEN correlateNativeResults(batch.verb, batch.items, k, deeds, shown)
                    ELSE ListSuffices(batch.verb, x) \/ k \in shown
           same  == batch.verb = "update" /\ x.type = "transaction" => confirmTransactionFields(x, k, deeds, shown)
           sure  == ~Writes \/ (named /\ same)
<1>2. (r = Told(k, "success", Blank) /\ sure) \/ r = Told(k, "uncertain", Blank)
  BY DEF Confirmed, Writes
<1> HIDE DEF r
<1>3. r = Told(k, "success", Blank) \/ r = Told(k, "uncertain", Blank)
  BY <1>2
<1>4. r \in Result /\ r.index = k /\ r.status \in {"success", "uncertain"}
  <2>1. "success" \in Statuses /\ "uncertain" \in Statuses /\ Blank \in Codes
    BY DEF Statuses, Codes
  <2> QED BY <1>1, <1>3, <2>1, ToldIsResult
<1>5. ASSUME Writes, r.status = "success" PROVE deeds[k] \in {"made", "duplicate"} \/ SentAlone(k)
  <2>1. named /\ same
    <3>1. ASSUME r = Told(k, "uncertain", Blank) PROVE FALSE
      BY <1>1, <1>5, <3>1, ToldIsResult DEF Statuses, Codes
    <3> QED BY <1>2, <1>5, <3>1, Zenon
  <2>2. deeds[k] # "ignored"
    <3>1. SUFFICES ASSUME deeds[k] = "ignored" PROVE FALSE
      OBVIOUS
    <3>2. batch.verb = "update" /\ x.type = "transaction" /\ x.checked
      BY <3>1
    <3>3. confirmTransactionFields(x, k, deeds, shown)
      BY <2>1, <3>2
    <3> QED BY <3>1, <3>2, <3>3 DEF confirmTransactionFields
  <2>3. deeds[k] # "none" \/ SentAlone(k)
    <3>1. CASE GroupEnd = batch.i
      <4>1. Cardinality(Group) = 1 /\ Group = {k}
        BY <1>1, <3>1 DEF Group
      <4>2. SUFFICES ASSUME deeds[k] = "none" PROVE SentAlone(k)
        OBVIOUS
      <4>3. k \notin shown
        BY <4>2
      <4>4. isNativeTransaction(batch.verb, x)
        BY <4>1, <4>2 DEF CarriesList
      <4>5. ListSuffices(batch.verb, x)
        BY <2>1, <4>1, <4>3
      <4>6. batch.verb = "update" /\ x.type = "transaction"
        BY <4>4, <4>5 DEF isNativeTransaction, ListSuffices, transactionRoute
      <4>7. ~x.checked
        BY <2>1, <4>3, <4>6 DEF confirmTransactionFields
      <4> QED BY <4>1, <4>5, <4>6, <4>7 DEF SentAlone
    <3>2. CASE GroupEnd # batch.i
      <4>1. Cardinality(Group) > 1
        BY <1>1, <3>2
      <4>2. correlateNativeResults(batch.verb, batch.items, k, deeds, shown)
        BY <2>1, <4>1
      <4> QED BY <3>2, <4>2, CorrelatesItself
    <3> QED BY <3>1, <3>2
  <2> QED BY <2>2, <2>3 DEF DeedSet
<1> QED BY <1>4, <1>5 DEF r

(***************************************************************************)
(* A batch that goes on.                                                   *)
(***************************************************************************)
BatchRecord == [pc : Running \cup {"idle", "finish", "answer"}, verb : Verbs, items : ItemLists, i : Nat,
                results : Seq(Result), cancelled : BOOLEAN, stops : Nat]

(* The items that a failure leaves.                                        *)
LEMMA NotAttempted ==
  ASSUME NEW results \in Seq(Result), NEW n \in Nat, Len(results) <= n
  PROVE  LET all == appendNotAttempted(results, n)
         IN  /\ all \in Seq(Result) /\ Len(all) = n
             /\ \A k \in 1..Len(results) : all[k] = results[k]
             /\ \A k \in (Len(results) + 1)..n : all[k].index = k /\ all[k].status = "not_attempted"
<1> DEFINE d == n - Len(results)
           code == IF results = <<>> THEN Blank ELSE Last(results).code
           rest == [k \in 1..d |-> Told(Len(results) + k, "not_attempted", code)]
<1>1. d \in Nat
  OBVIOUS
<1>2. code \in Codes
  <2>1. CASE results = <<>>
    BY <2>1 DEF Codes
  <2>2. CASE results # <<>>
    <3>1. Last(results) \in Result
      BY <2>2 DEF Last
    <3>2. Last(results).code \in Codes
      BY <3>1 DEF Result
    <3> QED BY <2>2, <3>2
  <2> QED BY <2>1, <2>2
<1> HIDE DEF code
<1>3. ASSUME NEW k \in 1..d
      PROVE  rest[k] \in Result /\ rest[k].index = Len(results) + k /\ rest[k].status = "not_attempted"
  <2>1. rest[k] = Told(Len(results) + k, "not_attempted", code) /\ Len(results) + k \in Nat
    BY <1>1, <1>3
  <2>2. "not_attempted" \in Statuses
    BY DEF Statuses
  <2> HIDE DEF rest
  <2> QED BY <1>2, <2>1, <2>2, ToldIsResult
<1>4. rest \in Seq(Result) /\ Len(rest) = d
  <2>1. rest \in [1..d -> Result]
    <3>1. rest = [k \in 1..d |-> rest[k]]
      OBVIOUS
    <3> HIDE DEF rest
    <3> QED BY <1>3, <3>1
  <2> HIDE DEF rest
  <2> QED BY <1>1, <2>1
<1> DEFINE all == results \o rest
<1>5. all = appendNotAttempted(results, n)
  BY DEF appendNotAttempted, rest, d, code
<1> HIDE DEF rest
<1>6. all \in Seq(Result) /\ Len(all) = Len(results) + Len(rest)
      /\ (\A k \in 1..Len(results) : all[k] = results[k])
      /\ \A k \in 1..Len(rest) : all[Len(results) + k] = rest[k]
  BY <1>4, ConcatProperties
<1> HIDE DEF all
<1>7. Len(results) \in Nat /\ d = n - Len(results)
  OBVIOUS
<1> HIDE DEF d
<1>8. Len(all) = n
  BY <1>4, <1>6, <1>7
<1>9. ASSUME NEW k \in (Len(results) + 1)..n PROVE all[k].index = k /\ all[k].status = "not_attempted"
  <2>1. k - Len(results) \in 1..d /\ Len(results) + (k - Len(results)) = k
    BY <1>7
  <2>2. all[Len(results) + (k - Len(results))] = rest[k - Len(results)]
    BY <1>4, <1>6, <2>1
  <2> QED BY <1>3, <2>1, <2>2
<1> QED BY <1>5, <1>6, <1>8, <1>9

(* The results after those of the items up to w were added.                *)
LEMMA OnwardShape ==
  ASSUME BatchType, batch.i \in 1..Len(batch.items), batch.i = Len(batch.results) + 1,
         NEW w \in batch.i..Len(batch.items), NEW more \in Seq(Result), w = Len(batch.results) + Len(more),
         batch' = Onward(more)
  PROVE  /\ batch' \in BatchRecord /\ batch'.verb = batch.verb /\ batch'.items = batch.items
         /\ batch'.pc \in {"next", "finish"} /\ batch'.i = w + 1 /\ Len(batch'.results) \in w..Len(batch.items)
         /\ \A k \in 1..(batch.i - 1) : batch'.results[k] = batch.results[k]
         /\ \A k \in batch.i..w : batch'.results[k] = more[k - batch.i + 1]
         /\ \A k \in (w + 1)..Len(batch'.results) :
              batch'.results[k].index = k /\ batch'.results[k].status = "not_attempted"
         /\ batch'.pc = "next" => /\ Len(batch'.results) = w /\ w < Len(batch.items)
                                  /\ \A k \in DOMAIN more : ~Stops(Writes, more[k])
         /\ batch'.pc = "finish" => Len(batch'.results) = Len(batch.items)
<1> DEFINE n    == Len(batch.items)
           seq  == batch.results \o more
           stop == \E k \in DOMAIN more : Stops(Writes, more[k])
           all  == IF stop THEN appendNotAttempted(seq, n) ELSE seq
           pc   == IF Len(all) = n THEN "finish" ELSE "next"
<1>1. batch \in BatchRecord /\ n \in Nat /\ batch.i \in Nat /\ w \in Nat /\ batch.results \in Seq(Result)
  BY ItemsListed DEF BatchType, BatchRecord
<1>2. seq \in Seq(Result) /\ Len(seq) = w
  BY <1>1
<1>3. /\ \A k \in 1..(batch.i - 1) : seq[k] = batch.results[k]
      /\ \A k \in batch.i..w : seq[k] = more[k - batch.i + 1]
  <2>1. \A k \in 1..(batch.i - 1) : seq[k] = batch.results[k]
    BY <1>1
  <2>2. ASSUME NEW k \in batch.i..w PROVE seq[k] = more[k - batch.i + 1]
    <3>1. k - batch.i + 1 \in 1..Len(more)
      BY <1>1
    <3>2. \A j \in 1..Len(more) : seq[Len(batch.results) + j] = more[j]
      BY <1>1, ConcatProperties
    <3> HIDE DEF seq
    <3>3. seq[Len(batch.results) + (k - batch.i + 1)] = more[k - batch.i + 1]
      BY <3>1, <3>2
    <3>4. Len(batch.results) + (k - batch.i + 1) = k
      BY <1>1
    <3> QED BY <3>3, <3>4
  <2> QED BY <2>1, <2>2
<1>4. batch' = [batch EXCEPT !.results = all, !.i = Len(seq) + 1, !.pc = pc]
  BY DEF Onward, Writes
<1> HIDE DEF seq, stop, pc
<1>5. /\ all \in Seq(Result) /\ Len(all) \in w..n
      /\ \A k \in 1..w : all[k] = seq[k]
      /\ \A k \in (w + 1)..Len(all) : all[k].index = k /\ all[k].status = "not_attempted"
      /\ Len(all) = n \/ (Len(all) = w /\ ~stop)
  <2>1. CASE stop
    <3>1. all = appendNotAttempted(seq, n)
      BY <2>1
    <3> HIDE DEF all
    <3>2. w \in 0..n
      BY <1>1
    <3>a. n \in Nat /\ Len(seq) <= n
      BY <1>1, <1>2
    <3> HIDE DEF n
    <3>3. all \in Seq(Result) /\ Len(all) = n /\ (\A k \in 1..w : all[k] = seq[k])
          /\ \A k \in (w + 1)..n : all[k].index = k /\ all[k].status = "not_attempted"
      BY <1>2, <3>1, <3>a, NotAttempted
    <3> QED BY <3>2, <3>3
  <2>2. CASE ~stop
    <3>1. all = seq
      BY <2>2
    <3> HIDE DEF all
    <3> QED BY <1>1, <1>2, <2>2, <3>1
  <2> QED BY <2>1, <2>2
<1> HIDE DEF all
<1>6. pc \in {"next", "finish"} /\ (pc = "finish" <=> Len(all) = n)
  BY DEF pc
<1>7. /\ batch' \in BatchRecord /\ batch'.verb = batch.verb /\ batch'.items = batch.items
      /\ batch'.pc = pc /\ batch'.i = w + 1 /\ batch'.results = all
  <2>1. batch' = [batch EXCEPT !.results = all, !.i = w + 1, !.pc = pc]
    BY <1>2, <1>4
  <2>2. all \in Seq(Result) /\ w + 1 \in Nat /\ pc \in Running \cup {"idle", "finish", "answer"}
    BY <1>1, <1>5, <1>6 DEF Running
  <2> HIDE DEF n
  <2>3. batch' \in BatchRecord
    BY <1>1, <2>1, <2>2 DEF BatchRecord
  <2>4. batch'.verb = batch.verb /\ batch'.items = batch.items
    BY <1>1, <2>1 DEF BatchRecord
  <2>5. batch'.pc = pc /\ batch'.i = w + 1 /\ batch'.results = all
    BY <1>1, <2>1 DEF BatchRecord
  <2> QED BY <2>3, <2>4, <2>5
<1>8. \A k \in batch.i..w : k \in 1..w
  BY <1>1
<1>9. \A k \in 1..(batch.i - 1) : k \in 1..w
  BY <1>1
<1>10. pc = "next" => Len(all) = w /\ w < n
  BY <1>1, <1>5, <1>6
<1>11. pc = "next" => ~stop
  BY <1>5, <1>6, Zenon
<1>a. \A k \in 1..(batch.i - 1) : all[k] = batch.results[k]
  BY <1>3, <1>5, <1>9
<1>b. \A k \in batch.i..w : all[k] = more[k - batch.i + 1]
  BY <1>3, <1>5, <1>8
<1>c. pc = "next" => \A k \in DOMAIN more : ~Stops(Writes, more[k])
  BY <1>11, Zenon DEF stop
<1> QED BY <1>5, <1>6, <1>7, <1>10, <1>a, <1>b, <1>c

(* What a step that tells of the items up to w may do: it sends nothing,   *)
(* or them, leaves what became of other items alone, keeps no stage and no *)
(* slot, and tells of these items what is so.                              *)
Settles(w, more) ==
  /\ provider' \in [sent : Seq(SUBSET Nat), deeds : [DOMAIN batch.items -> DeedSet]]
  /\ exports' \in [files : [Files -> Int], staged : BOOLEAN, slot : {"free", "mine", "other"}, others : SUBSET Files]
  /\ ~exports'.staged /\ exports'.slot # "mine" /\ \A f \in exports'.others : exports'.files[f] = -1
  /\ \A m \in DOMAIN provider'.sent :
       \/ provider'.sent[m] \subseteq 1..(batch.i - 1) /\ m \in DOMAIN provider.sent /\ provider'.sent[m] = provider.sent[m]
       \/ m = Len(provider'.sent) /\ provider'.sent[m] = batch.i..w
            /\ \A k \in DOMAIN more : more[k].status # "not_attempted"
  /\ \A m \in DOMAIN provider.sent : m \in DOMAIN provider'.sent /\ provider'.sent[m] = provider.sent[m]
  /\ \A j \in DOMAIN batch.items : j \notin batch.i..w => provider'.deeds[j] = provider.deeds[j]
  /\ \A f \in Files :
       \/ exports'.files[f] = exports.files[f]
       \/ exports.files[f] = 0 /\ exports'.files[f] \in batch.i..w
  /\ \A k \in batch.i..w :
       /\ more[k - batch.i + 1].index = k
       /\ Writes => /\ more[k - batch.i + 1].status = "success" => GoodItem(k)'
                    /\ more[k - batch.i + 1].status = "error" => ~DoneItem(k)'

(* What is told of an earlier item stays true.                             *)
LEMMA EarlierKept ==
  ASSUME BInv, batch.pc \in Running, NEW w \in batch.i..Len(batch.items), NEW more, Settles(w, more),
         batch'.items = batch.items, batch'.verb = batch.verb, NEW k \in 1..(batch.i - 1)
  PROVE  (GoodItem(k) => GoodItem(k)') /\ (~DoneItem(k) => ~DoneItem(k)')
<1>1. batch.i \in 1..Len(batch.items) /\ Len(batch.items) \in Nat /\ DOMAIN batch.items = 1..Len(batch.items)
  BY ItemsListed DEF BInv, Current
<1>2. k \in DOMAIN batch.items /\ k \notin batch.i..w
  BY <1>1
<1>3. provider'.deeds[k] = provider.deeds[k]
  BY <1>2 DEF Settles
<1>4. CASE batch.items[k].type = "export"
  <2>1. batch.items[k].file \in Files
    BY <1>2, <1>4, ItemsListed DEF BInv
  <2> DEFINE f == batch.items[k].file
  <2>2. exports'.files[f] = exports.files[f] \/ (exports.files[f] = 0 /\ exports'.files[f] \in batch.i..w)
    <3> HIDE DEF f
    <3> QED BY <2>1 DEF Settles, f
  <2>3. exports'.files[f] = k <=> exports.files[f] = k
    <3> HIDE DEF f
    <3> QED BY <1>1, <1>2, <2>2
  <2> HIDE DEF f
  <2> QED BY <1>4, <2>3 DEF GoodItem, DoneItem, f
<1>5. CASE batch.items[k].type # "export"
  <2>1. Unnamed(k) => Unnamed(k)'
    BY UnnamedKept DEF Settles
  <2> QED BY <1>3, <1>5, <2>1 DEF GoodItem, DoneItem
<1> QED BY <1>4, <1>5

(* Such a step keeps the invariant.                                        *)
LEMMA OnwardKeeps ==
  ASSUME BInv, batch.pc \in Running, NEW more \in Seq(Result), NEW w \in batch.i..Len(batch.items),
         w = Len(batch.results) + Len(more), batch' = Onward(more), Settles(w, more)
  PROVE  BInv'
<1>1. /\ BatchType /\ Accepted /\ TrueSoFar /\ Current
      /\ batch.i \in 1..Len(batch.items) /\ batch.i = Len(batch.results) + 1
      /\ Len(batch.items) \in Nat /\ DOMAIN batch.items = 1..Len(batch.items)
      /\ batch.results \in Seq(Result) /\ DOMAIN batch.results = 1..(batch.i - 1)
  BY ItemsListed DEF BInv, Current, BatchType
<1> DEFINE b == batch'
           n == Len(batch.items)
<1>2. /\ b \in BatchRecord /\ b.verb = batch.verb /\ b.items = batch.items
      /\ b.pc \in {"next", "finish"} /\ b.i = w + 1 /\ Len(b.results) \in w..n
      /\ \A k \in 1..(batch.i - 1) : b.results[k] = batch.results[k]
      /\ \A k \in batch.i..w : b.results[k] = more[k - batch.i + 1]
      /\ \A k \in (w + 1)..Len(b.results) : b.results[k].index = k /\ b.results[k].status = "not_attempted"
      /\ b.pc = "next" => Len(b.results) = w /\ w < n /\ \A k \in DOMAIN more : ~Stops(Writes, more[k])
      /\ b.pc = "finish" => Len(b.results) = n
  BY <1>1, OnwardShape
<1>3. DOMAIN b.results = 1..Len(b.results) /\ Len(b.results) \in Nat /\ w \in Nat
  BY <1>1, <1>2 DEF BatchRecord
<1>a. DOMAIN more = 1..(w - batch.i + 1) /\ batch.i \in Nat
  BY <1>1, <1>3
<1>b. ASSUME NEW k \in batch.i..w PROVE k - batch.i + 1 \in DOMAIN more
  <2>1. k - batch.i + 1 \in 1..(w - batch.i + 1)
    BY <1>3, <1>a, PlaceInGroup
  <2> QED BY <1>a, <2>1
<1>4. Writes' <=> Writes
  BY <1>2 DEF Writes, Mutation
<1>5. BatchType'
  BY <1>2 DEF BatchType, BatchRecord, Settles
<1>6. Holds'
  BY DEF Settles, Holds
<1>7. Accepted'
  BY <1>1, <1>2 DEF Accepted
<1> HIDE DEF b, n
<1>8. ASSUME NEW k \in DOMAIN b.results
      PROVE  /\ b.results[k].index = k
             /\ b.results[k].status = "not_attempted" => \A m \in DOMAIN provider'.sent : k \notin provider'.sent[m]
             /\ Writes => /\ b.results[k].status = "success" => GoodItem(k)'
                          /\ b.results[k].status = "error" => ~DoneItem(k)'
  <2>1. CASE k \in 1..(batch.i - 1)
    <3>1. b.results[k] = batch.results[k] /\ k \in DOMAIN batch.results
      BY <1>1, <1>2, <2>1
    <3>2. batch.results[k].status = "not_attempted" => \A m \in DOMAIN provider'.sent : k \notin provider'.sent[m]
      <4>1. \A m \in DOMAIN provider.sent : batch.results[k].status = "not_attempted" => k \notin provider.sent[m]
        BY <1>1, <3>1 DEF TrueSoFar
      <4>2. ASSUME NEW m \in DOMAIN provider'.sent, k \in provider'.sent[m]
            PROVE  m \in DOMAIN provider.sent /\ k \in provider.sent[m]
        <5>1. k \notin batch.i..w
          BY <1>1, <2>1
        <5> QED BY <4>2, <5>1 DEF Settles
      <4> QED BY <4>1, <4>2
    <3>3. (GoodItem(k) => GoodItem(k)') /\ (~DoneItem(k) => ~DoneItem(k)')
      BY <1>2, <2>1, EarlierKept DEF b
    <3>4. /\ batch.results[k].index = k
          /\ Writes => /\ batch.results[k].status = "success" => GoodItem(k)
                       /\ batch.results[k].status = "error" => ~DoneItem(k)
      BY <1>1, <3>1 DEF TrueSoFar
    <3> QED BY <3>1, <3>2, <3>3, <3>4
  <2>2. CASE k \in batch.i..w
    <3>1. b.results[k] = more[k - batch.i + 1] /\ k - batch.i + 1 \in DOMAIN more
      BY <1>2, <1>b, <2>2
    <3>2. ASSUME NEW m \in DOMAIN provider'.sent, k \in provider'.sent[m] PROVE more[k - batch.i + 1].status # "not_attempted"
      <4>1. ~(provider'.sent[m] \subseteq 1..(batch.i - 1))
        BY <1>1, <2>2, <3>2
      <4>2. \A j \in DOMAIN more : more[j].status # "not_attempted"
        BY <4>1 DEF Settles
      <4> QED BY <3>1, <4>2
    <3>3. /\ more[k - batch.i + 1].index = k
          /\ Writes => /\ more[k - batch.i + 1].status = "success" => GoodItem(k)'
                       /\ more[k - batch.i + 1].status = "error" => ~DoneItem(k)'
      BY <2>2 DEF Settles
    <3> QED BY <3>1, <3>2, <3>3
  <2>3. CASE k \in (w + 1)..Len(b.results)
    <3>1. b.results[k].index = k /\ b.results[k].status = "not_attempted"
      BY <1>2, <2>3
    <3>2. \A m \in DOMAIN provider'.sent : k \notin provider'.sent[m]
      BY <1>1, <1>3, <2>3 DEF Settles
    <3> QED BY <3>1, <3>2
  <2> QED BY <1>1, <1>3, <2>1, <2>2, <2>3
<1>9. TrueSoFar'
  BY <1>4, <1>8 DEF TrueSoFar, b
<1>10. CASE b.pc = "next"
  <2>1. Len(b.results) = w /\ w < n /\ b.i = w + 1 /\ DOMAIN b.results = 1..w
    BY <1>2, <1>3, <1>10
  <2>2. ASSUME Writes, NEW k \in DOMAIN b.results PROVE b.results[k].status = "success"
    <3>1. CASE k \in 1..(batch.i - 1)
      <4>1. k \in DOMAIN batch.results /\ b.results[k] = batch.results[k]
        BY <1>1, <1>2, <3>1
      <4>2. batch.results[k].status = "success"
        BY <1>1, <2>2, <4>1 DEF Current
      <4> QED BY <4>1, <4>2
    <3>2. CASE k \in batch.i..w
      <4>1. b.results[k] = more[k - batch.i + 1] /\ k - batch.i + 1 \in DOMAIN more
        BY <1>2, <1>b, <3>2
      <4>2. ~Stops(Writes, more[k - batch.i + 1])
        BY <1>2, <1>10, <4>1, Zenon
      <4> QED BY <2>2, <4>1, <4>2 DEF Stops
    <3> QED BY <1>1, <2>1, <3>1, <3>2
  <2>3. ASSUME NEW m \in DOMAIN provider'.sent PROVE provider'.sent[m] \subseteq 1..w
    <3>1. 1..(batch.i - 1) \subseteq 1..w /\ batch.i..w \subseteq 1..w
      BY <1>1, <1>3
    <3>2. provider'.sent[m] \subseteq 1..(batch.i - 1) \/ provider'.sent[m] = batch.i..w
      BY <2>3 DEF Settles
    <3> QED BY <3>1, <3>2
  <2>4. ASSUME NEW j \in (w + 1)..n PROVE provider'.deeds[j] = "none"
    <3>1. j \in DOMAIN batch.items /\ j \notin batch.i..w /\ j \in batch.i..n
      BY <1>1, <1>3 DEF n
    <3>2. provider.deeds[j] = "none"
      BY <1>1, <3>1 DEF Current, n
    <3> QED BY <3>1, <3>2 DEF Settles
  <2>5. ASSUME NEW f \in Files PROVE exports'.files[f] < w + 1
    <3>1. exports.files[f] < batch.i /\ exports.files[f] \in Int
      BY <1>1 DEF Current, BatchType
    <3>2. exports'.files[f] = exports.files[f] \/ exports'.files[f] \in batch.i..w
      BY DEF Settles
    <3> QED BY <1>1, <1>3, <3>1, <3>2
  <2>6. w + 1 \in 1..n /\ (w + 1) - 1 = w
    BY <1>1, <1>3, <2>1 DEF n
  <2>7. b.pc \notin Exporting
    BY <1>10 DEF Exporting
  <2>8. \A m \in DOMAIN provider'.sent : SentBefore(m)'
    <3>1. b.i - 1 = w
      BY <2>1, <2>6
    <3> QED BY <2>3, <3>1 DEF SentBefore, b
  <2>9. Len(b.results) = b.i - 1 /\ b.i \in 1..Len(b.items)
    BY <1>2, <2>1, <2>6 DEF n
  <2>10. \A j \in b.i..Len(b.items) : provider'.deeds[j] = "none"
    BY <1>2, <2>1, <2>4 DEF n
  <2>11. \A f \in Files : exports'.files[f] < b.i
    BY <2>1, <2>5
  <2>12. Current'
    BY <1>4, <2>2, <2>7, <2>8, <2>9, <2>10, <2>11 DEF Current, b
  <2> QED BY <1>5, <1>6, <1>7, <1>9, <1>10, <2>12 DEF BInv, BatchTold, b
<1>11. CASE b.pc = "finish"
  <2>1. \A m \in DOMAIN provider'.sent : provider'.sent[m] \subseteq DOMAIN b.items
    <3>1. 1..(batch.i - 1) \subseteq DOMAIN b.items /\ batch.i..w \subseteq DOMAIN b.items
      BY <1>1, <1>2, <1>3
    <3> QED BY <3>1 DEF Settles
  <2>2. ASSUME Writes, NEW m \in DOMAIN provider'.sent, m < Len(provider'.sent), NEW k \in provider'.sent[m]
        PROVE  b.results[k].status = "success"
    <3>1. provider'.sent[m] \subseteq 1..(batch.i - 1)
      BY <2>2 DEF Settles
    <3>2. k \in 1..(batch.i - 1) /\ k \in DOMAIN batch.results
      BY <1>1, <2>2, <3>1
    <3>3. batch.results[k].status = "success"
      BY <1>1, <2>2, <3>2 DEF Current
    <3> QED BY <1>2, <3>2, <3>3
  <2>3. Ended'
    BY <1>2, <1>4, <1>11, <2>1, <2>2 DEF Ended, b, n
  <2> QED BY <1>5, <1>6, <1>7, <1>9, <1>11, <2>3 DEF BInv, BatchTold, Running, Exporting, b
<1> QED BY <1>2, <1>10, <1>11

(* What going on leaves alone.                                             *)
LEMMA OnwardItems ==
  ASSUME BatchType, NEW more, batch' = Onward(more)
  PROVE  batch'.items = batch.items /\ batch'.verb = batch.verb
<1>1. batch \in BatchRecord
  BY DEF BatchType, BatchRecord
<1>2. \E r, j, p : batch' = [batch EXCEPT !.results = r, !.i = j, !.pc = p]
  BY DEF Onward
<1> QED BY <1>1, <1>2 DEF BatchRecord

(* Where a batch is.                                                       *)
LEMMA Underway ==
  ASSUME BInv, batch.pc \in Running
  PROVE  /\ BatchType /\ Accepted /\ TrueSoFar /\ Current /\ Holds /\ AtItem
         /\ batch.i \in Nat /\ batch.i \in 1..Len(batch.items) /\ batch.i = Len(batch.results) + 1
         /\ Len(batch.items) \in Nat /\ DOMAIN batch.items = 1..Len(batch.items)
         /\ batch.results \in Seq(Result) /\ DOMAIN batch.results = 1..(batch.i - 1)
         /\ provider.sent \in Seq(SUBSET Nat) /\ provider.deeds \in [DOMAIN batch.items -> DeedSet]
         /\ Item.type = "export" => Item.file \in Files
<1>1. /\ BatchType /\ Accepted /\ TrueSoFar /\ Current /\ Holds
      /\ batch.i \in 1..Len(batch.items) /\ Len(batch.results) = batch.i - 1
  BY DEF BInv, Current
<1>2. Len(batch.items) \in Nat /\ DOMAIN batch.items = 1..Len(batch.items)
      /\ (Item.type = "export" => Item.file \in Files)
  BY <1>1, ItemsListed DEF Item
<1>3. batch.results \in Seq(Result) /\ provider.sent \in Seq(SUBSET Nat) /\ provider.deeds \in [DOMAIN batch.items -> DeedSet]
  BY <1>1 DEF BatchType
<1>4. Len(batch.results) \in Nat /\ DOMAIN batch.results = 1..Len(batch.results)
  BY <1>3
<1> QED BY <1>1, <1>2, <1>3, <1>4 DEF AtItem

(***************************************************************************)
(* Requests.                                                               *)
(***************************************************************************)
(* What is told of a group.                                                *)
LEMMA RequestKeeps ==
  ASSUME BInv, Request, NEW told \in [Group -> Result], batch' = Onward(InOrder(told)),
         \/ UNCHANGED provider
         \/ \E deeds \in [Group -> DeedSet] : Sent(deeds) /\ \A j \in Group : told[j].status # "not_attempted",
         \A j \in Group :
           /\ told[j].index = j
           /\ Writes => /\ told[j].status = "success" => provider'.deeds[j] \in {"made", "duplicate"} \/ Unnamed(j)'
                        /\ told[j].status = "error" => provider'.deeds[j] = "none"
  PROVE  BInv'
<1> DEFINE more == InOrder(told)
           w    == GroupEnd
<1>1. batch.pc = "next" /\ batch.pc \in Running /\ Item.type # "export" /\ exports' = exports
  BY DEF Request, Running
<1>2. /\ BatchType /\ Current /\ Holds /\ AtItem
      /\ batch.i \in Nat /\ batch.i \in 1..Len(batch.items) /\ batch.i = Len(batch.results) + 1
      /\ Len(batch.items) \in Nat /\ DOMAIN batch.items = 1..Len(batch.items) /\ Len(batch.results) \in Nat
      /\ provider.sent \in Seq(SUBSET Nat) /\ provider.deeds \in [DOMAIN batch.items -> DeedSet]
  BY <1>1, Underway
<1>3. /\ w \in batch.i..Len(batch.items) /\ w \in Nat /\ Group = batch.i..w /\ Group \subseteq DOMAIN batch.items
      /\ Cardinality(Group) = w - batch.i + 1
  BY <1>2, GroupIsRow DEF Group
<1>4. batch'.items = batch.items /\ batch'.verb = batch.verb
  BY <1>2, OnwardItems
<1> HIDE DEF w
<1>5. more = [k \in 1..(w - batch.i + 1) |-> told[batch.i + k - 1]]
  BY <1>3 DEF InOrder
<1>6. \A k \in 1..(w - batch.i + 1) : batch.i + k - 1 \in Group
  BY <1>2, <1>3
<1>7. w - batch.i + 1 \in Nat
  BY <1>2, <1>3
<1> HIDE DEF more
<1>8. more \in [1..(w - batch.i + 1) -> Result]
  BY <1>5, <1>6
<1>9. more \in Seq(Result) /\ DOMAIN more = 1..(w - batch.i + 1) /\ Len(more) = w - batch.i + 1
  BY <1>7, <1>8
<1>10. ASSUME NEW k \in Group PROVE more[k - batch.i + 1] = told[k]
  <2>0. k \in batch.i..w
    BY <1>3
  <2>1. k - batch.i + 1 \in 1..(w - batch.i + 1) /\ batch.i + (k - batch.i + 1) - 1 = k
    BY <1>2, <1>3, <2>0, PlaceInGroup
  <2> QED BY <1>5, <2>1
<1>11. ASSUME NEW k \in Group PROVE batch.items[k].type # "export"
  <2>1. CASE GroupEnd = batch.i
    <3>1. k = batch.i
      BY <1>2, <2>1 DEF Group
    <3> QED BY <1>1, <3>1 DEF Item
  <2>2. CASE GroupEnd # batch.i
    BY <1>2, <2>2, GroupTold DEF isNativeTransaction
  <2> QED BY <2>1, <2>2
<1>12. ASSUME NEW m \in DOMAIN provider.sent PROVE provider.sent[m] \subseteq 1..(batch.i - 1)
  BY <1>1, <1>2 DEF Current, SentBefore, Exporting
<1>13. /\ provider' \in [sent : Seq(SUBSET Nat), deeds : [DOMAIN batch.items -> DeedSet]]
       /\ \A m \in DOMAIN provider'.sent :
            \/ m \in DOMAIN provider.sent /\ provider'.sent[m] = provider.sent[m]
            \/ m = Len(provider'.sent) /\ provider'.sent[m] = batch.i..w /\ \A j \in Group : told[j].status # "not_attempted"
       /\ \A m \in DOMAIN provider.sent : m \in DOMAIN provider'.sent /\ provider'.sent[m] = provider.sent[m]
       /\ \A j \in DOMAIN batch.items : j \notin batch.i..w => provider'.deeds[j] = provider.deeds[j]
  <2>1. CASE UNCHANGED provider
    BY <1>2, <2>1 DEF BatchType
  <2>2. CASE \E deeds \in [Group -> DeedSet] : Sent(deeds) /\ \A j \in Group : told[j].status # "not_attempted"
    <3>1. PICK deeds \in [Group -> DeedSet] : Sent(deeds) /\ \A j \in Group : told[j].status # "not_attempted"
      BY <2>2
    <3> DEFINE d == [j \in DOMAIN provider.deeds |-> IF j \in Group THEN deeds[j] ELSE provider.deeds[j]]
               s == Append(provider.sent, Group)
    <3>2. provider' = [sent |-> s, deeds |-> d]
      BY <3>1 DEF Sent
    <3>3. d \in [DOMAIN batch.items -> DeedSet] /\ \A j \in DOMAIN batch.items : j \notin Group => d[j] = provider.deeds[j]
      BY <1>2
    <3>4. Group \in SUBSET Nat
      BY <1>2, <1>3
    <3>5. s \in Seq(SUBSET Nat) /\ Len(s) = Len(provider.sent) + 1 /\ DOMAIN s = 1..(Len(provider.sent) + 1)
          /\ s[Len(provider.sent) + 1] = Group /\ \A m \in DOMAIN provider.sent : s[m] = provider.sent[m]
      BY <1>2, <3>4
    <3>6. \A m \in DOMAIN s : m \in DOMAIN provider.sent \/ m = Len(provider.sent) + 1
      BY <1>2, <3>5
    <3>7. \A m \in DOMAIN provider.sent : m \in DOMAIN s
      BY <1>2, <3>5
    <3> HIDE DEF d, s
    <3>8. provider' \in [sent : Seq(SUBSET Nat), deeds : [DOMAIN batch.items -> DeedSet]]
          /\ provider'.sent = s /\ provider'.deeds = d
      BY <3>2, <3>3, <3>5
    <3> QED BY <1>3, <3>1, <3>3, <3>5, <3>6, <3>7, <3>8
  <2> QED BY <2>1, <2>2
<1>14. \A k \in DOMAIN more : \E j \in Group : more[k] = told[j]
  BY <1>5, <1>6, <1>9
<1>15. ASSUME NEW k \in batch.i..w
       PROVE  /\ more[k - batch.i + 1].index = k
              /\ Writes => /\ more[k - batch.i + 1].status = "success" => GoodItem(k)'
                           /\ more[k - batch.i + 1].status = "error" => ~DoneItem(k)'
  <2>1. more[k - batch.i + 1] = told[k] /\ batch.items[k].type # "export" /\ k \in Group
    BY <1>3, <1>10, <1>11
  <2> QED BY <1>4, <2>1 DEF GoodItem, DoneItem
<1>16. Settles(w, more)
  <2>1. exports' \in [files : [Files -> Int], staged : BOOLEAN, slot : {"free", "mine", "other"}, others : SUBSET Files]
    BY <1>1, <1>2 DEF BatchType
  <2>2. ~exports'.staged /\ exports'.slot # "mine" /\ \A f \in exports'.others : exports'.files[f] = -1
    BY <1>1, <1>2 DEF Holds, Exporting
  <2>3. \A m \in DOMAIN provider'.sent :
          \/ provider'.sent[m] \subseteq 1..(batch.i - 1) /\ m \in DOMAIN provider.sent /\ provider'.sent[m] = provider.sent[m]
          \/ m = Len(provider'.sent) /\ provider'.sent[m] = batch.i..w
               /\ \A k \in DOMAIN more : more[k].status # "not_attempted"
    BY <1>12, <1>13, <1>14
  <2>4. \A f \in Files : exports'.files[f] = exports.files[f]
    BY <1>1
  <2>5. provider' \in [sent : Seq(SUBSET Nat), deeds : [DOMAIN batch.items -> DeedSet]]
    BY <1>13
  <2>6. \A j \in DOMAIN batch.items : j \notin batch.i..w => provider'.deeds[j] = provider.deeds[j]
    BY <1>13
  <2>7. \A f \in Files : \/ exports'.files[f] = exports.files[f]
                         \/ exports.files[f] = 0 /\ exports'.files[f] \in batch.i..w
    BY <2>4
  <2>8. \A k \in batch.i..w :
          /\ more[k - batch.i + 1].index = k
          /\ Writes => /\ more[k - batch.i + 1].status = "success" => GoodItem(k)'
                       /\ more[k - batch.i + 1].status = "error" => ~DoneItem(k)'
    BY <1>15
  <2> QED BY <1>13, <2>1, <2>2, <2>3, <2>5, <2>6, <2>7, <2>8 DEF Settles
<1>17. w = Len(batch.results) + Len(more)
  BY <1>2, <1>3, <1>9
<1> QED BY <1>1, <1>3, <1>9, <1>16, <1>17, OnwardKeeps DEF more

(* Nothing is sent.                                                        *)
LEMMA UnsentKeeps == ASSUME BInv, Unsent PROVE BInv'
<1>1. PICK code \in Denied : batch' = Onward(InOrder(groupResults("not_attempted", code)))
  BY DEF Unsent
<1>2. Request /\ UNCHANGED provider
  BY DEF Unsent
<1>3. "not_attempted" \in Statuses /\ code \in Codes
  BY ReasonsAreCodes DEF Statuses
<1> DEFINE g == groupResults("not_attempted", code)
<1>4. /\ batch.pc \in Running /\ AtItem /\ Group = batch.i..GroupEnd /\ Group \subseteq DOMAIN batch.items /\ batch.i \in Nat
      /\ Item.type # "export" /\ Current /\ Len(batch.items) \in Nat /\ DOMAIN batch.items = 1..Len(batch.items)
      /\ GroupEnd \in Nat
  <2>1. batch.pc \in Running /\ Item.type # "export"
    BY <1>2 DEF Request, Running
  <2> QED BY <2>1, Underway, GroupIsRow DEF Group
<1>5. ASSUME NEW j \in Group PROVE g[j] \in Result /\ g[j].index = j /\ g[j].status = "not_attempted"
  <2>1. g[j] = Told(j, "not_attempted", code) /\ j \in Nat
    BY <1>4 DEF groupResults
  <2> HIDE DEF g
  <2> QED BY <1>3, <2>1, ToldIsResult
<1>6. g \in [Group -> Result]
  <2>1. g = [j \in Group |-> g[j]]
    BY DEF groupResults
  <2> HIDE DEF g
  <2> QED BY <1>5, <2>1
<1>7. batch' = Onward(InOrder(g))
  BY <1>1
<1> HIDE DEF g
<1>8. ASSUME NEW j \in Group PROVE provider'.deeds[j] = "none"
  BY <1>2, <1>4 DEF Current
<1> QED BY <1>2, <1>5, <1>6, <1>7, <1>8, RequestKeeps

(* The items of a group are told alike: nothing became of them, or nothing *)
(* is claimed.                                                             *)
LEMMA SentKeeps ==
  ASSUME BInv, Request, NEW status \in {"error", "uncertain"}, NEW code \in Codes, NEW deeds \in [Group -> DeedSet],
         Sent(deeds), batch' = Onward(InOrder(groupResults(status, code))),
         Writes /\ status = "error" => \A j \in Group : deeds[j] = "none"
  PROVE  BInv'
<1> DEFINE g == groupResults(status, code)
<1>1. /\ batch.pc \in Running /\ AtItem /\ Group = batch.i..GroupEnd /\ Group \subseteq DOMAIN batch.items /\ batch.i \in Nat
      /\ GroupEnd \in Nat /\ provider.deeds \in [DOMAIN batch.items -> DeedSet]
  <2>1. batch.pc \in Running
    BY DEF Request, Running
  <2> QED BY <2>1, Underway, GroupIsRow DEF Group
<1>2. ASSUME NEW j \in Group PROVE g[j] \in Result /\ g[j].index = j /\ g[j].status = status
  <2>1. g[j] = Told(j, status, code) /\ j \in Nat /\ status \in Statuses
    BY <1>1 DEF groupResults, Statuses
  <2> HIDE DEF g
  <2> QED BY <2>1, ToldIsResult
<1>3. g \in [Group -> Result]
  <2>1. g = [j \in Group |-> g[j]]
    BY DEF groupResults
  <2> HIDE DEF g
  <2> QED BY <1>2, <2>1
<1>4. batch' = Onward(InOrder(g))
  OBVIOUS
<1> HIDE DEF g
<1>5. ASSUME NEW j \in Group PROVE provider'.deeds[j] = deeds[j]
  BY <1>1 DEF Sent
<1> QED BY <1>2, <1>3, <1>4, <1>5, RequestKeeps

(* The provider refuses, or its answer is lost.                            *)
LEMMA RefusedKeeps == ASSUME BInv, Refused PROVE BInv'
<1>1. Request /\ Sent([j \in Group |-> "none"])
  BY DEF Refused
<1>2. PICK code \in Refusals : batch' = Onward(InOrder(groupResults("error", code)))
  BY DEF Refused
<1> DEFINE deeds == [j \in Group |-> "none"]
<1>3. deeds \in [Group -> DeedSet] /\ \A j \in Group : deeds[j] = "none"
  BY DEF DeedSet
<1>4. Sent(deeds)
  BY <1>1
<1>5. code \in Codes
  BY ReasonsAreCodes
<1> HIDE DEF deeds
<1> QED BY <1>1, <1>2, <1>3, <1>4, <1>5, SentKeeps

LEMMA LostKeeps == ASSUME BInv, Lost PROVE BInv'
<1>1. PICK made \in BOOLEAN, code \in ReadLosses :
        /\ Sent([j \in Group |-> IF made THEN "made" ELSE "none"])
        /\ batch' = Onward(InOrder(IF Writes THEN groupResults("uncertain", Blank)
                                  ELSE groupResults("error", code)))
  BY DEF Lost, Writes
<1> DEFINE deeds == [j \in Group |-> IF made THEN "made" ELSE "none"]
<1>2. deeds \in [Group -> DeedSet]
  BY DEF DeedSet
<1>3. Sent(deeds) /\ Request
  BY <1>1 DEF Lost
<1>4. Blank \in Codes /\ code \in Codes
  BY ReasonsAreCodes DEF Codes
<1> HIDE DEF deeds
<1>5. CASE Writes
  <2>1. batch' = Onward(InOrder(groupResults("uncertain", Blank)))
    BY <1>1, <1>5
  <2> QED BY <1>2, <1>3, <1>4, <2>1, SentKeeps
<1>6. CASE ~Writes
  <2>1. batch' = Onward(InOrder(groupResults("error", code)))
    BY <1>1, <1>6
  <2> QED BY <1>2, <1>3, <1>4, <1>6, <2>1, SentKeeps
<1> QED BY <1>5, <1>6

(* It answers.                                                             *)
LEMMA AnsweredKeeps == ASSUME BInv, Answered PROVE BInv'
<1>1. PICK deeds \in [Group -> DeedSet], shown \in SUBSET Group :
        /\ \A j \in Group : deeds[j] \in Deeds(batch.verb, batch.items[j], Cardinality(Group) = 1)
        /\ \A j \in shown : deeds[j] # "none"
        /\ Sent(deeds)
        /\ batch' = Onward(InOrder([j \in Group |-> Confirmed(batch.verb, batch.items, Group, j, deeds, shown)]))
  BY DEF Answered, DeedSet
<1>2. /\ Request /\ batch.pc \in Running
  BY DEF Answered, Request, Running
<1>3. /\ AtItem /\ Accepted /\ Group \subseteq DOMAIN batch.items /\ provider.deeds \in [DOMAIN batch.items -> DeedSet]
  BY <1>2, Underway, GroupIsRow
<1> DEFINE g == [j \in Group |-> Confirmed(batch.verb, batch.items, Group, j, deeds, shown)]
<1>4. ASSUME NEW j \in Group
      PROVE  /\ deeds[j] = "ignored" => batch.verb = "update" /\ batch.items[j].type = "transaction" /\ batch.items[j].checked
             /\ deeds[j] = "none" => CarriesList(batch.verb, batch.items[j], Cardinality(Group) = 1)
  BY <1>1 DEF Deeds
<1>5. ASSUME NEW j \in Group
      PROVE  /\ g[j] \in Result /\ g[j].index = j /\ g[j].status \in {"success", "uncertain"}
             /\ Writes /\ g[j].status = "success" => deeds[j] \in {"made", "duplicate"} \/ SentAlone(j)
  <2>1. g[j] = Confirmed(batch.verb, batch.items, Group, j, deeds, shown)
    OBVIOUS
  <2>2. \A k \in shown : deeds[k] # "none"
    BY <1>1
  <2> HIDE DEF g
  <2> QED BY <1>3, <1>4, <2>1, <2>2, ConfirmedIsTrue
<1>6. g \in [Group -> Result]
  <2>1. g = [j \in Group |-> g[j]]
    OBVIOUS
  <2> HIDE DEF g
  <2> QED BY <1>5, <2>1
<1>7. batch' = Onward(InOrder(g)) /\ Sent(deeds)
  BY <1>1
<1> HIDE DEF g
<1>8. ASSUME NEW j \in Group PROVE provider'.deeds[j] = deeds[j]
  BY <1>3, <1>7 DEF Sent
<1>9. ASSUME NEW j \in Group, SentAlone(j) PROVE Unnamed(j)'
  <2>1. batch'.items = batch.items /\ batch'.verb = batch.verb
    BY <1>2, <1>7, Underway, OnwardItems
  <2>2. provider'.sent = Append(provider.sent, Group) /\ provider.sent \in Seq(SUBSET Nat)
    BY <1>2, <1>7, Underway DEF Sent
  <2>3. Len(provider.sent) + 1 \in DOMAIN provider'.sent /\ provider'.sent[Len(provider.sent) + 1] = Group
    BY <2>2
  <2> QED BY <1>9, <2>1, <2>3 DEF SentAlone, Unnamed
<1> QED BY <1>2, <1>5, <1>6, <1>7, <1>8, <1>9, RequestKeeps

(***************************************************************************)
(* Steps that tell nothing.                                                *)
(***************************************************************************)
(* What was told stays true while files appear under free names and what   *)
(* is sent is not of the items told.                                       *)
LEMMA TruthKept ==
  ASSUME BatchType, Accepted, TrueSoFar, Len(batch.results) <= Len(batch.items),
         batch'.results = batch.results, batch'.items = batch.items, batch'.verb = batch.verb,
         provider'.deeds = provider.deeds,
         \A m \in DOMAIN provider'.sent :
           \/ m \in DOMAIN provider.sent /\ provider'.sent[m] = provider.sent[m]
           \/ \A k \in DOMAIN batch.results : k \notin provider'.sent[m],
         \A m \in DOMAIN provider.sent : m \in DOMAIN provider'.sent /\ provider'.sent[m] = provider.sent[m],
         \A f \in Files : \/ exports'.files[f] = exports.files[f]
                          \/ exports.files[f] = 0 /\ exports'.files[f] = -1
  PROVE  TrueSoFar' /\ Accepted'
<1>1. batch.results \in Seq(Result) /\ Len(batch.results) \in Nat /\ DOMAIN batch.results = 1..Len(batch.results)
      /\ Len(batch.items) \in Nat /\ DOMAIN batch.items = 1..Len(batch.items)
  BY ItemsListed DEF BatchType
<1>2. Accepted'
  BY DEF Accepted
<1>3. Writes' <=> Writes
  BY DEF Writes
<1>4. ASSUME NEW k \in DOMAIN batch.results
      PROVE  (GoodItem(k) => GoodItem(k)') /\ (~DoneItem(k) => ~DoneItem(k)')
  <2>1. k \in DOMAIN batch.items /\ k \in Nat /\ k >= 1
    BY <1>1
  <2>2. CASE batch.items[k].type = "export"
    <3> DEFINE f == batch.items[k].file
    <3>1. f \in Files
      BY <2>1, <2>2, ItemsListed
    <3> HIDE DEF f
    <3>2. exports'.files[f] = exports.files[f] \/ (exports.files[f] = 0 /\ exports'.files[f] = -1)
      BY <3>1
    <3>3. exports'.files[f] = k <=> exports.files[f] = k
      BY <2>1, <3>2
    <3> QED BY <2>2, <3>3 DEF GoodItem, DoneItem, f
  <2>3. CASE batch.items[k].type # "export"
    <3>1. Unnamed(k) => Unnamed(k)'
      BY UnnamedKept
    <3> QED BY <2>3, <3>1 DEF GoodItem, DoneItem
  <2> QED BY <2>2, <2>3
<1>5. ASSUME NEW k \in DOMAIN batch.results, batch.results[k].status = "not_attempted", NEW m \in DOMAIN provider'.sent
      PROVE  k \notin provider'.sent[m]
  BY <1>5 DEF TrueSoFar
<1>6. TrueSoFar'
  BY <1>3, <1>4, <1>5 DEF TrueSoFar
<1> QED BY <1>2, <1>6

(* An export goes from one step to the next.                               *)
LEMMA ExportGoesOn ==
  ASSUME BInv, batch.pc \in Running, Item.type = "export", NEW pc \in Exporting, To(pc),
         \/ exports' = exports /\ pc # "fetch"
         \/ exports' = [exports EXCEPT !.slot = "mine"]
         \/ exports' = [exports EXCEPT !.staged = TRUE] /\ pc \in {"write", "publish"},
         exports.staged => pc \in {"write", "publish"},
         \/ provider' = provider /\ (batch.pc \in Exporting \ {"fetch"} => pc # "fetch")
         \/ provider' = [provider EXCEPT !.sent = Append(@, {batch.i})] /\ pc # "fetch" /\ batch.pc = "fetch"
  PROVE  BInv'
<1>1. /\ BatchType /\ Current /\ Holds /\ Accepted /\ TrueSoFar
      /\ batch.i \in Nat /\ batch.i \in 1..Len(batch.items) /\ batch.i = Len(batch.results) + 1
      /\ Len(batch.items) \in Nat /\ DOMAIN batch.items = 1..Len(batch.items) /\ Len(batch.results) \in Nat
      /\ DOMAIN batch.results = 1..(batch.i - 1)
      /\ provider.sent \in Seq(SUBSET Nat)
  BY Underway
<1>2. batch \in BatchRecord
  BY <1>1 DEF BatchType, BatchRecord
<1>3. /\ batch' \in BatchRecord /\ batch'.pc = pc /\ batch'.items = batch.items /\ batch'.verb = batch.verb
      /\ batch'.i = batch.i /\ batch'.results = batch.results
  BY <1>2 DEF BatchRecord, To, Running
<1>4. exports \in [files : [Files -> Int], staged : BOOLEAN, slot : {"free", "mine", "other"}, others : SUBSET Files]
  BY <1>1 DEF BatchType
<1>5. /\ exports' \in [files : [Files -> Int], staged : BOOLEAN, slot : {"free", "mine", "other"}, others : SUBSET Files]
      /\ exports'.files = exports.files /\ exports'.others = exports.others
      /\ exports'.staged => pc \in {"write", "publish"}
  BY <1>4
<1>6. /\ provider' \in [sent : Seq(SUBSET Nat), deeds : [DOMAIN batch.items -> DeedSet]] /\ provider'.deeds = provider.deeds
      /\ \A m \in DOMAIN provider'.sent :
           \/ m \in DOMAIN provider.sent /\ provider'.sent[m] = provider.sent[m] /\ (m = Len(provider.sent) => m = Len(provider'.sent) \/ batch.pc = "fetch")
           \/ m = Len(provider'.sent) /\ provider'.sent[m] = {batch.i} /\ pc # "fetch"
      /\ \A m \in DOMAIN provider.sent : m \in DOMAIN provider'.sent /\ provider'.sent[m] = provider.sent[m]
  <2>0. provider \in [sent : Seq(SUBSET Nat), deeds : [DOMAIN batch.items -> DeedSet]]
    BY <1>1 DEF BatchType
  <2>1. CASE provider' = provider
    BY <1>1, <2>0, <2>1
  <2>2. CASE provider' = [provider EXCEPT !.sent = Append(@, {batch.i})] /\ pc # "fetch" /\ batch.pc = "fetch"
    <3> DEFINE s == Append(provider.sent, {batch.i})
    <3>1. {batch.i} \in SUBSET Nat
      BY <1>1
    <3>2. s \in Seq(SUBSET Nat) /\ Len(s) = Len(provider.sent) + 1 /\ DOMAIN s = 1..(Len(provider.sent) + 1)
          /\ s[Len(provider.sent) + 1] = {batch.i} /\ \A m \in DOMAIN provider.sent : s[m] = provider.sent[m]
      BY <1>1, <3>1
    <3>3. \A m \in DOMAIN s : m \in DOMAIN provider.sent \/ m = Len(provider.sent) + 1
      BY <1>1, <3>2
    <3>4. provider' = [provider EXCEPT !.sent = s] /\ pc # "fetch" /\ batch.pc = "fetch"
      BY <2>2
    <3> HIDE DEF s
    <3>5. provider' \in [sent : Seq(SUBSET Nat), deeds : [DOMAIN batch.items -> DeedSet]]
          /\ provider'.deeds = provider.deeds /\ provider'.sent = s
      BY <2>0, <3>2, <3>4
    <3>6. pc # "fetch" /\ batch.pc = "fetch"
      BY <3>4
    <3> QED BY <3>2, <3>3, <3>5, <3>6
  <2> QED BY <2>1, <2>2
<1>7. batch.i \notin DOMAIN batch.results
  BY <1>1
<1>8. TrueSoFar' /\ Accepted'
  <2>1. \A m \in DOMAIN provider'.sent :
          \/ m \in DOMAIN provider.sent /\ provider'.sent[m] = provider.sent[m]
          \/ \A k \in DOMAIN batch.results : k \notin provider'.sent[m]
    BY <1>6, <1>7
  <2>2. Len(batch.results) <= Len(batch.items)
    BY <1>1
  <2> QED BY <1>1, <1>3, <1>5, <1>6, <2>1, <2>2, TruthKept
<1>9. ASSUME NEW m \in DOMAIN provider'.sent PROVE SentBefore(m)'
  <2>1. CASE m = Len(provider'.sent) /\ provider'.sent[m] = {batch.i} /\ pc # "fetch"
    BY <1>3, <2>1 DEF SentBefore
  <2>2. CASE m \in DOMAIN provider.sent /\ provider'.sent[m] = provider.sent[m]
             /\ (m = Len(provider.sent) => m = Len(provider'.sent) \/ batch.pc = "fetch")
    <3>1. SentBefore(m)
      BY <1>1, <2>2 DEF Current
    <3>2. CASE provider.sent[m] \subseteq 1..(batch.i - 1)
      BY <1>3, <2>2, <3>2 DEF SentBefore
    <3>3. CASE batch.pc \in Exporting \ {"fetch"} /\ m = Len(provider.sent) /\ provider.sent[m] = {batch.i}
      <4>1. pc # "fetch"
        BY <3>3
      <4> QED BY <1>3, <2>2, <3>3, <4>1 DEF SentBefore
    <3> QED BY <3>1, <3>2, <3>3 DEF SentBefore
  <2> QED BY <1>6, <2>1, <2>2
<1>10. Current'
  <2>1. Writes' <=> Writes
    BY <1>3 DEF Writes
  <2>2. Item' = Item
    BY <1>3 DEF Item
  <2>3. \A j \in batch.i..Len(batch.items) : provider'.deeds[j] = "none"
    BY <1>1, <1>6 DEF Current
  <2>4. \A f \in Files : exports'.files[f] < batch.i
    BY <1>1, <1>5 DEF Current
  <2>5. Writes => \A k \in DOMAIN batch.results : batch.results[k].status = "success"
    BY <1>1 DEF Current
  <2>6. Len(batch'.results) = batch'.i - 1 /\ batch'.i \in 1..Len(batch'.items)
    BY <1>1, <1>3 DEF Current
  <2> QED BY <1>3, <1>9, <2>1, <2>2, <2>3, <2>4, <2>5, <2>6 DEF Current
<1>11. Holds'
  BY <1>1, <1>3, <1>5 DEF Holds
<1>12. BatchType'
  BY <1>3, <1>5, <1>6 DEF BatchType, BatchRecord
<1>13. pc \in Running /\ pc # "idle" /\ pc # "finish" /\ pc # "answer"
  BY DEF Exporting, Running
<1> QED BY <1>3, <1>8, <1>10, <1>11, <1>12, <1>13 DEF BInv, BatchTold

(* What others do in the export directory.                                 *)
OthersStep ==
  \/ exports' = exports
  \/ \E s \in {"free", "other"} : exports' = [exports EXCEPT !.slot = s]
  \/ \E f \in Files : exports.files[f] = 0 /\ exports' = [exports EXCEPT !.files[f] = -1, !.others = @ \cup {f}]

(* Such a step, or a cancellation.                                         *)
LEMMA WorldKeeps ==
  ASSUME BInv, batch.pc \in Running \cup {"finish"}, provider' = provider,
         batch' \in BatchRecord, batch'.pc = batch.pc, batch'.items = batch.items, batch'.verb = batch.verb,
         batch'.i = batch.i, batch'.results = batch.results, OthersStep
  PROVE  BInv'
<1>1. /\ BatchType /\ Holds /\ Accepted /\ TrueSoFar
      /\ batch.pc \in Running => Current
      /\ batch.pc = "finish" => Ended
  BY DEF BInv
<1>2. /\ batch.i \in Nat /\ Len(batch.items) \in Nat /\ DOMAIN batch.items = 1..Len(batch.items)
      /\ Len(batch.results) \in Nat
  <2>1. batch.i \in Nat /\ batch.results \in Seq(Result)
    BY <1>1 DEF BatchType
  <2> QED BY <1>1, <2>1, ItemsListed
<1>3. exports \in [files : [Files -> Int], staged : BOOLEAN, slot : {"free", "mine", "other"}, others : SUBSET Files]
  BY <1>1 DEF BatchType
<1>4. /\ exports' \in [files : [Files -> Int], staged : BOOLEAN, slot : {"free", "mine", "other"}, others : SUBSET Files]
      /\ (exports'.staged => exports.staged) /\ (exports'.slot = "mine" => exports.slot = "mine")
      /\ \A f \in Files : exports'.files[f] = exports.files[f] \/ (exports.files[f] = 0 /\ exports'.files[f] = -1)
      /\ \A f \in exports'.others : exports'.files[f] = -1
  <2>1. CASE exports' = exports
    BY <1>1, <1>3, <2>1 DEF Holds
  <2>2. CASE \E s \in {"free", "other"} : exports' = [exports EXCEPT !.slot = s]
    BY <1>1, <1>3, <2>2 DEF Holds
  <2>3. CASE \E f \in Files : exports.files[f] = 0 /\ exports' = [exports EXCEPT !.files[f] = -1, !.others = @ \cup {f}]
    <3>1. PICK f \in Files : exports.files[f] = 0 /\ exports' = [exports EXCEPT !.files[f] = -1, !.others = @ \cup {f}]
      BY <2>3
    <3> DEFINE old == exports.files
               new == [old EXCEPT ![f] = -1]
               all == exports.others \cup {f}
    <3>2. exports' = [exports EXCEPT !.files = new, !.others = all]
      BY <3>1
    <3>a. old \in [Files -> Int]
      BY <1>3
    <3> HIDE DEF old
    <3>3. new \in [Files -> Int] /\ new[f] = -1 /\ \A g \in Files : g # f => new[g] = old[g]
      BY <3>a
    <3>4. all \in SUBSET Files /\ \A g \in all : g \in exports.others \/ g = f
      BY <1>3
    <3> HIDE DEF new, all
    <3>5. /\ exports' \in [files : [Files -> Int], staged : BOOLEAN, slot : {"free", "mine", "other"}, others : SUBSET Files]
          /\ exports'.files = new /\ exports'.others = all /\ exports'.staged = exports.staged /\ exports'.slot = exports.slot
      BY <1>3, <3>2, <3>3, <3>4
    <3>6. \A g \in exports.others : exports.files[g] = -1 /\ g \in Files
      BY <1>1, <1>3 DEF Holds
    <3> QED BY <3>1, <3>3, <3>4, <3>5, <3>6 DEF old
  <2> QED BY <2>1, <2>2, <2>3 DEF OthersStep
<1>5. TrueSoFar' /\ Accepted'
  <2>1. CASE batch.pc \in Running
    <3>1. Len(batch.results) = batch.i - 1 /\ batch.i \in 1..Len(batch.items)
      BY <1>1, <2>1 DEF Current
    <3>2. Len(batch.results) <= Len(batch.items)
      BY <1>2, <3>1
    <3> QED BY <1>1, <1>4, <3>2, TruthKept
  <2>2. CASE batch.pc = "finish"
    <3>1. Len(batch.results) <= Len(batch.items)
      BY <1>1, <1>2, <2>2 DEF Ended
    <3> QED BY <1>1, <1>4, <3>1, TruthKept
  <2> QED BY <2>1, <2>2
<1>6. Writes' <=> Writes
  BY DEF Writes
<1>7. BatchType'
  BY <1>1, <1>4 DEF BatchType, BatchRecord
<1>8. Holds'
  BY <1>1, <1>4 DEF Holds
<1>9. CASE batch.pc = "finish"
  <2>1. Ended'
    BY <1>1, <1>6, <1>9 DEF Ended
  <2> QED BY <1>5, <1>7, <1>8, <1>9, <2>1 DEF BInv, BatchTold, Running, Exporting
<1>10. CASE batch.pc \in Running
  <2>1. \A f \in Files : exports'.files[f] < batch.i
    <3>1. ASSUME NEW f \in Files PROVE exports'.files[f] < batch.i
      <4>1. exports.files[f] < batch.i
        BY <1>1, <1>10 DEF Current
      <4>2. exports'.files[f] = exports.files[f] \/ (exports.files[f] = 0 /\ exports'.files[f] = -1)
        BY <1>4
      <4>3. exports.files[f] \in Int
        BY <1>3
      <4> QED BY <1>2, <4>1, <4>2, <4>3
    <3> QED BY <3>1
  <2>2. \A m \in DOMAIN provider.sent : SentBefore(m)' <=> SentBefore(m)
    BY DEF SentBefore
  <2>3. Item' = Item
    BY DEF Item
  <2>4. Current'
    BY <1>1, <1>6, <1>10, <2>1, <2>2, <2>3 DEF Current
  <2>5. batch.pc # "idle" /\ batch.pc # "finish" /\ batch.pc # "answer"
    BY <1>10 DEF Running, Exporting
  <2> QED BY <1>5, <1>7, <1>8, <1>10, <2>4, <2>5 DEF BInv, BatchTold
<1> QED BY <1>9, <1>10

(***************************************************************************)
(* Exports.                                                                *)
(***************************************************************************)
(* The result of an export: a failure leaves the files alone, a success    *)
(* gives a name that was free its file.                                    *)
LEMMA SettleKeeps ==
  ASSUME BInv, batch.pc \in Running, Item.type = "export", NEW status \in Statuses, NEW code \in Codes, NEW files,
         Settle(status, code, files),
         \/ status # "success" /\ files = exports.files
         \/ /\ status = "success" /\ exports.files[Item.file] = 0
            /\ files = [exports.files EXCEPT ![Item.file] = batch.i],
         \/ provider' = provider /\ (batch.pc \notin {"next", "fetch"} => status # "not_attempted")
         \/ /\ batch.pc = "fetch" /\ status # "not_attempted"
            /\ provider' = [provider EXCEPT !.sent = Append(@, {batch.i})]
  PROVE  BInv'
<1> DEFINE r    == Told(batch.i, status, code)
           more == <<r>>
           f    == Item.file
           old  == exports.files
<1>1. /\ BatchType /\ Current /\ Holds
      /\ batch.i \in Nat /\ batch.i \in 1..Len(batch.items) /\ batch.i = Len(batch.results) + 1
      /\ Len(batch.items) \in Nat /\ DOMAIN batch.items = 1..Len(batch.items) /\ Len(batch.results) \in Nat
      /\ provider.sent \in Seq(SUBSET Nat) /\ provider.deeds \in [DOMAIN batch.items -> DeedSet] /\ f \in Files
  BY Underway
<1>2. r \in Result /\ r.index = batch.i /\ r.status = status
  BY <1>1, ToldIsResult
<1>3. /\ batch' = Onward(more) /\ batch'.items = batch.items /\ batch'.verb = batch.verb
      /\ exports' = [exports EXCEPT !.files = files, !.staged = FALSE, !.slot = IF @ = "mine" THEN "free" ELSE @]
  BY <1>1, OnwardItems DEF Settle
<1>4. /\ exports \in [files : [Files -> Int], staged : BOOLEAN, slot : {"free", "mine", "other"}, others : SUBSET Files]
      /\ old \in [Files -> Int] /\ exports.others \in SUBSET Files
  BY <1>1 DEF BatchType
<1>5. batch.items[batch.i].type = "export" /\ batch.items[batch.i].file = f
  BY DEF Item
<1> HIDE DEF r, f, old
<1>6. files \in [Files -> Int] /\ \A g \in Files : files[g] = old[g] \/ (old[g] = 0 /\ files[g] = batch.i)
  <2>1. files = old \/ (old[f] = 0 /\ files = [old EXCEPT ![f] = batch.i])
    BY DEF f, old
  <2> QED BY <1>1, <1>4, <2>1
<1>7. /\ exports' \in [files : [Files -> Int], staged : BOOLEAN, slot : {"free", "mine", "other"}, others : SUBSET Files]
      /\ exports'.files = files /\ ~exports'.staged /\ exports'.slot # "mine" /\ exports'.others = exports.others
  <2>1. \E s \in {"free", "other"} : exports' = [exports EXCEPT !.files = files, !.staged = FALSE, !.slot = s]
    BY <1>3, <1>4
  <2>2. PICK s \in {"free", "other"} : exports' = [exports EXCEPT !.files = files, !.staged = FALSE, !.slot = s]
    BY <2>1
  <2> QED BY <1>4, <1>6, <2>2
<1>8. \A g \in exports'.others : exports'.files[g] = -1
  <2>1. ASSUME NEW g \in exports.others PROVE files[g] = -1
    <3>1. old[g] = -1 /\ g \in Files
      BY <1>1, <1>4 DEF Holds, old
    <3> QED BY <1>6, <3>1
  <2> QED BY <1>7, <2>1
<1>9. more \in Seq(Result) /\ DOMAIN more = 1..1 /\ Len(more) = 1 /\ more[1] = r
  BY <1>2
<1> HIDE DEF more
<1>10. /\ provider' \in [sent : Seq(SUBSET Nat), deeds : [DOMAIN batch.items -> DeedSet]] /\ provider'.deeds = provider.deeds
       /\ \A m \in DOMAIN provider'.sent :
            \/ m \in DOMAIN provider.sent /\ provider'.sent[m] = provider.sent[m]
            \/ m = Len(provider'.sent) /\ provider'.sent[m] = {batch.i} /\ batch.pc = "fetch" /\ status # "not_attempted"
       /\ Len(provider'.sent) >= Len(provider.sent) /\ (batch.pc # "fetch" => provider' = provider)
       /\ \A m \in DOMAIN provider.sent : m \in DOMAIN provider'.sent /\ provider'.sent[m] = provider.sent[m]
  <2>0. provider \in [sent : Seq(SUBSET Nat), deeds : [DOMAIN batch.items -> DeedSet]]
    BY <1>1 DEF BatchType
  <2>1. CASE provider' = provider
    BY <1>1, <2>0, <2>1
  <2>2. CASE /\ batch.pc = "fetch" /\ status # "not_attempted"
             /\ provider' = [provider EXCEPT !.sent = Append(@, {batch.i})]
    <3> DEFINE s == Append(provider.sent, {batch.i})
    <3>1. {batch.i} \in SUBSET Nat
      BY <1>1
    <3>2. s \in Seq(SUBSET Nat) /\ Len(s) = Len(provider.sent) + 1 /\ DOMAIN s = 1..(Len(provider.sent) + 1)
          /\ s[Len(provider.sent) + 1] = {batch.i} /\ \A m \in DOMAIN provider.sent : s[m] = provider.sent[m]
      BY <1>1, <3>1
    <3>3. \A m \in DOMAIN s : m \in DOMAIN provider.sent \/ m = Len(provider.sent) + 1
      BY <1>1, <3>2
    <3>4. provider' = [provider EXCEPT !.sent = s]
      BY <2>2
    <3> HIDE DEF s
    <3>5. provider' \in [sent : Seq(SUBSET Nat), deeds : [DOMAIN batch.items -> DeedSet]]
          /\ provider'.deeds = provider.deeds /\ provider'.sent = s
      BY <2>0, <3>2, <3>4
    <3>6. batch.pc = "fetch" /\ status # "not_attempted"
      BY <2>2
    <3>7. Len(provider.sent) \in Nat
      BY <1>1
    <3>8. Len(s) >= Len(provider.sent)
      BY <3>2, <3>7
    <3>9. ASSUME NEW m \in DOMAIN provider'.sent
          PROVE  \/ m \in DOMAIN provider.sent /\ provider'.sent[m] = provider.sent[m]
                 \/ m = Len(provider'.sent) /\ provider'.sent[m] = {batch.i}
      BY <3>2, <3>3, <3>5
    <3>10. \A m \in DOMAIN provider.sent : m \in DOMAIN provider'.sent /\ provider'.sent[m] = provider.sent[m]
      BY <1>1, <3>2, <3>5
    <3> QED BY <3>5, <3>6, <3>8, <3>9, <3>10
  <2> QED BY <2>1, <2>2
<1>11. \A k \in batch.i..batch.i : k = batch.i /\ k - batch.i + 1 = 1
  BY <1>1
<1>12. batch.i..batch.i = {batch.i}
  BY <1>1
<1>13. ASSUME NEW m \in DOMAIN provider'.sent
       PROVE  \/ provider'.sent[m] \subseteq 1..(batch.i - 1) /\ m \in DOMAIN provider.sent /\ provider'.sent[m] = provider.sent[m]
              \/ m = Len(provider'.sent) /\ provider'.sent[m] = batch.i..batch.i
                   /\ \A k \in DOMAIN more : more[k].status # "not_attempted"
  <2>0. \A k \in DOMAIN more : more[k].status = status
    BY <1>2, <1>9
  <2>1. CASE m \in DOMAIN provider.sent /\ provider'.sent[m] = provider.sent[m]
    <3>1. SentBefore(m)
      BY <1>1, <2>1 DEF Current
    <3>2. CASE provider.sent[m] \subseteq 1..(batch.i - 1)
      BY <2>1, <3>2
    <3>3. CASE batch.pc \in Exporting \ {"fetch"} /\ m = Len(provider.sent) /\ provider.sent[m] = {batch.i}
      <4>1. provider' = provider /\ status # "not_attempted"
        BY <1>10, <3>3 DEF Exporting
      <4> QED BY <1>12, <2>0, <2>1, <3>3, <4>1
    <3> QED BY <3>1, <3>2, <3>3 DEF SentBefore
  <2>2. CASE m = Len(provider'.sent) /\ provider'.sent[m] = {batch.i} /\ batch.pc = "fetch" /\ status # "not_attempted"
    BY <1>12, <2>0, <2>2
  <2> QED BY <1>10, <2>1, <2>2
<1>14. ASSUME NEW k \in batch.i..batch.i
       PROVE  /\ more[k - batch.i + 1].index = k
              /\ Writes => /\ more[k - batch.i + 1].status = "success" => GoodItem(k)'
                           /\ more[k - batch.i + 1].status = "error" => ~DoneItem(k)'
  <2>1. k = batch.i /\ k - batch.i + 1 = 1
    BY <1>11
  <2>2. more[k - batch.i + 1].index = k /\ more[k - batch.i + 1].status = status
    BY <1>2, <1>9, <2>1
  <2>3. GoodItem(k)' <=> files[f] = batch.i
    BY <1>3, <1>5, <1>7, <2>1 DEF GoodItem
  <2>4. DoneItem(k)' <=> files[f] = batch.i
    BY <1>3, <1>5, <1>7, <2>1 DEF DoneItem
  <2>5. status = "success" => files[f] = batch.i
    <3>1. status = "success" => files = [old EXCEPT ![f] = batch.i]
      BY DEF f, old
    <3> QED BY <1>1, <1>4, <3>1
  <2>6. status = "error" => files[f] # batch.i
    <3>1. status = "error" => files = old
      BY DEF old
    <3>2. old[f] < batch.i /\ old[f] \in Int
      BY <1>1, <1>4 DEF Current, old
    <3> QED BY <1>1, <3>1, <3>2
  <2> QED BY <2>2, <2>3, <2>4, <2>5, <2>6
<1>15. Settles(batch.i, more)
  <2>1. \A j \in DOMAIN batch.items : j \notin batch.i..batch.i => provider'.deeds[j] = provider.deeds[j]
    BY <1>10
  <2>2. \A g \in Files :
          \/ exports'.files[g] = exports.files[g]
          \/ exports.files[g] = 0 /\ exports'.files[g] \in batch.i..batch.i
    BY <1>6, <1>7, <1>12 DEF old
  <2>3. provider' \in [sent : Seq(SUBSET Nat), deeds : [DOMAIN batch.items -> DeedSet]]
    BY <1>10
  <2>4. /\ exports' \in [files : [Files -> Int], staged : BOOLEAN, slot : {"free", "mine", "other"}, others : SUBSET Files]
        /\ ~exports'.staged /\ exports'.slot # "mine" /\ \A g \in exports'.others : exports'.files[g] = -1
    BY <1>7, <1>8
  <2>5. \A k \in batch.i..batch.i :
          /\ more[k - batch.i + 1].index = k
          /\ Writes => /\ more[k - batch.i + 1].status = "success" => GoodItem(k)'
                       /\ more[k - batch.i + 1].status = "error" => ~DoneItem(k)'
    BY <1>14
  <2> QED BY <1>10, <1>13, <2>1, <2>2, <2>3, <2>4, <2>5 DEF Settles
<1>16. batch.i \in batch.i..Len(batch.items) /\ batch.i = Len(batch.results) + Len(more)
  BY <1>1, <1>9
<1> QED BY <1>3, <1>9, <1>15, <1>16, OnwardKeeps

(* An export that fails.                                                   *)
LEMMA FailKeeps ==
  ASSUME BInv, batch.pc \in Exporting, NEW code \in Codes, FailExport(code)
  PROVE  BInv'
<1>1. batch.pc \in Running
  BY DEF Running
<1>2. Item.type = "export"
  BY <1>1, Underway DEF Current
<1>3. Settle("error", code, exports.files) /\ provider' = provider
  BY DEF FailExport
<1>4. "error" \in Statuses
  BY DEF Statuses
<1> QED BY <1>1, <1>2, <1>3, <1>4, SettleKeeps

(* One of which nothing was asked.                                         *)
LEMMA DeniedKeeps ==
  ASSUME BInv, batch.pc \in {"next", "fetch"}, Item.type = "export", provider' = provider, NEW code \in Codes,
         Settle("not_attempted", code, exports.files)
  PROVE  BInv'
<1>1. batch.pc \in Running
  BY DEF Running, Exporting
<1>2. "not_attempted" \in Statuses
  BY DEF Statuses
<1> QED BY <1>1, <1>2, SettleKeeps

LEMMA AdmitKeeps == ASSUME BInv, Admit PROVE BInv'
<1>1. batch.pc = "next" /\ Item.type = "export" /\ provider' = provider
  BY DEF Admit, At
<1>2. CASE Settle("not_attempted", "canceled", exports.files)
  <2>1. "canceled" \in Codes
    BY DEF Codes
  <2> QED BY <1>1, <1>2, <2>1, DeniedKeeps
<1>3. CASE To("fetch") /\ exports' = [exports EXCEPT !.slot = "mine"]
  <2>1. batch.pc \in Running /\ "fetch" \in Exporting /\ batch.pc \notin Exporting
    BY <1>1 DEF Running, Exporting
  <2>2. ~exports.staged
    BY <1>1 DEF BInv, Holds
  <2> QED BY <1>1, <1>3, <2>1, <2>2, ExportGoesOn
<1> QED BY <1>2, <1>3 DEF Admit

LEMMA FetchKeeps == ASSUME BInv, Fetch PROVE BInv'
<1>1. batch.pc = "fetch" /\ batch.pc \in Running
  BY DEF Fetch, At, Running, Exporting
<1>2. Item.type = "export" /\ Holds
  BY <1>1, Underway DEF Current, Exporting
<1>3. CASE (\E code \in Denied : Settle("not_attempted", code, exports.files)) /\ UNCHANGED provider
  <2>1. PICK code \in Denied : Settle("not_attempted", code, exports.files)
    BY <1>3
  <2>2. code \in Codes /\ provider' = provider
    BY <1>3, ReasonsAreCodes
  <2> QED BY <1>1, <1>2, <2>1, <2>2, DeniedKeeps
<1>4. CASE To("open") /\ UNCHANGED exports /\ provider' = [provider EXCEPT !.sent = Append(@, {batch.i})]
  <2>1. "open" \in Exporting /\ ~exports.staged
    BY <1>1, <1>2 DEF Exporting, Holds
  <2> QED BY <1>1, <1>2, <1>4, <2>1, ExportGoesOn
<1>5. CASE /\ \E code \in Refusals \cup ReadLosses : Settle("error", code, exports.files)
           /\ provider' = [provider EXCEPT !.sent = Append(@, {batch.i})]
  <2>1. PICK code \in Refusals \cup ReadLosses : Settle("error", code, exports.files)
    BY <1>5
  <2>2. "error" \in Statuses /\ code \in Codes
    BY ReasonsAreCodes DEF Statuses
  <2>3. provider' = [provider EXCEPT !.sent = Append(@, {batch.i})]
    BY <1>5
  <2> QED BY <1>1, <1>2, <2>1, <2>2, <2>3, SettleKeeps
<1> QED BY <1>3, <1>4, <1>5 DEF Fetch

LEMMA OpenKeeps == ASSUME BInv, OpenExportRoot PROVE BInv'
<1>1. batch.pc = "open" /\ batch.pc \in Running /\ batch.pc \in Exporting
  BY DEF OpenExportRoot, At, Running, Exporting
<1>2. Item.type = "export" /\ Holds
  BY <1>1, Underway DEF Current
<1>3. \/ \E code \in {"canceled", "conflict", "local_state"} : FailExport(code)
      \/ To("write") /\ exports' = [exports EXCEPT !.staged = TRUE] /\ provider' = provider
  BY DEF OpenExportRoot
<1>4. CASE \E code \in {"canceled", "conflict", "local_state"} : FailExport(code)
  <2>1. PICK code \in {"canceled", "conflict", "local_state"} : FailExport(code)
    BY <1>4
  <2>2. code \in Codes
    BY DEF Codes
  <2> QED BY <1>1, <2>1, <2>2, FailKeeps
<1>5. CASE To("write") /\ exports' = [exports EXCEPT !.staged = TRUE] /\ provider' = provider
  <2>1. "write" \in Exporting
    BY DEF Exporting
  <2> QED BY <1>1, <1>2, <1>5, <2>1, ExportGoesOn
<1> QED BY <1>3, <1>4, <1>5

LEMMA WriteKeeps == ASSUME BInv, WriteExport PROVE BInv'
<1>1. batch.pc = "write" /\ batch.pc \in Running /\ batch.pc \in Exporting
  BY DEF WriteExport, At, Running, Exporting
<1>2. Item.type = "export"
  BY <1>1, Underway DEF Current
<1>3. "canceled" \in Codes /\ "local_state" \in Codes
  BY DEF Codes
<1>4. CASE FailExport("canceled") \/ FailExport("local_state")
  BY <1>1, <1>3, <1>4, FailKeeps
<1>5. CASE To("publish") /\ exports' = exports /\ provider' = provider
  <2>1. "publish" \in Exporting
    BY DEF Exporting
  <2> QED BY <1>1, <1>2, <1>5, <2>1, ExportGoesOn
<1> QED BY <1>4, <1>5 DEF WriteExport

LEMMA PublishKeeps == ASSUME BInv, PublishExport PROVE BInv'
<1>1. batch.pc = "publish" /\ batch.pc \in Running /\ batch.pc \in Exporting
  BY DEF PublishExport, At, Running, Exporting
<1>2. Item.type = "export"
  BY <1>1, Underway DEF Current
<1>3. "canceled" \in Codes /\ "local_state" \in Codes
  BY DEF Codes
<1>4. CASE FailExport("canceled") \/ FailExport("local_state")
  BY <1>1, <1>3, <1>4, FailKeeps
<1>5. CASE /\ exports.files[Item.file] = 0
           /\ Settle("success", Blank, [exports.files EXCEPT ![Item.file] = batch.i]) /\ provider' = provider
  <2>1. "success" \in Statuses /\ Blank \in Codes
    BY DEF Statuses, Codes
  <2> DEFINE files == [exports.files EXCEPT ![Item.file] = batch.i]
  <2>2. Settle("success", Blank, files) /\ files = [exports.files EXCEPT ![Item.file] = batch.i]
    BY <1>5
  <2>3. exports.files[Item.file] = 0 /\ provider' = provider
    BY <1>5
  <2> HIDE DEF files
  <2> QED BY <1>1, <1>2, <2>1, <2>2, <2>3, SettleKeeps
<1> QED BY <1>4, <1>5 DEF PublishExport

(***************************************************************************)
(* The end of a call.                                                      *)
(***************************************************************************)
(* A response that is too large claims nothing of what was attempted.      *)
NothingClaimed(fin, results, mutation) ==
  \A k \in DOMAIN fin :
    \/ results[k].status = "not_attempted" /\ fin[k].status = "not_attempted"
    \/ results[k].status # "not_attempted" /\ fin[k].status = IF mutation THEN "uncertain" ELSE "error"

Finished(fin, results, mutation) ==
  /\ fin \in Seq(Result) /\ Len(fin) = Len(results) /\ DOMAIN fin = DOMAIN results
  /\ \A k \in DOMAIN fin : fin[k].index = k
  /\ (\A k \in DOMAIN fin : fin[k].status = results[k].status) \/ NothingClaimed(fin, results, mutation)

LEMMA FinishTells ==
  ASSUME NEW results \in Seq(Result), NEW items, NEW mutation,
         \A k \in DOMAIN results : results[k].index = k
  PROVE  Finished(finishOutput(results, items, mutation), results, mutation)
<1>1. ASSUME NEW r \in Result PROVE normalizeResult(r) \in Result /\ normalizeResult(r).index = r.index
                                    /\ normalizeResult(r).status = r.status
  <2>1. "uncertain_write" \in Codes
    BY DEF Codes
  <2>2. CASE r.status = "uncertain"
    <3>1. normalizeResult(r) = [r EXCEPT !.code = "uncertain_write"]
      BY <2>2 DEF normalizeResult
    <3> QED BY <2>1, <3>1 DEF Result
  <2>3. CASE r.status # "uncertain"
    BY <2>3 DEF normalizeResult
  <2> QED BY <2>2, <2>3
<1> DEFINE n    == Len(results)
           told == [k \in DOMAIN results |-> normalizeResult(results[k])]
           st   == IF mutation THEN "uncertain" ELSE "error"
           big  == [k \in DOMAIN told |-> IF told[k].status = "not_attempted" THEN told[k]
                                         ELSE normalizeResult(Told(k, st, "response_too_large"))]
           fin  == finishOutput(results, items, mutation)
<1>2. DOMAIN results = 1..n /\ n \in Nat /\ \A k \in 1..n : results[k] \in Result
  OBVIOUS
<1>3. fin = told \/ fin = big
  BY DEF finishOutput
<1> HIDE DEF n, fin
<1>4. DOMAIN told = 1..n /\ \A k \in 1..n : told[k] = normalizeResult(results[k])
  BY <1>2
<1> HIDE DEF told
<1>5. \A k \in 1..n : told[k] \in Result /\ told[k].index = k /\ told[k].status = results[k].status
  BY <1>1, <1>2, <1>4
<1>6. told \in Seq(Result) /\ Len(told) = n
  <2>1. told = [k \in 1..n |-> told[k]]
    BY <1>4 DEF told
  <2>2. told \in [1..n -> Result]
    BY <1>5, <2>1
  <2> QED BY <1>2, <2>2
<1>7. st \in Statuses /\ st # "not_attempted" /\ "response_too_large" \in Codes
  BY DEF Statuses, Codes
<1>8. DOMAIN big = 1..n /\ \A k \in 1..n : big[k] = IF told[k].status = "not_attempted" THEN told[k]
                                                 ELSE normalizeResult(Told(k, st, "response_too_large"))
  BY <1>4
<1> HIDE DEF big, st
<1>9. ASSUME NEW k \in 1..n
      PROVE  /\ big[k] \in Result /\ big[k].index = k
             /\ \/ results[k].status = "not_attempted" /\ big[k].status = "not_attempted"
                \/ results[k].status # "not_attempted" /\ big[k].status = st
  <2>1. CASE results[k].status = "not_attempted"
    BY <1>5, <1>8, <2>1
  <2>2. CASE results[k].status # "not_attempted"
    <3> DEFINE r == Told(k, st, "response_too_large")
    <3>1. r \in Result /\ r.index = k /\ r.status = st
      BY <1>2, <1>7, ToldIsResult
    <3>2. big[k] = normalizeResult(r)
      BY <1>5, <1>8, <2>2
    <3> HIDE DEF r
    <3> QED BY <1>1, <2>2, <3>1, <3>2
  <2> QED BY <2>1, <2>2
<1>10. big \in Seq(Result) /\ Len(big) = n
  <2>1. big = [k \in 1..n |-> big[k]]
    BY <1>4, <1>8 DEF big
  <2>2. big \in [1..n -> Result]
    BY <1>9, <2>1
  <2> QED BY <1>2, <2>2
<1>11. CASE fin = told
  BY <1>2, <1>4, <1>5, <1>6, <1>11 DEF fin, n, Finished
<1>12. CASE fin = big
  BY <1>2, <1>8, <1>9, <1>10, <1>12 DEF fin, n, st, Finished, NothingClaimed
<1> QED BY <1>3, <1>11, <1>12

LEMMA FinishKeeps == ASSUME BInv, Finish_ PROVE BInv'
<1> DEFINE fin  == finishOutput(batch.results, batch.items, Writes)
           sent == UNION {provider.sent[k] : k \in DOMAIN provider.sent}
<1>1. /\ BatchType /\ Holds /\ Accepted /\ TrueSoFar /\ Ended /\ batch.pc = "finish"
      /\ batch' = [batch EXCEPT !.pc = "answer", !.results = fin] /\ provider' = provider /\ exports' = exports
  BY DEF BInv, Finish_, At, Writes
<1>2. batch \in BatchRecord /\ batch.results \in Seq(Result) /\ DOMAIN batch.results = DOMAIN batch.items
      /\ DOMAIN batch.items = 1..Len(batch.items) /\ Len(batch.items) \in Nat /\ provider.sent \in Seq(SUBSET Nat)
  <2>1. batch \in BatchRecord /\ provider.sent \in Seq(SUBSET Nat)
    BY <1>1 DEF BatchType, BatchRecord
  <2>2. batch.results \in Seq(Result)
    BY <2>1 DEF BatchRecord
  <2>3. Len(batch.results) = Len(batch.items) /\ DOMAIN batch.items = 1..Len(batch.items) /\ Len(batch.items) \in Nat
    BY <1>1, ItemsListed DEF Ended
  <2> QED BY <2>1, <2>2, <2>3
<1>3. Finished(fin, batch.results, Writes)
  BY <1>1, <1>2, FinishTells DEF TrueSoFar
<1> HIDE DEF fin
<1>4. /\ fin \in Seq(Result) /\ Len(fin) = Len(batch.results) /\ DOMAIN fin = DOMAIN batch.results
      /\ \A k \in DOMAIN fin : fin[k].index = k
      /\ \/ \A k \in DOMAIN fin : fin[k].status = batch.results[k].status
         \/ \A k \in DOMAIN fin : \/ batch.results[k].status = "not_attempted" /\ fin[k].status = "not_attempted"
                                  \/ batch.results[k].status # "not_attempted" /\ fin[k].status \in {"uncertain", "error"}
  BY <1>3 DEF Finished, NothingClaimed
<1>5. batch' \in BatchRecord /\ batch'.pc = "answer" /\ batch'.verb = batch.verb /\ batch'.items = batch.items
      /\ batch'.results = fin
  BY <1>1, <1>2, <1>4 DEF BatchRecord
<1>6. BatchType'
  BY <1>1, <1>5 DEF BatchType, BatchRecord
<1>7. ~exports.staged /\ exports.slot # "mine" /\ \A f \in exports.others : exports.files[f] = -1
  BY <1>1 DEF Holds, Exporting
<1>8. Holds'
  BY <1>1, <1>7 DEF Holds
<1>9. Len(batch.items) \in 1..MaxItems /\ \A j \in DOMAIN batch.items : validateItem(batch.verb, batch.items[j])
  BY <1>1 DEF Accepted
<1>10. ASSUME NEW k \in DOMAIN fin, fin[k].status = "not_attempted" PROVE k \notin sent
  <2>1. batch.results[k].status = "not_attempted"
    BY <1>4, <1>10
  <2> QED BY <1>1, <1>4, <2>1 DEF TrueSoFar
<1>11. ASSUME Writes, NEW k \in DOMAIN fin
       PROVE  (fin[k].status = "success" => GoodItem(k)) /\ (fin[k].status = "error" => ~DoneItem(k))
  <2>1. /\ fin[k].status = "success" => batch.results[k].status = "success"
        /\ fin[k].status = "error" => batch.results[k].status = "error"
    <3>1. CASE \A i \in DOMAIN fin : fin[i].status = batch.results[i].status
      BY <1>11, <3>1
    <3>2. CASE NothingClaimed(fin, batch.results, Writes)
      BY <1>11, <3>2 DEF NothingClaimed
    <3> QED BY <1>3, <3>1, <3>2 DEF Finished
  <2> QED BY <1>1, <1>4, <1>11, <2>1 DEF TrueSoFar
<1>12. ASSUME Writes, NEW m \in DOMAIN provider.sent, NEW k \in provider.sent[m], m < Len(provider.sent),
              fin[k].status # "success", NEW j \in Last(provider.sent)
       PROVE  fin[j].status = "uncertain"
  <2>1. k \in DOMAIN fin /\ batch.results[k].status = "success"
    BY <1>1, <1>2, <1>4, <1>12 DEF Ended
  <2>2. Len(provider.sent) \in DOMAIN provider.sent /\ Last(provider.sent) = provider.sent[Len(provider.sent)]
    BY <1>2, <1>12 DEF Last
  <2>3. j \in DOMAIN fin /\ batch.results[j].status # "not_attempted"
    BY <1>1, <1>2, <1>4, <2>2 DEF Ended, TrueSoFar
  <2>4. NothingClaimed(fin, batch.results, Writes)
    BY <1>3, <1>12, <2>1 DEF Finished
  <2> QED BY <1>12, <2>3, <2>4 DEF NothingClaimed
<1>13. Len(fin) = Len(batch.items)
  BY <1>1, <1>4 DEF Ended
<1>14. BatchTold'
  <2>1. /\ \A i \in DOMAIN fin : fin[i].index = i
        /\ \A i \in DOMAIN fin : fin[i].status = "not_attempted" => i \notin sent
        /\ Mutation(batch.verb) => \A i \in DOMAIN fin : /\ fin[i].status = "success" => GoodItem(i)
                                                         /\ fin[i].status = "error" => ~DoneItem(i)
        /\ Mutation(batch.verb) => \A k \in DOMAIN provider.sent : \A i \in provider.sent[k] :
             k < Len(provider.sent) /\ fin[i].status # "success" =>
               \A j \in Last(provider.sent) : fin[j].status = "uncertain"
    BY <1>4, <1>10, <1>11, <1>12 DEF Writes
  <2>2. ASSUME NEW i PROVE Unnamed(i)' <=> Unnamed(i)
    BY <1>1, <1>5 DEF Unnamed
  <2> HIDE DEF sent
  <2> QED BY <1>1, <1>5, <1>7, <1>9, <1>13, <2>1, <2>2 DEF BatchTold, GoodItem, DoneItem, sent
<1> QED BY <1>5, <1>6, <1>8, <1>14 DEF BInv, Running, Exporting

(***************************************************************************)
(* The beginning of a call.                                                *)
(***************************************************************************)
(* A call that is told at once, or not at all, where nothing was sent.     *)
Begins(b, pc, told) ==
  /\ batch' = [NoBatch EXCEPT !.pc = pc, !.verb = b.verb, !.items = b.items, !.results = told]
  /\ provider' = [sent |-> <<>>, deeds |-> [i \in DOMAIN b.items |-> "none"]]
  /\ exports' = exports

LEMMA BeginsTyped ==
  ASSUME BatchType, NEW b \in Batches, NEW pc \in {"next", "answer"}, NEW told \in Seq(Result), Begins(b, pc, told)
  PROVE  /\ BatchType' /\ batch'.pc = pc /\ batch'.verb = b.verb /\ batch'.items = b.items /\ batch'.results = told
         /\ batch'.i = 1 /\ provider'.sent = <<>> /\ exports' = exports
         /\ Len(b.items) \in Nat /\ DOMAIN b.items = 1..Len(b.items)
         /\ DOMAIN provider'.deeds = 1..Len(b.items) /\ \A i \in 1..Len(b.items) : provider'.deeds[i] = "none"
<1>1. batch' = [pc |-> pc, verb |-> b.verb, items |-> b.items, i |-> 1, results |-> told, cancelled |-> FALSE, stops |-> 0]
  BY DEF Begins, NoBatch
<1>2. b.verb \in Verbs /\ b.items \in ItemLists /\ pc \in Running \cup {"idle", "finish", "answer"}
  BY DEF Verbs, ItemLists, Running
<1>3. batch' \in BatchRecord
  BY <1>1, <1>2 DEF BatchRecord
<1>4. Len(b.items) \in Nat /\ DOMAIN b.items = 1..Len(b.items)
  <2>1. b.items \in Seq({b.items[i] : i \in DOMAIN b.items})
    BY BatchAssumption
  <2> QED BY <2>1
<1> DEFINE deeds == [i \in DOMAIN b.items |-> "none"]
<1>5. deeds \in [DOMAIN b.items -> DeedSet] /\ <<>> \in Seq(SUBSET Nat)
  BY DEF DeedSet
<1>6. provider' = [sent |-> <<>>, deeds |-> deeds]
  BY DEF Begins
<1>7. \A i \in DOMAIN b.items : deeds[i] = "none"
  OBVIOUS
<1>8. DOMAIN deeds = DOMAIN b.items
  OBVIOUS
<1> HIDE DEF deeds
<1>9. batch'.items = b.items
  BY <1>1
<1>10. BatchType'
  <2>1. exports' = exports
    BY DEF Begins
  <2> QED BY <1>3, <1>5, <1>6, <1>9, <2>1 DEF BatchType, BatchRecord
<1>11. provider'.sent = <<>> /\ provider'.deeds = deeds
  BY <1>6
<1>12. exports' = exports
  BY DEF Begins
<1>13. batch'.pc = pc /\ batch'.verb = b.verb /\ batch'.items = b.items /\ batch'.results = told /\ batch'.i = 1
  BY <1>1
<1> QED BY <1>4, <1>7, <1>8, <1>10, <1>11, <1>12, <1>13

LEMMA ExecuteKeeps == ASSUME BInv, NEW b \in Batches, execute(b) PROVE BInv'
<1> DEFINE n       == Len(b.items)
           refused == \E i \in DOMAIN b.items : ~validateItem(b.verb, b.items[i])
           away    == [i \in DOMAIN b.items |-> Told(i, IF validateItem(b.verb, b.items[i]) THEN "not_attempted"
                                                        ELSE "error", "invalid_request")]
<1>1. BatchType /\ Fresh /\ Holds
  BY DEF BInv, execute
<1>2. n \in Nat /\ DOMAIN b.items = 1..n
  <2>1. b.items \in Seq({b.items[i] : i \in DOMAIN b.items})
    BY BatchAssumption
  <2> QED BY <2>1
<1>3. Holds /\ exports' = exports => Holds'
  <2>1. ~exports.staged /\ exports.slot # "mine" /\ \A f \in exports.others : exports.files[f] = -1
    BY <1>1 DEF Fresh
  <2> QED BY <2>1 DEF Holds
<1>4. CASE n \notin 1..MaxItems
  <2> DEFINE told == <<Told(1, "error", "invalid_request")>>
  <2>1. Told(1, "error", "invalid_request") \in Result
    BY ToldIsResult DEF Statuses, Codes
  <2>2. told \in Seq(Result) /\ told # <<>>
    BY <2>1
  <2>3. Begins(b, "answer", told)
    BY <1>4, <2>2 DEF execute, Begins
  <2> HIDE DEF told
  <2>4. /\ BatchType' /\ batch'.pc = "answer" /\ batch'.items = b.items /\ provider'.sent = <<>> /\ exports' = exports
    BY <1>1, <2>2, <2>3, BeginsTyped
  <2>5. ~exports.staged /\ exports.slot # "mine" /\ exports.others = {}
    BY <1>1 DEF Fresh
  <2>6. BatchTold'
    BY <1>4, <2>4, <2>5 DEF BatchTold
  <2> QED BY <1>1, <1>3, <2>4, <2>6 DEF BInv, Running, Exporting
<1>5. CASE n \in 1..MaxItems /\ refused
  <2>1. ASSUME NEW i \in 1..n
        PROVE  away[i] \in Result /\ away[i].index = i /\ away[i].status \in {"not_attempted", "error"}
    <3> DEFINE st == IF validateItem(b.verb, b.items[i]) THEN "not_attempted" ELSE "error"
    <3>1. st \in Statuses /\ st \in {"not_attempted", "error"} /\ "invalid_request" \in Codes
      BY DEF Statuses, Codes
    <3>2. away[i] = Told(i, st, "invalid_request") /\ i \in Nat
      BY <1>2
    <3> HIDE DEF st, away
    <3> QED BY <3>1, <3>2, ToldIsResult
  <2>2. DOMAIN away = 1..n /\ away = [i \in 1..n |-> away[i]]
    BY <1>2
  <2>3. execute(b) => Begins(b, IF away = <<>> THEN "next" ELSE "answer", away)
    BY <1>5 DEF execute, Begins
  <2> HIDE DEF away
  <2>4. away \in Seq(Result) /\ Len(away) = n /\ away # <<>>
    <3>1. away \in [1..n -> Result]
      BY <2>1, <2>2
    <3> QED BY <1>2, <1>5, <2>2, <3>1
  <2>5. Begins(b, "answer", away)
    BY <2>3, <2>4
  <2>6. /\ BatchType' /\ batch'.pc = "answer" /\ batch'.items = b.items /\ batch'.results = away
        /\ provider'.sent = <<>> /\ exports' = exports /\ \A i \in 1..n : provider'.deeds[i] = "none"
    BY <1>1, <2>4, <2>5, BeginsTyped
  <2>7. ~exports.staged /\ exports.slot # "mine" /\ exports.others = {}
    BY <1>1 DEF Fresh
  <2>8. \A i \in 1..n : b.items[i].type = "export" => exports.files[b.items[i].file] = 0
    BY <1>1, <1>2, BatchAssumption DEF Fresh
  <2>9. /\ \A i \in DOMAIN away : away[i].index = i /\ away[i].status # "success"
        /\ \A i \in DOMAIN away : i \in 1..n
    BY <2>1, <2>2
  <2>10. DOMAIN provider'.sent = {} /\ UNION {provider'.sent[k] : k \in DOMAIN provider'.sent} = {}
    BY <2>6
  <2>11. BatchTold'
    BY <1>2, <2>4, <2>6, <2>7, <2>8, <2>9, <2>10 DEF BatchTold
  <2> QED BY <1>1, <1>3, <2>6, <2>11 DEF BInv, Running, Exporting
<1>6. CASE n \in 1..MaxItems /\ ~refused
  <2>1. Begins(b, "next", <<>>)
    BY <1>6 DEF execute, Begins
  <2>2. <<>> \in Seq(Result)
    OBVIOUS
  <2>3. /\ BatchType' /\ batch'.pc = "next" /\ batch'.verb = b.verb /\ batch'.items = b.items /\ batch'.results = <<>>
        /\ batch'.i = 1 /\ provider'.sent = <<>> /\ exports' = exports /\ \A i \in 1..n : provider'.deeds[i] = "none"
    BY <1>1, <2>1, <2>2, BeginsTyped
  <2>4. Accepted'
    BY <1>2, <1>6, <2>3 DEF Accepted
  <2>5. TrueSoFar'
    BY <2>3 DEF TrueSoFar
  <2>6. Current'
    <3>1. \A f \in Files : exports.files[f] < 1
      BY <1>1 DEF Fresh
    <3> QED BY <1>2, <1>6, <2>3, <3>1 DEF Current, SentBefore, Exporting
  <2>7. BatchTold'
    BY <2>3 DEF BatchTold
  <2> QED BY <1>1, <1>3, <2>3, <2>4, <2>5, <2>6, <2>7 DEF BInv, Running, Exporting
<1> QED BY <1>4, <1>5, <1>6

(***************************************************************************)
(* The whole system.                                                       *)
(***************************************************************************)
(* A step that only counts, or cancels.                                    *)
Counted == \/ batch' = batch
           \/ batch' = [batch EXCEPT !.cancelled = TRUE]
           \/ batch' = [batch EXCEPT !.stops = @ + 1]
           \/ batch' = [batch EXCEPT !.cancelled = TRUE, !.stops = @ + 1]

LEMMA CountedKeeps ==
  ASSUME BInv, batch.pc \notin {"idle", "answer"}, provider' = provider, Counted, OthersStep
  PROVE  BInv'
<1>1. BatchType
  BY DEF BInv
<1>2. batch \in BatchRecord
  BY <1>1 DEF BatchType, BatchRecord
<1>3. batch.stops \in Nat /\ batch.pc \in Running \cup {"finish"}
  BY <1>2 DEF BatchRecord
<1> DEFINE n == batch.stops + 1
           same == /\ batch' \in BatchRecord /\ batch'.pc = batch.pc /\ batch'.items = batch.items /\ batch'.verb = batch.verb
                   /\ batch'.i = batch.i /\ batch'.results = batch.results
<1>4. n \in Nat
  BY <1>3
<1>5. ASSUME batch' = batch PROVE same
  BY <1>2, <1>5
<1>6. ASSUME batch' = [batch EXCEPT !.cancelled = TRUE] PROVE same
  BY <1>2, <1>6 DEF BatchRecord
<1>7. ASSUME batch' = [batch EXCEPT !.stops = n] PROVE same
  <2> HIDE DEF n
  <2> QED BY <1>2, <1>4, <1>7 DEF BatchRecord
<1>8. ASSUME batch' = [batch EXCEPT !.cancelled = TRUE, !.stops = n] PROVE same
  <2> HIDE DEF n
  <2> QED BY <1>2, <1>4, <1>8 DEF BatchRecord
<1>9. same
  BY <1>5, <1>6, <1>7, <1>8 DEF Counted
<1> QED BY <1>3, <1>9, WorldKeeps

LEMMA CancelKeeps == ASSUME BInv, CancelBatch \/ Timeout PROVE BInv'
<1>1. batch.pc \notin {"idle", "answer"} /\ UNCHANGED <<provider, exports>>
  BY DEF CancelBatch, Timeout, At
<1>2. OthersStep /\ Counted
  BY <1>1 DEF OthersStep, Counted, CancelBatch, Timeout
<1> QED BY <1>1, <1>2, CountedKeeps

LEMMA OtherExportsKeep == ASSUME BInv, OtherExports PROVE BInv'
<1>1. batch.pc \notin {"idle", "answer"} /\ provider' = provider
  BY DEF OtherExports
<1>2. Counted
  BY DEF OtherExports, Counted
<1>3. OthersStep
  <2>1. CASE exports.slot = "free" /\ exports' = [exports EXCEPT !.slot = "other"]
    BY <2>1 DEF OthersStep
  <2>2. CASE \E f \in Files : exports.files[f] = 0 /\ exports' = [exports EXCEPT !.files[f] = -1, !.others = @ \cup {f}]
    BY <2>2 DEF OthersStep
  <2>3. CASE exports.slot = "other" /\ exports' = [exports EXCEPT !.slot = "free"]
    BY <2>3 DEF OthersStep
  <2> QED BY <2>1, <2>2, <2>3 DEF OtherExports
<1> QED BY <1>1, <1>2, <1>3, CountedKeeps

LEMMA BatchRests == ASSUME BInv, UNCHANGED batchVars PROVE BInv'
<1>1. batch' = batch /\ provider' = provider /\ exports' = exports
  BY DEF batchVars
<1>2. \A k : Unnamed(k)' <=> Unnamed(k)
  BY <1>1 DEF Unnamed
<1>3. \A k : (GoodItem(k)' <=> GoodItem(k)) /\ (DoneItem(k)' <=> DoneItem(k))
  BY <1>1, <1>2 DEF GoodItem, DoneItem
<1>4. BatchType' /\ Holds' /\ (Fresh' <=> Fresh) /\ (Accepted' <=> Accepted) /\ (Current' <=> Current) /\ (Ended' <=> Ended)
  BY <1>1 DEF BInv, BatchType, Holds, Fresh, Accepted, Current, Ended, SentBefore, Item, Writes
<1>5. TrueSoFar' <=> TrueSoFar
  BY <1>1, <1>3 DEF TrueSoFar, Writes
<1>6. BatchTold'
  BY <1>1, <1>2 DEF BInv, BatchTold
<1> QED BY <1>1, <1>4, <1>5, <1>6 DEF BInv

LEMMA BatchInitInv == ASSUME Init PROVE BInv
<1>1. /\ batch = [pc |-> "idle", verb |-> "get", items |-> <<>>, i |-> 1, results |-> <<>>, cancelled |-> FALSE, stops |-> 0]
      /\ provider = [sent |-> <<>>, deeds |-> <<>>]
      /\ exports = [files |-> [f \in Files |-> 0], staged |-> FALSE, slot |-> "free", others |-> {}]
  BY DEF Init, BatchInit, NoBatch
<1>2. BatchType
  <2>1. "get" \in Verbs /\ <<>> \in ItemLists /\ "idle" \in Running \cup {"idle", "finish", "answer"}
    BY DEF Verbs, ItemLists
  <2>2. <<>> \in Seq(Result) /\ <<>> \in Seq(SUBSET Nat) /\ <<>> \in [DOMAIN batch.items -> DeedSet]
    BY <1>1
  <2>3. batch \in BatchRecord
    BY <1>1, <2>1, <2>2 DEF BatchRecord
  <2>4. provider \in [sent : Seq(SUBSET Nat), deeds : [DOMAIN batch.items -> DeedSet]]
    BY <1>1, <2>2
  <2> QED BY <1>1, <2>3, <2>4 DEF BatchType, BatchRecord
<1>3. Holds /\ Fresh
  BY <1>1 DEF Holds, Fresh
<1>4. BatchTold
  BY <1>1 DEF BatchTold
<1> QED BY <1>1, <1>2, <1>3, <1>4 DEF BInv, Running, Exporting

LEMMA BatchStepInv == ASSUME BInv, [Next]_vars PROVE BInv'
<1>1. \/ Batcher \/ CallBatch \/ CancelBatch \/ OtherExports \/ UNCHANGED batchVars
  BY DEF Next, vars, GrepCaller, GrepWorker, GrepClient, ListCaller, ListClient, ReadCaller, ReadClient, BatchCall, BatchWorld,
         Editing, GrepRest, ListRest, ReadRest
<1>2. CASE Batcher
  BY <1>2, CancelKeeps, UnsentKeeps, RefusedKeeps, LostKeeps, AnsweredKeeps, AdmitKeeps, FetchKeeps, OpenKeeps, WriteKeeps,
     PublishKeeps, FinishKeeps DEF Batcher
<1>3. CASE CallBatch
  BY <1>3, ExecuteKeeps DEF CallBatch
<1>4. CASE CancelBatch
  BY <1>4, CancelKeeps
<1>5. CASE OtherExports
  BY <1>5, OtherExportsKeep
<1>6. CASE UNCHANGED batchVars
  BY <1>6, BatchRests
<1> QED BY <1>1, <1>2, <1>3, <1>4, <1>5, <1>6

(* The invariant of a batch at every moment of its call: what is behind it *)
(* is settled and was told as it went, but for a success that Unnamed      *)
(* names; what is ahead of it is untouched (execute, groupResults).        *)
THEOREM BatchInvariance == Spec => []BInv
<1>1. Init => BInv
  BY BatchInitInv
<1>2. BInv /\ [Next]_vars => BInv'
  BY BatchStepInv
<1> QED BY <1>1, <1>2, PTL DEF Spec

(* What the caller of a batch is told of each item is what became of it:   *)
(* a write told as made was made, but for an update sent alone by its      *)
(* import ID that the answer did not name; one told as failed was not made *)
(* and nothing was sent of an item said not to be attempted or after a     *)
(* write that failed (execute, correlateNativeResults, acknowledge,        *)
(* finishOutput, PublishExport).                                           *)
THEOREM ToldTruly == Spec => []BatchTold
<1>1. BInv => BatchTold
  BY DEF BInv
<1> QED BY <1>1, BatchInvariance, PTL
=============================================================================
