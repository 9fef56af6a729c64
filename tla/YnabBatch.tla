------------------------------ MODULE YnabBatch ------------------------------
(* A call of a YNAB tool: a batch of items, validated as a whole, sent one  *)
(* request after the other (consecutive transactions as one native batch)   *)
(* until one goes wrong, and told to the caller item by item.  An export    *)
(* fetches like a read and then publishes a file.  What an attempt at the   *)
(* provider may come to is what YnabDispatch promises of it.                *)
EXTENDS Integers, SequencesExt, FiniteSetsExt

CONSTANTS Batches,     \* the calls: a verb and its items
          Files,       \* the names in the export directory
          MaxItems,    \* maxItems
          MaxBytes,    \* what a response has room for
          MaxStops     \* bound: cancellations and what others do to exports

VARIABLES batch,       \* the call under way
          provider,    \* history: groups of items sent, and what became of each item
          exports      \* the export directory, the private stage, the export slot; history: files of others

batchVars == <<batch, provider, exports>>

ASSUME BatchAssumption ==
  /\ MaxItems \in Nat \ {0} /\ MaxBytes \in Nat /\ MaxStops \in Nat
  /\ \A b \in Batches : /\ b.items \in Seq({b.items[i] : i \in DOMAIN b.items})
                        /\ \A i \in DOMAIN b.items : b.items[i].type = "export" => b.items[i].file \in Files

(* The empty string: a field left out, no error code.                       *)
Blank == ""

Mutation(verb) == verb \in {"create", "update", "delete", "import"}

(***************************************************************************)
(* Validation, of every item before anything is sent.  x.id stands for the *)
(* identity that itemID finds; x.sound for the number, date and split rules.*)
(***************************************************************************)
validatePayload(verb, x) ==
  /\ (x.type = "transaction" /\ verb = "list") \/ (x.type = "export" /\ x.source = "transactions") => x.scopes <= 1
  /\ verb \in {"create", "update"} /\ x.type # "export" =>
       /\ x.data /\ x.sound
       /\ x.type = "transaction" /\ verb = "update" => (x.id = Blank) # (x.importID = Blank)

validateExport(x) ==
  /\ x.plan # Blank /\ x.file # Blank /\ x.source \in {"plan", "transactions"} /\ x.sound
  /\ x.format \in (IF x.source = "plan" THEN {"json"} ELSE {"json", "csv"})

transactionRoute(verb, x) ==
  CASE verb \in {"list", "get"}      -> "GET"
    [] verb \in {"create", "import"} -> "POST"
    [] verb = "update"               -> IF x.id = Blank THEN "PATCH" ELSE "PUT"
    [] verb = "delete"               -> "DELETE"

Collections == {"account", "category", "category_group", "payee", "payee_location", "month",
                "money_movement", "money_movement_group", "scheduled_transaction"}

(* The method of the request, none for what the provider does not offer.    *)
route(verb, x) ==
  CASE verb = "import" /\ x.type = "bank_import"              -> "POST"
    [] verb = "get" /\ x.type \in {"user", "plan", "settings"} -> "GET"
    [] verb = "list" /\ x.type = "plan"                       -> "GET"
    [] x.type = "transaction"                                 -> transactionRoute(verb, x)
    [] x.type \in Collections /\ verb \in {"list", "get"}     -> "GET"
    [] x.type \in Collections /\ verb = "create"              -> "POST"
    [] x.type \in Collections /\ verb = "update"              -> IF x.type = "scheduled_transaction" THEN "PUT" ELSE "PATCH"
    [] x.type = "scheduled_transaction" /\ verb = "delete"    -> "DELETE"
    [] OTHER                                                  -> Blank

NeedsID(verb, x) == /\ verb \in {"get", "delete"} \/ (verb = "update" /\ ~(x.type = "transaction" /\ x.importID # Blank))
                    /\ x.type \notin {"plan", "settings"}

validateItem(verb, x) ==
  /\ x.type # Blank /\ validatePayload(verb, x)
  /\ \/ x.type = "user" /\ verb = "get"
     \/ x.type = "plan" /\ verb = "list"
     \/ x.type = "export" /\ verb = "create" /\ validateExport(x)
     \/ /\ x.type \notin {"user", "export"} /\ x.plan # Blank /\ route(verb, x) # Blank
        /\ NeedsID(verb, x) => x.id # Blank
        /\ x.type = "transaction" /\ verb = "list" => x.sound

(***************************************************************************)
(* Results.                                                                 *)
(***************************************************************************)
Told(i, status, code) == [index |-> i, status |-> status, code |-> code]

appendNotAttempted(results, n) ==
  results \o [k \in 1..(n - Len(results)) |->
                Told(Len(results) + k, "not_attempted", IF results = <<>> THEN Blank ELSE Last(results).code)]

normalizeResult(r) == IF r.status = "uncertain" THEN [r EXCEPT !.code = "uncertain_write"] ELSE r

(* A response that is too large tells nothing but that.                     *)
Bytes(told, items) ==
  FoldLeft(LAMBDA sum, r : sum + (IF r.status = "success" THEN items[r.index].size ELSE 0), 0, told)

finishOutput(results, items, mutation) ==
  LET told == [i \in DOMAIN results |-> normalizeResult(results[i])]
  IN IF Bytes(told, items) <= MaxBytes THEN told
     ELSE [i \in DOMAIN told |-> IF told[i].status = "not_attempted" THEN told[i]
             ELSE normalizeResult(Told(i, IF mutation THEN "uncertain" ELSE "error", "response_too_large"))]

(* Whether a result ends the batch ("wait": the circuit is open).  Faulty   *)
(* variant, for mutation runs: a failed item does not hold up other writes. *)
Shared == {"rate_limited", "authentication", "permission", "canceled", "local_state", "wait"}
StopsOnShared(mutation, r) == r.status # "success" /\ r.code \in Shared

Stops(mutation, r) == r.status # "success" /\ (mutation \/ r.code \in Shared)

(***************************************************************************)
(* Native groups.                                                           *)
(***************************************************************************)
isNativeTransaction(verb, x) == x.type = "transaction" /\ verb \in {"create", "update"}

transactionIdentity(verb, x) == IF x.importID # Blank THEN <<"import", x.importID>>
                                ELSE <<"id", IF verb = "create" THEN Blank ELSE x.id>>

nativeBatchIdentifiable(verb, items) ==
  /\ \A i \in DOMAIN items : transactionIdentity(verb, items[i]) # <<"id", Blank>>
  /\ \A i, j \in DOMAIN items : i # j => transactionIdentity(verb, items[i]) # transactionIdentity(verb, items[j])

Item   == batch.items[batch.i]
At(pc) == batch.pc = pc
To(pc) == batch' = [batch EXCEPT !.pc = pc]

(* The items of the next request: the longest row of transactions of one    *)
(* plan if its answer can be told apart, or one item.                       *)
RowEnds == {e \in batch.i..Len(batch.items) :
              \A j \in batch.i..e : isNativeTransaction(batch.verb, batch.items[j]) /\ batch.items[j].plan = Item.plan}
GroupEnd ==
  IF RowEnds # {} /\ nativeBatchIdentifiable(batch.verb, SubSeq(batch.items, batch.i, Max(RowEnds)))
  THEN Max(RowEnds) ELSE batch.i
Group == batch.i..GroupEnd

(***************************************************************************)
(* What the provider may do with a request that it answers, and show of it. *)
(* It may ignore fields of a split, leave out an item of a list, know a new *)
(* transaction by its import ID already, and show less than it did.         *)
(***************************************************************************)
(* Whether the request carries a list: a group, or a transaction that only  *)
(* its import ID identifies (providerBody).                                 *)
CarriesList(verb, x, alone) == ~alone \/ (isNativeTransaction(verb, x) /\ x.id = Blank /\ x.importID # Blank)

Deeds(verb, x, alone) ==
  {"made"} \cup (IF verb = "create" /\ x.importID # Blank THEN {"duplicate"} ELSE {})
           \cup (IF verb = "update" /\ x.type = "transaction" /\ x.checked THEN {"ignored"} ELSE {})
           \cup (IF CarriesList(verb, x, alone) THEN {"none"} ELSE {})

(* Whether an item is among the identities that the answer shows.  Faulty   *)
(* variant, for mutation runs: items are matched by their number.           *)
correlateByCount(verb, items, i, deeds, shown) == shown # {}

correlateNativeResults(verb, items, i, deeds, shown) ==
  \E j \in shown : \/ items[i].id # Blank /\ verb = "update" /\ items[j].id = items[i].id
                   \/ items[i].importID # Blank /\ items[j].importID = items[i].importID

(* The requested fields, as the answer shows them.  Faulty variant, for     *)
(* mutation runs: an answer is taken for a confirmation.                    *)
confirmAnything(x, i, deeds, shown) == TRUE

confirmTransactionFields(x, i, deeds, shown) == x.checked => i \in shown /\ deeds[i] # "ignored"

(* Whether the list of identities that the answer must have is enough, an   *)
(* empty one too: the keys of an import and of a native PATCH; acknowledge  *)
(* asks whether there is a list and not whether it names anything.          *)
ListSuffices(verb, x) == verb = "import" \/ (x.type = "transaction" /\ transactionRoute(verb, x) = "PATCH")

(* The result of an item in a well-formed answer.                           *)
Confirmed(verb, items, group, i, deeds, shown) ==
  LET named == IF Cardinality(group) > 1 THEN correlateNativeResults(verb, items, i, deeds, shown)
               ELSE ListSuffices(verb, items[i]) \/ i \in shown
      as    == verb = "update" /\ items[i].type = "transaction" => confirmTransactionFields(items[i], i, deeds, shown)
  IN Told(i, IF ~Mutation(verb) \/ (named /\ as) THEN "success" ELSE "uncertain", Blank)

(***************************************************************************)
(* The call.                                                                *)
(***************************************************************************)
NoBatch == [pc |-> "idle", verb |-> "get", items |-> <<>>, i |-> 1, results |-> <<>>, cancelled |-> FALSE, stops |-> 0]

BatchInit ==
  /\ batch = NoBatch
  /\ provider = [sent |-> <<>>, deeds |-> <<>>]
  /\ exports = [files |-> [f \in Files |-> 0], staged |-> FALSE, slot |-> "free", others |-> {}]

execute(b) ==
  LET refused == \E i \in DOMAIN b.items : ~validateItem(b.verb, b.items[i])
      told == IF Len(b.items) \notin 1..MaxItems THEN <<Told(1, "error", "invalid_request")>>
              ELSE IF refused THEN [i \in DOMAIN b.items |-> Told(i, IF validateItem(b.verb, b.items[i]) THEN "not_attempted"
                                                                     ELSE "error", "invalid_request")]
              ELSE <<>>
  IN /\ batch.pc = "idle"
     /\ batch' = [NoBatch EXCEPT !.pc = IF told = <<>> THEN "next" ELSE "answer", !.verb = b.verb, !.items = b.items,
                                 !.results = told]
     /\ provider' = [sent |-> <<>>, deeds |-> [i \in DOMAIN b.items |-> "none"]]
     /\ UNCHANGED exports

CallBatch == \E b \in Batches : execute(b)

(* The 60 seconds of the call, or the client's cancellation.                *)
CancelBatch == /\ batch.pc \notin {"idle", "answer"} /\ ~batch.cancelled /\ batch.stops < MaxStops
               /\ batch' = [batch EXCEPT !.cancelled = TRUE, !.stops = @ + 1]
               /\ UNCHANGED <<provider, exports>>

(* Waiting for the export slot ends with the timeout at the latest.         *)
Timeout == /\ At("next") /\ Item.type = "export" /\ exports.slot = "other" /\ ~batch.cancelled
           /\ batch' = [batch EXCEPT !.cancelled = TRUE]
           /\ UNCHANGED <<provider, exports>>

(* The results of a group, and where the batch goes on.                     *)
Onward(more) ==
  LET results == batch.results \o more
      stop    == \E k \in DOMAIN more : Stops(Mutation(batch.verb), more[k])
      all     == IF stop THEN appendNotAttempted(results, Len(batch.items)) ELSE results
  IN [batch EXCEPT !.results = all, !.i = Len(results) + 1,
                   !.pc = IF Len(all) = Len(batch.items) THEN "finish" ELSE "next"]

groupResults(status, code) == [i \in Group |-> Told(i, status, code)]
InOrder(told) == [k \in 1..Cardinality(Group) |-> told[batch.i + k - 1]]

Sent(deeds) == provider' = [sent  |-> Append(provider.sent, Group),
                            deeds |-> [i \in DOMAIN provider.deeds |-> IF i \in Group THEN deeds[i] ELSE provider.deeds[i]]]

Request == batch.pc = "next" /\ Item.type # "export" /\ UNCHANGED exports

(* Why an attempt is not made: no local state, no allowance, the circuit,   *)
(* the end of the call.                                                     *)
Denied == {"local_state", "rate_limited", "wait"} \cup (IF batch.cancelled THEN {"canceled"} ELSE {})

(* The request was never dispatched: its first attempt was denied.          *)
Unsent == /\ Request /\ UNCHANGED provider
          /\ \E code \in Denied : batch' = Onward(InOrder(groupResults("not_attempted", code)))

(* The provider refuses; one code for each course that a refusal takes.     *)
Refusals == {"not_found", "permission", "rate_limited"}
Refused == /\ Request /\ Sent([i \in Group |-> "none"])
           /\ \E code \in Refusals : batch' = Onward(InOrder(groupResults("error", code)))

(* What a read without an answer ends with: none came or none that is well  *)
(* formed, its completion was not recorded, its second attempt was denied.  *)
ReadLosses == {"invalid_response", "upstream_unavailable", "response_too_large"} \cup Denied

(* No answer, or one that is not well formed: a write may have been made.   *)
Lost == /\ Request
        /\ \E made \in BOOLEAN, code \in ReadLosses :
             /\ Sent([i \in Group |-> IF made THEN "made" ELSE "none"])
             /\ batch' = Onward(InOrder(IF Mutation(batch.verb) THEN groupResults("uncertain", Blank)
                                       ELSE groupResults("error", code)))

Answered ==
  /\ Request
  /\ \E deeds \in [Group -> {"made", "duplicate", "ignored", "none"}] : \E shown \in SUBSET Group :
       /\ \A i \in Group : deeds[i] \in Deeds(batch.verb, batch.items[i], Cardinality(Group) = 1)
       /\ \A i \in shown : deeds[i] # "none"
       /\ Sent(deeds)
       /\ batch' = Onward(InOrder([i \in Group |-> Confirmed(batch.verb, batch.items, Group, i, deeds, shown)]))

(***************************************************************************)
(* Exports.                                                                 *)
(***************************************************************************)
(* The result of an export; the deferred calls remove the stage and give    *)
(* the slot back.                                                           *)
Settle(status, code, files) ==
  /\ batch' = Onward(<<Told(batch.i, status, code)>>)
  /\ exports' = [exports EXCEPT !.files = files, !.staged = FALSE, !.slot = IF @ = "mine" THEN "free" ELSE @]
FailExport(code) == Settle("error", code, exports.files) /\ UNCHANGED provider

Admit ==
  /\ At("next") /\ Item.type = "export" /\ UNCHANGED provider
  /\ \/ exports.slot = "free" /\ ~batch.cancelled /\ To("fetch") /\ exports' = [exports EXCEPT !.slot = "mine"]
     \/ batch.cancelled /\ Settle("not_attempted", "canceled", exports.files)

(* requestProvider without projection, then everything about the answer.    *)
Fetch ==
  /\ At("fetch")
  /\ \/ (\E code \in Denied : Settle("not_attempted", code, exports.files)) /\ UNCHANGED provider
     \/ /\ To("open") /\ UNCHANGED exports
        /\ provider' = [provider EXCEPT !.sent = Append(@, {batch.i})]
     \/ /\ \E code \in Refusals \cup ReadLosses : Settle("error", code, exports.files)
        /\ provider' = [provider EXCEPT !.sent = Append(@, {batch.i})]

OpenExportRoot ==
  /\ At("open")
  /\ CASE batch.cancelled                                       -> FailExport("canceled")
       [] ~batch.cancelled /\ exports.files[Item.file] # 0      -> FailExport("conflict")
       [] OTHER -> \/ FailExport("local_state")
                   \/ To("write") /\ exports' = [exports EXCEPT !.staged = TRUE] /\ UNCHANGED provider

WriteExport ==
  /\ At("write")
  /\ \/ batch.cancelled /\ FailExport("canceled")
     \/ FailExport("local_state")
     \/ To("publish") /\ UNCHANGED <<exports, provider>>

(* Link does not replace a file that appeared since.  Faulty variant, for   *)
(* mutation runs: publishing renames the stage.                             *)
PublishRename ==
  /\ At("publish")
  /\ \/ batch.cancelled /\ FailExport("canceled")
     \/ Settle("success", Blank, [exports.files EXCEPT ![Item.file] = batch.i]) /\ UNCHANGED provider

PublishExport ==
  /\ At("publish")
  /\ \/ batch.cancelled /\ FailExport("canceled")
     \/ exports.files[Item.file] # 0 /\ FailExport("local_state")
     \/ /\ exports.files[Item.file] = 0
        /\ Settle("success", Blank, [exports.files EXCEPT ![Item.file] = batch.i]) /\ UNCHANGED provider

(* Other calls hold the slot for a while; other programs create files.      *)
OtherExports ==
  /\ batch.pc \notin {"idle", "answer"} /\ UNCHANGED provider
  /\ \/ /\ batch.stops < MaxStops /\ batch' = [batch EXCEPT !.stops = @ + 1]
        /\ \/ exports.slot = "free" /\ exports' = [exports EXCEPT !.slot = "other"]
           \/ \E f \in Files : exports.files[f] = 0 /\ exports' = [exports EXCEPT !.files[f] = -1, !.others = @ \cup {f}]
     \/ exports.slot = "other" /\ exports' = [exports EXCEPT !.slot = "free"] /\ UNCHANGED batch

Finish_ == /\ At("finish")
           /\ batch' = [batch EXCEPT !.pc = "answer", !.results = finishOutput(@, batch.items, Mutation(batch.verb))]
           /\ UNCHANGED <<provider, exports>>

Batcher == \/ Timeout \/ Unsent \/ Refused \/ Lost \/ Answered
           \/ Admit \/ Fetch \/ OpenExportRoot \/ WriteExport \/ PublishExport \/ Finish_

(***************************************************************************)
(* An update sent alone by its import ID, with no field that is compared:   *)
(* acknowledge (projection.go:265) takes an answer for a success that names *)
(* no transaction.  docs/requirements/ynab-tools.md:66 asks for the         *)
(* uncertainty to be reported instead.                                      *)
(***************************************************************************)
Unnamed(i) == /\ batch.verb = "update" /\ ListSuffices(batch.verb, batch.items[i]) /\ ~batch.items[i].checked
              /\ \E k \in DOMAIN provider.sent : provider.sent[k] = {i}

(***************************************************************************)
(* What the caller is told is true: one result for each item, in order;     *)
(* nothing was sent of a batch with an invalid item, nothing of an item     *)
(* said not to be attempted, and nothing after a write that went wrong; a   *)
(* write told as made was made as requested or was there before, but for    *)
(* the update that the code tells as made though the answer named nothing   *)
(* (Unnamed); one told as failed was not made; a published file is the      *)
(* export's, no other file was replaced, and neither stage nor slot is kept *)
(* (execute).                                                               *)
(***************************************************************************)
BatchTold ==
  LET items == batch.items
      told  == batch.results
      sent  == UNION {provider.sent[k] : k \in DOMAIN provider.sent}
      good(i) == IF items[i].type = "export" THEN exports.files[items[i].file] = i
                 ELSE provider.deeds[i] \in {"made", "duplicate"} \/ Unnamed(i)
      done(i) == IF items[i].type = "export" THEN exports.files[items[i].file] = i ELSE provider.deeds[i] # "none"
      whole == Len(items) \in 1..MaxItems
  IN batch.pc = "answer" =>
       /\ ~exports.staged /\ exports.slot # "mine"
       /\ \A f \in exports.others : exports.files[f] = -1
       /\ ~whole \/ (\E i \in DOMAIN items : ~validateItem(batch.verb, items[i])) => sent = {}
       /\ whole => /\ Len(told) = Len(items) /\ \A i \in DOMAIN told : told[i].index = i
                   /\ \A i \in DOMAIN told : told[i].status = "not_attempted" => i \notin sent
                   /\ Mutation(batch.verb) =>
                        /\ \A i \in DOMAIN told : /\ told[i].status = "success" => good(i)
                                                  /\ told[i].status = "error" => ~done(i)
                        /\ \A k \in DOMAIN provider.sent : \A i \in provider.sent[k] :
                             k < Len(provider.sent) /\ told[i].status # "success" =>
                               \A j \in Last(provider.sent) : told[j].status = "uncertain"
=============================================================================
