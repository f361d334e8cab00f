--------------------------- MODULE CaptureRequest ---------------------------
(***************************************************************************)
(* context/process_request.rs: what request does with a document and its   *)
(* variables while a capture is open.  Capture has only the requests that  *)
(* are stored or passed on; here is how the code tells them from the rest, *)
(* by looking for words and brackets in the text, and what an apply makes  *)
(* of the validation sets that are stored with them.                       *)
(***************************************************************************)
EXTENDS Integers, Sequences, FiniteSets

CONSTANTS
    Models,         \* models of the application
    MaxInternal,    \* largest isize
    MaxStored       \* bound of the model: mutations a capture holds

ASSUME RequestAssumption == MaxInternal \in Nat \ {0} /\ MaxStored \in Nat

(***************************************************************************)
(* A document, and what the code sees of it: "mutation" occurs somewhere;  *)
(* after that there is a brace; behind the brace there are 10 bytes or     *)
(* more, of which the four from the 7th on may be Many; there is a         *)
(* parenthesis; and the trimmed text before it, the name, has 6 bytes or   *)
(* more, of which the first 6 may be one of the verbs.                     *)
(***************************************************************************)
Mention(brace, rest, paren, name) ==
    [word |-> TRUE, brace |-> brace, rest |-> rest, paren |-> paren, name |-> name]
Silent == [Mention(FALSE, "short", FALSE, "short") EXCEPT !.word = FALSE]

Seen == [
    plainQuery    |-> Silent,                                   \* { allUser { results { id } } }
    queryLogs     |-> Mention(TRUE, "short", FALSE, "short"),   \* { mutationLogs { id } }
    queryWideLogs |-> Mention(TRUE, "long", FALSE, "other"),    \* { mutationLogs { id name text } }
    queryHistory  |-> Mention(FALSE, "short", FALSE, "short"),  \* { one(type: mutation) }
    createMany    |-> Mention(TRUE, "many", TRUE, "create"),    \* mutation { createManyUser(...) ... }
    deleteMany    |-> Mention(TRUE, "many", TRUE, "delete"),
    reserve       |-> Mention(TRUE, "long", TRUE, "other"),     \* mutation { reserveRecords(...) ... }
    login         |-> Mention(TRUE, "long", TRUE, "short"),     \* mutation { login(...) ... }
    upsert        |-> Mention(TRUE, "long", TRUE, "other"),     \* mutation { upsertUser(...) ... }
    ping          |-> Mention(TRUE, "short", FALSE, "short"),   \* mutation { ping }
    create        |-> Mention(TRUE, "long", TRUE, "create"),    \* mutation { createUser(...) ... }
    update        |-> Mention(TRUE, "long", TRUE, "update"),
    delete        |-> Mention(TRUE, "long", TRUE, "delete")]

Documents == DOMAIN Seen
Queries == {"plainQuery", "queryLogs", "queryWideLogs", "queryHistory"}

(***************************************************************************)
(* Variables: input.id (id for a delete) is an integer or the text of one, *)
(* absent, or something else; the rest parses or not.  validationSets is   *)
(* "empty", or absent or "default".                                        *)
(***************************************************************************)
AbsentId == [form |-> "absent", n |-> 0]
OtherId == [form |-> "other", n |-> 0]
IdInputs == {AbsentId, OtherId} \union
    [form : {"number", "text"}, n : {-1, 0, 1, MaxInternal, MaxInternal + 1}]
Sets == {"default", "empty"}
Variables == [parses : BOOLEAN, id : IdInputs, sets : Sets]

VARIABLES
    names,      \* model_names_of_local_ids
    counts,     \* reserve_id_count_per_model
    stored,     \* the capture: per operation its entries, a model, id and sets each
    taken,      \* the entries that were applied
    done,       \* of the creates and updates that are applied, how many are merged
    sent,       \* per model the sets of its upsertMany
    last,       \* the document of the request before, or "none"
    outcome     \* "new", how it ended, "passed", "stored", "err" or "trapped",
                \* or "applying" and "applied"

capture == <<names, counts, stored>>
apply == <<taken, done, sent>>
requestVars == <<capture, apply, last, outcome>>

NoCounts == [m \in Models |-> 0]
NoEntries == [op \in {"create", "update", "delete"} |-> <<>>]

RequestInit ==
    /\ names = <<>>
    /\ counts = NoCounts
    /\ stored = NoEntries
    /\ taken = NoEntries
    /\ done = 0
    /\ sent = [m \in Models |-> "default"]
    /\ last = "none"
    /\ outcome = "new"

Ends(how) ==
    /\ outcome' = how
    /\ UNCHANGED capture

\* serde: MutationIdInput is an integer that fits, and 0 where it is absent.
Parses(variables, verb) ==
    /\ variables.parses
    /\ variables.id.form # "other"
    /\ verb = "delete" => variables.id.form # "absent"
    /\ variables.id.n <= MaxInternal

Store(verb, m, id, sets) ==
    /\ stored' = [stored EXCEPT ![verb] = Append(@, [model |-> m, id |-> id, sets |-> sets])]
    /\ outcome' = "stored"

\* A create that has no id yet.
StoreLocal(m, sets) ==
    /\ names' = Append(names, m)
    /\ counts' = [counts EXCEPT ![m] = @ + 1]
    /\ Store("create", m, -Len(names'), sets)

\* Of a delete the sets are not looked at.
StoreAs(verb, m, id, sets) ==
    /\ Store(verb, m, id, IF verb = "delete" THEN "default" ELSE sets)
    /\ UNCHANGED <<names, counts>>

\* Mutant: a create may bring a local id of its own.
MutateAnyId(verb, m, variables) ==
    LET id == variables.id.n
    IN  CASE ~Parses(variables, verb) -> Ends("err")
          [] Parses(variables, verb) /\ verb = "create" /\ id = 0 -> StoreLocal(m, variables.sets)
          [] Parses(variables, verb) /\ verb = "update" /\ id = 0 -> Ends("err")
          [] OTHER -> StoreAs(verb, m, id, variables.sets)

\* The match on the verb.
Mutate(verb, m, variables) ==
    LET id == variables.id.n
    IN  CASE ~Parses(variables, verb) -> Ends("err")
          [] Parses(variables, verb) /\ verb = "create" /\ id = 0 -> StoreLocal(m, variables.sets)
          [] Parses(variables, verb) /\ verb = "create" /\ id < 0 -> Ends("err")
          [] Parses(variables, verb) /\ verb = "update" /\ id = 0 -> Ends("err")
          [] OTHER -> StoreAs(verb, m, id, variables.sets)

\* extract_mutation_data; a slice out of bounds is a panic.
Extract(seen, m, variables) ==
    CASE ~seen.word -> Ends("passed")
      [] seen.word /\ ~seen.brace -> Ends("err")
      [] seen.word /\ seen.brace /\ seen.rest = "short" -> Ends("trapped")
      [] seen.word /\ seen.brace /\ seen.rest = "many" -> Ends("passed")
      [] seen.brace /\ seen.rest = "long" /\ ~seen.paren -> Ends("err")
      [] seen.brace /\ seen.rest = "long" /\ seen.paren /\ seen.name = "short" -> Ends("trapped")
      [] seen.brace /\ seen.rest = "long" /\ seen.paren /\ seen.name = "other" -> Ends("passed")
      [] OTHER -> Mutate(seen.name, m, variables)

Request(document, m, variables) ==
    /\ outcome \notin {"trapped", "applying", "applied"}
    /\ Len(stored["create"]) + Len(stored["update"]) + Len(stored["delete"]) < MaxStored
    /\ last' = document
    /\ Extract(Seen[document], m, variables)
    /\ UNCHANGED apply

\* apply_capture takes the capture, the only one, off the stack; of the rest
\* the validation sets are followed here.  A model is "default" at first.
ApplyStored ==
    /\ outcome \notin {"trapped", "applying", "applied"}
    /\ outcome' = "applying"
    /\ taken' = stored
    /\ done' = 0
    /\ sent' = [m \in Models |-> "default"]
    /\ names' = <<>> /\ counts' = NoCounts /\ stored' = NoEntries
    /\ last' = "none"

Upserts == taken["create"] \o taken["update"]

\* Mutant: the last entry of a model tells its sets.
MergedLast(sets, asked) == asked

\* One entry that asks for no validation asks for its whole request.
Merged(sets, asked) == IF sets = "default" /\ asked = "empty" THEN "empty" ELSE sets

\* As many ids are reserved as there are creates without one; a local id beyond
\* them is out of bounds.
Reserved == Cardinality({i \in DOMAIN taken["create"] : taken["create"][i].id < 0})
Refers(entry) == entry.id >= -Reserved

\* generate_upsert_many_inputs: an entry joins the request of its model.
MergeEntry ==
    /\ outcome = "applying"
    /\ done < Len(Upserts)
    /\ LET entry == Upserts[done + 1] IN
        \/ /\ Refers(entry)
           /\ done' = done + 1
           /\ sent' = [sent EXCEPT ![entry.model] = Merged(@, entry.sets)]
           /\ UNCHANGED outcome
        \/ /\ ~Refers(entry)
           /\ outcome' = "trapped"
           /\ UNCHANGED <<done, sent>>
    /\ UNCHANGED <<capture, taken, last>>

\* send_upsert_many_mutations
SendUpserts ==
    /\ outcome = "applying"
    /\ done = Len(Upserts)
    /\ outcome' = "applied"
    /\ UNCHANGED <<capture, apply, last>>

RequestNext ==
    \/ \E document \in Documents, m \in Models, variables \in Variables :
        Request(document, m, variables)
    \/ ApplyStored \/ MergeEntry \/ SendUpserts

RequestSpec == RequestInit /\ [][RequestNext]_requestVars

-----------------------------------------------------------------------------
\* Whatever is refused, traps or is passed on in between, the books tell the
\* creates that are stored: the one known as -k is the k-th that brought no id,
\* of the model that is k-th among the names, and the counts are those of the
\* names (extract_mutation_data).  Capture takes this for granted.
BooksTellCreates ==
    LET creates == stored["create"]
        locals == {i \in DOMAIN creates : creates[i].id < 0}
    IN  /\ \A k \in DOMAIN names : \E i \in locals : creates[i].id = -k
        /\ \A i \in locals : -creates[i].id \in DOMAIN names /\ creates[i].model = names[-creates[i].id]
        /\ \A i, j \in locals : i < j => creates[i].id > creates[j].id
        /\ \A m \in Models : counts[m] = Cardinality({k \in DOMAIN names : names[k] = m})

\* Records go unvalidated only when one of their model asked for that, and
\* always then: no request of an apply validates what was captured to be
\* written without (generate_upsert_many_inputs).
UnvalidatedOnRequest ==
    outcome = "applied" => \A m \in Models :
        sent[m] = "empty" <=>
            \E op \in {"create", "update"} : \E i \in DOMAIN taken[op] :
                taken[op][i].model = m /\ taken[op][i].sets = "empty"

\* "the query and many mutations will just pass through it" (data-api.wit:17).
QueriesPassThrough == last \in Queries => outcome = "passed"
=============================================================================
