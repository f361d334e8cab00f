-------------------------------- MODULE Crud --------------------------------
(***************************************************************************)
(* The calls of components/utilities/crud.  A create, update or upsert is  *)
(* two requests to the data-api, the mutation and then a query for the     *)
(* record it changed; a delete is one.  Calls of different clients run in  *)
(* instances of their own and interleave between the two requests.  The    *)
(* requests are built by CrudMapping.                                      *)
(***************************************************************************)
EXTENDS Integers, FiniteSets, SequencesExt

CONSTANTS
    Clients,    \* callers, each with one call at a time
    Records,    \* ids the database gives to records
    MaxCalls,   \* bound of the model: calls ever made
    Faults      \* what the data-api and the way to it may do wrong

(***************************************************************************)
(*  "refuse"    the request is answered with an error and not executed     *)
(*  "errors"    nor is it, but the answer is Ok: its body has errors, and  *)
(*              null in place of the record                                *)
(*  "lost"      the request was executed, the caller gets an error         *)
(*  "garbled"   the answer is not the JSON that crud expects               *)
(***************************************************************************)
ASSUME CrudAssumption ==
    /\ MaxCalls \in Nat
    /\ Faults \subseteq {"refuse", "errors", "lost", "garbled"}

VARIABLES
    database,   \* external: per record the call that wrote it last, or Absent
    executed,   \* external: the mutations that were executed, in order
    step,       \* per client "idle", "mutate" or "fetch"
    call,       \* per client the call it makes
    answer,     \* per client how its last call ended
    begun       \* calls made so far, which numbers them

crudVars == <<database, executed, step, call, answer, begun>>
store == <<database, executed>>

Operations == {"create", "update", "upsert", "delete"}
Absent == 0
Before == -1    \* written before the first call
NoCall == [number |-> 0, op |-> "delete", target |-> CHOOSE r \in Records : TRUE]
Answers == {"ok", "err", "trap", "assert"}
NoAnswer == [how |-> "err", call |-> NoCall, record |-> Absent]

CrudInit ==
    /\ database \in [Records -> {Absent, Before}]
    /\ executed = <<>>
    /\ step = [c \in Clients |-> "idle"]
    /\ call = [c \in Clients |-> NoCall]
    /\ answer = [c \in Clients |-> NoAnswer]
    /\ begun = 0

Returns(c, how, record) ==
    /\ step' = [step EXCEPT ![c] = "idle"]
    /\ answer' = [answer EXCEPT ![c] = [how |-> how, call |-> call[c], record |-> record]]

-----------------------------------------------------------------------------
(***************************************************************************)
(* The data-api: an upsert writes the record its uniqueBy property finds,  *)
(* here the target, or creates it.                                         *)
(***************************************************************************)
MayExecute(k) ==
    \/ k.op = "create" /\ database[k.target] = Absent
    \/ k.op \in {"update", "delete"} /\ database[k.target] # Absent
    \/ k.op = "upsert"

Execute(k) ==
    /\ MayExecute(k)
    /\ database' = [database EXCEPT ![k.target] = IF k.op = "delete" THEN Absent ELSE k.number]
    /\ executed' = Append(executed, k)

-----------------------------------------------------------------------------
\* A call starts; the id of a created record is the database's choice.
Begin(c, op, target) ==
    /\ step[c] = "idle"
    /\ begun < MaxCalls
    /\ begun' = begun + 1
    /\ call' = [call EXCEPT ![c] = [number |-> begun', op |-> op, target |-> target]]
    /\ step' = [step EXCEPT ![c] = "mutate"]
    /\ UNCHANGED <<store, answer>>

\* A property path with more than one key: the assert fires before anything
\* is sent.  A delete has no mapping.
BeginNested(c, op, target) ==
    /\ step[c] = "idle"
    /\ begun < MaxCalls
    /\ op # "delete"
    /\ begun' = begun + 1
    /\ call' = [call EXCEPT ![c] = [number |-> begun', op |-> op, target |-> target]]
    /\ answer' = [answer EXCEPT ![c] = [how |-> "assert", call |-> call'[c], record |-> Absent]]
    /\ UNCHANGED <<store, step>>

\* Mutant: a delete, too, asks for the record it changed.
MutateFetches(c) ==
    /\ step[c] = "mutate"
    /\ Execute(call[c])
    /\ step' = [step EXCEPT ![c] = "fetch"]
    /\ UNCHANGED <<call, answer, begun>>

\* The mutation is executed and its answer, the id of the record, is read.
Mutate(c) ==
    /\ step[c] = "mutate"
    /\ Execute(call[c])
    /\ IF call[c].op = "delete"
       THEN Returns(c, "ok", Absent)
       ELSE step' = [step EXCEPT ![c] = "fetch"] /\ UNCHANGED answer
    /\ UNCHANGED <<call, begun>>

\* The data-api refuses the mutation: for want of the record, or any reason.
MutateRefused(c) ==
    /\ step[c] = "mutate"
    /\ "refuse" \in Faults \/ ~MayExecute(call[c])
    /\ Returns(c, "err", Absent)
    /\ UNCHANGED <<store, call, begun>>

\* It is not executed, but the answer is Ok.  Who looks for the id of the record
\* finds none; a delete does not look.
MutateErrors(c) ==
    /\ step[c] = "mutate"
    /\ "errors" \in Faults
    /\ Returns(c, IF call[c].op = "delete" THEN "ok" ELSE "err", Absent)
    /\ UNCHANGED <<store, call, begun>>

\* Mutant: a mutation that failed is sent again.
MutateRetried(c) ==
    /\ step[c] = "mutate"
    /\ "lost" \in Faults
    /\ Execute(call[c])
    /\ UNCHANGED <<step, answer, call, begun>>

\* It is executed but the caller sees an error, or an answer without an id.
MutateLost(c) ==
    /\ step[c] = "mutate"
    /\ \/ "lost" \in Faults
       \/ "garbled" \in Faults /\ call[c].op # "delete"
    /\ Execute(call[c])
    /\ Returns(c, "err", Absent)
    /\ UNCHANGED <<call, begun>>

\* Mutant: the answer is what the call assigned.
FetchAssigned(c) ==
    /\ step[c] = "fetch"
    /\ Returns(c, "ok", call[c].number)
    /\ UNCHANGED <<store, call, begun>>

\* fetch_record: the record as it is now, null if it is gone.
Fetch(c) ==
    /\ step[c] = "fetch"
    /\ Returns(c, "ok", database[call[c].target])
    /\ UNCHANGED <<store, call, begun>>

\* The answer to the query has errors, and null for the record or for all data.
FetchErrors(c) ==
    /\ step[c] = "fetch"
    /\ "errors" \in Faults
    /\ \E how \in {"ok", "err"} : Returns(c, how, Absent)
    /\ UNCHANGED <<store, call, begun>>

\* The query fails, or its answer is not JSON and the unwrap panics.
FetchFails(c) ==
    /\ step[c] = "fetch"
    /\ \/ Faults \intersect {"refuse", "lost"} # {} /\ Returns(c, "err", Absent)
       \/ "garbled" \in Faults /\ \E how \in {"err", "trap"} : Returns(c, how, Absent)
    /\ UNCHANGED <<store, call, begun>>

\* Mutant: who mutates waits for the record, and none comes if nothing was executed.
WorkAwaitsRecord(c) == Mutate(c) \/ MutateLost(c) \/ Fetch(c) \/ FetchErrors(c) \/ FetchFails(c)

Work(c) ==
    \/ Mutate(c) \/ MutateRefused(c) \/ MutateErrors(c) \/ MutateLost(c)
    \/ Fetch(c) \/ FetchErrors(c) \/ FetchFails(c)

CrudNext ==
    \E c \in Clients :
        \/ \E op \in Operations, target \in Records : Begin(c, op, target) \/ BeginNested(c, op, target)
        \/ Work(c)

-----------------------------------------------------------------------------
\* The type invariant; of the operations, a delete never asks for the record.
TypeOK ==
    /\ database \in [Records -> {Absent, Before} \union 1..MaxCalls]
    /\ step \in [Clients -> {"idle", "mutate", "fetch"}]
    /\ \A c \in Clients : step[c] = "fetch" => call[c].op # "delete"
    /\ \A c \in Clients : answer[c].how \in Answers
    /\ begun \in 0..MaxCalls

Executions(n) == {i \in DOMAIN executed : executed[i].number = n}

\* No call is executed twice.  A create, update or upsert that returns Ok was
\* executed, and one that the assert on its mapping stopped was not, whatever
\* the data-api does and others do meanwhile.  That a delete returned "Record
\* deleted" says nothing: any answer of the data-api that is no error makes it
\* (create, update, upsert, delete).
ExecutedOnce ==
    /\ \A n \in 1..begun : Cardinality(Executions(n)) <= 1
    /\ \A c \in Clients : LET times == Cardinality(Executions(answer[c].call.number)) IN
        /\ answer[c].how = "ok" /\ answer[c].call.op # "delete" => times = 1
        /\ answer[c].how = "assert" => times = 0

\* A call that returns the record reads it after every write that was executed
\* before it asked: no write is missed.  It may return null for a record that is
\* there (the answer had errors), and returns null for one that is not.
FetchSeesLastWrite ==
    [][\A c \in Clients : step[c] = "fetch" /\ answer'[c] # answer[c] /\ answer'[c].how = "ok" =>
        LET writes == {i \in DOMAIN executed : executed[i].target = call[c].target}
            last == executed[CHOOSE i \in writes : \A j \in writes : j <= i]
        IN  answer'[c].record # Absent => last.op # "delete" /\ answer'[c].record = last.number]_crudVars

\* Every call ends, whatever fails.
CallEnds == \A c \in Clients : step[c] # "idle" ~> step[c] = "idle"
=============================================================================
