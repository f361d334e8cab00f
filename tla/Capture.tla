------------------------------ MODULE Capture ------------------------------
(***************************************************************************)
(* The capture api of the data-api resource (components/utilities/data-api *)
(* context.rs, context/process_request.rs, context/format_mutation.rs and  *)
(* context/replace_ids.rs).                                                *)
(*                                                                         *)
(* One caller uses one resource.  Between start_capture and apply_capture  *)
(* its single mutations are kept on a stack of captures; a create without  *)
(* an id is answered with a negative local id that later mutations may     *)
(* name.  apply_capture pops the top capture, reserves a real id for every *)
(* local id, replaces the local ids and sends the mutations per model, in  *)
(* chunks.  Each request to the service is a step, so that the service may *)
(* fail at every one of them.  The mutex is held from the first to the     *)
(* last step of an apply, so that no other call interleaves with it.       *)
(***************************************************************************)
EXTENDS DataApiService, FiniteSets, SequencesExt

CONSTANTS
    ChunkSize,      \* CHUNK_SIZE, the records one upsertMany or deleteMany takes
    Relations,      \* bound of the model: may inputs name a related record?
    MaxDepth,       \* bound of the model: captures inside one another
    MaxMutations    \* bound of the model: mutations the caller ever requests

ASSUME CaptureAssumption ==
    /\ ChunkSize \in Nat \ {0}
    /\ Relations \in BOOLEAN
    /\ MaxDepth \in Nat
    /\ MaxMutations \in Nat

VARIABLES
    stack,      \* capture_stack
    names,      \* model_names_of_local_ids
    counts,     \* reserve_id_count_per_model; 0 where the map has no key
    reserved,   \* reserved_ids
    phase,      \* how far apply_capture is
    taken,      \* the entries apply_capture popped
    due,        \* the drained counts: reservations still to be requested
    got,        \* reserved_id_map, the ids answered per model
    ids,        \* what reserve_ids returned
    todo,       \* positions of Batch that are still to be sent
    result,     \* what the last call returned
    \* Observation only: no action's guard on the code's side reads them.
    issued,     \* mutations the caller requested, which also numbers them
    held,       \* local ids the caller got since local ids last restarted
    dropped,    \* mutations the caller dropped or was refused
    failed      \* mutations that a failed apply, or a trap, left unsent

captureData == <<stack, names, counts, reserved>>
applyVars == <<taken, due, got, ids, todo>>
callerVars == <<issued, held, dropped, failed>>
vars == <<captureData, phase, applyVars, result, callerVars, serviceVars>>

-----------------------------------------------------------------------------
(***************************************************************************)
(* Data.  A name is an id in a mutation: num is the number the code sees   *)
(* and of tells, for the properties, which create the caller means by it.  *)
(* Of a relation given as a text, or in a list, it sees no number: num is  *)
(* 0, and what reaches the service is the local id (replace_ids.rs).       *)
(***************************************************************************)
Phases == {"idle", "reserve", "upsert", "delete", "trapped"}
Operations == {"create", "update", "delete"}
Mutations == 1..MaxMutations

NoName == [num |-> 0, of |-> 0]
RealName(id) == [num |-> id, of |-> 0]
RealNames == {RealName(id) : id \in 1..Existing}
Unseen(local) == [local EXCEPT !.num = 0]
Names == [num: Int, of: 0..MaxMutations]

Entries == [tok: Mutations, model: Models, id: Names, ref: Names]
NoEntries == [op \in Operations |-> <<>>]
Captures == [Operations -> Seq(Entries)]

Requests == [op: {"raw", "upsert", "delete"}, model: Models, inputs: SUBSET Entries]

NoCounts == [m \in Models |-> 0]
NoIds == [m \in Models |-> <<>>]

EntriesOf(c) == UNION {ToSet(c[op]) : op \in Operations}
Tokens(c) == {e.tok : e \in EntriesOf(c)}

\* What was sent, and the mutations that wait in a capture.
Sent == UNION {request.inputs : request \in ToSet(wire)}
SentTokens == {e.tok : e \in Sent}

\* The names of records that were sent; a local id that was not replaced is none.
SentNames == {n \in UNION {{e.id, e.ref} : e \in Sent} : n.num > 0}
WaitingTokens == UNION {Tokens(c) : c \in ToSet(stack)}

\* The mutations that nothing is done for any more.
Gone == dropped \union failed

\* The places of model m in a sequence of model names.
Places(s, m) == {i \in 1..Len(s) : s[i] = m}

Init ==
    /\ ServiceInit
    /\ stack = <<>>
    /\ names = <<>>
    /\ counts = NoCounts
    /\ reserved = <<>>
    /\ phase = "idle"
    /\ taken = NoEntries
    /\ due = NoCounts
    /\ got = NoIds
    /\ ids = <<>>
    /\ todo = {}
    /\ result = "ok"
    /\ issued = 0
    /\ held = {}
    /\ dropped = {}
    /\ failed = {}

-----------------------------------------------------------------------------
(***************************************************************************)
(* start_capture, discard_capture and the captured mutations.  A request   *)
(* that is refused before anything is stored (a create with a negative id, *)
(* an update without one, variables that do not parse), discard_capture on *)
(* an empty stack and pending_capture change nothing: they are stuttering  *)
(* steps.                                                                  *)
(***************************************************************************)
StartCapture ==
    /\ phase = "idle"
    /\ Len(stack) < MaxDepth
    /\ stack' = Append(stack, NoEntries)
    /\ result' = "ok"
    /\ UNCHANGED <<names, counts, reserved, phase, applyVars, callerVars, serviceVars>>

\* Mutant: discarding takes the reservations of all its creates back, those of
\* the creates that have an id included.
DiscardUncounts ==
    /\ phase = "idle"
    /\ stack # <<>>
    /\ stack' = Front(stack)
    /\ counts' = [m \in Models |->
        counts[m] - Len(SelectSeq(Last(stack)["create"], LAMBDA e : e.model = m))]
    /\ dropped' = dropped \union Tokens(Last(stack))
    /\ result' = "ok"
    /\ UNCHANGED <<names, reserved, phase, applyVars, issued, held, failed, serviceVars>>

\* Only the stack is popped: the local ids of the discarded creates stay.
DiscardCapture ==
    /\ phase = "idle"
    /\ stack # <<>>
    /\ stack' = Front(stack)
    /\ dropped' = dropped \union Tokens(Last(stack))
    /\ result' = "ok"
    /\ UNCHANGED <<names, counts, reserved, phase, applyVars, issued, held, failed, serviceVars>>

\* A single mutation is stored in the top capture and counted.
Capture(op, entry) ==
    /\ stack' = [stack EXCEPT ![Len(stack)][op] = Append(@, entry)]
    /\ issued' = entry.tok
    /\ result' = "ok"
    /\ UNCHANGED <<reserved, phase, applyVars, dropped, failed, serviceVars>>

MayRequest ==
    /\ phase = "idle"
    /\ issued < MaxMutations

MayCapture ==
    /\ MayRequest
    /\ stack # <<>>

\* Mutant: local ids are numbered without the ones that have a real id.
NextFromNames == -(Len(names) + 1)

\* One below the last local id.
NextLocal == -(Len(names) + 1 + Len(reserved))

\* A create without an id gets the next local id.
CreateLocal(m, ref) ==
    LET local == [num |-> NextLocal, of |-> issued + 1]
    IN  /\ MayCapture
        /\ names' = Append(names, m)
        /\ counts' = [counts EXCEPT ![m] = @ + 1]
        /\ held' = held \union {local}
        /\ Capture("create", [tok |-> issued + 1, model |-> m, id |-> local, ref |-> ref])

\* A create, update or delete of a record the caller names.
Change(op, m, id, ref) ==
    /\ MayCapture
    /\ Capture(op, [tok |-> issued + 1, model |-> m, id |-> id, ref |-> ref])
    /\ UNCHANGED <<names, counts, held>>

\* A mutation that goes straight to the service: no capture is active, or it
\* is one of the "Many" mutations, an upsert or another document.  A local id in
\* it goes as it is.
RawRequest(m, id) ==
    [op |-> "raw", model |-> m,
     inputs |-> {[tok |-> issued + 1, model |-> m, id |-> id, ref |-> NoName]}]

PassedOn(m, id) == Execute(RawRequest(m, id)) /\ UNCHANGED dropped
NotExecuted == UNCHANGED serviceVars /\ dropped' = dropped \union {issued + 1}

PassThrough(m, id) ==
    /\ MayRequest
    /\ issued' = issued + 1
    /\ \/ result' = "ok" /\ PassedOn(m, id)
       \/ "lost" \in MutationFaults /\ result' = "err" /\ PassedOn(m, id)
       \/ "refuse" \in MutationFaults /\ result' = "err" /\ NotExecuted
    /\ UNCHANGED <<captureData, phase, applyVars, held, failed>>

\* The answer to such a request has a status that inner_request calls unreachable.
PassThroughTraps(m, id) ==
    /\ "status" \in MutationFaults
    /\ MayRequest
    /\ issued' = issued + 1
    /\ PassedOn(m, id) \/ NotExecuted
    /\ phase' = "trapped"
    /\ UNCHANGED <<captureData, applyVars, result, held, failed>>

-----------------------------------------------------------------------------
(***************************************************************************)
(* apply_capture.                                                          *)
(***************************************************************************)
ApplyNothing ==
    /\ phase = "idle"
    /\ stack = <<>>
    /\ result' = "ok"
    /\ UNCHANGED <<captureData, phase, applyVars, callerVars, serviceVars>>

ApplyCapture ==
    /\ phase = "idle"
    /\ stack # <<>>
    /\ taken' = Last(stack)
    /\ stack' = Front(stack)
    /\ due' = counts
    /\ counts' = NoCounts
    /\ phase' = "reserve"
    /\ UNCHANGED <<names, reserved, got, ids, todo, result, callerVars, serviceVars>>

\* apply_capture is over with r; its locals go out of scope.  When no capture is
\* open and the next local id is -1 again, the caller's local ids are void.
ApplyOver(r) ==
    /\ phase' = "idle"
    /\ result' = r
    /\ taken' = NoEntries
    /\ due' = NoCounts
    /\ got' = NoIds
    /\ ids' = <<>>
    /\ todo' = {}
    /\ held' = IF stack' = <<>> /\ names' = <<>> /\ reserved' = <<>> THEN {} ELSE held
    /\ UNCHANGED <<issued, dropped>>

\* It returns r: with an error, what it did not send will not be sent.
ApplyReturns(r) ==
    /\ ApplyOver(r)
    /\ failed' = IF r = "ok" THEN failed ELSE failed \union (Tokens(taken) \ SentTokens')

\* A panic: the instance is lost with everything in it.
Traps ==
    /\ phase' = "trapped"
    /\ UNCHANGED <<captureData, applyVars, result, callerVars>>

\* One reserveRecords request per model, in no particular order.
ReserveIds(m) ==
    /\ phase = "reserve"
    /\ due[m] > 0
    /\ Reserve(m, due[m])
    /\ got' = [got EXCEPT ![m] = FreshIds(due[m])]
    /\ due' = [due EXCEPT ![m] = 0]
    /\ UNCHANGED <<captureData, phase, taken, ids, todo, result, callerVars>>

\* The service answers with one id too few or too many.
ReserveMiscounts(m) ==
    /\ "miscount" \in ReserveFaults
    /\ phase = "reserve"
    /\ due[m] > 0
    /\ \E n \in {due[m] - 1, due[m] + 1} :
        /\ Reserve(m, n)
        /\ got' = [got EXCEPT ![m] = FreshIds(n)]
    /\ due' = [due EXCEPT ![m] = 0]
    /\ UNCHANGED <<captureData, phase, taken, ids, todo, result, callerVars>>

\* The first request that fails ends the apply.  The counts are gone, the
\* names stay.
ReserveFails(m) ==
    /\ phase = "reserve"
    /\ due[m] > 0
    /\ \/ "refuse" \in ReserveFaults /\ UNCHANGED serviceVars
       \/ "lost" \in ReserveFaults /\ Reserve(m, due[m])
    /\ UNCHANGED captureData
    /\ ApplyReturns("err")

ReserveTraps(m) ==
    /\ "status" \in ReserveFaults
    /\ phase = "reserve"
    /\ due[m] > 0
    /\ UNCHANGED serviceVars \/ Reserve(m, due[m])
    /\ Traps

\* The id that the i-th local id gets: ids of a model are given out in the
\* order in which its names were recorded.
Rank(i) == Cardinality({j \in Places(names, names[i]) : j <= i})
Served(i) == Rank(i) <= Len(got[names[i]])
IdOf(i) == got[names[i]][Rank(i)]

\* Mutant: one queue of ids for all models.
GivenFromOneQueue(n) ==
    LET queue == SetToSortSeq(UNION {ToSet(got[m]) : m \in Models}, <)
    IN  [i \in 1..n |-> queue[i]]

Given(n) == [i \in 1..n |-> IdOf(i)]

AllServed == \A i \in 1..Len(names) : Served(i)

\* replace_id indexes the slice with -1 - id.
InRange(name, s) == name.num < 0 => -name.num <= Len(s)
AllInRange(entries, s) ==
    \A i \in DOMAIN entries : InRange(entries[i].id, s) /\ InRange(entries[i].ref, s)
Resolve(name, s) == IF name.num < 0 THEN [name EXCEPT !.num = s[-name.num]] ELSE name

\* Mutant: updates are chained before creates.
UpdatesFirst == taken["update"] \o taken["create"]

Upserts == taken["create"] \o taken["update"]
Batch == IF phase = "delete" THEN taken["delete"] ELSE Upserts

AllAnswered == phase = "reserve" /\ due = NoCounts

\* Mutant: the new ids are put before the earlier ones.
IdsPrepended == Given(Len(names)) \o reserved

\* reserve_ids returns the earlier ids and the new ones ...
AllIds == reserved \o Given(Len(names))

\* Mutant: the reserved ids are taken out while captures are still open.
KeepNone(s) == <<>>

\* ... and takes them out of reserved_ids once the stack is empty.
Keep(s) == IF stack = <<>> THEN <<>> ELSE s

\* generate_upsert_many_inputs replaces the local ids of the creates and updates.
AssignIds ==
    /\ AllAnswered
    /\ AllServed
    /\ ids' = AllIds
    /\ reserved' = Keep(ids')
    /\ names' = <<>>
    /\ got' = NoIds
    /\ IF AllInRange(Upserts, ids')
       THEN phase' = "upsert" /\ todo' = DOMAIN Upserts
       ELSE phase' = "trapped" /\ UNCHANGED todo
    /\ UNCHANGED <<stack, counts, taken, due, result, callerVars, serviceVars>>

\* A name without an id: the ids given out so far are kept and all names go.
AssignFails ==
    /\ AllAnswered
    /\ \E i \in 1..Len(names) :
        /\ ~Served(i)
        /\ \A j \in 1..(i - 1) : Served(j)
        /\ reserved' = reserved \o Given(i - 1)
    /\ names' = <<>>
    /\ UNCHANGED <<stack, counts, serviceVars>>
    /\ ApplyReturns("err")

\* The positions of model m, and of those left the chunk that is sent next.
OfModel(m) == {i \in DOMAIN Batch : Batch[i].model = m}

Chunk(m) == {i \in todo \intersect OfModel(m) :
                Cardinality({j \in todo \intersect OfModel(m) : j < i}) < ChunkSize}

\* The chunks of a model follow one another, the models come in no particular order.
Turn(m) ==
    /\ phase \in {"upsert", "delete"}
    /\ todo \intersect OfModel(m) # {}
    /\ \A k \in Models \ {m} : OfModel(k) \subseteq todo \/ OfModel(k) \intersect todo = {}

Resolved(e) == [e EXCEPT !.id = Resolve(e.id, ids), !.ref = Resolve(e.ref, ids)]

Request(m) ==
    [op |-> phase, model |-> m, inputs |-> {Resolved(Batch[i]) : i \in Chunk(m)}]

\* Mutant: only the first chunk of a model is sent.
SendFirstChunk(m) ==
    /\ Turn(m)
    /\ Execute(Request(m))
    /\ todo' = todo \ OfModel(m)
    /\ UNCHANGED <<captureData, phase, taken, due, got, ids, result, callerVars>>

\* upsertMany or deleteMany of one chunk of model m.
Send(m) ==
    /\ Turn(m)
    /\ Execute(Request(m))
    /\ todo' = todo \ Chunk(m)
    /\ UNCHANGED <<captureData, phase, taken, due, got, ids, result, callerVars>>

\* Mutant: a failed apply puts its capture back for another attempt.
SendRestores(m) ==
    /\ Turn(m)
    /\ \/ "refuse" \in MutationFaults /\ UNCHANGED serviceVars
       \/ "lost" \in MutationFaults /\ Execute(Request(m))
    /\ stack' = Append(stack, taken)
    /\ UNCHANGED <<names, counts, reserved>>
    /\ ApplyReturns("err")

\* Mutant: the error of a request is not passed on.
SendIgnoresError(m) ==
    /\ Turn(m)
    /\ \/ "refuse" \in MutationFaults /\ UNCHANGED serviceVars
       \/ "lost" \in MutationFaults /\ Execute(Request(m))
    /\ UNCHANGED captureData
    /\ ApplyReturns("ok")

SendFails(m) ==
    /\ Turn(m)
    /\ \/ "refuse" \in MutationFaults /\ UNCHANGED serviceVars
       \/ "lost" \in MutationFaults /\ Execute(Request(m))
    /\ UNCHANGED captureData
    /\ ApplyReturns("err")

SendTraps(m) ==
    /\ "status" \in MutationFaults
    /\ Turn(m)
    /\ UNCHANGED serviceVars \/ Execute(Request(m))
    /\ Traps

\* generate_delete_many_inputs runs after the upserts were sent.
PrepareDeletes ==
    /\ phase = "upsert"
    /\ todo = {}
    /\ IF AllInRange(taken["delete"], ids)
       THEN phase' = "delete" /\ todo' = DOMAIN taken["delete"]
       ELSE phase' = "trapped" /\ UNCHANGED todo
    /\ UNCHANGED <<captureData, taken, due, got, ids, result, callerVars, serviceVars>>

\* Mutant: an apply without deletes starts over.
ApplyStartsOver ==
    /\ phase = "delete"
    /\ todo = {}
    /\ UNCHANGED <<captureData, serviceVars>>
    /\ IF taken["delete"] = <<>>
       THEN phase' = "upsert" /\ UNCHANGED <<applyVars, result, callerVars>>
       ELSE ApplyReturns("ok")

ApplyDone ==
    /\ phase = "delete"
    /\ todo = {}
    /\ UNCHANGED <<captureData, serviceVars>>
    /\ ApplyReturns("ok")

\* The host answers the next call with a new instance; the captures are gone.
Reinstantiate ==
    /\ phase = "trapped"
    /\ stack' = <<>>
    /\ names' = <<>>
    /\ counts' = NoCounts
    /\ reserved' = <<>>
    /\ ApplyOver("err")
    /\ failed' = failed \union WaitingTokens \union (Tokens(taken) \ SentTokens)
    /\ UNCHANGED serviceVars

-----------------------------------------------------------------------------
\* The caller names existing records and local ids it still holds.
MayRefer == {NoName} \union (IF Relations THEN held \union {Unseen(local) : local \in held} ELSE {})
MayName == RealNames \union held

CallCapture ==
    \/ StartCapture
    \/ DiscardCapture
    \/ \E m \in Models :
        \/ \E ref \in MayRefer :
            \/ CreateLocal(m, ref)
            \/ \E id \in RealNames : Change("create", m, id, ref)
            \/ \E id \in MayName : Change("update", m, id, ref)
        \/ \E id \in MayName : Change("delete", m, id, NoName) \/ PassThrough(m, id) \/ PassThroughTraps(m, id)
    \/ ApplyNothing
    \/ ApplyCapture

RunApply ==
    \/ \E m \in Models :
        \/ ReserveIds(m)
        \/ ReserveMiscounts(m)
        \/ ReserveFails(m)
        \/ ReserveTraps(m)
        \/ Send(m)
        \/ SendFails(m)
        \/ SendTraps(m)
    \/ AssignIds
    \/ AssignFails
    \/ PrepareDeletes
    \/ ApplyDone

Next == CallCapture \/ RunApply \/ Reinstantiate

Spec == Init /\ [][Next]_vars

\* An apply that runs goes on until it returns: block_on waits for each answer
\* and the transport ends every call with an answer or an error.
FairSpec == Spec /\ WF_vars(RunApply)

-----------------------------------------------------------------------------
(***************************************************************************)
(* Properties.                                                             *)
(***************************************************************************)
\* The state of a resource and of the service has the shape of the Rust types.
TypeOK ==
    /\ stack \in Seq(Captures)
    /\ names \in Seq(Models)
    /\ counts \in [Models -> Nat]
    /\ reserved \in Seq(Int)
    /\ phase \in Phases
    /\ taken \in Captures
    /\ due \in [Models -> Nat]
    /\ got \in [Models -> Seq(Int)]
    /\ ids \in Seq(Int)
    /\ todo \subseteq Nat
    /\ result \in {"ok", "err"}
    /\ issued \in 0..MaxMutations
    /\ held \subseteq Names
    /\ dropped \subseteq Mutations
    /\ failed \subseteq Mutations
    /\ granted \in Seq(Models)
    /\ wire \in Seq(Requests)

\* Whatever captures a create, an update, a relation or a delete was stored in,
\* what the caller named by one create reaches the service as one record, and
\* what it named by two creates as two, wherever a record is what reaches it
\* (replace_ids.rs, reserve_ids).
OneRecordPerName ==
    \A a, b \in SentNames :
        a.of # 0 /\ b.of # 0 => (a.of = b.of <=> a.num = b.num)

\* A record created under a local id gets an id that the service reserved for
\* its own model (the queues per model of reserve_ids).
RecordOfItsModel ==
    \A e \in Sent : e.id.of = e.tok => e.id.num \in ReservedFor(e.model)

\* No mutation reaches the service twice, nor after its caller discarded it or
\* was told that its apply failed, whichever requests fail and however the
\* caller goes on after that.
SentAtMostOnce ==
    /\ \A i, j \in DOMAIN wire :
        \A a \in wire[i].inputs, b \in wire[j].inputs : a.tok = b.tok => i = j /\ a = b
    /\ SentTokens \intersect Gone = {}
    /\ SentTokens \intersect WaitingTokens = {}

\* Every mutation the component answered with an id is waiting in a capture, is
\* being applied, was executed or was discarded, or its caller was told of a
\* failure: whichever requests fail, none disappears behind an Ok.
AccountedFor ==
    1..issued = WaitingTokens \union Tokens(taken) \union SentTokens \union Gone

\* In one capture the create of a record is sent before what changes or deletes
\* that record (creates are chained before updates, upserts before deletes).
CreateSentFirst ==
    \A c \in ToSet(taken["create"]), e \in ToSet(taken["update"]) \union ToSet(taken["delete"]) :
        c.model = e.model /\ c.id = e.id /\ e.tok \in SentTokens => c.tok \in SentTokens

\* The component does not index outside the reserved ids (replace_id), whichever
\* mutations failed before and however the captures are nested.
NoTrap == [][AssignIds \/ PrepareDeletes => phase' # "trapped"]_vars

\* An apply that returns Ok has sent all it popped (the ? after each request).
OkMeansSent ==
    [][phase # "idle" /\ phase' = "idle" /\ result' = "ok"
        => Tokens(taken) \subseteq SentTokens]_vars

\* Every apply returns or traps, however many chunks and reservations it needs.
ApplyEnds == phase # "idle" ~> phase \in {"idle", "trapped"}

\* "apply all the captured mutations" (data-api.wit:23): when apply_capture has
\* returned Ok and no capture is left, every mutation the caller did not
\* discard has been sent.
OkMeansAllApplied ==
    [][stack = <<>> /\ stack' = <<>> /\ issued' = issued /\ phase' = "idle" /\ result' = "ok"
        => 1..issued \subseteq SentTokens' \union dropped']_vars
=============================================================================
