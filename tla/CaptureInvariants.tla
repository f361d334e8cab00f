------------------------- MODULE CaptureInvariants -------------------------
(***************************************************************************)
(* The inductive invariants behind the theorems about captures.            *)
(***************************************************************************)
EXTENDS Capture

\* The local ids of what is still to be sent can be looked up in ids.
SendInRange ==
    /\ phase = "upsert" => AllInRange(Upserts, ids)
    /\ phase = "delete" => AllInRange(taken["delete"], ids)

TypeInv == TypeOK /\ SendInRange

-----------------------------------------------------------------------------
\* Where an apply is on its way to its end.
Stage(p) ==
    CASE p = "reserve" -> 1
      [] p = "upsert" -> 2
      [] p = "delete" -> 3
      [] OTHER -> 4

Due == {m \in Models : due[m] > 0}

\* An apply never goes back: every step of it enters a later stage or leaves it
\* less to do in this one, a model not yet asked for ids or entries not yet
\* sent, whatever the requests answer and however much there is of each model
\* (inner_apply_capture; the chunks of execute_mutations).
ApplyAdvances ==
    [][Stage(phase) < 4 =>
        \/ Stage(phase') > Stage(phase)
        \/ /\ phase' = phase
           /\ \/ phase = "reserve" /\ Due' \subseteq Due /\ Due' # Due
              \/ phase # "reserve" /\ todo' \subseteq todo /\ todo' # todo]_vars

-----------------------------------------------------------------------------
\* Every mutation is stored once.
Distinct(c) ==
    \A op, q \in Operations : \A i \in DOMAIN c[op], j \in DOMAIN c[q] :
        c[op][i].tok = c[q][j].tok => op = q /\ i = j

Apart(captures) ==
    /\ \A i \in DOMAIN captures : Distinct(captures[i])
    /\ \A i, j \in DOMAIN captures : i # j => Tokens(captures[i]) \intersect Tokens(captures[j]) = {}

\* The mutations that the apply has still to send.
TokensAt(entries, places) == {entries[i].tok : i \in places}

Unsent ==
    CASE phase = "reserve" -> Tokens(taken)
      [] phase = "upsert" -> TokensAt(Upserts, todo)
                             \union TokensAt(taken["delete"], DOMAIN taken["delete"])
      [] phase = "delete" -> TokensAt(taken["delete"], todo)
      [] OTHER -> {}

\* A mutation waits, is taken, or is gone, and is sent when it is taken.
Stages ==
    /\ WaitingTokens \union Tokens(taken) \union SentTokens \union Gone \subseteq 1..issued
    /\ Tokens(taken) \intersect WaitingTokens = {}
    /\ Gone \intersect (WaitingTokens \union Tokens(taken)) = {}
    /\ phase = "idle" => taken = NoEntries
    /\ phase \in {"upsert", "delete"} =>
        /\ todo \subseteq DOMAIN Batch
        /\ Tokens(taken) \ Unsent \subseteq SentTokens
    /\ Unsent \intersect SentTokens = {}

TokensInv ==
    /\ Apart(stack)
    /\ Distinct(taken)
    /\ Stages
    /\ SentAtMostOnce

-----------------------------------------------------------------------------
\* The real ids of the local ids that have one: what an apply that has
\* reserve_ids behind it reads, and reserved_ids otherwise.
Sending == phase \in {"upsert", "delete"}
Binding == IF Sending THEN ids ELSE reserved
Locals == Len(Binding) + Len(names)

\* The counts agree with the names: what was counted and is not yet answered.
Booked ==
    /\ phase # "reserve" => due = NoCounts /\ got = NoIds
    /\ phase = "reserve" => counts = NoCounts
    /\ \A m \in Models : due[m] > 0 => got[m] = <<>>
    /\ \A m \in Models : counts[m] + due[m] + Len(got[m]) = Cardinality(Places(names, m))

\* While mutations are sent every local id has its real id.
AllBound ==
    Sending => names = <<>> /\ reserved = IF stack = <<>> THEN <<>> ELSE ids

\* What the caller holds are local ids that were given out, each once.
HeldOnce ==
    /\ \A h \in held : h.num \in -Locals..-1 /\ h.of \in 1..issued
    /\ \A a, b \in held : a.num = b.num <=> a.of = b.of

\* A name in a captured mutation is a real id or one of the local ids in h; a
\* relation that the code does not see may be any.
Sound(name, h) ==
    /\ name.num < 0 => name \in h
    /\ name.of # 0 => name.num < 0

SoundRef(ref, h) == ref.num # 0 => Sound(ref, h)

SoundCapture(c, h) ==
    \A op \in Operations : \A i \in DOMAIN c[op] :
        Sound(c[op][i].id, h) /\ SoundRef(c[op][i].ref, h)

CapturesSound ==
    /\ \A i \in 1..Len(stack) : SoundCapture(stack[i], held)
    /\ SoundCapture(taken, held)

\* The names, counts and local ids agree.
Books ==
    /\ Booked
    /\ AllBound
    /\ HeldOnce
    /\ CapturesSound

\* An instance that has trapped answers no call: what it held is lost.
Trapped == phase = "trapped"

BooksInv == ~Trapped => Books

-----------------------------------------------------------------------------
\* No real id stands for two local ids, nor was it answered for another one.
GrantedIds == (Existing + 1)..(Existing + Len(granted))

BoundOnce ==
    /\ \A k \in 1..Len(Binding) : Binding[k] \in GrantedIds
    /\ \A j, k \in 1..Len(Binding) : Binding[j] = Binding[k] => j = k

AnsweredOnce ==
    \A m \in Models : \A i \in 1..Len(got[m]) :
        /\ got[m][i] \in GrantedIds
        /\ \A k \in 1..Len(Binding) : got[m][i] # Binding[k]
        /\ \A n \in Models : \A j \in 1..Len(got[n]) :
            got[m][i] = got[n][j] => m = n /\ i = j

\* The caller still holds the local id, and b binds it to the real id ...
Open(s, h, b) == \E l \in h : l.of = s.of /\ -l.num <= Len(b) /\ b[-l.num] = s.num

\* ... or local ids have restarted and neither of the two is in use any more.
Closed(s, h, b, g) ==
    /\ \A l \in h : l.of # s.of
    /\ \A k \in 1..Len(b) : b[k] # s.num
    /\ \A m \in Models : \A i \in 1..Len(g[m]) : g[m][i] # s.num

SentBound ==
    \A s \in SentNames : s.of # 0 =>
        /\ s.of \in 1..issued
        /\ s.num \in GrantedIds
        /\ Open(s, held, Binding) \/ Closed(s, held, Binding, got)

Bindings ==
    /\ BoundOnce
    /\ AnsweredOnce
    /\ SentBound
    /\ OneRecordPerName

\* What is left of SentBound when the instance is lost.
SentGranted ==
    \A s \in SentNames : s.of # 0 => s.of \in 1..issued /\ s.num \in GrantedIds

BindingInv ==
    /\ OneRecordPerName
    /\ SentGranted
    /\ ~Trapped => Bindings

-----------------------------------------------------------------------------
\* The mutations that are captured, or taken out of a capture to be sent.
Stored == EntriesOf(taken) \union UNION {EntriesOf(c) : c \in ToSet(stack)}

\* A local id means a record of model m: the id it has was reserved for m, or
\* it is still among the names of m.
Means(local, m) ==
    IF -local.num <= Len(Binding)
    THEN Binding[-local.num] \in ReservedFor(m)
    ELSE names[-local.num - Len(Binding)] = m

AnsweredFor == \A m \in Models : \A i \in 1..Len(got[m]) : got[m][i] \in ReservedFor(m)

CreatesMean == \A e \in Stored : e.id.of = e.tok => Means(e.id, e.model)

Meanings ==
    /\ AnsweredFor
    /\ CreatesMean
    /\ RecordOfItsModel

ModelInv ==
    /\ RecordOfItsModel
    /\ ~Trapped => Meanings

-----------------------------------------------------------------------------
\* The ids of records: of those from the start, and those reserved since.
RecordIds == 1..(Existing + Len(granted))

\* The names in the requests of applies.
AppliedNames == UNION {UNION {{e.id, e.ref} : e \in r.inputs} : r \in {r \in ToSet(wire) : r.op # "raw"}}

\* Where an apply sees an id, as a number, it sends the id of a record: no local
\* id, however many reservations were refused, lost or miscounted, and whatever
\* the caller does afterwards (replace_id, replace_negative_ids_in_mutation_input).
\* Local ids that it does not see (num 0), and those in raw requests, are sent.
OnlyRecordsSent == \A s \in AppliedNames : s.num \in {0} \union RecordIds

\* What the component takes for reserved was, and the caller knows by number
\* only records from the start and local ids.
IdsReserved ==
    /\ ToSet(reserved) \union ToSet(ids) \subseteq RecordIds
    /\ \A m \in Models : ToSet(got[m]) \subseteq RecordIds

NamesKnown ==
    /\ \A h \in held : h.num < 0
    /\ \A e \in Stored : e.id.num <= Existing /\ e.ref.num <= Existing

RecordsInv == IdsReserved /\ NamesKnown /\ OnlyRecordsSent
=============================================================================
