--------------------------- MODULE CapturedInputs ---------------------------
(***************************************************************************)
(* The inputs of mutations, by their two ways to the data-api, which do    *)
(* not meet.  crud makes an input and a selection of a property mapping    *)
(* and has them executed at once, by the request that knows no capture.    *)
(* An action that captures writes its own JSON: CaptureRequest has its     *)
(* documents; here one of its creates is applied, and the local ids in its *)
(* JSON are replaced.                                                      *)
(***************************************************************************)
EXTENDS CrudMapping, ReplaceIds, CaptureRequest

CONSTANT Leaves     \* the JSON numbers and texts values are built from

ASSUME InputsAssumption == Leaves \subseteq [kind : {"number", "text"}, n : Int]

VARIABLES
    step,       \* "map" and "mapped", "captured" and "sent", or "requests"
    entry,      \* the entry of the mapping: kind, object fields and value
    selection,  \* the fields crud asks back
    given,      \* the other inputs as crud made them, or as they were captured
    input       \* the input as it is sent

inputVars == <<step, entry, selection, given, input>>

\* The id of a record is a number or a text.
Values == {None} \union Nested(Nested(Leaves, Leaves, 2), Leaves, 2)
Entries == [kind : Kinds, objectFields : SUBSET (Fields \ {"id"}), value : Values]
NoEntry == [kind |-> "STRING", objectFields |-> {}, value |-> None]

\* Inputs an action writes itself: an id may be a list of ids, or anything.
Deeper(V) == Nested(V, V, 1)
Written == {Object([property |-> v]) : v \in Deeper(Deeper(Deeper(Leaves)))}

\* The create is the last one captured.
Captured(other) == [id |-> -Len(Ids), other_inputs |-> other]

Init ==
    /\ selection = {}
    /\ \/ step = "map" /\ entry \in Entries /\ given = Object(<<>>)
       \/ step = "captured" /\ entry = NoEntry /\ given \in Written
       \/ step = "requests" /\ entry = NoEntry /\ given = Object(<<>>)
    /\ input = Captured(given)
    /\ RequestInit

\* crud's create, up to its request: the entry is mapped.
Create ==
    /\ step = "map"
    /\ step' = "mapped"
    /\ given' = Object([property |-> AssignedValue(entry.kind, entry.value)])
    /\ selection' = QueryFields("property", entry.kind, entry.objectFields, entry.value)
    /\ UNCHANGED <<entry, input>>

\* apply_capture
Apply ==
    /\ step = "captured"
    /\ step' = "sent"
    /\ input' = Replaced(input)
    /\ UNCHANGED <<entry, selection, given>>

Next ==
    \/ (Create \/ Apply) /\ UNCHANGED requestVars
    \/ step = "requests" /\ RequestNext /\ UNCHANGED inputVars

Spec == Init /\ [][Next]_<<inputVars, requestVars>>

-----------------------------------------------------------------------------
(***************************************************************************)
(* Paths into a value.                                                     *)
(***************************************************************************)
Member(k) == [key |-> k, at |-> 0]
Item(i) == [key |-> "", at |-> i]

RECURSIVE LeavesOf(_)
LeavesOf(v) ==
    LET under(one, w) == {<<<<one>> \o l[1], l[2]>> : l \in LeavesOf(w)}
    IN  CASE v.kind = "object" -> UNION {under(Member(k), v.members[k]) : k \in DOMAIN v.members}
          [] v.kind = "array" -> UNION {under(Item(i), v.items[i]) : i \in DOMAIN v.items}
          [] OTHER -> {<<<<>>, v>>}

IsId(path) == Last(path) = Member("id") /\ \A i \in 1..(Len(path) - 1) : path[i] # Member("id")

\* An item of a list, itself under "id": [id |-> <<-1, -2>>].
IsListed(path) == Len(path) > 1 /\ path[Len(path) - 1] = Member("id") /\ Last(path).at > 0

\* Fields only, of an array those of its first item.
RECURSIVE PathsOf(_), At(_, _)
PathsOf(v) ==
    {<<>>} \union
    CASE v.kind = "object" -> UNION {{<<k>> \o p : p \in PathsOf(v.members[k])} : k \in DOMAIN v.members}
      [] v.kind = "array" /\ v.items # <<>> /\ Head(v.items).kind = "object" -> PathsOf(Head(v.items))
      [] OTHER -> {}

At(v, path) ==
    CASE path # <<>> -> At(IF v.kind = "array" THEN Head(v.items).members[Head(path)]
                                               ELSE v.members[Head(path)], Tail(path))
      [] OTHER -> v

-----------------------------------------------------------------------------
\* The comments of replace_ids.rs promise that "all the negative IDs" (31) and
\* "the negative ID or IDs" (50) are replaced.  They are not: what is replaced is
\* the number directly under "id", at whatever depth of objects and arrays it
\* is.  An id that is a text, and all of a list of ids, reach the server as local
\* ids, and so does the rest of the input as it was captured.
OnlyNumbersUnderIdChange ==
    step = "sent" =>
        LET before == LeavesOf(given)
            after == LeavesOf(input.other_inputs)
            replaced == {l \in before : IsId(l[1]) /\ l[2].kind = "number"}
        IN  /\ after = {<<l[1], Number(RealId(l[2].n))>> : l \in replaced} \union (before \ replaced)
            /\ \A l \in before : IsListed(l[1]) \/ l[2].kind = "text" => l \in after

\* "Objects or arrays without a usable record shape still represent a relation
\* and therefore need a subselection" (crud lib.rs:82): a selected field has
\* fields below it exactly when the value has an object or an array there.
SubselectionPerRelation ==
    \A path \in selection : entry.kind \in Relations =>
        /\ Len(path) > 1
        /\ \A n \in 2..Len(path) : LET inner == SubSeq(path, 2, n) IN
            inner \in PathsOf(entry.value) => (n < Len(path) <=> IsNested(At(entry.value, inner)))
=============================================================================
