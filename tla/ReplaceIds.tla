----------------------------- MODULE ReplaceIds -----------------------------
(***************************************************************************)
(* context/replace_ids.rs: the local ids in the input of a captured        *)
(* mutation are replaced by the real ones, at every depth of its JSON.     *)
(* Capture takes the result for granted for the ids it follows.            *)
(***************************************************************************)
EXTENDS Json

CONSTANT Ids    \* reserved_ids: Ids[k] is the real id of the local id -k

RealId(n) == IF n < 0 THEN Ids[-n] ELSE n

\* Only a number counts: as_i64 is None for a string, an array, an object.
HandleIdKey(v) == IF v.kind = "number" THEN Number(RealId(v.n)) ELSE v

RECURSIVE HandleArrayOfValues(_), ReplaceInObject(_)

\* Mutant: arrays in arrays are not followed.
HandleObjectsOfArray(items) ==
    [i \in DOMAIN items |->
        IF items[i].kind = "object" THEN Object(ReplaceInObject(items[i].members)) ELSE items[i]]

HandleArrayOfValues(items) ==
    [i \in DOMAIN items |->
        CASE items[i].kind = "object" -> Object(ReplaceInObject(items[i].members))
          [] items[i].kind = "array" -> Array(HandleArrayOfValues(items[i].items))
          [] OTHER -> items[i]]

ReplaceInObject(members) ==
    [k \in DOMAIN members |->
        CASE k = "id" -> HandleIdKey(members[k])
          [] k # "id" /\ members[k].kind = "object" -> Object(ReplaceInObject(members[k].members))
          [] k # "id" /\ members[k].kind = "array" -> Array(HandleArrayOfValues(members[k].items))
          [] OTHER -> members[k]]

\* replace_negative_ids_in_mutation_input: the id of the record itself is kept
\* apart from its other inputs (serde flatten).
Replaced(input) ==
    [id |-> RealId(input.id),
     other_inputs |-> Object(ReplaceInObject(input.other_inputs.members))]
=============================================================================
