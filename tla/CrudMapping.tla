---------------------------- MODULE CrudMapping ----------------------------
(***************************************************************************)
(* What components/utilities/crud makes of one entry of a property         *)
(* mapping: the value that is assigned (parse_assigned_properties) and     *)
(* the fields that are asked back (get_query_fields).  Both look at the    *)
(* kind of the property and at the shape of the JSON value.                *)
(***************************************************************************)
EXTENDS Json

Kinds == {"OBJECT", "BELONGS_TO", "HAS_MANY", "HAS_AND_BELONGS_TO_MANY", "STRING", "INTEGER"}
ManyKinds == {"HAS_MANY", "HAS_AND_BELONGS_TO_MANY"}
Relations == ManyKinds \union {"BELONGS_TO"}

\* The value of a property that has none.
None == [kind |-> "none"]

IsRecord(v) == v.kind = "object" /\ "id" \in DOMAIN v.members
StartsWithRecord(v) == v.kind = "array" /\ v.items # <<>> /\ IsRecord(Head(v.items))
IsCollection(v) == StartsWithRecord(v) \/ v = Array(<<>>)

-----------------------------------------------------------------------------
(***************************************************************************)
(* A selection is the set of its paths; a selection without fields, which  *)
(* GraphQL does not allow, has the path that ends in Nothing.              *)
(***************************************************************************)
Nothing == ""
Id(field) == {<<field, "id">>}

RECURSIVE ConvertObject(_, _)

\* object_to_graphql_query
ObjectQuery(field, members) ==
    {<<field>> \o path : path \in UNION {ConvertObject(k, members[k]) : k \in DOMAIN members}}

\* Mutant: what has no record shape is taken for a scalar.
ConvertRecordsOnly(field, v) ==
    CASE IsRecord(v) -> ObjectQuery(field, v.members)
      [] StartsWithRecord(v) -> ObjectQuery(field, Head(v.items).members)
      [] OTHER -> {<<field>>}

\* convert_object_to_graphql
ConvertObject(field, v) ==
    CASE IsRecord(v) -> ObjectQuery(field, v.members)
      [] StartsWithRecord(v) -> ObjectQuery(field, Head(v.items).members)
      [] IsNested(v) /\ ~IsRecord(v) /\ ~StartsWithRecord(v) -> Id(field)
      [] OTHER -> {<<field>>}

\* get_query_fields; the fields of an OBJECT come with the property.
QueryFields(name, kind, objectFields, v) ==
    CASE kind = "OBJECT" -> {<<name, f>> : f \in IF objectFields = {} THEN {Nothing} ELSE objectFields}
      [] kind = "BELONGS_TO" -> IF IsRecord(v) THEN ConvertObject(name, v) ELSE Id(name)
      [] kind \in ManyKinds -> IF IsCollection(v) THEN ConvertObject(name, v) ELSE Id(name)
      [] OTHER -> {<<name>>}

-----------------------------------------------------------------------------
IdOf(v) == IF IsRecord(v) THEN v.members["id"] ELSE v

\* get_assigned_value
AssignedValue(kind, v) ==
    CASE v = None -> Null
      [] kind = "BELONGS_TO" /\ v # None -> IdOf(v)
      [] kind \in ManyKinds /\ v.kind = "array" ->
            Object([id |-> Array([i \in DOMAIN v.items |-> IdOf(v.items[i])])])
      [] OTHER -> v
=============================================================================
