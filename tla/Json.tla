-------------------------------- MODULE Json --------------------------------
(***************************************************************************)
(* JSON as the components look at it (serde_json::Value): numbers, texts,  *)
(* objects and arrays.  A text is that of an integer, the form in which    *)
(* ids are answered; null stands for every scalar that is never looked at. *)
(***************************************************************************)
EXTENDS Integers, FiniteSets, SequencesExt

CONSTANT Fields     \* names of members, "id" among them

ASSUME JsonAssumption == "id" \in Fields

Number(n) == [kind |-> "number", n |-> n]
Text(n) == [kind |-> "text", n |-> n]
Null == [kind |-> "null"]
Object(members) == [kind |-> "object", members |-> members]
Array(items) == [kind |-> "array", items |-> items]

IsNested(v) == v.kind \in {"object", "array"}

\* What can be built from the values in V, with ids in I and arrays of at most
\* n items.
Nested(V, I, n) ==
    LET Members(K) == {f \in [K -> V \union I] : \A k \in K : f[k] \in IF k = "id" THEN I ELSE V}
    IN  V \union {Object(f) : f \in UNION {Members(K) : K \in SUBSET Fields}}
          \union {Array(s) : s \in BoundedSeq(V, n)}
=============================================================================
