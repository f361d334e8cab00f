----------------------------- MODULE WorldCheck -----------------------------
(***************************************************************************)
(* scripts/check-component-matches-world.sh: whether a built component is  *)
(* one of a given world.wit.  Both are sets of lines: a direction, the     *)
(* reference of an interface and its version, the number 10 * minor +      *)
(* patch.                                                                  *)
(***************************************************************************)
EXTENDS Integers, FiniteSets, FiniteSetsExt

CONSTANT Wasi   \* references that begin with wasi:

Line(direction, ref, version) == <<<<direction, ref>>, version>>
IsWasi(key) == key[2] \in Wasi

\* Of wasi the patch level is dropped.
Shown(key, version) == IF IsWasi(key) THEN version \div 10 ELSE version

\* interfaces(): the normalised lines, without duplicates.
Interfaces(lines) == {<<l[1], Shown(l[1], l[2])>> : l \in lines}

Named(lines) == {l[1] : l \in lines}

\* The lines come sorted, here by number, and of several versions of one key the
\* last stays.
IndexVersions(interfaces) ==
    [key \in Named(interfaces) |-> Max({i[2] : i \in {j \in interfaces : j[1] = key}})]

\* One line of the world against the component.
Agrees(built, i) ==
    IF i[1] \in DOMAIN built THEN built[i[1]] = i[2]
    ELSE i[1][1] = "import" /\ IsWasi(i[1])

\* compare_world_against_component, and that something was compared.
Matches(world, component) ==
    LET named == Interfaces(world)
        built == IndexVersions(Interfaces(component))
    IN  /\ \A i \in named : Agrees(built, i)
        /\ Named(named) \intersect DOMAIN built # {}

-----------------------------------------------------------------------------
(***************************************************************************)
(* The three rules of the script's header, on the lines as written: every  *)
(* interface both sides name is in the component with the version of the   *)
(* world; every export but wasi's is there; both name something.           *)
(***************************************************************************)
SameVersion(key, v, w) == IF IsWasi(key) THEN v \div 10 = w \div 10 ELSE v = w

Rules(world, component) ==
    /\ \A l \in world : l[1] \in Named(component) =>
        \E m \in component : m[1] = l[1] /\ SameVersion(l[1], l[2], m[2])
    /\ \A l \in world : l[1][1] = "export" /\ ~IsWasi(l[1]) => l[1] \in Named(component)
    /\ Named(world) \intersect Named(component) # {}
=============================================================================
