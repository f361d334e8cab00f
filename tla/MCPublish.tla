----------------------------- MODULE MCPublish ------------------------------
EXTENDS Publish

OneComponent == <<"crud">>
TwoComponents == <<"auth", "crud">>

Lines(streams, package) == {Line("import", "wasi:io", streams), Line("export", "types", package)}

Worlds == [c \in Components |-> Lines(10, 20)]

\* The build follows the world, with a newer patch of wasi and an interface more.
Faithful == [c \in Components |-> Lines(11, 20) \union {Line("import", "wasi:http", 10)}]

\* The first component is of an older version, or lacks the export.
Older == [Faithful EXCEPT ![Table[1]] = Lines(10, 10)]
Hollow == [Faithful EXCEPT ![Table[1]] = {Line("import", "wasi:io", 10)}]

\* A component that the table lacks, and one whose package has no version.
Of(lines) == [lines |-> lines, worlds |-> Components, versioned |-> Components]
WithMore == [Of(Faithful) EXCEPT !.worlds = @ \union {"new"}]
WithLess == [Of(Faithful) EXCEPT !.versioned = @ \ {Table[Len(Table)]}]

AnyKind == [sound |-> Of(Faithful), older |-> Of(Older), hollow |-> Of(Hollow),
            untabled |-> WithMore, unversioned |-> WithLess]
OnlySound == [sound |-> Of(Faithful)]

Bound(m, r, d, i) == [mains |-> m, reruns |-> r, dispatches |-> d, ignored |-> i]
BuildsOnly == [ghcr |-> Bound(0, 0, 0, FALSE)]
OneOfEach == [production |-> Bound(1, 0, 1, TRUE), dev |-> Bound(0, 1, 0, FALSE), ghcr |-> Bound(0, 0, 0, FALSE)]
=============================================================================
