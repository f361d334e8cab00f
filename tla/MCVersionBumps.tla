--------------------------- MODULE MCVersionBumps ---------------------------
EXTENDS VersionBumps, TLC

Edit(version, files) == [version |-> version, files |-> files]

\* Versions up to 3: two requests may take the same one, or one each.
SomeEdits == {
    Edit(Kept, {}), Edit(Kept, {"other"}), Edit(Kept, {"code"}),
    Edit(2, {}), Edit(2, {"code"}), Edit(3, {"code"}), Edit(Undeclared, {"code"})}

Alike == Permutations(Pulls) \union Permutations(Packages)
=============================================================================
