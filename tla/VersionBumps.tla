---------------------------- MODULE VersionBumps ----------------------------
(***************************************************************************)
(* scripts/check-version-bumps.sh under .github/workflows/version-check:   *)
(* a pull request must give every package whose code it changes another    *)
(* version.  The check compares three trees, taken at different times: the *)
(* merge of the request with the base branch, made when the request was    *)
(* pushed; the base it was made with; and the base as it is when the check *)
(* runs, or is run again.                                                  *)
(***************************************************************************)
EXTENDS Integers, FiniteSets, SequencesExt

CONSTANTS
    Pulls,      \* pull requests to one base branch
    Packages,   \* components and shared WIT packages
    Edits,      \* what a request may do to a package
    MaxPushes   \* bound of the model: pushes to pull requests, in all

ASSUME VersionAssumption ==
    /\ Edits \subseteq [version : Int, files : SUBSET {"code", "other"}]
    /\ MaxPushes \in Nat

Absent == 0         \* no such package
Undeclared == -1    \* a package line without a version
Kept == Absent      \* of an edit: the version stays as it is

VARIABLES
    base,       \* the trees the base branch has had
    event,      \* per request the run of its last push: what it merges, with what
    verdict,    \* per request "none", "pending", "passed" or "refused"
    merged,     \* requests that are merged
    pushes,     \* how often was pushed
    checked     \* observation: per request the tree of the base its last check read

vars == <<base, event, verdict, merged, pushes, checked>>

(***************************************************************************)
(* Of a package a tree has its version, and the requests that changed its  *)
(* relevant files (code) and the others (other): lockfiles, tests, docs,   *)
(* wit/deps.                                                               *)
(***************************************************************************)
Package(version) == [version |-> version, code |-> {}, other |-> {}]
Tip == base[Len(base)]

Touched(set, e, kind, u) == IF kind \in e.files THEN set \union {u} ELSE set

\* What the edits e of a request make of the tree t.
Edited(u, t, e) == [p \in Packages |->
    [version |-> IF e[p].version = Kept THEN t[p].version ELSE e[p].version,
     code |-> Touched(t[p].code, e[p], "code", u),
     other |-> Touched(t[p].other, e[p], "other", u)]]

\* Files merge by themselves, a line that both sides changed does not.
Mergeable(start, ours, theirs) ==
    \A p \in Packages :
        Cardinality({ours[p].version, theirs[p].version} \ {start[p].version}) <= 1

Merged(start, ours, theirs) ==
    [p \in Packages |->
        [version |-> IF ours[p].version = start[p].version THEN theirs[p].version ELSE ours[p].version,
         code |-> ours[p].code \union theirs[p].code,
         other |-> ours[p].other \union theirs[p].other]]

Init ==
    /\ base \in {<<t>> : t \in [Packages -> {Package(Absent), Package(1)}]}
    /\ event = [u \in Pulls |-> [start |-> 1, own |-> Tip, at |-> 1, head |-> Tip]]
    /\ verdict = [u \in Pulls |-> "none"]
    /\ merged = {}
    /\ pushes = 0
    /\ checked = [u \in Pulls |-> 0]

-----------------------------------------------------------------------------
\* A request is opened or pushed to, from the base as it is or was.  The run
\* of the check gets the merge of both, and keeps it when it is run again.
Push(u) ==
    /\ u \notin merged
    /\ pushes < MaxPushes
    /\ pushes' = pushes + 1
    /\ \E start \in {event[u].start, Len(base)}, e \in [Packages -> Edits] :
        LET own == Edited(u, base[start], e)
        IN  /\ Mergeable(base[start], own, Tip)
            /\ event' = [event EXCEPT ![u] = [start |-> start, own |-> own,
                    at |-> Len(base), head |-> Merged(base[start], own, Tip)]]
    /\ verdict' = [verdict EXCEPT ![u] = "pending"]
    /\ UNCHANGED <<base, merged, checked>>

-----------------------------------------------------------------------------
\* git diff base...HEAD: against the merge base, which is what was merged with.
Changed(u) == [p \in Packages |->
    LET before == base[event[u].at][p]
        now == event[u].head[p]
    IN  [code |-> now.code # before.code \/ now.version # before.version,
         other |-> now.other # before.other]]

\* Mutant: any file of the package counts.
AnyHits(u, p) == Changed(u)[p].code \/ Changed(u)[p].other

\* The files of a package that count; its version is in one of them.
Hits(u, p) == Changed(u)[p].code

\* Mutant: the version is compared with that of the base of the merge.
RequireBumpThen(u, p) ==
    LET met == base[event[u].at][p].version
    IN  /\ Hits(u, p)
        /\ event[u].head[p].version # Absent
        /\ met \notin {Absent, Undeclared}
        /\ event[u].head[p].version \in {Undeclared, met}

\* require_bump, for the packages that HEAD has: the version of the tip counts.
RequireBump(u, p) ==
    /\ Hits(u, p)
    /\ event[u].head[p].version # Absent
    /\ Tip[p].version \notin {Absent, Undeclared}
    /\ event[u].head[p].version \in {Undeclared, Tip[p].version}

\* A run of the check, the first or another one.
Check(u) ==
    /\ verdict[u] # "none" /\ u \notin merged
    /\ verdict' = [verdict EXCEPT ![u] =
            IF \E p \in Packages : RequireBump(u, p) THEN "refused" ELSE "passed"]
    /\ checked' = [checked EXCEPT ![u] = Len(base)]
    /\ UNCHANGED <<base, event, merged, pushes>>

\* GitHub merges a request whose check passed, into the base as it is by now.
Merge(u) ==
    /\ verdict[u] = "passed" /\ u \notin merged
    /\ Mergeable(base[event[u].start], event[u].own, Tip)
    /\ base' = Append(base, Merged(base[event[u].start], event[u].own, Tip))
    /\ merged' = merged \union {u}
    /\ UNCHANGED <<event, verdict, pushes, checked>>

Next == \E u \in Pulls : Push(u) \/ Check(u) \/ Merge(u)

Spec == Init /\ [][Next]_vars

-----------------------------------------------------------------------------
\* Of a request whose last check read the tree it is merged into, no package
\* changes its code under its version, if the request gives it a version or
\* nothing was merged since it was pushed; however old its start and its merge
\* are, and whatever else was pushed, checked again and merged (require_bump).
\* A request that gives it none and is only checked again is not stopped.
CheckedMergeBumps ==
    [][\A u \in merged' \ merged : checked[u] = Len(base) =>
        \A p \in Packages :
            LET before == Tip[p]
                after == Tip'[p]
                gives == event[u].own[p].version # base[event[u].start][p].version
            IN  /\ gives \/ event[u].at = Len(base)
                /\ before.code # after.code
                /\ before.version \notin {Absent, Undeclared}
                => after.version \notin {before.version, Undeclared}]_vars

\* A request is not refused for nothing: of a package the base has, it changed
\* a file that counts, to no version or one the base has or has had since.
RefusedForCause ==
    \A u \in Pulls : verdict[u] = "refused" =>
        \E p \in Packages :
            LET own == event[u].own[p]
                since == event[u].start..Len(base)
                start == base[event[u].start][p]
            IN  /\ <<own.code, own.version>> # <<start.code, start.version>>
                /\ own.version = Undeclared \/ \E i \in since : own.version = base[i][p].version

\* "every package whose code or WIT changed vs the base branch must also have
\* its WIT package version bumped" (check-version-bumps.sh:3): what passed has
\* another version than the base it was made from.
PassedMeansBumped ==
    \A u \in Pulls : verdict[u] = "passed" =>
        \A p \in Packages :
            LET start == base[event[u].start][p]
            IN  u \in event[u].own[p].code /\ start.version \notin {Absent, Undeclared}
                => event[u].own[p].version # start.version
=============================================================================
