------------------------------ MODULE Publish -------------------------------
(***************************************************************************)
(* Build and publication of the components: .github/workflows/release.yaml *)
(* builds each commit of dev, publish.yaml and publish-prod.yaml pick a    *)
(* build, publish-components.yaml with scripts/publish-components.sh and   *)
(* publish-wit-packages.sh pushes it.  Runs overlap, fail at any push and  *)
(* are started again by hand.  The destinations, ghcr, dev and production, *)
(* share the builds but no registry, queue or job, so one of them is       *)
(* watched.                                                                *)
(*                                                                         *)
(* All commits have one version X.Y.Z, so that every build moves the same  *)
(* tag; commits with versions of their own would not meet.  A commit stands *)
(* for its short sha: no two that are built have the first seven digits in *)
(* common.                                                                 *)
(***************************************************************************)
EXTENDS WorldCheck, Sequences

CONSTANTS
    Destinations,   \* those of "ghcr", "dev" and "production" that may be watched
    Table,          \* the components, in the order of the component table
    World,          \* per component the lines of its world.wit
    Made,           \* what there is of a commit, by its kind: the lines of each .wasm (lines,
                    \* none for one that is missing), the components with a world.wit of
                    \* their own (worlds) and those whose package has a version (versioned)
    MaxCommits,     \* bound of the model: commits on dev
    Bounds          \* bounds of the model, per destination: pushes to main (mains), build
                    \* runs run again (reruns), publications by hand (dispatches), and may
                    \* there be pushes to dev that are not built (ignored)

ASSUME PublishAssumption ==
    /\ Destinations \subseteq {"ghcr", "dev", "production"}
    /\ Table \in Seq(STRING) /\ Len(Table) > 0
    /\ \A o \in {Made[k].lines : k \in DOMAIN Made} \union {World} : DOMAIN o = {Table[i] : i \in DOMAIN Table}
    /\ \A k \in DOMAIN Made : \A c \in DOMAIN Made[k].lines :
        IsFiniteSet(Made[k].lines[c]) /\ \A l \in Made[k].lines[c] : l[2] \in Nat
    /\ MaxCommits \in Nat
    /\ Bounds \in [Destinations -> [mains : Nat, reruns : Nat, dispatches : Nat, ignored : BOOLEAN]]

VARIABLES
    destination,    \* the one that is watched
    kinds,      \* per commit on dev that is built its kind
    unbuilt,    \* has dev changed files of components or wit since that are not built?
    builds,     \* the build runs, one per commit: run id n has commit n
    recorded,   \* .build-run-id at the head of dev, 0 for none
    main,       \* the sources at the head of main (dev's commit, whether files that are
                \* not built came with it, and whether main has changes of its own) and
                \* its .build-run-id
    mains,      \* history: what main has been
    pending,    \* the publication that waits for the running one
    running,    \* the publication that runs
    last,       \* the bytes that the last publication to end published, if it succeeded
    registry,   \* external: per component and tag the bytes
    wit,        \* external: the commits its WIT packages are from
    dispatched  \* history: the builds published by hand

commits == <<destination, kinds, unbuilt>>
requests == <<pending, running, last, registry, wit>>
vars == <<commits, builds, recorded, main, mains, requests, dispatched>>

dev == Len(kinds)   \* commits on dev that are built; one is its component and WIT sources too
Components == {Table[i] : i \in DOMAIN Table}
Commits == 1..MaxCommits
Moving == 0
Latest == -1
Tags == {Moving, Latest} \union Commits   \* X.Y.Z, latest, X.Y.Z-<short-sha> per commit

\* Mutant: the artifact is that of the latest build.
LatestBytes(run) == [run |-> dev, attempt |-> builds[run].artifact]

\* The bytes of a build: Rust builds are not bit-reproducible, so each attempt
\* of a run has its own.  artifact is the attempt that uploaded last, or 0.
Bytes(run) == [run |-> run, attempt |-> builds[run].artifact]
NoBytes == [run |-> 0, attempt |-> 0]
NoRun == 0
SourcesOf(run) == [dev |-> run, ignored |-> FALSE, hot |-> FALSE]
NoJob == [run |-> NoRun, sha |-> 0, bytes |-> NoBytes, step |-> "none", at |-> 0, ok |-> TRUE]

Init ==
    /\ destination \in Destinations
    /\ kinds = <<>>
    /\ unbuilt = FALSE
    /\ builds = <<>>
    /\ recorded = NoRun
    /\ \E hot \in BOOLEAN :     \* main may have changes of its own, which production alone looks at
        /\ hot => destination = "production"
        /\ main = [sources |-> [SourcesOf(NoRun) EXCEPT !.hot = hot], recorded |-> NoRun]
    /\ mains = {main}
    /\ pending = NoRun
    /\ running = NoJob
    /\ last = NoBytes
    /\ registry = [c \in Components |-> [t \in Tags |-> NoBytes]]
    /\ wit = {}
    /\ dispatched = {}

-----------------------------------------------------------------------------
\* Publications ask for the concurrency group of each destination: the one that
\* runs is left alone, the one that waits is cancelled.
Enqueue(destinations, run) == pending' = IF destination \in destinations THEN run ELSE pending

\* A push to dev starts a build run of its own, while others may still run ...
Push ==
    /\ dev < MaxCommits
    /\ \E kind \in DOMAIN Made : kinds' = Append(kinds, kind)
    /\ unbuilt' = FALSE
    /\ builds' = Append(builds, [state |-> "running", attempt |-> 1, artifact |-> 0])
    /\ UNCHANGED <<destination, recorded, main, mains, requests, dispatched>>

\* ... but for one of which paths-ignore leaves nothing: tests, or texts.
PushIgnored ==
    /\ Bounds[destination].ignored
    /\ unbuilt' = TRUE
    /\ UNCHANGED <<destination, kinds, builds, recorded, main, mains, requests, dispatched>>

\* The artifact, the .wasm of every component, is uploaded.
Upload(run, state) ==
    builds' = [builds EXCEPT ![run].state = state, ![run].artifact = builds[run].attempt]

\* A build succeeds and its publication to ghcr and dev follows.  semantic-release has
\* put the run id on dev, unless there was nothing to release or dev has moved.
BuildSucceeds(run, released) ==
    /\ builds[run].state = "running"
    /\ released => run = dev /\ ~unbuilt
    /\ Upload(run, "success")
    /\ recorded' = IF released THEN run ELSE recorded
    /\ Enqueue({"ghcr", "dev"}, run)
    /\ UNCHANGED <<commits, main, mains, running, last, registry, wit, dispatched>>

\* The build fails, or semantic-release does after the upload.
BuildFails(run) ==
    /\ builds[run].state = "running"
    /\ \/ Upload(run, "failed")
       \/ builds' = [builds EXCEPT ![run].state = "failed"]
    /\ UNCHANGED <<commits, recorded, main, mains, requests, dispatched>>

Reruns == UNION {{run} \X (2..builds[run].attempt) : run \in DOMAIN builds}

\* The run is run again, under the same id; it replaces the artifact.
Rerun(run) ==
    /\ builds[run].state # "running"
    /\ Cardinality(Reruns) < Bounds[destination].reruns
    /\ builds' = [builds EXCEPT ![run].state = "running", ![run].attempt = @ + 1]
    /\ UNCHANGED <<commits, recorded, main, mains, requests, dispatched>>

\* A publication of any build, to ghcr and dev or, a rollback, to production.
Dispatch(run) ==
    /\ Cardinality(dispatched) < Bounds[destination].dispatches
    /\ dispatched' = dispatched \union {run}
    /\ Enqueue({destination}, run)
    /\ UNCHANGED <<commits, builds, recorded, main, mains, running, last, registry, wit>>

-----------------------------------------------------------------------------
\* Mutant: production takes the recorded build as it is.
TakesRecorded(sources, run) == run # NoRun

\* which-build: the recorded build has the sources of main's head.
HasNothingMissing(sources, run) == run # NoRun /\ sources = SourcesOf(run)

\* A push to main; production follows if the recorded build is main's.
PushMain(sources, run) ==
    /\ main' = [sources |-> sources, recorded |-> run]
    /\ Cardinality(mains) <= Bounds[destination].mains
    /\ main' # main
    /\ mains' = mains \union {main'}
    /\ IF HasNothingMissing(sources, run) THEN Enqueue({"production"}, run) ELSE UNCHANGED pending
    /\ UNCHANGED <<commits, builds, recorded, running, last, registry, wit, dispatched>>

\* dev is merged, or a change is made on main alone, which then stays there.
Merge == PushMain([main.sources EXCEPT !.dev = dev, !.ignored = unbuilt], recorded)
Hotfix == PushMain([main.sources EXCEPT !.hot = TRUE], main.recorded)

-----------------------------------------------------------------------------
(***************************************************************************)
(* publish-components.yaml, one job per destination at a time.             *)
(***************************************************************************)
Ends(published) ==
    /\ running' = NoJob
    /\ last' = published

\* Mutant: the commit is the one the publication sits on.
HeadOfDev(run) == dev

\* The commit that the build was made from.
HeadSha(run) == run

Start ==
    /\ running = NoJob
    /\ pending # NoRun
    /\ pending' = NoRun
    /\ running' = [NoJob EXCEPT !.run = pending, !.step = "find"]
    /\ UNCHANGED <<commits, builds, recorded, main, mains, last, registry, wit, dispatched>>

\* It asks for the build's commit, to check it out and to pin the tags with ...
FindCommit ==
    /\ running.step = "find"
    /\ \/ /\ running' = [running EXCEPT !.sha = HeadSha(running.run), !.step = "download"]
          /\ UNCHANGED last
       \/ Ends(NoBytes)
    /\ UNCHANGED <<commits, builds, recorded, main, mains, pending, registry, wit, dispatched>>

\* ... and then for the artifact, which may be another one by now, or not be there.
Download ==
    /\ running.step = "download"
    /\ \/ /\ Bytes(running.run).attempt # 0
          /\ running' = [running EXCEPT !.bytes = Bytes(running.run), !.step = "check"]
          /\ UNCHANGED last
       \/ Ends(NoBytes)
    /\ UNCHANGED <<commits, builds, recorded, main, mains, pending, registry, wit, dispatched>>

\* Mutant: a component that does not match is merely passed over.
SomeMatch(job) == \E c \in Components : Matches(World[c], Made[kinds[job.bytes.run]].lines[c])

CheckComponentsMatchWorlds(job) ==
    \A c \in Components : Matches(World[c], Made[kinds[job.bytes.run]].lines[c])

\* The components of a commit that the table lacks, and the rows without a version.
Untabled(kind) == Made[kind].worlds \ Components
Unversioned(kind) == Components \ Made[kind].versioned

EveryComponentIsTabled(job) == Untabled(kinds[job.sha]) = {}

\* Every .wasm against its world, before anything is pushed; a registry without
\* credentials ends the job as well.  ghcr gets no WIT packages.
Check ==
    /\ running.step = "check"
    /\ \/ /\ EveryComponentIsTabled(running) /\ CheckComponentsMatchWorlds(running)
          /\ running' = [running EXCEPT !.step = IF destination = "ghcr" THEN "plan" ELSE "wit"]
          /\ UNCHANGED last
       \/ Ends(NoBytes)
    /\ UNCHANGED <<commits, builds, recorded, main, mains, pending, registry, wit, dispatched>>

\* The WIT packages, from the checkout of the commit; when one of them fails the
\* others are still pushed, and no image is.
PushWitPackages ==
    /\ running.step = "wit"
    /\ \/ /\ wit' = {running.sha}
          /\ running' = [running EXCEPT !.step = "plan"]
          /\ UNCHANGED last
       \/ /\ Ends(NoBytes)
          /\ wit' \in {wit, wit \union {running.sha}}
    /\ UNCHANGED <<commits, builds, recorded, main, mains, pending, registry, dispatched>>

\* Mutant: a component without a version does not end the job.
PlanTheOthers ==
    /\ running.step = "plan"
    /\ running' = [running EXCEPT !.step = "push"]
    /\ UNCHANGED <<commits, builds, recorded, main, mains, pending, last, registry, wit, dispatched>>

\* plan_push_targets: every row is looked at, and when one of them has no version
\* in its world.wit nothing is pushed.
Plan ==
    /\ running.step = "plan"
    /\ IF Unversioned(kinds[running.sha]) # {}
       THEN Ends(NoBytes)
       ELSE running' = [running EXCEPT !.step = "push"] /\ UNCHANGED last
    /\ UNCHANGED <<commits, builds, recorded, main, mains, pending, registry, wit, dispatched>>

\* Per component its pinned tag, its version and, on ghcr, latest.
TagsOf(sha) == <<sha, Moving>> \o IF destination = "ghcr" THEN <<Latest>> ELSE <<>>
Pushes == Len(TagsOf(0)) * Len(Table)

Pushed(job) ==
    LET n == Len(TagsOf(job.sha))
    IN  [component |-> Table[(job.at \div n) + 1], tag |-> TagsOf(job.sha)[(job.at % n) + 1]]

\* Mutant: the push that failed goes unnoticed.
PushFailsUnnoticed ==
    /\ running.step = "push" /\ running.at < Pushes
    /\ running' = [running EXCEPT !.at = @ + 1]
    /\ UNCHANGED <<commits, builds, recorded, main, mains, pending, last, registry, wit, dispatched>>

\* Mutant: after a push that failed all are made again.
PushFailsRepeats ==
    /\ running.step = "push" /\ running.at < Pushes
    /\ running' = [running EXCEPT !.at = 0]
    /\ UNCHANGED <<commits, builds, recorded, main, mains, pending, last, registry, wit, dispatched>>

\* A push fails; the others are still made.
PushFails ==
    /\ running.step = "push" /\ running.at < Pushes
    /\ running' = [running EXCEPT !.at = @ + 1, !.ok = FALSE]
    /\ UNCHANGED <<commits, builds, recorded, main, mains, pending, last, registry, wit, dispatched>>

PushImage ==
    /\ running.step = "push" /\ running.at < Pushes
    /\ registry' = [registry EXCEPT ![Pushed(running).component][Pushed(running).tag] = running.bytes]
    /\ running' = [running EXCEPT !.at = @ + 1]
    /\ UNCHANGED <<commits, builds, recorded, main, mains, pending, last, wit, dispatched>>

Finish ==
    /\ running.step = "push" /\ running.at = Pushes
    /\ Ends(IF running.ok THEN running.bytes ELSE NoBytes)
    /\ UNCHANGED <<commits, builds, recorded, main, mains, pending, registry, wit, dispatched>>

Job == Start \/ FindCommit \/ Download \/ Check \/ PushWitPackages \/ Plan \/ PushFails \/ PushImage \/ Finish

Next ==
    \/ Push \/ PushIgnored \/ Merge \/ Hotfix
    \/ \E run \in DOMAIN builds :
        \/ \E released \in BOOLEAN : BuildSucceeds(run, released)
        \/ BuildFails(run) \/ Rerun(run) \/ Dispatch(run)
    \/ Job

Spec == Init /\ [][Next]_vars

\* The jobs are given a runner and each of their steps ends.
FairSpec == Spec /\ WF_vars(Job)

-----------------------------------------------------------------------------
BytesOf == [run : 0..MaxCommits, attempt : 0..(Bounds[destination].reruns + 1)]

TypeOK ==
    /\ destination \in Destinations
    /\ dev \in 0..MaxCommits /\ Len(builds) = dev
    /\ recorded \in 0..dev /\ main.recorded \in 0..recorded /\ main.sources.dev \in 0..dev
    /\ pending \in 0..dev
    /\ running.at \in 0..Pushes /\ running.run \in 0..dev
    /\ running.bytes.run \in {NoRun, running.run}
    /\ registry \in [Components -> [Tags -> BytesOf]]
    /\ wit \subseteq 1..dev

Published == {registry[c][t] : c \in Components, t \in Tags} \ {NoBytes}

\* X.Y.Z-<short-sha> always holds bytes of a build of that commit, in every
\* registry, however publications of several builds overlap (README.md, "What
\* gets tagged"; the commit is found anew from the run id).
PinnedNamesCommit ==
    \A c \in Components, sha \in Commits :
        registry[c][sha] # NoBytes => registry[c][sha].run = sha

\* A build with a component that breaks a rule of its world.
Mismatched(run) == \E c \in Components : ~Rules(World[c], Made[kinds[run]].lines[c])

\* Such a build has nothing in any registry, not even its other components or
\* its WIT packages (publish-components.sh, MODE=check;
\* check-component-matches-world.sh, the rules of its header).
OnlyMatchingBuilds ==
    \A run \in DOMAIN builds : Mismatched(run) =>
        run \notin wit /\ \A b \in Published : b.run # run

\* "a failure leaves nothing published - not the first half of the table"
\* (publish-components.sh:5): of a commit whose worlds cannot all be tagged no
\* component has any tag, however often it is published; and of one with a
\* component that is not tabled not even a WIT package is there.
NothingOfHalfATable ==
    \A sha \in DOMAIN kinds :
        /\ Untabled(kinds[sha]) \union Unversioned(kinds[sha]) # {} => \A b \in Published : b.run # sha
        /\ Untabled(kinds[sha]) # {} => sha \notin wit

\* Production only ever gets builds whose sources main has had, with nothing
\* on main that they lack, or that were dispatched by hand (publish-prod.yaml).
ProductionFromMain ==
    destination = "production" => \A b \in Published :
        \/ \E m \in mains : m.sources = SourcesOf(b.run)
        \/ b.run \in dispatched

\* After a publication that succeeded, and until the next one starts, all the
\* tags it moves and the WIT packages are of one build, whatever was left half
\* pushed before (publish-components.sh: result_code).
PublishedTogether ==
    running = NoJob /\ last # NoBytes =>
        /\ \A c \in Components : registry[c][Moving] = last
        /\ \A c \in Components : registry[c][last.run] = last
        /\ IF destination = "ghcr"
           THEN \A c \in Components : registry[c][Latest] = last
           ELSE wit = {last.run}

\* A publication that started ends.
PublicationEnds == running # NoJob ~> running = NoJob

-----------------------------------------------------------------------------
\* The comment on the concurrency group: the moving tags never go back to an
\* older build, except by hand.
MovingTagNeverOlder ==
    [][\A c \in Components, tag \in {Moving, Latest} :
        registry'[c][tag].run < registry[c][tag].run
            => registry'[c][tag].run \in dispatched']_vars
=============================================================================
