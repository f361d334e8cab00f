--------------------------- MODULE PublishProofs ----------------------------
(***************************************************************************)
(* Theorems about Publish, for every number of commits, components,        *)
(* reruns, merges and publications, to each of the destinations.           *)
(***************************************************************************)
EXTENDS Publish, FiniteSetTheorems, SequenceTheorems, WellFoundedInduction, TLAPS

Shipped == [run : 0..dev, attempt : Nat]
Runs == [state : {"running", "success", "failed"}, attempt : Nat, artifact : Nat]
Fetched == {"check", "wit", "plan", "push"}
Steps == {"none", "find", "download"} \union Fetched
Jobs == [run : 0..dev, sha : 0..dev, bytes : Shipped, step : Steps, at : Nat, ok : BOOLEAN]

CommitsTyped ==
    /\ destination \in Destinations
    /\ kinds \in Seq(DOMAIN Made) /\ dev \in 0..MaxCommits
    /\ builds \in Seq(Runs) /\ Len(builds) = dev
    /\ unbuilt \in BOOLEAN /\ recorded \in 0..dev /\ main.recorded \in 0..dev

Typed ==
    /\ pending \in 0..dev
    /\ running \in Jobs /\ last \in Shipped
    /\ registry \in [Components -> [Tags -> Shipped]]
    /\ wit \subseteq 1..dev

\* A job is of one build, its commit and, once they are fetched, its bytes.
OneBuild ==
    /\ running.step # "find" => running.sha = running.run
    /\ IF running.step \in Fetched THEN running.bytes.run = running.run ELSE running.bytes = NoBytes
    /\ running.step = "none" => running = NoJob
    /\ running.step # "none" => running.run \in 1..dev
    /\ last # NoBytes => last.run \in 1..dev

\* Production queues, ships and holds nothing else.
Legit(run, was, byHand) ==
    (\E m \in was : m.sources = SourcesOf(run)) \/ run \in byHand

Provenance ==
    destination = "production" =>
        /\ pending # NoRun => Legit(pending, mains, dispatched)
        /\ running.step # "none" => Legit(running.run, mains, dispatched)
        /\ \A b \in Published : Legit(b.run, mains, dispatched)

\* What a job has found out about its commit.
Looked ==
    /\ running.step \in {"wit", "plan", "push"} => Untabled(kinds[running.sha]) = {}
    /\ running.step = "push" => Unversioned(kinds[running.sha]) = {}

\* What a job without a failure has pushed.
Written(i) ==
    LET p == Pushed([running EXCEPT !.at = i])
    IN  registry[p.component][p.tag] = running.bytes

Progress ==
    /\ running.step # "push" => running.at = 0
    /\ running.step \in {"plan", "push"} /\ destination # "ghcr" => wit = {running.sha}
    /\ running.step = "push" =>
        /\ running.at <= Pushes
        /\ running.ok => \A i \in 0..(running.at - 1) : Written(i)

PublishInv ==
    /\ CommitsTyped /\ Typed /\ OneBuild /\ Provenance /\ Looked /\ Progress
    /\ PinnedNamesCommit /\ NothingOfHalfATable /\ PublishedTogether

-----------------------------------------------------------------------------
(***************************************************************************)
(* The pushes of a job.                                                    *)
(***************************************************************************)
LEMMA TagsAre ==
    ASSUME NEW sha
    PROVE  IF destination = "ghcr" THEN TagsOf(sha) = <<sha, Moving, Latest>>
           ELSE TagsOf(sha) = <<sha, Moving>>
  <1>1. <<sha, Moving>> \o <<Latest>> = <<sha, Moving, Latest>>
    <2> DEFINE S == {sha, Moving, Latest}
               front == <<sha, Moving>>
               back == <<Latest>>
    <2>1. front \in Seq(S) /\ back \in Seq(S) /\ Len(front) = 2 /\ Len(back) = 1
      OBVIOUS
    <2>2. /\ front \o back \in Seq(S) /\ Len(front \o back) = 3
          /\ (front \o back)[1] = sha /\ (front \o back)[2] = Moving
          /\ (front \o back)[3] = Latest
      BY <2>1, ConcatProperties
    <2>3. <<sha, Moving, Latest>> \in Seq(S)
      OBVIOUS
    <2> HIDE DEF front, back
    <2> DEFINE all == <<sha, Moving, Latest>>
               joined == front \o back
    <2>4. Len(all) = 3 /\ all[1] = sha /\ all[2] = Moving /\ all[3] = Latest
      OBVIOUS
    <2> HIDE DEF all, S
    <2>5. \A i \in 1..3 : joined[i] = all[i]
      <3>1. \A i \in 1..3 : i = 1 \/ i = 2 \/ i = 3
        OBVIOUS
      <3> QED
        BY <2>2, <2>4, <3>1
    <2>6. joined \in Seq(S) /\ all \in Seq(S) /\ Len(joined) = Len(all)
      BY <2>2, <2>3, <2>4 DEF all
    <2> HIDE DEF joined
    <2>7. joined = all
      BY <2>4, <2>5, <2>6, SeqEqual
    <2> QED
      BY <2>7 DEF joined, all, front, back
  <1>2. <<sha, Moving>> \o << >> = <<sha, Moving>>
    OBVIOUS
  <1> QED
    BY <1>1, <1>2 DEF TagsOf

LEMMA PushesAre == Pushes = (IF destination = "ghcr" THEN 3 ELSE 2) * Len(Table)
  <1>1. Len(TagsOf(0)) = IF destination = "ghcr" THEN 3 ELSE 2
    BY TagsAre
  <1> QED
    BY <1>1 DEF Pushes

\* A push is of a component and one of the tags of the commit.
LEMMA PushedType ==
    ASSUME NEW job, job.sha \in Commits, NEW i \in Nat, job.at = i, i < Pushes
    PROVE  /\ Pushed(job).component \in Components
           /\ Pushed(job).tag \in {job.sha, Moving} \union (IF destination = "ghcr" THEN {Latest} ELSE {})
           /\ Pushed(job).tag \in Tags
  <1>1. Len(Table) \in Nat
    BY PublishAssumption
  <1>2. CASE destination = "ghcr"
    <2>1. TagsOf(job.sha) = <<job.sha, Moving, Latest>> /\ Pushes = 3 * Len(Table)
      BY <1>2, TagsAre, PushesAre
    <2>2. i \div 3 + 1 \in 1..Len(Table) /\ (i % 3) + 1 \in 1..3
      BY <1>1, <2>1
    <2>3. Len(TagsOf(job.sha)) = 3
      BY <2>1
    <2>4. Pushed(job) = [component |-> Table[(i \div 3) + 1], tag |-> TagsOf(job.sha)[(i % 3) + 1]]
      BY <2>3 DEF Pushed
    <2>5. TagsOf(job.sha)[(i % 3) + 1] \in {job.sha, Moving, Latest}
      BY <2>1, <2>2
    <2> QED
      BY <1>2, <2>2, <2>4, <2>5, PublishAssumption DEF Components, Tags
  <1>3. CASE destination # "ghcr"
    <2>1. TagsOf(job.sha) = <<job.sha, Moving>> /\ Pushes = 2 * Len(Table)
      BY <1>3, TagsAre, PushesAre
    <2>2. i \div 2 + 1 \in 1..Len(Table) /\ (i % 2) + 1 \in 1..2
      BY <1>1, <2>1
    <2>3. Len(TagsOf(job.sha)) = 2
      BY <2>1
    <2>4. Pushed(job) = [component |-> Table[(i \div 2) + 1], tag |-> TagsOf(job.sha)[(i % 2) + 1]]
      BY <2>3 DEF Pushed
    <2>5. TagsOf(job.sha)[(i % 2) + 1] \in {job.sha, Moving}
      BY <2>1, <2>2
    <2> QED
      BY <1>3, <2>2, <2>4, <2>5, PublishAssumption DEF Components, Tags
  <1> QED
    BY <1>2, <1>3

\* Every tag of every component is pushed by one of them.
LEMMA AllArePushed ==
    ASSUME NEW job \in Jobs, NEW c \in Components,
           NEW tag \in {job.sha, Moving} \union (IF destination = "ghcr" THEN {Latest} ELSE {})
    PROVE  \E i \in 0..(Pushes - 1) :
              Pushed([job EXCEPT !.at = i]) = [component |-> c, tag |-> tag]
  <1>1. PICK j \in 1..Len(Table) : c = Table[j]
    BY PublishAssumption DEF Components
  <1>2. Len(Table) \in Nat
    BY PublishAssumption
  <1>3. ASSUME NEW i \in Nat
        PROVE  /\ [job EXCEPT !.at = i].at = i
               /\ [job EXCEPT !.at = i].sha = job.sha
    BY DEF Jobs
  <1>4. CASE destination = "ghcr"
    <2>1. TagsOf(job.sha) = <<job.sha, Moving, Latest>> /\ Pushes = 3 * Len(Table)
      BY <1>4, TagsAre, PushesAre
    <2>2. Len(TagsOf(job.sha)) = 3
      BY <2>1
    <2>3. PICK k \in 1..3 : TagsOf(job.sha)[k] = tag
      BY <1>4, <2>1
    <2> DEFINE i == 3 * (j - 1) + (k - 1)
    <2>4. i \in 0..(Pushes - 1) /\ i \div 3 = j - 1 /\ i % 3 = k - 1
      BY <1>2, <2>1
    <2>5. i \in Nat
      BY <2>1, <2>4
    <2> HIDE DEF i
    <2>6. Pushed([job EXCEPT !.at = i]) = [component |-> Table[(i \div 3) + 1], tag |-> TagsOf(job.sha)[(i % 3) + 1]]
      BY <1>3, <2>2, <2>5 DEF Pushed
    <2>7. (i \div 3) + 1 = j /\ (i % 3) + 1 = k
      BY <2>4
    <2> QED
      BY <1>1, <2>3, <2>4, <2>6, <2>7
  <1>5. CASE destination # "ghcr"
    <2>1. TagsOf(job.sha) = <<job.sha, Moving>> /\ Pushes = 2 * Len(Table)
      BY <1>5, TagsAre, PushesAre
    <2>2. Len(TagsOf(job.sha)) = 2
      BY <2>1
    <2>3. PICK k \in 1..2 : TagsOf(job.sha)[k] = tag
      BY <1>5, <2>1
    <2> DEFINE i == 2 * (j - 1) + (k - 1)
    <2>4. i \in 0..(Pushes - 1) /\ i \div 2 = j - 1 /\ i % 2 = k - 1
      BY <1>2, <2>1
    <2>5. i \in Nat
      BY <2>1, <2>4
    <2> HIDE DEF i
    <2>6. Pushed([job EXCEPT !.at = i]) = [component |-> Table[(i \div 2) + 1], tag |-> TagsOf(job.sha)[(i % 2) + 1]]
      BY <1>3, <2>2, <2>5 DEF Pushed
    <2>7. (i \div 2) + 1 = j /\ (i % 2) + 1 = k
      BY <2>4
    <2> QED
      BY <1>1, <2>3, <2>4, <2>6, <2>7
  <1> QED
    BY <1>4, <1>5

-----------------------------------------------------------------------------
(***************************************************************************)
(* Steps that no job makes.                                                *)
(***************************************************************************)
LEMMA InitPublish == ASSUME Init PROVE PublishInv
  <1>1. /\ dev = 0 /\ kinds = << >> /\ builds = << >> /\ NoRun = 0
        /\ unbuilt \in BOOLEAN /\ recorded = 0 /\ main.recorded = 0
    <2>1. main.recorded = NoRun
      BY DEF Init
    <2>2. unbuilt \in BOOLEAN
      BY Zenon DEF Init
    <2> QED
      BY <2>1, <2>2 DEF Init, dev, NoRun
  <1>2. MaxCommits \in Nat /\ destination \in Destinations
    BY PublishAssumption DEF Init
  <1>3. CommitsTyped
    BY <1>1, <1>2 DEF CommitsTyped
  <1>4. NoBytes \in Shipped /\ NoJob \in Jobs
    BY <1>1 DEF NoBytes, NoJob, Shipped, Jobs, Steps, Fetched
  <1>5. Typed
    BY <1>1, <1>4 DEF Init, Typed
  <1>6. Published = {}
    BY DEF Init, Published
  <1>7. running.step = "none" /\ running.sha = 0 /\ running.run = 0 /\ running.bytes = NoBytes
    BY <1>1 DEF Init, NoJob
  <1>8. OneBuild /\ Provenance /\ Looked /\ Progress
    BY <1>1, <1>6, <1>7 DEF Init, NoJob, Fetched, OneBuild, Provenance, Looked, Progress
  <1>9. PinnedNamesCommit /\ NothingOfHalfATable /\ PublishedTogether
    <2>1. PinnedNamesCommit
      BY DEF Init, PinnedNamesCommit, Commits, Tags
    <2> QED
      BY <1>1, <2>1 DEF Init, NothingOfHalfATable, PublishedTogether
  <1> QED
    BY <1>3, <1>5, <1>8, <1>9 DEF PublishInv

\* While the job and what it pushes to are left alone, commits are only added
\* and what was granted stays granted, only the queue has to be looked at.
LEMMA Undisturbed ==
    ASSUME PublishInv, CommitsTyped', UNCHANGED <<destination, running, last, registry, wit>>,
           dev <= dev', \A i \in 1..dev : kinds'[i] = kinds[i],
           mains \subseteq mains', dispatched \subseteq dispatched',
           pending' \in 0..dev',
           pending' # pending /\ destination = "production" => Legit(pending', mains', dispatched')
    PROVE  PublishInv'
  <1>1. /\ CommitsTyped /\ Typed /\ OneBuild /\ Provenance /\ Looked /\ Progress
        /\ PinnedNamesCommit /\ NothingOfHalfATable /\ PublishedTogether
    BY DEF PublishInv
  <1>2. dev \in Nat /\ dev' \in Nat /\ dev <= dev'
    BY <1>1, PublishAssumption DEF CommitsTyped
  <1>3. Shipped \subseteq Shipped' /\ Jobs \subseteq Jobs'
    BY <1>2 DEF Shipped, Jobs
  <1>4. Typed'
    <2>1. running' \in Jobs' /\ last' \in Shipped'
      BY <1>1, <1>3 DEF Typed
    <2>2. registry' \in [Components -> [Tags -> Shipped']]
      BY <1>1, <1>3 DEF Typed
    <2>3. wit' \subseteq 1..dev'
      BY <1>1, <1>2 DEF Typed
    <2> QED
      BY <2>1, <2>2, <2>3 DEF Typed, Components, Tags, Commits, Jobs, Shipped
  <1>5. OneBuild'
    BY <1>1, <1>2 DEF OneBuild
  <1>6. \A run : Legit(run, mains, dispatched) => Legit(run, mains', dispatched')
    BY DEF Legit
  <1>7. Published' = Published
    BY DEF Published, Components, Tags, Commits
  <1>8. Provenance'
    BY <1>1, <1>6, <1>7 DEF Provenance
  <1>9. running.step \in Fetched => running.sha \in 1..dev
    BY <1>1 DEF OneBuild, Fetched
  <1>10. Looked'
    BY <1>1, <1>9 DEF Looked, Fetched
  <1>11. Progress'
    BY <1>1 DEF Progress, Written, Pushes, Pushed, TagsOf
  <1>12. PinnedNamesCommit'
    BY <1>1 DEF PinnedNamesCommit, Components, Commits
  <1>13. NothingOfHalfATable'
    <2> SUFFICES ASSUME NEW sha \in DOMAIN kinds'
                 PROVE  /\ Untabled(kinds'[sha]) \union Unversioned(kinds'[sha]) # {}
                                => \A b \in Published : b.run # sha
                        /\ Untabled(kinds'[sha]) # {} => sha \notin wit
      BY <1>7 DEF NothingOfHalfATable
    <2>1. DOMAIN kinds = 1..dev /\ DOMAIN kinds' = 1..dev'
      BY <1>1 DEF CommitsTyped, dev
    <2>2. CASE sha \in 1..dev
      BY <1>1, <2>1, <2>2 DEF NothingOfHalfATable
    <2>3. CASE sha \notin 1..dev
      <3>1. \A b \in Published : b.run \in 0..dev
        BY <1>1 DEF Published, Typed, Shipped
      <3>2. sha # 0 /\ sha \notin 0..dev
        BY <1>2, <2>1, <2>3
      <3> QED
        BY <1>1, <2>3, <3>1, <3>2 DEF Typed
    <2> QED
      BY <2>2, <2>3
  <1>14. PublishedTogether'
    BY <1>1 DEF PublishedTogether, Components
  <1> QED
    BY <1>4, <1>5, <1>8, <1>10, <1>11, <1>12, <1>13, <1>14 DEF PublishInv

LEMMA PushPublish == ASSUME PublishInv, Push PROVE PublishInv'
  <1>1. CommitsTyped /\ Typed
    BY DEF PublishInv
  <1>2. PICK kind \in DOMAIN Made : kinds' = Append(kinds, kind)
    BY DEF Push
  <1>3. dev \in Nat /\ MaxCommits \in Nat /\ dev < MaxCommits
    BY <1>1, PublishAssumption DEF Push, CommitsTyped
  <1>4. kinds' \in Seq(DOMAIN Made) /\ dev' = dev + 1 /\ \A i \in 1..dev : kinds'[i] = kinds[i]
    BY <1>1, <1>2, AppendProperties DEF CommitsTyped, dev
  <1>5. /\ builds' \in Seq(Runs)
        /\ Len(builds') = dev'
    <2>1. [state |-> "running", attempt |-> 1, artifact |-> 0] \in Runs
      BY DEF Runs
    <2> QED
      BY <1>1, <1>4, <2>1, AppendProperties DEF CommitsTyped, Push
  <1>6. CommitsTyped'
    <2>1. unbuilt' \in BOOLEAN /\ UNCHANGED <<destination, recorded, main>>
      BY Zenon DEF Push
    <2> QED
      BY <1>1, <1>3, <1>4, <1>5, <2>1 DEF CommitsTyped
  <1> QED
    <2>1. pending' = pending /\ pending' \in 0..dev' /\ dev <= dev'
      BY <1>1, <1>3, <1>4 DEF Push, requests, Typed
    <2>2. UNCHANGED <<destination, running, last, registry, wit, mains, dispatched>>
      BY DEF Push, requests
    <2> QED
      BY <1>4, <1>6, <2>1, <2>2, Undisturbed

LEMMA IgnoredPublish == ASSUME PublishInv, PushIgnored PROVE PublishInv'
  <1>1. CommitsTyped /\ Typed
    BY DEF PublishInv
  <1>2. /\ UNCHANGED <<destination, kinds, builds, recorded, main, mains, pending, running, last, registry,
                      wit, dispatched>>
        /\ unbuilt' = TRUE /\ dev' = dev /\ dev \in Nat
    BY <1>1, PublishAssumption DEF PushIgnored, requests, dev, CommitsTyped
  <1>3. CommitsTyped'
    BY <1>1, <1>2 DEF CommitsTyped
  <1> QED
    BY <1>1, <1>2, <1>3, Undisturbed DEF Typed

\* Build runs change one record of builds.
LEMMA BuildsType ==
    ASSUME CommitsTyped, NEW run \in DOMAIN builds,
           NEW b \in Runs, builds' = [builds EXCEPT ![run] = b],
           UNCHANGED commits, recorded' \in 0..dev, main' = main
    PROVE  CommitsTyped'
  <1>1. /\ builds' \in Seq(Runs)
        /\ Len(builds') = Len(builds)
    BY DEF CommitsTyped
  <1> QED
    BY <1>1 DEF CommitsTyped, commits, dev

LEMMA BuildPublish ==
    ASSUME PublishInv, NEW run \in DOMAIN builds,
           (\E released \in BOOLEAN : BuildSucceeds(run, released)) \/ BuildFails(run) \/ Rerun(run)
    PROVE  PublishInv'
  <1>1. CommitsTyped /\ Typed /\ run \in 1..dev
    BY DEF PublishInv, CommitsTyped
  <1>2. /\ builds[run] \in Runs
        /\ builds[run].attempt \in Nat /\ builds[run].artifact \in Nat
    <2>1. builds[run] \in Runs
      BY <1>1, ElementOfSeq DEF CommitsTyped
    <2> QED
      BY <2>1 DEF Runs
  <1>3. PICK b \in Runs : builds' = [builds EXCEPT ![run] = b]
    <2> DEFINE ended(state) == [builds[run] EXCEPT !.state = state, !.artifact = builds[run].attempt]
               failed == [builds[run] EXCEPT !.state = "failed"]
               again == [builds[run] EXCEPT !.state = "running", !.attempt = builds[run].attempt + 1]
    <2>1. ended("success") \in Runs /\ ended("failed") \in Runs /\ failed \in Runs /\ again \in Runs
      <3>1. \A state \in {"success", "failed"} : ended(state) \in Runs
        BY <1>2 DEF Runs
      <3>2. failed \in Runs
        BY <1>2 DEF Runs
      <3>3. again \in Runs
        <4> DEFINE b == builds[run]
        <4>1. b \in Runs /\ b.attempt + 1 \in Nat
          BY <1>2
        <4> HIDE DEF b
        <4>2. [b EXCEPT !.state = "running", !.attempt = b.attempt + 1] \in Runs
          BY <4>1 DEF Runs
        <4> QED
          BY <4>2 DEF b
      <3> QED
        BY <3>1, <3>2, <3>3
    <2>2. \/ builds' = [builds EXCEPT ![run] = ended("success")]
          \/ builds' = [builds EXCEPT ![run] = ended("failed")]
          \/ builds' = [builds EXCEPT ![run] = failed]
          \/ builds' = [builds EXCEPT ![run] = again]
      BY <1>2 DEF BuildSucceeds, BuildFails, Rerun, Upload
    <2> QED
      BY <2>1, <2>2
  <1>4. recorded' \in 0..dev /\ main' = main /\ UNCHANGED <<commits, running, last, registry, wit, mains, dispatched>>
    BY <1>1 DEF BuildSucceeds, BuildFails, Rerun, requests, CommitsTyped
  <1>5. CommitsTyped'
    BY <1>1, <1>3, <1>4, BuildsType
  <1>6. pending' = pending \/ (pending' = run /\ destination # "production")
    BY DEF BuildSucceeds, BuildFails, Rerun, requests, Enqueue
  <1>7. dev' = dev /\ kinds' = kinds /\ destination' = destination /\ dev \in Nat
    BY <1>1, <1>4, PublishAssumption DEF commits, dev, CommitsTyped
  <1> QED
    BY <1>1, <1>4, <1>5, <1>6, <1>7, Undisturbed DEF Typed

LEMMA DispatchPublish ==
    ASSUME PublishInv, NEW run \in DOMAIN builds, Dispatch(run)
    PROVE  PublishInv'
  <1>1. CommitsTyped /\ Typed /\ run \in 1..dev
    BY DEF PublishInv, CommitsTyped
  <1>2. /\ UNCHANGED <<destination, kinds, unbuilt, builds, recorded, main, mains, running, last, registry, wit>>
        /\ dev' = dev /\ dev \in Nat /\ pending' = run /\ dispatched' = dispatched \union {run}
    BY <1>1, PublishAssumption DEF Dispatch, commits, dev, Enqueue, CommitsTyped
  <1>3. CommitsTyped' /\ Legit(pending', mains', dispatched')
    BY <1>1, <1>2 DEF CommitsTyped, Legit
  <1> QED
    BY <1>1, <1>2, <1>3, Undisturbed

LEMMA MainPublish ==
    ASSUME PublishInv, NEW sources, NEW run \in 0..dev, PushMain(sources, run)
    PROVE  PublishInv'
  <1>1. CommitsTyped /\ Typed
    BY DEF PublishInv
  <1>2. /\ UNCHANGED <<destination, kinds, unbuilt, builds, recorded, running, last, registry, wit, dispatched>>
        /\ dev' = dev /\ dev \in Nat /\ mains' = mains \union {main'}
        /\ main' = [sources |-> sources, recorded |-> run]
    BY <1>1, PublishAssumption DEF PushMain, commits, dev, CommitsTyped
  <1>3. CommitsTyped'
    BY <1>1, <1>2 DEF CommitsTyped
  <1>4. pending' = pending \/ (pending' = run /\ main'.sources = SourcesOf(run))
    BY <1>2 DEF PushMain, HasNothingMissing, Enqueue
  <1>5. pending' # pending => Legit(pending', mains', dispatched')
    BY <1>2, <1>4 DEF Legit
  <1> QED
    BY <1>1, <1>2, <1>3, <1>4, <1>5, Undisturbed DEF Typed

-----------------------------------------------------------------------------
(***************************************************************************)
(* Steps of the job.                                                       *)
(***************************************************************************)
Aside == <<commits, builds, recorded, main, mains, dispatched>>

LEMMA AsideKept ==
    ASSUME PublishInv, UNCHANGED Aside
    PROVE  /\ CommitsTyped' /\ dev' = dev /\ Shipped' = Shipped /\ Jobs' = Jobs
           /\ UNCHANGED <<destination, kinds, builds, mains, dispatched>>
           /\ dev \in Nat /\ NoJob \in Jobs /\ NoJob.step = "none" /\ NoBytes \in Shipped
  <1>1. UNCHANGED <<destination, kinds, unbuilt, builds, recorded, main, mains, dispatched>> /\ dev' = dev
    BY DEF Aside, commits, dev
  <1>2. dev \in Nat
    BY PublishAssumption DEF PublishInv, CommitsTyped
  <1>3. NoJob \in Jobs /\ NoJob.step = "none" /\ NoBytes \in Shipped
    BY <1>2 DEF NoJob, NoBytes, NoRun, Jobs, Shipped, Steps, Fetched
  <1> QED
    BY <1>1, <1>2, <1>3 DEF PublishInv, CommitsTyped, Shipped, Jobs

LEMMA StartPublish == ASSUME PublishInv, Start PROVE PublishInv'
  <1>1. /\ CommitsTyped /\ Typed /\ OneBuild /\ Provenance /\ Looked /\ Progress
        /\ PinnedNamesCommit /\ NothingOfHalfATable /\ PublishedTogether
    BY DEF PublishInv
  <1>2. /\ CommitsTyped' /\ dev' = dev /\ Shipped' = Shipped /\ Jobs' = Jobs /\ dev \in Nat
        /\ UNCHANGED <<destination, kinds, mains, dispatched>> /\ NoBytes \in Shipped
    BY AsideKept DEF Start, Aside
  <1>3. pending \in 1..dev /\ pending' = 0 /\ NoRun = 0 /\ UNCHANGED <<last, registry, wit>>
    BY <1>1, <1>2 DEF Start, Typed, NoRun
  <1>4. running' = [run |-> pending, sha |-> 0, bytes |-> NoBytes, step |-> "find", at |-> 0, ok |-> TRUE]
    BY DEF Start, NoJob
  <1>5. running'.run = pending /\ running'.step = "find" /\ running'.bytes = NoBytes /\ running'.at = 0
    BY <1>4
  <1>6. running' \in Jobs
    BY <1>2, <1>3, <1>4 DEF Jobs, Steps
  <1>7. Typed'
    <2>1. registry' \in [Components' -> [Tags' -> Shipped']] /\ last' \in Shipped'
      BY <1>1, <1>2, <1>3 DEF Typed, Components, Tags, Commits
    <2>2. pending' \in 0..dev' /\ wit' \subseteq 1..dev'
      BY <1>1, <1>2, <1>3 DEF Typed
    <2> QED
      BY <1>2, <1>6, <2>1, <2>2 DEF Typed, Jobs, Shipped
  <1>8. OneBuild' /\ Looked' /\ Progress'
    BY <1>1, <1>2, <1>3, <1>5 DEF OneBuild, Fetched, Looked, Progress
  <1>9. Published' = Published
    BY <1>3 DEF Published, Components, Tags, Commits
  <1>10. Provenance'
    BY <1>1, <1>2, <1>3, <1>5, <1>9 DEF Provenance
  <1>11. PinnedNamesCommit' /\ NothingOfHalfATable'
    BY <1>1, <1>2, <1>3, <1>9 DEF PinnedNamesCommit, NothingOfHalfATable, Components, Commits
  <1>12. running' # NoJob
    BY <1>5 DEF NoJob
  <1> QED
    BY <1>2, <1>7, <1>8, <1>10, <1>11, <1>12 DEF PublishInv, PublishedTogether

\* A job that ends leaves what it promised, if it ends well.
LEMMA Ended ==
    ASSUME PublishInv, UNCHANGED <<Aside, pending, registry>>, running.step # "none",
           wit' \in SUBSET (1..dev), running' = NoJob, last' \in {NoBytes, running.bytes},
           \A sha \in wit' \ wit : Untabled(kinds[sha]) = {},
           last' # NoBytes => PublishedTogether'
    PROVE  PublishInv'
  <1>1. /\ CommitsTyped /\ Typed /\ OneBuild /\ Provenance
        /\ PinnedNamesCommit /\ NothingOfHalfATable
    BY DEF PublishInv
  <1>2. /\ CommitsTyped' /\ dev' = dev /\ Shipped' = Shipped /\ Jobs' = Jobs /\ dev \in Nat
        /\ UNCHANGED <<destination, kinds, mains, dispatched>> /\ NoJob \in Jobs /\ NoJob.step = "none"
        /\ NoBytes \in Shipped
    BY AsideKept
  <1>3. Typed'
    <2>1. last' \in Shipped
      BY <1>1, <1>2 DEF Typed, Jobs
    <2>2. registry \in [Components -> [Tags -> Shipped]] /\ pending \in 0..dev
      BY <1>1 DEF Typed
    <2> QED
      BY <1>2, <2>1, <2>2 DEF Typed, Components, Tags, Commits
  <1>4. running'.sha = running'.run /\ running'.bytes = NoBytes /\ running'.at = 0
    BY DEF NoJob, NoRun
  <1>5. OneBuild' /\ Looked' /\ Progress'
    <2>1. last' # NoBytes => last'.run \in 1..dev
      BY <1>1 DEF OneBuild
    <2> QED
      BY <1>1, <1>2, <1>4, <2>1 DEF OneBuild, Fetched, Looked, Progress
  <1>6. Published' = Published
    BY DEF Published, Components, Tags, Commits
  <1>7. Provenance'
    BY <1>1, <1>2, <1>6 DEF Provenance
  <1>8. PinnedNamesCommit' /\ NothingOfHalfATable'
    BY <1>1, <1>2, <1>6 DEF PinnedNamesCommit, NothingOfHalfATable, Components, Commits
  <1>9. PublishedTogether'
    BY DEF PublishedTogether
  <1> QED
    BY <1>2, <1>3, <1>5, <1>7, <1>8, <1>9 DEF PublishInv

\* A job goes on, and its progress is that of the steps it has done.
LEMMA GoesOn ==
    ASSUME PublishInv, UNCHANGED <<Aside, pending, registry, last>>, running.step # "none",
           wit' \in SUBSET (1..dev), \A sha \in wit' \ wit : Untabled(kinds[sha]) = {},
           running' \in Jobs, running'.run = running.run, running'.sha = running.run,
           running'.step \notin {"none", "find"},
           IF running'.step \in Fetched THEN running'.bytes.run = running.run ELSE running'.bytes = NoBytes,
           Looked', Progress'
    PROVE  PublishInv'
  <1>1. /\ CommitsTyped /\ Typed /\ OneBuild /\ Provenance
        /\ PinnedNamesCommit /\ NothingOfHalfATable
    BY DEF PublishInv
  <1>2. /\ CommitsTyped' /\ dev' = dev /\ Shipped' = Shipped /\ Jobs' = Jobs /\ dev \in Nat
        /\ UNCHANGED <<destination, kinds, mains, dispatched>> /\ NoJob.step = "none"
    BY AsideKept
  <1>4. Typed'
    BY <1>1, <1>2 DEF Typed, Components, Tags, Commits
  <1>5. OneBuild'
    BY <1>1, <1>2 DEF OneBuild
  <1>6. Published' = Published
    BY DEF Published, Components, Tags, Commits
  <1>7. Provenance'
    BY <1>1, <1>2, <1>6 DEF Provenance
  <1>8. PinnedNamesCommit' /\ NothingOfHalfATable'
    BY <1>1, <1>2, <1>6 DEF PinnedNamesCommit, NothingOfHalfATable, Components, Commits
  <1>9. PublishedTogether'
    BY <1>2 DEF PublishedTogether
  <1> QED
    BY <1>2, <1>4, <1>5, <1>7, <1>8, <1>9 DEF PublishInv

LEMMA FindPublish == ASSUME PublishInv, FindCommit PROVE PublishInv'
  <1>1. /\ Typed /\ OneBuild /\ running.step = "find" /\ running.at = 0 /\ running.run \in 1..dev
        /\ UNCHANGED <<Aside, pending, registry>> /\ wit' = wit
    BY DEF PublishInv, OneBuild, Progress, FindCommit, Aside, commits
  <1>2. CASE Ends(NoBytes)
    <2>1. last' = NoBytes /\ running' = NoJob
      BY <1>2 DEF Ends
    <2> QED
      BY <1>1, <2>1, Ended DEF Typed
  <1>3. CASE ~Ends(NoBytes)
    <2> DEFINE job == [running EXCEPT !.sha = running.run]
    <2>1. /\ running' = [job EXCEPT !.step = "download"] /\ last' = last
          /\ job \in Jobs /\ job.run = running.run /\ job.sha = running.run
          /\ job.bytes = running.bytes /\ job.at = 0
      BY <1>1, <1>3 DEF FindCommit, HeadSha, Typed, Jobs
    <2> HIDE DEF job
    <2>2. /\ running' \in Jobs /\ running'.run = running.run /\ running'.sha = running.run
          /\ running'.bytes = running.bytes /\ running'.at = 0 /\ running'.step = "download"
      BY <2>1 DEF Jobs, Steps
    <2>3. running'.bytes = NoBytes
      BY <1>1, <2>2 DEF OneBuild, Fetched
    <2>4. Looked' /\ Progress'
      BY <2>2 DEF Looked, Progress
    <2> QED
      BY <1>1, <2>1, <2>2, <2>3, <2>4, GoesOn DEF Typed, Fetched
  <1> QED
    BY <1>2, <1>3

LEMMA DownloadPublish == ASSUME PublishInv, Download PROVE PublishInv'
  <1>1. /\ CommitsTyped /\ Typed /\ running.step = "download" /\ running.at = 0
        /\ running.run \in 1..dev /\ running.sha = running.run
        /\ UNCHANGED <<Aside, pending, registry>> /\ wit' = wit
    BY DEF PublishInv, OneBuild, Progress, Download, Aside, commits
  <1>2. CASE Ends(NoBytes)
    <2>1. last' = NoBytes /\ running' = NoJob
      BY <1>2 DEF Ends
    <2> QED
      BY <1>1, <2>1, Ended DEF Typed
  <1>3. CASE ~Ends(NoBytes)
    <2> DEFINE fetched == Bytes(running.run)
               job == [running EXCEPT !.bytes = fetched]
    <2>1. fetched \in Shipped /\ fetched.run = running.run
      <3>1. running.run \in 1..Len(builds)
        BY <1>1 DEF CommitsTyped
      <3>2. builds[running.run] \in Runs
        BY <1>1, <3>1, ElementOfSeq DEF CommitsTyped
      <3> QED
        BY <1>1, <3>2 DEF Bytes, Shipped, Runs
    <2>2. running' = [running EXCEPT !.bytes = fetched, !.step = "check"] /\ last' = last
      BY <1>3 DEF Download
    <2> HIDE DEF fetched
    <2>3. /\ running' = [job EXCEPT !.step = "check"]
          /\ job \in Jobs /\ job.run = running.run /\ job.sha = running.run
          /\ job.bytes = fetched /\ job.at = 0
      BY <1>1, <2>1, <2>2 DEF Typed, Jobs
    <2> HIDE DEF job
    <2>4. /\ running' \in Jobs /\ running'.run = running.run /\ running'.sha = running.run
          /\ running'.bytes.run = running.run /\ running'.at = 0 /\ running'.step = "check"
      BY <2>1, <2>3 DEF Jobs, Steps, Fetched
    <2>5. Looked' /\ Progress'
      BY <2>4 DEF Looked, Progress
    <2> QED
      BY <1>1, <2>2, <2>4, <2>5, GoesOn DEF Typed, Fetched
  <1> QED
    BY <1>2, <1>3

LEMMA CheckPublish == ASSUME PublishInv, Check PROVE PublishInv'
  <1>1. /\ Typed /\ Looked /\ running.step = "check" /\ running.at = 0 /\ kinds' = kinds /\ destination' = destination
        /\ running.sha = running.run /\ running.bytes.run = running.run
        /\ UNCHANGED <<Aside, pending, registry>> /\ wit' = wit
    BY DEF PublishInv, OneBuild, Fetched, Progress, Check, Aside, commits
  <1>2. CASE Ends(NoBytes)
    <2>1. last' = NoBytes /\ running' = NoJob
      BY <1>2 DEF Ends
    <2> QED
      BY <1>1, <2>1, Ended DEF Typed
  <1>3. CASE ~Ends(NoBytes)
    <2> DEFINE step == IF destination = "ghcr" THEN "plan" ELSE "wit"
    <2>1. /\ running' = [running EXCEPT !.step = step] /\ last' = last
          /\ Untabled(kinds[running.sha]) = {}
      BY <1>3 DEF Check, EveryComponentIsTabled
    <2>2. /\ running' \in Jobs /\ running'.run = running.run /\ running'.sha = running.sha
          /\ running'.bytes = running.bytes /\ running'.at = running.at
          /\ running'.step = step /\ step \in {"wit", "plan"}
      BY <1>1, <2>1 DEF Typed, Jobs, Steps, Fetched
    <2>3. Looked' /\ Progress'
      BY <1>1, <2>1, <2>2 DEF Looked, Progress
    <2> QED
      BY <1>1, <2>1, <2>2, <2>3, GoesOn DEF Typed, Fetched
  <1> QED
    BY <1>2, <1>3

LEMMA WitPublish == ASSUME PublishInv, PushWitPackages PROVE PublishInv'
  <1>1. /\ Typed /\ Looked /\ running.step = "wit" /\ running.at = 0 /\ kinds' = kinds /\ destination' = destination
        /\ UNCHANGED <<Aside, pending, registry>>
    BY DEF PublishInv, Progress, PushWitPackages, Aside, commits
  <1>2. /\ running.sha \in 1..dev /\ Untabled(kinds[running.sha]) = {}
        /\ running.sha = running.run /\ running.bytes.run = running.run
    BY <1>1 DEF PublishInv, OneBuild, Fetched, Looked
  <1>3. wit' \in {wit, {running.sha}, wit \union {running.sha}}
    BY DEF PushWitPackages
  <1>4. wit' \in SUBSET (1..dev) /\ \A sha \in wit' \ wit : Untabled(kinds[sha]) = {}
    BY <1>1, <1>2, <1>3 DEF Typed
  <1>5. CASE Ends(NoBytes)
    <2>1. last' = NoBytes /\ running' = NoJob
      BY <1>5 DEF Ends
    <2> QED
      BY <1>1, <1>4, <2>1, Ended
  <1>6. CASE ~Ends(NoBytes)
    <2>1. running' = [running EXCEPT !.step = "plan"] /\ last' = last /\ wit' = {running.sha}
      BY <1>6 DEF PushWitPackages
    <2>2. /\ running' \in Jobs /\ running'.run = running.run /\ running'.sha = running.sha
          /\ running'.bytes = running.bytes /\ running'.at = running.at /\ running'.step = "plan"
      BY <1>1, <2>1 DEF Typed, Jobs, Steps, Fetched
    <2>3. Looked' /\ Progress'
      BY <1>1, <1>2, <2>1, <2>2 DEF Looked, Progress
    <2> QED
      BY <1>1, <1>2, <1>4, <2>1, <2>2, <2>3, GoesOn DEF Fetched
  <1> QED
    BY <1>5, <1>6

LEMMA PlanPublish == ASSUME PublishInv, Plan PROVE PublishInv'
  <1>1. /\ Typed /\ Looked /\ Progress /\ running.step = "plan" /\ running.at = 0 /\ kinds' = kinds /\ destination' = destination
        /\ UNCHANGED <<Aside, pending, registry>> /\ wit' = wit /\ wit \in SUBSET (1..dev)
        /\ running.sha = running.run /\ running.bytes.run = running.run
    BY DEF PublishInv, OneBuild, Fetched, Progress, Plan, Aside, commits, Typed
  <1>2. CASE Unversioned(kinds[running.sha]) # {}
    <2>1. last' = NoBytes /\ running' = NoJob
      BY <1>2 DEF Plan, Ends
    <2> QED
      BY <1>1, <2>1, Ended
  <1>3. CASE Unversioned(kinds[running.sha]) = {}
    <2>1. running' = [running EXCEPT !.step = "push"] /\ last' = last
      BY <1>3 DEF Plan
    <2>2. /\ running' \in Jobs /\ running'.run = running.run /\ running'.sha = running.sha
          /\ running'.bytes = running.bytes /\ running'.at = 0 /\ running'.step = "push"
      BY <1>1, <2>1 DEF Typed, Jobs, Steps, Fetched
    <2>3. Looked'
      BY <1>1, <1>3, <2>2 DEF Looked
    <2>4. Progress'
      <3>1. Pushes' \in Nat
        BY <1>1, PushesAre, PublishAssumption DEF Pushes, TagsOf
      <3> QED
        BY <1>1, <2>2, <3>1 DEF Progress
    <2> QED
      BY <1>1, <2>1, <2>2, <2>3, <2>4, GoesOn DEF Fetched
  <1> QED
    BY <1>2, <1>3

LEMMA FailPublish == ASSUME PublishInv, PushFails PROVE PublishInv'
  <1>1. /\ Typed /\ Looked /\ Progress /\ running.step = "push" /\ running.at < Pushes
        /\ kinds' = kinds /\ destination' = destination
        /\ UNCHANGED <<Aside, pending, registry, last>> /\ wit' = wit /\ wit \in SUBSET (1..dev)
        /\ running.sha = running.run /\ running.bytes.run = running.run
    BY DEF PublishInv, OneBuild, Fetched, PushFails, Aside, commits, Typed
  <1>2. running' = [running EXCEPT !.at = running.at + 1, !.ok = FALSE]
    BY <1>1 DEF PushFails
  <1>3. /\ running' \in Jobs /\ running'.run = running.run /\ running'.sha = running.sha
        /\ running'.bytes = running.bytes /\ running'.step = "push"
        /\ running'.at = running.at + 1 /\ ~running'.ok
    <2> DEFINE job == [running EXCEPT !.at = running.at + 1]
    <2>1. /\ job \in Jobs /\ job.run = running.run /\ job.sha = running.sha
          /\ job.bytes = running.bytes /\ job.step = "push" /\ job.at = running.at + 1
      BY <1>1 DEF Typed, Jobs
    <2>2. running' = [job EXCEPT !.ok = FALSE]
      BY <1>1, <1>2 DEF Typed, Jobs
    <2> HIDE DEF job
    <2>3. /\ running' \in Jobs /\ running'.run = job.run /\ running'.sha = job.sha
          /\ running'.bytes = job.bytes /\ running'.step = job.step
          /\ running'.at = job.at /\ running'.ok = FALSE
      BY <2>1, <2>2 DEF Jobs
    <2> QED
      BY <2>1, <2>3
  <1>4. Pushes' = Pushes /\ Pushes \in Nat /\ running.at \in Nat
    BY <1>1, PushesAre, PublishAssumption DEF Pushes, TagsOf, Typed, Jobs
  <1>5. Looked' /\ Progress'
    BY <1>1, <1>3, <1>4 DEF Looked, Progress
  <1> QED
    BY <1>1, <1>3, <1>5, GoesOn DEF Fetched

LEMMA ImagePublish == ASSUME PublishInv, PushImage PROVE PublishInv'
  <1> DEFINE p == Pushed(running)
  <1>1. /\ Typed /\ OneBuild /\ Provenance /\ Looked /\ Progress
        /\ PinnedNamesCommit /\ NothingOfHalfATable
        /\ running.step = "push" /\ running.at < Pushes /\ running.at \in Nat
    BY DEF PublishInv, PushImage, Typed, Jobs
  <1>2. /\ CommitsTyped' /\ dev' = dev /\ Shipped' = Shipped /\ Jobs' = Jobs /\ dev \in Nat
        /\ UNCHANGED <<destination, kinds, mains, dispatched>> /\ NoJob.step = "none"
    BY AsideKept DEF PushImage, Aside
  <1>3. /\ registry' = [registry EXCEPT ![p.component][p.tag] = running.bytes]
        /\ running' = [running EXCEPT !.at = running.at + 1]
        /\ UNCHANGED <<pending, last, wit>>
    BY <1>1 DEF PushImage
  <1>4. running.sha \in 1..dev /\ running.sha \in Commits /\ running.bytes.run = running.sha
    BY <1>1, <1>2, PublishAssumption DEF OneBuild, Fetched, PublishInv, CommitsTyped, Commits
  <1>5. p.component \in Components /\ p.tag \in Tags /\ p.tag \in {running.sha, Moving, Latest}
    BY <1>1, <1>4, PushedType
  <1> HIDE DEF p
  <1>6. /\ running' \in Jobs /\ running'.run = running.run /\ running'.sha = running.sha
        /\ running'.bytes = running.bytes /\ running'.step = "push"
        /\ running'.at = running.at + 1 /\ running'.ok = running.ok /\ running.bytes \in Shipped
    BY <1>1, <1>3 DEF Typed, Jobs
  <1>7. \A c \in Components, t \in Tags : registry'[c][t] =
            IF c = p.component /\ t = p.tag THEN running.bytes ELSE registry[c][t]
    BY <1>1, <1>3, <1>5 DEF Typed
  <1>8. Typed'
    <2>1. registry' \in [Components' -> [Tags' -> Shipped']]
      BY <1>1, <1>2, <1>3, <1>6 DEF Typed, Components, Tags, Commits
    <2>2. last' \in Shipped' /\ pending' \in 0..dev' /\ wit' \subseteq 1..dev'
      BY <1>1, <1>2, <1>3 DEF Typed
    <2> QED
      BY <1>2, <1>6, <2>1, <2>2 DEF Typed, Jobs, Shipped
  <1>9. OneBuild' /\ Looked'
    BY <1>1, <1>2, <1>3, <1>6 DEF OneBuild, Looked
  <1>10. \A b \in Published' : b \in Published \/ b = running.bytes
    BY <1>7 DEF Published, Components, Tags, Commits
  <1>11. Provenance'
    BY <1>1, <1>2, <1>3, <1>6, <1>10 DEF Provenance, OneBuild, Fetched
  <1>12. PinnedNamesCommit'
    <2>1. Moving \notin Commits /\ Latest \notin Commits
      BY PublishAssumption DEF Moving, Latest, Commits
    <2> QED
      BY <1>1, <1>4, <1>5, <1>7, <2>1 DEF PinnedNamesCommit, Tags, Components, Commits
  <1>13. NothingOfHalfATable'
    BY <1>1, <1>2, <1>3, <1>4, <1>10 DEF NothingOfHalfATable, Looked
  <1>14. Progress'
    <2>1. Pushes' = Pushes /\ Pushes \in Nat
      BY <1>2, PushesAre, PublishAssumption DEF Pushes, TagsOf
    <2>2. ASSUME NEW i \in 0..running.at, running.ok PROVE Written(i)'
      <3> DEFINE q == Pushed([running EXCEPT !.at = i])
      <3>1. i < Pushes /\ i \in Nat
        BY <1>1, <2>1
      <3>2. [running EXCEPT !.at = i].sha = running.sha /\ [running EXCEPT !.at = i].at = i
        BY <1>1 DEF Typed, Jobs
      <3>3. q.component \in Components /\ q.tag \in Tags
        BY <1>4, <3>1, <3>2, PushedType
      <3>4. i = running.at => q = p
        BY <3>2 DEF p, Pushed
      <3>5. i # running.at => registry[q.component][q.tag] = running.bytes
        BY <1>1, <2>2 DEF Progress, Written
      <3>6. Pushed([running EXCEPT !.at = i])' = q
        <4>1. [running' EXCEPT !.at = i].sha = running.sha /\ [running' EXCEPT !.at = i].at = i
          BY <1>6 DEF Jobs
        <4> QED
          BY <1>2, <3>2, <4>1 DEF Pushed, TagsOf
      <3> HIDE DEF q
      <3>7. registry'[q.component][q.tag] = running.bytes
        BY <1>7, <3>3, <3>4, <3>5
      <3> QED
        BY <1>6, <3>6, <3>7 DEF Written
    <2> QED
      BY <1>1, <1>2, <1>3, <1>6, <2>1, <2>2 DEF Progress
  <1>15. PublishedTogether'
    BY <1>2, <1>6 DEF PublishedTogether
  <1> QED
    BY <1>2, <1>8, <1>9, <1>11, <1>12, <1>13, <1>14, <1>15 DEF PublishInv

\* All pushes were made, and none failed: every tag has the bytes of the job.
LEMMA FinishPublish == ASSUME PublishInv, Finish PROVE PublishInv'
  <1>1. /\ Typed /\ OneBuild /\ Progress /\ running.step = "push" /\ running.at = Pushes
        /\ destination' = destination /\ running \in Jobs /\ running.ok \in BOOLEAN
        /\ UNCHANGED <<Aside, pending, registry>> /\ wit' = wit /\ wit \in SUBSET (1..dev)
    BY DEF PublishInv, Finish, Aside, commits, Typed, Jobs
  <1>2. running' = NoJob /\ last' = IF running.ok THEN running.bytes ELSE NoBytes
    BY DEF Finish, Ends
  <1>3. ASSUME running.ok PROVE PublishedTogether'
    <2>1. ASSUME NEW c \in Components,
                 NEW t \in {running.sha, Moving} \union (IF destination = "ghcr" THEN {Latest} ELSE {})
          PROVE  registry[c][t] = running.bytes
      <3>1. PICK i \in 0..(Pushes - 1) : Pushed([running EXCEPT !.at = i]) = [component |-> c, tag |-> t]
        BY <1>1, AllArePushed
      <3>2. Written(i)
        BY <1>1, <1>3 DEF Progress
      <3> QED
        BY <3>1, <3>2 DEF Written
    <2>2. running.bytes.run = running.sha /\ last' = running.bytes
      BY <1>1, <1>2, <1>3 DEF OneBuild, Fetched
    <2>3. destination # "ghcr" => wit = {running.sha}
      BY <1>1 DEF Progress
    <2> QED
      BY <1>1, <1>2, <2>1, <2>2, <2>3 DEF PublishedTogether, Components
  <1> QED
    BY <1>1, <1>2, <1>3, Ended

-----------------------------------------------------------------------------
LEMMA PublishStep == PublishInv /\ [Next]_vars => PublishInv'
  <1> SUFFICES ASSUME PublishInv, [Next]_vars PROVE PublishInv'
    OBVIOUS
  <1>1. dev \in Nat /\ recorded \in 0..dev /\ main.recorded \in 0..dev
    BY PublishAssumption DEF PublishInv, CommitsTyped
  <1>2. CASE Push \/ PushIgnored
    BY <1>2, PushPublish, IgnoredPublish
  <1>3. CASE Merge \/ Hotfix
    BY <1>1, <1>3, MainPublish DEF Merge, Hotfix
  <1>4. CASE \E run \in DOMAIN builds :
               (\E released \in BOOLEAN : BuildSucceeds(run, released)) \/ BuildFails(run) \/ Rerun(run)
    BY <1>4, BuildPublish
  <1>5. CASE \E run \in DOMAIN builds : Dispatch(run)
    BY <1>5, DispatchPublish
  <1>6. CASE Job
    BY <1>6, StartPublish, FindPublish, DownloadPublish, CheckPublish, WitPublish, PlanPublish, FailPublish, ImagePublish,
       FinishPublish DEF Job
  <1>7. CASE UNCHANGED vars
    <2>1. UNCHANGED <<Aside, destination, running, last, registry, wit, pending>>
      BY <1>7 DEF vars, requests, Aside, commits
    <2>2. CommitsTyped' /\ dev' = dev /\ UNCHANGED <<kinds, mains, dispatched>>
      BY <2>1, AsideKept DEF Aside
    <2> QED
      BY <1>1, <2>1, <2>2, Undisturbed DEF PublishInv, Typed
  <1> QED
    BY <1>2, <1>3, <1>4, <1>5, <1>6, <1>7 DEF Next

LEMMA PublishInvariant == Spec => []PublishInv
  BY InitPublish, PublishStep, PTL DEF Spec

\* A pinned tag never names another commit than that of its bytes.
THEOREM Pinned == Spec => []PinnedNamesCommit
  <1>1. PublishInv => PinnedNamesCommit
    BY DEF PublishInv
  <1> QED
    BY <1>1, PublishInvariant, PTL

\* Nothing of a commit that cannot be published whole is published.
THEOREM NoHalf == Spec => []NothingOfHalfATable
  <1>1. PublishInv => NothingOfHalfATable
    BY DEF PublishInv
  <1> QED
    BY <1>1, PublishInvariant, PTL

\* Production holds what main had, or what was dispatched by hand.
THEOREM FromMain == Spec => []ProductionFromMain
  <1>1. PublishInv => ProductionFromMain
    BY DEF PublishInv, Provenance, Legit, ProductionFromMain
  <1> QED
    BY <1>1, PublishInvariant, PTL

\* A publication that succeeds leaves all its tags and packages of one build.
THEOREM Together == Spec => []PublishedTogether
  <1>1. PublishInv => PublishedTogether
    BY DEF PublishInv
  <1> QED
    BY <1>1, PublishInvariant, PTL

-----------------------------------------------------------------------------
(***************************************************************************)
(* What passes the check of a component against its world keeps the rules  *)
(* of that check.                                                          *)
(***************************************************************************)
LEMMA HasMax ==
    ASSUME NEW S \in SUBSET Nat, IsFiniteSet(S), S # {}
    PROVE  Max(S) \in S
  <1> DEFINE Above(x) == {y \in S : y > x}
             Aboves == {Above(x) : x \in S}
  <1>1. Aboves \subseteq FiniteSubsetsOf(S) /\ Aboves # {}
    <2>1. \A x \in S : Above(x) \in SUBSET S
      OBVIOUS
    <2> HIDE DEF Above
    <2>2. \A x \in S : IsFiniteSet(Above(x))
      BY <2>1, FS_Subset
    <2> QED
      BY <2>1, <2>2 DEF FiniteSubsetsOf
  <1>2. PICK A \in Aboves : \A B \in Aboves : ~(<<B, A>> \in StrictSubsetOrdering(S))
    BY <1>1, FS_StrictSubsetOrderingWellFounded, WFMin
  <1>3. PICK x \in S : A = Above(x)
    BY <1>2
  <1>4. ASSUME NEW y \in S, y > x PROVE FALSE
    <2>1. Above(y) \in SUBSET S /\ Above(x) \in SUBSET S /\ Above(y) \subseteq Above(x)
      <3>1. \A z \in S : z > y => z > x
        BY <1>4
      <3> QED
        BY <3>1
    <2>2. y \in Above(x) /\ y \notin Above(y)
      BY <1>4
    <2> HIDE DEF Above
    <2>3. <<Above(y), Above(x)>> \in StrictSubsetOrdering(S)
      BY <2>1, <2>2 DEF StrictSubsetOrdering
    <2> QED
      BY <1>2, <1>3, <2>3
  <1>5. \A y \in S : x >= y
    BY <1>4
  <1> QED
    BY <1>5 DEF Max

LEMMA InterfacesAre ==
    ASSUME NEW lines
    PROVE  /\ \A l \in lines : <<l[1], Shown(l[1], l[2])>> \in Interfaces(lines)
           /\ \A i \in Interfaces(lines) : \E l \in lines : i[1] = l[1] /\ i[2] = Shown(l[1], l[2])
           /\ Named(Interfaces(lines)) = Named(lines)
  <1>1. \A l \in lines : <<l[1], Shown(l[1], l[2])>> \in Interfaces(lines)
    BY DEF Interfaces
  <1>2. ASSUME NEW i \in Interfaces(lines) PROVE \E l \in lines : i[1] = l[1] /\ i[2] = Shown(l[1], l[2])
    <2>1. PICK l \in lines : i = <<l[1], Shown(l[1], l[2])>>
      BY DEF Interfaces
    <2> QED
      BY <2>1
  <1>3. ASSUME NEW key \in Named(lines) PROVE key \in Named(Interfaces(lines))
    <2>1. PICK l \in lines : l[1] = key
      BY <1>3 DEF Named
    <2>2. <<l[1], Shown(l[1], l[2])>>[1] = key
      BY <2>1
    <2> QED
      BY <1>1, <2>2 DEF Named
  <1>4. \A key \in Named(Interfaces(lines)) : key \in Named(lines)
    BY <1>2 DEF Named
  <1> QED
    BY <1>1, <1>2, <1>3, <1>4

\* The version that stays of a key is that of one of its lines.
LEMMA Indexed ==
    ASSUME NEW lines, IsFiniteSet(lines), \A l \in lines : l[2] \in Nat, NEW key \in Named(lines)
    PROVE  /\ key \in DOMAIN IndexVersions(Interfaces(lines))
           /\ \E l \in lines : l[1] = key /\ IndexVersions(Interfaces(lines))[key] = Shown(key, l[2])
  <1> DEFINE own == {l \in lines : l[1] = key}
             versions == {i[2] : i \in {j \in Interfaces(lines) : j[1] = key}}
             shown == [l \in own |-> Shown(key, l[2])]
  <1>1. Named(Interfaces(lines)) = Named(lines)
    BY InterfacesAre
  <1>2. \A v : v \in versions <=> \E l \in own : v = shown[l]
    <2>1. ASSUME NEW l \in own PROVE shown[l] \in versions
      <3> DEFINE i == <<l[1], Shown(l[1], l[2])>>
      <3>1. i \in Interfaces(lines) /\ i[1] = key /\ i[2] = shown[l]
        BY InterfacesAre
      <3> HIDE DEF i, shown, own
      <3> QED
        BY <3>1
    <2>2. ASSUME NEW v \in versions PROVE \E l \in own : v = shown[l]
      <3>1. PICK i \in Interfaces(lines) : i[1] = key /\ v = i[2]
        BY <2>2
      <3>2. PICK l \in lines : l[1] = key /\ v = Shown(key, l[2])
        BY <3>1, InterfacesAre
      <3> QED
        BY <3>2
    <2> HIDE DEF versions, own, shown
    <2> QED
      BY <2>1, <2>2
  <1>3. \A l \in own : shown[l] \in Nat
    BY DEF Shown
  <1>4. IsFiniteSet(own) /\ own # {}
    BY FS_Subset DEF Named
  <1>5. shown \in Surjection(own, versions)
    BY <1>2 DEF Surjection
  <1>6. IsFiniteSet(versions)
    BY <1>4, <1>5, FS_Surjection
  <1> HIDE DEF versions, own, shown
  <1>7. versions \in SUBSET Nat /\ versions # {}
    BY <1>2, <1>3, <1>4
  <1>8. Max(versions) \in versions
    BY <1>6, <1>7, HasMax
  <1>9. IndexVersions(Interfaces(lines))[key] = Max(versions) /\ key \in DOMAIN IndexVersions(Interfaces(lines))
    BY <1>1 DEF IndexVersions, versions
  <1>10. PICK l \in own : Max(versions) = shown[l]
    BY <1>2, <1>8
  <1> QED
    BY <1>9, <1>10 DEF own, shown

LEMMA MatchesKeepsRules ==
    ASSUME NEW world, NEW component, IsFiniteSet(component), \A l \in component : l[2] \in Nat,
           Matches(world, component)
    PROVE  Rules(world, component)
  <1> DEFINE built == IndexVersions(Interfaces(component))
  <1>1. /\ DOMAIN built = Named(component)
        /\ Named(Interfaces(world)) = Named(world)
    BY InterfacesAre DEF IndexVersions
  <1>2. \A l \in world : Agrees(built, <<l[1], Shown(l[1], l[2])>>)
    BY DEF Matches, Interfaces
  <1>3. \A key \in Named(component) : \E m \in component : m[1] = key /\ built[key] = Shown(key, m[2])
    BY Indexed
  <1>4. Named(world) \intersect Named(component) # {}
    BY <1>1 DEF Matches
  <1> HIDE DEF built
  <1>5. ASSUME NEW l \in world, l[1] \in Named(component)
        PROVE  \E m \in component : m[1] = l[1] /\ SameVersion(l[1], l[2], m[2])
    <2>1. built[l[1]] = Shown(l[1], l[2])
      BY <1>1, <1>2, <1>5 DEF Agrees
    <2>2. PICK m \in component : m[1] = l[1] /\ built[l[1]] = Shown(l[1], m[2])
      BY <1>3, <1>5
    <2> QED
      BY <2>1, <2>2 DEF Shown, SameVersion
  <1>6. ASSUME NEW l \in world, l[1][1] = "export", ~IsWasi(l[1]) PROVE l[1] \in Named(component)
    BY <1>1, <1>2, <1>6 DEF Agrees
  <1> QED
    BY <1>4, <1>5, <1>6 DEF Rules

\* The lines of a component give each interface one version, but for the patch
\* level of wasi's.
OneVersion(component) ==
    \A l, m \in component : l[1] = m[1] => SameVersion(l[1], l[2], m[2])

\* Of what the world declares the component lacks imports of wasi's at most.
LacksWasiImports(world, component) ==
    \A l \in world : l[1] \in Named(component) \/ (l[1][1] = "import" /\ IsWasi(l[1]))

\* The check passes a component for which the rules of its header hold and that
\* lacks no line of the world but imports of wasi's, and it refuses every other:
\* it is stricter than its header, which requires of no import that the component
\* has it (check-component-matches-world.sh:14), and of no export of wasi's (:9).
THEOREM MatchesExactly ==
    ASSUME NEW world, NEW component, IsFiniteSet(component), \A l \in component : l[2] \in Nat,
           OneVersion(component)
    PROVE  Matches(world, component) <=> Rules(world, component) /\ LacksWasiImports(world, component)
  <1> DEFINE built == IndexVersions(Interfaces(component))
  <1>1. /\ DOMAIN built = Named(component)
        /\ Named(Interfaces(world)) = Named(world)
    BY InterfacesAre DEF IndexVersions
  <1>2. \A key \in Named(component) : \E m \in component : m[1] = key /\ built[key] = Shown(key, m[2])
    BY Indexed
  <1>3. Matches(world, component) <=>
            /\ \A l \in world : Agrees(built, <<l[1], Shown(l[1], l[2])>>)
            /\ Named(world) \intersect Named(component) # {}
    BY <1>1 DEF Matches, Interfaces
  <1> HIDE DEF built
  <1>4. ASSUME Matches(world, component) PROVE LacksWasiImports(world, component)
    BY <1>1, <1>3, <1>4 DEF Agrees, LacksWasiImports
  <1>5. ASSUME Rules(world, component), LacksWasiImports(world, component), NEW l \in world
        PROVE  Agrees(built, <<l[1], Shown(l[1], l[2])>>)
    <2>1. CASE l[1] \notin Named(component)
      BY <1>1, <1>5, <2>1 DEF Agrees, LacksWasiImports
    <2>2. CASE l[1] \in Named(component)
      <3>1. PICK m \in component : m[1] = l[1] /\ SameVersion(l[1], l[2], m[2])
        BY <1>5, <2>2 DEF Rules
      <3>2. PICK n \in component : n[1] = l[1] /\ built[l[1]] = Shown(l[1], n[2])
        BY <1>2, <2>2
      <3>3. SameVersion(l[1], m[2], n[2])
        BY <3>1, <3>2 DEF OneVersion
      <3>4. Shown(l[1], l[2]) = Shown(l[1], n[2])
        BY <3>1, <3>3 DEF SameVersion, Shown
      <3> QED
        BY <1>1, <2>2, <3>2, <3>4 DEF Agrees
    <2> QED
      BY <2>1, <2>2
  <1> QED
    BY <1>3, <1>4, <1>5, MatchesKeepsRules DEF Rules

\* The build of the commit passes the check.
Sound(run) == \A c \in Components : Matches(World[c], Made[kinds[run]].lines[c])

\* A job that is past the check is of such a build, and so is what was pushed.
Checked ==
    /\ running.step \in {"wit", "plan", "push"} => Sound(running.run)
    /\ \A run \in wit : Sound(run)
    /\ \A b \in Published : b.run \in 1..dev /\ Sound(b.run)

LEMMA SoundKeepsRules ==
    ASSUME CommitsTyped, NEW run \in 1..dev, Sound(run)
    PROVE  ~Mismatched(run)
  <1>1. kinds[run] \in DOMAIN Made
    BY ElementOfSeq DEF CommitsTyped, dev
  <1>2. DOMAIN Made[kinds[run]].lines = Components
    BY <1>1, PublishAssumption DEF Components
  <1>3. ASSUME NEW c \in Components PROVE Rules(World[c], Made[kinds[run]].lines[c])
    <2>1. IsFiniteSet(Made[kinds[run]].lines[c]) /\ \A l \in Made[kinds[run]].lines[c] : l[2] \in Nat
      BY <1>1, <1>2, PublishAssumption
    <2> QED
      BY <2>1, MatchesKeepsRules DEF Sound
  <1> QED
    BY <1>3 DEF Mismatched

LEMMA CheckedStep == PublishInv /\ Checked /\ [Next]_vars => Checked'
  <1> SUFFICES ASSUME PublishInv, Checked, [Next]_vars PROVE Checked'
    OBVIOUS
  <1>1. /\ CommitsTyped /\ Typed /\ OneBuild /\ dev \in Nat /\ running \in Jobs
        /\ running.step # "none" => running.run \in 1..dev
    BY PublishAssumption DEF PublishInv, CommitsTyped, Typed, OneBuild
  <1>2. CASE UNCHANGED <<running, registry, wit>>
    <2>1. dev' \in Nat /\ dev <= dev' /\ \A i \in 1..dev : kinds'[i] = kinds[i]
      <3>1. CASE Push
        <4>1. PICK kind \in DOMAIN Made : kinds' = Append(kinds, kind)
          BY <3>1 DEF Push
        <4> QED
          BY <1>1, <4>1, AppendProperties DEF CommitsTyped, dev
      <3>2. CASE kinds' = kinds
        BY <1>1, <3>2 DEF dev
      <3> QED
        BY <3>1, <3>2 DEF Next, vars, commits, Merge, Hotfix, PushMain, BuildSucceeds, BuildFails, Rerun,
           PushIgnored, Dispatch, Job, Start, FindCommit, Download, Check, PushWitPackages, Plan, PushFails, PushImage, Finish
    <2>2. \A run \in 1..dev : Sound(run) => Sound(run)'
      BY <2>1 DEF Sound, Components
    <2>3. Published' = Published
      BY <1>2 DEF Published, Components, Tags, Commits
    <2>4. wit \subseteq 1..dev
      BY <1>1 DEF Typed
    <2> QED
      BY <1>1, <1>2, <2>1, <2>2, <2>3, <2>4 DEF Checked
  <1>3. CASE Job
    <2>0. NoJob.step = "none"
      BY DEF NoJob
    <2>1. kinds' = kinds /\ dev' = dev /\ \A run : Sound(run)' = Sound(run)
      BY <1>3 DEF Job, Start, FindCommit, Download, Check, PushWitPackages, Plan, PushFails, PushImage, Finish, commits, dev,
         Sound, Components
    <2>2. running'.step \in {"wit", "plan", "push"} => Sound(running'.run)
      <3>1. CASE Check
        BY <1>1, <2>1, <3>1 DEF Check, CheckComponentsMatchWorlds, Sound, OneBuild, Fetched, Ends, NoJob, Jobs
      <3>2. CASE Start \/ FindCommit \/ Download
        <4>1. running'.step \in {"none", "find", "download", "check"}
          <5>1. CASE Start
            BY <5>1 DEF Start, NoJob
          <5>2. CASE FindCommit
            <6> DEFINE sha == HeadSha(running.run)
            <6>1. running' = NoJob \/ running' = [running EXCEPT !.sha = sha, !.step = "download"]
              BY <5>2 DEF FindCommit, Ends
            <6> HIDE DEF sha
            <6> QED
              BY <1>1, <2>0, <6>1 DEF Jobs
          <5>3. CASE Download
            <6> DEFINE fetched == Bytes(running.run)
            <6>1. running' = NoJob \/ running' = [running EXCEPT !.bytes = fetched, !.step = "check"]
              BY <5>3 DEF Download, Ends
            <6> HIDE DEF fetched
            <6> QED
              BY <1>1, <2>0, <6>1 DEF Jobs
          <5> QED
            BY <3>2, <5>1, <5>2, <5>3
        <4> QED
          BY <4>1
      <3>3. CASE PushWitPackages \/ Plan \/ PushFails \/ PushImage \/ Finish
        <4>1. running'.step = "none" \/ (running'.run = running.run /\ running.step \in {"wit", "plan", "push"})
          <5>1. CASE running' = NoJob
            BY <5>1 DEF NoJob
          <5>2. CASE running' # NoJob
            <6>1. /\ running.step \in {"wit", "plan", "push"}
                  /\ \/ \E s \in Steps : running' = [running EXCEPT !.step = s]
                     \/ \E n \in Nat : running' = [running EXCEPT !.at = n]
                     \/ \E n \in Nat : running' = [running EXCEPT !.at = n, !.ok = FALSE]
              <7>1. running.at + 1 \in Nat
                BY <1>1 DEF Jobs
              <7> QED
                BY <3>3, <5>2, <7>1 DEF PushWitPackages, Plan, PushFails, PushImage, Finish, Ends, Steps, Fetched
            <6>2. running'.run = running.run
              BY <1>1, <6>1 DEF Jobs
            <6> QED
              BY <6>1, <6>2
          <5> QED
            BY <5>1, <5>2
        <4> QED
          BY <4>1 DEF Checked
      <3> QED
        BY <1>3, <3>1, <3>2, <3>3 DEF Job
    <2>3. \A run \in wit' : run \in wit \/ (run = running.run /\ running.step = "wit")
      BY <1>1, <1>3 DEF Job, Start, FindCommit, Download, Check, PushWitPackages, Plan, PushFails, PushImage, Finish, OneBuild
    <2>4. \A b \in Published' : b \in Published \/ (b.run = running.run /\ running.step = "push")
      <3>1. CASE PushImage
        <4>1. /\ running.step = "push" /\ running.bytes.run = running.run /\ registry \in [Components -> [Tags -> Shipped]]
              /\ registry' = [registry EXCEPT ![Pushed(running).component][Pushed(running).tag] = running.bytes]
          BY <1>1, <3>1 DEF PushImage, OneBuild, Fetched, Typed
        <4>2. \A c \in Components, t \in Tags : registry'[c][t] \in {registry[c][t], running.bytes}
          BY <4>1
        <4> QED
          BY <4>1, <4>2 DEF Published, Components, Tags, Commits
      <3>2. CASE registry' = registry
        BY <3>2 DEF Published, Components, Tags, Commits
      <3> QED
        BY <1>3, <3>1, <3>2 DEF Job, Start, FindCommit, Download, Check, PushWitPackages, Plan, PushFails, Finish
    <2> QED
      BY <1>1, <2>1, <2>2, <2>3, <2>4 DEF Checked
  <1> QED
    BY <1>2, <1>3 DEF Next, vars, requests, Push, PushIgnored, Merge, Hotfix, PushMain, BuildSucceeds, BuildFails, Rerun, Dispatch

\* Of a build with a component that is not one of its world nothing is
\* published, whatever else was built, queued and run again meanwhile.
THEOREM OnlyMatching == Spec => []OnlyMatchingBuilds
  <1>1. Init => Checked
    BY DEF Init, NoJob, Checked, Published
  <1>2. ASSUME PublishInv, Checked PROVE OnlyMatchingBuilds
    <2>1. CommitsTyped /\ DOMAIN builds = 1..dev
      BY <1>2 DEF PublishInv, CommitsTyped
    <2>2. \A run \in 1..dev : Mismatched(run) => ~Sound(run)
      BY <2>1, SoundKeepsRules
    <2> QED
      BY <1>2, <2>1, <2>2 DEF OnlyMatchingBuilds, Checked
  <1> QED
    BY <1>1, <1>2, CheckedStep, PublishInvariant, PTL DEF Spec

-----------------------------------------------------------------------------
(***************************************************************************)
(* Types and bounds: the reruns bound the attempts, and these what is in   *)
(* the registry.                                                           *)
(***************************************************************************)
Again == Bounds[destination].reruns
Sources == [dev : 0..dev, ignored : BOOLEAN, hot : BOOLEAN]

Bounded ==
    /\ \A run \in DOMAIN builds :
        builds[run].attempt \in 1..(Again + 1) /\ builds[run].artifact \in 0..(Again + 1)
    /\ main.recorded <= recorded /\ main.sources \in Sources
    /\ running.at <= Pushes /\ running.bytes.attempt <= Again + 1
    /\ \A c \in Components, t \in Tags : registry[c][t].attempt <= Again + 1

LEMMA BoundsType ==
    ASSUME CommitsTyped
    PROVE  /\ Again \in Nat /\ dev \in Nat /\ Len(Table) \in Nat /\ Pushes \in Nat
           /\ DOMAIN builds = 1..dev
  BY PublishAssumption, PushesAre DEF CommitsTyped, Again

\* A run that is run again has not had all the attempts.
LEMMA AttemptsLeft ==
    ASSUME CommitsTyped, Bounded, NEW run \in DOMAIN builds, Cardinality(Reruns) < Again
    PROVE  builds[run].attempt <= Again
  <1>1. Again \in Nat /\ dev \in Nat /\ DOMAIN builds = 1..dev
    BY BoundsType
  <1>2. PICK a \in 1..(Again + 1) : builds[run].attempt = a
    BY DEF Bounded
  <1>3. IsFiniteSet(Reruns)
    <2>1. IsFiniteSet(1..dev) /\ IsFiniteSet(2..(Again + 1))
      BY <1>1, FS_Interval
    <2>2. IsFiniteSet((1..dev) \X (2..(Again + 1)))
      BY <2>1, FS_Product
    <2>3. Reruns \subseteq (1..dev) \X (2..(Again + 1))
      <3>1. ASSUME NEW other \in 1..dev
            PROVE  {other} \X (2..builds[other].attempt) \subseteq (1..dev) \X (2..(Again + 1))
        <4>1. builds[other].attempt \in 1..(Again + 1)
          BY <1>1 DEF Bounded
        <4>2. 2..builds[other].attempt \subseteq 2..(Again + 1)
          BY <1>1, <4>1
        <4> QED
          BY <4>2
      <3> QED
        BY <1>1, <3>1 DEF Reruns
    <2> QED
      BY <2>2, <2>3, FS_Subset
  <1>4. {run} \X (2..a) \in SUBSET Reruns
    BY <1>2 DEF Reruns
  <1>5. Cardinality({run} \X (2..a)) = a - 1
    <2>1. IsFiniteSet({run}) /\ Cardinality({run}) = 1
      BY FS_Singleton
    <2>2. IsFiniteSet(2..a) /\ Cardinality(2..a) = a - 1
      <3>1. 2 \in Int /\ a \in Int /\ (2 > a => a - 1 = 0) /\ a - 2 + 1 = a - 1
        BY <1>1, <1>2
      <3> QED
        BY <3>1, FS_Interval
    <2>3. Cardinality({run} \X (2..a)) = 1 * (a - 1)
      BY <2>1, <2>2, FS_Product, ZenonT(40)
    <2> QED
      BY <1>1, <1>2, <2>3
  <1>6. a - 1 <= Cardinality(Reruns) /\ Cardinality(Reruns) \in Nat
    BY <1>3, <1>4, <1>5, FS_Subset, FS_CardinalityType
  <1> QED
    BY <1>1, <1>2, <1>6

\* A build run that starts, ends or is run again.
LEMMA BuildBounded ==
    ASSUME PublishInv, Bounded, NEW run \in DOMAIN builds,
           (\E released \in BOOLEAN : BuildSucceeds(run, released)) \/ BuildFails(run) \/ Rerun(run)
    PROVE  Bounded'
  <1>1. /\ CommitsTyped /\ Again \in Nat /\ dev \in Nat /\ DOMAIN builds = 1..dev /\ builds \in Seq(Runs)
        /\ recorded \in 0..dev /\ main.recorded \in 0..dev
    BY BoundsType DEF PublishInv, CommitsTyped
  <1>2. UNCHANGED <<destination, kinds, main, running, registry>>
    BY DEF BuildSucceeds, BuildFails, Rerun, commits, requests
  <1>3. /\ Again' = Again /\ dev' = dev /\ Pushes' = Pushes
    BY <1>2 DEF Again, dev, Pushes, TagsOf
  <1>4. recorded <= recorded'
    BY <1>1 DEF BuildSucceeds, BuildFails, Rerun
  <1>5. /\ DOMAIN builds' = DOMAIN builds
        /\ \A other \in DOMAIN builds \ {run} : builds'[other] = builds[other]
        /\ builds'[run].attempt \in 1..(Again + 1) /\ builds'[run].artifact \in 0..(Again + 1)
    <2>1. builds[run] \in Runs /\ builds[run].attempt \in 1..(Again + 1) /\ builds[run].artifact \in 0..(Again + 1)
      BY <1>1, ElementOfSeq DEF Bounded, CommitsTyped
    <2>2. CASE Rerun(run)
      <3>1. builds' = [builds EXCEPT ![run] = [builds[run] EXCEPT !.state = "running", !.attempt = builds[run].attempt + 1]]
        BY <2>2 DEF Rerun
      <3>2. builds[run].attempt <= Again
        BY <1>1, <2>2, AttemptsLeft DEF Rerun, Again
      <3> DEFINE b == builds[run]
                 again == [b EXCEPT !.state = "running", !.attempt = b.attempt + 1]
      <3>3. b \in Runs /\ b.attempt \in 1..(Again + 1) /\ b.artifact \in 0..(Again + 1)
        BY <2>1
      <3> HIDE DEF b
      <3>4. again.attempt = b.attempt + 1 /\ again.artifact = b.artifact
        BY <3>3 DEF Runs
      <3> HIDE DEF again
      <3>5. builds' = [builds EXCEPT ![run] = again]
        BY <3>1 DEF again, b
      <3>6. b.attempt <= Again
        BY <3>2 DEF b
      <3> QED
        BY <1>1, <3>3, <3>4, <3>5, <3>6
    <2>3. CASE (\E released \in BOOLEAN : BuildSucceeds(run, released)) \/ BuildFails(run)
      <3> DEFINE b == builds[run]
                 ended(state) == [b EXCEPT !.state = state, !.artifact = b.attempt]
                 failed == [b EXCEPT !.state = "failed"]
      <3>1. \/ builds' = [builds EXCEPT ![run] = ended("success")]
            \/ builds' = [builds EXCEPT ![run] = ended("failed")]
            \/ builds' = [builds EXCEPT ![run] = failed]
        BY <2>1, <2>3 DEF BuildSucceeds, BuildFails, Upload
      <3>2. b \in Runs /\ b.attempt \in 1..(Again + 1) /\ b.artifact \in 0..(Again + 1)
        BY <2>1
      <3> HIDE DEF b
      <3>3. /\ \A s \in {"success", "failed"} : ended(s).attempt = b.attempt /\ ended(s).artifact = b.attempt
            /\ failed.attempt = b.attempt /\ failed.artifact = b.artifact
        BY <3>2 DEF Runs
      <3> HIDE DEF ended, failed
      <3> QED
        BY <1>1, <3>1, <3>2, <3>3
    <2> QED
      BY <2>2, <2>3
  <1>6. \A other \in DOMAIN builds' :
          builds'[other].attempt \in 1..(Again' + 1) /\ builds'[other].artifact \in 0..(Again' + 1)
    BY <1>3, <1>5 DEF Bounded
  <1>7. main'.recorded <= recorded' /\ main'.sources \in Sources'
    <2>1. main.recorded <= recorded /\ main.recorded \in Int /\ recorded \in Int /\ recorded' \in Int
      BY <1>1 DEF Bounded, BuildSucceeds, BuildFails, Rerun
    <2> QED
      BY <1>2, <1>3, <1>4, <2>1 DEF Bounded, Sources
  <1> QED
    BY <1>2, <1>3, <1>6, <1>7 DEF Bounded, Components, Tags, Commits

\* Steps that leave the builds, their bounds and the registry alone.
LEMMA AsideBounded ==
    ASSUME PublishInv, Bounded, UNCHANGED <<destination, kinds, builds, recorded, registry>>,
           main'.recorded <= recorded, main'.sources \in Sources,
           running'.at <= Pushes, running'.bytes.attempt <= Again + 1
    PROVE  Bounded'
  <1>1. Again' = Again /\ dev' = dev /\ Pushes' = Pushes
    BY DEF Again, dev, Pushes, TagsOf
  <1> QED
    BY <1>1 DEF Bounded, Sources, Components, Tags, Commits

LEMMA PushBounded == ASSUME PublishInv, Bounded, Push PROVE Bounded'
  <1>1. /\ CommitsTyped /\ Again \in Nat /\ dev \in Nat /\ DOMAIN builds = 1..dev /\ builds \in Seq(Runs)
    BY BoundsType DEF PublishInv, CommitsTyped
  <1>2. UNCHANGED <<destination, recorded, main, running, registry>>
    BY DEF Push, requests
  <1>3. Again' = Again /\ Pushes' = Pushes
    BY <1>2 DEF Again, Pushes, TagsOf
  <1> DEFINE b == [state |-> "running", attempt |-> 1, artifact |-> 0]
  <1>4. b \in Runs /\ b.attempt \in 1..(Again + 1) /\ b.artifact \in 0..(Again + 1)
    BY <1>1 DEF Runs
  <1>5. builds' = Append(builds, b)
    BY DEF Push
  <1> HIDE DEF b
  <1>6. /\ DOMAIN builds' = 1..(dev + 1) /\ builds'[dev + 1] = b
        /\ \A run \in 1..dev : builds'[run] = builds[run]
    BY <1>1, <1>4, <1>5, AppendProperties DEF CommitsTyped
  <1>7. \A run \in DOMAIN builds' :
          builds'[run].attempt \in 1..(Again + 1) /\ builds'[run].artifact \in 0..(Again + 1)
    BY <1>1, <1>4, <1>6 DEF Bounded
  <1>8. dev' = dev + 1
    <2>1. PICK kind \in DOMAIN Made : kinds' = Append(kinds, kind)
      BY DEF Push
    <2> QED
      BY <1>1, <2>1, AppendProperties DEF CommitsTyped, dev
  <1>9. main.sources \in Sources'
    BY <1>1, <1>8 DEF Bounded, Sources
  <1> QED
    BY <1>2, <1>3, <1>7, <1>9 DEF Bounded, Components, Tags, Commits

LEMMA JobBounded == ASSUME PublishInv, Bounded, Job PROVE Bounded'
  <1>1. /\ CommitsTyped /\ Typed /\ OneBuild /\ Again \in Nat /\ dev \in Nat /\ Pushes \in Nat /\ DOMAIN builds = 1..dev
        /\ running \in Jobs /\ running.at \in Nat
    BY BoundsType DEF PublishInv, Typed, Jobs
  <1>2. UNCHANGED <<destination, kinds, builds, recorded, main>>
    BY DEF Job, Start, FindCommit, Download, Check, PushWitPackages, Plan, PushFails, PushImage, Finish, commits
  <1>3. running'.at <= Pushes /\ running'.bytes.attempt <= Again + 1
    <2>1. CASE Start
      <3>1. running'.at = 0 /\ running'.bytes.attempt = 0
        BY <2>1 DEF Start, NoJob, NoBytes
      <3> QED
        BY <1>1, <3>1
    <2>2. CASE running' = NoJob
      BY <1>1, <2>2 DEF NoJob, NoBytes
    <2>3. CASE FindCommit /\ running' # NoJob
      <3>1. running' = [running EXCEPT !.sha = HeadSha(running.run), !.step = "download"]
        BY <2>3 DEF FindCommit, Ends
      <3>2. running'.at = running.at /\ running'.bytes = running.bytes
        BY <1>1, <3>1 DEF Jobs
      <3> QED
        BY <3>2 DEF Bounded
    <2>4. CASE Download /\ running' # NoJob
      <3> DEFINE fetched == Bytes(running.run)
      <3>1. fetched.attempt = builds[running.run].artifact /\ running.run \in DOMAIN builds
        BY <1>1, <2>4 DEF Bytes, Download, OneBuild
      <3>2. running' = [running EXCEPT !.bytes = fetched, !.step = "check"]
        BY <2>4 DEF Download, Ends
      <3> HIDE DEF fetched
      <3>3. running'.at = running.at /\ running'.bytes = fetched
        BY <1>1, <3>2 DEF Jobs
      <3> QED
        BY <1>1, <3>1, <3>3 DEF Bounded
    <2>5. CASE ~Start /\ ~FindCommit /\ ~Download /\ running' # NoJob
      <3>1. /\ \/ \E s \in Steps : running' = [running EXCEPT !.step = s]
               \/ running.at < Pushes /\ running' = [running EXCEPT !.at = running.at + 1]
               \/ running.at < Pushes /\ running' = [running EXCEPT !.at = running.at + 1, !.ok = FALSE]
        BY <2>5 DEF Job, Check, PushWitPackages, Plan, PushFails, PushImage, Finish, Ends, Steps, Fetched
      <3>2. running'.bytes = running.bytes /\ (running'.at = running.at \/ (running.at < Pushes /\ running'.at = running.at + 1))
        <4>1. CASE \E s \in Steps : running' = [running EXCEPT !.step = s]
          BY <1>1, <4>1 DEF Jobs
        <4>2. CASE running.at < Pushes /\ running' = [running EXCEPT !.at = running.at + 1]
          BY <1>1, <4>2 DEF Jobs
        <4>3. CASE running.at < Pushes /\ running' = [running EXCEPT !.at = running.at + 1, !.ok = FALSE]
          BY <1>1, <4>3 DEF Jobs
        <4> QED
          BY <3>1, <4>1, <4>2, <4>3
      <3> QED
        BY <1>1, <3>2 DEF Bounded
    <2> QED
      BY <2>1, <2>2, <2>3, <2>4, <2>5
  <1>4. CASE registry' = registry
    BY <1>2, <1>3, <1>4, AsideBounded DEF Bounded
  <1>5. CASE PushImage
    <2>1. registry' = [registry EXCEPT ![Pushed(running).component][Pushed(running).tag] = running.bytes]
          /\ registry \in [Components -> [Tags -> Shipped]]
      BY <1>1, <1>5 DEF PushImage, Typed
    <2>2. \A c \in Components, t \in Tags : registry'[c][t] \in {registry[c][t], running.bytes}
      BY <2>1
    <2>3. Again' = Again /\ dev' = dev /\ Pushes' = Pushes
      BY <1>2 DEF Again, dev, Pushes, TagsOf
    <2> QED
      BY <1>2, <1>3, <2>2, <2>3 DEF Bounded, Sources, Components, Tags, Commits
  <1> QED
    BY <1>4, <1>5 DEF Job, Start, FindCommit, Download, Check, PushWitPackages, Plan, PushFails, Finish

LEMMA BoundedStep == PublishInv /\ Bounded /\ [Next]_vars => Bounded'
  <1> SUFFICES ASSUME PublishInv, Bounded, [Next]_vars PROVE Bounded'
    OBVIOUS
  <1>1. dev \in Nat /\ unbuilt \in BOOLEAN /\ recorded \in 0..dev /\ main.recorded \in 0..dev
    BY PublishAssumption DEF PublishInv, CommitsTyped
  <1>2. CASE Push
    BY <1>2, PushBounded
  <1>3. CASE Merge \/ Hotfix
    <2>1. UNCHANGED <<destination, kinds, builds, recorded, running, registry>>
      BY <1>3 DEF Merge, Hotfix, PushMain, commits
    <2>2. main'.recorded <= recorded /\ main'.sources \in Sources
      <3>1. CASE Merge
        <4>1. main'.recorded = recorded /\ main'.sources = [main.sources EXCEPT !.dev = dev, !.ignored = unbuilt]
          BY <3>1 DEF Merge, PushMain
        <4>2. [main.sources EXCEPT !.dev = dev] \in Sources
          BY <1>1 DEF Bounded, Sources
        <4>3. [main.sources EXCEPT !.dev = dev, !.ignored = unbuilt] = [[main.sources EXCEPT !.dev = dev] EXCEPT !.ignored = unbuilt]
          BY DEF Bounded, Sources
        <4> DEFINE sources == [main.sources EXCEPT !.dev = dev]
        <4> HIDE DEF sources
        <4>4. [sources EXCEPT !.ignored = unbuilt] \in Sources
          BY <1>1, <4>2 DEF Sources, sources
        <4> QED
          BY <1>1, <4>1, <4>3, <4>4 DEF sources
      <3>2. CASE Hotfix
        <4>1. main'.recorded = main.recorded /\ main'.sources = [main.sources EXCEPT !.hot = TRUE]
          BY <3>2 DEF Hotfix, PushMain
        <4> QED
          BY <1>1, <4>1 DEF Bounded, Sources
      <3> QED
        BY <1>3, <3>1, <3>2
    <2> QED
      BY <2>1, <2>2, AsideBounded DEF Bounded
  <1>4. CASE \E run \in DOMAIN builds :
               (\E released \in BOOLEAN : BuildSucceeds(run, released)) \/ BuildFails(run) \/ Rerun(run)
    BY <1>4, BuildBounded
  <1>5. CASE PushIgnored \/ (\E run \in DOMAIN builds : Dispatch(run)) \/ UNCHANGED vars
    <2>1. UNCHANGED <<destination, kinds, builds, recorded, main, running, registry>>
      BY <1>5 DEF PushIgnored, Dispatch, vars, commits, requests
    <2> QED
      BY <2>1, AsideBounded DEF Bounded
  <1>6. CASE Job
    BY <1>6, JobBounded
  <1> QED
    BY <1>2, <1>3, <1>4, <1>5, <1>6 DEF Next

LEMMA BoundedAlways == Spec => [](PublishInv /\ Bounded)
  <1>1. ASSUME Init PROVE Bounded
    <2>1. PublishInv
      BY <1>1, InitPublish
    <2>2. Again \in Nat /\ Pushes \in Nat /\ dev = 0 /\ DOMAIN builds = {}
      BY <1>1, <2>1, BoundsType DEF PublishInv, Init, dev
    <2> QED
      <3>1. main.recorded <= recorded /\ main.sources \in Sources
        <4>1. \/ main = [sources |-> [SourcesOf(NoRun) EXCEPT !.hot = TRUE], recorded |-> NoRun]
              \/ main = [sources |-> [SourcesOf(NoRun) EXCEPT !.hot = FALSE], recorded |-> NoRun]
          BY <1>1, Zenon DEF Init
        <4> DEFINE none == SourcesOf(NoRun)
        <4>2. none \in Sources
          BY <2>2 DEF SourcesOf, NoRun, Sources
        <4> HIDE DEF none
        <4>3. [none EXCEPT !.hot = TRUE] \in Sources /\ [none EXCEPT !.hot = FALSE] \in Sources
          BY <4>2 DEF Sources
        <4>4. PICK s \in Sources : main = [sources |-> s, recorded |-> NoRun]
          BY <4>1, <4>3, Zenon DEF none
        <4>5. main.sources = s /\ main.recorded = NoRun
          BY <4>4
        <4>6. recorded = NoRun
          BY <1>1 DEF Init
        <4> QED
          BY <4>5, <4>6 DEF NoRun
      <3> QED
        BY <1>1, <2>2, <3>1 DEF Init, Bounded, NoJob, NoBytes
  <1> QED
    BY <1>1, BoundedStep, PublishInvariant, PTL DEF Spec

\* The state of the pipeline keeps its types, and no build, attempt or push is
\* referred to that there is not.
THEOREM TypeCorrect == Spec => []TypeOK
  <1>1. ASSUME PublishInv, Bounded PROVE TypeOK
    <2>1. /\ CommitsTyped /\ Typed /\ OneBuild /\ Again \in Nat /\ dev \in Nat /\ Pushes \in Nat
          /\ running \in Jobs /\ running.at \in Nat /\ running.run \in 0..dev
      BY <1>1, BoundsType DEF PublishInv, Typed, Jobs
    <2>2. registry \in [Components -> [Tags -> BytesOf]]
      <3>1. \A c \in Components, t \in Tags : registry[c][t] \in Shipped /\ registry[c][t].attempt <= Again + 1
        BY <1>1, <2>1 DEF Typed, Bounded
      <3>2. \A b \in Shipped : b.attempt <= Again + 1 => b \in BytesOf
        BY <2>1, PublishAssumption DEF Shipped, BytesOf, CommitsTyped, Again
      <3> QED
        BY <2>1, <3>1, <3>2 DEF Typed
    <2> QED
      BY <1>1, <2>1, <2>2 DEF TypeOK, CommitsTyped, Typed, OneBuild, NoBytes, NoRun, Bounded, Sources
  <1> QED
    BY <1>1, BoundedAlways, PTL

-----------------------------------------------------------------------------
(***************************************************************************)
(* A publication gets on: of what PublicationEnds says under fairness the  *)
(* part that needs none.                                                   *)
(***************************************************************************)
Stage(job) ==
    CASE job.step = "find"     -> 0
      [] job.step = "download" -> 1
      [] job.step = "check"    -> 2
      [] job.step = "wit"      -> 3
      [] job.step = "plan"     -> 4
      [] job.step = "push"     -> 5 + job.at

\* A step of the publication brings it nearer to the last of its pushes; the
\* commit and the bytes, once it has them, stay, and it does not forget a failure.
GetsNearer ==
    /\ Stage(running) < Stage(running') /\ Stage(running') <= 5 + Pushes
    /\ running'.run = running.run
    /\ running.step # "find" => running'.sha = running.sha
    /\ running.step \in Fetched => running'.bytes = running.bytes
    /\ running'.ok => running.ok

\* It is over; well just if all pushes were made and none failed.
IsOver ==
    /\ running' = NoJob
    /\ last' = IF running.ok /\ running.step = "push" /\ running.at = Pushes
               THEN running.bytes ELSE NoBytes

\* A publication that runs is left alone by whatever is built, queued, merged or
\* dispatched meanwhile (cancel-in-progress: false): it goes on with the build
\* it began with, its commit and bytes, or it is over.
JobAdvances == [][running # NoJob /\ running' # running => IsOver \/ GetsNearer]_vars

\* The eight steps of a job that has started.
LEMMA JobStages ==
    ASSUME PublishInv, running.at <= Pushes, running # NoJob, Job, running' # NoJob
    PROVE  GetsNearer
  <1>1. /\ running \in Jobs /\ running.at \in Nat /\ Pushes \in Nat
        /\ running.step # "push" => running.at = 0
    BY BoundsType DEF PublishInv, Typed, Jobs, Progress
  <1>2. \/ /\ running.step = "find"
           /\ running' = [running EXCEPT !.sha = HeadSha(running.run), !.step = "download"]
        \/ /\ running.step = "download"
           /\ running' = [running EXCEPT !.bytes = Bytes(running.run), !.step = "check"]
        \/ /\ running.step = "check"
           /\ \E s \in {"wit", "plan"} : running' = [running EXCEPT !.step = s]
        \/ /\ running.step = "wit"
           /\ running' = [running EXCEPT !.step = "plan"]
        \/ /\ running.step = "plan"
           /\ running' = [running EXCEPT !.step = "push"]
        \/ /\ running.step = "push" /\ running.at < Pushes
           /\ \E ok \in {running.ok, FALSE} :
                running' = [running EXCEPT !.at = running.at + 1, !.ok = ok]
    <2>1. CASE Check
      BY <2>1 DEF Check, Ends
    <2>2. CASE PushWitPackages
      BY <2>2 DEF PushWitPackages, Ends
    <2>3. CASE Plan
      BY <2>3 DEF Plan, Ends
    <2>4. CASE PushFails
      BY <2>4 DEF PushFails
    <2>5. CASE PushImage
      <3>1. running' = [running EXCEPT !.at = running.at + 1]
        BY <2>5 DEF PushImage
      <3>2. running' = [running EXCEPT !.at = running.at + 1, !.ok = running.ok]
        BY <1>1, <3>1 DEF Jobs
      <3> QED
        BY <2>5, <3>2 DEF PushImage
    <2>6. CASE FindCommit
      BY <2>6 DEF FindCommit, Ends
    <2>7. CASE Download
      BY <2>7 DEF Download, Ends
    <2> QED
      BY <2>1, <2>2, <2>3, <2>4, <2>5, <2>6, <2>7 DEF Job, Start, Finish, Ends
  <1>3. CASE running.step \in {"check", "wit", "plan"}
    <2>1. PICK s \in {"wit", "plan", "push"} :
            /\ running' = [running EXCEPT !.step = s]
            /\ running.step = "wit" => s # "wit"
            /\ running.step = "plan" => s = "push"
      BY <1>2, <1>3
    <2>2. /\ running'.step = s /\ running'.at = 0 /\ running'.ok = running.ok
          /\ running'.run = running.run /\ running'.sha = running.sha /\ running'.bytes = running.bytes
      BY <1>1, <1>3, <2>1 DEF Jobs
    <2> QED
      BY <1>1, <1>3, <2>1, <2>2 DEF Stage, GetsNearer, Fetched
  <1>4. CASE running.step = "push"
    <2>1. PICK ok \in {running.ok, FALSE} :
            running.at < Pushes /\ running' = [running EXCEPT !.at = running.at + 1, !.ok = ok]
      BY <1>2, <1>4
    <2>2. /\ running'.step = "push" /\ running'.at = running.at + 1 /\ running'.ok = ok
          /\ running'.run = running.run /\ running'.sha = running.sha /\ running'.bytes = running.bytes
      BY <1>1, <1>4, <2>1 DEF Jobs
    <2>3. Stage(running) = 5 + running.at /\ Stage(running') = 5 + running'.at
      BY <1>4, <2>2 DEF Stage
    <2>4. Stage(running) < Stage(running') /\ Stage(running') <= 5 + Pushes
      BY <1>1, <2>1, <2>2, <2>3
    <2>5. running'.ok => running.ok
      BY <2>2, Zenon
    <2> QED
      BY <2>2, <2>4, <2>5 DEF GetsNearer
  <1>5. CASE running.step = "find"
    <2> DEFINE sha == HeadSha(running.run)
    <2>1. running' = [running EXCEPT !.sha = sha, !.step = "download"]
      BY <1>2, <1>5
    <2> HIDE DEF sha
    <2>2. /\ running'.step = "download" /\ running'.ok = running.ok /\ running'.run = running.run
      BY <1>1, <2>1 DEF Jobs
    <2> QED
      BY <1>1, <1>5, <2>2 DEF Stage, GetsNearer, Fetched
  <1>6. CASE running.step = "download"
    <2> DEFINE fetched == Bytes(running.run)
    <2>1. running' = [running EXCEPT !.bytes = fetched, !.step = "check"]
      BY <1>2, <1>6
    <2> HIDE DEF fetched
    <2>2. /\ running'.step = "check" /\ running'.ok = running.ok /\ running'.run = running.run
          /\ running'.sha = running.sha
      BY <1>1, <2>1 DEF Jobs
    <2> QED
      BY <1>1, <1>6, <2>2 DEF Stage, GetsNearer, Fetched
  <1> QED
    BY <1>2, <1>3, <1>4, <1>5, <1>6

LEMMA JobIsOver ==
    ASSUME PublishInv, running # NoJob, Job, running' = NoJob
    PROVE  IsOver
  <1>1. running \in Jobs
    BY DEF PublishInv, Typed
  <1>2. CASE Finish
    BY <1>2 DEF Finish, Ends, IsOver
  <1>3. CASE Ends(NoBytes) /\ running.step # "push"
    BY <1>3 DEF Ends, IsOver
  <1>4. ~(PushFails \/ PushImage)
    <2>1. \A i : [running EXCEPT !.at = i].step = running.step
      BY <1>1 DEF Jobs
    <2>2. \A i : [running EXCEPT !.at = i, !.ok = FALSE].step = running.step
      BY <1>1 DEF Jobs
    <2> QED
      BY <2>1, <2>2 DEF PushFails, PushImage, NoJob
  <1>5. ASSUME NEW s \in {"wit", "plan", "push"} PROVE [running EXCEPT !.step = s] # NoJob
    BY <1>1 DEF Jobs, NoJob
  <1>6. [running EXCEPT !.sha = HeadSha(running.run), !.step = "download"] # NoJob
    BY <1>1 DEF Jobs, NoJob
  <1>7. ~(Download /\ ~Ends(NoBytes))
    <2>1. \A bytes : [running EXCEPT !.bytes = bytes, !.step = "check"].step = "check"
      BY <1>1 DEF Jobs
    <2> QED
      BY <2>1 DEF Download, NoJob
  <1> QED
    BY <1>2, <1>3, <1>4, <1>5, <1>6, <1>7 DEF Job, Start, FindCommit, Download, Check, PushWitPackages, Plan

\* A publication is over after at most 6 + Pushes steps of its own.
THEOREM JobGoesOn == Spec => JobAdvances
  <1>1. PublishInv /\ Bounded /\ [Next]_vars
        => [running # NoJob /\ running' # running => IsOver \/ GetsNearer]_vars
    <2> SUFFICES ASSUME PublishInv, Bounded, Next, running # NoJob, running' # running
                 PROVE  IsOver \/ GetsNearer
      BY DEF vars, requests
    <2>1. Job
      BY DEF Next, Push, PushIgnored, Merge, Hotfix, PushMain, BuildSucceeds, BuildFails, Rerun, Dispatch, requests
    <2>2. running.at <= Pushes
      BY DEF Bounded
    <2> QED
      BY <2>1, <2>2, JobStages, JobIsOver
  <1> QED
    BY <1>1, BoundedAlways, PTL DEF Spec, JobAdvances
=============================================================================
