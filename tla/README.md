# Verification of wasm-base-components

TLA+ models of the WebAssembly components of this repository and of the
pipeline that publishes them, TLC configurations that check the models on
small instances, and theorems about them that TLAPS checks. Paths below
are relative to `src/`; `PROJECT.json` maps every definition to its lines.

## 1. The system

The components run in a host (the runtime of a no-code platform). A component
instance is created for a call, or, for the data-api resource, for the action
that holds it. Nothing is persisted by the components themselves: state lives
in instances, in the servers they call, and in the registries.

| Part | State | Operations | Talks to |
|---|---|---|---|
| **data-api** (`components/utilities/data-api`) | `CaptureData` behind a mutex: `capture_stack`, `model_names_of_local_ids`, `reserve_id_count_per_model`, `reserved_ids` | `request`, `start-capture`, `discard-capture`, `apply-capture`, `pending-capture` | the data-api server over gRPC: `reserveRecords`, `upsertMany`, `deleteMany`, anything passed through |
| **crud** (`components/utilities/crud`) | none between calls | `create`, `update`, `upsert`, `delete` | data-api: a mutation, then a query for the record, both by the free `request`, which knows no capture |
| **auth** (`components/utilities/auth`) | none; reads the runtime's configuration anew for each check | `allowed-to-call`, `allowed-to-list` | the configuration store |
| **http-mcp** (`components/http-mcp`) | one call at a time | JSON-RPC: `initialize`, `tools/list`, `tools/call`, notifications | auth, the configuration store, http-wrapper over HTTP |
| **http-wrapper** (`components/http-wrapper`) | one call at a time | runs an action with the input of the body | the runtime |
| **upload-file** (`components/utilities/upload-file`) | one call | decode, generate a reference, post the file | data-api server, object storage |
| **logs-writer** (`components/logs-writer`) | one call | parse, filter, post the logs, post the variables | logs service |
| **pdf-generator**, **log-to-stdout** | none | one request, one answer / print | a service / stdout |
| **publication** (`.github/workflows`, `scripts`) | build runs with artifacts, `.build-run-id` on dev and main, a concurrency group per destination, registries with pinned and moving tags | build, rerun, merge, hotfix, publish, dispatch | the registries |
| **world check** (`scripts/check-component-matches-world.sh`) | none | compares a `.wasm` with its `world.wit` | called for every build before it is published |
| **version check** (`scripts/check-version-bumps.sh`, `.github/workflows/version-check.yml`) | the verdict on each pull request | compares the packages of a request with the base branch | GitHub, which merges what passed |
| checks of commit messages and of the source branch (`commitlint.yaml`, `ci.yml`) | none | one comparison each | |

What makes them correct, and hard:

* **Captures.** A create inside a capture is answered with a negative *local
  id*. Later mutations, of that capture or of one inside it, may name it. When
  a capture is applied, real ids are reserved per model, and the local ids are
  replaced. The local ids are numbered by two lists of different lifetime
  (`names` and `reserved_ids`), the counts by a third, drained before the
  requests that may fail. Applying an inner capture must not disturb the
  outer one; discarding must not renumber; a failure after any request must
  not bind one local id to two records, or two to one; mutations must not be
  sent twice; what is sent is ordered creates, updates, deletes, in chunks.
* **crud** asks for the record in a second request, after others may have
  changed it; the first may have been executed although it returned an error.
* **http-mcp** loads its configuration and the one auth checks at different
  times; the request to the wrapper outlives its timeout.
* **upload-file**, **logs-writer**: two servers, either of which may fail.
* **Publication**: builds end in any order, publications queue and cancel
  one another, every push may fail alone, a rerun replaces an artifact.
* **Version check**: it compares three trees of different times, the merge that
  was made when the request was pushed, what that was merged with, and the base
  branch as it is when the check runs or is run again.

The full list, each at its line with the properties that watch it, is
"hazards" in `PROJECT.json`.

## 2. Modules

Every module models the control of its code: guards, early returns, error
paths and their order. Documents, names and payloads are reduced to what the
properties tell apart.

| Module | Code | What is in it |
|---|---|---|
| `DataApiService` | the data-api server (external) | `granted`, the ids reserved so far and their models; `wire`, the mutations executed. `ReserveFaults` and `MutationFaults` switch on what can go wrong with a reservation and with a mutation: refused, executed but answered with an error (lost), too few or too many ids (miscount, of reservations only), a status that the client calls unreachable (status) |
| `Capture` | `context.rs`, `context/format_mutation.rs`, the storing half of `process_request.rs` | one action per operation and per request of an apply: `StartCapture`, `DiscardCapture`, `CreateLocal`, `Change`, `PassThrough` (sent as it is, with the local ids in it), `ApplyCapture`, `ReserveIds` (per model), `AssignIds`/`AssignFails` (the end of `reserve_ids` and the replacement), `Send` (per chunk), `PrepareDeletes`, `ApplyDone`, each request with its failure and trap. The mutex is held during an apply, so no call of the caller interleaves with it. An input has its relation in the form that is replaced, a number under `id`, or in one that is not |
| `LocalIds` | the promise of the capture api | the abstract specification: `-k` means one model and one real id until numbering restarts, which needs every capture closed, or the resource lost |
| `CaptureRefinement` | | the mapping under which `Capture` implements `LocalIds`, with `ReserveFaults \subseteq {"status"}` and any `MutationFaults` |
| `CaptureInvariants`, `CaptureProofs`, `CaptureBooksProofs`, `CaptureBindingProofs` | | inductive invariants and proofs, each module on top of the one before; the last has the refinement too |
| `CaptureRequest` | `context/process_request.rs` | what `extract_mutation_data` makes of thirteen kinds of documents and their variables: passed on, stored, refused, trapped; the books it keeps; and the loop by which an apply merges the validation sets of what is stored, an entry a step, before it sends them. A document is what the code looks for in its text |
| `RequestProofs` | | its invariant and proofs |
| `Json`, `ReplaceIds` | `serde_json::Value`, `context/replace_ids.rs` | the recursive replacement of local ids |
| `CrudMapping` | `crud/src/lib.rs:10-254` | selections asked back and values assigned, per kind of property and shape of value |
| `CapturedInputs` | the ways of an input to the data-api | crud's, with `CrudMapping`; an action's own JSON through a capture, with `ReplaceIds`; and the documents of a capture, with `CaptureRequest`. The three share no step, as in the code |
| `Crud` | `crud/src/lib.rs:256-536` | calls of several clients, two requests each, over a database |
| `Auth` | `auth/src/lib.rs` | the two reads of a check, first what the resource demands and then the profiles, and the validation of a token, as operators over configuration, token and clock |
| `Mcp` | `http-mcp/src`, `http-wrapper/src/lib.rs` | one action per stretch between two calls out of http-mcp, and the two of the wrapper; the configuration and the clock change in between, also between the two reads of auth |
| `ToolCalls` | the promise of http-mcp | the abstract specification: one attempt at most per call, at an action it was entitled to; a run some time later, or none; one answer, and a true one |
| `McpRefinement` | | the mapping under which `Mcp` implements `ToolCalls` |
| `McpProperties`, `McpInvariants`, `McpProofs` | | its properties, inductive invariants, proofs |
| `UploadFile`, `LogsWriter`, `Services` | those components | `Services` has `Crud`, `UploadFile` and `LogsWriter`, one of them active in a behaviour: they share nothing, so their states add up |
| `ServiceProofs` | | its invariants and proofs |
| `WorldCheck` | `check-component-matches-world.sh` | the comparison, and its header's rules as a reference definition |
| `Publish` | `release.yaml`, `publish.yaml`, `publish-prod.yaml`, `publish-components.yaml`, `publish-components.sh`, `publish-wit-packages.sh` | builds, reruns, merges, the queue per destination, the three requests of a job for its commit, its checkout and its artifact, each check and each push; pushes to dev that `paths-ignore` leaves without a build. One of ghcr, dev and production is watched in a behaviour. A commit has a kind, which says per component what is built, whether it has a world, and whether that has a version |
| `PublishProofs` | | its invariants and proofs, and those of `WorldCheck` |
| `VersionBumps` | `check-version-bumps.sh`, `version-check.yml` | pull requests that are pushed, checked, checked again and merged. A package of a tree has its version and the requests that changed its files, those that count and the others |
| `VersionProofs` | | its invariants and proofs |

`MCCapture`, `MCCapturedInputs`, `MCMcp`, `MCPublish` and `MCVersionBumps` hold
the instances of TLC. Definitions marked "Mutant" are plausible slips of the code: with one of
them in the place of the definition it varies, TLC finds the property violated.

History variables (`issued`, `held`, `dropped`, `failed` in `Capture`; `began` in `Mcp`;
`mains`, `dispatched` in `Publish`; `taken` in `CaptureRequest`; `checked` in `VersionBumps`) are read by properties and bounds. `held`
also limits what the caller may name: it uses the local ids it was given, as
long as a capture that could know them is open, and never one it made up.

## 3. Runs

Passing:

| Run | Question | Properties |
|---|---|---|
| `capture_clean` | Do nested captures, discards and applies, in any order, keep the books while reservations are answered, whichever mutations are refused, lost or end in a trap? | `OneRecordPerName`, `RecordOfItsModel`, `NoTrap`, refinement `NumberingRefined` |
| `capture_faults` | What is left of it whatever request is refused, lost, miscounted or answered with an impossible status? | `AccountedFor`, `SentAtMostOnce`, `CreateSentFirst`, `OkMeansSent`, liveness `ApplyEnds` |
| `captured_inputs` | What of the JSON of an input is replaced when a capture is applied, and what does crud ask back? Do the books survive documents that are refused or passed on, and is validated what should be? | `OnlyNumbersUnderIdChange`, `SubselectionPerRelation`, `BooksTellCreates`, `UnvalidatedOnRequest` |
| `mcp_calls` | Can an action run for a call not entitled to it, with an input no schema beside it accepted, twice, or after a refusal, while configuration, clock and network move? | `ExecutedOnlyIfAllowed`, `InputValidated`, `RejectedNeverRuns`, `RunsAtMostOnce`, refinement `PromiseKept`, liveness `CallsAreAnswered` |
| `publish` | What do the registries hold when commits are not sound, pushes fail, builds are rerun and dispatched, and main has changes of its own? | `PinnedNamesCommit`, `OnlyMatchingBuilds`, `NothingOfHalfATable`, `ProductionFromMain`, `PublishedTogether`, liveness `PublicationEnds` |
| `services` | What do the database, the storage and the logs service hold when calls interleave and requests fail, and are calls of crud answered? | `ExecutedOnce`, `FetchSeesLastWrite`, liveness `CallEnds`; `OkMeansStored`, `UndecodableAsksNothing`; `LogsAllOrNothing`, `BothAreSent` |
| `versions` | Can a request that was checked against the tree it is merged into bring code under the version it had, or one be refused that did nothing wrong, in whatever order is pushed, checked and merged? | `CheckedMergeBumps`, `RefusedForCause` |

`TypeOK` is checked in `capture_clean`, `services`, `mcp_calls` and
`publish`.

Violated, where a document or comment says other than the code does:

| Run | What TLC shows |
|---|---|
| `capture_retry` | `apply_capture` pops before it sends. A capture that failed is gone, and the next `apply_capture` returns Ok without it (`data-api.wit:23`) |
| `capture_one_record` | After a failed reservation the names are left without counts; the next apply drops them unbound and the numbering starts over under an open capture: two creates, one record (`replace_ids.rs:31`). This is a defect, not a wording |
| `request_queries` | A query that contains the word mutation does not pass through an open capture: it is refused or traps (`data-api.wit:17`) |
| `publish_older` | Two builds that end in the other order leave the moving tag at the older (`publish-components.yaml:59`) |
| `versions_rerun` | A request that leaves a version alone is refused; another one bumps it on the base branch; the check of the first, run again, compares its old version with the new one and passes (`check-version-bumps.sh:3`). Branch protection then has the last word |

Other divergences met on the way. No run is made to fail for them; where a
property touches one, it states what the code does and its comment says so.

* *data-api.* An apply is not all at once (`data-api.wit:16`). Of the single
  mutations it is said to capture an upsert is not one, and of a document with
  several only the first is. Only a number directly under `id` is replaced
  (`OnlyNumbersUnderIdChange`): a list of ids keeps its local ids though
  `replace_ids.rs:31` speaks of "all the negative IDs" and line 50 of "the
  negative ID or IDs", and so does an id that is a text. Documents that are
  passed on (raw requests, upserts, `...Many`) keep the local ids in them too.
* *crud.* A delete answers Ok for every answer to its request that is no error
  (`crud/src/lib.rs:531`), one with `errors` in its body included, which
  upload-file looks for (`upload.rs:133`). `ExecutedOnce` therefore demands
  nothing of a delete that was answered Ok but that it was not executed twice.
* *auth.* Its README names RS256 and HS512 (3, 48) and has `iss` and `aud`
  verified against the environment (8). The code takes HS256 only, looks at
  neither, and refuses every token that has an `aud`, because the library does
  where no audience is configured. `Entitled` says what the code does.
* *http-mcp.* Absent arguments are validated as `{}` and forwarded as null
  (`mcp.rs:154-158`), which no schema of type object accepts, though the README
  (3, 22) has arguments validated before the action is called: the one
  exception in `InputValidated`. An answer of the action that is JSON without
  `output` is told as a success with nothing in it (`actions.rs:46`): the answer
  `empty`. Public resources need no token (README:91). A body that ends early
  counts as too large (`http-wrapper/src/lib.rs:120`).
* *Publication.* A rerun can rewrite a pinned tag that
  `publish-components.yaml:197` calls never rewritten: what a tag names is
  still what was built of its commit (`PinnedNamesCommit`), by another attempt.
  An import that is not used is reported unless it is of wasi, and so is an
  export of wasi's that is not there (`check-component-matches-world.sh:112`,
  lines 9 and 12-14; `MatchesExactly` in section 4 says how far this goes).
* *Version check.* Two requests that passed one after the other can be merged
  under one version: nothing in the repository makes the second be checked
  again. `CheckedMergeBumps` is about those that were.

### Bounds, and why they are enough

* *Captures*: two models are what it takes for queues per model to be mixed
  up; depth 2 has an inner and an outer capture; three mutations have two
  creates and something that names them. With `ChunkSize = 1` every second
  mutation of a model starts another chunk, and the first and the last chunk
  can fail apart. `capture_faults` has depth 1 and no relations: its properties
  follow mutations, not names.
  In `capture_clean` models are a symmetry set; `capture_faults` has a liveness
  property and so none.
* *Inputs*: a capture of two entries has two of one model that ask for
  different validation, a local create next to one that brings its id, and room
  for a refused or passed document anywhere between. Values crud maps are two
  levels deep with arrays of two items; inputs an action writes itself are
  three deep with arrays of one. The code recurses on one level at a time, so
  three have every pair of neighbours.
* *crud*: the calls share a database record by record, so one record will do;
  with three calls of two clients one comes between the two requests of
  another, and one after.
* *mcp*: the calls share nothing that they write, so one call is enough for
  TLC; the theorems are for any number. Two deployments leave room for a change
  between load and check and one more after, or between the two reads of auth;
  stores differ in the mapping, in what the actions demand, in the secrets of
  the profiles, and in what is readable at all. A leeway of one tick of three
  has tokens that are valid for their leeway alone, at either end, and some that
  are past it; some have an `aud`.
* *publish*: destinations share the builds but no registry, queue or job, so
  one of the three is watched in each behaviour, with bounds of its own:
  production has a push to main, a dispatch, pushes to dev that are not built,
  and a main that may start with changes of its own, what sets it apart; dev has
  a build that is run again; ghcr (a third tag, no WIT packages) gets what is
  built. Two components show a publication half done, and a table of which a
  row is sound and another not; two commits an older and a newer, each of any
  kind. `publish_older` watches ghcr with one component and sound commits. A
  commit stands for its short sha too: no two commits that are built are taken
  to share their first seven digits.
* *versions*: two requests, two packages, three pushes: one request may be
  pushed again after the other was merged. Versions go up to 3, so that two
  requests take the same one or one each; edits leave the version, change it
  with or without code, or remove its line. A request may be merged whenever it
  passed, however old its check; `CheckedMergeBumps` asks for a bump where the
  last check read the tree that the request is merged into, although the merge
  it looked at is older, if the request gives the package a version or nothing
  was merged since it was pushed. The rest is `versions_rerun`, which needs one
  package.
* *services*: two clients of crud, one record, three calls, of which each
  request may be refused, be executed and its answer lost or unreadable, or be
  answered with errors; three uploads of two files; three messages of two
  applications.
* `MaxDeploys`, `MaxTime`, `MaxCalls`, `MaxMutations`, `MaxDepth`,
  `MaxMessages`, `MaxStored`, `MaxPushes`, and `MaxCommits` and `Bounds` of
  `Publish` are bounds of the
  models, not of the code.

Deadlock is not checked where the model stops by its bounds or because every
call has been made (`CHECK_DEADLOCK FALSE`).

### Fairness

`Capture` and `Crud`: a request is awaited (`block_on`, or a synchronous
call), and the transport answers it or gives an error, so an apply or call
that has begun goes on; whether it is begun is the caller's choice. `Mcp`:
only http-mcp is fair. The wrapper, the action and the network owe nothing;
the ten-minute timeouts of `actions.rs` end the wait. `Publish`: a job that
started is given its runner and its steps end, pass or fail. Builds are not
fair. `VersionBumps` has no fairness: nothing there must happen. Safety properties are checked of the same specifications; they do not
depend on it.

## 4. Proofs

tlapm checks all of them; `PROJECT.json` lists the results.

**Captures, any faults** (`CaptureProofs`). `TypeCorrect` is
`Spec => []TypeOK`. `TypeOK` is not inductive: that what is sent has types
depends on `ids` being long enough for the local ids of what is `taken`, which
`SendInRange` adds; `TypeInv` is both. `AtMostOnce`, `OkSends` and
`CreateFirst` prove `SentAtMostOnce`, `OkMeansSent` and `CreateSentFirst`, and `Accounted` proves
`AccountedFor`. They rest on `TokensInv`: no mutation is stored twice (`Distinct`, within a capture;
`Apart`, over the stack), and `Stages` says where in its life each is. Its
core is `Unsent`, what the running apply has still to send: nothing of it has
been sent, and everything else of what was taken has. A chunk takes the lowest
positions of its model first (`ChunkTakesFirst`), which is why a create comes
before what is chained behind it. `Advances` proves `ApplyAdvances`, the part of
`ApplyEnds` that needs no fairness and so no run of its own: every step of an apply enters a later
stage, or asks for one model less or sends at least one entry in this one. No
chunk is empty because the lowest position that is left is always in it
(`ChunkHasSome`). `OnlyRecords` (at the end of `CaptureBindingProofs`) proves
`OnlyRecordsSent`: however the books come apart, what an apply sends for an id
that it sees, as a number, is the id of a record. Ids it does not see (as a text
or in a list, `Unseen` in `Capture`) and those in requests passed on are outside: they
are sent as local ids. By `RecordsInv` the component looks names up only in ids
that were reserved (`IdsReserved`), and the caller knows by number only records
from the start and local ids (`NamesKnown`). It has no run of its own.

**Captures, no faults** (`ReserveFaults = {}`, `MutationFaults = {}`).
`OkAppliesAll` (`CaptureBooksProofs`) proves `OkMeansAllApplied`, the very
property that `capture_retry` refutes: what `data-api.wit:23` says is
true when nothing fails. By `Unfailed` no caller was told of a failure and no
instance was lost, and then `AccountedFor` leaves a mutation nowhere to be but
executed or discarded; that nothing traps rests on `BooksInv`.

**Captures, while reservations are answered** (`ReserveFaults \subseteq
{"status"}`: no reservation is refused, lost or miscounted, though one may
trap; mutations fail and trap as they like). The assumption is
needed: with refused reservations `capture_one_record` shows how names and
counts part, and a wrong number of ids leaves them apart as well. A failed
mutation does no such harm, since by then every name has its id; an apply
that fails there leaves the books as one that succeeds. A trap
loses the instance: between it and the next instance the books say nothing, so
each of the invariants below has its part that holds `~Trapped`, and the part that survives.

* `NeverTraps` (`CaptureBooksProofs`): `NoTrap`, that the
  component never indexes outside `reserved_ids`. The
  invariant `BooksInv` says why; its `Books` are `Booked`, that per model the counts, the
  reservations still due and the ids answered sum up to the names; `AllBound`,
  that while mutations are sent every local id has its real id; `HeldOnce`,
  that the caller's local ids are the ones numbered so far; and
  `CapturesSound`, that every captured mutation names only those. The lemmas
  count the `Places` of a model among the names, how `Append` changes them,
  and the `Rank` of a name among those of its model.
* `OneRecord` and `OwnModel` (`CaptureBindingProofs`): `OneRecordPerName` and
  `RecordOfItsModel`. By `BindingInv` no real id stands for two local ids
  (`BoundOnce`) or is answered while it does (`AnsweredOnce`), and (`Bindings`) every local
  id that was sent is `Open`, still bound to the id it was sent as, or
  `Closed`, it and its id out of use (`SentBound`): that is what makes it safe
  for the numbering to start over. Of a lost instance what remains is that
  what was sent has ids the service has `granted` (`SentGranted`), and the next instance
  gets only newer ones. `ModelInv` adds what a local id `Means`
  before and after it is bound.
* `Refines` (also `CaptureBindingProofs`): `NumberingRefined`. Under all three
  invariants the vectors and maps of the code implement `LocalIds`: a start or
  end of a capture, a local create, a reservation, the assignment of ids (which
  starts the numbering over when no capture is left open), the end of an
  apply, a trap (`Lose`, or a `Reserve` whose answer is lost) and the next
  instance (`Restart`) are its steps, and all else is a stutter.

**Documents of a capture** (`RequestProofs`). `BooksTold` and `Unvalidated`
prove `BooksTellCreates` and `UnvalidatedOnRequest` of `RequestSpec`, for any
models and any sequence of documents. A document has no assumption made about
it: every one of the thirteen goes through the branches of the code. `BooksInv`
has the local creates numbered in the order they were stored, one per name
(`Told`), and the counts equal to the names of each model (`Counted`); a
document that is refused, traps or passes leaves them (`KeptBooks`). An apply
merges the sets in a loop over the entries; its invariant, `MergedInv`, is that
a model is sent unvalidated so far exactly if one of the entries merged so far
asks for it. At its end these are, by `UpsertsAsk`, the stored creates and updates.
`captured_inputs` checks the two within `CapturedInputs`, whose other steps
leave these variables alone.

**http-mcp** (`McpProofs`). All safety properties of `mcp_calls` and its refinement
are proved, for any number of calls, stores, requests, deployments and ticks.
`OrderInv` relates how far the parts of a call have come: its `phase`, its
request on the `wire`, the `response`, the `answer`, and the run of its action. It gives
`TypeCorrect`, `Rejected`, `Once` and `Success` (`SuccessMeansRan`, which the runs check as
a part of the refinement). `GrantInv` adds what was known
when (`GrantedFirst`): a call past its load has a version of the configuration that maps its
tool and accepts its arguments as they will be forwarded (`Mapped`), whatever is
on the wire or has run was `Granted`, and what has run had the input of its call. Since
versions are only ever appended and time goes on, what was granted stays so
(`GrantStays`), and whom auth lets pass is entitled by what its two reads found,
each in a version of its own (`PublicIsEntitled`, `CheckedIsEntitled`, which rest
on `CheckIsExact`); together they give `Allowed` and `InputsValidated`.
What a token is held against is thereby a demand and a secret that were in
force since the call came in, the secret no earlier than the demand: with a
deployment between the reads no version has both, and more cannot be proved.
`Promised` proves `PromiseKept`, that `Mcp` implements `ToolCalls`. It says in one
specification what the others say apart, and more: that a call is given up
for good before another could be sent for it, that an answer is final and true of the run and its output, and
that to be told nothing certain presupposes an attempt. What a call is entitled
to only grows (`AllowedGrows`); each stretch of http-mcp is an attempt, an answer
(`AnswerTells`) or unseen, and those of the wrapper are a run, a loss or unseen.

**Publication** (`PublishProofs`). `Pinned`, `NoHalf`, `FromMain` and
`Together` prove the four properties of `publish` that say what is in a
registry, for every table, number of commits, builds, reruns and dispatches.
`PublishInv` adds what the queue and the job know: a job is of one build, its
commit, and its bytes once they are fetched (`OneBuild`); what waits, runs or was pushed for
production came from main or by hand (`Provenance`); a job past its checks has
found every component of its commit in the table, one at the pushes every version
too (`Looked`); and a job without a
failure has `Written` all the pushes before the one it is at (`Progress`).

`OnlyMatching` proves `OnlyMatchingBuilds`: of whatever is pushed, the artifact
keeps the rules in the header of the world check. It has two halves. That the
comparison of the script implies these rules is a fact about `WorldCheck` alone
(`MatchesKeepsRules`, for any world and any finite component): the script
compares, per interface, the highest versions it finds on each side, so
it needs that there is a highest (`HasMax`). That nothing gets past the check
unseen is `Checked`: a job beyond it, and all that was pushed, is of a build
whose every component matches. `TypeCorrect` proves `TypeOK`, with its bounds:
by `Bounded` the attempts of a run are one more than the reruns it may get,
because every attempt but the first uses one up (`AttemptsLeft`), and this
bounds what is in a registry.

`MatchesExactly` is the other direction of `MatchesKeepsRules`, for components
that name an interface in one version: if the rules hold and what the component
lacks of its world are imports of wasi's, it passes. `JobGoesOn` proves
`JobAdvances`, the part of `PublicationEnds` that needs no fairness: a job is at
a `Stage` below `6 + Pushes`, each step of its own raises that or ends it
(`JobStages`, `JobIsOver`), and nothing else touches it. Neither has a run of
its own.

**Services** (`ServiceProofs`). For crud `CrudInv` has calls `Numbered` apart,
tells from how far a call is whether it was executed (`Done`), and has the
database show the last write of each record (`Shown`); it gives `TypeCorrect`,
`Once` and `LastWrite`. `Done` and `ExecutedOnce` say nothing of a delete that was
answered Ok (section 3). For upload-file `Given` bounds the references by the
uploads that asked for one and gives each to one upload, and `Kept` follows a
file to the answer: `Stored` and `Undecoded`. For logs-writer `Attempted` ties
the stage to the posts: `BothSent`. `LogsWhole` proves
`LogsAllOrNothing`: by `Sent`, whatever a server took is what the filter kept,
and of messages that all parse. What is left is that the filter, written
as the increasing enumeration of the places it keeps, keeps every one of them
once and in order: `Enumerated` shows there is such an enumeration of any
finite set of numbers, `LengthOf` and `Filtered` what it holds. The library's
theorems on induction take an operator, which the provers here cannot
instantiate; `Smallest` replaces them, by which a set of finite sets that is not
empty has a member with no proper subset in it, and so a claim about finite sets
a smallest counterexample.

**Version check** (`VersionProofs`). `Bumped` is `Spec => CheckedMergeBumps`.
`VersionInv` has per request that what it was started from and merged with is in
the history of the base branch, that the head its check reads is that merge, and
that what passed a check of the tip as it is now is in order (`Judged`).
`MergeBumps` has the argument: the check looked at an older merge than the one
that is made, and where the request gives a version the two have the same. That it
was the last check that read the tip is needed: two requests that passed one
after the other may be merged under one version. `ForCause` is
`Spec => []RefusedForCause`. A refusal is by what the check found in three trees, and
the property speaks of the request's own change: that others' code, merged
in, is never held against it rests on the base branch never losing a change
(`Grows`) and on what caused a refusal staying a cause as it grows
(`CauseStays`).

Assumptions are those named in the modules (`ServiceAssumption`,
`CaptureAssumption`, `AuthAssumption`, `McpAssumption`, `PublishAssumption`,
`CrudAssumption`, `UploadAssumption`, `LogsAssumption`, `RequestAssumption`,
`VersionAssumption`), which TLC evaluates in the runs, and those
stated above: on `ReserveFaults` and `MutationFaults`, and one version per interface. They say what kinds of things the constants are. The
strongest is in `PublishAssumption`: a component names finitely many interfaces,
with numbers for versions.

Only model-checked:

* liveness (`ApplyEnds`, `CallsAreAnswered`, `PublicationEnds`, `CallEnds`),
  which depends on fairness and `ENABLED`;
* everything about recursive operators (`CrudMapping`, `ReplaceIds`,
  `CapturedInputs`), that is `OnlyNumbersUnderIdChange` and
  `SubselectionPerRelation`: what they give for all inputs needs an induction over data.

Every other property of a passing run is stated by a theorem.

## 5. Not modelled

* The gRPC transport, the JAWS token, addresses and environment of data-api:
  no state of their own; their failures are `ReserveFaults` and `MutationFaults`.
* `pending_capture`, which only reads; the text of its answer.
* GraphQL text: selections are sets of paths, documents what the code looks
  for in them.
* pdf-generator and log-to-stdout: one request and its answer, one line and its
  print, no state, no order and no retry. A property of them would restate the
  one call they make.
* The health check of http-wrapper: a GET that reads.
* `betty_config`, which http-mcp checks only to be JSON and hands on.
* JWT signatures: a key is right or not. Clocks of different hosts.
* JSON schemas: arguments are good or bad for a tool.
* Dry runs of the publication, which push nothing. `Publish` takes all commits to
  have one version, the case in which their builds meet.
* commitlint and the check that requests to main come from dev (`ci.yml`): one
  comparison each, without state.
* Of the version check: packages a request removes (the script then finds no
  world file to ask of), `proto/`, which belongs to no package, and that the
  bump of a shared WIT package asks for none in the components that use it.
* Test components and integration tests, which were read as documentation.

## 6. Plan

Done in this order: captures and their proofs, what surrounds them (requests,
inputs, validation sets), crud, http-mcp with auth and its proofs, the
publication to its three destinations, the services, the version check. crud
and captures are not composed: crud's requests go round every capture. What is
left:

1. An abstract specification of the publication (a registry that
   is written a build at a time, or left half written) and its refinement.
2. `pending_capture` as a reader of the stack between other calls; `Publish`
   with versions that differ between commits, if a property can be said of them
   that is not a restatement.
