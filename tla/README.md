# Darjeeling, specified

Darjeeling turns a reference function (an expensive "L4" call) into a release
of cheap local layers L1 to L3: an agent writes the layers in a workspace, Core
freezes, validates and tests what it submits, releases the winner, serves
requests through the layers with L4 as the fallback, audits what was served and
turns the evidence into the next compile.

This directory holds TLA+ models of the parts of that system whose difficulty
is in the order of things: who writes what when, what is left after a crash,
what a stale answer still does. Each module is read against the source lines
`PROJECT.json` names for its definitions under `map`. Paths below are relative
to `src/darjeeling/` of the repository.

## The system

| Component | State | Operations | Hard in it | What makes it correct |
|---|---|---|---|---|
| Interactive compile loop (`compile_orchestration.py`) | ledger of evaluated submissions, Core's usage ledger, candidate and report files, feedback in the journal, `closed.json`, the result; in memory: handle, count, stop reasons | drain, validate in a fork, write feedback and evidence, poll, stop, close, write the result | the agent edits while Core reads; a validation may hang; time, cost and user stop anywhere; crash between any two writes, resume | one evaluation per content, budget across restarts, evidence before entry, no reader after close, it ends |
| Agent session (`agent_workspace.py`) | process, its group, the session record, the table of live processes | launch, poll, stop | after a restart only the record is left: exit code lost, leader gone but group alive, no start token | a closed attempt has no agent running |
| Compile launch (`compile_orchestration.py`) | compile runs, their records | plan, start | check-then-act on the limit of running compiles; agent started before the run is recorded | the limit holds for launches that do not overlap and do not die |
| Workspaces and attempts (`agent_workspace.py`) | target workspaces, their manifest, attempts | load, create an attempt, mount, launch, advance the baseline | rmtree then copytree, directory by directory, beside loads and clones of other compiles | it can be loaded unless an advance is under way or was cut off; the next attempt can launch its agent |
| Candidate evaluation (`candidate_evaluation.py`) | candidates, reports, decision, final reports, approvals | freeze, preflight, validate, test, compare, finalise | library calls in any order; ratios that may be missing | phases in order, the decision is right, only what meets every requirement is released |
| Snapshot and reference (`snapshot_reference.py`) | snapshots, manifests of consumed rows | collect, qualify, label, deduplicate, group, split, consume | duplicates and groups restrict each other; rows arrive between decision and launch | no input in two files, no row used for what it forbids, none after the cutoff, none hidden again after a test |
| Reference configuration (`reference_config.py`) | cache file, usage ledger file | call, append, summarise | unlocked read-modify-write from threads that outlive a timeout | no usage is lost |
| Artifact packages and workers (`artifact_worker.py`) | package directories, worker processes | validate, digest, copy, verify, start, call | the agent writes between check, digest and copy; a killed child leaves a partial copy; two compiles freeze the same files | what ran is what was digested, under the manifest that was checked, a whole package is never rewritten |
| Release registry (`release_runtime.py`) | releases and their status, channel pointers, previous pointers, canary options | create, load, set channel, select, roll back, retire | several writes per operation, several reads per request, in any mixture; rollback compares no contracts | one contract per target, a stable channel that serves, no request served what no channel had, a way back |
| Request serving (`release_runtime.py`) | result cache, worker pool, circuit breakers | serve, run cascade, call L4, shadow | breaker asked twice per request; L4 thread abandoned at its deadline; second trace after a failed write | one release per request, one trace per request, no audit dropped |
| Traces and metrics (`runtime_trace_metrics.py`) | trace list | write, aggregate, detect failure and drift | joins of traces and audits | counts agree with what happened |
| Audit monitoring (`audit_monitoring.py`) | audit queue, secure payload store, records | decide, capture, run, summarise | payload consumed by the first of two audits, or expired | what is queued can be audited, what is recorded was selected and its payload is gone |
| Telemetry and recompile (`telemetry_recompile.py`) | approved evidence, data sources | approve, build, request | evidence reaching a later snapshot through the wrong release | evidence has a trace and an approval |
| Target definition (`target_definition.py`) | none | check, hash the contract | none that is stateful | the same files give the same hash |
| Sandbox, CLI, demos, data classes, utilities | none | | | |

How they interact. The CLI launches an agent and runs the compile loop over it
in one process; the agent is another process that shares only the workspace
directory with Core; a validation is a fork of Core that answers through a pipe.
The files in `_core/<attempt>` belong to Core alone and are written by rename;
those in `journal/` and `submissions/` are the agent's too. The result of a
compile goes to the final test, then to `create_release`; a channel update makes
it serve. Requests read the registry object that administration changes, with no
lock; they share breakers, cache and worker pool. Audits and evidence flow back
into telemetry and from there into the next snapshot.

## The modules

`AgentSession` is the agent process, its process group and the record Core
keeps of it. `Poll` and `Stop` are `poll_agent_session` and `stop_agent_session`,
each with its two halves: the agent is Core's own child (`live`), or known from
the record of an earlier Core. `token` is whether `ps` gave a start token at
launch, without which a recorded leader is never signalled.

`InteractiveCompile` EXTENDS `AgentSession` and is `run_interactive_compile_loop`.
`pc` walks through the loop; every write to a file that a later process could read is
a step of its own, so `Crash` can fall between any two. The variables fall in groups:
the session, the agent's files (`agentFiles`), Core's files (`coreFiles`), the memory
of the loop (`loopVars`, lost in a crash) and `history`, which the code does not have
and which only the bounds and `FeedbackLeakBound` read. A content of a submission is a
number, 0 before its READY marker is there; a digest is that number, or `NoDigest` for
a content that cannot be read. `linked` is a symlink in the directories the close
digests: the agent may make and remove it (`LinkWorkspace`), `close_agent_attempt`
raises while it is there (`SealRaises`), and the caller resumes the loop over the open
attempt. `job` carries both the digest the parent took and the version the child
froze, since the two may differ. `Known`, `Selected`, `StopReason`, `LimitReason`,
`Synced` and `CloseReasonFor` are the functions of the same purpose in the code.

`CompilePromise` is what the loop promises, without processes or files: a log to
which each key is added at most once, never beyond the budget, and a seal after
which nothing more is evaluated. `InteractiveCompile!PromiseKept` instantiates it with
the ledger for the log and `closed # "open"` for the seal.

`ReleaseRegistry` is the registry with its three channels per target. An
operation begins with all its checks (`BeginSetChannel`, `BeginRollback`), and
each assignment to a registry field after them is one step of `admin`. One
administrator at a time: the CLI and the rollout functions run their operations one
after the other, so two operations do not overlap. A request's selection runs beside
them, read by read in the code's order (`BeginRequest` to `EndRequest`): the stable
pointer, the canary pointer, the stable release's status, its digests, the canary's
status, its digests, and the options last; a read that the code does not like makes
the request raise, which ends it. `witnessed` is history: the channels whose release,
as the request has read it, was the channel's active and loadable one at some moment
since. `Corrupt` damages a package on disk at any time. The routing hash of a request is
the Boolean `low`, a traffic fraction is `none` or `some`.

`ChannelPromise` is what the registry promises the target: a channel changes its
release in one moment, to a registered one of the target and of the contract of
all the target serves or could go back to, and what it goes back to is what it has
served. `ReleaseRegistry!KeepsChannelPromise` instantiates it with the pointers as
they are; of a rollback, which checks neither target nor contract, it asks the same.

`RequestServing` is `serve_request`, one request at a time: `req` holds the
locals of the request and, in `at`, where it is. A request arrives with any of the
releases that serve, since `ReleaseRegistry` says which those are, and channels move
between requests. It goes through the result cache, `_prepare_workers_for_serving`
and `run_cascade` layer by layer (`layer`), the L4 call with its timeout, and then
cache write, audit decision with capture, trace, evidence and queue; whatever
raises leads to the except clause. Breakers are keyed by release and layer as in
the code, a request's number is its trace id, and an output is told by release,
input and the reference version the broker stated. The audit worker and the
expiry of payloads are the steps beside it; the worker is not in the repository,
only `run_audit_reference_call`, which it calls.

`ArtifactStore` is `freeze_artifact_package`: the check of the submitted files, their
digest and the copy under the digest's name are steps of their own, because each reads
the files of the submission anew. The layer is the one declared when the submission
was received, the manifest the one read by the check; the package keeps both, whatever
the files say by the time they are digested. A content stands for its digest; a
directory of the store holds a content, nothing, part of one or a damaged one. The
validation child can be killed at each step (that is what the loop's `terminate`
does), the agent can edit in between, and two compiles can copy to the same directory.
`Follow` tells what a package becomes when links are followed by the copy: a
submission with links inside it never verifies.

`LayerCascade` holds the operators of an evaluation over rows: the outcome of a worker
call by what the process did (`Decision`), the cascade, the measurements and the fault
scenarios. `ReleaseRequirements` holds the judgement: generalization evidence, the
target's requirements, improvement on the baseline and the order of candidates, with
ratios kept as pairs and missing values as empty sets. `CandidateEvaluation` EXTENDS
both: receive a submission while the attempt runs, freeze and validate it, then or
after the close, test it while the attempt is closed and its workspace as it was,
compare any set of reports, finalise, approve, `create_release`. A stage starts the
workers it needs and only those: validation has the preflight of all enabled layers,
the test starts the layers some row reaches and those that differ from the base
Release; what they run is the bytes of the package and the start command of its
manifest (`Programs`). These are library functions, so a caller may make the calls in
any order and pass things that do not belong together; the guards are the checks the
functions make. `ReleasePromise` is the abstract specification: a candidate goes from
received (workspace open) to validated to tested (workspace sealed) to passed to
released, one step at a time. `CandidateEvaluation!KeepsReleasePromise` instantiates
it.

`SnapshotBuild` is the data path of `build_snapshot` as operators: collection with
telemetry and cutoff, qualification of the reference, labeling within the budget,
duplicates, split groups and the split plan for any outcome of its hash, and the
manifest of consumed rows. `TargetWorkspace` is the target's workspace,
directory by directory: load, the comparison before the clone, the clone, and
the advance (`shutil.rmtree`, `copytree`, manifest last), which can break off
anywhere. `Compiles` EXTENDS both and puts several compiles of one target side by
side: `plan_compile_launch`, `start_compile_launch` step by step, the
command line's own way (`_run_compile_command`, no consumed rows, no recorded run), the
closed attempt, its test and its advance. The interactive loop between launch and
close is one step there, since `InteractiveCompile` has it.

The MC modules give the constants their small values. The proofs are in modules
named `*_proofs`. An operator introduced as a faulty variant is no part of any
specification: it stands beside the definition it would replace and records a
mistake that the properties notice (`PROJECT.json`, `mutants`).

## The runs

| Run | Instance | Shows |
|---|---|---|
| `compile_restart` | 1 submission, 2 contents (1 unreadable), 2 candidates, an agent that reports costs up and down and makes and removes a symlink, 1 fault, fair | `PromiseKept`, `EvidenceOnDisk`, `CloseIsQuiescent`, `NothingLeftUnread`, `ClosedStaysClosed`, `CostHighWater`, `LoopAdvances`, `LoopEnds`, types |
| `compile_selection` | 3 submissions, 2 coverages, 2 candidates, 1 fault | `SelectedIsUsable`: the result names the best passing candidate and one that can be loaded; `FeedbackLeakBound` |
| `compile_dedup` | 1 submission, 2 contents, 2 candidates, no fault | violation of `EvaluatedAtMostOnce` |
| `registry` | 1 target, 4 releases (2 contracts, 1 of another target), 1 package, 4 operations, any number of requests one after the other | `OneContract`, `StableIsMarked`, `SelectionIsSound`, `KeepsChannelPromise`, types |
| `registry_rollback` | as above | violation of `RollbackAvailable` |
| `serving` | 2 releases (2 layers, none), 2 reference versions, 2 requests, breaker opening at 1 failure for 1 request | `AnswersAreOwn`, `QueuedIsAuditable`, `RecordedIsForgotten`, `EvidenceIsTraced`, `AnswersAreTraced`, `OutageIsBounded`, `RequestsAdvance`, `RequestEnds`, types |
| `serving_breaker` | as above | violation of `OpenedLayersRest` |
| `evaluation` | 2 submissions of 2 attempts with one store, 6 contents, 3 layers of which 2 have packages, 2 rows of each kind, 2 tests, 1 final report, 1 mishap | `RanAsFrozen`, `ReleasedAsTested`, `DecisionIsBest`, `OnlyGoodReleased`, `StoreIsWriteOnce`, `KeepsReleasePromise`, types |
| `evaluation_inherited` | the base Release comes from an earlier snapshot | violation of `UnchangedArtifactsReleasable` |
| `compiles` | 2 compiles, in a world of data (3 rows with a shared input and a shared group, telemetry that shares the input and allows less, late and foreign requests) or a world of workspaces (2 directories, 2 advances) | `SnapshotIsLegal`, `CutoffHolds`, `ConsumedStaysOpen`, `WithinLimit`, `AtRestLoadable`, types |
| `holdout_cli` | as above | violation of `HoldoutIsFresh` |
| `workspace_launch` | as above | violation of `MountedCanLaunch` |

Bounds. One fault (`MaxFaults`) is one crash or one failed write at any point; with it
the loop is resumed with every combination of files the first process can leave. A
second crash adds no new kind of disk: it leaves what the first or an uninterrupted
loop leaves, for a ledger one entry longer. Two contents are what an edit between two
looks needs, two candidates what a limit needs to be reached after something was
already counted, three submissions what a tie in the selection and a limit that could
be off by one need; they are in a run of their own because they do not interact with
the rest: what a drain does with one submission depends on another only through the
ledger's length and the selection. In `compile_restart` one submission cannot use up
more than the budget of two, so that run shows the other parts of `PromiseKept`; the
budget is what `FeedbackLeakBound` and the theorem `KeepsPromise` are about. `Linking`
lets the agent of `compile_restart` make symlinks; the other two runs do without,
their properties being about what is written before the close. One target is enough
for the registry, as no operation reads another target's channels; the foreign release
is there to be refused. Four operations (`MaxOperations`) let a request see a canary
set, replaced by another and promoted, and a rollback that leads back to the release
that is already stable. One package with one release using it distinguishes damaged
from intact; the cold start has none and is never damaged. Two requests are what a
cache hit, a breaker opened by an earlier request and two queued audits need; one
failure to open and one request of cooldown let a breaker open, skip and close within
them, and one is the code's default cooldown. A second input would only be a second
key beside the reference version.

In `evaluation`, a mishap (`MaxMishaps`) is one kill of a child, one late edit, one
damaged package or one change of a closed workspace, which may be undone, at any
point. The six contents are a good one, one that is wrong about a row and has the
manifest of another layer, one with a link and what the link's copy holds, one that is
refused, and the one of the base Release. Two tests let one decision compare two
reports, of which one may come from a slow machine; one final report (`MaxFinals`) is
enough, since nothing compares two; once it is there, no further comparison is made,
for nothing would read it. In `compiles`, two compiles are what a launch against a
limit of one, a consumed row and an advance beside a clone need. The world is chosen
at the start, as data and workspace do not act on each other; the clock has two
values, before and after the row that comes late.

The registry, the serving and the compile runs bound what a caller does by
`MaxOperations`, `MaxRequests`, `MaxCandidates`, `MaxFaults`, the evaluation runs by
`MaxTests`, `MaxFinals` and `MaxMishaps`, the runs of `Compiles` by a world's
`horizon` and `advances`. The proofs leave all of them arbitrary.

No run checks for deadlock, since each system may really stop: a loop ends, operations
and requests run out, submissions are all refused and compiles are all closed or failed.

Fairness. `LoopEnds` assumes `WF_vars(CoreStep \/ SealRaises)`: Core's process is
scheduled, and a loop that died or raised is started again over the same attempt (with
`MaxFaults` crashes and failed writes in all; a close that raises is not counted, and
comes again as often as the link is there); and `WF_vars(TimeRunsOut)`: the clock
reaches the session's timeout, which `_agent_session_timeout_seconds` always finds in
the handle or the budget when one is configured. It assumes nothing of the validation
child or of the user, and of the agent only what the property itself says: the child
may hang for ever and the agent never exit, but a symlink that stays in the workspace
keeps the attempt open for ever, so the loop ends if from some time on there is none
(`<>[]~linked`). `RequestEnds` assumes `WF_vars(ServerStep)`: the thread that serves
is scheduled, a worker call ends by its timeout, and so does the wait for L4
(`future.result(timeout=...)`). The answer of L4 itself, the audit worker and the
clock of the payloads are not fair. `LoopAdvances` and `RequestsAdvance` need no
fairness: they say that each step of Core, or of the serving thread, makes a number
smaller (`StepsLeft`), which for the loop holds once the time has run out and for a
request always. Nothing in `CandidateEvaluation` and `Compiles` has to happen: their
steps wait for callers.

### What the violations show

- `compile_dedup`. The parent takes the digest of a submission
  (`compile_orchestration.py:1165`), the child freezes the files later
  (`candidate_evaluation.py:163`). An edit in between is evaluated under the old
  digest and, at the next drain, again under its own. The runbook
  (`interactive_compile_loop_runbook.md:313`) asks that a candidate be evaluated at
  most once unless its content changes. What does hold, and is proved, is that no
  digest is entered twice, and that this edit is the only cause: in every behaviour in
  which no submission is edited between its digest and its freeze, no content is
  evaluated twice, over any crashes and resumed loops (`OnceUnlessEdited`).
- `registry_rollback`. `rollback_release` loads the release it leaves
  (`release_runtime.py:1169`). When that one's package is damaged, going back is
  refused although the previous release is eligible. Nothing else stands against it:
  while the release to be left verifies, a rollback to an eligible one goes through
  (`RollbackNeedsIntactCurrent`).
- `serving_breaker`. A failed healthcheck opens the breaker while workers are
  prepared, and `run_cascade` of the same request consumes one skip of it
  (`release_runtime.py:711`). With a cooldown of one request, the default, the breaker
  is closed again when the request is answered, and the next request starts and probes
  the failing worker again: the layer is never disabled. What does hold, and is
  proved, is the other direction: the outage is never longer than configured. And the
  default is the only setting at fault: with a cooldown of two or more, a layer whose
  breaker opened is still disabled for the next request (`OpenedLayersRestLonger`).
- `evaluation_inherited`. `freeze_candidate` takes layers that were not submitted from
  the base Release, with the snapshot digest they were frozen with, and
  `create_release` asks every package for the candidate's own snapshot
  (`release_runtime.py:193`). A candidate that improves one layer of a Release from an
  earlier snapshot can be found eligible and approved, but not released. With base
  packages of the attempt's own snapshot it always can (`InheritedOfOneSnapshot`);
  with foreign ones on two layers nothing the attempt submits is ever released
  (`TwoForeignLayersBlock`), since a submission replaces one layer.
- `holdout_cli`. A compile from the command line keeps no manifest of the rows its
  test has shown to the user and is given none (`cli.py:282`); the next one tests on
  the same rows. A planned compile brings the manifests, and no snapshot that is built
  with a manifest has its rows in validation or test (`ConsumedStaysOpen`, proved).
- `workspace_launch`. The baseline an attempt leaves behind contains its journal
  (`agent_workspace.py:531`), every later attempt is a clone of it, and
  `_prepare_agent_launch` (`agent_workspace.py:793`) takes the session record in it
  for this attempt's own: no agent can be launched after the first advance. Before the
  first advance every mounted attempt can be launched, if the workspace came without a
  journal (`FirstAttemptsLaunch`). The journal's usage file is carried along in the
  same way.

### What modelling turned up besides

No run asserts these; where a document says otherwise, its line is named.

- A wrong accept on any test row makes the generalization evidence fail, whatever
  precision the target asks for; `OnlyGoodReleased` says so.
- The evidence bounds are five points off the measured rates
  (`candidate_evaluation.py:883`), whatever the number of rows. A target that asks for
  more than 95 % precision, or for less than 5 % wrong accepts, therefore never gets a
  release (`ThresholdsWithinReach`).
- The P95 latency takes index `int(0.95 * (n - 1))` of the sorted latencies, which for
  few rows is below the highest one.
- A symlink the agent leaves in `journal/`, `scaffolding/` or another directory of the
  baseline makes `close_agent_attempt` raise (`_workspace_tree_digest`,
  `agent_workspace.py:209`), after the agent has been stopped and again on every
  resume: the attempt can only be closed once somebody removes the link. A submission
  received meanwhile is refused for the same reason.
- A crash while an advance removes the old tree leaves a workspace that is never
  loaded again if the manifest is still there. If it is not, the next load adopts what
  is there as the baseline, partial as it is; so does a load in the middle of an
  advance.
- `advance_target_workspace_baseline` compares the attempt with the baseline its
  caller has in memory, so an attempt that started from an older one can still replace
  the newest. Two advances at once can leave a mixture of both trees that the manifest
  names (`agent_workspace.py:527-549`), though `03_agent_workspace.md:303` speaks of one
  attempt's final commit: the second removes what the first has copied
  so far and copies its own, the first copies the rest and writes the manifest, and
  the second raises at a directory that is there again. An attempt's clone may be a
  mixture too, when an advance falls between its last digest
  (`agent_workspace.py:456`) and its copy; `initial_commit` records what was copied,
  and nothing compares it with `source_workspace_commit`. What the models do show is
  that the workspace can be loaded while no advance is under way, cut off or failed
  (`AtRestLoadable`).
- Compiles that overlap may test on the same row: the later snapshot was built before
  the row was used up, and `evaluate_candidate_on_test` asks nobody, though
  `00_overall_design.md:43` has such a row used up for later claims. `ConsumedStaysOpen`
  is about the build only.
- `select_release_for_request` reads the canary's options last, so a canary may be
  served by the fraction of the one that has replaced it. A request that falls between
  the pointer and the status of an update, or has read the pointer a rollback then
  moves, raises. After the canary release is promoted to stable every request raises
  until the canary pointer is moved, since the release's one status is no longer
  `canary`.
- An audit whose payload has expired raises in `run_audit_reference_call`
  (`audit_monitoring.py:173`) and leaves no record, while `09_audit_monitoring.md:95`
  has a record written for every selected audit. Whether one is written is up to the
  audit worker, which is not in the repository.
- A package keeps the layer that was declared and the manifest that was read by the
  check (`artifact_worker.py:802-809`), while its bytes are those of a later moment.
  Bytes that the check would refuse, or that come with another manifest, can be
  frozen, measured and released under the start command of the earlier check. They are
  the same in all three (`RanAsFrozen`, `ReleasedAsTested`).
- The test verifies only packages it starts. A candidate with a damaged package on a
  layer no test row reaches can be tested and found eligible; `create_release` then
  refuses it.
- If the stop file is removed before an attempt that it has ended is resumed, the poll
  takes the stopped agent for a failed one and `closed.json` is written again with
  `failure`.
- Nothing in the code changes the status of a recorded run; unless its caller does, a
  run counts against the limit for ever.
- A row used for training in one snapshot may be a test row of a later one. A consumed
  row that may only be a test row makes later builds fail, also when conflicts are to
  be excluded.

## The proofs

The proof modules assume only what the specifications state by ASSUME: submissions,
coverages and costs are numbers, contents are positive numbers, the bounds are
numbers, and there are finitely many submissions, which are read from a directory
listing; a release's packages are packages, its layers are layers, and a breaker's
threshold and cooldown are at least one; a store's markers are no contents and
packages have a layer (`StoreAssumption`, `ScopeAssumption`); there are finitely
many layers, and each split of a snapshot has finitely many validation and test
rows; there are finitely many compiles, times are numbers and the name of a split
group is no input (`WorldsAssumption`); the markers of a tree are no compiles
(`WorkspaceAssumption`). No value is fixed and nothing else is assumed finite. The
theorems that need more say so in their own ASSUME, and each is about what happens
under that condition: `OpenedLayersRestLonger` (a cooldown of two or more),
`InheritedOfOneSnapshot` and `TwoForeignLayersBlock` (where the base Release's
packages come from), `ThresholdsWithinReach` and `CoverageIsRetained` (the
thresholds are whole percents), `AlwaysABest` (the objective is coverage or cost).

`InteractiveCompile_proofs` proves `TypeCorrect` and `KeepsPromise`: the loop
implements `CompilePromise` for any number of submissions, contents, candidates
and crashes. The promise is not inductive, because the digest is looked up when
the drain reaches a submission and the entry is written many steps later. The
invariant `IInv` fills the gap: while a submission is in hand its digest is still
not in the ledger and there is still budget (`JobRight`), the count in memory is
the length of the ledger whenever Core runs (`CountRight`), what is on its way to
an entry with feedback was received while the attempt was open (`OpenRight`),
and the close has a reason (`StopRight`). `Persist` is then a `Log` step of the
promise, `Seal` a `Close` step, and every other action a stutter.

It also proves `LoopOnlyAdvances`, the safety half of `LoopEnds`. `StepsLeft` counts
what Core still has to do by the place where it is: at most six steps for each
submission in the queue and eight around them. Once the time has run out, each step of
Core makes it smaller, and only a fault, or a close that raises over a symlink, makes
it larger: the agent, the user and the validation child never do. Its invariant
`JobQueued` says that the submission in hand is still in the queue, so that finishing
it leaves fewer. What is left to TLC is that one of these steps is always possible and
is taken.

`CompileEvidence_proofs` adds `EvidenceBeforeEntry`, `LeakIsBounded`,
`CostNeverForgotten` and `SelectionIsUsable`. Its invariant says what the submission
in hand has on disk by the place where the loop is (`EvidenceInHand`), and that
every verdict delivered is in the ledger, in hand, or accounted for by a fault
(`LeakRight`). That there is a best entry whenever one passes would need an
induction over the ledger; it is instead part of the invariant (`BestRight`), which
each new entry keeps. The result on disk stays right because an entry that passes is
only added while the attempt is open, and the result is only written after the close
(`ResultAfterClose`). `OnceUnlessEdited` takes, besides `Spec`, that no step edits a
submission in between (`LeftAlone`); its invariant `OnceInv` then carries a content
from digest to freeze to ledger.

`CompileClose_proofs` proves `ClosedIsQuiet`, `ReadyIsRead` and
`NeverTurnsToFailure`, whose common difficulty is that they compare what Core
remembers with what the agent may still do. `SessionQuiet` relates the handle, the
record and the processes; `ReasonsRight` says that each stop reason at hand has its
ground and that no ground ever goes away; `ReadRight` that, once the agent is gone,
each submission was looked at or is still in the queue of the last drain;
`ClosedRight` that a loop over a closed attempt gets to a reason other than failure.
Two more say what `closed.json` tells its reader: `ReasonIsTrue`, that each reason
but failure has its ground in what happened, and `FailureIsTheAgents`, that without
a fault a failure is the agent's. The latter needs that before any fault what Core
knows of the agent is the agent's own exit (`FailureInv`); with a fault it is false,
since the exit code is lost with the Core that launched the agent.

`ReleaseRegistry_proofs` proves `TypeCorrect`, `TargetsKeepTheirContract`,
`StableStaysMarked` and `SelectionStaysSound`, for any targets, releases, contracts
and packages. `OneContract` alone is not inductive: between two writes of a channel
update or a rollback, the release it works with is on no channel yet, or no longer.
`InProgress` says that it belongs with what the target deploys, and that after a
rollback moved the pointer it points to the release it restores; `PreviousFollows`
makes the comparison with all pointers a comparison with all previous releases too.
For a request, `RequestRight` follows each release it has read: a release that carries
its channel's mark now and still verifies was the active one at some moment since the
request read the pointer, because it got the mark while the channel pointed to it, or
before the request looked. So by the time mark and digests have been read, in this
order, that moment has been. That what a target serves does not change its contract
carries the release over all operations that come in between. `ChannelPromiseKept` is
the refinement of `ChannelPromise`: the one write that moves a pointer is a `Set` or a
`GoBack`, with the checks that were made some writes before still true in it
(`Returning`), and all others are stutters.

`RequestServing_proofs` proves `TypeCorrect`, `AnswersStayOwn`,
`EvidenceStaysTraced`, `AnswersStayTraced` and `OutageStaysBounded`, for any
releases, inputs, thresholds, cooldowns and number of requests. What a
response or the evidence rests on was written some steps before, so `PathInv`
says what a request has left behind by the place where it is: an ok output is its
own, beyond the trace write it has its trace, and when it is about to be answered
there is a trace of what it answers, the except clause included. `CacheInv` says that
an entry is under the key of the request that produced it, which makes a hit
one's own; `BreakerInv` says that the skips an open breaker has made and those it
still has are no more than the cooldown. `RequestsOnlyAdvance` is the safety half of
`RequestEnds`, by a measure of the place and the layer the request is at, sixteen at
most; `OpenedLayersRestLonger` follows the breakers a request opened to its end: such a
breaker was asked at most once since, so with two skips one is left.

`AuditQueue_proofs` proves `QueueIsAuditable` and `RecordsAreClean` over it. That an
item has exactly one trace rests on request numbers never coming back (`TraceInv`)
and on the except clause writing its second trace only of requests that were not
queued (`RequestFits`); that it still has its payload rests on the audit worker
never holding the number of an item still queued or of the request in hand
(`WorkerInv`), which also keeps a payload from coming back once its audit is on
record.

`CandidateEvaluation_proofs` proves `TypeCorrect`, `NothingRewritten`,
`MeasuredAsFrozen`, `ReleaseIsTested`, `DecidesForTheBest`, `ReleasesAreGood` and
`PromiseKept`. Types and measurements need that a copy has its directory to itself
until it is finished or killed and that what was checked has a manifest of the declared
layer (`CopyInv`), and that a report's workers ran the bytes its digests name under
the package's manifest (`RanRight`, in `ReportInv`); that only good candidates are
released needs that a test report with its evidence has seen no wrong accept
(`Sound`), that eligibility was computed from a test (`DecisionInv`) and travelled
unchanged into the final report, the approval and the release (`FinalInv`).
`PhaseInv` says that a candidate is validated once; with it each action is one step
of `ReleasePromise` or a stutter, the close of an attempt with submissions that are
still to be validated included.

Five more delimit what a release can be. `InheritedOfOneSnapshot` and
`TwoForeignLayersBlock` trace every package of a candidate to its own freeze or to
the base Release (`Origin`). `ThresholdsWithinReach`, `CoverageIsRetained` and
`AlwaysABest` need what measurements have in common: counts of finite sets of rows,
the accepted among all, the wrong among the accepted (`Measured`). The order of
candidates compares ratios by cross-multiplication; that it is total and transitive
there, and so any finite set of reports has a best one, is proved by taking a report
that is at least as good as the greatest number of others: one that beat it would be
so of one more.

`Compiles_proofs` proves `TypeCorrect`, `LimitHolds`, `SnapshotsStayLegal`,
`NothingIsLate`, `ConsumedIsNotHidden` and `RestIsLoadable`. The limit is not
inductive, since a launch that was accepted is in no list: the invariant counts runs
and launches under way together (`LimitInv`). The lemmas about snapshots unfold
`SnapshotBuild` from collection to files once, from the rows of files and of telemetry
alike, and the invariant then only keeps them. `RestIsLoadable` is short, since of all
steps only the last of an advance leads to rest, and it names what is on the disk by
then, whoever put it there (`RestInv`). `FirstAttemptsLaunch` follows a clone from the
tree that was left to the mount.

Only model-checked: `LoopEnds` and `RequestEnds`, since liveness and ENABLED are out
of the prover's reach; of both, what is proved is that every step leads to the end
and that the steps are bounded. That there is a best candidate for the objective
`latency` is not proved either: the latency of a report is a fold over its rows, and
what a fold computes needs an induction over data that the provers cannot make. The
properties the violating runs refute have theorems only under the conditions named
above.

## What is left out

Within what is modelled:

- A READY marker or a stop file that is taken away again, and submissions without a
  layer directory, which `receive_candidate_submission` refuses: the latter is
  `RejectSubmission`, whose guard leaves the reason open.
- Agents that leave their process group, and reuse of process ids.
- Costs other than the agent's: the fixed cost of the compile is a constant offset of
  `CostLimit`; the cost a report states, which may include audits of earlier releases,
  is not looked at.
- The gate's third outcome `insufficient`, which the loop's selection treats as a
  failure; `ReleaseRequirements` has it.
- Requests served at the same time: `serve_request` takes no lock, and two threads
  would share breakers, cache and worker pool. What the L4 thread does after its
  timeout.
- A reference version that changes while a request is served.
- Of evaluations: standalone and residual results of single layers (nothing reads
  them), the cost ledger, requirements on memory and throughput, judgement without
  requirements, submissions of several layers at once. The objective `coverage` is
  checked; `latency` and `cost` are other constants of the same operators, and are
  covered by the proofs. `freeze_candidate` is an action only as
  `evaluate_candidate_on_validation` calls it, which nothing else does.
- Of workspaces: a contract that changes (`migration_record` is never written), the
  sandbox profile and the brief.
- Contents of feedback, reports, manifests and releases.

Not modelled: the reference broker and its unlocked usage ledger (one broker is
used by one process, and only a thread left behind by a timeout overlaps another);
shadow requests, which write nothing `serve_request` reads but the breakers; parsing
and checking of a target definition, which has no state; aggregation of
traces into metrics, arithmetic over a list; approval of telemetry evidence
and recompile requests, which write files once that `SnapshotBuild` reads; the
sandbox's command line; data classes and utilities. `PROJECT.json` lists them as
components, and under `hazards` the lines where one of them could go wrong.

## The plan

All modules of the plan exist: the compile loop with its promise, the registry,
request serving, candidate evaluation with its promise, compiles side by side, and
the proofs about each, the promise of channels among them. What could
follow, in the order of importance: requests side by side over shared breakers,
cache and worker pool, and over a registry that moves under them; the usage ledger
under abandoned threads; the life of a selected audit up to the monitoring summary.
