-------------------------- MODULE CandidateEvaluation --------------------------
(***************************************************************************)
(* From submissions to releases (candidate_evaluation.py, and create_release *)
(* of release_runtime.py): a submission is received while its attempt runs,  *)
(* frozen and validated; once the attempt is closed its candidate meets the  *)
(* test rows; reports are compared, one is made final, and a user's approval *)
(* of it allows a Release.  These are library calls: a caller may make them  *)
(* in any order and pass what does not belong together.                      *)
(***************************************************************************)
EXTENDS ArtifactStore, ReleaseRequirements

CONSTANTS
    EnabledOf,      \* [Submissions -> SUBSET Layers]: candidate.yaml
    Attempts, AttemptOf, Snapshots, SnapshotOf, Bases, BaseOf,  \* of an attempt
    BaseArtifacts,  \* [Bases -> [Layers -> packages]]
    BaselineOf,     \* [Bases -> what its ReleaseBaseline knows]
    RowsOf,         \* [Snapshots -> [validation, test: sets of rows]]
    TrialsOf,       \* by stage, how the workers of an evaluation may behave:
                    \* [replies, again: functions from programs and rows to
                    \* replies, when run and when run again; seen: what the
                    \* fault workers do]
    Healthy,        \* programs that pass the health check and a minimal call
    NoReport, MaxTests, MaxFinals

Packages == [digest : Contents, manifest : Manifests, snapshot : Snapshots]

\* The package of a layer has a manifest of that layer.
Fitting(art) == \A l \in Layers : art[l] # NoPackage => LayerOf[art[l].manifest] = l

ASSUME ScopeAssumption ==
    /\ EnabledOf \in [Submissions -> SUBSET Layers]
    /\ AttemptOf \in [Submissions -> Attempts]
    /\ SnapshotOf \in [Attempts -> Snapshots]
    /\ BaseOf \in [Attempts -> Bases]
    /\ BaseArtifacts \in [Bases -> [Layers -> Packages \cup {NoPackage}]]
    /\ \A b \in Bases : Fitting(BaseArtifacts[b])
    /\ \A n \in Snapshots : IsFiniteSet(RowsOf[n].validation) /\ IsFiniteSet(RowsOf[n].test)
    /\ MaxTests \in Nat /\ MaxFinals \in Nat

VARIABLES
    attempt,        \* [Attempts -> "running", "closed", "touched": changed since]
    validation,     \* [Submissions -> validation report]: there is a candidate
    artifacts,      \* [Submissions -> the candidate's packages by layer]
    tests,          \* the test reports
    decision,       \* the latest CandidateDecision
    finals,         \* final reports
    approved,       \* those a user has approved
    released        \* Releases: a final report, and the bytes of the packages

judged == <<decision, finals, approved, released>>
vars == <<storeVars, attempt, validation, artifacts, tests, judged>>

Package(digest, m, n) == [digest |-> digest, manifest |-> m, snapshot |-> n]
NoCandidate == [l \in Layers |-> NoPackage]
NoDecision  == [status |-> "none"]

Init ==
    /\ StoreInit
    /\ attempt = [a \in Attempts |-> "running"]
    /\ validation = [s \in Submissions |-> NoReport]
    /\ artifacts = [s \in Submissions |-> NoCandidate]
    /\ tests = {}
    /\ decision = NoDecision
    /\ finals = {} /\ approved = {} /\ released = {}

SnapshotFor(s) == SnapshotOf[AttemptOf[s]]
BaseFor(s) == BaseOf[AttemptOf[s]]

-----------------------------------------------------------------------------
(* The validation child. *)

\* receive_candidate_submission, of a submission with files for layer l, by the
\* loop or, where the loop's child was killed, by the resumed one.
Receive(s, l) ==
    /\ attempt[AttemptOf[s]] = "running"
    /\ child[s].step \in {"idle", "killed"}
    /\ child' = [child EXCEPT ![s] = [step |-> "received", layer |-> l,
                                      manifest |-> Absent, digest |-> Absent]]
    /\ UNCHANGED <<source, store, mishaps>>

\* freeze_candidate: the base Release's packages, but for the layer declared.
FrozenArtifacts(s) ==
    [BaseArtifacts[BaseFor(s)] EXCEPT
        ![child[s].layer] = Package(child[s].digest, child[s].manifest, SnapshotFor(s))]

\* validate_candidate_manifest: a package the base has too must be the same
\* in all its fields; the files alone are not enough.
ManifestValid(art, b) ==
    \A l \in Layers :
        art[l] # NoPackage /\ BaseArtifacts[b][l] # NoPackage
            /\ art[l].digest = BaseArtifacts[b][l].digest
        => art[l] = BaseArtifacts[b][l]

\* The layers that differ from the base Release; the comparison with it starts
\* them on its rows also where the candidate does not enable them.
Changed(art, b) ==
    {l \in Layers : /\ art[l] # NoPackage
                    /\ BaseArtifacts[b][l] # NoPackage =>
                            art[l].digest # BaseArtifacts[b][l].digest}

RowsFor(stage, s) == RowsOf[SnapshotFor(s)][stage]
Ablated(stage, s, art) == IF RowsFor(stage, s) = {} THEN {} ELSE Changed(art, BaseFor(s))

\* run_protocol_preflight starts every enabled layer.
Preflighted(s, art) == {l \in EnabledOf[s] : art[l] # NoPackage}

\* What the workers of these packages run: the bytes that are in the store, as
\* the package's manifest says.
Programs(art) ==
    [l \in Layers |->
        IF art[l] = NoPackage THEN NoPackage
        ELSE [bytes |-> store[l][art[l].digest], manifest |-> art[l].manifest]]

Protocol(art, on) == \A l \in on : Programs(art)[l] \in Healthy

\* Every start of a worker verifies its package.
Startable(art, on) == \A l \in on : Verifies(l, art[l].digest)

\* The cascade over the rows, and once more for latency and cost.
Cascade(s, art, trial) == RunOf(Programs(art), EnabledOf[s], trial.replies)
CascadeAgain(s, art, trial) == RunOf(Programs(art), EnabledOf[s], trial.again)

\* The layers a stage starts.  There is no preflight in the test: a layer that
\* no row gets to, and that is the base Release's, is not looked at.
ValidationStarts(s, art) == Preflighted(s, art) \cup Ablated("validation", s, art)
TestStarts(s, art, trial) ==
    LET rows == RowsFor("test", s) IN
        Reached(Cascade(s, art, trial), rows) \cup Reached(CascadeAgain(s, art, trial), rows)
          \cup Ablated("test", s, art)

\* A test report may be paired with the candidate's validation report v.
Transferred(v, m, slices) ==
    IF v = NoReport THEN Unpaired(TestSummary(m, slices))
    ELSE Reconciled(TestSummary(m, slices), v.m, m)

\* _build_report, of a run that has started the layers on.
Report(stage, s, art, on, v, trial) ==
    LET rows   == RowsFor(stage, s)
        run    == Cascade(s, art, trial)
        rerun  == CascadeAgain(s, art, trial)
        m      == Measure(run, rows)
        slices == Slices(run, rows)
    IN  [stage |-> stage, cand |-> s,
         snapshot |-> SnapshotFor(s), base |-> BaseFor(s),
         ran |-> [l \in on |-> Programs(art)[l]],
         m |-> m, p95 |-> P95(rerun, rows), cost |-> ServingCost(rerun, rows),
         gen |-> IF stage = "validation" THEN ValidationSummary(m, slices)
                 ELSE Transferred(v, m, slices),
         safe |-> FaultsContained(run, rows, trial.seen)]

ValidationReport(s, trial) ==
    LET art == FrozenArtifacts(s)
    IN  Report("validation", s, art, ValidationStarts(s, art), NoReport, trial)

TestReport(s, v, trial) ==
    Report("test", s, artifacts[s], TestStarts(s, artifacts[s], trial), v, trial)

Frozen(s) ==
    /\ At(s, "frozen")
    /\ GoTo(s, "validated")
    /\ artifacts' = [artifacts EXCEPT ![s] = FrozenArtifacts(s)]
    /\ UNCHANGED <<source, store, mishaps, attempt, tests, judged>>

\* Faulty variant: the workers are started without verifying the packages.
ValidateUnverified(s, trial) ==
    /\ Frozen(s)
    /\ ManifestValid(FrozenArtifacts(s), BaseFor(s))
    /\ validation' = [validation EXCEPT ![s] = ValidationReport(s, trial)]

\* evaluate_candidate_on_validation, after the freeze.
Admissible(s) ==
    LET art == FrozenArtifacts(s) IN
        /\ ManifestValid(art, BaseFor(s))
        /\ Startable(art, ValidationStarts(s, art))
        /\ Protocol(art, Preflighted(s, art))

Validate(s, trial) ==
    /\ Frozen(s)
    /\ Admissible(s)
    /\ validation' = [validation EXCEPT ![s] = ValidationReport(s, trial)]

RefuseCandidate(s) ==
    /\ At(s, "frozen")
    /\ ~Admissible(s)
    /\ GoTo(s, "failed")
    /\ UNCHANGED <<source, store, mishaps, attempt, validation, artifacts, tests, judged>>

-----------------------------------------------------------------------------
(* Closing, and the test. *)

CloseAttempt(a) ==
    /\ attempt[a] = "running"
    /\ attempt' = [attempt EXCEPT ![a] = "closed"]
    /\ UNCHANGED <<storeVars, validation, artifacts, tests, judged>>

\* Files of the baseline directories differ from final_commit; nobody looks at
\* the submissions, whose packages have digests of their own.
TouchWorkspace(a) ==
    /\ attempt[a] = "closed"
    /\ attempt' = [attempt EXCEPT ![a] = "touched"]
    /\ Mishap
    /\ UNCHANGED <<source, store, child, validation, artifacts, tests, judged>>

\* They are what they were again, or the attempt is closed again as it is.
RestoreWorkspace(a) ==
    /\ attempt[a] = "touched"
    /\ attempt' = [attempt EXCEPT ![a] = "closed"]
    /\ UNCHANGED <<storeVars, validation, artifacts, tests, judged>>

AddTest(s, v, trial) ==
    /\ tests' = tests \cup {TestReport(s, v, trial)}
    /\ UNCHANGED <<storeVars, attempt, validation, artifacts, judged>>

\* Faulty variant: the workspace is not compared with final_commit.
TestTouched(s, a, v, trial) ==
    /\ Cardinality(tests) < MaxTests
    /\ validation[s] # NoReport
    /\ attempt[a] # "running"
    /\ AttemptOf[s] = a
    /\ v \in {NoReport, validation[s]}
    /\ Startable(artifacts[s], TestStarts(s, artifacts[s], trial))
    /\ AddTest(s, v, trial)

\* evaluate_candidate_on_test of a candidate, with a closed attempt and, if
\* the caller has it, a validation report.
Test(s, a, v, trial) ==
    /\ Cardinality(tests) < MaxTests
    /\ validation[s] # NoReport
    /\ attempt[a] = "closed"
    /\ AttemptOf[s] = a
    /\ v \in {NoReport, validation[s]}
    /\ Startable(artifacts[s], TestStarts(s, artifacts[s], trial))
    /\ AddTest(s, v, trial)

-----------------------------------------------------------------------------
(* The decision. *)

ValidationReports == {validation[s] : s \in Submissions} \ {NoReport}

\* _candidate_requirement_results, with the definition's requirements.
ResultsOf(r) ==
    RequirementResults(r.m, r.gen, r.p95, r.cost)
      \cup BaselineResults(r.m, r.p95, r.cost, BaselineOf[r.base])
      \cup SafetyResults(r.safe)

BestOf(R) == {r \in R : \A q \in R : AtLeastAsGood(r, q)}
Widest(R) == {r \in R : \A q \in R : Coverage(r.m)[1] * Coverage(q.m)[2]
                                        >= Coverage(q.m)[1] * Coverage(r.m)[2]}

\* One base Release, and one snapshot.
SameScope(R) == R # {} /\ \A r, q \in R : r.base = q.base /\ r.snapshot = q.snapshot

Decided(status, r, T) == [status |-> status, selected |-> r, compared |-> T]

\* Faulty variant: the best is taken before the requirements are looked at.
CompareBestFirst(R) ==
    LET T == {r \in R : r.stage = "test"} IN
    /\ Cardinality(finals) < MaxFinals
    /\ SameScope(R)
    /\ IF T = {}
         THEN \E r \in Widest(R) : decision' = Decided("insufficient_evidence", r, T)
         ELSE \E r \in BestOf(T) : decision' = Decided(StatusOf(ResultsOf(r)), r, T)
    /\ UNCHANGED <<storeVars, attempt, validation, artifacts, tests, finals, approved, released>>

\* compare_candidates.  Validation reports alone decide nothing.  No decision
\* is of use any more once there are MaxFinals final reports.
Compare(R) ==
    LET T == {r \in R : r.stage = "test"}
        P == {r \in T : Passes(ResultsOf(r))}
    IN
    /\ Cardinality(finals) < MaxFinals
    /\ SameScope(R)
    /\ IF T = {}
         THEN \E r \in Widest(R) : decision' = Decided("insufficient_evidence", r, T)
         ELSE \E r \in BestOf(IF P # {} THEN P ELSE T) :
                 decision' = Decided(StatusOf(ResultsOf(r)), r, T)
    /\ UNCHANGED <<storeVars, attempt, validation, artifacts, tests, finals, approved, released>>

Finalized(r) == [report |-> r, status |-> decision.status]

\* finalize_report: the report the decision selected; for a test report the
\* validation report of the same candidate.
Finalize(r, v) ==
    /\ decision # NoDecision
    /\ decision.status = "eligible_for_release" => r.stage = "test"
    /\ decision.selected = r
    /\ r.stage = "test" => v.cand = r.cand
    /\ Cardinality(finals) < MaxFinals
    /\ finals' = finals \cup {Finalized(r)}
    /\ UNCHANGED <<storeVars, attempt, validation, artifacts, tests, decision, approved, released>>

\* Faulty variant: the approval brings a decision of its own.
ApproveAnew(f) ==
    /\ f \in finals \ approved
    /\ approved' = approved \cup {[f EXCEPT !.status = "eligible_for_release"]}
    /\ UNCHANGED <<storeVars, attempt, validation, artifacts, tests, decision, finals, released>>

\* An ApprovalRecord names the exact candidate and report.
Approve(f) ==
    /\ f \in finals \ approved
    /\ approved' = approved \cup {f}
    /\ UNCHANGED <<storeVars, attempt, validation, artifacts, tests, decision, finals, released>>

-----------------------------------------------------------------------------
(* create_release. *)

\* Every package, of a disabled layer too, must come from the candidate's own
\* snapshot and be intact.
Releasable(s) ==
    \A l \in Layers : artifacts[s][l] # NoPackage =>
        /\ artifacts[s][l].snapshot = SnapshotFor(s)
        /\ Verifies(l, artifacts[s][l].digest)

Release(f) == [final |-> f, art |-> Programs(artifacts[f.report.cand])]

\* Faulty variant: the digests are trusted.
CreateReleaseTrusting(s, f) ==
    /\ f \in approved /\ f.report.cand = s
    /\ f.status = "eligible_for_release"
    /\ \A l \in Layers : artifacts[s][l] # NoPackage => artifacts[s][l].snapshot = SnapshotFor(s)
    /\ released' = released \cup {Release(f)}
    /\ UNCHANGED <<storeVars, attempt, validation, artifacts, tests, decision, finals, approved>>

CreateRelease(s, f) ==
    /\ f \in approved /\ f.report.cand = s
    /\ f.status = "eligible_for_release"
    /\ Releasable(s)
    /\ released' = released \cup {Release(f)}
    /\ UNCHANGED <<storeVars, attempt, validation, artifacts, tests, decision, finals, approved>>

-----------------------------------------------------------------------------
Rest == UNCHANGED <<attempt, validation, artifacts, tests, judged>>

Next ==
    \/ \E s \in Submissions :
          \/ \E l \in Layers : Receive(s, l) /\ Rest
          \/ CheckPackage(s) /\ Rest
          \/ DigestPackage(s) /\ Rest
          \/ CopyPackage(s) /\ Rest
          \/ KillValidation(s) /\ Rest
          \/ Revalidate(s) /\ Rest
          \/ \E c \in Contents : EditSource(s, c) /\ Rest
          \/ \E trial \in TrialsOf.validation : Validate(s, trial)
          \/ RefuseCandidate(s)
    \/ \E l \in Layers, d \in Contents : Damage(l, d) /\ Rest
    \/ \E a \in Attempts : CloseAttempt(a) \/ TouchWorkspace(a) \/ RestoreWorkspace(a)
    \/ \E s \in Submissions, a \in Attempts, v \in ValidationReports \cup {NoReport},
          trial \in TrialsOf.test : Test(s, a, v, trial)
    \/ \E R \in SUBSET tests \cup SUBSET ValidationReports : Compare(R)
         \* mixed, the validation reports could only break SameScope
    \/ \E r \in tests \cup ValidationReports, v \in ValidationReports : Finalize(r, v)
    \/ \E f \in finals : Approve(f)
    \/ \E s \in Submissions, f \in finals : CreateRelease(s, f)

Spec == Init /\ [][Next]_vars

-----------------------------------------------------------------------------
(* Properties. *)

Reports == tests \cup ValidationReports

\* The variables have the types the code gives them: reports belong to
\* candidates, final reports carry a decision and approvals name final reports.
TypeOK ==
    /\ StoreTypeOK
    /\ attempt \in [Attempts -> {"running", "closed", "touched"}]
    /\ artifacts \in [Submissions -> [Layers -> Packages \cup {NoPackage}]]
    /\ Cardinality(tests) <= MaxTests
    /\ \A r \in tests : r.stage = "test"
    /\ \A r \in Reports : r.cand \in Submissions /\ validation[r.cand] # NoReport
    /\ \A s \in Submissions : validation[s] # NoReport => validation[s].cand = s
    /\ \A f \in finals : f.report \in Reports
    /\ approved \subseteq finals
    /\ \A x \in released : x.final \in approved

\* What a package's worker is meant to run.
Named(p) == [bytes |-> p.digest, manifest |-> p.manifest]

\* What was measured is what was frozen: every worker a report's stage started
\* ran the bytes its candidate's digest names, as a manifest of its layer says,
\* although the agent may have written its files between the check, the digest
\* and the copy, a killed copy or a link may have left others in the store, and
\* another compile may have put them there.
RanAsFrozen ==
    \A r \in Reports : \A l \in DOMAIN r.ran :
        /\ artifacts[r.cand][l] # NoPackage
        /\ r.ran[l] = Named(artifacts[r.cand][l])
        /\ LayerOf[r.ran[l].manifest] = l

\* What is released is what was tested, and what was validated before, byte by
\* byte and under one manifest; and no layer of it, tried or not, holds
\* anything but its digest.
ReleasedAsTested ==
    \A x \in released :
        LET s == x.final.report.cand IN
            /\ x.final.report \in tests
            /\ \A l \in Layers : artifacts[s][l] # NoPackage => x.art[l] = Named(artifacts[s][l])
            /\ \A l \in DOMAIN x.final.report.ran : x.art[l] = x.final.report.ran[l]
            /\ \A l \in DOMAIN validation[s].ran : x.art[l] = validation[s].ran[l]

\* A decision is right about all it compared: it is eligible exactly if some
\* test report meets every requirement, and then no other that does is better.
DecisionIsBest ==
    LET P == {r \in decision.compared : Passes(ResultsOf(r))} IN
        decision # NoDecision =>
            /\ decision.status = "eligible_for_release" <=> P # {}
            /\ P # {} => decision.selected \in BestOf(P)

\* A Release meets every requirement on its test rows, and then, whatever
\* precision the target asks for, has answered none of them wrongly.
OnlyGoodReleased ==
    \A x \in released :
        LET r == x.final.report IN
            Passes(ResultsOf(r)) /\ r.m.wrong = 0 /\ r.m.accepted >= Req.min_accepted

\* Freezing never rewrites a package that is whole, not even when two compiles
\* freeze the same files at once.
StoreIsWriteOnce ==
    [][\A l \in Layers, d \in Contents :
          Verifies(l, d) => store'[l][d] \in {d, Damaged}]_vars

-----------------------------------------------------------------------------
\* The promise to whoever approves.

Tested(s)   == \E r \in tests : r.cand = s
Passed(s)   == \E f \in finals : f.report.cand = s /\ f.status = "eligible_for_release"
Released(s) == \E x \in released : x.final.report.cand = s

PhaseOf(s) ==
    IF Released(s) THEN "released"
    ELSE IF Passed(s) THEN "passed"
    ELSE IF Tested(s) THEN "tested"
    ELSE IF validation[s] # NoReport THEN "validated"
    ELSE IF ~At(s, "idle") THEN "received"
    ELSE "none"

WorkspaceOf(a) ==
    [running |-> "open", closed |-> "sealed", touched |-> "changed"][attempt[a]]

Promise == INSTANCE ReleasePromise WITH
    Candidates <- Submissions,
    workspace  <- [a \in Attempts |-> WorkspaceOf(a)],
    phase      <- [s \in Submissions |-> PhaseOf(s)]

\* A submission is received while its attempt runs; its candidate goes from a
\* validation, also after the close, through a test in a closed and unchanged
\* attempt, and an eligible decision on that, to a Release; none skips a step,
\* whatever order the library is called in.
KeepsReleasePromise == Promise!Spec

\* 05_candidate_evaluation.md:275: freezing inherits unchanged artifacts from
\* the base Release.  So an eligible, approved candidate that does can be
\* released as long as its packages are intact.
UnchangedArtifactsReleasable ==
    \A f \in approved :
        LET s == f.report.cand IN
            f.status = "eligible_for_release"
              /\ (\A l \in Layers : artifacts[s][l] # NoPackage =>
                      Verifies(l, artifacts[s][l].digest))
            => Releasable(s)

=============================================================================
