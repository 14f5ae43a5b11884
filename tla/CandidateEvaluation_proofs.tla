----------------------- MODULE CandidateEvaluation_proofs -----------------------
(***************************************************************************)
(* Proofs about candidates and their packages: that the shared store is    *)
(* written once, that what is measured and released is what was frozen,    *)
(* that decisions are right about what they compare, and that no candidate *)
(* gets to a Release without its test; for any submissions, packages,      *)
(* layers, rows, requirements and interference.  Then what a candidate may *)
(* inherit, which thresholds can be met, and that a comparison has a best. *)
(***************************************************************************)
EXTENDS CandidateEvaluation, FiniteSetTheorems, WellFoundedInduction, TLAPS

-----------------------------------------------------------------------------
(* The inductive invariant. *)

\* A copy has its directory to itself, a frozen package has a digest, and what
\* was checked has a manifest of the layer it was declared for.
CopyInv ==
    /\ \A s \in Submissions : child[s].step = "copying" =>
          child[s].digest \in Contents /\ Place(s)[child[s].digest] = Partial
    /\ \A s, t \in Submissions :
          child[s].step = "copying" /\ child[t].step = "copying"
            /\ child[s].layer = child[t].layer /\ child[s].digest = child[t].digest => s = t
    /\ \A s \in Submissions : child[s].step = "frozen" => child[s].digest \in Contents
    /\ \A s \in Submissions : child[s].step \in Busy =>
          child[s].manifest \in Manifests /\ child[s].layer = LayerOf[child[s].manifest]

\* A candidate is validated once.
PhaseInv == \A s \in Submissions : validation[s] # NoReport => child[s].step = "validated"

\* The workers of a report ran the packages its candidate names.
RanRight(r) ==
    \A l \in DOMAIN r.ran :
        /\ l \in Layers /\ artifacts[r.cand][l] # NoPackage
        /\ r.ran[l] = Named(artifacts[r.cand][l])

\* A test report that has its evidence has seen no wrong accept.
Sound(r) ==
    /\ r.gen.evidence \in {"fail", "insufficient", "pass"}
    /\ r.m.wrong \in Nat
    /\ r.gen.evidence = "pass" => r.m.wrong = 0

ReportInv ==
    /\ \A s \in Submissions : Fitting(artifacts[s])
    /\ \A s \in Submissions : validation[s] # NoReport =>
          validation[s].stage = "validation" /\ validation[s].cand = s /\ RanRight(validation[s])
    /\ \A r \in tests :
          /\ r.stage = "test" /\ r.cand \in Submissions /\ validation[r.cand] # NoReport
          /\ RanRight(r) /\ Sound(r)

\* Eligibility comes from the requirements, and from a test.
DecisionInv ==
    /\ DecisionIsBest
    /\ decision.status = "eligible_for_release" => Passes(ResultsOf(decision.selected))

Eligible(f) == f.status = "eligible_for_release"
FinalInv ==
    /\ \A f \in finals :
          f.report \in Reports /\ (Eligible(f) => f.report \in tests /\ Passes(ResultsOf(f.report)))
    /\ approved \subseteq finals
    /\ \A x \in released :
          /\ x.final \in approved /\ Eligible(x.final)
          /\ \A l \in Layers : LET p == artifacts[x.final.report.cand][l] IN
                x.art[l] = IF p = NoPackage THEN NoPackage ELSE Named(p)

Types ==
    /\ StoreTypeOK
    /\ attempt \in [Attempts -> {"running", "closed", "touched"}]
    /\ artifacts \in [Submissions -> [Layers -> Packages \cup {NoPackage}]]
    /\ DOMAIN validation = Submissions /\ validation = [s \in Submissions |-> validation[s]]
    /\ IsFiniteSet(tests) /\ Cardinality(tests) <= MaxTests

IInv == Types /\ CopyInv /\ PhaseInv /\ ReportInv /\ DecisionInv /\ FinalInv

\* The invariant holds in the beginning.
LEMMA InitInvariant == Init => IInv
<1> SUFFICES ASSUME Init PROVE IInv
  OBVIOUS
<1>1. StoreTypeOK
  BY StoreAssumption DEF Init, StoreInit, StoreTypeOK, Steps, Children
<1>2. IsFiniteSet(tests) /\ Cardinality(tests) = 0
  BY FS_EmptySet DEF Init
<1>3. Types
  BY <1>1, <1>2, ScopeAssumption DEF Init, Types, NoCandidate
<1>4. CopyInv /\ PhaseInv /\ ReportInv
  BY DEF Init, StoreInit, CopyInv, PhaseInv, Busy, ReportInv, Fitting, NoCandidate
<1>5. DecisionInv /\ FinalInv
  BY DEF Init, DecisionInv, DecisionIsBest, NoDecision, FinalInv
<1> QED
  BY <1>3, <1>4, <1>5 DEF IInv

-----------------------------------------------------------------------------
(* The store. *)

\* The actions of the store and the validation children.
StoreAction(s) ==
    CheckPackage(s) \/ DigestPackage(s) \/ CopyPackage(s) \/ KillValidation(s) \/ Revalidate(s)
      \/ (\E c \in Contents : EditSource(s, c)) \/ (\E l \in Layers : Receive(s, l))

\* One child moves on, with a manifest or a digest or nothing new.
LEMMA ChildMoves ==
    ASSUME child \in [Submissions -> Children], NEW s \in Submissions, NEW step \in Steps,
           \/ child' = [child EXCEPT ![s].step = step]
           \/ \E m \in Manifests : child' = [child EXCEPT ![s].step = step, ![s].manifest = m]
           \/ \E d \in Contents : child' = [child EXCEPT ![s].step = step, ![s].digest = d]
    PROVE  /\ child' \in [Submissions -> Children]
           /\ child'[s].step = step /\ child'[s].layer = child[s].layer
           /\ \A t \in Submissions : t # s => child'[t] = child[t]
<1>1. ASSUME NEW c \in Children
      PROVE  /\ [c EXCEPT !.step = step] \in Children
             /\ \A m \in Manifests : [c EXCEPT !.step = step, !.manifest = m] \in Children
             /\ \A d \in Contents : [c EXCEPT !.step = step, !.digest = d] \in Children
  BY DEF Children
<1>2. child[s] \in Children
  OBVIOUS
<1>3. CASE child' = [child EXCEPT ![s].step = step]
  <2>1. child' = [child EXCEPT ![s] = [child[s] EXCEPT !.step = step]]
    BY <1>3
  <2> QED
    BY <1>1, <1>2, <2>1 DEF Children
<1>4. ASSUME NEW m \in Manifests,
             child' = [child EXCEPT ![s].step = step, ![s].manifest = m]
      PROVE  /\ child' \in [Submissions -> Children]
             /\ child'[s].step = step /\ child'[s].layer = child[s].layer
             /\ \A t \in Submissions : t # s => child'[t] = child[t]
  <2>1. child' = [child EXCEPT ![s] = [child[s] EXCEPT !.step = step, !.manifest = m]]
    BY <1>4
  <2> QED
    BY <1>1, <1>2, <2>1 DEF Children
<1>5. ASSUME NEW d \in Contents,
             child' = [child EXCEPT ![s].step = step, ![s].digest = d]
      PROVE  /\ child' \in [Submissions -> Children]
             /\ child'[s].step = step /\ child'[s].layer = child[s].layer
             /\ \A t \in Submissions : t # s => child'[t] = child[t]
  <2>1. child' = [child EXCEPT ![s] = [child[s] EXCEPT !.step = step, !.digest = d]]
    BY <1>5
  <2> QED
    BY <1>1, <1>2, <2>1 DEF Children
<1> QED
  BY <1>3, <1>4, <1>5

\* The copies stay right where a child moves on that starts none.
LEMMA CopiesStay ==
    ASSUME StoreTypeOK, CopyInv, NEW s \in Submissions, UNCHANGED store,
           child' \in [Submissions -> Children],
           \A t \in Submissions : t # s => child'[t] = child[t],
           child'[s].step # "copying",
           child'[s].step = "frozen" => child'[s].digest \in Contents,
           child'[s].step \in Busy =>
              child'[s].manifest \in Manifests /\ child'[s].layer = LayerOf[child'[s].manifest]
    PROVE  CopyInv'
BY DEF StoreTypeOK, CopyInv, Place

\* What an action of the store does to its types and to the copies.
LEMMA StoreActionKeeps ==
    ASSUME StoreTypeOK, CopyInv, NEW s \in Submissions, StoreAction(s)
    PROVE  StoreTypeOK' /\ CopyInv'
<1> USE StoreAssumption
<1>0. /\ child \in [Submissions -> Children] /\ source[s] \in Contents
      /\ \A c \in Contents : ManifestOf[c] \in Manifests
  BY DEF StoreTypeOK
<1>1. CASE CheckPackage(s)
  <2> DEFINE m == ManifestOf[source[s]]
  <2>1. CASE GoTo(s, "failed")
    <3>1. /\ child' \in [Submissions -> Children] /\ child'[s].step = "failed"
          /\ \A t \in Submissions : t # s => child'[t] = child[t]
      BY <1>0, <2>1, ChildMoves DEF GoTo, Steps
    <3> QED
      BY <1>1, <3>1, CopiesStay DEF CheckPackage, StoreTypeOK, Busy
  <2>2. CASE /\ child' = [child EXCEPT ![s].step = "checked", ![s].manifest = m]
             /\ LayerOf[m] = child[s].layer
    <3>1. /\ child' \in [Submissions -> Children] /\ child'[s].step = "checked"
          /\ child'[s].layer = child[s].layer
          /\ \A t \in Submissions : t # s => child'[t] = child[t]
      BY <1>0, <2>2, ChildMoves DEF Steps
    <3>2. child'[s].manifest = m
      BY <1>0, <2>2 DEF Children
    <3> QED
      BY <1>0, <1>1, <2>2, <3>1, <3>2, CopiesStay DEF CheckPackage, StoreTypeOK
  <2> QED
    BY <1>1, <2>1, <2>2 DEF CheckPackage
<1>2. CASE DigestPackage(s)
  <2> DEFINE d == source[s]
             k == child[s].layer
  <2>1. /\ d \in Contents /\ k \in Layers /\ child[s].step = "checked"
        /\ child[s].manifest \in Manifests /\ k = LayerOf[child[s].manifest]
        /\ UNCHANGED <<source, mishaps>>
    BY <1>0, <1>2 DEF DigestPackage, At, CopyInv, Busy
  <2>2. PICK step \in {"copying", "frozen", "failed"} :
          /\ child' = [child EXCEPT ![s].step = step, ![s].digest = d]
          /\ step = "copying" => store[k][d] = Absent /\ store' = [store EXCEPT ![k][d] = Partial]
          /\ step # "copying" => store' = store
    BY <1>2 DEF DigestPackage, StartCopy, Digested, Place
  <2>3. /\ child' \in [Submissions -> Children] /\ child'[s].step = step
        /\ child'[s].layer = k
        /\ \A t \in Submissions : t # s => child'[t] = child[t]
    BY <1>0, <2>1, <2>2, ChildMoves DEF Steps
  <2>4. child'[s].digest = d /\ child'[s].manifest = child[s].manifest
    BY <1>0, <2>2 DEF Children
  <2>5. CASE step = "copying"
    <3>1. store' = [store EXCEPT ![k][d] = Partial] /\ store[k][d] = Absent
      BY <2>2, <2>5
    <3>2. StoreTypeOK'
      BY <2>1, <2>3, <3>1 DEF StoreTypeOK
    <3>3. \A t \in Submissions :
            child[t].step = "copying" => child[t].layer # k \/ child[t].digest # d
      BY <3>1 DEF CopyInv, Place
    <3>4. \A t \in Submissions : t # s /\ child[t].step = "copying" =>
             /\ child[t].digest \in Contents /\ child[t].layer \in Layers
             /\ store'[child[t].layer][child[t].digest] = Partial
      <4>1. \A t \in Submissions : child[t].step = "copying" =>
               /\ child[t].digest \in Contents /\ child[t].layer \in Layers
               /\ store[child[t].layer][child[t].digest] = Partial
        BY DEF CopyInv, Place, Busy
      <4> QED
        BY <2>1, <3>1, <3>3, <4>1 DEF StoreTypeOK
    <3>5. store'[k][d] = Partial
      BY <2>1, <3>1 DEF StoreTypeOK
    <3>6. CopyInv'
      BY <2>1, <2>3, <2>4, <2>5, <3>3, <3>4, <3>5 DEF CopyInv, Place
    <3> QED
      BY <3>2, <3>6
  <2>6. CASE step # "copying"
    <3>1. CopyInv'
      BY <2>1, <2>2, <2>3, <2>4, <2>6, CopiesStay
    <3> QED
      BY <2>1, <2>2, <2>3, <2>6, <3>1 DEF StoreTypeOK
  <2> QED
    BY <2>5, <2>6
<1>3. CASE CopyPackage(s)
  <2> DEFINE d == child[s].digest
             k == child[s].layer
  <2>1. /\ d \in Contents /\ k \in Layers /\ child[s].step = "copying"
        /\ child[s].manifest \in Manifests /\ k = LayerOf[child[s].manifest]
        /\ child' = [child EXCEPT ![s].step = "frozen"]
        /\ store' = [store EXCEPT ![k][d] = Follow[source[s]]]
        /\ UNCHANGED <<source, mishaps>>
    BY <1>3 DEF CopyPackage, CopyInv, At, GoTo, Busy
  <2>2. /\ child' \in [Submissions -> Children] /\ child'[s].step = "frozen"
        /\ child'[s].layer = k
        /\ \A t \in Submissions : t # s => child'[t] = child[t]
    BY <1>0, <2>1, ChildMoves DEF Steps
  <2>3. child'[s].digest = d /\ child'[s].manifest = child[s].manifest
    BY <1>0, <2>1 DEF Children
  <2>4. StoreTypeOK'
    BY <1>0, <2>1, <2>2 DEF StoreTypeOK
  <2>5. \A t \in Submissions : t # s /\ child[t].step = "copying" =>
           /\ child[t].digest \in Contents /\ child[t].layer \in Layers
           /\ store'[child[t].layer][child[t].digest] = Partial
    <3>1. \A t \in Submissions : child[t].step = "copying" =>
             /\ child[t].digest \in Contents /\ child[t].layer \in Layers
             /\ store[child[t].layer][child[t].digest] = Partial
             /\ t # s => child[t].layer # k \/ child[t].digest # d
      BY <2>1 DEF CopyInv, Place, Busy
    <3> QED
      BY <2>1, <3>1 DEF StoreTypeOK
  <2>6. CopyInv'
    BY <2>1, <2>2, <2>3, <2>5 DEF CopyInv, Place
  <2> QED
    BY <2>4, <2>6
<1>4. CASE KillValidation(s) \/ Revalidate(s)
  <2>1. PICK step \in {"killed", "received"} : GoTo(s, step)
    BY <1>4 DEF KillValidation, Revalidate
  <2>2. /\ child' \in [Submissions -> Children] /\ child'[s].step = step
        /\ \A t \in Submissions : t # s => child'[t] = child[t]
    BY <1>0, <2>1, ChildMoves DEF GoTo, Steps
  <2>3. UNCHANGED <<source, store>> /\ mishaps' \in 0 .. MaxMishaps
    BY <1>4 DEF KillValidation, Revalidate, Mishap, StoreTypeOK
  <2>4. CopyInv'
    BY <2>2, <2>3, CopiesStay DEF Busy
  <2> QED
    BY <2>2, <2>3, <2>4 DEF StoreTypeOK
<1>6. CASE \E c \in Contents : EditSource(s, c)
  BY <1>6 DEF EditSource, StoreTypeOK, CopyInv, Place, Mishap, Busy
<1>7. CASE \E l \in Layers : Receive(s, l)
  <2>1. PICK l \in Layers :
          child' = [child EXCEPT ![s] = [step |-> "received", layer |-> l,
                                         manifest |-> Absent, digest |-> Absent]]
    BY <1>7 DEF Receive
  <2>2. /\ child' \in [Submissions -> Children] /\ child'[s].step = "received"
        /\ \A t \in Submissions : t # s => child'[t] = child[t]
    BY <1>0, <2>1 DEF Children, Steps
  <2>3. UNCHANGED <<source, store, mishaps>>
    BY <1>7 DEF Receive
  <2>4. CopyInv'
    BY <2>2, <2>3, CopiesStay DEF Busy
  <2> QED
    BY <2>2, <2>3, <2>4 DEF StoreTypeOK
<1> QED
  BY <1>1, <1>2, <1>3, <1>4, <1>6, <1>7 DEF StoreAction

\* Damage leaves copies alone: what they write is no package yet.
LEMMA DamageKeeps ==
    ASSUME StoreTypeOK, CopyInv, NEW l \in Layers, NEW d \in Contents, Damage(l, d)
    PROVE  StoreTypeOK' /\ CopyInv'
BY StoreAssumption DEF StoreTypeOK, CopyInv, Damage, Mishap, Place, Busy

\* Children that are validated are left alone.
LEMMA StoreActionPhases ==
    ASSUME StoreTypeOK, PhaseInv, NEW s \in Submissions, StoreAction(s), UNCHANGED validation
    PROVE  PhaseInv'
<1>1. /\ \A t \in Submissions : t # s => child'[t] = child[t]
      /\ child'[s] = child[s] \/ child[s].step # "validated"
  BY DEF StoreTypeOK, StoreAction, CheckPackage, DigestPackage, StartCopy, Digested, CopyPackage,
         KillValidation, Revalidate, EditSource, Receive, At, GoTo, Busy
<1> QED
  BY <1>1 DEF PhaseInv

\* A step of the store or of a child's copy, in the whole system.
LEMMA StoreStepKeeps ==
    ASSUME IInv, NEW s \in Submissions, StoreAction(s), Rest
    PROVE  IInv'
<1>1. StoreTypeOK' /\ CopyInv'
  BY StoreActionKeeps DEF IInv, Types
<1>2. PhaseInv'
  BY StoreActionPhases DEF IInv, Types, Rest
<1>3. UNCHANGED <<attempt, validation, artifacts, tests, decision, finals, approved, released>>
  BY DEF Rest, judged
<1>4. Types'
  BY <1>1, <1>3 DEF IInv, Types
<1>5. ReportInv' /\ DecisionInv' /\ FinalInv'
  BY <1>3 DEF IInv, ReportInv, RanRight, Fitting, DecisionInv, DecisionIsBest, FinalInv, Reports,
              ValidationReports
<1> QED
  BY <1>1, <1>2, <1>4, <1>5 DEF IInv

\* A step outside of the store, the children and the candidates.
LEMMA FrameKeeps ==
    ASSUME IInv, UNCHANGED <<child, store, validation, artifacts, tests>>
    PROVE  CopyInv' /\ ReportInv'
BY DEF IInv, CopyInv, Place, ReportInv, RanRight, Fitting

\* Damage to a package.
LEMMA DamageStepKeeps ==
    ASSUME IInv, NEW l \in Layers, NEW d \in Contents, Damage(l, d), Rest
    PROVE  IInv'
<1>1. StoreTypeOK' /\ CopyInv' /\ child' = child
  BY DamageKeeps DEF IInv, Types, Damage
<1>2. UNCHANGED <<attempt, validation, artifacts, tests, decision, finals, approved, released>>
  BY DEF Rest, judged
<1>3. Types' /\ PhaseInv'
  BY <1>1, <1>2 DEF IInv, Types, PhaseInv
<1>4. ReportInv' /\ DecisionInv' /\ FinalInv'
  BY <1>2 DEF IInv, ReportInv, RanRight, Fitting, DecisionInv, DecisionIsBest, FinalInv, Reports,
              ValidationReports
<1> QED
  BY <1>1, <1>3, <1>4 DEF IInv

\* The close of an attempt, a change to a closed one, or its restoration.
AttemptStep(a) == CloseAttempt(a) \/ TouchWorkspace(a) \/ RestoreWorkspace(a)

\* None of them looks at candidates.
LEMMA AttemptStepKeeps ==
    ASSUME IInv, NEW a \in Attempts, AttemptStep(a)
    PROVE  IInv'
<1> USE DEF AttemptStep
<1>1. /\ UNCHANGED <<source, store, child>>
      /\ UNCHANGED <<validation, artifacts, tests, decision, finals, approved, released>>
  BY DEF CloseAttempt, TouchWorkspace, RestoreWorkspace, storeVars, judged
<1>2. Types'
  <2>1. mishaps' \in 0 .. MaxMishaps
    BY StoreAssumption
       DEF IInv, Types, StoreTypeOK, CloseAttempt, TouchWorkspace, RestoreWorkspace, Mishap,
           storeVars
  <2>2. StoreTypeOK'
    BY <1>1, <2>1 DEF IInv, Types, StoreTypeOK
  <2>3. attempt' \in [Attempts -> {"running", "closed", "touched"}]
    BY DEF IInv, Types, CloseAttempt, TouchWorkspace, RestoreWorkspace
  <2> QED
    BY <1>1, <2>2, <2>3 DEF IInv, Types
<1>3. PhaseInv'
  BY <1>1 DEF IInv, PhaseInv
<1>4. CopyInv' /\ ReportInv'
  BY <1>1, FrameKeeps
<1>5. DecisionInv' /\ FinalInv'
  BY <1>1 DEF IInv, DecisionInv, DecisionIsBest, FinalInv, Reports, ValidationReports
<1> QED
  BY <1>2, <1>3, <1>4, <1>5 DEF IInv

-----------------------------------------------------------------------------
(* Reports. *)

\* What a report says of itself.
LEMMA ReportFields ==
    ASSUME NEW stage, NEW s, NEW art, NEW on, NEW v, NEW trial
    PROVE  LET r == Report(stage, s, art, on, v, trial) IN
             /\ r.stage = stage /\ r.cand = s /\ r.ran = [l \in on |-> Programs(art)[l]]
             /\ r.m = Measure(Cascade(s, art, trial), RowsFor(stage, s))
             /\ stage = "test" => \E slices : r.gen = Transferred(v, r.m, slices)
BY DEF Report

\* What a test report says of its candidate and of its transfer.
LEMMA TestReportFields ==
    ASSUME NEW s, NEW v, NEW trial
    PROVE  LET r == TestReport(s, v, trial) IN
             /\ r.cand = s
             /\ \E slices : r.gen = Transferred(v, r.m, slices)
BY DEF TestReport, Report

\* Wrong accepts are counted, on a finite set of rows.
LEMMA MeasureType ==
    ASSUME NEW run, NEW rows, IsFiniteSet(rows)
    PROVE  Measure(run, rows).wrong \in Nat
<1> DEFINE taken == {r \in rows : Chosen(run, r) # Fallback}
           right == {r \in taken : Correct(run, r)}
<1>1. IsFiniteSet(taken \ right)
  BY FS_Subset
<1>2. Cardinality(taken \ right) \in Nat
  BY <1>1, FS_CardinalityType
<1> QED
  BY <1>2 DEF Measure

\* Paired with a validation report or not, and whatever drop and retention are
\* required: generalization evidence that passes has seen no wrong accept.
LEMMA TestEvidence ==
    ASSUME NEW v, NEW m, NEW slices, m.wrong \in Nat
    PROVE  /\ Transferred(v, m, slices).evidence \in {"fail", "insufficient", "pass"}
           /\ Transferred(v, m, slices).evidence = "pass" => m.wrong = 0
<1> DEFINE base == TestSummary(m, slices)
<1>1. /\ base = [drop |-> base.drop, retention |-> base.retention, slices |-> base.slices,
                 evidence |-> base.evidence]
      /\ base.evidence \in {"fail", "insufficient", "pass"}
      /\ m.wrong > 0 => base.evidence = "fail"
  BY DEF TestSummary, Summary, Evidence
<1> HIDE DEF base
<1>2. /\ Unpaired(base).evidence \in {"insufficient", base.evidence}
  BY <1>1 DEF Unpaired
<1>3. /\ Reconciled(base, v.m, m).evidence \in {"fail", "insufficient", "pass"}
      /\ base.evidence = "fail" => Reconciled(base, v.m, m).evidence = "fail"
  BY <1>1 DEF Reconciled, Evidence
<1>4. Transferred(v, m, slices) \in {Unpaired(base), Reconciled(base, v.m, m)}
  BY DEF Transferred, base
<1> QED
  BY <1>1, <1>2, <1>3, <1>4

\* Only layers with a package are started.
LEMMA StartsHavePackages ==
    ASSUME NEW s \in Submissions, NEW art, NEW trial
    PROVE  /\ ValidationStarts(s, art) \subseteq {l \in Layers : art[l] # NoPackage}
           /\ TestStarts(s, art, trial) \subseteq {l \in Layers : art[l] # NoPackage}
<1>1. ASSUME NEW run, NEW rows, NEW l \in Reached(run, rows)
      PROVE  l \in Layers /\ run.art[l] # NoPackage
  BY <1>1 DEF Reached, Tried, Routed
<1>2. /\ Cascade(s, art, trial).art = Programs(art)
      /\ CascadeAgain(s, art, trial).art = Programs(art)
  BY DEF Cascade, CascadeAgain, RunOf
<1>3. \A l \in Layers : Programs(art)[l] # NoPackage => art[l] # NoPackage
  BY DEF Programs
<1>4. \A stage : Ablated(stage, s, art) \subseteq {l \in Layers : art[l] # NoPackage}
  BY DEF Ablated, Changed
<1>5. Preflighted(s, art) \subseteq {l \in Layers : art[l] # NoPackage}
  BY ScopeAssumption DEF Preflighted
<1> QED
  BY <1>1, <1>2, <1>3, <1>4, <1>5 DEF ValidationStarts, TestStarts

\* Workers that could be started ran what their packages name.
LEMMA StartedRuns ==
    ASSUME NEW art, NEW on \in SUBSET {l \in Layers : art[l] # NoPackage}, Startable(art, on)
    PROVE  \A l \in on : Programs(art)[l] = Named(art[l])
BY DEF Startable, Verifies, Programs, Named

\* The packages a frozen submission is made of.
LEMMA FrozenType ==
    ASSUME Types, CopyInv, NEW s \in Submissions, child[s].step = "frozen"
    PROVE  /\ FrozenArtifacts(s) \in [Layers -> Packages \cup {NoPackage}]
           /\ Fitting(FrozenArtifacts(s))
<1> DEFINE base == BaseArtifacts[BaseFor(s)]
           k    == child[s].layer
           pkg  == Package(child[s].digest, child[s].manifest, SnapshotFor(s))
<1>1. /\ child[s].digest \in Contents /\ child[s].manifest \in Manifests
      /\ k = LayerOf[child[s].manifest] /\ k \in Layers
      /\ base \in [Layers -> Packages \cup {NoPackage}] /\ Fitting(base)
      /\ SnapshotFor(s) \in Snapshots
  BY ScopeAssumption, StoreAssumption DEF CopyInv, Busy, BaseFor, SnapshotFor
<1>2. pkg \in Packages /\ LayerOf[pkg.manifest] = k
  BY <1>1 DEF Package, Packages
<1>3. FrozenArtifacts(s) = [base EXCEPT ![k] = pkg]
  BY DEF FrozenArtifacts
<1> HIDE DEF base, k, pkg
<1> QED
  BY <1>1, <1>2, <1>3 DEF Fitting

\* A candidate is created with the report on what it froze.
LEMMA ValidateKeeps ==
    ASSUME IInv, NEW s \in Submissions, NEW trial, Validate(s, trial)
    PROVE  IInv'
<1> DEFINE art == FrozenArtifacts(s)
           on  == ValidationStarts(s, art)
           r   == ValidationReport(s, trial)
<1>1. /\ Types /\ CopyInv /\ PhaseInv /\ ReportInv
      /\ child[s].step = "frozen" /\ art \in [Layers -> Packages \cup {NoPackage}]
      /\ Fitting(art)
      /\ validation[s] = NoReport
  BY FrozenType DEF IInv, Validate, Frozen, At, PhaseInv
<1>2. /\ child' = [child EXCEPT ![s].step = "validated"]
      /\ artifacts' = [artifacts EXCEPT ![s] = art]
      /\ validation' = [validation EXCEPT ![s] = r]
      /\ UNCHANGED <<source, store, mishaps, attempt, tests, decision, finals, approved, released>>
  BY DEF Validate, Frozen, GoTo, judged
<1>3. r.stage = "validation" /\ r.cand = s /\ r.ran = [l \in on |-> Programs(art)[l]]
  BY ReportFields DEF ValidationReport
<1>4. on \in SUBSET {l \in Layers : art[l] # NoPackage} /\ Startable(art, on)
  BY StartsHavePackages DEF Validate, Admissible
<1> HIDE DEF art, on, r
<1>5. Types'
  <2>1. child' \in [Submissions -> Children]
    BY <1>1, <1>2, ChildMoves DEF Types, StoreTypeOK, Steps
  <2> QED
    BY <1>1, <1>2, <2>1 DEF Types, StoreTypeOK
<1>6. CopyInv' /\ PhaseInv'
  BY <1>1, <1>2 DEF CopyInv, Place, PhaseInv, Types, StoreTypeOK, Busy
<1>7. \A t \in Submissions : t # s =>
        child'[t] = child[t] /\ artifacts'[t] = artifacts[t] /\ validation'[t] = validation[t]
  BY <1>1, <1>2 DEF Types
<1>8. artifacts'[s] = art /\ validation'[s] = r
  BY <1>1, <1>2 DEF Types
<1>9. RanRight(validation[s])'
  <2>1. \A l \in on : Programs(art)[l] = Named(art[l])
    BY <1>4, StartedRuns
  <2> QED
    BY <1>3, <1>4, <1>8, <2>1 DEF RanRight
<1>10. ReportInv'
  <2>1. ASSUME NEW t \in Submissions, validation'[t] # NoReport
        PROVE  /\ validation'[t].stage = "validation" /\ validation'[t].cand = t
               /\ RanRight(validation[t])'
    <3>1. CASE t = s
      BY <1>3, <1>8, <1>9, <3>1
    <3>2. CASE t # s
      BY <1>1, <1>7, <2>1, <3>2 DEF ReportInv, RanRight
    <3> QED
      BY <3>1, <3>2
  <2>2. ASSUME NEW q \in tests'
        PROVE  /\ q.stage = "test" /\ q.cand \in Submissions /\ validation'[q.cand] # NoReport
               /\ RanRight(q)' /\ Sound(q)
    <3>1. q \in tests /\ q.cand \in Submissions /\ q.cand # s
      BY <1>1, <1>2, <2>2 DEF ReportInv
    <3> QED
      BY <1>1, <1>7, <3>1 DEF ReportInv, RanRight
  <2>3. \A t \in Submissions : Fitting(artifacts'[t])
    BY <1>1, <1>7, <1>8 DEF ReportInv
  <2> QED
    BY <2>1, <2>2, <2>3 DEF ReportInv, Fitting
<1>11. ValidationReports \subseteq ValidationReports' /\ Reports \subseteq Reports'
  <2>1. ASSUME NEW q \in ValidationReports PROVE q \in ValidationReports'
    <3>1. PICK t \in Submissions : q = validation[t] /\ q # NoReport
      BY DEF ValidationReports
    <3> QED
      BY <1>1, <1>7, <3>1 DEF ValidationReports
  <2> QED
    BY <1>2, <2>1 DEF Reports
<1>12. DecisionInv'
  BY <1>2 DEF IInv, DecisionInv, DecisionIsBest
<1>13. FinalInv'
  <2>1. ASSUME NEW x \in released
        PROVE  artifacts'[x.final.report.cand] = artifacts[x.final.report.cand]
    <3>1. x.final.report \in tests
      BY DEF IInv, FinalInv
    <3>2. x.final.report.cand \in Submissions /\ x.final.report.cand # s
      BY <1>1, <3>1 DEF ReportInv
    <3> QED
      BY <1>7, <3>2
  <2> QED
    BY <1>2, <1>11, <2>1 DEF IInv, FinalInv
<1> QED
  BY <1>5, <1>6, <1>10, <1>12, <1>13 DEF IInv

\* A refused candidate leaves nothing behind.
LEMMA RefuseKeeps ==
    ASSUME IInv, NEW s \in Submissions, RefuseCandidate(s)
    PROVE  IInv'
<1>1. /\ child[s].step = "frozen" /\ child' = [child EXCEPT ![s].step = "failed"]
      /\ UNCHANGED <<source, store, mishaps, attempt, validation, artifacts, tests>>
      /\ UNCHANGED <<decision, finals, approved, released>>
  BY DEF RefuseCandidate, At, GoTo, judged
<1>2. Types'
  <2>1. child' \in [Submissions -> Children]
    BY <1>1, ChildMoves DEF IInv, Types, StoreTypeOK, Steps
  <2> QED
    BY <1>1, <2>1 DEF IInv, Types, StoreTypeOK
<1>3. CopyInv' /\ PhaseInv'
  BY <1>1 DEF IInv, CopyInv, Place, PhaseInv, Types, StoreTypeOK, Busy
<1>4. ReportInv' /\ DecisionInv' /\ FinalInv'
  BY <1>1 DEF IInv, ReportInv, RanRight, Fitting, DecisionInv, DecisionIsBest, FinalInv, Reports,
              ValidationReports
<1> QED
  BY <1>2, <1>3, <1>4 DEF IInv

\* A test report is added, on the packages that were validated.
LEMMA TestKeeps ==
    ASSUME IInv, NEW s \in Submissions, NEW a \in Attempts, NEW v, NEW trial,
           Test(s, a, v, trial)
    PROVE  IInv'
<1> DEFINE art == artifacts[s]
           on  == TestStarts(s, art, trial)
           r   == TestReport(s, v, trial)
<1>1. /\ Types /\ ReportInv /\ validation[s] # NoReport
      /\ art \in [Layers -> Packages \cup {NoPackage}]
      /\ Startable(art, on)
      /\ tests' = tests \cup {r} /\ Cardinality(tests) < MaxTests
  BY DEF IInv, Types, Test, AddTest
<1>2. /\ UNCHANGED <<source, store, child, mishaps, attempt, validation, artifacts>>
      /\ UNCHANGED <<decision, finals, approved, released>>
  BY DEF Test, AddTest, storeVars, judged
<1>3. /\ r.stage = "test" /\ r.cand = s /\ r.ran = [l \in on |-> Programs(art)[l]]
      /\ r.m = Measure(Cascade(s, art, trial), RowsFor("test", s))
      /\ \E slices : r.gen = Transferred(v, r.m, slices)
  BY ReportFields DEF TestReport
<1>4. Sound(r)
  <2>2. IsFiniteSet(RowsFor("test", s))
    BY ScopeAssumption DEF SnapshotFor, RowsFor
  <2>3. r.m.wrong \in Nat
    BY <1>3, <2>2, MeasureType
  <2> QED
    BY <1>3, <2>3, TestEvidence DEF Sound
<1>5. \A l \in on : l \in Layers /\ art[l] # NoPackage /\ Programs(art)[l] = Named(art[l])
  BY <1>1, StartsHavePackages, StartedRuns
<1>6. Types'
  <2>1. IsFiniteSet(tests') /\ Cardinality(tests') <= MaxTests
    <3>1. /\ IsFiniteSet(tests \cup {r}) /\ Cardinality(tests) \in Nat
          /\ Cardinality(tests \cup {r}) \in {Cardinality(tests), Cardinality(tests) + 1}
      BY <1>1, FS_AddElement, FS_CardinalityType DEF Types
    <3> HIDE DEF r
    <3> QED
      BY <1>1, <3>1, ScopeAssumption DEF Types
  <2> QED
    BY <1>1, <1>2, <2>1 DEF Types, StoreTypeOK
<1> HIDE DEF r, on
<1>7. CopyInv' /\ PhaseInv'
  BY <1>2 DEF IInv, CopyInv, Place, PhaseInv
<1>8. ReportInv'
  <2>1. ASSUME NEW q \in tests'
        PROVE  /\ q.stage = "test" /\ q.cand \in Submissions /\ validation'[q.cand] # NoReport
               /\ RanRight(q)' /\ Sound(q)
    <3>1. CASE q = r
      BY <1>1, <1>2, <1>3, <1>4, <1>5, <3>1 DEF RanRight
    <3>2. CASE q \in tests
      BY <1>1, <1>2, <3>2 DEF ReportInv, RanRight
    <3> QED
      BY <1>1, <3>1, <3>2
  <2> QED
    BY <1>1, <1>2, <2>1 DEF ReportInv, RanRight, Fitting
<1>9. DecisionInv' /\ FinalInv'
  BY <1>1, <1>2 DEF IInv, DecisionInv, DecisionIsBest, FinalInv, Reports, ValidationReports
<1> QED
  BY <1>6, <1>7, <1>8, <1>9 DEF IInv

-----------------------------------------------------------------------------
(* The decision, and what follows it. *)

\* The status of a decision says whether the requirements are met.
LEMMA StatusIsRight ==
    ASSUME NEW results
    PROVE  /\ StatusOf(results) = "eligible_for_release" <=> Passes(results)
           /\ StatusOf(results) # "none"
BY DEF StatusOf

\* A comparison is right about all it compares.
LEMMA CompareDecides ==
    ASSUME NEW R, Compare(R)
    PROVE  DecisionInv'
<1> DEFINE T == {r \in R : r.stage = "test"}
           P == {r \in T : Passes(ResultsOf(r))}
<1>1. CASE T = {}
  <2>1. PICK r \in Widest(R) : decision' = Decided("insufficient_evidence", r, T)
    BY <1>1 DEF Compare
  <2>2. decision'.status = "insufficient_evidence" /\ decision'.compared = {}
    BY <1>1, <2>1 DEF Decided
  <2> QED
    BY <2>2 DEF DecisionInv, DecisionIsBest
<1>2. CASE T # {}
  <2>1. PICK r \in BestOf(IF P # {} THEN P ELSE T) :
          decision' = Decided(StatusOf(ResultsOf(r)), r, T)
    BY <1>2 DEF Compare
  <2>2. /\ decision'.status = StatusOf(ResultsOf(r)) /\ decision'.selected = r
        /\ decision'.compared = T
    BY <2>1 DEF Decided
  <2>3. decision'.status = "eligible_for_release" <=> Passes(ResultsOf(r))
    BY <2>2, StatusIsRight
  <2>4. CASE P # {}
    <3>1. r \in BestOf(P) /\ r \in P
      BY <2>1, <2>4 DEF BestOf
    <3> QED
      BY <2>2, <2>3, <2>4, <3>1 DEF DecisionInv, DecisionIsBest
  <2>5. CASE P = {}
    <3>1. r \in T /\ ~Passes(ResultsOf(r))
      BY <2>1, <2>5 DEF BestOf
    <3>2. decision'.status # "eligible_for_release"
      BY <2>3, <3>1
    <3> QED
      BY <2>2, <2>5, <3>2 DEF DecisionInv, DecisionIsBest
  <2> QED
    BY <2>4, <2>5
<1> QED
  BY <1>1, <1>2

\* A step that leaves the store, the candidates and the reports alone.
LEMMA UpstreamKeeps ==
    ASSUME IInv,
           UNCHANGED <<source, store, child, mishaps, attempt, validation, artifacts, tests>>
    PROVE  Types' /\ CopyInv' /\ PhaseInv' /\ ReportInv' /\ Reports' = Reports
<1>1. StoreTypeOK'
  BY DEF IInv, Types, StoreTypeOK
<1>2. Types'
  BY <1>1 DEF IInv, Types
<1>3. CopyInv'
  BY DEF IInv, CopyInv, Place
<1>4. PhaseInv'
  BY DEF IInv, PhaseInv
<1>5. ReportInv'
  BY DEF IInv, ReportInv, RanRight, Fitting
<1>6. Reports' = Reports
  BY DEF Reports, ValidationReports
<1> QED
  BY <1>2, <1>3, <1>4, <1>5, <1>6

\* It changes nothing else.
LEMMA CompareKeeps ==
    ASSUME IInv, NEW R, Compare(R)
    PROVE  IInv'
<1>1. /\ UNCHANGED <<source, store, child, mishaps, attempt, validation, artifacts, tests>>
      /\ UNCHANGED <<finals, approved, released>>
  BY DEF Compare, storeVars
<1>2. Types' /\ CopyInv' /\ PhaseInv' /\ ReportInv' /\ Reports' = Reports
  BY <1>1, UpstreamKeeps
<1>3. FinalInv'
  BY <1>1, <1>2 DEF IInv, FinalInv
<1> QED
  BY <1>2, <1>3, CompareDecides DEF IInv

\* Final reports, approvals and Releases only ever follow each other.
LEMMA JudgedKeeps ==
    ASSUME IInv,
           \/ \E r \in tests \cup ValidationReports, v \in ValidationReports : Finalize(r, v)
           \/ \E f \in finals : Approve(f)
           \/ \E s \in Submissions, f \in finals : CreateRelease(s, f)
    PROVE  IInv'
<1>1. UNCHANGED <<source, store, child, mishaps, attempt, validation, artifacts, tests, decision>>
  BY DEF Finalize, Approve, CreateRelease, storeVars
<1>2. Types' /\ CopyInv' /\ PhaseInv' /\ ReportInv' /\ DecisionInv'
  BY <1>1, UpstreamKeeps DEF IInv, DecisionInv, DecisionIsBest
<1>3. FinalInv /\ Reports' = Reports
  BY <1>1, UpstreamKeeps DEF IInv
<1>4. FinalInv'
  <2>1. ASSUME NEW r \in tests \cup ValidationReports, NEW v \in ValidationReports,
               Finalize(r, v)
        PROVE  FinalInv'
    <3> DEFINE f == Finalized(r)
    <3>1. /\ finals' = finals \cup {f} /\ UNCHANGED <<approved, released>>
          /\ decision.selected = r
          /\ decision.status = "eligible_for_release" => r.stage = "test"
      BY <2>1 DEF Finalize
    <3>2. f.report = r /\ f.status = decision.status
      BY DEF Finalized
    <3>3. Eligible(f) => r \in tests /\ Passes(ResultsOf(r))
      <4>1. r \in ValidationReports => r.stage = "validation"
        BY DEF IInv, ReportInv, ValidationReports
      <4> QED
        BY <2>1, <3>1, <3>2, <4>1 DEF IInv, DecisionInv, Eligible
    <3>4. f.report \in Reports
      BY <3>2 DEF Reports
    <3> HIDE DEF f
    <3> QED
      BY <1>1, <1>3, <3>1, <3>2, <3>3, <3>4 DEF FinalInv, Eligible
  <2>2. ASSUME NEW f \in finals, Approve(f)
        PROVE  FinalInv'
    BY <1>1, <1>3, <2>2 DEF FinalInv, Approve
  <2>3. ASSUME NEW s \in Submissions, NEW f \in finals, CreateRelease(s, f)
        PROVE  FinalInv'
    <3> DEFINE x == Release(f)
    <3>1. /\ released' = released \cup {x} /\ UNCHANGED <<finals, approved>>
          /\ f \in approved /\ f.report.cand = s /\ f.status = "eligible_for_release"
          /\ Releasable(s)
      BY <2>3 DEF CreateRelease
    <3>2. x.final = f /\ x.art = Programs(artifacts[s])
      BY <3>1 DEF Release
    <3>3. \A l \in Layers :
            x.art[l] = IF artifacts[s][l] = NoPackage THEN NoPackage ELSE Named(artifacts[s][l])
      BY <3>1, <3>2 DEF Programs, Named, Releasable, Verifies
    <3> HIDE DEF x
    <3> QED
      BY <1>1, <1>3, <3>1, <3>2, <3>3 DEF FinalInv, Eligible
  <2> QED
    BY <2>1, <2>2, <2>3
<1> QED
  BY <1>2, <1>4 DEF IInv

-----------------------------------------------------------------------------
\* The invariant is inductive.
LEMMA NextInvariant == IInv /\ [Next]_vars => IInv'
<1> SUFFICES ASSUME IInv, [Next]_vars PROVE IInv'
  OBVIOUS
<1>1. ASSUME NEW s \in Submissions, StoreAction(s), Rest
      PROVE  IInv'
  BY <1>1, StoreStepKeeps
<1>4. ASSUME NEW s \in Submissions,
             \/ \E l \in Layers : Receive(s, l) /\ Rest
             \/ CheckPackage(s) /\ Rest
             \/ DigestPackage(s) /\ Rest
             \/ CopyPackage(s) /\ Rest
             \/ KillValidation(s) /\ Rest
             \/ Revalidate(s) /\ Rest
             \/ \E c \in Contents : EditSource(s, c) /\ Rest
      PROVE  IInv'
  BY <1>1, <1>4 DEF StoreAction
<1>5. ASSUME NEW s \in Submissions, NEW trial, Validate(s, trial)
      PROVE  IInv'
  BY <1>5, ValidateKeeps
<1>6. ASSUME NEW s \in Submissions, RefuseCandidate(s)
      PROVE  IInv'
  BY <1>6, RefuseKeeps
<1>7. ASSUME NEW l \in Layers, NEW d \in Contents, Damage(l, d), Rest
      PROVE  IInv'
  BY <1>7, DamageStepKeeps
<1>8. ASSUME NEW a \in Attempts, AttemptStep(a)
      PROVE  IInv'
  BY <1>8, AttemptStepKeeps
<1>9. ASSUME NEW s \in Submissions, NEW a \in Attempts, NEW v, NEW trial, Test(s, a, v, trial)
      PROVE  IInv'
  BY <1>9, TestKeeps
<1>10. ASSUME NEW R, Compare(R)
       PROVE  IInv'
  BY <1>10, CompareKeeps
<1>11. CASE UNCHANGED vars
  <2>1. /\ UNCHANGED <<source, store, child, mishaps, attempt, validation, artifacts, tests>>
        /\ UNCHANGED <<decision, finals, approved, released>>
    BY <1>11 DEF vars, storeVars, judged
  <2>2. Types' /\ CopyInv' /\ PhaseInv' /\ ReportInv' /\ Reports' = Reports
    BY <2>1, UpstreamKeeps
  <2>3. DecisionInv' /\ FinalInv'
    BY <2>1, <2>2 DEF IInv, DecisionInv, DecisionIsBest, FinalInv
  <2> QED
    BY <2>2, <2>3 DEF IInv
<1> QED
  BY <1>4, <1>5, <1>6, <1>7, <1>8, <1>9, <1>10, <1>11, JudgedKeeps DEF Next, AttemptStep

\* The invariant holds in every reachable state.
LEMMA Invariance == Spec => []IInv
BY InitInvariant, NextInvariant, PTL DEF Spec

-----------------------------------------------------------------------------
(* What holds. *)

\* The variables have the types the code gives them (TypeOK).
THEOREM TypeCorrect == Spec => []TypeOK
<1>1. IInv => TypeOK
  <2> SUFFICES ASSUME IInv PROVE TypeOK
    OBVIOUS
  <2>1. ASSUME NEW r \in ValidationReports
        PROVE  r.cand \in Submissions /\ validation[r.cand] # NoReport
    BY DEF IInv, ReportInv, ValidationReports
  <2>2. \A r \in Reports : r.cand \in Submissions /\ validation[r.cand] # NoReport
    BY <2>1 DEF IInv, ReportInv, Reports
  <2>3. \A f \in finals : f.report \in Reports
    BY DEF IInv, FinalInv
  <2>4. approved \subseteq finals /\ \A x \in released : x.final \in approved
    BY DEF IInv, FinalInv
  <2>5. /\ \A r \in tests : r.stage = "test"
        /\ \A s \in Submissions : validation[s] # NoReport => validation[s].cand = s
    BY DEF IInv, ReportInv
  <2> QED
    BY <2>2, <2>3, <2>4, <2>5 DEF IInv, Types, TypeOK
<1> QED
  BY <1>1, Invariance, PTL

\* Every worker that a validation or a test started ran the very bytes its
\* candidate's digest names, as a manifest of its layer says (RanAsFrozen),
\* although the manifest is that of an earlier look at the files, the copy is of
\* a later one and is never compared with the digest, and the test starts no
\* more layers than its rows get to.
THEOREM MeasuredAsFrozen == Spec => []RanAsFrozen
<1>1. IInv => RanAsFrozen
  <2> SUFFICES ASSUME IInv, NEW r \in Reports, NEW l \in DOMAIN r.ran
               PROVE  /\ artifacts[r.cand][l] # NoPackage
                      /\ r.ran[l] = Named(artifacts[r.cand][l])
                      /\ LayerOf[r.ran[l].manifest] = l
    BY DEF RanAsFrozen
  <2>1. RanRight(r) /\ r.cand \in Submissions
    BY DEF IInv, ReportInv, Reports, ValidationReports
  <2>2. /\ l \in Layers /\ artifacts[r.cand][l] # NoPackage
        /\ r.ran[l] = Named(artifacts[r.cand][l])
    BY <2>1 DEF RanRight
  <2>3. LayerOf[artifacts[r.cand][l].manifest] = l
    BY <2>1, <2>2 DEF IInv, ReportInv, Fitting
  <2> QED
    BY <2>2, <2>3 DEF Named
<1> QED
  BY <1>1, Invariance, PTL

\* A Release holds the bytes that were tested and validated (ReleasedAsTested).
THEOREM ReleaseIsTested == Spec => []ReleasedAsTested
<1>1. IInv => ReleasedAsTested
  <2> SUFFICES ASSUME IInv, NEW x \in released
               PROVE  LET s == x.final.report.cand IN
                        /\ x.final.report \in tests
                        /\ \A l \in Layers : artifacts[s][l] # NoPackage =>
                              x.art[l] = Named(artifacts[s][l])
                        /\ \A l \in DOMAIN x.final.report.ran :
                              x.art[l] = x.final.report.ran[l]
                        /\ \A l \in DOMAIN validation[s].ran : x.art[l] = validation[s].ran[l]
    BY DEF ReleasedAsTested
  <2> DEFINE s == x.final.report.cand
  <2>1. /\ x.final.report \in tests
        /\ \A l \in Layers :
              x.art[l] = IF artifacts[s][l] = NoPackage THEN NoPackage ELSE Named(artifacts[s][l])
    BY DEF IInv, FinalInv
  <2>2. s \in Submissions /\ RanRight(x.final.report) /\ validation[s] # NoReport
    BY <2>1 DEF IInv, ReportInv
  <2>3. RanRight(validation[s]) /\ validation[s].cand = s
    BY <2>2 DEF IInv, ReportInv
  <2> QED
    BY <2>1, <2>2, <2>3 DEF RanRight
<1> QED
  BY <1>1, Invariance, PTL

\* A decision is eligible exactly if a compared test report meets every
\* requirement, and then selects one of the best of those (DecisionIsBest).
THEOREM DecidesForTheBest == Spec => []DecisionIsBest
<1>1. IInv => DecisionIsBest
  BY DEF IInv, DecisionInv
<1> QED
  BY <1>1, Invariance, PTL

\* Results with a failure or a lack do not pass.
LEMMA PassingResults ==
    ASSUME NEW results, Passes(results), NEW name, NEW status, <<name, status>> \in results
    PROVE  status \notin {"fail", "insufficient"}
<1>1. <<name, status>>[2] = status
  OBVIOUS
<1> QED
  BY <1>1 DEF Passes, Has

\* A Release meets every requirement, on enough accepted rows and with no wrong
\* accept among them (OnlyGoodReleased).
THEOREM ReleasesAreGood == Spec => []OnlyGoodReleased
<1>1. IInv => OnlyGoodReleased
  <2> SUFFICES ASSUME IInv, NEW x \in released
               PROVE  LET r == x.final.report IN
                        /\ Passes(ResultsOf(r))
                        /\ r.m.wrong = 0 /\ r.m.accepted >= Req.min_accepted
    BY DEF OnlyGoodReleased
  <2> DEFINE r == x.final.report
  <2>1. Passes(ResultsOf(r)) /\ Sound(r)
    BY DEF IInv, FinalInv, ReportInv
  <2>2. /\ <<"generalization", r.gen.evidence>> \in ResultsOf(r)
        /\ PrecisionResult(r.m) \subseteq ResultsOf(r)
    BY DEF ResultsOf, RequirementResults
  <2> HIDE DEF r
  <2>3. r.m.wrong = 0
    BY <2>1, <2>2, PassingResults DEF Sound
  <2>4. Enough(r.m)
    <3> SUFFICES ASSUME ~Enough(r.m) PROVE FALSE
      OBVIOUS
    <3>1. <<"min_accepted_samples", "insufficient">> \in ResultsOf(r)
      BY <2>2 DEF PrecisionResult
    <3> QED
      BY <2>1, <3>1, PassingResults
  <2> QED
    BY <2>1, <2>3, <2>4 DEF Enough, r
<1> QED
  BY <1>1, Invariance, PTL

\* A package that is whole is never written again, not even by two compiles that
\* freeze the same files at once (StoreIsWriteOnce).
THEOREM NothingRewritten == Spec => StoreIsWriteOnce
<1> DEFINE Once == \A l \in Layers, d \in Contents :
                      Verifies(l, d) => store'[l][d] \in {d, Damaged}
<1>1. IInv /\ [Next]_vars => [Once]_vars
  <2> SUFFICES ASSUME IInv, Next PROVE Once
    OBVIOUS
  <2> USE StoreAssumption DEF Verifies
  <2>1. StoreTypeOK /\ CopyInv
    BY DEF IInv, Types
  <2>2. ASSUME NEW s \in Submissions, DigestPackage(s) PROVE Once
    <3>1. ASSUME Place(s)[source[s]] = Absent, StartCopy(s) PROVE Once
      <4> SUFFICES ASSUME NEW l \in Layers, NEW d \in Contents, store[l][d] = d,
                          store'[l][d] # d
                   PROVE  FALSE
        OBVIOUS
      <4>1. store'[l][d] = IF l = child[s].layer /\ d = source[s] THEN Partial ELSE store[l][d]
        BY <2>1, <3>1 DEF StartCopy, StoreTypeOK
      <4>2. store[l][d] = Absent
        BY <3>1, <4>1 DEF Place
      <4> QED
        BY <4>2
    <3>2. ASSUME UNCHANGED store PROVE Once
      BY <3>2
    <3> QED
      BY <2>2, <3>1, <3>2 DEF DigestPackage
  <2>3. ASSUME NEW s \in Submissions, CopyPackage(s) PROVE Once
    <3>1. child[s].digest \in Contents /\ store[child[s].layer][child[s].digest] = Partial
      BY <2>1, <2>3 DEF CopyInv, CopyPackage, At, Place
    <3> QED
      BY <2>1, <2>3, <3>1 DEF CopyPackage, StoreTypeOK
  <2>4. ASSUME NEW l \in Layers, NEW d \in Contents, Damage(l, d) PROVE Once
    BY <2>1, <2>4 DEF Damage, StoreTypeOK
  <2>5. ASSUME store' = store PROVE Once
    BY <2>5
  <2>6. ASSUME NEW s \in Submissions,
               \/ \E l \in Layers : Receive(s, l)
               \/ CheckPackage(s) \/ KillValidation(s) \/ Revalidate(s) \/ RefuseCandidate(s)
               \/ \E c \in Contents : EditSource(s, c)
               \/ \E trial \in TrialsOf.validation : Validate(s, trial)
        PROVE  store' = store
    BY <2>6 DEF Receive, CheckPackage, KillValidation, Revalidate, EditSource, RefuseCandidate,
                Validate, Frozen
  <2>7. ASSUME \/ \E a \in Attempts : AttemptStep(a)
               \/ \E s, a, v, trial : Test(s, a, v, trial)
               \/ \E R : Compare(R)
               \/ \E r, v : Finalize(r, v)
               \/ \E f : Approve(f)
               \/ \E s, f : CreateRelease(s, f)
        PROVE  store' = store
    BY <2>7 DEF AttemptStep, CloseAttempt, TouchWorkspace, RestoreWorkspace, Test, AddTest,
                Compare, Finalize, Approve, CreateRelease, storeVars
  <2>8. \/ \E s \in Submissions :
             \/ DigestPackage(s) \/ CopyPackage(s)
             \/ \E l \in Layers : Receive(s, l)
             \/ CheckPackage(s) \/ KillValidation(s) \/ Revalidate(s) \/ RefuseCandidate(s)
             \/ \E c \in Contents : EditSource(s, c)
             \/ \E trial \in TrialsOf.validation : Validate(s, trial)
        \/ \E l \in Layers, d \in Contents : Damage(l, d)
        \/ \E a \in Attempts : AttemptStep(a)
        \/ \E s, a, v, trial : Test(s, a, v, trial)
        \/ \E R : Compare(R)
        \/ \E r, v : Finalize(r, v)
        \/ \E f : Approve(f)
        \/ \E s, f : CreateRelease(s, f)
    BY DEF Next, AttemptStep
  <2> HIDE DEF Once
  <2> QED
    BY <2>2, <2>3, <2>4, <2>5, <2>6, <2>7, <2>8
<1> QED
  BY <1>1, Invariance, PTL DEF Spec, StoreIsWriteOnce

-----------------------------------------------------------------------------
(* The promise to whoever approves. *)

\* How far candidates are, as the abstract specification sees it.
phases     == [s \in Submissions |-> PhaseOf(s)]
workspaces == [a \in Attempts |-> WorkspaceOf(a)]

\* Nothing is released that has not passed, passed untested, tested before it
\* was validated, or validated that was not received.
LEMMA PhasesNest ==
    ASSUME IInv, NEW s \in Submissions
    PROVE  /\ Released(s) => Passed(s)
           /\ Passed(s) => Tested(s)
           /\ Tested(s) => validation[s] # NoReport
           /\ validation[s] # NoReport => ~At(s, "idle")
BY DEF IInv, PhaseInv, FinalInv, ReportInv, Released, Passed, Tested, Eligible, At

\* No submission is received, and none is given back.
StillIdle == \A s \in Submissions : At(s, "idle")' = At(s, "idle")

\* A step that leaves what the phases and the workspaces are made of.
LEMMA PromiseStutters ==
    ASSUME UNCHANGED <<attempt, validation, tests, finals, released>>, StillIdle
    PROVE  phases' = phases /\ workspaces' = workspaces
BY DEF phases, workspaces, PhaseOf, WorkspaceOf, Released, Passed, Tested, StillIdle

\* Only the receipt of a submission is where an idle child gets to work.
LEMMA IdleStays ==
    ASSUME StoreTypeOK, NEW s \in Submissions, StoreAction(s)
    PROVE  \/ StillIdle
           \/ \E l \in Layers : Receive(s, l) /\ At(s, "idle")
<1>1. \A t \in Submissions : t # s => child'[t] = child[t]
  BY DEF StoreTypeOK, StoreAction, CheckPackage, DigestPackage, StartCopy, Digested, CopyPackage,
         KillValidation, Revalidate, EditSource, Receive, GoTo
<1>2. ASSUME \/ CheckPackage(s) \/ DigestPackage(s) \/ CopyPackage(s) \/ KillValidation(s)
             \/ Revalidate(s) \/ (\E c \in Contents : EditSource(s, c))
      PROVE  At(s, "idle")' = At(s, "idle")
  BY <1>2 DEF StoreTypeOK, Children, CheckPackage, DigestPackage, StartCopy, Digested, CopyPackage,
              KillValidation, Revalidate, EditSource, GoTo, At, Busy
<1>3. ASSUME NEW l \in Layers, Receive(s, l), ~At(s, "idle")
      PROVE  At(s, "idle")' = At(s, "idle")
  BY <1>3 DEF StoreTypeOK, Children, Receive, At
<1> QED
  BY <1>1, <1>2, <1>3 DEF StoreAction, StillIdle, At

\* One candidate moves, and the others stay where they are.
LEMMA OneMoves ==
    ASSUME NEW s \in Submissions, NEW to, PhaseOf(s)' = to,
           \A t \in Submissions : t # s => PhaseOf(t)' = PhaseOf(t)
    PROVE  phases' = [phases EXCEPT ![s] = to]
BY DEF phases

\* What the mapped steps leave alone.
Still == phases' = phases /\ workspaces' = workspaces

\* The first receipt of a submission is the abstract Receive.
LEMMA ReceiveMoves ==
    ASSUME IInv, NEW s \in Submissions, NEW l \in Layers, Receive(s, l), At(s, "idle"), Rest
    PROVE  Promise!Receive(s)
<1>1. /\ child' = [child EXCEPT ![s] = [step |-> "received", layer |-> l,
                                       manifest |-> Absent, digest |-> Absent]]
      /\ attempt[AttemptOf[s]] = "running"
      /\ UNCHANGED <<attempt, validation, tests, finals, released>>
  BY DEF Receive, Rest, judged
<1>2. /\ validation[s] = NoReport
      /\ ~Released(s) /\ ~Passed(s) /\ ~Tested(s)
      /\ \A t : Released(t)' = Released(t) /\ Passed(t)' = Passed(t) /\ Tested(t)' = Tested(t)
  BY <1>1, PhasesNest DEF Released, Passed, Tested
<1>3. ~At(s, "idle")' /\ \A t \in Submissions : t # s => At(t, "idle")' = At(t, "idle")
  BY <1>1 DEF IInv, Types, StoreTypeOK, At
<1>4. PhaseOf(s) = "none" /\ PhaseOf(s)' = "received"
  BY <1>1, <1>2, <1>3 DEF PhaseOf
<1>5. \A t \in Submissions : t # s => PhaseOf(t)' = PhaseOf(t)
  BY <1>1, <1>2, <1>3 DEF PhaseOf
<1>6. phases' = [phases EXCEPT ![s] = "received"]
  BY <1>4, <1>5, OneMoves
<1>7. workspaces' = workspaces
  BY <1>1 DEF workspaces, WorkspaceOf
<1>8. workspaces[AttemptOf[s]] = "open" /\ phases[s] = "none"
  BY <1>1, <1>4, ScopeAssumption DEF workspaces, WorkspaceOf, phases
<1> QED
  BY <1>6, <1>7, <1>8 DEF Promise!Receive, Promise!Moves, phases, workspaces

\* A candidate's validation is the abstract Validate.
LEMMA ValidateMoves ==
    ASSUME IInv, NEW s \in Submissions, NEW trial, Validate(s, trial)
    PROVE  Promise!Validate(s) \/ Still
<1>1. /\ validation[s] = NoReport /\ ~At(s, "idle") /\ StillIdle
      /\ validation' = [validation EXCEPT ![s] = ValidationReport(s, trial)]
      /\ UNCHANGED <<attempt, tests, finals, released>>
  BY DEF IInv, Types, StoreTypeOK, PhaseInv, Validate, Frozen, At, GoTo, StillIdle, judged
<1>2. /\ ~Released(s) /\ ~Passed(s) /\ ~Tested(s)
      /\ \A t : Released(t)' = Released(t) /\ Passed(t)' = Passed(t) /\ Tested(t)' = Tested(t)
  BY <1>1, PhasesNest DEF Released, Passed, Tested
<1>3. \A t \in Submissions : t # s => validation'[t] = validation[t]
  BY <1>1 DEF IInv, Types
<1>4. \A t \in Submissions : t # s => PhaseOf(t)' = PhaseOf(t)
  BY <1>1, <1>2, <1>3 DEF PhaseOf, StillIdle
<1>5. PhaseOf(s) = "received" /\ PhaseOf(s)' \in {"received", "validated"}
  BY <1>1, <1>2 DEF PhaseOf, StillIdle
<1>6. workspaces' = workspaces
  BY <1>1 DEF workspaces, WorkspaceOf
<1>7. CASE PhaseOf(s)' = "received"
  <2>1. \A t \in Submissions : PhaseOf(t)' = PhaseOf(t)
    BY <1>4, <1>5, <1>7
  <2> QED
    BY <1>6, <2>1 DEF Still, phases
<1>8. CASE PhaseOf(s)' = "validated"
  <2>1. phases' = [phases EXCEPT ![s] = "validated"]
    BY <1>4, <1>8, OneMoves
  <2>2. phases[s] = "received"
    BY <1>5 DEF phases
  <2> QED
    BY <1>6, <2>1, <2>2 DEF Promise!Validate, Promise!Moves, phases, workspaces
<1> QED
  BY <1>5, <1>7, <1>8

\* A report on a candidate that has none is the abstract Test.
LEMMA TestMoves ==
    ASSUME IInv, NEW s \in Submissions, NEW a \in Attempts, NEW v, NEW trial,
           Test(s, a, v, trial)
    PROVE  Promise!Test(s) \/ Still
<1> DEFINE r == TestReport(s, v, trial)
<1>1. /\ validation[s] # NoReport /\ attempt[AttemptOf[s]] = "closed"
      /\ tests' = tests \cup {r}
      /\ UNCHANGED <<attempt, validation, finals, released>> /\ StillIdle
  BY DEF Test, AddTest, judged, storeVars, StillIdle, At
<1>2. r.cand = s
  BY TestReportFields
<1> HIDE DEF r
<1>3. /\ Tested(s)'
      /\ \A t : Released(t)' = Released(t) /\ Passed(t)' = Passed(t)
      /\ \A t : t # s => Tested(t)' = Tested(t)
  BY <1>1, <1>2 DEF Released, Passed, Tested
<1>4. workspaces' = workspaces
  BY <1>1 DEF workspaces, WorkspaceOf
<1>5. \A t \in Submissions : t # s => PhaseOf(t)' = PhaseOf(t)
  BY <1>1, <1>3 DEF PhaseOf, StillIdle
<1>6. CASE Tested(s)
  <2>1. \A t \in Submissions : PhaseOf(t)' = PhaseOf(t)
    BY <1>1, <1>3, <1>5, <1>6 DEF PhaseOf, StillIdle
  <2> QED
    BY <1>4, <2>1 DEF Still, phases
<1>7. CASE ~Tested(s)
  <2>1. PhaseOf(s) = "validated" /\ PhaseOf(s)' = "tested"
    BY <1>1, <1>3, <1>7, PhasesNest DEF PhaseOf
  <2>2. phases' = [phases EXCEPT ![s] = "tested"]
    BY <1>5, <2>1, OneMoves
  <2>3. workspaces[AttemptOf[s]] = "sealed" /\ phases[s] = "validated"
    BY <1>1, <2>1, ScopeAssumption DEF workspaces, WorkspaceOf, phases
  <2> QED
    BY <1>4, <2>2, <2>3 DEF Promise!Test, Promise!Moves, phases, workspaces
<1> QED
  BY <1>6, <1>7

\* An eligible final report is the abstract Pass, any other changes nothing.
LEMMA FinalizeMoves ==
    ASSUME IInv, NEW r \in tests \cup ValidationReports, NEW v \in ValidationReports,
           Finalize(r, v)
    PROVE  (\E s \in Submissions : Promise!Pass(s)) \/ Still
<1> DEFINE f == Finalized(r)
           s == r.cand
<1>1. /\ finals' = finals \cup {f}
      /\ UNCHANGED <<attempt, validation, tests, released>>
      /\ f.report = r /\ StillIdle
  BY DEF Finalize, storeVars, Finalized, StillIdle, At
<1>2. IInv'
  BY JudgedKeeps
<1>3. Eligible(f) => r \in tests
  BY <1>1, <1>2 DEF IInv, FinalInv
<1> HIDE DEF f
<1>4. /\ \A t : Released(t)' = Released(t) /\ Tested(t)' = Tested(t)
      /\ \A t : t # s => Passed(t)' = Passed(t)
      /\ ~Eligible(f) => \A t : Passed(t)' = Passed(t)
      /\ Eligible(f) => Passed(s)'
  BY <1>1 DEF Released, Passed, Tested, Eligible
<1>5. workspaces' = workspaces
  BY <1>1 DEF workspaces, WorkspaceOf
<1>6. CASE \A t : Passed(t)' = Passed(t)
  <2>1. \A t \in Submissions : PhaseOf(t)' = PhaseOf(t)
    BY <1>1, <1>4, <1>6 DEF PhaseOf, StillIdle
  <2> QED
    BY <1>5, <2>1 DEF Still, phases
<1>7. CASE ~ \A t : Passed(t)' = Passed(t)
  <2>1. Eligible(f) /\ ~Passed(s) /\ Passed(s)'
    BY <1>1, <1>4, <1>7 DEF Passed
  <2>2. s \in Submissions /\ Tested(s)
    BY <1>3, <2>1 DEF IInv, ReportInv, Tested
  <2>3. ~Released(s)
    BY <2>1, <2>2, PhasesNest
  <2>4. PhaseOf(s) = "tested" /\ PhaseOf(s)' = "passed"
    BY <1>4, <2>1, <2>2, <2>3 DEF PhaseOf
  <2>5. \A t \in Submissions : t # s => PhaseOf(t)' = PhaseOf(t)
    BY <1>1, <1>4 DEF PhaseOf, StillIdle
  <2> HIDE DEF s
  <2>6. phases' = [phases EXCEPT ![s] = "passed"] /\ phases[s] = "tested"
    BY <2>2, <2>4, <2>5, OneMoves DEF phases
  <2>7. Promise!Pass(s)
    BY <1>5, <2>6 DEF Promise!Pass, Promise!Moves, phases, workspaces
  <2> QED
    BY <2>2, <2>7
<1> QED
  BY <1>6, <1>7

\* The first Release of a candidate is the abstract Release.
LEMMA CreateReleaseMoves ==
    ASSUME IInv, NEW s \in Submissions, NEW f \in finals, CreateRelease(s, f)
    PROVE  Promise!Release(s) \/ Still
<1> DEFINE x == Release(f)
<1>1. /\ released' = released \cup {x}
      /\ UNCHANGED <<attempt, validation, tests, finals>>
      /\ f.report.cand = s /\ f.status = "eligible_for_release" /\ x.final = f /\ StillIdle
  BY DEF CreateRelease, storeVars, Release, StillIdle, At
<1> HIDE DEF x
<1>2. /\ \A t : Passed(t)' = Passed(t) /\ Tested(t)' = Tested(t)
      /\ \A t : t # s => Released(t)' = Released(t)
      /\ Passed(s) /\ Released(s)'
  BY <1>1 DEF Released, Passed, Tested
<1>3. workspaces' = workspaces
  BY <1>1 DEF workspaces, WorkspaceOf
<1>4. \A t \in Submissions : t # s => PhaseOf(t)' = PhaseOf(t)
  BY <1>1, <1>2 DEF PhaseOf, StillIdle
<1>5. CASE Released(s)
  <2>1. \A t \in Submissions : PhaseOf(t)' = PhaseOf(t)
    BY <1>1, <1>2, <1>4, <1>5 DEF PhaseOf, StillIdle
  <2> QED
    BY <1>3, <2>1 DEF Still, phases
<1>6. CASE ~Released(s)
  <2>1. PhaseOf(s) = "passed" /\ PhaseOf(s)' = "released"
    BY <1>2, <1>6 DEF PhaseOf
  <2>2. phases' = [phases EXCEPT ![s] = "released"] /\ phases[s] = "passed"
    BY <1>4, <2>1, OneMoves DEF phases
  <2> QED
    BY <1>3, <2>2 DEF Promise!Release, Promise!Moves, phases, workspaces
<1> QED
  BY <1>5, <1>6

\* The close of an attempt, a change to a closed one, and its restoration.
LEMMA AttemptMoves ==
    ASSUME IInv, NEW a \in Attempts, AttemptStep(a)
    PROVE  Promise!Seal(a) \/ Promise!Change(a) \/ Promise!SealAgain(a)
<1> USE DEF AttemptStep
<1>1. UNCHANGED <<validation, tests, finals, released>> /\ StillIdle
  BY DEF CloseAttempt, TouchWorkspace, RestoreWorkspace, judged, storeVars, StillIdle, At
<1>2. phases' = phases
  BY <1>1 DEF phases, PhaseOf, Released, Passed, Tested, StillIdle
<1>3. \A b \in Attempts : b # a => attempt'[b] = attempt[b]
  BY DEF IInv, Types, CloseAttempt, TouchWorkspace, RestoreWorkspace
<1>4. \A b \in Attempts : b # a => WorkspaceOf(b)' = WorkspaceOf(b)
  BY <1>3 DEF WorkspaceOf
<1>5. CASE CloseAttempt(a)
  <2>1. attempt[a] = "running" /\ attempt'[a] = "closed"
    BY <1>5 DEF IInv, Types, CloseAttempt
  <2>2. WorkspaceOf(a) = "open" /\ WorkspaceOf(a)' = "sealed"
    BY <2>1 DEF WorkspaceOf
  <2>3. workspaces[a] = "open" /\ workspaces' = [workspaces EXCEPT ![a] = "sealed"]
    BY <1>4, <2>2 DEF workspaces
  <2> QED
    BY <1>2, <2>3 DEF Promise!Seal, phases, workspaces
<1>6. CASE TouchWorkspace(a)
  <2>1. attempt[a] = "closed" /\ attempt'[a] = "touched"
    BY <1>6 DEF IInv, Types, TouchWorkspace
  <2>2. WorkspaceOf(a) = "sealed" /\ WorkspaceOf(a)' = "changed"
    BY <2>1 DEF WorkspaceOf
  <2>3. workspaces[a] = "sealed" /\ workspaces' = [workspaces EXCEPT ![a] = "changed"]
    BY <1>4, <2>2 DEF workspaces
  <2> QED
    BY <1>2, <2>3 DEF Promise!Change, phases, workspaces
<1>7. CASE RestoreWorkspace(a)
  <2>1. attempt[a] = "touched" /\ attempt'[a] = "closed"
    BY <1>7 DEF IInv, Types, RestoreWorkspace
  <2>2. WorkspaceOf(a) = "changed" /\ WorkspaceOf(a)' = "sealed"
    BY <2>1 DEF WorkspaceOf
  <2>3. workspaces[a] = "changed" /\ workspaces' = [workspaces EXCEPT ![a] = "sealed"]
    BY <1>4, <2>2 DEF workspaces
  <2> QED
    BY <1>2, <2>3 DEF Promise!SealAgain, phases, workspaces
<1> QED
  BY <1>5, <1>6, <1>7

\* Every step is a step of the promise or leaves it alone.
LEMMA StepKeepsPromise ==
    ASSUME IInv, [Next]_vars
    PROVE  [Promise!Next]_<<workspaces, phases>>
<1>1. ASSUME NEW s \in Submissions, StoreAction(s), Rest
      PROVE  Promise!Next \/ Still
  <2>1. CASE StillIdle
    BY <1>1, <2>1, PromiseStutters DEF Rest, judged, Still
  <2>2. CASE \E l \in Layers : Receive(s, l) /\ At(s, "idle")
    BY <1>1, <2>2, ReceiveMoves DEF Promise!Next
  <2> QED
    BY <1>1, <2>1, <2>2, IdleStays DEF IInv, Types
<1>9. ASSUME NEW l, NEW d, Damage(l, d), Rest PROVE Still
  <2>1. StillIdle
    BY <1>9 DEF Damage, StillIdle, At
  <2> QED
    BY <1>9, <2>1, PromiseStutters DEF Rest, judged, Still
<1>2. ASSUME \/ \E s \in Submissions : RefuseCandidate(s)
             \/ \E R : Compare(R)
             \/ \E f : Approve(f)
             \/ UNCHANGED vars
      PROVE  Still
  <2>1. UNCHANGED <<attempt, validation, tests, finals, released>>
    BY <1>2 DEF RefuseCandidate, Compare, Approve, vars, judged
  <2>2. ASSUME NEW s \in Submissions, RefuseCandidate(s) PROVE StillIdle
    <3>1. StoreTypeOK
      BY DEF IInv, Types
    <3>2. child[s].step = "frozen" /\ child' = [child EXCEPT ![s].step = "failed"]
      BY <2>2 DEF RefuseCandidate, At, GoTo
    <3> QED
      BY <3>1, <3>2 DEF StoreTypeOK, Children, StillIdle, At
  <2>3. ASSUME child' = child PROVE StillIdle
    BY <2>3 DEF StillIdle, At
  <2>4. StillIdle
    BY <1>2, <2>2, <2>3 DEF Compare, Approve, vars, storeVars
  <2> QED
    BY <2>1, <2>4, PromiseStutters DEF Still
<1>3. ASSUME NEW s \in Submissions, NEW trial, Validate(s, trial)
      PROVE  Promise!Next \/ Still
  BY <1>3, ValidateMoves DEF Promise!Next
<1>4. ASSUME NEW s \in Submissions, NEW a \in Attempts, NEW v, NEW trial, Test(s, a, v, trial)
      PROVE  Promise!Next \/ Still
  BY <1>4, TestMoves DEF Promise!Next
<1>5. ASSUME NEW r \in tests \cup ValidationReports, NEW v \in ValidationReports, Finalize(r, v)
      PROVE  Promise!Next \/ Still
  BY <1>5, FinalizeMoves DEF Promise!Next
<1>6. ASSUME NEW s \in Submissions, NEW f \in finals, CreateRelease(s, f)
      PROVE  Promise!Next \/ Still
  BY <1>6, CreateReleaseMoves DEF Promise!Next
<1>7. ASSUME NEW a \in Attempts, AttemptStep(a)
      PROVE  Promise!Next \/ Still
  BY <1>7, AttemptMoves DEF Promise!Next
<1>8. Promise!Next \/ Still
  <2>1. ASSUME NEW s \in Submissions,
               \/ \E l \in Layers : Receive(s, l) /\ Rest
               \/ CheckPackage(s) /\ Rest
               \/ DigestPackage(s) /\ Rest
               \/ CopyPackage(s) /\ Rest
               \/ KillValidation(s) /\ Rest
               \/ Revalidate(s) /\ Rest
               \/ \E c \in Contents : EditSource(s, c) /\ Rest
        PROVE  Promise!Next \/ Still
    BY <1>1, <2>1 DEF StoreAction
  <2> QED
    BY <1>2, <1>3, <1>4, <1>5, <1>6, <1>7, <1>9, <2>1 DEF Next, AttemptStep
<1> QED
  BY <1>8 DEF Still

\* The library, called in any order, keeps the promise (KeepsReleasePromise).
THEOREM PromiseKept == Spec => KeepsReleasePromise
<1>1. Init => Promise!Init
  BY DEF Init, StoreInit, Promise!Init, WorkspaceOf, PhaseOf, Released, Passed, Tested, At
<1>2. IInv /\ [Next]_vars
        => [Promise!Next]_<<[a \in Attempts |-> WorkspaceOf(a)],
                            [s \in Submissions |-> PhaseOf(s)]>>
  BY StepKeepsPromise DEF phases, workspaces
<1> QED
  BY <1>1, <1>2, Invariance, PTL DEF Spec, KeepsReleasePromise, Promise!Spec

-----------------------------------------------------------------------------
(* What a candidate inherits. *)

\* A candidate is the base Release of its attempt, but for one layer.
Origin ==
    \A s \in Submissions : validation[s] # NoReport =>
        \E k \in Layers, d \in Contents, m \in Manifests :
            artifacts[s] = [BaseArtifacts[BaseFor(s)] EXCEPT
                               ![k] = Package(d, m, SnapshotFor(s))]

\* Every package of what is released is of its candidate's snapshot.
OwnSnapshot ==
    \A x \in released : \A l \in Layers :
        LET s == x.final.report.cand IN
            artifacts[s][l] # NoPackage => artifacts[s][l].snapshot = SnapshotFor(s)

\* Candidates are made by their validation and never change; Releases are
\* made by create_release.
LEMMA WhoMoves ==
    ASSUME [Next]_vars
    PROVE  /\ \/ UNCHANGED <<artifacts, validation>>
              \/ \E s \in Submissions : \E trial : Validate(s, trial)
           /\ \/ UNCHANGED released
              \/ \E s \in Submissions, f \in finals : CreateRelease(s, f)
<1>1. ASSUME Rest PROVE UNCHANGED <<artifacts, validation, released>>
  BY <1>1 DEF Rest, judged
<1>2. ASSUME \/ \E s \in Submissions : RefuseCandidate(s)
             \/ \E a \in Attempts : AttemptStep(a)
             \/ \E s, a, v, trial : Test(s, a, v, trial)
             \/ \E R : Compare(R)
             \/ \E r, v : Finalize(r, v)
             \/ \E f : Approve(f)
             \/ UNCHANGED vars
      PROVE  UNCHANGED <<artifacts, validation, released>>
  BY <1>2 DEF RefuseCandidate, AttemptStep, CloseAttempt, TouchWorkspace, RestoreWorkspace, Test,
              AddTest, Compare, Finalize,
              Approve, vars, judged
<1>3. ASSUME NEW s \in Submissions, NEW trial, Validate(s, trial) PROVE UNCHANGED released
  BY <1>3 DEF Validate, Frozen, judged
<1>4. ASSUME NEW s, NEW f, CreateRelease(s, f) PROVE UNCHANGED <<artifacts, validation>>
  BY <1>4 DEF CreateRelease
<1> QED
  BY <1>1, <1>2, <1>3, <1>4 DEF Next, AttemptStep

\* Candidates keep their origin.
LEMMA OriginAlways == Spec => []Origin
<1>1. Init => Origin
  BY DEF Init, Origin
<1>2. IInv /\ Origin /\ [Next]_vars => Origin'
  <2> SUFFICES ASSUME IInv, Origin, [Next]_vars PROVE Origin'
    OBVIOUS
  <2>1. CASE UNCHANGED <<artifacts, validation>>
    BY <2>1 DEF Origin
  <2>2. ASSUME NEW s \in Submissions, NEW trial, Validate(s, trial) PROVE Origin'
    <3> DEFINE d == child[s].digest
               m == child[s].manifest
               k == child[s].layer
    <3>1. /\ artifacts' = [artifacts EXCEPT ![s] = FrozenArtifacts(s)]
          /\ \A t \in Submissions : t # s => validation'[t] = validation[t]
          /\ DOMAIN artifacts = Submissions
          /\ d \in Contents /\ m \in Manifests /\ k \in Layers
      BY <2>2, StoreAssumption DEF Validate, Frozen, IInv, Types, CopyInv, At, Busy
    <3>2. artifacts'[s] = [BaseArtifacts[BaseFor(s)] EXCEPT
                              ![k] = Package(d, m, SnapshotFor(s))]
      BY <3>1 DEF FrozenArtifacts
    <3>3. \A t \in Submissions : t # s => artifacts'[t] = artifacts[t]
      BY <3>1
    <3> QED
      BY <3>1, <3>2, <3>3 DEF Origin
  <2> QED
    BY <2>1, <2>2, WhoMoves
<1> QED
  BY <1>1, <1>2, Invariance, PTL DEF Spec

\* A package of a candidate is the one it submitted or the one it inherits.
LEMMA Inherits ==
    ASSUME Origin, NEW s \in Submissions, validation[s] # NoReport
    PROVE  \E k \in Layers, d \in Contents, m \in Manifests : \A l \in Layers :
              artifacts[s][l] = IF l = k THEN Package(d, m, SnapshotFor(s))
                                ELSE BaseArtifacts[BaseFor(s)][l]
<1>1. PICK k \in Layers, d \in Contents, m \in Manifests :
        artifacts[s] = [BaseArtifacts[BaseFor(s)] EXCEPT
                           ![k] = Package(d, m, SnapshotFor(s))]
  BY DEF Origin
<1>2. DOMAIN BaseArtifacts[BaseFor(s)] = Layers
  BY ScopeAssumption DEF BaseFor
<1> QED
  BY <1>1, <1>2

\* A candidate that inherits unchanged packages can be released
\* (UnchangedArtifactsReleasable) wherever the base Release was compiled from
\* the very snapshot of the attempt: what the run evaluation_inherited finds
\* needs a base Release of an earlier one.
THEOREM InheritedOfOneSnapshot ==
    ASSUME \A a \in Attempts, l \in Layers :
              BaseArtifacts[BaseOf[a]][l] # NoPackage =>
                  BaseArtifacts[BaseOf[a]][l].snapshot = SnapshotOf[a]
    PROVE  Spec => []UnchangedArtifactsReleasable
<1>1. IInv /\ Origin => UnchangedArtifactsReleasable
  <2> SUFFICES ASSUME IInv, Origin, NEW f \in approved,
                      \A l \in Layers : artifacts[f.report.cand][l] # NoPackage =>
                          Verifies(l, artifacts[f.report.cand][l].digest)
               PROVE  Releasable(f.report.cand)
    BY DEF UnchangedArtifactsReleasable
  <2> DEFINE s == f.report.cand
  <2>1. f.report \in Reports
    BY DEF IInv, FinalInv
  <2>2. s \in Submissions /\ validation[s] # NoReport
    BY <2>1 DEF IInv, ReportInv, Reports, ValidationReports
  <2>3. PICK k \in Layers, d \in Contents, m \in Manifests : \A l \in Layers :
          artifacts[s][l] = IF l = k THEN Package(d, m, SnapshotFor(s))
                            ELSE BaseArtifacts[BaseFor(s)][l]
    BY <2>2, Inherits
  <2>4. ASSUME NEW l \in Layers, artifacts[s][l] # NoPackage
        PROVE  artifacts[s][l].snapshot = SnapshotFor(s)
    <3>1. AttemptOf[s] \in Attempts
      BY <2>2, ScopeAssumption
    <3>2. CASE l = k
      BY <2>3, <3>2 DEF Package
    <3>3. CASE l # k
      BY <2>3, <2>4, <3>1, <3>3 DEF BaseFor, SnapshotFor
    <3> QED
      BY <3>2, <3>3
  <2> QED
    BY <2>4 DEF Releasable
<1> QED
  BY <1>1, Invariance, OriginAlways, PTL

\* What is released is of one snapshot, and stays so.
LEMMA OwnSnapshotAlways == Spec => []OwnSnapshot
<1>1. Init => OwnSnapshot
  BY DEF Init, OwnSnapshot
<1>2. IInv /\ OwnSnapshot /\ [Next]_vars => OwnSnapshot'
  <2> SUFFICES ASSUME IInv, OwnSnapshot, [Next]_vars PROVE OwnSnapshot'
    OBVIOUS
  <2>1. ASSUME NEW x \in released
        PROVE  artifacts'[x.final.report.cand] = artifacts[x.final.report.cand]
    <3> DEFINE s == x.final.report.cand
    <3>1. s \in Submissions /\ validation[s] # NoReport
      BY DEF IInv, FinalInv, ReportInv
    <3>2. ASSUME NEW t \in Submissions, NEW trial, Validate(t, trial)
          PROVE  artifacts'[s] = artifacts[s]
      <4>1. s # t
        BY <3>1, <3>2 DEF IInv, PhaseInv, Validate, Frozen, At
      <4> QED
        BY <3>1, <3>2, <4>1 DEF Validate, Frozen, IInv, Types
    <3> QED
      BY <3>2, WhoMoves
  <2>2. CASE UNCHANGED released
    BY <2>1, <2>2 DEF OwnSnapshot
  <2>3. ASSUME NEW s \in Submissions, NEW f \in finals, CreateRelease(s, f) PROVE OwnSnapshot'
    <3>1. /\ released' = released \cup {Release(f)} /\ artifacts' = artifacts
          /\ f.report.cand = s /\ Releasable(s)
      BY <2>3 DEF CreateRelease
    <3>2. Release(f).final = f
      BY DEF Release
    <3> QED
      BY <3>1, <3>2 DEF OwnSnapshot, Releasable
  <2> QED
    BY <2>2, <2>3, WhoMoves
<1> QED
  BY <1>1, <1>2, Invariance, PTL DEF Spec

\* Where the base Release has packages of other snapshots on two layers,
\* nothing the attempt submits can ever be released: a candidate replaces one
\* layer, and create_release refuses the other (candidate_evaluation.py freezes
\* one submission, release_runtime.py asks every package for its snapshot).
THEOREM TwoForeignLayersBlock ==
    ASSUME NEW a \in Attempts, NEW k \in Layers, NEW l \in Layers, k # l,
           \A m \in {k, l} : /\ BaseArtifacts[BaseOf[a]][m] # NoPackage
                             /\ BaseArtifacts[BaseOf[a]][m].snapshot # SnapshotOf[a]
    PROVE  Spec => [](\A x \in released : AttemptOf[x.final.report.cand] # a)
<1>1. IInv /\ Origin /\ OwnSnapshot => \A x \in released : AttemptOf[x.final.report.cand] # a
  <2> SUFFICES ASSUME IInv, Origin, OwnSnapshot, NEW x \in released,
                      AttemptOf[x.final.report.cand] = a
               PROVE  FALSE
    OBVIOUS
  <2> DEFINE s == x.final.report.cand
  <2>1. s \in Submissions /\ validation[s] # NoReport
    BY DEF IInv, FinalInv, ReportInv
  <2>2. PICK j \in Layers, d \in Contents, w \in Manifests : \A m \in Layers :
          artifacts[s][m] = IF m = j THEN Package(d, w, SnapshotFor(s))
                            ELSE BaseArtifacts[BaseFor(s)][m]
    BY <2>1, Inherits
  <2>3. PICK m \in {k, l} : m # j
    OBVIOUS
  <2>4. artifacts[s][m] = BaseArtifacts[BaseOf[a]][m] /\ m \in Layers
    BY <2>2, <2>3 DEF BaseFor
  <2>5. artifacts[s][m].snapshot = SnapshotOf[a]
    BY <2>3, <2>4 DEF OwnSnapshot, SnapshotFor
  <2> QED
    BY <2>3, <2>4, <2>5
<1> QED
  BY <1>1, Invariance, OriginAlways, OwnSnapshotAlways, PTL

-----------------------------------------------------------------------------
(* What the measurements of a Release say. *)

\* A row is accepted or not, and accepted rightly or wrongly.
Counted(m) ==
    /\ m.samples \in Nat /\ m.accepted \in Nat /\ m.correct \in Nat /\ m.wrong \in Nat
    /\ m.accepted = m.correct + m.wrong
    /\ m.accepted <= m.samples

\* Generalization is judged alone or against the candidate's own validation.
Paired(r) ==
    \E v \in {NoReport, validation[r.cand]} : \E slices : r.gen = Transferred(v, r.m, slices)

Measured ==
    /\ \A s \in Submissions : validation[s] # NoReport => Counted(validation[s].m)
    /\ \A r \in tests : Counted(r.m) /\ r.cost \in Nat /\ Paired(r)

\* The counts of a finite set of rows.
LEMMA MeasureCounts ==
    ASSUME NEW run, NEW rows, IsFiniteSet(rows)
    PROVE  Counted(Measure(run, rows))
<1> DEFINE taken == {r \in rows : Chosen(run, r) # Fallback}
           right == {r \in taken : Correct(run, r)}
<1>1. /\ IsFiniteSet(taken) /\ IsFiniteSet(right) /\ IsFiniteSet(taken \ right)
      /\ Cardinality(taken) <= Cardinality(rows)
  <2>1. IsFiniteSet(taken) /\ Cardinality(taken) <= Cardinality(rows)
    BY FS_Subset
  <2> QED
    BY <2>1, FS_Subset
<1>2. /\ Cardinality(rows) \in Nat /\ Cardinality(taken) \in Nat
      /\ Cardinality(right) \in Nat /\ Cardinality(taken \ right) \in Nat
  BY <1>1, FS_CardinalityType
<1>3. Cardinality(taken) = Cardinality(right) + Cardinality(taken \ right)
  <2>1. taken \cap right = right
    OBVIOUS
  <2>2. Cardinality(taken \ right) = Cardinality(taken) - Cardinality(right)
    BY <1>1, <2>1, FS_Difference
  <2> HIDE DEF taken, right
  <2> QED
    BY <1>2, <2>2
<1>4. /\ Measure(run, rows).samples = Cardinality(rows)
      /\ Measure(run, rows).accepted = Cardinality(taken)
      /\ Measure(run, rows).correct = Cardinality(right)
      /\ Measure(run, rows).wrong = Cardinality(taken \ right)
  BY DEF Measure
<1> HIDE DEF taken, right
<1> QED
  BY <1>1, <1>2, <1>3, <1>4 DEF Counted

\* What a run over a finite set of rows costs.
LEMMA CostType ==
    ASSUME NEW run, NEW rows, IsFiniteSet(rows)
    PROVE  ServingCost(run, rows) \in Nat
<1> DEFINE left == {r \in rows : Chosen(run, r) = Fallback}
<1>1. IsFiniteSet(left)
  BY FS_Subset
<1>2. Cardinality(rows) \in Nat /\ Cardinality(left) \in Nat
  BY <1>1, FS_CardinalityType
<1>3. ServingCost(run, rows) = Cardinality(rows) + 10000 * Cardinality(left)
  BY DEF ServingCost, Count
<1> HIDE DEF left
<1> QED
  BY <1>2, <1>3

\* Every report counts right, and those of the test cost something.
LEMMA ReportCounts ==
    ASSUME NEW s \in Submissions, NEW stage \in {"validation", "test"}, NEW art, NEW on, NEW v,
           NEW trial
    PROVE  LET r == Report(stage, s, art, on, v, trial) IN Counted(r.m) /\ r.cost \in Nat
<1> DEFINE rows == RowsFor(stage, s)
           r    == Report(stage, s, art, on, v, trial)
<1>1. IsFiniteSet(rows)
  BY ScopeAssumption DEF SnapshotFor, RowsFor
<1>2. /\ r.m = Measure(Cascade(s, art, trial), rows)
      /\ r.cost = ServingCost(CascadeAgain(s, art, trial), rows)
  BY DEF Report
<1> HIDE DEF rows, r
<1>3. Counted(r.m) /\ r.cost \in Nat
  BY <1>1, <1>2, MeasureCounts, CostType
<1> QED
  BY <1>3 DEF r

\* Reports are only ever added, by a validation and by a test.
LEMMA WhoReports ==
    ASSUME [Next]_vars
    PROVE  \/ UNCHANGED <<validation, tests>>
           \/ \E s \in Submissions : \E trial : Validate(s, trial)
           \/ \E s \in Submissions, a \in Attempts : \E v, trial : Test(s, a, v, trial)
<1>1. ASSUME Rest PROVE UNCHANGED <<validation, tests>>
  BY <1>1 DEF Rest
<1>2. ASSUME \/ \E s \in Submissions : RefuseCandidate(s)
             \/ \E a \in Attempts : AttemptStep(a)
             \/ \E R : Compare(R)
             \/ \E r, v : Finalize(r, v)
             \/ \E f : Approve(f)
             \/ \E s, f : CreateRelease(s, f)
             \/ UNCHANGED vars
      PROVE  UNCHANGED <<validation, tests>>
  BY <1>2 DEF RefuseCandidate, AttemptStep, CloseAttempt, TouchWorkspace, RestoreWorkspace,
              Compare, Finalize, Approve,
              CreateRelease, vars
<1> QED
  BY <1>1, <1>2 DEF Next, AttemptStep

\* The measurements of all reports are as they should be.
LEMMA MeasuredAlways == Spec => []Measured
<1>1. Init => Measured
  BY DEF Init, Measured
<1>2. IInv /\ Measured /\ [Next]_vars => Measured'
  <2> SUFFICES ASSUME IInv, Measured, [Next]_vars PROVE Measured'
    OBVIOUS
  <2>1. CASE UNCHANGED <<validation, tests>>
    BY <2>1 DEF Measured, Paired
  <2>2. ASSUME NEW s \in Submissions, NEW trial, Validate(s, trial) PROVE Measured'
    <3> DEFINE r == ValidationReport(s, trial)
    <3>1. /\ validation' = [validation EXCEPT ![s] = r] /\ tests' = tests
          /\ validation[s] = NoReport
      BY <2>2 DEF Validate, Frozen, IInv, PhaseInv, At
    <3>2. Counted(r.m)
      BY ReportCounts DEF ValidationReport
    <3> HIDE DEF r
    <3>3. \A t \in Submissions : validation'[t] = IF t = s THEN r ELSE validation[t]
      BY <3>1 DEF IInv, Types
    <3>4. \A q \in tests : validation'[q.cand] = validation[q.cand]
      BY <3>1, <3>3 DEF IInv, ReportInv
    <3> QED
      BY <3>1, <3>2, <3>3, <3>4 DEF Measured, Paired
  <2>3. ASSUME NEW s \in Submissions, NEW a \in Attempts, NEW v, NEW trial, Test(s, a, v, trial)
        PROVE  Measured'
    <3> DEFINE r == TestReport(s, v, trial)
    <3>1. /\ tests' = tests \cup {r} /\ validation' = validation
          /\ v \in {NoReport, validation[s]}
      BY <2>3 DEF Test, AddTest
    <3>2. Counted(r.m) /\ r.cost \in Nat
      BY ReportCounts DEF TestReport
    <3>3. r.cand = s /\ \E slices : r.gen = Transferred(v, r.m, slices)
      BY TestReportFields
    <3> HIDE DEF r
    <3> QED
      BY <3>1, <3>2, <3>3 DEF Measured, Paired
  <2> QED
    BY <2>1, <2>2, <2>3, WhoReports
<1> QED
  BY <1>1, <1>2, Invariance, PTL DEF Spec

\* A Release's report, as the theorems below need it.
LEMMA ReleasedReport ==
    ASSUME IInv, Measured, NEW x \in released
    PROVE  LET r == x.final.report IN
             /\ Passes(ResultsOf(r)) /\ r.m.wrong = 0
             /\ r.cand \in Submissions /\ validation[r.cand] # NoReport
             /\ Counted(r.m) /\ Counted(validation[r.cand].m) /\ Paired(r)
<1> DEFINE r == x.final.report
<1>1. Passes(ResultsOf(r)) /\ r \in tests
  BY DEF IInv, FinalInv
<1>2. r.cand \in Submissions /\ validation[r.cand] # NoReport /\ Sound(r)
  BY <1>1 DEF IInv, ReportInv
<1>3. <<"generalization", r.gen.evidence>> \in ResultsOf(r)
  BY DEF ResultsOf, RequirementResults
<1> HIDE DEF r
<1>4. r.m.wrong = 0
  BY <1>1, <1>2, <1>3, PassingResults DEF Sound
<1>5. Counted(r.m) /\ Counted(validation[r.cand].m) /\ Paired(r)
  BY <1>1, <1>2 DEF Measured
<1> QED
  BY <1>1, <1>2, <1>4, <1>5 DEF r

\* Only thresholds within reach let anything through.  The bounds are five
\* points off the measured rates (candidate_evaluation.py:883), and no wrong
\* accept is forgiven, so a target that asks for more than 95 % precision or
\* for less than 5 % wrong accepts never gets a Release, however good its
\* candidates and however many rows they answer.
THEOREM ThresholdsWithinReach ==
    ASSUME Req.precision_min \in Int, Req.wrong_max \subseteq Int
    PROVE  Spec => [](\A x \in released :
                        /\ x.final.report.m.accepted > 0
                        /\ x.final.report.m.correct = x.final.report.m.accepted
                        /\ Req.precision_min <= 95
                        /\ \A n \in Req.wrong_max : 5 <= n)
<1>1. IInv /\ Measured => \A x \in released :
          /\ x.final.report.m.accepted > 0
          /\ x.final.report.m.correct = x.final.report.m.accepted
          /\ Req.precision_min <= 95
          /\ \A n \in Req.wrong_max : 5 <= n
  <2> SUFFICES ASSUME IInv, Measured, NEW x \in released
               PROVE  /\ x.final.report.m.accepted > 0
                      /\ x.final.report.m.correct = x.final.report.m.accepted
                      /\ Req.precision_min <= 95
                      /\ \A n \in Req.wrong_max : 5 <= n
    OBVIOUS
  <2> DEFINE r == x.final.report
             m == r.m
             k == m.accepted
  <2>1. Passes(ResultsOf(r)) /\ m.wrong = 0 /\ Counted(m)
    BY ReleasedReport
  <2>2. k \in Nat /\ m.correct = k
    BY <2>1 DEF Counted
  <2>3. /\ PrecisionResult(m) \subseteq ResultsOf(r)
        /\ Check("wrong_accept_rate_max", Req.wrong_max, Above({UpperBound(m)}, Req.wrong_max))
              \subseteq ResultsOf(r)
    BY DEF ResultsOf, RequirementResults
  <2> HIDE DEF r
  <2>4. Given(LowerBound(m)) /\ ~Below(LowerBound(m), {Req.precision_min})
    <3> SUFFICES ASSUME ~Given(LowerBound(m)) \/ Below(LowerBound(m), {Req.precision_min})
                 PROVE  FALSE
      OBVIOUS
    <3>1. \E name : \E status \in {"fail", "insufficient"} : <<name, status>> \in ResultsOf(r)
      BY <2>3 DEF PrecisionResult
    <3> QED
      BY <2>1, <3>1, PassingResults
  <2>5. LowerBound(m) = Ratio(95 * k, 100 * k)
    BY <2>2 DEF LowerBound
  <2>6. k > 0
    BY <2>2, <2>4, <2>5 DEF Ratio, Given
  <2>7. LowerBound(m) = {<<95 * k, 100 * k>>}
    BY <2>2, <2>5, <2>6 DEF Ratio
  <2>8. Req.precision_min <= 95
    <3> DEFINE n == Req.precision_min
    <3>1. ~(100 * (95 * k) < n * (100 * k))
      BY <2>4, <2>7 DEF Below
    <3> HIDE DEF n, k
    <3>2. n \in Int => n <= 95
      BY <2>2, <2>6, <3>1, Z3
    <3> QED
      BY <3>2 DEF n
  <2>9. ASSUME NEW n \in Req.wrong_max PROVE 5 <= n
    <3>1. ~Above({UpperBound(m)}, Req.wrong_max)
      <4> SUFFICES ASSUME Above({UpperBound(m)}, Req.wrong_max) PROVE FALSE
        OBVIOUS
      <4>1. <<"wrong_accept_rate_max", "fail">> \in ResultsOf(r)
        BY <2>3, <2>9 DEF Check, Given
      <4> QED
        BY <2>1, <4>1, PassingResults
    <3>2. UpperBound(m) = <<5 * k, 100 * k>>
      BY <2>1, <2>2, <2>6 DEF UpperBound
    <3>3. ~(100 * (5 * k) > n * (100 * k)) /\ n \in Int
      BY <2>9, <3>1, <3>2 DEF Above
    <3> HIDE DEF k
    <3> QED
      BY <2>2, <2>6, <3>3, Z3
  <2> QED
    BY <2>2, <2>6, <2>8, <2>9 DEF r
<1> QED
  BY <1>1, Invariance, MeasuredAlways, PTL

\* The evidence a reconciliation with a validation report gives.
LEMMA ReconciledRetention ==
    ASSUME NEW v, NEW m, NEW slices
    PROVE  Reconciled(TestSummary(m, slices), v, m).retention
             = Ratio(m.accepted * v.samples, v.accepted * m.samples)
<1> DEFINE base == TestSummary(m, slices)
<1>1. base = [drop |-> base.drop, retention |-> base.retention, slices |-> base.slices,
              evidence |-> base.evidence]
  BY DEF TestSummary, Summary
<1> HIDE DEF base
<1>2. Reconciled(base, v, m).retention = Ratio(m.accepted * v.samples, v.accepted * m.samples)
  BY <1>1 DEF Reconciled
<1> QED
  BY <1>2 DEF base

\* Without one there is nothing to retain.
LEMMA UnpairedRetention ==
    ASSUME NEW m, NEW slices, Given(Req.retention_min)
    PROVE  Unpaired(TestSummary(m, slices)).retention = {}
<1> DEFINE base == TestSummary(m, slices)
<1>1. base = [drop |-> base.drop, retention |-> base.retention, slices |-> base.slices,
              evidence |-> base.evidence]
  BY DEF TestSummary, Summary
<1> HIDE DEF base
<1>2. Unpaired(base).retention = {}
  BY <1>1 DEF Unpaired
<1> QED
  BY <1>2 DEF base

\* Where the target asks for retained coverage, a Release has kept on its test
\* rows that share of the coverage its own candidate had on the validation
\* rows.  The caller of evaluate_candidate_on_test can leave the validation
\* report away, but not get a Release by it.
THEOREM CoverageIsRetained ==
    ASSUME Req.retention_min \subseteq Int
    PROVE  Spec => [](\A x \in released :
                        LET m == x.final.report.m
                            v == validation[x.final.report.cand].m
                        IN  \A n \in Req.retention_min :
                              /\ v.accepted > 0
                              /\ n * (v.accepted * m.samples) <= 100 * (m.accepted * v.samples))
<1> DEFINE Kept100(m, v, n) ==
              /\ v.accepted > 0
              /\ n * (v.accepted * m.samples) <= 100 * (m.accepted * v.samples)
<1>1. IInv /\ Measured => \A x \in released : \A n \in Req.retention_min :
          Kept100(x.final.report.m, validation[x.final.report.cand].m, n)
  <2> SUFFICES ASSUME IInv, Measured, NEW x \in released, NEW n \in Req.retention_min
               PROVE  Kept100(x.final.report.m, validation[x.final.report.cand].m, n)
    OBVIOUS
  <2> DEFINE r == x.final.report
             m == r.m
             v == validation[r.cand]
             retained == Ratio(m.accepted * v.m.samples, v.m.accepted * m.samples)
  <2>1. /\ Passes(ResultsOf(r)) /\ v # NoReport /\ Paired(r)
        /\ Counted(m) /\ Counted(v.m) /\ Given(Req.retention_min)
    BY ReleasedReport DEF Given
  <2>2. Given(r.gen.retention) /\ ~Below(r.gen.retention, Req.retention_min)
    <3>1. Transfer("coverage_retention", Req.retention_min, r.gen.retention,
                   Below(r.gen.retention, Req.retention_min)) \subseteq ResultsOf(r)
      BY DEF ResultsOf, RequirementResults
    <3> HIDE DEF r
    <3>2. Given(r.gen.retention)
      <4> SUFFICES ASSUME ~Given(r.gen.retention) PROVE FALSE
        OBVIOUS
      <4>1. <<"coverage_retention", "insufficient">> \in ResultsOf(r)
        BY <2>1, <3>1 DEF Transfer
      <4> QED
        BY <2>1, <4>1, PassingResults
    <3>3. ~Below(r.gen.retention, Req.retention_min)
      <4> SUFFICES ASSUME Below(r.gen.retention, Req.retention_min) PROVE FALSE
        OBVIOUS
      <4>1. <<"coverage_retention", "fail">> \in ResultsOf(r)
        BY <2>1, <3>1, <3>2 DEF Transfer
      <4> QED
        BY <2>1, <4>1, PassingResults
    <3> QED
      BY <3>2, <3>3
  <2>3. r.gen.retention = retained
    <3>1. PICK w \in {NoReport, v} : \E slices : r.gen = Transferred(w, m, slices)
      BY <2>1 DEF Paired
    <3>2. PICK slices : r.gen = Transferred(w, m, slices)
      BY <3>1
    <3>3. w # NoReport
      <4> SUFFICES ASSUME w = NoReport PROVE FALSE
        OBVIOUS
      <4>1. r.gen = Unpaired(TestSummary(m, slices))
        BY <3>2 DEF Transferred
      <4> QED
        BY <2>1, <2>2, <4>1, UnpairedRetention DEF Given
    <3>4. r.gen = Reconciled(TestSummary(m, slices), v.m, m)
      BY <3>1, <3>2, <3>3 DEF Transferred
    <3> QED
      BY <3>4, ReconciledRetention
  <2> DEFINE a == m.accepted * v.m.samples
             b == v.m.accepted * m.samples
  <2>4. a \in Nat /\ b \in Nat /\ v.m.accepted \in Nat /\ m.samples \in Nat
    BY <2>1 DEF Counted
  <2>5. b # 0 /\ retained = {<<a, b>>}
    BY <2>2, <2>3 DEF Ratio, Given
  <2>6. ~(100 * a < n * b)
    <3>1. ~Below({<<a, b>>}, Req.retention_min)
      BY <2>2, <2>3, <2>5
    <3> HIDE DEF a, b
    <3> QED
      BY <3>1 DEF Below
  <2>7. v.m.accepted # 0
    <3>1. ASSUME NEW k \in Nat PROVE 0 * k = 0
      OBVIOUS
    <3>2. v.m.accepted = 0 => b = 0
      BY <2>4, <3>1
    <3> QED
      BY <2>5, <3>2
  <2>8. n * b <= 100 * a /\ v.m.accepted > 0
    <3> HIDE DEF a, b
    <3> QED
      BY <2>4, <2>6, <2>7
  <2> QED
    BY <2>8
<1> QED
  BY <1>1, Invariance, MeasuredAlways, PTL

-----------------------------------------------------------------------------
(* The comparison always finds a best. *)

\* A ratio at least another that is at least a third is at least the third.
LEMMA RatiosCompose ==
    ASSUME NEW a \in Nat, NEW b \in Nat, NEW c \in Nat, NEW d \in Nat, NEW e \in Nat, NEW f \in Nat,
           b > 0, d > 0, f > 0, a * d >= c * b, c * f >= e * d
    PROVE  a * f >= e * b
<1>1. (a * d) * f >= (c * b) * f
  BY Z3
<1>2. (c * f) * b >= (e * d) * b
  BY Z3
<1>3. (a * f) * d >= (e * b) * d
  BY <1>1, <1>2, Z3
<1> QED
  BY <1>3, Z3

\* Coverage and cost order the test reports.
LEMMA ObjectiveOrders ==
    ASSUME Measured, Objective \in {"coverage", "cost"}
    PROVE  /\ \A r, q \in tests : AtLeastAsGood(r, q) \/ AtLeastAsGood(q, r)
           /\ \A r, q, t \in tests :
                 AtLeastAsGood(r, q) /\ AtLeastAsGood(q, t) => AtLeastAsGood(r, t)
<1>1. \A r \in tests : r.cost \in Nat /\ Coverage(r.m)[1] \in Nat /\ Coverage(r.m)[2] \in Nat \ {0}
  BY DEF Measured, Counted, Coverage
<1>2. CASE Objective = "cost"
  BY <1>1, <1>2 DEF AtLeastAsGood
<1>3. CASE Objective = "coverage"
  <2>1. \A r, q : AtLeastAsGood(r, q) <=>
          Coverage(r.m)[1] * Coverage(q.m)[2] >= Coverage(q.m)[1] * Coverage(r.m)[2]
    BY <1>3 DEF AtLeastAsGood
  <2>2. ASSUME NEW r \in tests, NEW q \in tests PROVE AtLeastAsGood(r, q) \/ AtLeastAsGood(q, r)
    <3> DEFINE x == Coverage(r.m)[1] * Coverage(q.m)[2]
               y == Coverage(q.m)[1] * Coverage(r.m)[2]
    <3>1. x \in Nat /\ y \in Nat
      BY <1>1
    <3>2. (AtLeastAsGood(r, q) <=> x >= y) /\ (AtLeastAsGood(q, r) <=> y >= x)
      BY <2>1
    <3> HIDE DEF x, y
    <3> QED
      BY <3>1, <3>2
  <2>3. ASSUME NEW r \in tests, NEW q \in tests, NEW t \in tests,
               AtLeastAsGood(r, q), AtLeastAsGood(q, t)
        PROVE  AtLeastAsGood(r, t)
    <3>1. /\ Coverage(r.m)[1] * Coverage(q.m)[2] >= Coverage(q.m)[1] * Coverage(r.m)[2]
          /\ Coverage(q.m)[1] * Coverage(t.m)[2] >= Coverage(t.m)[1] * Coverage(q.m)[2]
      BY <2>1, <2>3
    <3>2. /\ Coverage(r.m)[2] > 0 /\ Coverage(q.m)[2] > 0 /\ Coverage(t.m)[2] > 0
          /\ Coverage(r.m)[2] \in Nat /\ Coverage(q.m)[2] \in Nat /\ Coverage(t.m)[2] \in Nat
          /\ Coverage(r.m)[1] \in Nat /\ Coverage(q.m)[1] \in Nat /\ Coverage(t.m)[1] \in Nat
      BY <1>1
    <3> QED
      BY <2>1, <3>1, <3>2, RatiosCompose
  <2> QED
    BY <2>2, <2>3
<1> QED
  BY <1>2, <1>3

\* A finite set that is ordered has a best element: one that is at least as good
\* as the most.
LEMMA OrderedHasBest ==
    ASSUME NEW R, IsFiniteSet(R), R # {},
           \A r, q \in R : AtLeastAsGood(r, q) \/ AtLeastAsGood(q, r),
           \A r, q, t \in R : AtLeastAsGood(r, q) /\ AtLeastAsGood(q, t) => AtLeastAsGood(r, t)
    PROVE  BestOf(R) # {}
<1> DEFINE Beaten(r) == {q \in R : AtLeastAsGood(r, q)}
           misses    == {Cardinality(R) - Cardinality(Beaten(r)) : r \in R}
           Less      == {ss \in Nat \X Nat : ss[1] < ss[2]}
<1>1. \A r \in R : /\ IsFiniteSet(Beaten(r)) /\ Cardinality(Beaten(r)) \in Nat
                   /\ Cardinality(Beaten(r)) <= Cardinality(R)
  <2> SUFFICES ASSUME NEW r \in R
               PROVE  /\ IsFiniteSet(Beaten(r)) /\ Cardinality(Beaten(r)) \in Nat
                      /\ Cardinality(Beaten(r)) <= Cardinality(R)
    OBVIOUS
  <2>1. Beaten(r) \in SUBSET R
    OBVIOUS
  <2> HIDE DEF Beaten
  <2> QED
    BY <2>1, FS_Subset, FS_CardinalityType
<1>2. Cardinality(R) \in Nat
  BY FS_CardinalityType
<1> HIDE DEF Beaten
<1>3. misses \subseteq Nat /\ misses # {}
  BY <1>1, <1>2
<1>4. PICK n \in misses : \A k \in misses : <<k, n>> \notin Less
  <2>1. IsWellFoundedOn(Less, Nat)
    BY NatLessThanWellFounded DEF OpToRel
  <2> HIDE DEF Less, misses
  <2> QED
    BY <1>3, <2>1, WFMin
<1>5. PICK r \in R : n = Cardinality(R) - Cardinality(Beaten(r))
  BY <1>4
<1>6. \A q \in R : Cardinality(Beaten(q)) <= Cardinality(Beaten(r))
  <2> SUFFICES ASSUME NEW q \in R PROVE Cardinality(Beaten(q)) <= Cardinality(Beaten(r))
    OBVIOUS
  <2> DEFINE k == Cardinality(R) - Cardinality(Beaten(q))
  <2>1. k \in misses /\ k \in Nat /\ n \in Nat
    BY <1>1, <1>2, <1>3, <1>4
  <2>2. ~(k < n)
    BY <1>4, <2>1
  <2> QED
    BY <1>1, <1>2, <1>5, <2>2
<1>7. ASSUME NEW q \in R, ~AtLeastAsGood(r, q) PROVE FALSE
  <2>1. Beaten(r) \in SUBSET Beaten(q) /\ q \in Beaten(q) /\ q \notin Beaten(r)
    BY <1>7 DEF Beaten
  <2>2. /\ Cardinality(Beaten(r)) <= Cardinality(Beaten(q))
        /\ Cardinality(Beaten(q)) # Cardinality(Beaten(r))
    BY <1>1, <2>1, FS_Subset
  <2> QED
    BY <1>1, <1>6, <2>2
<1>8. r \in BestOf(R)
  BY <1>7 DEF BestOf
<1> QED
  BY <1>8

\* Whatever test reports are compared for coverage or cost, there is a best one
\* among them: compare_candidates never comes out without a selection, ties or
\* not, and reports over no rows included.
THEOREM AlwaysABest ==
    ASSUME Objective \in {"coverage", "cost"}
    PROVE  Spec => [](\A R \in SUBSET tests : R # {} => BestOf(R) # {})
<1>1. IInv /\ Measured => \A R \in SUBSET tests : R # {} => BestOf(R) # {}
  <2> SUFFICES ASSUME IInv, Measured, NEW R \in SUBSET tests, R # {} PROVE BestOf(R) # {}
    OBVIOUS
  <2>1. IsFiniteSet(R)
    BY FS_Subset DEF IInv, Types
  <2>2. /\ \A r, q \in R : AtLeastAsGood(r, q) \/ AtLeastAsGood(q, r)
        /\ \A r, q, t \in R :
              AtLeastAsGood(r, q) /\ AtLeastAsGood(q, t) => AtLeastAsGood(r, t)
    BY ObjectiveOrders
  <2> QED
    BY <2>1, <2>2, OrderedHasBest
<1> QED
  BY <1>1, Invariance, MeasuredAlways, PTL

=============================================================================
