------------------------- MODULE CompileEvidence_proofs -------------------------
(***************************************************************************)
(* More proofs about the interactive compile loop, over the invariant of   *)
(* InteractiveCompile_proofs: what a ledger entry points to is on disk,    *)
(* the agent gets no more verdicts than budget and faults explain, costs   *)
(* are never forgotten, the result names a best candidate that can be      *)
(* loaded, and a content is evaluated once if it is left alone meanwhile.  *)
(***************************************************************************)
EXTENDS InteractiveCompile_proofs

-----------------------------------------------------------------------------
(* The inductive invariant. *)

\* The three writes belong to a submission whose evaluation went well.
Writing == {"feedback", "candidate", "report"}
VerdictRight == pc \in Writing => job.verdict = "ok"

\* What the submission in hand has on disk by now.
EvidenceInHand ==
    /\ pc \in {"candidate", "report", "persist"} => feedback[job.sub] # None
    /\ pc = "report" => job.candidate \in saved.candidates
    /\ pc = "persist" /\ job.verdict = "ok" =>
         job.candidate \in saved.candidates /\ job.candidate \in saved.reports

\* Feedback that is out and not yet in the ledger: the submission in hand.
InHand ==
    IF pc \in {"candidate", "report"} \/ (pc = "persist" /\ job.verdict = "ok") THEN 1 ELSE 0

\* All other feedback is in the ledger, or was lost to a fault.
LeakRight ==
    /\ delivered <= Len(ledger) + InHand + faults
    /\ Len(ledger) <= MaxCandidates

EvidenceInv == VerdictRight /\ EvidenceInHand /\ EvidenceOnDisk /\ LeakRight

\* The invariant holds before the loop is first started.
LEMMA InitEvidence == Init => EvidenceInv
BY BoundsAssumption
   DEF Init, EvidenceInv, VerdictRight, Writing, EvidenceInHand, EvidenceOnDisk, Entries,
       LeakRight, InHand

-----------------------------------------------------------------------------
(* One step keeps it. *)

\* A step that neither begins nor ends a write, nor touches what is on disk.
LEMMA QuietStep ==
    ASSUME IInv, EvidenceInv,
           pc \notin Writing \cup {"persist"}, pc' \notin {"candidate", "report", "persist"},
           pc' = "feedback" => job'.verdict = "ok",
           UNCHANGED <<ledger, feedback, saved, delivered, faults>>
    PROVE  EvidenceInv'
BY DEF EvidenceInv, VerdictRight, Writing, EvidenceInHand, EvidenceOnDisk, Entries, LeakRight,
       InHand

\* A step that leaves the loop and what it wrote alone.
LEMMA OutsideEvidence ==
    ASSUME EvidenceInv, UNCHANGED <<coreFiles, loopVars, history>>
    PROVE  EvidenceInv'
BY DEF EvidenceInv, VerdictRight, Writing, EvidenceInHand, EvidenceOnDisk, Entries, LeakRight,
       InHand, coreFiles, loopVars, history

\* Every entry is about a submission.
LEMMA EntriesOfSubmissions ==
    ASSUME TypeOK
    PROVE  \A e \in Entries : e.sub \in Submissions
<1>1. ledger \in Seq(EntryType)
  BY DEF TypeOK
<1>2. \A i \in DOMAIN ledger : ledger[i] \in EntryType
  BY <1>1
<1>3. \A e \in EntryType : e.sub \in Submissions
  BY DEF EntryType
<1> QED
  BY <1>2, <1>3 DEF Entries

\* The entry of a submission that is in hand adds one to the ledger, and has
\* its evidence on disk.
LEMMA PersistEvidence ==
    ASSUME IInv, EvidenceInv, Persist
    PROVE  EvidenceInv'
<1>1. /\ TypeOK /\ job.sub \in Submissions /\ ledger \in Seq(EntryType)
      /\ Len(ledger) < MaxCandidates /\ delivered \in Nat /\ faults \in Nat
      /\ MaxCandidates \in Nat
  BY BoundsAssumption DEF Persist, IInv, JobRight, CountRight, Working, TypeOK
<1>2. Entry \in EntryType /\ ledger' = Append(ledger, Entry) /\ pc = "persist"
  BY <1>1, EntryTypes DEF Persist
<1>3. pc' \in {"poll", "close", "item"} /\ UNCHANGED <<feedback, saved, delivered, faults>>
  BY DEF Persist, DrainReturns, history
<1>4. /\ Len(ledger') = Len(ledger) + 1
      /\ \A i \in DOMAIN ledger' : i \in DOMAIN ledger \/ ledger'[i] = Entry
      /\ \A i \in DOMAIN ledger : ledger'[i] = ledger[i]
  BY <1>1, <1>2
<1>5. VerdictRight' /\ EvidenceInHand'
  BY <1>3 DEF VerdictRight, Writing, EvidenceInHand
<1>6. EvidenceOnDisk'
  <2>1. Entries' \subseteq Entries \cup {Entry}
    BY <1>4 DEF Entries
  <2>2. /\ feedback[Entry.sub] # None
        /\ Entry.status = "feedback" =>
             Entry.candidate \in saved.candidates /\ Entry.candidate \in saved.reports
    BY <1>2 DEF EvidenceInv, EvidenceInHand, Entry
  <2> QED
    BY <1>3, <2>1, <2>2 DEF EvidenceInv, EvidenceOnDisk
<1>7. LeakRight'
  <2>1. InHand \in {0, 1} /\ InHand' = 0
    BY <1>3 DEF InHand
  <2>2. Len(ledger) \in Nat
    BY <1>1
  <2> QED
    BY <1>1, <1>3, <1>4, <2>1, <2>2 DEF EvidenceInv, LeakRight
<1> QED
  BY <1>5, <1>6, <1>7 DEF EvidenceInv

\* The invariant is inductive.
LEMMA EvidenceStep == IInv /\ EvidenceInv /\ [Next]_vars => EvidenceInv'
<1> SUFFICES ASSUME IInv, EvidenceInv, [Next]_vars PROVE EvidenceInv'
  OBVIOUS
<1> USE DEF Writing
<1>1. /\ TypeOK /\ job \in JobType /\ Len(ledger) \in Nat
      /\ delivered \in Nat /\ faults \in Nat /\ MaxCandidates \in Nat
      /\ saved \in [candidates : SUBSET Nat, reports : SUBSET Nat]
      /\ feedback \in [Submissions -> {None, "metrics", "failed"}]
      /\ pc \in Working => job.sub \in Submissions
  BY BoundsAssumption DEF IInv, TypeOK, JobRight
<1>2. CASE Start \/ CheckStop \/ Seal \/ WriteResult \/ PollAgent \/ CloseAttempt
  <2>1. CASE Start
    BY <2>1, QuietStep DEF Start, history
  <2>2. CASE CheckStop
    BY <2>2, QuietStep DEF CheckStop, history
  <2>3. CASE Seal
    BY <2>3, QuietStep DEF Seal, history
  <2>4. CASE WriteResult
    BY <2>4, QuietStep DEF WriteResult, history
  <2>5. CASE PollAgent
    BY <2>5, QuietStep DEF PollAgent, history, coreFiles
  <2>6. CASE CloseAttempt
    BY <2>6, QuietStep DEF CloseAttempt, history
  <2> QED
    BY <1>2, <2>1, <2>2, <2>3, <2>4, <2>5, <2>6
<1>3. CASE BeginDrain \/ EndDrain \/ LimitStopsDrain
  <2>1. CASE BeginDrain
    BY <2>1, QuietStep DEF BeginDrain, DrainReturns, history
  <2>2. CASE EndDrain
    BY <2>2, QuietStep DEF EndDrain, DrainReturns, history, coreFiles
  <2>3. CASE LimitStopsDrain
    BY <2>3, QuietStep DEF LimitStopsDrain, AtItem, DrainReturns, history
  <2> QED
    BY <1>3, <2>1, <2>2, <2>3
<1>4. ASSUME NEW s \in Submissions, NEW d \in Versions \cup {NoDigest}
      PROVE  /\ SkipKnown(s, d) \/ StopBeforeValidation(s, d) => EvidenceInv'
             /\ RejectSubmission(s, d) \/ StartValidation(s, d) => EvidenceInv'
  BY QuietStep DEF SkipKnown, StopBeforeValidation, RejectSubmission, StartValidation, Item,
                   AtItem, DrainReturns, history
<1>5. CASE StopValidation
  BY <1>5, QuietStep DEF StopValidation, history
<1>6. CASE ReceiveVerdict
  BY <1>6, QuietStep DEF ReceiveVerdict, history
<1>7. CASE ChildFreezes
  BY <1>7, QuietStep DEF ChildFreezes, coreFiles
<1>8. ASSUME NEW gate \in {"pass", "fail"}, NEW coverage \in Coverages,
             ChildReports(gate, coverage)
      PROVE  EvidenceInv'
  BY <1>8, QuietStep DEF ChildReports, coreFiles, history
<1>9. CASE ChildFails
  BY <1>9, QuietStep DEF ChildFails, coreFiles, history
<1>10. CASE ChildDies
  BY <1>10, QuietStep DEF ChildDies, coreFiles, history
<1>11. CASE WriteFeedback
  <2>1. /\ pc = "feedback" /\ pc' = "candidate" /\ delivered' = delivered + 1
        /\ UNCHANGED <<ledger, saved, job, faults>>
        /\ feedback' = [feedback EXCEPT ![job.sub] = "metrics"]
        /\ job.sub \in Submissions
    BY <1>1, <1>11 DEF WriteFeedback, Working
  <2>2. InHand = 0 /\ InHand' = 1
    BY <2>1 DEF InHand
  <2>3. LeakRight'
    BY <1>1, <2>1, <2>2 DEF EvidenceInv, LeakRight
  <2>4. \A s \in Submissions : feedback[s] # None => feedback'[s] # None
    BY <1>1, <2>1 DEF None
  <2>5. feedback'[job.sub] # None
    BY <1>1, <2>1 DEF None
  <2>6. EvidenceOnDisk'
    <3>1. Entries' = Entries /\ \A e \in Entries : e.sub \in Submissions
      BY <1>1, <2>1, EntriesOfSubmissions DEF Entries
    <3> QED
      BY <2>1, <2>4, <3>1 DEF EvidenceInv, EvidenceOnDisk
  <2>7. VerdictRight' /\ EvidenceInHand'
    BY <2>1, <2>5 DEF EvidenceInv, VerdictRight, EvidenceInHand
  <2> QED
    BY <2>3, <2>6, <2>7 DEF EvidenceInv
<1>12. ASSUME SaveCandidate \/ SaveReport
       PROVE  EvidenceInv'
  <2>1. /\ saved.candidates \subseteq saved'.candidates
        /\ saved.reports \subseteq saved'.reports
        /\ SaveCandidate => job.candidate \in saved'.candidates
        /\ SaveReport => job.candidate \in saved'.reports
    BY <1>1, <1>12 DEF SaveCandidate, SaveReport
  <2>2. /\ UNCHANGED <<ledger, feedback, job, delivered, faults>>
        /\ pc \in {"candidate", "report"} /\ pc' \in {"report", "persist"}
        /\ SaveCandidate => pc = "candidate" /\ pc' = "report"
        /\ SaveReport => pc = "report" /\ pc' = "persist"
    BY <1>12 DEF SaveCandidate, SaveReport, history
  <2>3. job.verdict = "ok"
    BY <2>2 DEF EvidenceInv, VerdictRight
  <2>4. LeakRight'
    BY <2>2, <2>3 DEF EvidenceInv, LeakRight, InHand
  <2>5. EvidenceOnDisk'
    BY <2>1, <2>2 DEF EvidenceInv, EvidenceOnDisk, Entries
  <2>6. VerdictRight' /\ EvidenceInHand'
    BY <1>12, <2>1, <2>2, <2>3 DEF EvidenceInv, VerdictRight, EvidenceInHand
  <2> QED
    BY <2>4, <2>5, <2>6 DEF EvidenceInv
<1>13. CASE WriteFails \/ Crash \/ SealRaises
  <2>1. /\ pc' \in {"failure", "off"} /\ faults' \in {faults, faults + 1}
        /\ pc' = "failure" \/ faults' = faults + 1 \/ pc = "seal"
        /\ pc' = "failure" => faults' = faults + 1
        /\ UNCHANGED <<ledger, feedback, saved, delivered>>
    BY <1>13 DEF WriteFails, Crash, SealRaises, LoseMemory, coreFiles
  <2>2. InHand \in {0, 1} /\ InHand' = 0 /\ (pc = "seal" => InHand = 0)
    BY <2>1 DEF InHand
  <2>3. LeakRight'
    BY <1>1, <2>1, <2>2 DEF EvidenceInv, LeakRight
  <2>4. EvidenceOnDisk' /\ VerdictRight' /\ EvidenceInHand'
    BY <2>1
       DEF EvidenceInv, EvidenceOnDisk, Entries, VerdictRight, EvidenceInHand
  <2> QED
    BY <2>3, <2>4 DEF EvidenceInv
<1>14. CASE WriteFailureFeedback
  <2>1. /\ pc = "failure" /\ pc' = "persist" /\ UNCHANGED <<ledger, saved, delivered, faults>>
        /\ feedback' = [feedback EXCEPT ![job.sub] = "failed"]
        /\ job' = Work(job.sub, job.digest) /\ job.sub \in Submissions
    BY <1>1, <1>14 DEF WriteFailureFeedback, Working, history
  <2>2. job'.sub = job.sub /\ job'.verdict = None
    BY <2>1 DEF Work, NoJob
  <2>3. LeakRight'
    BY <2>1, <2>2 DEF EvidenceInv, LeakRight, InHand, None
  <2>4. \A s \in Submissions : feedback[s] # None => feedback'[s] # None
    BY <1>1, <2>1 DEF None
  <2>5. EvidenceOnDisk'
    <3>1. Entries' = Entries /\ \A e \in Entries : e.sub \in Submissions
      BY <1>1, <2>1, EntriesOfSubmissions DEF Entries
    <3> QED
      BY <2>1, <2>4, <3>1 DEF EvidenceInv, EvidenceOnDisk
  <2>6. VerdictRight' /\ EvidenceInHand'
    BY <1>1, <2>1, <2>2 DEF VerdictRight, EvidenceInHand, None
  <2> QED
    BY <2>3, <2>5, <2>6 DEF EvidenceInv
<1>15. CASE Persist
  BY <1>15, PersistEvidence
<1>16. CASE EnvironmentStep
  <2>1. UNCHANGED <<coreFiles, loopVars, history>>
    BY <1>16 DEF EnvironmentStep, EditSubmission, ReportUsage, LinkWorkspace, AgentEnds,
                 TimeRunsOut, UserStops
  <2> QED
    BY <2>1, OutsideEvidence
<1>17. CASE UNCHANGED vars
  BY <1>17, OutsideEvidence DEF vars
<1> QED
  BY <1>2, <1>3, <1>4, <1>5, <1>6, <1>7, <1>8, <1>9, <1>10, <1>11, <1>12, <1>13, <1>14,
     <1>15, <1>16, <1>17
     DEF Next, CoreStep, ChildStep, Fault, LookAtItem

\* Both invariants hold in every reachable state.
LEMMA EvidenceAlways == Spec => [](IInv /\ EvidenceInv)
<1>1. Init => IInv /\ EvidenceInv
  BY InitIInv, InitEvidence
<1>2. (IInv /\ EvidenceInv) /\ [Next]_vars => (IInv /\ EvidenceInv)'
  BY IInvStep, EvidenceStep
<1> QED
  BY <1>1, <1>2, PTL DEF Spec

\* Wherever Core dies between the writes: a ledger entry with feedback is never
\* ahead of the candidate, the report and the feedback it points to.
THEOREM EvidenceBeforeEntry == Spec => []EvidenceOnDisk
<1>1. EvidenceInv => EvidenceOnDisk
  BY DEF EvidenceInv
<1> QED
  BY <1>1, EvidenceAlways, PTL

\* The agent gets at most one verdict per counted candidate, and one more for
\* each crash or failed write between the feedback and the ledger.
THEOREM LeakIsBounded == Spec => []FeedbackLeakBound
<1>1. IInv /\ EvidenceInv => FeedbackLeakBound
  <2> SUFFICES ASSUME IInv, EvidenceInv PROVE FeedbackLeakBound
    OBVIOUS
  <2>1. /\ delivered \in Nat /\ faults \in Nat /\ MaxCandidates \in Nat /\ Len(ledger) \in Nat
        /\ delivered <= Len(ledger) + InHand + faults /\ Len(ledger) <= MaxCandidates
    BY BoundsAssumption DEF IInv, TypeOK, EvidenceInv, LeakRight
  <2>2. InHand \in {0, 1} /\ (InHand = 1 => Len(ledger) < MaxCandidates)
    BY DEF IInv, InHand, JobRight, CountRight, Working
  <2> QED
    BY <2>1, <2>2 DEF FeedbackLeakBound
<1> QED
  BY <1>1, EvidenceAlways, PTL

-----------------------------------------------------------------------------
\* One step never lowers the cost Core has seen.
LEMMA CostStep ==
    ASSUME IInv, [Next]_vars
    PROVE  coreCost' >= coreCost
<1>1. coreCost \in Nat /\ journalCost \in Nat
  BY DEF IInv, TypeOK
<1>2. Synced >= coreCost /\ CostAfterStopReason >= coreCost /\ coreCost >= coreCost
  BY <1>1 DEF Synced, CostAfterStopReason
<1>3. coreCost' \in {coreCost, Synced, CostAfterStopReason}
  <2>1. CASE Start \/ CheckStop \/ BeginDrain \/ EndDrain \/ LimitStopsDrain
    BY <2>1 DEF Start, CheckStop, BeginDrain, EndDrain, LimitStopsDrain, AtItem, coreFiles
  <2>2. CASE LookAtItem
    BY <2>2 DEF LookAtItem, SkipKnown, RejectSubmission, StopBeforeValidation,
                StartValidation, Item, AtItem
  <2>3. CASE StopValidation \/ ReceiveVerdict \/ WriteFeedback \/ SaveCandidate \/ SaveReport
    BY <2>3 DEF StopValidation, ReceiveVerdict, WriteFeedback, SaveCandidate, SaveReport
  <2>4. CASE WriteFailureFeedback \/ Persist \/ PollAgent
    BY <2>4 DEF WriteFailureFeedback, Persist, PollAgent, coreFiles
  <2>5. CASE CloseAttempt \/ Seal \/ WriteResult
    BY <2>5 DEF CloseAttempt, Seal, WriteResult
  <2>6. CASE ChildStep
    BY <2>6 DEF ChildStep, ChildFreezes, ChildReports, ChildFails, ChildDies, coreFiles
  <2>7. CASE EnvironmentStep
    BY <2>7 DEF EnvironmentStep, EditSubmission, ReportUsage, LinkWorkspace, AgentEnds, TimeRunsOut,
                UserStops, coreFiles
  <2>8. CASE Fault
    BY <2>8 DEF Fault, WriteFails, Crash, SealRaises, LoseMemory, coreFiles
  <2>9. CASE UNCHANGED vars
    BY <2>9 DEF vars, coreFiles
  <2> QED
    BY <2>1, <2>2, <2>3, <2>4, <2>5, <2>6, <2>7, <2>8, <2>9 DEF Next, CoreStep
<1> QED
  BY <1>2, <1>3

\* Whatever the agent writes into its usage file, the cost Core has seen stays.
THEOREM CostNeverForgotten == Spec => CostHighWater
<1>1. IInv /\ [Next]_vars => [coreCost' >= coreCost]_vars
  BY CostStep
<1> QED
  BY <1>1, IInvAlways, PTL DEF Spec, CostHighWater

-----------------------------------------------------------------------------
(* The selection.  An entry that passes is the entry of a candidate, one of *)
(* them is always best, and once the attempt is closed no more are added.   *)

JobOfCandidate ==
    /\ job.version # 0 => job.candidate # 0
    /\ job.verdict = "ok" => job.version # 0
    /\ pc = "persist" /\ job.verdict # "ok" => job.gate = "fail"

PassingRight ==
    \A i \in DOMAIN ledger :
        ledger[i].gate = "pass" => ledger[i].status = "feedback" /\ ledger[i].candidate # 0

BestRight == Passing # {} => Best # {}

ResultAfterClose == pc = "result" \/ result.written => closed # "open"

SelectionInv ==
    JobOfCandidate /\ PassingRight /\ BestRight /\ ResultAfterClose /\ SelectedIsUsable

\* The selection's invariant holds before the loop is first started.
LEMMA InitSelection == Init => SelectionInv
BY DEF Init, SelectionInv, JobOfCandidate, PassingRight, BestRight, Passing, ResultAfterClose,
       SelectedIsUsable, NoJob, None

\* A step that adds no entry, closes nothing and writes no result.
LEMMA KeepSelection ==
    ASSUME TypeOK, SelectionInv, JobOfCandidate',
           pc' = "result" => pc = "result",
           saved.candidates \subseteq saved'.candidates, saved.reports \subseteq saved'.reports,
           UNCHANGED <<ledger, closed, result>>
    PROVE  SelectionInv'
<1>1. Entries' = Entries /\ Passing' = Passing /\ Best' = Best
  BY DEF Entries, Passing, Best
<1>2. PassingRight' /\ BestRight' /\ ResultAfterClose'
  BY <1>1 DEF SelectionInv, PassingRight, BestRight, ResultAfterClose
<1>3. SelectedIsUsable'
  BY <1>1 DEF SelectionInv, SelectedIsUsable
<1> QED
  BY <1>2, <1>3 DEF SelectionInv

\* Coverage is a number.
LEMMA CoverageTypes ==
    ASSUME NEW f \in EntryType
    PROVE  f.coverage \in Nat
<1>1. f.coverage \in Coverages \/ f.coverage = 0
  BY DEF EntryType
<1>2. CASE f.coverage \in Coverages
  BY <1>2, CoveragesAssumption
<1>3. CASE f.coverage = 0
  BY <1>3
<1> QED
  BY <1>1, <1>2, <1>3

\* With one more entry the best one is the new one, or the old best.
LEMMA BestOfMore ==
    ASSUME TypeOK, BestRight, NEW e \in EntryType, ledger' = Append(ledger, e)
    PROVE  BestRight'
<1> DEFINE n == Len(ledger) + 1
<1>1. /\ ledger \in Seq(EntryType) /\ n \in Nat
      /\ DOMAIN ledger = 1..(n - 1) /\ DOMAIN ledger' = 1..n
      /\ ledger'[n] = e /\ \A i \in DOMAIN ledger : ledger'[i] = ledger[i]
  BY DEF TypeOK
<1>2. /\ \A i \in DOMAIN ledger' : ledger'[i].coverage \in Nat
      /\ \A i \in DOMAIN ledger : i < n
  <2>1. \A f \in EntryType : f.coverage \in Nat
    BY CoverageTypes
  <2>2. \A i \in DOMAIN ledger : ledger[i] \in EntryType
    BY <1>1
  <2>3. \A i \in DOMAIN ledger' : i = n \/ i \in DOMAIN ledger
    BY <1>1
  <2>4. \A i \in DOMAIN ledger' : ledger'[i] \in EntryType
    BY <1>1, <2>2, <2>3
  <2> QED
    BY <1>1, <2>1, <2>4
<1>3. /\ Passing' \subseteq Passing \cup {n} /\ Passing \subseteq Passing'
      /\ Passing \subseteq DOMAIN ledger
      /\ \A i \in Passing : i \in Nat /\ i < n /\ ledger'[i] = ledger[i]
  BY <1>1 DEF Passing
<1> SUFFICES ASSUME Passing' # {} PROVE Best' # {}
  BY DEF BestRight
<1>4. CASE n \notin Passing'
  <2>1. Passing' = Passing
    BY <1>3, <1>4
  <2>2. PICK i \in Best : TRUE
    BY <2>1 DEF BestRight
  <2>3. i \in Best'
    BY <1>3, <2>1, <2>2 DEF Best
  <2> QED
    BY <2>3
<1>5. CASE n \in Passing' /\ Passing = {}
  <2>1. n \in Best'
    BY <1>1, <1>3, <1>5 DEF Best
  <2> QED
    BY <2>1
<1>6. CASE n \in Passing' /\ Passing # {}
  <2>1. PICK i \in Best : TRUE
    BY <1>6 DEF BestRight
  <2>2. /\ i \in Passing /\ ledger'[i].coverage \in Nat /\ ledger'[n].coverage \in Nat
        /\ \A j \in Passing :
             /\ j \in Nat /\ j < n /\ ledger'[j].coverage \in Nat
             /\ \/ ledger'[j].coverage < ledger'[i].coverage
                \/ ledger'[j].coverage = ledger'[i].coverage /\ j <= i
    BY <1>1, <1>2, <1>3, <2>1 DEF Best
  <2>3. CASE ledger'[n].coverage < ledger'[i].coverage
    <3>1. i \in Best'
      BY <1>3, <2>2, <2>3 DEF Best
    <3> QED
      BY <3>1
  <2>4. CASE ~(ledger'[n].coverage < ledger'[i].coverage)
    <3>1. \A j \in Passing : ledger'[j].coverage <= ledger'[n].coverage /\ j <= n
      <4>1. \A j \in Passing : ledger'[j].coverage <= ledger'[n].coverage
        <5> SUFFICES ASSUME NEW j \in Passing
                     PROVE  ledger'[j].coverage <= ledger'[n].coverage
          OBVIOUS
        <5> DEFINE a == ledger'[j].coverage
                   b == ledger'[i].coverage
                   c == ledger'[n].coverage
        <5>1. a \in Nat /\ b \in Nat /\ c \in Nat /\ (a < b \/ a = b) /\ ~(c < b)
          BY <2>2, <2>4
        <5> HIDE DEF a, b, c
        <5>2. a <= c
          BY <5>1
        <5> QED
          BY <5>2 DEF a, c
      <4>2. \A j \in Passing : j <= n
        BY <1>1, <2>2
      <4> QED
        BY <4>1, <4>2
    <3>2. n \in Best'
      BY <1>1, <1>3, <1>6, <2>2, <3>1 DEF Best
    <3> QED
      BY <3>2
  <2> QED
    BY <2>3, <2>4
<1> QED
  BY <1>4, <1>5, <1>6

\* An entry is added: of a candidate when it passes, and of none after the close.
LEMMA PersistSelection ==
    ASSUME IInv, SelectionInv, Persist
    PROVE  SelectionInv'
<1>1. /\ TypeOK /\ job.sub \in Submissions /\ ledger \in Seq(EntryType) /\ job \in JobType
      /\ pc = "persist" /\ ledger' = Append(ledger, Entry)
  BY DEF Persist, IInv, JobRight, Working, TypeOK
<1>2. Entry \in EntryType
  BY <1>1, EntryTypes
<1>3. /\ \A i \in DOMAIN ledger : i \in DOMAIN ledger' /\ ledger'[i] = ledger[i]
      /\ \A i \in DOMAIN ledger' : i \in DOMAIN ledger \/ ledger'[i] = Entry
  BY <1>1, <1>2
<1>4. pc' \in {"poll", "close", "item"} /\ job' = NoJob /\ UNCHANGED <<saved, closed, result>>
  BY DEF Persist, DrainReturns
<1>5. JobOfCandidate'
  BY <1>4 DEF JobOfCandidate, NoJob, None
<1>6. Entry.gate = "pass" =>
        job.verdict = "ok" /\ Entry.status = "feedback" /\ Entry.candidate # 0
  BY <1>1 DEF Entry, SelectionInv, JobOfCandidate
<1>7. PassingRight'
  BY <1>3, <1>6 DEF SelectionInv, PassingRight
<1>8. BestRight'
  BY <1>1, <1>2, BestOfMore DEF SelectionInv
<1>9. ResultAfterClose'
  BY <1>4 DEF SelectionInv, ResultAfterClose
<1>10. SelectedIsUsable'
  <2> SUFFICES ASSUME result.written PROVE SelectedIsUsable'
    BY <1>4 DEF SelectedIsUsable
  <2>1. Entry.gate # "pass"
    BY <1>1, <1>6 DEF SelectionInv, ResultAfterClose, IInv, OpenRight
  <2>2. Entries \subseteq Entries' /\ Entries' \subseteq Entries \cup {Entry}
    BY <1>3 DEF Entries
  <2> QED
    BY <1>4, <2>1, <2>2 DEF SelectionInv, SelectedIsUsable
<1> QED
  BY <1>5, <1>7, <1>8, <1>9, <1>10 DEF SelectionInv

\* What the loop selects is the best entry that passes, and it is on disk.
LEMMA WriteResultSelection ==
    ASSUME IInv, EvidenceInv, SelectionInv, WriteResult
    PROVE  SelectionInv'
<1>1. /\ result' = [written |-> TRUE, selected |-> Selected] /\ pc' = "done" /\ pc = "result"
      /\ UNCHANGED <<ledger, saved, closed, job>>
  BY DEF WriteResult
<1>2. Entries' = Entries /\ Passing' = Passing /\ Best' = Best
  BY <1>1 DEF Entries, Passing, Best
<1>3. /\ JobOfCandidate' /\ PassingRight' /\ BestRight' /\ ResultAfterClose'
  BY <1>1, <1>2
     DEF SelectionInv, JobOfCandidate, PassingRight, BestRight, ResultAfterClose
<1>4. \A i \in DOMAIN ledger : ledger[i].gate = "pass" => i \in Passing
  BY DEF SelectionInv, PassingRight, Passing
<1>5. CASE Best = {}
  <2>1. \A e \in Entries : e.gate # "pass"
    BY <1>4, <1>5 DEF SelectionInv, BestRight, Entries
  <2> QED
    BY <1>1, <1>2, <1>3, <1>5, <2>1 DEF SelectionInv, SelectedIsUsable, Selected
<1>6. CASE Best # {}
  <2> DEFINE i == CHOOSE j \in Best : TRUE
             e == ledger[i]
  <2>1. /\ i \in Best /\ i \in Passing /\ i \in DOMAIN ledger /\ e \in Entries
        /\ e.status = "feedback" /\ e.gate = "pass"
    BY <1>6 DEF Best, Passing, Entries
  <2>2. Selected = e.candidate
    BY <1>6 DEF Selected
  <2> HIDE DEF i, e
  <2>3. e.candidate # 0 /\ e.candidate \in saved.candidates \cap saved.reports
    <3>1. e = ledger[i]
      BY DEF e
    <3> QED
      BY <2>1, <3>1 DEF SelectionInv, PassingRight, EvidenceInv, EvidenceOnDisk
  <2>4. \A f \in Entries : f.gate = "pass" => f.coverage <= e.coverage
    <3> SUFFICES ASSUME NEW k \in DOMAIN ledger, ledger[k].gate = "pass"
                 PROVE  ledger[k].coverage <= e.coverage
      BY DEF Entries
    <3>1. ledger[k] \in EntryType /\ ledger[i] \in EntryType
      BY <2>1 DEF IInv, TypeOK
    <3>2. ledger[k].coverage \in Nat /\ ledger[i].coverage \in Nat
      BY <3>1, CoverageTypes
    <3>3. \/ ledger[k].coverage < ledger[i].coverage
          \/ ledger[k].coverage = ledger[i].coverage
      BY <1>4, <2>1 DEF Best
    <3> QED
      BY <3>2, <3>3 DEF e
  <2>5. SelectedIsUsable'
    BY <1>1, <1>2, <2>1, <2>2, <2>3, <2>4 DEF SelectedIsUsable
  <2> QED
    BY <1>3, <2>5 DEF SelectionInv
<1> QED
  BY <1>5, <1>6

\* Work that has just begun has no candidate and no verdict.
LEMMA NewWork ==
    /\ NoJob.version = 0 /\ NoJob.verdict # "ok" /\ NoJob.gate = "fail"
    /\ \A s, d : /\ Work(s, d).version = 0 /\ Work(s, d).verdict # "ok"
                 /\ Work(s, d).gate = "fail"
BY DEF NoJob, Work, None

\* A step of the child, or the loop's before the writes of an evaluation.
LEMMA JobStep ==
    ASSUME IInv, SelectionInv,
           \/ ChildStep
           \/ LookAtItem
           \/ BeginDrain \/ EndDrain \/ LimitStopsDrain
           \/ WriteFails \/ Crash \/ SealRaises \/ WriteFailureFeedback
    PROVE  SelectionInv'
<1>1. TypeOK /\ job \in JobType
  BY DEF IInv, TypeOK
<1>2. CASE ChildStep
  <2>1. JobOfCandidate'
    <3>1. CASE ChildFreezes
      <4>1. /\ pc' = "validating" /\ job'.verdict # "ok"
            /\ job'.version # 0 => job'.candidate = frozen + 1
        BY <1>1, <3>1 DEF ChildFreezes, JobType, None
      <4>2. frozen + 1 # 0
        BY <1>1 DEF TypeOK
      <4> QED
        BY <4>1, <4>2 DEF JobOfCandidate
    <3>2. CASE ChildFails \/ ChildDies
      BY <1>1, <3>2
         DEF ChildFails, ChildDies, SelectionInv, JobOfCandidate, JobType, None
    <3>3. ASSUME NEW gate \in {"pass", "fail"}, NEW coverage \in Coverages,
                 ChildReports(gate, coverage)
          PROVE  JobOfCandidate'
      BY <1>1, <3>3 DEF ChildReports, SelectionInv, JobOfCandidate, JobType
    <3> QED
      BY <1>2, <3>1, <3>2, <3>3 DEF ChildStep
  <2>2. pc' # "result" /\ UNCHANGED <<ledger, closed, result, saved>>
    BY <1>2 DEF ChildStep, ChildFreezes, ChildReports, ChildFails, ChildDies, coreFiles
  <2> QED
    BY <1>1, <2>1, <2>2, KeepSelection
<1>3. CASE LookAtItem \/ BeginDrain \/ EndDrain \/ LimitStopsDrain
  <2>1. /\ pc' \notin {"result", "persist"} /\ UNCHANGED <<ledger, closed, result, saved>>
        /\ job' \in {job, NoJob} \/ \E s, d : job' = Work(s, d)
    <3>1. CASE BeginDrain \/ EndDrain \/ LimitStopsDrain
      BY <3>1 DEF BeginDrain, EndDrain, LimitStopsDrain, AtItem, DrainReturns, coreFiles
    <3>2. ASSUME NEW s \in Submissions, NEW d \in Versions \cup {NoDigest},
                 \/ SkipKnown(s, d) \/ StopBeforeValidation(s, d)
                 \/ RejectSubmission(s, d) \/ StartValidation(s, d)
          PROVE  /\ pc' \notin {"result", "persist"}
                 /\ UNCHANGED <<ledger, closed, result, saved>>
                 /\ job' \in {job, NoJob} \/ job' = Work(s, d)
      BY <3>2 DEF SkipKnown, StopBeforeValidation, RejectSubmission, StartValidation, Item,
                  AtItem, DrainReturns
    <3> QED
      BY <1>3, <3>1, <3>2 DEF LookAtItem
  <2>2. JobOfCandidate'
    BY <2>1, NewWork DEF SelectionInv, JobOfCandidate
  <2> QED
    BY <1>1, <2>1, <2>2, KeepSelection
<1>4. CASE WriteFails \/ Crash \/ SealRaises \/ WriteFailureFeedback
  <2>1. JobOfCandidate'
    <3>1. CASE WriteFails
      BY <1>1, <3>1 DEF WriteFails, SelectionInv, JobOfCandidate, JobType
    <3>2. CASE Crash \/ SealRaises \/ WriteFailureFeedback
      BY <3>2, NewWork DEF Crash, SealRaises, LoseMemory, WriteFailureFeedback, JobOfCandidate
    <3> QED
      BY <1>4, <3>1, <3>2
  <2>2. pc' # "result" /\ UNCHANGED <<ledger, closed, result, saved>>
    BY <1>4 DEF WriteFails, Crash, SealRaises, LoseMemory, WriteFailureFeedback, coreFiles
  <2> QED
    BY <1>1, <2>1, <2>2, KeepSelection
<1> QED
  BY <1>2, <1>3, <1>4

\* The selection's invariant is inductive, over the other two.
LEMMA SelectionStep == IInv /\ EvidenceInv /\ SelectionInv /\ [Next]_vars => SelectionInv'
<1> SUFFICES ASSUME IInv, EvidenceInv, SelectionInv, [Next]_vars PROVE SelectionInv'
  OBVIOUS
<1>1. TypeOK
  BY DEF IInv
<1>2. CASE Start \/ CheckStop \/ PollAgent \/ CloseAttempt
  <2>1. /\ pc' \notin {"result", "persist"} /\ UNCHANGED <<ledger, closed, result, saved, job>>
    BY <1>2 DEF Start, CheckStop, PollAgent, CloseAttempt, coreFiles
  <2>2. JobOfCandidate'
    BY <2>1 DEF SelectionInv, JobOfCandidate
  <2> QED
    BY <1>1, <2>1, <2>2, KeepSelection
<1>3. CASE StopValidation \/ ReceiveVerdict \/ WriteFeedback
  <2>1. /\ pc' \notin {"result", "persist"} /\ UNCHANGED <<ledger, closed, result, saved, job>>
    BY <1>3 DEF StopValidation, ReceiveVerdict, WriteFeedback
  <2>2. JobOfCandidate'
    BY <2>1 DEF SelectionInv, JobOfCandidate
  <2> QED
    BY <1>1, <2>1, <2>2, KeepSelection
<1>4. CASE SaveCandidate \/ SaveReport
  <2>1. /\ pc \in Writing /\ pc' # "result" /\ UNCHANGED <<ledger, closed, result, job>>
        /\ saved.candidates \subseteq saved'.candidates
        /\ saved.reports \subseteq saved'.reports
    BY <1>1, <1>4 DEF SaveCandidate, SaveReport, TypeOK, Writing
  <2>2. JobOfCandidate'
    BY <2>1 DEF SelectionInv, JobOfCandidate, EvidenceInv, VerdictRight
  <2> QED
    BY <1>1, <2>1, <2>2, KeepSelection
<1>5. CASE Seal
  <2>1. /\ stop \in CloseReasons /\ closed' = stop /\ pc' = "result"
        /\ UNCHANGED <<ledger, result, saved, job>>
    BY <1>5 DEF Seal, IInv, TypeOK, StopRight
  <2>2. closed' # "open"
    BY <2>1 DEF CloseReasons, StopReasons
  <2>3. Entries' = Entries /\ Passing' = Passing /\ Best' = Best
    BY <2>1 DEF Entries, Passing, Best
  <2>4. JobOfCandidate' /\ PassingRight' /\ BestRight' /\ ResultAfterClose'
    BY <2>1, <2>2, <2>3
       DEF SelectionInv, JobOfCandidate, PassingRight, BestRight, ResultAfterClose
  <2>5. SelectedIsUsable'
    BY <2>1, <2>3 DEF SelectionInv, SelectedIsUsable
  <2> QED
    BY <2>4, <2>5 DEF SelectionInv
<1>6. CASE EnvironmentStep \/ UNCHANGED vars
  <2>1. UNCHANGED <<coreFiles, loopVars>>
    BY <1>6 DEF EnvironmentStep, EditSubmission, ReportUsage, LinkWorkspace, AgentEnds,
                TimeRunsOut, UserStops,
                vars
  <2>2. JobOfCandidate'
    BY <2>1 DEF loopVars, SelectionInv, JobOfCandidate
  <2> QED
    BY <1>1, <2>1, <2>2, KeepSelection DEF coreFiles, loopVars
<1>7. CASE Persist
  BY <1>7, PersistSelection
<1>8. CASE WriteResult
  BY <1>8, WriteResultSelection
<1> QED
  BY <1>2, <1>3, <1>4, <1>5, <1>6, <1>7, <1>8, JobStep DEF Next, CoreStep, Fault

\* A result on disk names a passing candidate that none beats and that can be
\* loaded, also when the loop is resumed over a result that is there.
THEOREM SelectionIsUsable == Spec => []SelectedIsUsable
<1>1. Init => SelectionInv
  BY InitSelection
<1>2. (IInv /\ EvidenceInv) /\ SelectionInv /\ [Next]_vars => SelectionInv'
  BY SelectionStep
<1>3. SelectionInv => SelectedIsUsable
  BY DEF SelectionInv
<1> QED
  BY <1>1, <1>2, <1>3, EvidenceAlways, PTL DEF Spec

-----------------------------------------------------------------------------
(* Evaluating once. *)

\* The agent leaves a submission alone from Core's digest of it to its freeze.
LeftAlone == pc = "validating" /\ job.version = 0 => content'[job.sub] = content[job.sub]

\* Then what is evaluated is what was digested, and no digest is taken twice.
OnceInv ==
    /\ pc \in Working /\ job.version # 0 => job.version = job.digest
    /\ pc = "validating" /\ job.version = 0 => Digest(content[job.sub]) = job.digest
    /\ pc \in Working /\ job.verdict = "ok" => job.version # 0
    /\ \A i \in DOMAIN ledger :
          ledger[i].status = "feedback" => ledger[i].version = ledger[i].digest
    /\ \A i, j \in DOMAIN ledger :
          ledger[i].sub = ledger[j].sub /\ ledger[i].digest = ledger[j].digest => i = j

\* A step that adds no entry.
LEMMA KeepOnce ==
    ASSUME OnceInv, ledger' = ledger,
           \/ pc' \notin Working
           \/ /\ pc \in Working /\ pc' \in Working
              /\ job'.version # 0 => job'.version = job'.digest
              /\ pc' = "validating" /\ job'.version = 0 => Digest(content'[job'.sub]) = job'.digest
              /\ job'.verdict = "ok" => job'.version # 0
    PROVE  OnceInv'
<1>1. pc' = "validating" => pc' \in Working
  BY DEF Working
<1> QED
  BY <1>1 DEF OnceInv, Digest

\* A new piece of work, digested just now.
LEMMA NewWorkOnce ==
    ASSUME OnceInv, ledger' = ledger, NEW s, NEW d, job' = Work(s, d), d = Digest(content'[s])
    PROVE  OnceInv'
<1>1. job'.version = 0 /\ job'.verdict # "ok" /\ job'.sub = s /\ job'.digest = d
  BY DEF Work, NoJob, None
<1> QED
  BY <1>1 DEF OnceInv, Digest

\* The entry of the work in hand is a new one.
LEMMA PersistOnce ==
    ASSUME IInv, OnceInv, Persist
    PROVE  OnceInv'
<1>1. /\ pc = "persist" /\ pc' \notin Working
      /\ ledger \in Seq(EntryType) /\ ledger' = Append(ledger, Entry)
      /\ ~Known(job.sub, job.digest)
  BY DEF Persist, DrainReturns, IInv, TypeOK, JobRight, Working
<1>2. /\ Entry.sub = job.sub /\ Entry.digest = job.digest
      /\ Entry.status = "feedback" => Entry.version = Entry.digest
  BY <1>1 DEF Entry, OnceInv, Working
<1>3. /\ DOMAIN ledger = 1 .. Len(ledger) /\ DOMAIN ledger' = 1 .. Len(ledger) + 1
      /\ Len(ledger) \in Nat
      /\ \A i \in DOMAIN ledger : ledger'[i] = ledger[i]
      /\ ledger'[Len(ledger) + 1] = Entry
  BY <1>1
<1>4. \A i \in DOMAIN ledger' : i \in DOMAIN ledger \/ i = Len(ledger) + 1
  BY <1>3
<1>5. \A i \in DOMAIN ledger : ~(ledger[i].sub = Entry.sub /\ ledger[i].digest = Entry.digest)
  BY <1>1, <1>2 DEF Known, Entries
<1> HIDE DEF Entry
<1>6. \A i \in DOMAIN ledger' :
        ledger'[i].status = "feedback" => ledger'[i].version = ledger'[i].digest
  BY <1>2, <1>3, <1>4 DEF OnceInv
<1>7. ASSUME NEW i \in DOMAIN ledger', NEW j \in DOMAIN ledger',
             ledger'[i].sub = ledger'[j].sub, ledger'[i].digest = ledger'[j].digest
      PROVE  i = j
  <2>1. CASE i \in DOMAIN ledger /\ j \in DOMAIN ledger
    BY <1>3, <1>7, <2>1 DEF OnceInv
  <2>2. CASE i \in DOMAIN ledger /\ j = Len(ledger) + 1
    BY <1>3, <1>5, <1>7, <2>2
  <2>3. CASE i = Len(ledger) + 1 /\ j \in DOMAIN ledger
    BY <1>3, <1>5, <1>7, <2>3
  <2> QED
    BY <1>4, <2>1, <2>2, <2>3
<1>8. pc' # "validating"
  BY <1>1 DEF Working
<1> QED
  BY <1>1, <1>6, <1>7, <1>8 DEF OnceInv

\* A step of the child: it freezes what was digested.
LEMMA ChildOnce ==
    ASSUME IInv, OnceInv, ChildStep
    PROVE  OnceInv'
<1>1. /\ ledger' = ledger /\ content' = content /\ pc = "validating" /\ pc \in Working
      /\ job \in JobType /\ pc' \in {"validating", "failure"} /\ pc' \in Working
  BY DEF ChildStep, ChildFreezes, ChildReports, ChildFails, ChildDies, coreFiles, agentFiles,
         Working, IInv, TypeOK
<1>2. /\ job.version # 0 => job.version = job.digest
      /\ job.version = 0 => Digest(content[job.sub]) = job.digest
      /\ job.verdict = "ok" => job.version # 0
  BY <1>1 DEF OnceInv
<1>3. CASE ChildFreezes
  <2>1. job' = [job EXCEPT !.verdict = "error"]
          \/ (content[job.sub] \notin Unreadable
                /\ \E c : job' = [job EXCEPT !.version = content[job.sub], !.candidate = c])
    BY <1>3 DEF ChildFreezes
  <2>2. job.version = 0 /\ job.verdict = None
    BY <1>3 DEF ChildFreezes
  <2>3. CASE job' = [job EXCEPT !.verdict = "error"]
    <3>1. job'.version = 0 /\ job'.verdict # "ok" /\ job'.sub = job.sub /\ job'.digest = job.digest
      BY <1>1, <2>2, <2>3 DEF JobType
    <3> QED
      BY <1>1, <1>2, <2>2, <3>1, KeepOnce
  <2>4. CASE content[job.sub] \notin Unreadable
               /\ \E c : job' = [job EXCEPT !.version = content[job.sub], !.candidate = c]
    <3>1. /\ job'.version = content[job.sub] /\ job'.verdict = None
          /\ job'.sub = job.sub /\ job'.digest = job.digest
      BY <1>1, <2>2, <2>4 DEF JobType
    <3>2. content[job.sub] = job.digest
      BY <1>2, <2>2, <2>4 DEF Digest
    <3> QED
      BY <1>1, <1>2, <2>2, <3>1, <3>2, KeepOnce DEF None
  <2> QED
    BY <2>1, <2>3, <2>4
<1>4. CASE \/ ChildFails \/ ChildDies
           \/ \E g \in {"pass", "fail"}, c \in Coverages : ChildReports(g, c)
  <2>1. /\ job'.version = job.version /\ job'.sub = job.sub /\ job'.digest = job.digest
        /\ job'.verdict = "ok" => job.version # 0
    BY <1>1, <1>2, <1>4 DEF ChildFails, ChildDies, ChildReports, JobType
  <2> QED
    BY <1>1, <1>2, <2>1, KeepOnce
<1> QED
  BY <1>3, <1>4 DEF ChildStep

\* One step keeps it, if the agent leaves the submission alone.
LEMMA OnceStep == IInv /\ OnceInv /\ [Next]_vars /\ [LeftAlone]_vars => OnceInv'
<1> SUFFICES ASSUME IInv, OnceInv, [Next]_vars, [LeftAlone]_vars PROVE OnceInv'
  OBVIOUS
<1>1. CASE Start \/ CheckStop \/ BeginDrain \/ EndDrain \/ LimitStopsDrain \/ PollAgent
  <2>1. ledger' = ledger /\ pc' \notin Working
    BY <1>1 DEF Start, CheckStop, BeginDrain, EndDrain, LimitStopsDrain, AtItem, PollAgent,
                DrainReturns, coreFiles, Working
  <2> QED
    BY <2>1, KeepOnce
<1>2. CASE CloseAttempt \/ Seal \/ WriteResult \/ Crash \/ SealRaises
  <2>1. ledger' = ledger /\ pc' \notin Working
    BY <1>2 DEF CloseAttempt, Seal, WriteResult, Crash, SealRaises, LoseMemory, coreFiles, Working
  <2> QED
    BY <2>1, KeepOnce
<1>3. CASE LookAtItem
  <2>1. PICK s \in Submissions, d \in Versions \cup {NoDigest} :
          \/ SkipKnown(s, d) \/ RejectSubmission(s, d)
          \/ StopBeforeValidation(s, d) \/ StartValidation(s, d)
    BY <1>3 DEF LookAtItem
  <2>2. Item(s, d)
    BY <2>1 DEF SkipKnown, RejectSubmission, StopBeforeValidation, StartValidation
  <2>3. ledger' = ledger /\ content' = content /\ pc = "item" /\ d = Digest(content[s])
    BY <2>2 DEF Item, AtItem, agentFiles
  <2>4. CASE SkipKnown(s, d) \/ StopBeforeValidation(s, d)
    <3>1. pc' \notin Working
      BY <2>3, <2>4 DEF SkipKnown, StopBeforeValidation, DrainReturns, Working
    <3> QED
      BY <2>3, <3>1, KeepOnce
  <2>5. CASE RejectSubmission(s, d) \/ StartValidation(s, d)
    <3>1. job' = Work(s, d)
      BY <2>5 DEF RejectSubmission, StartValidation
    <3> QED
      BY <2>3, <3>1, NewWorkOnce
  <2> QED
    BY <2>1, <2>4, <2>5
<1>4. CASE StopValidation \/ ReceiveVerdict \/ WriteFeedback \/ SaveCandidate \/ SaveReport
  <2>1. /\ ledger' = ledger /\ job' = job /\ pc \in Working /\ pc' \in Working
        /\ pc' # "validating"
    BY <1>4 DEF StopValidation, ReceiveVerdict, WriteFeedback, SaveCandidate, SaveReport, Working
  <2> QED
    BY <2>1, KeepOnce DEF OnceInv
<1>5. CASE WriteFailureFeedback \/ WriteFails
  <2>1. /\ ledger' = ledger /\ pc \in Working /\ pc' \in Working /\ pc' # "validating"
        /\ job' = Work(job.sub, job.digest) \/ job' = [job EXCEPT !.verdict = "error"]
    BY <1>5 DEF WriteFailureFeedback, WriteFails, coreFiles, Working
  <2>2. /\ job'.version # 0 => job'.version = job.version /\ job'.digest = job.digest
        /\ job'.verdict # "ok"
    BY <2>1 DEF Work, NoJob, None, IInv, TypeOK, JobType
  <2> QED
    BY <2>1, <2>2, KeepOnce DEF OnceInv
<1>6. CASE Persist
  BY <1>6, PersistOnce
<1>7. CASE ChildStep
  BY <1>7, ChildOnce
<1>8. CASE EnvironmentStep \/ UNCHANGED vars
  <2>1. /\ UNCHANGED <<ledger, pc, job>>
        /\ content' = content \/ vars' # vars
    BY <1>8 DEF EnvironmentStep, EditSubmission, ReportUsage, LinkWorkspace, AgentEnds,
                TimeRunsOut, UserStops,
                vars, coreFiles, loopVars, agentFiles
  <2>2. pc = "validating" /\ job.version = 0 => content'[job.sub] = content[job.sub]
    BY <2>1 DEF LeftAlone
  <2> QED
    BY <2>1, <2>2 DEF OnceInv, Digest
<1> QED
  BY <1>1, <1>2, <1>3, <1>4, <1>5, <1>6, <1>7, <1>8 DEF Next, CoreStep, Fault

\* Each content of a submission is evaluated at most once (EvaluatedAtMostOnce)
\* as long as the agent does not write a submission between the digest and the
\* freeze of it, whatever fails and however often Core dies: what the run
\* compile_dedup finds needs that edit, and nothing else does.
THEOREM OnceUnlessEdited == Spec /\ [][LeftAlone]_vars => []EvaluatedAtMostOnce
<1>1. Init => OnceInv
  BY DEF Init, OnceInv, Working
<1>2. IInv /\ OnceInv /\ [Next]_vars /\ [LeftAlone]_vars => OnceInv'
  BY OnceStep
<1>3. OnceInv => EvaluatedAtMostOnce
  BY DEF OnceInv, EvaluatedAtMostOnce
<1> QED
  BY <1>1, <1>2, <1>3, IInvAlways, PTL DEF Spec

=============================================================================
