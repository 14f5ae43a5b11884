----------------------- MODULE InteractiveCompile_proofs -----------------------
(***************************************************************************)
(* Proofs about the interactive compile loop: its types, that it           *)
(* implements CompilePromise, and that it only comes nearer its end once   *)
(* the time has run out; for any set of submissions and contents and any   *)
(* budget, number of crashes and failed writes.                            *)
(***************************************************************************)
EXTENDS InteractiveCompile, SequenceTheorems, FiniteSetTheorems, WellFoundedInduction, TLAPS

-----------------------------------------------------------------------------
(* The inductive invariant. *)

\* The loop's counter and the ledger agree while Core runs.
CountRight == pc # "off" => evaluated = Len(ledger)

\* The submission in hand is a new one, and there is budget left for it.
Working == {"validating", "feedback", "candidate", "report", "failure", "persist"}
JobRight ==
    pc \in Working =>
        /\ job.sub \in Submissions
        /\ ~Known(job.sub, job.digest)
        /\ evaluated < MaxCandidates

\* What is on its way to an entry with feedback was received before the close.
OpenRight ==
    /\ pc \in {"validating", "feedback", "candidate", "report"} => closed = "open"
    /\ pc = "persist" /\ job.verdict = "ok" => closed = "open"

\* The attempt is closed for a reason.
StopRight == pc \in {"close", "seal"} => stop # None

IInv == TypeOK /\ CountRight /\ JobRight /\ OpenRight /\ StopRight

-----------------------------------------------------------------------------
(* Lemmas about the operators the actions are built from. *)

\* A stop or limit reason is a reason, and a synchronised cost is a cost.
LEMMA ReasonTypes ==
    ASSUME TypeOK, NEW n \in Nat
    PROVE  /\ StopReason \in CloseReasons \cup {None}
           /\ LimitReason(n) \in CloseReasons \cup {None}
           /\ LimitReason(n) = None => n < MaxCandidates
           /\ Synced \in Nat /\ CostAfterStopReason \in Nat
BY BoundsAssumption
   DEF TypeOK, StopReason, LimitReason, CloseReasons, StopReasons, None, Synced,
       CostAfterStopReason

\* Polling, stopping, losing or ending the agent keeps the session's types.
LEMMA SessionTypes ==
    ASSUME SessionTypeOK,
           NEW reason,
           \/ Stop(reason) \/ Poll \/ AgentExits \/ ForgetProcess
           \/ UNCHANGED sessionVars
    PROVE  SessionTypeOK'
BY DEF SessionTypeOK, Stop, StopOwnChild, StopRecorded, Poll, PollOwnChild, PollRecorded,
       AgentExits, ForgetProcess, sessionVars, KillGroup, LeaderStates, RecordStates,
       Terminal, ExitStatus, StoppedStatus

\* What a drain has still to look at are submissions.
LEMMA NextSubmissionIn ==
    ASSUME TypeOK, queue # {}
    PROVE  queue \subseteq Submissions
BY DEF TypeOK

\* The return of a drain keeps the types of what it sets.
LEMMA DrainReturnsTypes ==
    ASSUME TypeOK, NEW reason \in CloseReasons \cup {None}, DrainReturns(reason)
    PROVE  /\ queue' \in SUBSET Submissions
           /\ job' \in JobType
           /\ stop' \in CloseReasons \cup {None}
           /\ pc' \in {"poll", "close"}
BY DEF DrainReturns, TypeOK, JobType, NoJob, NoDigest, None

\* What is entered in the ledger for a submission is a ledger entry.
LEMMA EntryTypes ==
    ASSUME TypeOK, job.sub \in Submissions
    PROVE  Entry \in EntryType
BY DEF TypeOK, Entry, EntryType, JobType

\* Every agent status is closed with a reason.
LEMMA CloseReasonTypes ==
    ASSUME NEW status
    PROVE  CloseReasonFor(status) \in CloseReasons
BY DEF CloseReasonFor, CloseReasons, StopReasons

\* The selected candidate is a candidate number, 0 when there is none.
LEMMA SelectedType ==
    ASSUME TypeOK
    PROVE  Selected \in Nat
<1>1. CASE Best = {}
  BY <1>1 DEF Selected
<1>2. CASE Best # {}
  <2> DEFINE i == CHOOSE j \in Best : TRUE
  <2>1. i \in DOMAIN ledger
    BY <1>2 DEF Best, Passing
  <2>2. ledger[i] \in EntryType
    BY <2>1 DEF TypeOK
  <2> QED
    BY <1>2, <2>2 DEF Selected, EntryType
<1> QED
  BY <1>1, <1>2

-----------------------------------------------------------------------------
\* The invariant holds before the loop is first started.
LEMMA InitIInv == Init => IInv
<1> SUFFICES ASSUME Init PROVE IInv
  OBVIOUS
<1>1. TypeOK
  <2>1. SessionTypeOK /\ handle \in RecordStates
    BY DEF Init, SessionInit, SessionTypeOK, LeaderStates, RecordStates, Terminal
  <2>2. job \in JobType
    BY DEF Init, NoJob, JobType, NoDigest, None
  <2>3. /\ content \in [Submissions -> Versions \cup {0}]
        /\ feedback \in [Submissions -> {None, "metrics", "failed"}]
        /\ ledger \in Seq(EntryType)
        /\ saved \in [candidates : SUBSET Nat, reports : SUBSET Nat]
        /\ result \in [written : BOOLEAN, selected : Nat]
    BY DEF Init
  <2> QED
    BY <2>1, <2>2, <2>3 DEF Init, TypeOK
<1>2. CountRight /\ JobRight /\ OpenRight /\ StopRight
  BY DEF Init, CountRight, JobRight, OpenRight, StopRight, Working
<1> QED
  BY <1>1, <1>2 DEF IInv

-----------------------------------------------------------------------------
(* One step keeps the types. *)

\* The variables whose types are plain sets, for the actions that set them to
\* values the lemmas above have typed.
LEMMA TypeStep == IInv /\ [Next]_vars => TypeOK'
<1> SUFFICES ASSUME IInv, [Next]_vars PROVE TypeOK'
  OBVIOUS
<1> USE DEF IInv
<1>1. Len(ledger) \in Nat /\ evaluated \in Nat /\ evaluated + 1 \in Nat
  BY DEF TypeOK
<1>2. /\ StopReason \in CloseReasons \cup {None}
      /\ Synced \in Nat /\ CostAfterStopReason \in Nat
      /\ LimitReason(Len(ledger)) \in CloseReasons \cup {None}
      /\ LimitReason(evaluated) \in CloseReasons \cup {None}
      /\ LimitReason(evaluated + 1) \in CloseReasons \cup {None}
  BY <1>1, ReasonTypes
<1>3. pc \in Working => job.sub \in Submissions
  BY DEF JobRight
<1>4. CASE Start
  BY <1>1, <1>2, <1>4 DEF Start, TypeOK, SessionTypeOK, sessionVars, agentFiles, history
<1>5. CASE CheckStop
  BY <1>2, <1>5 DEF CheckStop, TypeOK, SessionTypeOK, sessionVars, agentFiles, history
<1>6. CASE BeginDrain
  <2>1. CASE LimitReason(evaluated) # None
    <3>1. DrainReturns(LimitReason(evaluated))
      BY <1>6, <2>1 DEF BeginDrain
    <3> QED
      BY <1>2, <1>6, <3>1, DrainReturnsTypes
         DEF BeginDrain, TypeOK, SessionTypeOK, sessionVars, agentFiles, history
  <2>2. CASE LimitReason(evaluated) = None
    BY <1>2, <1>6, <2>2
       DEF BeginDrain, TypeOK, SessionTypeOK, sessionVars, agentFiles, history
  <2> QED
    BY <2>1, <2>2
<1>7. CASE EndDrain
  <2>1. DrainReturns(None)
    BY <1>7 DEF EndDrain
  <2> QED
    BY <1>7, <2>1, DrainReturnsTypes
       DEF EndDrain, TypeOK, SessionTypeOK, sessionVars, agentFiles, coreFiles, history
<1>8. CASE LimitStopsDrain
  <2>1. DrainReturns(LimitReason(evaluated))
    BY <1>8 DEF LimitStopsDrain
  <2> QED
    BY <1>2, <1>8, <2>1, DrainReturnsTypes
       DEF LimitStopsDrain, AtItem, TypeOK, SessionTypeOK, sessionVars, agentFiles, history
<1>9. ASSUME NEW s \in Submissions, NEW d \in Versions \cup {NoDigest}
      PROVE  /\ SkipKnown(s, d) \/ RejectSubmission(s, d) \/ StartValidation(s, d) => TypeOK'
             /\ StopBeforeValidation(s, d) => TypeOK'
  <2>1. Work(s, d) \in JobType
    BY <1>9 DEF Work, NoJob, JobType, None
  <2>2. CASE SkipKnown(s, d)
    BY <1>2, <2>2
       DEF SkipKnown, Item, AtItem, TypeOK, SessionTypeOK, sessionVars, agentFiles, history
  <2>3. CASE RejectSubmission(s, d)
    BY <1>2, <2>1, <2>3
       DEF RejectSubmission, Item, AtItem, TypeOK, SessionTypeOK, sessionVars, agentFiles,
           history
  <2>4. CASE StartValidation(s, d)
    BY <1>2, <2>1, <2>4
       DEF StartValidation, Item, AtItem, TypeOK, SessionTypeOK, sessionVars, agentFiles,
           history
  <2>5. CASE StopBeforeValidation(s, d)
    <3>1. DrainReturns(StopReason)
      BY <2>5 DEF StopBeforeValidation
    <3> QED
      BY <1>2, <2>5, <3>1, DrainReturnsTypes
         DEF StopBeforeValidation, Item, AtItem, TypeOK, SessionTypeOK, sessionVars,
             agentFiles, history
  <2> QED
    BY <2>2, <2>3, <2>4, <2>5
<1>10. CASE StopValidation
  <2>1. SessionTypeOK' /\ handle' \in RecordStates
    BY <1>10, SessionTypes DEF StopValidation, StopRunningAgent, TypeOK, SessionTypeOK
  <2>2. pending' \in CloseReasons \cup {None}
    BY <1>2, <1>10 DEF StopValidation, StopRunningAgent, TypeOK
  <2> QED
    BY <1>2, <1>10, <2>1, <2>2 DEF StopValidation, TypeOK, agentFiles, history
<1>11. CASE ReceiveVerdict
  BY <1>2, <1>11 DEF ReceiveVerdict, TypeOK, SessionTypeOK, sessionVars, agentFiles, history
<1>12. CASE WriteFeedback
  BY <1>3, <1>12
     DEF WriteFeedback, Working, TypeOK, SessionTypeOK, sessionVars, agentFiles
<1>13. CASE SaveCandidate
  <2>1. saved' \in [candidates : SUBSET Nat, reports : SUBSET Nat]
    BY <1>13 DEF SaveCandidate, TypeOK, JobType
  <2> QED
    BY <1>13, <2>1
       DEF SaveCandidate, TypeOK, SessionTypeOK, sessionVars, agentFiles, history
<1>14. CASE SaveReport
  <2>1. saved' \in [candidates : SUBSET Nat, reports : SUBSET Nat]
    BY <1>14 DEF SaveReport, TypeOK, JobType
  <2> QED
    BY <1>14, <2>1
       DEF SaveReport, TypeOK, SessionTypeOK, sessionVars, agentFiles, history
<1>15. CASE WriteFailureFeedback
  <2>1. job' \in JobType
    BY <1>15 DEF WriteFailureFeedback, TypeOK, Work, NoJob, JobType, None
  <2>2. feedback' \in [Submissions -> {None, "metrics", "failed"}]
    BY <1>15 DEF WriteFailureFeedback, TypeOK
  <2> QED
    BY <1>15, <2>1, <2>2
       DEF WriteFailureFeedback, TypeOK, SessionTypeOK, sessionVars, agentFiles, history
<1>16. CASE Persist
  <2>1. Entry \in EntryType
    BY <1>3, <1>16, EntryTypes DEF Persist, Working
  <2>2. ledger' \in Seq(EntryType)
    BY <1>16, <2>1 DEF Persist, TypeOK
  <2>3. NoJob \in JobType
    BY DEF NoJob, JobType, NoDigest, None
  <2>4. /\ queue' \in SUBSET Submissions /\ job' \in JobType
        /\ stop' \in CloseReasons \cup {None} /\ pc' \in {"poll", "close", "item"}
        /\ coreCost' \in Nat
    <3>1. CASE pending # None
      BY <1>16, <3>1, DrainReturnsTypes DEF Persist, TypeOK
    <3>2. CASE pending = None /\ LimitReason(evaluated + 1) # None
      BY <1>2, <1>16, <3>2, DrainReturnsTypes DEF Persist
    <3>3. CASE pending = None /\ LimitReason(evaluated + 1) = None
      BY <1>2, <1>16, <2>3, <3>3 DEF Persist, TypeOK
    <3> QED
      BY <3>1, <3>2, <3>3
  <2> QED
    BY <1>1, <1>16, <2>2, <2>4
       DEF Persist, TypeOK, SessionTypeOK, sessionVars, agentFiles, history
<1>17. CASE PollAgent
  <2>1. SessionTypeOK' /\ handle' \in RecordStates
    BY <1>17, SessionTypes DEF PollAgent, TypeOK, SessionTypeOK
  <2>2. final' \in CloseReasons \cup {None} /\ pc' \in {"drain", "top"}
    BY <1>17, CloseReasonTypes DEF PollAgent, TypeOK
  <2> QED
    BY <1>17, <2>1, <2>2 DEF PollAgent, TypeOK, agentFiles, coreFiles, history
<1>18. CASE CloseAttempt
  <2>1. SessionTypeOK'
    BY <1>18, SessionTypes DEF CloseAttempt, TypeOK
  <2> QED
    BY <1>2, <1>18, <2>1 DEF CloseAttempt, TypeOK, agentFiles, history
<1>19. CASE Seal
  BY <1>19
     DEF Seal, StopRight, TypeOK, SessionTypeOK, sessionVars, agentFiles, history
<1>20. CASE WriteResult
  <2>1. Selected \in Nat
    BY SelectedType
  <2> QED
    BY <1>20, <2>1
       DEF WriteResult, TypeOK, SessionTypeOK, sessionVars, agentFiles, history
<1>21. CASE ChildFreezes
  <2>1. content[job.sub] \in Versions \cup {0} /\ frozen + 1 \in Nat
    BY <1>3, <1>21 DEF ChildFreezes, Working, TypeOK
  <2>2. job \in JobType /\ frozen \in Nat
    BY DEF TypeOK
  <2>3. CASE content[job.sub] \in Unreadable
    <3>1. job' = [job EXCEPT !.verdict = "error"] /\ frozen' = frozen
      BY <1>21, <2>3 DEF ChildFreezes
    <3>2. job' \in JobType /\ frozen' \in Nat
      BY <2>2, <3>1 DEF JobType
    <3> QED
      BY <1>21, <3>2
         DEF ChildFreezes, TypeOK, SessionTypeOK, sessionVars, agentFiles, coreFiles
  <2>4. CASE content[job.sub] \notin Unreadable
    <3>1. /\ frozen' = frozen + 1
          /\ job' = [job EXCEPT !.version = content[job.sub], !.candidate = frozen']
      BY <1>21, <2>4 DEF ChildFreezes
    <3>2. job' \in JobType /\ frozen' \in Nat
      BY <2>1, <2>2, <3>1 DEF JobType
    <3> QED
      BY <1>21, <3>2
         DEF ChildFreezes, TypeOK, SessionTypeOK, sessionVars, agentFiles, coreFiles
  <2> QED
    BY <2>3, <2>4
<1>22. ASSUME NEW gate \in {"pass", "fail"}, NEW coverage \in Coverages,
              ChildReports(gate, coverage)
       PROVE  TypeOK'
  <2>1. job' \in JobType
    BY <1>22 DEF ChildReports, TypeOK, JobType
  <2> QED
    BY <1>22, <2>1
       DEF ChildReports, TypeOK, SessionTypeOK, sessionVars, agentFiles, coreFiles, history
<1>23. CASE ChildFails
  <2>1. job' \in JobType
    BY <1>23 DEF ChildFails, TypeOK, JobType
  <2> QED
    BY <1>23, <2>1
       DEF ChildFails, TypeOK, SessionTypeOK, sessionVars, agentFiles, coreFiles, history
<1>24. CASE ChildDies
  BY <1>24
     DEF ChildDies, TypeOK, SessionTypeOK, sessionVars, agentFiles, coreFiles, history
<1>25. ASSUME NEW s \in Submissions, NEW v \in Versions, EditSubmission(s, v)
       PROVE  TypeOK'
  BY <1>25 DEF EditSubmission, TypeOK, SessionTypeOK, sessionVars, coreFiles, loopVars, history
<1>26. ASSUME NEW c \in Costs, ReportUsage(c)
       PROVE  TypeOK'
  BY <1>26, CostsAssumption
     DEF ReportUsage, TypeOK, SessionTypeOK, sessionVars, coreFiles, loopVars, history
<1>27. CASE AgentEnds
  <2>1. SessionTypeOK'
    BY <1>27, SessionTypes DEF AgentEnds, TypeOK
  <2> QED
    BY <1>27, <2>1 DEF AgentEnds, TypeOK, agentFiles, coreFiles, loopVars, history
<1>28. /\ LinkWorkspace => TypeOK'
       /\ TimeRunsOut => TypeOK'
       /\ UserStops => TypeOK'
  <2>1. CASE TimeRunsOut
    BY <2>1
       DEF TimeRunsOut, TypeOK, SessionTypeOK, sessionVars, coreFiles, loopVars, history
  <2>2. CASE UserStops
    BY <2>2
       DEF UserStops, TypeOK, SessionTypeOK, sessionVars, coreFiles, loopVars, history
  <2>3. CASE LinkWorkspace
    BY <2>3
       DEF LinkWorkspace, TypeOK, SessionTypeOK, sessionVars, coreFiles, loopVars, history
  <2> QED
    BY <2>1, <2>2, <2>3
<1>29. CASE WriteFails
  <2>1. job' \in JobType
    BY <1>29 DEF WriteFails, TypeOK, JobType
  <2> QED
    BY <1>29, <2>1
       DEF WriteFails, TypeOK, SessionTypeOK, sessionVars, agentFiles, coreFiles
<1>30. CASE Crash \/ SealRaises
  <2>1. SessionTypeOK'
    BY <1>30, SessionTypes DEF Crash, SealRaises, LoseMemory, TypeOK
  <2>2. NoJob \in JobType /\ "running" \in RecordStates
    BY DEF NoJob, JobType, NoDigest, None, RecordStates
  <2> QED
    BY <1>30, <2>1, <2>2 DEF Crash, SealRaises, LoseMemory, TypeOK, agentFiles, coreFiles
<1>31. CASE UNCHANGED vars
  BY <1>31 DEF vars, TypeOK, SessionTypeOK, sessionVars, agentFiles, coreFiles, loopVars,
               history
<1> QED
  BY <1>4, <1>5, <1>6, <1>7, <1>8, <1>9, <1>10, <1>11, <1>12, <1>13, <1>14, <1>15, <1>16,
     <1>17, <1>18, <1>19, <1>20, <1>21, <1>22, <1>23, <1>24, <1>25, <1>26, <1>27, <1>28,
     <1>29, <1>30, <1>31
     DEF Next, CoreStep, ChildStep, EnvironmentStep, Fault, LookAtItem

-----------------------------------------------------------------------------
(* One step keeps the rest of the invariant. *)

Rest == CountRight /\ JobRight /\ OpenRight /\ StopRight

\* A step of the loop that has no submission in hand afterwards, and writes
\* neither the ledger nor its counter.
LEMMA IdleStep ==
    ASSUME IInv, pc # "off", pc' \notin Working,
           UNCHANGED <<ledger, evaluated>>,
           pc' \in {"close", "seal"} => stop' # None
    PROVE  Rest'
BY DEF IInv, Rest, CountRight, JobRight, OpenRight, StopRight, Working

\* A step within the work on one submission.
LEMMA WorkStep ==
    ASSUME IInv, pc \in Working, pc' \in Working,
           UNCHANGED <<ledger, evaluated, closed>>,
           job' \in JobType, job'.sub = job.sub, job'.digest = job.digest,
           pc' \in {"validating", "feedback", "candidate", "report"}
             => pc \in {"validating", "feedback", "candidate", "report"},
           pc' = "persist" /\ job'.verdict = "ok" => closed = "open"
    PROVE  Rest'
<1>1. CountRight' /\ OpenRight' /\ StopRight'
  BY DEF IInv, CountRight, OpenRight, StopRight, Working
<1>2. JobRight'
  BY DEF IInv, JobRight, Known, Entries
<1> QED
  BY <1>1, <1>2 DEF Rest

\* A drain that returns has put its submission down.
LEMMA DrainReturnsRest ==
    ASSUME IInv, pc # "off", NEW reason, DrainReturns(reason),
           UNCHANGED <<ledger, evaluated>>
    PROVE  Rest'
BY IdleStep DEF DrainReturns, Working, None

\* A step that leaves the loop alone.
LEMMA OutsideStep ==
    ASSUME IInv, UNCHANGED <<ledger, closed, loopVars>>
    PROVE  Rest'
BY DEF IInv, Rest, CountRight, JobRight, OpenRight, StopRight, loopVars, Known, Entries

\* One step keeps the counter, the work in hand and the close in order.
LEMMA RestStep == IInv /\ [Next]_vars => Rest'
<1> SUFFICES ASSUME IInv, [Next]_vars PROVE Rest'
  OBVIOUS
<1> USE DEF Working
<1>1. TypeOK /\ TypeOK' /\ evaluated \in Nat /\ job \in JobType
  BY TypeStep DEF IInv, TypeOK
<1>2. CASE Start
  BY <1>2
     DEF Start, Rest, CountRight, JobRight, OpenRight, StopRight
<1>3. CASE CheckStop \/ Seal \/ WriteResult \/ EndDrain
  <2>1. CASE CheckStop
    BY <2>1, IdleStep DEF CheckStop
  <2>2. CASE Seal
    BY <2>2, IdleStep DEF Seal
  <2>3. CASE WriteResult
    BY <2>3, IdleStep DEF WriteResult
  <2>4. CASE EndDrain
    BY <2>4, DrainReturnsRest DEF EndDrain, coreFiles
  <2> QED
    BY <1>3, <2>1, <2>2, <2>3, <2>4
<1>4. CASE BeginDrain
  <2>1. CASE LimitReason(evaluated) # None
    BY <1>4, <2>1, DrainReturnsRest DEF BeginDrain
  <2>2. CASE LimitReason(evaluated) = None
    BY <1>4, <2>2, IdleStep DEF BeginDrain
  <2> QED
    BY <2>1, <2>2
<1>5. CASE LimitStopsDrain
  BY <1>5, DrainReturnsRest DEF LimitStopsDrain, AtItem
<1>6. ASSUME NEW s \in Submissions, NEW d \in Versions \cup {NoDigest}
      PROVE  /\ SkipKnown(s, d) \/ StopBeforeValidation(s, d) => Rest'
             /\ RejectSubmission(s, d) \/ StartValidation(s, d) => Rest'
  <2>1. CASE SkipKnown(s, d)
    BY <2>1, IdleStep DEF SkipKnown, Item, AtItem
  <2>2. CASE StopBeforeValidation(s, d)
    BY <2>2, DrainReturnsRest DEF StopBeforeValidation, Item, AtItem
  <2>3. CASE RejectSubmission(s, d) \/ StartValidation(s, d)
    <3>1. /\ job'.sub = s /\ job'.digest = d /\ pc' \in {"failure", "validating"}
          /\ UNCHANGED <<ledger, evaluated, closed>> /\ pc = "item"
      BY <2>3 DEF RejectSubmission, StartValidation, Item, AtItem, Work, NoJob
    <3>2. ~Known(s, d) /\ LimitReason(evaluated) = None
      BY <2>3 DEF RejectSubmission, StartValidation, Item
    <3>3. evaluated < MaxCandidates
      BY <1>1, <3>2, ReasonTypes
    <3>4. JobRight'
      BY <3>1, <3>2, <3>3 DEF JobRight, Known, Entries
    <3>5. CountRight' /\ StopRight'
      BY <3>1 DEF IInv, CountRight, StopRight
    <3>6. OpenRight'
      BY <2>3, <3>1 DEF RejectSubmission, StartValidation, OpenRight
    <3> QED
      BY <3>4, <3>5, <3>6 DEF Rest
  <2> QED
    BY <2>1, <2>2, <2>3
<1>7. CASE StopValidation
  BY <1>1, <1>7, WorkStep DEF StopValidation
<1>8. CASE ReceiveVerdict
  BY <1>1, <1>8, WorkStep DEF ReceiveVerdict
<1>9. CASE ChildFreezes
  <2>1. \/ job' = [job EXCEPT !.verdict = "error"]
        \/ job' = [job EXCEPT !.version = content[job.sub], !.candidate = frozen']
    BY <1>9 DEF ChildFreezes
  <2>2. job'.sub = job.sub /\ job'.digest = job.digest
    BY <1>1, <2>1 DEF JobType
  <2>3. job' \in JobType
    BY <1>1 DEF TypeOK
  <2> QED
    BY <1>9, <2>2, <2>3, WorkStep DEF ChildFreezes, coreFiles
<1>10. ASSUME NEW gate \in {"pass", "fail"}, NEW coverage \in Coverages,
              ChildReports(gate, coverage)
       PROVE  Rest'
  <2>1. job'.sub = job.sub /\ job'.digest = job.digest /\ job' \in JobType
    BY <1>1, <1>10 DEF ChildReports, TypeOK, JobType
  <2> QED
    BY <1>10, <2>1, WorkStep DEF ChildReports, coreFiles
<1>11. CASE ChildFails
  <2>1. job'.sub = job.sub /\ job'.digest = job.digest /\ job' \in JobType
    BY <1>1, <1>11 DEF ChildFails, TypeOK, JobType
  <2> QED
    BY <1>11, <2>1, WorkStep DEF ChildFails, coreFiles
<1>12. CASE ChildDies
  BY <1>1, <1>12, WorkStep DEF ChildDies, coreFiles
<1>13. CASE WriteFeedback
  BY <1>1, <1>13, WorkStep DEF WriteFeedback
<1>14. CASE SaveCandidate
  BY <1>1, <1>14, WorkStep DEF SaveCandidate
<1>15. CASE SaveReport
  <2>1. closed = "open"
    BY <1>15 DEF SaveReport, IInv, OpenRight
  <2> QED
    BY <1>1, <1>15, <2>1, WorkStep DEF SaveReport
<1>16. CASE WriteFails
  <2>1. job'.sub = job.sub /\ job'.digest = job.digest /\ job' \in JobType
    BY <1>1, <1>16 DEF WriteFails, TypeOK, JobType
  <2> QED
    BY <1>16, <2>1, WorkStep DEF WriteFails, coreFiles
<1>17. CASE WriteFailureFeedback
  <2>1. /\ job'.sub = job.sub /\ job'.digest = job.digest /\ job' \in JobType
        /\ job'.verdict = None
    BY <1>1, <1>17 DEF WriteFailureFeedback, Work, NoJob, TypeOK
  <2> QED
    BY <1>17, <2>1, WorkStep DEF WriteFailureFeedback, None
<1>18. CASE Persist
  <2>1. Len(ledger') = Len(ledger) + 1 /\ evaluated' = evaluated + 1
    BY <1>1, <1>18 DEF Persist, TypeOK
  <2>2. CountRight'
    BY <1>18, <2>1 DEF Persist, IInv, CountRight
  <2>3. pc' \in {"poll", "close", "item"} /\ (pc' = "close" => stop' # None)
    BY <1>18 DEF Persist, DrainReturns, None
  <2> QED
    BY <2>2, <2>3 DEF Rest, JobRight, OpenRight, StopRight
<1>19. CASE PollAgent
  BY <1>19, IdleStep DEF PollAgent, coreFiles
<1>20. CASE CloseAttempt
  <2>1. stop' # None
    BY <1>20 DEF CloseAttempt, IInv, StopRight
  <2> QED
    BY <1>20, <2>1, IdleStep DEF CloseAttempt
<1>21. CASE EnvironmentStep
  <2>1. UNCHANGED <<coreFiles, loopVars>>
    BY <1>21 DEF EnvironmentStep, EditSubmission, ReportUsage, LinkWorkspace, AgentEnds,
                 TimeRunsOut, UserStops
  <2> QED
    BY <2>1, OutsideStep DEF coreFiles
<1>22. CASE Crash \/ SealRaises
  BY <1>22 DEF Crash, SealRaises, LoseMemory, Rest, CountRight, JobRight, OpenRight, StopRight
<1>23. CASE UNCHANGED vars
  BY <1>23, OutsideStep DEF vars, coreFiles
<1> QED
  BY <1>2, <1>3, <1>4, <1>5, <1>6, <1>7, <1>8, <1>9, <1>10, <1>11, <1>12, <1>13, <1>14,
     <1>15, <1>16, <1>17, <1>18, <1>19, <1>20, <1>21, <1>22, <1>23
     DEF Next, CoreStep, ChildStep, Fault, LookAtItem

\* The invariant is inductive.
LEMMA IInvStep == IInv /\ [Next]_vars => IInv'
BY TypeStep, RestStep DEF IInv, Rest

\* The invariant holds in every reachable state.
LEMMA IInvAlways == Spec => []IInv
BY InitIInv, IInvStep, PTL DEF Spec

\* Every state has the types the code gives it.
THEOREM TypeCorrect == Spec => []TypeOK
<1>1. IInv => TypeOK
  BY DEF IInv
<1> QED
  BY <1>1, IInvAlways, PTL

-----------------------------------------------------------------------------
(* The loop implements its promise. *)

\* The empty ledger of an open attempt is the empty, unsealed log.
LEMMA InitPromise == Init => Promise!Init
BY DEF Init, Promise!Init

\* The ledger and an entry of it, as the promise's log shows them.
LogEntry == [key : Submissions \X (Versions \cup {NoDigest}), evaluated : BOOLEAN]
Shown(e) == [key |-> <<e.sub, e.digest>>, evaluated |-> e.status = "feedback"]
Log(l)   == [i \in DOMAIN l |-> Shown(l[i])]

\* What the log shows of a ledger entry is a log entry.
LEMMA ShownTypes ==
    ASSUME NEW e \in EntryType
    PROVE  Shown(e) \in LogEntry
<1>1. <<e.sub, e.digest>> \in Submissions \X (Versions \cup {NoDigest})
  BY DEF EntryType
<1>2. (e.status = "feedback") \in BOOLEAN
  OBVIOUS
<1> QED
  BY <1>1, <1>2, Zenon DEF Shown, LogEntry

\* What the log shows of a ledger is a sequence as long as the ledger.
LEMMA LogIsSeq ==
    ASSUME NEW l \in Seq(EntryType)
    PROVE  Log(l) \in Seq(LogEntry) /\ Len(Log(l)) = Len(l)
<1>1. \A i \in DOMAIN l : Shown(l[i]) \in LogEntry
  BY ShownTypes
<1>2. DOMAIN l = 1 .. Len(l) /\ Len(l) \in Nat
  OBVIOUS
<1>3. Log(l) \in [1 .. Len(l) -> LogEntry]
  BY <1>1, <1>2 DEF Log
<1> QED
  BY <1>2, <1>3

\* To append an entry to the ledger is to append what it shows to the log.
LEMMA LogAppend ==
    ASSUME NEW l \in Seq(EntryType), NEW e \in EntryType
    PROVE  Log(Append(l, e)) = Append(Log(l), Shown(e))
<1>1. Append(l, e) \in Seq(EntryType) /\ Len(Append(l, e)) = Len(l) + 1
  BY AppendProperties
<1>2. Shown(e) \in LogEntry
  BY ShownTypes
<1>3. /\ Log(Append(l, e)) \in Seq(LogEntry)
      /\ Len(Log(Append(l, e))) = Len(l) + 1
      /\ Log(l) \in Seq(LogEntry) /\ Len(Log(l)) = Len(l)
  BY <1>1, LogIsSeq
<1>4. /\ Append(Log(l), Shown(e)) \in Seq(LogEntry)
      /\ Len(Append(Log(l), Shown(e))) = Len(l) + 1
  BY <1>2, <1>3, AppendProperties
<1>5. ASSUME NEW i \in 1 .. Len(l) + 1
      PROVE  Log(Append(l, e))[i] = Append(Log(l), Shown(e))[i]
  <2>1. Log(Append(l, e))[i] = Shown(Append(l, e)[i])
    BY <1>1, <1>5 DEF Log
  <2>2. CASE i = Len(l) + 1
    BY <1>2, <1>3, <2>1, <2>2, AppendProperties
  <2>3. CASE i \in 1 .. Len(l)
    <3>1. Append(l, e)[i] = l[i]
      BY <2>3, AppendProperties
    <3>2. Append(Log(l), Shown(e))[i] = Log(l)[i]
      BY <1>2, <1>3, <2>3, AppendProperties
    <3>3. Log(l)[i] = Shown(l[i])
      BY <2>3 DEF Log
    <3> QED
      BY <2>1, <3>1, <3>2, <3>3
  <2>4. i = Len(l) + 1 \/ i \in 1 .. Len(l)
    <3>1. Len(l) \in Nat
      OBVIOUS
    <3> HIDE DEF Log
    <3> QED
      BY <1>5, <3>1
  <2> QED
    BY <2>2, <2>3, <2>4, Zenon
<1> QED
  BY <1>3, <1>4, <1>5, SeqEqual

\* Persist is a Log step: the key is new, the budget not yet spent, and the
\* attempt open if the submission was evaluated.
LEMMA PersistLogs ==
    ASSUME IInv, Persist
    PROVE  Promise!Next
<1>1. /\ TypeOK /\ job.sub \in Submissions /\ ~Known(job.sub, job.digest)
      /\ evaluated < MaxCandidates /\ evaluated = Len(ledger)
  BY DEF Persist, IInv, JobRight, CountRight, Working
<1>2. PICK sd \in Submissions \X (Versions \cup {NoDigest}), ok \in BOOLEAN :
        sd = <<job.sub, job.digest>> /\ ok = (job.verdict = "ok")
  <2>1. <<job.sub, job.digest>> \in Submissions \X (Versions \cup {NoDigest})
    BY <1>1 DEF TypeOK, JobType
  <2>2. (job.verdict = "ok") \in BOOLEAN
    OBVIOUS
  <2> QED
    BY <2>1, <2>2, Zenon
<1>3. ~Promise!Logged(sd)
  BY <1>1, <1>2 DEF Promise!Logged, Known, Entries
<1>4. ok => closed = "open"
  BY <1>2 DEF Persist, IInv, OpenRight
<1>5. ledger' = Append(ledger, Entry) /\ closed' = closed
  BY DEF Persist
<1>6. ledger \in Seq(EntryType) /\ Entry \in EntryType
  BY <1>1, EntryTypes DEF TypeOK
<1>7. Shown(Entry) = [key |-> sd, evaluated |-> ok]
  BY <1>2, Zenon DEF Entry, Shown
<1>8. Log(ledger') = Append(Log(ledger), [key |-> sd, evaluated |-> ok])
  BY <1>5, <1>6, <1>7, LogAppend
<1>9. Len(Log(ledger)) = Len(ledger)
  BY <1>6, LogIsSeq
<1>10. Promise!Log(sd, ok)
  <2>1. Len([i \in DOMAIN ledger |->
               [key |-> <<ledger[i].sub, ledger[i].digest>>,
                evaluated |-> ledger[i].status = "feedback"]]) < MaxCandidates
    BY <1>1, <1>9, Zenon DEF Log, Shown
  <2>2. [i \in DOMAIN ledger |->
           [key |-> <<ledger[i].sub, ledger[i].digest>>,
            evaluated |-> ledger[i].status = "feedback"]]'
          = Append([i \in DOMAIN ledger |->
                      [key |-> <<ledger[i].sub, ledger[i].digest>>,
                       evaluated |-> ledger[i].status = "feedback"]],
                   [key |-> sd, evaluated |-> ok])
    BY <1>8, Zenon DEF Log, Shown
  <2>3. UNCHANGED (closed # "open")
    BY <1>5
  <2> QED
    BY <1>3, <1>4, <2>1, <2>2, <2>3, Zenon DEF Promise!Log
<1> QED
  BY <1>10, Zenon DEF Promise!Next

\* Seal closes; Persist logs; every other step leaves the promise alone.
LEMMA StepPromise ==
    ASSUME IInv, [Next]_vars
    PROVE  [Promise!Next]_<<Log(ledger), closed # "open">>
<1>1. CASE Persist
  BY <1>1, PersistLogs
<1>2. CASE Seal
  <2>1. stop # "open"
    BY DEF IInv, TypeOK, CloseReasons, StopReasons, None
  <2>2. ledger' = ledger /\ closed' # "open"
    BY <1>2, <2>1 DEF Seal
  <2> QED
    BY <2>2 DEF Promise!Next, Promise!Close, Log, Shown
<1>3. ASSUME ~Persist, ~Seal
      PROVE  UNCHANGED <<ledger, closed>>
  <2>1. CASE Start \/ CheckStop \/ BeginDrain \/ EndDrain \/ LimitStopsDrain
    BY <2>1 DEF Start, CheckStop, BeginDrain, EndDrain, LimitStopsDrain, AtItem, coreFiles
  <2>2. CASE LookAtItem
    BY <2>2 DEF LookAtItem, SkipKnown, RejectSubmission, StopBeforeValidation,
                StartValidation, Item, AtItem
  <2>3. CASE StopValidation \/ ReceiveVerdict \/ WriteFeedback \/ SaveCandidate \/ SaveReport
    BY <2>3 DEF StopValidation, ReceiveVerdict, WriteFeedback, SaveCandidate, SaveReport
  <2>4. CASE WriteFailureFeedback \/ PollAgent \/ CloseAttempt \/ WriteResult
    BY <2>4 DEF WriteFailureFeedback, PollAgent, CloseAttempt, WriteResult, coreFiles
  <2>5. CASE ChildStep
    BY <2>5 DEF ChildStep, ChildFreezes, ChildReports, ChildFails, ChildDies, coreFiles
  <2>6. CASE EnvironmentStep
    BY <2>6 DEF EnvironmentStep, EditSubmission, ReportUsage, LinkWorkspace, AgentEnds, TimeRunsOut,
                UserStops, coreFiles
  <2>7. CASE Fault
    BY <2>7 DEF Fault, WriteFails, Crash, SealRaises, LoseMemory, coreFiles
  <2>8. CASE UNCHANGED vars
    BY <2>8 DEF vars, coreFiles
  <2> QED
    BY <1>3, <2>1, <2>2, <2>3, <2>4, <2>5, <2>6, <2>7, <2>8 DEF Next, CoreStep
<1> QED
  BY <1>1, <1>2, <1>3 DEF Log

\* Whatever the agent does and however often Core dies: no content of a
\* submission is entered in the ledger twice, the candidate budget holds, the
\* ledger is append-only, and nothing is evaluated once the attempt is closed.
THEOREM KeepsPromise == Spec => PromiseKept
<1>1. IInv /\ [Next]_vars => [Promise!Next]_<<Log(ledger), closed # "open">>
  BY StepPromise
<1> QED
  BY InitPromise, IInvAlways, <1>1, PTL
     DEF Spec, PromiseKept, Promise!Spec, Log, Shown

-----------------------------------------------------------------------------
(* Once the time has run out, every step of Core leads to the end. *)

\* The submission in hand is still in the queue, to be taken off it.
JobQueued == pc \in Working => job.sub \in queue

\* The next submission of a queue is one of it.
LEMMA FirstQueued ==
    ASSUME IInv, queue # {}
    PROVE  NextSubmission \in queue
<1>1. queue \subseteq Nat
  BY SubmissionsAssumption DEF IInv, TypeOK
<1>2. \E s \in queue : \A t \in queue : s <= t
  <2> DEFINE R == {ss \in Nat \X Nat : ss[1] < ss[2]}
  <2>1. IsWellFoundedOn(R, Nat)
    BY NatLessThanWellFounded DEF OpToRel
  <2>2. PICK s \in queue : \A t \in queue : <<t, s>> \notin R
    <3> HIDE DEF R
    <3> QED
      BY <1>1, <2>1, WFMin
  <2>3. \A t \in queue : ~(t < s)
    BY <1>1, <2>2
  <2> QED
    BY <1>1, <2>2, <2>3
<1> QED
  BY <1>2 DEF NextSubmission

\* Only a drain begins a queue, and only its looks and its entries change it.
LEMMA JobQueuedStep == IInv /\ JobQueued /\ [Next]_vars => JobQueued'
<1> SUFFICES ASSUME IInv, JobQueued, [Next]_vars PROVE JobQueued'
  OBVIOUS
<1> USE DEF JobQueued, Working
<1>1. CASE Start \/ CheckStop \/ BeginDrain \/ EndDrain \/ LimitStopsDrain
  BY <1>1 DEF Start, CheckStop, BeginDrain, EndDrain, LimitStopsDrain, AtItem, DrainReturns
<1>2. CASE LookAtItem
  <2>1. PICK s \in Submissions, d \in Versions \cup {NoDigest} :
          \/ SkipKnown(s, d) \/ RejectSubmission(s, d)
          \/ StopBeforeValidation(s, d) \/ StartValidation(s, d)
    BY <1>2 DEF LookAtItem
  <2>2. CASE SkipKnown(s, d) \/ StopBeforeValidation(s, d)
    BY <2>2 DEF SkipKnown, StopBeforeValidation, Item, AtItem, DrainReturns
  <2>3. CASE RejectSubmission(s, d) \/ StartValidation(s, d)
    <3>1. queue' = queue /\ job' = Work(s, d) /\ s = NextSubmission /\ queue # {}
      BY <2>3 DEF RejectSubmission, StartValidation, Item, AtItem
    <3>2. job'.sub = s
      BY <3>1 DEF Work, NoJob
    <3> QED
      BY <3>1, <3>2, FirstQueued
  <2> QED
    BY <2>1, <2>2, <2>3
<1>3. CASE StopValidation \/ ReceiveVerdict \/ WriteFeedback \/ SaveCandidate \/ SaveReport
  BY <1>3 DEF StopValidation, ReceiveVerdict, WriteFeedback, SaveCandidate, SaveReport
<1>4. CASE Persist
  BY <1>4 DEF Persist, DrainReturns
<1>5. CASE WriteFailureFeedback \/ WriteFails
  <2>1. job'.sub = job.sub
    BY <1>5 DEF WriteFailureFeedback, WriteFails, Work, NoJob, IInv, TypeOK, JobType
  <2> QED
    BY <1>5, <2>1 DEF WriteFailureFeedback, WriteFails
<1>6. CASE PollAgent \/ CloseAttempt \/ Seal \/ WriteResult \/ Crash \/ SealRaises
  BY <1>6 DEF PollAgent, CloseAttempt, Seal, WriteResult, Crash, SealRaises, LoseMemory
<1>7. CASE ChildStep
  <2>1. UNCHANGED queue /\ pc \in Working
    BY <1>7 DEF ChildStep, ChildFreezes, ChildReports, ChildFails, ChildDies
  <2>2. job'.sub = job.sub
    BY <1>7 DEF ChildStep, ChildFreezes, ChildReports, ChildFails, ChildDies, IInv, TypeOK,
                JobType
  <2> QED
    BY <2>1, <2>2
<1>8. CASE EnvironmentStep
  BY <1>8 DEF EnvironmentStep, EditSubmission, ReportUsage, LinkWorkspace, AgentEnds, TimeRunsOut,
              UserStops, loopVars
<1>9. CASE UNCHANGED vars
  BY <1>9 DEF vars, loopVars
<1> QED
  BY <1>1, <1>2, <1>3, <1>4, <1>5, <1>6, <1>7, <1>8, <1>9 DEF Next, CoreStep, Fault

LEMMA JobQueuedAlways == Spec => [](IInv /\ JobQueued)
<1>1. Init => IInv /\ JobQueued
  BY InitIInv DEF Init, JobQueued, Working
<1>2. (IInv /\ JobQueued) /\ [Next]_vars => (IInv /\ JobQueued)'
  BY IInvStep, JobQueuedStep
<1> QED
  BY <1>1, <1>2, PTL DEF Spec

\* How long a queue can be, and what is left of it without one of its members.
LEMMA QueueLength ==
    ASSUME IInv
    PROVE  /\ Cardinality(queue) \in Nat /\ Drained \in Nat
           /\ \A ready \in SUBSET Submissions :
                Cardinality(ready) \in Nat /\ Cardinality(ready) <= Drained
           /\ \A s \in queue : Cardinality(queue \ {s}) = Cardinality(queue) - 1
                               /\ Cardinality(queue) >= 1
<1>1. IsFiniteSet(Submissions) /\ queue \in SUBSET Submissions
  BY SubmissionsAssumption DEF IInv, TypeOK
<1>2. ASSUME NEW ready \in SUBSET Submissions
      PROVE  IsFiniteSet(ready) /\ Cardinality(ready) \in Nat /\ Cardinality(ready) <= Drained
  BY <1>1, FS_Subset, FS_CardinalityType DEF Drained
<1>3. Drained \in Nat
  BY <1>1, FS_CardinalityType DEF Drained
<1>4. ASSUME NEW s \in queue
      PROVE  Cardinality(queue \ {s}) = Cardinality(queue) - 1 /\ Cardinality(queue) >= 1
  <2>1. IsFiniteSet(queue) /\ IsFiniteSet(queue \ {s})
    BY <1>1, <1>2
  <2>2. Cardinality(queue) \in Nat /\ Cardinality(queue \ {s}) \in Nat
    BY <2>1, FS_CardinalityType
  <2>3. Cardinality(queue \ {s}) = Cardinality(queue) - 1
    BY <2>1, FS_RemoveElement
  <2> QED
    BY <2>2, <2>3
<1> QED
  BY <1>1, <1>2, <1>3, <1>4

\* The steps left are those of the place in the loop, with the queue's length
\* and the number of submissions for n and m.
LEMMA StepsAt ==
    ASSUME IInv, JobQueued
    PROVE  \E n, m, after \in Nat :
             /\ n = Cardinality(queue) /\ m = Drained /\ after = AfterDrain
             /\ AtQueue = 3 * n + after
             /\ after = (IF final = None THEN 3 * m + 7 ELSE 4)
             /\ pc \in Working => n >= 1
             /\ StepsLeft \in Nat
<1> DEFINE n == Cardinality(queue)
<1>1. n \in Nat /\ Drained \in Nat /\ AfterDrain \in Nat
      /\ AfterDrain = (IF final = None THEN 3 * Drained + 7 ELSE 4)
  BY QueueLength DEF AfterDrain
<1>2. AtQueue = 3 * n + AfterDrain
  BY DEF AtQueue
<1>3. pc \in Working => n >= 1
  BY QueueLength DEF JobQueued
<1>4. StepsLeft \in Nat
  <2>1. pc \in {"off", "top", "drain", "item", "validating", "feedback", "candidate", "report",
                "failure", "persist", "poll", "close", "seal", "result", "done"}
    BY DEF IInv, TypeOK
  <2> HIDE DEF n
  <2>2. AtQueue \in Nat /\ AtQueue >= 4
    BY <1>1, <1>2
  <2> QED
    BY <1>1, <2>1, <2>2 DEF StepsLeft
<1> QED
  BY <1>1, <1>2, <1>3, <1>4

\* With the time run out nothing more is sent to validation, and each step of
\* Core leads to a place that is nearer to the end.
LEMMA CoreAdvances ==
    ASSUME IInv, JobQueued, expired, CoreStep
    PROVE  StepsLeft' < StepsLeft
<1>1. StopReason # None
  BY DEF StopReason, None
<1>2. PICK n, m, after \in Nat :
        /\ n = Cardinality(queue) /\ m = Drained /\ after = AfterDrain
        /\ AtQueue = 3 * n + after
        /\ after = (IF final = None THEN 3 * m + 7 ELSE 4)
        /\ pc \in Working => n >= 1
  BY StepsAt
<1>3. \A s \in queue : Cardinality(queue \ {s}) = n - 1
  BY <1>2, QueueLength
<1>4. \A ready \in SUBSET Submissions : Cardinality(ready) \in Nat /\ Cardinality(ready) <= m
  BY <1>2, QueueLength
<1>5. final' = final => AfterDrain' = after
  BY <1>2 DEF AfterDrain, Drained
<1>6. Drained' = m
  BY <1>2 DEF Drained
<1> USE DEF Working
<1>7. CASE Start \/ CheckStop
  BY <1>1, <1>7 DEF Start, CheckStop, StepsLeft
<1>8. CASE BeginDrain
  <2>1. StepsLeft = 3 * m + after + 1 /\ final' = final /\ after >= 4
    BY <1>2, <1>8 DEF BeginDrain, StepsLeft
  <2>2. CASE LimitReason(evaluated) # None
    <3>1. StepsLeft' = 3
      BY <1>8, <2>2 DEF BeginDrain, DrainReturns, StepsLeft
    <3> QED
      BY <1>2, <2>1, <3>1
  <2>3. CASE LimitReason(evaluated) = None
    <3>1. queue' \in SUBSET Submissions /\ pc' = "item"
      BY <1>8, <2>3 DEF BeginDrain
    <3>2. StepsLeft' = 3 * Cardinality(queue') + after
      BY <1>5, <2>1, <3>1 DEF StepsLeft, AtQueue
    <3>3. Cardinality(queue') \in Nat /\ Cardinality(queue') <= m
      BY <1>4, <3>1
    <3> QED
      BY <1>2, <2>1, <3>2, <3>3
  <2> QED
    BY <2>2, <2>3
<1>9. CASE EndDrain
  <2>1. StepsLeft = 3 * n + after /\ pc' = (IF final = None THEN "poll" ELSE "close")
    BY <1>2, <1>9 DEF EndDrain, DrainReturns, StepsLeft, None
  <2>2. StepsLeft' = (IF final = None THEN 3 * m + 6 ELSE 3)
    BY <1>6, <2>1 DEF StepsLeft
  <2> QED
    BY <1>2, <2>1, <2>2
<1>10. CASE LimitStopsDrain
  <2>1. StepsLeft = 3 * n + after /\ pc' = "close" /\ after >= 4
    BY <1>2, <1>10 DEF LimitStopsDrain, AtItem, DrainReturns, StepsLeft
  <2>2. StepsLeft' = 3
    BY <2>1 DEF StepsLeft
  <2> QED
    BY <1>2, <2>1, <2>2
<1>11. CASE LookAtItem
  <2>1. PICK s \in Submissions, d \in Versions \cup {NoDigest} :
          SkipKnown(s, d) \/ RejectSubmission(s, d) \/ StopBeforeValidation(s, d)
    BY <1>1, <1>11 DEF LookAtItem, StartValidation
  <2>2. StepsLeft = 3 * n + after /\ final' = final /\ after >= 4 /\ s \in queue
    BY <1>2, <2>1, FirstQueued
       DEF SkipKnown, RejectSubmission, StopBeforeValidation, Item, AtItem, StepsLeft
  <2>3. CASE SkipKnown(s, d)
    <3>1. queue' = queue \ {s} /\ pc' = "item"
      BY <2>3 DEF SkipKnown, Item, AtItem
    <3>2. StepsLeft' = 3 * (n - 1) + after
      BY <1>3, <1>5, <2>2, <3>1 DEF StepsLeft, AtQueue
    <3> QED
      BY <1>2, <2>2, <3>2
  <2>4. CASE RejectSubmission(s, d)
    <3>1. queue' = queue /\ pc' = "failure"
      BY <2>4 DEF RejectSubmission
    <3>2. StepsLeft' = 3 * n + after - 1
      BY <1>2, <1>5, <2>2, <3>1 DEF StepsLeft, AtQueue
    <3> QED
      BY <1>2, <2>2, <3>2
  <2>5. CASE StopBeforeValidation(s, d)
    <3>1. StepsLeft' = 3
      BY <2>5 DEF StopBeforeValidation, DrainReturns, StepsLeft
    <3> QED
      BY <1>2, <2>2, <3>1
  <2> QED
    BY <2>1, <2>3, <2>4, <2>5
<1>12. CASE ReceiveVerdict
  BY <1>1, <1>12 DEF ReceiveVerdict
<1>13. CASE StopValidation \/ WriteFeedback \/ SaveCandidate \/ SaveReport \/ WriteFailureFeedback
  <2>1. queue' = queue /\ final' = final
    BY <1>13
       DEF StopValidation, WriteFeedback, SaveCandidate, SaveReport, WriteFailureFeedback
  <2>2. AtQueue = 3 * n + after /\ AtQueue' = 3 * n + after
    BY <1>2, <1>5, <2>1 DEF AtQueue
  <2>3. \/ pc = "validating" /\ pc' = "failure"
        \/ pc = "feedback" /\ pc' = "candidate"
        \/ pc = "candidate" /\ pc' = "report"
        \/ pc = "report" /\ pc' = "persist"
        \/ pc = "failure" /\ pc' = "persist"
    BY <1>13
       DEF StopValidation, WriteFeedback, SaveCandidate, SaveReport, WriteFailureFeedback
  <2> QED
    BY <1>2, <2>2, <2>3 DEF StepsLeft
<1>14. CASE Persist
  <2>1. pc = "persist" /\ final' = final /\ n >= 1 /\ job.sub \in queue
    BY <1>2, <1>14 DEF Persist, JobQueued
  <2>2. StepsLeft = 3 * n + after - 2 /\ after >= 4
    BY <1>2, <2>1 DEF StepsLeft
  <2>3. CASE pc' = "item"
    <3>1. queue' = queue \ {job.sub}
      BY <1>14, <2>3 DEF Persist, DrainReturns
    <3>2. StepsLeft' = 3 * (n - 1) + after
      BY <1>3, <1>5, <2>1, <2>3, <3>1 DEF StepsLeft, AtQueue
    <3> QED
      BY <1>2, <2>2, <3>2
  <2>4. CASE pc' = "close"
    <3>1. StepsLeft' = 3
      BY <2>4 DEF StepsLeft
    <3> QED
      BY <1>2, <2>1, <2>2, <3>1
  <2>5. pc' \in {"item", "close"}
    BY <1>14 DEF Persist, DrainReturns, None
  <2> QED
    BY <2>3, <2>4, <2>5
<1>15. CASE PollAgent
  <2>1. StepsLeft = 3 * m + 6
    BY <1>2, <1>15 DEF PollAgent, StepsLeft
  <2>2. CASE pc' = "top"
    <3>1. StepsLeft' = 4
      BY <2>2 DEF StepsLeft
    <3> QED
      BY <1>2, <2>1, <3>1
  <2>3. CASE pc' = "drain"
    <3>1. final' # None
      BY <1>15, <2>3 DEF PollAgent, CloseReasonFor, None
    <3>2. StepsLeft' = 3 * m + 5
      BY <1>2, <1>6, <2>3, <3>1 DEF StepsLeft, AfterDrain
    <3> QED
      BY <1>2, <2>1, <3>2
  <2> QED
    BY <1>15, <2>2, <2>3 DEF PollAgent
<1>16. CASE CloseAttempt \/ Seal \/ WriteResult
  BY <1>16 DEF CloseAttempt, Seal, WriteResult, StepsLeft
<1> QED
  BY <1>7, <1>8, <1>9, <1>10, <1>11, <1>12, <1>13, <1>14, <1>15, <1>16 DEF CoreStep

\* What others do leaves the loop where it is or stops the validation; only its
\* early end takes it back.
LEMMA OthersDoNotDelay ==
    ASSUME IInv, JobQueued, ChildStep \/ EnvironmentStep \/ WriteFails \/ UNCHANGED vars
    PROVE  StepsLeft' <= StepsLeft
<1>1. PICK n, m, after \in Nat :
        /\ n = Cardinality(queue) /\ m = Drained /\ after = AfterDrain
        /\ AtQueue = 3 * n + after
        /\ StepsLeft \in Nat
  BY StepsAt
<1>2. UNCHANGED <<queue, final>>
  BY DEF ChildStep, ChildFreezes, ChildReports, ChildFails, ChildDies, EnvironmentStep,
         EditSubmission, ReportUsage, LinkWorkspace, AgentEnds, TimeRunsOut, UserStops,
         WriteFails, vars,
         loopVars
<1>3. AtQueue' = 3 * n + after /\ AfterDrain' = after /\ Drained' = m
  BY <1>1, <1>2 DEF AtQueue, AfterDrain, Drained
<1>4. CASE pc' = pc
  <2>1. StepsLeft' = StepsLeft
    BY <1>1, <1>3, <1>4 DEF StepsLeft
  <2> QED
    BY <1>1, <2>1
<1>5. CASE pc \in {"validating", "feedback", "candidate", "report"} /\ pc' = "failure"
  BY <1>1, <1>3, <1>5 DEF StepsLeft
<1>6. pc' = pc \/ (pc \in {"validating", "feedback", "candidate", "report"} /\ pc' = "failure")
  BY DEF ChildStep, ChildFreezes, ChildReports, ChildFails, ChildDies, EnvironmentStep,
         EditSubmission, ReportUsage, LinkWorkspace, AgentEnds, TimeRunsOut, UserStops,
         WriteFails, vars,
         loopVars
<1> QED
  BY <1>4, <1>5, <1>6

\* The steps left are a number in every reachable state.
LEMMA StepsAlways == Spec => [](IInv /\ JobQueued /\ StepsLeft \in Nat)
<1>1. IInv /\ JobQueued => StepsLeft \in Nat
  BY StepsAt
<1> QED
  BY <1>1, JobQueuedAlways, PTL

\* Whatever agent, validation and user do: once the time has run out, a bounded
\* number of Core's own steps ends the loop, for any set of submissions, as long
\* as its close meets no symlink.
THEOREM LoopOnlyAdvances == Spec => LoopAdvances
<1> DEFINE Advance == expired =>
             /\ CoreStep => StepsLeft' < StepsLeft
             /\ StepsLeft' > StepsLeft => faults' > faults \/ (pc = "seal" /\ linked)
<1>1. ASSUME IInv, JobQueued, StepsLeft' \in Nat, [Next]_vars
      PROVE  Advance
  <2>1. StepsLeft \in Nat /\ faults \in Nat
    BY <1>1, StepsAt DEF IInv, TypeOK
  <2>2. expired /\ CoreStep => StepsLeft' < StepsLeft
    BY <1>1, CoreAdvances
  <2>3. /\ Crash => faults' > faults
        /\ SealRaises => pc = "seal" /\ linked
    BY <2>1 DEF Crash, SealRaises
  <2>4. ChildStep \/ EnvironmentStep \/ WriteFails \/ UNCHANGED vars => StepsLeft' <= StepsLeft
    BY <1>1, OthersDoNotDelay
  <2>5. \/ CoreStep \/ ChildStep \/ EnvironmentStep \/ WriteFails
        \/ Crash \/ SealRaises \/ UNCHANGED vars
    BY <1>1 DEF Next, Fault
  <2> QED
    BY <1>1, <2>1, <2>2, <2>3, <2>4, <2>5
<1>2. (IInv /\ JobQueued) /\ (StepsLeft \in Nat)' /\ [Next]_vars => [Advance]_vars
  BY <1>1
<1> QED
  BY <1>2, StepsAlways, PTL DEF Spec, LoopAdvances

=============================================================================
