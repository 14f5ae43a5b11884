-------------------------- MODULE CompileClose_proofs --------------------------
(***************************************************************************)
(* Proofs about the end of the interactive compile loop: that an attempt   *)
(* is closed over a quiet workspace and for a reason that is true, that    *)
(* one closed as ready for test has been read to the end, and that a       *)
(* resumed loop does not turn a closed attempt into a failed one.          *)
(***************************************************************************)
EXTENDS CompileEvidence_proofs

-----------------------------------------------------------------------------
(* The inductive invariant. *)

\* A process Core has let go of is a recorded one, and the record says so only
\* once its group is quiet: without a token, only if Core never died.
SessionQuiet ==
    /\ live => record = "running"
    /\ record = "completed" => ~AgentAlive
    /\ (token \/ faults = 0) /\ ~live =>
         /\ record # "running" => ~AgentAlive
         /\ faults = 0 => record # "running"

\* The ground of a reason, none of which ever goes away.
Holds(reason) ==
    /\ reason = "time_limit" => expired
    /\ reason = "user_stop" => stopFile
    /\ reason = "budget_exhausted" => coreCost >= CostLimit
    /\ reason = "candidate_limit" => Len(ledger) >= MaxCandidates
    /\ reason = "ready_for_test" => record = "completed"

\* Every reason the loop has at hand has its ground.
Ending == {"close", "seal", "result", "done"}
ReasonsRight ==
    /\ Holds(stop) /\ Holds(final) /\ Holds(pending) /\ Holds(closed)
    /\ record = "timed_out" => expired
    /\ stop # None => pc \in Ending
    /\ pending \in StopReasons \cup {None}
    /\ final = "ready_for_test" => handle = "completed"

\* The session is ended and the agent gone before the attempt is sealed.
SealRight ==
    /\ pc = "seal" => ~live /\ record # "running"
    /\ pc = "seal" /\ (token \/ faults = 0) => ~AgentAlive
    /\ CloseIsQuiescent

\* The last drain leaves no submission out.
Looked(s) == content[s] # 0 => Known(s, Digest(content[s]))
ReadRight ==
    /\ final = "ready_for_test" /\ pc \in Working \cup {"item"} =>
         \A s \in Submissions : s \in queue \/ Looked(s)
    /\ final = "ready_for_test" /\ pc \in Working => job.digest = Digest(content[job.sub])
    /\ stop = "ready_for_test" => \A s \in Submissions : Looked(s)
    /\ NothingLeftUnread

\* Over an attempt that is closed, the loop gets to a reason other than
\* "failure": at once, or through a drain that evaluates nothing.
ClosedRight ==
    /\ pc = "off" => final = None
    /\ closed \notin {"open", "failure"} /\ pc \notin {"off", "result", "done"} =>
         /\ stop # "failure"
         /\ closed # "ready_for_test" => pc \in {"top", "close", "seal"}
         /\ closed # "ready_for_test" /\ pc = "top" => closed \in {"time_limit", "user_stop"}
         /\ closed = "ready_for_test" => final \in {None, "ready_for_test"}

CloseInv == SessionQuiet /\ ReasonsRight /\ SealRight /\ ReadRight /\ ClosedRight

\* The invariant holds before the loop is first started.
LEMMA InitClose == Init => CloseInv
BY DEF Init, SessionInit, CloseInv, SessionQuiet, Holds, ReasonsRight, SealRight,
       CloseIsQuiescent, ReadRight, Looked, NothingLeftUnread, ClosedRight, None, Working,
       StopReasons

-----------------------------------------------------------------------------
(* What a step can change. *)

\* The actions that touch the agent's session.
SessionStep ==
    Crash \/ SealRaises \/ AgentEnds \/ PollAgent \/ CloseAttempt \/ StopValidation

LEMMA Frame ==
    ASSUME IInv, [Next]_vars
    PROVE  /\ UNCHANGED sessionVars \/ SessionStep
           /\ content' = content \/ AgentAlive
           /\ (expired => expired') /\ (stopFile => stopFile')
           /\ faults' \in {faults, faults + 1}
           /\ ledger' = ledger \/ Persist
           /\ closed' = closed \/ Seal
<1>1. CASE Start \/ CheckStop \/ BeginDrain \/ EndDrain \/ LimitStopsDrain
  BY <1>1 DEF Start, CheckStop, BeginDrain, EndDrain, LimitStopsDrain, AtItem, coreFiles,
              agentFiles, history
<1>2. CASE LookAtItem
  BY <1>2 DEF LookAtItem, SkipKnown, RejectSubmission, StopBeforeValidation,
              StartValidation, Item, AtItem, agentFiles, history
<1>3. CASE StopValidation \/ ReceiveVerdict \/ WriteFeedback \/ SaveCandidate \/ SaveReport
  BY <1>3 DEF SessionStep, StopValidation, ReceiveVerdict, WriteFeedback, SaveCandidate,
              SaveReport, agentFiles, history
<1>4. CASE WriteFailureFeedback \/ Persist \/ PollAgent
  BY <1>4 DEF SessionStep, WriteFailureFeedback, Persist, PollAgent, coreFiles, agentFiles,
              history
<1>5. CASE CloseAttempt \/ Seal \/ WriteResult
  BY <1>5 DEF SessionStep, CloseAttempt, Seal, WriteResult, agentFiles, history
<1>6. CASE ChildStep
  <2>1. UNCHANGED <<sessionVars, agentFiles, coreFiles, faults>>
    BY <1>6 DEF ChildStep, ChildFreezes, ChildReports, ChildFails, ChildDies, history
  <2> QED
    BY <2>1 DEF coreFiles, agentFiles
<1>7. CASE EnvironmentStep
  <2>1. UNCHANGED <<coreFiles, faults>>
    BY <1>7 DEF EnvironmentStep, EditSubmission, ReportUsage, LinkWorkspace, AgentEnds, TimeRunsOut,
                UserStops, history
  <2>2. UNCHANGED sessionVars \/ SessionStep
    BY <1>7 DEF EnvironmentStep, EditSubmission, ReportUsage, LinkWorkspace, TimeRunsOut,
                UserStops, SessionStep
  <2>3. /\ content' = content \/ AgentAlive
        /\ (expired => expired') /\ (stopFile => stopFile')
    BY <1>7 DEF EnvironmentStep, EditSubmission, ReportUsage, LinkWorkspace, AgentEnds, TimeRunsOut,
                UserStops, agentFiles
  <2> QED
    BY <2>1, <2>2, <2>3 DEF coreFiles
<1>8. CASE Fault
  BY <1>8 DEF Fault, WriteFails, Crash, SealRaises, LoseMemory, SessionStep, coreFiles,
              agentFiles, history
<1>9. CASE UNCHANGED vars
  BY <1>9 DEF vars, coreFiles, agentFiles, history
<1> QED
  BY <1>1, <1>2, <1>3, <1>4, <1>5, <1>6, <1>7, <1>8, <1>9 DEF Next, CoreStep

\* An operation on the session, seen from its record.
LEMMA SessionOperation ==
    ASSUME SessionTypeOK, SessionQuiet, NEW reason,
           faults' = faults, faults \in Nat,
           Poll \/ Stop(reason)
    PROVE  /\ SessionQuiet'
           /\ record = "completed" /\ Poll => record' = "completed"
           /\ record' = "timed_out" => record = "timed_out" \/ reason = "time_limit" \/ Poll
           /\ record' = "timed_out" /\ Poll => record = "timed_out"
           /\ (token' \/ faults' = 0) /\ Stop(reason) => ~AgentAlive'
           /\ Stop(reason) => ~live' /\ record' # "running"
           /\ AgentAlive' => AgentAlive
           /\ token' = token
BY DEF SessionTypeOK, SessionQuiet, Poll, PollOwnChild, PollRecorded, Stop, StopOwnChild,
       StopRecorded, StoppedStatus, ExitStatus, KillGroup, AgentAlive, sessionVars,
       LeaderStates, RecordStates, Terminal

\* Core's crash and the agent's own end, likewise.
LEMMA SessionAccident ==
    ASSUME SessionTypeOK, SessionQuiet, faults \in Nat,
           (AgentExits /\ faults' = faults) \/ (ForgetProcess /\ faults' = faults + 1)
    PROVE  /\ SessionQuiet' /\ record' = record /\ token' = token
           /\ AgentAlive' => AgentAlive
BY DEF SessionTypeOK, SessionQuiet, AgentExits, ForgetProcess, AgentAlive, LeaderStates,
       RecordStates, Terminal

\* No step gives the agent life again, or takes away a record of its success
\* that the loop has seen.
LEMMA SessionStepRight ==
    ASSUME IInv, CloseInv, [Next]_vars
    PROVE  /\ SessionQuiet'
           /\ AgentAlive' => AgentAlive
           /\ token' = token
           /\ record' = "timed_out" => expired'
           /\ record = "completed" /\ (StopValidation => handle # "running")
                => record' = "completed"
<1>1. /\ SessionTypeOK /\ SessionQuiet /\ faults \in Nat
      /\ (record = "timed_out" => expired) /\ (expired => expired')
      /\ Holds(stop)
  BY Frame DEF IInv, TypeOK, CloseInv, ReasonsRight
<1>2. CASE UNCHANGED sessionVars
  BY <1>1, <1>2, Frame DEF sessionVars, SessionQuiet, AgentAlive
<1>3. CASE Crash \/ SealRaises
  <2>1. CASE Crash
    BY <1>1, <2>1, SessionAccident DEF Crash, LoseMemory, agentFiles
  <2>2. CASE SealRaises
    <3>1. ~live /\ ForgetProcess
      BY <2>2 DEF SealRaises, LoseMemory, CloseInv, SealRight
    <3>2. UNCHANGED sessionVars
      BY <1>1, <3>1 DEF SessionTypeOK, ForgetProcess, sessionVars
    <3> QED
      BY <1>2, <3>2
  <2> QED
    BY <1>3, <2>1, <2>2
<1>4. CASE AgentEnds
  BY <1>1, <1>4, SessionAccident DEF AgentEnds, history
<1>5. CASE PollAgent
  BY <1>1, <1>5, SessionOperation DEF PollAgent, history
<1>6. CASE CloseAttempt
  <2>1. CASE live \/ record = "running"
    <3>1. Stop(stop) /\ faults' = faults
      BY <1>6, <2>1 DEF CloseAttempt, history
    <3>2. record # "completed"
      BY <1>1, <2>1 DEF SessionQuiet
    <3> QED
      BY <1>1, <3>1, <3>2, SessionOperation DEF Holds
  <2>2. CASE ~(live \/ record = "running")
    BY <1>1, <1>6, <2>2, <1>2 DEF CloseAttempt
  <2> QED
    BY <2>1, <2>2
<1>7. CASE StopValidation
  <2>1. CASE handle = "running"
    <3>1. Stop(StopReason) /\ faults' = faults
      BY <1>7, <2>1 DEF StopValidation, StopRunningAgent, history
    <3>2. StopReason = "time_limit" => expired
      BY DEF StopReason, None
    <3> QED
      BY <1>1, <1>7, <2>1, <3>1, <3>2, SessionOperation
  <2>2. CASE handle # "running"
    BY <1>7, <2>2, <1>2 DEF StopValidation, StopRunningAgent
  <2> QED
    BY <2>1, <2>2
<1> QED
  BY <1>2, <1>3, <1>4, <1>5, <1>6, <1>7, Frame DEF SessionStep

-----------------------------------------------------------------------------
(* One step keeps the grounds. *)

\* A ground stays, a success record at least while nothing is validated.
LEMMA GroundStays ==
    ASSUME IInv, CloseInv, [Next]_vars, NEW reason, Holds(reason),
           reason = "ready_for_test" => ~StopValidation \/ handle # "running"
    PROVE  Holds(reason)'
<1>1. (expired => expired') /\ (stopFile => stopFile')
  BY Frame
<1>2. coreCost >= CostLimit => coreCost' >= CostLimit
  <2>1. coreCost \in Nat /\ coreCost' \in Nat /\ CostLimit \in Nat
    BY TypeStep, BoundsAssumption DEF IInv, TypeOK
  <2> QED
    BY <2>1, CostStep
<1>3. Len(ledger) >= MaxCandidates => Len(ledger') >= MaxCandidates
  <2>1. ledger' = ledger \/ ledger' = Append(ledger, Entry)
    BY Frame DEF Persist
  <2>2. /\ ledger \in Seq(EntryType) /\ Len(ledger) \in Nat /\ MaxCandidates \in Nat
        /\ ledger' \in Seq(EntryType) /\ Len(ledger') \in Nat
    BY TypeStep, BoundsAssumption DEF IInv, TypeOK
  <2>3. Len(ledger') = Len(ledger) \/ Len(ledger') = Len(ledger) + 1
    BY <2>1, <2>2
  <2> QED
    BY <2>2, <2>3
<1>4. reason = "ready_for_test" => record' = "completed"
  BY SessionStepRight DEF Holds
<1> QED
  BY <1>1, <1>2, <1>3, <1>4 DEF Holds

\* Nothing is validated once there is a stop reason, a close, or the success
\* of an agent that was not restarted over.
LEMMA ReasonsStay ==
    ASSUME IInv, CloseInv, [Next]_vars
    PROVE  /\ Holds(stop)' \/ stop' # stop
           /\ Holds(final)' \/ final' # final
           /\ Holds(pending)' \/ pending' # pending
           /\ Holds(closed)' \/ closed' # closed
<1>1. /\ Holds(stop) /\ Holds(final) /\ Holds(pending) /\ Holds(closed)
      /\ pending # "ready_for_test"
      /\ final = "ready_for_test" => handle # "running"
      /\ stop # None => pc \in Ending
  BY DEF CloseInv, ReasonsRight, StopReasons, None
<1>2. StopValidation => stop # "ready_for_test" /\ closed # "ready_for_test"
  BY <1>1 DEF StopValidation, Ending, IInv, OpenRight, None
<1>3. /\ stop = "ready_for_test" => ~StopValidation \/ handle # "running"
      /\ final = "ready_for_test" => ~StopValidation \/ handle # "running"
      /\ closed = "ready_for_test" => ~StopValidation \/ handle # "running"
  BY <1>1, <1>2
<1>4. ASSUME NEW r, Holds(r), r = "ready_for_test" => ~StopValidation \/ handle # "running"
      PROVE  Holds(r)'
  BY <1>4, GroundStays
<1>5. /\ stop' = stop => Holds(stop)'
      /\ final' = final => Holds(final)'
      /\ pending' = pending => Holds(pending)'
      /\ closed' = closed => Holds(closed)'
  BY <1>1, <1>3, <1>4 DEF Holds
<1> QED
  BY <1>5

\* The ground of a reason in the next state.
HoldsNext(reason) ==
    /\ reason = "time_limit" => expired'
    /\ reason = "user_stop" => stopFile'
    /\ reason = "budget_exhausted" => coreCost' >= CostLimit
    /\ reason = "candidate_limit" => Len(ledger') >= MaxCandidates
    /\ reason = "ready_for_test" => record' = "completed"

\* A limit reason has its ground once the cost is synchronised and what was
\* counted is in the ledger.
LEMMA LimitGround ==
    ASSUME NEW n \in Nat, coreCost' = Synced,
           n >= MaxCandidates => Len(ledger') >= MaxCandidates
    PROVE  /\ HoldsNext(LimitReason(n))
           /\ LimitReason(n) \in {None, "budget_exhausted", "candidate_limit"}
BY DEF LimitReason, HoldsNext, None

\* So has a stop reason.
LEMMA StopGround ==
    ASSUME coreCost' = Synced \/ coreCost' = CostAfterStopReason,
           expired' = expired, stopFile' = stopFile
    PROVE  /\ HoldsNext(StopReason)
           /\ StopReason \in {None, "time_limit", "user_stop", "budget_exhausted"}
BY DEF StopReason, CostAfterStopReason, HoldsNext, None

\* The conjuncts of ReasonsRight about stop, for every step.
LEMMA StopGrounded ==
    ASSUME IInv, CloseInv, [Next]_vars
    PROVE  Holds(stop)' /\ (stop' # None => pc' \in Ending)
<1>1. /\ (stop # None => pc \in Ending) /\ Holds(final) /\ Holds(pending)
      /\ evaluated \in Nat /\ Len(ledger) \in Nat /\ (pc # "off" => evaluated = Len(ledger))
  BY DEF CloseInv, ReasonsRight, IInv, TypeOK, CountRight
<1>2. stop' = stop => Holds(stop)'
  BY ReasonsStay
<1>3. HoldsNext(stop') => Holds(stop)'
  BY DEF HoldsNext, Holds
<1>4. HoldsNext(None)
  BY DEF HoldsNext, None
<1>5. CASE Start
  <2>1. HoldsNext(LimitReason(Len(ledger)))
    BY <1>1, <1>5, LimitGround DEF Start
  <2> QED
    BY <1>3, <1>5, <2>1 DEF Start, Ending
<1>6. CASE CheckStop
  <2>1. HoldsNext(StopReason)
    BY <1>6, StopGround DEF CheckStop, agentFiles
  <2> QED
    BY <1>3, <1>6, <2>1 DEF CheckStop, Ending
<1>7. CASE BeginDrain
  <2>1. HoldsNext(LimitReason(evaluated))
    BY <1>1, <1>7, LimitGround DEF BeginDrain
  <2> QED
    BY <1>1, <1>2, <1>3, <1>7, <2>1 DEF BeginDrain, DrainReturns, Ending
<1>8. CASE EndDrain
  <2>1. ~StopValidation
    BY <1>8 DEF EndDrain, StopValidation
  <2>2. Holds(final)' /\ final' = final
    BY <1>8, <2>1, ReasonsStay DEF EndDrain
  <2>3. HoldsNext(final)
    BY <2>2 DEF Holds, HoldsNext
  <2> QED
    BY <1>3, <1>8, <2>3 DEF EndDrain, DrainReturns, Ending
<1>9. CASE LimitStopsDrain
  <2>1. HoldsNext(LimitReason(evaluated))
    BY <1>1, <1>9, LimitGround DEF LimitStopsDrain, AtItem
  <2> QED
    BY <1>3, <1>9, <2>1 DEF LimitStopsDrain, AtItem, DrainReturns, Ending
<1>10. ASSUME NEW s \in Submissions, NEW d \in Versions \cup {NoDigest}
       PROVE  /\ SkipKnown(s, d) \/ RejectSubmission(s, d) \/ StartValidation(s, d)
                   => Holds(stop)' /\ (stop' # None => pc' \in Ending)
              /\ StopBeforeValidation(s, d) => Holds(stop)' /\ (stop' # None => pc' \in Ending)
  <2>1. CASE SkipKnown(s, d) \/ RejectSubmission(s, d) \/ StartValidation(s, d)
    BY <1>1, <1>2, <2>1
       DEF SkipKnown, RejectSubmission, StartValidation, Item, AtItem, Ending
  <2>2. CASE StopBeforeValidation(s, d)
    <3>1. HoldsNext(StopReason)
      BY <2>2, StopGround DEF StopBeforeValidation, Item, AtItem, agentFiles
    <3> QED
      BY <1>3, <2>2, <3>1 DEF StopBeforeValidation, DrainReturns, Ending
  <2> QED
    BY <2>1, <2>2
<1>11. CASE Persist
  <2>1. pc = "persist" /\ Len(ledger') = Len(ledger) + 1 /\ ~StopValidation
    BY <1>11 DEF Persist, IInv, TypeOK, StopValidation
  <2>2. CASE pending # None
    <3>1. DrainReturns(pending) /\ pending' = pending
      BY <1>11, <2>2 DEF Persist
    <3>2. HoldsNext(pending)
      BY <3>1, ReasonsStay DEF Holds, HoldsNext
    <3> QED
      BY <1>3, <2>2, <3>1, <3>2 DEF DrainReturns, Ending
  <2>3. CASE pending = None /\ LimitReason(evaluated + 1) # None
    <3>1. DrainReturns(LimitReason(evaluated + 1)) /\ coreCost' = Synced
      BY <1>11, <2>3 DEF Persist
    <3>2. HoldsNext(LimitReason(evaluated + 1))
      BY <1>1, <2>1, <3>1, LimitGround
    <3> QED
      BY <1>3, <2>3, <3>1, <3>2 DEF DrainReturns, Ending
  <2>4. CASE pending = None /\ LimitReason(evaluated + 1) = None
    BY <1>1, <1>2, <1>11, <2>1, <2>4 DEF Persist, Ending
  <2> QED
    BY <2>2, <2>3, <2>4
<1>12. CASE StopValidation \/ ReceiveVerdict \/ WriteFeedback \/ SaveCandidate \/ SaveReport
  BY <1>1, <1>2, <1>12
     DEF StopValidation, ReceiveVerdict, WriteFeedback, SaveCandidate, SaveReport, Ending
<1>13. CASE WriteFailureFeedback \/ PollAgent
  BY <1>1, <1>2, <1>13 DEF WriteFailureFeedback, PollAgent, Ending
<1>14. CASE CloseAttempt \/ Seal \/ WriteResult
  BY <1>1, <1>2, <1>14 DEF CloseAttempt, Seal, WriteResult, Ending
<1>15. CASE ChildStep
  BY <1>1, <1>2, <1>15
     DEF ChildStep, ChildFreezes, ChildReports, ChildFails, ChildDies, Ending
<1>16. CASE EnvironmentStep
  <2>1. UNCHANGED <<stop, pc>>
    BY <1>16 DEF EnvironmentStep, EditSubmission, ReportUsage, LinkWorkspace, AgentEnds,
                 TimeRunsOut, UserStops, loopVars
  <2> QED
    BY <1>1, <1>2, <2>1
<1>17. CASE Fault
  BY <1>1, <1>2, <1>3, <1>4, <1>17 DEF Fault, WriteFails, Crash, SealRaises, LoseMemory, Ending
<1>18. CASE UNCHANGED vars
  BY <1>1, <1>2, <1>18 DEF vars, loopVars
<1> QED
  BY <1>5, <1>6, <1>7, <1>8, <1>9, <1>10, <1>11, <1>12, <1>13, <1>14, <1>15, <1>16, <1>17,
     <1>18
     DEF Next, CoreStep, LookAtItem

\* Which steps set the loop's other reasons.
LEMMA ReasonFrame ==
    ASSUME [Next]_vars
    PROVE  /\ UNCHANGED <<final, handle>> \/ PollAgent \/ Crash \/ SealRaises
                \/ (StopValidation /\ final' = final)
           /\ pending' = pending \/ StopValidation \/ Crash \/ SealRaises
<1>1. CASE Start \/ CheckStop \/ BeginDrain \/ EndDrain \/ LimitStopsDrain
  BY <1>1 DEF Start, CheckStop, BeginDrain, EndDrain, LimitStopsDrain, AtItem
<1>2. CASE LookAtItem
  BY <1>2 DEF LookAtItem, SkipKnown, RejectSubmission, StopBeforeValidation,
              StartValidation, Item, AtItem
<1>3. CASE StopValidation \/ ReceiveVerdict \/ WriteFeedback \/ SaveCandidate \/ SaveReport
  BY <1>3 DEF StopValidation, ReceiveVerdict, WriteFeedback, SaveCandidate, SaveReport
<1>4. CASE WriteFailureFeedback \/ Persist \/ PollAgent
  BY <1>4 DEF WriteFailureFeedback, Persist, PollAgent
<1>5. CASE CloseAttempt \/ Seal \/ WriteResult
  BY <1>5 DEF CloseAttempt, Seal, WriteResult
<1>6. CASE ChildStep
  BY <1>6 DEF ChildStep, ChildFreezes, ChildReports, ChildFails, ChildDies
<1>7. CASE EnvironmentStep
  BY <1>7 DEF EnvironmentStep, EditSubmission, ReportUsage, LinkWorkspace, AgentEnds, TimeRunsOut,
              UserStops, loopVars
<1>8. CASE Fault
  BY <1>8 DEF Fault, WriteFails
<1>9. CASE UNCHANGED vars
  BY <1>9 DEF vars, loopVars
<1> QED
  BY <1>1, <1>2, <1>3, <1>4, <1>5, <1>6, <1>7, <1>8, <1>9 DEF Next, CoreStep

\* One step keeps the grounds of all reasons.
LEMMA ReasonsStep ==
    ASSUME IInv, CloseInv, [Next]_vars
    PROVE  ReasonsRight'
<1>1. Holds(stop)' /\ (stop' # None => pc' \in Ending)
  BY StopGrounded
<1>2. record' = "timed_out" => expired'
  BY SessionStepRight
<1>3. /\ pending \in StopReasons \cup {None} /\ Holds(stop)
      /\ final = "ready_for_test" => handle = "completed"
  BY DEF CloseInv, ReasonsRight
<1>4. /\ HoldsNext(None)
      /\ HoldsNext(final') => Holds(final)'
      /\ HoldsNext(pending') => Holds(pending)'
      /\ HoldsNext(closed') => Holds(closed)'
  BY DEF Holds, HoldsNext, None
<1>5. Holds(final)' /\ (final' = "ready_for_test" => handle' = "completed")
  <2>1. CASE UNCHANGED <<final, handle>>
    BY <1>3, <2>1, ReasonsStay
  <2>2. CASE PollAgent
    <3>1. CASE record' \in Terminal
      <4>1. final' = CloseReasonFor(record') /\ handle' = record'
        BY <2>2, <3>1 DEF PollAgent
      <4>2. HoldsNext(final')
        BY <1>2, <4>1 DEF CloseReasonFor, HoldsNext
      <4> QED
        BY <1>4, <4>1, <4>2 DEF CloseReasonFor
    <3>2. CASE record' \notin Terminal
      <4>1. final' = final /\ handle' = record' /\ ~StopValidation
        BY <2>2, <3>2 DEF PollAgent, StopValidation
      <4>2. Holds(final)'
        BY <4>1, ReasonsStay
      <4>3. final = "ready_for_test" => record' = "completed"
        BY <4>1, <4>2 DEF Holds
      <4> QED
        BY <4>1, <4>2, <4>3
    <3> QED
      BY <3>1, <3>2
  <2>3. CASE Crash \/ SealRaises
    BY <1>4, <2>3 DEF Crash, SealRaises, LoseMemory, None
  <2>4. CASE StopValidation /\ final' = final
    BY <1>3, <2>4, ReasonsStay DEF StopValidation, StopRunningAgent
  <2> QED
    BY <2>1, <2>2, <2>3, <2>4, ReasonFrame
<1>6. Holds(pending)' /\ pending' \in StopReasons \cup {None}
  <2>1. CASE pending' = pending
    BY <1>3, <2>1, ReasonsStay
  <2>2. CASE StopValidation
    <3>1. HoldsNext(StopReason) /\ StopReason \in StopReasons \cup {None}
      BY <2>2, StopGround DEF StopValidation, agentFiles, StopReasons, None
    <3>2. pending' = pending \/ pending' = StopReason
      BY <2>2 DEF StopValidation, StopRunningAgent
    <3> QED
      BY <1>3, <1>4, <2>1, <3>1, <3>2
  <2>3. CASE Crash \/ SealRaises
    BY <1>4, <2>3 DEF Crash, SealRaises, LoseMemory
  <2> QED
    BY <2>1, <2>2, <2>3, ReasonFrame
<1>7. Holds(closed)'
  <2>1. CASE closed' = closed
    BY <2>1, ReasonsStay
  <2>2. CASE Seal
    <3>1. HoldsNext(stop)
      <4>1. stop' = stop
        BY <2>2 DEF Seal
      <4> QED
        BY <1>1, <4>1 DEF Holds, HoldsNext
    <3> QED
      BY <1>4, <2>2, <3>1 DEF Seal
  <2> QED
    BY <2>1, <2>2, Frame
<1> QED
  BY <1>1, <1>2, <1>5, <1>6, <1>7 DEF ReasonsRight

-----------------------------------------------------------------------------
(* One step keeps the quiet, what was read, and the close. *)

\* The steps into and out of the close.
LEMMA EndingFrame ==
    ASSUME [Next]_vars
    PROVE  /\ pc' = "seal" => CloseAttempt \/ (pc = "seal" /\ closed' = closed)
           /\ Seal => pc = "seal"
<1>1. CASE Start \/ CheckStop \/ BeginDrain \/ EndDrain \/ LimitStopsDrain
  BY <1>1 DEF Start, CheckStop, BeginDrain, EndDrain, LimitStopsDrain, AtItem, DrainReturns,
              Seal
<1>2. CASE LookAtItem
  BY <1>2 DEF LookAtItem, SkipKnown, RejectSubmission, StopBeforeValidation,
              StartValidation, Item, AtItem, DrainReturns, Seal
<1>3. CASE StopValidation \/ ReceiveVerdict \/ WriteFeedback \/ SaveCandidate \/ SaveReport
  BY <1>3 DEF StopValidation, ReceiveVerdict, WriteFeedback, SaveCandidate, SaveReport, Seal
<1>4. CASE WriteFailureFeedback \/ Persist \/ PollAgent
  BY <1>4 DEF WriteFailureFeedback, Persist, PollAgent, DrainReturns, Seal
<1>5. CASE CloseAttempt \/ Seal \/ WriteResult
  BY <1>5 DEF CloseAttempt, Seal, WriteResult
<1>6. CASE ChildStep
  BY <1>6 DEF ChildStep, ChildFreezes, ChildReports, ChildFails, ChildDies, coreFiles, Seal
<1>7. CASE EnvironmentStep
  BY <1>7 DEF EnvironmentStep, EditSubmission, ReportUsage, LinkWorkspace, AgentEnds, TimeRunsOut,
              UserStops, loopVars, coreFiles, Seal
<1>8. CASE Fault
  BY <1>8 DEF Fault, WriteFails, Crash, SealRaises, LoseMemory, Seal
<1>9. CASE UNCHANGED vars
  BY <1>9 DEF vars, loopVars, coreFiles, Seal
<1> QED
  BY <1>1, <1>2, <1>3, <1>4, <1>5, <1>6, <1>7, <1>8, <1>9 DEF Next, CoreStep

\* The session is ended before the seal, and stays so.
LEMMA SealStep ==
    ASSUME IInv, CloseInv, [Next]_vars
    PROVE  SealRight'
<1>1. /\ SessionTypeOK /\ SessionQuiet /\ SealRight /\ faults \in Nat
      /\ closed # "open" /\ (token \/ faults = 0) => ~AgentAlive
  BY DEF CloseInv, IInv, TypeOK, SealRight, CloseIsQuiescent
<1>2. token' = token /\ (AgentAlive' => AgentAlive) /\ (faults' = 0 => faults = 0)
  BY <1>1, Frame, SessionStepRight
<1>3. pc' = "seal" /\ (token' \/ faults' = 0) => ~AgentAlive'
  <2>1. CASE CloseAttempt
    <3>1. CASE live \/ record = "running"
      <4>1. Stop(stop) /\ faults' = faults
        BY <2>1, <3>1 DEF CloseAttempt, history
      <4> QED
        BY <1>1, <4>1, SessionOperation
    <3>2. CASE ~(live \/ record = "running")
      BY <1>1, <1>2, <3>2 DEF SessionQuiet
    <3> QED
      BY <3>1, <3>2
  <2>2. CASE pc = "seal"
    BY <1>1, <1>2, <2>2 DEF SealRight
  <2> QED
    BY <2>1, <2>2, EndingFrame
<1>4. pc' = "seal" => ~live' /\ record' # "running"
  <2>1. CASE CloseAttempt
    <3>1. CASE live \/ record = "running"
      <4>1. Stop(stop) /\ faults' = faults
        BY <2>1, <3>1 DEF CloseAttempt, history
      <4> QED
        BY <1>1, <4>1, SessionOperation
    <3>2. CASE ~(live \/ record = "running")
      BY <2>1, <3>2 DEF CloseAttempt, sessionVars
    <3> QED
      BY <3>1, <3>2
  <2>2. CASE pc = "seal" /\ pc' = "seal"
    <3>1. ~live /\ record # "running"
      BY <1>1, <2>2 DEF SealRight
    <3>2. UNCHANGED sessionVars \/ AgentEnds
      BY <2>2, Frame DEF SessionStep, Crash, SealRaises, LoseMemory, PollAgent, CloseAttempt,
                         StopValidation
    <3> QED
      BY <3>1, <3>2 DEF AgentEnds, AgentExits, sessionVars
  <2> QED
    BY <2>1, <2>2, EndingFrame
<1>5. closed' # "open" /\ (token' \/ faults' = 0) => ~AgentAlive'
  <2>1. CASE closed' = closed
    BY <1>1, <1>2, <2>1
  <2>2. CASE Seal
    BY <1>1, <1>2, <2>2, EndingFrame DEF SealRight
  <2> QED
    BY <2>1, <2>2, Frame
<1> QED
  BY <1>3, <1>4, <1>5 DEF SealRight, CloseIsQuiescent

\* What is known stays known, and what was looked at stays so while nobody
\* edits it.
LEMMA KnownStays ==
    ASSUME IInv, [Next]_vars
    PROVE  /\ \A s, d : Known(s, d) => Known(s, d)'
           /\ content' = content => \A s : Looked(s) => Looked(s)'
<1>1. ledger \in Seq(EntryType) /\ (ledger' = ledger \/ ledger' = Append(ledger, Entry))
  BY Frame DEF IInv, TypeOK, Persist
<1>2. Entries \subseteq Entries'
  BY <1>1 DEF Entries
<1>3. \A s, d : Known(s, d) => Known(s, d)'
  BY <1>2 DEF Known
<1> QED
  BY <1>3 DEF Looked

\* An agent whose success is known, or acted upon, edits nothing any more.
LEMMA ReadyIsStill ==
    ASSUME IInv, CloseInv, [Next]_vars,
           "ready_for_test" \in {final, stop, closed}
    PROVE  content' = content
<1>1. record = "completed" /\ ~AgentAlive
  BY DEF CloseInv, ReasonsRight, SessionQuiet, Holds
<1> QED
  BY <1>1, Frame

\* The steps that take nothing off the queue of a drain they are part of.
LEMMA QueueFrame ==
    ASSUME IInv, [Next]_vars, final' = "ready_for_test", pc' \in Working \cup {"item"}
    PROVE  \/ BeginDrain /\ pc' = "item" /\ final' = final
           \/ \E s \in Submissions, d \in Versions \cup {NoDigest} :
                (SkipKnown(s, d) \/ RejectSubmission(s, d) \/ StartValidation(s, d))
                  /\ pc = "item" /\ final' = final
           \/ Persist /\ pc = "persist" /\ pc' = "item" /\ final' = final
           \/ /\ pc \in Working \cup {"item"} /\ UNCHANGED <<final, queue>>
              /\ pc' = "item" <=> pc = "item"
              /\ job'.sub = job.sub /\ job'.digest = job.digest
<1> USE DEF Working, None
<1>1. CASE Start \/ CheckStop \/ BeginDrain \/ EndDrain \/ LimitStopsDrain
  BY <1>1 DEF Start, CheckStop, BeginDrain, EndDrain, LimitStopsDrain, AtItem, DrainReturns
<1>2. CASE LookAtItem
  BY <1>2 DEF LookAtItem, SkipKnown, RejectSubmission, StopBeforeValidation,
              StartValidation, Item, AtItem, DrainReturns
<1>3. CASE StopValidation \/ ReceiveVerdict \/ WriteFeedback \/ SaveCandidate \/ SaveReport
  BY <1>3 DEF StopValidation, ReceiveVerdict, WriteFeedback, SaveCandidate, SaveReport
<1>4. CASE Persist
  BY <1>4 DEF Persist, DrainReturns
<1>5. CASE WriteFailureFeedback \/ WriteFails
  <2>1. job'.sub = job.sub /\ job'.digest = job.digest
    BY <1>5 DEF WriteFailureFeedback, WriteFails, Work, NoJob, IInv, TypeOK, JobType
  <2> QED
    BY <1>5, <2>1 DEF WriteFailureFeedback, WriteFails
<1>6. CASE PollAgent \/ CloseAttempt \/ Seal \/ WriteResult \/ Crash \/ SealRaises
  BY <1>6 DEF PollAgent, CloseAttempt, Seal, WriteResult, Crash, SealRaises, LoseMemory
<1>7. CASE ChildStep
  <2>1. UNCHANGED <<final, queue>> /\ pc \in Working /\ pc' \in Working
    BY <1>7 DEF ChildStep, ChildFreezes, ChildReports, ChildFails, ChildDies
  <2>2. job'.sub = job.sub /\ job'.digest = job.digest
    BY <1>7 DEF ChildStep, ChildFreezes, ChildReports, ChildFails, ChildDies, IInv, TypeOK,
                JobType
  <2> QED
    BY <2>1, <2>2
<1>8. CASE EnvironmentStep
  BY <1>8 DEF EnvironmentStep, EditSubmission, ReportUsage, LinkWorkspace, AgentEnds, TimeRunsOut,
              UserStops, loopVars
<1>9. CASE UNCHANGED vars
  BY <1>9 DEF vars, loopVars
<1> QED
  BY <1>1, <1>2, <1>3, <1>4, <1>5, <1>6, <1>7, <1>8, <1>9 DEF Next, CoreStep, Fault

\* A drain begun after the agent's success leaves nothing out.
LEMMA DrainReads ==
    ASSUME IInv, CloseInv, [Next]_vars,
           final' = "ready_for_test", pc' \in Working \cup {"item"}
    PROVE  /\ \A s \in Submissions : s \in queue' \/ Looked(s)'
           /\ pc' \in Working => job'.digest = Digest(content'[job'.sub])
<1>1. CASE BeginDrain /\ pc' = "item" /\ final' = final
  <2>1. content' = content
    BY <1>1, ReadyIsStill
  <2>2. queue' = {s \in Submissions : content[s] # 0}
    BY <1>1 DEF BeginDrain, DrainReturns
  <2> QED
    BY <1>1, <2>1, <2>2 DEF Looked, Working
<1>2. ASSUME NEW s \in Submissions, NEW d \in Versions \cup {NoDigest},
             SkipKnown(s, d) \/ RejectSubmission(s, d) \/ StartValidation(s, d),
             pc = "item", final' = final
      PROVE  /\ \A t \in Submissions : t \in queue' \/ Looked(t)'
             /\ pc' \in Working => job'.digest = Digest(content'[job'.sub])
  <2>1. content' = content
    BY <1>2, ReadyIsStill
  <2>2. \A t \in Submissions : t \in queue \/ Looked(t)
    BY <1>2 DEF CloseInv, ReadRight
  <2>3. \A t \in Submissions : Looked(t) => Looked(t)'
    BY <2>1, KnownStays
  <2>4. CASE SkipKnown(s, d)
    <3>1. Looked(s) /\ queue' = queue \ {s} /\ pc' = pc
      BY <2>4 DEF SkipKnown, Item, Looked
    <3> QED
      BY <1>2, <2>2, <2>3, <3>1 DEF Working
  <2>5. CASE RejectSubmission(s, d) \/ StartValidation(s, d)
    <3>1. queue' = queue /\ job' = Work(s, d) /\ d = Digest(content[s])
      BY <2>5 DEF RejectSubmission, StartValidation, Item
    <3> QED
      BY <2>1, <2>2, <2>3, <3>1 DEF Work, NoJob
  <2> QED
    BY <1>2, <2>4, <2>5
<1>3. CASE Persist /\ pc = "persist" /\ pc' = "item" /\ final' = final
  <2>1. /\ queue' = queue \ {job.sub} /\ ledger' = Append(ledger, Entry)
        /\ ledger \in Seq(EntryType)
    BY <1>3 DEF Persist, DrainReturns, IInv, TypeOK
  <2>2. content' = content
    BY <1>3, ReadyIsStill
  <2>3. \A t \in Submissions : t \in queue \/ Looked(t)
    BY <1>3 DEF CloseInv, ReadRight, Working
  <2>4. job.digest = Digest(content[job.sub])
    BY <1>3 DEF CloseInv, ReadRight, Working
  <2>5. Entry \in Entries'
    BY <2>1 DEF Entries
  <2>6. ASSUME NEW t \in Submissions, t = job.sub
        PROVE  Looked(t)'
    <3>1. Entry.sub = t /\ Entry.digest = Digest(content[t])
      BY <2>4, <2>6 DEF Entry
    <3>2. \E e \in Entries' : e.sub = t /\ e.digest = Digest(content'[t])
      BY <2>2, <2>5, <3>1
    <3> QED
      BY <3>2 DEF Looked, Known
  <2>7. \A t \in Submissions : Looked(t) => Looked(t)'
    BY <2>2, KnownStays
  <2> QED
    BY <1>3, <2>1, <2>3, <2>6, <2>7 DEF Working
<1>4. CASE /\ pc \in Working \cup {"item"} /\ UNCHANGED <<final, queue>>
           /\ pc' = "item" <=> pc = "item"
           /\ job'.sub = job.sub /\ job'.digest = job.digest
  <2>1. content' = content
    BY <1>4, ReadyIsStill
  <2>2. \A t \in Submissions : t \in queue \/ Looked(t)
    BY <1>4 DEF CloseInv, ReadRight
  <2>3. pc' \in Working => job.digest = Digest(content[job.sub])
    BY <1>4 DEF CloseInv, ReadRight, Working
  <2> QED
    BY <1>4, <2>1, <2>2, <2>3, KnownStays
<1> QED
  BY <1>1, <1>2, <1>3, <1>4, QueueFrame

\* Where a stop reason comes from, one that a drain's return sets included.
LEMMA StopFrame ==
    ASSUME IInv, CloseInv, [Next]_vars
    PROVE  \/ stop' = stop
           \/ EndDrain /\ stop' = final
           \/ stop' \in StopReasons \cup {None}
<1>1. /\ LimitReason(Len(ledger)) \in StopReasons \cup {None}
      /\ LimitReason(evaluated) \in StopReasons \cup {None}
      /\ LimitReason(evaluated + 1) \in StopReasons \cup {None}
      /\ StopReason \in StopReasons \cup {None}
      /\ pending \in StopReasons \cup {None}
  BY DEF LimitReason, StopReason, StopReasons, CloseInv, ReasonsRight
<1>2. CASE Start \/ CheckStop
  BY <1>1, <1>2 DEF Start, CheckStop
<1>3. CASE BeginDrain
  BY <1>1, <1>3 DEF BeginDrain, DrainReturns
<1>4. CASE EndDrain
  BY <1>4 DEF EndDrain, DrainReturns
<1>5. CASE LimitStopsDrain
  BY <1>1, <1>5 DEF LimitStopsDrain, DrainReturns
<1>6. CASE LookAtItem
  BY <1>1, <1>6 DEF LookAtItem, SkipKnown, RejectSubmission, StopBeforeValidation,
              StartValidation, DrainReturns
<1>7. CASE StopValidation \/ ReceiveVerdict \/ WriteFeedback \/ SaveCandidate \/ SaveReport
  BY <1>7 DEF StopValidation, ReceiveVerdict, WriteFeedback, SaveCandidate, SaveReport
<1>8. CASE Persist
  BY <1>1, <1>8 DEF Persist, DrainReturns
<1>9. CASE WriteFailureFeedback \/ PollAgent \/ CloseAttempt \/ Seal \/ WriteResult
  BY <1>9 DEF WriteFailureFeedback, PollAgent, CloseAttempt, Seal, WriteResult
<1>10. CASE ChildStep
  BY <1>10 DEF ChildStep, ChildFreezes, ChildReports, ChildFails, ChildDies
<1>11. CASE EnvironmentStep
  BY <1>11 DEF EnvironmentStep, EditSubmission, ReportUsage, LinkWorkspace, AgentEnds, TimeRunsOut,
               UserStops, loopVars
<1>12. CASE Fault
  BY <1>12 DEF Fault, WriteFails, Crash, SealRaises, LoseMemory
<1>13. CASE UNCHANGED vars
  BY <1>13 DEF vars, loopVars
<1> QED
  BY <1>2, <1>3, <1>4, <1>5, <1>6, <1>7, <1>8, <1>9, <1>10, <1>11, <1>12, <1>13
     DEF Next, CoreStep

\* One step keeps what was read.
LEMMA ReadStep ==
    ASSUME IInv, CloseInv, [Next]_vars
    PROVE  ReadRight'
<1>1. stop' = "ready_for_test" => \A s \in Submissions : Looked(s)'
  <2> SUFFICES ASSUME stop' = "ready_for_test" PROVE \A s \in Submissions : Looked(s)'
    OBVIOUS
  <2>1. CASE stop' = stop
    BY <2>1, ReadyIsStill, KnownStays DEF CloseInv, ReadRight
  <2>2. CASE EndDrain /\ stop' = final
    <3>1. queue = {} /\ pc = "item"
      BY <2>2 DEF EndDrain
    <3>2. \A s \in Submissions : Looked(s)
      BY <2>2, <3>1 DEF CloseInv, ReadRight
    <3>3. content' = content
      BY <2>2, ReadyIsStill
    <3> QED
      BY <3>2, <3>3, KnownStays
  <2> QED
    BY <2>1, <2>2, StopFrame DEF StopReasons, None
<1>2. closed' = "ready_for_test" => \A s \in Submissions : Looked(s)'
  <2>1. CASE closed' = closed
    <3>1. closed = "ready_for_test" => \A s \in Submissions : Looked(s)
      BY DEF CloseInv, ReadRight, NothingLeftUnread, Looked
    <3> QED
      BY <2>1, <3>1, ReadyIsStill, KnownStays
  <2>2. CASE Seal
    BY <1>1, <2>2 DEF Seal
  <2> QED
    BY <2>1, <2>2, Frame
<1> QED
  BY <1>1, <1>2, DrainReads DEF ReadRight, NothingLeftUnread, Looked

\* One step of a loop over a closed attempt keeps it on its way to a reason
\* that is no failure.
LEMMA ClosedStep ==
    ASSUME IInv, CloseInv, [Next]_vars
    PROVE  ClosedRight'
<1> DEFINE Done == {"off", "result", "done"}
<1>1. /\ (pc = "off" => final = None) /\ (stop # None => pc \in Ending)
      /\ Holds(closed) /\ OpenRight /\ ClosedRight
      /\ pending \in StopReasons \cup {None}
      /\ closed # "open" /\ closed # "failure" => closed \in StopReasons \cup {"ready_for_test"}
  BY DEF CloseInv, ReasonsRight, ClosedRight, IInv, TypeOK, CloseReasons
<1>2. pc' = "off" => final' = None
  <2>1. pc' = "off" => Crash \/ SealRaises \/ (pc = "off" /\ UNCHANGED <<final, pc>>)
    <3>1. CASE EnvironmentStep
      BY <3>1 DEF EnvironmentStep, EditSubmission, ReportUsage, LinkWorkspace, AgentEnds,
                  TimeRunsOut, UserStops, loopVars
    <3>2. CASE ChildStep
      BY <3>2 DEF ChildStep, ChildFreezes, ChildReports, ChildFails, ChildDies
    <3>3. CASE CoreStep
      BY <3>3 DEF CoreStep, Start, CheckStop, BeginDrain, EndDrain, LimitStopsDrain, AtItem,
                  LookAtItem, SkipKnown, RejectSubmission, StopBeforeValidation,
                  StartValidation, Item, DrainReturns, StopValidation, ReceiveVerdict,
                  WriteFeedback, SaveCandidate, SaveReport, WriteFailureFeedback, Persist,
                  PollAgent, CloseAttempt, Seal, WriteResult
    <3>4. CASE UNCHANGED vars
      BY <3>4 DEF vars, loopVars
    <3> QED
      BY <3>1, <3>2, <3>3, <3>4 DEF Next, Fault, WriteFails
  <2> QED
    BY <1>1, <2>1 DEF Crash, SealRaises, LoseMemory
<1>3. ASSUME closed' \notin {"open", "failure"}, pc' \notin Done
      PROVE  /\ stop' # "failure"
             /\ closed' # "ready_for_test" => pc' \in {"top", "close", "seal"}
             /\ closed' # "ready_for_test" /\ pc' = "top" => closed' \in {"time_limit", "user_stop"}
             /\ closed' = "ready_for_test" => final' \in {None, "ready_for_test"}
  <2>1. closed' = closed
    BY <1>3, Frame DEF Seal
  <2>2. closed \in StopReasons \cup {"ready_for_test"} /\ closed # "open"
    BY <1>1, <1>3, <2>1 DEF StopReasons
  <2>3. /\ LimitReason(Len(ledger)) \in StopReasons \cup {None}
        /\ LimitReason(evaluated) \in StopReasons \cup {None}
        /\ LimitReason(evaluated + 1) \in StopReasons \cup {None}
        /\ StopReason \in StopReasons \cup {None}
    BY DEF LimitReason, StopReason, StopReasons
  <2>4. CASE Start
    <3>1. /\ final' = final /\ final = None /\ stop' = LimitReason(Len(ledger))
          /\ (pc' = "top" /\ LimitReason(Len(ledger)) = None) \/ pc' = "close"
      BY <1>1, <2>4 DEF Start
    <3>2. LimitReason(Len(ledger)) = None => closed \notin {"budget_exhausted", "candidate_limit"}
      <4>1. CASE closed = "budget_exhausted"
        <5>1. coreCost >= CostLimit /\ coreCost \in Nat /\ journalCost \in Nat /\ CostLimit \in Nat
          BY <1>1, <4>1, BoundsAssumption DEF Holds, IInv, TypeOK
        <5>2. Synced >= CostLimit
          BY <5>1 DEF Synced
        <5> QED
          BY <5>2 DEF LimitReason, None
      <4>2. CASE closed = "candidate_limit"
        BY <1>1, <4>2 DEF Holds, LimitReason, None
      <4> QED
        BY <4>1, <4>2
    <3> QED
      BY <2>1, <2>2, <2>3, <3>1, <3>2 DEF StopReasons, None
  <2>5. ASSUME pc \notin Done
        PROVE  /\ stop # "failure"
               /\ closed # "ready_for_test" => pc \in {"top", "close", "seal"}
               /\ closed # "ready_for_test" /\ pc = "top" => closed \in {"time_limit", "user_stop"}
               /\ closed = "ready_for_test" => final \in {None, "ready_for_test"}
    BY <1>1, <1>3, <2>1, <2>5 DEF ClosedRight
  <2>6. CASE CheckStop
    <3>1. stop' = StopReason /\ final' = final /\ pc = "top"
          /\ (StopReason # None => pc' = "close") /\ pc' \in {"drain", "close"}
      BY <2>6 DEF CheckStop
    <3>2. closed \in {"time_limit", "user_stop"} => StopReason # None
      BY <1>1 DEF Holds, StopReason, None
    <3> QED
      BY <2>1, <2>3, <2>5, <3>1, <3>2 DEF StopReasons, None
  <2>7. CASE BeginDrain \/ EndDrain \/ LimitStopsDrain \/ LookAtItem \/ Persist
    <3>1. pc \in {"drain", "item", "persist"} /\ final' = final
      BY <2>7 DEF BeginDrain, EndDrain, LimitStopsDrain, AtItem, LookAtItem, SkipKnown,
                  RejectSubmission, StopBeforeValidation, StartValidation, Item, Persist
    <3>2. closed = "ready_for_test" /\ final \in {None, "ready_for_test"} /\ stop # "failure"
      BY <2>5, <3>1
    <3> QED
      BY <2>1, <3>1, <3>2, StopFrame DEF StopReasons, None
  <2>8. CASE StopValidation \/ ReceiveVerdict \/ WriteFeedback \/ SaveCandidate \/ SaveReport
    BY <1>1, <2>2, <2>8
       DEF StopValidation, ReceiveVerdict, WriteFeedback, SaveCandidate, SaveReport, OpenRight
  <2>9. CASE WriteFailureFeedback
    BY <2>1, <2>5, <2>9 DEF WriteFailureFeedback
  <2>10. CASE PollAgent
    <3>1. closed = "ready_for_test" /\ stop' = stop /\ stop # "failure" /\ ~StopValidation
      BY <2>5, <2>10 DEF PollAgent, StopValidation
    <3>2. record' = "completed"
      BY <1>1, <3>1, SessionStepRight DEF Holds
    <3> QED
      BY <2>1, <2>10, <3>1, <3>2 DEF PollAgent, Terminal, CloseReasonFor
  <2>11. CASE CloseAttempt \/ Seal \/ WriteResult
    BY <1>3, <2>1, <2>5, <2>11 DEF CloseAttempt, Seal, WriteResult
  <2>12. CASE ChildStep
    BY <1>1, <2>2, <2>12
       DEF ChildStep, ChildFreezes, ChildReports, ChildFails, ChildDies, OpenRight
  <2>13. CASE EnvironmentStep
    <3>1. UNCHANGED <<pc, stop, final>>
      BY <2>13 DEF EnvironmentStep, EditSubmission, ReportUsage, LinkWorkspace, AgentEnds,
                   TimeRunsOut, UserStops, loopVars
    <3> QED
      BY <1>3, <2>1, <2>5, <3>1
  <2>14. CASE Fault
    BY <1>1, <1>3, <2>1, <2>2, <2>5, <2>14 DEF Fault, WriteFails, Crash, SealRaises, LoseMemory,
                                               OpenRight
  <2>15. CASE UNCHANGED vars
    <3>1. UNCHANGED <<pc, stop, final>>
      BY <2>15 DEF vars, loopVars
    <3> QED
      BY <1>3, <2>1, <2>5, <3>1
  <2> QED
    BY <2>4, <2>6, <2>7, <2>8, <2>9, <2>10, <2>11, <2>12, <2>13, <2>14, <2>15
       DEF Next, CoreStep
<1> QED
  BY <1>2, <1>3 DEF ClosedRight

\* The invariant is inductive.
LEMMA CloseStep == IInv /\ CloseInv /\ [Next]_vars => CloseInv'
BY SessionStepRight, ReasonsStep, SealStep, ReadStep, ClosedStep DEF CloseInv

\* Both invariants hold in every reachable state.
LEMMA CloseAlways == Spec => [](IInv /\ CloseInv)
<1>1. Init => IInv /\ CloseInv
  BY InitIInv, InitClose
<1>2. (IInv /\ CloseInv) /\ [Next]_vars => (IInv /\ CloseInv)'
  BY IInvStep, CloseStep
<1> QED
  BY <1>1, <1>2, PTL DEF Spec

\* Whatever path ends the attempt, polled, stopped or found dead after a crash:
\* when closed.json is there, no agent process can change the workspace.
THEOREM ClosedIsQuiet == Spec => []CloseIsQuiescent
<1>1. CloseInv => CloseIsQuiescent
  BY DEF CloseInv, SealRight
<1> QED
  BY <1>1, CloseAlways, PTL

\* However the agent's last edits and its end interleave with the drains: an
\* attempt closed as ready for test has an entry for every READY content.
THEOREM ReadyIsRead == Spec => []NothingLeftUnread
<1>1. CloseInv => NothingLeftUnread
  BY DEF CloseInv, ReadRight
<1> QED
  BY <1>1, CloseAlways, PTL

\* However often the loop is resumed over it, an attempt that was closed for
\* another reason is not closed anew as a failure.
THEOREM NeverTurnsToFailure == Spec => ClosedStaysClosed
<1>1. IInv /\ CloseInv /\ [Next]_vars
        => [closed \notin {"open", "failure"} => closed' # "failure"]_vars
  <2> SUFFICES ASSUME IInv, CloseInv, [Next]_vars, closed \notin {"open", "failure"}
               PROVE  closed' # "failure"
    OBVIOUS
  <2>1. CASE closed' = closed
    BY <2>1
  <2>2. CASE Seal
    BY <2>2 DEF Seal, CloseInv, ClosedRight
  <2> QED
    BY <2>1, <2>2, Frame
<1> QED
  BY <1>1, CloseAlways, PTL DEF Spec, ClosedStaysClosed

\* closed.json does not lie: the reason it states was true when it was written
\* and is still true whenever it is read, across crashes and resumed loops.
THEOREM ReasonIsTrue ==
    Spec => [](/\ closed = "time_limit" => expired
               /\ closed = "user_stop" => stopFile
               /\ closed = "budget_exhausted" => coreCost >= CostLimit
               /\ closed = "candidate_limit" => Len(ledger) >= MaxCandidates
               /\ closed = "ready_for_test" => record = "completed")
<1> DEFINE Grounded == /\ closed = "time_limit" => expired
                       /\ closed = "user_stop" => stopFile
                       /\ closed = "budget_exhausted" => coreCost >= CostLimit
                       /\ closed = "candidate_limit" => Len(ledger) >= MaxCandidates
                       /\ closed = "ready_for_test" => record = "completed"
<1>1. CloseInv => Grounded
  BY DEF CloseInv, ReasonsRight, Holds
<1> QED
  BY <1>1, CloseAlways, PTL

-----------------------------------------------------------------------------
(* A failed attempt. *)

\* Without a fault Core is the agent's parent until it has polled its end, or
\* stopped it for a reason that is pending or closes the attempt; so a failure
\* is the exit code of the agent.  A record that says the agent was stopped has a
\* reason that a resumed loop finds again before it polls.
Stopped == record \in {"stopped", "timed_out"}
Limit   == coreCost >= CostLimit \/ Len(ledger) >= MaxCandidates
StoppedRight ==
    Stopped =>
        /\ expired \/ stopFile \/ Limit
        /\ pc \in {"off", "top", "failure", "persist"} \cup Ending
        /\ pc \in {"failure", "persist"} => pending # None
        /\ pc = "top" => expired \/ stopFile

FailureInv ==
    faults = 0 =>
        /\ live => leader # "killed"
        /\ record = "failed" => leader = "failed"
        /\ pending # None => pc \in {"failure", "persist"} \cup Ending
        /\ final # None => pc \notin {"off", "top", "poll"}
        /\ "failure" \in {final, stop, closed} => leader = "failed"
        /\ StoppedRight

\* The invariant holds before the loop is first started.
LEMMA InitFailure == Init => FailureInv
BY DEF Init, SessionInit, FailureInv, StoppedRight, Stopped, None

\* Stop and limit reasons are no failures.
LEMMA NoFailure ==
    ASSUME NEW n
    PROVE  StopReason # "failure" /\ LimitReason(n) # "failure"
BY DEF StopReason, LimitReason, None

\* No ground of a stop goes away.
LEMMA GroundsStay ==
    ASSUME IInv, CloseInv, [Next]_vars
    PROVE  /\ expired \/ stopFile => expired' \/ stopFile'
           /\ Limit => Limit'
<1>1. coreCost >= CostLimit => coreCost' >= CostLimit
  BY GroundStays DEF Holds
<1>2. Len(ledger) >= MaxCandidates => Len(ledger') >= MaxCandidates
  BY GroundStays DEF Holds
<1> QED
  BY <1>1, <1>2, Frame DEF Limit

\* Ending the agent for a stop reason, or for the reason of the close, records it
\* as stopped only on that reason's ground.
LEMMA StopHasGround ==
    ASSUME IInv, CloseInv, FailureInv, faults = 0, StopValidation \/ CloseAttempt,
           Stopped', [Next]_vars
    PROVE  expired' \/ stopFile' \/ Limit'
<1>1. CASE Stopped
  BY <1>1, GroundsStay DEF FailureInv, StoppedRight
<1>2. CASE StopValidation
  <2>1. HoldsNext(StopReason) /\ StopReason \in StopReasons
    BY <1>2, StopGround DEF StopValidation, agentFiles, StopReasons
  <2>2. CASE StopReason \in {"time_limit", "user_stop"}
    BY <2>1, <2>2 DEF HoldsNext
  <2>3. CASE StopReason \in {"budget_exhausted", "candidate_limit"}
    BY <2>1, <2>3 DEF HoldsNext, Limit
  <2> QED
    BY <2>1, <2>2, <2>3 DEF StopReasons
<1>3. CASE CloseAttempt /\ ~Stopped
  <2>1. Stop(stop)
    BY <1>3 DEF CloseAttempt, Stopped, sessionVars
  <2>2. /\ SessionTypeOK /\ Holds(stop) /\ stop \in CloseReasons
        /\ live => record = "running"
        /\ ~live => record # "running"
        /\ stop = "failure" => leader = "failed"
    BY <1>3 DEF CloseAttempt, IInv, TypeOK, StopRight, CloseInv, SessionQuiet, ReasonsRight,
                FailureInv
  <2>3. live /\ leader = "running"
    BY <1>3, <2>1, <2>2
       DEF CloseAttempt, Stop, StopOwnChild, StopRecorded, ExitStatus, Stopped, sessionVars
  <2>4. stop \in StopReasons
    BY <2>2, <2>3 DEF CloseReasons, Holds
  <2>5. CASE stop \in {"time_limit", "user_stop"}
    BY <2>2, <2>5, GroundsStay DEF Holds
  <2>6. CASE stop \in {"budget_exhausted", "candidate_limit"}
    BY <2>2, <2>6, GroundsStay DEF Holds, Limit
  <2> QED
    BY <2>4, <2>5, <2>6 DEF StopReasons
<1> QED
  BY <1>1, <1>2, <1>3

\* A loop that finds the agent stopped does not get as far as a drain or a poll.
LEMMA StoppedStep ==
    ASSUME IInv, CloseInv, FailureInv, [Next]_vars, faults = 0, faults' = 0
    PROVE  StoppedRight'
<1>1. /\ StoppedRight
      /\ expired \/ stopFile => expired' \/ stopFile'
      /\ Limit => Limit'
      /\ pending # None => pc \in {"failure", "persist"} \cup Ending
  BY GroundsStay DEF FailureInv
<1>2. CASE Start
  <2>1. UNCHANGED sessionVars /\ pc' \in {"top", "close"} /\ pc = "off"
        /\ (pc' = "top" => LimitReason(Len(ledger)) = None)
    BY <1>2 DEF Start
  <2>2. LimitReason(Len(ledger)) = None => ~Limit
    BY BoundsAssumption DEF LimitReason, Limit, Synced, None, IInv, TypeOK
  <2> QED
    BY <1>1, <2>1, <2>2 DEF StoppedRight, Stopped, sessionVars, Ending
<1>3. CASE CheckStop
  <2>1. UNCHANGED sessionVars /\ pc = "top" /\ (StopReason # None => pc' = "close")
    BY <1>3 DEF CheckStop
  <2>2. expired \/ stopFile => StopReason # None
    BY DEF StopReason, None
  <2> QED
    BY <1>1, <2>1, <2>2 DEF StoppedRight, Stopped, sessionVars, Ending
<1>4. CASE /\ pc \in {"drain", "item", "validating", "feedback", "candidate", "report", "poll"}
           /\ record' \in {record, "completed", "failed"}
  BY <1>1, <1>4 DEF StoppedRight, Stopped, Ending
<1>5. CASE BeginDrain \/ EndDrain \/ LimitStopsDrain \/ LookAtItem
  BY <1>4, <1>5
     DEF BeginDrain, EndDrain, LimitStopsDrain, LookAtItem, SkipKnown, RejectSubmission,
         StopBeforeValidation, StartValidation, Item, AtItem, sessionVars
<1>6. CASE ReceiveVerdict \/ WriteFeedback \/ SaveCandidate \/ SaveReport \/ ChildStep
  BY <1>4, <1>6
     DEF ReceiveVerdict, WriteFeedback, SaveCandidate, SaveReport, ChildStep, ChildFreezes,
         ChildReports, ChildFails, ChildDies, sessionVars
<1>7. CASE PollAgent
  <2>1. record' \in {record, "completed", "failed"}
    BY <1>7 DEF PollAgent, Poll, PollOwnChild, PollRecorded, ExitStatus, sessionVars
  <2> QED
    BY <1>4, <1>7, <2>1 DEF PollAgent
<1>8. CASE WriteFailureFeedback \/ Persist
  <2>1. /\ UNCHANGED <<sessionVars, pending>> /\ pc \in {"failure", "persist"}
        /\ pending # None => pc' \in {"persist", "close"}
    BY <1>8 DEF WriteFailureFeedback, Persist, DrainReturns
  <2> QED
    BY <1>1, <2>1 DEF StoppedRight, Stopped, sessionVars, Ending
<1>9. CASE StopValidation
  <2>1. pc' = "failure" /\ pending' # None
    BY <1>9 DEF StopValidation, StopRunningAgent
  <2> QED
    BY <1>9, <2>1, StopHasGround DEF StoppedRight
<1>10. CASE CloseAttempt
  <2>1. pc' = "seal"
    BY <1>10 DEF CloseAttempt
  <2> QED
    BY <1>10, <2>1, StopHasGround DEF StoppedRight, Ending
<1>11. CASE Seal \/ WriteResult
  <2>1. UNCHANGED sessionVars /\ pc' \in Ending
    BY <1>11 DEF Seal, WriteResult, Ending
  <2> QED
    BY <1>1, <2>1 DEF StoppedRight, Stopped, sessionVars, Ending
<1>12. CASE SealRaises
  <2>1. record' = record /\ pc' = "off"
    BY <1>12 DEF SealRaises, LoseMemory, ForgetProcess
  <2> QED
    BY <1>1, <2>1 DEF StoppedRight, Stopped, Ending
<1>13. CASE EnvironmentStep \/ UNCHANGED vars
  <2>1. UNCHANGED <<record, pc, pending>>
    BY <1>13 DEF EnvironmentStep, EditSubmission, ReportUsage, LinkWorkspace, AgentEnds,
                 AgentExits, TimeRunsOut, UserStops, vars, sessionVars, loopVars
  <2> QED
    BY <1>1, <2>1 DEF StoppedRight, Stopped
<1>14. ~WriteFails /\ ~Crash
  BY DEF WriteFails, Crash
<1> QED
  BY <1>2, <1>3, <1>5, <1>6, <1>7, <1>8, <1>9, <1>10, <1>11, <1>12, <1>13, <1>14
     DEF Next, CoreStep, Fault

\* A step of the loop that touches neither the agent nor its other reasons.
LEMMA QuietFailure ==
    ASSUME FailureInv, faults' = 0 => StoppedRight',
           UNCHANGED <<sessionVars, closed, final, pending, faults>>,
           stop' \in {stop, final} \/ stop' # "failure",
           pending # None => pc' \in {"failure", "persist"} \cup Ending,
           final # None => pc' \notin {"off", "top", "poll"}
    PROVE  FailureInv'
BY DEF FailureInv, sessionVars

\* The poll of an agent, without a fault: it is Core's own child, or it was
\* polled before, by a loop whose close met a symlink.
LEMMA PollFailure ==
    ASSUME IInv, CloseInv, FailureInv, faults' = 0 => StoppedRight', PollAgent
    PROVE  FailureInv'
<1> SUFFICES ASSUME faults' = 0 PROVE FailureInv'
  BY DEF FailureInv
<1>1. /\ faults = 0 /\ pc = "poll" /\ final = None /\ pending = None
      /\ live => leader # "killed"
      /\ record = "failed" => leader = "failed"
      /\ ~Stopped /\ StoppedRight' /\ pending' = pending /\ stop' = stop /\ closed' = closed
      /\ "failure" \in {final, stop, closed} => leader = "failed"
  BY DEF PollAgent, FailureInv, StoppedRight, history, coreFiles, Ending
<1>2. SessionTypeOK /\ (live <=> record = "running")
  BY <1>1 DEF IInv, TypeOK, CloseInv, SessionQuiet
<1>3. live => PollOwnChild
  BY <1>1 DEF PollAgent, Poll, PollRecorded
<1>4. CASE live /\ leader = "running"
  <2>1. UNCHANGED sessionVars /\ record' = "running"
    BY <1>2, <1>3, <1>4 DEF PollOwnChild, sessionVars
  <2>2. pc' = "top" /\ final' = final
    BY <2>1 DEF PollAgent, Terminal
  <2> QED
    BY <1>1, <2>1, <2>2 DEF FailureInv, sessionVars, None
<1>5. CASE live /\ leader # "running"
  <2>1. /\ leader' = leader /\ record' = ExitStatus /\ live' = FALSE
        /\ leader \in {"ok", "failed"}
    BY <1>1, <1>2, <1>3, <1>5 DEF PollOwnChild, KillGroup, SessionTypeOK, LeaderStates
  <2>2. record' = IF leader = "ok" THEN "completed" ELSE "failed"
    BY <2>1 DEF ExitStatus
  <2>3. final' = CloseReasonFor(record') /\ pc' = "drain"
    BY <2>2 DEF PollAgent, Terminal
  <2>4. final' # None /\ (final' = "failure" => leader = "failed")
    BY <2>1, <2>2, <2>3 DEF CloseReasonFor, None
  <2> QED
    BY <1>1, <2>1, <2>2, <2>3, <2>4 DEF FailureInv, None
<1>6. CASE ~live
  <2>1. UNCHANGED sessionVars /\ record \in {"completed", "failed"}
    BY <1>1, <1>2, <1>6
       DEF PollAgent, Poll, PollOwnChild, PollRecorded, SessionTypeOK, RecordStates, Terminal,
           Stopped
  <2>2. final' = CloseReasonFor(record) /\ pc' = "drain"
    BY <2>1 DEF PollAgent, Terminal, sessionVars
  <2>3. final' # None /\ (final' = "failure" => leader = "failed")
    BY <1>1, <2>1, <2>2 DEF CloseReasonFor, None
  <2> QED
    BY <1>1, <2>1, <2>2, <2>3 DEF FailureInv, sessionVars, None
<1> QED
  BY <1>4, <1>5, <1>6

\* A step that ends the agent.
LEMMA StopFailure ==
    ASSUME IInv, FailureInv, faults' = 0 => StoppedRight', StopValidation \/ CloseAttempt
    PROVE  FailureInv'
<1> SUFFICES ASSUME faults' = 0 PROVE FailureInv'
  BY DEF FailureInv
<1>1. /\ faults = 0 /\ closed' = closed /\ stop' = stop /\ final' = final
      /\ "failure" \in {final, stop, closed} => leader = "failed"
      /\ live => leader # "killed"
      /\ record = "failed" => leader = "failed"
      /\ SessionTypeOK /\ StoppedRight'
  BY DEF StopValidation, CloseAttempt, FailureInv, IInv, TypeOK, history
<1>2. /\ leader = "failed" => leader' = "failed"
      /\ live' => live /\ leader' = leader
      /\ record' = "failed" => leader' = "failed"
  <2>1. CASE UNCHANGED sessionVars
    BY <1>1, <2>1 DEF sessionVars
  <2>2. ASSUME NEW reason, Stop(reason)
        PROVE  /\ leader = "failed" => leader' = "failed"
               /\ live' => live /\ leader' = leader
               /\ record' = "failed" => leader' = "failed"
    BY <1>1, <2>2 DEF Stop, StopOwnChild, StopRecorded, KillGroup, StoppedStatus, ExitStatus,
                      SessionTypeOK, LeaderStates
  <2> QED
    BY <2>1, <2>2 DEF StopValidation, StopRunningAgent, CloseAttempt
<1>3. CASE StopValidation
  <2>1. pc' = "failure" /\ pending' # None
    BY <1>3 DEF StopValidation, StopRunningAgent
  <2> QED
    BY <1>1, <1>2, <2>1 DEF FailureInv
<1>4. CASE CloseAttempt
  <2>1. pc' = "seal"
    BY <1>4 DEF CloseAttempt
  <2> QED
    BY <1>1, <1>2, <2>1 DEF FailureInv, Ending
<1> QED
  BY <1>3, <1>4

\* One step keeps it.
LEMMA FailureStep == IInv /\ CloseInv /\ FailureInv /\ [Next]_vars => FailureInv'
<1> SUFFICES ASSUME IInv, CloseInv, FailureInv, [Next]_vars PROVE FailureInv'
  OBVIOUS
<1> SUFFICES ASSUME faults' = 0 PROVE FailureInv'
  BY DEF FailureInv
<1>1. faults = 0 /\ faults \in Nat /\ StoppedRight'
  <2>1. faults = 0 /\ faults \in Nat
    BY Frame DEF IInv, TypeOK
  <2> QED
    BY <2>1, StoppedStep
<1>2. /\ pending # None => pc \in {"failure", "persist"} \cup Ending
      /\ final # None => pc \notin {"off", "top", "poll"}
      /\ pending # "failure"
  BY <1>1 DEF FailureInv, CloseInv, ReasonsRight, StopReasons, None
<1>3. CASE Start \/ CheckStop
  <2>1. UNCHANGED <<sessionVars, closed, final, pending, faults>>
    BY <1>3 DEF Start, CheckStop, history
  <2>2. stop' # "failure" /\ pc' \in {"top", "drain", "close"} /\ pc \in {"off", "top"}
    BY <1>3, NoFailure DEF Start, CheckStop
  <2> QED
    BY <1>1, <1>2, <2>1, <2>2, QuietFailure DEF Ending
<1>4. CASE BeginDrain \/ EndDrain \/ LimitStopsDrain
  <2>1. UNCHANGED <<sessionVars, closed, final, pending, faults>>
    BY <1>4 DEF BeginDrain, EndDrain, LimitStopsDrain, AtItem, coreFiles, history
  <2>2. /\ stop' \in {stop, final} \/ stop' # "failure"
        /\ pc' \in {"item", "poll", "close"} /\ pc \in {"drain", "item"}
        /\ final # None => pc' # "poll"
    BY <1>4, NoFailure DEF BeginDrain, EndDrain, LimitStopsDrain, AtItem, DrainReturns
  <2> QED
    BY <1>1, <1>2, <2>1, <2>2, QuietFailure DEF Ending
<1>5. CASE LookAtItem
  <2>1. PICK s \in Submissions, d \in Versions \cup {NoDigest} :
          \/ SkipKnown(s, d) \/ RejectSubmission(s, d)
          \/ StopBeforeValidation(s, d) \/ StartValidation(s, d)
    BY <1>5 DEF LookAtItem
  <2>2. AtItem
    BY <2>1 DEF SkipKnown, RejectSubmission, StopBeforeValidation, StartValidation, Item
  <2>3. UNCHANGED <<sessionVars, closed, final, pending, faults>> /\ pc = "item"
    BY <2>2 DEF AtItem, history
  <2>4. /\ stop' \in {stop, final} \/ stop' # "failure"
        /\ pc' \in {"item", "failure", "validating", "close", "poll"}
        /\ final # None => pc' # "poll"
    BY <2>1, <2>3, NoFailure DEF SkipKnown, RejectSubmission, StopBeforeValidation,
                                 StartValidation, DrainReturns
  <2> QED
    BY <1>1, <1>2, <2>3, <2>4, QuietFailure DEF Ending
<1>6. CASE ReceiveVerdict \/ WriteFeedback \/ SaveCandidate \/ SaveReport \/ WriteFailureFeedback
  <2>1. UNCHANGED <<sessionVars, closed, final, pending, stop, faults>>
    BY <1>6 DEF ReceiveVerdict, WriteFeedback, SaveCandidate, SaveReport, WriteFailureFeedback,
                history
  <2>2. /\ pc \in Working
        /\ pc' \in {"feedback", "candidate", "report", "failure", "persist"}
        /\ pc = "failure" => pc' = "persist"
        /\ pc # "persist"
    BY <1>6 DEF ReceiveVerdict, WriteFeedback, SaveCandidate, SaveReport, WriteFailureFeedback,
                Working
  <2> QED
    BY <1>1, <1>2, <2>1, <2>2, QuietFailure DEF Ending, Working
<1>7. CASE Persist
  <2>1. UNCHANGED <<sessionVars, closed, final, pending, faults>> /\ pc = "persist"
    BY <1>7 DEF Persist, history
  <2>2. /\ stop' \in {stop, final} \/ stop' # "failure"
        /\ pc' \in {"item", "poll", "close"}
        /\ pending # None => pc' = "close"
        /\ final # None => pc' # "poll"
    BY <1>2, <1>7, NoFailure DEF Persist, DrainReturns
  <2> QED
    BY <1>1, <1>2, <2>1, <2>2, QuietFailure DEF Ending
<1>8. CASE PollAgent
  BY <1>1, <1>8, PollFailure
<1>9. CASE StopValidation \/ CloseAttempt
  BY <1>1, <1>9, StopFailure
<1>10. CASE Seal \/ WriteResult
  <2>1. /\ UNCHANGED <<sessionVars, final, pending, stop, faults>>
        /\ closed' \in {closed, stop} /\ pc' \in {"result", "done"} /\ pc \in Ending
    BY <1>10 DEF Seal, WriteResult, history, Ending
  <2> QED
    BY <1>1, <2>1 DEF FailureInv, sessionVars, Ending
<1>11. CASE ChildStep
  <2>1. /\ UNCHANGED <<sessionVars, closed, final, pending, stop, faults>>
        /\ pc = "validating" /\ pc' \in {"validating", "failure"}
    BY <1>11 DEF ChildStep, ChildFreezes, ChildReports, ChildFails, ChildDies, coreFiles, history
  <2> QED
    BY <1>1, <1>2, <2>1, QuietFailure DEF Ending
<1>12. CASE EnvironmentStep
  <2>1. UNCHANGED <<closed, final, pending, stop, pc, faults>>
    BY <1>12 DEF EnvironmentStep, EditSubmission, ReportUsage, LinkWorkspace, AgentEnds,
                 TimeRunsOut, UserStops, coreFiles, loopVars, history
  <2>2. UNCHANGED sessionVars \/ AgentEnds
    BY <1>12 DEF EnvironmentStep, EditSubmission, ReportUsage, LinkWorkspace, TimeRunsOut,
                 UserStops
  <2>3. /\ UNCHANGED <<live, record>>
        /\ leader' = leader \/ (leader = "running" /\ leader' \in {"ok", "failed"})
    BY <2>2 DEF AgentEnds, AgentExits, sessionVars
  <2> QED
    BY <1>1, <2>1, <2>3 DEF FailureInv, Ending
<1>13. CASE Fault
  <2>1. SealRaises
    BY <1>1, <1>13 DEF Fault, WriteFails, Crash
  <2>2. /\ ~live /\ ForgetProcess /\ pc' = "off" /\ closed' = closed
        /\ pending' = None /\ stop' = None /\ final' = None
    BY <2>1 DEF SealRaises, LoseMemory, CloseInv, SealRight, coreFiles
  <2> QED
    BY <1>1, <2>2 DEF FailureInv, ForgetProcess, None
<1>14. CASE UNCHANGED vars
  BY <1>1, <1>14 DEF FailureInv, vars, sessionVars, coreFiles, loopVars, history, Ending
<1> QED
  BY <1>3, <1>4, <1>5, <1>6, <1>7, <1>8, <1>9, <1>10, <1>11, <1>12, <1>13, <1>14
     DEF Next, CoreStep

\* An attempt is closed as failed only when its agent has failed, as long as no
\* fault came between: taking a success for a failure (agent_workspace.py:1059,
\* where the exit code is lost) needs a Core that died.
THEOREM FailureIsTheAgents == Spec => [](closed = "failure" /\ faults = 0 => leader = "failed")
<1>1. (IInv /\ CloseInv) /\ FailureInv /\ [Next]_vars => FailureInv'
  BY FailureStep
<1>2. FailureInv => (closed = "failure" /\ faults = 0 => leader = "failed")
  BY DEF FailureInv
<1> QED
  BY <1>1, <1>2, InitFailure, CloseAlways, PTL DEF Spec

=============================================================================
