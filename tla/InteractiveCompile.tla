-------------------------- MODULE InteractiveCompile --------------------------
(***************************************************************************)
(* run_interactive_compile_loop (compile_orchestration.py): Core watches   *)
(* the submissions an agent leaves in its workspace, freezes and validates *)
(* each one in a forked process, writes feedback to the agent and an entry *)
(* to the ledger of evaluated submissions, and closes the attempt on the   *)
(* first stop reason.  The agent edits its workspace all the while, time   *)
(* and cost run out at any point, a validation may hang, and Core may die  *)
(* between any two writes and be resumed over the same attempt.            *)
(***************************************************************************)
EXTENDS AgentSession, Sequences, FiniteSets

CONSTANTS
    Submissions,    \* submission directories, by their place in sorted order
    Versions,       \* the contents a READY submission can have
    Unreadable,     \* the contents whose digest cannot be taken
    Coverages,      \* the validation coverage a report can state
    MaxCandidates,  \* budget.max_candidates
    Costs,          \* the costs the agent's usage file can state
    CostLimit,      \* budget.max_cost
    Linking,        \* bound: may the agent make symlinks at all?
    MaxFaults       \* bound: crashes of Core and failed writes

ASSUME SubmissionsAssumption == Submissions \subseteq Nat /\ IsFiniteSet(Submissions)
ASSUME VersionsAssumption == Versions \subseteq Nat \ {0} /\ Unreadable \subseteq Versions
ASSUME CoveragesAssumption == Coverages \subseteq Nat
ASSUME CostsAssumption == Costs \subseteq Nat
ASSUME BoundsAssumption ==
    MaxCandidates \in Nat /\ CostLimit \in Nat /\ Linking \in BOOLEAN /\ MaxFaults \in Nat

VARIABLES
    content,        \* [Submissions -> version], 0 until the READY marker is there
    journalCost,    \* cost in journal/agent_usage.json, the agent's own file
    expired,        \* has the agent's time run out (counted from its record)?
    stopFile,       \* does journal/stop_compile exist?
    linked,         \* is there a symlink in the directories the close digests?
    coreCost,       \* cost in Core's copy of the usage ledger
    ledger,         \* evaluated_submissions.json
    saved,          \* candidates and reports on disk, by candidate
    feedback,       \* journal/feedback-<submission>.json
    closed,         \* journal/closed.json: its reason, or "open"
    result,         \* interactive_compile_result.json: is it there, whom does it select?
    pc,             \* where the loop is; "off" when Core is not running
    handle,         \* handle.status
    evaluated,      \* evaluated_count
    queue,          \* what drain_ready_submissions has still to look at
    job,            \* the submission it is working on
    pending,        \* pending_stop_reason
    stop,           \* stop_reason
    final,          \* terminal_reason of the drain after the agent's end
    frozen,         \* history: candidates frozen so far
    delivered,      \* history: validation feedback written so far
    faults          \* history: crashes and failed writes so far

agentFiles == <<content, journalCost, expired, stopFile, linked>>
coreFiles  == <<coreCost, ledger, saved, feedback, closed, result>>
loopVars   == <<pc, handle, evaluated, queue, job, pending, stop, final>>
history    == <<frozen, delivered, faults>>
vars       == <<sessionVars, agentFiles, coreFiles, loopVars, history>>

None     == "none"
NoDigest == 0                       \* the marker of a digest that failed
NoJob    == [sub |-> 0, digest |-> 0, version |-> 0, candidate |-> 0,
             verdict |-> None, gate |-> "fail", coverage |-> 0]
StopReasons  == {"time_limit", "user_stop", "budget_exhausted", "candidate_limit"}
CloseReasons == StopReasons \cup {"ready_for_test", "failure"}

Init ==
    /\ SessionInit
    /\ content = [s \in Submissions |-> 0]
    /\ journalCost = 0 /\ expired = FALSE /\ stopFile = FALSE /\ linked = FALSE
    /\ coreCost = 0 /\ ledger = <<>>
    /\ saved = [candidates |-> {}, reports |-> {}]
    /\ feedback = [s \in Submissions |-> None]
    /\ closed = "open" /\ result = [written |-> FALSE, selected |-> 0]
    /\ pc = "off" /\ handle = "running" /\ evaluated = 0
    /\ queue = {} /\ job = NoJob
    /\ pending = None /\ stop = None /\ final = None
    /\ frozen = 0 /\ delivered = 0 /\ faults = 0

-----------------------------------------------------------------------------
(* The agent, the clock and the user. *)

EditSubmission(s, v) ==
    /\ AgentAlive
    /\ v # content[s]
    /\ content' = [content EXCEPT ![s] = v]
    /\ UNCHANGED <<sessionVars, journalCost, expired, stopFile, linked, coreFiles, loopVars,
                   history>>

\* The agent may rewrite its usage file as it likes, downwards too.
ReportUsage(c) ==
    /\ AgentAlive
    /\ c # journalCost
    /\ journalCost' = c
    /\ UNCHANGED <<sessionVars, content, expired, stopFile, linked, coreFiles, loopVars, history>>

\* The agent puts a symlink into its workspace, or takes it out again.
LinkWorkspace ==
    /\ AgentAlive /\ Linking
    /\ linked' = ~linked
    /\ UNCHANGED <<sessionVars, content, journalCost, expired, stopFile, coreFiles, loopVars,
                   history>>

AgentEnds ==
    /\ AgentExits
    /\ UNCHANGED <<agentFiles, coreFiles, loopVars, history>>

TimeRunsOut ==
    /\ ~expired
    /\ expired' = TRUE
    /\ UNCHANGED <<sessionVars, content, journalCost, stopFile, linked, coreFiles, loopVars,
                   history>>

\* Whoever wants the compile stopped writes the file.  Nobody takes it away again:
\* that is asked of the user, not of the code (ClosedStaysClosed needs it).
UserStops ==
    /\ ~stopFile
    /\ stopFile' = TRUE
    /\ UNCHANGED <<sessionVars, content, journalCost, expired, linked, coreFiles, loopVars,
                   history>>

-----------------------------------------------------------------------------
(* Stop reasons, and what the ledger says. *)

\* Faulty variant: Core takes over whatever the agent's file says.
SyncedWithJournal == journalCost

\* _sync_core_agent_usage_ledger keeps the dearer of the two ledgers.
Synced == IF journalCost > coreCost THEN journalCost ELSE coreCost

\* current_stop_reason: the usage is synchronised only when it gets that far.
StopReason ==
    IF expired THEN "time_limit"
    ELSE IF stopFile THEN "user_stop"
    ELSE IF Synced >= CostLimit THEN "budget_exhausted"
    ELSE None

CostAfterStopReason == IF expired \/ stopFile THEN coreCost ELSE Synced

\* candidate_limit_stop_reason, which always synchronises the usage.
LimitReason(count) ==
    IF Synced >= CostLimit THEN "budget_exhausted"
    ELSE IF count >= MaxCandidates THEN "candidate_limit"
    ELSE None

Entries == {ledger[i] : i \in DOMAIN ledger}

\* Faulty variant: a submission that failed is taken up again.
KnownIfEvaluated(s, d) ==
    \E e \in Entries : e.sub = s /\ e.digest = d /\ e.status = "feedback"

\* _ledger_contains.
Known(s, d) == \E e \in Entries : e.sub = s /\ e.digest = d
Digest(v) == IF v \in Unreadable THEN NoDigest ELSE v
NextSubmission == CHOOSE s \in queue : \A t \in queue : s <= t

Passing == {i \in DOMAIN ledger : ledger[i].status = "feedback" /\ ledger[i].gate = "pass"}

\* Faulty variant: the last that passes, whatever its coverage.
SelectedLast ==
    IF Passing = {} THEN 0
    ELSE ledger[CHOOSE i \in Passing : \A j \in Passing : j <= i].candidate

\* _selected_successful_ledger_entry: of the entries that pass the gate, the
\* last of those with the highest coverage.
Best ==
    {i \in Passing : \A j \in Passing :
        \/ ledger[j].coverage < ledger[i].coverage
        \/ ledger[j].coverage = ledger[i].coverage /\ j <= i}
Selected == IF Best = {} THEN 0 ELSE ledger[CHOOSE i \in Best : TRUE].candidate

-----------------------------------------------------------------------------
(* The start of the loop and its top. *)

\* The first start, or a resumed one over what the disk holds.
Start ==
    /\ pc = "off"
    /\ coreCost' = Synced
    /\ evaluated' = Len(ledger)
    /\ stop' = LimitReason(Len(ledger))
    /\ pc' = (IF LimitReason(Len(ledger)) = None THEN "top" ELSE "close")
    /\ UNCHANGED <<sessionVars, agentFiles, ledger, saved, feedback, closed, result,
                   handle, queue, job, pending, final, history>>

CheckStop ==
    /\ pc = "top"
    /\ coreCost' = CostAfterStopReason
    /\ stop' = StopReason
    /\ pc' = (IF StopReason = None THEN "drain" ELSE "close")
    /\ UNCHANGED <<sessionVars, agentFiles, ledger, saved, feedback, closed, result,
                   handle, evaluated, queue, job, pending, final, history>>

\* The return of drain_ready_submissions, to the loop or, when the agent has
\* ended, to the close.
DrainReturns(reason) ==
    /\ queue' = {}
    /\ job' = NoJob
    /\ stop' = (IF reason = None THEN final ELSE reason)
    /\ pc' = (IF final = None /\ reason = None THEN "poll" ELSE "close")

-----------------------------------------------------------------------------
(* drain_ready_submissions: which submission is next, and is it evaluated? *)

BeginDrain ==
    /\ pc = "drain"
    /\ coreCost' = Synced
    /\ IF LimitReason(evaluated) # None
         THEN DrainReturns(LimitReason(evaluated))
         ELSE /\ queue' = {s \in Submissions : content[s] # 0}
              /\ pc' = "item"
              /\ UNCHANGED <<job, stop>>
    /\ UNCHANGED <<sessionVars, agentFiles, ledger, saved, feedback, closed, result,
                   handle, evaluated, pending, final, history>>

EndDrain ==
    /\ pc = "item" /\ queue = {}
    /\ DrainReturns(None)
    /\ UNCHANGED <<sessionVars, agentFiles, coreFiles, handle, evaluated, pending,
                   final, history>>

\* What every look at the next submission begins with.
AtItem ==
    /\ pc = "item" /\ queue # {}
    /\ coreCost' = Synced
    /\ UNCHANGED <<sessionVars, agentFiles, ledger, saved, feedback, closed, result,
                   handle, evaluated, pending, final, history>>

LimitStopsDrain ==
    /\ AtItem
    /\ LimitReason(evaluated) # None
    /\ DrainReturns(LimitReason(evaluated))

\* The submission and the digest the rest of the loop's body works with.
Item(s, d) ==
    /\ AtItem
    /\ LimitReason(evaluated) = None
    /\ s = NextSubmission /\ d = Digest(content[s])

Work(s, d) == [NoJob EXCEPT !.sub = s, !.digest = d]

SkipKnown(s, d) ==
    /\ Item(s, d)
    /\ Known(s, d)
    /\ queue' = queue \ {s}
    /\ UNCHANGED <<pc, job, stop>>

\* The digest fails, or receive_candidate_submission refuses what it now finds:
\* the attempt is closed, no artifact layer is there, or the digest it takes of
\* the whole workspace meets a symlink.
RejectSubmission(s, d) ==
    /\ Item(s, d)
    /\ ~Known(s, d)
    /\ job' = Work(s, d)
    /\ pc' = "failure"
    /\ UNCHANGED <<queue, stop>>

StopBeforeValidation(s, d) ==
    /\ Item(s, d)
    /\ ~Known(s, d) /\ d # NoDigest /\ closed = "open" /\ ~linked
    /\ StopReason # None
    /\ DrainReturns(StopReason)

StartValidation(s, d) ==
    /\ Item(s, d)
    /\ ~Known(s, d) /\ d # NoDigest /\ closed = "open" /\ ~linked
    /\ StopReason = None
    /\ job' = Work(s, d)
    /\ pc' = "validating"
    /\ UNCHANGED <<queue, stop>>

-----------------------------------------------------------------------------
(* The forked validation, and the parent that waits for it. *)

\* freeze_candidate, in the child: the files are read now, after the parent
\* took the digest of what they were then.
ChildFreezes ==
    /\ pc = "validating" /\ job.version = 0 /\ job.verdict = None
    /\ IF content[job.sub] \in Unreadable
         THEN /\ job' = [job EXCEPT !.verdict = "error"]
              /\ UNCHANGED frozen
         ELSE /\ frozen' = frozen + 1
              /\ job' = [job EXCEPT !.version = content[job.sub], !.candidate = frozen']
    /\ UNCHANGED <<sessionVars, agentFiles, coreFiles, pc, handle, evaluated, queue,
                   pending, stop, final, delivered, faults>>

\* The evaluation ends with a report, whose gate passes or does not.
ChildReports(gate, coverage) ==
    /\ pc = "validating" /\ job.version # 0 /\ job.verdict = None
    /\ job' = [job EXCEPT !.verdict = "ok", !.gate = gate, !.coverage = coverage]
    /\ UNCHANGED <<sessionVars, agentFiles, coreFiles, pc, handle, evaluated, queue,
                   pending, stop, final, history>>

\* ... or with an exception: a manifest, preflight or artifact failure.
ChildFails ==
    /\ pc = "validating" /\ job.version # 0 /\ job.verdict = None
    /\ job' = [job EXCEPT !.verdict = "error"]
    /\ UNCHANGED <<sessionVars, agentFiles, coreFiles, pc, handle, evaluated, queue,
                   pending, stop, final, history>>

\* stop_running_agent.
StopRunningAgent(reason) ==
    /\ pending' = (IF pending = None THEN reason ELSE pending)
    /\ IF handle = "running"
         THEN Stop(reason) /\ handle' = record'
         ELSE UNCHANGED <<sessionVars, handle>>

\* Faulty variant: a stop reason is looked for only when a verdict arrives.
StopValidationOnVerdict ==
    /\ pc = "validating" /\ job.verdict # None
    /\ StopReason # None
    /\ coreCost' = CostAfterStopReason
    /\ StopRunningAgent(StopReason)
    /\ pc' = "failure"
    /\ UNCHANGED <<agentFiles, ledger, saved, feedback, closed, result, evaluated, queue,
                   job, stop, final, history>>

\* A stop reason, at a tick or on the arrival of the verdict: the child is
\* stopped and its verdict, if there is one, is thrown away.
StopValidation ==
    /\ pc = "validating"
    /\ StopReason # None
    /\ coreCost' = CostAfterStopReason
    /\ StopRunningAgent(StopReason)
    /\ pc' = "failure"
    /\ UNCHANGED <<agentFiles, ledger, saved, feedback, closed, result, evaluated, queue,
                   job, stop, final, history>>

ReceiveVerdict ==
    /\ pc = "validating" /\ job.verdict # None
    /\ StopReason = None
    /\ coreCost' = Synced
    /\ pc' = (IF job.verdict = "ok" THEN "feedback" ELSE "failure")
    /\ UNCHANGED <<sessionVars, agentFiles, ledger, saved, feedback, closed, result, handle,
                   evaluated, queue, job, pending, stop, final, history>>

\* The child dies without a verdict: the pipe ends and nobody asks for a
\* stop reason.
ChildDies ==
    /\ pc = "validating" /\ job.verdict = None
    /\ pc' = "failure"
    /\ UNCHANGED <<sessionVars, agentFiles, coreFiles, handle, evaluated, queue, job, pending,
                   stop, final, history>>

-----------------------------------------------------------------------------
(* What an evaluated submission leaves behind, write by write. *)

\* Faulty variant: the candidate's record is not written.
WriteFeedbackOnly ==
    /\ pc = "feedback"
    /\ feedback' = [feedback EXCEPT ![job.sub] = "metrics"]
    /\ delivered' = delivered + 1
    /\ pc' = "report"
    /\ UNCHANGED <<sessionVars, agentFiles, coreCost, ledger, saved, closed, result, handle,
                   evaluated, queue, job, pending, stop, final, frozen, faults>>

WriteFeedback ==
    /\ pc = "feedback"
    /\ feedback' = [feedback EXCEPT ![job.sub] = "metrics"]
    /\ delivered' = delivered + 1
    /\ pc' = "candidate"
    /\ UNCHANGED <<sessionVars, agentFiles, coreCost, ledger, saved, closed, result, handle,
                   evaluated, queue, job, pending, stop, final, frozen, faults>>

SaveCandidate ==
    /\ pc = "candidate"
    /\ saved' = [saved EXCEPT !.candidates = @ \cup {job.candidate}]
    /\ pc' = "report"
    /\ UNCHANGED <<sessionVars, agentFiles, coreCost, ledger, feedback, closed, result, handle,
                   evaluated, queue, job, pending, stop, final, history>>

SaveReport ==
    /\ pc = "report"
    /\ saved' = [saved EXCEPT !.reports = @ \cup {job.candidate}]
    /\ pc' = "persist"
    /\ UNCHANGED <<sessionVars, agentFiles, coreCost, ledger, feedback, closed, result, handle,
                   evaluated, queue, job, pending, stop, final, history>>

\* One of the three writes raises: the submission becomes a failed one.
WriteFails ==
    /\ pc \in {"feedback", "candidate", "report"}
    /\ faults < MaxFaults
    /\ faults' = faults + 1
    /\ job' = [job EXCEPT !.verdict = "error"]
    /\ pc' = "failure"
    /\ UNCHANGED <<sessionVars, agentFiles, coreFiles, handle, evaluated, queue, pending, stop,
                   final, frozen, delivered>>

\* The except clause: feedback that says only that the evaluation failed.
WriteFailureFeedback ==
    /\ pc = "failure"
    /\ feedback' = [feedback EXCEPT ![job.sub] = "failed"]
    /\ job' = Work(job.sub, job.digest)
    /\ pc' = "persist"
    /\ UNCHANGED <<sessionVars, agentFiles, coreCost, ledger, saved, closed, result, handle,
                   evaluated, queue, pending, stop, final, history>>

Entry ==
    [sub |-> job.sub, digest |-> job.digest, version |-> job.version,
     candidate |-> job.candidate, gate |-> job.gate, coverage |-> job.coverage,
     status |-> IF job.verdict = "ok" THEN "feedback" ELSE "failed"]

\* Faulty variant: the submission is counted, but its entry is not written.
PersistCountOnly ==
    /\ pc = "persist"
    /\ evaluated' = evaluated + 1
    /\ coreCost' = Synced
    /\ IF LimitReason(evaluated + 1) # None
         THEN DrainReturns(LimitReason(evaluated + 1))
         ELSE /\ queue' = queue \ {job.sub}
              /\ job' = NoJob
              /\ pc' = "item"
              /\ UNCHANGED stop
    /\ UNCHANGED <<sessionVars, agentFiles, ledger, saved, feedback, closed, result, handle,
                   pending, final, history>>

\* ledger.append, evaluated_count += 1 and the write of the ledger, with the
\* looks at the pending stop reason and the limits that follow it.
Persist ==
    /\ pc = "persist"
    /\ ledger' = Append(ledger, Entry)
    /\ evaluated' = evaluated + 1
    /\ IF pending # None
         THEN DrainReturns(pending) /\ UNCHANGED coreCost
         ELSE /\ coreCost' = Synced
              /\ IF LimitReason(evaluated + 1) # None
                   THEN DrainReturns(LimitReason(evaluated + 1))
                   ELSE /\ queue' = queue \ {job.sub}
                        /\ job' = NoJob
                        /\ pc' = "item"
                        /\ UNCHANGED stop
    /\ UNCHANGED <<sessionVars, agentFiles, saved, feedback, closed, result, handle, pending,
                   final, history>>

-----------------------------------------------------------------------------
(* The poll of the agent, and the close of the attempt. *)

\* Faulty variant: the status is taken for a reason.
StatusAsReason(status) == status

\* _close_reason_for_agent_status.
CloseReasonFor(status) ==
    IF status = "completed" THEN "ready_for_test"
    ELSE IF status = "timed_out" THEN "time_limit"
    ELSE "failure"

\* Faulty variant: no last drain when the agent has ended.
PollAgentAndClose ==
    /\ pc = "poll"
    /\ Poll
    /\ handle' = record'
    /\ IF record' \in Terminal
         THEN stop' = CloseReasonFor(record') /\ pc' = "close"
         ELSE pc' = "top" /\ UNCHANGED stop
    /\ UNCHANGED <<agentFiles, coreFiles, evaluated, queue, job, pending, final, history>>

\* Faulty variant: that the agent has ended is forgotten by the last drain.
PollAgentAgain ==
    /\ pc = "poll"
    /\ Poll
    /\ handle' = record'
    /\ pc' = (IF record' \in Terminal THEN "drain" ELSE "top")
    /\ UNCHANGED <<agentFiles, coreFiles, evaluated, queue, job, pending, stop, final, history>>

PollAgent ==
    /\ pc = "poll"
    /\ Poll
    /\ handle' = record'
    /\ IF record' \in Terminal
         THEN final' = CloseReasonFor(record') /\ pc' = "drain"
         ELSE pc' = "top" /\ UNCHANGED final
    /\ UNCHANGED <<agentFiles, coreFiles, evaluated, queue, job, pending, stop, history>>

\* close_agent_attempt first ends a session that may still run ...
CloseAttempt ==
    /\ pc = "close"
    /\ coreCost' = Synced
    /\ IF live \/ record = "running" THEN Stop(stop) ELSE UNCHANGED sessionVars
    /\ pc' = "seal"
    /\ UNCHANGED <<agentFiles, ledger, saved, feedback, closed, result, handle, evaluated,
                   queue, job, pending, stop, final, history>>

\* ... then digests the baseline directories and writes closed.json, over an
\* earlier one too.
Seal ==
    /\ pc = "seal" /\ ~linked
    /\ closed' = stop
    /\ pc' = "result"
    /\ UNCHANGED <<sessionVars, agentFiles, coreCost, ledger, saved, feedback, result, handle,
                   evaluated, queue, job, pending, stop, final, history>>

WriteResult ==
    /\ pc = "result"
    /\ result' = [written |-> TRUE, selected |-> Selected]
    /\ pc' = "done"
    /\ UNCHANGED <<sessionVars, agentFiles, coreCost, ledger, saved, feedback, closed, handle,
                   evaluated, queue, job, pending, stop, final, history>>

-----------------------------------------------------------------------------
(* The loop ends before its time.  The caller resumes it with its old handle. *)

LoseMemory ==
    /\ ForgetProcess
    /\ pc' = "off" /\ handle' = "running" /\ evaluated' = 0
    /\ queue' = {} /\ job' = NoJob
    /\ pending' = None /\ stop' = None /\ final' = None
    /\ UNCHANGED <<agentFiles, coreFiles, frozen, delivered>>

\* Core dies, or an exception of the except clause, of the ledger's or of the
\* result's write ends the loop.
Crash ==
    /\ pc # "off"
    /\ faults < MaxFaults
    /\ faults' = faults + 1
    /\ LoseMemory

\* _workspace_tree_digest raises on a symlink, and nothing catches that.
SealRaises ==
    /\ pc = "seal" /\ linked
    /\ LoseMemory
    /\ UNCHANGED faults

LookAtItem ==
    \E s \in Submissions, d \in Versions \cup {NoDigest} :
        \/ SkipKnown(s, d)
        \/ RejectSubmission(s, d)
        \/ StopBeforeValidation(s, d)
        \/ StartValidation(s, d)

CoreStep ==
    \/ Start \/ CheckStop \/ BeginDrain \/ EndDrain \/ LimitStopsDrain \/ LookAtItem
    \/ StopValidation \/ ReceiveVerdict
    \/ WriteFeedback \/ SaveCandidate \/ SaveReport \/ WriteFailureFeedback \/ Persist
    \/ PollAgent \/ CloseAttempt \/ Seal \/ WriteResult

ChildStep ==
    \/ ChildFreezes \/ ChildFails \/ ChildDies
    \/ \E gate \in {"pass", "fail"}, coverage \in Coverages : ChildReports(gate, coverage)

EnvironmentStep ==
    \/ \E s \in Submissions, v \in Versions : EditSubmission(s, v)
    \/ \E c \in Costs : ReportUsage(c)
    \/ LinkWorkspace \/ AgentEnds \/ TimeRunsOut \/ UserStops

Fault == WriteFails \/ Crash \/ SealRaises

Next == CoreStep \/ ChildStep \/ EnvironmentStep \/ Fault

Spec == Init /\ [][Next]_vars

\* Core is scheduled, and resumed when it ended too early, and the clock advances.
\* The agent, the validation child and the user owe nothing.
FairSpec == Spec /\ WF_vars(CoreStep \/ SealRaises) /\ WF_vars(TimeRunsOut)

-----------------------------------------------------------------------------
(* Properties. *)

EntryType ==
    [sub : Submissions, digest : Versions \cup {NoDigest}, version : Versions \cup {0},
     candidate : Nat, gate : {"pass", "fail"}, coverage : Coverages \cup {0},
     status : {"feedback", "failed"}]

JobType ==
    [sub : Submissions \cup {0}, digest : Versions \cup {NoDigest}, version : Versions \cup {0},
     candidate : Nat, verdict : {None, "ok", "error"}, gate : {"pass", "fail"},
     coverage : Coverages \cup {0}]

\* The variables have the types the code gives them.
TypeOK ==
    /\ SessionTypeOK
    /\ content \in [Submissions -> Versions \cup {0}]
    /\ journalCost \in Nat /\ expired \in BOOLEAN /\ stopFile \in BOOLEAN /\ linked \in BOOLEAN
    /\ coreCost \in Nat /\ ledger \in Seq(EntryType)
    /\ saved \in [candidates : SUBSET Nat, reports : SUBSET Nat]
    /\ feedback \in [Submissions -> {None, "metrics", "failed"}]
    /\ closed \in CloseReasons \cup {"open"}
    /\ result \in [written : BOOLEAN, selected : Nat]
    /\ pc \in {"off", "top", "drain", "item", "validating", "feedback", "candidate", "report",
               "failure", "persist", "poll", "close", "seal", "result", "done"}
    /\ handle \in RecordStates /\ evaluated \in Nat
    /\ queue \in SUBSET Submissions /\ job \in JobType
    /\ pending \in CloseReasons \cup {None} /\ stop \in CloseReasons \cup {None}
    /\ final \in CloseReasons \cup {None}
    /\ frozen \in Nat /\ delivered \in Nat /\ faults \in Nat

\* The loop implements its promise: no (submission, digest) is entered twice,
\* the candidate budget holds across restarts, the ledger is append-only, and
\* nothing is evaluated once closed.json is there.
Promise == INSTANCE CompilePromise WITH
    Keys   <- Submissions \X (Versions \cup {NoDigest}),
    Budget <- MaxCandidates,
    log    <- [i \in DOMAIN ledger |->
                 [key |-> <<ledger[i].sub, ledger[i].digest>>,
                  evaluated |-> ledger[i].status = "feedback"]],
    sealed <- closed # "open"

PromiseKept == Promise!Spec

\* Validation results reach the agent at most once per counted candidate, but
\* for one more per fault: the crash between the feedback and the ledger.
FeedbackLeakBound == delivered <= MaxCandidates + faults

\* A ledger entry with feedback is never ahead of what it points to: the
\* candidate, the report and a feedback file are on disk before it.
EvidenceOnDisk ==
    \A e \in Entries :
        /\ feedback[e.sub] # None
        /\ e.status = "feedback" =>
             e.candidate \in saved.candidates /\ e.candidate \in saved.reports

\* A closed attempt has no agent left to change its workspace, neither the
\* leader nor its group.  Without a start token this holds only while Core
\* has never been restarted.
CloseIsQuiescent == closed # "open" /\ (token \/ faults = 0) => ~AgentAlive

\* An attempt that closes as ready for test has looked at the last content of
\* every READY submission, also what the agent wrote just before it ended.
NothingLeftUnread ==
    closed = "ready_for_test" =>
        \A s \in Submissions : content[s] # 0 => Known(s, Digest(content[s]))

\* The result on disk names a candidate that passed the gate, that no passing
\* candidate beats on coverage, and that a later process can still load; it
\* names none only if none passed.
SelectedIsUsable ==
    result.written =>
        IF result.selected = 0
          THEN \A e \in Entries : e.gate # "pass"
          ELSE /\ result.selected \in saved.candidates \cap saved.reports
               /\ \E e \in Entries :
                    /\ e.candidate = result.selected /\ e.gate = "pass"
                    /\ \A f \in Entries : f.gate = "pass" => f.coverage <= e.coverage

\* The usage Core has seen is never forgotten: rewriting the journal's ledger
\* downwards does not give budget back, across restarts either.
CostHighWater == [][coreCost' >= coreCost]_vars

\* An attempt that was closed for test evaluation is not turned into a failed
\* one by resuming the loop over it, though closed.json is written again: the
\* resumed loop finds its reason again before it takes the agent it has stopped
\* itself for one that failed.
ClosedStaysClosed == [][closed \notin {"open", "failure"} => closed' # "failure"]_vars

\* However the agent and the validations behave, hanging included, the loop
\* ends: the clock stops both, and a resumed loop gets to the end as well.  But
\* a symlink the agent left where the close looks ends every loop too early, so
\* the agent is asked to leave none for good.
LoopEnds == <>[]~linked => <>[](pc = "done")

\* The longest way from here to the end of the loop when nothing more is
\* validated: a submission takes three steps, and a drain that ends before the
\* agent does is followed by a poll and another drain.
Drained == Cardinality(Submissions)
AfterDrain == IF final = None THEN 3 * Drained + 7 ELSE 4
AtQueue == 3 * Cardinality(queue) + AfterDrain
StepsLeft ==
    CASE pc = "done" -> 0
      [] pc = "result" -> 1
      [] pc = "seal" -> 2
      [] pc = "close" -> 3
      [] pc = "top" -> 4
      [] pc = "off" -> 5
      [] pc = "poll" -> 3 * Drained + 6
      [] pc = "drain" -> 3 * Drained + AfterDrain + 1
      [] pc \in {"item", "validating"} -> AtQueue
      [] pc = "feedback" -> AtQueue + 1
      [] pc = "candidate" -> AtQueue
      [] pc \in {"report", "failure"} -> AtQueue - 1
      [] pc = "persist" -> AtQueue - 2

\* Once the time has run out, every step of Core brings the loop nearer to its
\* end, and no step but a crash, or the close that meets a symlink, takes it
\* back: whatever agent, validation and user do else, 6 steps for each submission
\* and 8 more are enough.
LoopAdvances ==
    [][expired =>
        /\ CoreStep => StepsLeft' < StepsLeft
        /\ StepsLeft' > StepsLeft => faults' > faults \/ (pc = "seal" /\ linked)]_vars

\* interactive_compile_loop_runbook.md:313: Core evaluates each candidate at
\* most once unless its content changes.
EvaluatedAtMostOnce ==
    \A i, j \in DOMAIN ledger :
        ledger[i].status = "feedback" /\ ledger[j].status = "feedback"
          /\ ledger[i].sub = ledger[j].sub /\ ledger[i].version = ledger[j].version
        => i = j

=============================================================================
