----------------------------- MODULE AgentSession -----------------------------
(***************************************************************************)
(* The supervision of one agent session (agent_workspace.py): an agent     *)
(* process that leads a process group of its own, the session record Core  *)
(* keeps on disk, and the two operations that look at or end the session,  *)
(* poll_agent_session and stop_agent_session.  Core may die and be resumed *)
(* over the same attempt: it then knows the agent from the record alone.   *)
(***************************************************************************)
EXTENDS Naturals

VARIABLES
    leader,     \* the agent process: running, exited (ok / failed) or killed
    group,      \* do processes the agent left in its process group still run?
    record,     \* "status" of _core/<attempt>/agent_session.json
    live,       \* is the process in _LIVE_AGENT_PROCESSES (Core is its parent)?
    token       \* did `ps` give a process_start_token when the record was made?

sessionVars == <<leader, group, record, live, token>>

LeaderStates == {"running", "ok", "failed", "killed"}
Terminal     == {"completed", "failed", "timed_out", "stopped"}
RecordStates == {"running"} \cup Terminal

SessionTypeOK ==
    /\ leader \in LeaderStates
    /\ group \in BOOLEAN
    /\ record \in RecordStates
    /\ live \in BOOLEAN
    /\ token \in BOOLEAN

\* launch_target_adaptation_agent_async has returned: the process is in the
\* table and its record says "running".
SessionInit ==
    /\ leader = "running"
    /\ group \in BOOLEAN
    /\ record = "running"
    /\ live = TRUE
    /\ token \in BOOLEAN

AgentAlive == leader = "running" \/ group

-----------------------------------------------------------------------------
\* The process group.

\* A signal to the whole group: TERM, then KILL for what is left of it.
KillGroup ==
    /\ leader' = (IF leader = "running" THEN "killed" ELSE leader)
    /\ group' = FALSE

\* The agent exits by itself; what it started in its group may outlive it.
AgentExits ==
    /\ leader = "running"
    /\ leader' \in {"ok", "failed"}
    /\ UNCHANGED <<group, record, live, token>>

\* Core dies: the table of live processes goes with it, the agent does not.
ForgetProcess ==
    /\ live' = FALSE
    /\ UNCHANGED <<leader, group, record, token>>

-----------------------------------------------------------------------------
\* The status Core gives an agent that is its own child and has exited.
ExitStatus == IF leader = "ok" THEN "completed" ELSE "failed"

\* poll_agent_session.  The new status is in record'; the caller reads it.
PollOwnChild ==
    /\ live
    /\ IF leader = "running"
         THEN UNCHANGED sessionVars
         ELSE /\ IF record = "running" THEN KillGroup ELSE UNCHANGED <<leader, group>>
              /\ record' = ExitStatus
              /\ live' = FALSE
              /\ UNCHANGED token

\* Faulty variant: the recorded status is not looked at.
PollRecordedAlways ==
    /\ ~live
    /\ IF leader # "running"
         THEN KillGroup /\ record' = "failed" /\ UNCHANGED <<live, token>>
         ELSE UNCHANGED sessionVars

\* After a restart the exit code is not to be had: a process that is gone is
\* recorded as failed, and what it left in its group is stopped.
PollRecorded ==
    /\ ~live
    /\ IF record = "running" /\ leader # "running"
         THEN /\ KillGroup
              /\ record' = "failed"
              /\ UNCHANGED <<live, token>>
         ELSE UNCHANGED sessionVars

Poll == PollOwnChild \/ PollRecorded

-----------------------------------------------------------------------------
StoppedStatus(reason) == IF reason = "time_limit" THEN "timed_out" ELSE "stopped"

\* stop_agent_session.  The record is rewritten on every path, also when the
\* process could not be identified and was therefore left alone.
StopOwnChild(reason) ==
    /\ live
    /\ KillGroup
    /\ record' = (IF leader = "running" THEN StoppedStatus(reason) ELSE ExitStatus)
    /\ live' = FALSE
    /\ UNCHANGED token

\* Faulty variant: the group of a leader that is gone is left alone.
StopRecordedLeader(reason) ==
    /\ ~live
    /\ IF record = "running" /\ leader = "running" /\ token
         THEN KillGroup
         ELSE UNCHANGED <<leader, group>>
    /\ record' = StoppedStatus(reason)
    /\ UNCHANGED <<live, token>>

\* A recorded process is signalled only if its start token still matches; the
\* group of a process that is gone is signalled by its number.  A record that
\* is no longer "running" has lost its pid and names nothing to signal.
StopRecorded(reason) ==
    /\ ~live
    /\ IF record = "running" /\ (leader = "running" => token)
         THEN KillGroup
         ELSE UNCHANGED <<leader, group>>
    /\ record' = StoppedStatus(reason)
    /\ UNCHANGED <<live, token>>

Stop(reason) == StopOwnChild(reason) \/ StopRecorded(reason)

=============================================================================
