------------------------------- MODULE Compiles --------------------------------
(***************************************************************************)
(* Several compiles of one target beside each other: planned by            *)
(* plan_compile_launch and started by start_compile_launch                 *)
(* (compile_orchestration.py), or started by the command line without      *)
(* either (cli.py, _run_compile_command).  They share the source rows, the *)
(* list of recorded runs, the rows used up by earlier tests, and the       *)
(* workspace of the target.  What happens between launch and close is      *)
(* InteractiveCompile, and what the final test says is CandidateEvaluation.*)
(***************************************************************************)
EXTENDS TargetWorkspace, SnapshotBuild

CONSTANTS
    Worlds,         \* [rows, requests, left, advances, horizon]: the source rows there
                    \* will ever be, how a compile may be asked for ([via, by, matches,
                    \* tels]), the tree somebody left, without a manifest, and two bounds:
                    \* how many advances, and when the clock stops
    Allowed,        \* who may ask, by the scheduler's policy
    Answers,        \* what the reference may answer, [inputs -> [status, output]]
    MaxConcurrent

SourceRow(r) ==
    /\ r = [id |-> r.id, input |-> r.input, elig |-> r.elig,
            time |-> r.time, ref |-> r.ref, by |-> r.by]
    /\ r.time \subseteq Nat

\* Times are numbers.  A row's split group may well be its input, spelled the same
\* (the contracts of the repository's targets answer so), and build_split_plan keeps
\* inputs and groups in one set: here groups have names of their own, which only
\* renames them, since a group and an input that are equal belong to the same rows.
ASSUME WorldsAssumption ==
    /\ IsFiniteSet(Compiles) /\ MaxConcurrent \in Nat
    /\ \A w \in Worlds :
          LET tels  == UNION {q.tels : q \in w.requests}
              known == w.rows \cup UNION {tel.rows : tel \in tels}
          IN  /\ w.left \in OnDisk /\ w.horizon \in Nat
              /\ \A r \in w.rows : SourceRow(r)
              /\ \A tel \in tels : tel.cutoff \in Nat /\ \A r \in tel.rows : r.time \subseteq Nat
              /\ \A r, q \in known : GroupOf[r.id] # q.input

VARIABLES
    world,          \* one of Worlds, for good
    now,
    spent,          \* inputs and groups of the rows a test has used up
    step,           \* [Compiles -> how far it has come]
    asked,          \* [Compiles -> the request it was accepted with, or NoRequest]
    cutoff,         \* [Compiles -> time]
    files,          \* [Compiles -> its snapshot]
    alive,          \* compiles with a running agent
    runs,           \* [Compiles -> the status of its recorded run]
    unguarded       \* two launches overlapped, or Core died in one (history)

vars == <<world, now, spent, step, asked, cutoff, files, alive, runs, unguarded, wsVars>>

Steps == {"idle", "rejected", "accepted", "built", "loaded", "checked", "mounted",
          "launched", "recorded", "closed", "tested", "failed"}
NoRequest == [via |-> "none", tels |-> {}]
NoFile    == [s \in Splits |-> {}]

Init ==
    /\ world \in Worlds
    /\ now = 0
    /\ spent = {}
    /\ step = [c \in Compiles |-> "idle"]
    /\ asked = [c \in Compiles |-> NoRequest]
    /\ cutoff = [c \in Compiles |-> 0]
    /\ files = [c \in Compiles |-> NoFile]
    /\ alive = {}
    /\ runs = [c \in Compiles |-> "none"]
    /\ unguarded = FALSE
    /\ WorkspaceInit(world.left)

Go(c, from, to) == step[c] = from /\ step' = [step EXCEPT ![c] = to]

\* What the call held is gone with it.
Fail(c) ==
    /\ step' = [step EXCEPT ![c] = "failed"]
    /\ asked' = [asked EXCEPT ![c] = NoRequest]
    /\ cutoff' = [cutoff EXCEPT ![c] = 0]
    /\ files' = [files EXCEPT ![c] = NoFile]
    /\ UNCHANGED <<world, now, spent, alive, runs>>

FailOnDisk(c) == Fail(c) /\ UNCHANGED unguarded /\ Drop(c)

Library(c) == asked[c].via = "library"

-----------------------------------------------------------------------------
(* plan_compile_launch.  One who is deferred may ask again.                *)

Busy == {c \in Compiles : runs[c] \in {"running", "closing"}}

\* Faulty variant: a run that is being closed is not counted.
DecisionOnRunning(r) ==
    IF ~r.matches THEN "rejected"
    ELSE IF r.by \notin Allowed \/ Cardinality({c \in Busy : runs[c] = "running"}) >= MaxConcurrent
      THEN "deferred"
    ELSE IF \E tel \in r.tels : tel.cutoff > now THEN "rejected"
    ELSE "accepted"

Decision(r) ==
    IF ~r.matches THEN "rejected"           \* scope, budget, trigger, base release, target check
    ELSE IF r.by \notin Allowed \/ Cardinality(Busy) >= MaxConcurrent THEN "deferred"
    ELSE IF \E tel \in r.tels : tel.cutoff > now THEN "rejected"
    ELSE "accepted"

\* Accepted and neither recorded nor given up.
Launching == {c \in Compiles : /\ Library(c)
                               /\ step[c] \notin {"recorded", "closed", "tested", "failed"}}

Plan(c) ==
    /\ step[c] = "idle"
    /\ \E r \in {q \in world.requests : q.via = "library" /\ Decision(q) # "deferred"} :
          /\ step' = [step EXCEPT ![c] = Decision(r)]
          /\ IF Decision(r) = "accepted"
               THEN /\ asked' = [asked EXCEPT ![c] = [via |-> "library", tels |-> r.tels]]
                    /\ cutoff' = [cutoff EXCEPT ![c] = now]
                    /\ unguarded' = (unguarded \/ Launching # {})
               ELSE UNCHANGED <<asked, cutoff, unguarded>>
    /\ UNCHANGED <<world, now, spent, files, alive, runs, wsVars>>

\* The command line asks nobody, and brings neither telemetry nor used-up rows
\* (_run_compile_command calls build_snapshot with empty lists).
StartFromCommandLine(c) ==
    /\ \E r \in world.requests : r.via = "cli"
    /\ Go(c, "idle", "accepted")
    /\ asked' = [asked EXCEPT ![c] = [via |-> "cli", tels |-> {}]]
    /\ UNCHANGED <<world, now, spent, cutoff, files, alive, runs, unguarded, wsVars>>

-----------------------------------------------------------------------------
(* start_compile_launch, step by step.                                     *)

Arrived == {r \in world.rows : \A t \in r.time : t <= now}
Cutoff(c) == IF Library(c) THEN cutoff[c] ELSE now
Used(c) == IF Library(c) THEN spent ELSE {}

Buildable(c, answers) ==
    IF \A tel \in asked[c].tels : TelemetryValid(tel, Cutoff(c))
      THEN Snapshots(Collected(Arrived, asked[c].tels, Cutoff(c)), answers, Used(c))
      ELSE {}

Build(c) ==
    /\ Go(c, "accepted", "built")
    /\ \E answers \in Answers : \E s \in Buildable(c, answers) : files' = [files EXCEPT ![c] = s]
    /\ cutoff' = [cutoff EXCEPT ![c] = Cutoff(c)]
    /\ UNCHANGED <<world, now, spent, asked, alive, runs, unguarded, wsVars>>

BuildRaises(c) ==
    /\ step[c] = "accepted"
    /\ \E answers \in Answers : Buildable(c, answers) = {}
    /\ FailOnDisk(c)

compileVars == <<world, now, spent, asked, cutoff, files, alive, runs, unguarded>>

LoadWorkspace(c) == Go(c, "built", "loaded") /\ Load(c) /\ UNCHANGED compileVars

LoadWorkspaceRaises(c) ==
    step[c] = "built" /\ Fail(c) /\ LoadRaises /\ UNCHANGED unguarded

CheckWorkspace(c) == Go(c, "loaded", "checked") /\ CheckBaseline(c) /\ UNCHANGED compileVars

CheckWorkspaceRaises(c) ==
    /\ step[c] = "loaded"
    /\ Digest(main) # held[c]
    /\ FailOnDisk(c)

\* With export_train_view_for_agent and mount_readonly_inputs, which refuses what
\* is not meant for training.
CloneAndMount(c) ==
    /\ Go(c, "checked", "mounted")
    /\ Clone(c)
    /\ \A r \in files[c].train : "train" \in r.elig
    /\ UNCHANGED compileVars

\* A journal with files in it holds the session record of the attempt they come
\* from: _prepare_agent_launch takes the agent for launched.
Launch(c) ==
    /\ Go(c, "mounted", "launched")
    /\ clone[c]["journal"] = Empty
    /\ alive' = alive \cup {c}
    /\ UNCHANGED <<world, now, spent, asked, cutoff, files, runs, unguarded, wsVars>>

LaunchRaises(c) ==
    /\ \/ step[c] = "mounted" /\ clone[c]["journal"] # Empty
       \/ step[c] = "launched" /\ c \notin alive /\ Library(c)    \* the agent has failed
    /\ FailOnDisk(c)

\* The run is recorded last: with the agent running, or after its end where the
\* launch waits for it.
Record(c) ==
    /\ Library(c)
    /\ Go(c, "launched", "recorded")
    /\ runs' = [runs EXCEPT ![c] = "running"]
    /\ UNCHANGED <<world, now, spent, asked, cutoff, files, alive, unguarded, wsVars>>

\* Core dies in the middle: an agent that runs already is left to itself.
LaunchLost(c) ==
    /\ step[c] \in {"accepted", "built", "loaded", "checked", "mounted", "launched"}
    /\ Fail(c)
    /\ unguarded' = TRUE
    /\ Drop(c)

-----------------------------------------------------------------------------
(* Between launch and the next baseline.  The status of a recorded run is   *)
(* the caller's to change: nothing in the code does.                        *)

AgentEnds(c) ==
    /\ c \in alive
    /\ alive' = alive \ {c}
    /\ UNCHANGED <<world, now, spent, step, asked, cutoff, files, runs, unguarded, wsVars>>

BeginClose(c) ==
    /\ runs[c] = "running"
    /\ runs' = [runs EXCEPT ![c] = "closing"]
    /\ UNCHANGED <<world, now, spent, step, asked, cutoff, files, alive, unguarded, wsVars>>

\* run_interactive_compile_loop, from its first look to the closed attempt.
Close(c) ==
    /\ step[c] = IF Library(c) THEN "recorded" ELSE "launched"
    /\ step' = [step EXCEPT ![c] = "closed"]
    /\ alive' = alive \ {c}
    /\ UNCHANGED <<world, now, spent, asked, cutoff, files, runs, unguarded, wsVars>>

RunEnds(c) ==
    /\ step[c] \in {"closed", "tested"}
    /\ runs[c] \in {"running", "closing"}
    /\ runs' = [runs EXCEPT ![c] = "closed"]
    /\ UNCHANGED <<world, now, spent, step, asked, cutoff, files, alive, unguarded, wsVars>>

\* evaluate_candidate_on_test uses up all test rows, whatever the gate says; the
\* next compile is given them by its caller, who keeps the manifests.
Test(c) ==
    /\ Go(c, "closed", "tested")
    /\ spent' = spent \cup Consumed(files[c], "test")
    /\ UNCHANGED <<world, now, asked, cutoff, files, alive, runs, unguarded, wsVars>>

\* A closed attempt may be carried forward, with a release or without.
Advance(c) ==
    /\ step[c] \in {"closed", "tested"}
    /\ \/ /\ BeginAdvance(c)
          /\ Cardinality({b \in Compiles : advance[b] # "idle"}) < world.advances
       \/ \E d \in Dirs : RemoveDir(c, d) \/ CopyDir(c, d)
       \/ RemoveManifest(c)
       \/ BeginCopy(c)
       \/ WriteManifest(c)
       \/ CutAdvance(c)
    /\ UNCHANGED <<step, compileVars>>

Tick ==
    /\ now < world.horizon
    /\ now' = now + 1
    /\ UNCHANGED <<world, spent, step, asked, cutoff, files, alive, runs, unguarded, wsVars>>

Next ==
    \/ Tick
    \/ \E c \in Compiles :
          \/ Plan(c) \/ StartFromCommandLine(c)
          \/ Build(c) \/ BuildRaises(c)
          \/ LoadWorkspace(c) \/ LoadWorkspaceRaises(c)
          \/ CheckWorkspace(c) \/ CheckWorkspaceRaises(c)
          \/ CloneAndMount(c)
          \/ Launch(c) \/ LaunchRaises(c) \/ Record(c) \/ LaunchLost(c)
          \/ AgentEnds(c) \/ BeginClose(c) \/ Close(c) \/ RunEnds(c)
          \/ Test(c) \/ Advance(c)

Spec == Init /\ [][Next]_vars

-----------------------------------------------------------------------------
(* Properties.                                                             *)

Keys(rows) == {r.input : r \in rows} \cup {GroupOf[r.id] : r \in rows}
HiddenRows(c) == files[c]["validation"] \cup files[c]["test"]

\* Every variable holds what its declaration says.
TypeOK ==
    /\ world \in Worlds
    /\ now \in 0..world.horizon
    /\ step \in [Compiles -> Steps]
    /\ \A c \in Compiles : asked[c].via \in {"none", "library", "cli"}
    /\ cutoff \in [Compiles -> 0..world.horizon]
    /\ DOMAIN files = Compiles
    /\ alive \subseteq Compiles
    /\ runs \in [Compiles -> {"none", "running", "closing", "closed"}]
    /\ unguarded \in BOOLEAN
    /\ WorkspaceTypeOK

Built(c) == step[c] = "accepted" /\ step'[c] = "built"

\* When the snapshot of a planned compile is built, none of its hidden rows is one
\* that a test has used up by then, or shares an input or a split group with one.
\* (What a test uses up after the build stays hidden in it.)
ConsumedStaysOpen ==
    [][\A c \in Compiles : Built(c) /\ Library(c) => Keys(HiddenRows(c)') \cap spent = {}]_vars

\* The same for every compile, whoever started it: "any user/agent-visible test
\* result, consumes that test window for future compile claims"
\* (docs/design/reboot/00_overall_design.md:43).
HoldoutIsFresh ==
    [][\A c \in Compiles : Built(c) => Keys(HiddenRows(c)') \cap spent = {}]_vars

\* A snapshot uses a row only for what every row of the same input that it was
\* built from allows, be it from a file or from telemetry, and no input and no
\* group is in two of its files.
SnapshotIsLegal ==
    \A c \in Compiles : \A s \in Splits : \A r \in files[c][s] :
        /\ \A q \in world.rows :
              (q.input = r.input /\ \A t \in q.time : t <= cutoff[c]) => UseFor[s] \in q.elig
        /\ \A tel \in asked[c].tels : \A q \in Active(tel) :
              q.input = r.input => UseFor[s] \in TelemetryUse(tel, q)
        /\ \A u \in Splits \ {s} : Keys({r}) \cap Keys(files[c][u]) = {}

\* Nothing that happened after the cutoff of a compile is in its snapshot, however
\* long after the decision it is built.
CutoffHolds ==
    \A c \in Compiles : \A s \in Splits : \A r \in files[c][s] :
        \A t \in r.time : t <= cutoff[c]

\* Planned compiles have no more running agents than allowed, as long as no two
\* launches overlap and Core does not die inside one.
WithinLimit ==
    ~unguarded => Cardinality({c \in alive : Library(c)}) <= MaxConcurrent

\* A load raises only because of an advance that is under way or has failed:
\* however advances and loads overlapped before, the manifest then names the tree
\* that is there.
AtRestLoadable ==
    (\A c \in Compiles : advance[c] \in {"idle", "done"}) => Loadable

\* The agent of an attempt can be launched once its inputs are mounted: compile
\* attempts are clones of the workspace (docs/design/reboot/modules/03_agent_workspace.md:35).
MountedCanLaunch ==
    \A c \in Compiles : step[c] = "mounted" => clone[c]["journal"] = Empty

=============================================================================
