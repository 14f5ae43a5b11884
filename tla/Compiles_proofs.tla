----------------------------- MODULE Compiles_proofs -----------------------------
(***************************************************************************)
(* Proofs about compiles of one target beside each other, for any number   *)
(* of them, any rows, telemetry, answers and directories: the limit of     *)
(* running compiles, what is in a snapshot, the rows a test has used up,   *)
(* when the workspace can be loaded, and which attempts can launch their   *)
(* agent.                                                                  *)
(***************************************************************************)
EXTENDS Compiles, FiniteSetTheorems, TLAPS

-----------------------------------------------------------------------------
(* Types. *)

\* The telemetry somebody may ask with.
Sources == UNION {q.tels : q \in world.requests}
Requests == [via : {"none", "library", "cli"}, tels : SUBSET Sources]

TypeInv ==
    /\ world \in Worlds
    /\ now \in 0..world.horizon
    /\ step \in [Compiles -> Steps]
    /\ asked \in [Compiles -> Requests]
    /\ cutoff \in [Compiles -> 0..now]
    /\ files = [c \in Compiles |-> files[c]]
    /\ alive \subseteq Compiles
    /\ runs \in [Compiles -> {"none", "running", "closing", "closed"}]
    /\ unguarded \in BOOLEAN
    /\ WorkspaceTypeOK

\* The digest of a tree, and a tree left over, are what their types say.
LEMMA DigestType ==
    ASSUME NEW t \in OnDisk
    PROVE  /\ Digest(t) \in Trees
           /\ Digest(Digest(t)) = Digest(t)
           /\ Digest(t) \in OnDisk
           /\ \A d \in Dirs : Digest(t)[d] # Missing
BY WorkspaceAssumption DEF OnDisk, Trees, Digest

LEMMA InitTypes == Init => TypeInv
<1> SUFFICES ASSUME Init PROVE TypeInv
  OBVIOUS
<1>1. world \in Worlds /\ world.horizon \in Nat /\ world.left \in OnDisk
  BY WorldsAssumption DEF Init
<1>2. WorkspaceTypeOK
  BY <1>1, WorkspaceAssumption DEF Init, WorkspaceInit, WorkspaceTypeOK
<1>3. asked \in [Compiles -> Requests]
  BY DEF Init, Requests, NoRequest
<1>4. now \in 0..world.horizon /\ cutoff \in [Compiles -> 0..now]
  BY <1>1 DEF Init
<1> QED
  BY <1>1, <1>2, <1>3, <1>4 DEF Init, TypeInv, Steps

\* What the workspace actions keep.
LEMMA WorkspaceTypes ==
    ASSUME WorkspaceTypeOK, NEW c \in Compiles,
           \/ Load(c) \/ LoadRaises \/ CheckBaseline(c) \/ Clone(c) \/ Drop(c)
           \/ BeginAdvance(c) \/ RemoveManifest(c) \/ BeginCopy(c) \/ WriteManifest(c)
           \/ CutAdvance(c)
           \/ \E d \in Dirs : RemoveDir(c, d) \/ CopyDir(c, d)
           \/ UNCHANGED wsVars
    PROVE  WorkspaceTypeOK'
<1>1. Digest(main) \in Trees /\ Digest(main) \in OnDisk
  BY DigestType DEF WorkspaceTypeOK
<1>2. CASE Load(c) \/ LoadRaises
  BY <1>1, <1>2 DEF WorkspaceTypeOK, Load, LoadRaises
<1>3. CASE CheckBaseline(c) \/ UNCHANGED wsVars
  BY <1>3 DEF WorkspaceTypeOK, CheckBaseline, wsVars
<1>4. CASE Clone(c)
  BY <1>1, <1>4 DEF WorkspaceTypeOK, Clone
<1>5. CASE Drop(c)
  BY <1>5 DEF WorkspaceTypeOK, Drop
<1>6. CASE BeginAdvance(c)
  <2>1. {d \in Dirs : main[d] # Missing} \cup {m \in {"manifest"} : manifest # NoTree}
          \in SUBSET (Dirs \cup {"manifest"})
    OBVIOUS
  <2> QED
    BY <1>6, <2>1 DEF WorkspaceTypeOK, BeginAdvance
<1>7. CASE RemoveManifest(c) \/ BeginCopy(c) \/ CutAdvance(c)
  BY <1>7 DEF WorkspaceTypeOK, RemoveManifest, BeginCopy, CutAdvance
<1>8. CASE WriteManifest(c)
  BY <1>1, <1>8 DEF WorkspaceTypeOK, WriteManifest
<1>9. CASE \E d \in Dirs : RemoveDir(c, d) \/ CopyDir(c, d)
  <2>1. PICK d \in Dirs : RemoveDir(c, d) \/ CopyDir(c, d)
    BY <1>9
  <2>2. /\ main' \in OnDisk /\ listed' = [listed EXCEPT ![c] = @ \ {d}]
        /\ UNCHANGED <<manifest, held, clone, advance>>
    BY <2>1 DEF WorkspaceTypeOK, RemoveDir, CopyDir, OnDisk
  <2>3. listed' \in [Compiles -> SUBSET (Dirs \cup {"manifest"})]
    BY <2>2 DEF WorkspaceTypeOK
  <2> QED
    BY <2>2, <2>3 DEF WorkspaceTypeOK
<1> QED
  BY <1>2, <1>3, <1>4, <1>5, <1>6, <1>7, <1>8, <1>9

\* Every step does one of these to the workspace.
LEMMA WorkspaceSteps ==
    ASSUME [Next]_vars
    PROVE  \/ UNCHANGED wsVars
           \/ \E c \in Compiles :
                 \/ Load(c) \/ LoadRaises \/ CheckBaseline(c) \/ Clone(c) \/ Drop(c)
                 \/ BeginAdvance(c) \/ RemoveManifest(c) \/ BeginCopy(c) \/ WriteManifest(c)
                 \/ CutAdvance(c)
                 \/ \E d \in Dirs : RemoveDir(c, d) \/ CopyDir(c, d)
<1>1. ASSUME NEW c \in Compiles,
             \/ Plan(c) \/ StartFromCommandLine(c) \/ Build(c) \/ Launch(c) \/ Record(c)
             \/ AgentEnds(c) \/ BeginClose(c) \/ Close(c) \/ RunEnds(c) \/ Test(c)
      PROVE  UNCHANGED wsVars
  BY <1>1 DEF Plan, StartFromCommandLine, Build, Launch, Record, AgentEnds, BeginClose, Close,
              RunEnds, Test, wsVars
<1>2. ASSUME NEW c \in Compiles,
             \/ BuildRaises(c) \/ CheckWorkspaceRaises(c) \/ LaunchRaises(c) \/ LaunchLost(c)
      PROVE  Drop(c)
  BY <1>2 DEF BuildRaises, CheckWorkspaceRaises, LaunchRaises, LaunchLost, FailOnDisk
<1>3. ASSUME NEW c \in Compiles,
             \/ LoadWorkspace(c) \/ LoadWorkspaceRaises(c) \/ CheckWorkspace(c)
             \/ CloneAndMount(c)
      PROVE  Load(c) \/ LoadRaises \/ CheckBaseline(c) \/ Clone(c)
  BY <1>3 DEF LoadWorkspace, LoadWorkspaceRaises, CheckWorkspace, CloneAndMount
<1>4. ASSUME NEW c \in Compiles, Advance(c)
      PROVE  \/ BeginAdvance(c) \/ RemoveManifest(c) \/ BeginCopy(c) \/ WriteManifest(c)
             \/ CutAdvance(c)
             \/ \E d \in Dirs : RemoveDir(c, d) \/ CopyDir(c, d)
  BY <1>4 DEF Advance
<1>5. ASSUME Tick \/ UNCHANGED vars PROVE UNCHANGED wsVars
  BY <1>5 DEF Tick, vars, wsVars
<1> QED
  BY <1>1, <1>2, <1>3, <1>4, <1>5 DEF Next

\* Nobody changes the world; what else a step does to a compile.
LEMMA NextTypes == TypeInv /\ [Next]_vars => TypeInv'
<1> SUFFICES ASSUME TypeInv, [Next]_vars PROVE TypeInv'
  OBVIOUS
<1>1. WorkspaceTypeOK'
  BY WorkspaceSteps, WorkspaceTypes DEF TypeInv, wsVars, WorkspaceTypeOK
<1>2. world.horizon \in Nat
  BY WorldsAssumption DEF TypeInv
<1> DEFINE Others == /\ world' \in Worlds
                     /\ now' \in 0..world'.horizon
                     /\ step' \in [Compiles -> Steps]
                     /\ asked' \in [Compiles -> Requests']
                     /\ cutoff' \in [Compiles -> 0..now']
                     /\ files' = [c \in Compiles |-> files'[c]]
                     /\ alive' \subseteq Compiles
                     /\ runs' \in [Compiles -> {"none", "running", "closing", "closed"}]
                     /\ unguarded' \in BOOLEAN
<1> USE DEF TypeInv, Steps
<1>3. ASSUME world' = world PROVE Requests' = Requests
  BY <1>3 DEF Requests, Sources
<1>4. ASSUME NEW c \in Compiles, Plan(c) PROVE Others
  <2>1. PICK r \in world.requests : 
          /\ Decision(r) # "deferred" /\ step' = [step EXCEPT ![c] = Decision(r)]
          /\ \/ /\ asked' = [asked EXCEPT ![c] = [via |-> "library", tels |-> r.tels]]
                /\ cutoff' = [cutoff EXCEPT ![c] = now]
                /\ unguarded' = (unguarded \/ Launching # {})
             \/ UNCHANGED <<asked, cutoff, unguarded>>
    BY <1>4 DEF Plan
  <2>2. UNCHANGED <<world, now, files, alive, runs>>
    BY <1>4 DEF Plan
  <2>3. step' \in [Compiles -> Steps]
    BY <2>1 DEF Decision
  <2>4. [via |-> "library", tels |-> r.tels] \in Requests
    BY <2>1 DEF Requests, Sources
  <2>5. asked' \in [Compiles -> Requests]
    BY <2>1, <2>4
  <2>6. cutoff' \in [Compiles -> 0..now]
    BY <1>2, <2>1
  <2>7. unguarded' \in BOOLEAN
    BY <2>1
  <2> QED
    BY <1>3, <2>2, <2>3, <2>5, <2>6, <2>7
<1>5. ASSUME NEW c \in Compiles, StartFromCommandLine(c) PROVE Others
  <2>1. [via |-> "cli", tels |-> {}] \in Requests
    BY DEF Requests
  <2> QED
    BY <1>3, <1>5, <2>1 DEF StartFromCommandLine, Go
<1>6. ASSUME NEW c \in Compiles, Build(c) PROVE Others
  <2>1. Cutoff(c) \in 0..now
    BY <1>2 DEF Cutoff
  <2> QED
    BY <1>3, <1>6, <2>1 DEF Build, Go
<1>7. ASSUME NEW c \in Compiles, Fail(c), unguarded' \in BOOLEAN PROVE Others
  <2>1. NoRequest \in Requests
    BY DEF Requests, NoRequest
  <2>2. 0 \in 0..now
    BY <1>2
  <2>3. UNCHANGED <<world, now, alive, runs>>
    BY <1>7 DEF Fail
  <2>4. asked' \in [Compiles -> Requests]
    BY <1>7, <2>1 DEF Fail
  <2>5. cutoff' \in [Compiles -> 0..now]
    BY <1>7, <2>2 DEF Fail
  <2>6. step' \in [Compiles -> Steps] /\ files' = [b \in Compiles |-> files'[b]]
    BY <1>7 DEF Fail
  <2> QED
    BY <1>3, <1>7, <2>3, <2>4, <2>5, <2>6
<1>8. ASSUME NEW c \in Compiles,
             \/ BuildRaises(c) \/ LoadWorkspaceRaises(c) \/ CheckWorkspaceRaises(c)
             \/ LaunchRaises(c) \/ LaunchLost(c)
      PROVE  Fail(c) /\ unguarded' \in BOOLEAN
  BY <1>8 DEF BuildRaises, LoadWorkspaceRaises, CheckWorkspaceRaises, LaunchRaises, LaunchLost,
              FailOnDisk
<1>9. ASSUME NEW c \in Compiles, LoadWorkspace(c) \/ CheckWorkspace(c) \/ CloneAndMount(c)
      PROVE  Others
  BY <1>3, <1>9 DEF LoadWorkspace, CheckWorkspace, CloneAndMount, Go, compileVars
<1>10. ASSUME NEW c \in Compiles, Launch(c) \/ Record(c) \/ AgentEnds(c) PROVE Others
  BY <1>3, <1>10 DEF Launch, Record, AgentEnds, Go
<1>11. ASSUME NEW c \in Compiles, BeginClose(c) \/ Close(c) \/ RunEnds(c) \/ Test(c) PROVE Others
  BY <1>3, <1>11 DEF BeginClose, Close, RunEnds, Test, Go
<1>12. ASSUME NEW c \in Compiles, Advance(c) PROVE Others
  BY <1>3, <1>12 DEF Advance, compileVars
<1>13. ASSUME Tick PROVE Others
  <2>1. now' \in 0..world.horizon /\ \A n \in 0..now : n \in 0..now'
    BY <1>2, <1>13 DEF Tick
  <2> QED
    BY <1>3, <1>13, <2>1 DEF Tick
<1>14. ASSUME UNCHANGED vars PROVE Others
  BY <1>3, <1>14 DEF vars
<1>15. Others
  BY <1>4, <1>5, <1>6, <1>7, <1>8, <1>9, <1>10, <1>11, <1>12, <1>13, <1>14 DEF Next
<1> QED
  BY <1>1, <1>15

-----------------------------------------------------------------------------
(* The limit. *)

\* Who counts against the limit or soon will.
Counted == Busy \cup Launching

\* A run is counted from its plan to the end of its agent, launched or not, and
\* as long as launches do not overlap there is room for all that are counted.
LimitInv ==
    /\ \A c \in alive : Library(c) => c \in Counted
    /\ ~unguarded => Cardinality(Counted) <= MaxConcurrent
    /\ \A c \in Compiles : step[c] \in {"idle", "rejected"} => ~Library(c)
    /\ \A c \in Compiles : step[c] = "recorded" => c \in Busy
    /\ \A c \in Compiles : step[c] \in {"idle", "closed", "tested"} => c \notin alive

LEMMA CountedFinite ==
    ASSUME NEW S, S \subseteq Counted
    PROVE  /\ IsFiniteSet(S) /\ IsFiniteSet(Counted)
           /\ Cardinality(S) \in Nat /\ Cardinality(Counted) \in Nat
           /\ Cardinality(S) <= Cardinality(Counted)
<1>1. Counted \subseteq Compiles
  BY DEF Counted, Busy, Launching
<1>2. IsFiniteSet(Counted)
  BY <1>1, WorldsAssumption, FS_Subset
<1> QED
  BY <1>2, FS_Subset, FS_CardinalityType

\* Where nobody more is counted, the limit stays.
LEMMA FewerCounted ==
    ASSUME LimitInv, Counted' \subseteq Counted, unguarded' \/ ~unguarded
    PROVE  ~unguarded' => Cardinality(Counted') <= MaxConcurrent
<1>1. /\ Cardinality(Counted') \in Nat /\ Cardinality(Counted) \in Nat
      /\ Cardinality(Counted') <= Cardinality(Counted)
  BY CountedFinite
<1> QED
  BY <1>1, WorldsAssumption DEF LimitInv

LEMMA InitLimit == Init => LimitInv
<1> SUFFICES ASSUME Init PROVE LimitInv
  OBVIOUS
<1>1. Counted = {}
  BY DEF Init, Counted, Busy, Launching, Library, NoRequest
<1>2. Cardinality(Counted) <= MaxConcurrent
  BY <1>1, FS_EmptySet, WorldsAssumption
<1> QED
  BY <1>2 DEF Init, LimitInv, Library, NoRequest

\* A launch is counted once it is planned: it found room for one more.
LEMMA PlanLimit ==
    ASSUME TypeInv, LimitInv, NEW c \in Compiles, Plan(c)
    PROVE  LimitInv'
<1>1. PICK r \in world.requests :
        /\ step' = [step EXCEPT ![c] = Decision(r)]
        /\ \/ /\ Decision(r) = "accepted"
              /\ asked' = [asked EXCEPT ![c] = [via |-> "library", tels |-> r.tels]]
              /\ unguarded' = (unguarded \/ Launching # {})
           \/ /\ Decision(r) = "rejected"
              /\ UNCHANGED <<asked, unguarded>>
  BY DEF Plan, Decision
<1>2. /\ step[c] = "idle" /\ c \notin alive /\ ~Library(c)
      /\ UNCHANGED <<alive, runs>>
  BY DEF Plan, LimitInv
<1>3. \A b \in Compiles : b # c => step'[b] = step[b] /\ asked'[b] = asked[b]
  BY <1>1 DEF TypeInv
<1>4. Busy' = Busy /\ Launching' \subseteq Launching \cup {c} /\ Launching \subseteq Launching'
  BY <1>1, <1>2, <1>3 DEF Busy, Launching, Library
<1>5. CASE Decision(r) = "accepted"
  <2>1. unguarded' = (unguarded \/ Launching # {})
    BY <1>1, <1>5
  <2>2. ~unguarded' => Cardinality(Counted') <= MaxConcurrent
    <3> SUFFICES ASSUME Launching = {} PROVE Cardinality(Counted') <= MaxConcurrent
      BY <2>1
    <3>1. Counted' \subseteq Busy \cup {c}
      BY <1>4 DEF Counted
    <3>2. IsFiniteSet(Busy) /\ Cardinality(Busy) \in Nat
      BY CountedFinite DEF Counted
    <3>3. /\ IsFiniteSet(Busy \cup {c})
          /\ Cardinality(Busy \cup {c}) \in {Cardinality(Busy), Cardinality(Busy) + 1}
      BY <3>2, FS_AddElement
    <3>4. /\ Cardinality(Counted') <= Cardinality(Busy \cup {c})
          /\ Cardinality(Counted') \in Nat
      BY <3>1, <3>3, FS_Subset, FS_CardinalityType
    <3>5. Cardinality(Busy) < MaxConcurrent
      <4>1. ~(Cardinality(Busy) >= MaxConcurrent)
        BY <1>5 DEF Decision
      <4> QED
        BY <3>2, <4>1, WorldsAssumption
    <3> QED
      BY <3>2, <3>3, <3>4, <3>5, WorldsAssumption
  <2>3. \A b \in alive' : Library(b)' => b \in Counted'
    BY <1>2, <1>3, <1>4 DEF TypeInv, LimitInv, Counted, Library
  <2>4. step'[c] = "accepted"
    BY <1>1, <1>5 DEF TypeInv
  <2> QED
    BY <1>2, <1>3, <1>4, <2>2, <2>3, <2>4 DEF LimitInv, Library
<1>6. CASE Decision(r) = "rejected"
  <2>1. UNCHANGED <<asked, unguarded>> /\ step'[c] = "rejected"
    BY <1>1, <1>6 DEF TypeInv
  <2>2. Counted' = Counted
    BY <1>2, <1>3, <1>4, <2>1 DEF Counted, Launching, Library
  <2>3. unguarded' \/ ~unguarded
    BY <2>1
  <2>4. ~unguarded' => Cardinality(Counted') <= MaxConcurrent
    BY <2>2, <2>1 DEF LimitInv
  <2> QED
    BY <1>2, <1>3, <1>4, <2>1, <2>2, <2>4 DEF LimitInv, Library
<1> QED
  BY <1>1, <1>5, <1>6

\* A call that fails takes its compile out of the count.
LEMMA FailLimit ==
    ASSUME TypeInv, LimitInv, NEW c \in Compiles, Fail(c), unguarded' \/ ~unguarded
    PROVE  LimitInv'
<1>1. /\ step'[c] = "failed" /\ ~Library(c)'
      /\ \A b \in Compiles : b # c => step'[b] = step[b] /\ Library(b)' = Library(b)
      /\ UNCHANGED <<alive, runs>>
  BY DEF TypeInv, Fail, Library, NoRequest
<1>2. Busy' = Busy /\ Launching' = Launching \ {c}
  BY <1>1 DEF Busy, Launching
<1>3. ~unguarded' => Cardinality(Counted') <= MaxConcurrent
  BY <1>2, FewerCounted DEF Counted
<1> QED
  BY <1>1, <1>2, <1>3 DEF LimitInv, Counted, TypeInv

\* Steps of a launch, which keep a planned compile among those counted.
LEMMA LaunchLimit ==
    ASSUME TypeInv, LimitInv, NEW c \in Compiles,
           \/ Build(c) \/ LoadWorkspace(c) \/ CheckWorkspace(c) \/ CloneAndMount(c)
           \/ Launch(c) \/ Record(c)
    PROVE  LimitInv'
<1>1. /\ step[c] \in {"accepted", "built", "loaded", "checked", "mounted", "launched"}
      /\ step'[c] \in {"built", "loaded", "checked", "mounted", "launched", "recorded"}
      /\ \A b \in Compiles : b # c => step'[b] = step[b]
      /\ UNCHANGED <<asked, unguarded>>
  BY DEF TypeInv, Build, LoadWorkspace, CheckWorkspace, CloneAndMount, Launch, Record, Go,
         compileVars
<1>2. /\ alive' \in {alive, alive \cup {c}}
      /\ step'[c] # "recorded" => runs' = runs
      /\ step'[c] = "recorded" => runs' = [runs EXCEPT ![c] = "running"] /\ Library(c)
  BY <1>1 DEF TypeInv, Build, LoadWorkspace, CheckWorkspace, CloneAndMount, Launch, Record, Go,
              compileVars
<1>3. \A b : Library(b)' = Library(b)
  BY <1>1 DEF Library
<1>4. Library(c) => c \in Counted /\ c \in Counted'
  <2> SUFFICES ASSUME Library(c) PROVE c \in Counted /\ c \in Counted'
    OBVIOUS
  <2>1. c \in Launching
    BY <1>1 DEF Launching
  <2>2. CASE step'[c] = "recorded"
    <3>1. c \in Busy'
      BY <1>2, <2>2 DEF Busy, TypeInv
    <3> QED
      BY <2>1, <3>1 DEF Counted
  <2>3. CASE step'[c] # "recorded"
    <3>1. c \in Launching'
      BY <1>1, <1>3, <2>3 DEF Launching
    <3> QED
      BY <2>1, <3>1 DEF Counted
  <2> QED
    BY <2>2, <2>3
<1>5. \A b \in Compiles : b # c => runs'[b] = runs[b]
  BY <1>2 DEF TypeInv
<1>6. \A b \in Compiles : b # c => (b \in Counted' <=> b \in Counted)
  BY <1>1, <1>3, <1>5 DEF Counted, Busy, Launching
<1>7. Busy' \subseteq Busy \cup {c} /\ (c \in Busy' => c \in Busy \/ Library(c))
  BY <1>2, <1>5 DEF Busy
<1>8. Counted' \subseteq Counted
  <2>1. Counted' \subseteq Compiles
    BY DEF Counted, Busy, Launching
  <2>2. c \in Counted' => c \in Counted
    <3>1. c \in Launching' => Library(c)
      BY <1>3 DEF Launching
    <3> QED
      BY <1>4, <1>7, <3>1 DEF Counted
  <2> QED
    BY <1>6, <2>1, <2>2
<1>9. ~unguarded' => Cardinality(Counted') <= MaxConcurrent
  BY <1>1, <1>8, FewerCounted DEF TypeInv
<1>10. \A b \in alive' : Library(b)' => b \in Counted'
  BY <1>2, <1>3, <1>4, <1>6 DEF LimitInv, TypeInv
<1>11. step'[c] = "recorded" => c \in Busy'
  BY <1>2 DEF Busy, TypeInv
<1>12. \A b \in Compiles : step'[b] = "recorded" => b \in Busy'
  BY <1>1, <1>5, <1>11 DEF LimitInv, Busy
<1> QED
  BY <1>1, <1>2, <1>3, <1>9, <1>10, <1>12 DEF LimitInv, TypeInv

\* Steps after the launch: a run leaves the count only when its agent has ended.
LEMMA LaterLimit ==
    ASSUME TypeInv, LimitInv, NEW c \in Compiles,
           AgentEnds(c) \/ BeginClose(c) \/ Close(c) \/ RunEnds(c) \/ Test(c)
    PROVE  LimitInv'
<1>1. UNCHANGED <<asked, unguarded>> /\ \A b : Library(b)' = Library(b)
  BY DEF AgentEnds, BeginClose, Close, RunEnds, Test, Library
<1>2. CASE AgentEnds(c)
  <2>1. alive' \subseteq alive /\ UNCHANGED <<step, runs>>
    BY <1>2 DEF AgentEnds
  <2>2. Busy' = Busy /\ Launching' = Launching
    BY <1>1, <2>1 DEF Busy, Launching
  <2> QED
    BY <1>1, <2>1, <2>2 DEF LimitInv, Counted
<1>3. CASE BeginClose(c)
  <2>1. UNCHANGED <<step, alive>> /\ runs' = [runs EXCEPT ![c] = "closing"] /\ runs[c] = "running"
    BY <1>3 DEF BeginClose
  <2>2. Busy' = Busy /\ Launching' = Launching
    BY <1>1, <2>1 DEF Busy, Launching, TypeInv
  <2> QED
    BY <1>1, <2>1, <2>2 DEF LimitInv, Counted
<1>4. CASE Close(c)
  <2>1. /\ step[c] = IF Library(c) THEN "recorded" ELSE "launched"
        /\ step' = [step EXCEPT ![c] = "closed"] /\ alive' = alive \ {c} /\ UNCHANGED runs
    BY <1>4 DEF Close
  <2>2. Busy' = Busy /\ Launching' = Launching
    BY <1>1, <2>1 DEF Busy, Launching, TypeInv
  <2> QED
    BY <1>1, <2>1, <2>2 DEF LimitInv, Counted, TypeInv
<1>5. CASE RunEnds(c)
  <2>1. /\ UNCHANGED <<step, alive>> /\ runs' = [runs EXCEPT ![c] = "closed"]
        /\ step[c] \in {"closed", "tested"}
    BY <1>5 DEF RunEnds
  <2>2. Busy' = Busy \ {c} /\ Launching' = Launching
    BY <1>1, <2>1 DEF Busy, Launching, TypeInv
  <2>3. ~unguarded' => Cardinality(Counted') <= MaxConcurrent
    BY <1>1, <2>2, FewerCounted DEF Counted, TypeInv
  <2> QED
    BY <1>1, <2>1, <2>2, <2>3 DEF LimitInv, Counted
<1>6. CASE Test(c)
  <2>1. /\ step[c] = "closed" /\ step' = [step EXCEPT ![c] = "tested"] /\ UNCHANGED <<alive, runs>>
    BY <1>6 DEF Test, Go
  <2>2. Busy' = Busy /\ Launching' = Launching
    BY <1>1, <2>1 DEF Busy, Launching, TypeInv
  <2> QED
    BY <1>1, <2>1, <2>2 DEF LimitInv, Counted, TypeInv
<1> QED
  BY <1>2, <1>3, <1>4, <1>5, <1>6

LEMMA NextLimit == TypeInv /\ LimitInv /\ [Next]_vars => LimitInv'
<1> SUFFICES ASSUME TypeInv, LimitInv, [Next]_vars PROVE LimitInv'
  OBVIOUS
<1>1. ASSUME NEW c \in Compiles, StartFromCommandLine(c) PROVE LimitInv'
  <2>1. /\ step[c] = "idle" /\ step'[c] = "accepted" /\ ~Library(c) /\ ~Library(c)'
        /\ \A b \in Compiles : b # c => step'[b] = step[b] /\ Library(b)' = Library(b)
        /\ UNCHANGED <<alive, runs, unguarded>>
    BY <1>1 DEF TypeInv, LimitInv, StartFromCommandLine, Go, Library
  <2>2. Busy' = Busy /\ Launching' = Launching
    BY <2>1 DEF Busy, Launching
  <2> QED
    BY <2>1, <2>2 DEF LimitInv, Counted, TypeInv
<1>2. ASSUME NEW c \in Compiles,
             \/ BuildRaises(c) \/ LoadWorkspaceRaises(c) \/ CheckWorkspaceRaises(c)
             \/ LaunchRaises(c) \/ LaunchLost(c)
      PROVE  Fail(c) /\ (unguarded' \/ ~unguarded)
  BY <1>2 DEF BuildRaises, LoadWorkspaceRaises, CheckWorkspaceRaises, LaunchRaises, LaunchLost,
              FailOnDisk, TypeInv
<1>3. ASSUME NEW c \in Compiles, Advance(c)
      PROVE  UNCHANGED <<step, asked, alive, runs, unguarded>>
  BY <1>3 DEF Advance, compileVars
<1>4. ASSUME Tick \/ UNCHANGED vars
      PROVE  UNCHANGED <<step, asked, alive, runs, unguarded>>
  BY <1>4 DEF Tick, vars
<1>5. ASSUME UNCHANGED <<step, asked, alive, runs, unguarded>>
      PROVE  LimitInv'
  BY <1>5 DEF LimitInv, Counted, Busy, Launching, Library
<1> QED
  BY <1>1, <1>2, <1>3, <1>4, <1>5, PlanLimit, FailLimit, LaunchLimit, LaterLimit DEF Next

-----------------------------------------------------------------------------
(* Snapshots. *)

\* Labels change a row in its output and nothing else.
LEMMA LabeledRow ==
    ASSUME NEW rows, \A r \in rows : SourceRow(r), NEW answers
    PROVE  /\ \A x \in Labeled(rows, answers) :
                 /\ SourceRow(x)
                 /\ \E r \in rows : /\ x.id = r.id /\ x.input = r.input
                                    /\ x.elig = r.elig /\ x.time = r.time
           /\ \A r \in rows : \E x \in Labeled(rows, answers) :
                 x.input = r.input /\ x.elig = r.elig
<1> DEFINE relabel(r) == [id |-> r.id, input |-> r.input, elig |-> r.elig, time |-> r.time,
                          ref |-> {answers[r.input].output}, by |-> "versioned_l4"]
<1>1. ASSUME NEW r \in rows
      PROVE  /\ SourceRow(relabel(r)) /\ relabel(r).id = r.id /\ relabel(r).input = r.input
             /\ relabel(r).elig = r.elig /\ relabel(r).time = r.time
  BY DEF SourceRow
<1>2. Labeled(rows, answers)
        = Comparable(rows) \cup {relabel(r) : r \in rows \ Comparable(rows)}
  BY DEF Labeled, Unlabeled
<1>3. Comparable(rows) \subseteq rows
  BY DEF Comparable
<1> HIDE DEF relabel
<1> QED
  BY <1>1, <1>2, <1>3

\* The row that is kept for an input, with what all rows of it allow.
LEMMA KeptRow ==
    ASSUME NEW L, \A x \in L : SourceRow(x), NEW first \in Firsts(L),
           NEW r \in Deduplicated(L, first)
    PROVE  /\ first[r.input] \in L /\ first[r.input].input = r.input
           /\ r = [first[r.input] EXCEPT !.elig = CommonUse(Twins(L, r.input))]
           /\ r.id = first[r.input].id /\ r.time = first[r.input].time
           /\ r.elig = CommonUse(Twins(L, r.input))
<1>1. PICK i \in {x.input : x \in L} :
        r = [first[i] EXCEPT !.elig = CommonUse(Twins(L, i))]
  BY DEF Deduplicated
<1>2. first[i] \in L /\ first[i].input = i
  BY DEF Firsts
<1>3. first[i] = [id |-> first[i].id, input |-> first[i].input, elig |-> first[i].elig,
                  time |-> first[i].time, ref |-> first[i].ref, by |-> first[i].by]
  BY <1>2 DEF SourceRow
<1>4. r = [id |-> first[i].id, input |-> first[i].input, elig |-> CommonUse(Twins(L, i)),
           time |-> first[i].time, ref |-> first[i].ref, by |-> first[i].by]
  BY <1>1, <1>3
<1>5. r.input = i /\ r.id = first[i].id /\ r.time = first[i].time
        /\ r.elig = CommonUse(Twins(L, i))
  BY <1>2, <1>4
<1> QED
  BY <1>1, <1>2, <1>5

\* What a built snapshot is made of.
LEMMA SnapshotParts ==
    ASSUME NEW rows, NEW answers, NEW used, NEW s \in Snapshots(rows, answers, used)
    PROVE  \E first \in Firsts(Labeled(rows, answers)) :
             LET kept == Deduplicated(Labeled(rows, answers), first) IN
               \E plan \in Plans(kept, used) : s = Files(kept, plan)
BY DEF Snapshots

\* The rows of one file of it.
LEMMA FileRow ==
    ASSUME NEW kept, NEW used, NEW plan \in Plans(kept, used), NEW k \in Splits,
           NEW r \in Files(kept, plan)[k]
    PROVE  /\ r \in kept /\ plan[GroupOf[r.id]] = k
           /\ UseFor[k] \in r.elig
           /\ k \in Hidden => r.input \notin used /\ GroupOf[r.id] \notin used
<1> DEFINE g == GroupOf[r.id]
<1>1. r \in kept /\ g \in Plannable(kept) /\ plan[g] = k
  BY DEF Files, Plans
<1>2. k \in Choices(kept, g, used) /\ r \in Members(kept, g)
  BY <1>1 DEF Plans, Members
<1>3. UseFor[k] \in r.elig
  BY <1>2 DEF Choices, CommonUse
<1>4. k \in Hidden => MayHide(kept, g, used)
  BY <1>2 DEF Choices
<1> QED
  BY <1>1, <1>2, <1>3, <1>4 DEF MayHide

\* A snapshot hides nothing that is used up, directly or by its group.
LEMMA HiddenIsFresh ==
    ASSUME NEW rows, NEW answers, NEW used, NEW s \in Snapshots(rows, answers, used)
    PROVE  Keys(s["validation"] \cup s["test"]) \cap used = {}
<1>1. PICK first \in Firsts(Labeled(rows, answers)) :
        \E plan \in Plans(Deduplicated(Labeled(rows, answers), first), used) :
           s = Files(Deduplicated(Labeled(rows, answers), first), plan)
  BY SnapshotParts
<1> DEFINE kept == Deduplicated(Labeled(rows, answers), first)
<1>2. PICK plan \in Plans(kept, used) : s = Files(kept, plan)
  BY <1>1
<1> HIDE DEF kept
<1>3. ASSUME NEW k \in Hidden, NEW r \in s[k]
      PROVE  r.input \notin used /\ GroupOf[r.id] \notin used
  BY <1>2, <1>3, FileRow DEF Hidden, Splits
<1>4. \A r \in s["validation"] \cup s["test"] : r.input \notin used /\ GroupOf[r.id] \notin used
  BY <1>3 DEF Hidden
<1> QED
  BY <1>4 DEF Keys

\* Every row of it has the time of a row that was collected, is used only as all
\* collected rows of its input allow, and shares neither input nor group with a
\* row of another file.
LEMMA SnapshotRows ==
    ASSUME NEW rows, \A r \in rows : SourceRow(r), NEW answers, NEW used,
           \A r, q \in rows : GroupOf[r.id] # q.input,
           NEW s \in Snapshots(rows, answers, used), NEW k \in Splits, NEW r \in s[k]
    PROVE  /\ \E q \in rows : r.time = q.time
           /\ \A q \in rows : q.input = r.input => UseFor[k] \in q.elig
           /\ \A u \in Splits \ {k} : Keys({r}) \cap Keys(s[u]) = {}
<1> DEFINE L == Labeled(rows, answers)
<1>1. PICK first \in Firsts(L) :
        \E plan \in Plans(Deduplicated(L, first), used) : s = Files(Deduplicated(L, first), plan)
  BY SnapshotParts
<1> DEFINE kept == Deduplicated(L, first)
<1>2. PICK plan \in Plans(kept, used) : s = Files(kept, plan)
  BY <1>1
<1>3. /\ \A x \in L : SourceRow(x)
      /\ \A x \in L : \E q \in rows : /\ x.id = q.id /\ x.input = q.input
                                      /\ x.elig = q.elig /\ x.time = q.time
      /\ \A q \in rows : \E x \in L : x.input = q.input /\ x.elig = q.elig
  BY LabeledRow
<1> HIDE DEF L
<1>4. ASSUME NEW x \in kept
      PROVE  /\ first[x.input] \in L /\ first[x.input].input = x.input
             /\ x = [first[x.input] EXCEPT !.elig = CommonUse(Twins(L, x.input))]
             /\ x.id = first[x.input].id /\ x.time = first[x.input].time
             /\ x.elig = CommonUse(Twins(L, x.input))
  BY <1>3, KeptRow
<1> HIDE DEF kept
<1>5. ASSUME NEW u \in Splits, NEW x \in s[u]
      PROVE  x \in kept /\ plan[GroupOf[x.id]] = u /\ UseFor[u] \in x.elig
  BY <1>2, <1>5, FileRow
<1>6. \E q \in rows : r.time = q.time
  BY <1>3, <1>4, <1>5
<1>7. ASSUME NEW q \in rows, q.input = r.input PROVE UseFor[k] \in q.elig
  <2>1. PICK x \in L : x.input = r.input /\ x.elig = q.elig
    BY <1>3, <1>7
  <2>2. UseFor[k] \in CommonUse(Twins(L, r.input)) /\ x \in Twins(L, r.input)
    BY <1>4, <1>5, <2>1 DEF Twins
  <2> QED
    BY <2>1, <2>2 DEF CommonUse
<1>8. ASSUME NEW u \in Splits \ {k}, NEW x \in s[u]
      PROVE  x.input # r.input /\ GroupOf[x.id] # GroupOf[r.id]
  <2>1. GroupOf[x.id] # GroupOf[r.id]
    BY <1>5
  <2>2. x.input = r.input => x = r
    <3> DEFINE only(i) == [first[i] EXCEPT !.elig = CommonUse(Twins(L, i))]
    <3>1. x = only(x.input) /\ r = only(r.input)
      BY <1>4, <1>5
    <3> HIDE DEF only
    <3> QED
      BY <3>1
  <2> QED
    BY <2>1, <2>2
<1>9. ASSUME NEW u \in Splits, NEW x \in s[u], NEW v \in Splits, NEW y \in s[v]
      PROVE  GroupOf[x.id] # y.input
  <2>1. \E q \in rows : x.id = q.id
    BY <1>3, <1>4, <1>5
  <2>2. \E q \in rows : y.input = q.input
    BY <1>3, <1>4, <1>5
  <2> QED
    BY <2>1, <2>2
<1>10. ASSUME NEW u \in Splits \ {k} PROVE Keys({r}) \cap Keys(s[u]) = {}
  <2>1. \A x \in s[u] : /\ x.input # r.input /\ GroupOf[x.id] # GroupOf[r.id]
                        /\ GroupOf[x.id] # r.input /\ GroupOf[r.id] # x.input
    BY <1>8, <1>9
  <2>2. Keys({r}) = {r.input, GroupOf[r.id]}
    BY DEF Keys
  <2> QED
    BY <2>1, <2>2 DEF Keys
<1> QED
  BY <1>6, <1>7, <1>10

\* The rows a compile collects: well formed, known, none after its cutoff; every
\* row of a file that is not after it, and every row of its telemetry.
LEMMA CollectedRows ==
    ASSUME TypeInv, NEW c \in Compiles, Cutoff(c) \in Nat, Cutoff(c) <= now,
           \A tel \in asked[c].tels : TelemetryValid(tel, Cutoff(c))
    PROVE  LET rows == Collected(Arrived, asked[c].tels, Cutoff(c)) IN
             /\ \A r \in rows : SourceRow(r) /\ \A t \in r.time : t <= Cutoff(c)
             /\ \A r, q \in rows : GroupOf[r.id] # q.input
             /\ \A r \in world.rows : (\A t \in r.time : t <= Cutoff(c)) => r \in rows
             /\ \A tel \in asked[c].tels : FromTelemetry(tel) \subseteq rows
<1> DEFINE rows  == Collected(Arrived, asked[c].tels, Cutoff(c))
           known == world.rows \cup UNION {tel.rows : tel \in Sources}
<1>1. /\ world \in Worlds /\ now \in Nat /\ asked[c].tels \subseteq Sources
      /\ \A r \in world.rows : SourceRow(r)
      /\ \A tel \in Sources : tel.cutoff \in Nat /\ \A r \in tel.rows : r.time \subseteq Nat
      /\ \A r, q \in known : GroupOf[r.id] # q.input
  BY WorldsAssumption DEF TypeInv, Requests, Sources
<1>2. ASSUME NEW r \in rows
      PROVE  \/ /\ r \in world.rows /\ \A t \in r.time : t <= Cutoff(c)
             \/ \E tel \in asked[c].tels : r \in FromTelemetry(tel)
  BY DEF Collected, Arrived
<1>3. ASSUME NEW tel \in asked[c].tels, NEW r \in FromTelemetry(tel)
      PROVE  /\ SourceRow(r) /\ \A t \in r.time : t <= Cutoff(c)
             /\ \E q \in known : r.id = q.id /\ r.input = q.input
  <2>1. PICK q \in Active(tel) :
          r = [id |-> q.id, input |-> q.input, elig |-> TelemetryUse(tel, q), time |-> q.time,
               ref |-> q.ref, by |-> q.by]
    BY DEF FromTelemetry
  <2>2. q \in tel.rows /\ q.time \subseteq Nat /\ tel \in Sources /\ tel.cutoff \in Nat
    BY <1>1 DEF Active
  <2>3. tel.cutoff <= Cutoff(c) /\ \A t \in q.time : t <= tel.cutoff
    BY DEF TelemetryValid
  <2>4. \A t \in q.time : t <= Cutoff(c)
    BY <2>2, <2>3
  <2> QED
    BY <2>1, <2>2, <2>4 DEF SourceRow
<1> HIDE DEF known
<1>4. ASSUME NEW r \in rows PROVE \E q \in known : r.id = q.id /\ r.input = q.input
  BY <1>2, <1>3 DEF known
<1>5. \A r \in rows : SourceRow(r) /\ \A t \in r.time : t <= Cutoff(c)
  BY <1>1, <1>2, <1>3
<1>6. \A r, q \in rows : GroupOf[r.id] # q.input
  BY <1>1, <1>4
<1>7. ASSUME NEW r \in world.rows, \A t \in r.time : t <= Cutoff(c) PROVE r \in rows
  <2>1. \A t \in r.time : t <= now
    BY <1>1, <1>7 DEF SourceRow
  <2> QED
    BY <1>7, <2>1 DEF Collected, Arrived
<1>8. \A tel \in asked[c].tels : FromTelemetry(tel) \subseteq rows
  BY DEF Collected
<1> QED
  BY <1>5, <1>6, <1>7, <1>8

\* Snapshots are legal, and there is none before it is built.
DataInv ==
    /\ SnapshotIsLegal /\ CutoffHolds
    /\ \A c \in Compiles : step[c] \in {"idle", "rejected", "accepted", "failed"} =>
                               files[c] = NoFile

\* A snapshot is built of what was collected.
LEMMA BuildData ==
    ASSUME TypeInv, DataInv, NEW c \in Compiles, Build(c)
    PROVE  DataInv'
<1>1. PICK answers \in Answers : \E s \in Buildable(c, answers) : files' = [files EXCEPT ![c] = s]
  BY DEF Build
<1>2. PICK s \in Buildable(c, answers) : files' = [files EXCEPT ![c] = s]
  BY <1>1
<1>3. /\ cutoff' = [cutoff EXCEPT ![c] = Cutoff(c)] /\ world' = world /\ asked' = asked
      /\ step' = [step EXCEPT ![c] = "built"]
  BY DEF Build, Go
<1>4. Cutoff(c) \in Nat /\ Cutoff(c) <= now
  BY WorldsAssumption DEF TypeInv, Cutoff
<1> DEFINE rows == Collected(Arrived, asked[c].tels, Cutoff(c))
<1>5. /\ \A tel \in asked[c].tels : TelemetryValid(tel, Cutoff(c))
      /\ s \in Snapshots(rows, answers, Used(c))
  BY <1>2 DEF Buildable
<1>6. /\ \A r \in rows : SourceRow(r) /\ \A t \in r.time : t <= Cutoff(c)
      /\ \A r, q \in rows : GroupOf[r.id] # q.input
      /\ \A r \in world.rows : (\A t \in r.time : t <= Cutoff(c)) => r \in rows
      /\ \A tel \in asked[c].tels : FromTelemetry(tel) \subseteq rows
  BY <1>4, <1>5, CollectedRows
<1> HIDE DEF rows
<1>7. ASSUME NEW k \in Splits, NEW r \in s[k]
      PROVE  /\ \E q \in rows : r.time = q.time
             /\ \A q \in rows : q.input = r.input => UseFor[k] \in q.elig
             /\ \A u \in Splits \ {k} : Keys({r}) \cap Keys(s[u]) = {}
  BY <1>5, <1>6, SnapshotRows
<1>8. /\ files'[c] = s /\ cutoff'[c] = Cutoff(c) /\ step'[c] = "built" /\ asked' = asked
      /\ \A b \in Compiles : b # c =>
            files'[b] = files[b] /\ cutoff'[b] = cutoff[b] /\ step'[b] = step[b]
  BY <1>2, <1>3 DEF TypeInv
<1>7a. ASSUME NEW k \in Splits, NEW r \in s[k], NEW tel \in asked[c].tels,
             NEW q \in Active(tel), q.input = r.input
      PROVE  UseFor[k] \in TelemetryUse(tel, q)
  <2> DEFINE x == [id |-> q.id, input |-> q.input, elig |-> TelemetryUse(tel, q),
                   time |-> q.time, ref |-> q.ref, by |-> q.by]
  <2>1. x \in FromTelemetry(tel)
    BY DEF FromTelemetry
  <2>2. x \in rows
    BY <1>6, <2>1
  <2>3. UseFor[k] \in x.elig
    BY <1>7, <1>7a, <2>2
  <2> QED
    BY <2>3
<1>9. ASSUME NEW b \in Compiles, NEW k \in Splits, NEW r \in files'[b][k]
      PROVE  /\ \A q \in world.rows :
                  (q.input = r.input /\ \A t \in q.time : t <= cutoff'[b]) => UseFor[k] \in q.elig
             /\ \A tel \in asked'[b].tels : \A q \in Active(tel) :
                  q.input = r.input => UseFor[k] \in TelemetryUse(tel, q)
             /\ \A u \in Splits \ {k} : Keys({r}) \cap Keys(files'[b][u]) = {}
             /\ \A t \in r.time : t <= cutoff'[b]
  <2>1. CASE b = c
    <3>1. r \in s[k] /\ cutoff'[b] = Cutoff(c) /\ asked'[b] = asked[c]
      BY <1>8, <1>9, <2>1
    <3>2. \A q \in world.rows :
             (q.input = r.input /\ \A t \in q.time : t <= cutoff'[b]) => UseFor[k] \in q.elig
      BY <1>6, <1>7, <3>1
    <3>3. \A tel \in asked'[b].tels : \A q \in Active(tel) :
             q.input = r.input => UseFor[k] \in TelemetryUse(tel, q)
      BY <1>7a, <3>1
    <3>4. \A u \in Splits \ {k} : Keys({r}) \cap Keys(files'[b][u]) = {}
      BY <1>7, <1>8, <2>1, <3>1
    <3>5. \A t \in r.time : t <= cutoff'[b]
      BY <1>6, <1>7, <3>1
    <3> QED
      BY <3>2, <3>3, <3>4, <3>5
  <2>2. CASE b # c
    BY <1>8, <1>9, <2>2 DEF DataInv, SnapshotIsLegal, CutoffHolds
  <2> QED
    BY <2>1, <2>2
<1>10. SnapshotIsLegal'
  <2>1. world' = world
    BY <1>3
  <2> QED
    BY <1>9, <2>1 DEF SnapshotIsLegal, Keys, Active, TelemetryUse
<1>11. CutoffHolds'
  BY <1>9 DEF CutoffHolds
<1> QED
  BY <1>8, <1>10, <1>11 DEF DataInv

\* No other step gives a compile a snapshot.
LEMMA OtherData ==
    ASSUME TypeInv, DataInv, world' = world,
           \A b \in Compiles :
              \/ files'[b] = files[b] /\ cutoff'[b] = cutoff[b] /\ asked'[b] = asked[b]
              \/ files'[b] = NoFile,
           \A b \in Compiles :
              step'[b] \in {"idle", "rejected", "accepted", "failed"} => files'[b] = NoFile
    PROVE  DataInv'
<1>1. \A k \in Splits : NoFile[k] = {}
  BY DEF NoFile
<1>2. ASSUME NEW b \in Compiles, NEW k \in Splits, NEW r \in files'[b][k]
      PROVE  /\ \A q \in world.rows :
                  (q.input = r.input /\ \A t \in q.time : t <= cutoff'[b]) => UseFor[k] \in q.elig
             /\ \A tel \in asked'[b].tels : \A q \in Active(tel) :
                  q.input = r.input => UseFor[k] \in TelemetryUse(tel, q)
             /\ \A u \in Splits \ {k} : Keys({r}) \cap Keys(files'[b][u]) = {}
             /\ \A t \in r.time : t <= cutoff'[b]
  BY <1>1, <1>2 DEF DataInv, SnapshotIsLegal, CutoffHolds
<1>3. SnapshotIsLegal'
  BY <1>2 DEF SnapshotIsLegal, Keys, Active, TelemetryUse
<1>4. CutoffHolds'
  BY <1>2 DEF CutoffHolds
<1> QED
  BY <1>3, <1>4 DEF DataInv

LEMMA NextData == TypeInv /\ DataInv /\ [Next]_vars => DataInv'
<1> SUFFICES ASSUME TypeInv, DataInv, [Next]_vars PROVE DataInv'
  OBVIOUS
<1> USE DEF TypeInv, DataInv
<1>1. ASSUME NEW c \in Compiles, Plan(c) PROVE DataInv'
  <2>1. /\ step[c] = "idle" /\ UNCHANGED <<world, files>>
        /\ \A b \in Compiles : b # c =>
              cutoff'[b] = cutoff[b] /\ step'[b] = step[b] /\ asked'[b] = asked[b]
    BY <1>1 DEF Plan
  <2>2. files[c] = NoFile
    BY <2>1
  <2> HIDE DEF TypeInv, DataInv
  <2> QED
    BY <2>1, <2>2, OtherData DEF DataInv
<1>2. ASSUME NEW c \in Compiles, StartFromCommandLine(c) PROVE DataInv'
  BY <1>2, OtherData DEF StartFromCommandLine, Go
<1>3. ASSUME NEW c \in Compiles, Fail(c) PROVE DataInv'
  <2>1. /\ files'[c] = NoFile /\ world' = world
        /\ \A b \in Compiles : b # c =>
              /\ files'[b] = files[b] /\ cutoff'[b] = cutoff[b]
              /\ step'[b] = step[b] /\ asked'[b] = asked[b]
    BY <1>3 DEF Fail
  <2> QED
    BY <2>1, OtherData
<1>4. ASSUME NEW c \in Compiles,
             \/ BuildRaises(c) \/ LoadWorkspaceRaises(c) \/ CheckWorkspaceRaises(c)
             \/ LaunchRaises(c) \/ LaunchLost(c)
      PROVE  DataInv'
  BY <1>3, <1>4 DEF BuildRaises, LoadWorkspaceRaises, CheckWorkspaceRaises, LaunchRaises,
                    LaunchLost, FailOnDisk
<1>5. ASSUME UNCHANGED <<world, files, cutoff, asked>>,
             \/ UNCHANGED step
             \/ \E c \in Compiles, to \in Steps :
                   /\ step[c] \notin {"idle", "rejected", "accepted", "failed"}
                   /\ to \notin {"idle", "rejected", "accepted", "failed"}
                   /\ step' = [step EXCEPT ![c] = to]
      PROVE  DataInv'
  BY <1>5, OtherData
<1>6. ASSUME NEW c \in Compiles,
             \/ LoadWorkspace(c) \/ CheckWorkspace(c) \/ CloneAndMount(c) \/ Launch(c) \/ Record(c)
      PROVE  DataInv'
  BY <1>5, <1>6 DEF LoadWorkspace, CheckWorkspace, CloneAndMount, Launch, Record, Go, compileVars,
                    Steps
<1>7. ASSUME NEW c \in Compiles,
             AgentEnds(c) \/ BeginClose(c) \/ Close(c) \/ RunEnds(c) \/ Test(c) \/ Advance(c)
      PROVE  DataInv'
  BY <1>5, <1>7 DEF AgentEnds, BeginClose, Close, RunEnds, Test, Advance, Go, compileVars, Steps
<1>8. ASSUME Tick \/ UNCHANGED vars PROVE DataInv'
  BY <1>5, <1>8 DEF Tick, vars
<1> HIDE DEF TypeInv, DataInv
<1> QED
  BY <1>1, <1>2, <1>4, <1>6, <1>7, <1>8, BuildData DEF Next

-----------------------------------------------------------------------------
(* The workspace at rest. *)

Left == Digest(world.left)

\* What an advance comes to: only the last step of one ends it.
AdvanceStates == {"removing", "copying", "done", "cut"}

\* Until somebody begins to replace the tree, the one that was left is the baseline.
FirstTree ==
    (\A c \in Compiles : advance[c] = "idle") => Digest(main) = Left

RestInv == AtRestLoadable /\ FirstTree

\* Who does not advance keeps the tree, and a load only names it.
LEMMA RestKept ==
    ASSUME TypeInv, RestInv, world' = world, advance' = advance,
           \/ UNCHANGED <<main, manifest>>
           \/ main' = Digest(main) /\ manifest' \in {manifest, Digest(main)}
    PROVE  RestInv'
<1>1. main \in OnDisk /\ Digest(Digest(main)) = Digest(main)
  BY DigestType DEF TypeInv, WorkspaceTypeOK
<1>2. Digest(main)' = Digest(main)
  BY <1>1 DEF Digest
<1>3. Left' = Left
  BY DEF Left, Digest
<1> QED
  BY <1>2, <1>3 DEF RestInv, AtRestLoadable, FirstTree, Loadable

\* An advance is at rest again only when it has named what it finds on the disk.
LEMMA RestAdvanced ==
    ASSUME TypeInv, RestInv, NEW c \in Compiles, Advance(c)
    PROVE  RestInv'
<1>1. advance \in [Compiles -> {"idle"} \cup AdvanceStates]
  BY DEF TypeInv, WorkspaceTypeOK, AdvanceStates
<1>2. CASE WriteManifest(c)
  <2>1. manifest' = Digest(main) /\ main' = main /\ advance' = [advance EXCEPT ![c] = "done"]
    BY <1>2 DEF WriteManifest
  <2>2. Loadable'
    BY <2>1 DEF Loadable, Digest
  <2> QED
    BY <1>1, <2>1, <2>2 DEF RestInv, AtRestLoadable, FirstTree
<1>3. ASSUME advance'[c] \in {"removing", "copying", "cut"} PROVE RestInv'
  BY <1>3 DEF RestInv, AtRestLoadable, FirstTree
<1>4. ASSUME \/ BeginAdvance(c) \/ RemoveManifest(c) \/ BeginCopy(c) \/ CutAdvance(c)
             \/ \E d \in Dirs : RemoveDir(c, d) \/ CopyDir(c, d)
      PROVE  advance'[c] \in {"removing", "copying", "cut"}
  BY <1>1, <1>4 DEF BeginAdvance, RemoveManifest, BeginCopy, CutAdvance, RemoveDir, CopyDir
<1> QED
  BY <1>2, <1>3, <1>4 DEF Advance

LEMMA NextRest == TypeInv /\ RestInv /\ [Next]_vars => RestInv'
<1> SUFFICES ASSUME TypeInv, RestInv, [Next]_vars PROVE RestInv'
  OBVIOUS
<1>1. ASSUME NEW c \in Compiles, Advance(c) PROVE RestInv'
  BY <1>1, RestAdvanced
<1>2. ASSUME NEW c \in Compiles,
             \/ Plan(c) \/ StartFromCommandLine(c) \/ Build(c) \/ Launch(c) \/ Record(c)
             \/ AgentEnds(c) \/ BeginClose(c) \/ Close(c) \/ RunEnds(c) \/ Test(c)
      PROVE  RestInv'
  BY <1>2, RestKept
     DEF Plan, StartFromCommandLine, Build, Launch, Record, AgentEnds, BeginClose, Close,
         RunEnds, Test, wsVars
<1>3. ASSUME NEW c \in Compiles,
             \/ BuildRaises(c) \/ CheckWorkspaceRaises(c) \/ LaunchRaises(c) \/ LaunchLost(c)
      PROVE  RestInv'
  <2>1. UNCHANGED <<world, main, manifest, advance>>
    BY <1>3 DEF BuildRaises, CheckWorkspaceRaises, LaunchRaises, LaunchLost, FailOnDisk, Fail, Drop
  <2> QED
    BY <2>1, RestKept
<1>4. ASSUME NEW c \in Compiles,
             LoadWorkspace(c) \/ LoadWorkspaceRaises(c) \/ CheckWorkspace(c) \/ CloneAndMount(c)
      PROVE  RestInv'
  <2>1. /\ UNCHANGED <<world, advance>>
        /\ \/ UNCHANGED <<main, manifest>>
           \/ main' = Digest(main) /\ manifest' \in {manifest, Digest(main)}
    BY <1>4 DEF LoadWorkspace, LoadWorkspaceRaises, CheckWorkspace, CloneAndMount, Load, LoadRaises,
                CheckBaseline, Clone, compileVars, Fail, wsVars
  <2> QED
    BY <2>1, RestKept
<1>5. ASSUME Tick \/ UNCHANGED vars PROVE RestInv'
  BY <1>5, RestKept DEF Tick, vars, wsVars
<1> QED
  BY <1>1, <1>2, <1>3, <1>4, <1>5 DEF Next

-----------------------------------------------------------------------------
(* What holds. *)

IInv == TypeInv /\ LimitInv /\ DataInv /\ RestInv

LEMMA InitInvariant == Init => IInv
<1> SUFFICES ASSUME Init PROVE IInv
  OBVIOUS
<1>1. DataInv
  BY DEF Init, DataInv, SnapshotIsLegal, CutoffHolds, NoFile
<1>2. RestInv
  BY DEF Init, WorkspaceInit, RestInv, AtRestLoadable, FirstTree, Loadable, Left
<1> QED
  BY <1>1, <1>2, InitTypes, InitLimit DEF IInv

LEMMA Invariance == Spec => []IInv
<1>1. IInv /\ [Next]_vars => IInv'
  BY NextTypes, NextLimit, NextData, NextRest DEF IInv
<1> QED
  BY <1>1, InitInvariant, PTL DEF Spec

\* Every variable holds what its declaration says (TypeOK).
THEOREM TypeCorrect == Spec => []TypeOK
<1>1. IInv => TypeOK
  <2> SUFFICES ASSUME TypeInv PROVE TypeOK
    BY DEF IInv
  <2>1. world.horizon \in Nat
    BY WorldsAssumption DEF TypeInv
  <2>2. cutoff \in [Compiles -> 0..world.horizon]
    BY <2>1 DEF TypeInv
  <2>3. \A c \in Compiles : asked[c].via \in {"none", "library", "cli"}
    BY DEF TypeInv, Requests
  <2>4. DOMAIN files = Compiles
    BY DEF TypeInv
  <2> QED
    BY <2>2, <2>3, <2>4 DEF TypeInv, TypeOK
<1> QED
  BY <1>1, Invariance, PTL

\* Planned compiles never have more running agents than allowed while launches
\* neither overlap nor are lost (WithinLimit): a run counts from its plan on, not
\* from its record.
THEOREM LimitHolds == Spec => []WithinLimit
<1>1. IInv => WithinLimit
  <2> SUFFICES ASSUME LimitInv, TypeInv, ~unguarded
               PROVE  Cardinality({c \in alive : Library(c)}) <= MaxConcurrent
    BY DEF IInv, WithinLimit
  <2> DEFINE S == {c \in alive : Library(c)}
  <2>1. S \subseteq Counted
    BY DEF LimitInv
  <2> HIDE DEF S
  <2>2. /\ Cardinality(S) \in Nat /\ Cardinality(Counted) \in Nat
        /\ Cardinality(S) <= Cardinality(Counted)
    BY <2>1, CountedFinite
  <2>3. Cardinality(Counted) <= MaxConcurrent
    BY DEF LimitInv
  <2> QED
    BY <2>2, <2>3, WorldsAssumption DEF S
<1> QED
  BY <1>1, Invariance, PTL

\* A row is used only for what all rows of its input allow, those of a file and those
\* of telemetry, and no input or group is in two files of a snapshot (SnapshotIsLegal).
THEOREM SnapshotsStayLegal == Spec => []SnapshotIsLegal
<1>1. IInv => SnapshotIsLegal
  BY DEF IInv, DataInv
<1> QED
  BY <1>1, Invariance, PTL

\* Nothing after the cutoff is in a snapshot, from a file or from telemetry (CutoffHolds).
THEOREM NothingIsLate == Spec => []CutoffHolds
<1>1. IInv => CutoffHolds
  BY DEF IInv, DataInv
<1> QED
  BY <1>1, Invariance, PTL

\* However many advances there were, and however they overlapped each other and the
\* loads beside them, the workspace can be loaded again unless one of them is still
\* under way or has failed (AtRestLoadable).
THEOREM RestIsLoadable == Spec => []AtRestLoadable
<1>1. IInv => AtRestLoadable
  BY DEF IInv, RestInv
<1> QED
  BY <1>1, Invariance, PTL

\* What a test has used up is not hidden, as if it were fresh, in the snapshot a
\* planned compile builds afterwards, nor is anything of the same input or group
\* (ConsumedStaysOpen).
THEOREM ConsumedIsNotHidden == Spec => ConsumedStaysOpen
<1> DEFINE Fresh == \A c \in Compiles :
                       Built(c) /\ Library(c) => Keys(HiddenRows(c)') \cap spent = {}
<1>1. IInv /\ [Next]_vars => [Fresh]_vars
  <2> SUFFICES ASSUME TypeInv, Next, NEW c \in Compiles, Built(c), Library(c)
               PROVE  Keys(HiddenRows(c)') \cap spent = {}
    BY DEF IInv
  <2>1. step[c] = "accepted" /\ step'[c] = "built"
    BY DEF Built
  <2>2. Build(c)
    <3>1. ASSUME NEW b \in Compiles,
                 \/ Plan(b) \/ StartFromCommandLine(b) \/ BuildRaises(b)
                 \/ LoadWorkspace(b) \/ LoadWorkspaceRaises(b)
                 \/ CheckWorkspace(b) \/ CheckWorkspaceRaises(b)
          PROVE  FALSE
      BY <2>1, <3>1 DEF TypeInv, Plan, Decision, StartFromCommandLine, BuildRaises, LoadWorkspace,
            LoadWorkspaceRaises, CheckWorkspace, CheckWorkspaceRaises, FailOnDisk, Fail, Go
    <3>2. ASSUME NEW b \in Compiles,
                 \/ CloneAndMount(b) \/ Launch(b) \/ LaunchRaises(b) \/ Record(b)
                 \/ LaunchLost(b) \/ AgentEnds(b) \/ BeginClose(b) \/ Close(b) \/ RunEnds(b)
                 \/ Test(b) \/ Advance(b)
          PROVE  FALSE
      BY <2>1, <3>2 DEF TypeInv, CloneAndMount, Launch, LaunchRaises, Record, LaunchLost, AgentEnds,
            BeginClose, Close, RunEnds, Test, Advance, FailOnDisk, Fail, Go
    <3>3. ASSUME Tick PROVE FALSE
      BY <2>1, <3>3 DEF Tick
    <3>4. PICK b \in Compiles : Build(b)
      BY <3>1, <3>2, <3>3 DEF Next
    <3>5. b = c
      BY <2>1, <3>4 DEF TypeInv, Build, Go
    <3> QED
      BY <3>4, <3>5
  <2>3. PICK answers \in Answers : \E s \in Buildable(c, answers) : files' = [files EXCEPT ![c] = s]
    BY <2>2 DEF Build
  <2>4. PICK s \in Buildable(c, answers) : files' = [files EXCEPT ![c] = s]
    BY <2>3
  <2>5. s \in Snapshots(Collected(Arrived, asked[c].tels, Cutoff(c)), answers, spent)
    BY <2>4 DEF Buildable, Used
  <2>6. Keys(s["validation"] \cup s["test"]) \cap spent = {}
    BY <2>5, HiddenIsFresh
  <2>7. HiddenRows(c)' = s["validation"] \cup s["test"]
    BY <2>4 DEF HiddenRows, TypeInv
  <2> QED
    BY <2>6, <2>7
<1> QED
  BY <1>1, Invariance, PTL DEF Spec, ConsumedStaysOpen

-----------------------------------------------------------------------------
(* When a mounted attempt can be launched. *)

AllIdle == \A c \in Compiles : advance[c] = "idle"

\* As long as nobody has begun to carry an attempt forward, what is mounted is a
\* clone of the tree that was left.
FirstClones == AllIdle => \A c \in Compiles : step[c] = "mounted" => clone[c] = Left

\* An advance that has begun is never idle again, and the tree that was left does
\* not change with the world.
LEMMA AdvanceOnce ==
    ASSUME TypeInv, [Next]_vars
    PROVE  /\ AllIdle' => AllIdle
           /\ Left' = Left
<1>1. UNCHANGED wsVars => UNCHANGED advance
  BY DEF wsVars
<1>2. ASSUME NEW c \in Compiles,
             \/ Load(c) \/ LoadRaises \/ CheckBaseline(c) \/ Clone(c) \/ Drop(c)
             \/ BeginAdvance(c) \/ RemoveManifest(c) \/ BeginCopy(c) \/ WriteManifest(c)
             \/ CutAdvance(c)
             \/ \E d \in Dirs : RemoveDir(c, d) \/ CopyDir(c, d)
      PROVE  \/ UNCHANGED advance
             \/ \E to \in {"removing", "copying", "done", "cut"} :
                   advance' = [advance EXCEPT ![c] = to]
  BY <1>2 DEF Load, LoadRaises, CheckBaseline, Clone, Drop, BeginAdvance, RemoveManifest,
              BeginCopy, WriteManifest, CutAdvance, RemoveDir, CopyDir, wsVars
<1>3. \/ UNCHANGED advance
      \/ \E c \in Compiles : \E to \in {"removing", "copying", "done", "cut"} :
            advance' = [advance EXCEPT ![c] = to]
  BY <1>1, <1>2, WorkspaceSteps
<1>4. AllIdle' => AllIdle
  <2>1. advance \in [Compiles -> {"idle", "removing", "copying", "done", "cut"}]
    BY DEF TypeInv, WorkspaceTypeOK
  <2> QED
    BY <1>3, <2>1 DEF AllIdle
<1>5. world' = world
  BY DEF Next, Plan, StartFromCommandLine, Build, BuildRaises, LoadWorkspace,
         LoadWorkspaceRaises, CheckWorkspace, CheckWorkspaceRaises, CloneAndMount, Launch,
         LaunchRaises, Record, LaunchLost, AgentEnds, BeginClose, Close, RunEnds, Test,
         Advance, Tick, compileVars, FailOnDisk, Fail, vars
<1> QED
  BY <1>4, <1>5 DEF Left, Digest

\* What becomes mounted is cloned in the same step; nobody else's clone changes.
LEMMA MountSteps ==
    ASSUME TypeInv, [Next]_vars, NEW b \in Compiles, step'[b] = "mounted"
    PROVE  \/ clone'[b] = Digest(main)
           \/ step[b] = "mounted" /\ clone'[b] = clone[b]
<1>1. /\ step \in [Compiles -> Steps]
      /\ clone \in [Compiles -> Trees \cup {NoTree}]
  BY DEF TypeInv, WorkspaceTypeOK
<1>2. ASSUME NEW c \in Compiles, CloneAndMount(c)
      PROVE  clone'[b] = Digest(main) \/ (step[b] = "mounted" /\ clone'[b] = clone[b])
  BY <1>1, <1>2 DEF CloneAndMount, Go, Clone
<1>3. ASSUME NEW c \in Compiles,
             \/ BuildRaises(c) \/ CheckWorkspaceRaises(c) \/ LaunchRaises(c) \/ LaunchLost(c)
             \/ LoadWorkspaceRaises(c)
      PROVE  step[b] = "mounted" /\ clone'[b] = clone[b]
  BY <1>1, <1>3 DEF BuildRaises, CheckWorkspaceRaises, LaunchRaises, LaunchLost,
                    LoadWorkspaceRaises, FailOnDisk, Fail, Drop, LoadRaises
<1>4. ASSUME NEW c \in Compiles,
             \/ Plan(c) \/ StartFromCommandLine(c) \/ Build(c) \/ Launch(c) \/ Record(c)
             \/ AgentEnds(c) \/ BeginClose(c) \/ Close(c) \/ RunEnds(c) \/ Test(c)
             \/ LoadWorkspace(c) \/ CheckWorkspace(c)
      PROVE  step[b] = "mounted" /\ clone'[b] = clone[b]
  <2>1. clone' = clone
    BY <1>4 DEF Plan, StartFromCommandLine, Build, Launch, Record, AgentEnds, BeginClose,
                Close, RunEnds, Test, LoadWorkspace, CheckWorkspace, Load, CheckBaseline, wsVars
  <2>2. \/ step' = step
        \/ \E to \in {"rejected", "accepted", "built", "launched", "recorded", "closed",
                      "tested", "loaded", "checked"} : step' = [step EXCEPT ![c] = to]
    BY <1>4 DEF Plan, Decision, StartFromCommandLine, Build, Launch, Record, AgentEnds,
                BeginClose, Close, RunEnds, Test, LoadWorkspace, CheckWorkspace, Go
  <2> QED
    BY <1>1, <2>1, <2>2
<1>5. ASSUME NEW c \in Compiles, Advance(c)
      PROVE  step[b] = "mounted" /\ clone'[b] = clone[b]
  BY <1>5 DEF Advance, BeginAdvance, RemoveDir, CopyDir, RemoveManifest, BeginCopy,
              WriteManifest, CutAdvance
<1>6. Tick \/ UNCHANGED vars => step[b] = "mounted" /\ clone'[b] = clone[b]
  BY DEF Tick, vars, wsVars
<1> QED
  BY <1>2, <1>3, <1>4, <1>5, <1>6 DEF Next

LEMMA FirstClonesAlways == Spec => [](IInv /\ FirstClones)
<1>1. Init => FirstClones
  BY DEF Init, FirstClones
<1>2. ASSUME IInv, FirstClones, [Next]_vars PROVE FirstClones'
  <2> SUFFICES ASSUME AllIdle', NEW b \in Compiles, step'[b] = "mounted"
               PROVE  clone'[b] = Left'
    BY DEF FirstClones
  <2>1. AllIdle /\ Left' = Left
    BY <1>2, AdvanceOnce DEF IInv
  <2>2. Digest(main) = Left
    BY <1>2, <2>1 DEF IInv, RestInv, FirstTree, AllIdle
  <2>3. \/ clone'[b] = Digest(main)
        \/ step[b] = "mounted" /\ clone'[b] = clone[b]
    BY <1>2, MountSteps DEF IInv
  <2> QED
    BY <1>2, <2>1, <2>2, <2>3 DEF FirstClones
<1>3. IInv /\ FirstClones /\ [Next]_vars => FirstClones'
  BY <1>2
<1> QED
  BY <1>1, <1>3, InitInvariant, Invariance, PTL DEF Spec

\* What the baseline's journal costs: until the first attempt is carried forward,
\* every attempt whose inputs are mounted can be launched, provided the tree that
\* was left has no files in its journal (MountedCanLaunch, which later attempts
\* violate).
THEOREM FirstAttemptsLaunch ==
    Spec => [](AllIdle /\ Left["journal"] = Empty => MountedCanLaunch)
<1>1. FirstClones => (AllIdle /\ Left["journal"] = Empty => MountedCanLaunch)
  BY DEF FirstClones, MountedCanLaunch
<1> QED
  BY <1>1, FirstClonesAlways, PTL

=============================================================================
