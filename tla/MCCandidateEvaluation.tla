------------------------- MODULE MCCandidateEvaluation -------------------------
(***************************************************************************)
(* The candidates TLC checks CandidateEvaluation with.  Two compiles start *)
(* from a Release with two packages and freeze into one store; what they   *)
(* submit replaces the first layer, in front of the second, or the second, *)
(* behind the first.                                                       *)
(***************************************************************************)
EXTENDS CandidateEvaluation

CONSTANTS s1, s2, a1, a2, n0, n1, same, earlier,
          good, rash, linked, files, bad, old

MCSubmissions == {s1, s2}
MCContents    == {good, rash, linked, files, bad, old}
MCDraftsOf == [s \in MCSubmissions |-> IF s = s1 THEN {good, rash, bad} ELSE {rash, linked}]
MCFollow   == [c \in MCContents |-> IF c = linked THEN files ELSE c]
MCManifests  == {"first", "second"}
MCLayerOf    == [m \in MCManifests |-> IF m = "first" THEN 1 ELSE 2]
MCManifestOf == [c \in MCContents |-> IF c = rash THEN "second" ELSE "first"]
\* In the run about inheritance good is the second layer.
MCManifestOfBehind == [c \in MCContents |-> IF c = old THEN "first" ELSE "second"]
MCKept == {<<1, old>>, <<2, old>>}
MCEnabledOf == [s \in MCSubmissions |-> {1, 2, 3}]
MCAttemptOf == [s \in MCSubmissions |-> IF s = s1 THEN a1 ELSE a2]
MCSnapshotOf == [a \in {a1, a2} |-> n1]

\* The base Release was compiled from the same snapshot, or from an earlier one.
MCBaseSame    == [a \in {a1, a2} |-> same]
MCBaseEarlier == [a \in {a1, a2} |-> earlier]
MCBaseArtifacts ==
    [b \in {same, earlier} |->
        LET n == IF b = same THEN n1 ELSE n0 IN
            [l \in {1, 2, 3} |-> IF l = 1 THEN Package(old, "first", n)
                                ELSE IF l = 2 THEN Package(old, "second", n)
                                ELSE NoPackage]]
MCBaselineOf == [b \in {same, earlier} |-> [coverage |-> {<<1, 4>>}, p95 |-> {9}, cost |-> {20000}]]

MCRows   == {"v1", "v2", "t1", "t2"}
MCRowsOf == [n \in {n0, n1} |-> [validation |-> {"v1", "v2"}, test |-> {"t1", "t2"}]]
MCTagsOf == [r \in MCRows |-> IF r \in {"v1", "t1"} THEN {"main"} ELSE {"main", "rare"}]
MCLatencyOf == [r \in Replies |-> IF r = "timeout" THEN 5 ELSE 1]

MCPrograms == [bytes : MCContents \cup {Absent, Partial, Damaged}, manifest : MCManifests]

\* rash takes the rows that old leaves, and is wrong about one of them.  linked
\* only starts as its own manifest says, what is no package does not start.
Steady ==
    [p \in MCPrograms |-> [r \in MCRows |->
        IF p.bytes \notin MCContents \/ (p.bytes = linked /\ p.manifest # ManifestOf[linked])
          THEN "crash"
        ELSE IF p.bytes = rash /\ r = "t2" THEN "wrong"
        ELSE IF p.bytes = old /\ r \in {"v2", "t2"} THEN "abstain"
        ELSE "right"]]
\* A machine so slow that good times out on a row.
Slow ==
    [p \in MCPrograms |-> [r \in MCRows |->
        IF p.bytes = good /\ r = "t1" THEN "timeout" ELSE Steady[p][r]]]
MCHealthy ==
    {p \in MCPrograms : p.bytes \notin {files, bad} /\ \A r \in MCRows : Steady[p][r] # "crash"}
AtEase    == [replies |-> Steady, again |-> Steady, seen |-> [k \in FaultKinds |-> k]]
UnderLoad == [AtEase EXCEPT !.replies = Slow, !.again = Slow]
MCTrialsOf == [validation |-> {AtEase}, test |-> {AtEase, UnderLoad}]

MCReq == [min_accepted |-> 1, precision_min |-> 40, wrong_max |-> {60}, p95_max |-> {8},
          cost_max |-> {}, drop_max |-> {60}, retention_min |-> {50}, min_slice |-> 1,
          critical |-> {"main"}, critical_precision_min |-> {50}, critical_coverage_min |-> {50}]

=============================================================================
