------------------------------ MODULE MCCompiles ------------------------------
(***************************************************************************)
(* The values TLC checks Compiles with: an input with two rows in two      *)
(* groups, a later row of one of these that has no output yet, telemetry.  *)
(***************************************************************************)
EXTENDS Compiles, TLC

CONSTANTS c1, c2

BothCompiles == {c1, c2}
Symmetric    == Permutations(BothCompiles)

Row(id, input, elig, time, ref, by) ==
    [id |-> id, input |-> input, elig |-> elig, time |-> time, ref |-> ref, by |-> by]

MCRows ==
    {Row("r1", "i1", {"train", "test_candidate"}, {}, {"x"}, "gold"),
     Row("r2", "i1", {"train", "test_candidate", "validation_candidate"}, {}, {"x"}, "gold"),
     Row("r3", "i2", {"train", "test_candidate"}, {1}, {}, "none")}

MCGroupOf == "r1" :> "g1" @@ "r2" :> "g3" @@ "r3" :> "g1" @@ "r4" :> "g2" @@ "r5" :> "g3"

\* One row of its own, and one with the input of two file rows, which allow more.
Telemetry ==
    [rows |-> {[id |-> "r4", input |-> "i3", time |-> {0}, ref |-> {"x"}, by |-> "human",
                approved_at |-> 0, approved |-> {}],
               [id |-> "r5", input |-> "i1", time |-> {0}, ref |-> {"x"}, by |-> "gold",
                approved_at |-> 0, approved |-> {{"train"}}]},
     cutoff |-> 0, default |-> {"train"}, sidecar |-> {}]

LateTelemetry == [Telemetry EXCEPT !.cutoff = 1]

Ask(via, by, matches, tels) == [via |-> via, by |-> by, matches |-> matches, tels |-> tels]

TwoDirs == {"journal", "runtime"}

Planned == Ask("library", "user", TRUE, {})
ByHand  == Ask("cli", "user", TRUE, {})

\* Rows that arrive and are used up, and a workspace that nobody carries forward ...
DataWorld ==
    [rows |-> MCRows, horizon |-> 1, advances |-> 0, left |-> [d \in TwoDirs |-> Missing],
     requests |-> {Planned, ByHand, Ask("library", "user", TRUE, {Telemetry}),
                   Ask("library", "user", FALSE, {}), Ask("library", "user", TRUE, {LateTelemetry}),
                   Ask("library", "monitoring", TRUE, {})}]

\* ... and a workspace that both compiles carry forward, with one row to train on.
WorkspaceWorld ==
    [rows |-> {Row("r1", "i1", {"train"}, {}, {"x"}, "gold")}, horizon |-> 0, advances |-> 2,
     left |-> [journal |-> Missing, runtime |-> Seed], requests |-> {Planned}]

BothWorlds == {DataWorld, WorkspaceWorld}

UserOnly == {"user"}

Reference(status) == [i \in {"i1", "i2", "i3"} |-> [status |-> status, output |-> "x"]]
MCAnswers == {Reference("ok"), Reference("provider_error")}

NoLimit == {}

=============================================================================
