----------------------------- MODULE SnapshotBuild -----------------------------
(***************************************************************************)
(* How source rows become the splits of a snapshot (snapshot_reference.py):*)
(* collection up to a cutoff, the reference's answers, duplicates, split   *)
(* groups, and the rows that an earlier test has used up.  Operators only. *)
(*                                                                         *)
(* A source row is [id, input, elig, time, ref, by]: what it may be used   *)
(* for, when it happened, its reference output if it has one, and who gave *)
(* it.  A missing value is the empty set, a known one a singleton.         *)
(***************************************************************************)
EXTENDS Naturals, FiniteSets

CONSTANTS
    GroupOf,            \* [row ids -> groups]: contract.split_group
    OnConflict,         \* "fail" or "exclude"
    MinAgreement,       \* per cent of the comparable rows
    MinGold,            \* gold or human rows a qualification needs
    AllowInsufficient,
    MaxCalls            \* the reference budget, a set of at most one number

Splits == {"train", "validation", "test"}
Hidden == {"validation", "test"}
UseFor == [train |-> "train", validation |-> "validation_candidate", test |-> "test_candidate"]

-----------------------------------------------------------------------------
(* Collection.  A telemetry source is [rows, cutoff, default, sidecar]: its *)
(* rows are source rows with the time they were approved and the uses their *)
(* approval names (none: unknown); the sidecar, if any, maps ids to uses.   *)

Active(tel) == {r \in tel.rows : r.approved_at <= tel.cutoff}

TelemetryUse(tel, r) ==
    IF tel.sidecar = {} THEN tel.default
    ELSE (CHOOSE m \in tel.sidecar : TRUE)[r.id]

\* A source is refused as a whole.
TelemetryValid(tel, cutoff) ==
    /\ tel.cutoff <= cutoff
    /\ \A r \in Active(tel) : \A t \in r.time : t <= tel.cutoff
    /\ Active(tel) # {} => \A m \in tel.sidecar : DOMAIN m = {r.id : r \in Active(tel)}
    /\ \A r \in Active(tel) :
          /\ TelemetryUse(tel, r) # {}
          /\ \A use \in r.approved : use = TelemetryUse(tel, r)

FromTelemetry(tel) ==
    {[id |-> r.id, input |-> r.input, elig |-> TelemetryUse(tel, r), time |-> r.time,
      ref |-> r.ref, by |-> r.by] : r \in Active(tel)}

\* Faulty variant: what happened after the cutoff is kept.
CollectedLate(file, tels, cutoff) == file \cup UNION {FromTelemetry(t) : t \in tels}

\* collect_source_records: a row of a file without a time is always taken.
Collected(file, tels, cutoff) ==
    {r \in file : \A t \in r.time : t <= cutoff}
      \cup UNION {FromTelemetry(t) : t \in tels}

-----------------------------------------------------------------------------
(* The reference.  `answers' maps inputs to [status, output], the status    *)
(* being "ok", "validation_failure" or "provider_error".                    *)

Comparable(rows) == {r \in rows : r.ref # {}}
GoldLike(rows) == {r \in Comparable(rows) : r.by \in {"gold", "human"}}

\* qualify_reference_baseline; by default no call may fail.
Agreeing(rows, answers) == {r \in Comparable(rows) : answers[r.input].output \in r.ref}

Qualification(rows, answers) ==
    IF Comparable(rows) = {} THEN "insufficient"
    ELSE IF \/ \E r \in Comparable(rows) : answers[r.input].status # "ok"
            \/ 100 * Cardinality(Agreeing(rows, answers))
                  < MinAgreement * Cardinality(Comparable(rows))
      THEN "fail"
    ELSE IF Cardinality(GoldLike(rows)) < MinGold THEN "insufficient"
    ELSE "pass"

Qualified(rows, answers) ==
    \/ Qualification(rows, answers) = "pass"
    \/ AllowInsufficient /\ Qualification(rows, answers) = "insufficient"

\* reference_missing_outputs: one call a row, within the budget.
Unlabeled(rows) == rows \ Comparable(rows)

LabelsComplete(rows, answers) ==
    /\ \A n \in MaxCalls : Cardinality(Unlabeled(rows)) <= n
    /\ \A r \in Unlabeled(rows) : answers[r.input].status = "ok"

Labeled(rows, answers) ==
    Comparable(rows) \cup
      {[id |-> r.id, input |-> r.input, elig |-> r.elig, time |-> r.time,
        ref |-> {answers[r.input].output}, by |-> "versioned_l4"] : r \in Unlabeled(rows)}

-----------------------------------------------------------------------------
(* Duplicates: rows of one input become one row, which may be used for what *)
(* all of them may.                                                         *)

Twins(rows, i) == {r \in rows : r.input = i}
CommonUse(rows) == {u \in UNION {r.elig : r \in rows} : \A r \in rows : u \in r.elig}

InConflict(twins) ==
    \/ CommonUse(twins) = {}
    \/ \E r, q \in twins : r.ref # q.ref \/ r.by # q.by

Conflicts(rows) == {r.input : r \in {q \in rows : InConflict(Twins(rows, q.input))}}

\* Faulty variant: the row that is kept keeps its own permissions.
DeduplicatedAsChosen(rows, first) ==
    {first[i] : i \in {r.input : r \in rows} \ Conflicts(rows)}

\* `first' is the row of an input that comes first.
Deduplicated(rows, first) ==
    {[first[i] EXCEPT !.elig = CommonUse(Twins(rows, i))]
        : i \in {r.input : r \in rows} \ Conflicts(rows)}

Firsts(rows) ==
    {f \in [{r.input : r \in rows} -> rows] : \A i \in DOMAIN f : f[i].input = i}

-----------------------------------------------------------------------------
(* The split.  `used' holds the inputs and the groups of consumed rows.     *)

Groups(rows) == {GroupOf[r.id] : r \in rows}
Members(rows, g) == {r \in rows : GroupOf[r.id] = g}
Plannable(rows) == {g \in Groups(rows) : CommonUse(Members(rows, g)) # {}}

\* Faulty variant: a group is used up only by its own rows.
MayHideUnlessRowUsed(rows, g, used) ==
    {r.input : r \in Members(rows, g)} \cap used = {}

MayHide(rows, g, used) ==
    g \notin used /\ {r.input : r \in Members(rows, g)} \cap used = {}

Choices(rows, g, used) ==
    {s \in Splits : /\ UseFor[s] \in CommonUse(Members(rows, g))
                    /\ s \in Hidden => MayHide(rows, g, used)}

\* A group that is left without a choice fails the build, also under "exclude".
Splittable(rows, used) ==
    /\ OnConflict = "fail" => Plannable(rows) = Groups(rows)
    /\ \A g \in Plannable(rows) : Choices(rows, g, used) # {}

\* build_split_plan: the roll of a group may fall on any of its choices.
Plans(rows, used) ==
    {p \in [Plannable(rows) -> Splits] : \A g \in Plannable(rows) : p[g] \in Choices(rows, g, used)}

\* materialize_snapshot_records and write_snapshot, one file a split.
Files(rows, plan) ==
    [s \in Splits |-> {r \in rows : GroupOf[r.id] \in DOMAIN plan /\ plan[GroupOf[r.id]] = s}]

Usable(rows, answers, used) ==
    /\ Qualified(rows, answers)
    /\ LabelsComplete(rows, answers)
    /\ OnConflict = "fail" => Conflicts(Labeled(rows, answers)) = {}

\* Every snapshot that build_snapshot may return, none where it raises.
Snapshots(rows, answers, used) ==
    IF ~Usable(rows, answers, used) THEN {}
    ELSE UNION {LET kept == Deduplicated(Labeled(rows, answers), f) IN
                    IF Splittable(kept, used)
                      THEN {Files(kept, p) : p \in Plans(kept, used)} ELSE {}
                : f \in Firsts(Labeled(rows, answers))}

\* mark_consumed_holdout_rows of all rows of a split.
Consumed(files, s) == {r.input : r \in files[s]} \cup {GroupOf[r.id] : r \in files[s]}

=============================================================================
