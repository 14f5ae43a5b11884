----------------------------- MODULE LayerCascade -----------------------------
(***************************************************************************)
(* What a candidate's layers do to a row and what is measured of it: the   *)
(* worker call of artifact_worker.py, and the cascade, the fault scenarios *)
(* and the metrics of candidate_evaluation.py.  Operators only.            *)
(***************************************************************************)
EXTENDS Integers, FiniteSets, FiniteSetsExt

CONSTANTS
    Layers,             \* the layers, as numbers: tried in ascending order
    NoPackage,
    LatencyOf,          \* [Replies -> Nat]: how long such a call takes
    FallbackLatency,
    TagsOf              \* [rows -> sets of slice tags]

Fallback == 0           \* "no layer": the reference answers

ASSUME LayersAssumption == Layers \subseteq Nat \ {Fallback} /\ IsFiniteSet(Layers)

-----------------------------------------------------------------------------
(* One worker call.  A reply is what the worker process did, and for an     *)
(* acceptable output whether it is the reference's.                         *)

Decision ==
    [timeout    |-> "timeout",          \* killed at the deadline
     crash      |-> "error",            \* exit code, or could not be started
     overflow   |-> "protocol_error",   \* output beyond the limit
     garbled    |-> "protocol_error",   \* not one JSON response line
     odd_reason |-> "protocol_error",   \* a reason code that is not allowed
     abstain    |-> "abstain",
     bad_shape  |-> "invalid_output",   \* the contract rejects the output
     right      |-> "accept",
     wrong      |-> "accept"]

Replies == DOMAIN Decision

DecisionOf(reply) == Decision[reply]

-----------------------------------------------------------------------------
(* A run: the programs by layer, the enabled layers, and what each program  *)
(* replies to each row.                                                     *)

RunOf(art, on, replies) == [art |-> art, on |-> on, replies |-> replies]

Routed(run) == {l \in Layers : l \in run.on /\ run.art[l] # NoPackage}

ReplyTo(run, l, row) == run.replies[run.art[l]][row]

Accepting(run, row) == {l \in Routed(run) : DecisionOf(ReplyTo(run, l, row)) = "accept"}

Chosen(run, row) ==
    LET accepting == Accepting(run, row) IN
        IF accepting = {} THEN Fallback ELSE Min(accepting)

\* The first layer that accepts ends the route.
Tried(run, row) ==
    LET chosen == Chosen(run, row) IN {l \in Routed(run) : chosen # Fallback => l <= chosen}

\* The layers whose workers a run starts.
Reached(run, rows) == UNION {Tried(run, row) : row \in rows}

\* Only an accepted output is compared with the reference.
Correct(run, row) ==
    LET chosen == Chosen(run, row) IN chosen # Fallback /\ ReplyTo(run, chosen, row) = "right"

RowLatency(run, row) ==
    MapThenSumSet(LAMBDA l : LatencyOf[ReplyTo(run, l, row)], Tried(run, row))
      + (IF Chosen(run, row) = Fallback THEN FallbackLatency ELSE 0)

-----------------------------------------------------------------------------
(* Measurements. *)

Count(rows, Test(_)) == Cardinality({r \in rows : Test(r)})

Measure(run, rows) ==
    LET taken == {r \in rows : Chosen(run, r) # Fallback}
        right == {r \in taken : Correct(run, r)}
    IN  [samples  |-> Cardinality(rows),
         accepted |-> Cardinality(taken),
         correct  |-> Cardinality(right),
         wrong    |-> Cardinality(taken \ right)]

\* sorted(latencies)[int(0.95 * (n - 1))]: the largest latency only from 21
\* rows on, the smallest of two.
P95(run, rows) ==
    LET took == {RowLatency(run, r) : r \in rows}
        at   == (95 * (Cardinality(rows) - 1)) \div 100
    IN  IF rows = {} THEN 0
        ELSE CHOOSE v \in took :
                /\ Count(rows, LAMBDA r : RowLatency(run, r) < v) <= at
                /\ at < Count(rows, LAMBDA r : RowLatency(run, r) <= v)

\* In millionths: 1 for a row, 10000 for a row that falls back.
ServingCost(run, rows) ==
    Cardinality(rows) + 10000 * Count(rows, LAMBDA r : Chosen(run, r) = Fallback)

Slices(run, rows) ==
    {[tag |-> t, m |-> Measure(run, {r \in rows : t \in TagsOf[r]})]
        : t \in UNION {TagsOf[r] : r \in rows}}

-----------------------------------------------------------------------------
(* Fault scenarios: every routed layer is replaced in turn by a worker that *)
(* misbehaves in a known way, and `seen' is what was observed of it: a slow *)
(* machine makes a time-out of any of them.                                 *)

FaultKinds == {"garbled", "bad_shape", "timeout", "crash"}

FaultsContained(run, rows, seen) ==
    /\ rows # {}
    /\ Routed(run) # {} =>
          \A kind \in FaultKinds : DecisionOf(seen[kind]) = DecisionOf(kind)

=============================================================================
