---------------------------- MODULE CompilePromise ----------------------------
(***************************************************************************)
(* What the interactive compile loop promises, whatever happens to Core    *)
(* and to the agent: a log of submissions, each version of each at most    *)
(* once and never more than the budget, that is only ever appended to; and *)
(* once the attempt is sealed, nothing is evaluated any more.              *)
(***************************************************************************)
EXTENDS Naturals, Sequences

CONSTANTS
    Keys,       \* a submission with the digest of its content
    Budget      \* evaluations the compile run may spend, a number

VARIABLES
    log,        \* a sequence of [key, evaluated]
    sealed

Init == log = <<>> /\ sealed = FALSE

Logged(k) == \E i \in DOMAIN log : log[i].key = k

\* A new key is logged, as evaluated or as rejected.
Log(k, evaluated) ==
    /\ ~Logged(k)
    /\ Len(log) < Budget
    /\ evaluated => ~sealed
    /\ log' = Append(log, [key |-> k, evaluated |-> evaluated])
    /\ UNCHANGED sealed

Close == sealed' = TRUE /\ UNCHANGED log

Next ==
    \/ \E k \in Keys, evaluated \in BOOLEAN : Log(k, evaluated)
    \/ Close

Spec == Init /\ [][Next]_<<log, sealed>>

=============================================================================
