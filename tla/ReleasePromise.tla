---------------------------- MODULE ReleasePromise ----------------------------
(***************************************************************************)
(* What the evaluation of candidates promises to whoever approves them: a  *)
(* candidate is of a submission its attempt was still open for, is         *)
(* validated before it meets the test rows, meets them only when the       *)
(* attempt is sealed, and none is released that has not been found good    *)
(* enough on them.                                                         *)
(***************************************************************************)
CONSTANTS
    Candidates,
    Attempts,
    AttemptOf       \* [Candidates -> Attempts]

VARIABLES
    workspace,      \* [Attempts -> "open", "sealed" or "changed" after that]
    phase           \* [Candidates -> how far the candidate is]

Init ==
    /\ workspace = [a \in Attempts |-> "open"]
    /\ phase = [c \in Candidates |-> "none"]

Moves(c, from, to) ==
    /\ phase[c] = from
    /\ phase' = [phase EXCEPT ![c] = to]
    /\ UNCHANGED workspace

Receive(c)  == workspace[AttemptOf[c]] = "open" /\ Moves(c, "none", "received")
Validate(c) == Moves(c, "received", "validated")
Test(c)     == workspace[AttemptOf[c]] = "sealed" /\ Moves(c, "validated", "tested")
Pass(c)     == Moves(c, "tested", "passed")
Release(c)  == Moves(c, "passed", "released")

Seal(a) ==
    /\ workspace[a] = "open"
    /\ workspace' = [workspace EXCEPT ![a] = "sealed"]
    /\ UNCHANGED phase

Change(a) ==
    /\ workspace[a] = "sealed"
    /\ workspace' = [workspace EXCEPT ![a] = "changed"]
    /\ UNCHANGED phase

\* The workspace is as it was, or sealed as it is now.
SealAgain(a) ==
    /\ workspace[a] = "changed"
    /\ workspace' = [workspace EXCEPT ![a] = "sealed"]
    /\ UNCHANGED phase

Next ==
    \/ \E c \in Candidates : Receive(c) \/ Validate(c) \/ Test(c) \/ Pass(c) \/ Release(c)
    \/ \E a \in Attempts : Seal(a) \/ Change(a) \/ SealAgain(a)

Spec == Init /\ [][Next]_<<workspace, phase>>

=============================================================================
