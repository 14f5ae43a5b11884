---------------------------- MODULE ChannelPromise ----------------------------
(***************************************************************************)
(* What the channels of a target promise its callers: a channel changes    *)
(* its release in one moment, to one that is registered, the target's own  *)
(* and of the contract of all that the target serves or could go back to;  *)
(* and what it goes back to is what it has served.                         *)
(***************************************************************************)
CONSTANTS Targets, Channels, Releases, NoRelease, TargetOf, ContractOf

VARIABLES
    registered,     \* the releases in the registry
    serves,         \* [Targets \X Channels -> a release, or NoRelease]
    fallback        \* [Targets \X Channels -> the one before, or NoRelease]

vars == <<registered, serves, fallback>>
Keys == Targets \X Channels

Init ==
    /\ registered = {}
    /\ serves = [k \in Keys |-> NoRelease]
    /\ fallback = [k \in Keys |-> NoRelease]

Register(r) ==
    /\ r \notin registered
    /\ registered' = registered \cup {r}
    /\ UNCHANGED <<serves, fallback>>

Deployed(t) ==
    {r \in Releases : \E c \in Channels : r = serves[<<t, c>>] \/ r = fallback[<<t, c>>]}

Fits(r, t) ==
    /\ r \in registered
    /\ TargetOf[r] = t
    /\ \A q \in Deployed(t) : ContractOf[q] = ContractOf[r]

Serve(k, r) ==
    /\ serves' = [serves EXCEPT ![k] = r]
    /\ Fits(r, k[1])
    /\ UNCHANGED registered

Set(k, r) ==
    /\ Serve(k, r)
    /\ fallback' = (IF serves[k] = NoRelease
                      THEN fallback ELSE [fallback EXCEPT ![k] = serves[k]])

GoBack(k) ==
    /\ fallback[k] # NoRelease
    /\ Serve(k, fallback[k])
    /\ UNCHANGED fallback

Next ==
    \/ \E r \in Releases : Register(r)
    \/ \E k \in Keys : GoBack(k) \/ \E r \in Releases : Set(k, r)

Spec == Init /\ [][Next]_vars

=============================================================================
