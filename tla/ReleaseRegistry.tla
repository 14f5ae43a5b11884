---------------------------- MODULE ReleaseRegistry ----------------------------
(***************************************************************************)
(* The release registry (release_runtime.py): immutable Releases, the      *)
(* shadow, canary and stable channel pointers of each target, rollback and *)
(* retirement.  One administrator (CLI or rollout automation) works on the *)
(* registry while requests read it: an operation is modelled write by      *)
(* write, and the selection of a request's release read by read.  Artifact *)
(* packages lie on disk and may be damaged at any time.                    *)
(***************************************************************************)
EXTENDS Naturals

CONSTANTS
    Targets,        \* the targets whose channels are modelled
    Releases,       \* releases of these targets, and of others
    Packages,       \* artifact packages on disk; releases may share them
    TargetOf,       \* [Releases -> targets]: what a Release is never changes
    ContractOf,     \* [Releases -> contract hashes]
    PackagesOf,     \* [Releases -> SUBSET Packages], {} for a cold start
    MaxOperations,  \* bound: channel updates, rollbacks and retirements
    NoRelease

ASSUME ReleasesAssumption ==
    /\ PackagesOf \in [Releases -> SUBSET Packages]
    /\ NoRelease \notin Releases
ASSUME BoundAssumption == MaxOperations \in Nat

VARIABLES
    status,         \* [Releases -> status], "absent" when not in the registry
    pointer,        \* registry.channels
    previous,       \* registry.previous_channels
    share,          \* [Targets -> traffic_fraction] of the canary's channel_options
    intact,         \* the packages whose digest still verifies
    admin,          \* the administrator's operation, and how far it is
    begun,          \* operations begun so far, for the bound
    request,        \* the request whose release is selected, and what it has read
    witnessed       \* history: the channels whose release the request has read, if
                    \* that was the channel's active release at one moment since

registryVars == <<status, pointer, previous, share, intact>>
vars == <<registryVars, admin, begun, request, witnessed>>

Channels == {"shadow", "canary", "stable"}
Keys     == Targets \X Channels
Shares   == {"none", "some"}            \* a traffic fraction of 0, or above
Stable(t) == <<t, "stable">>

Idle == [op |-> "idle"]
NoRequest == [at |-> "idle"]

Init ==
    /\ status = [r \in Releases |-> "absent"]
    /\ pointer = [k \in Keys |-> NoRelease]
    /\ previous = [k \in Keys |-> NoRelease]
    /\ share = [t \in Targets |-> "none"]
    /\ intact = Packages
    /\ admin = Idle /\ begun = 0
    /\ request = NoRequest /\ witnessed = {}

-----------------------------------------------------------------------------
\* load_release: registered, and every package still has its digest.
Loads(r) == status[r] # "absent" /\ PackagesOf[r] \subseteq intact

\* create_release and create_release_without_artifacts, whose scope checks
\* compare data that TargetOf, ContractOf and PackagesOf stand for.
Create(r) ==
    /\ admin = Idle
    /\ status[r] = "absent"
    /\ PackagesOf[r] \subseteq intact
    /\ status' = [status EXCEPT ![r] = "created"]
    /\ UNCHANGED <<pointer, previous, share, intact, admin, begun, request>>

\* Every other operation of the administrator begins like this.
Operation ==
    /\ admin = Idle
    /\ begun < MaxOperations
    /\ begun' = begun + 1

-----------------------------------------------------------------------------
(* set_channel: the checks, then its writes in their order. *)

\* The release on another channel of the target, or the one to be replaced,
\* is loaded too and must serve the same contract.
Compatible(r, k) ==
    pointer[k] \notin {NoRelease, r} =>
        Loads(pointer[k]) /\ ContractOf[pointer[k]] = ContractOf[r]

\* Faulty variant: only the release that is replaced is compared.
BeginSetChannelReplacing(k, r, s) ==
    /\ Operation
    /\ Loads(r)
    /\ TargetOf[r] = k[1]
    /\ Compatible(r, k)
    /\ admin' = [op |-> "set", step |-> "pointer", key |-> k, release |-> r, share |-> s]
    /\ UNCHANGED <<registryVars, request>>

\* Faulty variant: the release is not loaded first.
BeginSetChannelUnchecked(k, r, s) ==
    /\ Operation
    /\ TargetOf[r] = k[1]
    /\ \A c \in Channels : Compatible(r, <<k[1], c>>)
    /\ admin' = [op |-> "set", step |-> "pointer", key |-> k, release |-> r, share |-> s]
    /\ UNCHANGED <<registryVars, request>>

BeginSetChannel(k, r, s) ==
    /\ Operation
    /\ Loads(r)
    /\ TargetOf[r] = k[1]
    /\ \A c \in Channels : Compatible(r, <<k[1], c>>)
    /\ admin' = [op |-> "set", step |-> "pointer", key |-> k, release |-> r, share |-> s]
    /\ UNCHANGED <<registryVars, request>>

AtStep(op, step) == admin.op = op /\ admin.step = step
GoTo(step) == admin' = [admin EXCEPT !.step = step]

\* Faulty variant: the pointer is written before it is read.
MovePointerFirst ==
    /\ AtStep("set", "pointer")
    /\ pointer' = [pointer EXCEPT ![admin.key] = admin.release]
    /\ previous' = [previous EXCEPT ![admin.key] = admin.release]
    /\ GoTo("options")
    /\ UNCHANGED <<status, share, intact, begun, request>>

MovePointer ==
    /\ AtStep("set", "pointer")
    /\ IF pointer[admin.key] = NoRelease
         THEN UNCHANGED previous
         ELSE previous' = [previous EXCEPT ![admin.key] = pointer[admin.key]]
    /\ pointer' = [pointer EXCEPT ![admin.key] = admin.release]
    /\ GoTo("options")
    /\ UNCHANGED <<status, share, intact, begun, request>>

\* Nobody reads the options of the other channels.
SetOptions ==
    /\ AtStep("set", "options")
    /\ share' = (IF admin.key[2] = "canary"
                   THEN [share EXCEPT ![admin.key[1]] = admin.share]
                   ELSE share)
    /\ GoTo("status")
    /\ UNCHANGED <<status, pointer, previous, intact, begun, request>>

\* The release's status becomes the channel's name, whatever it was.
SetStatus ==
    /\ AtStep("set", "status")
    /\ status' = [status EXCEPT ![admin.release] = admin.key[2]]
    /\ admin' = Idle
    /\ UNCHANGED <<pointer, previous, share, intact, begun, request>>

-----------------------------------------------------------------------------
(* rollback_release. *)

\* "previous stable release is not eligible for rollback" otherwise.
Eligible(t) ==
    LET p == previous[Stable(t)] IN
        /\ p # NoRelease
        /\ Loads(p)
        /\ TargetOf[p] = t /\ status[p] = "stable"

\* The release to be rolled back is loaded as well.
CanRollBack(t) ==
    /\ Eligible(t)
    /\ pointer[Stable(t)] # NoRelease => Loads(pointer[Stable(t)])

BeginRollback(t) ==
    /\ Operation
    /\ CanRollBack(t)
    /\ admin' = [op |-> "rollback", step |-> "pointer", key |-> Stable(t),
                 release |-> previous[Stable(t)], current |-> pointer[Stable(t)]]
    /\ UNCHANGED <<registryVars, request>>

MoveBack ==
    /\ AtStep("rollback", "pointer")
    /\ pointer' = [pointer EXCEPT ![admin.key] = admin.release]
    /\ GoTo("demote")
    /\ UNCHANGED <<status, previous, share, intact, begun, request>>

\* Faulty variant: the two statuses are written in the other order, so the
\* one that is rolled back wins when both are the same release.
DemoteLast ==
    /\ AtStep("rollback", "demote")
    /\ status' = [status EXCEPT ![admin.release] = "stable", ![admin.current] = "rolled_back"]
    /\ admin' = Idle
    /\ UNCHANGED <<pointer, previous, share, intact, begun, request>>

Demote ==
    /\ AtStep("rollback", "demote")
    /\ status' = (IF admin.current = NoRelease
                    THEN status
                    ELSE [status EXCEPT ![admin.current] = "rolled_back"])
    /\ GoTo("status")
    /\ UNCHANGED <<pointer, previous, share, intact, begun, request>>

Reinstate ==
    /\ AtStep("rollback", "status")
    /\ status' = [status EXCEPT ![admin.release] = "stable"]
    /\ admin' = Idle
    /\ UNCHANGED <<pointer, previous, share, intact, begun, request>>

-----------------------------------------------------------------------------
\* retire_release; the channels that point to the release go on doing so.
Retire(r) ==
    /\ Operation
    /\ Loads(r)
    /\ status' = [status EXCEPT ![r] = "retired"]
    /\ UNCHANGED <<pointer, previous, share, intact, admin, request>>

\* A package on disk changes under the registry.
Corrupt(p) ==
    /\ p \in intact
    /\ intact' = intact \ {p}
    /\ UNCHANGED <<status, pointer, previous, share, admin, begun, request>>

-----------------------------------------------------------------------------
(* select_release_for_request, in the order of its reads.  What it raises     *)
(* changes nothing.                                                           *)

\* Without a stable release it raises.
BeginRequest(t) ==
    /\ request = NoRequest
    /\ pointer[Stable(t)] # NoRelease
    /\ request' = [at |-> "canary", target |-> t, stable |-> pointer[Stable(t)],
                   canary |-> NoRelease]
    /\ UNCHANGED <<registryVars, admin, begun>>

\* A read that lets the request go on, or makes it raise.
Read(step, holds, next) ==
    /\ request.at = step
    /\ request' = (IF holds THEN [request EXCEPT !.at = next] ELSE NoRequest)
    /\ UNCHANGED <<registryVars, admin, begun>>

ReadCanary ==
    /\ request.at = "canary"
    /\ request' = [request EXCEPT !.at = "load stable",
                                  !.canary = pointer[<<request.target, "canary">>]]
    /\ UNCHANGED <<registryVars, admin, begun>>

\* load_release takes the Release with the status it has now; the request
\* raises for a status it does not like, but only after the digests.
LoadStable ==
    Read("load stable", status[request.stable] = "stable", "verify stable")

VerifyStable ==
    Read("verify stable", PackagesOf[request.stable] \subseteq intact,
         IF request.canary = NoRelease THEN "choose" ELSE "load canary")

\* Faulty variant: a canary that is no longer active goes on serving.
LoadAnyCanary ==
    Read("load canary", TRUE, "verify canary")

LoadCanary ==
    Read("load canary", status[request.canary] = "canary", "verify canary")

VerifyCanary ==
    Read("verify canary", PackagesOf[request.canary] \subseteq intact, "choose")

\* The channel whose release is returned, by the fraction read at the end.
\* `low` is whether the request's stable hash falls below a fraction above 0.
ServedFrom(low) ==
    IF request.canary # NoRelease /\ share[request.target] = "some" /\ low
      THEN "canary" ELSE "stable"

\* The release is returned.
EndRequest ==
    /\ request.at = "choose"
    /\ request' = NoRequest
    /\ UNCHANGED <<registryVars, admin, begun>>

\* Is the release the request has read from the channel its active one?
Active(c) ==
    /\ request[c] # NoRelease
    /\ pointer[<<request.target, c>>] = request[c]
    /\ status[request[c]] = c
    /\ Loads(request[c])

Witness ==
    witnessed' =
        (IF request' = NoRequest
           THEN {}
           ELSE witnessed \cup {c \in {"stable", "canary"} : Active(c)'})

-----------------------------------------------------------------------------
RegistryStep ==
    \/ \E r \in Releases : Create(r)
    \/ \E k \in Keys, r \in Releases, s \in Shares :
          (k[2] # "canary" => s = "none") /\ BeginSetChannel(k, r, s)
    \/ MovePointer \/ SetOptions \/ SetStatus
    \/ \E t \in Targets : BeginRollback(t)
    \/ MoveBack \/ Demote \/ Reinstate
    \/ \E r \in Releases : Retire(r)
    \/ \E p \in Packages : Corrupt(p)

RequestStep ==
    \/ \E t \in Targets : BeginRequest(t)
    \/ ReadCanary \/ LoadStable \/ VerifyStable \/ LoadCanary \/ VerifyCanary
    \/ EndRequest

Next == (RegistryStep \/ RequestStep) /\ Witness

Spec == Init /\ [][Next]_vars

-----------------------------------------------------------------------------
(* Properties. *)

Statuses == {"absent", "created", "shadow", "canary", "stable", "retired", "rolled_back"}
AdminOps ==
    [op : {"set"}, step : {"pointer", "options", "status"}, key : Keys, release : Releases,
     share : Shares]
      \cup [op : {"rollback"}, step : {"pointer", "demote", "status"},
            key : {Stable(t) : t \in Targets}, release : Releases,
            current : Releases \cup {NoRelease}]
RequestSteps == {"canary", "load stable", "verify stable", "load canary", "verify canary", "choose"}
Requests ==
    [at : RequestSteps, target : Targets, stable : Releases, canary : Releases \cup {NoRelease}]

RegistryTypeOK ==
    /\ status \in [Releases -> Statuses]
    /\ pointer \in [Keys -> Releases \cup {NoRelease}]
    /\ previous \in [Keys -> Releases \cup {NoRelease}]
    /\ share \in [Targets -> Shares]
    /\ intact \in SUBSET Packages
    /\ admin \in AdminOps \cup {Idle} /\ begun \in Nat
    /\ \A k \in Keys : pointer[k] # NoRelease => status[pointer[k]] # "absent"

\* The variables have the types the code gives them, and a channel names only
\* releases the registry holds.
TypeOK ==
    /\ RegistryTypeOK
    /\ request \in Requests \cup {NoRequest} /\ witnessed \subseteq {"stable", "canary"}

\* The releases a target serves, or would go back to, on any channel.
Deployed(t) ==
    {r \in Releases : \E c \in Channels : r = pointer[<<t, c>>] \/ r = previous[<<t, c>>]}

\* All of them are the target's own and keep one contract, although rollback
\* compares no contracts: what a target promises its callers changes neither
\* by a promotion nor by going back.
OneContract ==
    \A t \in Targets : \A r, q \in Deployed(t) :
        TargetOf[r] = t /\ ContractOf[r] = ContractOf[q]

\* Between operations the stable channel never points to a release that was
\* only created or was rolled back, also after a rollback to the release that
\* is already there.
StableIsMarked ==
    \A t \in Targets :
        LET s == pointer[Stable(t)] IN
            s # NoRelease /\ (admin = Idle \/ s # admin.release)
              => status[s] \in {"shadow", "canary", "stable", "retired"}

\* A request reads pointers, Releases, digests and options one after the other
\* while channels move under it.  What it is given is still its target's own and
\* of the contract of all that the target deploys by then; and there was one
\* moment since it read the channel when this was the channel's release, marked
\* as such and loadable: no mixture of an old pointer and a later mark.
SelectionIsSound ==
    request.at = "choose" =>
        \A low \in BOOLEAN :
            LET c == ServedFrom(low)
                r == request[c]
            IN  /\ TargetOf[r] = request.target
                /\ \A q \in Deployed(request.target) : ContractOf[q] = ContractOf[r]
                /\ c \in witnessed

\* set_channel and rollback_release check before they write, and are several
\* writes: still each channel changes in one moment, to a release for which the
\* checks hold then, and a rollback leads to what the channel had before.
Channel == INSTANCE ChannelPromise WITH
    registered <- {r \in Releases : status[r] # "absent"},
    serves     <- pointer,
    fallback   <- previous
KeepsChannelPromise == Channel!Spec

\* 06_release_runtime.md:550: rollback moves the stable channel pointer back
\* to the previous eligible Release.  So it must be possible when there is one.
RollbackAvailable ==
    \A t \in Targets : admin = Idle /\ Eligible(t) => CanRollBack(t)

=============================================================================
