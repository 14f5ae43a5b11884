------------------------ MODULE ReleaseRegistry_proofs ------------------------
(***************************************************************************)
(* Proofs about ReleaseRegistry, for any targets, releases and packages.   *)
(* One contract per target and marked stable channels are not inductive:   *)
(* an operation has written only some of its changes between its steps, so *)
(* the invariant says what the releases it still works with may be.  Then  *)
(* that the registry implements ChannelPromise, and what keeps a rollback  *)
(* from being available.                                                   *)
(***************************************************************************)
EXTENDS ReleaseRegistry, TLAPS

\* A channel has a previous release only if it has a release.
PreviousFollows == \A k \in Keys : previous[k] # NoRelease => pointer[k] # NoRelease

\* The releases the operation in progress still writes into the registry.
Operated ==
    {r \in Releases : r = admin.release \/ (admin.op = "rollback" /\ r = admin.current)}

\* They are registered and belong with what their target deploys already; and
\* once the pointer has moved, it points to where the operation leads.
InProgress ==
    admin # Idle =>
        /\ \A r \in Operated :
              /\ status[r] # "absent"
              /\ TargetOf[r] = admin.key[1]
              /\ \A q \in Operated \cup Deployed(admin.key[1]) : ContractOf[r] = ContractOf[q]
        /\ admin.step # "pointer" => pointer[admin.key] = admin.release

IInv == RegistryTypeOK /\ PreviousFollows /\ InProgress /\ OneContract /\ StableIsMarked

-----------------------------------------------------------------------------
\* The empty registry satisfies the invariant.
LEMMA InitInvariant == Init => IInv
  BY ReleasesAssumption
  DEF Init, IInv, RegistryTypeOK, PreviousFollows, InProgress, OneContract, StableIsMarked,
      Idle, Keys, Channels, Shares, Statuses, Deployed, Stable

\* What every step of an operation in progress may use of its record.
LEMMA AdminShape ==
  ASSUME IInv, admin # Idle
  PROVE  /\ admin.op \in {"set", "rollback"}
         /\ admin.key \in Keys /\ admin.key[1] \in Targets /\ admin.key[2] \in Channels
         /\ admin.key = <<admin.key[1], admin.key[2]>>
         /\ admin.release \in Releases /\ admin.release # NoRelease
         /\ admin.release \in Operated
         /\ admin.op = "set" => admin.share \in Shares
         /\ admin.op = "rollback" =>
               /\ admin.current \in Releases \cup {NoRelease}
               /\ admin.key = Stable(admin.key[1])
  <1>1. CASE admin \in [op : {"set"}, step : {"pointer", "options", "status"}, key : Keys,
                        release : Releases, share : Shares]
    <2>1. /\ admin.op = "set" /\ admin.key \in Keys
           /\ admin.release \in Releases /\ admin.share \in Shares
      BY <1>1
    <2> QED BY <2>1, ReleasesAssumption DEF Keys, Operated
  <1>2. CASE admin \in [op : {"rollback"}, step : {"pointer", "demote", "status"},
                        key : {Stable(t) : t \in Targets}, release : Releases,
                        current : Releases \cup {NoRelease}]
    <2>1. /\ admin.op = "rollback" /\ admin.release \in Releases
          /\ admin.current \in Releases \cup {NoRelease}
          /\ \E t \in Targets : admin.key = <<t, "stable">>
      BY <1>2 DEF Stable
    <2> QED BY <2>1, ReleasesAssumption DEF Keys, Operated, Stable, Channels
  <1> QED BY <1>1, <1>2 DEF IInv, RegistryTypeOK, AdminOps

-----------------------------------------------------------------------------
\* Creating, retiring or damaging a release touches no channel.
LEMMA ReleaseSteps ==
  ASSUME IInv,
         \/ \E r \in Releases : Create(r) \/ Retire(r)
         \/ \E p \in Packages : Corrupt(p)
  PROVE  IInv'
  <1>1. UNCHANGED <<pointer, previous, share, admin>>
    BY DEF Create, Retire, Corrupt
  <1>2. RegistryTypeOK'
    BY DEF IInv, RegistryTypeOK, Create, Retire, Operation, Corrupt, Loads, Statuses, Keys
  <1>3. PreviousFollows' /\ OneContract'
    BY <1>1 DEF IInv, PreviousFollows, OneContract, Deployed
  <1>4. InProgress'
    BY <1>1 DEF IInv, InProgress, Operated, Deployed, Create, Retire, Corrupt, RegistryTypeOK
  <1>5. StableIsMarked'
    BY <1>1 DEF IInv, StableIsMarked, Create, Retire, Corrupt, RegistryTypeOK, Idle, Stable, Keys,
                Channels
  <1> QED BY <1>2, <1>3, <1>4, <1>5 DEF IInv

\* A channel update begins: the release has been compared with every pointer,
\* and so, through these, with every previous release.
LEMMA SetChannelBegins ==
  ASSUME IInv, NEW k \in Keys, NEW r \in Releases, NEW s \in Shares, BeginSetChannel(k, r, s)
  PROVE  IInv'
  <1> USE ReleasesAssumption
  <1>1. UNCHANGED <<status, pointer, previous, share, intact>>
    BY DEF BeginSetChannel, registryVars
  <1>2. RegistryTypeOK'
    BY DEF IInv, RegistryTypeOK, BeginSetChannel, Operation, registryVars, AdminOps
  <1>3. PreviousFollows' /\ OneContract'
    BY <1>1 DEF IInv, PreviousFollows, OneContract, Deployed
  <1>4. InProgress'
    <2>1. \A q \in Deployed(k[1]) : ContractOf[q] = ContractOf[r]
      <3> SUFFICES ASSUME NEW c \in Channels, NEW q \in Releases,
                          q = pointer[<<k[1], c>>] \/ q = previous[<<k[1], c>>]
                   PROVE  ContractOf[q] = ContractOf[r]
        BY DEF Deployed
      <3>1. k[1] \in Targets /\ <<k[1], c>> \in Keys
        BY DEF Keys
      <3>2. pointer[<<k[1], c>>] \in Releases
        BY <3>1 DEF IInv, PreviousFollows, RegistryTypeOK
      <3>3. ContractOf[pointer[<<k[1], c>>]] = ContractOf[r]
        BY <3>2 DEF BeginSetChannel, Compatible
      <3>4. ContractOf[q] = ContractOf[pointer[<<k[1], c>>]]
        BY <3>1, <3>2 DEF IInv, OneContract, Deployed
      <3> QED BY <3>3, <3>4
    <2>2. admin'.release = r /\ admin'.key[1] = k[1] /\ admin'.op = "set" /\ admin'.step = "pointer"
      BY DEF BeginSetChannel
    <2>3. status'[r] # "absent" /\ TargetOf[r] = k[1]
      BY DEF BeginSetChannel, registryVars, Loads
    <2> QED BY <1>1, <2>1, <2>2, <2>3 DEF InProgress, Deployed, Operated
  <1>5. StableIsMarked'
    BY <1>1 DEF IInv, StableIsMarked, BeginSetChannel, Operation, Stable
  <1> QED BY <1>2, <1>3, <1>4, <1>5 DEF IInv

\* A pointer that moves makes deployed, besides what is, the release it moves to.
LEMMA DeployedGrows ==
  ASSUME IInv, MovePointer \/ MoveBack
  PROVE  /\ admin.key \in Keys /\ pointer' = [pointer EXCEPT ![admin.key] = admin.release]
         /\ \A u \in Targets : \A q \in Deployed(u)' :
               q \in Deployed(u) \/ (u = admin.key[1] /\ q = admin.release)
  <1> USE ReleasesAssumption
  <1>1. admin # Idle
    BY DEF MovePointer, MoveBack, AtStep, Idle
  <1>2. admin.key \in Keys /\ admin.release \in Releases
    BY <1>1, AdminShape
  <1>3. /\ pointer' = [pointer EXCEPT ![admin.key] = admin.release]
        /\ \/ previous' = previous
           \/ pointer[admin.key] # NoRelease
              /\ previous' = [previous EXCEPT ![admin.key] = pointer[admin.key]]
    BY DEF MovePointer, MoveBack
  <1> SUFFICES ASSUME NEW u \in Targets, NEW c \in Channels,
                      NEW q \in Releases, q = pointer'[<<u, c>>] \/ q = previous'[<<u, c>>]
               PROVE  q \in Deployed(u) \/ (u = admin.key[1] /\ q = admin.release)
    BY <1>2, <1>3 DEF Deployed
  <1>4. <<u, c>> \in Keys
    BY DEF Keys
  <1> QED
    BY <1>2, <1>3, <1>4 DEF IInv, RegistryTypeOK, Deployed

\* A pointer moves, of a channel update or back by a rollback.
LEMMA PointerMoves ==
  ASSUME IInv, MovePointer \/ MoveBack
  PROVE  IInv'
  <1> USE ReleasesAssumption
  <1>1. admin # Idle /\ admin.step = "pointer"
    BY DEF MovePointer, MoveBack, AtStep, Idle
  <1> PICK t \in Targets, n \in Releases : t = admin.key[1] /\ n = admin.release
    BY <1>1, AdminShape
  <1>2. /\ admin.key \in Keys /\ admin.key = <<t, admin.key[2]>>
        /\ admin.key[2] \in Channels /\ n # NoRelease /\ n \in Operated
    BY <1>1, AdminShape
  <1>3. /\ pointer' = [pointer EXCEPT ![admin.key] = n]
        /\ \/ previous' = previous
           \/ pointer[admin.key] # NoRelease
              /\ previous' = [previous EXCEPT ![admin.key] = pointer[admin.key]]
        /\ UNCHANGED <<status, share, intact, begun>>
    BY DEF MovePointer, MoveBack
  <1>4. /\ admin' \in AdminOps /\ admin' # Idle /\ admin'.key = admin.key
        /\ admin'.op = admin.op /\ admin'.release = n
        /\ admin.op = "rollback" => admin'.current = admin.current
    <2>1. CASE MovePointer
      BY <1>1, <2>1 DEF MovePointer, AtStep, GoTo, IInv, RegistryTypeOK, AdminOps, Idle
    <2>2. CASE MoveBack
      BY <1>1, <2>2 DEF MoveBack, AtStep, GoTo, IInv, RegistryTypeOK, AdminOps, Idle
    <2> QED BY <2>1, <2>2
  <1>5. status[n] # "absent" /\ TargetOf[n] = t
        /\ \A q \in Operated \cup Deployed(t) : ContractOf[n] = ContractOf[q]
    BY <1>1, <1>2 DEF IInv, InProgress
  <1>6. \A u \in Targets : \A q \in Deployed(u)' : q \in Deployed(u) \/ (u = t /\ q = n)
    BY DeployedGrows
  <1>7. RegistryTypeOK'
    BY <1>2, <1>3, <1>4, <1>5 DEF IInv, RegistryTypeOK
  <1>8. PreviousFollows'
    BY <1>2, <1>3 DEF IInv, PreviousFollows, RegistryTypeOK
  <1>9. OneContract'
    BY <1>2, <1>5, <1>6 DEF IInv, OneContract
  <1>10. InProgress'
    <2>1. pointer'[admin.key] = n
      BY <1>2, <1>3 DEF IInv, RegistryTypeOK
    <2>2. \A r \in Operated :
            /\ status[r] # "absent" /\ TargetOf[r] = t
            /\ \A q \in Operated \cup Deployed(t) : ContractOf[r] = ContractOf[q]
      BY <1>1 DEF IInv, InProgress
    <2>3. \A r \in Operated' : r \in Operated
      <3>1. CASE admin.op = "rollback"
        BY <3>1, <1>2, <1>4 DEF Operated
      <3>2. CASE admin.op # "rollback"
        BY <3>2, <1>2, <1>4 DEF Operated
      <3> QED BY <3>1, <3>2
    <2>4. \A q \in Deployed(t)' : q \in Operated \cup Deployed(t)
      BY <1>2, <1>6
    <2> QED BY <1>3, <1>4, <2>1, <2>2, <2>3, <2>4 DEF InProgress
  <1>11. StableIsMarked'
    <2> SUFFICES ASSUME NEW u \in Targets,
                        pointer'[Stable(u)] # NoRelease, pointer'[Stable(u)] # n
                 PROVE  status[pointer'[Stable(u)]] \in {"shadow", "canary", "stable", "retired"}
      BY <1>3, <1>4 DEF StableIsMarked
    <2>1. pointer'[Stable(u)] = pointer[Stable(u)]
      BY <1>2, <1>3 DEF IInv, RegistryTypeOK, Stable, Keys, Channels
    <2> QED BY <2>1 DEF IInv, StableIsMarked
  <1> QED BY <1>7, <1>8, <1>9, <1>10, <1>11 DEF IInv

\* The options of a channel are written.
LEMMA OptionsSet ==
  ASSUME IInv, SetOptions
  PROVE  IInv'
  <1>1. admin # Idle /\ admin.op = "set" /\ admin.step = "options"
    BY DEF SetOptions, AtStep, Idle
  <1>2. /\ admin.key[1] \in Targets /\ admin.share \in Shares
        /\ UNCHANGED <<status, pointer, previous, intact, begun>>
    BY <1>1, AdminShape DEF SetOptions
  <1>3. /\ admin' \in AdminOps /\ admin' # Idle
        /\ admin'.op = admin.op /\ admin'.key = admin.key /\ admin'.release = admin.release
    BY <1>1 DEF SetOptions, GoTo, AtStep, IInv, RegistryTypeOK, AdminOps, Idle
  <1>4. RegistryTypeOK'
    BY <1>2, <1>3 DEF IInv, RegistryTypeOK, SetOptions
  <1>5. PreviousFollows' /\ OneContract'
    BY <1>2 DEF IInv, PreviousFollows, OneContract, Deployed
  <1>6. InProgress'
    <2>1. \A r \in Operated' : r \in Operated
      <3> SUFFICES ASSUME NEW r \in Releases, r = admin'.release PROVE r \in Operated
        BY <1>1, <1>3 DEF Operated
      <3> QED BY <1>3 DEF Operated
    <2>2. \A q \in Deployed(admin.key[1])' : q \in Deployed(admin.key[1])
      BY <1>2, <1>3 DEF Deployed
    <2> QED BY <1>1, <1>2, <1>3, <2>1, <2>2 DEF IInv, InProgress
  <1>7. StableIsMarked'
    BY <1>1, <1>2, <1>3 DEF IInv, StableIsMarked
  <1> QED BY <1>4, <1>5, <1>6, <1>7 DEF IInv

\* An operation ends: the release it led to is marked.
LEMMA OperationEnds ==
  ASSUME IInv, SetStatus \/ Reinstate
  PROVE  IInv'
  <1>1. admin # Idle /\ admin' = Idle /\ UNCHANGED <<pointer, previous, share, intact, begun>>
    BY DEF SetStatus, Reinstate, AtStep, Idle
  <1>2. /\ admin.release \in Releases
        /\ \E m \in Channels : status' = [status EXCEPT ![admin.release] = m]
    BY <1>1, AdminShape DEF SetStatus, Reinstate, Channels
  <1>3. RegistryTypeOK'
    BY <1>1, <1>2 DEF IInv, RegistryTypeOK, Statuses, Channels
  <1>4. PreviousFollows' /\ OneContract' /\ InProgress'
    BY <1>1 DEF IInv, PreviousFollows, OneContract, InProgress, Deployed
  <1>5. StableIsMarked'
    BY <1>1, <1>2 DEF IInv, StableIsMarked, RegistryTypeOK, Channels, Stable, Keys
  <1> QED BY <1>3, <1>4, <1>5 DEF IInv

\* A rollback begins, between two releases its target deploys.
LEMMA RollbackBegins ==
  ASSUME IInv, NEW t \in Targets, BeginRollback(t)
  PROVE  IInv'
  <1> USE ReleasesAssumption
  <1>1. /\ UNCHANGED <<status, pointer, previous, share, intact>>
        /\ admin = Idle /\ Stable(t) \in Keys /\ Stable(t)[1] = t
    BY DEF BeginRollback, Operation, registryVars, Stable, Keys, Channels
  <1>2. previous[Stable(t)] \in Releases /\ pointer[Stable(t)] \in Releases \cup {NoRelease}
        /\ status[previous[Stable(t)]] # "absent"
    BY <1>1 DEF BeginRollback, CanRollBack, Eligible, Loads, IInv, RegistryTypeOK
  <1>3. RegistryTypeOK'
    BY <1>1, <1>2 DEF IInv, RegistryTypeOK, BeginRollback, Operation, AdminOps
  <1>4. PreviousFollows' /\ OneContract'
    BY <1>1 DEF IInv, PreviousFollows, OneContract, Deployed
  <1>5. InProgress'
    <2>1. /\ admin'.release = previous[Stable(t)] /\ admin'.current = pointer[Stable(t)]
          /\ admin'.key[1] = t /\ admin'.step = "pointer"
      BY <1>1 DEF BeginRollback, registryVars
    <2>2. \A r \in Operated' : r \in Deployed(t) /\ status[r] # "absent"
      BY <1>1, <1>2, <2>1 DEF Operated, Deployed, Stable, Channels, IInv, RegistryTypeOK
    <2>3. \A q \in Deployed(t)' : q \in Deployed(t)
      BY <1>1 DEF Deployed
    <2> QED BY <1>1, <2>1, <2>2, <2>3 DEF IInv, InProgress, OneContract
  <1>6. StableIsMarked'
    BY <1>1 DEF IInv, StableIsMarked, BeginRollback
  <1> QED BY <1>3, <1>4, <1>5, <1>6 DEF IInv

\* The release that is rolled back is on no stable channel any more, unless it
\* is the very release the rollback led to.
LEMMA Demotion ==
  ASSUME IInv, Demote
  PROVE  IInv'
  <1> USE ReleasesAssumption
  <1>1. admin # Idle /\ admin.op = "rollback" /\ admin.step = "demote"
        /\ UNCHANGED <<pointer, previous, share, intact, begun>>
    BY DEF Demote, AtStep, Idle
  <1> PICK t \in Targets : t = admin.key[1]
    BY <1>1, AdminShape
  <1>2. /\ admin.key = Stable(t)
        /\ admin.release \in Releases /\ admin.current \in Releases \cup {NoRelease}
    BY <1>1, AdminShape
  <1>3. /\ admin' \in AdminOps /\ admin' # Idle /\ admin'.op = admin.op /\ admin'.key = admin.key
        /\ admin'.release = admin.release /\ admin'.current = admin.current
    BY <1>1 DEF Demote, GoTo, AtStep, IInv, RegistryTypeOK, AdminOps, Idle
  <1>4. /\ status' \in [Releases -> Statuses]
        /\ \A r \in Releases : status'[r] = status[r] \/ (r = admin.current /\ r # NoRelease)
        /\ \A r \in Releases : status[r] # "absent" => status'[r] # "absent"
    BY <1>2 DEF Demote, IInv, RegistryTypeOK, Statuses
  <1>5. RegistryTypeOK'
    BY <1>1, <1>3, <1>4 DEF IInv, RegistryTypeOK
  <1>6. PreviousFollows' /\ OneContract'
    BY <1>1 DEF IInv, PreviousFollows, OneContract, Deployed
  <1>7. InProgress'
    <2>1. \A r \in Operated' : r \in Operated /\ status'[r] # "absent"
      BY <1>1, <1>3, <1>4 DEF Operated, IInv, InProgress
    <2>2. \A q \in Deployed(t)' : q \in Deployed(t)
      BY <1>1 DEF Deployed
    <2> QED BY <1>1, <1>3, <2>1, <2>2 DEF IInv, InProgress
  <1>8. StableIsMarked'
    <2> SUFFICES ASSUME NEW u \in Targets,
                        pointer[Stable(u)] # NoRelease, pointer[Stable(u)] # admin.release
                 PROVE  status'[pointer[Stable(u)]] \in {"shadow", "canary", "stable", "retired"}
      BY <1>1, <1>3 DEF StableIsMarked
    <2>1. pointer[Stable(u)] \in Releases
      BY DEF IInv, RegistryTypeOK, Stable, Keys, Channels
    <2>2. pointer[Stable(t)] = admin.release
      BY <1>1, <1>2 DEF IInv, InProgress
    <2>3. TargetOf[pointer[Stable(u)]] = u
      BY <2>1 DEF IInv, OneContract, Deployed, Stable, Channels
    <2>4. pointer[Stable(u)] # admin.current
      BY <1>1, <1>2, <2>2, <2>3 DEF IInv, InProgress, Operated
    <2>5. status[pointer[Stable(u)]] \in {"shadow", "canary", "stable", "retired"}
      BY DEF IInv, StableIsMarked
    <2> QED BY <1>4, <2>1, <2>4, <2>5
  <1> QED BY <1>5, <1>6, <1>7, <1>8 DEF IInv

-----------------------------------------------------------------------------
\* Selecting a release changes nothing in the registry.
LEMMA RequestsOnlyRead == RequestStep => UNCHANGED <<registryVars, admin, begun>>
  BY DEF RequestStep, BeginRequest, Read, ReadCanary, LoadStable, VerifyStable, LoadCanary,
         VerifyCanary, EndRequest

\* Every step preserves the invariant.
LEMMA StepInvariant == IInv /\ [Next]_vars => IInv'
  <1> SUFFICES ASSUME IInv, [Next]_vars PROVE IInv'
    OBVIOUS
  <1>1. CASE (\E r \in Releases : Create(r) \/ Retire(r)) \/ (\E p \in Packages : Corrupt(p))
    BY <1>1, ReleaseSteps
  <1>2. CASE \E k \in Keys, r \in Releases, s \in Shares : BeginSetChannel(k, r, s)
    BY <1>2, SetChannelBegins
  <1>3. CASE MovePointer \/ MoveBack
    BY <1>3, PointerMoves
  <1>4. CASE SetOptions
    BY <1>4, OptionsSet
  <1>5. CASE SetStatus \/ Reinstate
    BY <1>5, OperationEnds
  <1>6. CASE \E t \in Targets : BeginRollback(t)
    BY <1>6, RollbackBegins
  <1>7. CASE Demote
    BY <1>7, Demotion
  <1>8. CASE RequestStep \/ UNCHANGED vars
    <2>1. UNCHANGED <<status, pointer, previous, share, intact, admin, begun>>
      BY <1>8, RequestsOnlyRead DEF vars, registryVars
    <2>2. RegistryTypeOK' /\ PreviousFollows' /\ StableIsMarked'
      BY <2>1 DEF IInv, RegistryTypeOK, PreviousFollows, StableIsMarked
    <2>3. OneContract'
      BY <2>1 DEF IInv, OneContract, Deployed
    <2>4. InProgress'
      BY <2>1 DEF IInv, InProgress, Operated, Deployed
    <2> QED BY <2>2, <2>3, <2>4 DEF IInv
  <1> QED
    BY <1>1, <1>2, <1>3, <1>4, <1>5, <1>6, <1>7, <1>8 DEF Next, RegistryStep

\* The invariant holds in every reachable state.
THEOREM Invariance == Spec => []IInv
  BY InitInvariant, StepInvariant, PTL DEF Spec

-----------------------------------------------------------------------------
\* set_channel and rollback_release never mix contracts on one target, nor
\* give it a release of another.
THEOREM TargetsKeepTheirContract == Spec => []OneContract
  <1> IInv => OneContract
    BY DEF IInv
  <1> QED BY Invariance, PTL

\* set_channel and rollback_release leave the stable channel on a release that
\* was marked for a channel, also when a rollback leads where one already is.
THEOREM StableStaysMarked == Spec => []StableIsMarked
  <1> IInv => StableIsMarked
    BY DEF IInv
  <1> QED BY Invariance, PTL

-----------------------------------------------------------------------------
(* The selection of a request's release (select_release_for_request).         *)

\* The release is the target's own, and of the contract of what it deploys.
Fits(r, t) == TargetOf[r] = t /\ \A q \in Deployed(t) : ContractOf[q] = ContractOf[r]

ReadChannels == {"stable", "canary"}

\* What the request has read fits its target; and a release that is loadable
\* and marked as its channel's was the channel's active one at one moment since:
\* it got the mark when the channel pointed to it.  So once a mark and then the
\* digests have been read, that moment has been.
RequestRight ==
    request # NoRequest =>
        /\ pointer[Stable(request.target)] # NoRelease
        /\ \A c \in ReadChannels : request[c] # NoRelease =>
              /\ Fits(request[c], request.target)
              /\ status[request[c]] = c /\ PackagesOf[request[c]] \subseteq intact
                   => c \in witnessed
        /\ request.at = "verify stable" /\ PackagesOf[request.stable] \subseteq intact
             => "stable" \in witnessed
        /\ request.at \in {"load canary", "verify canary", "choose"} => "stable" \in witnessed
        /\ request.at \in {"load canary", "verify canary"} => request.canary # NoRelease
        /\ request.at = "verify canary" /\ PackagesOf[request.canary] \subseteq intact
             => "canary" \in witnessed
        /\ request.at = "choose" /\ request.canary # NoRelease => "canary" \in witnessed

\* The registry may change in any way while a request is under way.
LEMMA FitsStays ==
  ASSUME IInv, RegistryStep, NEW t \in Targets, NEW r \in Releases, Fits(r, t),
         pointer[Stable(t)] # NoRelease
  PROVE  Fits(r, t)' /\ pointer'[Stable(t)] # NoRelease
  <1> USE ReleasesAssumption
  <1>1. CASE MovePointer \/ MoveBack
    <2>1. admin # Idle
      BY <1>1 DEF MovePointer, MoveBack, AtStep, Idle
    <2>2. /\ admin.release \in Releases /\ admin.release # NoRelease
          /\ admin.release \in Operated /\ admin.key \in Keys
      BY <2>1, AdminShape
    <2>3. Stable(t) \in Keys
      BY DEF Stable, Keys, Channels
    <2>4. pointer'[Stable(t)] # NoRelease
      BY <1>1, <2>2, <2>3, DeployedGrows DEF IInv, RegistryTypeOK
    <2>5. pointer[Stable(t)] \in Deployed(t)
      BY <2>3 DEF Deployed, IInv, RegistryTypeOK, Stable, Channels
    <2>6. ASSUME NEW q \in Deployed(t)', q \notin Deployed(t)
          PROVE  ContractOf[q] = ContractOf[r]
      <3>1. t = admin.key[1] /\ q = admin.release
        BY <1>1, <2>6, DeployedGrows
      <3>2. ContractOf[q] = ContractOf[pointer[Stable(t)]]
        BY <2>1, <2>2, <2>5, <3>1 DEF IInv, InProgress
      <3> QED
        BY <2>5, <3>2 DEF Fits
    <2> QED
      BY <2>4, <2>6 DEF Fits
  <1>2. CASE UNCHANGED <<pointer, previous>>
    BY <1>2 DEF Fits, Deployed
  <1> QED
    BY <1>1, <1>2 DEF RegistryStep, Create, BeginSetChannel, SetOptions, SetStatus, BeginRollback,
       Demote, Reinstate, Retire, Corrupt, registryVars

\* Only the last write of an operation marks a release as a channel's, and the
\* channel points to it then.
LEMMA MarkedWhenServed ==
  ASSUME IInv, RegistryStep, NEW r \in Releases, NEW c \in ReadChannels,
         status'[r] = c, status[r] # c
  PROVE  pointer'[<<TargetOf[r], c>>] = r
  <1>1. CASE SetStatus \/ Reinstate
    <2>1. /\ admin # Idle /\ admin.step = "status" /\ pointer' = pointer
          /\ \/ admin.op = "set" /\ status' = [status EXCEPT ![admin.release] = admin.key[2]]
             \/ admin.op = "rollback" /\ status' = [status EXCEPT ![admin.release] = "stable"]
      BY <1>1 DEF SetStatus, Reinstate, AtStep, Idle
    <2>2. /\ admin.release \in Operated /\ admin.key = <<admin.key[1], admin.key[2]>>
          /\ admin.op = "rollback" => admin.key[2] = "stable"
      BY <2>1, AdminShape DEF Stable
    <2>3. r = admin.release /\ admin.key[2] = c
      BY <2>1, <2>2 DEF IInv, RegistryTypeOK
    <2>4. pointer[admin.key] = r /\ TargetOf[r] = admin.key[1]
      BY <2>1, <2>2, <2>3 DEF IInv, InProgress
    <2> QED
      BY <2>1, <2>2, <2>3, <2>4
  <1>2. CASE ~(SetStatus \/ Reinstate)
    <2>1. \/ UNCHANGED status
          \/ \E q, m : status' = [status EXCEPT ![q] = m] /\ m \notin ReadChannels
      <3>1. CASE (\E q \in Releases : Create(q) \/ Retire(q)) \/ Demote
        BY <3>1 DEF Create, Retire, Demote, ReadChannels
      <3>2. CASE ~((\E q \in Releases : Create(q) \/ Retire(q)) \/ Demote)
        BY <1>2, <3>2 DEF RegistryStep, BeginSetChannel, MovePointer, SetOptions, BeginRollback,
           MoveBack, Corrupt, registryVars
      <3> QED
        BY <3>1, <3>2
    <2> QED
      BY <2>1 DEF IInv, RegistryTypeOK, ReadChannels
  <1> QED
    BY <1>1, <1>2

\* Only a request reads.
LEMMA ReadingIsARequest ==
  ASSUME LoadStable \/ VerifyStable \/ LoadCanary \/ VerifyCanary
  PROVE  request # NoRequest
  <1>1. request.at \in {"load stable", "verify stable", "load canary", "verify canary"}
    BY DEF LoadStable, VerifyStable, LoadCanary, VerifyCanary, Read
  <1>2. NoRequest.at = "idle"
    BY DEF NoRequest
  <1> QED
    BY <1>1, <1>2

\* What every step of a request may use of its record.
LEMMA RequestShape ==
  ASSUME TypeOK, request # NoRequest
  PROVE  /\ request.at \in RequestSteps /\ request.target \in Targets
         /\ request.stable \in Releases /\ request.canary \in Releases \cup {NoRelease}
         /\ \A c \in ReadChannels : request[c] \in Releases \cup {NoRelease}
  BY DEF TypeOK, Requests, ReadChannels

\* The registry changes while a request is under way.
LEMMA RegistryKeepsRequest ==
  ASSUME IInv, TypeOK, RequestRight, RegistryStep, Witness, request' = request
  PROVE  RequestRight'
  <1> SUFFICES ASSUME request # NoRequest PROVE RequestRight'
    BY DEF RequestRight
  <1>1. /\ request.target \in Targets /\ request.stable \in Releases
        /\ request.canary \in Releases \cup {NoRelease}
        /\ \A c \in ReadChannels : request[c] \in Releases \cup {NoRelease}
    BY RequestShape
  <1>2. witnessed' = witnessed \cup {c \in ReadChannels : Active(c)'}
    BY DEF Witness, ReadChannels
  <1>3. intact' \subseteq intact
    BY DEF RegistryStep, Create, BeginSetChannel, MovePointer, SetOptions, SetStatus,
       BeginRollback, MoveBack, Demote, Reinstate, Retire, Corrupt, registryVars
  <1>4. ASSUME NEW c \in ReadChannels, request[c] # NoRelease
        PROVE  /\ Fits(request[c], request.target)'
               /\ status'[request[c]] = c /\ PackagesOf[request[c]] \subseteq intact'
                    => c \in witnessed'
    <2>1. Fits(request[c], request.target) /\ request[c] \in Releases
      BY <1>1, <1>4 DEF RequestRight
    <2>2. Fits(request[c], request.target)'
      <3> PICK t \in Targets, r \in Releases : t = request.target /\ r = request[c]
        BY <1>1, <2>1
      <3>1. Fits(r, t)'
        BY <2>1, FitsStays DEF RequestRight
      <3> QED
        BY <3>1 DEF Fits, Deployed
    <2>3. ASSUME status'[request[c]] = c, PackagesOf[request[c]] \subseteq intact'
          PROVE  c \in witnessed'
      <3>1. CASE status[request[c]] = c
        BY <1>2, <1>3, <1>4, <2>3, <3>1 DEF RequestRight
      <3>2. CASE status[request[c]] # c
        <4>1. pointer'[<<request.target, c>>] = request[c]
          BY <2>1, <2>3, <3>2, MarkedWhenServed DEF Fits
        <4>2. Active(c)'
          BY <1>4, <2>3, <4>1 DEF Active, Loads, ReadChannels
        <4> QED
          BY <1>2, <4>2
      <3> QED
        BY <3>1, <3>2
    <2> QED
      BY <2>2, <2>3
  <1>5. pointer'[Stable(request.target)] # NoRelease
    <2>1. Fits(request.stable, request.target)
      BY <1>1, ReleasesAssumption DEF RequestRight, ReadChannels
    <2> QED
      BY <1>1, <2>1, FitsStays DEF RequestRight
  <1> QED
    BY <1>2, <1>3, <1>4, <1>5 DEF RequestRight

\* The request reads on.
LEMMA RequestReadsOn ==
  ASSUME IInv, TypeOK, RequestRight, RequestStep, Witness
  PROVE  RequestRight'
  <1> USE ReleasesAssumption
  <1>1. UNCHANGED <<status, pointer, previous, share, intact>>
    BY RequestsOnlyRead DEF registryVars
  <1>2. /\ \A r, u : Fits(r, u)' <=> Fits(r, u)
        /\ request' # NoRequest => witnessed' = witnessed \cup {c \in ReadChannels : Active(c)'}
    BY <1>1 DEF Fits, Deployed, Witness, ReadChannels
  <1>3. ASSUME NEW u \in Targets, NEW c \in ReadChannels, pointer[<<u, c>>] # NoRelease
        PROVE  Fits(pointer[<<u, c>>], u)
    <2>1. pointer[<<u, c>>] \in Deployed(u)
      BY <1>3 DEF Deployed, IInv, RegistryTypeOK, Keys, Channels, ReadChannels
    <2> QED
      BY <2>1 DEF Fits, IInv, OneContract
  <1>4. ASSUME NEW u \in Targets, BeginRequest(u)
        PROVE  RequestRight'
    <2>1. /\ request'.at = "canary" /\ request'.target = u
          /\ request'["stable"] = pointer[Stable(u)] /\ request'["canary"] = NoRelease
          /\ pointer[Stable(u)] # NoRelease /\ request' # NoRequest
      BY <1>4 DEF BeginRequest, NoRequest
    <2>2. Fits(request'["stable"], u)
      BY <1>3, <2>1 DEF Stable, ReadChannels
    <2>3. pointer[Stable(u)] \in Releases /\ status[pointer[Stable(u)]] # "absent"
      BY <2>1 DEF IInv, RegistryTypeOK, Keys, Channels, Stable
    <2>4. /\ status[request'["stable"]] = "stable"
          /\ PackagesOf[request'["stable"]] \subseteq intact
          => Active("stable")'
      BY <1>1, <2>1, <2>3 DEF Active, Loads, Stable
    <2> QED
      BY <1>1, <1>2, <2>1, <2>2, <2>4 DEF RequestRight, ReadChannels
  <1>5. CASE ReadCanary
    <2>1. request # NoRequest
      BY <1>5 DEF ReadCanary, NoRequest
    <2> DEFINE c == pointer[<<request.target, "canary">>]
    <2>2. /\ request'.at = "load stable" /\ request'.target = request.target
          /\ request'["stable"] = request["stable"] /\ request'["canary"] = c
          /\ request' # NoRequest
      BY <1>5, <2>1, RequestShape DEF ReadCanary, NoRequest, TypeOK, Requests
    <2>3. request.target \in Targets
      BY <2>1, RequestShape
    <2>4. c # NoRelease => Fits(c, request.target)
      BY <1>3, <2>3 DEF ReadChannels
    <2>5. /\ c # NoRelease /\ status[c] = "canary" /\ PackagesOf[c] \subseteq intact
          => Active("canary")'
      BY <1>1, <2>2 DEF Active, Loads
    <2> QED
      BY <1>1, <1>2, <2>1, <2>2, <2>4, <2>5 DEF RequestRight, ReadChannels
  <1>6. CASE LoadStable \/ VerifyStable \/ LoadCanary \/ VerifyCanary
    <2> SUFFICES ASSUME request' # NoRequest PROVE RequestRight'
      BY DEF RequestRight
    <2>1. request # NoRequest
      BY <1>6, ReadingIsARequest
    <2>2. /\ request'.target = request.target /\ request'["stable"] = request["stable"]
          /\ request'["canary"] = request["canary"]
          /\ \/ /\ request.at = "load stable" /\ status[request.stable] = "stable"
                /\ request'.at = "verify stable"
             \/ /\ request.at = "verify stable" /\ PackagesOf[request.stable] \subseteq intact
                /\ request'.at = (IF request.canary = NoRelease THEN "choose" ELSE "load canary")
             \/ /\ request.at = "load canary" /\ status[request.canary] = "canary"
                /\ request'.at = "verify canary"
             \/ /\ request.at = "verify canary" /\ PackagesOf[request.canary] \subseteq intact
                /\ request'.at = "choose"
      BY <1>6, <2>1 DEF LoadStable, VerifyStable, LoadCanary, VerifyCanary, Read, TypeOK, Requests
    <2>3. request.stable \in Releases
      BY <2>1, RequestShape
    <2> QED
      BY <1>1, <1>2, <2>1, <2>2, <2>3 DEF RequestRight, ReadChannels
  <1>7. CASE EndRequest
    BY <1>7 DEF EndRequest, RequestRight
  <1> QED
    BY <1>4, <1>5, <1>6, <1>7 DEF RequestStep

\* A request's record stays one when its step and its canary are changed.
LEMMA RequestsTyped ==
  ASSUME NEW q \in Requests, NEW step \in RequestSteps, NEW c \in Releases \cup {NoRelease}
  PROVE  [q EXCEPT !.at = step] \in Requests /\ [q EXCEPT !.at = step, !.canary = c] \in Requests
  BY DEF Requests

\* The request's record keeps its type.
LEMMA RequestStaysTyped ==
  ASSUME IInv, IInv', TypeOK, [Next]_vars
  PROVE  TypeOK'
  <1> USE ReleasesAssumption
  <1>1. CASE RegistryStep /\ Witness
    <2>1. request' = request
      BY <1>1 DEF RegistryStep, Create, BeginSetChannel, MovePointer, SetOptions, SetStatus,
         BeginRollback, MoveBack, Demote, Reinstate, Retire, Corrupt
    <2> QED
      BY <1>1, <2>1 DEF TypeOK, Witness, IInv
  <1>2. CASE RequestStep /\ Witness
    <2>1. ASSUME NEW u \in Targets, BeginRequest(u)
          PROVE  request' \in Requests
      BY <2>1 DEF BeginRequest, Requests, RequestSteps, IInv, RegistryTypeOK, Keys, Channels, Stable
    <2>2. ASSUME ReadCanary
          PROVE  request' \in Requests
      <3>1. request # NoRequest
        BY <2>2 DEF ReadCanary, NoRequest
      <3>2. pointer[<<request.target, "canary">>] \in Releases \cup {NoRelease}
        BY <3>1, RequestShape DEF IInv, RegistryTypeOK, Keys, Channels
      <3> QED
        <4>1. request \in Requests /\ "load stable" \in RequestSteps
          BY <3>1 DEF TypeOK, RequestSteps
        <4>2. request' = [request EXCEPT !.at = "load stable",
                                         !.canary = pointer[<<request.target, "canary">>]]
          BY <2>2 DEF ReadCanary
        <4> QED
          BY <3>2, <4>1, <4>2, RequestsTyped
    <2>3. ASSUME LoadStable \/ VerifyStable \/ LoadCanary \/ VerifyCanary
          PROVE  request' \in Requests \cup {NoRequest}
      <3>1. request # NoRequest
        BY <2>3, ReadingIsARequest
      <3>2. \/ request' = NoRequest
            \/ \E step \in RequestSteps : request' = [request EXCEPT !.at = step]
        BY <2>3 DEF LoadStable, VerifyStable, LoadCanary, VerifyCanary, Read, RequestSteps
      <3> QED
        <4>1. request \in Requests
          BY <3>1 DEF TypeOK
        <4> QED
          BY <3>2, <4>1, RequestsTyped
    <2> QED
      BY <1>2, <2>1, <2>2, <2>3 DEF RequestStep, EndRequest, TypeOK, Witness, IInv
  <1>3. CASE UNCHANGED vars
    BY <1>3 DEF vars, TypeOK, IInv
  <1> QED
    BY <1>1, <1>2, <1>3 DEF Next

\* What a request has read stays right, whatever happens between its reads.
LEMMA RequestInvariance == Spec => [](TypeOK /\ RequestRight)
  <1>1. Init => TypeOK /\ RequestRight
    BY InitInvariant DEF Init, IInv, TypeOK, RequestRight
  <1>2. IInv /\ IInv' /\ (TypeOK /\ RequestRight) /\ [Next]_vars => (TypeOK /\ RequestRight)'
    <2> SUFFICES ASSUME IInv, IInv', TypeOK, RequestRight, [Next]_vars
                 PROVE  TypeOK' /\ RequestRight'
      OBVIOUS
    <2>1. CASE RegistryStep /\ Witness
      <3>1. request' = request
        BY <2>1 DEF RegistryStep, Create, BeginSetChannel, MovePointer, SetOptions, SetStatus,
           BeginRollback, MoveBack, Demote, Reinstate, Retire, Corrupt
      <3> QED
        BY <2>1, <3>1, RequestStaysTyped, RegistryKeepsRequest
    <2>2. CASE RequestStep /\ Witness
      BY <2>2, RequestStaysTyped, RequestReadsOn
    <2>3. CASE UNCHANGED vars
      <3>1. UNCHANGED <<status, pointer, previous, intact, request, witnessed>>
        BY <2>3 DEF vars, registryVars
      <3> QED
        BY <3>1, RequestStaysTyped DEF RequestRight, Fits, Deployed, ReadChannels
    <2> QED
      BY <2>1, <2>2, <2>3 DEF Next
  <1> QED
    BY <1>1, <1>2, Invariance, PTL DEF Spec

\* The variables keep their types, and a channel names only releases the
\* registry holds, whatever the order of the writes.
THEOREM TypeCorrect == Spec => []TypeOK
  BY RequestInvariance, PTL

\* What select_release_for_request returns, after reads between which the
\* channels may move as they like, is a release of the target and of the
\* contract of all it deploys by then; and there was one moment since the request
\* read the channel when this release was on it, marked for it and loadable.
THEOREM SelectionStaysSound == Spec => []SelectionIsSound
  <1>1. IInv /\ TypeOK /\ RequestRight => SelectionIsSound
    <2> SUFFICES ASSUME TypeOK, RequestRight, request.at = "choose", NEW low \in BOOLEAN
                 PROVE  LET c == ServedFrom(low)
                            r == request[c]
                        IN  Fits(r, request.target) /\ c \in witnessed
      BY DEF SelectionIsSound, Fits
    <2>1. request # NoRequest
      BY DEF NoRequest
    <2>2. /\ ServedFrom(low) \in ReadChannels
          /\ request[ServedFrom(low)] # NoRelease
      BY <2>1, RequestShape, ReleasesAssumption DEF ServedFrom, ReadChannels
    <2>3. ServedFrom(low) \in witnessed
      BY <2>1 DEF RequestRight, ServedFrom
    <2> QED
      BY <2>1, <2>2, <2>3 DEF RequestRight
  <1> QED BY <1>1, RequestInvariance, Invariance, PTL

-----------------------------------------------------------------------------
(* Several writes, one change (ChannelPromise).                            *)

\* A rollback in progress leads to the release its channel still has as the
\* previous one.
Returning == admin # Idle /\ admin.op = "rollback" => previous[admin.key] = admin.release

registered == {r \in Releases : status[r] # "absent"}

\* Only the move of a channel's own pointer touches its previous release.
LEMMA StaysReturning == IInv /\ Returning /\ [Next]_vars => Returning'
  <1> SUFFICES ASSUME IInv, Returning, [Next]_vars PROVE Returning'
    OBVIOUS
  <1>1. CASE \E t \in Targets : BeginRollback(t)
    BY <1>1 DEF BeginRollback, registryVars, Returning
  <1>2. CASE \E k \in Keys, r \in Releases, s \in Shares : BeginSetChannel(k, r, s)
    BY <1>2 DEF BeginSetChannel, Returning
  <1>3. CASE MovePointer \/ SetOptions
    <2>1. admin # Idle /\ admin.op = "set"
      BY <1>3 DEF MovePointer, SetOptions, AtStep, Idle
    <2>2. admin' = [admin EXCEPT !.step = "options"] \/ admin' = [admin EXCEPT !.step = "status"]
      BY <1>3 DEF MovePointer, SetOptions, GoTo
    <2>3. admin'.op = "set"
      BY <2>1, <2>2 DEF IInv, RegistryTypeOK, AdminOps
    <2> QED BY <2>3 DEF Returning
  <1>4. CASE MoveBack \/ Demote
    <2>1. admin # Idle /\ admin.op = "rollback" /\ previous' = previous
      BY <1>4 DEF MoveBack, Demote, AtStep, Idle
    <2>2. admin' = [admin EXCEPT !.step = "demote"] \/ admin' = [admin EXCEPT !.step = "status"]
      BY <1>4 DEF MoveBack, Demote, GoTo
    <2>3. admin'.key = admin.key /\ admin'.release = admin.release
      BY <2>1, <2>2 DEF IInv, RegistryTypeOK, AdminOps
    <2> QED BY <2>1, <2>3 DEF Returning
  <1>5. CASE SetStatus \/ Reinstate
    BY <1>5 DEF SetStatus, Reinstate, Returning
  <1>6. CASE \/ \E r \in Releases : Create(r) \/ Retire(r)
             \/ \E p \in Packages : Corrupt(p)
             \/ RequestStep \/ UNCHANGED vars
    BY <1>6, RequestsOnlyRead DEF Create, Retire, Corrupt, vars, registryVars, Returning
  <1> QED BY <1>1, <1>2, <1>3, <1>4, <1>5, <1>6 DEF Next, RegistryStep

\* When the pointer is moved, what was checked when the operation began holds.
LEMMA MovesFit ==
  ASSUME IInv, admin # Idle
  PROVE  Channel!Fits(admin.release, admin.key[1])
  <1>1. /\ admin.release \in Releases /\ admin.release \in Operated
    BY AdminShape
  <1>2. /\ status[admin.release] # "absent" /\ TargetOf[admin.release] = admin.key[1]
        /\ \A q \in Deployed(admin.key[1]) : ContractOf[admin.release] = ContractOf[q]
    BY <1>1 DEF IInv, InProgress
  <1> QED BY <1>1, <1>2 DEF Channel!Fits, Channel!Deployed, Deployed

\* Marking a release that is registered registers nothing.
LEMMA MarkRegisters ==
  ASSUME IInv, NEW r \in Releases, status[r] # "absent", NEW m \in Statuses, m # "absent",
         status' = [status EXCEPT ![r] = m]
  PROVE  registered' = registered
  BY DEF registered, IInv, RegistryTypeOK

\* Every write is one step of the promise or, for the channels, none.
LEMMA ChannelStep ==
  IInv /\ Returning /\ [Next]_vars
    => Channel!Next \/ UNCHANGED <<registered, pointer, previous>>
  <1> USE ReleasesAssumption
  <1> SUFFICES ASSUME IInv, Returning, [Next]_vars
               PROVE  Channel!Next \/ UNCHANGED <<registered, pointer, previous>>
    OBVIOUS
  <1>1. ASSUME NEW r \in Releases, Create(r)
        PROVE  Channel!Next
    <2>1. r \notin registered /\ registered' = registered \cup {r}
      BY <1>1 DEF Create, registered, IInv, RegistryTypeOK
    <2>2. Channel!Register(r)
      BY <1>1, <2>1 DEF Channel!Register, Create, registered
    <2> QED BY <2>2 DEF Channel!Next
  <1>2. CASE MovePointer
    <2>1. admin # Idle
      BY <1>2 DEF MovePointer, AtStep, Idle
    <2>2. /\ admin.key \in Keys /\ admin.release \in Releases
          /\ Channel!Fits(admin.release, admin.key[1])
      BY <2>1, AdminShape, MovesFit
    <2>3. /\ pointer' = [pointer EXCEPT ![admin.key] = admin.release]
          /\ previous' = (IF pointer[admin.key] = NoRelease
                            THEN previous
                            ELSE [previous EXCEPT ![admin.key] = pointer[admin.key]])
          /\ registered' = registered
      BY <1>2 DEF MovePointer, registered
    <2>4. Channel!Set(admin.key, admin.release)
      BY <2>2, <2>3 DEF Channel!Set, Channel!Serve, registered
    <2> QED BY <2>2, <2>4 DEF Channel!Next, Channel!Keys, Keys
  <1>3. CASE MoveBack
    <2>1. admin # Idle /\ admin.op = "rollback"
      BY <1>3 DEF MoveBack, AtStep, Idle
    <2>2. /\ admin.key \in Keys /\ admin.release \in Releases
          /\ Channel!Fits(admin.release, admin.key[1]) /\ previous[admin.key] = admin.release
      BY <2>1, AdminShape, MovesFit DEF Returning
    <2>3. /\ pointer' = [pointer EXCEPT ![admin.key] = admin.release]
          /\ previous' = previous /\ registered' = registered
      BY <1>3 DEF MoveBack, registered
    <2>4. Channel!GoBack(admin.key)
      BY <2>2, <2>3 DEF Channel!GoBack, Channel!Serve, registered
    <2> QED BY <2>2, <2>4 DEF Channel!Next, Channel!Keys, Keys
  <1>4. CASE SetStatus \/ Reinstate
    <2>1. admin # Idle /\ UNCHANGED <<pointer, previous>>
      BY <1>4 DEF SetStatus, Reinstate, AtStep, Idle
    <2>2. /\ admin.release \in Releases /\ status[admin.release] # "absent"
          /\ admin.key[2] \in Channels
      BY <2>1, AdminShape DEF IInv, InProgress
    <2>3. \E m \in Channels : status' = [status EXCEPT ![admin.release] = m]
      BY <1>4, <2>2 DEF SetStatus, Reinstate, Channels
    <2> QED BY <2>1, <2>2, <2>3, MarkRegisters DEF Channels, Statuses
  <1>5. CASE Demote
    <2>1. admin # Idle /\ admin.op = "rollback" /\ UNCHANGED <<pointer, previous>>
      BY <1>5 DEF Demote, AtStep, Idle
    <2>2. CASE admin.current = NoRelease
      BY <1>5, <2>1, <2>2 DEF Demote, registered
    <2>3. CASE admin.current # NoRelease
      <3>1. admin.current \in Releases
        BY <2>1, <2>3, AdminShape
      <3>2. status[admin.current] # "absent"
        BY <2>1, <3>1 DEF IInv, InProgress, Operated
      <3>3. status' = [status EXCEPT ![admin.current] = "rolled_back"]
        BY <1>5, <2>3 DEF Demote
      <3> QED BY <2>1, <3>1, <3>2, <3>3, MarkRegisters DEF Statuses
    <2> QED BY <2>2, <2>3
  <1>6. ASSUME NEW r \in Releases, Retire(r)
        PROVE  UNCHANGED <<registered, pointer, previous>>
    BY <1>6, MarkRegisters DEF Retire, Loads, Statuses
  <1>7. CASE \/ \E t \in Targets : BeginRollback(t)
             \/ \E k \in Keys, r \in Releases, s \in Shares : BeginSetChannel(k, r, s)
             \/ SetOptions \/ (\E p \in Packages : Corrupt(p)) \/ RequestStep \/ UNCHANGED vars
    BY <1>7, RequestsOnlyRead DEF BeginRollback, BeginSetChannel, SetOptions, Corrupt, vars,
       registryVars, registered
  <1> QED BY <1>1, <1>2, <1>3, <1>4, <1>5, <1>6, <1>7 DEF Next, RegistryStep

\* set_channel and rollback_release implement ChannelPromise: a channel changes
\* in one moment, and the checks of the operation hold in it.
THEOREM ChannelPromiseKept == Spec => KeepsChannelPromise
  <1>1. Init => Returning /\ Channel!Init
    BY DEF Init, Returning, Idle, Channel!Init, Channel!Keys, Keys
  <1>2. IInv /\ Returning /\ [Next]_vars => [Channel!Next]_(Channel!vars)
    BY ChannelStep DEF Channel!vars, registered
  <1> QED BY <1>1, <1>2, StaysReturning, Invariance, PTL
      DEF Spec, KeepsChannelPromise, Channel!Spec

\* What stands against a rollback to an eligible release is only a package of
\* the release to be rolled back that does not verify any more: rollback_release
\* loads that release too.
THEOREM RollbackNeedsIntactCurrent ==
  Spec => [](\A t \in Targets :
               /\ admin = Idle /\ Eligible(t)
               /\ \A r \in Releases : r = pointer[Stable(t)] => PackagesOf[r] \subseteq intact
               => CanRollBack(t))
  <1>1. IInv => \A t \in Targets :
                   /\ admin = Idle /\ Eligible(t)
                   /\ \A r \in Releases : r = pointer[Stable(t)] => PackagesOf[r] \subseteq intact
                   => CanRollBack(t)
    BY DEF IInv, RegistryTypeOK, CanRollBack, Loads, Stable, Keys, Channels
  <1> QED BY <1>1, Invariance, PTL

=============================================================================
