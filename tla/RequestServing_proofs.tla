------------------------ MODULE RequestServing_proofs -------------------------
(***************************************************************************)
(* Proofs about RequestServing, for any releases, inputs, breaker settings *)
(* and number of requests.  What is answered or kept as evidence was       *)
(* written some steps before, so the invariant follows the request: what   *)
(* it must have left behind by the place where it is.  Then when a layer   *)
(* that failed rests, and that a request only ever comes nearer its end.   *)
(***************************************************************************)
EXTENDS RequestServing, TLAPS

\* The places of a request that has its answer.
Answered == {"keep", "audit", "trace", "evidence", "enqueue", "respond"}

\* What is true of a request wherever it is: an output is its own, and it has
\* the trace that the steps it has taken write.
Fits(rq) ==
    /\ rq \in Requests /\ rq.id = served /\ rq.ready \subseteq LayersOf[rq.release]
    /\ rq.at \in Answered => rq.status \in Statuses
    /\ rq.at = "keep" => rq.status = "ok"
    /\ rq.status = "ok" =>
          rq.out = {[release |-> rq.release, input |-> rq.input, version |-> rq.version]}
    /\ rq.at \in {"evidence", "enqueue"} =>
          [id |-> rq.id, release |-> rq.release, status |-> rq.status, by |-> rq.by,
           audits |-> rq.audits] \in traces
    /\ rq.at = "respond" =>
          \E t \in traces : t.id = rq.id /\ t.status = rq.status /\ t.release = rq.release

PathInv == req # Idle => Fits(req)

\* An entry of the cache is under the key of the request that produced it.
CacheInv == \A e \in cache : e.key = <<e.out.release, e.out.input, e.out.version>>

\* The skips an open breaker has made and those it will make are the cooldown.
BreakerInv ==
    \A k \in Keys :
        /\ skips[k] <= CooldownRequests
        /\ Open(breaker[k]) =>
              breaker[k].remaining > 0 /\ skips[k] + breaker[k].remaining <= CooldownRequests

IInv ==
    /\ TypeOK /\ PathInv /\ CacheInv /\ BreakerInv
    /\ AnswersAreOwn /\ EvidenceIsTraced /\ AnswersAreTraced

-----------------------------------------------------------------------------
\* Before the first request there is nothing that could break the invariant.
LEMMA InitInvariant == Init => IInv
  <1> SUFFICES ASSUME Init PROVE IInv
    OBVIOUS
  <1>1. TypeOK
    BY BreakerAssumption, BoundAssumption
    DEF Init, TypeOK, Keys, Breakers, ClosedBreaker, Idle, NoAudit
  <1>2. PathInv /\ CacheInv /\ AnswersAreOwn /\ EvidenceIsTraced /\ AnswersAreTraced
    BY DEF Init, PathInv, CacheInv, AnswersAreOwn, EvidenceIsTraced, AnswersAreTraced
  <1>3. BreakerInv
    BY BreakerAssumption DEF Init, BreakerInv, Keys, Open, ClosedBreaker
  <1> QED BY <1>1, <1>2, <1>3 DEF IInv

\* A request that is somewhere is a request, with a breaker key of its own.
LEMMA InHand ==
  ASSUME IInv, req.at # "idle"
  PROVE  /\ req # Idle /\ req \in Requests /\ Fits(req)
         /\ req.id = served /\ req.ready \subseteq LayersOf[req.release]
         /\ BreakerKey \in Keys
         /\ breaker[BreakerKey] \in Breakers
  <1>1. req # Idle
    BY DEF Idle
  <1>2. /\ req \in Requests /\ Fits(req) /\ req.id = served
         /\ req.ready \subseteq LayersOf[req.release]
    BY <1>1 DEF IInv, TypeOK, PathInv
  <1>3. BreakerKey \in Keys
    BY <1>2 DEF BreakerKey, Keys, Requests
  <1> QED BY <1>1, <1>2, <1>3 DEF IInv, TypeOK

\* A step that moves the request and its breaker keeps the invariant, if it
\* leaves both where they fit.
LEMMA RequestMoves ==
  ASSUME IInv, req' = Idle \/ Fits(req'),
         breaker' \in [Keys -> Breakers], skips' \in [Keys -> Nat], BreakerInv',
         UNCHANGED <<cache, served, feedback, auditor, answers>>
  PROVE  IInv'
  <1>1. TypeOK'
    BY DEF IInv, TypeOK, Fits, feedback, auditor
  <1>2. PathInv'
    BY DEF IInv, PathInv, Fits, feedback
  <1>3. CacheInv'
    BY DEF IInv, CacheInv
  <1>4. AnswersAreOwn' /\ EvidenceIsTraced' /\ AnswersAreTraced'
    BY DEF IInv, AnswersAreOwn, EvidenceIsTraced, AnswersAreTraced, TracesOf, feedback
  <1> QED BY <1>1, <1>2, <1>3, <1>4 DEF IInv

\* Moving on to the next layer, before the answer, leaves a request that fits.
LEMMA PastFits ==
  ASSUME NEW rq, Fits(rq), rq.at \in {"prepare", "cascade"}, NEW place \in {"cascade", "l4"}
  PROVE  Fits(Past(rq, place))
  <1>1. rq \in Requests /\ rq.layer \in 1 .. 3
    BY DEF Fits, Requests, Layers
  <1>2. CASE rq.layer = 3
    <2>1. Past(rq, place) = [rq EXCEPT !.layer = 1, !.at = place]
      BY <1>2 DEF Past
    <2>2. place \in Places /\ 1 \in Layers
      BY DEF Places, Layers
    <2>3. [rq EXCEPT !.layer = 1, !.at = place] \in Requests
      BY <1>1, <2>2 DEF Requests
    <2> QED BY <1>1, <2>1, <2>3 DEF Requests, Fits, Answered
  <1>3. CASE rq.layer # 3
    <2>1. Past(rq, place) = [rq EXCEPT !.layer = rq.layer + 1]
      BY <1>3 DEF Past
    <2>2. rq.layer + 1 \in Layers
      BY <1>1, <1>3 DEF Layers
    <2>3. [rq EXCEPT !.layer = rq.layer + 1] \in Requests
      BY <1>1, <2>2 DEF Requests
    <2> QED BY <1>1, <2>1, <2>3 DEF Requests, Fits, Answered
  <1> QED BY <1>2, <1>3

-----------------------------------------------------------------------------
\* A new request: nothing is said of it yet.
LEMMA ArriveKeeps ==
  ASSUME IInv, NEW r \in Releases, NEW x \in Inputs, NEW v \in Versions, Arrive(r, x, v)
  PROVE  IInv'
  <1>1. served \in Nat /\ served' = served + 1 /\ served' \in Ids /\ served' \in 0 .. MaxRequests
    BY BoundAssumption DEF IInv, TypeOK, Arrive, Ids
  <1>2. req' \in Requests /\ Fits(req)'
    <2>1. /\ "check" \in Places /\ 1 \in Layers /\ Nobody \in Sources
          /\ None \in Statuses \cup {None}
      BY DEF Places, Layers, Sources
    <2>2. /\ {} \in SUBSET Layers /\ {} \in SUBSET Outputs /\ {} \in SUBSET AuditTypes
      OBVIOUS
    <2>3. req' \in Requests
      BY <1>1, <2>1, <2>2 DEF Arrive, Requests
    <2> QED BY <1>1, <2>3 DEF Arrive, Fits, Answered, None
  <1>3. TypeOK'
    BY <1>1, <1>2 DEF IInv, TypeOK, Arrive, Fits, feedback, auditor
  <1>4. /\ PathInv' /\ CacheInv' /\ BreakerInv'
         /\ AnswersAreOwn' /\ EvidenceIsTraced' /\ AnswersAreTraced'
    BY <1>2 DEF IInv, Arrive, PathInv, CacheInv, BreakerInv, AnswersAreOwn, EvidenceIsTraced,
                AnswersAreTraced, TracesOf, feedback, Open, Idle
  <1> QED BY <1>3, <1>4 DEF IInv

\* From the arrival to the answer only the request moves, breakers aside.
LEMMA QuietSteps ==
  ASSUME IInv,
         \/ Raise \/ CheckCache \/ PassLayer \/ PrepareLayer \/ LayerMissing
         \/ DeadlinePassed \/ CallL4 \/ L4Answers \/ L4TimesOut
         \/ TraceFails \/ NoEvidence \/ EvidenceFails \/ QueueFails \/ FailureEscapes
  PROVE  IInv'
  <1>0. req.at # "idle"
    BY DEF Raise, CheckCache, PassLayer, PrepareLayer, LayerMissing, DeadlinePassed, CallL4,
           L4Answers, L4TimesOut, TraceFails, NoEvidence, EvidenceFails, QueueFails,
           FailureEscapes, At
  <1>1. req \in Requests /\ Fits(req) /\ req # Idle
    BY <1>0, InHand
  <1>2. UNCHANGED <<breaker, cache, served, feedback, auditor, answers, skips>>
    BY DEF Raise, CheckCache, PassLayer, PrepareLayer, LayerMissing, DeadlinePassed, CallL4,
           L4Answers, L4TimesOut, TraceFails, NoEvidence, EvidenceFails, QueueFails,
           FailureEscapes
  <1>3. Produced \in Outputs
    BY <1>1 DEF Produced, Outputs, Requests
  <1>4. ASSUME Raise \/ CallL4 \/ TraceFails \/ EvidenceFails \/ QueueFails
        PROVE  Fits(req')
    BY <1>1, <1>4 DEF Raise, CallL4, TraceFails, EvidenceFails, QueueFails, GoTo, At, Fits,
                      Requests, Places, Answered
  <1>5. ASSUME CheckCache PROVE Fits(req')
    <2>1. CASE Hits = {}
      BY <1>1, <1>5, <2>1 DEF CheckCache, GoTo, At, Fits, Requests, Places, Answered
    <2>2. CASE Hits # {}
      <3>1. PICK e \in Hits : Answer("ok", Cache, {e.out}, "audit")
        BY <1>5, <2>2 DEF CheckCache
      <3>2. e \in cache /\ e.key = <<req.release, req.input, req.version>> /\ e.out \in Outputs
        BY <3>1 DEF Hits, RequestKey, Key, IInv, TypeOK
      <3>3. e.out = Produced
        BY <3>2 DEF IInv, CacheInv, Produced, Outputs
      <3>4. req' = [req EXCEPT !.status = "ok", !.by = Cache, !.out = {Produced}, !.at = "audit"]
        BY <3>1, <3>3 DEF Answer
      <3> QED BY <1>1, <1>3, <3>4 DEF Fits, Requests, Places, Answered, Statuses, Sources, Produced
    <2> QED BY <2>1, <2>2
  <1>6. ASSUME PassLayer PROVE Fits(req')
    BY <1>1, <1>6, PastFits DEF PassLayer, At
  <1>7. ASSUME PrepareLayer PROVE Fits(req')
    <2>1. req.layer \in LayersOf[req.release] /\ LayersOf[req.release] \subseteq Layers
      BY <1>1, <1>7, LayersAssumption DEF PrepareLayer, HasLayer, Requests
    <2> DEFINE rq == [req EXCEPT !.ready = @ \cup {req.layer}]
    <2>2. rq \in Requests /\ rq.at = "prepare"
      BY <1>1, <1>7, <2>1 DEF PrepareLayer, At, Requests
    <2>3. Fits(rq)
      BY <1>1, <2>1, <2>2 DEF Fits, Requests, Answered
    <2> HIDE DEF rq
    <2>4. Fits(Past(rq, "cascade"))
      BY <2>2, <2>3, PastFits
    <2> QED BY <1>7, <2>4 DEF PrepareLayer, rq
  <1>8. ASSUME LayerMissing PROVE Fits(req')
    BY <1>1, <1>8, PastFits DEF LayerMissing, At
  <1>9. ASSUME NEW status \in Statuses, NEW by \in Sources, NEW out \in SUBSET Outputs,
               NEW place \in {"keep", "audit"}, Answer(status, by, out, place),
               status = "ok" => out = {Produced}, place = "keep" => status = "ok"
        PROVE  Fits(req')
    <2>1. req' = [req EXCEPT !.status = status, !.by = by, !.out = out, !.at = place]
      BY <1>9 DEF Answer
    <2>2. place \in Places
      BY DEF Places
    <2>3. req' \in Requests
      BY <1>1, <2>1, <2>2 DEF Requests
    <2> QED BY <1>1, <1>9, <2>1, <2>3 DEF Fits, Requests, Answered, Produced
  <1>10. ASSUME DeadlinePassed \/ L4TimesOut \/ L4Answers PROVE Fits(req')
    <2>1. /\ {"ok", "deadline_exceeded", "l4_fallback_failure"} \subseteq Statuses
          /\ Nobody \in Sources /\ L4 \in Sources
          /\ {} \in SUBSET Outputs /\ {Produced} \in SUBSET Outputs
      BY <1>3 DEF Statuses, Sources
    <2>2. CASE GoTo("failed")
      BY <1>1, <2>2 DEF GoTo, Fits, Requests, Places, Answered
    <2>3. CASE Answer("ok", L4, {Produced}, "keep")
      BY <1>9, <2>1, <2>3
    <2>4. CASE Answer("l4_fallback_failure", L4, {}, "audit")
      BY <1>9, <2>1, <2>4
    <2>5. CASE \E by \in {L4, Nobody} : Answer("deadline_exceeded", by, {}, "audit")
      BY <1>9, <2>1, <2>5
    <2> QED BY <1>10, <2>2, <2>3, <2>4, <2>5 DEF DeadlinePassed, L4TimesOut, L4Answers
  <1>11. ASSUME NoEvidence PROVE Fits(req')
    BY <1>1, <1>11 DEF NoEvidence, GoTo, At, Fits, Requests, Places, Answered
  <1>12. ASSUME FailureEscapes PROVE req' = Idle
    BY <1>12 DEF FailureEscapes
  <1>13. req' = Idle \/ Fits(req')
    BY <1>4, <1>5, <1>6, <1>7, <1>8, <1>9, <1>10, <1>11, <1>12
  <1>14. breaker' \in [Keys -> Breakers] /\ skips' \in [Keys -> Nat] /\ BreakerInv'
    BY <1>2 DEF IInv, TypeOK, BreakerInv, Open
  <1> QED BY <1>2, <1>13, <1>14, RequestMoves

-----------------------------------------------------------------------------
\* A failure opens the breaker for the cooldown, or counts one failure more.
LEMMA FailedBreaker ==
  ASSUME NEW b \in Breakers
  PROVE  /\ Failed(b) \in Breakers
         /\ Open(Failed(b)) => Failed(b).remaining = CooldownRequests
  <1>1. b.failures + 1 \in Nat /\ CooldownRequests \in 0 .. CooldownRequests
        /\ 0 \in 0 .. CooldownRequests
    BY BreakerAssumption DEF Breakers
  <1>2. CASE b.failures + 1 >= FailureThreshold
    <2>1. Failed(b) = [state |-> "open", failures |-> b.failures + 1,
                        remaining |-> CooldownRequests]
      BY <1>2 DEF Failed
    <2> QED BY <1>1, <2>1 DEF Breakers
  <1>3. CASE ~(b.failures + 1 >= FailureThreshold)
    <2>1. Failed(b) = [state |-> "closed", failures |-> b.failures + 1, remaining |-> 0]
      BY <1>3 DEF Failed
    <2> QED BY <1>1, <2>1 DEF Breakers, Open
  <1> QED BY <1>2, <1>3

\* A step that fails a layer: nothing has been skipped by its breaker yet.
LEMMA FailLayerKeeps ==
  ASSUME IInv, req.at # "idle", NEW rq, Fits(rq), FailLayer(rq)
  PROVE  /\ breaker' \in [Keys -> Breakers] /\ skips' \in [Keys -> Nat] /\ BreakerInv'
         /\ Fits(req')
  <1>1. BreakerKey \in Keys /\ breaker[BreakerKey] \in Breakers /\ req.layer \in Layers
    BY InHand DEF Requests
  <1>2. /\ breaker' = [breaker EXCEPT ![BreakerKey] = Failed(breaker[BreakerKey])]
        /\ skips' = [skips EXCEPT ![BreakerKey] = 0]
    BY DEF FailLayer
  <1>3. breaker \in [Keys -> Breakers] /\ skips \in [Keys -> Nat]
    BY DEF IInv, TypeOK
  <1>4. /\ Failed(breaker[BreakerKey]) \in Breakers
        /\ Open(Failed(breaker[BreakerKey])) =>
              Failed(breaker[BreakerKey]).remaining = CooldownRequests
    BY <1>1, FailedBreaker
  <1>5. breaker' \in [Keys -> Breakers] /\ skips' \in [Keys -> Nat]
    BY <1>1, <1>2, <1>3, <1>4
  <1>6. BreakerInv'
    <2> SUFFICES ASSUME NEW k \in Keys
                 PROVE  /\ skips'[k] <= CooldownRequests
                        /\ Open(breaker'[k]) =>
                              /\ breaker'[k].remaining > 0
                              /\ skips'[k] + breaker'[k].remaining <= CooldownRequests
      BY DEF BreakerInv, Open
    <2>1. CASE k = BreakerKey
      BY <1>1, <1>2, <1>3, <1>4, <2>1, BreakerAssumption
    <2>2. CASE k # BreakerKey
      BY <1>2, <1>3, <2>2 DEF IInv, BreakerInv
    <2> QED BY <2>1, <2>2
  <1>7. Fits(req')
    <2>1. req' = rq \/ req' = [rq EXCEPT !.opened = @ \cup {req.layer}]
      BY DEF FailLayer
    <2>2. [rq EXCEPT !.opened = @ \cup {req.layer}] \in Requests
      BY <1>1 DEF Fits, Requests
    <2>3. Fits([rq EXCEPT !.opened = @ \cup {req.layer}])
      BY <2>2 DEF Fits, Requests
    <2> QED BY <2>1, <2>3
  <1> QED BY <1>5, <1>6, <1>7

\* The steps that count a failure, a success or a skip.
LEMMA BreakerSteps ==
  ASSUME IInv, LayerUnhealthy \/ LayerFails \/ SkipLayer \/ LayerAccepts \/ LayerAbstains
  PROVE  IInv'
  <1>1. req.at \in {"prepare", "cascade"}
    BY DEF LayerUnhealthy, LayerFails, SkipLayer, LayerAccepts, LayerAbstains, Attempting, At
  <1>2. /\ Fits(req) /\ req \in Requests
        /\ BreakerKey \in Keys /\ breaker[BreakerKey] \in Breakers
    BY <1>1, InHand
  <1>3. UNCHANGED <<cache, served, feedback, auditor, answers>>
    BY DEF LayerUnhealthy, LayerFails, SkipLayer, LayerAccepts, LayerAbstains, Attempting
  <1>4. breaker \in [Keys -> Breakers] /\ skips \in [Keys -> Nat]
    BY DEF IInv, TypeOK
  <1>5. Fits(Past(req, "cascade")) /\ Fits(Past(req, "l4"))
    BY <1>1, <1>2, PastFits
  <1>6. CASE LayerUnhealthy \/ LayerFails
    <2>1. \E place \in {"cascade", "l4"} : FailLayer(Past(req, place))
      BY <1>6 DEF LayerUnhealthy, LayerFails
    <2>2. /\ breaker' \in [Keys -> Breakers] /\ skips' \in [Keys -> Nat] /\ BreakerInv'
          /\ Fits(req')
      BY <1>1, <1>5, <2>1, FailLayerKeeps
    <2> QED BY <1>3, <2>2, RequestMoves
  <1>7. CASE SkipLayer
    <2> DEFINE b == breaker[BreakerKey]
    <2>1. /\ b.state = "open" /\ b.remaining \in 1 .. CooldownRequests
          /\ skips[BreakerKey] \in Nat /\ skips[BreakerKey] + b.remaining <= CooldownRequests
          /\ b.failures \in Nat /\ CooldownRequests \in Nat
      BY <1>2, <1>4, <1>7, BreakerAssumption DEF SkipLayer, IInv, BreakerInv, Open, Breakers
    <2>2. /\ breaker' = [breaker EXCEPT ![BreakerKey] = Skipped(b)]
          /\ skips' = [skips EXCEPT ![BreakerKey] = skips[BreakerKey] + 1]
          /\ req' = Past(req, "l4")
      BY <1>7 DEF SkipLayer
    <2>3. /\ Skipped(b) \in Breakers
          /\ Open(Skipped(b)) => b.remaining > 1 /\ Skipped(b).remaining = b.remaining - 1
      <3>1. CASE b.remaining <= 1
        BY <3>1, <2>1 DEF Skipped, ClosedBreaker, Breakers, Open
      <3>2. CASE b.remaining > 1
        <4>1. Skipped(b) = [b EXCEPT !.remaining = b.remaining - 1]
          BY <2>1, <3>2 DEF Skipped
        <4>2. b.remaining - 1 \in 0 .. CooldownRequests
          BY <2>1
        <4> QED BY <1>2, <3>2, <4>1, <4>2 DEF Breakers
      <3> QED BY <2>1, <3>1, <3>2
    <2>4. breaker' \in [Keys -> Breakers] /\ skips' \in [Keys -> Nat]
      BY <1>2, <1>4, <2>1, <2>2, <2>3
    <2>5. BreakerInv'
      <3> SUFFICES ASSUME NEW k \in Keys
                   PROVE  /\ skips'[k] <= CooldownRequests
                          /\ Open(breaker'[k]) =>
                                /\ breaker'[k].remaining > 0
                                /\ skips'[k] + breaker'[k].remaining <= CooldownRequests
        BY DEF BreakerInv, Open
      <3>1. CASE k = BreakerKey
        <4>1. breaker'[k] = Skipped(b) /\ skips'[k] = skips[BreakerKey] + 1
          BY <1>4, <2>2, <3>1
        <4> HIDE DEF b
        <4> QED BY <2>1, <2>3, <4>1
      <3>2. CASE k # BreakerKey
        BY <1>4, <2>2, <3>2 DEF IInv, BreakerInv
      <3> QED BY <3>1, <3>2
    <2> QED BY <1>3, <1>5, <2>2, <2>4, <2>5, RequestMoves
  <1>8. CASE LayerAccepts \/ LayerAbstains
    <2>1. breaker' = [breaker EXCEPT ![BreakerKey] = ClosedBreaker] /\ skips' = skips
      BY <1>8 DEF LayerAccepts, LayerAbstains, Succeeds
    <2>2. ClosedBreaker \in Breakers /\ ~Open(ClosedBreaker)
      BY BreakerAssumption DEF ClosedBreaker, Breakers, Open
    <2>3. breaker' \in [Keys -> Breakers] /\ skips' \in [Keys -> Nat]
      BY <1>4, <2>1, <2>2
    <2>4. BreakerInv'
      BY <1>4, <2>1, <2>2 DEF IInv, BreakerInv, Open
    <2>5. Fits(req')
      <3>1. CASE LayerAbstains
        BY <1>5, <3>1 DEF LayerAbstains
      <3>2. CASE LayerAccepts
        <4>1. req' = [req EXCEPT !.status = "ok", !.by = req.layer, !.out = {Produced},
                            !.at = "keep"]
          BY <3>2 DEF LayerAccepts, Answer
        <4>2. /\ "ok" \in Statuses /\ req.layer \in Sources /\ "keep" \in Places
              /\ {Produced} \in SUBSET Outputs
          BY <1>2 DEF Statuses, Sources, Places, Produced, Outputs, Requests
        <4>3. req' \in Requests
          BY <1>2, <4>1, <4>2 DEF Requests
        <4> QED BY <1>2, <4>1, <4>2, <4>3 DEF Fits, Requests, Produced
      <3> QED BY <1>8, <3>1, <3>2
    <2> QED BY <1>3, <2>3, <2>4, <2>5, RequestMoves
  <1> QED BY <1>6, <1>7, <1>8

-----------------------------------------------------------------------------
\* The output goes into the cache under the key of the request it is of.
LEMMA KeepOutputKeeps == ASSUME IInv, KeepOutput PROVE IInv'
  <1>1. Fits(req) /\ req \in Requests /\ req # Idle /\ req.at = "keep"
    BY InHand DEF KeepOutput, At
  <1>2. req.out = {Produced} /\ Produced \in Outputs
    BY <1>1 DEF Fits, Produced, Outputs, Requests
  <1>3. req' = [req EXCEPT !.at = "audit"]
    BY DEF KeepOutput, GoTo
  <1>4. req' \in Requests /\ Fits(req')
    BY <1>1, <1>3 DEF Fits, Requests, Places, Answered
  <1>5. \A e \in cache' :
           e \in cache \/ (e.out = Produced /\ e.key = <<req.release, req.input, req.version>>)
    BY <1>2 DEF KeepOutput, RequestKey, Key
  <1>6. TypeOK'
    BY <1>2, <1>4, <1>5 DEF KeepOutput, IInv, TypeOK, Fits, feedback, auditor
  <1>7. CacheInv'
    BY <1>5 DEF IInv, CacheInv, Produced
  <1>8. PathInv' /\ BreakerInv' /\ AnswersAreOwn' /\ EvidenceIsTraced' /\ AnswersAreTraced'
    BY <1>4 DEF KeepOutput, IInv, PathInv, Fits, BreakerInv, Open, AnswersAreOwn,
                EvidenceIsTraced, AnswersAreTraced, TracesOf, feedback
  <1> QED BY <1>6, <1>7, <1>8 DEF IInv

\* The writes after the answer: each adds to what was written before, and moves
\* the request to where it fits.
LEMMA FeedbackGrows ==
  ASSUME IInv, Fits(req)',
         UNCHANGED <<breaker, cache, served, auditor, answers, skips>>,
         traces \subseteq traces', traces' \subseteq Traces,
         stored' \subseteq Ids,
         queue' \subseteq [id : Ids, release : Releases, audits : SUBSET AuditTypes],
         evidence' \subseteq Ids,
         \A id \in evidence' \ evidence : \E t \in TracesOf(id) : t.status = "ok" /\ t.by = L4
  PROVE  IInv'
  <1>1. TypeOK'
    BY DEF IInv, TypeOK, Fits, auditor
  <1>2. PathInv' /\ CacheInv' /\ BreakerInv' /\ AnswersAreOwn'
    BY DEF IInv, PathInv, CacheInv, BreakerInv, Open, AnswersAreOwn
  <1>3. EvidenceIsTraced' /\ AnswersAreTraced'
    BY DEF IInv, EvidenceIsTraced, AnswersAreTraced, TracesOf
  <1> QED BY <1>1, <1>2, <1>3 DEF IInv

\* The decision on the audits, the trace, the evidence, the queue and the except
\* clause are such writes.
LEMMA WriteSteps ==
  ASSUME IInv,
         \/ \E types \in SUBSET AuditTypes : DecideAudits(types)
         \/ WriteTrace \/ AppendEvidence \/ Enqueue \/ FailureTraced
  PROVE  IInv'
  <1>1. Fits(req) /\ req \in Requests /\ req # Idle
    BY InHand DEF DecideAudits, WriteTrace, AppendEvidence, Enqueue, FailureTraced, At
  <1>2. UNCHANGED <<breaker, cache, served, auditor, answers, skips>>
    BY DEF DecideAudits, WriteTrace, AppendEvidence, Enqueue, FailureTraced
  <1>3. /\ traces \subseteq Traces /\ stored \subseteq Ids /\ evidence \subseteq Ids
        /\ queue \subseteq [id : Ids, release : Releases, audits : SUBSET AuditTypes]
    BY DEF IInv, TypeOK
  <1>4. /\ {"trace", "evidence", "enqueue", "respond"} \subseteq Places
        /\ "runtime_error" \in Statuses /\ Nobody \in Sources
    BY DEF Places, Statuses, Sources
  <1>5. ASSUME NEW types \in SUBSET AuditTypes, DecideAudits(types) PROVE IInv'
    <2>1. req' = [req EXCEPT !.at = "trace", !.audits = types] /\ req.at = "audit"
      BY <1>5 DEF DecideAudits, At
    <2>2. req' \in Requests
      BY <1>1, <1>4, <2>1 DEF Requests
    <2>3. UNCHANGED <<traces, evidence, queue, served>> /\ stored' \subseteq Ids
      BY <1>1, <1>3, <1>5 DEF DecideAudits, Requests
    <2>4. Fits(req)'
      BY <1>1, <2>1, <2>2, <2>3 DEF Fits, Requests, Answered
    <2> QED BY <1>2, <1>3, <2>3, <2>4, FeedbackGrows
  <1>6. ASSUME WriteTrace PROVE IInv'
    <2> DEFINE t == Trace(req.status, req.by, req.audits)
    <2>1. req' = [req EXCEPT !.at = "evidence"] /\ req.at = "trace" /\ traces' = traces \cup {t}
      BY <1>6 DEF WriteTrace, GoTo, At
    <2>2. req' \in Requests /\ req.status \in Statuses
      BY <1>1, <1>4, <2>1 DEF Requests, Fits, Answered
    <2>3. t \in Traces
      BY <1>1, <2>2 DEF Trace, Traces, Requests
    <2>4. UNCHANGED <<stored, evidence, queue, served>>
      BY <1>6 DEF WriteTrace
    <2>5. Fits(req)'
      BY <1>1, <2>1, <2>2, <2>4 DEF Fits, Requests, Answered, Trace
    <2> QED BY <1>2, <1>3, <2>1, <2>3, <2>4, <2>5, FeedbackGrows
  <1>7. ASSUME AppendEvidence PROVE IInv'
    <2>1. /\ req' = [req EXCEPT !.at = "enqueue"] /\ req.at = "evidence"
          /\ evidence' = evidence \cup {req.id} /\ req.by = L4 /\ req.status = "ok"
          /\ UNCHANGED <<traces, stored, queue, served>>
      BY <1>7 DEF AppendEvidence, GoTo, At
    <2>2. req' \in Requests /\ req.id \in Ids
      BY <1>1, <1>4, <2>1 DEF Requests
    <2>3. Fits(req)'
      BY <1>1, <2>1, <2>2 DEF Fits, Requests, Answered
    <2>4. \E t \in TracesOf(req.id) : t.status = "ok" /\ t.by = L4
      BY <1>1, <2>1 DEF Fits, TracesOf
    <2> QED BY <1>2, <1>3, <2>1, <2>2, <2>3, <2>4, FeedbackGrows
  <1>8. ASSUME Enqueue PROVE IInv'
    <2>1. /\ req' = [req EXCEPT !.at = "respond"] /\ req.at = "enqueue"
          /\ UNCHANGED <<traces, stored, evidence, served>>
          /\ queue' \subseteq queue \cup {[id |-> req.id, release |-> req.release,
                                            audits |-> req.audits]}
      BY <1>8 DEF Enqueue, GoTo, At
    <2>2. /\ req' \in Requests
          /\ queue' \subseteq [id : Ids, release : Releases, audits : SUBSET AuditTypes]
      BY <1>1, <1>3, <1>4, <2>1 DEF Requests
    <2>3. Fits(req)'
      BY <1>1, <2>1, <2>2 DEF Fits, Requests, Answered
    <2> QED BY <1>2, <1>3, <2>1, <2>2, <2>3, FeedbackGrows
  <1>9. ASSUME FailureTraced PROVE IInv'
    <2> DEFINE t == Trace("runtime_error", Nobody, {})
    <2>1. /\ req' = [req EXCEPT !.status = "runtime_error", !.by = Nobody, !.out = {},
                                !.at = "respond"]
          /\ traces' = traces \cup {t} /\ UNCHANGED <<stored, evidence, queue, served>>
      BY <1>9 DEF FailureTraced
    <2>2. req' \in Requests /\ t \in Traces
      BY <1>1, <1>4, <2>1 DEF Requests, Trace, Traces
    <2>3. Fits(req)'
      BY <1>1, <1>4, <2>1, <2>2 DEF Fits, Requests, Answered, Trace
    <2> QED BY <1>2, <1>3, <2>1, <2>2, <2>3, FeedbackGrows
  <1> QED BY <1>5, <1>6, <1>7, <1>8, <1>9

-----------------------------------------------------------------------------
\* The response is what the request has, and that is traced.
LEMMA RespondKeeps == ASSUME IInv, Respond PROVE IInv'
  <1>1. Fits(req) /\ req.at = "respond" /\ req' = Idle
    BY InHand DEF Respond, At
  <1>2. TypeOK' /\ PathInv' /\ CacheInv' /\ BreakerInv' /\ EvidenceIsTraced'
    BY <1>1 DEF Respond, IInv, TypeOK, PathInv, CacheInv, BreakerInv, Open, EvidenceIsTraced,
                TracesOf, feedback, auditor
  <1> DEFINE a == [id |-> req.id, release |-> req.release, asked |-> Produced,
                   status |-> req.status, out |-> req.out]
  <1>3. answers' = answers \cup {a} /\ traces' = traces
    BY DEF Respond, feedback
  <1>4. a.status = "ok" => a.out = {a.asked}
    BY <1>1 DEF Fits, Produced
  <1>5. \E t \in TracesOf(a.id) : t.status = a.status /\ t.release = a.release
    BY <1>1 DEF Fits, TracesOf
  <1>6. AnswersAreOwn'
    BY <1>3, <1>4 DEF IInv, AnswersAreOwn
  <1>7. AnswersAreTraced'
    BY <1>3, <1>5 DEF IInv, AnswersAreTraced, TracesOf
  <1> QED BY <1>2, <1>6, <1>7 DEF IInv

\* The audit worker and the clock touch nothing that the request has written
\* for its answer.
LEMMA AuditSteps ==
  ASSUME IInv,
         TakeAudit \/ (\E type \in AuditTypes : RunAudit(type)) \/ PayloadExpires
  PROVE  IInv'
  <1>1. UNCHANGED <<breaker, cache, req, served, traces, evidence, answers, skips>>
    BY DEF TakeAudit, RunAudit, PayloadExpires, feedback
  <1>2. /\ PathInv' /\ CacheInv' /\ BreakerInv'
         /\ AnswersAreOwn' /\ EvidenceIsTraced' /\ AnswersAreTraced'
    BY <1>1 DEF IInv, PathInv, Fits, CacheInv, BreakerInv, Open, AnswersAreOwn,
                EvidenceIsTraced, AnswersAreTraced, TracesOf
  <1>3. ASSUME TakeAudit PROVE TypeOK'
    <2>1. PICK item \in queue : audit' = [id |-> item.id, left |-> item.audits]
      BY <1>3 DEF TakeAudit
    <2>2. /\ item.id \in Ids
          /\ audit' \in [id : Ids \cup {0}, left : SUBSET AuditTypes] /\ audit'.id \in Ids
      BY <2>1 DEF IInv, TypeOK
    <2>3. queue' \subseteq queue /\ UNCHANGED <<stored, expired, records>>
      BY <1>3 DEF TakeAudit
    <2> QED BY <1>1, <2>2, <2>3 DEF IInv, TypeOK
  <1>4. ASSUME NEW type \in AuditTypes, RunAudit(type) PROVE TypeOK'
    <2>1. audit.id \in Ids /\ audit \in [id : Ids \cup {0}, left : SUBSET AuditTypes]
      BY <1>4 DEF RunAudit, IInv, TypeOK
    <2>2. /\ audit' = [audit EXCEPT !.left = @ \ {type}]
          /\ records' \subseteq records \cup {[id |-> audit.id, type |-> type]}
          /\ stored' \subseteq stored /\ UNCHANGED <<expired, queue>>
      BY <1>4 DEF RunAudit
    <2>3. audit' \in [id : Ids \cup {0}, left : SUBSET AuditTypes] /\ audit'.id \in Ids
      BY <2>1, <2>2
    <2>4. records' \subseteq [id : Ids, type : AuditTypes]
      BY <2>1, <2>2 DEF IInv, TypeOK
    <2> QED BY <1>1, <2>2, <2>3, <2>4 DEF IInv, TypeOK
  <1>5. ASSUME PayloadExpires PROVE TypeOK'
    <2>1. PICK id \in (stored \cup {audit.id}) \ (expired \cup {0}) : expired' = expired \cup {id}
      BY <1>5 DEF PayloadExpires
    <2>2. audit.id \in Ids \cup {0} /\ stored \subseteq Ids /\ expired \subseteq Ids
      BY DEF IInv, TypeOK
    <2>3. expired' \subseteq Ids
      BY <2>1, <2>2
    <2>4. UNCHANGED <<stored, queue, audit, records>>
      BY <1>5 DEF PayloadExpires, feedback
    <2> QED BY <1>1, <2>3, <2>4 DEF IInv, TypeOK
  <1> QED BY <1>2, <1>3, <1>4, <1>5 DEF IInv

-----------------------------------------------------------------------------
\* Every step keeps the invariant.
LEMMA NextInvariant == IInv /\ [Next]_vars => IInv'
  <1> SUFFICES ASSUME IInv, [Next]_vars PROVE IInv'
    OBVIOUS
  <1>1. ASSUME NEW r \in Releases, NEW x \in Inputs, NEW v \in Versions, Arrive(r, x, v)
        PROVE  IInv'
    BY <1>1, ArriveKeeps
  <1>2. CASE ServerStep \/ L4Answers
    BY <1>2, QuietSteps, BreakerSteps, KeepOutputKeeps, WriteSteps, RespondKeeps DEF ServerStep
  <1>3. CASE TakeAudit \/ (\E type \in AuditTypes : RunAudit(type)) \/ PayloadExpires
    BY <1>3, AuditSteps
  <1>4. CASE UNCHANGED vars
    BY <1>4 DEF vars, feedback, auditor, IInv, TypeOK, PathInv, Fits, CacheInv, BreakerInv, Open,
                AnswersAreOwn, EvidenceIsTraced, AnswersAreTraced, TracesOf
  <1> QED BY <1>1, <1>2, <1>3, <1>4 DEF Next

\* The invariant holds in every state of serve_request.
LEMMA Invariance == Spec => []IInv
  BY InitInvariant, NextInvariant, PTL DEF Spec

\* serve_request keeps the types of its registry, request and stores.
THEOREM TypeCorrect == Spec => []TypeOK
  <1>1. IInv => TypeOK
    BY DEF IInv
  <1> QED BY <1>1, Invariance, PTL

\* An output is handed out only by the release it came from, for its input and
\* under its reference version, whatever the cache holds.
THEOREM AnswersStayOwn == Spec => []AnswersAreOwn
  <1>1. IInv => AnswersAreOwn
    BY DEF IInv
  <1> QED BY <1>1, Invariance, PTL

\* Evidence from L4 fallback always has the trace of that fallback.
THEOREM EvidenceStaysTraced == Spec => []EvidenceIsTraced
  <1>1. IInv => EvidenceIsTraced
    BY DEF IInv
  <1> QED BY <1>1, Invariance, PTL

\* What a caller is told is in a trace, also when the request raised.
THEOREM AnswersStayTraced == Spec => []AnswersAreTraced
  <1>1. IInv => AnswersAreTraced
    BY DEF IInv
  <1> QED BY <1>1, Invariance, PTL

\* A breaker never keeps its layer out of more requests than its cooldown.
THEOREM OutageStaysBounded == Spec => []OutageIsBounded
  <1>1. IInv => OutageIsBounded
    BY DEF IInv, BreakerInv, OutageIsBounded
  <1> QED BY <1>1, Invariance, PTL

-----------------------------------------------------------------------------
(* Breakers that rest.  With a cooldown of one request, the request that   *)
(* opens a breaker while it prepares a layer also uses the cooldown up, in *)
(* its own cascade.  From two requests on it cannot: one skip at most is   *)
(* its own.                                                                *)

\* What is left of the cooldowns that the request in hand has begun: all of it
\* until the cascade has come past the layer, and all but one skip after that.
\* It has begun none before it prepares its layers.
Rests(rq) ==
    \A l \in rq.opened :
        LET b == breaker[<<rq.release, l>>] IN
            /\ Open(b) /\ rq.at # "check"
            /\ rq.at = "prepare" => l < rq.layer /\ b.remaining >= CooldownRequests
            /\ rq.at = "cascade" =>
                  b.remaining >= (IF l < rq.layer THEN CooldownRequests - 1 ELSE CooldownRequests)

RestInv == req # Idle => Rests(req)

\* What moving on to the next layer does to a request.
LEMMA PastShape ==
  ASSUME NEW rq \in Requests, NEW place
  PROVE  /\ Past(rq, place).release = rq.release /\ Past(rq, place).opened = rq.opened
         /\ \/ rq.layer = 3 /\ Past(rq, place).layer = 1 /\ Past(rq, place).at = place
            \/ /\ rq.layer < 3 /\ Past(rq, place).layer = rq.layer + 1
               /\ Past(rq, place).at = rq.at
  <1>1. rq.layer \in 1 .. 3
    BY DEF Requests, Layers
  <1>2. CASE rq.layer = 3
    BY <1>2 DEF Past, Requests
  <1>3. CASE rq.layer < 3
    BY <1>1, <1>3 DEF Past, Requests
  <1> QED BY <1>1, <1>2, <1>3

\* A step past a layer leaves the other breakers alone, and keeps what is left
\* if the layer's own breaker, where this request has opened it, has enough.
LEMMA PastRests ==
  ASSUME IInv, RestInv, CooldownRequests >= 2,
         req.at = "prepare" \/ req.at = "cascade",
         req'.release = req.release,
         \/ /\ req.layer = 3 /\ req'.layer = 1
            /\ req'.at = IF req.at = "prepare" THEN "cascade" ELSE "l4"
         \/ req.layer < 3 /\ req'.layer = req.layer + 1 /\ req'.at = req.at,
         req'.opened \subseteq req.opened \cup {req.layer},
         NEW b, breaker' = [breaker EXCEPT ![BreakerKey] = b],
         req.layer \in req'.opened =>
            /\ Open(b)
            /\ b.remaining >=
                 (IF req.at = "prepare" THEN CooldownRequests ELSE CooldownRequests - 1)
  PROVE  RestInv'
  <1>1. /\ req # Idle /\ req \in Requests /\ req.layer \in 1 .. 3 /\ req.opened \subseteq 1 .. 3
        /\ req.release \in Releases /\ CooldownRequests \in Nat
        /\ breaker \in [Keys -> Breakers]
    BY InHand, BreakerAssumption DEF Requests, Layers, IInv, TypeOK
  <1> SUFFICES ASSUME NEW l \in req'.opened
               PROVE  LET c == breaker'[<<req.release, l>>] IN
                        /\ Open(c) /\ req'.at # "check"
                        /\ req'.at = "prepare" => l < req'.layer /\ c.remaining >= CooldownRequests
                        /\ req'.at = "cascade" =>
                              c.remaining >= (IF l < req'.layer THEN CooldownRequests - 1
                                                               ELSE CooldownRequests)
    BY DEF RestInv, Rests, Open
  <1>2. l \in 1 .. 3 /\ <<req.release, l>> \in Keys
    BY <1>1 DEF Keys, Layers
  <1>3. CASE l = req.layer
    <2>1. breaker'[<<req.release, l>>] = b
      BY <1>1, <1>2, <1>3 DEF BreakerKey
    <2> QED BY <1>1, <1>3, <2>1
  <1>4. CASE l # req.layer
    <2>1. breaker'[<<req.release, l>>] = breaker[<<req.release, l>>] /\ l \in req.opened
      BY <1>1, <1>2, <1>4 DEF BreakerKey
    <2> DEFINE c == breaker[<<req.release, l>>]
    <2>2. /\ Open(c)
          /\ req.at = "prepare" => l < req.layer /\ c.remaining >= CooldownRequests
          /\ req.at = "cascade" =>
                c.remaining >= (IF l < req.layer THEN CooldownRequests - 1 ELSE CooldownRequests)
      BY <1>1, <2>1 DEF RestInv, Rests
    <2>3. c.remaining \in Nat
      BY <1>1, <1>2 DEF Breakers
    <2> HIDE DEF c
    <2> QED BY <1>1, <1>2, <1>4, <2>1, <2>2, <2>3 DEF c
  <1> QED BY <1>3, <1>4

\* A breaker this request has opened is closed neither where the layer is
\* prepared nor where it is called: there the breaker is not open.
LEMMA LayersRest ==
  ASSUME IInv, RestInv, CooldownRequests >= 2,
         \/ PassLayer \/ PrepareLayer \/ LayerUnhealthy
         \/ SkipLayer \/ LayerMissing \/ LayerAbstains \/ LayerFails
  PROVE  RestInv'
  <1>1. req.at = "prepare" \/ req.at = "cascade"
    BY DEF PassLayer, PrepareLayer, LayerUnhealthy, SkipLayer, LayerMissing, LayerAbstains,
           LayerFails, Attempting, At
  <1>2. /\ req # Idle /\ req \in Requests /\ BreakerKey \in Keys
        /\ breaker \in [Keys -> Breakers] /\ breaker[BreakerKey] \in Breakers
        /\ CooldownRequests \in Nat /\ req.layer \in Layers
    BY <1>1, InHand, BreakerAssumption DEF IInv, TypeOK, Requests
  <1>3. /\ req.at = "prepare" => req.layer \notin req.opened
        /\ req.layer \in req.opened =>
              Open(breaker[BreakerKey]) /\ breaker[BreakerKey].remaining >= CooldownRequests
    BY <1>1, <1>2 DEF RestInv, Rests, BreakerKey, Layers
  <1> DEFINE place == IF req.at = "prepare" THEN "cascade" ELSE "l4"
  <1>4. /\ Past(req, place).release = req.release /\ Past(req, place).opened = req.opened
        /\ \/ /\ req.layer = 3 /\ Past(req, place).layer = 1 /\ Past(req, place).at = place
           \/ /\ req.layer < 3 /\ Past(req, place).layer = req.layer + 1
              /\ Past(req, place).at = req.at
    BY <1>2, PastShape
  <1>5. ASSUME req' = Past(req, place),
               NEW b, breaker' = [breaker EXCEPT ![BreakerKey] = b],
               req.layer \in req.opened => Open(b) /\ b.remaining >= CooldownRequests - 1
        PROVE  RestInv'
    <2>1. /\ req'.release = req.release /\ req'.opened = req.opened
          /\ \/ req.layer = 3 /\ req'.layer = 1 /\ req'.at = place
             \/ req.layer < 3 /\ req'.layer = req.layer + 1 /\ req'.at = req.at
      BY <1>4, <1>5
    <2>2. req'.opened \subseteq req.opened \cup {req.layer}
      BY <2>1
    <2>3. req.layer \in req'.opened =>
             /\ Open(b)
             /\ b.remaining >= (IF req.at = "prepare" THEN CooldownRequests
                                                      ELSE CooldownRequests - 1)
      BY <1>3, <1>5, <2>1
    <2>4. breaker' = [breaker EXCEPT ![BreakerKey] = b]
      BY <1>5
    <2> QED BY <1>1, <2>1, <2>2, <2>3, <2>4, PastRests
  <1>6. ASSUME PassLayer \/ LayerMissing PROVE RestInv'
    <2>1. req' = Past(req, place) /\ breaker' = [breaker EXCEPT ![BreakerKey] = breaker[BreakerKey]]
      BY <1>2, <1>6 DEF PassLayer, LayerMissing, At
    <2>2. breaker[BreakerKey].remaining \in Nat
      BY <1>2 DEF Breakers
    <2>3. req.layer \in req.opened =>
             /\ Open(breaker[BreakerKey])
             /\ breaker[BreakerKey].remaining >= CooldownRequests - 1
      BY <1>2, <1>3, <2>2
    <2> QED BY <1>5, <2>1, <2>3
  <1>7. ASSUME SkipLayer PROVE RestInv'
    <2> DEFINE b == breaker[BreakerKey]
    <2>1. req' = Past(req, place) /\ breaker' = [breaker EXCEPT ![BreakerKey] = Skipped(b)]
      BY <1>2, <1>7 DEF SkipLayer, At
    <2>2. ASSUME req.layer \in req.opened
          PROVE  Open(Skipped(b)) /\ Skipped(b).remaining >= CooldownRequests - 1
      <3>1. /\ b.state = "open" /\ b.remaining \in Nat
             /\ b.remaining >= 2 /\ b.remaining >= CooldownRequests
        BY <1>2, <1>3, <2>2 DEF Open, Breakers
      <3>2. Skipped(b) = [b EXCEPT !.remaining = b.remaining - 1]
        BY <3>1 DEF Skipped
      <3>3. Skipped(b).state = "open" /\ Skipped(b).remaining = b.remaining - 1
        BY <1>2, <3>1, <3>2 DEF Breakers
      <3> QED BY <1>2, <3>1, <3>3 DEF Open
    <2> HIDE DEF b
    <2> QED BY <1>5, <2>1, <2>2
  <1>8. ASSUME LayerAbstains PROVE RestInv'
    <2>1. /\ req' = Past(req, place) /\ ~Open(breaker[BreakerKey])
          /\ breaker' = [breaker EXCEPT ![BreakerKey] = ClosedBreaker]
      BY <1>8 DEF LayerAbstains, Attempting, Succeeds, At
    <2> QED BY <1>3, <1>5, <2>1
  <1>9. ASSUME PrepareLayer PROVE RestInv'
    <2> DEFINE rq == [req EXCEPT !.ready = @ \cup {req.layer}]
               rn == Past(rq, "cascade")
    <2>1. req' = rn /\ breaker' = [breaker EXCEPT ![BreakerKey] = breaker[BreakerKey]]
          /\ req.at = "prepare"
      BY <1>2, <1>9 DEF PrepareLayer, At
    <2>2. /\ rq \in Requests /\ rq.at = "prepare" /\ rq.release = req.release
          /\ rq.opened = req.opened /\ rq.layer = req.layer
      BY <1>2, <2>1 DEF Requests
    <2> HIDE DEF rq
    <2>3. /\ rn.release = req.release /\ rn.opened = req.opened
          /\ \/ req.layer = 3 /\ rn.layer = 1 /\ rn.at = "cascade"
             \/ req.layer < 3 /\ rn.layer = req.layer + 1 /\ rn.at = req.at
      BY <2>1, <2>2, PastShape
    <2> HIDE DEF rn
    <2> QED BY <1>2, <1>3, <2>1, <2>3, PastRests
  <1>10. ASSUME LayerUnhealthy \/ LayerFails PROVE RestInv'
    <2> DEFINE rq == Past(req, place)
               b == Failed(breaker[BreakerKey])
               rn == IF Open(b) THEN [rq EXCEPT !.opened = @ \cup {req.layer}] ELSE rq
    <2>1. FailLayer(rq) /\ ~Open(breaker[BreakerKey])
      BY <1>10 DEF LayerUnhealthy, LayerFails, Attempting, At
    <2>2. breaker' = [breaker EXCEPT ![BreakerKey] = b] /\ breaker'[BreakerKey] = b
      BY <1>2, <2>1 DEF FailLayer
    <2>3. Open(breaker'[BreakerKey]) = Open(b)
      BY <2>2
    <2>4. req' = rn
      BY <2>1, <2>3 DEF FailLayer
    <2>5. Open(b) => b.remaining = CooldownRequests
      BY <1>2, FailedBreaker
    <2>6. req.layer \notin req.opened
      BY <1>3, <2>1
    <2>7. /\ rn.release = rq.release /\ rn.layer = rq.layer /\ rn.at = rq.at
          /\ rn.opened \subseteq rq.opened \cup {req.layer}
          /\ rn.opened = rq.opened \/ Open(b)
      <3>1. rq = [req EXCEPT !.layer = 1, !.at = place] \/ rq = [req EXCEPT !.layer = @ + 1]
        BY DEF Past
      <3>2. rq.opened = req.opened
        BY <1>4
      <3> HIDE DEF b, place
      <3> QED BY <1>2, <3>1, <3>2 DEF Requests
    <2>8. /\ rq.release = req.release /\ rq.opened = req.opened
          /\ \/ req.layer = 3 /\ rq.layer = 1 /\ rq.at = place
             \/ req.layer < 3 /\ rq.layer = req.layer + 1 /\ rq.at = req.at
      BY <1>4
    <2> HIDE DEF b, rn, rq
    <2>9. /\ req'.release = req.release /\ req'.opened \subseteq req.opened \cup {req.layer}
          /\ \/ req.layer = 3 /\ req'.layer = 1 /\ req'.at = place
             \/ req.layer < 3 /\ req'.layer = req.layer + 1 /\ req'.at = req.at
      BY <2>4, <2>7, <2>8
    <2>10. req.layer \in req'.opened =>
              /\ Open(b)
              /\ b.remaining >= (IF req.at = "prepare" THEN CooldownRequests
                                                       ELSE CooldownRequests - 1)
      BY <1>2, <2>4, <2>5, <2>6, <2>7, <2>8
    <2> QED BY <1>1, <2>2, <2>9, <2>10, PastRests
  <1> QED BY <1>6, <1>7, <1>8, <1>9, <1>10

\* Every step keeps what is left of the cooldowns the request began.
LEMMA RestStep ==
  ASSUME CooldownRequests >= 2
  PROVE  IInv /\ RestInv /\ [Next]_vars => RestInv'
  <1> SUFFICES ASSUME IInv, RestInv, [Next]_vars PROVE RestInv'
    OBVIOUS
  <1>1. CASE \/ PassLayer \/ PrepareLayer \/ LayerUnhealthy
             \/ SkipLayer \/ LayerMissing \/ LayerAbstains \/ LayerFails
    BY <1>1, LayersRest
  <1>2. CASE req' = Idle \/ (req' = req /\ breaker' = breaker)
    BY <1>2 DEF RestInv, Rests, Open
  <1>3. ASSUME NEW r \in Releases, NEW x \in Inputs, NEW v \in Versions, Arrive(r, x, v)
        PROVE  RestInv'
    BY <1>3 DEF Arrive, RestInv, Rests
  <1>4. ASSUME req # Idle, breaker' = breaker, req'.opened = req.opened,
               req'.release = req.release, req'.at \notin {"check", "prepare", "cascade"}
        PROVE  RestInv'
    BY <1>4 DEF RestInv, Rests, Open
  <1>5. CASE LayerAccepts
    <2>1. /\ req # Idle /\ req \in Requests /\ req.at = "cascade" /\ ~Open(breaker[BreakerKey])
          /\ breaker' = [breaker EXCEPT ![BreakerKey] = ClosedBreaker]
          /\ req' = [req EXCEPT !.status = "ok", !.by = req.layer, !.out = {Produced},
                            !.at = "keep"]
          /\ breaker \in [Keys -> Breakers]
      BY <1>5, InHand DEF LayerAccepts, Attempting, Succeeds, Answer, At, IInv, TypeOK
    <2>2. req'.opened = req.opened /\ req'.release = req.release /\ req'.at = "keep"
      BY <2>1 DEF Requests
    <2>3. ASSUME NEW l \in req.opened PROVE Open(breaker'[<<req.release, l>>])
      <3>1. Open(breaker[<<req.release, l>>]) /\ <<req.release, l>> \in Keys
        BY <2>1 DEF RestInv, Rests, Requests, Keys
      <3>2. <<req.release, l>> # BreakerKey
        BY <2>1, <3>1
      <3> QED BY <2>1, <3>1, <3>2
    <2> QED BY <2>2, <2>3 DEF RestInv, Rests, Open
  <1>6. CASE \/ Raise \/ CallL4 \/ KeepOutput \/ WriteTrace \/ TraceFails \/ AppendEvidence
             \/ NoEvidence \/ EvidenceFails \/ Enqueue \/ QueueFails \/ FailureTraced
             \/ \E types \in SUBSET AuditTypes : DecideAudits(types)
    <2>1. req # Idle /\ req \in Requests /\ breaker' = breaker
      BY <1>6, InHand DEF Raise, CallL4, KeepOutput, WriteTrace, TraceFails, AppendEvidence,
             NoEvidence, EvidenceFails, Enqueue, QueueFails, FailureTraced, DecideAudits, At
    <2>2. /\ req'.opened = req.opened /\ req'.release = req.release
          /\ req'.at \notin {"check", "prepare", "cascade"}
      BY <1>6, <2>1 DEF Raise, CallL4, KeepOutput, WriteTrace, TraceFails, AppendEvidence,
             NoEvidence, EvidenceFails, Enqueue, QueueFails, FailureTraced, DecideAudits,
             GoTo, Requests
    <2> QED BY <1>4, <2>1, <2>2
  <1>7. CASE CheckCache \/ DeadlinePassed \/ L4Answers \/ L4TimesOut
    <2>1. req # Idle /\ req \in Requests /\ breaker' = breaker
      BY <1>7, InHand DEF CheckCache, DeadlinePassed, L4Answers, L4TimesOut, At
    <2>2. CASE \E status, by, out : \E place \in {"keep", "audit"} : Answer(status, by, out, place)
      <3>1. /\ req'.opened = req.opened /\ req'.release = req.release
            /\ req'.at \notin {"check", "prepare", "cascade"}
        BY <2>1, <2>2 DEF Answer, Requests
      <3> QED BY <1>4, <2>1, <3>1
    <2>3. CASE GoTo("failed")
      BY <1>4, <2>1, <2>3 DEF GoTo, Requests
    <2>4. CASE CheckCache /\ Hits = {}
      <3>1. req' = [req EXCEPT !.at = "prepare"] /\ req.at = "check"
        BY <2>4 DEF CheckCache, GoTo, At
      <3>2. req'.opened = {}
        BY <2>1, <3>1 DEF RestInv, Rests, Requests
      <3> QED BY <3>2 DEF RestInv, Rests
    <2> QED
      BY <1>7, <2>2, <2>3, <2>4 DEF CheckCache, DeadlinePassed, L4Answers, L4TimesOut
  <1>8. CASE TakeAudit \/ (\E type \in AuditTypes : RunAudit(type)) \/ PayloadExpires
    BY <1>2, <1>8 DEF TakeAudit, RunAudit, PayloadExpires
  <1>9. CASE Respond \/ FailureEscapes \/ UNCHANGED vars
    BY <1>2, <1>9 DEF Respond, FailureEscapes, vars
  <1> QED
    BY <1>1, <1>3, <1>5, <1>6, <1>7, <1>8, <1>9 DEF Next, ServerStep

\* A cooldown of two requests or more makes true what 06_release_runtime.md:528
\* asks of the breakers: those a request opened are open for the next one.
THEOREM OpenedLayersRestLonger ==
  ASSUME CooldownRequests >= 2
  PROVE  Spec => []OpenedLayersRest
  <1>1. Init => RestInv
    BY DEF Init, RestInv
  <1>2. RestInv => OpenedLayersRest
    BY DEF RestInv, Rests, OpenedLayersRest, At, Idle
  <1>3. IInv /\ RestInv /\ [Next]_vars => RestInv'
    BY RestStep
  <1> QED BY <1>1, <1>2, <1>3, Invariance, PTL DEF Spec

-----------------------------------------------------------------------------
(* A request only goes forward.                                            *)

\* The distances, one by one, with the layers still to come.
LEMMA Distances ==
  ASSUME NEW rq, rq.layer \in 1 .. 3
  PROVE  /\ rq.at = "respond"  => StepsLeft(rq) = 1
         /\ rq.at = "failed"   => StepsLeft(rq) = 2
         /\ rq.at = "enqueue"  => StepsLeft(rq) = 3
         /\ rq.at = "evidence" => StepsLeft(rq) = 4
         /\ rq.at = "trace"    => StepsLeft(rq) = 5
         /\ rq.at = "audit"    => StepsLeft(rq) = 6
         /\ rq.at = "keep"     => StepsLeft(rq) = 7
         /\ rq.at = "calling"  => StepsLeft(rq) = 8
         /\ rq.at = "l4"       => StepsLeft(rq) = 9
         /\ rq.at = "cascade"  => StepsLeft(rq) = 13 - rq.layer
         /\ rq.at = "prepare"  => StepsLeft(rq) = 16 - rq.layer
         /\ rq.at = "check"    => StepsLeft(rq) = 16
  BY DEF StepsLeft, Distance

\* The end of a request is nearer than any of its places.
LEMMA Ending ==
  ASSUME NEW rq \in Requests
  PROVE  StepsLeft(rq) > 0 /\ StepsLeft(Idle) = 0
  <1>1. rq.layer \in 1 .. 3 /\ rq.at \in Places
    BY DEF Requests, Layers
  <1>2. StepsLeft(rq) > 0
    BY <1>1, Distances DEF Places
  <1>3. StepsLeft(Idle) = 0
    BY DEF StepsLeft, Distance, Idle
  <1> QED BY <1>2, <1>3

\* A step that only takes the request from one place to a nearer one.
LEMMA Nearer ==
  ASSUME req \in Requests, req'.layer = req.layer,
         \/ /\ req.at = "check" /\ req'.at \in {"prepare", "audit", "failed"}
         \/ /\ req.at = "cascade" /\ req'.at \in {"keep", "audit"}
         \/ /\ req.at = "l4" /\ req'.at \in {"calling", "audit"}
         \/ /\ req.at = "calling" /\ req'.at \in {"keep", "audit", "failed"}
         \/ /\ req.at = "keep" /\ req'.at = "audit"
         \/ /\ req.at = "audit" /\ req'.at \in {"trace", "failed"}
         \/ /\ req.at = "trace" /\ req'.at \in {"evidence", "failed"}
         \/ /\ req.at = "evidence" /\ req'.at \in {"enqueue", "failed"}
         \/ /\ req.at = "enqueue" /\ req'.at \in {"respond", "failed"}
         \/ /\ req.at = "failed" /\ req'.at = "respond"
  PROVE  StepsLeft(req') < StepsLeft(req)
  <1>1. req.layer \in 1 .. 3 /\ req'.layer \in 1 .. 3
    BY DEF Requests, Layers
  <1>2. /\ req.at = "check" => StepsLeft(req) = 16
        /\ req.at = "cascade" => StepsLeft(req) = 13 - req.layer
        /\ req.at = "l4" => StepsLeft(req) = 9
        /\ req.at = "calling" => StepsLeft(req) = 8
        /\ req.at = "keep" => StepsLeft(req) = 7
        /\ req.at = "audit" => StepsLeft(req) = 6
        /\ req.at = "trace" => StepsLeft(req) = 5
        /\ req.at = "evidence" => StepsLeft(req) = 4
        /\ req.at = "enqueue" => StepsLeft(req) = 3
        /\ req.at = "failed" => StepsLeft(req) = 2
    BY <1>1, Distances
  <1>3. /\ req'.at = "prepare" => StepsLeft(req') = 16 - req'.layer
        /\ req'.at = "calling" => StepsLeft(req') = 8
        /\ req'.at = "keep" => StepsLeft(req') = 7
        /\ req'.at = "audit" => StepsLeft(req') = 6
        /\ req'.at = "trace" => StepsLeft(req') = 5
        /\ req'.at = "evidence" => StepsLeft(req') = 4
        /\ req'.at = "enqueue" => StepsLeft(req') = 3
        /\ req'.at = "failed" => StepsLeft(req') = 2
        /\ req'.at = "respond" => StepsLeft(req') = 1
    BY <1>1, Distances
  <1> QED BY <1>1, <1>2, <1>3

\* A layer less to come, or the next place after the last.
LEMMA PastNearer ==
  ASSUME NEW rq \in Requests,
         NEW place, \/ rq.at = "prepare" /\ place = "cascade"
                    \/ rq.at = "cascade" /\ place = "l4",
         NEW rn, rn.at = Past(rq, place).at, rn.layer = Past(rq, place).layer
  PROVE  StepsLeft(rn) < StepsLeft(rq)
  <1>1. rq.layer \in 1 .. 3
    BY DEF Requests, Layers
  <1>2. \/ rq.layer = 3 /\ rn.layer = 1 /\ rn.at = place
        \/ rq.layer < 3 /\ rn.layer = rq.layer + 1 /\ rn.at = rq.at
    BY PastShape
  <1>3. rn.layer \in 1 .. 3
    BY <1>1, <1>2
  <1>4. /\ rq.at = "prepare" => StepsLeft(rq) = 16 - rq.layer
        /\ rq.at = "cascade" => StepsLeft(rq) = 13 - rq.layer
        /\ rn.at = "prepare" => StepsLeft(rn) = 16 - rn.layer
        /\ rn.at = "cascade" => StepsLeft(rn) = 13 - rn.layer
        /\ rn.at = "l4" => StepsLeft(rn) = 9
    BY <1>1, <1>3, Distances
  <1> QED BY <1>1, <1>2, <1>4

\* The steps past a layer.
LEMMA LayersAdvance ==
  ASSUME IInv,
         \/ PassLayer \/ PrepareLayer \/ LayerUnhealthy
         \/ SkipLayer \/ LayerMissing \/ LayerAbstains \/ LayerFails
  PROVE  StepsLeft(req') < StepsLeft(req)
  <1>1. req.at = "prepare" \/ req.at = "cascade"
    BY DEF PassLayer, PrepareLayer, LayerUnhealthy, SkipLayer, LayerMissing, LayerAbstains,
           LayerFails, Attempting, At
  <1>2. req \in Requests /\ req.layer \in Layers
    BY <1>1, InHand DEF Requests
  <1> DEFINE place == IF req.at = "prepare" THEN "cascade" ELSE "l4"
  <1>3. CASE PassLayer \/ SkipLayer \/ LayerMissing \/ LayerAbstains
    <2>1. req' = Past(req, place)
      BY <1>3 DEF PassLayer, SkipLayer, LayerMissing, LayerAbstains, Attempting, At
    <2> QED BY <1>1, <1>2, <2>1, PastNearer
  <1>4. CASE PrepareLayer
    <2> DEFINE rq == [req EXCEPT !.ready = @ \cup {req.layer}]
    <2>1. req' = Past(rq, "cascade") /\ req.at = "prepare"
      BY <1>4 DEF PrepareLayer, At
    <2>2. rq \in Requests /\ rq.at = "prepare" /\ rq.layer = req.layer
      BY <1>2, <2>1 DEF Requests
    <2>3. StepsLeft(rq) = StepsLeft(req)
      BY <2>1, <2>2 DEF StepsLeft
    <2> HIDE DEF rq
    <2> QED BY <2>1, <2>2, <2>3, PastNearer
  <1>5. CASE LayerUnhealthy \/ LayerFails
    <2> DEFINE rq == Past(req, place)
    <2>1. FailLayer(rq)
      BY <1>5 DEF LayerUnhealthy, LayerFails, Attempting, At
    <2>2. rq = [req EXCEPT !.layer = 1, !.at = place] \/ rq = [req EXCEPT !.layer = @ + 1]
      BY DEF Past
    <2>3. req'.at = rq.at /\ req'.layer = rq.layer
      BY <1>2, <2>1, <2>2 DEF FailLayer, Requests
    <2> QED BY <1>1, <1>2, <2>3, PastNearer
  <1> QED BY <1>3, <1>4, <1>5

\* Every step of a request leaves fewer before it.
LEMMA StepAdvances ==
  IInv /\ [Next]_vars => (req = Idle \/ req' = req \/ StepsLeft(req') < StepsLeft(req))
  <1> SUFFICES ASSUME IInv, Next, req # Idle, req' # req PROVE StepsLeft(req') < StepsLeft(req)
    BY DEF vars
  <1>1. req \in Requests
    BY DEF IInv, TypeOK
  <1>2. CASE \/ PassLayer \/ PrepareLayer \/ LayerUnhealthy
             \/ SkipLayer \/ LayerMissing \/ LayerAbstains \/ LayerFails
    BY <1>2, LayersAdvance
  <1>3. CASE Respond \/ FailureEscapes
    <2>1. req' = Idle
      BY <1>3 DEF Respond, FailureEscapes
    <2> QED BY <1>1, <2>1, Ending
  <1>4. CASE \/ TakeAudit \/ (\E type \in AuditTypes : RunAudit(type)) \/ PayloadExpires
             \/ \E r \in Releases, x \in Inputs, v \in Versions : Arrive(r, x, v)
    BY <1>4 DEF TakeAudit, RunAudit, PayloadExpires, Arrive
  <1>5. CASE \/ Raise \/ CheckCache \/ LayerAccepts \/ DeadlinePassed \/ CallL4 \/ L4TimesOut
             \/ L4Answers \/ KeepOutput \/ (\E types \in SUBSET AuditTypes : DecideAudits(types))
             \/ WriteTrace \/ TraceFails \/ AppendEvidence \/ NoEvidence \/ EvidenceFails
             \/ Enqueue \/ QueueFails \/ FailureTraced
    <2>1. req'.layer = req.layer
      BY <1>1, <1>5
      DEF Raise, CheckCache, LayerAccepts, DeadlinePassed, CallL4, L4TimesOut, L4Answers,
          KeepOutput, DecideAudits, WriteTrace, TraceFails, AppendEvidence, NoEvidence,
          EvidenceFails, Enqueue, QueueFails, FailureTraced, GoTo, Answer, Requests
    <2>2. \/ /\ req.at = "check" /\ req'.at \in {"prepare", "audit", "failed"}
          \/ /\ req.at = "cascade" /\ req'.at \in {"keep", "audit"}
          \/ /\ req.at = "l4" /\ req'.at \in {"calling", "audit"}
          \/ /\ req.at = "calling" /\ req'.at \in {"keep", "audit", "failed"}
          \/ /\ req.at = "keep" /\ req'.at = "audit"
          \/ /\ req.at = "audit" /\ req'.at \in {"trace", "failed"}
          \/ /\ req.at = "trace" /\ req'.at \in {"evidence", "failed"}
          \/ /\ req.at = "evidence" /\ req'.at \in {"enqueue", "failed"}
          \/ /\ req.at = "enqueue" /\ req'.at \in {"respond", "failed"}
          \/ /\ req.at = "failed" /\ req'.at = "respond"
      BY <1>1, <1>5
      DEF Raise, CheckCache, LayerAccepts, Attempting, DeadlinePassed, CallL4, L4TimesOut,
          L4Answers, KeepOutput, DecideAudits, WriteTrace, TraceFails, AppendEvidence,
          NoEvidence, EvidenceFails, Enqueue, QueueFails, FailureTraced, GoTo, Answer, At,
          Requests
    <2> QED BY <1>1, <2>1, <2>2, Nearer
  <1> QED BY <1>2, <1>3, <1>4, <1>5 DEF Next, ServerStep

\* A request is over after a bounded number of steps, whatever its layers, the
\* broker and the writers do: no retry and no layer leads back.
THEOREM RequestsOnlyAdvance == Spec => RequestsAdvance
  BY StepAdvances, Invariance, PTL DEF Spec, RequestsAdvance

=============================================================================
