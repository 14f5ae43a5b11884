--------------------------- MODULE AuditQueue_proofs ---------------------------
(***************************************************************************)
(* What is queued for audit, for any number of requests.  The payload of   *)
(* an audit is stored before its trace, the trace before the item, so      *)
(* the invariant follows one request through the three writes; and it must *)
(* know that the payload the audit worker takes away is never that of an   *)
(* item still queued or of the request in hand.                            *)
(***************************************************************************)
EXTENDS RequestServing_proofs, FiniteSetTheorems

\* The places before the trace; the except clause may come after it.
Untraced == {"check", "prepare", "cascade", "l4", "calling", "keep", "audit", "trace"}

\* An item has its payload, and the one trace that selected its audits.
ItemFits(item) ==
    /\ item.id <= served /\ item.id \in stored
    /\ \E t \in traces : /\ TracesOf(item.id) = {t}
                         /\ t.audits = item.audits /\ t.by \in Layers
                         /\ t.release = item.release

\* What the request in hand has left behind so far; nothing is queued of it.
RequestFits(rq) ==
    /\ rq.at # "respond" =>
          /\ \A item \in queue : item.id # rq.id
          /\ \A rec \in records : rec.id # rq.id
          /\ audit.left # {} => audit.id # rq.id
    /\ rq.at \in Untraced => TracesOf(rq.id) = {}
    /\ rq.at \in {"evidence", "enqueue"} =>
          TracesOf(rq.id) = {[id |-> rq.id, release |-> rq.release, status |-> rq.status,
                              by |-> rq.by, audits |-> rq.audits]}
    /\ rq.at \in {"trace", "evidence", "enqueue"} /\ rq.audits # {} =>
          rq.by \in Layers /\ rq.id \in stored

QueueInv  == \A item \in queue : ItemFits(item)
OnceInv   == \A i, j \in queue : i.id = j.id => i = j
TraceInv  == \A t \in traces : t.id <= served
WorkerInv ==
    audit.left # {} =>
        /\ audit.id <= served /\ \A item \in queue : item.id # audit.id
        /\ \E t \in TracesOf(audit.id) : audit.left \subseteq t.audits
RecordInv == RecordedIsForgotten /\ \A rec \in records : rec.id <= served
HandInv   == req # Idle => RequestFits(req)

AuditInv == QueueInv /\ OnceInv /\ TraceInv /\ WorkerInv /\ RecordInv /\ HandInv

-----------------------------------------------------------------------------
\* Nothing is queued, traced or in hand before the first request.
LEMMA AuditInit == Init => AuditInv
  BY DEF Init, AuditInv, QueueInv, OnceInv, TraceInv, WorkerInv, RecordInv,
         RecordedIsForgotten, HandInv, NoAudit

\* A step that leaves the audits and the request's number alone, and puts the
\* request where what it has written still fits.
LEMMA RequestGoes ==
  ASSUME AuditInv, req' = Idle \/ RequestFits(req'),
         UNCHANGED <<traces, queue, stored, audit, records, served>>
  PROVE  AuditInv'
  <1>1. QueueInv' /\ OnceInv' /\ TraceInv' /\ WorkerInv' /\ RecordInv'
    BY DEF AuditInv, QueueInv, ItemFits, OnceInv, TraceInv, WorkerInv, RecordInv,
           RecordedIsForgotten, TracesOf
  <1>2. ASSUME req' # Idle PROVE RequestFits(req)'
    BY <1>2 DEF RequestFits, TracesOf
  <1> QED BY <1>1, <1>2 DEF AuditInv, HandInv, Idle

\* Before the trace, a move to another such place but the trace itself, or to
\* the except clause from anywhere.
LEMMA Moves ==
  ASSUME AuditInv, req # Idle, req.at # "respond",
         req'.id = req.id,
         req'.at = "failed" \/ (req.at \in Untraced /\ req'.at \in Untraced \ {"trace"})
  PROVE  RequestFits(req')
  BY DEF AuditInv, HandInv, RequestFits, Untraced

\* Past a layer, the request is the same and still before its trace.
LEMMA PastKeeps ==
  ASSUME NEW rq \in Requests, rq.at \in Untraced \ {"trace"}, NEW place \in {"cascade", "l4"}
  PROVE  Past(rq, place).id = rq.id /\ Past(rq, place).at \in Untraced \ {"trace"}
  <1>1. CASE rq.layer = 3
    BY <1>1 DEF Past, Requests, Untraced
  <1>2. CASE rq.layer # 3
    BY <1>2 DEF Past, Requests, Untraced
  <1> QED BY <1>1, <1>2

\* From the arrival to the answer, and where something raises, nothing is
\* written that an audit needs.
LEMMA AuditQuiet ==
  ASSUME IInv, AuditInv,
         \/ Raise \/ CheckCache \/ PassLayer \/ PrepareLayer \/ LayerUnhealthy
         \/ SkipLayer \/ LayerMissing \/ LayerAccepts \/ LayerAbstains \/ LayerFails
         \/ DeadlinePassed \/ CallL4 \/ L4TimesOut \/ L4Answers \/ KeepOutput
         \/ TraceFails \/ EvidenceFails \/ QueueFails \/ FailureEscapes
  PROVE  AuditInv'
  <1>1. UNCHANGED <<traces, queue, stored, audit, records, served>>
    BY DEF Raise, CheckCache, PassLayer, PrepareLayer, LayerUnhealthy, SkipLayer, LayerMissing,
           LayerAccepts, LayerAbstains, LayerFails, Attempting, DeadlinePassed, CallL4,
           L4TimesOut, L4Answers, KeepOutput, TraceFails, EvidenceFails, QueueFails,
           FailureEscapes, feedback, auditor
  <1>2. req.at \in (Untraced \ {"trace"}) \cup {"trace", "evidence", "enqueue", "failed"}
    BY DEF Raise, CheckCache, PassLayer, PrepareLayer, LayerUnhealthy, SkipLayer, LayerMissing,
           LayerAccepts, LayerAbstains, LayerFails, Attempting, DeadlinePassed, CallL4,
           L4TimesOut, L4Answers, KeepOutput, TraceFails, EvidenceFails, QueueFails,
           FailureEscapes, At, Untraced
  <1>3. req # Idle /\ req \in Requests /\ req.at # "respond"
    BY <1>2, InHand DEF Untraced
  <1>4. ASSUME \/ Raise \/ CallL4 \/ KeepOutput \/ TraceFails \/ EvidenceFails \/ QueueFails
        PROVE  AuditInv'
    <2>1. \E place \in {"failed", "calling", "audit"} : req' = [req EXCEPT !.at = place]
      BY <1>4 DEF Raise, CallL4, KeepOutput, TraceFails, EvidenceFails, QueueFails, GoTo
    <2>2. req'.at = "failed" \/ (req.at \in Untraced /\ req'.at \in Untraced \ {"trace"})
      BY <1>3, <1>4, <2>1 DEF Raise, CallL4, KeepOutput, TraceFails, EvidenceFails, QueueFails,
                              GoTo, At, Untraced, Requests
    <2>3. req'.id = req.id
      BY <1>3, <2>1 DEF Requests
    <2>4. RequestFits(req')
      BY <1>3, <2>2, <2>3, Moves
    <2> QED BY <1>1, <2>4, RequestGoes
  <1>5. ASSUME NEW status, NEW by, NEW out, NEW place \in {"keep", "audit"},
               Answer(status, by, out, place), req.at \in Untraced
        PROVE  AuditInv'
    <2>1. req' = [req EXCEPT !.status = status, !.by = by, !.out = out, !.at = place]
      BY <1>5 DEF Answer
    <2>2. req'.id = req.id /\ req'.at = place
      BY <1>3, <2>1 DEF Requests
    <2>3. RequestFits(req')
      BY <1>3, <1>5, <2>2, Moves DEF Untraced
    <2> QED BY <1>1, <2>3, RequestGoes
  <1>6. ASSUME NEW place \in Untraced \ {"trace"}, GoTo(place), req.at \in Untraced
        PROVE  AuditInv'
    <2>1. req'.id = req.id /\ req'.at = place
      BY <1>3, <1>6 DEF GoTo, Requests
    <2>2. RequestFits(req')
      BY <1>3, <1>6, <2>1, Moves
    <2> QED BY <1>1, <2>2, RequestGoes
  <1>7. ASSUME CheckCache PROVE AuditInv'
    <2>1. req.at \in Untraced /\ "prepare" \in Untraced \ {"trace"}
      BY <1>7 DEF CheckCache, At, Untraced
    <2>2. CASE Hits = {}
      BY <1>6, <1>7, <2>1, <2>2 DEF CheckCache
    <2>3. CASE Hits # {}
      <3>1. PICK e \in Hits : Answer("ok", Cache, {e.out}, "audit")
        BY <1>7, <2>3 DEF CheckCache
      <3> QED BY <1>5, <2>1, <3>1
    <2> QED BY <2>2, <2>3
  <1>8. ASSUME DeadlinePassed \/ L4TimesOut \/ L4Answers \/ LayerAccepts PROVE AuditInv'
    <2>1. req.at \in Untraced
      BY <1>8 DEF DeadlinePassed, L4TimesOut, L4Answers, LayerAccepts, Attempting, At, Untraced
    <2>2. CASE GoTo("failed")
      <3>1. req'.id = req.id /\ req'.at = "failed"
        BY <1>3, <2>2 DEF GoTo, Requests
      <3>2. RequestFits(req')
        BY <1>3, <3>1, Moves
      <3> QED BY <1>1, <3>2, RequestGoes
    <2>3. CASE Answer("deadline_exceeded", Nobody, {}, "audit")
               \/ Answer("deadline_exceeded", L4, {}, "audit")
               \/ Answer("l4_fallback_failure", L4, {}, "audit")
               \/ Answer("ok", L4, {Produced}, "keep")
               \/ Answer("ok", req.layer, {Produced}, "keep")
      BY <1>5, <2>1, <2>3
    <2> QED BY <1>8, <2>2, <2>3 DEF DeadlinePassed, L4TimesOut, L4Answers, LayerAccepts
  <1>9. ASSUME NEW rq \in Requests, rq.id = req.id, rq.at \in Untraced \ {"trace"},
               req.at \in Untraced, NEW place \in {"cascade", "l4"},
               req' = Past(rq, place) \/ FailLayer(Past(rq, place))
        PROVE  AuditInv'
    <2>1. Past(rq, place).id = req.id /\ Past(rq, place).at \in Untraced \ {"trace"}
      BY <1>9, PastKeeps
    <2>2. Past(rq, place) = [rq EXCEPT !.layer = 1, !.at = place]
          \/ Past(rq, place) = [rq EXCEPT !.layer = @ + 1]
      BY DEF Past
    <2>3. req'.id = Past(rq, place).id /\ req'.at = Past(rq, place).at
      BY <1>9, <2>2 DEF FailLayer, Requests
    <2>4. RequestFits(req')
      BY <1>3, <1>9, <2>1, <2>3, Moves
    <2> QED BY <1>1, <2>4, RequestGoes
  <1>10. ASSUME \/ PassLayer \/ LayerUnhealthy \/ SkipLayer \/ LayerMissing
                \/ LayerAbstains \/ LayerFails
         PROVE  AuditInv'
    <2>1. req.at \in Untraced \ {"trace"}
      BY <1>10 DEF PassLayer, LayerUnhealthy, SkipLayer, LayerMissing, LayerAbstains, LayerFails,
                   Attempting, At, Untraced
    <2>2. \E place \in {"cascade", "l4"} :
             req' = Past(req, place) \/ FailLayer(Past(req, place))
      BY <1>10 DEF PassLayer, LayerUnhealthy, SkipLayer, LayerMissing, LayerAbstains, LayerFails
    <2> QED BY <1>3, <1>9, <2>1, <2>2
  <1>11. ASSUME PrepareLayer PROVE AuditInv'
    <2> DEFINE rq == [req EXCEPT !.ready = @ \cup {req.layer}]
    <2>1. req.layer \in Layers /\ req.at = "prepare"
      BY <1>3, <1>11 DEF PrepareLayer, At, Requests
    <2>2. rq \in Requests /\ rq.id = req.id /\ rq.at = "prepare"
      BY <1>3, <2>1 DEF Requests
    <2>3. req' = Past(rq, "cascade")
      BY <1>11 DEF PrepareLayer
    <2> HIDE DEF rq
    <2> QED BY <1>9, <2>1, <2>2, <2>3 DEF Untraced
  <1>12. ASSUME FailureEscapes PROVE AuditInv'
    BY <1>1, <1>12, RequestGoes DEF FailureEscapes
  <1> QED BY <1>4, <1>7, <1>8, <1>10, <1>11, <1>12

-----------------------------------------------------------------------------
\* A new request has a number of its own.
LEMMA AuditArrive ==
  ASSUME IInv, AuditInv,
         NEW r \in Releases, NEW x \in Inputs, NEW v \in Versions, Arrive(r, x, v)
  PROVE  AuditInv'
  <1>1. /\ served \in Nat /\ served' = served + 1
        /\ UNCHANGED <<traces, queue, stored, audit, records>>
    BY BoundAssumption DEF IInv, TypeOK, Arrive, feedback, auditor
  <1>2. /\ \A t \in traces : t.id \in Nat
        /\ \A item \in queue : item.id \in Nat
        /\ \A rec \in records : rec.id \in Nat
        /\ audit.left # {} => audit.id \in Nat
    BY BoundAssumption DEF IInv, TypeOK, Traces, Ids
  <1>3. QueueInv' /\ OnceInv'
    BY <1>1, <1>2 DEF AuditInv, QueueInv, ItemFits, OnceInv, TracesOf
  <1>4. TraceInv' /\ WorkerInv' /\ RecordInv'
    BY <1>1, <1>2 DEF AuditInv, TraceInv, WorkerInv, RecordInv, RecordedIsForgotten, TracesOf
  <1>5. req'.id = served + 1 /\ req'.at = "check"
    BY <1>1 DEF Arrive
  <1>6. /\ \A t \in traces : t.id # served + 1
        /\ \A item \in queue : item.id # served + 1
        /\ \A rec \in records : rec.id # served + 1
        /\ audit.left # {} => audit.id # served + 1
    BY <1>1, <1>2 DEF AuditInv, TraceInv, QueueInv, ItemFits, WorkerInv, RecordInv
  <1>7. RequestFits(req)'
    BY <1>1, <1>5, <1>6 DEF RequestFits, TracesOf, Untraced
  <1> QED BY <1>3, <1>4, <1>7 DEF AuditInv, HandInv

\* Selecting audits stores their payload.
LEMMA AuditDecide ==
  ASSUME IInv, AuditInv, NEW types \in SUBSET AuditTypes, DecideAudits(types)
  PROVE  AuditInv'
  <1>1. req # Idle /\ req \in Requests /\ req.at = "audit" /\ RequestFits(req)
    BY InHand DEF DecideAudits, At, AuditInv, HandInv
  <1>2. /\ req' = [req EXCEPT !.at = "trace", !.audits = types]
        /\ UNCHANGED <<traces, queue, audit, records, served>> /\ stored \subseteq stored'
        /\ types # {} => req.by \in Layers /\ req.id \in stored'
        /\ stored' \subseteq stored \cup {req.id}
    BY DEF DecideAudits, auditor
  <1>3. /\ req'.id = req.id /\ req'.at = "trace" /\ req'.audits = types /\ req'.by = req.by
    BY <1>1, <1>2 DEF Requests
  <1>4. QueueInv' /\ OnceInv' /\ TraceInv' /\ WorkerInv'
    BY <1>2 DEF AuditInv, QueueInv, ItemFits, OnceInv, TraceInv, WorkerInv, TracesOf
  <1>6. RecordInv'
    BY <1>1, <1>2 DEF AuditInv, RecordInv, RecordedIsForgotten, TracesOf, RequestFits
  <1>5. RequestFits(req)'
    BY <1>1, <1>2, <1>3 DEF RequestFits, TracesOf, Untraced
  <1> QED BY <1>4, <1>5, <1>6 DEF AuditInv, HandInv

\* A trace of the request in hand, of which nothing is queued, leaves the
\* items and their traces as they are.
LEMMA TraceAdds ==
  ASSUME IInv, AuditInv, req # Idle, req.at # "respond", NEW t, t.id = req.id,
         traces' = traces \cup {t}, UNCHANGED <<queue, stored, audit, records, served>>
  PROVE  QueueInv' /\ OnceInv' /\ TraceInv' /\ WorkerInv' /\ RecordInv'
  <1>1. req.id = served /\ served \in Nat /\ \A item \in queue : item.id # req.id
    BY BoundAssumption DEF IInv, TypeOK, PathInv, AuditInv, HandInv, RequestFits
  <1>2. \A item \in queue : TracesOf(item.id)' = TracesOf(item.id)
    BY <1>1 DEF TracesOf
  <1>3. QueueInv'
    <2> SUFFICES ASSUME NEW item \in queue PROVE ItemFits(item)'
      BY DEF QueueInv
    <2>1. ItemFits(item)
      BY DEF AuditInv, QueueInv
    <2>2. {u \in traces' : u.id = item.id} = {u \in traces : u.id = item.id}
      BY <1>1
    <2> QED BY <2>1, <2>2 DEF ItemFits, TracesOf
  <1>4. TraceInv' /\ OnceInv' /\ WorkerInv' /\ RecordInv'
    BY <1>1 DEF AuditInv, TraceInv, OnceInv, WorkerInv, RecordInv, RecordedIsForgotten, TracesOf
  <1> QED BY <1>3, <1>4

\* The trace of the answer is the only one so far.
LEMMA AuditTrace == ASSUME IInv, AuditInv, WriteTrace PROVE AuditInv'
  <1>1. req # Idle /\ req \in Requests /\ req.at = "trace" /\ RequestFits(req)
    BY InHand DEF WriteTrace, At, AuditInv, HandInv
  <1> DEFINE t == Trace(req.status, req.by, req.audits)
  <1>2. /\ req' = [req EXCEPT !.at = "evidence"] /\ traces' = traces \cup {t}
        /\ UNCHANGED <<queue, stored, audit, records, served>>
    BY DEF WriteTrace, GoTo, auditor
  <1>3. t.id = req.id /\ t = [id |-> req.id, release |-> req.release, status |-> req.status,
                              by |-> req.by, audits |-> req.audits]
    BY DEF Trace
  <1> HIDE DEF t
  <1>4. QueueInv' /\ OnceInv' /\ TraceInv' /\ WorkerInv' /\ RecordInv'
    BY <1>1, <1>2, <1>3, TraceAdds
  <1>5. /\ req'.id = req.id /\ req'.at = "evidence" /\ req'.audits = req.audits
        /\ req'.by = req.by /\ req'.status = req.status /\ req'.release = req.release
    BY <1>1, <1>2 DEF Requests
  <1>6. {u \in traces : u.id = req.id} = {}
    BY <1>1 DEF RequestFits, TracesOf, Untraced
  <1>7. {u \in traces' : u.id = req'.id} = {t}
    BY <1>2, <1>3, <1>5, <1>6
  <1>8. RequestFits(req)'
    BY <1>1, <1>2, <1>3, <1>5, <1>7 DEF RequestFits, TracesOf, Untraced
  <1> QED BY <1>4, <1>8 DEF AuditInv, HandInv

\* Evidence, or none, leaves the request with its trace.
LEMMA AuditEvidence == ASSUME IInv, AuditInv, AppendEvidence \/ NoEvidence PROVE AuditInv'
  <1>1. req # Idle /\ req \in Requests /\ req.at = "evidence" /\ RequestFits(req)
    BY InHand DEF AppendEvidence, NoEvidence, At, AuditInv, HandInv
  <1>2. /\ req' = [req EXCEPT !.at = "enqueue"]
        /\ UNCHANGED <<traces, queue, stored, audit, records, served>>
    BY DEF AppendEvidence, NoEvidence, GoTo, feedback, auditor
  <1>3. /\ req'.id = req.id /\ req'.at = "enqueue" /\ req'.audits = req.audits
        /\ req'.by = req.by /\ req'.status = req.status /\ req'.release = req.release
    BY <1>1, <1>2 DEF Requests
  <1>4. RequestFits(req')
    BY <1>1, <1>3 DEF RequestFits, Untraced
  <1> QED BY <1>2, <1>4, RequestGoes

\* What is queued has its payload and its one trace, and is queued once.
LEMMA AuditEnqueue == ASSUME IInv, AuditInv, Enqueue PROVE AuditInv'
  <1>1. req # Idle /\ req \in Requests /\ req.at = "enqueue" /\ RequestFits(req) /\ req.id = served
    BY InHand DEF Enqueue, At, AuditInv, HandInv
  <1> DEFINE new == [id |-> req.id, release |-> req.release, audits |-> req.audits]
  <1>2. /\ req' = [req EXCEPT !.at = "respond"]
        /\ queue' = IF req.audits = {} THEN queue ELSE queue \cup {new}
        /\ UNCHANGED <<traces, stored, audit, records, served>>
    BY DEF Enqueue, GoTo, auditor
  <1>3. req'.id = req.id /\ req'.at = "respond"
    BY <1>1, <1>2 DEF Requests
  <1>4. served \in Nat
    BY BoundAssumption DEF IInv, TypeOK
  <1>5. ASSUME req.audits # {} PROVE ItemFits(new)
    <2>1. req.by \in Layers /\ req.id \in stored
      BY <1>1, <1>5 DEF RequestFits
    <2> DEFINE t == [id |-> req.id, release |-> req.release, status |-> req.status,
                     by |-> req.by, audits |-> req.audits]
    <2>2. TracesOf(req.id) = {t}
      BY <1>1 DEF RequestFits
    <2>3. t \in traces
      BY <2>2 DEF TracesOf
    <2> QED BY <1>1, <1>4, <2>1, <2>2, <2>3 DEF ItemFits
  <1>6. \A item \in queue : item.id # new.id
    BY <1>1 DEF RequestFits
  <1>7. new.id = req.id /\ (audit.left # {} => audit.id # new.id)
    BY <1>1 DEF RequestFits
  <1> HIDE DEF new
  <1>8. \A item \in queue' : item \in queue \/ (item = new /\ req.audits # {})
    BY <1>2
  <1>9. QueueInv'
    BY <1>2, <1>5, <1>8 DEF AuditInv, QueueInv, ItemFits, TracesOf
  <1>10. OnceInv'
    BY <1>6, <1>8 DEF AuditInv, OnceInv
  <1>11. TraceInv' /\ WorkerInv' /\ RecordInv'
    BY <1>2, <1>7, <1>8 DEF AuditInv, TraceInv, WorkerInv, RecordInv, RecordedIsForgotten, TracesOf
  <1>12. RequestFits(req)'
    BY <1>3 DEF RequestFits, Untraced
  <1> QED BY <1>9, <1>10, <1>11, <1>12 DEF AuditInv, HandInv

\* The except clause may write a second trace of the request, but only of one
\* that was not queued.
LEMMA AuditFailure == ASSUME IInv, AuditInv, FailureTraced PROVE AuditInv'
  <1>1. req # Idle /\ req \in Requests /\ req.at = "failed"
    BY InHand DEF FailureTraced, At
  <1> DEFINE t == Trace("runtime_error", Nobody, {})
  <1>2. /\ req'.at = "respond" /\ traces' = traces \cup {t}
        /\ UNCHANGED <<queue, stored, audit, records, served>>
    BY <1>1 DEF FailureTraced, auditor, Requests
  <1>3. t.id = req.id
    BY DEF Trace
  <1> HIDE DEF t
  <1>4. QueueInv' /\ OnceInv' /\ TraceInv' /\ WorkerInv' /\ RecordInv'
    BY <1>1, <1>2, <1>3, TraceAdds
  <1>5. RequestFits(req)'
    BY <1>2 DEF RequestFits, Untraced
  <1> QED BY <1>4, <1>5 DEF AuditInv, HandInv

-----------------------------------------------------------------------------
\* The worker takes an item off the queue, with no other of its number left.
LEMMA AuditTaken == ASSUME IInv, AuditInv, TakeAudit PROVE AuditInv'
  <1>1. PICK item \in queue :
          /\ queue' = queue \ {item} /\ audit' = [id |-> item.id, left |-> item.audits]
    BY DEF TakeAudit
  <1>2. UNCHANGED <<req, served, traces, stored, records>>
    BY DEF TakeAudit
  <1>3. audit'.id = item.id /\ ItemFits(item) /\ \A other \in queue' : other.id # item.id
    BY <1>1 DEF AuditInv, QueueInv, OnceInv
  <1>4. QueueInv' /\ OnceInv' /\ TraceInv' /\ RecordInv'
    BY <1>1, <1>2 DEF AuditInv, QueueInv, ItemFits, OnceInv, TraceInv, RecordInv,
                      RecordedIsForgotten, TracesOf
  <1>5. WorkerInv'
    <2>1. audit'.left = item.audits
      BY <1>1
    <2>2. \E t \in TracesOf(item.id)' : item.audits \subseteq t.audits
      BY <1>2, <1>3 DEF ItemFits, TracesOf
    <2> QED BY <1>2, <1>3, <2>1, <2>2 DEF WorkerInv, ItemFits, TracesOf
  <1>6. ASSUME req # Idle PROVE RequestFits(req)'
    <2>1. RequestFits(req) /\ (req.at # "respond" => item.id # req.id)
      BY <1>1, <1>6 DEF AuditInv, HandInv, RequestFits
    <2> QED BY <1>1, <1>2, <1>3, <2>1 DEF RequestFits, TracesOf
  <1> QED BY <1>2, <1>4, <1>5, <1>6 DEF AuditInv, HandInv

\* The payload it takes out of the store is its own.
LEMMA AuditRun ==
  ASSUME IInv, AuditInv, NEW type \in AuditTypes, RunAudit(type)
  PROVE  AuditInv'
  <1>1. /\ audit.left # {} /\ stored' = stored \ {audit.id}
        /\ audit' = [audit EXCEPT !.left = @ \ {type}]
        /\ UNCHANGED <<req, served, traces, queue>>
    BY DEF RunAudit
  <1>2. audit'.id = audit.id /\ audit'.left = audit.left \ {type}
    BY <1>1 DEF IInv, TypeOK
  <1>3. /\ audit.id <= served /\ \A item \in queue : item.id # audit.id
        /\ \E t \in TracesOf(audit.id) : audit.left \subseteq t.audits
    BY <1>1 DEF AuditInv, WorkerInv
  <1>4. QueueInv'
    BY <1>1, <1>3 DEF AuditInv, QueueInv, ItemFits, TracesOf
  <1>5. OnceInv' /\ TraceInv' /\ WorkerInv'
    BY <1>1, <1>2, <1>3 DEF AuditInv, OnceInv, TraceInv, WorkerInv, TracesOf
  <1>7. type \in audit.left /\ records' \subseteq records \cup {[id |-> audit.id, type |-> type]}
    BY DEF RunAudit
  <1>8. RecordInv'
    BY <1>1, <1>3, <1>7 DEF AuditInv, RecordInv, RecordedIsForgotten, TracesOf
  <1>6. ASSUME req # Idle PROVE RequestFits(req)'
    <2>1. RequestFits(req) /\ (req.at # "respond" => audit.id # req.id)
      BY <1>1, <1>6 DEF AuditInv, HandInv, RequestFits
    <2> QED BY <1>1, <1>2, <1>7, <2>1 DEF RequestFits, TracesOf
  <1> QED BY <1>1, <1>4, <1>5, <1>6, <1>8 DEF AuditInv, HandInv

\* Respond closes the request; a payload that expires stays in the store.
LEMMA AuditRest ==
  ASSUME AuditInv, Respond \/ PayloadExpires \/ UNCHANGED vars PROVE AuditInv'
  <1>1. UNCHANGED <<traces, queue, stored, audit, records, served>> /\ (req' = Idle \/ req' = req)
    BY DEF Respond, PayloadExpires, vars, feedback, auditor
  <1>2. req = Idle \/ RequestFits(req)
    BY DEF AuditInv, HandInv
  <1> QED BY <1>1, <1>2, RequestGoes

-----------------------------------------------------------------------------
\* Every step keeps what the audits rest on.
LEMMA AuditStep == IInv /\ AuditInv /\ [Next]_vars => AuditInv'
  <1> SUFFICES ASSUME IInv, AuditInv, [Next]_vars PROVE AuditInv'
    OBVIOUS
  <1>1. CASE ServerStep \/ L4Answers
    BY <1>1, AuditQuiet, AuditDecide, AuditTrace, AuditEvidence, AuditEnqueue, AuditFailure,
       AuditRest DEF ServerStep
  <1>2. CASE ~(ServerStep \/ L4Answers)
    BY <1>2, AuditArrive, AuditTaken, AuditRun, AuditRest DEF Next
  <1> QED BY <1>1, <1>2

\* What is queued can be audited: with its payload in the store and one trace,
\* of the release and the audits it is queued for.
THEOREM QueueIsAuditable == Spec => []QueuedIsAuditable
  <1>1. AuditInv => QueuedIsAuditable
    <2> SUFFICES ASSUME AuditInv, NEW item \in queue
                 PROVE  /\ item.id \in stored
                        /\ \A t \in TracesOf(item.id) :
                              /\ t.audits = item.audits /\ t.by \in Layers
                              /\ t.release = item.release
                        /\ Cardinality(TracesOf(item.id)) = 1
      BY DEF QueuedIsAuditable
    <2>1. item.id \in stored
      BY DEF AuditInv, QueueInv, ItemFits
    <2>2. PICK t \in traces : /\ TracesOf(item.id) = {t} /\ t.audits = item.audits
                              /\ t.by \in Layers /\ t.release = item.release
      BY DEF AuditInv, QueueInv, ItemFits
    <2>3. Cardinality({t}) = 1
      BY FS_Singleton
    <2> QED BY <2>1, <2>2, <2>3
  <1> QED BY <1>1, AuditInit, AuditStep, Invariance, PTL DEF Spec

\* An audit on record was selected by its trace, and the payload it compared is
\* in no store any more.
THEOREM RecordsAreClean == Spec => []RecordedIsForgotten
  <1>1. AuditInv => RecordedIsForgotten
    BY DEF AuditInv, RecordInv
  <1> QED BY <1>1, AuditInit, AuditStep, Invariance, PTL DEF Spec

=============================================================================
