---------------------------- MODULE RequestServing ----------------------------
(***************************************************************************)
(* serve_request (release_runtime.py): a request is given one Release and  *)
(* answered from the result cache, by the Release's local layers in order  *)
(* or by the L4 reference; then its audits are decided, its trace and its  *)
(* evidence are written and the audits are queued.  Any of these may raise *)
(* and lead to the except clause.  Requests are served one at a time over  *)
(* channels that move in between; the audit worker takes its items from    *)
(* the queue meanwhile, and captured payloads expire.                      *)
(***************************************************************************)
EXTENDS Naturals, FiniteSets

CONSTANTS
    Releases,           \* the releases channels lead requests to
    LayersOf,           \* [Releases -> the enabled layers that have an artifact]
    Cached,             \* the releases whose routing enables the cache
    Inputs,             \* normalised inputs
    Versions,           \* reference versions a broker can state
    FailureThreshold,   \* circuit_breaker.failure_threshold
    CooldownRequests,   \* circuit_breaker.cooldown_requests
    MaxRequests         \* bound: requests served

Layers == 1 .. 3        \* L1, L2, L3
L4     == 4             \* chosen_layer, beyond the layers of a release
Cache  == 5
Nobody == 0

ASSUME LayersAssumption == LayersOf \in [Releases -> SUBSET Layers]
ASSUME BreakerAssumption ==
    FailureThreshold \in Nat \ {0} /\ CooldownRequests \in Nat \ {0}
ASSUME BoundAssumption == MaxRequests \in Nat

VARIABLES
    breaker,    \* registry.circuit_breakers, by release and layer
    cache,      \* ResultCache.entries: what is stored under which key
    req,        \* the request being served: its locals, and where it is
    served,     \* requests so far; a request's number is its trace_id
    traces,     \* what trace_writer has written
    evidence,   \* the traces whose L4 fallback became approved evidence
    queue,      \* audit_queue
    stored,     \* the traces whose payload is in the secure audit store
    expired,    \* the payloads past their expires_at
    audit,      \* what the audit worker has in hand
    records,    \* AuditRecords
    answers,    \* history: the responses given
    skips       \* history: how often a breaker has skipped its layer since it opened

feedback == <<traces, evidence, queue, stored>>
auditor  == <<expired, audit, records>>
vars     == <<breaker, cache, req, served, feedback, auditor, answers, skips>>

None       == "none"
AuditTypes == {"random", "risk"}
ClosedBreaker == [state |-> "closed", failures |-> 0, remaining |-> 0]
Idle       == [at |-> "idle"]
NoAudit    == [id |-> 0, left |-> {}]

Init ==
    /\ breaker = [k \in Releases \X Layers |-> ClosedBreaker]
    /\ cache = {} /\ req = Idle /\ served = 0
    /\ traces = {} /\ evidence = {} /\ queue = {} /\ stored = {}
    /\ expired = {} /\ audit = NoAudit /\ records = {}
    /\ answers = {}
    /\ skips = [k \in Releases \X Layers |-> 0]

-----------------------------------------------------------------------------
(* Circuit breakers. *)

Open(b) == b.state = "open"

\* update_circuit_breaker, for an event that is a failure.
Failed(b) ==
    IF b.failures + 1 >= FailureThreshold
      THEN [state |-> "open", failures |-> b.failures + 1, remaining |-> CooldownRequests]
      ELSE [state |-> "closed", failures |-> b.failures + 1, remaining |-> 0]

\* Faulty variant: the last skip does not close the breaker.
SkippedOnceMore(b) ==
    IF b.remaining = 0 THEN ClosedBreaker ELSE [b EXCEPT !.remaining = @ - 1]

\* _is_layer_circuit_open with consume_skip, on a breaker that is open.
Skipped(b) ==
    IF b.remaining <= 1 THEN ClosedBreaker ELSE [b EXCEPT !.remaining = @ - 1]

-----------------------------------------------------------------------------
(* Selection and the cache. *)

\* select_release_for_request has returned r (ReleaseRegistry); v is the
\* version the broker of this request states.
Arrive(r, x, v) ==
    /\ req = Idle
    /\ served < MaxRequests
    /\ served' = served + 1
    /\ req' = [at |-> "check", id |-> served', release |-> r, input |-> x, version |-> v,
               layer |-> 1, ready |-> {}, status |-> None, by |-> Nobody, out |-> {},
               audits |-> {}, opened |-> {}]
    /\ UNCHANGED <<breaker, cache, feedback, auditor, answers, skips>>

At(place) == req.at = place
GoTo(place) == req' = [req EXCEPT !.at = place]
Answer(status, by, out, place) ==
    req' = [req EXCEPT !.status = status, !.by = by, !.out = out, !.at = place]

\* An output is told by where it comes from; out holds it, or nothing.
Produced == [release |-> req.release, input |-> req.input, version |-> req.version]

\* Faulty variant: a release shares its results with the next.
KeyWithoutRelease(r, x, v) == <<x, v>>

\* _cache_key; the contract hash is the release's own.
Key(r, x, v) == <<r, x, v>>
RequestKey == Key(req.release, req.input, req.version)
Hits == {e \in cache : req.release \in Cached /\ e.key = RequestKey}

\* The contract does not match, the input or the cached output is not valid,
\* an audit rule is not trace-safe: something in the try block raises.
Raise ==
    /\ At("check") \/ At("audit")
    /\ GoTo("failed")
    /\ UNCHANGED <<breaker, cache, served, feedback, auditor, answers, skips>>

CheckCache ==
    /\ At("check")
    /\ IF Hits = {} THEN GoTo("prepare")
       ELSE \E e \in Hits : Answer("ok", Cache, {e.out}, "audit")
    /\ UNCHANGED <<breaker, cache, served, feedback, auditor, answers, skips>>

-----------------------------------------------------------------------------
(* _prepare_workers_for_serving, layer by layer. *)

\* Faulty variant: the loop runs on behind the last layer.
PastTheLast(rq, place) ==
    IF rq.layer > 3 THEN [rq EXCEPT !.layer = 1, !.at = place]
    ELSE [rq EXCEPT !.layer = @ + 1]

\* The request is done with a layer: on to the next, or to the next place.
Past(rq, place) ==
    IF rq.layer = 3 THEN [rq EXCEPT !.layer = 1, !.at = place]
    ELSE [rq EXCEPT !.layer = @ + 1]

BreakerKey == <<req.release, req.layer>>
HasLayer   == req.layer \in LayersOf[req.release]

\* A failure of the request's layer, and what becomes of the request.
FailLayer(rq) ==
    /\ breaker' = [breaker EXCEPT ![BreakerKey] = Failed(@)]
    /\ skips' = [skips EXCEPT ![BreakerKey] = 0]
    /\ req' = (IF Open(breaker'[BreakerKey])
                 THEN [rq EXCEPT !.opened = @ \cup {req.layer}] ELSE rq)

\* Whether the breaker is open is asked without counting the skip.
PassLayer ==
    /\ At("prepare")
    /\ ~HasLayer \/ Open(breaker[BreakerKey])
    /\ req' = Past(req, "cascade")
    /\ UNCHANGED <<breaker, cache, served, feedback, auditor, answers, skips>>

PrepareLayer ==
    /\ At("prepare")
    /\ HasLayer /\ ~Open(breaker[BreakerKey])
    /\ req' = Past([req EXCEPT !.ready = @ \cup {req.layer}], "cascade")
    /\ UNCHANGED <<breaker, cache, served, feedback, auditor, answers, skips>>

\* The package does not verify, or its worker does not pass the healthcheck.
LayerUnhealthy ==
    /\ At("prepare")
    /\ HasLayer /\ ~Open(breaker[BreakerKey])
    /\ FailLayer(Past(req, "cascade"))
    /\ UNCHANGED <<cache, served, feedback, auditor, answers>>

-----------------------------------------------------------------------------
(* run_cascade. *)

\* Asked once more, the skip is now counted; this also meets the layer whose
\* breaker the preparation of the same request has opened.
SkipLayer ==
    /\ At("cascade")
    /\ HasLayer /\ Open(breaker[BreakerKey])
    /\ breaker' = [breaker EXCEPT ![BreakerKey] = Skipped(@)]
    /\ skips' = [skips EXCEPT ![BreakerKey] = @ + 1]
    /\ req' = Past(req, "l4")
    /\ UNCHANGED <<cache, served, feedback, auditor, answers>>

LayerMissing ==
    /\ At("cascade")
    /\ req.layer \notin req.ready
    /\ ~(HasLayer /\ Open(breaker[BreakerKey]))
    /\ req' = Past(req, "l4")
    /\ UNCHANGED <<breaker, cache, served, feedback, auditor, answers, skips>>

Attempting ==
    /\ At("cascade")
    /\ req.layer \in req.ready /\ ~Open(breaker[BreakerKey])
    /\ UNCHANGED <<cache, served, feedback, auditor, answers>>

Succeeds ==
    /\ breaker' = [breaker EXCEPT ![BreakerKey] = ClosedBreaker]
    /\ UNCHANGED skips

LayerAccepts  == Attempting /\ Succeeds /\ Answer("ok", req.layer, {Produced}, "keep")
LayerAbstains == Attempting /\ Succeeds /\ req' = Past(req, "l4")

\* Faulty variant: the layer is called until its breaker is open.
LayerFailsAgain == Attempting /\ FailLayer(req)

\* A timeout, an error, a protocol error or an invalid output.
LayerFails == Attempting /\ FailLayer(Past(req, "l4"))

\* The request's deadline is found to have passed, at one of the looks at it.
DeadlinePassed ==
    /\ At("cascade") \/ At("l4")
    /\ Answer("deadline_exceeded", Nobody, {}, "audit")
    /\ UNCHANGED <<breaker, cache, served, feedback, auditor, answers, skips>>

CallL4 ==
    /\ At("l4")
    /\ GoTo("calling")
    /\ UNCHANGED <<breaker, cache, served, feedback, auditor, answers, skips>>

\* The broker answers, if it ever does; an exhausted budget is raised.
L4Answers ==
    /\ At("calling")
    /\ \/ Answer("ok", L4, {Produced}, "keep")
       \/ Answer("l4_fallback_failure", L4, {}, "audit")
       \/ GoTo("failed")
    /\ UNCHANGED <<breaker, cache, served, feedback, auditor, answers, skips>>

\* Faulty variant: the call is waited for.
L4TimesOutOnCall ==
    /\ At("l4")
    /\ Answer("deadline_exceeded", L4, {}, "audit")
    /\ UNCHANGED <<breaker, cache, served, feedback, auditor, answers, skips>>

\* _call_reference_with_timeout gives up on the thread.
L4TimesOut ==
    /\ At("calling")
    /\ Answer("deadline_exceeded", L4, {}, "audit")
    /\ UNCHANGED <<breaker, cache, served, feedback, auditor, answers, skips>>

-----------------------------------------------------------------------------
(* After the answer: cache, audits, trace, evidence, queue. *)

\* write_result_cache.
KeepOutput ==
    /\ At("keep")
    /\ cache' = (IF req.release \in Cached
                   THEN {e \in cache : e.key # RequestKey}
                          \cup {[key |-> RequestKey, out |-> out] : out \in req.out}
                   ELSE cache)
    /\ GoTo("audit")
    /\ UNCHANGED <<breaker, served, feedback, auditor, answers, skips>>

\* Faulty variant: the audits stay selected when their payload was not kept.
DecideAuditsUncaptured(types) ==
    /\ At("audit")
    /\ types # {} => req.by \in Layers
    /\ req' = [req EXCEPT !.at = "trace", !.audits = types]
    /\ UNCHANGED <<breaker, cache, served, feedback, auditor, answers, skips>>

\* Random and risk audits of an accepted local output, whose payload is
\* captured; without a store for it none are selected.
DecideAudits(types) ==
    /\ At("audit")
    /\ types # {} => req.by \in Layers
    /\ stored' = (IF types = {} THEN stored ELSE stored \cup {req.id})
    /\ req' = [req EXCEPT !.at = "trace", !.audits = types]
    /\ UNCHANGED <<breaker, cache, served, traces, evidence, queue, auditor, answers, skips>>

Trace(status, by, audits) ==
    [id |-> req.id, release |-> req.release, status |-> status, by |-> by, audits |-> audits]

WriteTrace ==
    /\ At("trace")
    /\ traces' = traces \cup {Trace(req.status, req.by, req.audits)}
    /\ GoTo("evidence")
    /\ UNCHANGED <<breaker, cache, served, evidence, queue, stored, auditor, answers, skips>>

\* Faulty variant: the evidence does not need the trace.
TraceFailsQuietly ==
    /\ At("trace")
    /\ GoTo("evidence")
    /\ UNCHANGED <<breaker, cache, served, feedback, auditor, answers, skips>>

TraceFails ==
    /\ At("trace")
    /\ GoTo("failed")
    /\ UNCHANGED <<breaker, cache, served, feedback, auditor, answers, skips>>

\* _append_l4_fallback_evidence, when the privacy policy approves.
AppendEvidence ==
    /\ At("evidence")
    /\ req.by = L4 /\ req.status = "ok"
    /\ evidence' = evidence \cup {req.id}
    /\ GoTo("enqueue")
    /\ UNCHANGED <<breaker, cache, served, traces, queue, stored, auditor, answers, skips>>

NoEvidence ==
    /\ At("evidence")
    /\ GoTo("enqueue")
    /\ UNCHANGED <<breaker, cache, served, feedback, auditor, answers, skips>>

EvidenceFails ==
    /\ At("evidence")
    /\ req.by = L4 /\ req.status = "ok"
    /\ GoTo("failed")
    /\ UNCHANGED <<breaker, cache, served, feedback, auditor, answers, skips>>

\* _enqueue_selected_audits.
Enqueue ==
    /\ At("enqueue")
    /\ queue' = (IF req.audits = {} THEN queue
                 ELSE queue \cup {[id |-> req.id, release |-> req.release,
                                   audits |-> req.audits]})
    /\ GoTo("respond")
    /\ UNCHANGED <<breaker, cache, served, traces, evidence, stored, auditor, answers, skips>>

QueueFails ==
    /\ At("enqueue")
    /\ req.audits # {}
    /\ GoTo("failed")
    /\ UNCHANGED <<breaker, cache, served, feedback, auditor, answers, skips>>

-----------------------------------------------------------------------------
(* The except clause, and the response. *)

\* Faulty variant: no trace of a request that raised.
FailureUntraced ==
    /\ At("failed")
    /\ req' = [req EXCEPT !.status = "runtime_error", !.by = Nobody, !.out = {},
                          !.at = "respond"]
    /\ UNCHANGED <<breaker, cache, served, feedback, auditor, answers, skips>>

\* A trace without audits, of the same id as the one that may be there already.
FailureTraced ==
    /\ At("failed")
    /\ traces' = traces \cup {Trace("runtime_error", Nobody, {})}
    /\ req' = [req EXCEPT !.status = "runtime_error", !.by = Nobody, !.out = {},
                          !.at = "respond"]
    /\ UNCHANGED <<breaker, cache, served, evidence, queue, stored, auditor, answers, skips>>

\* The trace writer raises again, out of serve_request: there is no response.
FailureEscapes ==
    /\ At("failed")
    /\ req' = Idle
    /\ UNCHANGED <<breaker, cache, served, feedback, auditor, answers, skips>>

Respond ==
    /\ At("respond")
    /\ answers' = answers \cup
         {[id |-> req.id, release |-> req.release, asked |-> Produced,
           status |-> req.status, out |-> req.out]}
    /\ req' = Idle
    /\ UNCHANGED <<breaker, cache, served, feedback, auditor, skips>>

-----------------------------------------------------------------------------
(* The audit worker. *)

\* It takes an item with the payload the store has for it.
TakeAudit ==
    /\ audit.left = {}
    /\ \E item \in queue :
        /\ item.id \in stored
        /\ queue' = queue \ {item}
        /\ audit' = [id |-> item.id, left |-> item.audits]
    /\ UNCHANGED <<breaker, cache, req, served, traces, evidence, stored, expired, records,
                   answers, skips>>

\* Faulty variant: only an audit that raises drops the payload.
RunAuditDroppingOnError(type) ==
    /\ type \in audit.left
    /\ audit' = [audit EXCEPT !.left = @ \ {type}]
    /\ \/ records' = records /\ stored' = stored \ {audit.id}
       \/ /\ audit.id \notin expired
          /\ records' = records \cup {[id |-> audit.id, type |-> type]}
          /\ stored' = stored
    /\ UNCHANGED <<breaker, cache, req, served, traces, evidence, queue, expired, answers,
                   skips>>

\* run_audit_reference_call: a payload that has expired raises before there is
\* a record, and so does a broker without budget; the payload is taken out of
\* the store either way.
RunAudit(type) ==
    /\ type \in audit.left
    /\ audit' = [audit EXCEPT !.left = @ \ {type}]
    /\ \/ records' = records
       \/ /\ audit.id \notin expired
          /\ records' = records \cup {[id |-> audit.id, type |-> type]}
    /\ stored' = stored \ {audit.id}
    /\ UNCHANGED <<breaker, cache, req, served, traces, evidence, queue, expired, answers,
                   skips>>

PayloadExpires ==
    /\ \E id \in (stored \cup {audit.id}) \ (expired \cup {0}) : expired' = expired \cup {id}
    /\ UNCHANGED <<breaker, cache, req, served, feedback, audit, records, answers, skips>>

-----------------------------------------------------------------------------
ServerStep ==
    \/ Raise \/ CheckCache
    \/ PassLayer \/ PrepareLayer \/ LayerUnhealthy
    \/ SkipLayer \/ LayerMissing \/ LayerAccepts \/ LayerAbstains \/ LayerFails
    \/ DeadlinePassed \/ CallL4 \/ L4TimesOut
    \/ KeepOutput \/ (\E types \in SUBSET AuditTypes : DecideAudits(types))
    \/ WriteTrace \/ TraceFails \/ AppendEvidence \/ NoEvidence \/ EvidenceFails
    \/ Enqueue \/ QueueFails \/ FailureTraced \/ FailureEscapes \/ Respond

Next ==
    \/ \E r \in Releases, x \in Inputs, v \in Versions : Arrive(r, x, v)
    \/ ServerStep
    \/ L4Answers
    \/ TakeAudit \/ (\E type \in AuditTypes : RunAudit(type)) \/ PayloadExpires

Spec == Init /\ [][Next]_vars

\* The server is scheduled, and its waits for workers and for L4 have timeouts.
\* The broker and the audit worker owe nothing.
FairSpec == Spec /\ WF_vars(ServerStep)

-----------------------------------------------------------------------------
(* Properties. *)

Ids      == 1 .. MaxRequests
Outputs  == [release : Releases, input : Inputs, version : Versions]
Statuses == {"ok", "deadline_exceeded", "l4_fallback_failure", "runtime_error"}
Sources  == Layers \cup {L4, Cache, Nobody}
Places   == {"check", "prepare", "cascade", "l4", "calling", "keep", "audit", "trace",
             "evidence", "enqueue", "failed", "respond"}

Keys     == Releases \X Layers
Breakers == [state : {"open", "closed"}, failures : Nat, remaining : 0 .. CooldownRequests]
Requests == [at : Places, id : Ids, release : Releases, input : Inputs, version : Versions,
             layer : Layers, ready : SUBSET Layers, status : Statuses \cup {None},
             by : Sources, out : SUBSET Outputs, audits : SUBSET AuditTypes,
             opened : SUBSET Layers]
Traces   == [id : Ids, release : Releases, status : Statuses, by : Sources,
             audits : SUBSET AuditTypes]

\* The variables have the types the code gives them, the request in hand is the
\* last one, and only layers the release has are prepared for it.
TypeOK ==
    /\ breaker \in [Keys -> Breakers] /\ skips \in [Keys -> Nat]
    /\ \A e \in cache : e.out \in Outputs
    /\ served \in 0 .. MaxRequests
    /\ req # Idle =>
          req \in Requests /\ req.id = served /\ req.ready \subseteq LayersOf[req.release]
    /\ traces \subseteq Traces
    /\ evidence \subseteq Ids /\ stored \subseteq Ids /\ expired \subseteq Ids
    /\ queue \subseteq [id : Ids, release : Releases, audits : SUBSET AuditTypes]
    /\ records \subseteq [id : Ids, type : AuditTypes]
    /\ audit \in [id : Ids \cup {0}, left : SUBSET AuditTypes]
    /\ audit.left # {} => audit.id \in Ids

\* Every request uses one fixed Release (06_release_runtime.md:581), the cache
\* included: an output is handed out only by the release that produced it, for
\* the input it was asked for and under the reference version of the request.
AnswersAreOwn == \A a \in answers : a.status = "ok" => a.out = {a.asked}

TracesOf(id) == {t \in traces : t.id = id}

\* What is queued for audit can be audited: there is one trace of it, which
\* selects the same audits of a local layer's output, and its payload is still
\* in the store; a request that raised after its trace is not queued.
QueuedIsAuditable ==
    \A item \in queue :
        /\ item.id \in stored
        /\ \A t \in TracesOf(item.id) :
              t.audits = item.audits /\ t.by \in Layers /\ t.release = item.release
        /\ Cardinality(TracesOf(item.id)) = 1

\* An audit that has its record was selected by the trace of its request, and
\* the raw payload of that request is gone for good (09_audit_monitoring.md:256).
RecordedIsForgotten ==
    \A r \in records :
        /\ r.id \notin stored
        /\ \E t \in TracesOf(r.id) : r.type \in t.audits

\* Evidence from L4 fallback has the persisted trace of a successful fallback,
\* though the request may have failed after it.
EvidenceIsTraced ==
    \A id \in evidence : \E t \in TracesOf(id) : t.status = "ok" /\ t.by = L4

\* Whatever way a request ends, what its caller is told is in a trace of the
\* release that served it.
AnswersAreTraced ==
    \A a \in answers : \E t \in TracesOf(a.id) : t.status = a.status /\ t.release = a.release

\* An open breaker costs its layer no more than the cooldown it is configured
\* with, although two places of a request look at it.
OutageIsBounded == \A k \in Keys : skips[k] <= CooldownRequests

\* Every request comes to an end although the broker may never answer.
RequestEnds == []<>(req = Idle)

\* How far it is from a place of a request to its end, counted in steps.
Distance == [idle |-> 0, respond |-> 1, failed |-> 2, enqueue |-> 3, evidence |-> 4,
             trace |-> 5, audit |-> 6, keep |-> 7, calling |-> 8, l4 |-> 9,
             cascade |-> 12, prepare |-> 15, check |-> 16]
StepsLeft(rq) ==
    Distance[rq.at] - (IF rq.at \in {"prepare", "cascade"} THEN rq.layer - 1 ELSE 0)

\* A request only goes forward: whatever fails under it, no step of it leads
\* back, and it is over after 16 steps at the most.
RequestsAdvance == [][req = Idle \/ req' = req \/ StepsLeft(req') < StepsLeft(req)]_vars

\* 06_release_runtime.md:528: temporarily disable a failing layer so requests
\* continue to fallback safely.  So a request leaves the breakers it opened
\* open for those that follow.
OpenedLayersRest ==
    At("respond") => \A l \in req.opened : Open(breaker[<<req.release, l>>])

=============================================================================
