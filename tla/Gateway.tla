------------------------------- MODULE Gateway -------------------------------
(***************************************************************************)
(* The request path of the guardrail: async_pre_call_hook with             *)
(* process_request(_async), scan_async and the NER client below it, for    *)
(* requests handled concurrently by one event loop.  A handler runs        *)
(* without interruption between two awaits; the only await is the call of  *)
(* the NER sidecar, one per text field, all gathered.                      *)
(*                                                                         *)
(* A field is what scanning tells apart: the detections of L1, those the   *)
(* sidecar would answer with, whether it is empty or too long, whether     *)
(* normalisation changes it, and the injection patterns that fire.  What   *)
(* merge() makes of the detections is Merged, which Engine shows its loop  *)
(* to compute.                                                             *)
(*                                                                         *)
(* External: the sidecar (answers, fails or answers with something         *)
(* unexpected), the sinks of audit and metrics (work or raise), litellm    *)
(* (calls the hooks, forwards the body) and the upstream (its answer       *)
(* repeats the body, where it likes).  The values of a body are taken to   *)
(* be all different, so that each has a placeholder of its own.            *)
(***************************************************************************)
EXTENDS Detections, Injection

CONSTANTS
    Request,    \* the requests
    Bodies,     \* the bodies: [fields, readable, metadata]
    Policies,   \* [ner, onFailure, onInternalError, injection, threshold, capped]
    Sinks,      \* how the observation of a request may end, of Outcome
    MaxIndex    \* the largest index of a placeholder that restore() reads

Field == [l1 : Seq(Detection), ner : Seq(Detection),
          empty : BOOLEAN, long : BOOLEAN, folds : BOOLEAN, fired : SUBSET Pattern]

\* readable: _iter_scan_fields can walk the body (a tool_calls that is no list
\* makes it raise).  metadata: "null" when the client sent null.
Body == [fields : Seq(Field), readable : BOOLEAN, metadata : {"dict", "null"}]

\* injection is "off" when not enabled, else the configured action; capped
\* says that max_scan_chars is not 0.
Policy == [ner : BOOLEAN, onFailure : {"degrade", "block"},
           onInternalError : {"block", "allow"},
           injection : {"off", "log_only", "block"}, threshold : Int, capped : BOOLEAN]

\* What is found where: the fields are numbered, no body has more than a list.
Place == Nat \X Detection

\* The counts of an audit event, as what they count.
Event == [blocked : BOOLEAN, found : SUBSET Place, masked : SUBSET Place,
          logged : SUBSET Place]

\* Audit and metrics work, or one of them raises: the audit log; record_scan before
\* it has counted the request; a label of it, or incr_injection, behind that.
Outcome == {"work", "audit_raises", "metrics_raise", "late_raise"}

ASSUME BodiesAssumption == Bodies \subseteq Body
ASSUME PoliciesAssumption == Policies \subseteq Policy
ASSUME SinksAssumption == Sinks \subseteq Outcome /\ "work" \in Sinks
ASSUME MaxIndexAssumption == MaxIndex \in Nat

VARIABLES
    policy,     \* self.policy, loaded once
    body,       \* the requests' bodies as received
    pc,         \* "received", "scanning", "forwarded", "rejected", "answered"
    call,       \* per field the NER call: "none", "asked", "answered", "unavailable",
                \* "malformed", or "uncounted": unavailable, and its metric raised
    error,      \* what gather() raises: the first call that failed, or "none"
    kept,       \* per field the detections of its scan
    masked,     \* per field the detections replaced in the body
    mapping,    \* data["metadata"]["kpii_mapping"]: the (field, detection) it has
    status,     \* how the hook ended: "none", "ok" or the marker of the error
    failedOpen, \* the hook returned from its except clause with on_internal_error=allow
    events,     \* the audit events written for the request
    sink,       \* what audit and metrics did for the request, or "none"
    blockedTotal,   \* kpii_blocked_requests_total
    flaggedTotal,   \* kpii_injection_flagged_total
    nerFailures,    \* kpii_ner_failures_total
    heard,      \* the fields that the answer repeats where the hook looks for them:
                \* in the text of a message or the arguments of a tool call
    answer      \* the placeholders the client sees in the answer

results == <<kept, masked, mapping, status, failedOpen>>
told == <<events, sink, blockedTotal, flaggedTotal>>
observed == <<told, nerFailures>>
response == <<heard, answer>>
vars == <<policy, body, pc, call, error, results, observed, response>>

FieldsOf(r) == DOMAIN body[r].fields

TypeOK ==
    /\ policy \in Policy
    /\ body \in [Request -> Body]
    /\ pc \in [Request -> {"received", "scanning", "forwarded", "rejected", "answered"}]
    /\ error \in [Request -> {"none", "unavailable", "malformed", "uncounted"}]
    /\ status \in [Request -> {"none", "ok", "pii_blocked", "oversized_input",
                     "injection_blocked", "ner_unavailable", "pii_filter_error"}]
    /\ failedOpen \in [Request -> BOOLEAN]
    /\ events \in [Request -> Seq(Event)]
    /\ sink \in [Request -> Sinks \cup {"none"}]
    /\ blockedTotal \in Nat /\ flaggedTotal \in Nat /\ nerFailures \in Nat
    /\ \A r \in Request :
        /\ call[r] \in [FieldsOf(r) ->
                {"none", "asked", "answered", "unavailable", "malformed", "uncounted"}]
        /\ kept[r] \in [FieldsOf(r) -> SUBSET Detection]
        /\ masked[r] \in [FieldsOf(r) -> SUBSET Detection]
        /\ mapping[r] \subseteq FieldsOf(r) \X Detection
        /\ heard[r] \subseteq FieldsOf(r)
        /\ answer[r] \subseteq FieldsOf(r) \X Detection

-----------------------------------------------------------------------------

NoneIn(r) == [f \in FieldsOf(r) |-> {}]

Init == /\ policy \in Policies
        /\ body \in [Request -> Bodies]
        /\ pc = [r \in Request |-> "received"]
        /\ call = [r \in Request |-> [f \in FieldsOf(r) |-> "none"]]
        /\ error = [r \in Request |-> "none"]
        /\ kept = [r \in Request |-> NoneIn(r)]
        /\ masked = [r \in Request |-> NoneIn(r)]
        /\ mapping = [r \in Request |-> {}]
        /\ status = [r \in Request |-> "none"]
        /\ failedOpen = [r \in Request |-> FALSE]
        /\ events = [r \in Request |-> << >>]
        /\ sink = [r \in Request |-> "none"]
        /\ blockedTotal = 0 /\ flaggedTotal = 0 /\ nerFailures = 0
        /\ heard = [r \in Request |-> {}]
        /\ answer = [r \in Request |-> {}]

\* scan / the end of scan_async: filter and merge.
ScanResult(found) == {found[i] : i \in Merged(found)}

Oversized(r) == policy.capped /\ \E f \in FieldsOf(r) : body[r].fields[f].long

\* A score of 0 is the one of a request whose fields are not scanned, too.
FlaggedUnscanned == policy.injection # "off" /\ 0 >= policy.threshold

\* _scan_injection: the highest score of the fields, compared with the threshold.
Flagged(r) ==
    \/ FlaggedUnscanned
    \/ /\ policy.injection # "off"
       /\ \E f \in FieldsOf(r) : Score(body[r].fields[f].fired) >= policy.threshold

WithAction(D, action) == {d \in D : ActionOf[d.entity] = action}

\* The places of per-field sets of detections.
Places(D) == UNION {{f} \X D[f] : f \in DOMAIN D}

\* Mutant: a marker that is none of the documented ones.
InternalErrorUnnamed(r) ==
    /\ status' = [status EXCEPT ![r] = "internal_error"]
    /\ pc' = [pc EXCEPT ![r] = "rejected"]
    /\ UNCHANGED failedOpen

\* The except clause of the hook for anything unexpected.
InternalError(r) ==
    IF policy.onInternalError = "block"
    THEN /\ status' = [status EXCEPT ![r] = "pii_filter_error"]
         /\ pc' = [pc EXCEPT ![r] = "rejected"]
         /\ UNCHANGED failedOpen
    ELSE /\ status' = [status EXCEPT ![r] = "ok"]
         /\ pc' = [pc EXCEPT ![r] = "forwarded"]
         /\ failedOpen' = [failedOpen EXCEPT ![r] = TRUE]

Reject(r, marker) ==
    /\ status' = [status EXCEPT ![r] = marker]
    /\ pc' = [pc EXCEPT ![r] = "rejected"]
    /\ UNCHANGED failedOpen

\* log_event, unless it does not come to that.
LogEvent(r, event, works) ==
    events' = [events EXCEPT ![r] = IF works THEN Append(@, event) ELSE @]

\* record_scan, as far as it comes: the request is counted before the labels.
RecordScan(event, counts) ==
    blockedTotal' = blockedTotal + IF counts /\ event.blocked THEN 1 ELSE 0

IncrInjection(flagged, works) ==
    flaggedTotal' = flaggedTotal + IF works /\ flagged THEN 1 ELSE 0

\* incr_ner_failure, a metric that may raise like the others.
IncrNerFailure(works) ==
    \/ works /\ nerFailures' = nerFailures + 1
    \/ ~works /\ "metrics_raise" \in Sinks /\ UNCHANGED nerFailures

\* Mutant: the metrics first.
ObserveMetricsFirst(r, event, flagged) ==
    \E outcome \in Sinks :
        /\ outcome = "late_raise" => event.found # {} \/ flagged
        /\ sink' = [sink EXCEPT ![r] = outcome]
        /\ LogEvent(r, event, outcome = "work")
        /\ RecordScan(event, outcome \in {"work", "late_raise"})
        /\ IncrInjection(flagged, outcome = "work")

\* Audit event, scan metrics, injection metric: the first that raises ends the
\* block, and nothing else.  Without detections there is no label to raise.
Observe(r, event, flagged) ==
    \E outcome \in Sinks :
        /\ outcome = "late_raise" => event.found # {} \/ flagged
        /\ sink' = [sink EXCEPT ![r] = outcome]
        /\ LogEvent(r, event, outcome # "audit_raises")
        /\ RecordScan(event, outcome \in {"work", "late_raise"})
        /\ IncrInjection(flagged, outcome = "work")

ContentBlocked(scans) == \E f \in DOMAIN scans : WithAction(scans[f], "block") # {}

InjectionBlocked(r) == Flagged(r) /\ policy.injection = "block"

InAction(scans, action) == [f \in DOMAIN scans |-> WithAction(scans[f], action)]

\* Mutant: the event of a refused request tells what would have been masked.
ResultOfPlanned(r, scans) ==
    [blocked |-> ContentBlocked(scans) \/ InjectionBlocked(r), found |-> Places(scans),
     masked |-> Places(InAction(scans, "mask")), logged |-> Places(InAction(scans, "log_only"))]

\* The counts of _finalize's two results.
ResultOf(r, scans) ==
    IF ContentBlocked(scans) \/ InjectionBlocked(r)
    THEN [blocked |-> TRUE, found |-> Places(scans), masked |-> {}, logged |-> {}]
    ELSE [blocked |-> FALSE, found |-> Places(scans),
          masked |-> Places(InAction(scans, "mask")),
          logged |-> Places(InAction(scans, "log_only"))]

\* The end of async_pre_call_hook.  The mapping is stored last, when the body
\* has been rewritten.
Deliver(r, masks) ==
    IF body[r].metadata = "null"
    THEN InternalError(r) /\ UNCHANGED mapping
    ELSE /\ mapping' = [mapping EXCEPT ![r] = Places(masks)]
         /\ status' = [status EXCEPT ![r] = "ok"]
         /\ pc' = [pc EXCEPT ![r] = "forwarded"]
         /\ UNCHANGED failedOpen

\* From the field scans to the end of the hook: _finalize and the rest of
\* async_pre_call_hook, without an await.  (Quantifying over the one value of
\* scans where this is used has TLC compute it once.)
Finalize(r, scans) ==
    /\ kept' = [kept EXCEPT ![r] = scans]
    /\ Observe(r, ResultOf(r, scans), Flagged(r))
    /\ \/ /\ ContentBlocked(scans)
          /\ Reject(r, "pii_blocked")
          /\ UNCHANGED <<masked, mapping>>
       \/ /\ ~ContentBlocked(scans) /\ InjectionBlocked(r)
          /\ Reject(r, "injection_blocked")
          /\ UNCHANGED <<masked, mapping>>
       \/ /\ ~ContentBlocked(scans) /\ ~InjectionBlocked(r)
          /\ masked' = [masked EXCEPT ![r] = InAction(scans, "mask")]
          /\ Deliver(r, InAction(scans, "mask"))

\* A body that cannot be walked.
ReceiveUnreadable(r) ==
    /\ pc[r] = "received"
    /\ ~body[r].readable
    /\ InternalError(r)
    /\ UNCHANGED <<policy, body, call, error, kept, masked, mapping, observed, response>>

\* _blocked_oversized: nothing was counted.
OversizedResult == [blocked |-> TRUE, found |-> {}, masked |-> {}, logged |-> {}]

\* A field too long for a scan, whose result has score 0.
ReceiveOversized(r) ==
    /\ pc[r] = "received"
    /\ body[r].readable
    /\ Oversized(r)
    /\ Observe(r, OversizedResult, FlaggedUnscanned)
    /\ Reject(r, "oversized_input")
    /\ UNCHANGED <<policy, body, call, error, kept, masked, mapping, nerFailures, response>>

L1Scans(r) == [f \in FieldsOf(r) |-> ScanResult(body[r].fields[f].l1)]

\* Without NER the whole hook is one synchronous step.
ReceiveL1Only(r) ==
    /\ pc[r] = "received"
    /\ body[r].readable /\ ~Oversized(r)
    /\ ~policy.ner
    /\ \E scans \in {L1Scans(r)} : Finalize(r, scans)
    /\ UNCHANGED <<policy, body, call, error, nerFailures, response>>

\* With NER every field's text goes to the sidecar, an empty one does not.
ReceiveNer(r) ==
    /\ pc[r] = "received"
    /\ body[r].readable /\ ~Oversized(r)
    /\ policy.ner
    /\ pc' = [pc EXCEPT ![r] = "scanning"]
    /\ call' = [call EXCEPT ![r] = [f \in FieldsOf(r) |->
                    IF body[r].fields[f].empty THEN "answered" ELSE "asked"]]
    /\ UNCHANGED <<policy, body, error, results, observed, response>>

\* Mutant: a field is rewritten as soon as its scan is there.
NerAnswersAndMasks(r, f) ==
    /\ call[r][f] = "asked"
    /\ call' = [call EXCEPT ![r][f] = "answered"]
    /\ masked' = [masked EXCEPT ![r][f] =
                     WithAction(ScanResult(body[r].fields[f].l1), "mask")]
    /\ UNCHANGED <<policy, body, pc, error, kept, mapping, status, failedOpen,
                   observed, response>>

\* The sidecar answers one of the calls.
NerAnswers(r, f) ==
    /\ call[r][f] = "asked"
    /\ call' = [call EXCEPT ![r][f] = "answered"]
    /\ UNCHANGED <<policy, body, pc, error, results, observed, response>>

\* A call that ends its scan; the first to do so decides what gather() raises.
Fail(r, f, how) ==
    /\ call' = [call EXCEPT ![r][f] = how]
    /\ error' = [error EXCEPT ![r] = IF @ = "none" THEN how ELSE @]

\* Mutant: one failure is counted per request.
NerUnavailableCountedOnce(r, f) ==
    /\ call[r][f] = "asked"
    /\ \/ /\ policy.onFailure = "block"
          /\ Fail(r, f, "unavailable")
          /\ UNCHANGED nerFailures
       \/ /\ policy.onFailure = "degrade"
          /\ IF \E g \in FieldsOf(r) : call[r][g] = "unavailable"
               THEN UNCHANGED nerFailures ELSE IncrNerFailure(TRUE)
          /\ call' = [call EXCEPT ![r][f] = "unavailable"]
          /\ UNCHANGED error
    /\ UNCHANGED <<policy, body, pc, results, told, response>>

\* Mutant: a failing call ends the request itself, ended already or not.
NerUnavailableRejects(r, f) ==
    /\ call[r][f] = "asked"
    /\ call' = [call EXCEPT ![r][f] = "unavailable"]
    /\ Reject(r, "ner_unavailable")
    /\ UNCHANGED <<policy, body, error, kept, masked, mapping, observed, response>>

\* Timeout, connection, HTTP or JSON error: NerUnavailable.  Degraded, the field
\* goes on with L1, if only the failure can be counted: that is outside of the
\* block in which audit and metrics may raise.
NerUnavailable(r, f) ==
    /\ call[r][f] = "asked"
    /\ \/ /\ policy.onFailure = "block"
          /\ Fail(r, f, "unavailable")
          /\ UNCHANGED nerFailures
       \/ /\ policy.onFailure = "degrade"
          /\ IncrNerFailure(TRUE)
          /\ call' = [call EXCEPT ![r][f] = "unavailable"]
          /\ UNCHANGED error
       \/ /\ policy.onFailure = "degrade"
          /\ IncrNerFailure(FALSE)
          /\ Fail(r, f, "uncounted")
    /\ UNCHANGED <<policy, body, pc, results, told, response>>

\* A JSON answer that is not a list of results: not a NerUnavailable.
NerMalformed(r, f) ==
    /\ call[r][f] = "asked"
    /\ Fail(r, f, "malformed")
    /\ UNCHANGED <<policy, body, pc, results, observed, response>>

\* Mutant: whatever gather() raises is taken for an unavailable sidecar.
ResumeUnavailable(r) ==
    /\ pc[r] = "scanning"
    /\ error[r] # "none"
    /\ Reject(r, "ner_unavailable")
    /\ UNCHANGED <<policy, body, call, error, kept, masked, mapping, observed, response>>

\* Mutant: only NerUnavailable wakes the request up.
ResumeIfUnavailable(r) ==
    /\ pc[r] = "scanning"
    /\ error[r] = "unavailable"
    /\ Reject(r, "ner_unavailable")
    /\ UNCHANGED <<policy, body, call, error, kept, masked, mapping, observed, response>>

\* gather() raises; the calls of the other fields go on by themselves.
ResumeWithError(r) ==
    /\ pc[r] = "scanning"
    /\ error[r] # "none"
    /\ IF error[r] = "unavailable" THEN Reject(r, "ner_unavailable") ELSE InternalError(r)
    /\ UNCHANGED <<policy, body, call, error, kept, masked, mapping, observed, response>>

\* Mutant: the first field to be scanned wakes the request up.
ResumeAtFirst(r) ==
    /\ pc[r] = "scanning"
    /\ error[r] = "none"
    /\ \E f \in FieldsOf(r) : call[r][f] # "asked"
    /\ \E scans \in {L1Scans(r)} : Finalize(r, scans)
    /\ UNCHANGED <<policy, body, call, error, nerFailures, response>>

\* L1 and, if its call has answered, NER.
NerScans(r) == [f \in FieldsOf(r) |->
    ScanResult(IF call[r][f] = "answered"
               THEN body[r].fields[f].l1 \o body[r].fields[f].ner
               ELSE body[r].fields[f].l1)]

\* gather() returns the scans of all fields.
Resume(r) ==
    /\ pc[r] = "scanning"
    /\ error[r] = "none"
    /\ \A f \in FieldsOf(r) : call[r][f] # "asked"
    /\ \E scans \in {NerScans(r)} : Finalize(r, scans)
    /\ UNCHANGED <<policy, body, call, error, nerFailures, response>>

\* The index of a placeholder: those of an entity are numbered field by field,
\* each from its end.
Index(r, p) ==
    Cardinality({q \in Places(masked[r]) :
        /\ q[2].entity = p[2].entity
        /\ q[1] < p[1] \/ (q[1] = p[1] /\ q[2].start >= p[2].start)})

WidePlaces(r) == {p \in Places(masked[r]) : Index(r, p) > MaxIndex}

\* Mutant: the first field's placeholders are restored only.
AnswerFirstOnly(r) ==
    /\ pc[r] = "forwarded"
    /\ pc' = [pc EXCEPT ![r] = "answered"]
    /\ heard' = [heard EXCEPT ![r] = FieldsOf(r)]
    /\ answer' = [answer EXCEPT ![r] =
                     UNION {{f} \X masked[r][f] : f \in FieldsOf(r) \ {1}}]
    /\ UNCHANGED <<policy, body, call, error, results, observed>>

\* The upstream answers with what it was sent; async_post_call_success_hook
\* replaces the placeholders of the mapping in the messages of the answer.  What
\* stands elsewhere it leaves, and a text completion has no messages at all.
Answer(r) ==
    /\ pc[r] = "forwarded"
    /\ pc' = [pc EXCEPT ![r] = "answered"]
    /\ \E fields \in SUBSET {f \in FieldsOf(r) : masked[r][f] # {}} :
        /\ heard' = [heard EXCEPT ![r] = fields]
        /\ answer' = [answer EXCEPT ![r] = Places(masked[r]) \
                         ({p \in mapping[r] : p[1] \in fields} \ WidePlaces(r))]
    /\ UNCHANGED <<policy, body, call, error, results, observed>>

Sidecar(r) == \E f \in FieldsOf(r) :
                  NerAnswers(r, f) \/ NerUnavailable(r, f) \/ NerMalformed(r, f)

Hook(r) == \/ ReceiveUnreadable(r)
           \/ ReceiveOversized(r)
           \/ ReceiveL1Only(r)
           \/ ReceiveNer(r)
           \/ ResumeWithError(r)
           \/ Resume(r)

Next == \E r \in Request : Hook(r) \/ Sidecar(r) \/ Answer(r)

Spec == Init /\ [][Next]_vars

\* The event loop runs every ready coroutine, litellm ends every upstream call by
\* its timeout, and httpx every wait of a call to the sidecar: that the waits of a
\* call are finitely many is assumed.  So something happens of each request as
\* long as anything can.
FairSpec == Spec /\ \A r \in Request : WF_vars(Hook(r) \/ Sidecar(r) \/ Answer(r))

-----------------------------------------------------------------------------

Sent(r) == pc[r] \in {"forwarded", "answered"}

L1Detections(r, f) ==
    {d \in {body[r].fields[f].l1[i] : i \in DOMAIN body[r].fields[f].l1} :
        ActionOf[d.entity] # "off"}

\* A body goes out only when every field has been scanned to the end, and then
\* everything L1 found in it, with or without a working sidecar, is kept or met
\* by a kept detection that overlaps it; what is kept is masked or only logged,
\* and nothing of it blocks.  The exception is a hook that failed open.
SentIsScanned ==
    \A r \in Request : Sent(r) /\ ~failedOpen[r] =>
        /\ ~Oversized(r)
        /\ \A f \in FieldsOf(r) :
            /\ call[r][f] \notin {"asked", "malformed", "uncounted"}
            /\ call[r][f] = "unavailable" => policy.onFailure = "degrade"
            /\ WithAction(kept[r][f], "block") = {}
            /\ masked[r][f] = WithAction(kept[r][f], "mask")
            /\ \A d \in L1Detections(r, f) :
                   d \in kept[r][f] \/ \E k \in kept[r][f] : Overlap(d, k)

\* No request is refused, and no hook fails open, without the reason its marker
\* gives.  Audit and metrics are never one in the observation of a request; the
\* metric that counts a failed call is, when it raises in a degraded scan.
RefusedForAReason ==
    \A r \in Request :
        LET trouble == \/ ~body[r].readable
                       \/ body[r].metadata = "null"
                       \/ \E f \in FieldsOf(r) : call[r][f] = "malformed"
                       \/ /\ policy.onFailure = "degrade" /\ "metrics_raise" \in Sinks
                          /\ \E f \in FieldsOf(r) : call[r][f] = "uncounted"
        IN  /\ status[r] = "pii_blocked" =>
                   \E f \in FieldsOf(r) : WithAction(kept[r][f], "block") # {}
            /\ status[r] = "injection_blocked" => Flagged(r) /\ policy.injection = "block"
            /\ status[r] = "oversized_input" => Oversized(r)
            /\ status[r] = "ner_unavailable" =>
                   /\ policy.onFailure = "block"
                   /\ \E f \in FieldsOf(r) : call[r][f] = "unavailable"
            /\ status[r] = "pii_filter_error" => trouble /\ policy.onInternalError = "block"
            /\ failedOpen[r] => trouble /\ policy.onInternalError = "allow"

\* A request refused for its content has its body as the client sent it.
RefusedBodyUntouched ==
    \A r \in Request :
        status[r] \notin {"none", "ok", "pii_filter_error"} =>
            masked[r] = NoneIn(r) /\ mapping[r] = {}

\* In the messages of an answer no placeholder is left whose index can be read,
\* also when the hook failed open because of the sidecar or an unreadable body:
\* then nothing has been masked.  Only a mapping that could not be stored leaves
\* some.  Outside of messages, in the text of a completion say, all of them stay.
AnswerRestored ==
    \A r \in Request : pc[r] = "answered" =>
        /\ \/ \A p \in answer[r] : p[1] \in heard[r] => p \in WidePlaces(r)
           \/ failedOpen[r] /\ body[r].metadata = "null"
        /\ \A p \in Places(masked[r]) : p[1] \notin heard[r] => p \in answer[r]

\* The content refusals.
Refusals == {"pii_blocked", "injection_blocked", "oversized_input"}

\* The counters of /metrics agree with what became of the requests, also of
\* those that ran side by side.  When degrading, a call that failed is counted
\* once (also one that fails when its request has ended) unless its metric raised,
\* which ends the scan; otherwise it is not counted.  A request counts as blocked
\* exactly if it was refused for its content, whichever the reason, and its
\* observation came to the counter, also if it raised behind that.
CountersAgree ==
    /\ nerFailures =
         IF policy.onFailure = "block" THEN 0
         ELSE Cardinality({rf \in UNION {{r} \X FieldsOf(r) : r \in Request} :
                              call[rf[1]][rf[2]] = "unavailable"})
    /\ blockedTotal =
         Cardinality({r \in Request : /\ status[r] \in Refusals
                                      /\ sink[r] \in {"work", "late_raise"}})

\* An audit event tells what happened to its request: it says blocked exactly
\* of one refused for its content, and then that nothing was replaced; of any
\* other it tells each detection the scan kept, as replaced in the body or as
\* left there, although the hook may have failed after the event was written.
EventTellsWhatHappened ==
    \A r \in Request : \A i \in DOMAIN events[r] :
        LET e == events[r][i]
        IN  /\ e.blocked <=> status[r] \in Refusals
            /\ e.found = Places(kept[r])
            /\ e.masked = Places(masked[r])
            /\ e.logged = IF e.blocked THEN {} ELSE Places(kept[r]) \ Places(masked[r])

\* Every verdict leaves exactly one audit event, also if the metrics behind it
\* raise.  Those without one are the requests that were never scanned to the end,
\* because the body could not be read or a call ended the scan, be it that the
\* sidecar failed or that its failure could not be counted, and those whose event
\* could not be written.
EveryVerdictAudited ==
    \A r \in Request :
        Len(events[r]) =
            IF \/ status[r] = "none"
               \/ ~body[r].readable
               \/ error[r] # "none"
               \/ sink[r] = "audit_raises"
            THEN 0 ELSE 1

Strong(fired) == \E p \in fired : Weights[p[1]][p[2]] = 2

TwoCategories(fired) == \E p, q \in fired : p[1] # q[1]

\* The signals of a request, for a threshold of at most 2: a strong pattern, or
\* weak ones of two categories in one field; weak ones of one category or of
\* different fields do not add up.  With a threshold of 0 there need be none.
Signals(r) ==
    \/ policy.threshold <= 0
    \/ \E f \in FieldsOf(r) :
           LET fired == body[r].fields[f].fired
           IN  /\ fired # {}
               /\ policy.threshold = 1 \/ Strong(fired) \/ TwoCategories(fired)

\* Requests are flagged, and refused where the policy says so, for their signals
\* and for nothing else; one refused for its length counts as flagged only if
\* every request does.
FlaggedForItsSignals ==
    policy.threshold <= 2 =>
        /\ flaggedTotal =
             Cardinality({r \in Request :
                 /\ sink[r] = "work"
                 /\ policy.injection # "off"
                 /\ IF status[r] = "oversized_input" THEN policy.threshold <= 0 ELSE Signals(r)})
        /\ \A r \in Request :
             /\ status[r] = "injection_blocked" => Signals(r)
             /\ Sent(r) /\ ~failedOpen[r] /\ policy.injection = "block" => ~Signals(r)

\* Every request comes to an answer or a refusal, whatever the sidecar does.
EveryRequestConcludes ==
    \A r \in Request : <>(pc[r] \in {"answered", "rejected"})

\* What RequestLife tells apart: where a request stands, and the places of what
\* was found, replaced and left in it.
LifeOf(r) ==
    CASE pc[r] \in {"received", "scanning"} -> "open"
      [] pc[r] = "rejected"  -> "refused"
      [] pc[r] = "forwarded" -> IF failedOpen[r] THEN "unchecked" ELSE "sent"
      [] pc[r] = "answered"  -> "answered"

ActedOn(action) == {p \in Place : ActionOf[p[2].entity] = action}

Promise == INSTANCE RequestLife WITH
    ToMask <- ActedOn("mask"),
    ToBlock <- ActedOn("block"),
    lenient <- policy.onInternalError = "allow",
    life <- [r \in Request |-> LifeOf(r)],
    found <- [r \in Request |-> Places(kept[r])],
    hidden <- [r \in Request |-> IF pc[r] = "rejected" THEN {} ELSE Places(masked[r])],
    reach <- [r \in Request |-> {p \in Places(masked[r]) : p[1] \in heard[r]} \ WidePlaces(r)],
    left <- answer

\* The handlers keep the promise of RequestLife.  A verdict is final: calls that
\* answer late, after a sibling's failure has ended the request, change nothing
\* of it.
RefinesRequestLife == Promise!Spec

\* What design decision D5 says of the sidecar: when it is out of order and the
\* policy is to degrade, the requests are still served from L1.
DegradesOnSidecarFault ==
    \A r \in Request :
        body[r].readable /\ body[r].metadata = "dict" /\ policy.onFailure = "degrade" =>
            status[r] # "pii_filter_error" /\ ~failedOpen[r]

\* What the comments on normalisation say: detection, masking and forwarding all
\* use the normalised text.  Only the setter of a field with something to mask
\* is called, so only then does it leave normalised.
ForwardsWhatWasScanned ==
    \A r \in Request : Sent(r) /\ ~failedOpen[r] =>
        \A f \in FieldsOf(r) : body[r].fields[f].folds => masked[r][f] # {}

=============================================================================
