--------------------------- MODULE Gateway_proofs ---------------------------
(***************************************************************************)
(* What is proved of the request path, for every set of requests, bodies,  *)
(* policies and entities, and whatever the sidecar and the sinks do.       *)
(***************************************************************************)
EXTENDS Gateway, Lemmas

\* The scans of the fields: sets of detections the policy does not switch off.
Scans(r) == [FieldsOf(r) -> SUBSET {d \in Detection : ActionOf[d.entity] # "off"}]

\* The fields of a body are numbered.
LEMMA FieldsAreNumbered ==
    ASSUME TypeOK, NEW r \in Request
    PROVE  /\ FieldsOf(r) \subseteq Nat
           /\ \A f \in FieldsOf(r) : body[r].fields[f] \in Field
<1>1. body[r].fields \in Seq(Field)
  BY DEF TypeOK, Body
<1>2. \A f \in 1..Len(body[r].fields) : body[r].fields[f] \in Field
  BY <1>1, ElementOfSeq
<1>3. DOMAIN body[r].fields = 1..Len(body[r].fields) /\ Len(body[r].fields) \in Nat
  BY <1>1, LenProperties
<1>. QED  BY <1>2, <1>3 DEF FieldsOf

\* What merge() leaves is among what was found and is not switched off.
LEMMA ScanResultType ==
    ASSUME NEW found \in Seq(Detection)
    PROVE  ScanResult(found) \subseteq {d \in Detection : ActionOf[d.entity] # "off"}
<1>1. Merged(found) \subseteq Active(found)
  BY DEF Merged
<1>2. \A i \in Active(found) : found[i] \in Detection /\ ActionOf[found[i].entity] # "off"
  BY ElementOfSeq DEF Active
<1>. QED  BY <1>1, <1>2 DEF ScanResult

LEMMA L1ScansType ==
    ASSUME TypeOK, NEW r \in Request PROVE L1Scans(r) \in Scans(r)
<1>1. ASSUME NEW f \in FieldsOf(r)
      PROVE  ScanResult(body[r].fields[f].l1)
               \subseteq {d \in Detection : ActionOf[d.entity] # "off"}
  <2>1. body[r].fields[f].l1 \in Seq(Detection)
    BY FieldsAreNumbered DEF Field
  <2>. QED  BY <2>1, ScanResultType
<1>. QED  BY <1>1 DEF L1Scans, Scans

LEMMA NerScansType ==
    ASSUME TypeOK, NEW r \in Request PROVE NerScans(r) \in Scans(r)
<1> DEFINE all(f) == IF call[r][f] = "answered"
                     THEN body[r].fields[f].l1 \o body[r].fields[f].ner
                     ELSE body[r].fields[f].l1
<1>1. ASSUME NEW f \in FieldsOf(r)
      PROVE  ScanResult(all(f)) \subseteq {d \in Detection : ActionOf[d.entity] # "off"}
  <2>1. body[r].fields[f].l1 \in Seq(Detection) /\ body[r].fields[f].ner \in Seq(Detection)
    BY FieldsAreNumbered DEF Field
  <2>2. body[r].fields[f].l1 \o body[r].fields[f].ner \in Seq(Detection)
    BY <2>1, ConcatProperties
  <2>3. all(f) \in Seq(Detection)
    BY <2>1, <2>2
  <2>. QED  BY <2>3, ScanResultType
<1>. QED  BY <1>1 DEF NerScans, Scans

-----------------------------------------------------------------------------

\* The places of a scan and of what an action of the policy selects of it.
LEMMA PlacesType ==
    ASSUME TypeOK, NEW r \in Request, NEW scans \in Scans(r), NEW action
    PROVE  /\ Places(scans) \subseteq Place
           /\ Places(scans) \subseteq FieldsOf(r) \X Detection
           /\ InAction(scans, action) \in Scans(r)
           /\ Places(InAction(scans, action))
                = {p \in Places(scans) : ActionOf[p[2].entity] = action}
<1>1. DOMAIN scans = FieldsOf(r) /\ \A f \in FieldsOf(r) : scans[f] \subseteq Detection
  BY DEF Scans
<1>2. Places(scans) \subseteq FieldsOf(r) \X Detection
  BY <1>1 DEF Places
<1>3. Places(scans) \subseteq Place
  BY <1>2, FieldsAreNumbered DEF Place
<1>4. InAction(scans, action) \in Scans(r)
  BY DEF InAction, WithAction, Scans
<1>5. /\ DOMAIN InAction(scans, action) = FieldsOf(r)
      /\ \A f \in FieldsOf(r) : InAction(scans, action)[f]
                                  = {d \in scans[f] : ActionOf[d.entity] = action}
  BY <1>1 DEF InAction, WithAction
<1>6. \A f, d : <<f, d>> \in Places(scans) <=> f \in FieldsOf(r) /\ d \in scans[f]
  BY <1>1 DEF Places
<1>7. \A f, d : <<f, d>> \in Places(InAction(scans, action))
                  <=> f \in FieldsOf(r) /\ d \in scans[f] /\ ActionOf[d.entity] = action
  BY <1>5 DEF Places
<1>8. \A p \in Places(scans) \cup Places(InAction(scans, action)) : p = <<p[1], p[2]>>
  BY <1>1, <1>5 DEF Places
<1>. QED  BY <1>2, <1>3, <1>4, <1>6, <1>7, <1>8

-----------------------------------------------------------------------------

\* The parts of TypeOK that a verdict, an observation and a scan change.
VerdictType ==
    /\ pc \in [Request -> {"received", "scanning", "forwarded", "rejected", "answered"}]
    /\ status \in [Request -> {"none", "ok", "pii_blocked", "oversized_input",
                     "injection_blocked", "ner_unavailable", "pii_filter_error"}]
    /\ failedOpen \in [Request -> BOOLEAN]

ObservedType ==
    /\ events \in [Request -> Seq(Event)]
    /\ sink \in [Request -> Sinks \cup {"none"}]
    /\ blockedTotal \in Nat /\ flaggedTotal \in Nat

\* Functions of the requests whose values depend on the body of the request.
RowFunctions == DOMAIN kept = Request /\ DOMAIN masked = Request /\ DOMAIN mapping = Request

Functions == /\ RowFunctions /\ DOMAIN call = Request
             /\ DOMAIN heard = Request /\ DOMAIN answer = Request

RowType ==
    /\ RowFunctions
    /\ \A r \in Request :
        /\ kept[r] \in [FieldsOf(r) -> SUBSET Detection]
        /\ masked[r] \in [FieldsOf(r) -> SUBSET Detection]
        /\ mapping[r] \subseteq FieldsOf(r) \X Detection

LEMMA RejectType ==
    ASSUME VerdictType, NEW r \in Request, NEW marker,
           marker \in {"pii_blocked", "oversized_input", "injection_blocked", "ner_unavailable"},
           Reject(r, marker)
    PROVE  VerdictType'
BY DEF VerdictType, Reject

LEMMA InternalErrorType ==
    ASSUME VerdictType, NEW r \in Request, InternalError(r)
    PROVE  VerdictType'
<1>1. CASE policy.onInternalError = "block"
  BY <1>1 DEF VerdictType, InternalError
<1>2. CASE policy.onInternalError # "block"
  BY <1>2 DEF VerdictType, InternalError
<1>. QED  BY <1>1, <1>2

LEMMA ObserveType ==
    ASSUME ObservedType, NEW r \in Request, NEW event \in Event, NEW flagged,
           Observe(r, event, flagged)
    PROVE  ObservedType'
<1>1. PICK outcome \in Sinks :
        /\ sink' = [sink EXCEPT ![r] = outcome]
        /\ events' = [events EXCEPT ![r] =
                         IF outcome = "audit_raises" THEN @ ELSE Append(@, event)]
        /\ blockedTotal' = blockedTotal
              + IF outcome \in {"work", "late_raise"} /\ event.blocked THEN 1 ELSE 0
        /\ flaggedTotal' = flaggedTotal + IF outcome = "work" /\ flagged THEN 1 ELSE 0
  BY DEF Observe, LogEvent, RecordScan, IncrInjection
<1>2. Append(events[r], event) \in Seq(Event)
  BY AppendProperties DEF ObservedType
<1>3. sink' \in [Request -> Sinks \cup {"none"}] /\ events' \in [Request -> Seq(Event)]
  BY <1>1, <1>2 DEF ObservedType
<1>4. blockedTotal' \in Nat /\ flaggedTotal' \in Nat
  BY <1>1 DEF ObservedType
<1>. QED  BY <1>3, <1>4 DEF ObservedType

\* The counts of a scan are those of an audit event.
LEMMA ResultType ==
    ASSUME TypeOK, NEW r \in Request, NEW scans \in Scans(r)
    PROVE  ResultOf(r, scans) \in Event /\ OversizedResult \in Event
<1>1. /\ Places(scans) \subseteq Place
      /\ Places(InAction(scans, "mask")) \subseteq Place
      /\ Places(InAction(scans, "log_only")) \subseteq Place
  BY PlacesType
<1>. QED  BY <1>1 DEF ResultOf, OversizedResult, Event

\* What a finished scan changes keeps its type.
LEMMA FinalizeType ==
    ASSUME TypeOK, Functions, NEW r \in Request, NEW scans \in Scans(r),
           Finalize(r, scans), body' = body
    PROVE  VerdictType' /\ ObservedType' /\ RowType'
<1>1. VerdictType /\ ObservedType /\ RowType
  BY DEF TypeOK, VerdictType, ObservedType, RowType, Functions
<1>2. ObservedType'
  BY <1>1, ResultType, ObserveType DEF Finalize
<1>3. /\ scans \in [FieldsOf(r) -> SUBSET Detection]
      /\ InAction(scans, "mask") \in [FieldsOf(r) -> SUBSET Detection]
      /\ Places(InAction(scans, "mask")) \subseteq FieldsOf(r) \X Detection
  <2>1. InAction(scans, "mask") \in Scans(r)
    BY PlacesType
  <2>. QED  BY <2>1, PlacesType DEF Scans
<1>4. \A q \in Request : FieldsOf(q)' = FieldsOf(q)
  BY DEF FieldsOf
<1>5. /\ DOMAIN kept' = Request
      /\ \A q \in Request : kept'[q] \in [FieldsOf(q) -> SUBSET Detection]
  BY <1>1, <1>3 DEF Finalize, RowType, RowFunctions
<1>6. CASE ContentBlocked(scans)
  <2>1. Reject(r, "pii_blocked") /\ masked' = masked /\ mapping' = mapping
    BY <1>6 DEF Finalize
  <2>2. VerdictType'
    BY <1>1, <2>1, RejectType
  <2>. QED  BY <1>1, <1>2, <1>4, <1>5, <2>1, <2>2 DEF RowType, RowFunctions
<1>7. CASE ~ContentBlocked(scans) /\ InjectionBlocked(r)
  <2>1. Reject(r, "injection_blocked") /\ masked' = masked /\ mapping' = mapping
    BY <1>7 DEF Finalize
  <2>2. VerdictType'
    BY <1>1, <2>1, RejectType
  <2>. QED  BY <1>1, <1>2, <1>4, <1>5, <2>1, <2>2 DEF RowType, RowFunctions
<1>8. CASE ~ContentBlocked(scans) /\ ~InjectionBlocked(r)
  <2>1. /\ masked' = [masked EXCEPT ![r] = InAction(scans, "mask")]
        /\ Deliver(r, InAction(scans, "mask"))
    BY <1>8 DEF Finalize
  <2>2. /\ DOMAIN masked' = Request
        /\ \A q \in Request : masked'[q] \in [FieldsOf(q) -> SUBSET Detection]
    BY <1>1, <1>3, <2>1 DEF RowType, RowFunctions
  <2>3. CASE body[r].metadata = "null"
    <3>1. InternalError(r) /\ mapping' = mapping
      BY <2>1, <2>3 DEF Deliver
    <3>2. VerdictType'
      BY <1>1, <3>1, InternalErrorType
    <3>. QED  BY <1>1, <1>2, <1>4, <1>5, <2>2, <3>1, <3>2 DEF RowType, RowFunctions
  <2>4. CASE body[r].metadata # "null"
    <3>1. /\ mapping' = [mapping EXCEPT ![r] = Places(InAction(scans, "mask"))]
          /\ status' = [status EXCEPT ![r] = "ok"]
          /\ pc' = [pc EXCEPT ![r] = "forwarded"]
          /\ failedOpen' = failedOpen
      BY <2>1, <2>4 DEF Deliver
    <3>2. VerdictType'
      BY <1>1, <3>1 DEF VerdictType
    <3>3. /\ DOMAIN mapping' = Request
          /\ \A q \in Request : mapping'[q] \subseteq FieldsOf(q) \X Detection
      BY <1>1, <1>3, <3>1 DEF RowType, RowFunctions
    <3>. QED  BY <1>1, <1>2, <1>4, <1>5, <2>2, <3>2, <3>3 DEF RowType, RowFunctions
  <2>. QED  BY <2>3, <2>4
<1>. QED  BY <1>6, <1>7, <1>8

CallType ==
    /\ DOMAIN call = Request
    /\ error \in [Request -> {"none", "unavailable", "malformed", "uncounted"}]
    /\ nerFailures \in Nat
    /\ \A r \in Request : call[r] \in [FieldsOf(r) ->
           {"none", "asked", "answered", "unavailable", "malformed", "uncounted"}]

AnswerType ==
    /\ DOMAIN heard = Request /\ DOMAIN answer = Request
    /\ \A r \in Request : /\ heard[r] \subseteq FieldsOf(r)
                          /\ answer[r] \subseteq FieldsOf(r) \X Detection

FixedType == policy \in Policy /\ body \in [Request -> Body]

\* The parts make up the type invariant.
LEMMA TypeParts ==
    TypeOK /\ Functions <=> /\ FixedType /\ VerdictType /\ ObservedType
                            /\ RowType /\ CallType /\ AnswerType
BY DEF TypeOK, Functions, RowFunctions, FixedType, VerdictType, ObservedType,
       RowType, CallType, AnswerType

LEMMA TypePartsNext ==
    ASSUME FixedType', VerdictType', ObservedType', RowType', CallType', AnswerType'
    PROVE  TypeOK' /\ Functions'
BY TypeParts DEF TypeOK, Functions, RowFunctions, FixedType, VerdictType, ObservedType,
       RowType, CallType, AnswerType

\* Parts whose variables a step leaves alone keep their type.
LEMMA TypeFrame ==
    ASSUME TypeOK, Functions, body' = body
    PROVE  /\ policy' = policy => FixedType'
           /\ UNCHANGED <<pc, status, failedOpen>> => VerdictType'
           /\ UNCHANGED told => ObservedType'
           /\ UNCHANGED <<kept, masked, mapping>> => RowType'
           /\ UNCHANGED <<call, error, nerFailures>> => CallType'
           /\ UNCHANGED response => AnswerType'
<1>1. /\ FixedType /\ VerdictType /\ ObservedType /\ RowType /\ CallType /\ AnswerType
  BY TypeParts
<1>2. \A q \in Request : FieldsOf(q)' = FieldsOf(q)
  BY DEF FieldsOf
<1>3. policy' = policy => FixedType'
  BY <1>1 DEF FixedType
<1>4. UNCHANGED <<pc, status, failedOpen>> => VerdictType'
  BY <1>1 DEF VerdictType
<1>5. UNCHANGED told => ObservedType'
  BY <1>1 DEF ObservedType, told
<1>6. UNCHANGED <<kept, masked, mapping>> => RowType'
  BY <1>1, <1>2 DEF RowType, RowFunctions
<1>7. UNCHANGED <<call, error, nerFailures>> => CallType'
  BY <1>1, <1>2 DEF CallType
<1>8. UNCHANGED response => AnswerType'
  BY <1>1, <1>2 DEF AnswerType, response
<1>. QED  BY <1>3, <1>4, <1>5, <1>6, <1>7, <1>8

\* A call that ends keeps the types.
LEMMA SidecarType ==
    ASSUME TypeOK, Functions, NEW r \in Request, NEW f \in FieldsOf(r),
           NerAnswers(r, f) \/ NerUnavailable(r, f) \/ NerMalformed(r, f)
    PROVE  TypeOK' /\ Functions'
<1>1. CallType
  BY TypeParts
<1>2. /\ policy' = policy /\ body' = body
      /\ UNCHANGED <<pc, status, failedOpen>> /\ UNCHANGED told
      /\ UNCHANGED <<kept, masked, mapping>> /\ UNCHANGED response
  BY DEF NerAnswers, NerUnavailable, NerMalformed, results, observed
<1>3. PICK end \in {"answered", "unavailable", "malformed", "uncounted"} :
        call' = [call EXCEPT ![r][f] = end]
  BY DEF NerAnswers, NerUnavailable, NerMalformed, Fail
<1>4. /\ error' \in [Request -> {"none", "unavailable", "malformed", "uncounted"}]
      /\ nerFailures' \in Nat
  <2>1. CASE NerAnswers(r, f)
    BY <1>1, <2>1 DEF CallType, NerAnswers, observed
  <2>2. CASE NerUnavailable(r, f)
    <3>1. nerFailures' \in {nerFailures, nerFailures + 1}
      BY <2>2 DEF NerUnavailable, IncrNerFailure
    <3>2. \/ error' = error
          \/ \E how \in {"unavailable", "uncounted"} : Fail(r, f, how)
      BY <2>2 DEF NerUnavailable
    <3>. QED  BY <1>1, <3>1, <3>2 DEF CallType, Fail
  <2>3. CASE NerMalformed(r, f)
    BY <1>1, <2>3 DEF CallType, NerMalformed, Fail, observed
  <2>. QED  BY <2>1, <2>2, <2>3
<1>5. CallType'
  <2>1. \A q \in Request : FieldsOf(q)' = FieldsOf(q)
    BY <1>2 DEF FieldsOf
  <2>2. DOMAIN call' = Request
    BY <1>1, <1>3 DEF CallType
  <2>3. \A q \in Request : call'[q] \in
            [FieldsOf(q) -> {"none", "asked", "answered", "unavailable", "malformed", "uncounted"}]
    BY <1>1, <1>3 DEF CallType
  <2>. QED  BY <1>4, <2>1, <2>2, <2>3 DEF CallType
<1>. QED  BY <1>2, <1>5, TypeFrame, TypePartsNext

\* Every step of a hook keeps the types.
LEMMA HookType ==
    ASSUME TypeOK, Functions, NEW r \in Request, Hook(r)
    PROVE  TypeOK' /\ Functions'
<1>1. VerdictType /\ ObservedType /\ CallType
  BY TypeParts
<1>2. policy' = policy /\ body' = body /\ UNCHANGED response
  BY DEF Hook, ReceiveUnreadable, ReceiveOversized, ReceiveL1Only, ReceiveNer,
         ResumeWithError, Resume
<1>3. CASE ReceiveUnreadable(r)
  <2>1. /\ UNCHANGED <<kept, masked, mapping>> /\ UNCHANGED told
        /\ UNCHANGED <<call, error, nerFailures>>
    BY <1>3 DEF ReceiveUnreadable, observed
  <2>2. VerdictType'
    BY <1>1, <1>3, InternalErrorType DEF ReceiveUnreadable
  <2>. QED  BY <1>2, <2>1, <2>2, TypeFrame, TypePartsNext
<1>4. CASE ReceiveOversized(r)
  <2>1. UNCHANGED <<kept, masked, mapping>> /\ UNCHANGED <<call, error, nerFailures>>
    BY <1>4 DEF ReceiveOversized
  <2>2. VerdictType'
    BY <1>1, <1>4, RejectType DEF ReceiveOversized
  <2>3. ObservedType'
    <3>1. OversizedResult \in Event
      BY DEF OversizedResult, Event
    <3>. QED  BY <1>1, <1>4, <3>1, ObserveType DEF ReceiveOversized
  <2>. QED  BY <1>2, <2>1, <2>2, <2>3, TypeFrame, TypePartsNext
<1>5. CASE ReceiveL1Only(r)
  <2>1. Finalize(r, L1Scans(r)) /\ UNCHANGED <<call, error, nerFailures>>
    BY <1>5 DEF ReceiveL1Only
  <2>2. VerdictType' /\ ObservedType' /\ RowType'
    BY <1>2, <2>1, L1ScansType, FinalizeType
  <2>. QED  BY <1>2, <2>1, <2>2, TypeFrame, TypePartsNext
<1>6. CASE ReceiveNer(r)
  <2>1. /\ UNCHANGED <<kept, masked, mapping>> /\ UNCHANGED told
        /\ error' = error /\ nerFailures' = nerFailures
        /\ status' = status /\ failedOpen' = failedOpen
    BY <1>6 DEF ReceiveNer, results, observed
  <2>2. VerdictType'
    BY <1>1, <1>6, <2>1 DEF ReceiveNer, VerdictType
  <2>3. CallType'
    <3>1. \A q \in Request : FieldsOf(q)' = FieldsOf(q)
      BY <1>2 DEF FieldsOf
    <3>2. call' = [call EXCEPT ![r] = [f \in FieldsOf(r) |->
                      IF body[r].fields[f].empty THEN "answered" ELSE "asked"]]
      BY <1>6 DEF ReceiveNer
    <3>. QED  BY <1>1, <2>1, <3>1, <3>2 DEF CallType
  <2>. QED  BY <1>2, <2>1, <2>2, <2>3, TypeFrame, TypePartsNext
<1>7. CASE ResumeWithError(r)
  <2>1. /\ UNCHANGED <<kept, masked, mapping>> /\ UNCHANGED told
        /\ UNCHANGED <<call, error, nerFailures>>
    BY <1>7 DEF ResumeWithError, observed
  <2>2. VerdictType'
    BY <1>1, <1>7, RejectType, InternalErrorType DEF ResumeWithError
  <2>. QED  BY <1>2, <2>1, <2>2, TypeFrame, TypePartsNext
<1>8. CASE Resume(r)
  <2>1. Finalize(r, NerScans(r)) /\ UNCHANGED <<call, error, nerFailures>>
    BY <1>8 DEF Resume
  <2>2. VerdictType' /\ ObservedType' /\ RowType'
    BY <1>2, <2>1, NerScansType, FinalizeType
  <2>. QED  BY <1>2, <2>1, <2>2, TypeFrame, TypePartsNext
<1>. QED  BY <1>3, <1>4, <1>5, <1>6, <1>7, <1>8 DEF Hook

LEMMA AnswerKeepsType ==
    ASSUME TypeOK, Functions, NEW r \in Request, Answer(r)
    PROVE  TypeOK' /\ Functions'
<1>1. VerdictType /\ RowType /\ AnswerType
  BY TypeParts
<1>2. /\ policy' = policy /\ body' = body /\ UNCHANGED told
      /\ UNCHANGED <<kept, masked, mapping>> /\ UNCHANGED <<call, error, nerFailures>>
      /\ status' = status /\ failedOpen' = failedOpen
  BY DEF Answer, results, observed
<1>3. VerdictType'
  BY <1>1, <1>2 DEF Answer, VerdictType
<1>4. Places(masked[r]) \subseteq FieldsOf(r) \X Detection
  BY <1>1 DEF Places, RowType
<1>5. AnswerType'
  <2>1. \A q \in Request : FieldsOf(q)' = FieldsOf(q)
    BY <1>2 DEF FieldsOf
  <2>2. PICK fields \in SUBSET FieldsOf(r) :
          /\ heard' = [heard EXCEPT ![r] = fields]
          /\ answer' = [answer EXCEPT ![r] = Places(masked[r]) \
                            ({p \in mapping[r] : p[1] \in fields} \ WidePlaces(r))]
    BY DEF Answer
  <2>. QED  BY <1>1, <1>4, <2>1, <2>2 DEF AnswerType
<1>. QED  BY <1>2, <1>3, <1>5, TypeFrame, TypePartsNext

LEMMA InitType == Init => TypeOK /\ Functions
<1> SUFFICES ASSUME Init PROVE TypeOK /\ Functions
  OBVIOUS
<1>1. policy \in Policy /\ body \in [Request -> Body]
  BY BodiesAssumption, PoliciesAssumption DEF Init
<1>2. << >> \in Seq(Event)
  BY EmptySeq
<1>. QED  BY <1>1, <1>2 DEF Init, TypeOK, Functions, RowFunctions, NoneIn

\* A step of request r.
StepOf(r) == Hook(r) \/ Sidecar(r) \/ Answer(r)

LEMMA NextType ==
    ASSUME TypeOK, Functions, NEW r \in Request, StepOf(r)
    PROVE  TypeOK' /\ Functions'
BY HookType, SidecarType, AnswerKeepsType DEF StepOf, Sidecar

-----------------------------------------------------------------------------

\* A step leaves the rest of request q as it is.
Same(q) ==
    /\ pc'[q] = pc[q] /\ status'[q] = status[q] /\ failedOpen'[q] = failedOpen[q]
    /\ kept'[q] = kept[q] /\ masked'[q] = masked[q] /\ mapping'[q] = mapping[q]
    /\ heard'[q] = heard[q] /\ answer'[q] = answer[q]
    /\ events'[q] = events[q] /\ sink'[q] = sink[q]
    /\ call'[q] = call[q] /\ error'[q] = error[q]

\* How a call of the sidecar may end.
LEMMA CallEnds ==
    ASSUME NEW r \in Request, NEW f \in FieldsOf(r),
           NerAnswers(r, f) \/ NerUnavailable(r, f) \/ NerMalformed(r, f)
    PROVE  \E end \in {"answered", "unavailable", "malformed", "uncounted"} :
             /\ call[r][f] = "asked"
             /\ call' = [call EXCEPT ![r][f] = end]
             /\ \/ /\ error' = error
                   /\ \/ end = "answered"
                      \/ end = "unavailable" /\ policy.onFailure = "degrade"
                \/ error' = [error EXCEPT ![r] = IF @ = "none" THEN end ELSE @]
             /\ end = "answered" => error' = error
             /\ end = "unavailable" /\ policy.onFailure # "block" => error' = error
             /\ end = "uncounted" => policy.onFailure = "degrade" /\ "metrics_raise" \in Sinks
<1>1. CASE NerAnswers(r, f)
  BY <1>1 DEF NerAnswers
<1>2. CASE NerUnavailable(r, f)
  BY <1>2 DEF NerUnavailable, Fail, IncrNerFailure
<1>3. CASE NerMalformed(r, f)
  BY <1>3 DEF NerMalformed, Fail
<1>. QED  BY <1>1, <1>2, <1>3

\* A step of one request is none of another.
LEMMA OthersSame ==
    ASSUME TypeOK, Functions, NEW r \in Request, StepOf(r), NEW q \in Request, q # r
    PROVE  Same(q)
<1> USE DEF Same, TypeOK, Functions, RowFunctions, results, observed, told, response
<1>1. CASE Sidecar(r)
  <2>1. /\ call'[q] = call[q] /\ error'[q] = error[q]
    BY <1>1, CallEnds DEF Sidecar
  <2>2. UNCHANGED <<policy, body, pc, results, told, response>>
    BY <1>1 DEF Sidecar, NerAnswers, NerUnavailable, NerMalformed
  <2>. QED  BY <2>1, <2>2
<1>2. CASE Answer(r)
  BY <1>2 DEF Answer
<1>3. CASE ReceiveUnreadable(r)
  BY <1>3 DEF ReceiveUnreadable, InternalError
<1>4. CASE ReceiveOversized(r)
  BY <1>4 DEF ReceiveOversized, Observe, LogEvent, Reject
<1>5. ASSUME NEW scans, Finalize(r, scans), UNCHANGED <<call, error, response>>
      PROVE  Same(q)
  BY <1>5 DEF Finalize, Observe, LogEvent, Reject, Deliver, InternalError
<1>6. CASE ReceiveL1Only(r)
  BY <1>5, <1>6 DEF ReceiveL1Only
<1>7. CASE ReceiveNer(r)
  BY <1>7 DEF ReceiveNer
<1>8. CASE ResumeWithError(r)
  BY <1>8 DEF ResumeWithError, Reject, InternalError
<1>9. CASE Resume(r)
  BY <1>5, <1>9 DEF Resume
<1>. QED  BY <1>1, <1>2, <1>3, <1>4, <1>6, <1>7, <1>8, <1>9 DEF StepOf, Hook

\* Policy and bodies stay as they are.
LEMMA InputsStay ==
    ASSUME NEW r \in Request, StepOf(r) PROVE policy' = policy /\ body' = body
BY DEF StepOf, Hook, Sidecar, Answer, NerAnswers, NerUnavailable, NerMalformed,
       ReceiveUnreadable, ReceiveOversized, ReceiveL1Only, ReceiveNer, ResumeWithError, Resume

-----------------------------------------------------------------------------

Open(r) == pc[r] \in {"received", "scanning"}

\* Nothing has been said of a request before its verdict.
Waiting(r) ==
    Open(r) => /\ status[r] = "none" /\ ~failedOpen[r] /\ sink[r] = "none"
               /\ kept[r] = NoneIn(r) /\ masked[r] = NoneIn(r) /\ mapping[r] = {}
               /\ events[r] = << >>

\* What a verdict says of the body: refused for its content it is untouched,
\* otherwise nothing in it blocks and what is to be masked is.
Judged(r) ==
    ~Open(r) =>
        /\ status[r] # "none"
        /\ pc[r] = "rejected" <=> status[r] # "ok"
        /\ status[r] \in Refusals \cup {"ner_unavailable"} =>
               masked[r] = NoneIn(r) /\ mapping[r] = {}
        /\ status[r] \notin Refusals =>
               /\ \A f \in FieldsOf(r) : WithAction(kept[r][f], "block") = {}
               /\ masked[r] = InAction(kept[r], "mask")
        /\ status[r] = "ok" /\ ~failedOpen[r] => mapping[r] = Places(masked[r])
        /\ failedOpen[r] => /\ status[r] = "ok"
                            /\ policy.onInternalError = "allow"
                            /\ masked[r] = NoneIn(r) \/ body[r].metadata = "null"

\* An answer shows all that was replaced but what the hook could restore of it.
Answered(r) ==
    IF pc[r] = "answered"
    THEN answer[r] = Places(masked[r]) \
                         ({p \in mapping[r] : p[1] \in heard[r]} \ WidePlaces(r))
    ELSE heard[r] = {} /\ answer[r] = {}

Core(r) == Waiting(r) /\ Judged(r) /\ Answered(r) /\ kept[r] \in Scans(r)

\* The same placeholders are too wide as long as what is replaced stays.
LEMMA WidePlacesFrame ==
    ASSUME NEW r \in Request, masked'[r] = masked[r] PROVE WidePlaces(r)' = WidePlaces(r)
BY DEF WidePlaces, Index, Places

\* What does not change of a request keeps its invariant.
LEMMA CoreFrame ==
    ASSUME NEW q \in Request, Core(q), Same(q), policy' = policy, body' = body
    PROVE  Core(q)'
<1>1. FieldsOf(q)' = FieldsOf(q) /\ NoneIn(q)' = NoneIn(q) /\ Scans(q)' = Scans(q)
  BY DEF FieldsOf, NoneIn, Scans
<1>2. Open(q)' = Open(q)
  BY DEF Open, Same
<1>3. Waiting(q)'
  BY <1>1, <1>2 DEF Core, Same, Waiting
<1>4. Judged(q)'
  <2>1. InAction(kept[q], "mask")' = InAction(kept[q], "mask") /\ Places(masked[q])' = Places(masked[q])
    BY DEF Same, InAction, WithAction, Places
  <2>2. (\A f \in FieldsOf(q) : WithAction(kept[q][f], "block") = {})'
          <=> \A f \in FieldsOf(q) : WithAction(kept[q][f], "block") = {}
    BY <1>1 DEF Same, WithAction
  <2>. QED  BY <1>1, <1>2, <2>1, <2>2 DEF Core, Same, Judged, Refusals
<1>5. Answered(q)'
  <2>1. Places(masked[q])' = Places(masked[q]) /\ WidePlaces(q)' = WidePlaces(q)
    BY WidePlacesFrame DEF Same, Places
  <2>. QED  BY <2>1 DEF Core, Same, Answered
<1>6. (kept[q] \in Scans(q))'
  BY <1>1 DEF Core, Same
<1>. QED  BY <1>3, <1>4, <1>5, <1>6 DEF Core

\* Without detections there is nothing to mask, to block or to restore.
LEMMA NothingIn ==
    ASSUME NEW r \in Request
    PROVE  /\ InAction(NoneIn(r), "mask") = NoneIn(r)
           /\ \A f \in FieldsOf(r) : WithAction(NoneIn(r)[f], "block") = {}
           /\ Places(NoneIn(r)) = {}
           /\ NoneIn(r) \in Scans(r)
<1>1. DOMAIN NoneIn(r) = FieldsOf(r) /\ \A f \in FieldsOf(r) : NoneIn(r)[f] = {}
  BY DEF NoneIn
<1>2. InAction(NoneIn(r), "mask") = NoneIn(r)
  BY <1>1 DEF InAction, WithAction, NoneIn
<1>3. \A f \in FieldsOf(r) : WithAction(NoneIn(r)[f], "block") = {}
  BY <1>1 DEF WithAction
<1>4. Places(NoneIn(r)) = {}
  BY <1>1 DEF Places
<1>5. NoneIn(r) \in Scans(r)
  BY DEF NoneIn, Scans
<1>. QED  BY <1>2, <1>3, <1>4, <1>5

\* An internal error ends the request as the policy says, and a request of which
\* nothing has been found as it must.
LEMMA InternalErrorCore ==
    ASSUME TypeOK, Functions, NEW r \in Request, Core(r), Open(r), InternalError(r),
           UNCHANGED <<policy, body, kept, masked, mapping, response>>
    PROVE  Core(r)'
<1>1. FieldsOf(r)' = FieldsOf(r) /\ NoneIn(r)' = NoneIn(r) /\ Scans(r)' = Scans(r)
  BY DEF FieldsOf, NoneIn, Scans
<1>2. /\ kept'[r] = NoneIn(r) /\ masked'[r] = NoneIn(r) /\ mapping'[r] = {}
      /\ heard'[r] = {} /\ answer'[r] = {} /\ ~failedOpen[r]
  BY DEF Core, Waiting, Answered, Open, response
<1>3. pc' = [pc EXCEPT ![r] = pc'[r]] /\ pc'[r] \in {"rejected", "forwarded"} /\ ~Open(r)'
  BY DEF InternalError, TypeOK, Open
<1>4. \/ /\ pc'[r] = "rejected" /\ status'[r] = "pii_filter_error" /\ ~failedOpen'[r]
      \/ /\ pc'[r] = "forwarded" /\ status'[r] = "ok" /\ failedOpen'[r]
         /\ policy.onInternalError = "allow"
  BY <1>2 DEF InternalError, TypeOK, Policy
<1>5. Judged(r)'
  <2>1. InAction(kept[r], "mask")' = NoneIn(r)
    BY <1>2, NothingIn DEF InAction, WithAction
  <2>2. \A f \in FieldsOf(r) : WithAction(kept'[r][f], "block") = {}
    BY <1>2, NothingIn
  <2>3. (\A f \in FieldsOf(r) : WithAction(kept[r][f], "block") = {})'
    BY <1>1, <2>2 DEF WithAction
  <2>. QED  BY <1>1, <1>2, <1>4, <2>1, <2>3 DEF Judged, Refusals
<1>6. Waiting(r)' /\ Answered(r)'
  BY <1>2, <1>3 DEF Waiting, Answered
<1>7. (kept[r] \in Scans(r))'
  BY <1>1, <1>2, NothingIn
<1>. QED  BY <1>5, <1>6, <1>7 DEF Core

\* So does a refusal before anything has been found.
LEMMA RejectCore ==
    ASSUME TypeOK, Functions, NEW r \in Request, Core(r), Open(r), NEW marker,
           marker \in {"oversized_input", "ner_unavailable"}, Reject(r, marker),
           UNCHANGED <<policy, body, kept, masked, mapping, response>>
    PROVE  Core(r)'
<1>1. FieldsOf(r)' = FieldsOf(r) /\ NoneIn(r)' = NoneIn(r) /\ Scans(r)' = Scans(r)
  BY DEF FieldsOf, NoneIn, Scans
<1>2. /\ kept'[r] = NoneIn(r) /\ masked'[r] = NoneIn(r) /\ mapping'[r] = {}
      /\ heard'[r] = {} /\ answer'[r] = {} /\ ~failedOpen'[r]
  BY DEF Core, Waiting, Answered, Open, Reject, response
<1>3. pc'[r] = "rejected" /\ status'[r] = marker /\ ~Open(r)'
  BY DEF Reject, TypeOK, Open
<1>4. Judged(r)'
  <2>1. InAction(kept[r], "mask")' = NoneIn(r)
    BY <1>2, NothingIn DEF InAction, WithAction
  <2>2. (\A f \in FieldsOf(r) : WithAction(kept[r][f], "block") = {})'
    BY <1>1, <1>2, NothingIn DEF WithAction
  <2>. QED  BY <1>1, <1>2, <1>3, <2>1, <2>2 DEF Judged, Refusals
<1>5. Waiting(r)' /\ Answered(r)'
  BY <1>2, <1>3 DEF Waiting, Answered
<1>6. (kept[r] \in Scans(r))'
  BY <1>1, <1>2, NothingIn
<1>. QED  BY <1>4, <1>5, <1>6 DEF Core

\* And a finished scan.
LEMMA FinalizeCore ==
    ASSUME TypeOK, Functions, NEW r \in Request, Core(r), Open(r),
           NEW scans \in Scans(r), Finalize(r, scans), UNCHANGED <<policy, body, response>>
    PROVE  Core(r)'
<1>1. FieldsOf(r)' = FieldsOf(r) /\ NoneIn(r)' = NoneIn(r) /\ Scans(r)' = Scans(r)
  BY DEF FieldsOf, NoneIn, Scans
<1>2. /\ masked[r] = NoneIn(r) /\ mapping[r] = {} /\ ~failedOpen[r]
      /\ heard'[r] = {} /\ answer'[r] = {} /\ DOMAIN scans = FieldsOf(r)
  BY DEF Core, Waiting, Answered, Open, Scans, response
<1>3. kept'[r] = scans
  BY DEF Finalize, Functions, RowFunctions
<1>4. /\ InAction(kept[r], "mask")' = InAction(scans, "mask")
      /\ Places(masked[r])' = Places(masked'[r])
  BY <1>3 DEF InAction, WithAction, Places
<1>5. (\A f \in FieldsOf(r) : WithAction(kept[r][f], "block") = {})' <=> ~ContentBlocked(scans)
  BY <1>1, <1>2, <1>3 DEF WithAction, ContentBlocked
<1>6. (kept[r] \in Scans(r))'
  BY <1>1, <1>3
<1>7. CASE ContentBlocked(scans) \/ InjectionBlocked(r)
  <2>1. /\ \E marker \in {"pii_blocked", "injection_blocked"} : Reject(r, marker)
        /\ masked' = masked /\ mapping' = mapping
    BY <1>7 DEF Finalize
  <2>2. /\ pc'[r] = "rejected" /\ status'[r] \in {"pii_blocked", "injection_blocked"}
        /\ ~failedOpen'[r] /\ ~Open(r)'
    BY <1>2, <2>1 DEF Reject, TypeOK, Open
  <2>3. Judged(r)'
    BY <1>1, <1>2, <2>1, <2>2 DEF Judged, Refusals
  <2>4. Waiting(r)' /\ Answered(r)'
    BY <1>2, <2>2 DEF Waiting, Answered
  <2>. QED  BY <1>6, <2>3, <2>4 DEF Core
<1>8. CASE ~ContentBlocked(scans) /\ ~InjectionBlocked(r)
  <2>1. masked'[r] = InAction(scans, "mask") /\ Deliver(r, InAction(scans, "mask"))
    BY <1>8 DEF Finalize, Functions, RowFunctions
  <2>2. CASE body[r].metadata = "null"
    <3>1. InternalError(r) /\ mapping'[r] = {}
      BY <1>2, <2>1, <2>2 DEF Deliver
    <3>2. \/ /\ pc'[r] = "rejected" /\ status'[r] = "pii_filter_error" /\ ~failedOpen'[r]
          \/ /\ pc'[r] = "forwarded" /\ status'[r] = "ok" /\ failedOpen'[r]
             /\ policy.onInternalError = "allow"
      BY <1>2, <3>1 DEF InternalError, TypeOK, Policy
    <3>3. ~Open(r)'
      BY <3>2 DEF Open
    <3>4. Judged(r)'
      BY <1>1, <1>4, <1>5, <1>8, <2>1, <2>2, <3>2 DEF Judged, Refusals
    <3>5. Waiting(r)' /\ Answered(r)'
      BY <1>2, <3>2, <3>3 DEF Waiting, Answered
    <3>. QED  BY <1>6, <3>4, <3>5 DEF Core
  <2>3. CASE body[r].metadata # "null"
    <3>1. /\ mapping'[r] = Places(masked'[r]) /\ pc'[r] = "forwarded" /\ status'[r] = "ok"
          /\ ~failedOpen'[r] /\ ~Open(r)'
      BY <1>2, <2>1, <2>3 DEF Deliver, TypeOK, Functions, RowFunctions, Open
    <3>2. Judged(r)'
      BY <1>1, <1>4, <1>5, <1>8, <2>1, <3>1 DEF Judged, Refusals
    <3>3. Waiting(r)' /\ Answered(r)'
      BY <1>2, <3>1 DEF Waiting, Answered
    <3>. QED  BY <1>6, <3>2, <3>3 DEF Core
  <2>. QED  BY <2>2, <2>3
<1>. QED  BY <1>7, <1>8

\* What an answer shows.
LEMMA AnswerAdds ==
    ASSUME Functions, NEW r \in Request, Answer(r)
    PROVE  /\ heard'[r] \subseteq {f \in FieldsOf(r) : masked[r][f] # {}}
           /\ answer'[r] = Places(masked[r]) \
                  ({p \in mapping[r] : p[1] \in heard'[r]} \ WidePlaces(r))
           /\ answer' = [answer EXCEPT ![r] = answer'[r]]
           /\ heard' = [heard EXCEPT ![r] = heard'[r]]
<1>1. PICK fields \in SUBSET {f \in FieldsOf(r) : masked[r][f] # {}} :
        /\ heard' = [heard EXCEPT ![r] = fields]
        /\ answer' = [answer EXCEPT ![r] = Places(masked[r]) \
                          ({p \in mapping[r] : p[1] \in fields} \ WidePlaces(r))]
  BY DEF Answer
<1>2. heard'[r] = fields
  BY <1>1 DEF Functions
<1>3. answer'[r] = Places(masked[r]) \ ({p \in mapping[r] : p[1] \in fields} \ WidePlaces(r))
  BY <1>1 DEF Functions
<1>. QED  BY <1>1, <1>2, <1>3

\* And an answer.
LEMMA AnswerCore ==
    ASSUME TypeOK, Functions, NEW r \in Request, Core(r), Answer(r)
    PROVE  Core(r)'
<1>1. FieldsOf(r)' = FieldsOf(r) /\ NoneIn(r)' = NoneIn(r) /\ Scans(r)' = Scans(r)
  BY DEF FieldsOf, NoneIn, Scans, Answer
<1>2. /\ pc[r] = "forwarded" /\ pc'[r] = "answered" /\ ~Open(r) /\ ~Open(r)'
      /\ UNCHANGED <<policy, body, kept, masked, mapping, status, failedOpen>>
  BY DEF Answer, TypeOK, Open, results
<1>3. /\ InAction(kept[r], "mask")' = InAction(kept[r], "mask")
      /\ Places(masked[r])' = Places(masked[r])
      /\ (\A f \in FieldsOf(r) : WithAction(kept[r][f], "block") = {})'
            <=> \A f \in FieldsOf(r) : WithAction(kept[r][f], "block") = {}
  BY <1>1, <1>2 DEF InAction, WithAction, Places
<1>4. Judged(r)'
  BY <1>1, <1>2, <1>3 DEF Core, Judged, Refusals
<1>5. answer'[r] = Places(masked[r]) \ ({p \in mapping[r] : p[1] \in heard'[r]} \ WidePlaces(r))
  BY AnswerAdds
<1>6. Waiting(r)' /\ Answered(r)'
  BY <1>2, <1>3, <1>5, WidePlacesFrame DEF Waiting, Answered
<1>. QED  BY <1>1, <1>2, <1>4, <1>6 DEF Core

\* Nothing is said of a request while its calls are under way.
LEMMA WaitingCore ==
    ASSUME TypeOK, Functions, NEW r \in Request, Core(r), Open(r), Open(r)',
           pc'[r] # "answered", UNCHANGED <<policy, body, results, told, response>>
    PROVE  Core(r)'
<1>1. FieldsOf(r)' = FieldsOf(r) /\ NoneIn(r)' = NoneIn(r) /\ Scans(r)' = Scans(r)
  BY DEF FieldsOf, NoneIn, Scans
<1>. QED  BY <1>1 DEF Core, Waiting, Judged, Answered, Open, results, told, response

\* A call that ends changes nothing of what has been said.
LEMMA SidecarCore ==
    ASSUME NEW r \in Request, Core(r), Sidecar(r)
    PROVE  Core(r)'
<1>1. UNCHANGED <<policy, body, pc, results, told, response>>
  BY DEF Sidecar, NerAnswers, NerUnavailable, NerMalformed, observed
<1>2. FieldsOf(r)' = FieldsOf(r) /\ NoneIn(r)' = NoneIn(r) /\ Scans(r)' = Scans(r)
      /\ Open(r)' = Open(r)
  BY <1>1 DEF FieldsOf, NoneIn, Scans, Open
<1>3. /\ InAction(kept[r], "mask")' = InAction(kept[r], "mask")
      /\ Places(masked[r])' = Places(masked[r])
      /\ (\A f \in FieldsOf(r) : WithAction(kept[r][f], "block") = {})'
            <=> \A f \in FieldsOf(r) : WithAction(kept[r][f], "block") = {}
  BY <1>1, <1>2 DEF InAction, WithAction, Places, results
<1>4. Waiting(r)' /\ Answered(r)'
  BY <1>1, <1>2, <1>3, WidePlacesFrame DEF Core, Waiting, Answered, results, told, response
<1>5. Judged(r)'
  BY <1>1, <1>2, <1>3 DEF Core, Judged, Refusals, results
<1>. QED  BY <1>1, <1>2, <1>4, <1>5 DEF Core, results

LEMMA NextCore ==
    ASSUME TypeOK, Functions, NEW r \in Request, StepOf(r), \A q \in Request : Core(q)
    PROVE  \A q \in Request : Core(q)'
<1>1. policy' = policy /\ body' = body
  BY InputsStay
<1>2. ASSUME NEW q \in Request, q # r PROVE Core(q)'
  BY <1>1, <1>2, OthersSame, CoreFrame
<1>3. Core(r)'
  <2>1. CASE Sidecar(r)
    BY <2>1, SidecarCore
  <2>2. CASE Answer(r)
    BY <2>2, AnswerCore
  <2>3. CASE ReceiveUnreadable(r)
    <3>1. Open(r) /\ InternalError(r) /\ UNCHANGED <<policy, body, kept, masked, mapping, response>>
      BY <2>3 DEF ReceiveUnreadable, Open
    <3>. QED  BY <3>1, InternalErrorCore
  <2>4. CASE ReceiveOversized(r)
    <3>1. /\ Open(r) /\ Reject(r, "oversized_input")
          /\ UNCHANGED <<policy, body, kept, masked, mapping, response>>
      BY <2>4 DEF ReceiveOversized, Open
    <3>. QED  BY <3>1, RejectCore
  <2>5. CASE ReceiveL1Only(r)
    <3>1. Open(r) /\ Finalize(r, L1Scans(r)) /\ UNCHANGED <<policy, body, response>>
      BY <2>5 DEF ReceiveL1Only, Open
    <3>. QED  BY <3>1, L1ScansType, FinalizeCore
  <2>6. CASE ReceiveNer(r)
    <3>1. /\ Open(r) /\ Open(r)' /\ pc'[r] # "answered"
          /\ UNCHANGED <<policy, body, results, told, response>>
      BY <2>6 DEF ReceiveNer, Open, TypeOK, observed
    <3>. QED  BY <3>1, WaitingCore
  <2>7. CASE ResumeWithError(r)
    <3>1. Open(r) /\ UNCHANGED <<policy, body, kept, masked, mapping, response>>
      BY <2>7 DEF ResumeWithError, Open
    <3>2. Reject(r, "ner_unavailable") \/ InternalError(r)
      BY <2>7 DEF ResumeWithError
    <3>. QED  BY <3>1, <3>2, RejectCore, InternalErrorCore
  <2>8. CASE Resume(r)
    <3>1. Open(r) /\ Finalize(r, NerScans(r)) /\ UNCHANGED <<policy, body, response>>
      BY <2>8 DEF Resume, Open
    <3>. QED  BY <3>1, NerScansType, FinalizeCore
  <2>. QED  BY <2>1, <2>2, <2>3, <2>4, <2>5, <2>6, <2>7, <2>8 DEF StepOf, Hook
<1>. QED  BY <1>2, <1>3

-----------------------------------------------------------------------------

\* A call failed in a degraded scan and its metric raised.
Uncounted(r) == /\ policy.onFailure = "degrade" /\ "metrics_raise" \in Sinks
                /\ \E f \in FieldsOf(r) : call[r][f] = "uncounted"

\* The calls of a request explain what gather() raises, and none of a scan that
\* went well is under way when the verdict is there.
Calls(r) ==
    /\ pc[r] = "received" => error[r] = "none" /\ \A f \in FieldsOf(r) : call[r][f] = "none"
    /\ pc[r] = "scanning" => body[r].readable
    /\ ~Open(r) /\ error[r] = "none" => \A f \in FieldsOf(r) : call[r][f] # "asked"
    /\ error[r] = "unavailable" =>
           policy.onFailure = "block" /\ \E f \in FieldsOf(r) : call[r][f] = "unavailable"
    /\ error[r] = "malformed" => \E f \in FieldsOf(r) : call[r][f] = "malformed"
    /\ error[r] = "uncounted" => Uncounted(r)

Trouble(r) == \/ ~body[r].readable
              \/ body[r].metadata = "null"
              \/ \E f \in FieldsOf(r) : call[r][f] = "malformed"
              \/ Uncounted(r)

\* RefusedForAReason, of one request.
Reasoned(r) ==
    /\ status[r] = "pii_blocked" => \E f \in FieldsOf(r) : WithAction(kept[r][f], "block") # {}
    /\ status[r] = "injection_blocked" => Flagged(r) /\ policy.injection = "block"
    /\ status[r] = "oversized_input" => Oversized(r)
    /\ status[r] = "ner_unavailable" =>
           policy.onFailure = "block" /\ \E f \in FieldsOf(r) : call[r][f] = "unavailable"
    /\ status[r] = "pii_filter_error" => Trouble(r) /\ policy.onInternalError = "block"
    /\ failedOpen[r] => Trouble(r) /\ policy.onInternalError = "allow"

\* What an audit event has to tell of request r.
TrueOf(e, r) ==
    /\ e.blocked <=> status[r] \in Refusals
    /\ e.found = Places(kept[r])
    /\ e.masked = Places(masked[r])
    /\ e.logged = IF e.blocked THEN {} ELSE Places(kept[r]) \ Places(masked[r])

\* EveryVerdictAudited and EventTellsWhatHappened, of one request that has its
\* verdict.
Audited(r) ==
    ~Open(r) =>
        IF ~body[r].readable \/ error[r] # "none" \/ sink[r] = "audit_raises"
        THEN events[r] = << >>
        ELSE \E e \in Event : events[r] = <<e>> /\ TrueOf(e, r)

Told(r) == Calls(r) /\ Reasoned(r) /\ Audited(r)

\* What the parts are about apart from the request's own variables.
LEMMA InputsFixed ==
    ASSUME NEW r \in Request, policy' = policy, body' = body
    PROVE  /\ FieldsOf(r)' = FieldsOf(r) /\ Flagged(r)' = Flagged(r)
           /\ Oversized(r)' = Oversized(r) /\ NoneIn(r)' = NoneIn(r)
BY DEF FieldsOf, Flagged, FlaggedUnscanned, Oversized, NoneIn

\* With its calls, its verdict and its events a request keeps what they tell.
LEMMA ToldFrame ==
    ASSUME NEW q \in Request, Told(q), Same(q), policy' = policy, body' = body
    PROVE  Told(q)'
<1>1. /\ FieldsOf(q)' = FieldsOf(q) /\ Flagged(q)' = Flagged(q) /\ Oversized(q)' = Oversized(q)
      /\ Open(q)' = Open(q)
  BY InputsFixed DEF Open, Same
<1>2. /\ (\E f \in FieldsOf(q) : WithAction(kept[q][f], "block") # {})'
            <=> \E f \in FieldsOf(q) : WithAction(kept[q][f], "block") # {}
      /\ Uncounted(q)' <=> Uncounted(q)
      /\ Trouble(q)' <=> Trouble(q)
  BY <1>1 DEF Same, WithAction, Uncounted, Trouble
<1>3. \A e : TrueOf(e, q)' <=> TrueOf(e, q)
  BY DEF Same, TrueOf, Places, Refusals
<1>4. Calls(q)'
  BY <1>1, <1>2 DEF Told, Calls, Same
<1>5. Reasoned(q)'
  BY <1>1, <1>2 DEF Told, Reasoned, Same
<1>6. Audited(q)'
  BY <1>1, <1>3 DEF Told, Audited, Same
<1>. QED  BY <1>4, <1>5, <1>6 DEF Told

\* A call that ends is remembered, and nothing else of a request changes, also
\* when the request has ended before.
LEMMA SidecarTold ==
    ASSUME TypeOK, Functions, NEW r \in Request, Core(r), Told(r), Sidecar(r)
    PROVE  Told(r)'
<1>1. /\ UNCHANGED <<policy, body, pc, results, told>>
      /\ UNCHANGED <<kept, masked, mapping, status, failedOpen, events, sink>>
  BY DEF Sidecar, NerAnswers, NerUnavailable, NerMalformed, observed, results, told
<1>2. /\ FieldsOf(r)' = FieldsOf(r) /\ Flagged(r)' = Flagged(r) /\ Oversized(r)' = Oversized(r)
      /\ Open(r)' = Open(r)
  BY <1>1, InputsFixed DEF Open
<1>3. PICK f \in FieldsOf(r), end \in {"answered", "unavailable", "malformed", "uncounted"} :
        /\ call[r][f] = "asked"
        /\ call' = [call EXCEPT ![r][f] = end]
        /\ \/ error' = error
           \/ error' = [error EXCEPT ![r] = IF @ = "none" THEN end ELSE @]
        /\ end = "answered" => error' = error
        /\ end = "unavailable" /\ policy.onFailure # "block" => error' = error
        /\ end = "uncounted" => policy.onFailure = "degrade" /\ "metrics_raise" \in Sinks
  BY CallEnds DEF Sidecar
<1>5. /\ call'[r][f] = end
      /\ \A g \in FieldsOf(r) : g # f => call'[r][g] = call[r][g]
  BY <1>3 DEF TypeOK, Functions
<1>6. /\ error[r] # "none" => error'[r] = error[r]
      /\ \/ error'[r] = error[r]
         \/ error'[r] = "unavailable" /\ end = "unavailable" /\ policy.onFailure = "block"
         \/ error'[r] = "malformed" /\ end = "malformed"
         \/ error'[r] = "uncounted" /\ end = "uncounted"
  BY <1>3 DEF TypeOK
<1>7. \A how \in {"unavailable", "malformed", "uncounted"} : \A g \in FieldsOf(r) :
        call[r][g] = how => call'[r][g] = how
  BY <1>3, <1>5
<1>8. pc[r] # "received"
  BY <1>3 DEF Told, Calls
<1>9. ~Open(r) => error[r] # "none"
  BY <1>3 DEF Told, Calls
<1>10. Calls(r)'
  <2>1. error'[r] = "unavailable" =>
           policy.onFailure = "block" /\ \E g \in FieldsOf(r) : call'[r][g] = "unavailable"
    BY <1>5, <1>6, <1>7 DEF Told, Calls
  <2>2. error'[r] = "malformed" => \E g \in FieldsOf(r) : call'[r][g] = "malformed"
    BY <1>5, <1>6, <1>7 DEF Told, Calls
  <2>3. error'[r] = "uncounted" => Uncounted(r)'
    BY <1>1, <1>2, <1>3, <1>5, <1>6, <1>7 DEF Told, Calls, Uncounted
  <2>. QED  BY <1>1, <1>2, <1>6, <1>8, <1>9, <2>1, <2>2, <2>3 DEF Told, Calls
<1>11. Reasoned(r)'
  <2>1. /\ Trouble(r) => Trouble(r)'
        /\ (\E g \in FieldsOf(r) : WithAction(kept[r][g], "block") # {})'
             <=> \E g \in FieldsOf(r) : WithAction(kept[r][g], "block") # {}
    BY <1>1, <1>2, <1>7 DEF Uncounted, Trouble, WithAction
  <2>2. status[r] = "ner_unavailable" => \E g \in FieldsOf(r) : call'[r][g] = "unavailable"
    BY <1>7 DEF Told, Reasoned
  <2>. QED  BY <1>1, <1>2, <2>1, <2>2 DEF Told, Reasoned
<1>12. Audited(r)'
  <2>1. ~Open(r) => events[r] = << >>
    BY <1>9 DEF Told, Audited
  <2>. QED  BY <1>1, <1>2, <1>6, <1>9, <2>1 DEF Audited
<1>. QED  BY <1>10, <1>11, <1>12 DEF Told

\* An answer adds nothing to what is told of a request.
LEMMA AnswerTold ==
    ASSUME TypeOK, Functions, NEW r \in Request, Told(r), Answer(r)
    PROVE  Told(r)'
<1>1. /\ UNCHANGED <<policy, body, call, error>>
      /\ UNCHANGED <<kept, masked, mapping, status, failedOpen, events, sink>>
      /\ ~Open(r) /\ ~Open(r)' /\ pc'[r] = "answered"
  BY DEF Answer, results, observed, told, Open, TypeOK
<1>2. FieldsOf(r)' = FieldsOf(r) /\ Flagged(r)' = Flagged(r) /\ Oversized(r)' = Oversized(r)
  BY <1>1, InputsFixed
<1>3. /\ (\E f \in FieldsOf(r) : WithAction(kept[r][f], "block") # {})'
            <=> \E f \in FieldsOf(r) : WithAction(kept[r][f], "block") # {}
      /\ Uncounted(r)' <=> Uncounted(r)
      /\ Trouble(r)' <=> Trouble(r)
      /\ \A e : TrueOf(e, r)' <=> TrueOf(e, r)
  BY <1>1, <1>2 DEF WithAction, Uncounted, Trouble, TrueOf, Places, Refusals
<1>4. Calls(r)'
  BY <1>1, <1>2, <1>3 DEF Told, Calls
<1>5. Reasoned(r)'
  BY <1>1, <1>2, <1>3 DEF Told, Reasoned
<1>6. Audited(r)'
  BY <1>1, <1>3 DEF Told, Audited
<1>. QED  BY <1>4, <1>5, <1>6 DEF Told

\* Going to the sidecar.
LEMMA ReceiveNerTold ==
    ASSUME TypeOK, Functions, NEW r \in Request, Core(r), Told(r), ReceiveNer(r)
    PROVE  Told(r)'
<1>1. /\ UNCHANGED <<policy, body, error>> /\ UNCHANGED <<kept, status, failedOpen>>
      /\ pc[r] = "received" /\ pc'[r] = "scanning" /\ body[r].readable
  BY DEF ReceiveNer, results, TypeOK
<1>2. Open(r) /\ Open(r)' /\ error[r] = "none" /\ status[r] = "none" /\ ~failedOpen[r]
  BY <1>1 DEF Open, Told, Calls, Core, Waiting
<1>. QED  BY <1>1, <1>2 DEF Told, Calls, Reasoned, Audited

\* Verdicts without a scan, which leave no event.
LEMMA UnscannedTold ==
    ASSUME TypeOK, Functions, NEW r \in Request, Core(r), Told(r), Open(r),
           UNCHANGED <<policy, body, call, error, kept, masked, mapping, observed, response>>,
           \/ /\ ~body[r].readable /\ pc[r] = "received"
              /\ InternalError(r)
           \/ error[r] = "unavailable" /\ Reject(r, "ner_unavailable")
           \/ error[r] \in {"malformed", "uncounted"} /\ InternalError(r)
    PROVE  Told(r)'
<1>1. /\ FieldsOf(r)' = FieldsOf(r) /\ Flagged(r)' = Flagged(r) /\ Oversized(r)' = Oversized(r)
      /\ events' = events /\ sink' = sink /\ events[r] = << >> /\ ~failedOpen[r]
  BY InputsFixed DEF observed, told, Core, Waiting
<1>2. (Trouble(r)' <=> Trouble(r)) /\ (Uncounted(r)' <=> Uncounted(r))
  BY <1>1 DEF Uncounted, Trouble
<1>3. error[r] = "none" => ~body[r].readable /\ \A f \in FieldsOf(r) : call[r][f] = "none"
  BY DEF Told, Calls
<1>4. pc'[r] \in {"rejected", "forwarded"} /\ ~Open(r)'
  BY DEF Reject, InternalError, TypeOK, Open
<1>5. Calls(r)'
  BY <1>1, <1>2, <1>3, <1>4 DEF Told, Calls
<1>6. Audited(r)'
  BY <1>1, <1>3 DEF Audited
<1>7. CASE error[r] = "unavailable" /\ Reject(r, "ner_unavailable")
  <2>1. status'[r] = "ner_unavailable" /\ ~failedOpen'[r]
    BY <1>1, <1>7 DEF Reject, TypeOK
  <2>2. Reasoned(r)'
    BY <1>1, <1>7, <2>1 DEF Told, Calls, Reasoned
  <2>. QED  BY <1>5, <1>6, <2>2 DEF Told
<1>8. CASE InternalError(r) /\ (~body[r].readable \/ error[r] \in {"malformed", "uncounted"})
  <2>1. Trouble(r)
    BY <1>8 DEF Trouble, Told, Calls
  <2>2. \/ /\ status'[r] = "pii_filter_error" /\ ~failedOpen'[r]
           /\ policy.onInternalError = "block"
        \/ status'[r] = "ok" /\ policy.onInternalError = "allow"
    BY <1>1, <1>8 DEF InternalError, TypeOK, Policy
  <2>3. Reasoned(r)'
    BY <1>1, <1>2, <2>1, <2>2 DEF Reasoned
  <2>. QED  BY <1>5, <1>6, <2>3 DEF Told
<1>. QED  BY <1>7, <1>8

\* An observation writes its event, unless the audit log raises.
LEMMA ObserveTells ==
    ASSUME TypeOK, NEW r \in Request, NEW event, NEW flagged, events[r] = << >>,
           Observe(r, event, flagged)
    PROVE  events'[r] = IF sink'[r] = "audit_raises" THEN << >> ELSE <<event>>
<1>1. PICK outcome \in Sinks :
        /\ sink' = [sink EXCEPT ![r] = outcome]
        /\ events' = [events EXCEPT ![r] =
                         IF outcome # "audit_raises" THEN Append(@, event) ELSE @]
  BY DEF Observe, LogEvent
<1>2. sink'[r] = outcome /\ events'[r] = IF outcome # "audit_raises" THEN Append(<< >>, event) ELSE << >>
  BY <1>1 DEF TypeOK
<1>3. Append(<< >>, event) = <<event>>
  OBVIOUS
<1>. QED  BY <1>2, <1>3

\* A refusal for the length.
LEMMA OversizedTold ==
    ASSUME TypeOK, Functions, NEW r \in Request, Core(r), Told(r), ReceiveOversized(r)
    PROVE  Told(r)'
<1>1. /\ UNCHANGED <<policy, body, call, error, kept, masked>>
      /\ pc[r] = "received" /\ Oversized(r) /\ Reject(r, "oversized_input")
      /\ Observe(r, OversizedResult, FlaggedUnscanned)
  BY DEF ReceiveOversized
<1>2. /\ FieldsOf(r)' = FieldsOf(r) /\ Flagged(r)' = Flagged(r) /\ Oversized(r)' = Oversized(r)
  BY <1>1, InputsFixed
<1>3. /\ Open(r) /\ events[r] = << >> /\ ~failedOpen[r]
      /\ kept[r] = NoneIn(r) /\ masked[r] = NoneIn(r)
  BY <1>1 DEF Open, Core, Waiting
<1>4. pc'[r] = "rejected" /\ status'[r] = "oversized_input" /\ ~failedOpen'[r] /\ ~Open(r)'
  BY <1>1, <1>3 DEF Reject, TypeOK, Open
<1>5. Calls(r)'
  BY <1>1, <1>2, <1>4 DEF Told, Calls, Uncounted
<1>6. Reasoned(r)'
  BY <1>1, <1>2, <1>4 DEF Reasoned
<1>7. Audited(r)'
  <2>1. Places(kept'[r]) = {} /\ Places(masked'[r]) = {}
    BY <1>1, <1>3, NothingIn
  <2>2. TrueOf(OversizedResult, r)'
    BY <1>4, <2>1 DEF TrueOf, OversizedResult, Refusals, Places
  <2>3. events'[r] = IF sink'[r] = "audit_raises" THEN << >> ELSE <<OversizedResult>>
    BY <1>1, <1>3, ObserveTells
  <2>4. OversizedResult \in Event
    BY DEF OversizedResult, Event
  <2>5. error'[r] = "none" /\ body'[r].readable
    BY <1>1 DEF Told, Calls, ReceiveOversized
  <2>. QED  BY <2>2, <2>3, <2>4, <2>5 DEF Audited
<1>. QED  BY <1>5, <1>6, <1>7 DEF Told

\* What a scan leaves in a body that nothing blocks is masked or logged.
LEMMA MaskedOrLogged ==
    ASSUME TypeOK, NEW r \in Request, NEW scans \in Scans(r), ~ContentBlocked(scans)
    PROVE  Places(InAction(scans, "log_only"))
             = Places(scans) \ Places(InAction(scans, "mask"))
<1>1. \A action :
        Places(InAction(scans, action)) = {p \in Places(scans) : ActionOf[p[2].entity] = action}
  BY PlacesType
<1>2. \A p \in Places(scans) : ActionOf[p[2].entity] \in {"mask", "log_only"}
  <2> SUFFICES ASSUME NEW f \in DOMAIN scans, NEW d \in scans[f]
               PROVE  ActionOf[d.entity] \in {"mask", "log_only"}
    BY DEF Places
  <2>1. d \in Detection /\ ActionOf[d.entity] # "off"
    BY DEF Scans
  <2>2. ActionOf[d.entity] # "block"
    BY DEF ContentBlocked, WithAction
  <2>3. ActionOf[d.entity] \in Actions
    BY <2>1, ActionAssumption DEF Detection
  <2>. QED  BY <2>1, <2>2, <2>3 DEF Actions
<1>. QED  BY <1>1, <1>2

\* A scan that went to its end.
LEMMA FinalizeTold ==
    ASSUME TypeOK, Functions, NEW r \in Request, Core(r), Told(r), Open(r),
           NEW scans \in Scans(r), Finalize(r, scans), UNCHANGED <<policy, body, call, error>>,
           body[r].readable, error[r] = "none",
           \A f \in FieldsOf(r) : call[r][f] # "asked"
    PROVE  Told(r)'
<1>0. PICK result \in Event : result = ResultOf(r, scans)
  BY ResultType
<1>1. /\ FieldsOf(r)' = FieldsOf(r) /\ Flagged(r)' = Flagged(r) /\ Oversized(r)' = Oversized(r)
  BY InputsFixed
<1>2. /\ events[r] = << >> /\ ~failedOpen[r] /\ masked[r] = NoneIn(r)
      /\ DOMAIN scans = FieldsOf(r)
  BY DEF Core, Waiting, Scans
<1>3. /\ kept'[r] = scans
      /\ events'[r] = IF sink'[r] = "audit_raises" THEN << >> ELSE <<result>>
  BY <1>2, <1>0, ObserveTells DEF Finalize, Functions, RowFunctions
<1>4. (\E f \in FieldsOf(r) : WithAction(kept[r][f], "block") # {})' <=> ContentBlocked(scans)
  BY <1>1, <1>2, <1>3 DEF WithAction, ContentBlocked
<1>5. (Trouble(r)' <=> Trouble(r)) /\ (Uncounted(r)' <=> Uncounted(r))
  BY <1>1 DEF Uncounted, Trouble
<1>7. ~Open(r)' /\ TrueOf(result, r)' => Calls(r)' /\ Audited(r)'
  <2> SUFFICES ASSUME ~Open(r)', TrueOf(result, r)' PROVE Calls(r)' /\ Audited(r)'
    OBVIOUS
  <2>1. pc'[r] # "received" /\ pc'[r] # "scanning"
    BY DEF Open
  <2>2. Calls(r)'
    BY <1>1, <2>1 DEF Calls
  <2>3. Audited(r)'
    BY <1>3, <1>0 DEF Audited
  <2>. QED  BY <2>2, <2>3
<1>8. CASE ContentBlocked(scans) \/ InjectionBlocked(r)
  <2>1. PICK marker \in {"pii_blocked", "injection_blocked"} :
          /\ Reject(r, marker) /\ masked' = masked
          /\ marker = "pii_blocked" => ContentBlocked(scans)
          /\ marker = "injection_blocked" => InjectionBlocked(r)
    BY <1>8 DEF Finalize
  <2>2. status'[r] = marker /\ ~failedOpen'[r] /\ ~Open(r)'
    BY <1>2, <2>1 DEF Reject, TypeOK, Open
  <2>3. Places(masked'[r]) = {}
    BY <1>2, <2>1, NothingIn
  <2>4. TrueOf(result, r)'
    BY <1>3, <1>0, <1>8, <2>2, <2>3 DEF TrueOf, ResultOf, Refusals, Places
  <2>5. Reasoned(r)'
    BY <1>1, <1>4, <2>1, <2>2 DEF Reasoned, InjectionBlocked
  <2>. QED  BY <1>7, <2>2, <2>4, <2>5 DEF Told
<1>9. CASE ~ContentBlocked(scans) /\ ~InjectionBlocked(r)
  <2>1. masked'[r] = InAction(scans, "mask") /\ Deliver(r, InAction(scans, "mask"))
    BY <1>9 DEF Finalize, Functions, RowFunctions
  <2>2. /\ ~Open(r)'
        /\ \/ /\ status'[r] = "pii_filter_error" /\ ~failedOpen'[r] /\ Trouble(r)
              /\ policy.onInternalError = "block"
           \/ /\ status'[r] = "ok" /\ failedOpen'[r] /\ Trouble(r)
              /\ policy.onInternalError = "allow"
           \/ status'[r] = "ok" /\ ~failedOpen'[r]
    <3>1. CASE body[r].metadata = "null"
      BY <1>2, <2>1, <3>1 DEF Deliver, InternalError, TypeOK, Policy, Open, Trouble
    <3>2. CASE body[r].metadata # "null"
      BY <1>2, <2>1, <3>2 DEF Deliver, TypeOK, Open
    <3>. QED  BY <3>1, <3>2
  <2>3. /\ result.found = Places(scans) /\ result.masked = Places(InAction(scans, "mask"))
        /\ result.logged = Places(scans) \ Places(InAction(scans, "mask"))
        /\ result.blocked = FALSE
    BY <1>0, <1>9, MaskedOrLogged DEF ResultOf
  <2>4. TrueOf(result, r)'
    <3>1. Places(kept[r])' = Places(scans) /\ Places(masked[r])' = Places(InAction(scans, "mask"))
      BY <1>3, <2>1 DEF Places
    <3>2. status'[r] \notin Refusals
      BY <2>2 DEF Refusals
    <3>. QED  BY <2>3, <3>1, <3>2 DEF TrueOf
  <2>5. Reasoned(r)'
    BY <1>1, <1>5, <2>2 DEF Reasoned
  <2>. QED  BY <1>7, <2>2, <2>4, <2>5 DEF Told
<1>. QED  BY <1>8, <1>9

\* So every step keeps what is told of every request.
LEMMA NextTold ==
    ASSUME TypeOK, Functions, \A q \in Request : Core(q) /\ Told(q),
           NEW r \in Request, StepOf(r)
    PROVE  \A q \in Request : Told(q)'
<1>1. policy' = policy /\ body' = body
  BY InputsStay
<1>2. ASSUME NEW q \in Request, q # r PROVE Told(q)'
  BY <1>1, <1>2, OthersSame, ToldFrame
<1>3. Told(r)'
  <2>1. CASE Sidecar(r)
    BY <2>1, SidecarTold
  <2>2. CASE Answer(r)
    BY <2>2, AnswerTold
  <2>3. CASE ReceiveUnreadable(r)
    <3>1. /\ Open(r) /\ ~body[r].readable /\ pc[r] = "received" /\ InternalError(r)
          /\ UNCHANGED <<policy, body, call, error, kept, masked, mapping, observed, response>>
      BY <2>3 DEF ReceiveUnreadable, Open
    <3>. QED  BY <3>1, UnscannedTold
  <2>4. CASE ReceiveOversized(r)
    BY <2>4, OversizedTold
  <2>5. CASE ReceiveL1Only(r)
    <3>1. /\ Open(r) /\ Finalize(r, L1Scans(r)) /\ UNCHANGED <<policy, body, call, error>>
          /\ body[r].readable /\ pc[r] = "received"
      BY <2>5 DEF ReceiveL1Only, Open
    <3>2. error[r] = "none" /\ \A f \in FieldsOf(r) : call[r][f] # "asked"
      BY <3>1 DEF Told, Calls
    <3>. QED  BY <3>1, <3>2, L1ScansType, FinalizeTold
  <2>6. CASE ReceiveNer(r)
    BY <2>6, ReceiveNerTold
  <2>7. CASE ResumeWithError(r)
    <3>1. /\ Open(r) /\ error[r] \in {"unavailable", "malformed", "uncounted"}
          /\ UNCHANGED <<policy, body, call, error, kept, masked, mapping, observed, response>>
          /\ IF error[r] = "unavailable" THEN Reject(r, "ner_unavailable") ELSE InternalError(r)
      BY <2>7 DEF ResumeWithError, Open, TypeOK
    <3>. QED  BY <3>1, UnscannedTold
  <2>8. CASE Resume(r)
    <3>1. /\ Open(r) /\ Finalize(r, NerScans(r)) /\ UNCHANGED <<policy, body, call, error>>
          /\ pc[r] = "scanning" /\ error[r] = "none"
          /\ \A f \in FieldsOf(r) : call[r][f] # "asked"
      BY <2>8 DEF Resume, Open
    <3>2. body[r].readable
      BY <3>1 DEF Told, Calls
    <3>. QED  BY <3>1, <3>2, NerScansType, FinalizeTold
  <2>. QED  BY <2>1, <2>2, <2>3, <2>4, <2>5, <2>6, <2>7, <2>8 DEF StepOf, Hook
<1>. QED  BY <1>2, <1>3

-----------------------------------------------------------------------------

\* Everything L1 found in a body is kept or met by something its scans kept.
Met(r, scans) ==
    \A f \in FieldsOf(r) : \A d \in L1Detections(r, f) :
        d \in scans[f] \/ \E k \in scans[f] : Overlap(d, k)

\* A request is only scanned if it is short enough, a call whose failure ends
\* the request shows in what gather() raises, and what goes out has been scanned
\* with none of them.
Scanned(r) ==
    /\ pc[r] = "scanning" => ~Oversized(r)
    /\ \A f \in FieldsOf(r) :
           \/ call[r][f] \in {"malformed", "uncounted"}
           \/ call[r][f] = "unavailable" /\ policy.onFailure = "block"
           => error[r] # "none"
    /\ Sent(r) /\ ~failedOpen[r] => /\ error[r] = "none" /\ ~Oversized(r)
                                   /\ Met(r, kept[r])
                                   /\ ~InjectionBlocked(r)

\* merge() drops a detection only for one that overlaps it.
LEMMA ScanMeets ==
    ASSUME NEW found \in Seq(Detection), NEW i \in 1..Len(found),
           ActionOf[found[i].entity] # "off"
    PROVE  \/ found[i] \in ScanResult(found)
           \/ \E k \in ScanResult(found) : Overlap(found[i], k)
<1>1. i \in Active(found)
  BY DEF Active
<1>2. CASE i \in Merged(found)
  BY <1>2 DEF ScanResult
<1>3. CASE i \notin Merged(found)
  <2>1. PICK k \in Merged(found) : Overlap(found[k], found[i])
    BY <1>1, <1>3, DroppedForAnother
  <2>2. Overlap(found[i], found[k]) /\ found[k] \in ScanResult(found)
    BY <2>1 DEF Overlap, ScanResult
  <2>. QED  BY <2>2
<1>. QED  BY <1>2, <1>3

\* So the scans meet what L1 found, with the sidecar's answers and without.
LEMMA ScansMeet ==
    ASSUME TypeOK, NEW r \in Request
    PROVE  Met(r, L1Scans(r)) /\ Met(r, NerScans(r))
<1> SUFFICES ASSUME NEW f \in FieldsOf(r), NEW d \in L1Detections(r, f)
             PROVE  /\ d \in L1Scans(r)[f] \/ \E k \in L1Scans(r)[f] : Overlap(d, k)
                    /\ d \in NerScans(r)[f] \/ \E k \in NerScans(r)[f] : Overlap(d, k)
  BY DEF Met
<1> DEFINE l1 == body[r].fields[f].l1
           both == l1 \o body[r].fields[f].ner
<1>1. l1 \in Seq(Detection) /\ body[r].fields[f].ner \in Seq(Detection)
  BY FieldsAreNumbered DEF Field
<1>2. DOMAIN l1 = 1..Len(l1)
  BY <1>1, LenProperties
<1>3. PICK i \in 1..Len(l1) : d = l1[i] /\ ActionOf[d.entity] # "off"
  BY <1>2 DEF L1Detections
<1>4. both \in Seq(Detection) /\ i \in 1..Len(both) /\ both[i] = d
  <2>1. ASSUME NEW a \in Seq(Detection), NEW b \in Seq(Detection), NEW j \in 1..Len(a)
        PROVE  a \o b \in Seq(Detection) /\ j \in 1..Len(a \o b) /\ (a \o b)[j] = a[j]
    BY ConcatProperties, LenProperties
  <2>. QED  BY <1>1, <1>3, <2>1
<1>5. d \in ScanResult(l1) \/ \E k \in ScanResult(l1) : Overlap(d, k)
  BY <1>1, <1>3, ScanMeets
<1>6. d \in ScanResult(both) \/ \E k \in ScanResult(both) : Overlap(d, k)
  BY <1>3, <1>4, ScanMeets
<1>7. L1Scans(r)[f] = ScanResult(l1) /\ NerScans(r)[f] \in {ScanResult(l1), ScanResult(both)}
  BY DEF L1Scans, NerScans
<1>. QED  BY <1>5, <1>6, <1>7

\* With its calls, its verdict and its scans a request stays as scanned as it is.
LEMMA ScannedFrame ==
    ASSUME NEW q \in Request, Scanned(q), policy' = policy, body' = body,
           pc'[q] = pc[q], failedOpen'[q] = failedOpen[q], kept'[q] = kept[q],
           call'[q] = call[q], error'[q] = error[q]
    PROVE  Scanned(q)'
<1>1. /\ FieldsOf(q)' = FieldsOf(q) /\ Oversized(q)' = Oversized(q) /\ Sent(q)' = Sent(q)
      /\ \A f : L1Detections(q, f)' = L1Detections(q, f)
  BY InputsFixed DEF Sent, L1Detections
<1>2. Met(q, kept[q])' <=> Met(q, kept[q])
  BY <1>1 DEF Met
<1>3. InjectionBlocked(q)' = InjectionBlocked(q)
  BY InputsFixed DEF InjectionBlocked
<1>. QED  BY <1>1, <1>2, <1>3 DEF Scanned

\* A call that ends shows in what gather() raises; after a scan none is left.
LEMMA SidecarScanned ==
    ASSUME TypeOK, Functions, NEW r \in Request, Told(r), Scanned(r), Sidecar(r)
    PROVE  Scanned(r)'
<1>1. UNCHANGED <<policy, body, pc, kept, failedOpen>>
  BY DEF Sidecar, NerAnswers, NerUnavailable, NerMalformed, results
<1>2. /\ FieldsOf(r)' = FieldsOf(r) /\ Oversized(r)' = Oversized(r) /\ Sent(r)' = Sent(r)
  BY <1>1, InputsFixed DEF Sent
<1>3. PICK f \in FieldsOf(r) : call[r][f] = "asked"
        /\ (NerAnswers(r, f) \/ NerUnavailable(r, f) \/ NerMalformed(r, f))
  BY DEF Sidecar, NerAnswers, NerUnavailable, NerMalformed
<1>4. /\ \A g \in FieldsOf(r) : g # f => call'[r][g] = call[r][g]
      /\ error[r] # "none" => error'[r] # "none"
      /\ \/ call'[r][f] \in {"malformed", "uncounted"}
         \/ call'[r][f] = "unavailable" /\ policy.onFailure = "block"
         => error'[r] # "none"
  <2>1. PICK end \in {"answered", "unavailable", "malformed", "uncounted"} :
          /\ call' = [call EXCEPT ![r][f] = end]
          /\ \/ /\ error' = error
                /\ end = "answered" \/ (end = "unavailable" /\ policy.onFailure = "degrade")
             \/ error' = [error EXCEPT ![r] = IF @ = "none" THEN end ELSE @]
    BY <1>3, CallEnds
  <2>2. call'[r][f] = end /\ \A g \in FieldsOf(r) : g # f => call'[r][g] = call[r][g]
    BY <2>1 DEF TypeOK, Functions
  <2>3. \/ error'[r] = error[r]
           /\ (end = "answered" \/ (end = "unavailable" /\ policy.onFailure = "degrade"))
        \/ error'[r] = IF error[r] = "none" THEN end ELSE error[r]
    BY <2>1 DEF TypeOK
  <2>. QED  BY <2>2, <2>3
<1>5. ~(Sent(r) /\ ~failedOpen[r])
  <2>1. ~Open(r) => error[r] # "none"
    BY <1>3 DEF Told, Calls
  <2>. QED  BY <2>1 DEF Scanned, Sent, Open
<1>. QED  BY <1>1, <1>2, <1>4, <1>5 DEF Scanned

\* A verdict without a scan is a refusal or a hook that fails open.
LEMMA UnscannedScanned ==
    ASSUME TypeOK, Functions, NEW r \in Request, Scanned(r), NEW marker,
           Reject(r, marker) \/ InternalError(r), UNCHANGED <<policy, body, call, error>>
    PROVE  Scanned(r)'
<1>1. FieldsOf(r)' = FieldsOf(r)
  BY DEF FieldsOf
<1>2. pc'[r] # "scanning" /\ (Sent(r)' => failedOpen'[r])
  BY DEF Reject, InternalError, TypeOK, Sent
<1>. QED  BY <1>1, <1>2 DEF Scanned

\* A scan that meets what L1 found.
LEMMA FinalizeScanned ==
    ASSUME TypeOK, Functions, NEW r \in Request, Scanned(r), NEW scans \in Scans(r),
           Finalize(r, scans), UNCHANGED <<policy, body, call, error>>,
           Met(r, scans), error[r] = "none", ~Oversized(r)
    PROVE  Scanned(r)'
<1>1. /\ FieldsOf(r)' = FieldsOf(r) /\ Oversized(r)' = Oversized(r)
      /\ \A f : L1Detections(r, f)' = L1Detections(r, f)
  BY InputsFixed DEF L1Detections
<1>2. kept'[r] = scans
  BY DEF Finalize, Functions, RowFunctions
<1>3. Met(r, kept[r])'
  BY <1>1, <1>2 DEF Met
<1>4. pc'[r] # "scanning" /\ (InjectionBlocked(r) => pc'[r] = "rejected")
  BY DEF Finalize, Reject, Deliver, InternalError, TypeOK
<1>5. InjectionBlocked(r)' = InjectionBlocked(r)
  BY InputsFixed DEF InjectionBlocked
<1>. QED  BY <1>1, <1>3, <1>4, <1>5 DEF Scanned, Sent

LEMMA NextScanned ==
    ASSUME TypeOK, Functions, \A q \in Request : Told(q) /\ Scanned(q),
           NEW r \in Request, StepOf(r)
    PROVE  \A q \in Request : Scanned(q)'
<1>1. policy' = policy /\ body' = body
  BY InputsStay
<1>2. ASSUME NEW q \in Request, q # r PROVE Scanned(q)'
  <2>1. Same(q)
    BY <1>2, OthersSame
  <2>. QED  BY <1>1, <2>1, ScannedFrame DEF Same
<1>3. Scanned(r)'
  <2>1. CASE Sidecar(r)
    BY <2>1, SidecarScanned
  <2>2. CASE Answer(r)
    <3>1. /\ UNCHANGED <<policy, body, call, error, kept, failedOpen>>
          /\ Sent(r) /\ pc'[r] = "answered"
      BY <2>2 DEF Answer, results, Sent, TypeOK
    <3>2. /\ FieldsOf(r)' = FieldsOf(r) /\ Oversized(r)' = Oversized(r)
          /\ \A f : L1Detections(r, f)' = L1Detections(r, f)
      BY <3>1, InputsFixed DEF L1Detections
    <3>3. Met(r, kept[r])' <=> Met(r, kept[r])
      BY <3>1, <3>2 DEF Met
    <3>4. InjectionBlocked(r)' = InjectionBlocked(r)
      BY <3>1, InputsFixed DEF InjectionBlocked
    <3>. QED  BY <3>1, <3>2, <3>3, <3>4 DEF Scanned
  <2>3. CASE ReceiveUnreadable(r)
    BY <2>3, UnscannedScanned DEF ReceiveUnreadable
  <2>4. CASE ReceiveOversized(r)
    BY <2>4, UnscannedScanned DEF ReceiveOversized
  <2>5. CASE ReceiveL1Only(r)
    <3>1. /\ Finalize(r, L1Scans(r)) /\ UNCHANGED <<policy, body, call, error>>
          /\ error[r] = "none" /\ ~Oversized(r)
      BY <2>5 DEF ReceiveL1Only, Told, Calls
    <3>. QED  BY <3>1, L1ScansType, ScansMeet, FinalizeScanned
  <2>6. CASE ReceiveNer(r)
    <3>1. /\ UNCHANGED <<policy, body>> /\ ~Oversized(r) /\ pc'[r] = "scanning"
          /\ \A f \in FieldsOf(r) : call'[r][f] \in {"answered", "asked"}
      BY <2>6 DEF ReceiveNer, TypeOK, Functions
    <3>2. FieldsOf(r)' = FieldsOf(r) /\ Oversized(r)' = Oversized(r)
      BY <3>1, InputsFixed
    <3>. QED  BY <3>1, <3>2 DEF Scanned, Sent
  <2>7. CASE ResumeWithError(r)
    BY <2>7, UnscannedScanned DEF ResumeWithError
  <2>8. CASE Resume(r)
    <3>1. /\ Finalize(r, NerScans(r)) /\ UNCHANGED <<policy, body, call, error>>
          /\ error[r] = "none" /\ ~Oversized(r)
      BY <2>8 DEF Resume, Scanned
    <3>. QED  BY <3>1, NerScansType, ScansMeet, FinalizeScanned
  <2>. QED  BY <2>1, <2>2, <2>3, <2>4, <2>5, <2>6, <2>7, <2>8 DEF StepOf, Hook
<1>. QED  BY <1>2, <1>3

-----------------------------------------------------------------------------

\* The inductive invariant.
Inv == TypeOK /\ Functions /\ \A r \in Request : Core(r) /\ Told(r) /\ Scanned(r)

LEMMA StutterInv == Inv /\ UNCHANGED vars => Inv'
<1> SUFFICES ASSUME Inv, UNCHANGED vars PROVE Inv'
  OBVIOUS
<1>1. /\ policy' = policy /\ body' = body
      /\ UNCHANGED <<pc, status, failedOpen>> /\ UNCHANGED told
      /\ UNCHANGED <<kept, masked, mapping>>
      /\ UNCHANGED <<call, error, nerFailures>> /\ UNCHANGED response
  BY DEF vars, results, observed
<1>2. TypeOK' /\ Functions'
  BY <1>1, TypeFrame, TypePartsNext DEF Inv
<1>3. ASSUME NEW q \in Request PROVE Core(q)' /\ Told(q)' /\ Scanned(q)'
  BY <1>1, CoreFrame, ToldFrame, ScannedFrame DEF Inv, Same, told, response
<1>. QED  BY <1>2, <1>3 DEF Inv

\* The invariant holds throughout.
THEOREM Invariance == Spec => []Inv
<1>1. Init => Inv
  <2> SUFFICES ASSUME Init PROVE Inv
    OBVIOUS
  <2>1. ASSUME NEW q \in Request PROVE Core(q)
    BY NothingIn DEF Init, Core, Waiting, Judged, Answered, Open
  <2>2. ASSUME NEW q \in Request PROVE Told(q)
    BY DEF Init, Told, Calls, Reasoned, Audited, Open
  <2>3. ASSUME NEW q \in Request PROVE Scanned(q)
    BY DEF Init, Scanned, Sent
  <2>. QED  BY <2>1, <2>2, <2>3, InitType DEF Inv
<1>2. Inv /\ Next => Inv'
  BY NextType, NextCore, NextTold, NextScanned DEF Inv, Next, StepOf
<1>. QED  BY <1>1, <1>2, StutterInv, PTL DEF Spec

\* Type correctness.
THEOREM TypeCorrect == Spec => []TypeOK
<1>1. Inv => TypeOK
  BY DEF Inv
<1>. QED  BY <1>1, Invariance, PTL

\* Whatever the sidecar does in the meantime, the body of a request refused for
\* its content is as the client sent it and nothing of it is kept.
THEOREM RefusedUntouched == Spec => []RefusedBodyUntouched
<1>1. Inv => RefusedBodyUntouched
  <2> SUFFICES ASSUME Inv, NEW r \in Request, status[r] \notin {"none", "ok", "pii_filter_error"}
               PROVE  masked[r] = NoneIn(r) /\ mapping[r] = {}
    BY DEF RefusedBodyUntouched
  <2>1. Core(r) /\ status[r] \in Refusals \cup {"ner_unavailable"}
    BY DEF Inv, TypeOK, Refusals
  <2>. QED  BY <2>1 DEF Core, Waiting, Judged
<1>. QED  BY <1>1, Invariance, PTL

\* In the messages of an answer every placeholder whose index can be read is
\* restored, unless the mapping could not be stored and the hook failed open;
\* outside of messages none is.
THEOREM AnswersRestored == Spec => []AnswerRestored
<1>1. Inv => AnswerRestored
  <2> SUFFICES ASSUME Inv, NEW r \in Request, pc[r] = "answered"
               PROVE  /\ \/ \A p \in answer[r] : p[1] \in heard[r] => p \in WidePlaces(r)
                         \/ failedOpen[r] /\ body[r].metadata = "null"
                      /\ \A p \in Places(masked[r]) : p[1] \notin heard[r] => p \in answer[r]
    BY DEF AnswerRestored
  <2>1. Judged(r) /\ status[r] = "ok" /\ answer[r] =
          Places(masked[r]) \ ({p \in mapping[r] : p[1] \in heard[r]} \ WidePlaces(r))
    BY DEF Inv, Core, Answered, Judged, Open
  <2>2. \A p \in Places(masked[r]) : p[1] \notin heard[r] => p \in answer[r]
    BY <2>1
  <2>3. CASE ~failedOpen[r]
    <3>1. mapping[r] = Places(masked[r])
      BY <2>1, <2>3 DEF Judged, Open
    <3>. QED  BY <2>1, <2>2, <3>1
  <2>4. CASE failedOpen[r] /\ body[r].metadata # "null"
    <3>1. masked[r] = NoneIn(r)
      BY <2>1, <2>4 DEF Judged, Open
    <3>2. answer[r] = {}
      BY <2>1, <3>1, NothingIn
    <3>. QED  BY <2>2, <3>2
  <2>. QED  BY <2>2, <2>3, <2>4
<1>. QED  BY <1>1, Invariance, PTL

\* A body goes out only when it has been scanned to the end, with nothing in it
\* that blocks, and everything L1 found is kept or met by what is.
THEOREM SentScanned == Spec => []SentIsScanned
<1>1. Inv => SentIsScanned
  <2> SUFFICES ASSUME Inv, NEW r \in Request, Sent(r), ~failedOpen[r]
               PROVE  /\ ~Oversized(r)
                      /\ \A f \in FieldsOf(r) :
                          /\ call[r][f] \notin {"asked", "malformed", "uncounted"}
                          /\ call[r][f] = "unavailable" => policy.onFailure = "degrade"
                          /\ WithAction(kept[r][f], "block") = {}
                          /\ masked[r][f] = WithAction(kept[r][f], "mask")
                          /\ \A d \in L1Detections(r, f) :
                                 d \in kept[r][f] \/ \E k \in kept[r][f] : Overlap(d, k)
    BY DEF SentIsScanned
  <2>1. ~Oversized(r) /\ error[r] = "none" /\ Met(r, kept[r])
    BY DEF Inv, Scanned
  <2>2. ~Open(r) /\ Judged(r) /\ status[r] \notin Refusals
    BY DEF Inv, Core, Judged, Sent, Open, Refusals
  <2>3. \A f \in FieldsOf(r) : WithAction(kept[r][f], "block") = {}
    BY <2>2 DEF Judged
  <2>4. \A f \in FieldsOf(r) : masked[r][f] = WithAction(kept[r][f], "mask")
    <3>1. masked[r] = InAction(kept[r], "mask") /\ DOMAIN kept[r] = FieldsOf(r)
      BY <2>2 DEF Judged, Inv, TypeOK
    <3>. QED  BY <3>1 DEF InAction
  <2>5. \A f \in FieldsOf(r) : call[r][f] # "asked"
    BY <2>1, <2>2 DEF Inv, Told, Calls
  <2>6. /\ \A f \in FieldsOf(r) : call[r][f] \notin {"malformed", "uncounted"}
        /\ \A f \in FieldsOf(r) : call[r][f] = "unavailable" => policy.onFailure # "block"
    BY <2>1 DEF Inv, Scanned
  <2>7. policy.onFailure \in {"degrade", "block"}
    BY DEF Inv, TypeOK, Policy
  <2>. QED  BY <2>1, <2>3, <2>4, <2>5, <2>6, <2>7 DEF Met
<1>. QED  BY <1>1, Invariance, PTL

\* A refusal, and a hook that fails open, has the reason its marker gives.  Of all
\* that audit and metrics may do, the metric of a failed call is the one reason.
THEOREM RefusedForReasons == Spec => []RefusedForAReason
<1>1. Inv => RefusedForAReason
  <2> SUFFICES ASSUME Inv PROVE RefusedForAReason
    OBVIOUS
  <2>1. \A r \in Request : Reasoned(r)
    BY DEF Inv, Told
  <2>. QED  BY <2>1 DEF RefusedForAReason, Reasoned, Trouble, Uncounted
<1>. QED  BY <1>1, Invariance, PTL

\* The audit events of a request, by what has become of it.
LEMMA EventsOf ==
    ASSUME Inv, NEW r \in Request
    PROVE  \/ events[r] = << >> /\ status[r] = "none"
           \/ /\ events[r] = << >>
              /\ ~body[r].readable \/ error[r] # "none" \/ sink[r] = "audit_raises"
           \/ /\ ~(status[r] = "none" \/ ~body[r].readable \/ error[r] # "none"
                      \/ sink[r] = "audit_raises")
              /\ \E e \in Event : events[r] = <<e>> /\ TrueOf(e, r)
<1>1. Core(r) /\ Audited(r)
  BY DEF Inv, Told
<1>2. CASE Open(r)
  BY <1>1, <1>2 DEF Core, Waiting
<1>3. CASE ~Open(r)
  <2>1. status[r] # "none"
    BY <1>1, <1>3 DEF Core, Judged
  <2>. QED  BY <1>1, <1>3, <2>1 DEF Audited
<1>. QED  BY <1>2, <1>3

\* An audit event tells the verdict and every detection of its request.
THEOREM EventsTellTheTruth == Spec => []EventTellsWhatHappened
<1>1. Inv => EventTellsWhatHappened
  <2> SUFFICES ASSUME Inv, NEW r \in Request, NEW i \in DOMAIN events[r]
               PROVE  TrueOf(events[r][i], r)
    BY DEF EventTellsWhatHappened, TrueOf
  <2>1. PICK e \in Event : events[r] = <<e>> /\ TrueOf(e, r)
    BY EventsOf
  <2>2. events[r][i] = e
    BY <2>1
  <2>. QED  BY <2>1, <2>2
<1>. QED  BY <1>1, Invariance, PTL

\* Every verdict leaves one audit event, also if the metrics behind it raise,
\* unless the request was not scanned to the end, for the sidecar or for the metric
\* of its failure, or the event could not be written.
THEOREM VerdictsAudited == Spec => []EveryVerdictAudited
<1>1. Inv => EveryVerdictAudited
  <2> SUFFICES ASSUME Inv, NEW r \in Request
               PROVE  Len(events[r]) =
                        IF \/ status[r] = "none"
                           \/ ~body[r].readable
                           \/ error[r] # "none"
                           \/ sink[r] = "audit_raises"
                        THEN 0 ELSE 1
    BY DEF EveryVerdictAudited
  <2>1. Len(<< >>) = 0 /\ \A e : Len(<<e>>) = 1
    OBVIOUS
  <2>2. CASE events[r] = << >>
    <3>1. \/ status[r] = "none" \/ ~body[r].readable \/ error[r] # "none"
          \/ sink[r] = "audit_raises"
      <4>1. \A e : events[r] # <<e>>
        BY <2>1, <2>2
      <4>. QED  BY <4>1, EventsOf
    <3>. QED  BY <2>1, <2>2, <3>1
  <2>3. CASE events[r] # << >>
    BY <2>1, <2>3, EventsOf
  <2>. QED  BY <2>2, <2>3
<1>. QED  BY <1>1, Invariance, PTL

-----------------------------------------------------------------------------

\* The calls whose failure could be counted and the requests refused for their
\* content whose observation came to the counter, which the counters count.
FailedCalls == {rf \in UNION {{r} \X FieldsOf(r) : r \in Request} :
                   call[rf[1]][rf[2]] = "unavailable"}

CountedSink == {"work", "late_raise"}

RefusedObserved == {r \in Request : status[r] \in Refusals /\ sink[r] \in CountedSink}

Failures(n) == IsFiniteSet(FailedCalls)
               /\ n = IF policy.onFailure = "block" THEN 0 ELSE Cardinality(FailedCalls)

Counted == /\ Failures(nerFailures)
           /\ IsFiniteSet(RefusedObserved) /\ blockedTotal = Cardinality(RefusedObserved)

LEMMA FailedCall ==
    \A p : p \in FailedCalls <=>
        \E r \in Request : \E f \in FieldsOf(r) : p = <<r, f>> /\ call[r][f] = "unavailable"
BY DEF FailedCalls

\* Each failure that can be counted is when its call ends, and no other step
\* counts one.
LEMMA CallsCounted ==
    ASSUME Inv, Counted, NEW r \in Request, StepOf(r)
    PROVE  IsFiniteSet(FailedCalls') /\ nerFailures' =
             IF policy'.onFailure = "block" THEN 0 ELSE Cardinality(FailedCalls')
<1>1. policy' = policy /\ body' = body /\ \A q : FieldsOf(q)' = FieldsOf(q)
  BY InputsStay DEF FieldsOf
<1>2. \A q \in Request : q # r => call'[q] = call[q]
  BY OthersSame DEF Inv, Same
<1>3. \A p : p \in FailedCalls' <=>
        \E q \in Request : \E g \in FieldsOf(q) : p = <<q, g>> /\ call'[q][g] = "unavailable"
  BY <1>1 DEF FailedCalls
<1>4. CASE \E f \in FieldsOf(r) : NerUnavailable(r, f) /\ call'[r][f] = "unavailable"
  <2>1. PICK f \in FieldsOf(r) : NerUnavailable(r, f) /\ call'[r][f] = "unavailable"
    BY <1>4
  <2>2. /\ call[r][f] = "asked" /\ call'[r][f] = "unavailable"
        /\ \A g \in FieldsOf(r) : g # f => call'[r][g] = call[r][g]
    <3>1. PICK end : call[r][f] = "asked" /\ call' = [call EXCEPT ![r][f] = end]
      BY <2>1, CallEnds
    <3>. QED  BY <2>1, <3>1 DEF Inv, TypeOK, Functions
  <2>3. <<r, f>> \notin FailedCalls
    BY <2>2, FailedCall
  <2>4. FailedCalls' = FailedCalls \cup {<<r, f>>}
    BY <1>2, <1>3, <2>2, FailedCall
  <2>5. /\ IsFiniteSet(FailedCalls')
        /\ Cardinality(FailedCalls') = Cardinality(FailedCalls) + 1
    BY <2>3, <2>4, FS_AddElement DEF Counted, Failures
  <2>6. nerFailures' = IF policy.onFailure = "block" THEN nerFailures ELSE nerFailures + 1
    <3>1. ~(\E how \in {"uncounted"} : Fail(r, f, how))
      BY <2>1 DEF Fail, Inv, TypeOK, Functions
    <3>. QED  BY <2>1, <3>1 DEF NerUnavailable, IncrNerFailure
  <2>. QED  BY <1>1, <2>5, <2>6 DEF Counted, Failures
<1>5. CASE ~\E f \in FieldsOf(r) : NerUnavailable(r, f) /\ call'[r][f] = "unavailable"
  <2>1. nerFailures' = nerFailures
    <3>1. CASE Sidecar(r)
      <4>1. PICK f \in FieldsOf(r) : NerAnswers(r, f) \/ NerUnavailable(r, f) \/ NerMalformed(r, f)
        BY <3>1 DEF Sidecar
      <4>2. CASE NerUnavailable(r, f)
        <5>1. call' # [call EXCEPT ![r][f] = "unavailable"]
          BY <1>5, <4>2 DEF Inv, TypeOK, Functions
        <5>. QED  BY <4>2, <5>1 DEF NerUnavailable, IncrNerFailure, Fail
      <4>. QED  BY <4>1, <4>2 DEF NerAnswers, NerMalformed, observed
    <3>. QED  BY <3>1 DEF StepOf, Hook, Answer, ReceiveUnreadable, ReceiveOversized,
              ReceiveL1Only, ReceiveNer, ResumeWithError, Resume, observed
  <2>2. \A g \in FieldsOf(r) : call'[r][g] = "unavailable" <=> call[r][g] = "unavailable"
    <3>1. CASE Sidecar(r)
      <4>1. PICK f \in FieldsOf(r), end \in {"answered", "unavailable", "malformed", "uncounted"} :
              /\ NerAnswers(r, f) \/ NerUnavailable(r, f) \/ NerMalformed(r, f)
              /\ call[r][f] = "asked" /\ call' = [call EXCEPT ![r][f] = end]
        BY <3>1, CallEnds DEF Sidecar
      <4>2. /\ call'[r][f] = end
            /\ \A g \in FieldsOf(r) : g # f => call'[r][g] = call[r][g]
        BY <4>1 DEF Inv, TypeOK, Functions
      <4>3. end # "unavailable"
        BY <1>5, <4>1, <4>2 DEF NerAnswers, NerMalformed, Fail, Inv, TypeOK, Functions
      <4>. QED  BY <4>1, <4>2, <4>3
    <3>2. CASE ReceiveNer(r)
      <4>1. \A g \in FieldsOf(r) : call[r][g] = "none"
        BY <3>2 DEF ReceiveNer, Inv, Told, Calls
      <4>2. \A g \in FieldsOf(r) : call'[r][g] \in {"answered", "asked"}
        BY <3>2 DEF ReceiveNer, Inv, Functions
      <4>. QED  BY <4>1, <4>2
    <3>3. CASE call' = call
      BY <3>3
    <3>. QED  BY <3>1, <3>2, <3>3 DEF StepOf, Hook, Answer, ReceiveUnreadable,
              ReceiveOversized, ReceiveL1Only, ResumeWithError, Resume
  <2>3. FailedCalls' = FailedCalls
    <3>1. \A q \in Request : \A g \in FieldsOf(q) :
            call'[q][g] = "unavailable" <=> call[q][g] = "unavailable"
      BY <1>2, <2>2
    <3>2. \A p : p \in FailedCalls' <=> p \in FailedCalls
      BY <1>3, <3>1, FailedCall
    <3>. QED  BY <3>2
  <2>. QED  BY <1>1, <2>1, <2>3 DEF Counted, Failures
<1>. QED  BY <1>4, <1>5

\* An observed verdict is counted if it is a refusal for the content.
LEMMA ObservedCount ==
    ASSUME TypeOK, NEW r \in Request, NEW event \in Event, NEW flagged,
           Observe(r, event, flagged)
    PROVE  blockedTotal' = blockedTotal
                             + IF sink'[r] \in CountedSink /\ event.blocked THEN 1 ELSE 0
BY DEF Observe, RecordScan, TypeOK, CountedSink

\* So a step counts its request once, if it becomes one to be counted.
LEMMA VerdictCount ==
    ASSUME Inv, Inv', NEW r \in Request, StepOf(r)
    PROVE  /\ r \in RefusedObserved => r \in RefusedObserved'
           /\ blockedTotal' = blockedTotal
                + IF r \in RefusedObserved' /\ r \notin RefusedObserved THEN 1 ELSE 0
<1>1. TypeOK /\ Functions /\ Core(r) /\ blockedTotal \in Nat
  BY DEF Inv, TypeOK
<1>2. CASE UNCHANGED <<status, sink, blockedTotal>>
  BY <1>1, <1>2 DEF RefusedObserved, CountedSink
<1>3. ASSUME Open(r), UNCHANGED <<sink, blockedTotal>>
      PROVE  blockedTotal' = blockedTotal /\ r \notin RefusedObserved /\ r \notin RefusedObserved'
  BY <1>1, <1>3 DEF Core, Waiting, RefusedObserved, CountedSink
<1>4. ASSUME Open(r), NEW event \in Event, NEW flagged, Observe(r, event, flagged),
             event.blocked <=> status'[r] \in Refusals
      PROVE  /\ r \notin RefusedObserved
             /\ blockedTotal' = blockedTotal + IF r \in RefusedObserved' THEN 1 ELSE 0
  <2>1. blockedTotal' = blockedTotal
                          + IF sink'[r] \in CountedSink /\ event.blocked THEN 1 ELSE 0
    BY <1>1, <1>4, ObservedCount
  <2>2. r \notin RefusedObserved
    BY <1>1, <1>4 DEF Core, Waiting, RefusedObserved, CountedSink
  <2>3. r \in RefusedObserved' <=> sink'[r] \in CountedSink /\ event.blocked
    BY <1>4 DEF RefusedObserved, Refusals, CountedSink
  <2>. QED  BY <2>1, <2>2, <2>3
<1>5. ASSUME Open(r), NEW scans \in Scans(r), Finalize(r, scans)
      PROVE  /\ r \notin RefusedObserved
             /\ blockedTotal' = blockedTotal + IF r \in RefusedObserved' THEN 1 ELSE 0
  <2>1. PICK result \in Event : result = ResultOf(r, scans)
    BY <1>1, ResultType
  <2>2. result.blocked <=> ContentBlocked(scans) \/ InjectionBlocked(r)
    BY <2>1 DEF ResultOf
  <2>3. status'[r] \in Refusals <=> ContentBlocked(scans) \/ InjectionBlocked(r)
    BY <1>1, <1>5 DEF Finalize, Reject, Deliver, InternalError, TypeOK, Refusals
  <2>4. Observe(r, result, Flagged(r))
    BY <1>5, <2>1 DEF Finalize
  <2>. QED  BY <1>4, <1>5, <2>2, <2>3, <2>4
<1>6. CASE Sidecar(r) \/ Answer(r) \/ ReceiveNer(r)
  BY <1>2, <1>6 DEF Sidecar, Answer, ReceiveNer, NerAnswers, NerUnavailable, NerMalformed,
     results, observed, told
<1>7. CASE ReceiveUnreadable(r) \/ ResumeWithError(r)
  BY <1>1, <1>3, <1>7 DEF ReceiveUnreadable, ResumeWithError, Open, observed, told
<1>8. CASE ReceiveOversized(r)
  <2>1. /\ Open(r) /\ status'[r] = "oversized_input"
        /\ Observe(r, OversizedResult, FlaggedUnscanned)
    BY <1>1, <1>8 DEF ReceiveOversized, Reject, TypeOK, Open
  <2>2. OversizedResult \in Event /\ OversizedResult.blocked
    BY DEF OversizedResult, Event
  <2>. QED  BY <1>4, <2>1, <2>2 DEF Refusals
<1>9. CASE ReceiveL1Only(r)
  <2>1. Open(r) /\ Finalize(r, L1Scans(r))
    BY <1>9 DEF ReceiveL1Only, Open
  <2>. QED  BY <1>1, <1>5, <2>1, L1ScansType
<1>10. CASE Resume(r)
  <2>1. Open(r) /\ Finalize(r, NerScans(r))
    BY <1>10 DEF Resume, Open
  <2>. QED  BY <1>1, <1>5, <2>1, NerScansType
<1>. QED  BY <1>6, <1>7, <1>8, <1>9, <1>10 DEF StepOf, Hook

LEMMA StepCounted ==
    ASSUME Inv, Inv', Counted, NEW r \in Request, StepOf(r)
    PROVE  Counted'
<1>1. \A q \in Request : q # r => (q \in RefusedObserved' <=> q \in RefusedObserved)
  BY OthersSame DEF Inv, Same, RefusedObserved, Refusals, CountedSink
<1>2. RefusedObserved \subseteq Request /\ RefusedObserved' \subseteq Request
  BY DEF RefusedObserved
<1>3. IsFiniteSet(RefusedObserved') /\ blockedTotal' = Cardinality(RefusedObserved')
  <2>1. CASE r \in RefusedObserved' /\ r \notin RefusedObserved
    <3>1. RefusedObserved' = RefusedObserved \cup {r}
      BY <1>1, <1>2, <2>1
    <3>2. blockedTotal' = blockedTotal + 1
      BY <2>1, VerdictCount
    <3>. QED  BY <2>1, <3>1, <3>2, FS_AddElement DEF Counted
  <2>2. CASE ~(r \in RefusedObserved' /\ r \notin RefusedObserved)
    <3>1. RefusedObserved' = RefusedObserved
      BY <1>1, <1>2, <2>2, VerdictCount
    <3>2. blockedTotal' = blockedTotal
      BY <2>2, VerdictCount DEF Inv, TypeOK
    <3>. QED  BY <3>1, <3>2 DEF Counted
  <2>. QED  BY <2>1, <2>2
<1>. QED  BY <1>3, CallsCounted DEF Counted, Failures

\* The counters agree with what became of the requests and of the calls, however
\* many there are, however they interleave and wherever the metrics raise.
THEOREM CountersRight == Spec => []CountersAgree
<1>1. Init => Counted
  <2> SUFFICES ASSUME Init PROVE Counted
    OBVIOUS
  <2>1. FailedCalls = {}
    BY FailedCall DEF Init
  <2>2. RefusedObserved = {}
    BY DEF Init, RefusedObserved, CountedSink
  <2>. QED  BY <2>1, <2>2, FS_EmptySet DEF Counted, Failures, Init
<1>2. Inv /\ Inv' /\ Counted /\ [Next]_vars => Counted'
  <2> SUFFICES ASSUME Inv, Inv', Counted, [Next]_vars PROVE Counted'
    OBVIOUS
  <2>1. CASE Next
    BY <2>1, StepCounted DEF Next, StepOf
  <2>2. CASE UNCHANGED vars
    <3>1. UNCHANGED <<policy, body, call, status, sink, blockedTotal, nerFailures>>
      BY <2>2 DEF vars, results, observed, told
    <3>2. FailedCalls' = FailedCalls /\ RefusedObserved' = RefusedObserved
      BY <3>1 DEF FailedCalls, RefusedObserved, FieldsOf
    <3>. QED  BY <3>1, <3>2 DEF Counted, Failures
  <2>. QED  BY <2>1, <2>2
<1>3. Counted => CountersAgree
  BY DEF Counted, Failures, CountersAgree, FailedCalls, RefusedObserved, CountedSink
<1>. QED  BY <1>1, <1>2, <1>3, Invariance, PTL DEF Spec

-----------------------------------------------------------------------------

\* The weights of every category are strong or weak.
LEMMA WeightsAreSmall ==
    ASSUME NEW c \in Category
    PROVE  \A i \in 1..Len(Weights[c]) : Weights[c][i] \in {1, 2}
<1>1. /\ Weights["OVERRIDE"] = <<2, 2>> /\ Weights["EXFIL"] = <<2, 2>>
      /\ Weights["DELIM"] = <<2, 2>> /\ Weights["ROLE"] = <<2, 2, 1, 1>>
      /\ Weights["SUPPRESS"] = <<2, 2, 1, 1>> /\ Weights["ENCODING"] = <<1, 1>>
  BY DEF Weights
<1>2. Weights[c] \in {<<2, 2>>, <<2, 2, 1, 1>>, <<1, 1>>}
  BY <1>1 DEF Category
<1>3. /\ \A i \in 1..2 : <<2, 2>>[i] \in {1, 2}
      /\ \A i \in 1..4 : <<2, 2, 1, 1>>[i] \in {1, 2}
      /\ \A i \in 1..2 : <<1, 1>>[i] \in {1, 2}
      /\ Len(<<2, 2>>) = 2 /\ Len(<<2, 2, 1, 1>>) = 4 /\ Len(<<1, 1>>) = 2
  OBVIOUS
<1>. QED  BY <1>2, <1>3

\* The highest weight of a category, by what fires.
LEMMA MaxWeightMeans ==
    ASSUME NEW fired \in SUBSET Pattern, NEW c \in Category
    PROVE  /\ MaxWeight(fired, c) \in {0, 1, 2}
           /\ MaxWeight(fired, c) # 0 <=> \E p \in fired : p[1] = c
           /\ MaxWeight(fired, c) = 2 <=> \E p \in fired : p[1] = c /\ Weights[p[1]][p[2]] = 2
<1>1. \A p \in fired : /\ p = <<p[1], p[2]>> /\ p[1] \in Category
                       /\ p[2] \in 1..Len(Weights[p[1]])
  BY DEF Pattern
<1>2. \A w : Fires(fired, c, w) <=> \E p \in fired : p[1] = c /\ Weights[p[1]][p[2]] = w
  BY <1>1 DEF Fires
<1>3. \A p \in fired : Weights[p[1]][p[2]] \in {1, 2}
  BY <1>1, WeightsAreSmall
<1>. QED  BY <1>2, <1>3 DEF MaxWeight

\* The score reaches a threshold of 1 or 2 for the signals it is meant for.
LEMMA ScoreMeans ==
    ASSUME NEW fired \in SUBSET Pattern
    PROVE  /\ Score(fired) \in Nat
           /\ Score(fired) >= 1 <=> fired # {}
           /\ Score(fired) >= 2 <=> fired # {} /\ (Strong(fired) \/ TwoCategories(fired))
<1> DEFINE w(c) == MaxWeight(fired, c)
<1>1. \A c \in Category :
        /\ w(c) \in {0, 1, 2}
        /\ w(c) # 0 <=> \E p \in fired : p[1] = c
        /\ w(c) = 2 <=> \E p \in fired : p[1] = c /\ Weights[p[1]][p[2]] = 2
  BY MaxWeightMeans
<1>2. \A p \in fired : p[1] \in Category
  BY DEF Pattern
<1>3. Score(fired) = w("OVERRIDE") + w("EXFIL") + w("DELIM") + w("ROLE")
                       + w("SUPPRESS") + w("ENCODING")
  BY DEF Score
<1> HIDE DEF w
<1>4. \A c \in Category : c \in {"OVERRIDE", "EXFIL", "DELIM", "ROLE", "SUPPRESS", "ENCODING"}
  BY DEF Category
<1>5. /\ "OVERRIDE" \in Category /\ "EXFIL" \in Category /\ "DELIM" \in Category
      /\ "ROLE" \in Category /\ "SUPPRESS" \in Category /\ "ENCODING" \in Category
  BY DEF Category
<1>6. Score(fired) >= 1 <=> \E c \in Category : w(c) # 0
  BY <1>1, <1>3, <1>4, <1>5
<1>7. fired # {} <=> \E c \in Category : w(c) # 0
  BY <1>1, <1>2
<1>8. Score(fired) >= 2 <=> \/ \E c \in Category : w(c) = 2
                            \/ \E c, d \in Category : c # d /\ w(c) # 0 /\ w(d) # 0
  BY <1>1, <1>3, <1>4, <1>5
<1>9. (\E c \in Category : w(c) = 2) <=> Strong(fired)
  BY <1>1, <1>2 DEF Strong
<1>10. (\E c, d \in Category : c # d /\ w(c) # 0 /\ w(d) # 0) <=> TwoCategories(fired)
  BY <1>1, <1>2 DEF TwoCategories
<1>11. Strong(fired) \/ TwoCategories(fired) => fired # {}
  BY DEF Strong, TwoCategories
<1>12. Score(fired) \in Nat
  BY <1>1, <1>3, <1>5
<1>. QED  BY <1>6, <1>7, <1>8, <1>9, <1>10, <1>11, <1>12

\* So a request is flagged for its signals.
LEMMA FlaggedMeans ==
    ASSUME TypeOK, NEW r \in Request, policy.threshold <= 2
    PROVE  Flagged(r) <=> policy.injection # "off" /\ Signals(r)
<1>1. policy.threshold \in Int
  BY DEF TypeOK, Policy
<1>2. CASE policy.threshold <= 0
  BY <1>1, <1>2 DEF Flagged, FlaggedUnscanned, Signals
<1>3. CASE policy.threshold \in {1, 2}
  <2>1. \A f \in FieldsOf(r) : body[r].fields[f].fired \in SUBSET Pattern
    BY FieldsAreNumbered DEF Field
  <2>2. \A f \in FieldsOf(r) :
          LET fired == body[r].fields[f].fired
          IN  Score(fired) >= policy.threshold
                <=> fired # {} /\ (policy.threshold = 1 \/ Strong(fired) \/ TwoCategories(fired))
    BY <1>3, <2>1, ScoreMeans
  <2>3. ~(0 >= policy.threshold) /\ ~(policy.threshold <= 0)
    BY <1>3
  <2>. QED  BY <2>2, <2>3 DEF Flagged, FlaggedUnscanned, Signals
<1>4. policy.threshold <= 0 \/ policy.threshold \in {1, 2}
  BY <1>1
<1>. QED  BY <1>2, <1>3, <1>4

\* The requests that count as flagged.
FlaggedObserved ==
    {r \in Request : /\ sink[r] = "work"
                     /\ IF status[r] = "oversized_input" THEN FlaggedUnscanned ELSE Flagged(r)}

FlagsCounted == IsFiniteSet(FlaggedObserved) /\ flaggedTotal = Cardinality(FlaggedObserved)

LEMMA ObservedFlag ==
    ASSUME TypeOK, NEW r \in Request, NEW event, NEW flagged, Observe(r, event, flagged)
    PROVE  flaggedTotal' = flaggedTotal + IF sink'[r] = "work" /\ flagged THEN 1 ELSE 0
BY DEF Observe, IncrInjection, TypeOK

\* A step counts its request once, if it becomes one to be counted.
LEMMA VerdictFlag ==
    ASSUME Inv, Inv', NEW r \in Request, StepOf(r)
    PROVE  /\ r \in FlaggedObserved => r \in FlaggedObserved'
           /\ flaggedTotal' = flaggedTotal
                + IF r \in FlaggedObserved' /\ r \notin FlaggedObserved THEN 1 ELSE 0
<1>1. TypeOK /\ Functions /\ Core(r) /\ flaggedTotal \in Nat
  BY DEF Inv, TypeOK
<1>2. Flagged(r)' = Flagged(r) /\ FlaggedUnscanned' = FlaggedUnscanned
  BY InputsStay, InputsFixed DEF FlaggedUnscanned
<1>3. CASE UNCHANGED <<status, sink, flaggedTotal>>
  BY <1>1, <1>2, <1>3 DEF FlaggedObserved
<1>4. ASSUME Open(r), UNCHANGED <<sink, flaggedTotal>>
      PROVE  flaggedTotal' = flaggedTotal /\ r \notin FlaggedObserved /\ r \notin FlaggedObserved'
  BY <1>1, <1>4 DEF Core, Waiting, FlaggedObserved
<1>5. ASSUME Open(r), NEW event, NEW flagged, Observe(r, event, flagged),
             flagged <=> IF status'[r] = "oversized_input" THEN FlaggedUnscanned ELSE Flagged(r)
      PROVE  /\ r \notin FlaggedObserved
             /\ flaggedTotal' = flaggedTotal + IF r \in FlaggedObserved' THEN 1 ELSE 0
  <2>1. flaggedTotal' = flaggedTotal + IF sink'[r] = "work" /\ flagged THEN 1 ELSE 0
    BY <1>1, <1>5, ObservedFlag
  <2>2. r \notin FlaggedObserved
    BY <1>1, <1>5 DEF Core, Waiting, FlaggedObserved
  <2>3. r \in FlaggedObserved' <=> sink'[r] = "work" /\ flagged
    BY <1>2, <1>5 DEF FlaggedObserved
  <2>. QED  BY <2>1, <2>2, <2>3
<1>6. ASSUME Open(r), NEW scans, Finalize(r, scans)
      PROVE  /\ r \notin FlaggedObserved
             /\ flaggedTotal' = flaggedTotal + IF r \in FlaggedObserved' THEN 1 ELSE 0
  <2>1. status'[r] # "oversized_input"
    BY <1>1, <1>6 DEF Finalize, Reject, Deliver, InternalError, TypeOK
  <2>2. Observe(r, ResultOf(r, scans), Flagged(r))
    BY <1>6 DEF Finalize
  <2>. QED  BY <1>5, <1>6, <2>1, <2>2
<1>7. CASE Sidecar(r) \/ Answer(r) \/ ReceiveNer(r)
  BY <1>3, <1>7 DEF Sidecar, Answer, ReceiveNer, NerAnswers, NerUnavailable, NerMalformed,
     results, observed, told
<1>8. CASE ReceiveUnreadable(r) \/ ResumeWithError(r)
  BY <1>1, <1>4, <1>8 DEF ReceiveUnreadable, ResumeWithError, Open, observed, told
<1>9. CASE ReceiveOversized(r)
  <2>1. /\ Open(r) /\ status'[r] = "oversized_input"
        /\ Observe(r, OversizedResult, FlaggedUnscanned)
    BY <1>1, <1>9 DEF ReceiveOversized, Reject, TypeOK, Open
  <2>. QED  BY <1>5, <2>1
<1>10. CASE ReceiveL1Only(r)
  BY <1>1, <1>6, <1>10 DEF ReceiveL1Only, Open
<1>11. CASE Resume(r)
  BY <1>1, <1>6, <1>11 DEF Resume, Open
<1>. QED  BY <1>7, <1>8, <1>9, <1>10, <1>11 DEF StepOf, Hook

LEMMA StepFlagged ==
    ASSUME Inv, Inv', FlagsCounted, NEW r \in Request, StepOf(r)
    PROVE  FlagsCounted'
<1>1. ASSUME NEW q \in Request, q # r PROVE q \in FlaggedObserved' <=> q \in FlaggedObserved
  <2>1. Flagged(q)' = Flagged(q) /\ FlaggedUnscanned' = FlaggedUnscanned
    BY InputsStay, InputsFixed DEF FlaggedUnscanned
  <2>. QED  BY <1>1, <2>1, OthersSame DEF Inv, Same, FlaggedObserved
<1>2. FlaggedObserved \subseteq Request /\ FlaggedObserved' \subseteq Request
  BY DEF FlaggedObserved
<1>3. CASE r \in FlaggedObserved' /\ r \notin FlaggedObserved
  <2>1. FlaggedObserved' = FlaggedObserved \cup {r}
    BY <1>1, <1>2, <1>3
  <2>2. flaggedTotal' = flaggedTotal + 1
    BY <1>3, VerdictFlag
  <2>. QED  BY <1>3, <2>1, <2>2, FS_AddElement DEF FlagsCounted
<1>4. CASE ~(r \in FlaggedObserved' /\ r \notin FlaggedObserved)
  <2>1. FlaggedObserved' = FlaggedObserved
    BY <1>1, <1>2, <1>4, VerdictFlag
  <2>2. flaggedTotal' = flaggedTotal
    BY <1>4, VerdictFlag DEF Inv, TypeOK
  <2>. QED  BY <2>1, <2>2 DEF FlagsCounted
<1>. QED  BY <1>3, <1>4

\* Requests are flagged and refused for their signals, whatever patterns fire.
THEOREM FlagsRight == Spec => []FlaggedForItsSignals
<1>1. Init => FlagsCounted
  <2> SUFFICES ASSUME Init PROVE FlagsCounted
    OBVIOUS
  <2>1. FlaggedObserved = {}
    BY DEF Init, FlaggedObserved
  <2>. QED  BY <2>1, FS_EmptySet DEF FlagsCounted, Init
<1>2. Inv /\ Inv' /\ FlagsCounted /\ [Next]_vars => FlagsCounted'
  <2> SUFFICES ASSUME Inv, Inv', FlagsCounted, [Next]_vars PROVE FlagsCounted'
    OBVIOUS
  <2>1. CASE Next
    BY <2>1, StepFlagged DEF Next, StepOf
  <2>2. CASE UNCHANGED vars
    <3>1. UNCHANGED <<policy, body, status, sink, flaggedTotal>>
      BY <2>2 DEF vars, results, observed, told
    <3>2. FlaggedObserved' = FlaggedObserved
      BY <3>1 DEF FlaggedObserved, Flagged, FlaggedUnscanned, FieldsOf
    <3>. QED  BY <3>1, <3>2 DEF FlagsCounted
  <2>. QED  BY <2>1, <2>2
<1>3. Inv /\ FlagsCounted => FlaggedForItsSignals
  <2> SUFFICES ASSUME Inv, FlagsCounted, policy.threshold <= 2
      PROVE  /\ flaggedTotal = Cardinality({r \in Request :
                   /\ sink[r] = "work"
                   /\ policy.injection # "off"
                   /\ IF status[r] = "oversized_input"
                      THEN policy.threshold <= 0 ELSE Signals(r)})
             /\ \A r \in Request :
                   /\ status[r] = "injection_blocked" => Signals(r)
                   /\ Sent(r) /\ ~failedOpen[r] /\ policy.injection = "block" => ~Signals(r)
    BY DEF FlaggedForItsSignals
  <2>1. \A r \in Request : Flagged(r) <=> policy.injection # "off" /\ Signals(r)
    BY FlaggedMeans DEF Inv
  <2>2. FlaggedUnscanned <=> policy.injection # "off" /\ policy.threshold <= 0
    BY DEF FlaggedUnscanned, Inv, TypeOK, Policy
  <2>3. FlaggedObserved = {r \in Request :
                   /\ sink[r] = "work"
                   /\ policy.injection # "off"
                   /\ IF status[r] = "oversized_input"
                      THEN policy.threshold <= 0 ELSE Signals(r)}
    BY <2>1, <2>2 DEF FlaggedObserved
  <2>4. ASSUME NEW r \in Request
        PROVE  /\ status[r] = "injection_blocked" => Signals(r)
               /\ Sent(r) /\ ~failedOpen[r] /\ policy.injection = "block" => ~Signals(r)
    <3>1. status[r] = "injection_blocked" => Flagged(r)
      BY DEF Inv, Told, Reasoned
    <3>2. Sent(r) /\ ~failedOpen[r] => ~InjectionBlocked(r)
      BY DEF Inv, Scanned
    <3>. QED  BY <2>1, <3>1, <3>2 DEF InjectionBlocked
  <2>. QED  BY <2>3, <2>4 DEF FlagsCounted
<1>. QED  BY <1>1, <1>2, <1>3, Invariance, PTL DEF Spec

-----------------------------------------------------------------------------

\* The state of RequestLife that Gateway implements.
Life == [r \in Request |-> LifeOf(r)]
Found == [r \in Request |-> Places(kept[r])]
Hidden == [r \in Request |-> IF pc[r] = "rejected" THEN {} ELSE Places(masked[r])]
Within(r) == {p \in Places(masked[r]) : p[1] \in heard[r]} \ WidePlaces(r)
Reach == [r \in Request |-> Within(r)]

\* What an answer has within reach depends on what it repeats and what is replaced.
LEMMA WithinFrame ==
    ASSUME NEW r \in Request, masked'[r] = masked[r], heard'[r] = heard[r]
    PROVE  Within(r)' = Within(r)
<1>1. WidePlaces(r)' = WidePlaces(r)
  BY WidePlacesFrame
<1>2. Places(masked[r])' = Places(masked[r])
  BY DEF Places
<1>. QED  BY <1>1, <1>2 DEF Within

\* Before its answer a request has nothing within reach.
LEMMA NothingWithin ==
    ASSUME NEW r \in Request, heard[r] = {} PROVE Within(r) = {}
BY DEF Within

\* A step of one request is one about that request in RequestLife as well.
LEMMA LifeOfOthers ==
    ASSUME TypeOK, Functions, NEW r \in Request, StepOf(r)
    PROVE  /\ Life' = [Life EXCEPT ![r] = Life'[r]]
           /\ Found' = [Found EXCEPT ![r] = Found'[r]]
           /\ Hidden' = [Hidden EXCEPT ![r] = Hidden'[r]]
           /\ Reach' = [Reach EXCEPT ![r] = Reach'[r]]
<1>1. ASSUME NEW q \in Request, q # r
      PROVE  /\ LifeOf(q)' = LifeOf(q) /\ Places(kept[q])' = Places(kept[q])
             /\ Places(masked[q])' = Places(masked[q]) /\ pc'[q] = pc[q]
             /\ Within(q)' = Within(q)
  <2>1. Same(q)
    BY <1>1, OthersSame
  <2>2. Within(q)' = Within(q)
    BY <2>1, WithinFrame DEF Same
  <2>. QED  BY <2>1, <2>2 DEF Same, LifeOf, Places
<1>2. Life' = [Life EXCEPT ![r] = Life'[r]]
  BY <1>1 DEF Life
<1>3. Found' = [Found EXCEPT ![r] = Found'[r]]
  BY <1>1 DEF Found
<1>4. Hidden' = [Hidden EXCEPT ![r] = Hidden'[r]]
  BY <1>1 DEF Hidden
<1>5. Reach' = [Reach EXCEPT ![r] = Reach'[r]]
  BY <1>1 DEF Reach
<1>. QED  BY <1>2, <1>3, <1>4, <1>5

\* What merging kept of a request that goes out: nothing that blocks, and what
\* is to be masked is what is replaced.
LEMMA SentFacts ==
    ASSUME TypeOK, NEW r \in Request, NEW scans \in Scans(r),
           \A f \in FieldsOf(r) : WithAction(scans[f], "block") = {}
    PROVE  /\ Places(scans) \cap ActedOn("block") = {}
           /\ Places(InAction(scans, "mask")) = Places(scans) \cap ActedOn("mask")
<1>1. /\ Places(scans) \subseteq Place
      /\ Places(InAction(scans, "mask")) = {p \in Places(scans) : ActionOf[p[2].entity] = "mask"}
  BY PlacesType
<1>2. \A p \in Places(scans) : ActionOf[p[2].entity] # "block"
  <2> SUFFICES ASSUME NEW f \in DOMAIN scans, NEW d \in scans[f]
               PROVE  ActionOf[d.entity] # "block"
    BY DEF Places
  <2>1. f \in FieldsOf(r)
    BY DEF Scans
  <2>. QED  BY <2>1 DEF WithAction
<1>. QED  BY <1>1, <1>2 DEF ActedOn

\* A verdict is a refusal, a body that goes out, or one that goes out unchecked
\* where the policy allows it.
LEMMA VerdictRefines ==
    ASSUME Inv, Inv', NEW r \in Request, StepOf(r), Open(r), ~Open(r)'
    PROVE  Promise!Refuse(r) \/ Promise!Send(r) \/ Promise!SendUnchecked(r)
<1>1. policy' = policy /\ body' = body /\ heard' = heard /\ answer' = answer
  BY InputsStay DEF StepOf, Hook, Sidecar, Answer, NerAnswers, NerUnavailable, NerMalformed,
     ReceiveUnreadable, ReceiveOversized, ReceiveL1Only, ReceiveNer, ResumeWithError, Resume,
     Open, response
<1>2. FieldsOf(r)' = FieldsOf(r) /\ NoneIn(r)' = NoneIn(r) /\ Scans(r)' = Scans(r)
  BY <1>1 DEF FieldsOf, NoneIn, Scans
<1>3. TypeOK /\ Functions /\ Core(r) /\ Core(r)'
  BY DEF Inv
<1>4. /\ Life' = [Life EXCEPT ![r] = Life'[r]]
      /\ Found' = [Found EXCEPT ![r] = Found'[r]]
      /\ Hidden' = [Hidden EXCEPT ![r] = Hidden'[r]]
      /\ Reach' = Reach
  <2>1. /\ Life' = [Life EXCEPT ![r] = Life'[r]]
        /\ Found' = [Found EXCEPT ![r] = Found'[r]]
        /\ Hidden' = [Hidden EXCEPT ![r] = Hidden'[r]]
        /\ Reach' = [Reach EXCEPT ![r] = Reach'[r]]
    BY <1>3, LifeOfOthers
  <2>2. heard[r] = {} /\ heard'[r] = {}
    BY <1>1, <1>3 DEF Core, Answered, Open
  <2>3. Within(r) = {}
    BY <2>2, NothingWithin
  <2>4. Within(r)' = {}
    BY <2>2 DEF Within
  <2>5. Reach[r] = {} /\ Reach'[r] = {}
    BY <2>3, <2>4 DEF Reach
  <2>6. [Reach EXCEPT ![r] = Reach[r]] = Reach
    BY DEF Reach
  <2>. QED  BY <2>1, <2>5, <2>6
<1>5. /\ Life[r] = "open" /\ Hidden[r] = {}
      /\ pc'[r] \in {"forwarded", "rejected", "answered"} /\ pc'[r] # "answered"
  <2>1. Life[r] = "open"
    BY DEF Life, LifeOf, Open
  <2>2. Hidden[r] = {}
    BY <1>3, NothingIn DEF Hidden, Core, Waiting
  <2>3. pc'[r] \in {"received", "scanning", "forwarded", "rejected", "answered"}
    BY DEF Inv, TypeOK
  <2>4. pc'[r] # "answered"
    <3>1. CASE Sidecar(r) \/ Answer(r)
      BY <3>1 DEF Sidecar, Answer, NerAnswers, NerUnavailable, NerMalformed, Open
    <3>2. CASE Hook(r)
      BY <1>3, <3>2 DEF Hook, ReceiveUnreadable, ReceiveOversized, ReceiveL1Only, ReceiveNer,
         ResumeWithError, Resume, Finalize, Deliver, Reject, InternalError, TypeOK
    <3>. QED  BY <3>1, <3>2 DEF StepOf
  <2>. QED  BY <2>1, <2>2, <2>3, <2>4 DEF Open
<1>6. CASE pc'[r] = "rejected"
  <2>1. Life'[r] = "refused" /\ Hidden'[r] = {}
    BY <1>6 DEF Life, LifeOf, Hidden
  <2>2. Life' = [Life EXCEPT ![r] = "refused"] /\ Hidden' = [Hidden EXCEPT ![r] = Hidden[r]]
    BY <1>4, <1>5, <2>1
  <2>3. [Hidden EXCEPT ![r] = Hidden[r]] = Hidden
    BY DEF Hidden
  <2>. QED  BY <1>1, <1>4, <1>5, <2>2, <2>3 
            DEF Promise!Refuse, Promise!OnlyAt, Life, Found, Hidden, Reach, Within
<1>7. CASE pc'[r] = "forwarded"
  <2>1. /\ status'[r] = "ok" /\ kept'[r] \in Scans(r)
        /\ \A f \in FieldsOf(r) : WithAction(kept'[r][f], "block") = {}
        /\ masked'[r] = InAction(kept'[r], "mask")
    <3>1. Judged(r)' /\ (kept[r] \in Scans(r))' /\ status'[r] = "ok"
      BY <1>3, <1>7 DEF Core, Judged
    <3>2. InAction(kept[r], "mask")' = InAction(kept'[r], "mask")
          /\ (\A f \in FieldsOf(r) : WithAction(kept[r][f], "block") = {})'
               <=> \A f \in FieldsOf(r) : WithAction(kept'[r][f], "block") = {}
      BY <1>2 DEF InAction, WithAction
    <3>. QED  BY <1>2, <3>1, <3>2 DEF Judged, Refusals
  <2>2. /\ Places(kept'[r]) \cap ActedOn("block") = {}
        /\ Places(masked'[r]) = Places(kept'[r]) \cap ActedOn("mask")
    BY <1>3, <2>1, SentFacts
  <2>3. Found'[r] = Places(kept'[r]) /\ Hidden'[r] = Places(masked'[r])
    BY <1>7 DEF Found, Hidden, Places
  <2>4. /\ Found'[r] \cap ActedOn("block") = {}
        /\ Hidden'[r] = Found'[r] \cap ActedOn("mask")
    BY <2>2, <2>3
  <2>5. CASE ~failedOpen'[r]
    <3>1. Life'[r] = "sent"
      BY <1>7, <2>5 DEF Life, LifeOf
    <3>. QED  BY <1>1, <1>4, <1>5, <2>4, <3>1
              DEF Promise!Send, Promise!OnlyAt, Life, Found, Hidden, Reach, Within
  <2>6. CASE failedOpen'[r]
    <3>1. Life'[r] = "unchecked" /\ policy.onInternalError = "allow"
      BY <1>1, <1>3, <1>7, <2>6 DEF Life, LifeOf, Core, Judged
    <3>. QED  BY <1>1, <1>4, <1>5, <2>4, <3>1
              DEF Promise!SendUnchecked, Promise!OnlyAt, Life, Found, Hidden, Reach, Within
  <2>. QED  BY <2>5, <2>6
<1>. QED  BY <1>5, <1>6, <1>7

\* Every step is one of RequestLife, or none.
LEMMA StepRefines ==
    ASSUME Inv, Inv', NEW r \in Request, StepOf(r)
    PROVE  Promise!Next \/ UNCHANGED Promise!vars
<1>1. policy' = policy /\ body' = body
  BY InputsStay
<1>2. /\ Life' = [Life EXCEPT ![r] = Life'[r]]
      /\ Found' = [Found EXCEPT ![r] = Found'[r]]
      /\ Hidden' = [Hidden EXCEPT ![r] = Hidden'[r]]
      /\ Reach' = [Reach EXCEPT ![r] = Reach'[r]]
  BY LifeOfOthers DEF Inv
<1>3. CASE Answer(r)
  <2>1. /\ Open(r) = FALSE /\ pc[r] = "forwarded" /\ pc'[r] = "answered"
        /\ kept' = kept /\ masked' = masked /\ mapping' = mapping /\ failedOpen' = failedOpen
        /\ status' = status
    BY <1>3 DEF Answer, Inv, TypeOK, Functions, Open, results
  <2>2. Life' = [Life EXCEPT ![r] = "answered"]
    BY <1>2, <2>1 DEF Life, LifeOf
  <2>3. Life[r] \in {"sent", "unchecked"} /\ (Life[r] = "sent" => ~failedOpen[r])
    BY <2>1 DEF Life, LifeOf
  <2>4. Found' = Found /\ Hidden[r] = Places(masked[r]) /\ Hidden'[r] = Hidden[r]
    BY <2>1 DEF Found, Hidden, Places
  <2>5. Hidden' = Hidden
    <3>1. [Hidden EXCEPT ![r] = Hidden[r]] = Hidden
      BY DEF Hidden
    <3>. QED  BY <1>2, <2>4, <3>1
  <2>6. /\ answer' = [answer EXCEPT ![r] = answer'[r]]
        /\ answer'[r] = Places(masked[r]) \
               ({p \in mapping[r] : p[1] \in heard'[r]} \ WidePlaces(r))
    BY <1>3, AnswerAdds DEF Inv
  <2>7. Reach'[r] = {p \in Places(masked[r]) : p[1] \in heard'[r]} \ WidePlaces(r)
    <3>1. WidePlaces(r)' = WidePlaces(r) /\ Places(masked[r])' = Places(masked[r])
      BY <2>1, WidePlacesFrame DEF Places
    <3>. QED  BY <3>1 DEF Reach, Within
  <2>8. Reach'[r] \subseteq Hidden[r] /\ answer'[r] \subseteq Hidden[r]
    BY <2>4, <2>6, <2>7
  <2>9. Life[r] = "sent" => answer'[r] = Hidden[r] \ Reach'[r]
    <3>1. ~failedOpen[r] => mapping[r] = Places(masked[r])
      BY <2>1 DEF Inv, Core, Judged, Open
    <3>. QED  BY <2>3, <2>4, <2>6, <2>7, <3>1
  <2>10. Promise!Answer(r)
    BY <1>1, <1>2, <2>2, <2>3, <2>4, <2>5, <2>6, <2>8, <2>9
       DEF Promise!Answer, Promise!OnlyAt, Life, Found, Hidden, Reach, Within
  <2>. QED  BY <2>10 DEF Promise!Next
<1>4. CASE ~Answer(r) /\ Open(r) /\ ~Open(r)'
  BY <1>4, VerdictRefines DEF Promise!Next
<1>5. CASE ~Answer(r) /\ Open(r) /\ Open(r)'
  <2>1. answer' = answer /\ heard' = heard
    BY <1>5 DEF StepOf, Hook, Sidecar, NerAnswers, NerUnavailable, NerMalformed, response,
       ReceiveUnreadable, ReceiveOversized, ReceiveL1Only, ReceiveNer, ResumeWithError, Resume
  <2>2. /\ Life'[r] = "open" /\ Life[r] = "open"
    BY <1>5 DEF Life, LifeOf, Open
  <2>3. /\ kept[r] = NoneIn(r) /\ masked[r] = NoneIn(r)
        /\ kept'[r] = NoneIn(r) /\ masked'[r] = NoneIn(r)
    <3>1. NoneIn(r)' = NoneIn(r)
      BY <1>1 DEF NoneIn, FieldsOf
    <3>. QED  BY <1>5, <3>1 DEF Inv, Core, Waiting
  <2>4. Found'[r] = Found[r] /\ Hidden'[r] = Hidden[r]
    <3>1. pc[r] # "rejected" /\ pc'[r] # "rejected"
      BY <1>5 DEF Open
    <3>. QED  BY <2>3, <3>1 DEF Found, Hidden, Places
  <2>5. Life' = Life /\ Found' = Found /\ Hidden' = Hidden /\ Reach' = Reach
    <3>1. /\ [Life EXCEPT ![r] = Life[r]] = Life
          /\ [Found EXCEPT ![r] = Found[r]] = Found
          /\ [Hidden EXCEPT ![r] = Hidden[r]] = Hidden
          /\ [Reach EXCEPT ![r] = Reach[r]] = Reach
      BY DEF Life, Found, Hidden, Reach
    <3>2. Reach'[r] = Reach[r]
      BY <2>1, <2>3, WithinFrame DEF Reach
    <3>. QED  BY <1>2, <2>2, <2>4, <3>1, <3>2
  <2>. QED  BY <1>1, <2>1, <2>5 DEF Promise!vars, Life, Found, Hidden, Reach, Within
<1>6. CASE ~Answer(r) /\ ~Open(r)
  <2>1. Sidecar(r)
    BY <1>6 DEF StepOf, Hook, Open, ReceiveUnreadable, ReceiveOversized, ReceiveL1Only,
       ReceiveNer, ResumeWithError, Resume
  <2>2. UNCHANGED <<pc, failedOpen, kept, masked, heard, answer>>
    BY <2>1 DEF Sidecar, NerAnswers, NerUnavailable, NerMalformed, results, response
  <2>3. Life' = Life /\ Found' = Found /\ Hidden' = Hidden
    BY <2>2 DEF Life, LifeOf, Found, Hidden, Places
  <2>4. Reach' = Reach
    BY <2>2, WithinFrame DEF Reach
  <2>. QED  BY <1>1, <2>2, <2>3, <2>4 DEF Promise!vars, Life, Found, Hidden, Reach, Within
<1>. QED  BY <1>3, <1>4, <1>5, <1>6

\* The handlers keep the promise of RequestLife, however their requests, the
\* sidecar's answers and its failures interleave.
THEOREM Refinement == Spec => RefinesRequestLife
<1>1. Init => Promise!Init
  <2> SUFFICES ASSUME Init PROVE Promise!Init
    OBVIOUS
  <2>1. \A r \in Request : /\ LifeOf(r) = "open" /\ Places(kept[r]) = {}
                           /\ (IF pc[r] = "rejected" THEN {} ELSE Places(masked[r])) = {}
                           /\ Within(r) = {}
    BY NothingIn, NothingWithin DEF Init, LifeOf
  <2>. QED  BY <2>1 DEF Init, Promise!Init, Within
<1>2. Inv /\ Inv' /\ [Next]_vars => [Promise!Next]_Promise!vars
  <2> SUFFICES ASSUME Inv, Inv', [Next]_vars PROVE [Promise!Next]_Promise!vars
    OBVIOUS
  <2>1. CASE Next
    BY <2>1, StepRefines DEF Next, StepOf
  <2>2. CASE UNCHANGED vars
    <3>1. UNCHANGED <<policy, pc, failedOpen, kept, masked, heard, answer>>
      BY <2>2 DEF vars, results, response
    <3>2. Life' = Life /\ Found' = Found /\ Hidden' = Hidden
      BY <3>1 DEF Life, LifeOf, Found, Hidden, Places
    <3>3. Reach' = Reach
      BY <3>1, WithinFrame DEF Reach
    <3>. QED  BY <3>1, <3>2, <3>3 DEF Promise!vars, Life, Found, Hidden, Reach, Within
  <2>. QED  BY <2>1, <2>2
<1>. QED  BY <1>1, <1>2, Invariance, PTL DEF Spec, RefinesRequestLife, Promise!Spec

=============================================================================
