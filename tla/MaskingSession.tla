--------------------------- MODULE MaskingSession ---------------------------
(***************************************************************************)
(* MaskingSession (kpii/masking.py): the placeholders one request issues   *)
(* and the masking of its text fields, one detection per step.             *)
(*                                                                         *)
(* A text is a sequence of symbols; a placeholder "[ENTITY_n]" is one      *)
(* symbol, a Token, so that masking changes the length of a text as it     *)
(* does in the code and offsets can go stale.  A token may also stand      *)
(* literally in a request: a client can write "[PHONE_1]" itself.          *)
(***************************************************************************)
EXTENDS Detections, Rewriting

CONSTANTS
    Char,       \* the characters of a text
    MaxIndex,   \* the highest index PLACEHOLDER_RE reads back: 999, from \d{1,3}
    Requests    \* what a request can hold: sequences of [text, detections]

Token  == [entity : Entity, n : Nat \ {0}]
Symbol == Char \cup Token
Text   == Seq(Symbol)

\* A span of a text, from the symbol after start up to end (Python's slices).
Span(d, t) == SubSeq(t, d.start + 1, d.end)

\* The detections to mask of those that engine.merge leaves: spans of the text
\* they were found in, not empty and not overlapping.
WellPlaced(D, t) ==
    /\ D \subseteq Detection
    /\ \A d \in D : /\ d.start < d.end /\ d.end <= Len(t)
                    /\ ActionOf[d.entity] = "mask"
    /\ \A d, e \in D : d # e => ~Overlap(d, e)

ASSUME MaxIndexAssumption == MaxIndex \in Nat

\* A request: per field, by its place in the body, its text and the detections
\* to mask in it.
WellFormed(r) ==
    /\ DOMAIN r \subseteq Nat
    /\ \A f \in DOMAIN r : r[f].text \in Text /\ WellPlaced(r[f].detections, r[f].text)

ASSUME RequestsAssumption == \A r \in Requests : WellFormed(r)

VARIABLES
    fields,         \* the request: per field its text and the detections to mask
    texts,          \* the fields of the body, as rewritten so far
    todo,           \* per field the detections mask() has not replaced yet
    counters,       \* _counters
    valueToPh,      \* _value_to_ph
    phToValue       \* _ph_to_value, the mapping

vars == <<fields, texts, todo, counters, valueToPh, phToValue>>

TypeOK == /\ WellFormed(fields)
          /\ texts \in [DOMAIN fields -> Text]
          /\ DOMAIN todo = DOMAIN fields
          /\ \A f \in DOMAIN fields : todo[f] \subseteq fields[f].detections
          /\ counters \in [Entity -> Nat]
          /\ DOMAIN valueToPh \subseteq Entity \X Text
          /\ \A k \in DOMAIN valueToPh : valueToPh[k] \in Token
          /\ DOMAIN phToValue \subseteq Token
          /\ \A p \in DOMAIN phToValue : phToValue[p] \in Text

-----------------------------------------------------------------------------

\* What the two dictionaries hold once key and ph are entered: d[key] = value.
Entered(d, key, value) ==
    [k \in DOMAIN d \cup {key} |-> IF k = key THEN value ELSE d[k]]

\* Mutant: numbering from zero.
PlaceholderForFromZero(e, v) ==
    IF <<e, v>> \in DOMAIN valueToPh
    THEN valueToPh[<<e, v>>]
    ELSE [entity |-> e, n |-> counters[e]]

\* Mutant: the counter is never looked at.
PlaceholderForUncounted(e, v) == [entity |-> e, n |-> 1]

\* The placeholder _placeholder_for returns: the one the value already has, or
\* the next of its entity.
PlaceholderFor(e, v) ==
    IF <<e, v>> \in DOMAIN valueToPh
    THEN valueToPh[<<e, v>>]
    ELSE [entity |-> e, n |-> counters[e] + 1]

\* Mutant: the value is not remembered.
IssueForgetsValue(e, v) ==
    /\ counters' = [counters EXCEPT ![e] = @ + 1]
    /\ phToValue' = Entered(phToValue, PlaceholderFor(e, v), v)
    /\ UNCHANGED valueToPh

\* Mutant: the counter counts detections instead of values.
IssueCountsAlways(e, v) ==
    /\ counters' = [counters EXCEPT ![e] = @ + 1]
    /\ valueToPh' = Entered(valueToPh, <<e, v>>, PlaceholderFor(e, v))
    /\ phToValue' = Entered(phToValue, PlaceholderFor(e, v), v)

\* Mutant: the mapping only has the latest placeholder.
IssueResetsMapping(e, v) ==
    /\ counters' = [counters EXCEPT ![e] = @ + 1]
    /\ valueToPh' = Entered(valueToPh, <<e, v>>, PlaceholderFor(e, v))
    /\ phToValue' = Entered(<< >>, PlaceholderFor(e, v), v)

\* What _placeholder_for leaves in the session.
Issue(e, v) ==
    IF <<e, v>> \in DOMAIN valueToPh
    THEN UNCHANGED <<counters, valueToPh, phToValue>>
    ELSE /\ counters' = [counters EXCEPT ![e] = @ + 1]
         /\ valueToPh' = Entered(valueToPh, <<e, v>>, PlaceholderFor(e, v))
         /\ phToValue' = Entered(phToValue, PlaceholderFor(e, v), v)

\* Mutant: from left to right.
IsNextLeftmost(f, d) ==
    /\ \A g \in DOMAIN fields : g < f => todo[g] = {}
    /\ d \in todo[f]
    /\ \A e \in todo[f] : e.start >= d.start

\* The detection mask() takes next in field f: fields in the order of the
\* body, and the rightmost of a field first.
IsNext(f, d) == /\ \A g \in DOMAIN fields : g < f => todo[g] = {}
                /\ d \in todo[f]
                /\ \A e \in todo[f] : e.start <= d.start

\* Mutant: the last character of the value stays.
ReplacedTooShort(t, d, ph) ==
    SubSeq(t, 1, d.start) \o <<ph>> \o SubSeq(t, d.end, Len(t))

\* text[:start] + ph + text[end:]
Replaced(t, d, ph) ==
    SubSeq(t, 1, d.start) \o <<ph>> \o SubSeq(t, d.end + 1, Len(t))

Init == /\ fields \in Requests
        /\ texts = [f \in DOMAIN fields |-> fields[f].text]
        /\ todo = [f \in DOMAIN fields |-> fields[f].detections]
        /\ counters = [e \in Entity |-> 0]
        /\ valueToPh = << >>
        /\ phToValue = << >>

\* One turn of mask()'s loop.  d.value was cut from the text that was scanned,
\* the slices are cut from the text as it is by now.
Mask(f, d) ==
    /\ IsNext(f, d)
    /\ LET value == Span(d, fields[f].text)
       IN  /\ Issue(d.entity, value)
           /\ texts' = [texts EXCEPT ![f] =
                          Replaced(@, d, PlaceholderFor(d.entity, value))]
    /\ todo' = [todo EXCEPT ![f] = @ \ {d}]
    /\ UNCHANGED fields

Next == \E f \in DOMAIN fields : \E d \in todo[f] : Mask(f, d)

Spec == Init /\ [][Next]_vars

-----------------------------------------------------------------------------

Done == \A f \in DOMAIN fields : todo[f] = {}

\* The places of t where a detection of D begins, and which one.
Begins(D, i) == \E d \in D : d.start = i - 1
First(D, i) == CHOOSE d \in D : d.start = i - 1

\* One pass from left to right over t, with instead[d] for what is at each d of D
\* and symbols[s] for any other symbol s.
Rewritten(t, D, instead, symbols) ==
    Pass(Len(t),
         [i \in 1..Len(t) |-> IF Begins(D, i) THEN First(D, i).end + 1 ELSE i + 1],
         [i \in 1..Len(t) |-> IF Begins(D, i) THEN instead[First(D, i)] ELSE symbols[t[i]]]
        )[1].out

\* What a symbol becomes when it is left as it is, and when restore() reads it:
\* tokens whose index the expression reads are looked up.
Itself == [s \in Symbol |-> <<s>>]
Read == [s \in Symbol |-> IF s \in DOMAIN phToValue /\ s.n <= MaxIndex
                         THEN phToValue[s] ELSE <<s>>]

\* session.restore.
Restored(t) == Rewritten(t, {}, << >>, Read)

\* The detections of field f that have been replaced, and by what.
Masked(f) == fields[f].detections \ todo[f]
PlaceholderOf(f, d) == valueToPh[<<d.entity, Span(d, fields[f].text)>>]

\* Replacing in place, right to left, with offsets of the text that was
\* scanned, gives what one left-to-right pass would have given, at every step.
MasksWhatWasDetected ==
    \A f \in DOMAIN fields :
        texts[f] = Rewritten(fields[f].text, Masked(f),
                             [d \in Masked(f) |-> <<PlaceholderOf(f, d)>>], Itself)

\* mask() then restore() gives back the text that was scanned, half-way through
\* a request too, but for two losses: a value whose placeholder has an index
\* beyond what PLACEHOLDER_RE reads stays replaced, and a placeholder that the
\* client wrote itself turns into a value if the session has issued it.
RoundTrip ==
    \A f \in DOMAIN fields :
        LET t == fields[f].text
        IN  Restored(texts[f]) =
              Rewritten(t, Masked(f),
                        [d \in Masked(f) |-> IF PlaceholderOf(f, d).n <= MaxIndex
                                            THEN Span(d, t) ELSE <<PlaceholderOf(f, d)>>],
                        Read)

\* The offsets of a detection that is still to be replaced point into the
\* rewritten text at what they pointed at in the text that was scanned.
OffsetsStayValid ==
    \A f \in DOMAIN fields : \A d \in todo[f] :
        /\ d.end <= Len(texts[f])
        /\ \A i \in 1..d.end : texts[f][i] = fields[f].text[i]

\* The two dictionaries are inverse to each other: one placeholder per value
\* of an entity, one value per placeholder, across all fields of a request.
OnePlaceholderPerValue ==
    /\ \A k \in DOMAIN valueToPh :
           /\ valueToPh[k].entity = k[1]
           /\ valueToPh[k] \in DOMAIN phToValue
           /\ phToValue[valueToPh[k]] = k[2]
    /\ \A p \in DOMAIN phToValue :
           /\ <<p.entity, phToValue[p]>> \in DOMAIN valueToPh
           /\ valueToPh[<<p.entity, phToValue[p]>>] = p

\* The placeholders of an entity are numbered 1 to its counter, without gaps.
NumberedWithoutGaps ==
    \A e \in Entity :
        {p.n : p \in {q \in DOMAIN phToValue : q.entity = e}} = 1..counters[e]

\* A placeholder that has gone into a text keeps its meaning.
MappingOnlyGrows ==
    [][\A p \in DOMAIN phToValue :
           p \in DOMAIN phToValue' /\ phToValue'[p] = phToValue[p]]_vars

\* mask() has replaced the detection at place a, <<field, detection>>, before
\* the one at place b: fields in the order of the body, a field from its end.
ReplacedBefore(a, b) == a[1] < b[1] \/ (a[1] = b[1] /\ a[2].start > b[2].start)

\* The places where the value of a placeholder has been replaced by it.
ReplacedBy(p) == {fd \in UNION {{f} \X Masked(f) : f \in DOMAIN fields} :
                     PlaceholderOf(fd[1], fd[2]) = p}

\* The numbers of an entity are given in the order in which mask() comes to the
\* values, which within a field is from its end: of two values the one with the
\* lower number has been replaced somewhere before the other was anywhere.
NumberedAsReplaced ==
    \A p, q \in DOMAIN phToValue : p.entity = q.entity /\ p.n < q.n =>
        \E a \in ReplacedBy(p) : \A b \in ReplacedBy(q) : ReplacedBefore(a, b)

=============================================================================
