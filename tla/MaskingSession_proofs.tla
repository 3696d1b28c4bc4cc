----------------------- MODULE MaskingSession_proofs ------------------------
(***************************************************************************)
(* What is proved of MaskingSession for every alphabet, set of entities    *)
(* and set of requests.                                                    *)
(***************************************************************************)
EXTENDS MaskingSession, Lemmas

\* Which placeholders exist, one by one: those up to the counter.
IssuedUpToCounter ==
    \A p \in Token : p \in DOMAIN phToValue <=> p.n <= counters[p.entity]

Inv == TypeOK /\ OffsetsStayValid /\ OnePlaceholderPerValue /\ IssuedUpToCounter

\* The initial state satisfies the invariant.
LEMMA InitInv == Init => Inv
<1> SUFFICES ASSUME Init PROVE Inv
  OBVIOUS
<1>1. WellFormed(fields)
  BY RequestsAssumption DEF Init
<1>2. DOMAIN valueToPh = {} /\ DOMAIN phToValue = {}
  BY DEF Init
<1>3. TypeOK
  BY <1>1, <1>2 DEF Init, TypeOK, WellFormed
<1>4. OffsetsStayValid
  BY <1>1 DEF Init, OffsetsStayValid, WellFormed, WellPlaced, Detection
<1>5. OnePlaceholderPerValue
  BY <1>2 DEF OnePlaceholderPerValue
<1>6. IssuedUpToCounter
  BY <1>2 DEF Init, IssuedUpToCounter, Token
<1>. QED  BY <1>3, <1>4, <1>5, <1>6 DEF Inv

\* Replacing a span by a token keeps what is before the span.
LEMMA ReplacedProperties ==
    ASSUME NEW t \in Text, NEW ph \in Token,
           NEW d, d.start \in Nat, d.end \in Nat, d.start < d.end, d.end <= Len(t)
    PROVE  /\ Replaced(t, d, ph) \in Text
           /\ d.start <= Len(Replaced(t, d, ph))
           /\ \A i \in 1..d.start : Replaced(t, d, ph)[i] = t[i]
<1> DEFINE head == SubSeq(t, 1, d.start)
           tail == SubSeq(t, d.end + 1, Len(t))
<1>0. t \in Seq(Symbol) /\ Len(t) \in Nat /\ d.start \in 0..Len(t) /\ d.end \in 0..Len(t)
  BY LenProperties DEF Text
<1>1. /\ head \in Seq(Symbol)
      /\ Len(head) = d.start
      /\ \A i \in 1..d.start : head[i] = t[i]
      /\ tail \in Seq(Symbol)
  BY <1>0, CutProperties
<1>2. <<ph>> \in Seq(Symbol) /\ Len(<<ph>>) = 1
  BY DEF Symbol
<1>. HIDE DEF head, tail
<1>3. /\ head \o <<ph>> \in Seq(Symbol)
      /\ Len(head \o <<ph>>) = d.start + 1
      /\ \A i \in 1..d.start : (head \o <<ph>>)[i] = head[i]
  BY <1>0, <1>1, <1>2, ConcatProperties
<1>4. /\ (head \o <<ph>>) \o tail \in Seq(Symbol)
      /\ Len((head \o <<ph>>) \o tail) = d.start + 1 + Len(tail)
      /\ \A i \in 1..d.start : ((head \o <<ph>>) \o tail)[i] = (head \o <<ph>>)[i]
      /\ Len(tail) \in Nat
  <2> DEFINE h == head \o <<ph>>
  <2>1. Len(tail) \in Nat /\ h \in Seq(Symbol) /\ Len(h) = d.start + 1
    BY <1>1, <1>3, LenProperties
  <2> HIDE DEF h
  <2>2. /\ h \o tail \in Seq(Symbol)
        /\ Len(h \o tail) = Len(h) + Len(tail)
        /\ \A i \in 1..(Len(h) + Len(tail)) :
               (h \o tail)[i] = IF i <= Len(h) THEN h[i] ELSE tail[i - Len(h)]
    BY <1>1, <2>1, ConcatProperties
  <2>3. \A i \in 1..d.start : (h \o tail)[i] = h[i]
    BY <1>0, <2>1, <2>2
  <2>. QED  BY <2>1, <2>2, <2>3 DEF h
<1>5. Replaced(t, d, ph) = (head \o <<ph>>) \o tail
  BY DEF Replaced, head, tail
<1>. QED  BY <1>0, <1>1, <1>3, <1>4, <1>5 DEF Text

\* One turn of the masking loop keeps the invariant, and the meaning of every
\* placeholder issued before.
LEMMA MaskStep ==
    ASSUME Inv, NEW f \in DOMAIN fields, NEW d \in todo[f], Mask(f, d)
    PROVE  /\ Inv'
           /\ \A p \in DOMAIN phToValue :
                  p \in DOMAIN phToValue' /\ phToValue'[p] = phToValue[p]
<1> DEFINE e == d.entity
           value == Span(d, fields[f].text)
           ph == PlaceholderFor(e, value)
           key == <<e, value>>
<1> USE DEF Inv
<1>1. /\ fields[f].text \in Text
      /\ WellPlaced(fields[f].detections, fields[f].text)
      /\ todo[f] \subseteq fields[f].detections
      /\ texts[f] \in Text
  BY DEF TypeOK, WellFormed
<1>2. /\ e \in Entity /\ d.start \in Nat /\ d.end \in Nat
      /\ d.start < d.end /\ d.end <= Len(fields[f].text)
  BY <1>1 DEF WellPlaced, Detection, Overlap
<1>3. value \in Text
  <2>1. fields[f].text \in Seq(Symbol) /\ Len(fields[f].text) \in Nat
    BY <1>1, LenProperties DEF Text
  <2>2. \A i \in (d.start + 1)..d.end : fields[f].text[i] \in Symbol
    BY <1>2, <2>1, ElementOfSeq
  <2>3. d.start + 1 \in Int /\ d.end \in Int
    BY <1>2
  <2>. QED  BY <2>2, <2>3, SubSeqProperties DEF Span, Text
<1>4. counters[e] \in Nat
  BY <1>2 DEF TypeOK
<1>5. ph \in Token
  BY <1>2, <1>4 DEF PlaceholderFor, TypeOK, Token
<1>6. /\ Issue(e, value)
      /\ texts' = [texts EXCEPT ![f] = Replaced(@, d, ph)]
      /\ todo' = [todo EXCEPT ![f] = @ \ {d}]
      /\ fields' = fields
  BY DEF Mask
<1>7. /\ Replaced(texts[f], d, ph) \in Text
      /\ d.start <= Len(Replaced(texts[f], d, ph))
      /\ \A i \in 1..d.start : Replaced(texts[f], d, ph)[i] = texts[f][i]
  <2>1. d.end <= Len(texts[f])
    BY DEF OffsetsStayValid
  <2>. QED  BY <1>1, <1>2, <1>5, <2>1, ReplacedProperties
<1>8. /\ WellFormed(fields)'
      /\ texts' \in [DOMAIN fields' -> Text]
      /\ DOMAIN todo' = DOMAIN fields'
      /\ \A g \in DOMAIN fields' : todo'[g] \subseteq fields'[g].detections
  <2> HIDE DEF ph
  <2>. QED  BY <1>6, <1>7 DEF TypeOK, WellFormed
<1>9. OffsetsStayValid'
  <2> SUFFICES ASSUME NEW g \in DOMAIN fields, NEW c \in todo'[g]
               PROVE  /\ c.end <= Len(texts'[g])
                      /\ \A i \in 1..c.end : texts'[g][i] = fields[g].text[i]
    BY <1>6 DEF OffsetsStayValid
  <2>1. c \in todo[g] /\ (g = f => c # d)
    BY <1>6 DEF TypeOK
  <2>2. /\ c.end <= Len(texts[g])
        /\ \A i \in 1..c.end : texts[g][i] = fields[g].text[i]
    BY <2>1 DEF OffsetsStayValid
  <2>3. CASE g # f
    <3>1. texts'[g] = texts[g]
      BY <1>6, <2>3 DEF TypeOK
    <3>. QED  BY <2>2, <3>1
  <2>4. CASE g = f
    <3>1. /\ c \in fields[f].detections /\ d \in fields[f].detections /\ c # d
          /\ c.start <= d.start
      BY <1>1, <2>1, <2>4 DEF Mask, IsNext
    <3>2. /\ c.start \in Nat /\ c.end \in Nat /\ c.start < c.end
          /\ c.end <= d.start \/ d.end <= c.start
      BY <1>1, <3>1 DEF WellPlaced, Detection, Overlap
    <3>3. c.end <= d.start
      BY <1>2, <3>1, <3>2
    <3>4. texts'[f] = Replaced(texts[f], d, ph)
      BY <1>6 DEF TypeOK
    <3> DEFINE r == Replaced(texts[f], d, ph)
    <3>5. Len(r) \in Nat
      BY <1>7, LenProperties DEF Text
    <3> HIDE DEF ph, r
    <3>6. c.end <= Len(r)
      BY <1>2, <1>7, <3>2, <3>3, <3>5 DEF r
    <3>7. ASSUME NEW i \in 1..c.end
          PROVE  r[i] = texts[f][i]
      <4>1. i \in 1..d.start
        BY <1>2, <3>2, <3>3
      <4>. QED  BY <1>7, <4>1 DEF r
    <3>. QED  BY <2>2, <2>4, <3>4, <3>6, <3>7 DEF r
  <2>. QED  BY <2>3, <2>4
<1>10. CASE key \in DOMAIN valueToPh
  <2>1. UNCHANGED <<counters, valueToPh, phToValue>>
    BY <1>6, <1>10 DEF Issue
  <2>2. TypeOK'
    BY <1>8, <2>1 DEF TypeOK
  <2>3. OnePlaceholderPerValue' /\ IssuedUpToCounter'
    BY <2>1 DEF OnePlaceholderPerValue, IssuedUpToCounter
  <2>. QED  BY <1>9, <2>1, <2>2, <2>3
<1>11. CASE key \notin DOMAIN valueToPh
  <2>1. ph = [entity |-> e, n |-> counters[e] + 1]
    BY <1>11 DEF PlaceholderFor
  <2>2. /\ counters' = [counters EXCEPT ![e] = @ + 1]
        /\ valueToPh' = Entered(valueToPh, key, ph)
        /\ phToValue' = Entered(phToValue, ph, value)
    BY <1>6, <1>11 DEF Issue
  <2>3. ph \notin DOMAIN phToValue
    BY <1>4, <1>5, <2>1 DEF IssuedUpToCounter
  <2>4. ph.entity = e /\ key[1] = e /\ key[2] = value /\ key \in Entity \X Text
    BY <1>2, <1>3, <2>1
  <2> HIDE DEF ph, key, value, e
  <2>5. /\ DOMAIN valueToPh' = DOMAIN valueToPh \cup {key}
        /\ valueToPh'[key] = ph
        /\ \A k \in DOMAIN valueToPh : k # key => valueToPh'[k] = valueToPh[k]
    BY <2>2 DEF Entered
  <2>6. /\ DOMAIN phToValue' = DOMAIN phToValue \cup {ph}
        /\ phToValue'[ph] = value
        /\ \A p \in DOMAIN phToValue : p # ph => phToValue'[p] = phToValue[p]
    BY <2>2 DEF Entered
  <2>7. TypeOK'
    <3>1. counters' \in [Entity -> Nat]
      BY <1>2, <1>4, <2>2 DEF TypeOK
    <3>2. /\ DOMAIN valueToPh' \subseteq Entity \X Text
          /\ \A k \in DOMAIN valueToPh' : valueToPh'[k] \in Token
      BY <1>5, <2>4, <2>5 DEF TypeOK
    <3>3. /\ DOMAIN phToValue' \subseteq Token
          /\ \A p \in DOMAIN phToValue' : phToValue'[p] \in Text
      BY <1>3, <1>5, <2>6 DEF TypeOK
    <3>. QED  BY <1>8, <3>1, <3>2, <3>3 DEF TypeOK
  <2>8. OnePlaceholderPerValue'
    <3>1. ASSUME NEW k \in DOMAIN valueToPh'
          PROVE  /\ valueToPh'[k].entity = k[1]
                 /\ valueToPh'[k] \in DOMAIN phToValue'
                 /\ phToValue'[valueToPh'[k]] = k[2]
      <4>1. CASE k = key
        BY <2>4, <2>5, <2>6, <4>1
      <4>2. CASE k # key
        <5>1. k \in DOMAIN valueToPh /\ valueToPh'[k] = valueToPh[k]
          BY <2>5, <4>2
        <5>2. valueToPh[k] \in DOMAIN phToValue /\ valueToPh[k] # ph
          BY <2>3, <5>1 DEF OnePlaceholderPerValue
        <5>. QED  BY <2>6, <5>1, <5>2 DEF OnePlaceholderPerValue
      <4>. QED  BY <4>1, <4>2
    <3>2. ASSUME NEW p \in DOMAIN phToValue'
          PROVE  /\ <<p.entity, phToValue'[p]>> \in DOMAIN valueToPh'
                 /\ valueToPh'[<<p.entity, phToValue'[p]>>] = p
      <4>1. CASE p = ph
        <5>1. <<p.entity, phToValue'[p]>> = key
          BY <2>4, <2>6, <4>1 DEF key
        <5>. QED  BY <2>5, <4>1, <5>1
      <4>2. CASE p # ph
        <5>1. p \in DOMAIN phToValue /\ phToValue'[p] = phToValue[p]
          BY <2>6, <4>2
        <5>2. /\ <<p.entity, phToValue[p]>> \in DOMAIN valueToPh
              /\ valueToPh[<<p.entity, phToValue[p]>>] = p
          BY <5>1 DEF OnePlaceholderPerValue
        <5>3. <<p.entity, phToValue[p]>> # key
          BY <1>11, <5>2 DEF key
        <5>. QED  BY <2>5, <5>1, <5>2, <5>3
      <4>. QED  BY <4>1, <4>2
    <3>. QED  BY <3>1, <3>2 DEF OnePlaceholderPerValue
  <2>9. IssuedUpToCounter'
    <3> SUFFICES ASSUME NEW p \in Token
                 PROVE  p \in DOMAIN phToValue' <=> p.n <= counters'[p.entity]
      BY DEF IssuedUpToCounter
    <3>1. p.entity \in Entity /\ p.n \in Nat /\ p = [entity |-> p.entity, n |-> p.n]
      BY DEF Token
    <3>2. p \in DOMAIN phToValue <=> p.n <= counters[p.entity]
      BY DEF IssuedUpToCounter
    <3>3. CASE p.entity # e
      <4>1. counters'[p.entity] = counters[p.entity] /\ p # ph
        BY <2>2, <2>4, <3>1, <3>3 DEF TypeOK
      <4>. QED  BY <2>6, <3>2, <4>1
    <3>4. CASE p.entity = e
      <4>1. counters'[p.entity] = counters[e] + 1
        BY <1>2, <2>2, <3>4 DEF TypeOK
      <4>2. p = ph <=> p.n = counters[e] + 1
        BY <2>1, <3>1, <3>4
      <4>. QED  BY <1>4, <2>6, <3>1, <3>2, <3>4, <4>1, <4>2
    <3>. QED  BY <3>3, <3>4
  <2>10. \A p \in DOMAIN phToValue :
             p \in DOMAIN phToValue' /\ phToValue'[p] = phToValue[p]
    BY <2>3, <2>6
  <2>. QED  BY <1>9, <2>7, <2>8, <2>9, <2>10
<1>. QED  BY <1>10, <1>11

\* The invariant holds throughout.
THEOREM Invariance == Spec => []Inv
<1>1. Inv /\ [Next]_vars => Inv'
  <2> SUFFICES ASSUME Inv, [Next]_vars PROVE Inv'
    OBVIOUS
  <2>1. CASE Next
    BY <2>1, MaskStep DEF Next
  <2>2. CASE UNCHANGED vars
    BY <2>2 DEF vars, Inv, TypeOK, WellFormed, OffsetsStayValid,
                OnePlaceholderPerValue, IssuedUpToCounter
  <2>. QED  BY <2>1, <2>2
<1>. QED  BY InitInv, <1>1, PTL DEF Spec

\* Type correctness: masking never slices outside a text.
THEOREM TypeCorrect == Spec => []TypeOK
<1>1. Inv => TypeOK
  BY DEF Inv
<1>. QED  BY <1>1, Invariance, PTL

\* Because mask() works from right to left on detections that do not overlap,
\* the offsets still to be used stay valid while the text changes its length.
THEOREM OffsetsValid == Spec => []OffsetsStayValid
<1>1. Inv => OffsetsStayValid
  BY DEF Inv
<1>. QED  BY <1>1, Invariance, PTL

\* One placeholder per value of an entity and one value per placeholder.
THEOREM PlaceholdersUnambiguous == Spec => []OnePlaceholderPerValue
<1>1. Inv => OnePlaceholderPerValue
  BY DEF Inv
<1>. QED  BY <1>1, Invariance, PTL

\* The placeholders of an entity are numbered 1 to its counter.
THEOREM Numbering == Spec => []NumberedWithoutGaps
<1>1. Inv => NumberedWithoutGaps
  <2> SUFFICES ASSUME Inv, NEW e \in Entity
               PROVE  {p.n : p \in {q \in DOMAIN phToValue : q.entity = e}}
                        = 1..counters[e]
    BY DEF NumberedWithoutGaps
  <2>1. counters[e] \in Nat /\ DOMAIN phToValue \subseteq Token
    BY DEF Inv, TypeOK
  <2>2. ASSUME NEW p \in DOMAIN phToValue, p.entity = e
        PROVE  p.n \in 1..counters[e]
    BY <2>1, <2>2 DEF Inv, IssuedUpToCounter, Token
  <2>3. ASSUME NEW i \in 1..counters[e]
        PROVE  \E p \in DOMAIN phToValue : p.entity = e /\ p.n = i
    <3>1. [entity |-> e, n |-> i] \in Token
      BY <2>1 DEF Token
    <3>2. [entity |-> e, n |-> i] \in DOMAIN phToValue
      BY <2>1, <3>1 DEF Inv, IssuedUpToCounter
    <3>. QED  BY <3>2
  <2>. QED  BY <2>2, <2>3
<1>. QED  BY <1>1, Invariance, PTL

\* A placeholder that has been issued keeps its meaning for the whole request.
THEOREM MeaningKept == Spec => MappingOnlyGrows
<1>1. Inv /\ [Next]_vars =>
        [\A p \in DOMAIN phToValue :
             p \in DOMAIN phToValue' /\ phToValue'[p] = phToValue[p]]_vars
  <2> SUFFICES ASSUME Inv, Next
               PROVE  \A p \in DOMAIN phToValue :
                          p \in DOMAIN phToValue' /\ phToValue'[p] = phToValue[p]
    OBVIOUS
  <2>. QED  BY MaskStep DEF Next
<1>. QED  BY <1>1, Invariance, PTL DEF Spec, MappingOnlyGrows

\* What one turn of the masking loop does to the dictionaries, and that a new
\* placeholder has the highest number of its entity.
LEMMA IssueEffect ==
    ASSUME Inv, NEW e \in Entity, NEW v, Issue(e, v)
    PROVE  LET ph == PlaceholderFor(e, v)
           IN  /\ DOMAIN valueToPh' = DOMAIN valueToPh \cup {<<e, v>>}
               /\ valueToPh'[<<e, v>>] = ph
               /\ \A k \in DOMAIN valueToPh : valueToPh'[k] = valueToPh[k]
               /\ DOMAIN phToValue' = DOMAIN phToValue \cup {ph}
               /\ ph \in DOMAIN phToValue
                    \/ \A p \in DOMAIN phToValue : p.entity = ph.entity => p.n < ph.n
<1> DEFINE ph == PlaceholderFor(e, v)
           key == <<e, v>>
<1>1. CASE key \in DOMAIN valueToPh
  <2>1. /\ UNCHANGED <<counters, valueToPh, phToValue>>
        /\ ph = valueToPh[key]
    BY <1>1 DEF Issue, PlaceholderFor
  <2>2. ph \in DOMAIN phToValue
    BY <1>1, <2>1 DEF Inv, OnePlaceholderPerValue
  <2> HIDE DEF ph, key
  <2>3. /\ DOMAIN valueToPh' = DOMAIN valueToPh \cup {key}
        /\ valueToPh'[key] = ph
        /\ \A k \in DOMAIN valueToPh : valueToPh'[k] = valueToPh[k]
        /\ DOMAIN phToValue' = DOMAIN phToValue \cup {ph}
    BY <1>1, <2>1, <2>2
  <2>. QED  BY <2>2, <2>3 DEF ph, key
<1>2. CASE key \notin DOMAIN valueToPh
  <2>1. /\ ph = [entity |-> e, n |-> counters[e] + 1]
        /\ valueToPh' = Entered(valueToPh, key, ph)
        /\ phToValue' = Entered(phToValue, ph, v)
    BY <1>2 DEF Issue, PlaceholderFor
  <2>2. \A p \in DOMAIN phToValue : p.entity = ph.entity => p.n < ph.n
    <3>1. counters[e] \in Nat /\ DOMAIN phToValue \subseteq Token
      BY DEF Inv, TypeOK
    <3>2. \A p \in DOMAIN phToValue : p.n \in Nat /\ p.n <= counters[p.entity]
      BY <3>1 DEF Inv, IssuedUpToCounter, Token
    <3>. QED  BY <2>1, <3>1, <3>2
  <2> HIDE DEF ph, key
  <2>3. /\ DOMAIN valueToPh' = DOMAIN valueToPh \cup {key}
        /\ valueToPh'[key] = ph
        /\ \A k \in DOMAIN valueToPh : valueToPh'[k] = valueToPh[k]
        /\ DOMAIN phToValue' = DOMAIN phToValue \cup {ph}
    BY <1>2, <2>1 DEF Entered
  <2>. QED  BY <2>2, <2>3 DEF ph, key
<1>. QED  BY <1>1, <1>2

\* In every field what has been replaced lies right of what has not, and nothing
\* has been replaced in a field behind one that is not finished.
FromTheRight ==
    /\ \A f \in DOMAIN fields : \A c \in Masked(f), d \in todo[f] : d.start < c.start
    /\ \A f, g \in DOMAIN fields : f < g /\ todo[f] # {} => Masked(g) = {}

\* What has been replaced is in the session, and every placeholder of the session
\* has been put somewhere.
AllUsed ==
    /\ \A f \in DOMAIN fields : \A c \in Masked(f) :
           <<c.entity, Span(c, fields[f].text)>> \in DOMAIN valueToPh
    /\ \A p \in DOMAIN phToValue : ReplacedBy(p) # {}

Order == FromTheRight /\ AllUsed /\ NumberedAsReplaced

\* The places a placeholder stands at, one by one.
LEMMA ReplacedByMeans ==
    ASSUME NEW p, NEW a
    PROVE  a \in ReplacedBy(p) <=>
             \E f \in DOMAIN fields : \E c \in Masked(f) :
                 a = <<f, c>> /\ PlaceholderOf(f, c) = p
<1>1. a \in UNION {{f} \X Masked(f) : f \in DOMAIN fields}
        <=> \E f \in DOMAIN fields : \E c \in Masked(f) : a = <<f, c>>
  OBVIOUS
<1>. QED  BY <1>1 DEF ReplacedBy

\* One turn of the masking loop adds one place, behind all others.
LEMMA OnePlaceMore ==
    ASSUME Inv, Order, NEW f \in DOMAIN fields, NEW d \in todo[f], Mask(f, d)
    PROVE  LET ph == PlaceholderFor(d.entity, Span(d, fields[f].text))
           IN  /\ FromTheRight'
               /\ \A g \in DOMAIN fields' : \A c \in Masked(g)' :
                      <<c.entity, Span(c, fields[g].text)>> \in DOMAIN valueToPh'
               /\ \A p, a : a \in ReplacedBy(p) => ReplacedBefore(a, <<f, d>>)
               /\ \A p, a : a \in ReplacedBy(p)'
                              <=> a \in ReplacedBy(p) \/ (p = ph /\ a = <<f, d>>)
               /\ \A g \in DOMAIN fields :
                      /\ Masked(g)' = IF g = f THEN Masked(f) \cup {d} ELSE Masked(g)
                      /\ \A c \in Masked(g) : PlaceholderOf(g, c)' = PlaceholderOf(g, c)
               /\ PlaceholderOf(f, d)' = ph
<1> DEFINE value(g, c) == Span(c, fields[g].text)
           ph == PlaceholderFor(d.entity, value(f, d))
<1>1. /\ fields' = fields
      /\ todo' = [todo EXCEPT ![f] = @ \ {d}]
      /\ Issue(d.entity, value(f, d))
      /\ IsNext(f, d)
  BY DEF Mask
<1>2. /\ DOMAIN fields \subseteq Nat
      /\ DOMAIN todo = DOMAIN fields
      /\ \A g \in DOMAIN fields : /\ WellPlaced(fields[g].detections, fields[g].text)
                                  /\ todo[g] \subseteq fields[g].detections
  BY DEF Inv, TypeOK, WellFormed
<1>3. d.entity \in Entity
  BY <1>2 DEF WellPlaced, Detection, Overlap
<1>4. /\ DOMAIN valueToPh' = DOMAIN valueToPh \cup {<<d.entity, value(f, d)>>}
      /\ valueToPh'[<<d.entity, value(f, d)>>] = ph
      /\ \A k \in DOMAIN valueToPh : valueToPh'[k] = valueToPh[k]
  <2> HIDE DEF value
  <2>. QED  BY <1>1, <1>3, IssueEffect
<1>5. \A g \in DOMAIN fields :
          /\ todo'[g] = IF g = f THEN todo[f] \ {d} ELSE todo[g]
          /\ Masked(g)' = IF g = f THEN Masked(f) \cup {d} ELSE Masked(g)
  BY <1>1, <1>2 DEF Masked
<1>6. \A c \in todo[f] : c # d => c.start < d.start
  <2> SUFFICES ASSUME NEW c \in todo[f], c # d
               PROVE  c.start < d.start
    OBVIOUS
  <2>1. c \in fields[f].detections /\ d \in fields[f].detections
    BY <1>2
  <2>2. /\ c.start \in Nat /\ c.end \in Nat /\ c.start < c.end
        /\ d.start \in Nat /\ d.end \in Nat /\ d.start < d.end
        /\ c.end <= d.start \/ d.end <= c.start
    BY <1>2, <2>1 DEF WellPlaced, Detection, Overlap
  <2>3. c.start <= d.start
    BY <1>1 DEF IsNext
  <2>. QED  BY <2>2, <2>3
<1>7. FromTheRight'
  <2>1. ASSUME NEW g \in DOMAIN fields, NEW c \in Masked(g)', NEW b \in todo'[g]
        PROVE  b.start < c.start
    <3>1. b \in todo[g] /\ (g = f => b # d)
      BY <1>5
    <3>2. c \in Masked(g) \/ (g = f /\ c = d)
      BY <1>5
    <3>. QED  BY <1>6, <3>1, <3>2 DEF Order, FromTheRight
  <2>2. ASSUME NEW g \in DOMAIN fields, NEW h \in DOMAIN fields, g < h, todo'[g] # {}
        PROVE  Masked(h)' = {}
    <3>1. todo[g] # {}
      BY <1>5, <2>2
    <3>2. Masked(h) = {}
      BY <2>2, <3>1 DEF Order, FromTheRight
    <3>3. h # f
      BY <1>1, <2>2, <3>1 DEF IsNext
    <3>. QED  BY <1>5, <3>2, <3>3
  <2>. QED  BY <1>1, <2>1, <2>2 DEF FromTheRight
<1>8. \A g \in DOMAIN fields : \A c \in Masked(g) :
          /\ <<c.entity, value(g, c)>> \in DOMAIN valueToPh
          /\ PlaceholderOf(g, c)' = PlaceholderOf(g, c)
  <2> SUFFICES ASSUME NEW g \in DOMAIN fields, NEW c \in Masked(g)
               PROVE  /\ <<c.entity, value(g, c)>> \in DOMAIN valueToPh
                      /\ PlaceholderOf(g, c)' = PlaceholderOf(g, c)
    OBVIOUS
  <2>1. <<c.entity, value(g, c)>> \in DOMAIN valueToPh
    BY DEF Order, AllUsed
  <2>2. valueToPh'[<<c.entity, value(g, c)>>] = valueToPh[<<c.entity, value(g, c)>>]
    BY <1>4, <2>1
  <2>. QED  BY <1>1, <2>1, <2>2 DEF PlaceholderOf
<1>9. PlaceholderOf(f, d)' = ph
  BY <1>1, <1>4 DEF PlaceholderOf
<1>10. \A g \in DOMAIN fields' : \A c \in Masked(g)' :
           <<c.entity, value(g, c)>> \in DOMAIN valueToPh'
  <2> SUFFICES ASSUME NEW g \in DOMAIN fields, NEW c \in Masked(g)'
               PROVE  <<c.entity, value(g, c)>> \in DOMAIN valueToPh'
    BY <1>1
  <2>1. c \in Masked(g) \/ (g = f /\ c = d)
    BY <1>5
  <2> HIDE DEF value
  <2>. QED  BY <1>4, <1>8, <2>1
<1>11. ASSUME NEW p, NEW a, a \in ReplacedBy(p)
       PROVE  ReplacedBefore(a, <<f, d>>)
  <2>1. PICK g \in DOMAIN fields : \E c \in Masked(g) : a = <<g, c>>
    BY <1>11, ReplacedByMeans
  <2>2. PICK c \in Masked(g) : a = <<g, c>>
    BY <2>1
  <2>3. g = f => c.start > d.start
    <3>1. g = f => d.start < c.start
      BY DEF Order, FromTheRight
    <3>. QED  BY <3>1
  <2>4. ~(f < g)
    BY DEF Order, FromTheRight
  <2>5. g < f \/ g = f
    BY <1>2, <2>4
  <2>. QED  BY <2>2, <2>3, <2>5 DEF ReplacedBefore
<1>12. ASSUME NEW p, NEW a
       PROVE  a \in ReplacedBy(p)' <=> a \in ReplacedBy(p) \/ (p = ph /\ a = <<f, d>>)
  <2>1. a \in ReplacedBy(p)' <=>
          \E g \in DOMAIN fields : \E c \in Masked(g)' :
              a = <<g, c>> /\ PlaceholderOf(g, c)' = p
    <3>1. a \in UNION {{g} \X Masked(g)' : g \in DOMAIN fields}
            <=> \E g \in DOMAIN fields : \E c \in Masked(g)' : a = <<g, c>>
      OBVIOUS
    <3>2. ReplacedBy(p)' = {b \in UNION {{g} \X Masked(g)' : g \in DOMAIN fields} :
                                PlaceholderOf(b[1], b[2])' = p}
      BY <1>1 DEF ReplacedBy
    <3>. QED  BY <3>1, <3>2
  <2>2. a \in ReplacedBy(p) <=>
          \E g \in DOMAIN fields : \E c \in Masked(g) :
              a = <<g, c>> /\ PlaceholderOf(g, c) = p
    BY ReplacedByMeans
  <2> HIDE DEF ph
  <2>. QED  BY <1>5, <1>8, <1>9, <2>1, <2>2
<1>. QED  BY <1>5, <1>7, <1>8, <1>9, <1>10, <1>11, <1>12

\* One turn of the masking loop keeps the order of the numbers.
LEMMA OrderStep ==
    ASSUME Inv, Order, NEW f \in DOMAIN fields, NEW d \in todo[f], Mask(f, d)
    PROVE  Order'
<1> DEFINE v == Span(d, fields[f].text)
           ph == PlaceholderFor(d.entity, v)
           here == <<f, d>>
<1>1. d.entity \in Entity /\ Issue(d.entity, v) /\ fields' = fields
  BY DEF Mask, Inv, TypeOK, WellFormed, WellPlaced, Detection
<1>2. /\ DOMAIN phToValue' = DOMAIN phToValue \cup {ph}
      /\ ph \in DOMAIN phToValue
           \/ \A p \in DOMAIN phToValue : p.entity = ph.entity => p.n < ph.n
      /\ DOMAIN phToValue' \subseteq Token
  <2>1. DOMAIN phToValue' \subseteq Token
    BY MaskStep DEF Inv, TypeOK
  <2> HIDE DEF v
  <2>. QED  BY <1>1, <2>1, IssueEffect
<1>3. /\ FromTheRight'
      /\ \A g \in DOMAIN fields' : \A c \in Masked(g)' :
             <<c.entity, Span(c, fields'[g].text)>> \in DOMAIN valueToPh'
      /\ \A p, a : a \in ReplacedBy(p) => ReplacedBefore(a, here)
      /\ \A p, a : a \in ReplacedBy(p)' <=> a \in ReplacedBy(p) \/ (p = ph /\ a = here)
  BY <1>1, OnePlaceMore
<1>4. \A p, a : a \in ReplacedBy(p) => p \in DOMAIN phToValue
  <2> SUFFICES ASSUME NEW p, NEW a, a \in ReplacedBy(p)
               PROVE  p \in DOMAIN phToValue
    OBVIOUS
  <2>1. PICK g \in DOMAIN fields : \E c \in Masked(g) : PlaceholderOf(g, c) = p
    BY ReplacedByMeans
  <2>2. PICK c \in Masked(g) : PlaceholderOf(g, c) = p
    BY <2>1
  <2>3. <<c.entity, Span(c, fields[g].text)>> \in DOMAIN valueToPh
    BY DEF Order, AllUsed
  <2>. QED  BY <2>2, <2>3 DEF PlaceholderOf, Inv, OnePlaceholderPerValue
<1> HIDE DEF v, ph, here
<1>5. \A p \in DOMAIN phToValue' : ReplacedBy(p)' # {}
  <2> SUFFICES ASSUME NEW p \in DOMAIN phToValue'
               PROVE  \E a : a \in ReplacedBy(p)'
    OBVIOUS
  <2>1. CASE p = ph
    BY <1>3, <2>1
  <2>2. CASE p \in DOMAIN phToValue
    <3>1. PICK a : a \in ReplacedBy(p)
      BY <2>2 DEF Order, AllUsed
    <3>. QED  BY <1>3, <3>1
  <2>. QED  BY <1>2, <2>1, <2>2
<1>6. ASSUME NEW p \in DOMAIN phToValue', NEW q \in DOMAIN phToValue',
             p.entity = q.entity, p.n < q.n
      PROVE  \E a \in ReplacedBy(p)' : \A b \in ReplacedBy(q)' : ReplacedBefore(a, b)
  <2>1. p.n \in Nat /\ q.n \in Nat
    BY <1>2 DEF Token
  <2>2. p \in DOMAIN phToValue
    <3> SUFFICES ASSUME p \notin DOMAIN phToValue
                 PROVE  FALSE
      OBVIOUS
    <3>1. p = ph /\ (q = ph \/ q.n < ph.n)
      BY <1>2, <1>6
    <3>. QED  BY <1>6, <2>1, <3>1
  <2>3. CASE q \in DOMAIN phToValue
    <3>1. PICK a \in ReplacedBy(p) : \A b \in ReplacedBy(q) : ReplacedBefore(a, b)
      BY <1>6, <2>2, <2>3 DEF Order, NumberedAsReplaced
    <3>. QED  BY <1>3, <3>1
  <2>4. CASE q \notin DOMAIN phToValue
    <3>1. PICK a : a \in ReplacedBy(p)
      BY <2>2 DEF Order, AllUsed
    <3>2. \A b \in ReplacedBy(q)' : b = here
      BY <1>3, <1>4, <2>4
    <3>. QED  BY <1>3, <3>1, <3>2
  <2>. QED  BY <2>3, <2>4
<1>7. NumberedAsReplaced'
  BY <1>6 DEF NumberedAsReplaced, ReplacedBefore
<1>. QED  BY <1>3, <1>5, <1>7 DEF Order, AllUsed

-----------------------------------------------------------------------------

\* The steps of the pass that Rewritten makes, and its pieces.
NextOf(t, D) ==
    [i \in 1..Len(t) |-> IF Begins(D, i) THEN First(D, i).end + 1 ELSE i + 1]
PieceOf(t, D, instead, symbols) ==
    [i \in 1..Len(t) |-> IF Begins(D, i) THEN instead[First(D, i)] ELSE symbols[t[i]]]

LEMMA RewrittenIsPass ==
    \A t, D, instead, symbols :
        Rewritten(t, D, instead, symbols)
          = Pass(Len(t), NextOf(t, D), PieceOf(t, D, instead, symbols))[1].out
BY DEF Rewritten, NextOf, PieceOf

\* The detection that begins at a place is the only one.
LEMMA FirstIsTheOne ==
    ASSUME NEW t \in Text, NEW D, WellPlaced(D, t), NEW d \in D, NEW i, d.start = i - 1
    PROVE  Begins(D, i) /\ First(D, i) = d
<1>1. Begins(D, i)
  BY DEF Begins
<1>2. First(D, i) \in D /\ First(D, i).start = i - 1
  BY <1>1 DEF Begins, First
<1>3. ASSUME NEW c \in D, c.start = d.start PROVE c = d
  BY <1>3 DEF WellPlaced, Detection, Overlap
<1>. QED  BY <1>1, <1>2, <1>3

\* The pass leads onwards: what is detected lies within the text.
LEMMA PassIsOnwards ==
    ASSUME NEW t \in Text, NEW D, WellPlaced(D, t),
           NEW instead, \A d \in D : instead[d] \in Text,
           NEW symbols, \A s \in Symbol : symbols[s] \in Text
    PROVE  /\ Onwards(Symbol, Len(t), NextOf(t, D), PieceOf(t, D, instead, symbols))
           /\ \A i \in 1..Len(t) : NextOf(t, D)[i] # i
<1>1. Len(t) \in Nat /\ \A i \in 1..Len(t) : t[i] \in Symbol
  BY LenProperties, ElementOfSeq DEF Text
<1>2. ASSUME NEW i \in 1..Len(t)
      PROVE  /\ NextOf(t, D)[i] \in (i + 1)..(Len(t) + 1)
             /\ PieceOf(t, D, instead, symbols)[i] \in Seq(Symbol)
  <2>1. CASE Begins(D, i)
    <3>1. PICK d \in D : d.start = i - 1
      BY <2>1 DEF Begins
    <3>2. First(D, i) = d
      BY <3>1, FirstIsTheOne
    <3>3. /\ NextOf(t, D)[i] = d.end + 1
          /\ PieceOf(t, D, instead, symbols)[i] = instead[d]
      BY <2>1, <3>2 DEF NextOf, PieceOf
    <3>4. d.start \in Nat /\ d.end \in Nat /\ d.start < d.end /\ d.end <= Len(t)
      BY DEF WellPlaced, Detection
    <3>. QED  BY <1>1, <3>1, <3>3, <3>4 DEF Text
  <2>2. CASE ~Begins(D, i)
    <3>1. /\ NextOf(t, D)[i] = i + 1
          /\ PieceOf(t, D, instead, symbols)[i] = symbols[t[i]]
      BY <2>2 DEF NextOf, PieceOf
    <3>. QED  BY <1>1, <3>1 DEF Text
  <2>. QED  BY <2>1, <2>2
<1>3. \A i \in 1..Len(t) : NextOf(t, D)[i] \in i..(Len(t) + 1) /\ NextOf(t, D)[i] # i
  BY <1>1, <1>2
<1>. QED  BY <1>1, <1>2, <1>3 DEF Onwards

\* What is left as it is.
LEMMA ItselfIsText == \A s \in Symbol : Itself[s] \in Text /\ Itself[s] = <<s>>
<1>1. \A s \in Symbol : Itself[s] = <<s>>
  BY DEF Itself
<1>2. \A s \in Symbol : <<s>> \in Seq(Symbol)
  OBVIOUS
<1>. QED  BY <1>1, <1>2 DEF Text

\* In front of the first detection a text is left as it is.
LEMMA FrontIsCopied ==
    ASSUME NEW t \in Text, NEW D, WellPlaced(D, t),
           NEW instead, \A d \in D : instead[d] \in Text,
           NEW k \in 0..Len(t), \A d \in D : d.start >= k
    PROVE  Rewritten(t, D, instead, Itself)
             = Joined(SubSeq(t, 1, k),
                      Pass(Len(t), NextOf(t, D), PieceOf(t, D, instead, Itself))[k + 1].out)
<1> DEFINE n == Len(t)
           next == NextOf(t, D)
           piece == PieceOf(t, D, instead, Itself)
<1>1. Onwards(Symbol, n, next, piece)
  BY ItselfIsText, PassIsOnwards
<1>2. ASSUME NEW i \in 1..k PROVE next[i] = i + 1 /\ piece[i] = <<t[i]>>
  <2>1. Len(t) \in Nat /\ t \in Seq(Symbol)
    BY LenProperties DEF Text
  <2>2. i \in 1..Len(t)
    BY <2>1
  <2>3. t[i] \in Symbol
    BY <2>1, <2>2, ElementOfSeq
  <2>4. ~Begins(D, i)
    <3>1. \A d \in D : d.start \in Nat
      BY DEF WellPlaced, Detection
    <3>. QED  BY <3>1 DEF Begins
  <2>. QED  BY <2>2, <2>3, <2>4, ItselfIsText DEF NextOf, PieceOf
<1>3. t \in Seq(Symbol) /\ k \in 0..n /\ Len(t) = n
  BY DEF Text
<1>4. Rewritten(t, D, instead, Itself) = Pass(n, next, piece)[1].out
  BY RewrittenIsPass
<1> HIDE DEF n, next, piece
<1>5. Pass(n, next, piece)[1].out = Joined(SubSeq(t, 1, k), Pass(n, next, piece)[k + 1].out)
  BY <1>1, <1>2, <1>3, PassCopies
<1>. QED  BY <1>4, <1>5 DEF n, next, piece

\* Without detections all of it is.
LEMMA NothingIsRewritten ==
    ASSUME NEW t \in Text, NEW instead
    PROVE  Rewritten(t, {}, instead, Itself) = t
<1> DEFINE n == Len(t)
           next == NextOf(t, {})
           piece == PieceOf(t, {}, instead, Itself)
<1>1. WellPlaced({}, t) /\ n \in 0..Len(t) /\ n + 1 \in 1..(n + 1) /\ t \in Seq(Symbol)
  BY LenProperties DEF WellPlaced, Text
<1>2. Onwards(Symbol, n, next, piece)
  BY <1>1, ItselfIsText, PassIsOnwards
<1>3. Rewritten(t, {}, instead, Itself)
        = Joined(SubSeq(t, 1, n), Pass(n, next, piece)[n + 1].out)
  BY <1>1, FrontIsCopied
<1>4. SubSeq(t, 1, n) = t
  BY <1>1, SubSeqFull
<1> HIDE DEF next, piece
<1>5. Pass(n, next, piece)[n + 1].out = << >>
  <2>1. PlaceIsRight(Pass(n, next, piece), n + 1, n, next, piece)
    BY <1>1, <1>2, PassFacts
  <2>2. n + 1 > n
    BY <1>1
  <2>. QED  BY <2>1, <2>2 DEF PlaceIsRight
<1>. QED  BY <1>1, <1>3, <1>4, <1>5, JoinLaws

\* Replacing in place one detection more, in front of all that have been replaced,
\* gives what the pass gives with that detection too.
LEMMA OneMoreRewritten ==
    ASSUME NEW t \in Text, NEW D, NEW d, d \notin D,
           NEW E, E = D \cup {d}, WellPlaced(E, t),
           \A c \in D : d.start < c.start, NEW ph \in Token,
           NEW instead, \A c \in D : instead[c] \in Text,
           NEW instead2, \A c \in D : instead2[c] = instead[c], instead2[d] = <<ph>>
    PROVE  Rewritten(t, E, instead2, Itself)
             = Replaced(Rewritten(t, D, instead, Itself), d, ph)
<1> DEFINE n == Len(t)
           next == NextOf(t, D)
           piece == PieceOf(t, D, instead, Itself)
           next2 == NextOf(t, E)
           piece2 == PieceOf(t, E, instead2, Itself)
           P == Pass(n, next, piece)
           P2 == Pass(n, next2, piece2)
           k == d.start
           e == d.end
           r == P[e + 1].out
           front == SubSeq(t, 1, e)
           head == SubSeq(t, 1, k)
<1>1. /\ n \in Nat /\ k \in Nat /\ e \in Nat /\ k < e /\ e <= n
      /\ k \in 0..n /\ e \in 0..n /\ k + 1 \in 1..n /\ e + 1 \in 1..(n + 1)
      /\ k \in 0..e
      /\ t \in Seq(Symbol) /\ <<ph>> \in Seq(Symbol) /\ <<ph>> \in Text
  <2>1. n \in Nat /\ t \in Seq(Symbol) /\ <<ph>> \in Seq(Symbol)
    BY LenProperties DEF Text, Symbol
  <2>2. k \in Nat /\ e \in Nat /\ k < e /\ e <= n
    BY DEF WellPlaced, Detection
  <2>. QED  BY <2>1, <2>2 DEF Text
<1>2. /\ WellPlaced(D, t) /\ WellPlaced(E, t)
      /\ \A c \in E : c.start \in Nat /\ c.end \in Nat /\ c.start >= k
      /\ \A c \in D : c.start >= e
  <2>1. WellPlaced(D, t)
    BY DEF WellPlaced
  <2>2. \A c \in E : c.start \in Nat /\ c.end \in Nat
    BY DEF WellPlaced, Detection
  <2>3. \A c \in E : c.start >= k
    BY <1>1, <2>2
  <2>4. ASSUME NEW c \in D PROVE c.start >= e
    <3>1. c # d /\ c \in E /\ d \in E /\ d.start < c.start
      OBVIOUS
    <3>2. ~Overlap(d, c)
      BY <3>1 DEF WellPlaced
    <3>. QED  BY <1>1, <2>2, <3>1, <3>2 DEF Overlap, WellPlaced, Detection
  <2>. QED  BY <2>1, <2>2, <2>3, <2>4
<1>3. /\ Onwards(Symbol, n, next, piece)
      /\ Onwards(Symbol, n, next2, piece2)
      /\ \A i \in 1..n : next2[i] # i
  <2>1. Onwards(Symbol, n, next, piece)
    BY <1>2, ItselfIsText, PassIsOnwards
  <2>2. \A c \in E : instead2[c] \in Text
    BY <1>1
  <2>. QED  BY <1>2, <2>1, <2>2, ItselfIsText, PassIsOnwards
<1>4. Rewritten(t, D, instead, Itself) = Joined(front, r)
  BY <1>1, <1>2, FrontIsCopied
<1>5. Rewritten(t, E, instead2, Itself) = Joined(head, P2[k + 1].out)
  <2>1. \A c \in E : instead2[c] \in Text
    BY <1>1
  <2>2. WellPlaced(E, t) /\ k \in 0..Len(t) /\ \A c \in E : c.start >= k
    BY <1>1, <1>2
  <2> HIDE DEF k
  <2>. QED  BY <2>1, <2>2, FrontIsCopied
<1>6. next2[k + 1] = e + 1 /\ piece2[k + 1] = <<ph>>
  <2>1. d \in E /\ d.start = k + 1 - 1
    BY <1>1
  <2>2. Begins(E, k + 1) /\ First(E, k + 1) = d
    BY <1>2, <2>1, FirstIsTheOne
  <2>. QED  BY <1>1, <2>2 DEF NextOf, PieceOf
<1>7. ASSUME NEW i \in (e + 1)..n
      PROVE  next2[i] = next[i] /\ piece2[i] = piece[i]
  <2>1. i \in 1..n /\ d.start # i - 1
    BY <1>1
  <2>2. CASE Begins(D, i)
    <3>1. PICK c \in D : c.start = i - 1
      BY <2>2 DEF Begins
    <3>2. c \in E
      OBVIOUS
    <3>3. Begins(D, i) /\ First(D, i) = c /\ Begins(E, i) /\ First(E, i) = c
      BY <1>2, <3>1, <3>2, FirstIsTheOne
    <3>. QED  BY <2>1, <3>3 DEF NextOf, PieceOf
  <2>3. CASE ~Begins(D, i)
    <3>1. ~Begins(E, i)
      BY <2>1, <2>3 DEF Begins
    <3>. QED  BY <2>1, <2>3, <3>1 DEF NextOf, PieceOf
  <2>. QED  BY <2>2, <2>3
<1>8. front \in Seq(Symbol) /\ head \in Seq(Symbol) /\ Len(front) = e
  BY <1>1, CutProperties
<1>9. SubSeq(front, 1, k) = head
  <2> DEFINE tail == SubSeq(t, e + 1, Len(t))
  <2>1. front \o tail = t /\ tail \in Seq(Symbol)
    BY <1>1, CutAndJoin, CutProperties
  <2>2. k \in 0..Len(front)
    BY <1>1, <1>8
  <2> HIDE DEF front, tail
  <2>3. SubSeq(front \o tail, 1, k) = SubSeq(front, 1, k)
    BY <1>8, <2>1, <2>2, CutOfJoin
  <2>. QED  BY <2>1, <2>3
<1> HIDE DEF n, next, piece, next2, piece2, front, head
<1>10. P2[e + 1].out = r
  <2> DEFINE j == e + 1
  <2>1. j \in 1..(n + 1)
    BY <1>1
  <2>2. \A i \in j..n : next2[i] = next[i] /\ piece2[i] = piece[i]
    BY <1>7
  <2>3. Onwards(Symbol, n, next, piece) /\ Onwards(Symbol, n, next2, piece2)
    BY <1>3
  <2> HIDE DEF j
  <2>4. Pass(n, next2, piece2)[j].out = Pass(n, next, piece)[j].out
    BY <2>1, <2>2, <2>3, PassesMeet
  <2>. QED  BY <2>4 DEF j
<1>11. P2[k + 1].out = Joined(<<ph>>, P2[e + 1].out)
  <2>1. PlaceIsRight(P2, k + 1, n, next2, piece2) /\ k + 1 \in 1..n /\ next2[k + 1] # k + 1
    BY <1>1, <1>3, PassFacts
  <2> HIDE DEF P2
  <2>2. P2[k + 1].out = Joined(piece2[k + 1], P2[next2[k + 1]].out)
    BY <2>1, PassOnwards
  <2>. QED  BY <1>6, <2>2
<1>12. r \in Seq(Symbol)
  BY <1>1, <1>3, PassFacts
<1> HIDE DEF r, P, P2, k, e
<1> DEFINE T == Joined(front, r)
<1>13. SubSeq(T, 1, k) = head /\ SubSeq(T, e + 1, Len(T)) = r
  <2>1. k \in 0..Len(front) /\ e \in 0..Len(front)
    BY <1>1, <1>8
  <2>2. SubSeq(front \o r, 1, k) = SubSeq(front, 1, k)
    BY <1>8, <1>12, <2>1, CutOfJoin
  <2>3. SubSeq(front \o r, e + 1, Len(front \o r)) = SubSeq(front, e + 1, Len(front)) \o r
    BY <1>8, <1>12, <2>1, CutOfJoin
  <2>4. SubSeq(front, e + 1, Len(front)) = << >>
    BY <1>1, <1>8, SubSeqEmpty
  <2>5. << >> \o r = r
    BY <1>12, ConcatEmptySeq
  <2>. QED  BY <1>9, <2>2, <2>3, <2>4, <2>5 DEF Joined
<1>14. Replaced(T, d, ph) = Joined(Joined(head, <<ph>>), r)
  <2>1. Replaced(T, d, ph) = (SubSeq(T, 1, k) \o <<ph>>) \o SubSeq(T, e + 1, Len(T))
    BY DEF Replaced, k, e
  <2> HIDE DEF T
  <2>. QED  BY <1>13, <2>1 DEF Joined
<1>15. Joined(head, Joined(<<ph>>, r)) = Joined(Joined(head, <<ph>>), r)
  <2>1. \A u, v, w \in Seq(Symbol) : Joined(u, Joined(v, w)) = Joined(Joined(u, v), w)
    BY JoinLaws
  <2> DEFINE x == <<ph>>
  <2>2. x \in Seq(Symbol)
    BY <1>1
  <2> HIDE DEF x
  <2>3. Joined(head, Joined(x, r)) = Joined(Joined(head, x), r)
    BY <1>8, <1>12, <2>1, <2>2
  <2>. QED  BY <2>3 DEF x
<1>16. Rewritten(t, E, instead2, Itself) = Joined(head, Joined(<<ph>>, r))
  BY <1>5, <1>10, <1>11
<1>. QED  BY <1>4, <1>14, <1>15, <1>16

\* What has been replaced was replaced by a token, which stands for its value.
LEMMA MaskedMeans ==
    ASSUME Inv, Order, NEW f \in DOMAIN fields, NEW c \in Masked(f)
    PROVE  /\ PlaceholderOf(f, c) \in Token /\ <<PlaceholderOf(f, c)>> \in Text
           /\ PlaceholderOf(f, c) \in DOMAIN phToValue
           /\ phToValue[PlaceholderOf(f, c)] = Span(c, fields[f].text)
<1> DEFINE key == <<c.entity, Span(c, fields[f].text)>>
<1>1. key \in DOMAIN valueToPh
  BY DEF Order, AllUsed
<1>2. key[2] = Span(c, fields[f].text)
  OBVIOUS
<1>3. PlaceholderOf(f, c) = valueToPh[key]
  BY DEF PlaceholderOf
<1> HIDE DEF key
<1>4. /\ valueToPh[key] \in Token
      /\ valueToPh[key] \in DOMAIN phToValue /\ phToValue[valueToPh[key]] = key[2]
  BY <1>1 DEF Inv, TypeOK, OnePlaceholderPerValue
<1>5. <<PlaceholderOf(f, c)>> \in Seq(Symbol)
  BY <1>3, <1>4 DEF Symbol
<1>. QED  BY <1>2, <1>3, <1>4, <1>5 DEF Text

\* One turn of the masking loop keeps the texts as the pass would have them.
LEMMA MaskedStep ==
    ASSUME Inv, Order, MasksWhatWasDetected,
           NEW f \in DOMAIN fields, NEW d \in todo[f], Mask(f, d)
    PROVE  MasksWhatWasDetected'
<1> DEFINE ph == PlaceholderFor(d.entity, Span(d, fields[f].text))
           Instead(g) == [c \in Masked(g) |-> <<PlaceholderOf(g, c)>>]
           Later(g) == [c \in Masked(g)' |-> <<PlaceholderOf(g, c)'>>]
<1>1. /\ fields' = fields
      /\ texts' = [texts EXCEPT ![f] = Replaced(@, d, ph)]
      /\ DOMAIN texts = DOMAIN fields
      /\ \A g \in DOMAIN fields : /\ fields[g].text \in Text
                                  /\ WellPlaced(fields[g].detections, fields[g].text)
      /\ todo[f] \subseteq fields[f].detections
  BY DEF Mask, Inv, TypeOK, WellFormed
<1>2. /\ \A g \in DOMAIN fields :
             /\ Masked(g)' = IF g = f THEN Masked(f) \cup {d} ELSE Masked(g)
             /\ \A c \in Masked(g) : PlaceholderOf(g, c)' = PlaceholderOf(g, c)
      /\ PlaceholderOf(f, d)' = ph
  BY OnePlaceMore
<1>3. ph \in Token
  <2>1. d.entity \in Entity
    BY <1>1 DEF WellPlaced, Detection
  <2>2. counters[d.entity] \in Nat
    BY <2>1 DEF Inv, TypeOK
  <2>. QED  BY <2>1, <2>2 DEF PlaceholderFor, Inv, TypeOK, Token
<1> HIDE DEF ph
<1>4. \A g \in DOMAIN fields :
          texts[g] = Rewritten(fields[g].text, Masked(g), Instead(g), Itself)
  BY DEF MasksWhatWasDetected
<1>5. ASSUME NEW g \in DOMAIN fields
      PROVE  texts'[g] = Rewritten(fields[g].text, Masked(g)', Later(g), Itself)
  <2>1. CASE g = f
    <3> DEFINE t == fields[f].text
               D == Masked(f)
    <3>1. /\ d \notin D /\ D \cup {d} \subseteq fields[f].detections
          /\ \A c \in D : d.start < c.start
      BY <1>1 DEF Masked, Order, FromTheRight
    <3>2. WellPlaced(D \cup {d}, t)
      BY <1>1, <3>1 DEF WellPlaced
    <3>3. \A c \in D : Instead(f)[c] \in Text
      BY MaskedMeans
    <3>4. Masked(f)' = D \cup {d}
      BY <1>2
    <3>5. /\ \A c \in D : Later(f)[c] = Instead(f)[c]
          /\ Later(f)[d] = <<ph>>
      BY <1>2, <3>4
    <3>6. t \in Text
      BY <1>1
    <3>7. texts'[f] = Replaced(texts[f], d, ph)
      BY <1>1
    <3> DEFINE old == Instead(f)
               new == Later(f)
               E == D \cup {d}
    <3>e. E = D \cup {d} /\ WellPlaced(E, t)
      BY <3>2
    <3> HIDE DEF t, D, E, old, new
    <3>8. Rewritten(t, E, new, Itself) = Replaced(Rewritten(t, D, old, Itself), d, ph)
      <4>1. \A c \in D : old[c] \in Text
        BY <3>3 DEF old
      <4>2. (\A c \in D : new[c] = old[c]) /\ new[d] = <<ph>>
        BY <3>5 DEF old, new
      <4>. QED  BY <1>3, <3>1, <3>6, <3>e, <4>1, <4>2, OneMoreRewritten
    <3>9. texts[f] = Rewritten(t, D, old, Itself)
      BY <1>4 DEF t, D, old
    <3>10. texts'[f] = Rewritten(t, Masked(f)', new, Itself)
      BY <3>4, <3>7, <3>8, <3>9, <3>e
    <3>. QED  BY <2>1, <3>10 DEF t, new
  <2>2. CASE g # f
    <3>1. Masked(g)' = Masked(g) /\ texts'[g] = texts[g]
      BY <1>1, <1>2, <2>2
    <3>2. Later(g) = Instead(g)
      BY <1>2, <3>1
    <3> HIDE DEF Later, Instead
    <3>. QED  BY <1>4, <3>1, <3>2
  <2>. QED  BY <2>1, <2>2
<1>. QED  BY <1>1, <1>5 DEF MasksWhatWasDetected

\* The order of the replacements, and the texts that come of them.
LEMMA Replacements == Spec => [](Order /\ MasksWhatWasDetected)
<1>1. Init => Order /\ MasksWhatWasDetected
  <2> SUFFICES ASSUME Init PROVE Order /\ MasksWhatWasDetected
    OBVIOUS
  <2>1. DOMAIN phToValue = {} /\ \A f \in DOMAIN fields : Masked(f) = {}
    BY DEF Init, Masked
  <2>2. Order
    BY <2>1 DEF Order, FromTheRight, AllUsed, NumberedAsReplaced
  <2>3. ASSUME NEW f \in DOMAIN fields, NEW instead
        PROVE  texts[f] = Rewritten(fields[f].text, Masked(f), instead, Itself)
    <3>1. fields[f].text \in Text /\ texts[f] = fields[f].text
      BY RequestsAssumption DEF Init, WellFormed
    <3>. QED  BY <2>1, <3>1, NothingIsRewritten
  <2>4. MasksWhatWasDetected
    BY <2>3 DEF MasksWhatWasDetected
  <2>. QED  BY <2>2, <2>4
<1>2. Inv /\ Order /\ MasksWhatWasDetected /\ [Next]_vars
        => (Order /\ MasksWhatWasDetected)'
  <2> SUFFICES ASSUME Inv, Order, MasksWhatWasDetected, [Next]_vars
               PROVE  Order' /\ MasksWhatWasDetected'
    OBVIOUS
  <2>1. CASE Next
    BY <2>1, OrderStep, MaskedStep DEF Next
  <2>2. CASE UNCHANGED vars
    <3>1. UNCHANGED <<fields, texts, todo, valueToPh, phToValue>>
      BY <2>2 DEF vars
    <3>2. FromTheRight'
      BY <3>1 DEF Order, FromTheRight, Masked
    <3>3. \A p : ReplacedBy(p)' = ReplacedBy(p)
      BY <3>1 DEF ReplacedBy, PlaceholderOf, Masked, Span
    <3>4. AllUsed'
      BY <3>1, <3>3 DEF Order, AllUsed, Masked, Span
    <3>5. NumberedAsReplaced'
      BY <3>1, <3>3 DEF Order, NumberedAsReplaced, ReplacedBefore
    <3>6. MasksWhatWasDetected'
      BY <3>1 DEF MasksWhatWasDetected, Masked, PlaceholderOf
    <3>. QED  BY <3>2, <3>4, <3>5, <3>6 DEF Order
  <2>. QED  BY <2>1, <2>2
<1>. QED  BY <1>1, <1>2, Invariance, PTL DEF Spec

\* The placeholders of an entity are numbered in the order in which the values
\* are replaced: within a field from its end, against the order of reading.
THEOREM NumberedInOrder == Spec => []NumberedAsReplaced
<1>1. Order => NumberedAsReplaced
  BY DEF Order
<1>. QED  BY <1>1, Replacements, PTL

\* mask() replaces in place, from right to left, with offsets of the text that was
\* scanned; what it has made of every field at every step is what one pass from
\* left to right would have made, for every request.
THEOREM MaskedWhatWasDetected == Spec => []MasksWhatWasDetected
BY Replacements, PTL

-----------------------------------------------------------------------------

\* restore() reads symbol by symbol.
LEMMA RestoredIsSpelled == \A t : Restored(t) = Spelled(t, Read)
<1> SUFFICES ASSUME NEW t PROVE Restored(t) = Spelled(t, Read)
  OBVIOUS
<1>1. NextOf(t, {}) = Onward(t) /\ PieceOf(t, {}, << >>, Read) = Written(t, Read)
  BY DEF NextOf, PieceOf, Begins, Onward, Written
<1>2. Restored(t) = Pass(Len(t), NextOf(t, {}), PieceOf(t, {}, << >>, Read))[1].out
  BY RewrittenIsPass DEF Restored
<1>. QED  BY <1>1, <1>2 DEF Spelled

\* What it reads are texts.
LEMMA ReadIsText == TypeOK => Spells(Symbol, Symbol, Read)
<1> SUFFICES ASSUME TypeOK, NEW s \in Symbol PROVE Read[s] \in Seq(Symbol)
  BY DEF Spells
<1>1. <<s>> \in Seq(Symbol)
  OBVIOUS
<1>. QED  BY <1>1 DEF Read, TypeOK, Text

\* restore() works piece by piece.
LEMMA RestoredLaws ==
    ASSUME TypeOK
    PROVE  /\ Restored(<< >>) = << >>
           /\ \A s \in Symbol : Restored(<<s>>) = Read[s]
           /\ \A a, b \in Text : Restored(Joined(a, b)) = Joined(Restored(a), Restored(b))
           /\ \A t \in Text : Restored(t) \in Text
<1>1. Spells(Symbol, Symbol, Read)
  BY ReadIsText
<1>2. /\ Restored(<< >>) = << >>
      /\ \A s \in Symbol : Restored(<<s>>) = Read[s]
      /\ \A a, b \in Seq(Symbol) : Restored(Joined(a, b)) = Joined(Restored(a), Restored(b))
  BY <1>1, SpelledLaws, RestoredIsSpelled
<1>3. \A t \in Seq(Symbol) : Restored(t) \in Seq(Symbol)
  BY <1>1, SpelledIsPass, RestoredIsSpelled
<1>. QED  BY <1>2, <1>3 DEF Text

\* Restoring what has been rewritten is rewriting with what the pieces restore to.
LEMMA RestoredRewritten ==
    ASSUME TypeOK, NEW t \in Text, NEW D, WellPlaced(D, t),
           NEW instead, \A d \in D : instead[d] \in Text,
           NEW back, \A d \in D : back[d] = Restored(instead[d])
    PROVE  Restored(Rewritten(t, D, instead, Itself)) = Rewritten(t, D, back, Read)
<1> DEFINE n == Len(t)
           next == NextOf(t, D)
           piece == PieceOf(t, D, instead, Itself)
           piece2 == PieceOf(t, D, back, Read)
           h == [u \in Text |-> Restored(u)]
<1>1. Onwards(Symbol, n, next, piece)
  BY ItselfIsText, PassIsOnwards
<1>2. Onwards(Symbol, n, next, piece2)
  <2>1. \A s \in Symbol : Read[s] \in Text
    <3> SUFFICES ASSUME NEW s \in Symbol PROVE Read[s] \in Text
      OBVIOUS
    <3>1. <<s>> \in Text /\ Read[s] = Restored(<<s>>)
      BY ItselfIsText, RestoredLaws
    <3>. QED  BY <3>1, RestoredLaws
  <2>2. \A d \in D : back[d] \in Text
    BY RestoredLaws
  <2>. QED  BY <2>1, <2>2, PassIsOnwards
<1>3. \A i \in 1..n : piece2[i] = h[piece[i]]
  <2> SUFFICES ASSUME NEW i \in 1..n PROVE piece2[i] = h[piece[i]]
    OBVIOUS
  <2>1. CASE Begins(D, i)
    <3>1. First(D, i) \in D
      BY <2>1 DEF Begins, First
    <3>. QED  BY <2>1, <3>1 DEF PieceOf
  <2>2. CASE ~Begins(D, i)
    <3>1. t[i] \in Symbol
      BY LenProperties, ElementOfSeq DEF Text
    <3>2. /\ piece[i] = <<t[i]>> /\ piece2[i] = Read[t[i]]
          /\ <<t[i]>> \in Text
      BY <2>2, <3>1, ItselfIsText DEF PieceOf
    <3>. QED  BY <3>1, <3>2, RestoredLaws
  <2>. QED  BY <2>1, <2>2
<1>4. /\ h[<< >>] = << >>
      /\ \A a, b \in Seq(Symbol) : h[Joined(a, b)] = Joined(h[a], h[b])
  <2>1. << >> \in Text /\ \A a, b \in Text : Joined(a, b) \in Text
    BY JoinLaws DEF Text
  <2>2. \A a, b \in Text : h[Joined(a, b)] = Joined(h[a], h[b])
    BY <2>1, RestoredLaws
  <2>. QED  BY <2>1, <2>2, RestoredLaws DEF Text
<1>5. /\ Rewritten(t, D, instead, Itself) = Pass(n, next, piece)[1].out
      /\ Rewritten(t, D, back, Read) = Pass(n, next, piece2)[1].out
  BY RewrittenIsPass
<1>6. 1 \in 1..(n + 1)
  BY LenProperties DEF Text
<1> HIDE DEF n, next, piece, piece2
<1>7. Pass(n, next, piece)[1].out \in Text
  BY <1>1, <1>6, PassFacts DEF Text
<1>8. h[Pass(n, next, piece)[1].out] = Restored(Pass(n, next, piece)[1].out)
  BY <1>7
<1> HIDE DEF h
<1>9. Pass(n, next, piece2)[1].out = h[Pass(n, next, piece)[1].out]
  BY <1>1, <1>2, <1>3, <1>4, PassMapped
<1>. QED  BY <1>5, <1>8, <1>9

\* restore() gives back what mask() was given at every step of a request, but for
\* the values whose index restore() cannot read and the placeholders of the
\* session that the client had written itself.
THEOREM MaskThenRestore == Spec => []RoundTrip
<1>1. Inv /\ Order /\ MasksWhatWasDetected => RoundTrip
  <2> SUFFICES ASSUME Inv, Order, MasksWhatWasDetected, NEW f \in DOMAIN fields
               PROVE  LET t == fields[f].text
                      IN  Restored(texts[f]) =
                            Rewritten(t, Masked(f),
                              [d \in Masked(f) |->
                                  IF PlaceholderOf(f, d).n <= MaxIndex
                                  THEN Span(d, t) ELSE <<PlaceholderOf(f, d)>>],
                              Read)
    BY DEF RoundTrip
  <2> DEFINE t == fields[f].text
             D == Masked(f)
             instead == [d \in D |-> <<PlaceholderOf(f, d)>>]
             back == [d \in D |-> IF PlaceholderOf(f, d).n <= MaxIndex
                                  THEN Span(d, t) ELSE <<PlaceholderOf(f, d)>>]
  <2>1. TypeOK /\ t \in Text /\ WellPlaced(D, t)
    BY DEF Inv, TypeOK, WellFormed, WellPlaced, Masked
  <2>2. \A d \in D : instead[d] \in Text
    BY MaskedMeans
  <2>3. ASSUME NEW d \in D PROVE back[d] = Restored(instead[d])
    <3> DEFINE ph == PlaceholderOf(f, d)
    <3>1. /\ ph \in Token /\ ph \in DOMAIN phToValue /\ phToValue[ph] = Span(d, t)
      BY MaskedMeans
    <3>2. back[d] = IF ph.n <= MaxIndex THEN Span(d, t) ELSE <<ph>>
      OBVIOUS
    <3>3. instead[d] = <<ph>>
      OBVIOUS
    <3> HIDE DEF ph, back, instead, t
    <3>4. ph \in Symbol
      BY <3>1 DEF Symbol
    <3>5. Read[ph] = IF ph.n <= MaxIndex THEN Span(d, t) ELSE <<ph>>
      BY <3>1, <3>4 DEF Read
    <3>6. Restored(<<ph>>) = Read[ph]
      BY <2>1, <3>4, RestoredLaws
    <3>. QED  BY <3>2, <3>3, <3>5, <3>6
  <2>4. texts[f] = Rewritten(t, D, instead, Itself)
    BY DEF MasksWhatWasDetected
  <2>5. Restored(Rewritten(t, D, instead, Itself)) = Rewritten(t, D, back, Read)
    <3> HIDE DEF t, D, instead, back
    <3>. QED  BY <2>1, <2>2, <2>3, RestoredRewritten
  <2>. QED  BY <2>4, <2>5
<1>. QED  BY <1>1, Invariance, Replacements, PTL

\* A field in which the client wrote no placeholder that the session has issued,
\* of a session with no more values of an entity than restore() can read indices.
Restorable(f) ==
    /\ \A i \in 1..Len(fields[f].text) : fields[f].text[i] \notin DOMAIN phToValue
    /\ \A e \in Entity : counters[e] <= MaxIndex

\* Such a field comes back from restore() exactly as it went into mask().
THEOREM RestorableComesBack ==
    Spec => [](\A f \in DOMAIN fields :
                   Restorable(f) => Restored(texts[f]) = fields[f].text)
<1>1. ASSUME Inv, Order, RoundTrip, NEW f \in DOMAIN fields, Restorable(f)
      PROVE  Restored(texts[f]) = fields[f].text
  <2> DEFINE t == fields[f].text
             D == Masked(f)
             back == [d \in D |-> IF PlaceholderOf(f, d).n <= MaxIndex
                                  THEN Span(d, t) ELSE <<PlaceholderOf(f, d)>>]
             n == Len(t)
             next == NextOf(t, D)
             piece == PieceOf(t, D, back, Read)
  <2>1. TypeOK /\ t \in Text /\ t \in Seq(Symbol) /\ WellPlaced(D, t)
    BY <1>1 DEF Inv, TypeOK, WellFormed, WellPlaced, Masked, Text
  <2>2. ASSUME NEW d \in D PROVE back[d] = Span(d, t)
    <3>1. PlaceholderOf(f, d) \in Token /\ PlaceholderOf(f, d) \in DOMAIN phToValue
      BY <1>1, MaskedMeans
    <3>2. PlaceholderOf(f, d).entity \in Entity /\ PlaceholderOf(f, d).n \in Nat
          /\ PlaceholderOf(f, d).n <= counters[PlaceholderOf(f, d).entity]
      <4> DEFINE ph == PlaceholderOf(f, d)
      <4>1. ph \in Token /\ ph \in DOMAIN phToValue
        BY <3>1
      <4> HIDE DEF ph
      <4>2. ph.entity \in Entity /\ ph.n \in Nat /\ ph.n <= counters[ph.entity]
        BY <1>1, <4>1 DEF Inv, IssuedUpToCounter, Token
      <4>. QED  BY <4>2 DEF ph
    <3>3. /\ counters[PlaceholderOf(f, d).entity] <= MaxIndex
          /\ counters[PlaceholderOf(f, d).entity] \in Nat
      BY <1>1, <3>2 DEF Restorable, Inv, TypeOK
    <3>4. PlaceholderOf(f, d).n <= MaxIndex
      BY <3>2, <3>3, MaxIndexAssumption
    <3>. QED  BY <3>4
  <2>3. Restored(texts[f]) = Rewritten(t, D, back, Read)
    BY <1>1 DEF RoundTrip
  <2>4. Rewritten(t, D, back, Read) = Pass(n, next, piece)[1].out
    BY RewrittenIsPass
  <2>5. /\ \A d \in D : back[d] \in Text
        /\ \A s \in Symbol : Read[s] \in Text
    <3>1. ASSUME NEW d \in D PROVE back[d] \in Text
      <4>1. d.start \in Nat /\ d.end \in Nat /\ d.end <= Len(t)
        BY <2>1 DEF WellPlaced, Detection
      <4>2. Len(t) \in Nat /\ d.start + 1 \in Int /\ d.end \in Int
            /\ \A i \in (d.start + 1)..d.end : t[i] \in Symbol
        BY <2>1, <4>1, LenProperties, ElementOfSeq
      <4> HIDE DEF t, D, back
      <4>3. Span(d, t) \in Seq(Symbol)
        BY <4>2, SubSeqProperties DEF Span
      <4>. QED  BY <2>2, <4>3 DEF Text
    <3>2. ASSUME NEW s \in Symbol PROVE Read[s] \in Text
      <4>1. <<s>> \in Text /\ Read[s] = Restored(<<s>>)
        BY <2>1, ItselfIsText, RestoredLaws
      <4>. QED  BY <2>1, <4>1, RestoredLaws
    <3>. QED  BY <3>1, <3>2
  <2>6. /\ Onwards(Symbol, n, next, piece)
        /\ \A i \in 1..n : next[i] # i
    <3> HIDE DEF t, D, back
    <3>. QED  BY <2>1, <2>5, PassIsOnwards
  <2>7. ASSUME NEW i \in 1..n PROVE piece[i] = SubSeq(t, i, next[i] - 1)
    <3>0. n \in Nat /\ i \in Int
      BY <2>1, LenProperties
    <3>1. CASE Begins(D, i)
      <4>1. PICK d \in D : d.start = i - 1
        BY <3>1 DEF Begins
      <4>2. First(D, i) = d
        BY <2>1, <4>1, FirstIsTheOne
      <4>3. next[i] = d.end + 1 /\ piece[i] = back[d]
        BY <3>1, <4>2 DEF NextOf, PieceOf
      <4>4. d.start + 1 = i /\ next[i] - 1 = d.end
        <5>1. d.start \in Nat /\ d.end \in Nat
          BY <2>1 DEF WellPlaced, Detection
        <5>. QED  BY <3>0, <4>1, <4>3, <5>1
      <4>. QED  BY <2>2, <4>3, <4>4 DEF Span
    <3>2. CASE ~Begins(D, i)
      <4>1. t[i] \in Symbol /\ t[i] \notin DOMAIN phToValue
        BY <1>1, <2>1, ElementOfSeq DEF Restorable
      <4>2. next[i] = i + 1 /\ piece[i] = <<t[i]>>
        BY <3>2, <4>1 DEF NextOf, PieceOf, Read
      <4>3. SubSeq(t, i, i) = <<t[i]>> /\ i + 1 - 1 = i
        <5>1. SubSeq(t, i, i) \in Seq(Symbol) /\ Len(SubSeq(t, i, i)) = 1
              /\ SubSeq(t, i, i)[1] = t[i]
          <6>1. \A j \in i..i : t[j] \in Symbol
            BY <3>0, <4>1
          <6> HIDE DEF t
          <6>2. /\ SubSeq(t, i, i) \in Seq(Symbol)
                /\ Len(SubSeq(t, i, i)) = IF i <= i THEN i - i + 1 ELSE 0
                /\ \A j \in 1..(i - i + 1) : SubSeq(t, i, i)[j] = t[i + j - 1]
            BY <3>0, <6>1, SubSeqProperties
          <6>. QED  BY <3>0, <6>2
        <5> DEFINE u == SubSeq(t, i, i)
        <5>2. u \in Seq(Symbol) /\ Len(u) = 1 /\ u[1] = t[i]
          BY <5>1
        <5> HIDE DEF u, t
        <5>3. u = <<u[1]>>
          BY <5>2
        <5>. QED  BY <3>0, <5>2, <5>3 DEF u
      <4>. QED  BY <4>2, <4>3
    <3>. QED  BY <3>1, <3>2
  <2> HIDE DEF t, D, back, n, next, piece
  <2>8. Len(t) = n
    BY DEF n
  <2>9. Pass(n, next, piece)[1].out = t
    BY <2>1, <2>6, <2>7, <2>8, PassGivesBack
  <2>. QED  BY <2>3, <2>4, <2>9 DEF t
<1>2. Inv /\ Order /\ RoundTrip
        => \A f \in DOMAIN fields : Restorable(f) => Restored(texts[f]) = fields[f].text
  BY <1>1
<1>. QED  BY <1>2, Invariance, Replacements, MaskThenRestore, PTL

-----------------------------------------------------------------------------

\* What a session is given to mask is what merge leaves: of detections that are
\* spans of a text, those that merge keeps and that are to be masked are well
\* placed in it.
THEOREM MergeLeavesWellPlaced ==
    ASSUME NEW found \in Seq(Detection), NEW t \in Text,
           \A i \in 1..Len(found) :
               found[i].start < found[i].end /\ found[i].end <= Len(t)
    PROVE  WellPlaced({found[i] : i \in {j \in Merged(found) :
                                           ActionOf[found[j].entity] = "mask"}}, t)
<1> DEFINE M == {j \in Merged(found) : ActionOf[found[j].entity] = "mask"}
           D == {found[i] : i \in M}
<1>1. Keeps(found, Active(found), Merged(found))
  BY MergedFollowsTheRule
<1>2. \A i \in M : i \in 1..Len(found) /\ found[i] \in Detection
  <2>1. \A i \in 1..Len(found) : found[i] \in Detection
    BY ElementOfSeq
  <2>. QED  BY <1>1, <2>1 DEF Keeps, Active
<1>3. ASSUME NEW i \in M, NEW j \in M, found[i] # found[j]
      PROVE  ~Overlap(found[i], found[j])
  <2>1. i # j /\ i \in Active(found) /\ j \in Active(found)
    BY <1>1, <1>3 DEF Keeps
  <2>2. Before(found, i, j) \/ Before(found, j, i)
    BY <1>2, <2>1, BeforeIsTotal
  <2>3. /\ ~(Before(found, i, j) /\ Overlap(found[i], found[j]))
        /\ ~(Before(found, j, i) /\ Overlap(found[j], found[i]))
    BY <1>1, <2>1 DEF Keeps
  <2>4. Overlap(found[i], found[j]) <=> Overlap(found[j], found[i])
    BY DEF Overlap
  <2>. QED  BY <2>2, <2>3, <2>4
<1>4. D \subseteq Detection
  BY <1>2
<1>5. \A d \in D : d.start < d.end /\ d.end <= Len(t) /\ ActionOf[d.entity] = "mask"
  BY <1>2
<1>6. \A d, e \in D : d # e => ~Overlap(d, e)
  BY <1>3
<1>. QED  BY <1>4, <1>5, <1>6 DEF WellPlaced

-----------------------------------------------------------------------------

\* In the code a text is made of characters, and a placeholder is a few of them.
\* What spell writes for the symbols, for the expression that finds the placeholders
\* of P: a placeholder has one "[", in front, and none begins another; of the tokens
\* those with an index of up to MaxIndex are in P, a wider one differs from each of P
\* within its own length; and no other symbol is written like a token.  A symbol
\* that is no token may be a character, or a placeholder the session never issues.
Writes(C, P, open, spell) ==
    /\ Findable(C, P)
    /\ \A p \in P : p[1] = open /\ \A k \in 2..Len(p) : p[k] # open
    /\ Spells(Symbol, C, spell) /\ Opening(Symbol, open, spell)
    /\ \A s \in Token : /\ spell[s] \in P <=> s.n <= MaxIndex
                        /\ spell[s][1] = open
                        /\ \A u \in Symbol : spell[s] = spell[u] => s = u
                        /\ spell[s] \in P \/ \A p \in P : \E k \in 1..Len(p) :
                               k <= Len(spell[s]) /\ p[k] # spell[s][k]

\* The mapping as restore() has it: what is written for a placeholder of the
\* session, and the value that is written for it; any other of P stays.
Lookup(P, spell) ==
    [p \in P |->
        IF \E s \in DOMAIN phToValue : spell[s] = p
        THEN Spelled(phToValue[CHOOSE s \in DOMAIN phToValue : spell[s] = p], spell)
        ELSE p]

\* What restore() makes of the characters of a text.
RestoredCharacters(t, P, spell) ==
    Replacing(Spelled(t, spell), P, Lookup(P, spell), {}).out

\* It finds the placeholders among the characters, and gives the characters of what
\* it makes of the symbols.
LEMMA RestoresCharacters ==
    ASSUME TypeOK, NEW C, NEW P, NEW open, NEW spell, Writes(C, P, open, spell),
           NEW t \in Text, NothingElse(t, spell, P)
    PROVE  RestoredCharacters(t, P, spell) = Spelled(Restored(t), spell)
<1> DEFINE value == Lookup(P, spell)
           read == [s \in Symbol |-> Spelled(Read[s], spell)]
<1>1. Spells(Symbol, C, spell) /\ Spells(Symbol, Symbol, Read) /\ t \in Seq(Symbol)
  BY ReadIsText DEF Writes, Text
<1>2. \A v \in Text : Spelled(v, spell) \in Seq(C)
  BY <1>1, SpelledIsPass DEF Text
<1>0. DOMAIN phToValue \subseteq Token /\ Token \subseteq Symbol
  BY DEF TypeOK, Symbol
<1>3. ASSUME NEW s \in Token, s \in DOMAIN phToValue, spell[s] \in P
      PROVE  value[spell[s]] = Spelled(phToValue[s], spell)
  <2>1. \A u \in DOMAIN phToValue : spell[u] = spell[s] => u = s
    BY <1>0 DEF Writes
  <2>2. (CHOOSE u \in DOMAIN phToValue : spell[u] = spell[s]) = s
    BY <1>3, <2>1
  <2>. QED  BY <1>3, <2>2 DEF Lookup
<1>4. ASSUME NEW s \in Symbol, s \notin DOMAIN phToValue, spell[s] \in P
      PROVE  value[spell[s]] = spell[s]
  <2>1. \A u \in DOMAIN phToValue : spell[u] # spell[s]
    BY <1>0, <1>4 DEF Writes
  <2>. QED  BY <1>4, <2>1 DEF Lookup
<1>5. Replaceable(C, P, value)
  <2>1. ASSUME NEW p \in P PROVE value[p] \in Seq(C)
    <3>1. p \in Seq(C)
      BY DEF Writes, Findable
    <3>2. CASE \E s \in DOMAIN phToValue : spell[s] = p
      <4>1. PICK s \in DOMAIN phToValue : spell[s] = p
        BY <3>2
      <4>2. s \in Token /\ phToValue[s] \in Text
        BY DEF TypeOK
      <4>. QED  BY <1>2, <1>3, <4>1, <4>2
    <3>3. CASE ~\E s \in DOMAIN phToValue : spell[s] = p
      BY <3>1, <3>3 DEF Lookup
    <3>. QED  BY <3>2, <3>3
  <2>. QED  BY <2>1 DEF Replaceable, Writes
<1>6. ASSUME NEW s \in Symbol
      PROVE  read[s] = IF spell[s] \in P THEN value[spell[s]] ELSE spell[s]
  <2>1. s \in Token => (spell[s] \in P <=> s.n <= MaxIndex)
    BY DEF Writes
  <2>2. Spelled(<<s>>, spell) = spell[s]
    BY <1>1, SpelledLaws
  <2>3. read[s] = IF s \in DOMAIN phToValue /\ s.n <= MaxIndex
                  THEN Spelled(phToValue[s], spell) ELSE spell[s]
    BY <2>2 DEF Read
  <2>4. s \in DOMAIN phToValue => s \in Token
    BY <1>0
  <2> HIDE DEF read, value
  <2>. QED  BY <1>3, <1>4, <2>1, <2>3, <2>4
<1>7. /\ \A p \in P : p[1] = open
      /\ Opening(Symbol, open, spell)
  BY DEF Writes
<1>8. \A s \in Symbol : read[s] = Spelled(Read[s], spell)
  OBVIOUS
<1> HIDE DEF read, value
<1>9. Reads(Symbol, P, value, spell, read)
  BY <1>6 DEF Reads
<1>10. Replacing(Spelled(t, spell), P, value, {}).out = Spelled(t, read)
  BY <1>1, <1>5, <1>7, <1>9, ReplacingSpelled
<1>11. Spelled(Spelled(t, Read), spell) = Spelled(t, read)
  BY <1>1, <1>8, SpelledTwice
<1>12. Restored(t) = Spelled(t, Read)
  BY RestoredIsSpelled
<1>. QED  BY <1>10, <1>11, <1>12 DEF RestoredCharacters, value

\* Replacing a span by a placeholder leaves no characters that happen to be one,
\* where there were none: across the seams there is a "[" that is not in front.
LEMMA ReplacedHasNothingElse ==
    ASSUME NEW C, NEW P, NEW open, NEW spell, Writes(C, P, open, spell),
           NEW t \in Text, NothingElse(t, spell, P), NEW ph \in Token,
           NEW d, d.start \in Nat, d.end \in Nat, d.start < d.end, d.end <= Len(t)
    PROVE  NothingElse(Replaced(t, d, ph), spell, P)
<1> DEFINE a == SubSeq(t, 1, d.start)
           rest == SubSeq(t, d.start + 1, Len(t))
           b == SubSeq(t, d.end + 1, Len(t))
           span == SubSeq(t, 1, d.end)
           v == spell[ph]
           tail == Joined(<<ph>>, b)
<1>1. t \in Seq(Symbol) /\ Len(t) \in Nat /\ d.start \in 0..Len(t) /\ d.end \in 0..Len(t)
  BY LenProperties DEF Text
<1>2. /\ a \in Seq(Symbol) /\ rest \in Seq(Symbol) /\ t = Joined(a, rest)
      /\ b \in Seq(Symbol) /\ span \in Seq(Symbol) /\ t = Joined(span, b)
  BY <1>1, CutProperties, CutAndJoin DEF Joined
<1>3. ph \in Symbol /\ <<ph>> \in Seq(Symbol) /\ Len(<<ph>>) = 1 /\ <<ph>>[1] = ph
  BY DEF Symbol
<1>4. Replaced(t, d, ph) = Joined(a, tail)
  <2> DEFINE c == <<ph>>
  <2>1. c \in Seq(Symbol)
    BY <1>3
  <2> HIDE DEF a, b, c
  <2>2. Joined(a, Joined(c, b)) = Joined(Joined(a, c), b)
    BY <1>2, <2>1, JoinLaws
  <2>. QED  BY <2>2 DEF Replaced, Joined, a, b, c
<1>5. Spells(Symbol, C, spell) /\ Findable(C, P)
  BY DEF Writes
<1>6. v \in Seq(C) /\ Len(v) >= 1 /\ v[1] = open
  BY <1>3 DEF Writes, Spells, Opening
<1> DEFINE B == Spelled(b, spell)
           R == Spelled(rest, spell)
           T == Spelled(tail, spell)
<1>7. tail \in Seq(Symbol)
  BY <1>2, <1>3, JoinLaws
<1>8. B \in Seq(C) /\ R \in Seq(C) /\ T = Joined(v, B)
  <2>1. Spelled(<<ph>>, spell) = v
    BY <1>3, <1>5, SpelledLaws
  <2> DEFINE c == <<ph>>
  <2>2. c \in Seq(Symbol) /\ Spelled(c, spell) = v
    BY <1>3, <2>1
  <2> HIDE DEF c, a, b, rest, v
  <2>3. Spelled(Joined(c, b), spell) = Joined(Spelled(c, spell), Spelled(b, spell))
    BY <1>2, <1>5, <2>2, SpelledLaws
  <2>4. B \in Seq(C) /\ R \in Seq(C)
    BY <1>2, <1>5, SpelledIsPass
  <2>. QED  BY <2>2, <2>3, <2>4 DEF c
<1> HIDE DEF a, rest, b, span, v, B, R, T
<1>9. NothingElse(b, spell, P)
  BY <1>2, <1>5, NothingElseJoined
<1>10. \A i \in 1..Len(a) : spell[a[i]] \notin P =>
           ~FoundAt(Joined(Spelled(SubSeq(a, i, Len(a)), spell), R), 1, P)
  BY <1>2, <1>5, NothingElseJoined DEF R
<1>11. NothingElse(tail, spell, P)
  <2>1. v \in P \/ ~FoundAt(Joined(v, B), 1, P)
    <3>1. v \in P \/ \A p \in P : \E k \in 1..Len(p) : k <= Len(v) /\ p[k] # v[k]
      BY DEF Writes, v
    <3>. QED  BY <1>5, <1>6, <1>8, <3>1, TooWide
  <2>2. ASSUME NEW i \in 1..Len(<<ph>>), spell[<<ph>>[i]] \notin P
        PROVE  ~FoundAt(Joined(Spelled(SubSeq(<<ph>>, i, Len(<<ph>>)), spell),
                               Spelled(b, spell)), 1, P)
    <3>1. i = 1 /\ <<ph>>[i] = ph
      BY <1>3
    <3>2. SubSeq(<<ph>>, 1, Len(<<ph>>)) = <<ph>>
      BY <1>3, WholeAndNothing
    <3>3. Spelled(<<ph>>, spell) = v
      BY <1>3, <1>5, SpelledLaws DEF v
    <3>. QED  BY <2>1, <2>2, <3>1, <3>2, <3>3 DEF v, B
  <2> DEFINE c == <<ph>>
  <2>3. c \in Seq(Symbol)
    BY <1>3
  <2>4. \A i \in 1..Len(c) : spell[c[i]] \notin P =>
            ~FoundAt(Joined(Spelled(SubSeq(c, i, Len(c)), spell), Spelled(b, spell)), 1, P)
    BY <2>2
  <2> HIDE DEF c
  <2>5. NothingElse(Joined(c, b), spell, P)
    BY <1>2, <1>5, <1>9, <2>3, <2>4, NothingElseJoined
  <2>. QED  BY <2>5 DEF c
<1>12. ASSUME NEW i \in 1..Len(a), spell[a[i]] \notin P
       PROVE  ~FoundAt(Joined(Spelled(SubSeq(a, i, Len(a)), spell), T), 1, P)
  <2> DEFINE u == Spelled(SubSeq(a, i, Len(a)), spell)
  <2>1. u \in Seq(C) /\ Len(u) >= 1
    <3> DEFINE x == spell[a[i]]
               y == Spelled(SubSeq(a, i + 1, Len(a)), spell)
    <3>1. x \in Seq(C) /\ y \in Seq(C) /\ u = Joined(x, y)
      BY <1>2, <1>5, SpelledRest
    <3>2. a[i] \in Symbol
      BY <1>2, ElementOfSeq
    <3>3. Len(x) >= 1
      BY <3>2 DEF Writes, Opening
    <3> HIDE DEF x, y, u
    <3>4. u \in Seq(C) /\ Len(u) = Len(x) + Len(y) /\ Len(x) \in Nat /\ Len(y) \in Nat
      BY <3>1, PartsOfJoin
    <3>. QED  BY <3>3, <3>4
  <2>2. ~FoundAt(Joined(u, R), 1, P)
    BY <1>10, <1>12
  <2>3. T \in Seq(C) /\ Len(T) >= 1 /\ T[1] = open
    <3>1. T \in Seq(C) /\ Len(T) = Len(v) + Len(B) /\ Len(B) \in Nat /\ Len(v) \in Nat
      BY <1>6, <1>8, PartsOfJoin
    <3>2. \A k \in 1..Len(v) : T[k] = v[k]
      BY <1>6, <1>8, PartsOfJoin
    <3>3. 1 \in 1..Len(v)
      BY <1>6, <3>1
    <3>. QED  BY <1>6, <3>1, <3>2, <3>3
  <2>4. \A p \in P : \A k \in 2..Len(p) : p[k] # open
    BY DEF Writes
  <2> HIDE DEF u
  <2>5. ~FoundAt(Joined(u, T), 1, P)
    BY <1>5, <1>8, <2>1, <2>2, <2>3, <2>4, NotAcross
  <2>. QED  BY <2>5 DEF u
<1> HIDE DEF tail
<1>13. NothingElse(Joined(a, tail), spell, P)
  BY <1>2, <1>5, <1>7, <1>11, <1>12, NothingElseJoined DEF T
<1>. QED  BY <1>4, <1>13

\* So masking leaves none in a field that had none.
NothingElseInFields(P, spell) ==
    \A f \in DOMAIN fields : NothingElse(fields[f].text, spell, P)
                                => NothingElse(texts[f], spell, P)

LEMMA MaskingAddsNothingElse ==
    ASSUME NEW CONSTANT C, NEW CONSTANT P, NEW CONSTANT open, NEW CONSTANT spell,
           Writes(C, P, open, spell)
    PROVE  Spec => []NothingElseInFields(P, spell)
<1>1. Init => NothingElseInFields(P, spell)
  BY DEF Init, NothingElseInFields
<1>2. ASSUME Inv, NothingElseInFields(P, spell), [Next]_vars
      PROVE  NothingElseInFields(P, spell)'
  <2>1. ASSUME NEW f \in DOMAIN fields, NEW d \in todo[f], Mask(f, d)
        PROVE  NothingElseInFields(P, spell)'
    <3> DEFINE ph == PlaceholderFor(d.entity, Span(d, fields[f].text))
    <3>1. /\ fields' = fields
          /\ texts' = [texts EXCEPT ![f] = Replaced(@, d, ph)]
          /\ DOMAIN texts = DOMAIN fields
          /\ texts[f] \in Text
      BY <1>2, <2>1 DEF Mask, Inv, TypeOK
    <3>2. /\ d \in Detection /\ d.entity \in Entity
          /\ d.start \in Nat /\ d.end \in Nat /\ d.start < d.end
          /\ d.end <= Len(texts[f])
      BY <1>2 DEF Inv, TypeOK, WellFormed, WellPlaced, Detection, OffsetsStayValid
    <3>3. ph \in Token
      <4>1. counters[d.entity] \in Nat
        BY <1>2, <3>2 DEF Inv, TypeOK
      <4>. QED  BY <1>2, <3>2, <4>1 DEF PlaceholderFor, Inv, TypeOK, Token
    <3> HIDE DEF ph
    <3>4. NothingElse(texts[f], spell, P) => NothingElse(Replaced(texts[f], d, ph), spell, P)
      BY <3>1, <3>2, <3>3, ReplacedHasNothingElse
    <3>5. ASSUME NEW g \in DOMAIN fields, NothingElse(fields[g].text, spell, P)
          PROVE  NothingElse(texts'[g], spell, P)
      <4>1. NothingElse(texts[g], spell, P)
        BY <1>2, <3>5 DEF NothingElseInFields
      <4>2. texts'[g] = IF g = f THEN Replaced(texts[f], d, ph) ELSE texts[g]
        BY <3>1
      <4>. QED  BY <3>4, <4>1, <4>2
    <3>. QED  BY <3>1, <3>5 DEF NothingElseInFields
  <2>2. CASE UNCHANGED vars
    BY <1>2, <2>2 DEF vars, NothingElseInFields
  <2>. QED  BY <1>2, <2>1, <2>2 DEF Next
<1>3. Inv /\ NothingElseInFields(P, spell) /\ [Next]_vars => NothingElseInFields(P, spell)'
  BY <1>2
<1>. QED  BY <1>1, <1>3, Invariance, PTL DEF Spec

\* What is shown of texts of symbols holds of the characters that are sent: restore()
\* reads from the characters of a masked field what it reads from its symbols, and
\* the characters of a restorable field come back exactly as they went in.  Both
\* for fields that the model reads as the expression does: nothing is found among
\* the characters of a field but what is one symbol of it.
THEOREM CharactersComeBack ==
    ASSUME NEW CONSTANT C, NEW CONSTANT P, NEW CONSTANT open, NEW CONSTANT spell,
           Writes(C, P, open, spell)
    PROVE  Spec => [](\A f \in DOMAIN fields :
               NothingElse(fields[f].text, spell, P) =>
                   /\ RestoredCharacters(texts[f], P, spell)
                         = Spelled(Restored(texts[f]), spell)
                   /\ Restorable(f) => RestoredCharacters(texts[f], P, spell)
                                         = Spelled(fields[f].text, spell))
<1> DEFINE Back == \A f \in DOMAIN fields :
                       Restorable(f) => Restored(texts[f]) = fields[f].text
           Goal == \A f \in DOMAIN fields :
               NothingElse(fields[f].text, spell, P) =>
                   /\ RestoredCharacters(texts[f], P, spell)
                         = Spelled(Restored(texts[f]), spell)
                   /\ Restorable(f) => RestoredCharacters(texts[f], P, spell)
                                         = Spelled(fields[f].text, spell)
<1>1. ASSUME Inv, NothingElseInFields(P, spell), Back,
             NEW f \in DOMAIN fields, NothingElse(fields[f].text, spell, P)
      PROVE  /\ RestoredCharacters(texts[f], P, spell) = Spelled(Restored(texts[f]), spell)
             /\ Restorable(f) => RestoredCharacters(texts[f], P, spell)
                                   = Spelled(fields[f].text, spell)
  <2>1. TypeOK /\ texts[f] \in Text
    BY <1>1 DEF Inv, TypeOK
  <2>2. NothingElse(texts[f], spell, P)
    BY <1>1 DEF NothingElseInFields
  <2>3. RestoredCharacters(texts[f], P, spell) = Spelled(Restored(texts[f]), spell)
    BY <2>1, <2>2, RestoresCharacters
  <2>. QED  BY <1>1, <2>3
<1>2. Inv /\ NothingElseInFields(P, spell) /\ Back => Goal
  BY <1>1
<1>3. Spec => []Back
  BY RestorableComesBack
<1> HIDE DEF Back, Goal
<1>4. Spec => []Goal
  BY <1>2, <1>3, Invariance, MaskingAddsNothingElse, PTL
<1>. QED  BY <1>4 DEF Goal

=============================================================================
