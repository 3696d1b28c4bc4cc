----------------------- MODULE StreamRestorer_proofs ------------------------
(***************************************************************************)
(* What is proved of StreamRestorer for every placeholder language, set of *)
(* texts, set of mappings and way of cutting a text into chunks.           *)
(***************************************************************************)
EXTENDS StreamRestorer, Lemmas

\* Joining is associative, for the texts of the model.
LEMMA JoinIsAssociative ==
    \A s, t, u \in Seq(Char) : s \o (t \o u) = (s \o t) \o u
BY ConcatAssociative

\* A placeholder is a text, begins with "[" and has no other, and is not empty.
LEMMA PlaceholderShape ==
    ASSUME NEW p \in Placeholder
    PROVE  /\ p \in Seq(Char)
           /\ Len(p) \in Nat \ {0}
           /\ Len(p) <= MaxPlaceholderLen
           /\ p[1] = Open
           /\ \A i \in 2..Len(p) : p[i] # Open
<1>1. Len(p) \in Nat
  BY PlaceholderAssumption, LenProperties
<1>. QED  BY <1>1, PlaceholderAssumption DEF OpensOnce

\* A placeholder can only begin at a "[".
LEMMA BeginsAtOpen ==
    ASSUME NEW s \in Seq(Char), NEW p \in Placeholder, NEW i \in 1..Len(s),
           StartsAt(s, i, p)
    PROVE  s[i] = Open
<1>0. Len(p) \in Nat \ {0}
  BY PlaceholderShape
<1>1. s[i + 1 - 1] = p[1]
  BY <1>0 DEF StartsAt
<1>2. i + 1 - 1 = i
  BY LenProperties
<1>. QED  BY <1>1, <1>2, PlaceholderShape

\* What occurs in the first of two joined texts occurs in the join.
LEMMA OccursInJoin ==
    ASSUME NEW s \in Seq(Char), NEW t \in Seq(Char), NEW p \in Placeholder,
           StartsAt(s, 1, p)
    PROVE  StartsAt(s \o t, 1, p) /\ Len(p) \in 1..Len(s)
<1>1. p \in Seq(Char) /\ Len(p) >= 1
  BY PlaceholderShape
<1>. QED  BY <1>1, FoundInJoin

\* Placeholders can be looked for, and replaced as a mapping of texts says.
LEMMA PlaceholdersAreReplaceable ==
    ASSUME NEW m, \A p \in DOMAIN m : m[p] \in Seq(Char)
    PROVE  /\ Findable(Char, Placeholder)
           /\ Replaceable(Char, Placeholder, Values(m))
<1>1. Findable(Char, Placeholder)
  <2>1. \A p \in Placeholder : p \in Seq(Char) /\ Len(p) >= 1
    BY PlaceholderShape
  <2>. QED  BY <2>1, PrefixFreeAssumption DEF Findable
<1>2. ASSUME NEW p \in Placeholder PROVE Values(m)[p] \in Seq(Char)
  <2>1. Values(m)[p] = ValueOf(m, p)
    BY DEF Values
  <2>2. ValueOf(m, p) \in Seq(Char)
    BY PlaceholderShape DEF ValueOf
  <2>. QED  BY <2>1, <2>2
<1>. QED  BY <1>1, <1>2 DEF Replaceable

\* push() stops in time: it holds back whatever may still become a placeholder.
LEMMA UndecidableInTime == StopsInTime(Char, Placeholder, Undecidable)
<1>1. ASSUME NEW p \in Placeholder, NEW k \in 1..(Len(p) - 1)
      PROVE  SubSeq(p, 1, k) \in Undecidable
  <2>1. SubSeq(p, 1, k) \in PotentialPrefix
    BY PotentialAssumption
  <2>2. p \in Seq(Char) /\ Len(p) \in Nat /\ Len(p) <= MaxPlaceholderLen
        /\ MaxPlaceholderLen \in Nat
    BY PlaceholderShape, PlaceholderAssumption
  <2>3. k \in 0..Len(p) /\ k <= MaxPlaceholderLen
    BY <2>2
  <2>4. Len(SubSeq(p, 1, k)) = k
    BY <2>2, <2>3, CutProperties
  <2>. QED  BY <2>1, <2>3, <2>4 DEF Undecidable
<1>2. Findable(Char, Placeholder)
  <2>1. \A p \in Placeholder : p \in Seq(Char) /\ Len(p) >= 1
    BY PlaceholderShape
  <2>. QED  BY <2>1, PrefixFreeAssumption DEF Findable
<1>. QED  BY <1>1, <1>2, PrefixesSuffice

\* A placeholder in front of a join either lies within the first text, or the
\* whole first text is one of its proper prefixes.
LEMMA FrontOfJoin ==
    ASSUME NEW s \in Seq(Char), NEW t \in Seq(Char), s # << >>,
           NEW p \in Placeholder, StartsAt(s \o t, 1, p)
    PROVE  \/ \E q \in Placeholder : StartsAt(s, 1, q)
           \/ s \in PotentialPrefix /\ Len(s) <= MaxPlaceholderLen
BY UndecidableInTime DEF StopsInTime, FoundAt, Undecidable

\* In a text with a "[" in front and no other, a placeholder can only begin
\* in front; the same within a complete placeholder followed by other text.
LEMMA OnlyInFront ==
    ASSUME NEW s \in Seq(Char), NEW t \in Seq(Char), NEW n \in 1..Len(s),
           \A i \in 2..n : s[i] # Open,
           NEW p \in Placeholder, NEW i \in 2..n
    PROVE  ~StartsAt(s \o t, i, p)
<1>1. Len(s) \in Nat /\ Len(t) \in Nat
  BY LenProperties
<1>2. /\ s \o t \in Seq(Char) /\ Len(s \o t) = Len(s) + Len(t)
      /\ (s \o t)[i] = s[i]
  BY <1>1, ConcatProperties
<1>3. i \in 1..Len(s \o t)
  BY <1>1, <1>2
<1>. QED  BY <1>2, <1>3, BeginsAtOpen

-----------------------------------------------------------------------------

\* Between calls nothing is collected; a scan only runs when there is
\* something to restore; after flush() nothing is left anywhere.
Quiet == /\ pc # "scan" => out = << >>
         /\ pc = "scan" => ~Passthrough
         /\ pc = "closed" => pending = << >> /\ buffer = << >>

Inv == TypeOK /\ Quiet /\ HeldBackOnlyIfUndecided

\* The initial state satisfies the invariant.
LEMMA InitInv == Init => Inv
<1> SUFFICES ASSUME Init PROVE Inv
  OBVIOUS
<1>1. TypeOK
  <2>1. << >> \in Seq(Char)
    BY EmptySeq
  <2>. QED  BY <2>1, StreamTextsAssumption DEF Init, TypeOK
<1>2. Quiet /\ HeldBackOnlyIfUndecided
  BY DEF Init, Quiet, HeldBackOnlyIfUndecided
<1>. QED  BY <1>1, <1>2 DEF Inv

\* A value of the mapping, or the placeholder itself, is a text.
LEMMA ValueIsText ==
    ASSUME TypeOK, NEW p \in Placeholder
    PROVE  ValueOf(mapping, p) \in Seq(Char)
BY StreamMappingsAssumption, PlaceholderShape DEF TypeOK, ValueOf

\* Every step keeps the invariant.
LEMMA NextInv == Inv /\ [Next]_vars => Inv'
<1> SUFFICES ASSUME Inv, [Next]_vars PROVE Inv'
  OBVIOUS
<1> USE DEF Inv
<1>0. /\ Len(pending) \in Nat /\ Len(buffer) \in Nat
      /\ << >> \in Seq(Char) /\ Len(<< >>) = 0
  BY EmptySeq, LenProperties DEF TypeOK
<1>1. ASSUME NEW n \in 1..Len(pending), Push(n)
      PROVE  Inv'
  <2>1. /\ SubSeq(pending, 1, n) \in Seq(Char)
        /\ SubSeq(pending, n + 1, Len(pending)) \in Seq(Char)
    BY <1>0, CutProperties DEF TypeOK
  <2>2. /\ delivered \o SubSeq(pending, 1, n) \in Seq(Char)
        /\ buffer \o SubSeq(pending, 1, n) \in Seq(Char)
    BY <2>1, ConcatProperties DEF TypeOK
  <2>3. TypeOK'
    BY <1>1, <2>1, <2>2 DEF Push, TypeOK
  <2>4. Quiet'
    BY <1>1 DEF Push, Quiet, Passthrough
  <2>5. HeldBackOnlyIfUndecided'
    BY <1>1 DEF Push, HeldBackOnlyIfUndecided, Passthrough, Undecided, Matches
  <2>. QED  BY <2>3, <2>4, <2>5
<1>2. ASSUME NEW n \in 1..Len(buffer), EmitPlain(n)
      PROVE  Inv'
  <2>1. /\ SubSeq(buffer, 1, n) \in Seq(Char)
        /\ SubSeq(buffer, n + 1, Len(buffer)) \in Seq(Char)
    BY <1>0, CutProperties DEF TypeOK
  <2>2. out \o SubSeq(buffer, 1, n) \in Seq(Char)
    BY <2>1, ConcatProperties DEF TypeOK
  <2>3. TypeOK'
    BY <1>2, <2>1, <2>2 DEF EmitPlain, TypeOK
  <2>4. Quiet' /\ HeldBackOnlyIfUndecided'
    BY <1>2 DEF EmitPlain, Quiet, HeldBackOnlyIfUndecided, Passthrough
  <2>. QED  BY <2>3, <2>4
<1>3. ASSUME NEW p \in Placeholder, EmitToken(p)
      PROVE  Inv'
  <2>1. Len(p) \in 0..Len(buffer)
    BY <1>0, <1>3, PlaceholderShape DEF EmitToken, Matches, StartsAt
  <2>2. SubSeq(buffer, Len(p) + 1, Len(buffer)) \in Seq(Char)
    BY <2>1, CutProperties DEF TypeOK
  <2>3. out \o ValueOf(mapping, p) \in Seq(Char)
    BY ValueIsText, ConcatProperties DEF TypeOK
  <2>4. TypeOK'
    BY <1>3, <2>2, <2>3 DEF EmitToken, TypeOK
  <2>5. Quiet' /\ HeldBackOnlyIfUndecided'
    BY <1>3 DEF EmitToken, Quiet, HeldBackOnlyIfUndecided, Passthrough
  <2>. QED  BY <2>4, <2>5
<1>4. CASE EmitOpen
  <2>1. 1 \in 0..Len(buffer)
    BY <1>0, <1>4, EmptySeq DEF EmitOpen, TypeOK
  <2>2. /\ SubSeq(buffer, 1, 1) \in Seq(Char)
        /\ SubSeq(buffer, 1 + 1, Len(buffer)) \in Seq(Char)
    BY <2>1, CutProperties DEF TypeOK
  <2>3. out \o SubSeq(buffer, 1, 1) \in Seq(Char)
    BY <2>2, ConcatProperties DEF TypeOK
  <2>4. TypeOK'
    BY <1>4, <2>2, <2>3 DEF EmitOpen, TypeOK
  <2>5. Quiet' /\ HeldBackOnlyIfUndecided'
    BY <1>4 DEF EmitOpen, Quiet, HeldBackOnlyIfUndecided, Passthrough
  <2>. QED  BY <2>4, <2>5
<1>5. CASE Return
  <2>1. delivered \o out \in Seq(Char)
    BY ConcatProperties DEF TypeOK
  <2>2. TypeOK'
    BY <1>0, <1>5, <2>1 DEF Return, TypeOK
  <2>3. Quiet'
    BY <1>5 DEF Return, Quiet
  <2>4. HeldBackOnlyIfUndecided'
    BY <1>5 DEF Return, Quiet, HeldBackOnlyIfUndecided, Passthrough, Undecided, Matches
  <2>. QED  BY <2>2, <2>3, <2>4
<1>6. CASE Flush
  <2>1. delivered \o buffer \in Seq(Char)
    BY ConcatProperties DEF TypeOK
  <2>2. TypeOK'
    BY <1>0, <1>6, <2>1 DEF Flush, TypeOK
  <2>3. Quiet' /\ HeldBackOnlyIfUndecided'
    BY <1>6 DEF Flush, Quiet, HeldBackOnlyIfUndecided
  <2>. QED  BY <2>2, <2>3
<1>7. CASE UNCHANGED vars
  BY <1>7 DEF vars, TypeOK, Quiet, HeldBackOnlyIfUndecided, Passthrough, Undecided, Matches
<1>. QED  BY <1>1, <1>2, <1>3, <1>4, <1>5, <1>6, <1>7 DEF Next

\* The invariant holds throughout.
THEOREM Invariance == Spec => []Inv
BY InitInv, NextInv, PTL DEF Spec

\* Type correctness.
THEOREM TypeCorrect == Spec => []TypeOK
<1>1. Inv => TypeOK
  BY DEF Inv
<1>. QED  BY <1>1, Invariance, PTL

\* push() never holds back more than an undecided "[" and what follows it:
\* bounded by MAX_PLACEHOLDER_LEN, free of complete placeholders, and nothing
\* when the mapping is empty.
THEOREM HoldsBackOnlyUndecided == Spec => []HeldBackOnlyIfUndecided
<1>1. Inv => HeldBackOnlyIfUndecided
  BY DEF Inv
<1>. QED  BY <1>1, Invariance, PTL

-----------------------------------------------------------------------------

\* Nothing begins in the characters before the first "[", nor, when push() gives
\* out a "[", at that one, whatever is still to come.
LEMMA NothingInPlain ==
    ASSUME Inv, NEW n \in 1..Len(buffer), EmitPlain(n)
    PROVE  \A i \in 1..n : \A p \in Placeholder : ~StartsAt(buffer \o pending, i, p)
<1>0. /\ buffer \in Seq(Char) /\ pending \in Seq(Char)
      /\ Len(buffer) \in Nat /\ Len(pending) \in Nat
  BY LenProperties DEF Inv, TypeOK
<1>1. SUFFICES ASSUME NEW i \in 1..n, NEW p \in Placeholder
               PROVE  ~StartsAt(buffer \o pending, i, p)
  OBVIOUS
<1>2. i \in 1..Len(buffer)
  BY <1>0
<1>3. /\ buffer \o pending \in Seq(Char)
      /\ (buffer \o pending)[i] = buffer[i]
      /\ i \in 1..Len(buffer \o pending)
  BY <1>0, <1>2, ConcatProperties
<1>4. buffer[i] # Open
  BY DEF EmitPlain
<1>. QED  BY <1>3, <1>4, BeginsAtOpen

LEMMA NothingAtOpen ==
    ASSUME Inv, EmitOpen
    PROVE  /\ 1 \in 1..Len(buffer)
           /\ \A p \in Placeholder : ~StartsAt(buffer \o pending, 1, p)
<1>1. buffer \in Seq(Char) /\ pending \in Seq(Char) /\ Len(buffer) \in Nat
  BY LenProperties DEF Inv, TypeOK
<1>2. 1 \in 1..Len(buffer)
  BY <1>1, EmptySeq DEF EmitOpen
<1>3. \A p \in Placeholder : ~StartsAt(buffer \o pending, 1, p)
  BY <1>1, FrontOfJoin DEF EmitOpen, Matches, Undecided
<1>. QED  BY <1>2, <1>3

\* Giving out the first n characters of the buffer, in which nothing to
\* restore begins, is a copying step of the abstract scan.
LEMMA CopyFromBuffer ==
    ASSUME Inv, NEW n \in 1..Len(buffer),
           \A i \in 1..n : \A p \in Placeholder :
               p \in DOMAIN mapping => ~StartsAt(buffer \o pending, i, p),
           UNCHANGED <<text, mapping, pending>>,
           buffer' = SubSeq(buffer, n + 1, Len(buffer)),
           delivered' \o out' = (delivered \o out) \o SubSeq(buffer, 1, n)
    PROVE  Abstract!Next
<1>1. buffer \in Seq(Char) /\ pending \in Seq(Char)
  BY DEF Inv, TypeOK
<1>2. n \in 0..Len(buffer) /\ Len(buffer) \in Nat /\ Len(pending) \in Nat
  BY <1>1, LenProperties
<1>3. /\ SubSeq(buffer \o pending, 1, n) = SubSeq(buffer, 1, n)
      /\ SubSeq(buffer \o pending, n + 1, Len(buffer \o pending))
           = SubSeq(buffer, n + 1, Len(buffer)) \o pending
  BY <1>1, <1>2, CutOfJoin
<1>4. n \in 1..Len(buffer \o pending)
  BY <1>1, <1>2, ConcatProperties
<1>5. Abstract!CopyPlain(n)
  BY <1>3 DEF Abstract!CopyPlain, Abstract!Restorable, Abstract!StartsAt, StartsAt
<1>. QED  BY <1>4, <1>5 DEF Abstract!Next

\* Every step of the restorer is a step of the abstract scan or none.
LEMMA StepRefines == Inv /\ [Next]_vars => [Abstract!Next]_Abstract!absVars
<1> SUFFICES ASSUME Inv, [Next]_vars
             PROVE  Abstract!Next \/ UNCHANGED Abstract!absVars
  OBVIOUS
<1>0. /\ buffer \in Seq(Char) /\ pending \in Seq(Char)
      /\ out \in Seq(Char) /\ delivered \in Seq(Char)
      /\ Len(buffer) \in Nat /\ Len(pending) \in Nat
  BY LenProperties DEF Inv, TypeOK
<1>1. ASSUME NEW n \in 1..Len(pending), Push(n)
      PROVE  Abstract!Next \/ UNCHANGED Abstract!absVars
  <2> DEFINE chunk == SubSeq(pending, 1, n)
             later == SubSeq(pending, n + 1, Len(pending))
  <2>1. chunk \in Seq(Char) /\ later \in Seq(Char) /\ chunk \o later = pending
    BY <1>0, CutProperties, CutAndJoin
  <2>2. CASE Passthrough
    <3>1. buffer = << >> /\ out = << >>
      BY <1>1, <2>2 DEF Push, Inv, Quiet, HeldBackOnlyIfUndecided
    <3>2. /\ buffer \o pending = pending
          /\ (buffer \o pending)' = later
          /\ delivered \o out = delivered
          /\ (delivered \o out)' = delivered \o chunk
      <4>1. (buffer \o pending)' = << >> \o later
        BY <1>1, <2>2, <3>1 DEF Push
      <4>2. (delivered \o out)' = (delivered \o chunk) \o << >>
        BY <1>1, <2>2, <3>1 DEF Push
      <4>3. delivered \o chunk \in Seq(Char)
        BY <1>0, <2>1, ConcatProperties
      <4>. HIDE DEF chunk, later
      <4>4. (delivered \o chunk) \o << >> = delivered \o chunk
        BY <4>3, ConcatEmptySeq
      <4>5. << >> \o later = later
        BY <2>1, ConcatEmptySeq
      <4>6. << >> \o pending = pending /\ delivered \o << >> = delivered
        BY <1>0, ConcatEmptySeq
      <4>. QED  BY <3>1, <4>1, <4>2, <4>4, <4>5, <4>6
    <3>3. Abstract!Restorable = {}
      BY <2>2 DEF Abstract!Restorable, Passthrough
    <3>4. Abstract!CopyPlain(n)
      BY <1>1, <3>2, <3>3 DEF Push, Abstract!CopyPlain
    <3>. QED  BY <3>2, <3>4 DEF Abstract!Next
  <2>3. CASE ~Passthrough
    <3>1. (buffer \o pending)' = (buffer \o chunk) \o later
      BY <1>1, <2>3 DEF Push
    <3>0. chunk \in Seq(Char) /\ later \in Seq(Char) /\ buffer \in Seq(Char)
      BY <1>0, <2>1
    <3>. HIDE DEF chunk, later
    <3>2. buffer \o (chunk \o later) = (buffer \o chunk) \o later
      BY <3>0, JoinIsAssociative
    <3>. QED  BY <1>1, <2>1, <2>3, <3>1, <3>2 DEF Push, Abstract!absVars
  <2>. QED  BY <2>2, <2>3
<1>2. ASSUME NEW n \in 1..Len(buffer), EmitPlain(n)
      PROVE  Abstract!Next
  <2>1. \A i \in 1..n : \A p \in Placeholder : ~StartsAt(buffer \o pending, i, p)
    BY <1>2, NothingInPlain
  <2>2. SubSeq(buffer, 1, n) \in Seq(Char)
    BY <1>0, CutProperties
  <2>3. delivered' \o out' = (delivered \o out) \o SubSeq(buffer, 1, n)
    <3>1. delivered' = delivered /\ out' = out \o SubSeq(buffer, 1, n)
      BY <1>2 DEF EmitPlain
    <3>2. delivered \o (out \o SubSeq(buffer, 1, n))
            = (delivered \o out) \o SubSeq(buffer, 1, n)
      BY <1>0, <2>2, JoinIsAssociative
    <3>. QED  BY <3>1, <3>2
  <2>4. /\ UNCHANGED <<text, mapping, pending>>
        /\ buffer' = SubSeq(buffer, n + 1, Len(buffer))
    BY <1>2 DEF EmitPlain
  <2>. QED  BY <2>1, <2>3, <2>4, CopyFromBuffer
<1>3. ASSUME NEW p \in Placeholder, EmitToken(p)
      PROVE  Abstract!Next
  <2>1. StartsAt(buffer \o pending, 1, p) /\ Len(p) \in 1..Len(buffer)
    BY <1>0, <1>3, OccursInJoin DEF EmitToken, Matches
  <2>2. p \in Seq(Char) /\ \A k \in 1..Len(p) : buffer[k] = p[k]
    BY <1>3, PlaceholderShape DEF EmitToken, Matches, StartsAt
  <2>3. CASE p \in DOMAIN mapping
    <3>1. SubSeq(buffer \o pending, Len(p) + 1, Len(buffer \o pending))
            = SubSeq(buffer, Len(p) + 1, Len(buffer)) \o pending
      <4>1. Len(p) \in 0..Len(buffer)
        BY <1>0, <2>1
      <4>. QED  BY <1>0, <4>1, CutOfJoin
    <3>2. mapping[p] \in Seq(Char)
      BY <2>3, ValueIsText DEF Inv, ValueOf
    <3>3. delivered' \o out' = (delivered \o out) \o mapping[p]
      <4>1. delivered' = delivered /\ out' = out \o mapping[p]
        BY <1>3, <2>3 DEF EmitToken, ValueOf
      <4> DEFINE value == mapping[p]
      <4>2. value \in Seq(Char)
        BY <3>2
      <4>3. delivered' \o out' = delivered \o (out \o value)
        BY <4>1
      <4> HIDE DEF value
      <4>4. delivered \o (out \o value) = (delivered \o out) \o value
        BY <1>0, <4>2, JoinIsAssociative
      <4>. QED  BY <4>3, <4>4 DEF value
    <3>4. Abstract!Substitute(p)
      BY <1>3, <2>1, <3>1, <3>3 DEF EmitToken, Abstract!Substitute, Abstract!StartsAt, StartsAt
    <3>5. p \in Abstract!Restorable
      BY <2>3 DEF Abstract!Restorable
    <3>. QED  BY <3>4, <3>5 DEF Abstract!Next
  <2>4. CASE p \notin DOMAIN mapping
    <3>1. SubSeq(buffer, 1, Len(p)) = p
      <4>1. Len(p) \in 0..Len(buffer)
        BY <1>0, <2>1
      <4>2. /\ SubSeq(buffer, 1, Len(p)) \in Seq(Char)
            /\ Len(SubSeq(buffer, 1, Len(p))) = Len(p)
            /\ \A i \in 1..Len(p) : SubSeq(buffer, 1, Len(p))[i] = buffer[i]
        BY <1>0, <4>1, CutProperties
      <4>3. \A i \in 1..Len(p) : SubSeq(buffer, 1, Len(p))[i] = p[i]
        BY <2>2, <4>2
      <4>. QED  BY <2>2, <4>2, <4>3, SeqEqual
    <3>2. ASSUME NEW i \in 1..Len(p), NEW q \in Placeholder, q \in DOMAIN mapping
          PROVE  ~StartsAt(buffer \o pending, i, q)
      <4>1. CASE i = 1
        <5>1. SUFFICES ASSUME StartsAt(buffer \o pending, 1, q) PROVE FALSE
          BY <4>1
        <5>2. StartsAt(p, 1, q) \/ StartsAt(q, 1, p)
          <6>1. /\ Len(p) \in Nat /\ Len(q) \in Nat
            BY PlaceholderShape
          <6>2. /\ \A k \in 1..Len(p) : (buffer \o pending)[1 + k - 1] = p[k]
                /\ \A k \in 1..Len(q) : (buffer \o pending)[1 + k - 1] = q[k]
            BY <2>1, <5>1 DEF StartsAt
          <6>3. /\ \A k \in 1..Len(p) : k \in 1..Len(q) => p[1 + k - 1] = q[k]
                /\ \A k \in 1..Len(q) : k \in 1..Len(p) => q[1 + k - 1] = p[k]
            <7>1. \A k \in 1..Len(p) : k \in 1..Len(q) => p[k] = q[k]
              BY <6>2
            <7>2. \A k \in 1..Len(p) : 1 + k - 1 = k
              BY <6>1
            <7>3. \A k \in 1..Len(q) : 1 + k - 1 = k
              BY <6>1
            <7>. QED  BY <7>1, <7>2, <7>3
          <6>4. CASE Len(q) <= Len(p)
            BY <6>1, <6>3, <6>4 DEF StartsAt
          <6>5. CASE Len(p) <= Len(q)
            BY <6>1, <6>3, <6>5 DEF StartsAt
          <6>. QED  BY <6>1, <6>4, <6>5
        <5>3. p = q
          BY <5>2, PrefixFreeAssumption
        <5>. QED  BY <2>4, <3>2, <5>3
      <4>2. CASE i # 1
        <5>1. i \in 2..Len(p) /\ Len(p) \in 1..Len(buffer)
          BY <2>1, <4>2, PlaceholderShape
        <5>2. \A k \in 2..Len(p) : buffer[k] # Open
          BY <2>2, PlaceholderShape
        <5>. QED  BY <1>0, <5>1, <5>2, OnlyInFront
      <4>. QED  BY <4>1, <4>2
    <3>3. delivered' \o out' = (delivered \o out) \o SubSeq(buffer, 1, Len(p))
      <4>1. delivered' = delivered /\ out' = out \o p
        BY <1>3, <2>4 DEF EmitToken, ValueOf
      <4>2. (delivered \o out) \o p = delivered \o (out \o p)
        BY <1>0, <2>2, JoinIsAssociative
      <4>. QED  BY <3>1, <4>1, <4>2
    <3>4. /\ UNCHANGED <<text, mapping, pending>>
          /\ buffer' = SubSeq(buffer, Len(p) + 1, Len(buffer))
      BY <1>3 DEF EmitToken
    <3>. QED  BY <2>1, <3>2, <3>3, <3>4, CopyFromBuffer
  <2>. QED  BY <2>3, <2>4
<1>4. CASE EmitOpen
  <2>1. 1 \in 1..Len(buffer)
    BY <1>4, NothingAtOpen
  <2>2. \A i \in 1..1 : \A p \in Placeholder : ~StartsAt(buffer \o pending, i, p)
    BY <1>4, NothingAtOpen
  <2>3. SubSeq(buffer, 1, 1) \in Seq(Char)
    <3>1. 1 \in 0..Len(buffer)
      BY <2>1
    <3>. QED  BY <1>0, <3>1, CutProperties
  <2>4. delivered' \o out' = (delivered \o out) \o SubSeq(buffer, 1, 1)
    <3>1. delivered' = delivered /\ out' = out \o SubSeq(buffer, 1, 1)
      BY <1>4 DEF EmitOpen
    <3>2. delivered \o (out \o SubSeq(buffer, 1, 1))
            = (delivered \o out) \o SubSeq(buffer, 1, 1)
      BY <1>0, <2>3, JoinIsAssociative
    <3>. QED  BY <3>1, <3>2
  <2>5. /\ UNCHANGED <<text, mapping, pending>>
        /\ buffer' = SubSeq(buffer, 1 + 1, Len(buffer))
    BY <1>4 DEF EmitOpen
  <2>. QED  BY <2>1, <2>2, <2>4, <2>5, CopyFromBuffer
<1>5. CASE Return
  <2>1. delivered \o out \in Seq(Char)
    BY <1>0, ConcatProperties
  <2>2. (delivered \o out)' = delivered \o out
    BY <1>5, <2>1, ConcatEmptySeq DEF Return
  <2>. QED  BY <1>5, <2>2 DEF Return, Abstract!absVars
<1>6. CASE Flush
  <2>1. out = << >> /\ out' = << >> /\ pending = << >>
    BY <1>6 DEF Flush, Inv, Quiet
  <2>2. delivered' \o out' = (delivered \o out) \o buffer
    <3>1. delivered \o buffer \in Seq(Char)
      BY <1>0, ConcatProperties
    <3>. QED  BY <1>0, <1>6, <2>1, <3>1, ConcatEmptySeq DEF Flush
  <2>3. CASE buffer = << >>
    <3>1. (delivered \o out)' = delivered \o out
      <4>1. delivered \o out \in Seq(Char)
        BY <1>0, ConcatProperties
      <4>. QED  BY <2>2, <2>3, <4>1, ConcatEmptySeq
    <3>. QED  BY <1>6, <2>3, <3>1 DEF Flush, Abstract!absVars
  <2>4. CASE buffer # << >>
    <3>1. Len(buffer) \in 1..Len(buffer) /\ 1 \in 1..Len(buffer)
      BY <1>0, <2>4, EmptySeq
    <3>2. /\ \A i \in 2..Len(buffer) : buffer[i] # Open
          /\ \A p \in Placeholder : ~StartsAt(buffer, 1, p)
      BY <1>6, <2>4, PotentialAssumption
         DEF Flush, Inv, HeldBackOnlyIfUndecided, Undecided, OpensOnce, Matches
    <3>3. ASSUME NEW i \in 1..Len(buffer), NEW p \in Placeholder
          PROVE  ~StartsAt(buffer \o pending, i, p)
      <4>1. buffer \o pending = buffer
        BY <1>0, <2>1, ConcatEmptySeq
      <4>2. CASE i = 1
        BY <3>2, <4>1, <4>2
      <4>3. CASE i # 1
        <5>1. i \in 2..Len(buffer)
          BY <1>0, <4>3
        <5>. QED  BY <1>0, <3>1, <3>2, <5>1, OnlyInFront
      <4>. QED  BY <4>2, <4>3
    <3>4. /\ SubSeq(buffer, 1, Len(buffer)) = buffer
          /\ SubSeq(buffer, Len(buffer) + 1, Len(buffer)) = << >>
      BY <1>0, SubSeqFull, SubSeqEmpty
    <3>5. /\ UNCHANGED <<text, mapping, pending>>
          /\ buffer' = SubSeq(buffer, Len(buffer) + 1, Len(buffer))
      BY <1>6, <3>4 DEF Flush
    <3>. QED  BY <2>2, <3>1, <3>3, <3>4, <3>5, CopyFromBuffer
  <2>. QED  BY <2>3, <2>4
<1>7. CASE UNCHANGED vars
  BY <1>7 DEF vars, Abstract!absVars
<1>. QED  BY <1>1, <1>2, <1>3, <1>4, <1>5, <1>6, <1>7 DEF Next

\* Restoring chunk by chunk implements the scan of the whole text: however the
\* response is cut, no placeholder of the mapping is copied, cut or missed.
THEOREM Refinement == Spec => RefinesTextRestore
<1>1. Init => Abstract!Init
  <2> SUFFICES ASSUME Init PROVE Abstract!Init
    OBVIOUS
  <2>1. text \in Seq(Char) /\ << >> \in Seq(Char)
    BY StreamTextsAssumption, EmptySeq DEF Init
  <2>2. << >> \o text = text /\ << >> \o << >> = << >>
    BY <2>1, ConcatEmptySeq
  <2>. QED  BY <2>2 DEF Init, Abstract!Init
<1>2. Inv /\ [Next]_vars => [Abstract!Next]_Abstract!absVars
  BY StepRefines
<1>. QED  BY <1>1, <1>2, Invariance, PTL DEF Spec, RefinesTextRestore, Abstract!Spec

-----------------------------------------------------------------------------

\* What RestoredText and Pushed stand for in the lemmas about rewriting.
LEMMA WhatIsRestored ==
    ASSUME NEW t, NEW m
    PROVE  RestoredText(t, m) = Replacing(t, Placeholder, Values(m), {}).out
BY DEF RestoredText

LEMMA MappingReplaces ==
    ASSUME TypeOK
    PROVE  Replaceable(Char, Placeholder, Values(mapping))
BY PlaceholdersAreReplaceable, StreamMappingsAssumption DEF TypeOK

\* When the mapping is empty restoring changes nothing.
LEMMA NothingToRestore ==
    ASSUME TypeOK, Passthrough, NEW t \in Seq(Char)
    PROVE  RestoredText(t, mapping) = t
<1>1. \A p \in Placeholder : Values(mapping)[p] = p
  BY DEF Values, ValueOf, Passthrough
<1>2. Replaceable(Char, Placeholder, Values(mapping))
  BY MappingReplaces
<1>. QED  BY <1>1, <1>2, ReplacingBySelf, WhatIsRestored

LEMMA RestoredIsText ==
    ASSUME TypeOK, NEW t \in Seq(Char)
    PROVE  RestoredText(t, mapping) \in Seq(Char)
BY MappingReplaces, ReplacingType, WhatIsRestored

\* What the client has, what the running push() has collected and what restoring
\* makes of the rest is together what restoring makes of the whole response.
Total == (delivered \o out) \o RestoredText(buffer \o pending, mapping)

NothingLost == Total = RestoredText(text, mapping)

\* Taking v out of the front of what is left, and collecting it.
LEMMA TakenFromFront ==
    ASSUME Inv, NothingLost, NEW v \in Seq(Char), NEW rest \in Seq(Char),
           RestoredText(buffer \o pending, mapping) = v \o RestoredText(rest, mapping),
           buffer' \o pending' = rest,
           delivered' \o out' = (delivered \o out) \o v,
           text' = text, mapping' = mapping
    PROVE  NothingLost'
<1> DEFINE a == delivered \o out
           b == RestoredText(rest, mapping)
<1>1. a \in Seq(Char) /\ b \in Seq(Char)
  BY RestoredIsText, ConcatProperties DEF Inv, TypeOK
<1>2. Total = a \o (v \o b)
  BY DEF Total
<1>3. Total' = (a \o v) \o b
  BY DEF Total
<1> HIDE DEF a, b
<1>4. a \o (v \o b) = (a \o v) \o b
  BY <1>1, JoinIsAssociative
<1>. QED  BY <1>2, <1>3, <1>4 DEF NothingLost

\* No step loses, repeats or changes anything.
LEMMA NextLosesNothing == Inv /\ NothingLost /\ [Next]_vars => NothingLost'
<1> SUFFICES ASSUME Inv, NothingLost, [Next]_vars PROVE NothingLost'
  OBVIOUS
<1> DEFINE y == buffer \o pending
<1>0. /\ buffer \in Seq(Char) /\ pending \in Seq(Char) /\ TypeOK
      /\ out \in Seq(Char) /\ delivered \in Seq(Char)
      /\ Len(buffer) \in Nat /\ Len(pending) \in Nat
      /\ y \in Seq(Char) /\ Len(y) = Len(buffer) + Len(pending)
  BY LenProperties, ConcatProperties DEF Inv, TypeOK
<1> DEFINE value == Values(mapping)
<1>r. /\ Replaceable(Char, Placeholder, value)
      /\ \A t : RestoredText(t, mapping) = Replacing(t, Placeholder, value, {}).out
      /\ \A p \in Placeholder : value[p] = ValueOf(mapping, p)
  BY <1>0, MappingReplaces, WhatIsRestored DEF Values
<1> HIDE DEF value
<1>c. ASSUME NEW n \in 1..Len(buffer),
             \A i \in 1..n : \A p \in Placeholder : ~StartsAt(y, i, p),
             UNCHANGED <<text, mapping, pending, delivered>>,
             buffer' = SubSeq(buffer, n + 1, Len(buffer)),
             out' = out \o SubSeq(buffer, 1, n)
      PROVE  NothingLost'
  <2> DEFINE v == SubSeq(buffer, 1, n)
             u == SubSeq(buffer, n + 1, Len(buffer))
             rest == u \o pending
  <2>1. n \in 0..Len(buffer) /\ n \in 0..Len(y)
    <3> HIDE DEF y
    <3>. QED  BY <1>0
  <2>2. v \in Seq(Char) /\ u \in Seq(Char)
    BY <1>0, <2>1, CutProperties
  <2>3. SubSeq(y, 1, n) = v /\ SubSeq(y, n + 1, Len(y)) = rest
    BY <1>0, <2>1, CutOfJoin
  <2>4. buffer' = u /\ out' = out \o v
    BY <1>c
  <2> HIDE DEF v, u
  <2>5. rest \in Seq(Char) /\ buffer' \o pending' = rest
    BY <1>0, <1>c, <2>2, <2>4, ConcatProperties
  <2>6. delivered' \o out' = (delivered \o out) \o v
    <3>1. delivered \in Seq(Char) /\ out \in Seq(Char) /\ delivered' = delivered
      BY <1>0, <1>c
    <3>2. delivered \o (out \o v) = (delivered \o out) \o v
      BY <2>2, <3>1, JoinIsAssociative
    <3>. QED  BY <2>4, <3>1, <3>2
  <2> HIDE DEF y, rest
  <2>7. \A i \in 1..n : ~FoundAt(y, i, Placeholder) /\ SubSeq(y, i, Len(y)) \notin {}
    BY <1>c DEF FoundAt
  <2>8. Replacing(y, Placeholder, value, {}).out
          = Joined(SubSeq(y, 1, n),
                   Replacing(SubSeq(y, n + 1, Len(y)), Placeholder, value, {}).out)
    <3>1. y \in Seq(Char) /\ n \in 0..Len(y) /\ Replaceable(Char, Placeholder, value)
      BY <1>0, <1>r, <2>1
    <3>. QED  BY <2>7, <3>1, ReplacingCopies
  <2>9. RestoredText(y, mapping) = v \o RestoredText(rest, mapping)
    BY <1>r, <2>3, <2>8 DEF Joined
  <2>10. text' = text /\ mapping' = mapping
    BY <1>c
  <2>11. RestoredText(buffer \o pending, mapping) = v \o RestoredText(rest, mapping)
    BY <2>9 DEF y
  <2>. QED  BY <2>2, <2>5, <2>6, <2>10, <2>11, TakenFromFront
<1>1. ASSUME NEW n \in 1..Len(pending), Push(n)
      PROVE  NothingLost'
  <2> DEFINE chunk == SubSeq(pending, 1, n)
             later == SubSeq(pending, n + 1, Len(pending))
  <2>1. chunk \in Seq(Char) /\ later \in Seq(Char) /\ chunk \o later = pending
    BY <1>0, CutProperties, CutAndJoin
  <2>2. pending' = later /\ text' = text /\ mapping' = mapping /\ out' = out
    BY <1>1 DEF Push
  <2>3. CASE Passthrough
    <3>1. buffer = << >> /\ out = << >> /\ buffer' = << >>
      BY <1>1, <2>3 DEF Push, Inv, Quiet, HeldBackOnlyIfUndecided
    <3>2. delivered' = delivered \o chunk
      BY <1>1, <2>3 DEF Push
    <3> HIDE DEF chunk, later
    <3>3. /\ << >> \o pending = pending /\ << >> \o later = later
          /\ delivered \o << >> = delivered
          /\ delivered \o chunk \in Seq(Char)
      BY <1>0, <2>1, ConcatEmptySeq, ConcatProperties
    <3>4. (delivered \o chunk) \o << >> = delivered \o chunk
      BY <3>3, ConcatEmptySeq
    <3>5. RestoredText(pending, mapping) = chunk \o RestoredText(later, mapping)
      BY <1>0, <2>1, <2>3, NothingToRestore
    <3>6. RestoredText(buffer \o pending, mapping) = chunk \o RestoredText(later, mapping)
      BY <3>1, <3>3, <3>5
    <3>7. buffer' \o pending' = later
      BY <2>2, <3>1, <3>3
    <3>8. delivered' \o out' = (delivered \o out) \o chunk
      BY <2>2, <3>1, <3>2, <3>3, <3>4
    <3>. QED  BY <2>1, <2>2, <3>6, <3>7, <3>8, TakenFromFront
  <2>4. CASE ~Passthrough
    <3>1. buffer' = buffer \o chunk /\ delivered' = delivered
      BY <1>1, <2>4 DEF Push
    <3> HIDE DEF chunk, later
    <3>2. buffer \o (chunk \o later) = (buffer \o chunk) \o later
      <4>1. buffer \in Seq(Char)
        BY <1>0
      <4>. QED  BY <2>1, <4>1, JoinIsAssociative
    <3>3. buffer' \o pending' = buffer \o pending
      BY <2>1, <2>2, <3>1, <3>2
    <3>. QED  BY <2>2, <3>1, <3>3 DEF NothingLost, Total
  <2>. QED  BY <2>3, <2>4
<1>2. ASSUME NEW n \in 1..Len(buffer), EmitPlain(n)
      PROVE  NothingLost'
  <2>1. \A i \in 1..n : \A p \in Placeholder : ~StartsAt(y, i, p)
    BY <1>2, NothingInPlain
  <2>2. /\ UNCHANGED <<text, mapping, pending, delivered>>
        /\ buffer' = SubSeq(buffer, n + 1, Len(buffer))
        /\ out' = out \o SubSeq(buffer, 1, n)
    BY <1>2 DEF EmitPlain
  <2>. QED  BY <1>c, <2>1, <2>2
<1>3. ASSUME NEW p \in Placeholder, EmitToken(p)
      PROVE  NothingLost'
  <2> DEFINE v == ValueOf(mapping, p)
             u == SubSeq(buffer, Len(p) + 1, Len(buffer))
             rest == u \o pending
  <2>1. StartsAt(y, 1, p) /\ Len(p) \in 1..Len(buffer) /\ Len(p) \in 0..Len(buffer)
    BY <1>0, <1>3, OccursInJoin DEF EmitToken, Matches
  <2>2. v \in Seq(Char) /\ u \in Seq(Char)
    BY <1>0, <2>1, CutProperties, ValueIsText
  <2>3. SubSeq(y, Len(p) + 1, Len(y)) = rest
    BY <1>0, <2>1, CutOfJoin
  <2>4. /\ buffer' = u /\ out' = out \o v
        /\ text' = text /\ mapping' = mapping /\ pending' = pending /\ delivered' = delivered
    BY <1>3 DEF EmitToken
  <2>5. value[p] = v
    BY <1>r
  <2> HIDE DEF v, u
  <2>6. rest \in Seq(Char) /\ buffer' \o pending' = rest
    BY <1>0, <2>2, <2>4, ConcatProperties
  <2>7. delivered' \o out' = (delivered \o out) \o v
    <3>1. delivered \in Seq(Char) /\ out \in Seq(Char)
      BY <1>0
    <3>2. delivered \o (out \o v) = (delivered \o out) \o v
      BY <2>2, <3>1, JoinIsAssociative
    <3>. QED  BY <2>4, <3>2
  <2> HIDE DEF y, rest
  <2>8. Replacing(y, Placeholder, value, {}).out
          = Joined(value[p],
                   Replacing(SubSeq(y, Len(p) + 1, Len(y)), Placeholder, value, {}).out)
    <3>1. /\ y \in Seq(Char) /\ StartsAt(y, 1, p)
          /\ Replaceable(Char, Placeholder, value)
      BY <1>0, <1>r, <2>1
    <3>. QED  BY <3>1, ReplacingMatch
  <2>9. RestoredText(y, mapping) = v \o RestoredText(rest, mapping)
    BY <1>r, <2>3, <2>5, <2>8 DEF Joined
  <2>10. RestoredText(buffer \o pending, mapping) = v \o RestoredText(rest, mapping)
    BY <2>9 DEF y
  <2>. QED  BY <2>2, <2>4, <2>6, <2>7, <2>10, TakenFromFront
<1>4. CASE EmitOpen
  <2>1. /\ 1 \in 1..Len(buffer)
        /\ \A i \in 1..1 : \A p \in Placeholder : ~StartsAt(y, i, p)
    BY <1>4, NothingAtOpen
  <2>2. /\ UNCHANGED <<text, mapping, pending, delivered>>
        /\ buffer' = SubSeq(buffer, 1 + 1, Len(buffer))
        /\ out' = out \o SubSeq(buffer, 1, 1)
    BY <1>4 DEF EmitOpen
  <2>. QED  BY <1>c, <2>1, <2>2
<1>5. CASE Return
  <2>1. delivered \o out \in Seq(Char)
    BY <1>0, ConcatProperties
  <2>2. (delivered \o out)' = delivered \o out
    BY <1>5, <2>1, ConcatEmptySeq DEF Return
  <2>3. UNCHANGED <<text, mapping, pending, buffer>>
    BY <1>5 DEF Return
  <2>. QED  BY <2>2, <2>3 DEF NothingLost, Total
<1>6. CASE Flush
  <2>1. out = << >> /\ out' = << >> /\ pending = << >> /\ pending' = << >> /\ buffer' = << >>
        /\ delivered' = delivered \o buffer /\ text' = text /\ mapping' = mapping
    BY <1>6 DEF Flush, Inv, Quiet
  <2>2. RestoredText(buffer, mapping) = buffer
    <3>1. CASE buffer = << >>
      <4>1. RestoredText(<< >>, mapping) = << >>
        BY <1>r, ReplacingNothing
      <4>. QED  BY <3>1, <4>1
    <3>2. CASE buffer # << >>
      <4>1. /\ \A i \in 2..Len(buffer) : buffer[i] # Open
            /\ \A p \in Placeholder : ~StartsAt(buffer, 1, p)
        BY <1>6, <3>2, PotentialAssumption
           DEF Flush, Inv, HeldBackOnlyIfUndecided, Undecided, OpensOnce, Matches
      <4>2. \A i \in 1..Len(buffer) : ~FoundAt(buffer, i, Placeholder)
        <5> SUFFICES ASSUME NEW i \in 1..Len(buffer), NEW p \in Placeholder,
                            StartsAt(buffer, i, p)
                     PROVE  FALSE
          BY DEF FoundAt
        <5>1. buffer[i] = Open
          BY <1>0, BeginsAtOpen
        <5>2. i = 1
          BY <1>0, <4>1, <5>1
        <5>. QED  BY <4>1, <5>2
      <4>. QED  BY <1>0, <1>r, <4>2, ReplacingNowhere
    <3>. QED  BY <3>1, <3>2
  <2>3. /\ buffer \o << >> = buffer /\ << >> \o << >> = << >>
        /\ delivered \o << >> = delivered /\ delivered \o buffer \in Seq(Char)
    BY <1>0, EmptySeq, ConcatEmptySeq, ConcatProperties
  <2>4. (delivered \o buffer) \o << >> = delivered \o buffer
    BY <2>3, ConcatEmptySeq
  <2>5. RestoredText(<< >>, mapping) = << >>
    BY <1>r, ReplacingNothing
  <2>6. Total = delivered \o buffer
    BY <2>1, <2>2, <2>3 DEF Total
  <2>7. Total' = delivered \o buffer
    BY <2>1, <2>3, <2>4, <2>5 DEF Total
  <2>. QED  BY <2>1, <2>6, <2>7 DEF NothingLost
<1>7. CASE UNCHANGED vars
  BY <1>7 DEF vars, NothingLost, Total
<1>. QED  BY <1>1, <1>2, <1>3, <1>4, <1>5, <1>6, <1>7 DEF Next

\* Chunking makes no difference: however the response is cut, and whatever the
\* mapping, the client has in the end what restore() makes of the whole text.
THEOREM ChunkingMakesNoDifference == Spec => []SameAsOneShotRestore
<1>1. Init => NothingLost
  <2> SUFFICES ASSUME Init PROVE NothingLost
    OBVIOUS
  <2>1. text \in Seq(Char) /\ << >> \in Seq(Char) /\ TypeOK
    BY StreamTextsAssumption, EmptySeq, InitInv DEF Init, Inv
  <2>2. << >> \o text = text /\ << >> \o << >> = << >>
    BY <2>1, ConcatEmptySeq
  <2>3. RestoredText(text, mapping) \in Seq(Char)
    BY <2>1, RestoredIsText
  <2>4. << >> \o RestoredText(text, mapping) = RestoredText(text, mapping)
    BY <2>3, ConcatEmptySeq
  <2>. QED  BY <2>2, <2>4 DEF Init, NothingLost, Total
<1>2. Inv /\ NothingLost /\ [Next]_vars => NothingLost'
  BY NextLosesNothing
<1>3. Inv /\ NothingLost => SameAsOneShotRestore
  <2> SUFFICES ASSUME Inv, NothingLost, pc = "closed"
               PROVE  delivered = RestoredText(text, mapping)
    BY DEF SameAsOneShotRestore
  <2>1. /\ out = << >> /\ pending = << >> /\ buffer = << >> /\ delivered \in Seq(Char)
        /\ TypeOK /\ << >> \in Seq(Char)
    BY EmptySeq DEF Inv, Quiet, TypeOK
  <2>2. RestoredText(<< >>, mapping) = << >>
    BY <2>1, MappingReplaces, ReplacingNothing, WhatIsRestored
  <2>3. delivered \o << >> = delivered /\ << >> \o << >> = << >>
    BY <2>1, ConcatEmptySeq
  <2>. QED  BY <2>1, <2>2, <2>3 DEF NothingLost, Total
<1>. QED  BY <1>1, <1>2, <1>3, Invariance, PTL DEF Spec

-----------------------------------------------------------------------------

\* A text that begins with another character is not held back.
LEMMA OpensUndecidable ==
    ASSUME NEW t, t \in Undecidable
    PROVE  Len(t) >= 1 /\ t[1] = Open
BY PotentialAssumption DEF Undecidable, OpensOnce

\* Every turn of push()'s loop takes a step of Pushed.
LEMMA TurnComputesPushed ==
    ASSUME Inv, pc = "scan", [Next]_vars
    PROVE  LET was == Pushed(buffer, mapping)
               now == Pushed(buffer', mapping')
           IN  IF pc' = "scan"
               THEN out' \o now.out = out \o was.out /\ now.held = was.held
               ELSE was = [out |-> << >>, held |-> buffer']
<1> DEFINE value == Values(mapping)
           R(t) == Replacing(t, Placeholder, value, Undecidable)
           was == Pushed(buffer, mapping)
           now == Pushed(buffer', mapping')
           Goal == IF pc' = "scan"
                   THEN out' \o now.out = out \o was.out /\ now.held = was.held
                   ELSE was = [out |-> << >>, held |-> buffer']
<1>0. /\ buffer \in Seq(Char) /\ out \in Seq(Char) /\ TypeOK /\ Len(buffer) \in Nat
      /\ Replaceable(Char, Placeholder, value)
      /\ \A p \in Placeholder : value[p] = ValueOf(mapping, p)
      /\ \A t : Pushed(t, mapping) = R(t)
  BY LenProperties, MappingReplaces DEF Inv, TypeOK, Values, Pushed
<1> HIDE DEF value
<1>1. ASSUME NEW v \in Seq(Char), NEW u \in Seq(Char),
             out' = out \o v, buffer' = u, mapping' = mapping, pc' = "scan",
             R(buffer).out = Joined(v, R(u).out), R(buffer).held = R(u).held
      PROVE  Goal
  <2>1. R(u).out \in Seq(Char)
    BY <1>0, ReplacingType
  <2> HIDE DEF R
  <2>2. was = R(buffer) /\ now = R(u)
    BY <1>0, <1>1
  <2>3. (out \o v) \o R(u).out = out \o (v \o R(u).out)
    <3> DEFINE a == R(u).out
    <3>1. out \in Seq(Char) /\ a \in Seq(Char)
      BY <1>0, <2>1
    <3> HIDE DEF a
    <3>2. (out \o v) \o a = out \o (v \o a)
      BY <3>1, JoinIsAssociative
    <3>. QED  BY <3>2 DEF a
  <2>4. R(buffer).out = v \o R(u).out
    BY <1>1 DEF Joined
  <2> HIDE DEF was, now
  <2>5. out' \o now.out = out \o was.out
    BY <1>1, <2>2, <2>3, <2>4
  <2>. QED  BY <1>1, <2>2, <2>5
<1>c. ASSUME NEW n \in 1..Len(buffer),
             \A i \in 1..n : /\ ~FoundAt(buffer, i, Placeholder)
                             /\ SubSeq(buffer, i, Len(buffer)) \notin Undecidable,
             out' = out \o SubSeq(buffer, 1, n),
             buffer' = SubSeq(buffer, n + 1, Len(buffer)),
             mapping' = mapping, pc' = "scan"
      PROVE  Goal
  <2> DEFINE v == SubSeq(buffer, 1, n)
             u == SubSeq(buffer, n + 1, Len(buffer))
  <2>1. n \in 0..Len(buffer)
    BY <1>0
  <2>2. v \in Seq(Char) /\ u \in Seq(Char)
    BY <1>0, <2>1, CutProperties
  <2>3. R(buffer).out = Joined(v, R(u).out) /\ R(buffer).held = R(u).held
    <3>1. buffer \in Seq(Char) /\ Replaceable(Char, Placeholder, value)
      BY <1>0
    <3>2. \A i \in 1..n : /\ ~FoundAt(buffer, i, Placeholder)
                           /\ SubSeq(buffer, i, Len(buffer)) \notin Undecidable
      BY <1>c
    <3> DEFINE w == Replacing(SubSeq(buffer, n + 1, Len(buffer)),
                              Placeholder, value, Undecidable)
    <3>3. Replacing(buffer, Placeholder, value, Undecidable).out
            = Joined(SubSeq(buffer, 1, n), w.out)
      BY <2>1, <3>1, <3>2, ReplacingCopies
    <3>4. Replacing(buffer, Placeholder, value, Undecidable).held = w.held
      BY <2>1, <3>1, <3>2, ReplacingCopies
    <3>. QED  BY <3>3, <3>4
  <2>4. out' = out \o v /\ buffer' = u
    BY <1>c
  <2> HIDE DEF R, v, u, Goal
  <2>. QED  BY <1>1, <1>c, <2>2, <2>3, <2>4
<1>2. ASSUME NEW n \in 1..Len(buffer), EmitPlain(n)
      PROVE  Goal
  <2>1. ASSUME NEW i \in 1..n
        PROVE  ~FoundAt(buffer, i, Placeholder) /\ SubSeq(buffer, i, Len(buffer)) \notin Undecidable
    <3>1. i \in 1..Len(buffer) /\ buffer[i] # Open
      BY <1>0, <1>2 DEF EmitPlain
    <3>2. ~FoundAt(buffer, i, Placeholder)
      BY <1>0, <3>1, BeginsAtOpen DEF FoundAt
    <3>3. SubSeq(buffer, i, Len(buffer))[1] = buffer[i]
      <4>1. /\ i - 1 \in 0..Len(buffer) /\ (i - 1) + 1 = i
            /\ 1 \in 1..(Len(buffer) - (i - 1))
        BY <1>0, <3>1
      <4>2. \A j \in 1..(Len(buffer) - (i - 1)) :
                SubSeq(buffer, (i - 1) + 1, Len(buffer))[j] = buffer[(i - 1) + j]
        BY <1>0, <4>1, CutProperties
      <4>. QED  BY <4>1, <4>2
    <3>. QED  BY <3>1, <3>2, <3>3, OpensUndecidable
  <2>2. /\ out' = out \o SubSeq(buffer, 1, n)
        /\ buffer' = SubSeq(buffer, n + 1, Len(buffer))
        /\ mapping' = mapping /\ pc' = "scan"
    BY <1>2 DEF EmitPlain
  <2> HIDE DEF Goal
  <2>. QED  BY <1>c, <2>1, <2>2
<1>3. ASSUME NEW p \in Placeholder, EmitToken(p)
      PROVE  Goal
  <2> DEFINE v == value[p]
             u == SubSeq(buffer, Len(p) + 1, Len(buffer))
  <2>1. StartsAt(buffer, 1, p) /\ p \in Seq(Char)
    BY <1>3, PlaceholderShape DEF EmitToken, Matches
  <2>2. v \in Seq(Char) /\ u \in Seq(Char)
    <3>1. Len(p) \in 0..Len(buffer)
      BY <1>0, <2>1, MatchIsFront
    <3>2. v = ValueOf(mapping, p)
      BY <1>0
    <3>3. v \in Seq(Char)
      BY <1>0, <3>2, ValueIsText
    <3>. QED  BY <1>0, <3>1, <3>3, CutProperties
  <2>3. R(buffer).out = Joined(v, R(u).out) /\ R(buffer).held = R(u).held
    <3>1. buffer \in Seq(Char) /\ Replaceable(Char, Placeholder, value)
      BY <1>0
    <3>. QED  BY <2>1, <3>1, ReplacingMatch
  <2>4. out' = out \o v /\ buffer' = u /\ mapping' = mapping /\ pc' = "scan"
    <3>1. v = ValueOf(mapping, p)
      BY <1>0
    <3> HIDE DEF v
    <3>. QED  BY <1>3, <3>1 DEF EmitToken
  <2> HIDE DEF R, v, u, Goal
  <2>. QED  BY <1>1, <2>2, <2>3, <2>4
<1>4. ASSUME EmitOpen
      PROVE  Goal
  <2>1. 1 \in 1..Len(buffer) /\ SubSeq(buffer, 1, Len(buffer)) = buffer
    BY <1>0, <1>4, NothingAtOpen, SubSeqFull
  <2>2. ~FoundAt(buffer, 1, Placeholder) /\ buffer \notin Undecidable
    BY <1>4 DEF EmitOpen, Matches, FoundAt, Undecided, Undecidable
  <2>3. \A i \in 1..1 : /\ ~FoundAt(buffer, i, Placeholder)
                        /\ SubSeq(buffer, i, Len(buffer)) \notin Undecidable
    <3> SUFFICES ASSUME NEW i \in 1..1
                 PROVE  /\ ~FoundAt(buffer, i, Placeholder)
                        /\ SubSeq(buffer, i, Len(buffer)) \notin Undecidable
      OBVIOUS
    <3>1. i = 1
      OBVIOUS
    <3>. QED  BY <2>1, <2>2, <3>1
  <2>4. /\ out' = out \o SubSeq(buffer, 1, 1)
        /\ buffer' = SubSeq(buffer, 1 + 1, Len(buffer))
        /\ mapping' = mapping /\ pc' = "scan"
    BY <1>4 DEF EmitOpen
  <2> HIDE DEF Goal
  <2>. QED  BY <1>c, <2>1, <2>3, <2>4
<1>5. ASSUME Return
      PROVE  Goal
  <2>1. pc' # "scan" /\ buffer' = buffer
    BY <1>5 DEF Return
  <2>2. R(buffer).out = << >> /\ R(buffer).held = buffer
    <3>1. CASE buffer = << >>
      BY <1>0, <3>1, ReplacingNothing
    <3>2. CASE buffer # << >>
      <4>1. /\ ~FoundAt(buffer, 1, Placeholder) /\ buffer \in Undecidable
            /\ buffer \in Seq(Char) /\ Replaceable(Char, Placeholder, value)
        BY <1>0, <1>5, <3>2 DEF Return, Matches, FoundAt, Undecided, Undecidable
      <4>. QED  BY <3>2, <4>1, ReplacingStops
    <3>. QED  BY <3>1, <3>2
  <2>3. R(buffer) = [out |-> R(buffer).out, held |-> R(buffer).held]
    BY DEF Replacing
  <2>4. was = R(buffer)
    BY <1>0
  <2> HIDE DEF R, was
  <2>5. was = [out |-> << >>, held |-> buffer']
    BY <2>1, <2>2, <2>3, <2>4
  <2>. QED  BY <2>1, <2>5
<1>6. ASSUME UNCHANGED vars
      PROVE  Goal
  <2>1. buffer' = buffer /\ mapping' = mapping /\ out' = out /\ pc' = pc
    BY <1>6 DEF vars
  <2>2. now = was
    BY <2>1
  <2> HIDE DEF now, was
  <2>. QED  BY <2>1, <2>2
<1>7. (\A n \in 1..Len(pending) : ~Push(n)) /\ ~Flush
  BY DEF Push, Flush
<1>8. Goal
  <2> HIDE DEF Goal
  <2>. QED  BY <1>2, <1>3, <1>4, <1>5, <1>6, <1>7 DEF Next
<1>. QED  BY <1>8

\* push() as the loop computes it is Pushed: no turn changes what is still to come
\* out of the buffer, or what will be held back of it.
THEOREM LoopComputesPushed == Spec => ScanComputesPushed
<1>1. Inv /\ [Next]_vars =>
        (pc = "scan" =>
           LET was == Pushed(buffer, mapping)
               now == Pushed(buffer', mapping')
           IN  IF pc' = "scan"
               THEN out' \o now.out = out \o was.out /\ now.held = was.held
               ELSE was = [out |-> << >>, held |-> buffer'])
  BY TurnComputesPushed
<1>. QED  BY <1>1, Invariance, PTL DEF Spec, ScanComputesPushed

=============================================================================
