----------------------------- MODULE Scan_proofs -----------------------------
(***************************************************************************)
(* What is proved of scan(): of detect_l1, for every text, keyword and     *)
(* window; of merge(), for every list of detections and every policy; and  *)
(* of the two together.                                                    *)
(*                                                                         *)
(* The characters around a match, put together with a blank between the    *)
(* sides, have a keyword exactly if one stands on one side, within the     *)
(* window; and a match that needs a context is reported exactly in that    *)
(* case.  The loop of merge() keeps what the preference rule names.        *)
(***************************************************************************)
EXTENDS DetectL1, Engine, Lemmas


\* Match i of rule e has been gone through.
Passed(e, i) == \E r \in 1..Len(Rules) :
                    Rules[r] = e /\ (r < turn \/ (r = turn /\ i < next))

Reported(e, m) == \E d \in DOMAIN out : out[d] = DetectionOf(e, m)

ContextSoFar ==
    \A e \in ContextEntity : \A i \in 1..Len(input.matches[e]) :
        Reported(e, input.matches[e][i])
            <=> Passed(e, i) /\ HasContext(input.text, input.matches[e][i], e)

IInv == TypeOK /\ ContextSoFar

\* Fifteen expressions, each once.
LEMMA RulesAreDistinct ==
    /\ Len(Rules) = 15
    /\ \A r \in 1..15 : Rules[r] \in Rule
    /\ \A r, s \in 1..15 : Rules[r] = Rules[s] => r = s
    /\ \A e \in ContextEntity : \E r \in 1..15 : Rules[r] = e
  <1>1. Len(Rules) = 15
    BY DEF Rules
  <1>2. /\ Rules[1] = "RRN" /\ Rules[2] = "CARD" /\ Rules[3] = "MOBILE"
        /\ Rules[4] = "LANDLINE" /\ Rules[5] = "EMAIL" /\ Rules[6] = "DRIVER_LICENSE"
        /\ Rules[7] = "PASSPORT" /\ Rules[8] = "BANK_ACCOUNT" /\ Rules[9] = "BRN"
        /\ Rules[10] = "SK" /\ Rules[11] = "AKIA" /\ Rules[12] = "GHP"
        /\ Rules[13] = "XOX" /\ Rules[14] = "AIZA" /\ Rules[15] = "PRIVATE_KEY"
    BY DEF Rules
  <1>3. \A r \in 1..15 : \/ r = 1 \/ r = 2 \/ r = 3 \/ r = 4 \/ r = 5
                         \/ r = 6 \/ r = 7 \/ r = 8 \/ r = 9 \/ r = 10
                         \/ r = 11 \/ r = 12 \/ r = 13 \/ r = 14 \/ r = 15
    OBVIOUS
  <1>4. \A r \in 1..15 : Rules[r] \in Rule
    BY <1>2, <1>3 DEF Rule, Credential
  <1>5. \A r, s \in 1..15 : Rules[r] = Rules[s] => r = s
    BY <1>2, <1>3
  <1>6. \A e \in ContextEntity : \E r \in 1..15 : Rules[r] = e
    BY <1>2 DEF ContextEntity
  <1> QED
    BY <1>1, <1>4, <1>5, <1>6

\* No other rule reports the entity of a rule that needs a context.
LEMMA ContextEntityIsItsOwn ==
    /\ ContextEntity \subseteq Rule
    /\ \A rule \in Rule, e \in ContextEntity : EntityOf(rule) = EntityOf(e) => rule = e
  BY DEF Rule, Credential, ContextEntity, EntityOf

-----------------------------------------------------------------------------

\* A slice [lo:hi] of a text.
LEMMA SliceProperties ==
    ASSUME NEW S, NEW s \in Seq(S), NEW lo \in Nat, NEW hi \in Nat, lo <= hi, hi <= Len(s)
    PROVE  /\ SubSeq(s, lo + 1, hi) \in Seq(S)
           /\ Len(SubSeq(s, lo + 1, hi)) = hi - lo
           /\ \A i \in 1..(hi - lo) : SubSeq(s, lo + 1, hi)[i] = s[lo + i]
  <1>1. lo + 1 \in Int /\ hi \in Int /\ Len(s) \in Nat
    BY LenProperties
  <1>2. \A i \in (lo + 1)..hi : s[i] \in S
    BY <1>1, ElementOfSeq
  <1>3. /\ SubSeq(s, lo + 1, hi) \in Seq(S)
        /\ Len(SubSeq(s, lo + 1, hi)) = IF lo + 1 <= hi THEN hi - (lo + 1) + 1 ELSE 0
        /\ \A i \in 1..(hi - (lo + 1) + 1) :
               SubSeq(s, lo + 1, hi)[i] = s[lo + 1 + i - 1]
    BY <1>1, <1>2, SubSeqProperties
  <1>4. hi - (lo + 1) + 1 = hi - lo /\ (~(lo + 1 <= hi) => hi - lo = 0)
    BY <1>1
  <1>5. \A i \in 1..(hi - lo) : lo + 1 + i - 1 = lo + i
    BY <1>1
  <1> QED
    BY <1>3, <1>4, <1>5

\* Two texts with one character between them.
LEMMA JoinedWith ==
    ASSUME NEW A \in Seq(Char), NEW B \in Seq(Char), NEW x \in Char
    PROVE  LET h == A \o <<x>> \o B
           IN  /\ Len(h) = Len(A) + 1 + Len(B)
               /\ \A i \in 1..Len(A) : h[i] = A[i]
               /\ h[Len(A) + 1] = x
               /\ \A i \in 1..Len(B) : h[Len(A) + 1 + i] = B[i]
  <1>1. <<x>> \in Seq(Char) /\ Len(<<x>>) = 1 /\ <<x>>[1] = x
    OBVIOUS
  <1> DEFINE C == A \o <<x>>
  <1>2. /\ C \in Seq(Char) /\ Len(C) = Len(A) + 1 /\ Len(A) \in Nat /\ Len(B) \in Nat
        /\ \A i \in 1..(Len(A) + 1) :
              C[i] = IF i <= Len(A) THEN A[i] ELSE <<x>>[i - Len(A)]
    BY <1>1, ConcatProperties, LenProperties
  <1>3. (\A i \in 1..Len(A) : C[i] = A[i]) /\ C[Len(A) + 1] = x
    BY <1>1, <1>2
  <1> HIDE DEF C
  <1>4. /\ Len(C \o B) = Len(C) + Len(B)
        /\ \A i \in 1..(Len(C) + Len(B)) :
              (C \o B)[i] = IF i <= Len(C) THEN C[i] ELSE B[i - Len(C)]
    <2>1. C \in Seq(Char)
      BY <1>2
    <2> QED
      BY <2>1, ConcatProperties
  <1>5. \A i \in 1..Len(B) : /\ Len(A) + 1 + i \in 1..(Len(C) + Len(B))
                             /\ ~(Len(A) + 1 + i <= Len(C))
                             /\ Len(A) + 1 + i - Len(C) = i
    BY <1>2
  <1>6. \A i \in 1..(Len(A) + 1) : i \in 1..(Len(C) + Len(B)) /\ i <= Len(C)
    BY <1>2
  <1>7. /\ Len(C \o B) = Len(A) + 1 + Len(B)
        /\ \A i \in 1..Len(A) : (C \o B)[i] = A[i]
        /\ (C \o B)[Len(A) + 1] = x
        /\ \A i \in 1..Len(B) : (C \o B)[Len(A) + 1 + i] = B[i]
    BY <1>2, <1>3, <1>4, <1>5, <1>6
  <1> QED
    BY <1>7 DEF C

\* Where the characters of the haystack come from: a from before the match,
\* the blank, b from behind it.
LEMMA HaystackIndex ==
    ASSUME NEW text \in Seq(Char), NEW m \in Match,
           m.start < m.end, m.end <= Len(text)
    PROVE  \E a, b \in Nat :
             LET h == Haystack(text, m)
             IN  /\ a <= m.start /\ a <= Window /\ m.end + b <= Len(text) /\ b <= Window
                 /\ a = m.start \/ a = Window
                 /\ m.end + b = Len(text) \/ b = Window
                 /\ Len(h) = a + 1 + b
                 /\ \A i \in 1..a : h[i] = text[m.start - a + i]
                 /\ h[a + 1] = Space
                 /\ \A i \in 1..b : h[a + 1 + i] = text[m.end + i]
  <1> DEFINE lo == Max0(m.start - Window)
             hi == AtMost(m.end + Window, Len(text))
             A  == SubSeq(text, lo + 1, m.start)
             B  == SubSeq(text, m.end + 1, hi)
  <1>1. m.start \in Nat /\ m.end \in Nat /\ Len(text) \in Nat /\ Window \in Nat
    BY WindowAssumption, LenProperties DEF Match
  <1>2. /\ lo \in Nat /\ lo <= m.start /\ m.start - lo <= Window
        /\ lo = 0 \/ m.start - lo = Window
        /\ hi \in Nat /\ m.end <= hi /\ hi <= Len(text) /\ hi - m.end <= Window
        /\ hi = Len(text) \/ hi - m.end = Window
    BY <1>1 DEF Max0, AtMost
  <1> HIDE DEF lo, hi
  <1>3. /\ A \in Seq(Char) /\ Len(A) = m.start - lo
        /\ \A i \in 1..(m.start - lo) : A[i] = text[lo + i]
    BY <1>1, <1>2, SliceProperties
  <1>4. /\ B \in Seq(Char) /\ Len(B) = hi - m.end
        /\ \A i \in 1..(hi - m.end) : B[i] = text[m.end + i]
    BY <1>1, <1>2, SliceProperties
  <1>5. Haystack(text, m) = A \o <<Space>> \o B
    BY DEF Haystack, lo, hi
  <1> HIDE DEF A, B
  <1>6. LET h == Haystack(text, m)
        IN  /\ Len(h) = Len(A) + 1 + Len(B)
            /\ \A i \in 1..Len(A) : h[i] = A[i]
            /\ h[Len(A) + 1] = Space
            /\ \A i \in 1..Len(B) : h[Len(A) + 1 + i] = B[i]
    <2>1. A \in Seq(Char) /\ B \in Seq(Char) /\ Space \in Char
      BY <1>3, <1>4, LowerAssumption
    <2>2. LET h == A \o <<Space>> \o B
          IN  /\ Len(h) = Len(A) + 1 + Len(B)
              /\ \A i \in 1..Len(A) : h[i] = A[i]
              /\ h[Len(A) + 1] = Space
              /\ \A i \in 1..Len(B) : h[Len(A) + 1 + i] = B[i]
      BY <2>1, JoinedWith
    <2> QED
      BY <1>5, <2>2
  <1>7. Len(A) \in Nat /\ Len(B) \in Nat /\ m.start - Len(A) = lo
    BY <1>1, <1>2, <1>3, <1>4
  <1>8. /\ Len(A) <= m.start /\ Len(A) <= Window
        /\ m.end + Len(B) <= Len(text) /\ Len(B) <= Window
        /\ Len(A) = m.start \/ Len(A) = Window
        /\ m.end + Len(B) = Len(text) \/ Len(B) = Window
    BY <1>1, <1>2, <1>3, <1>4
  <1> WITNESS Len(A) \in Nat, Len(B) \in Nat
  <1> QED
    BY <1>3, <1>4, <1>6, <1>7, <1>8

\* The blank keeps the two sides apart: a keyword has none.
LEMMA OccursIffBeside ==
    ASSUME NEW text \in Seq(Char), NEW m \in Match,
           m.start < m.end, m.end <= Len(text),
           NEW k \in Seq(Char), k # << >>,
           \A j \in DOMAIN k : Lower[k[j]] # Lower[Space]
    PROVE  OccursIn(k, Haystack(text, m)) <=> Beside(k, text, m)
  <1> DEFINE h == Haystack(text, m)
             s == m.start
             e == m.end
             n == Len(text)
             w == Len(k)
  <1>1. PICK a \in Nat, b \in Nat :
             /\ a <= s /\ a <= Window /\ e + b <= n /\ b <= Window
             /\ a = s \/ a = Window
             /\ e + b = n \/ b = Window
             /\ Len(h) = a + 1 + b
             /\ \A i \in 1..a : h[i] = text[s - a + i]
             /\ h[a + 1] = Space
             /\ \A i \in 1..b : h[a + 1 + i] = text[e + i]
    BY HaystackIndex
  <1>2. /\ s \in Nat /\ e \in Nat /\ n \in Nat /\ s < e /\ e <= n /\ Window \in Nat
        /\ w \in Nat /\ w >= 1 /\ DOMAIN k = 1..w
    BY WindowAssumption, LenProperties, EmptySeq DEF Match
  <1>3. \A j \in 1..w : Lower[k[j]] # Lower[Space]
    BY <1>2
  <1>4. /\ OccursIn(k, h) <=> \E i \in 0..(Len(h) - w) :
                                 \A j \in 1..w : Lower[h[i + j]] = Lower[k[j]]
        /\ Beside(k, text, m) <=>
              \E i \in 0..(n - w) :
                  /\ \A j \in 1..w : Lower[text[i + j]] = Lower[k[j]]
                  /\ \/ s - Window <= i /\ i + w <= s
                     \/ e <= i /\ i + w <= e + Window
    BY DEF OccursIn, Beside
  <1> HIDE DEF h, s, e, n, w
  <1>5. ASSUME NEW i \in 0..(Len(h) - w),
               \A j \in 1..w : Lower[h[i + j]] = Lower[k[j]]
        PROVE  \E p \in 0..(n - w) :
                  /\ \A j \in 1..w : Lower[text[p + j]] = Lower[k[j]]
                  /\ \/ s - Window <= p /\ p + w <= s
                     \/ e <= p /\ p + w <= e + Window
    <2>1. i \in Nat /\ i + w <= a + 1 + b
      BY <1>1, <1>2, <1>5
    <2>2. i + w <= a \/ a + 1 <= i
      <3> SUFFICES ASSUME a < i + w, i < a + 1 PROVE FALSE
        BY <1>1, <1>2, <2>1
      <3>1. a + 1 - i \in 1..w /\ i + (a + 1 - i) = a + 1
        BY <1>1, <1>2, <2>1
      <3> QED
        BY <1>1, <1>3, <1>5, <3>1
    <2>3. CASE i + w <= a
      <3>1. \A j \in 1..w : i + j \in 1..a /\ s - a + (i + j) = s - a + i + j
        BY <1>1, <1>2, <2>1, <2>3
      <3>2. s - a + i \in 0..(n - w) /\ s - Window <= s - a + i /\ s - a + i + w <= s
        BY <1>1, <1>2, <2>1, <2>3
      <3>3. \A j \in 1..w : Lower[text[s - a + i + j]] = Lower[k[j]]
        BY <1>1, <1>5, <3>1
      <3> QED
        BY <3>2, <3>3
    <2>4. CASE a + 1 <= i
      <3> DEFINE c == i - a - 1
      <3>1. \A j \in 1..w : /\ c + j \in 1..b /\ a + 1 + (c + j) = i + j
                            /\ e + c + j = e + (c + j)
        BY <1>1, <1>2, <2>1, <2>4
      <3>2. e + c \in 0..(n - w) /\ e <= e + c /\ e + c + w <= e + Window
        BY <1>1, <1>2, <2>1, <2>4
      <3> HIDE DEF c
      <3>3. \A j \in 1..w : h[a + 1 + (c + j)] = text[e + (c + j)]
        BY <1>1, <3>1
      <3>4. \A j \in 1..w : h[i + j] = text[e + c + j]
        BY <3>1, <3>3
      <3> QED
        BY <1>5, <3>2, <3>4
    <2> QED
      BY <2>2, <2>3, <2>4
  <1>6. ASSUME NEW p \in 0..(n - w),
               \A j \in 1..w : Lower[text[p + j]] = Lower[k[j]],
               \/ s - Window <= p /\ p + w <= s
               \/ e <= p /\ p + w <= e + Window
        PROVE  \E i \in 0..(Len(h) - w) :
                  \A j \in 1..w : Lower[h[i + j]] = Lower[k[j]]
    <2>1. p \in Nat /\ p + w <= n
      BY <1>2, <1>6
    <2>2. CASE s - Window <= p /\ p + w <= s
      <3> DEFINE i == p - (s - a)
      <3>1. i \in 0..(Len(h) - w)
        BY <1>1, <1>2, <2>1, <2>2
      <3>2. \A j \in 1..w : i + j \in 1..a /\ s - a + (i + j) = p + j
        BY <1>1, <1>2, <2>1, <2>2
      <3> HIDE DEF i
      <3>3. \A j \in 1..w : Lower[h[i + j]] = Lower[k[j]]
        BY <1>1, <1>6, <3>2
      <3> QED
        BY <3>1, <3>3
    <2>3. CASE e <= p /\ p + w <= e + Window
      <3> DEFINE i == a + 1 + (p - e)
      <3>1. i \in 0..(Len(h) - w)
        BY <1>1, <1>2, <2>1, <2>3
      <3>2. \A j \in 1..w : /\ (p - e) + j \in 1..b
                            /\ a + 1 + ((p - e) + j) = i + j
                            /\ e + ((p - e) + j) = p + j
        BY <1>1, <1>2, <2>1, <2>3
      <3> HIDE DEF i
      <3>3. \A j \in 1..w : h[a + 1 + ((p - e) + j)] = text[e + ((p - e) + j)]
        BY <1>1, <3>2
      <3>4. \A j \in 1..w : h[i + j] = text[p + j]
        BY <3>2, <3>3
      <3> QED
        BY <1>6, <3>1, <3>4
    <2> QED
      BY <1>6, <2>2, <2>3
  <1>7. OccursIn(k, h) <=> Beside(k, text, m)
    BY <1>4, <1>5, <1>6
  <1> QED
    BY <1>7 DEF h

\* Of a keyword list.
LEMMA ContextIffBeside ==
    ASSUME NEW text \in Seq(Char), NEW m \in Match,
           m.start < m.end, m.end <= Len(text), NEW en \in ContextEntity
    PROVE  HasContext(text, m, en) <=> \E k \in Keywords[en] : Beside(k, text, m)
  <1>1. \A k \in Keywords[en] :
            /\ k \in Seq(Char) /\ k # << >>
            /\ \A j \in DOMAIN k : Lower[k[j]] # Lower[Space]
    BY KeywordsAssumption
  <1>2. \A k \in Keywords[en] : OccursIn(k, Haystack(text, m)) <=> Beside(k, text, m)
    BY <1>1, OccursIffBeside
  <1> QED
    BY <1>2 DEF HasContext

-----------------------------------------------------------------------------

\* What is known of a match of the input.
LEMMA MatchProperties ==
    ASSUME WellFormed(input), NEW rule \in Rule, NEW i \in 1..Len(input.matches[rule])
    PROVE  LET m == input.matches[rule][i]
           IN  /\ m \in Match /\ m.start < m.end /\ m.end <= Len(input.text)
               /\ \A j \in 1..Len(input.matches[rule]) :
                      input.matches[rule][j].start = m.start => i = j
  <1> DEFINE M == input.matches[rule]
  <1>1. M \in Seq(Match) /\ DOMAIN M = 1..Len(M) /\ Len(M) \in Nat
    BY LenProperties DEF WellFormed
  <1>2. \A j \in 1..Len(M) : M[j] \in Match
    BY <1>1, ElementOfSeq
  <1>3. \A j \in 1..Len(M) : /\ M[j].start < M[j].end /\ M[j].end <= Len(input.text)
                             /\ \A l \in 1..(j - 1) : M[l].end <= M[j].start
    BY <1>1 DEF WellFormed
  <1>4. \A j, l \in 1..Len(M) : l < j => M[l].start < M[j].start
    <2> SUFFICES ASSUME NEW j \in 1..Len(M), NEW l \in 1..Len(M), l < j
                 PROVE  M[l].start < M[j].start
      OBVIOUS
    <2>1. l \in 1..(j - 1)
      BY <1>1
    <2>2. M[l].end <= M[j].start /\ M[l].start < M[l].end
      BY <1>3, <2>1
    <2>3. M[l].start \in Nat /\ M[l].end \in Nat /\ M[j].start \in Nat
      BY <1>2 DEF Match
    <2> QED
      BY <2>2, <2>3
  <1>5. \A j \in 1..Len(M) : M[j].start \in Nat
    BY <1>2 DEF Match
  <1>6. \A j \in 1..Len(M) : M[j].start = M[i].start => i = j
    BY <1>1, <1>4, <1>5
  <1> QED
    BY <1>2, <1>3, <1>6

\* A match, reported, is a detection.
LEMMA DetectionType ==
    ASSUME NEW rule \in Rule, NEW m \in Match PROVE DetectionOf(rule, m) \in Detection
  BY EntityAssumption DEF DetectionOf, Detection, Match

\* Every step keeps the types.
LEMMA NextType == TypeOK /\ [Next]_vars => TypeOK'
  <1> SUFFICES ASSUME TypeOK, [Next]_vars PROVE TypeOK'
    OBVIOUS
  <1>0. /\ turn \in 1..(Len(Rules) + 1) /\ next \in Nat \ {0} /\ out \in Seq(Detection)
        /\ WellFormed(input) /\ Len(Rules) = 15
    BY RulesAreDistinct DEF TypeOK
  <1>1. CASE Consider
    <2>1. turn \in 1..15 /\ Rules[turn] \in Rule /\ next \in 1..Len(Matches)
      BY <1>0, <1>1, RulesAreDistinct DEF Consider
    <2>2. Matches[next] \in Match
      BY <1>0, <2>1, MatchProperties DEF Matches
    <2>3. DetectionOf(Rules[turn], Matches[next]) \in Detection
      BY <2>1, <2>2, DetectionType
    <2>4. out' \in Seq(Detection)
      BY <1>0, <1>1, <2>3 DEF Consider
    <2>5. /\ UNCHANGED <<input, turn, Matches>> /\ next' = next + 1
      BY <1>1 DEF Consider, Matches
    <2>6. Len(Matches) \in Nat
      BY <1>0, <2>1, LenProperties DEF Matches, WellFormed
    <2> QED
      BY <1>0, <2>1, <2>4, <2>5, <2>6 DEF TypeOK, WellFormed
  <1>2. CASE NextRule
    <2>1. turn' = turn + 1 /\ next' = 1 /\ UNCHANGED <<input, out>> /\ turn <= 15
      BY <1>0, <1>2 DEF NextRule
    <2>2. turn' \in 1..16
      BY <1>0, <2>1
    <2>3. turn' <= 15 => 1 <= Len(Matches)' + 1
      <3> SUFFICES ASSUME turn' <= 15 PROVE 1 <= Len(Matches)' + 1
        OBVIOUS
      <3>1. Rules[turn'] \in Rule /\ Matches' = input.matches[Rules[turn']]
        BY <2>1, <2>2, RulesAreDistinct DEF Matches
      <3>2. Len(input.matches[Rules[turn']]) \in Nat
        BY <1>0, <3>1, LenProperties DEF WellFormed
      <3> QED
        BY <3>1, <3>2
    <2>4. WellFormed(input)'
      BY <1>0, <2>1 DEF WellFormed
    <2> QED
      BY <1>0, <2>1, <2>2, <2>3, <2>4 DEF TypeOK
  <1>3. CASE UNCHANGED vars
    BY <1>3 DEF vars, TypeOK, WellFormed, Matches
  <1> QED
    BY <1>1, <1>2, <1>3 DEF Next

\* The context of a match only depends on the input.
LEMMA SameInputSameContext ==
    ASSUME input' = input, NEW e, NEW i
    PROVE  HasContext(input.text, input.matches[e][i], e)'
             <=> HasContext(input.text, input.matches[e][i], e)
  BY DEF HasContext, OccursIn, Haystack, Max0, AtMost

\* Every step keeps what has been reported in line with what has been passed.
LEMMA NextContext == TypeOK /\ ContextSoFar /\ [Next]_vars => ContextSoFar'
  <1> SUFFICES ASSUME TypeOK, ContextSoFar, [Next]_vars PROVE ContextSoFar'
    OBVIOUS
  <1>0. /\ turn \in 1..(Len(Rules) + 1) /\ next \in Nat \ {0} /\ out \in Seq(Detection)
        /\ WellFormed(input) /\ Len(Rules) = 15
        /\ turn <= 15 => next <= Len(Matches) + 1
    BY RulesAreDistinct DEF TypeOK
  <1>1. CASE Consider
    <2> DEFINE rule == Rules[turn]
               m == Matches[next]
               ok == Confirmed(rule, input.text, m)
    <2>1. turn \in 1..15 /\ rule \in Rule /\ next \in 1..Len(Matches) /\ next \in Nat
      BY <1>0, <1>1, RulesAreDistinct DEF Consider
    <2>2. /\ m \in Match /\ m = input.matches[rule][next]
          /\ next \in 1..Len(input.matches[rule])
      BY <1>0, <2>1, MatchProperties DEF Matches
    <2>3. /\ out' = IF ok THEN Append(out, DetectionOf(rule, m)) ELSE out
          /\ next' = next + 1 /\ UNCHANGED <<input, turn>>
      BY <1>1 DEF Consider
    <2> HIDE DEF m, rule, ok
    <2> SUFFICES ASSUME NEW e \in ContextEntity, NEW i \in 1..Len(input.matches[e])
                 PROVE  LET mi == input.matches[e][i]
                        IN  Reported(e, mi)' <=> Passed(e, i)' /\ HasContext(input.text, mi, e)
      BY <2>3, SameInputSameContext DEF ContextSoFar
    <2> DEFINE mi == input.matches[e][i]
    <2>4. Reported(e, mi) <=> Passed(e, i) /\ HasContext(input.text, mi, e)
      BY DEF ContextSoFar
    <2>5. Reported(e, mi)' <=> Reported(e, mi) \/ (ok /\ DetectionOf(rule, m) = DetectionOf(e, mi))
      <3>1. CASE ok
        <4>1. /\ Len(out') = Len(out) + 1 /\ Len(out) \in Nat
              /\ \A d \in 1..Len(out) : out'[d] = out[d]
              /\ out'[Len(out) + 1] = DetectionOf(rule, m)
              /\ DOMAIN out' = 1..(Len(out) + 1) /\ DOMAIN out = 1..Len(out)
          <5>1. DetectionOf(rule, m) \in Detection
            BY <2>1, <2>2, DetectionType
          <5> QED
            BY <1>0, <2>3, <3>1, <5>1, AppendProperties, LenProperties
        <4> QED
          BY <2>3, <3>1, <4>1 DEF Reported, DetectionOf
      <3>2. CASE ~ok
        BY <2>3, <3>2 DEF Reported, DetectionOf
      <3> QED
        BY <3>1, <3>2
    <2>6. DetectionOf(rule, m) = DetectionOf(e, mi) <=> rule = e /\ i = next
      <3>1. ASSUME DetectionOf(rule, m) = DetectionOf(e, mi) PROVE rule = e /\ i = next
        <4>1. EntityOf(rule) = EntityOf(e) /\ m.start = mi.start
          BY <3>1 DEF DetectionOf
        <4>2. rule = e
          BY <2>1, <4>1, ContextEntityIsItsOwn
        <4>3. e \in Rule
          BY ContextEntityIsItsOwn
        <4> QED
          BY <1>0, <2>2, <4>1, <4>2, <4>3, MatchProperties
      <3>2. ASSUME rule = e, i = next PROVE DetectionOf(rule, m) = DetectionOf(e, mi)
        BY <2>2, <3>2
      <3> QED
        BY <3>1, <3>2
    <2>7. Passed(e, i)' <=> Passed(e, i) \/ (rule = e /\ i = next)
      <3>1. Passed(e, i)' <=> \E r \in 1..15 :
                Rules[r] = e /\ (r < turn \/ (r = turn /\ i < next + 1))
        BY <1>0, <2>3 DEF Passed
      <3>2. Passed(e, i) <=> \E r \in 1..15 :
                Rules[r] = e /\ (r < turn \/ (r = turn /\ i < next))
        BY <1>0 DEF Passed
      <3>3. i \in Int
        OBVIOUS
      <3> QED
        BY <2>1, <3>1, <3>2, <3>3 DEF rule
    <2>8. rule = e /\ i = next => (ok <=> HasContext(input.text, mi, e))
      <3> SUFFICES ASSUME rule = e, i = next PROVE ok <=> HasContext(input.text, mi, e)
        OBVIOUS
      <3>1. e # "RRN" /\ e # "CARD" /\ e # "BRN" /\ m = mi
        BY <2>2 DEF ContextEntity
      <3> QED
        BY <3>1 DEF ok, Confirmed
    <2> QED
      BY <2>4, <2>5, <2>6, <2>7, <2>8
  <1>2. CASE NextRule
    <2>1. /\ turn' = turn + 1 /\ next' = 1 /\ UNCHANGED <<input, out>>
          /\ turn \in 1..15 /\ next > Len(Matches)
      BY <1>0, <1>2 DEF NextRule
    <2> SUFFICES ASSUME NEW e \in ContextEntity, NEW i \in 1..Len(input.matches[e])
                 PROVE  Passed(e, i)' <=> Passed(e, i)
      BY <2>1, SameInputSameContext DEF ContextSoFar, Reported, DetectionOf, EntityOf
    <2>2. Passed(e, i)' <=> \E r \in 1..15 :
              Rules[r] = e /\ (r < turn + 1 \/ (r = turn + 1 /\ i < 1))
      BY <1>0, <2>1 DEF Passed
    <2>3. Passed(e, i) <=> \E r \in 1..15 :
              Rules[r] = e /\ (r < turn \/ (r = turn /\ i < next))
      BY <1>0 DEF Passed
    <2>4. Rules[turn] = e => i < next
      <3>1. e \in Rule /\ Len(input.matches[e]) \in Nat
        BY <1>0, ContextEntityIsItsOwn, LenProperties DEF WellFormed
      <3> QED
        BY <1>0, <2>1, <3>1 DEF Matches
    <2>5. \A r \in 1..15 : Rules[r] = e =>
              ((r < turn + 1 \/ (r = turn + 1 /\ i < 1)) <=> (r < turn \/ (r = turn /\ i < next)))
      <3> SUFFICES ASSUME NEW r \in 1..15, Rules[r] = e
                   PROVE  (r < turn + 1 \/ (r = turn + 1 /\ i < 1))
                            <=> (r < turn \/ (r = turn /\ i < next))
        OBVIOUS
      <3>1. ~(i < 1)
        OBVIOUS
      <3>2. r = turn => i < next
        BY <2>4
      <3> QED
        BY <2>1, <3>1, <3>2
    <2> QED
      BY <2>2, <2>3, <2>5
  <1>3. CASE UNCHANGED vars
    BY <1>3, SameInputSameContext DEF vars, ContextSoFar, Reported, Passed, DetectionOf, EntityOf
  <1> QED
    BY <1>1, <1>2, <1>3 DEF Next

\* Nothing has been passed or reported at first.
LEMMA InitInv == Init => IInv
  <1> SUFFICES ASSUME Init PROVE IInv
    OBVIOUS
  <1>1. /\ input \in Inputs /\ turn = 1 /\ next = 1 /\ out = << >> /\ Len(Rules) = 15
        /\ Rules[1] \in Rule
    BY RulesAreDistinct DEF Init
  <1>2. WellFormed(input)
    BY <1>1, InputsAssumption
  <1>3. Len(Matches) \in Nat
    BY <1>1, <1>2, LenProperties DEF WellFormed, Matches
  <1>4. TypeOK
    BY <1>1, <1>2, <1>3 DEF TypeOK
  <1>5. ASSUME NEW e \in ContextEntity, NEW i \in 1..Len(input.matches[e])
        PROVE  ~Passed(e, i) /\ ~Reported(e, input.matches[e][i])
    BY <1>1 DEF Passed, Reported
  <1> QED
    BY <1>4, <1>5 DEF IInv, ContextSoFar

\* In every reachable state what has been reported is in line with what has
\* been passed.
THEOREM Invariance == Spec => []IInv
  <1>1. IInv /\ [Next]_vars => IInv'
    BY NextType, NextContext DEF IInv
  <1> QED
    BY <1>1, InitInv, PTL DEF Spec

\* Every reachable state of detect_l1 is well typed.
THEOREM TypeCorrect == Spec => []TypeOK
  <1>1. IInv => TypeOK
    BY DEF IInv
  <1> QED
    BY <1>1, Invariance, PTL

\* For every text, every keyword list and every width of the window, a match
\* that needs a context is reported exactly if a keyword stands beside it.
THEOREM ContextDecides == Spec => []ContextOnOneSide
  <1>1. IInv => ContextOnOneSide
    <2> SUFFICES ASSUME IInv, Done, NEW e \in ContextEntity,
                        NEW i \in DOMAIN input.matches[e]
                 PROVE  (\E d \in DOMAIN out : out[d] = DetectionOf(e, input.matches[e][i]))
                          <=> \E k \in Keywords[e] : Beside(k, input.text, input.matches[e][i])
      BY DEF ContextOnOneSide
    <2>1. /\ WellFormed(input) /\ turn \in 1..16 /\ Len(Rules) = 15 /\ e \in Rule
          /\ turn > 15
      BY RulesAreDistinct, ContextEntityIsItsOwn DEF IInv, TypeOK, Done
    <2>2. i \in 1..Len(input.matches[e]) /\ input.text \in Seq(Char)
      BY <2>1, LenProperties DEF WellFormed
    <2>3. Passed(e, i)
      <3>1. PICK r \in 1..15 : Rules[r] = e
        BY RulesAreDistinct
      <3> QED
        BY <2>1, <3>1 DEF Passed
    <2>4. LET m == input.matches[e][i]
          IN  m \in Match /\ m.start < m.end /\ m.end <= Len(input.text)
      BY <2>1, <2>2, MatchProperties
    <2>5. HasContext(input.text, input.matches[e][i], e)
            <=> \E k \in Keywords[e] : Beside(k, input.text, input.matches[e][i])
      BY <2>2, <2>4, ContextIffBeside
    <2> QED
      BY <2>2, <2>3, <2>5 DEF IInv, ContextSoFar, Reported
  <1> QED
    BY <1>1, Invariance, PTL

-----------------------------------------------------------------------------

\* Where an entity that may tie is tried.
LEMMA TurnOf ==
    ASSUME NEW t \in 1..15
    PROVE  /\ EntityOf(Rules[t]) = "PHONE" => t < 8
           /\ EntityOf(Rules[t]) = "BANK_ACCOUNT" => t = 8
           /\ EntityOf(Rules[t]) = "BRN" => t = 9
  <1>1. /\ Rules[1] = "RRN" /\ Rules[2] = "CARD" /\ Rules[3] = "MOBILE"
        /\ Rules[4] = "LANDLINE" /\ Rules[5] = "EMAIL" /\ Rules[6] = "DRIVER_LICENSE"
        /\ Rules[7] = "PASSPORT" /\ Rules[8] = "BANK_ACCOUNT" /\ Rules[9] = "BRN"
        /\ Rules[10] = "SK" /\ Rules[11] = "AKIA" /\ Rules[12] = "GHP"
        /\ Rules[13] = "XOX" /\ Rules[14] = "AIZA" /\ Rules[15] = "PRIVATE_KEY"
    BY DEF Rules
  <1>2. \/ t = 1 \/ t = 2 \/ t = 3 \/ t = 4 \/ t = 5
        \/ t = 6 \/ t = 7 \/ t = 8 \/ t = 9 \/ t = 10
        \/ t = 11 \/ t = 12 \/ t = 13 \/ t = 14 \/ t = 15
    OBVIOUS
  <1> QED
    BY <1>1, <1>2 DEF EntityOf, Credential

\* Detection j of out comes from a later expression than i, if the two may tie.
Later(i, j) == \/ out[i].entity = "PHONE" /\ out[j].entity = "BANK_ACCOUNT"
               \/ out[i].entity = "BANK_ACCOUNT" /\ out[j].entity = "BRN"

\* The list so far is in the order of the expressions.
InOrder ==
    /\ \A i \in 1..Len(out) :
          /\ out[i].source = "regex" /\ out[i].start < out[i].end
          /\ out[i].entity = "BANK_ACCOUNT" => turn >= 8
          /\ out[i].entity = "BRN" => turn >= 9
    /\ \A i, j \in 1..Len(out) : Later(i, j) => i < j

LEMMA NextInOrder == TypeOK /\ InOrder /\ [Next]_vars => InOrder'
  <1> SUFFICES ASSUME TypeOK, InOrder, [Next]_vars PROVE InOrder'
    OBVIOUS
  <1>0. /\ turn \in 1..16 /\ next \in Nat \ {0} /\ out \in Seq(Detection)
        /\ WellFormed(input) /\ Len(Rules) = 15 /\ Len(out) \in Nat
    BY RulesAreDistinct, LenProperties DEF TypeOK
  <1>1. CASE Consider /\ out' # out
    <2> DEFINE d == DetectionOf(Rules[turn], Matches[next])
    <2>1. turn \in 1..15 /\ Rules[turn] \in Rule /\ next \in 1..Len(Matches)
      <3>1. turn \in 1..15 /\ next <= Len(Matches)
        BY <1>0, <1>1 DEF Consider
      <3>2. Rules[turn] \in Rule
        BY <3>1, RulesAreDistinct
      <3>3. Len(Matches) \in Nat
        BY <1>0, <3>2, LenProperties DEF Matches, WellFormed
      <3> QED
        BY <1>0, <3>1, <3>2, <3>3
    <2>2. Matches[next] \in Match /\ Matches[next].start < Matches[next].end
      BY <1>0, <2>1, MatchProperties DEF Matches
    <2>3. /\ d \in Detection /\ d.source = "regex" /\ d.start < d.end
          /\ d.entity = EntityOf(Rules[turn])
      BY <2>1, <2>2, DetectionType DEF DetectionOf
    <2>4. out' = Append(out, d) /\ turn' = turn
      BY <1>1 DEF Consider
    <2> HIDE DEF d
    <2>5. /\ Len(out') = Len(out) + 1 /\ out'[Len(out) + 1] = d
          /\ \A i \in 1..Len(out) : out'[i] = out[i]
      BY <1>0, <2>3, <2>4, AppendProperties
    <2>6. /\ d.entity = "PHONE" => turn < 8
          /\ d.entity = "BANK_ACCOUNT" => turn = 8
          /\ d.entity = "BRN" => turn = 9
      BY <2>1, <2>3, TurnOf
    <2>7. \A i \in 1..Len(out') : i \in 1..Len(out) \/ i = Len(out) + 1
      BY <1>0, <2>5
    <2>8. \A i \in 1..Len(out') :
            /\ out'[i].source = "regex" /\ out'[i].start < out'[i].end
            /\ out'[i].entity = "BANK_ACCOUNT" => turn' >= 8
            /\ out'[i].entity = "BRN" => turn' >= 9
      BY <1>0, <2>3, <2>4, <2>5, <2>6, <2>7 DEF InOrder
    <2>9. ASSUME NEW i \in 1..Len(out'), NEW j \in 1..Len(out'), Later(i, j)' PROVE i < j
      <3>1. CASE i \in 1..Len(out) /\ j \in 1..Len(out)
        BY <2>5, <2>9, <3>1 DEF InOrder, Later
      <3>2. CASE i \in 1..Len(out) /\ j = Len(out) + 1
        BY <1>0, <3>2
      <3>3. CASE i = Len(out) + 1 /\ j \in 1..Len(out)
        <4>1. \/ d.entity = "PHONE" /\ out[j].entity = "BANK_ACCOUNT"
              \/ d.entity = "BANK_ACCOUNT" /\ out[j].entity = "BRN"
          BY <2>5, <2>9, <3>3 DEF Later
        <4> QED
          BY <1>0, <2>6, <3>3, <4>1 DEF InOrder
      <3>4. CASE i = Len(out) + 1 /\ j = Len(out) + 1
        BY <2>5, <2>9, <3>4 DEF Later
      <3> QED
        BY <2>7, <3>1, <3>2, <3>3, <3>4
    <2> QED
      BY <2>8, <2>9 DEF InOrder
  <1>2. CASE out' = out /\ turn' \in {turn, turn + 1}
    BY <1>0, <1>2 DEF InOrder, Later
  <1> QED
    BY <1>1, <1>2 DEF Next, Consider, NextRule, vars

\* Of two that cover the same characters the one that goes before is dropped for
\* nothing that the other is not dropped for.
LEMMA SameSpanLoses ==
    ASSUME NEW dets \in Seq(Detection), NEW i \in Active(dets), NEW j \in Active(dets),
           dets[i].start = dets[j].start, dets[i].end = dets[j].end,
           Before(dets, i, j), Overlap(dets[i], dets[j])
    PROVE  j \notin Merged(dets)
  <1> SUFFICES ASSUME j \in Merged(dets) PROVE FALSE
    OBVIOUS
  <1>1. i \in 1..Len(dets) /\ j \in 1..Len(dets)
    BY DEF Active
  <1>2. \A k \in Merged(dets) : ~(Before(dets, k, j) /\ Overlap(dets[k], dets[j]))
    BY MergedFollowsTheRule DEF Keeps
  <1>3. i \notin Merged(dets)
    BY <1>2
  <1>4. PICK k \in Merged(dets) : Before(dets, k, i) /\ Overlap(dets[k], dets[i])
    BY <1>3, DroppedForAnother
  <1>5. k \in 1..Len(dets)
    BY MergedFollowsTheRule DEF Keeps, Active
  <1>6. Before(dets, k, j)
    BY <1>1, <1>4, <1>5, BeforeIsTransitive
  <1>7. Overlap(dets[k], dets[j])
    BY <1>4 DEF Overlap
  <1> QED
    BY <1>2, <1>4, <1>6, <1>7

\* Of two readings of the same characters the one of the earlier expression goes
\* before the other, as the sort is stable, and so the other is dropped.
THEOREM TiesToTheFirst == Spec => []TiesGoToTheFirst
  <1>1. Init => InOrder
    BY DEF Init, InOrder
  <1>2. TypeOK /\ InOrder => TiesGoToTheFirst
    <2> SUFFICES ASSUME TypeOK, InOrder, NEW i \in Active(out), NEW j \in Active(out),
                        out[i].start = out[j].start, out[i].end = out[j].end,
                        Later(i, j)
                 PROVE  j \notin Merged(out)
      BY DEF TiesGoToTheFirst, Later
    <2>1. out \in Seq(Detection) /\ i \in 1..Len(out) /\ j \in 1..Len(out)
      BY DEF TypeOK, Active
    <2>2. out[i] \in Detection /\ out[j] \in Detection /\ i < j
      BY <2>1, ElementOfSeq DEF InOrder
    <2>3. Before(out, i, j)
      BY <2>1, <2>2 DEF InOrder, Before, Length, Rank
    <2>4. Overlap(out[i], out[j])
      BY <2>1, <2>2 DEF InOrder, Overlap, Detection
    <2> QED
      BY <2>1, <2>3, <2>4, SameSpanLoses
  <1> QED
    BY <1>1, <1>2, NextInOrder, TypeCorrect, PTL DEF Spec

-----------------------------------------------------------------------------

\* The places merge() has looked at.
Seen == Active(found) \ todo

\* The loop has kept what the preference rule says of what it has looked at.
KeepsThePreferred == Keeps(found, Seen, chosen)

\* merge() has looked at everything that goes before what it has not.
SeenGoFirst == \A i \in Seen : \A j \in todo : Before(found, i, j)

MergeInv == MergeTypeOK /\ SeenGoFirst /\ KeepsThePreferred

\* Every step keeps the invariant.
LEMMA MergeNextInv == MergeInv /\ [MergeNext]_mergeVars => MergeInv'
<1> SUFFICES ASSUME MergeInv, [MergeNext]_mergeVars PROVE MergeInv'
  OBVIOUS
<1> USE DEF MergeInv
<1>1. ASSUME NEW i \in todo, LookAt(i)
      PROVE  MergeInv'
  <2>1. found' = found /\ Active(found)' = Active(found) /\ todo' = todo \ {i}
    BY <1>1 DEF LookAt, Active
  <2>2. i \in Active(found) /\ i \notin Seen /\ i \notin chosen
    BY <1>1 DEF MergeTypeOK, Seen, KeepsThePreferred, Keeps
  <2>3. Seen' = Seen \cup {i} /\ chosen' \subseteq chosen \cup {i}
    BY <1>1, <2>1, <2>2 DEF Seen, LookAt
  <2>4. MergeTypeOK'
    BY <2>1, <2>2, <2>3 DEF MergeTypeOK
  <2>5. SeenGoFirst'
    <3> SUFFICES ASSUME NEW s \in Seen', NEW j \in todo'
                 PROVE  Before(found, s, j)
      BY <2>1 DEF SeenGoFirst
    <3>1. CASE s = i
      BY <1>1, <2>1, <3>1 DEF LookAt
    <3>2. CASE s # i
      BY <2>1, <2>3, <3>2 DEF SeenGoFirst
    <3>. QED  BY <3>1, <3>2
  <2>6. KeepsThePreferred'
    <3>1. /\ Seen \in SUBSET Active(found) /\ found \in Seq(Detection)
          /\ \A s \in Seen : Before(found, s, i)
      BY <1>1 DEF Seen, MergeTypeOK, SeenGoFirst
    <3>2. Keeps(found, Seen \cup {i},
                IF \E c \in chosen : Overlap(found[i], found[c])
                THEN chosen ELSE chosen \cup {i})
      BY <2>2, <3>1, OneMorePlace DEF KeepsThePreferred
    <3>. QED  BY <1>1, <2>1, <2>3, <3>2 DEF LookAt, KeepsThePreferred
  <2>. QED  BY <2>4, <2>5, <2>6
<1>2. CASE UNCHANGED mergeVars
  BY <1>2 DEF mergeVars, MergeTypeOK, SeenGoFirst, KeepsThePreferred, Keeps, Seen, Active
<1>. QED  BY <1>1, <1>2 DEF MergeNext

\* The invariant holds throughout.
THEOREM MergeInvariance == MergeSpec => []MergeInv
<1>1. MergeInit => MergeInv
  <2> SUFFICES ASSUME MergeInit PROVE MergeInv
    OBVIOUS
  <2>1. Seen = {} /\ chosen = {}
    BY DEF MergeInit, Seen
  <2>2. MergeTypeOK
    BY ListsAssumption DEF MergeInit, MergeTypeOK
  <2>. QED  BY <2>1, <2>2 DEF MergeInv, SeenGoFirst, KeepsThePreferred, Keeps
<1>. QED  BY <1>1, MergeNextInv, PTL DEF MergeSpec

\* Type correctness.
THEOREM MergeTypeCorrect == MergeSpec => []MergeTypeOK
<1>1. MergeInv => MergeTypeOK
  BY DEF MergeInv
<1>. QED  BY <1>1, MergeInvariance, PTL

\* What merge() keeps does not overlap, whatever the detectors found: what
\* masking by offsets relies on.
THEOREM MergeIsDisjoint == MergeSpec => []ChosenDisjoint
<1>1. MergeInv => ChosenDisjoint
  <2> SUFFICES ASSUME MergeInv, NEW i \in chosen, NEW j \in chosen, i # j
               PROVE  ~Overlap(found[i], found[j])
    BY DEF ChosenDisjoint
  <2>1. /\ found \in Seq(Detection) /\ i \in 1..Len(found) /\ j \in 1..Len(found)
        /\ i \in Seen /\ j \in Seen
    BY DEF MergeInv, MergeTypeOK, Active, KeepsThePreferred, Keeps
  <2>2. Before(found, i, j) \/ Before(found, j, i)
    BY <2>1, BeforeIsTotal
  <2>3. /\ ~(Before(found, i, j) /\ Overlap(found[i], found[j]))
        /\ ~(Before(found, j, i) /\ Overlap(found[j], found[i]))
    BY <2>1 DEF MergeInv, KeepsThePreferred, Keeps
  <2>. QED  BY <2>2, <2>3 DEF Overlap
<1>. QED  BY <1>1, MergeInvariance, PTL

\* The outcome of the loop of merge() is Merged, the one set of places that
\* follows the rule, for every list of detections and every policy: what the
\* modules that use merge() as a whole rely on.
THEOREM LoopComputesMerged == MergeSpec => []MergeIsMerged
<1>1. MergeInv => MergeIsMerged
  <2> SUFFICES ASSUME MergeInv, MergeDone PROVE chosen = Merged(found)
    BY DEF MergeIsMerged
  <2>1. Seen = Active(found)
    BY DEF MergeDone, Seen
  <2>. QED  BY <2>1, MergedFollowsTheRule DEF MergeInv, MergeTypeOK, KeepsThePreferred
<1>. QED  BY <1>1, MergeInvariance, PTL

-----------------------------------------------------------------------------

\* scan() as a whole: the list of detect_l1, with what the NER client has found
\* behind it, is merged.
Handed == \E ner \in Seq(Detection) : found = out \o ner

\* Of two readings of the same characters by detect_l1, the one of the earlier
\* expression is preferred by merge() whatever the NER client adds: the later one
\* is never among the detections that are kept.
THEOREM ScanKeepsTheFirst ==
    Spec /\ MergeSpec =>
        [](Done /\ MergeDone /\ Handed =>
               \A i, j \in Active(out) :
                   /\ out[i].start = out[j].start /\ out[i].end = out[j].end
                   /\ Later(i, j)
                   => j \notin chosen)
  <1>1. Init => InOrder
    BY DEF Init, InOrder
  <1>2. ASSUME TypeOK, InOrder, MergeTypeOK, MergeIsMerged, MergeDone, Handed,
               NEW i \in Active(out), NEW j \in Active(out),
               out[i].start = out[j].start, out[i].end = out[j].end, Later(i, j)
        PROVE  j \notin chosen
    <2>1. out \in Seq(Detection) /\ i \in 1..Len(out) /\ j \in 1..Len(out)
      BY <1>2 DEF TypeOK, Active
    <2>2. PICK ner \in Seq(Detection) : found = out \o ner
      BY <1>2 DEF Handed
    <2>3. /\ found \in Seq(Detection) /\ Len(found) = Len(out) + Len(ner)
          /\ \A k \in 1..Len(out) : found[k] = out[k]
      BY <2>1, <2>2, ConcatProperties
    <2>4. i \in 1..Len(found) /\ j \in 1..Len(found)
      BY <2>1, <2>2, <2>3, LenProperties
    <2>5. /\ found[i] = out[i] /\ found[j] = out[j]
          /\ out[i] \in Detection /\ out[j] \in Detection
      BY <2>1, <2>3, ElementOfSeq
    <2>6. i \in Active(found) /\ j \in Active(found)
      BY <1>2, <2>4, <2>5 DEF Active
    <2>7. found[i].source = "regex" /\ found[j].source = "regex" /\ i < j
          /\ found[i].start < found[i].end
      BY <1>2, <2>1, <2>5 DEF InOrder
    <2>8. Before(found, i, j) /\ Overlap(found[i], found[j])
      BY <1>2, <2>1, <2>4, <2>5, <2>7 DEF Before, Length, Rank, Overlap, Detection
    <2>9. j \notin Merged(found)
      BY <1>2, <2>3, <2>5, <2>6, <2>8, SameSpanLoses
    <2>. QED  BY <1>2, <2>9 DEF MergeIsMerged
  <1>3. TypeOK /\ InOrder /\ MergeTypeOK /\ MergeIsMerged
          => (Done /\ MergeDone /\ Handed =>
               \A i, j \in Active(out) :
                   /\ out[i].start = out[j].start /\ out[i].end = out[j].end
                   /\ Later(i, j)
                   => j \notin chosen)
    BY <1>2
  <1>. QED
    BY <1>1, <1>3, NextInOrder, TypeCorrect, MergeTypeCorrect, LoopComputesMerged,
       PTL DEF Spec

=============================================================================
