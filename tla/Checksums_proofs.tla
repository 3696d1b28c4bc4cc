-------------------------- MODULE Checksums_proofs --------------------------
(***************************************************************************)
(* What the checksums detect, for every number.  The two sums differ by    *)
(* what the places differ that the loop has been through; at the end that  *)
(* is the difference of one term, or of two neighbouring ones, and what    *)
(* remains is arithmetic on digits.                                        *)
(***************************************************************************)
EXTENDS Checksums, TLAPS

\* The loop has been through place p.
Been(p) == IF kind = "luhn" THEN p > Len(number) - seen ELSE p <= seen

\* What place p has added to wrongSum beyond what it has added to sum.
Gap(p) == IF Been(p) THEN Term(kind, wrong, p) - Term(kind, number, p) ELSE 0

\* The inductive invariant.
IInv == /\ TypeOK
        /\ \A p \in 1..Len(number) :
               DigitChanged(p) => wrongSum - sum = Gap(p)
        /\ \A p \in 1..(Len(number) - 1) :
               Exchanged(p) => wrongSum - sum = Gap(p) + Gap(p + 1)

\* The weights are units of the residues they are used with.
LEMMA RrnWeightIsUnit == \A i \in 1..12 : RrnWeights[i] \in 2..9
  BY DEF RrnWeights

LEMMA BrnWeightIsUnit == /\ \A i \in 1..8 : BrnWeights[i] \in {1, 3, 7}
                         /\ BrnWeights[9] = 5
  BY DEF BrnWeights

LEMMA DoubledIsDigit == \A d \in Digit : Doubled(d) \in 0..9
  BY DEF Doubled, Digit

LEMMA PlaceHoldsDigit ==
    ASSUME NEW n \in Seq(Digit), NEW i \in 1..Len(n) PROVE n[i] \in 0..9
  <1>1. n[i] \in Digit
    OBVIOUS
  <1> QED
    BY <1>1 DEF Digit

\* A term of Luhn's sum is a digit, and one of the other sums a number.
LEMMA LuhnTermIsDigit ==
    ASSUME NEW n \in Seq(Digit), NEW i \in 1..Len(n)
    PROVE  /\ Term("luhn", n, i) \in 0..9
           /\ Term("luhn", n, i) = IF (Len(n) - i) % 2 = 1 THEN Doubled(n[i]) ELSE n[i]
  <1>1. n[i] \in Digit
    OBVIOUS
  <1>2. Term("luhn", n, i) = IF (Len(n) - i) % 2 = 1 THEN Doubled(n[i]) ELSE n[i]
    BY DEF Term
  <1> QED
    BY <1>1, <1>2, DoubledIsDigit DEF Digit

LEMMA RrnTerm ==
    ASSUME NEW n \in Seq(Digit), Len(n) = 13, NEW i \in 1..Len(n)
    PROVE  /\ Term("rrn", n, i) \in Nat
           /\ Term("rrn", n, i) = IF i = 13 THEN 0 ELSE RrnWeights[i] * n[i]
  <1>1. n[i] \in 0..9
    BY PlaceHoldsDigit
  <1>2. Term("rrn", n, i) = IF i = 13 THEN 0 ELSE RrnWeights[i] * n[i]
    BY DEF Term
  <1>3. i # 13 => RrnWeights[i] \in Nat
    <2> SUFFICES ASSUME i # 13 PROVE RrnWeights[i] \in Nat
      OBVIOUS
    <2>1. i \in 1..12
      OBVIOUS
    <2>2. RrnWeights[i] \in 2..9
      BY <2>1, RrnWeightIsUnit
    <2> QED
      BY <2>2
  <1>4. \A x, y \in Nat : x * y \in Nat
    OBVIOUS
  <1> QED
    BY <1>1, <1>2, <1>3, <1>4

LEMMA BrnTerm ==
    ASSUME NEW n \in Seq(Digit), Len(n) = 10, NEW i \in 1..Len(n)
    PROVE  /\ Term("brn", n, i) \in Nat
           /\ i \in 1..8 => Term("brn", n, i) = BrnWeights[i] * n[i]
           /\ i = 9 => Term("brn", n, i) = 5 * n[i] + ((5 * n[i]) \div 10)
           /\ i = 10 => Term("brn", n, i) = 0
  <1>1. n[i] \in 0..9
    BY PlaceHoldsDigit
  <1>2. Term("brn", n, i) = IF i = 10 THEN 0
                            ELSE BrnWeights[i] * n[i] + (IF i = 9 THEN (5 * n[i]) \div 10 ELSE 0)
    BY DEF Term
  <1>3. CASE i = 10
    BY <1>2, <1>3
  <1>4. CASE i = 9
    BY <1>1, <1>2, <1>4, BrnWeightIsUnit
  <1>5. CASE i \in 1..8
    <2>1. BrnWeights[i] \in {1, 3, 7}
      BY <1>5, BrnWeightIsUnit
    <2> QED
      BY <1>1, <1>2, <1>5, <2>1
  <1> QED
    BY <1>3, <1>4, <1>5

LEMMA TermIsNat ==
    ASSUME NEW k \in Kind, NEW n \in Seq(Digit), HasLength(k, n), NEW i \in 1..Len(n)
    PROVE  Term(k, n, i) \in Nat
  <1>1. CASE k = "luhn"
    BY <1>1, LuhnTermIsDigit
  <1>2. CASE k = "rrn"
    BY <1>2, RrnTerm DEF HasLength
  <1>3. CASE k = "brn"
    BY <1>3, BrnTerm DEF HasLength
  <1> QED
    BY <1>1, <1>2, <1>3 DEF Kind

-----------------------------------------------------------------------------

\* Being through one more place opens the gap there and nowhere else.
LEMMA GapAfterAdd ==
    ASSUME TypeOK, Add, NEW p \in 1..Len(number)
    PROVE  Gap(p)' = IF p = Place THEN Term(kind, wrong, p) - Term(kind, number, p)
                                  ELSE Gap(p)
  <1>1. Len(number) \in Nat /\ seen \in Nat /\ seen < Len(number)
    BY DEF TypeOK, WellFormed, Add
  <1>2. UNCHANGED <<kind, number, wrong>> /\ seen' = seen + 1
    BY DEF Add
  <1>3. Been(p)' <=> Been(p) \/ p = Place
    BY <1>1, <1>2 DEF Been, Place
  <1>4. p = Place => ~Been(p)
    BY <1>1 DEF Been, Place
  <1> QED
    BY <1>2, <1>3, <1>4 DEF Gap

\* The place the loop is at is one of the number's.
LEMMA PlaceInNumber == TypeOK /\ Add => Place \in 1..Len(number)
  <1> SUFFICES ASSUME TypeOK, Add PROVE Place \in 1..Len(number)
    OBVIOUS
  <1>1. Len(number) \in Nat /\ seen \in Nat /\ seen < Len(number)
    BY DEF TypeOK, WellFormed, Add
  <1> QED
    BY <1>1 DEF Place

\* The terms of both numbers are numbers.
LEMMA TermsAreNat ==
    ASSUME TypeOK, NEW i \in 1..Len(number)
    PROVE  /\ Term(kind, number, i) \in Nat
           /\ Term(kind, wrong, i) \in Nat
  <1>1. /\ kind \in Kind /\ number \in Seq(Digit) /\ wrong \in Seq(Digit)
        /\ HasLength(kind, number) /\ Len(wrong) = Len(number)
    BY DEF TypeOK, WellFormed
  <1>2. HasLength(kind, wrong)
    BY <1>1 DEF HasLength, Kind
  <1> QED
    BY <1>1, <1>2, TermIsNat

\* Where the numbers agree there is no gap.
LEMMA SameDigitSameTerm ==
    ASSUME TypeOK, NEW i \in 1..Len(number), wrong[i] = number[i]
    PROVE  Term(kind, wrong, i) = Term(kind, number, i)
  <1>1. kind \in Kind /\ Len(wrong) = Len(number)
    BY DEF TypeOK, WellFormed
  <1> QED
    BY <1>1 DEF Term, Kind

\* A gap is an integer.
LEMMA GapIsInt ==
    ASSUME TypeOK, NEW p \in 1..Len(number) PROVE Gap(p) \in Int
  BY TermsAreNat DEF Gap

\* The loop has been nowhere at first.
LEMMA InitInv == Init => IInv
  <1> SUFFICES ASSUME Init PROVE IInv
    OBVIOUS
  <1>1. PICK x \in Inputs : kind = x.kind /\ number = x.number /\ wrong = x.wrong
    BY DEF Init
  <1>2. WellFormed(kind, number, wrong)
    BY <1>1, InputsAssumption
  <1>3. Len(number) \in Nat
    BY <1>2 DEF WellFormed
  <1>4. TypeOK
    BY <1>2, <1>3 DEF TypeOK, Init
  <1>5. ASSUME NEW p \in 1..Len(number) PROVE Gap(p) = 0
    BY <1>3, <1>5 DEF Gap, Been, Init
  <1>6. \A p \in 1..(Len(number) - 1) : Gap(p) + Gap(p + 1) = 0
    BY <1>3, <1>5
  <1>7. wrongSum - sum = 0
    BY DEF Init
  <1> QED
    BY <1>4, <1>5, <1>6, <1>7 DEF IInv

\* Every turn keeps the gap where the numbers differ.
LEMMA NextInv == IInv /\ [Next]_vars => IInv'
  <1> SUFFICES ASSUME IInv, [Next]_vars PROVE IInv'
    OBVIOUS
  <1>1. CASE Add
    <2> DEFINE step == Term(kind, wrong, Place) - Term(kind, number, Place)
    <2>1. TypeOK
      BY DEF IInv
    <2>2. Place \in 1..Len(number)
      BY <1>1, <2>1, PlaceInNumber
    <2>3. /\ Term(kind, number, Place) \in Nat /\ Term(kind, wrong, Place) \in Nat
          /\ sum \in Nat /\ wrongSum \in Nat /\ seen \in 0..Len(number)
          /\ WellFormed(kind, number, wrong) /\ Len(number) \in Nat
      BY <2>1, <2>2, TermsAreNat DEF TypeOK, WellFormed
    <2>4. /\ UNCHANGED <<kind, number, wrong>>
          /\ seen < Len(number) /\ seen' = seen + 1
          /\ sum' = sum + Term(kind, number, Place)
          /\ wrongSum' = wrongSum + Term(kind, wrong, Place)
      BY <1>1 DEF Add
    <2>5. TypeOK'
      <3>1. WellFormed(kind, number, wrong)'
        BY <2>3, <2>4 DEF WellFormed, HasLength
      <3>2. seen' \in 0..Len(number')
        BY <2>3, <2>4
      <3>3. sum' \in Nat /\ wrongSum' \in Nat
        BY <2>3, <2>4
      <3> QED
        BY <3>1, <3>2, <3>3 DEF TypeOK
    <2>6. wrongSum' - sum' = (wrongSum - sum) + step /\ step \in Int
      BY <2>3, <2>4
    <2>7. \A p \in 1..Len(number) : Gap(p)' = IF p = Place THEN step ELSE Gap(p)
      BY <1>1, <2>1, GapAfterAdd
    <2>8. Gap(Place) = 0
      BY <2>3 DEF Gap, Been, Place
    <2>9. number[Place] = wrong[Place] => step = 0
      BY <2>1, <2>2, <2>3, SameDigitSameTerm
    <2>10. \A p \in 1..Len(number) : Gap(p) \in Int
      BY <2>1, GapIsInt
    <2> HIDE DEF step
    <2>11. ASSUME NEW p \in 1..Len(number'), DigitChanged(p)'
           PROVE  wrongSum' - sum' = Gap(p)'
      <3>1. p \in 1..Len(number) /\ DigitChanged(p)
        BY <2>4, <2>11 DEF DigitChanged
      <3>2. wrongSum - sum = Gap(p)
        BY <3>1 DEF IInv
      <3>3. p # Place => step = 0
        BY <2>2, <2>9, <3>1 DEF DigitChanged
      <3> QED
        BY <2>6, <2>7, <2>8, <2>10, <3>1, <3>2, <3>3
    <2>12. ASSUME NEW p \in 1..(Len(number') - 1), Exchanged(p)'
           PROVE  wrongSum' - sum' = Gap(p)' + Gap(p + 1)'
      <3>1. p \in 1..(Len(number) - 1) /\ Exchanged(p)
        BY <2>4, <2>12 DEF Exchanged
      <3>2. wrongSum - sum = Gap(p) + Gap(p + 1)
        BY <3>1 DEF IInv
      <3>3. p \in 1..Len(number) /\ p + 1 \in 1..Len(number) /\ p # p + 1
        BY <2>3, <3>1
      <3>4. Place \notin {p, p + 1} => step = 0
        BY <2>2, <2>9, <3>1 DEF Exchanged
      <3>5. /\ Gap(p)' = IF p = Place THEN step ELSE Gap(p)
            /\ Gap(p + 1)' = IF p + 1 = Place THEN step ELSE Gap(p + 1)
        BY <2>7, <3>3
      <3> QED
        BY <2>6, <2>8, <2>10, <3>2, <3>3, <3>4, <3>5
    <2> QED
      BY <2>5, <2>11, <2>12 DEF IInv
  <1>2. CASE UNCHANGED vars
    BY <1>2 DEF vars, IInv, TypeOK, DigitChanged, Exchanged, Gap, Been
  <1> QED
    BY <1>1, <1>2 DEF Next

\* In every reachable state of the loops the gap is where the numbers differ.
THEOREM Invariance == Spec => []IInv
  BY InitInv, NextInv, PTL DEF Spec

\* Every reachable state of the loops is well typed, for every set of inputs.
THEOREM TypeCorrect == Spec => []TypeOK
  <1>1. IInv => TypeOK
    BY DEF IInv
  <1> QED
    BY <1>1, Invariance, PTL

-----------------------------------------------------------------------------

\* Doubling and adding the digits up permutes the digits.
LEMMA DoubledIsInjective ==
    \A a, b \in Digit : (Doubled(a) - Doubled(b)) % 10 = 0 => a = b
  BY DEF Doubled, Digit

LEMMA DigitsModulo10 == \A a, b \in Digit : (a - b) % 10 = 0 => a = b
  BY DEF Digit

\* What doubling adds to a digit, modulo 10, tells the digits apart but for 0
\* and 9.
LEMMA DoublingShifts ==
    \A a, b \in Digit :
        \/ ((Doubled(b) - Doubled(a)) + (a - b)) % 10 = 0
        \/ ((b - a) + (Doubled(a) - Doubled(b))) % 10 = 0
        => a = b \/ {a, b} = {0, 9}
  BY DEF Doubled, Digit

\* A unit times two digits: equal modulo the residue, equal digits.
LEMMA UnitsModulo11 ==
    \A w \in 2..9, a, b \in Digit : (w * a - w * b) % 11 = 0 => a = b
  <1> SUFFICES ASSUME NEW w \in 2..9, NEW a \in Digit, NEW b \in Digit,
                      (w * a - w * b) % 11 = 0
               PROVE  a = b
    OBVIOUS
  <1>1. w = 2 \/ w = 3 \/ w = 4 \/ w = 5 \/ w = 6 \/ w = 7 \/ w = 8 \/ w = 9
    OBVIOUS
  <1> QED
    BY <1>1 DEF Digit

LEMMA UnitsModulo10 ==
    \A w \in {1, 3, 7}, a, b \in Digit : (w * a - w * b) % 10 = 0 => a = b
  <1> SUFFICES ASSUME NEW w \in {1, 3, 7}, NEW a \in Digit, NEW b \in Digit,
                      (w * a - w * b) % 10 = 0
               PROVE  a = b
    OBVIOUS
  <1>1. w = 1 \/ w = 3 \/ w = 7
    OBVIOUS
  <1> QED
    BY <1>1 DEF Digit

\* The ninth digit of a BRN with its carry.
LEMMA CarryTellsApart ==
    \A a, b \in Digit :
        ((5 * a + ((5 * a) \div 10)) - (5 * b + ((5 * b) \div 10))) % 10 = 0 => a = b
  BY DEF Digit

\* Equal residues: a difference without one.
LEMMA SameResidue ==
    \A s, t \in Nat : /\ s % 10 = t % 10 => (t - s) % 10 = 0
                      /\ s % 11 = t % 11 => (t - s) % 11 = 0
  OBVIOUS

\* Check digits that are equal come from equal residues, but for an RRN's 0 and 10.
LEMMA CheckDigitTellsResidue ==
    \A s, t \in Nat :
        /\ (10 - (s % 10)) % 10 = (10 - (t % 10)) % 10 => s % 10 = t % 10
        /\ (11 - (s % 11)) % 10 = (11 - (t % 11)) % 10 =>
               s % 11 = t % 11 \/ {s % 11, t % 11} = {0, 10}
  OBVIOUS

-----------------------------------------------------------------------------

\* What both being accepted means for the two sums.
LEMMA AcceptedTogether ==
    ASSUME IInv, Done, BothAccepted
    PROVE  /\ kind = "luhn" => (wrongSum - sum) % 10 = 0
           /\ kind = "brn" /\ wrong[10] = number[10] => (wrongSum - sum) % 10 = 0
           /\ kind = "brn" /\ wrongSum = sum => wrong[10] = number[10]
           /\ kind = "rrn" /\ wrong[13] = number[13] =>
                 (wrongSum - sum) % 11 = 0 \/ {sum % 11, wrongSum % 11} = {0, 10}
           /\ kind = "rrn" /\ wrongSum = sum => wrong[13] = number[13]
  <1>1. sum \in Nat /\ wrongSum \in Nat
    BY DEF IInv, TypeOK
  <1>2. CASE kind = "luhn"
    <2>1. sum % 10 = 0 /\ wrongSum % 10 = 0
      BY <1>2 DEF BothAccepted, Accepts
    <2> QED
      BY <1>1, <1>2, <2>1, SameResidue
  <1>3. CASE kind = "brn"
    <2>1. /\ (10 - (sum % 10)) % 10 = number[10]
          /\ (10 - (wrongSum % 10)) % 10 = wrong[10]
      BY <1>3 DEF BothAccepted, Accepts
    <2>2. wrong[10] = number[10] => sum % 10 = wrongSum % 10
      BY <1>1, <2>1, CheckDigitTellsResidue
    <2> QED
      BY <1>1, <1>3, <2>1, <2>2, SameResidue
  <1>4. CASE kind = "rrn"
    <2>1. /\ (11 - (sum % 11)) % 10 = number[13]
          /\ (11 - (wrongSum % 11)) % 10 = wrong[13]
      BY <1>4 DEF BothAccepted, Accepts
    <2>2. wrong[13] = number[13] =>
              sum % 11 = wrongSum % 11 \/ {sum % 11, wrongSum % 11} = {0, 10}
      BY <1>1, <2>1, CheckDigitTellsResidue
    <2> QED
      BY <1>1, <1>4, <2>1, <2>2, SameResidue
  <1>5. kind \in Kind
    BY DEF IInv, TypeOK, WellFormed
  <1> QED
    BY <1>2, <1>3, <1>4, <1>5 DEF Kind

\* At the end the loop has been everywhere.
LEMMA BeenEverywhere ==
    ASSUME TypeOK, Done, NEW p \in 1..Len(number)
    PROVE  Gap(p) = Term(kind, wrong, p) - Term(kind, number, p)
  <1>1. Len(number) \in Nat
    BY DEF TypeOK, WellFormed
  <1> QED
    BY <1>1 DEF Gap, Been, Done

\* The detection of a changed digit, for every number of every length: the
\* difference of the sums is that of one term, and no two digits have terms
\* with the same residue.
LEMMA ChangeIsDetected == IInv => ChangedDigitDetected
  <1> SUFFICES ASSUME IInv, Done, BothAccepted,
                      NEW p \in 1..Len(number), DigitChanged(p)
               PROVE  kind = "rrn" /\ {sum % 11, wrongSum % 11} = {0, 10}
    BY DEF ChangedDigitDetected, DigitChanged
  <1>1. /\ TypeOK /\ kind \in Kind
        /\ number \in Seq(Digit) /\ wrong \in Seq(Digit) /\ Len(wrong) = Len(number)
        /\ HasLength(kind, number) /\ sum \in Nat /\ wrongSum \in Nat
    BY DEF IInv, TypeOK, WellFormed
  <1>2. wrongSum - sum = Term(kind, wrong, p) - Term(kind, number, p)
    BY <1>1, BeenEverywhere DEF IInv
  <1>3. number[p] \in Digit /\ wrong[p] \in Digit
    BY <1>1
  <1>4. number[p] # wrong[p] /\ \A i \in 1..Len(number) : i # p => wrong[i] = number[i]
    BY DEF DigitChanged
  <1>5. kind # "luhn"
    <2> SUFFICES ASSUME kind = "luhn" PROVE FALSE
      OBVIOUS
    <2>1. (Term("luhn", wrong, p) - Term("luhn", number, p)) % 10 = 0
      BY <1>2, AcceptedTogether
    <2>2. CASE (Len(number) - p) % 2 = 1
      BY <1>1, <1>3, <1>4, <2>1, <2>2, LuhnTermIsDigit, DoubledIsInjective
    <2>3. CASE (Len(number) - p) % 2 # 1
      <3>1. (wrong[p] - number[p]) % 10 = 0
        BY <1>1, <2>1, <2>3, LuhnTermIsDigit
      <3> QED
        BY <1>3, <1>4, <3>1, DigitsModulo10
    <2> QED
      BY <2>2, <2>3
  <1>6. kind # "brn"
    <2> SUFFICES ASSUME kind = "brn" PROVE FALSE
      OBVIOUS
    <2>1. Len(number) = 10 /\ Len(wrong) = 10 /\ p \in 1..10
      BY <1>1 DEF HasLength
    <2>2. wrong[10] = number[10]
      <3>1. CASE p = 10
        <4>1. Term(kind, wrong, p) = 0 /\ Term(kind, number, p) = 0
          BY <1>1, <2>1, <3>1, BrnTerm
        <4>2. wrongSum = sum
          BY <1>1, <1>2, <4>1
        <4> QED
          BY <4>2, AcceptedTogether
      <3>2. CASE p # 10
        BY <1>4, <2>1, <3>2
      <3> QED
        BY <3>1, <3>2
    <2>3. p # 10 /\ (Term("brn", wrong, p) - Term("brn", number, p)) % 10 = 0
      BY <1>2, <1>4, <2>2, AcceptedTogether
    <2>4. CASE p = 9
      BY <1>1, <1>3, <1>4, <2>1, <2>3, <2>4, BrnTerm, CarryTellsApart
    <2>5. CASE p \in 1..8
      <3>1. BrnWeights[p] \in {1, 3, 7}
        BY <2>5, BrnWeightIsUnit
      <3>2. /\ Term("brn", wrong, p) = BrnWeights[p] * wrong[p]
            /\ Term("brn", number, p) = BrnWeights[p] * number[p]
        BY <1>1, <2>1, <2>5, BrnTerm
      <3> QED
        BY <1>3, <1>4, <2>3, <3>1, <3>2, UnitsModulo10
    <2> QED
      BY <2>1, <2>3, <2>4, <2>5
  <1>7. kind = "rrn"
    BY <1>1, <1>5, <1>6 DEF Kind
  <1>8. {sum % 11, wrongSum % 11} = {0, 10}
    <2>1. Len(number) = 13 /\ Len(wrong) = 13 /\ p \in 1..13
      BY <1>1, <1>7 DEF HasLength
    <2>2. wrong[13] = number[13]
      <3>1. CASE p = 13
        <4>1. Term(kind, wrong, p) = 0 /\ Term(kind, number, p) = 0
          BY <1>1, <1>7, <2>1, <3>1, RrnTerm
        <4>2. wrongSum = sum
          BY <1>1, <1>2, <4>1
        <4> QED
          BY <1>7, <4>2, AcceptedTogether
      <3>2. CASE p # 13
        BY <1>4, <2>1, <3>2
      <3> QED
        BY <3>1, <3>2
    <2>3. p # 13
      BY <1>4, <2>2
    <2>4. RrnWeights[p] \in 2..9
      BY <2>1, <2>3, RrnWeightIsUnit
    <2>5. /\ Term("rrn", wrong, p) = RrnWeights[p] * wrong[p]
          /\ Term("rrn", number, p) = RrnWeights[p] * number[p]
      BY <1>1, <2>1, <2>3, RrnTerm
    <2>6. (Term("rrn", wrong, p) - Term("rrn", number, p)) % 11 # 0
      BY <1>3, <1>4, <2>4, <2>5, UnitsModulo11
    <2> QED
      BY <1>2, <1>7, <2>2, <2>6, AcceptedTogether
  <1> QED
    BY <1>7, <1>8

\* The detection of exchanged neighbours by Luhn: one of the two is doubled.
LEMMA ExchangeIsDetected == IInv => ExchangeDetected
  <1> SUFFICES ASSUME IInv, Done, BothAccepted, kind = "luhn",
                      NEW p \in 1..(Len(number) - 1), Exchanged(p)
               PROVE  {number[p], number[p + 1]} = {0, 9}
    BY DEF ExchangeDetected
  <1> DEFINE a == number[p]
             b == number[p + 1]
  <1>1. /\ TypeOK /\ number \in Seq(Digit) /\ wrong \in Seq(Digit)
        /\ Len(wrong) = Len(number) /\ Len(number) \in Nat
    BY DEF IInv, TypeOK, WellFormed
  <1>2. p \in 1..Len(number) /\ p + 1 \in 1..Len(number) /\ p \in Int
    BY <1>1
  <1>3. a \in Digit /\ b \in Digit
    BY <1>1, <1>2
  <1>4. /\ a # b /\ wrong[p] = b /\ wrong[p + 1] = a
        /\ number[p] = a /\ number[p + 1] = b
    BY DEF Exchanged
  <1> SUFFICES {a, b} = {0, 9}
    OBVIOUS
  <1> HIDE DEF a, b
  <1>5. wrongSum - sum = (Term("luhn", wrong, p) - Term("luhn", number, p))
                           + (Term("luhn", wrong, p + 1) - Term("luhn", number, p + 1))
    BY <1>1, <1>2, BeenEverywhere DEF IInv
  <1>6. (wrongSum - sum) % 10 = 0
    BY AcceptedTogether
  <1>7. /\ Doubled(a) \in 0..9 /\ Doubled(b) \in 0..9
        /\ a \in 0..9 /\ b \in 0..9 /\ sum \in Nat /\ wrongSum \in Nat
    BY <1>1, <1>3, DoubledIsDigit DEF Digit, TypeOK
  <1>8. CASE (Len(number) - p) % 2 = 1
    <2>1. (Len(number) - (p + 1)) % 2 # 1
      BY <1>1, <1>2, <1>8
    <2>2. /\ Term("luhn", wrong, p) = Doubled(b) /\ Term("luhn", number, p) = Doubled(a)
          /\ Term("luhn", wrong, p + 1) = a /\ Term("luhn", number, p + 1) = b
      BY <1>1, <1>2, <1>4, <1>8, <2>1, LuhnTermIsDigit
    <2>3. wrongSum - sum = (Doubled(b) - Doubled(a)) + (a - b)
      BY <1>5, <2>2
    <2> QED
      BY <1>3, <1>4, <1>6, <2>3, DoublingShifts
  <1>9. CASE (Len(number) - p) % 2 # 1
    <2>1. (Len(number) - (p + 1)) % 2 = 1
      BY <1>1, <1>2, <1>9
    <2>2. /\ Term("luhn", wrong, p) = b /\ Term("luhn", number, p) = a
          /\ Term("luhn", wrong, p + 1) = Doubled(a)
          /\ Term("luhn", number, p + 1) = Doubled(b)
      BY <1>1, <1>2, <1>4, <1>9, <2>1, LuhnTermIsDigit
    <2>3. wrongSum - sum = (b - a) + (Doubled(a) - Doubled(b))
      BY <1>5, <2>2
    <2> QED
      BY <1>3, <1>4, <1>6, <2>3, DoublingShifts
  <1> QED
    BY <1>8, <1>9

\* Of every number of every length and every change of one digit: the two are
\* not both accepted, but for the residues that an RRN folds.
THEOREM ChangesDetected == Spec => []ChangedDigitDetected
  BY Invariance, ChangeIsDetected, PTL

\* Of every number of every length and every exchange of neighbours: Luhn does
\* not accept both, but for 09 and 90.
THEOREM ExchangesDetected == Spec => []ExchangeDetected
  BY Invariance, ExchangeIsDetected, PTL

=============================================================================
