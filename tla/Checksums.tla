------------------------------ MODULE Checksums ------------------------------
(***************************************************************************)
(* The loops of the validators, one digit at a time, run side by side on a *)
(* number and on a miswritten form of it: one digit changed, or two        *)
(* neighbours exchanged.  A checksum is there to tell the two apart.       *)
(***************************************************************************)
EXTENDS Validators

CONSTANT Inputs     \* the [kind, number, wrong] considered

\* Two numbers of the same length, one the validator does not turn away unread.
WellFormed(k, n, w) == /\ k \in Kind
                       /\ n \in Seq(Digit) /\ w \in Seq(Digit)
                       /\ HasLength(k, n)
                       /\ Len(w) = Len(n)

ASSUME InputsAssumption == \A x \in Inputs : WellFormed(x.kind, x.number, x.wrong)

VARIABLES
    kind,       \* which validator
    number,     \* a number
    wrong,      \* the number as it was miswritten
    seen,       \* how many digits the loop has added
    sum,        \* total or s, for number
    wrongSum    \* the same for wrong

vars == <<kind, number, wrong, seen, sum, wrongSum>>

TypeOK == /\ WellFormed(kind, number, wrong)
          /\ seen \in 0..Len(number)
          /\ sum \in Nat /\ wrongSum \in Nat

Init == /\ \E x \in Inputs : kind = x.kind /\ number = x.number /\ wrong = x.wrong
        /\ seen = 0
        /\ sum = 0
        /\ wrongSum = 0

\* The place the loop is at: Luhn goes through the digits from the right.
Place == IF kind = "luhn" THEN Len(number) - seen ELSE seen + 1

\* Mutant: the loop runs once too often.
AddBeyond ==
    /\ seen <= Len(number)
    /\ seen' = seen + 1
    /\ sum' = IF Place \in DOMAIN number THEN sum + Term(kind, number, Place) ELSE sum
    /\ UNCHANGED <<kind, number, wrong, wrongSum>>

\* One turn of the loop.
Add == /\ seen < Len(number)
       /\ seen' = seen + 1
       /\ sum' = sum + Term(kind, number, Place)
       /\ wrongSum' = wrongSum + Term(kind, wrong, Place)
       /\ UNCHANGED <<kind, number, wrong>>

Next == Add

Spec == Init /\ [][Next]_vars

-----------------------------------------------------------------------------

Done == seen = Len(number)

\* wrong differs from number in place p only.
DigitChanged(p) ==
    /\ p \in 1..Len(number) /\ number[p] # wrong[p]
    /\ \A i \in 1..Len(number) : i # p => wrong[i] = number[i]

\* wrong has the digits in places p and p + 1 exchanged.
Exchanged(p) ==
    /\ p \in 1..(Len(number) - 1) /\ number[p] # number[p + 1]
    /\ wrong[p] = number[p + 1] /\ wrong[p + 1] = number[p]
    /\ \A i \in 1..Len(number) : i \notin {p, p + 1} => wrong[i] = number[i]

BothAccepted == Accepts(kind, number, sum) /\ Accepts(kind, wrong, wrongSum)

\* validators.py: one changed digit.  Luhn and the checksum of a BRN find every
\* one.  The checksum of an RRN folds the residues 0 and 10 of its sum into one
\* check digit, and finds every changed digit but for that.
ChangedDigitDetected ==
    Done /\ (\E p \in 1..Len(number) : DigitChanged(p)) =>
        ~BothAccepted \/ (kind = "rrn" /\ {sum % 11, wrongSum % 11} = {0, 10})

\* luhn_valid finds two exchanged neighbours, but for a 0 and a 9.
ExchangeDetected ==
    \A p \in 1..(Len(number) - 1) :
        Done /\ kind = "luhn" /\ Exchanged(p) =>
            ~BothAccepted \/ {number[p], number[p + 1]} = {0, 9}

=============================================================================
