----------------------------- MODULE Validators -----------------------------
(***************************************************************************)
(* The checksums of kpii/validators.py.  A number is the sequence of its   *)
(* digits, as digits_only and int() leave them.  The three checksums are   *)
(* sums of one term per digit, compared at the end.                        *)
(***************************************************************************)
EXTENDS Integers, Sequences

Digit == 0..9

Kind == {"luhn", "rrn", "brn"}

RrnWeights == <<2, 3, 4, 5, 6, 7, 8, 9, 2, 3, 4, 5>>
BrnWeights == <<1, 3, 7, 1, 3, 7, 1, 3, 5>>

\* The lengths for which a validator looks at the digits at all.
HasLength(kind, n) == CASE kind = "luhn" -> Len(n) >= 2
                        [] kind = "rrn"  -> Len(n) = 13
                        [] kind = "brn"  -> Len(n) = 10

\* Mutant: the doubled digit is taken modulo 9.
DoubledModulo(d) == (2 * d) % 9

\* A doubled digit, with its own digits added.
Doubled(d) == IF 2 * d > 9 THEN 2 * d - 9 ELSE 2 * d

\* Mutant: the ninth digit without its carry.
TermNoCarry(kind, n, i) ==
    CASE kind = "luhn" -> IF (Len(n) - i) % 2 = 1 THEN Doubled(n[i]) ELSE n[i]
      [] kind = "rrn" -> IF i = 13 THEN 0 ELSE RrnWeights[i] * n[i]
      [] kind = "brn" -> IF i = 10 THEN 0 ELSE BrnWeights[i] * n[i]

\* What the digit in place i adds to the sum; the check digits of RRN and BRN
\* add nothing.  Luhn counts from the right.
Term(kind, n, i) ==
    CASE kind = "luhn" -> IF (Len(n) - i) % 2 = 1 THEN Doubled(n[i]) ELSE n[i]
      [] kind = "rrn" -> IF i = 13 THEN 0 ELSE RrnWeights[i] * n[i]
      [] kind = "brn" -> IF i = 10 THEN 0
                         ELSE BrnWeights[i] * n[i] + (IF i = 9 THEN (5 * n[i]) \div 10 ELSE 0)

\* The comparison at the end.
Accepts(kind, n, sum) == CASE kind = "luhn" -> sum % 10 = 0
                           [] kind = "rrn"  -> (11 - (sum % 11)) % 10 = n[13]
                           [] kind = "brn"  -> (10 - (sum % 10)) % 10 = n[10]

\* The sum of all terms, and the validators luhn_valid, rrn_checksum_valid and
\* brn_checksum_valid as a whole.
TermSum(kind, n) ==
    LET upTo[i \in 0..Len(n)] == IF i = 0 THEN 0 ELSE upTo[i - 1] + Term(kind, n, i)
    IN  upTo[Len(n)]

ChecksumValid(kind, n) == HasLength(kind, n) /\ Accepts(kind, n, TermSum(kind, n))

-----------------------------------------------------------------------------

\* datetime.date accepts the date.
DateExists(year, month, day) ==
    LET leap == year % 4 = 0 /\ (year % 100 # 0 \/ year % 400 = 0)
    IN  /\ month \in 1..12
        /\ day \in 1..(CASE month = 2 -> IF leap THEN 29 ELSE 28
                         [] month \in {4, 6, 9, 11} -> 30
                         [] OTHER -> 31)

\* rrn_date_valid: the first seven digits are a date of birth that is not in
\* the future; the seventh tells the century.  today is a date as YYYYMMDD.
BirthDateValid(n, today) ==
    /\ Len(n) = 13
    /\ n[7] \in 1..8
    /\ LET year  == (IF n[7] \in {3, 4, 7, 8} THEN 2000 ELSE 1900) + 10 * n[1] + n[2]
           month == 10 * n[3] + n[4]
           day   == 10 * n[5] + n[6]
       IN  /\ DateExists(year, month, day)
           /\ 10000 * year + 100 * month + day <= today

=============================================================================
