----------------------------- MODULE MCChecksums -----------------------------
(***************************************************************************)
(* Small instance of Checksums: valid numbers, and every way to change a   *)
(* digit or to exchange two neighbours.  Luhn on every number of two       *)
(* digits and on some of three, RRN and BRN on numbers with the last two   *)
(* digits varied, the check digit among them.                              *)
(***************************************************************************)
EXTENDS Checksums

Numbers(length, places, base) ==
    {[i \in 1..length |-> IF i \in places THEN d[i] ELSE base] : d \in [places -> Digit]}

\* The ways to miswrite n: a digit more by k, or two neighbours exchanged.
Changed(n, p, k) == [n EXCEPT ![p] = (@ + k) % 10]
Swapped(n, p) == [n EXCEPT ![p] = n[p + 1], ![p + 1] = n[p]]
Miswritten(n, ks) == {Changed(n, p, k) : p \in 1..Len(n), k \in ks}
                       \cup {Swapped(n, p) : p \in 1..(Len(n) - 1)}

InputsOf(kind_, numbers, ks) ==
    UNION {{[kind |-> kind_, number |-> n, wrong |-> w] : w \in Miswritten(n, ks)} :
           n \in numbers}

\* The numbers of the given digits that are valid.
Valid(kind_, numbers) == {n \in numbers : ChecksumValid(kind_, n)}

MCInputs ==
    InputsOf("luhn", Valid("luhn", [1..2 -> Digit] \cup [1..3 -> {0, 1, 4, 5, 8, 9}]), 1..9)
      \cup InputsOf("brn", Valid("brn", Numbers(10, {9, 10}, 4)), 1..9)
      \cup InputsOf("rrn", Valid("rrn", Numbers(13, {12, 13}, 1)), 1..9)

=============================================================================
