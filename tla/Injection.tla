------------------------------ MODULE Injection ------------------------------
(***************************************************************************)
(* The prompt injection heuristics of kpii/injection.py.  Which patterns   *)
(* of a category match a text is external: a text comes with the set of    *)
(* those that fire, as <<category, place in the list>>.                    *)
(***************************************************************************)
EXTENDS Integers, Sequences

\* _PATTERNS: the weights of the patterns of a category, 2 a strong and 1 a
\* weak signal.
Weights == [OVERRIDE |-> <<2, 2>>, EXFIL |-> <<2, 2>>, DELIM |-> <<2, 2>>,
            ROLE |-> <<2, 2, 1, 1>>, SUPPRESS |-> <<2, 2, 1, 1>>, ENCODING |-> <<1, 1>>]

Category == {"OVERRIDE", "EXFIL", "DELIM", "ROLE", "SUPPRESS", "ENCODING"}

Pattern == UNION {{c} \X (1..Len(Weights[c])) : c \in Category}

\* A pattern of category c and weight w is among those that fire.
Fires(fired, c, w) == \E i \in 1..Len(Weights[c]) : <<c, i>> \in fired /\ Weights[c][i] = w

\* Mutant: every weight that fires counts, not only the highest.
MaxWeightSummed(fired, c) ==
    LET n(i) == IF i \in 1..Len(Weights[c]) /\ <<c, i>> \in fired THEN Weights[c][i] ELSE 0
    IN  n(1) + n(2) + n(3) + n(4)

\* max(weights) of a category, 0 if none of its patterns fires.
MaxWeight(fired, c) == IF Fires(fired, c, 2) THEN 2 ELSE IF Fires(fired, c, 1) THEN 1 ELSE 0

\* detect_injection: the score of a text.
Score(fired) == MaxWeight(fired, "OVERRIDE") + MaxWeight(fired, "EXFIL")
              + MaxWeight(fired, "DELIM") + MaxWeight(fired, "ROLE")
              + MaxWeight(fired, "SUPPRESS") + MaxWeight(fired, "ENCODING")

=============================================================================
