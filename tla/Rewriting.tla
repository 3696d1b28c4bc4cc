----------------------------- MODULE Rewriting ------------------------------
(***************************************************************************)
(* Rewriting a text in one pass from left to right: what re.sub does for   *)
(* restore() in kpii/masking.py, and what push() does with its buffer.     *)
(* Texts are sequences; what their elements are is left to the modules     *)
(* that use this one.                                                      *)
(***************************************************************************)
EXTENDS Integers, Sequences

\* The text p occurs in s from position i on.
StartsAt(s, i, p) == /\ i + Len(p) <= Len(s) + 1
                     /\ \A k \in 1..Len(p) : s[i + k - 1] = p[k]

\* A pass over the places 1 to n: place i puts out piece[i] and goes on at
\* next[i], or stops if that is i itself.  Per place, n + 1 included, what is
\* put out from there on and where the pass stops.
Pass(n, next, piece) ==
    LET from[i \in 1..(n + 1)] ==
          IF i > n THEN [out |-> << >>, at |-> i]
          ELSE IF next[i] = i THEN [out |-> << >>, at |-> i]
          ELSE [out |-> piece[i] \o from[next[i]].out, at |-> from[next[i]].at]
    IN  from

\* The matches of P in a text, from left to right: behind a match the pass goes
\* on, in front of a rest that is in Stops it stops.
NextPlace(text, P, Stops) ==
    [i \in 1..Len(text) |->
        IF \E p \in P : StartsAt(text, i, p)
        THEN i + Len(CHOOSE p \in P : StartsAt(text, i, p))
        ELSE IF SubSeq(text, i, Len(text)) \in Stops THEN i ELSE i + 1]

\* A match p is replaced by value[p], any other element is copied.
PieceAt(text, P, value) ==
    [i \in 1..Len(text) |->
        IF \E p \in P : StartsAt(text, i, p)
        THEN value[CHOOSE p \in P : StartsAt(text, i, p)]
        ELSE <<text[i]>>]

\* What the pass puts out, and the rest in front of which it stops.
Replacing(text, P, value, Stops) ==
    LET end == Pass(Len(text), NextPlace(text, P, Stops), PieceAt(text, P, value))[1]
    IN  [out |-> end.out, held |-> SubSeq(text, end.at, Len(text))]

=============================================================================
