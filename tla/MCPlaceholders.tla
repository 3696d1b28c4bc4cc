--------------------------- MODULE MCPlaceholders ---------------------------
(***************************************************************************)
(* A small placeholder language.  One entity name "A", so that the         *)
(* placeholders are [A1] and [A11] (index of one or two digits); [A111] is *)
(* beyond the index width.  "n" stands for a line feed: it is the other    *)
(* character of the texts, and the one that the $ of _POTENTIAL_PREFIX_RE  *)
(* still accepts behind a prefix.                                          *)
(***************************************************************************)
EXTENDS Integers, Sequences, TLC

MCChar == {"[", "A", "1", "]", "n"}

MCPlaceholder == {<<"[", "A", "1", "]">>, <<"[", "A", "1", "1", "]">>}

\* MAX_PLACEHOLDER_LEN, one more than the longest placeholder.
MCMaxPlaceholderLen == 6

TextsUpTo(n) == UNION {[1..k -> MCChar] : k \in 0..n}

Run(c, n) == [i \in 1..n |-> c]

\* "[" letters* digits{0,2} "]"? and the line feed that $ lets pass, as long as
\* the longest text.
MCPotentialPrefix ==
    {<<"[">> \o Run("A", a) \o Run("1", d) \o Run("]", c) \o Run("n", e) :
        a \in 0..9, d \in 0..2, c \in 0..1, e \in 0..1}

\* Nothing masked; one value, itself with a "[" at its end, and a placeholder
\* the expression cannot match; two values.
MCMappings == {
    << >>,
    (<<"[", "A", "1", "]">> :> <<"n", "[">>)
        @@ (<<"[", "A", "1", "1", "1", "]">> :> <<"A">>),
    (<<"[", "A", "1", "]">> :> <<"1">>)
        @@ (<<"[", "A", "1", "1", "]">> :> <<"A", "]">>) }

=============================================================================
