---------------------------- MODULE Placeholders ----------------------------
(***************************************************************************)
(* The placeholder language of kpii/masking.py and the one-shot restore.   *)
(*                                                                         *)
(* A text is a sequence of characters.  Placeholder is the language of     *)
(* PLACEHOLDER_RE ("[" NAME "_" one to three digits "]"), PotentialPrefix  *)
(* the language of _POTENTIAL_PREFIX_RE, which decides what a stream must  *)
(* hold back.  Both are parameters: what the restorers rely on is stated   *)
(* in the assumptions, which the two regular expressions satisfy.          *)
(***************************************************************************)
EXTENDS Rewriting

CONSTANTS
    Char,               \* the characters of a text
    Open,               \* the character "["
    Placeholder,        \* the texts PLACEHOLDER_RE matches
    PotentialPrefix,    \* the texts _POTENTIAL_PREFIX_RE matches
    MaxPlaceholderLen   \* MAX_PLACEHOLDER_LEN

\* A text with one "[", and that in front.
OpensOnce(s) == /\ Len(s) >= 1
                /\ s[1] = Open
                /\ \A i \in 2..Len(s) : s[i] # Open

ASSUME OpenAssumption == Open \in Char

\* Neither expression can match a second "[", and MAX_PLACEHOLDER_LEN (24)
\* exceeds the longest placeholder, "[DRIVER_LICENSE_999]".
ASSUME PlaceholderAssumption ==
    /\ MaxPlaceholderLen \in Nat
    /\ \A p \in Placeholder : /\ p \in Seq(Char)
                              /\ OpensOnce(p)
                              /\ Len(p) <= MaxPlaceholderLen

\* The closing "]" ends a placeholder, so none extends another.
ASSUME PrefixFreeAssumption ==
    \A p, q \in Placeholder : StartsAt(q, 1, p) => p = q

\* Every proper prefix of a placeholder is recognised as such.
ASSUME PotentialAssumption ==
    /\ \A s \in PotentialPrefix : s \in Seq(Char) /\ OpensOnce(s)
    /\ \A p \in Placeholder : \A k \in 1..(Len(p) - 1) :
           SubSeq(p, 1, k) \in PotentialPrefix

\* mapping.get(token, token)
ValueOf(mapping, p) == IF p \in DOMAIN mapping THEN mapping[p] ELSE p

\* What becomes of a placeholder.
Values(mapping) == [p \in Placeholder |-> ValueOf(mapping, p)]

\* The texts that are held back in front of what may still come:
\* _is_potential_prefix(s) and len(s) <= MAX_PLACEHOLDER_LEN.
Undecidable == {s \in PotentialPrefix : Len(s) <= MaxPlaceholderLen}

\* restore(text, mapping): re.sub replaces the matches from left to right and
\* never looks at what it has inserted.
RestoredText(text, mapping) ==
    Replacing(text, Placeholder, Values(mapping), {}).out

\* push() as a whole, for a buffer that already has the chunk: what is returned
\* and what is held back.  StreamRestorer has the loop that computes it.
Pushed(text, mapping) ==
    Replacing(text, Placeholder, Values(mapping), Undecidable)

=============================================================================
