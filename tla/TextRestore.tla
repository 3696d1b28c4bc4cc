---------------------------- MODULE TextRestore -----------------------------
(***************************************************************************)
(* What restoring a response promises, whatever pieces it comes in: a      *)
(* left-to-right scan of the whole text in which plain text is copied and  *)
(* a placeholder of the mapping is replaced by the value it stands for,    *)
(* never copied and never cut.  The non-streaming restore() performs the   *)
(* scan in one call; StreamRestorer implements it on a chunked text.       *)
(***************************************************************************)
EXTENDS Placeholders

CONSTANTS
    Texts,      \* the responses considered
    Mappings    \* the mappings considered: functions from placeholders to texts

VARIABLES
    text,       \* the response, as the model wrote it
    mapping,    \* the mapping of the request the response belongs to
    rest,       \* the part of text still to be restored
    done        \* what the client has been given

absVars == <<text, mapping, rest, done>>

Restorable == {p \in Placeholder : p \in DOMAIN mapping}

Init == /\ text \in Texts
        /\ mapping \in Mappings
        /\ rest = text
        /\ done = << >>

\* Copy the first k characters, in which nothing to restore begins.
CopyPlain(k) ==
    /\ \A i \in 1..k : \A p \in Restorable : ~StartsAt(rest, i, p)
    /\ done' = done \o SubSeq(rest, 1, k)
    /\ rest' = SubSeq(rest, k + 1, Len(rest))
    /\ UNCHANGED <<text, mapping>>

\* Replace the placeholder in front by its value.
Substitute(p) ==
    /\ StartsAt(rest, 1, p)
    /\ done' = done \o mapping[p]
    /\ rest' = SubSeq(rest, Len(p) + 1, Len(rest))
    /\ UNCHANGED <<text, mapping>>

Next == \/ \E k \in 1..Len(rest) : CopyPlain(k)
        \/ \E p \in Restorable : Substitute(p)

Spec == Init /\ [][Next]_absVars

=============================================================================
