-------------------------- MODULE MCStreamRestorer --------------------------
(***************************************************************************)
(* Small instance of StreamRestorer: every text of up to TextBound         *)
(* characters, also behind a "[", and some longer ones, cut in every       *)
(* possible way.                                                           *)
(***************************************************************************)
EXTENDS StreamRestorer, MCPlaceholders

\* The longest of the enumerated texts.
TextBound == 4

LongTexts == {
    <<"[", "A", "A", "A", "A", "A", "A", "1", "]">>,
    <<"[", "A", "A", "A", "A", "A", "[", "A", "1", "]">>,
    <<"[", "A", "1", "]", "[", "A", "1", "1", "]">>,
    <<"n", "[", "[", "A", "1", "]", "1", "]">>,
    <<"[", "A", "1", "1", "1", "]", "[", "A", "1">>,
    <<"[", "A", "n", "A", "[", "A", "1", "]", "n">>,
    <<"[", "A", "[", "A", "1", "]", "1", "1", "]">> }

MCTexts == TextsUpTo(TextBound) \cup {<<"[">> \o t : t \in TextsUpTo(TextBound)}
             \cup LongTexts

=============================================================================
