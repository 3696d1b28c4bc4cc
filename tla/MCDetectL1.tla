----------------------------- MODULE MCDetectL1 -----------------------------
(***************************************************************************)
(* Small instance of DetectL1: a number with up to four characters before  *)
(* it and behind it, a window of three, a keyword of two characters, and   *)
(* the expressions that may match the same characters.                     *)
(***************************************************************************)
EXTENDS DetectL1

MCEntity == {"RRN", "CARD", "PHONE", "EMAIL", "DRIVER_LICENSE", "PASSPORT",
             "BANK_ACCOUNT", "BRN", "CREDENTIAL"}
MCActionOf == [e \in MCEntity |-> IF e \in {"RRN", "CARD", "CREDENTIAL"} THEN "block"
                                  ELSE IF e = "BRN" THEN "log_only" ELSE "mask"]
MCChar == {"k", "q", "Q", "1", " "}
MCLower == [c \in MCChar |-> IF c = "Q" THEN "q" ELSE c]
MCKeywords == [e \in ContextEntity |->
                 CASE e = "BANK_ACCOUNT" -> {<<"k", "q">>}
                   [] e = "PASSPORT" -> {<<"q", "k">>}
                   [] e = "DRIVER_LICENSE" -> {<<"k", "k">>, <<"Q", "Q", "q">>}]

Sides == UNION {[1..n -> {"k", "Q"}] : n \in 0..4}

\* A valid BRN, an RRN born in the future and one born on a leap day, a card.
ValidBrn == <<1, 2, 3, 4, 5, 6, 7, 8, 9, 1>>
FutureRrn == <<9, 9, 0, 1, 0, 1, 3, 1, 2, 3, 4, 5, 6>>
LeapRrn == <<0, 0, 0, 2, 2, 9, 3, 1, 2, 3, 4, 5, 6>>
Visa == <<4, 1, 1, 1, 1, 1, 1, 1, 1, 1, 1, 1, 1, 1, 1, 1>>

\* The digits of a match per rule, or none if the rule does not match.
Forms == {[BANK_ACCOUNT |-> ValidBrn, BRN |-> ValidBrn],
          [BANK_ACCOUNT |-> << >>, LANDLINE |-> << >>, BRN |-> [ValidBrn EXCEPT ![9] = 8]],
          [PASSPORT |-> << >>, DRIVER_LICENSE |-> << >>, CARD |-> Visa],
          [RRN |-> LeapRrn, CARD |-> LeapRrn, EMAIL |-> << >>],
          [RRN |-> FutureRrn, MOBILE |-> << >>, BANK_ACCOUNT |-> << >>, SK |-> << >>, XOX |-> << >>]}

InputOf(before, behind, form) ==
    [text |-> before \o <<"1", "1">> \o behind,
     matches |-> [rule \in Rule |->
        IF rule \in DOMAIN form
        THEN <<[start |-> Len(before), end |-> Len(before) + 2, digits |-> form[rule]]>>
        ELSE << >>]]

\* One more account at the end of the text, with a keyword beside one of the
\* two, both or none.
OneMore(x) ==
    [text |-> x.text \o <<"1">>,
     matches |-> [x.matches EXCEPT !["BANK_ACCOUNT"] =
        @ \o <<[start |-> Len(x.text), end |-> Len(x.text) + 1, digits |-> << >>]>>]]

MCInputs ==
    {InputOf(before, behind, form) : before \in Sides, behind \in Sides, form \in Forms}
      \cup {OneMore(InputOf(before, behind, [BANK_ACCOUNT |-> << >>])) :
                before \in Sides, behind \in Sides \ {<< >>}}

=============================================================================
