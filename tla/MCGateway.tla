----------------------------- MODULE MCGateway ------------------------------
(***************************************************************************)
(* Small instance of Gateway: two concurrent requests with at most two     *)
(* text fields each, policies that differ in what they do about failures.  *)
(***************************************************************************)
EXTENDS Gateway

CONSTANTS r1, r2, PHONE, RRN, BRN, PASSPORT, PERSON

MCEntity == {PHONE, RRN, BRN, PASSPORT, PERSON}

MCActionOf == [e \in MCEntity |-> CASE e = RRN -> "block"
                                    [] e = BRN -> "log_only"
                                    [] e = PASSPORT -> "off"
                                    [] OTHER -> "mask"]

Det(e, s, t, source) == [entity |-> e, start |-> s, end |-> t, source |-> source]

Plain == [l1 |-> << >>, ner |-> << >>, empty |-> FALSE, long |-> FALSE, folds |-> FALSE,
          fired |-> {}]
Empty == [Plain EXCEPT !.empty = TRUE]
\* A phone number inside what the NER takes for a longer name, and a weak signal.
Phone == [Plain EXCEPT !.l1 = <<Det(PHONE, 1, 2, "regex")>>,
                       !.ner = <<Det(PERSON, 0, 3, "ner")>>, !.fired = {<<"ROLE", 3>>}]
\* A phone number overlapping a longer business number, a switched off match, and
\* a weak signal of another category.
Mixed == [Plain EXCEPT !.l1 = <<Det(PHONE, 0, 1, "regex"), Det(PASSPORT, 0, 4, "regex"),
                                Det(BRN, 2, 4, "regex")>>, !.fired = {<<"ENCODING", 1>>}]
Rrn  == [Plain EXCEPT !.l1 = <<Det(RRN, 0, 2, "regex")>>, !.fired = {<<"ROLE", 1>>}]
\* Two weak signals of one category, and of two, the latter in full-width letters.
Weak == [Plain EXCEPT !.fired = {<<"ROLE", 3>>, <<"ROLE", 4>>}]
Hint == [Plain EXCEPT !.fired = {<<"ROLE", 3>>, <<"ENCODING", 1>>}, !.folds = TRUE]
Long == [Plain EXCEPT !.long = TRUE, !.l1 = <<Det(PHONE, 0, 1, "regex")>>]

BodyOf(fields) == [fields |-> fields, readable |-> TRUE, metadata |-> "dict"]

MCBodies == {BodyOf(<<Phone, Mixed>>), BodyOf(<<Rrn, Phone>>), BodyOf(<<Empty, Hint>>),
             BodyOf(<<Long>>), BodyOf(<< >>), [BodyOf(<<Phone, Weak>>) EXCEPT !.metadata = "null"],
             [BodyOf(<<Plain>>) EXCEPT !.readable = FALSE]}

PolicyOf(ner, onFailure, onInternalError, injection, threshold, capped) ==
    [ner |-> ner, onFailure |-> onFailure, onInternalError |-> onInternalError,
     injection |-> injection, threshold |-> threshold, capped |-> capped]

MCPolicies == {PolicyOf(FALSE, "degrade", "block", "log_only", 2, FALSE),
               PolicyOf(FALSE, "block", "allow", "block", 2, TRUE),
               PolicyOf(FALSE, "block", "block", "log_only", 0, TRUE),
               PolicyOf(TRUE, "degrade", "block", "block", 2, FALSE),
               PolicyOf(TRUE, "block", "allow", "log_only", 2, TRUE),
               PolicyOf(TRUE, "degrade", "allow", "off", 0, TRUE)}

\* For the runs about one policy and one request.
DegradePolicies == {PolicyOf(TRUE, "degrade", "block", "log_only", 2, FALSE)}

MCRequest == {r1, r2}
OneRequest == {r1}
MCSinks == Outcome
WorkingSinks == {"work"}

=============================================================================
