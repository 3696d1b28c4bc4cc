------------------------------ MODULE MCEngine ------------------------------
(***************************************************************************)
(* Small instance of Engine: up to three detections in a text of four      *)
(* characters, two regex entities and one of the NER, and one switched off.*)
(***************************************************************************)
EXTENDS Engine

CONSTANTS PHONE, RRN, PERSON, PASSPORT

MCEntity == {PHONE, RRN, PERSON, PASSPORT}

MCActionOf == [e \in MCEntity |-> CASE e = RRN -> "block"
                                    [] e = PASSPORT -> "off"
                                    [] OTHER -> "mask"]

\* The longest text.
TextBound == 4

Found(entities, source) ==
    {d \in [entity : entities, start : 0..TextBound, end : 0..TextBound, source : {source}] :
        d.start < d.end}

L1Found == Found({PHONE, RRN}, "regex")
NerFound == Found({PERSON}, "ner")
OffFound == {[entity |-> PASSPORT, start |-> 0, end |-> 4, source |-> "regex"],
             [entity |-> PASSPORT, start |-> 1, end |-> 2, source |-> "regex"]}

\* L1 results first, then what the NER client returned.
MCLists == {<<d>> : d \in L1Found \cup NerFound \cup OffFound}
              \cup {<<d, e>> : d \in L1Found \cup OffFound, e \in L1Found \cup NerFound}
              \cup {<<d, e, f>> : d \in L1Found \cup OffFound, e \in L1Found, f \in NerFound}
              \cup {<<d, e, f>> : d \in L1Found, e \in NerFound, f \in NerFound}

=============================================================================
