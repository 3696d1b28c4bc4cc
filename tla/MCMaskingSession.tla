-------------------------- MODULE MCMaskingSession --------------------------
(***************************************************************************)
(* Small instance of MaskingSession: two fields, two characters, two       *)
(* entities.  Three values of an entity may come up, one more than the     *)
(* index width lets restore() read; some requests have a placeholder that  *)
(* the client wrote itself.                                                *)
(***************************************************************************)
EXTENDS MaskingSession

CONSTANTS a, b, PHONE, NAME

MCChar == {a, b}
MCEntity == {PHONE, NAME}
MCActionOf == [e \in MCEntity |-> "mask"]

Spans(n, entities) ==
    {d \in [entity : entities, start : 0..n, end : 0..n, source : {"regex"}] :
        d.start < d.end}

\* The fields with a text of the given lengths and any detections merge leaves.
Fields(alphabet, lengths, entities) ==
    UNION {{[text |-> t, detections |-> D] :
                t \in [1..n -> alphabet],
                D \in {E \in SUBSET Spans(n, entities) : WellPlaced(E, [i \in 1..n |-> 0])}} :
           n \in lengths}

\* A first field of up to three characters, a second of up to two.
PlainRequests ==
    {<<x, y>> : x \in Fields(MCChar, 0..3, MCEntity), y \in Fields(MCChar, 1..2, MCEntity)}

\* Three symbols, one of which may be the literal [PHONE_1], and two characters.
LiteralRequests ==
    {<<x, y>> : x \in Fields({a, [entity |-> PHONE, n |-> 1]}, {3}, {PHONE}),
                y \in Fields(MCChar, {2}, {PHONE})}

MCRequests == PlainRequests \cup LiteralRequests

=============================================================================
