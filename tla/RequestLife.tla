----------------------------- MODULE RequestLife -----------------------------
(***************************************************************************)
(* What the guardrail promises of a request: it is refused as it came, or  *)
(* goes out once with all that is to be masked hidden and nothing in it    *)
(* that is to be blocked, and of what was hidden all that the answer has   *)
(* within reach is restored, and nothing else.  Where the guardrail may    *)
(* fail open (lenient), a request may go out unchecked, and its answer is  *)
(* then promised to show nothing that was not hidden.  A step is about one *)
(* request, and the last word on it is final.                              *)
(***************************************************************************)
CONSTANTS
    Request,    \* the requests
    ToMask,     \* what is to be masked when found
    ToBlock     \* what is to be blocked when found

VARIABLES
    lenient,    \* the guardrail may fail open
    life,       \* "open", "refused", "sent", "unchecked" or "answered"
    found,      \* what was found in a request
    hidden,     \* what was replaced in the request that went out
    reach,      \* what of that the answer repeats where it can be restored
    left        \* what is still replaced in the answer

vars == <<lenient, life, found, hidden, reach, left>>

Init == /\ lenient \in BOOLEAN
        /\ life = [r \in Request |-> "open"]
        /\ found = [r \in Request |-> {}]
        /\ hidden = [r \in Request |-> {}]
        /\ reach = [r \in Request |-> {}]
        /\ left = [r \in Request |-> {}]

\* f differs from its next value at r only.
OnlyAt(r, f, fNext) == fNext = [f EXCEPT ![r] = fNext[r]]

Refuse(r) ==
    /\ life[r] = "open"
    /\ life' = [life EXCEPT ![r] = "refused"]
    /\ OnlyAt(r, found, found')
    /\ UNCHANGED <<lenient, hidden, reach, left>>

Send(r) ==
    /\ life[r] = "open"
    /\ life' = [life EXCEPT ![r] = "sent"]
    /\ OnlyAt(r, found, found')
    /\ found'[r] \cap ToBlock = {}
    /\ hidden' = [hidden EXCEPT ![r] = found'[r] \cap ToMask]
    /\ UNCHANGED <<lenient, reach, left>>

SendUnchecked(r) ==
    /\ lenient
    /\ life[r] = "open"
    /\ life' = [life EXCEPT ![r] = "unchecked"]
    /\ OnlyAt(r, found, found')
    /\ found'[r] \cap ToBlock = {}
    /\ OnlyAt(r, hidden, hidden')
    /\ hidden'[r] \subseteq found'[r] \cap ToMask
    /\ UNCHANGED <<lenient, reach, left>>

Answer(r) ==
    /\ life[r] \in {"sent", "unchecked"}
    /\ life' = [life EXCEPT ![r] = "answered"]
    /\ OnlyAt(r, reach, reach') /\ OnlyAt(r, left, left')
    /\ reach'[r] \subseteq hidden[r] /\ left'[r] \subseteq hidden[r]
    /\ life[r] = "sent" => left'[r] = hidden[r] \ reach'[r]
    /\ UNCHANGED <<lenient, found, hidden>>

Next == \E r \in Request : Refuse(r) \/ Send(r) \/ SendUnchecked(r) \/ Answer(r)

Spec == Init /\ [][Next]_vars

=============================================================================
