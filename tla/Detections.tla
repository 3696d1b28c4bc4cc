----------------------------- MODULE Detections -----------------------------
(***************************************************************************)
(* Detections, the policy's actions, and the order in which engine.merge   *)
(* prefers overlapping ones.  found is the list detect_l1 and, behind it,  *)
(* the NER client returned; a detection is referred to by its place in it. *)
(***************************************************************************)
EXTENDS Integers, Sequences, FiniteSets

CONSTANTS
    Entity,     \* the entity names
    ActionOf    \* policy.action_for: "block", "mask", "log_only" or "off"

Actions == {"block", "mask", "log_only", "off"}

Detection == [entity : Entity, start : Nat, end : Nat, source : {"regex", "ner"}]

ASSUME ActionAssumption == ActionOf \in [Entity -> Actions]

Length(d) == d.end - d.start

Rank(d) == IF d.source = "regex" THEN 0 ELSE 1

Overlap(d, c) == d.start < c.end /\ c.start < d.end

\* Places in found come in the order of sorted()'s key: the longer first, of
\* the same length regex first, then by start; sorted() is stable.
Before(found, i, j) ==
    LET d == found[i]
        c == found[j]
    IN  \/ Length(d) > Length(c)
        \/ Length(d) = Length(c) /\ Rank(d) < Rank(c)
        \/ Length(d) = Length(c) /\ Rank(d) = Rank(c) /\ d.start < c.start
        \/ Length(d) = Length(c) /\ Rank(d) = Rank(c) /\ d.start = c.start /\ i < j

\* The detections the policy does not switch off.
Active(found) == {i \in 1..Len(found) : ActionOf[found[i].entity] # "off"}

\* What merging keeps of the places in seen: a detection stays exactly if no
\* detection that stays goes before it and overlaps it.
Keeps(found, seen, K) ==
    /\ K \subseteq seen
    /\ \A i \in seen :
           i \in K <=> ~\E k \in K : Before(found, k, i) /\ Overlap(found[k], found[i])

\* merge of the active detections, as one operator: the places that are kept,
\* of which there is one set only.
Merged(found) == UNION {K \in SUBSET Active(found) : Keeps(found, Active(found), K)}

=============================================================================
