------------------------------- MODULE Engine -------------------------------
(***************************************************************************)
(* The end of scan_async (kpii/engine.py): what detectors found in a text  *)
(* is filtered by the policy and merged into detections that do not        *)
(* overlap.  merge() is modelled one detection at a time, in sorted order. *)
(* The names of the state machine begin with Merge, so that it can stand   *)
(* beside DetectL1, whose list scan() hands to it.                         *)
(***************************************************************************)
EXTENDS Detections

CONSTANT Lists      \* the lists of detections considered

ASSUME ListsAssumption == Lists \subseteq Seq(Detection)

VARIABLES
    found,      \* dets: the list the detectors returned
    todo,       \* order: the places merge() has not looked at yet
    chosen      \* chosen: the places it keeps

mergeVars == <<found, todo, chosen>>

MergeTypeOK ==
    /\ found \in Seq(Detection)
    /\ todo \subseteq Active(found)
    /\ chosen \subseteq Active(found)

\* Mutant: what the policy switches off is merged as well.
MergeInitUnfiltered ==
    /\ found \in Lists
    /\ todo = 1..Len(found)
    /\ chosen = {}

MergeInit ==
    /\ found \in Lists
    /\ todo = Active(found)
    /\ chosen = {}

\* Mutant: only a detection within a chosen one is skipped.
LookAtNested(i) ==
    /\ \A j \in todo \ {i} : Before(found, i, j)
    /\ todo' = todo \ {i}
    /\ chosen' = IF \E c \in chosen : /\ found[c].start <= found[i].start
                                     /\ found[i].end <= found[c].end
                 THEN chosen
                 ELSE chosen \cup {i}
    /\ UNCHANGED found

\* Mutant: unsorted.
LookAtUnsorted(i) ==
    /\ todo' = todo \ {i}
    /\ chosen' = IF \E c \in chosen : Overlap(found[i], found[c])
                 THEN chosen
                 ELSE chosen \cup {i}
    /\ UNCHANGED found

\* The next one in sorted order is kept, unless it overlaps one that is.
LookAt(i) ==
    /\ \A j \in todo \ {i} : Before(found, i, j)
    /\ todo' = todo \ {i}
    /\ chosen' = IF \E c \in chosen : Overlap(found[i], found[c])
                 THEN chosen
                 ELSE chosen \cup {i}
    /\ UNCHANGED found

MergeNext == \E i \in todo : LookAt(i)

MergeSpec == MergeInit /\ [][MergeNext]_mergeVars

-----------------------------------------------------------------------------

MergeDone == todo = {}

\* What is kept never overlaps: mask() can use the offsets one by one.
ChosenDisjoint ==
    \A i, j \in chosen : i # j => ~Overlap(found[i], found[j])

\* The loop keeps exactly what the preference rule says: a detection is dropped
\* if and only if it overlaps one that is kept and goes before it.  The outcome is
\* a function of the list of detections, the one that the modules which use
\* merge() as a whole refer to.
MergeIsMerged == MergeDone => chosen = Merged(found)

=============================================================================
