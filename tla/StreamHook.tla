----------------------------- MODULE StreamHook -----------------------------
(***************************************************************************)
(* async_post_call_streaming_iterator_hook (kpii_guardrail.py): a response *)
(* of several choices streamed in chunks, restored with one                *)
(* StreamRestorer per choice.index.  What push() does to a buffer is       *)
(* Pushed, which StreamRestorer shows its loop to compute.                 *)
(*                                                                         *)
(* The choices of one chunk are handled one after the other, so a chunk    *)
(* here has one choice, and one part of it: its content, or the arguments  *)
(* of a tool call, which the hook passes on.  Chunks without choices (the  *)
(* usage) change nothing and are left out.                                 *)
(*                                                                         *)
(* External: the upstream.  It sends a choice in chunks of its own choice, *)
(* marks its last one with a finish_reason, and may break off before.  The *)
(* delta of the last one may be missing.                                   *)
(***************************************************************************)
EXTENDS Placeholders, SequencesExt

CONSTANTS
    Index,      \* the values of choice.index
    Responses,  \* the responses considered: per choice and part its text
    Mappings    \* the mappings considered: data["metadata"]["kpii_mapping"]

Part == {"content", "arguments"}

ASSUME ResponsesAssumption == Responses \subseteq [Index \X Part -> Seq(Char)]

ASSUME HookMappingsAssumption ==
    \A m \in Mappings : \A p \in DOMAIN m : m[p] \in Seq(Char)

VARIABLES
    response,   \* what the model writes, all chunks together
    mapping,    \* the mapping of the request
    pending,    \* the part of response that has not been sent
    restorers,  \* restorers: per choice seen the buffer of its StreamRestorer
    delivered,  \* what the client has been given
    finished,   \* the choices whose finish_reason has come
    bare,       \* those of them whose last chunk had no delta
    stream      \* "open", "complete" or "cut"

vars == <<response, mapping, pending, restorers, delivered, finished, bare, stream>>

TypeOK == /\ response \in [Index \X Part -> Seq(Char)]
          /\ mapping \in Mappings
          /\ pending \in [Index \X Part -> Seq(Char)]
          /\ DOMAIN restorers \subseteq Index
          /\ \A c \in DOMAIN restorers : restorers[c] \in Seq(Char)
          /\ delivered \in [Index \X Part -> Seq(Char)]
          /\ finished \subseteq Index /\ bare \subseteq finished
          /\ stream \in {"open", "complete", "cut"}

Passthrough == DOMAIN mapping = {}

\* Mutant: one restorer for all choices.
HeldBackShared(c) ==
    IF DOMAIN restorers = {} THEN << >>
    ELSE restorers[CHOOSE d \in DOMAIN restorers : TRUE]

\* The buffer of restorers.get(idx), or that of a new restorer.
HeldBack(c) == IF c \in DOMAIN restorers THEN restorers[c] ELSE << >>

\* Mutant: no flush when the choice finishes.
ScannedUnflushed(c, content, finish) ==
    IF content = << >> THEN [out |-> << >>, held |-> HeldBack(c)]
                       ELSE Pushed(HeldBack(c) \o content, mapping)

\* What the delta's content becomes and what the restorer keeps: push() unless
\* the content is empty, and flush() behind it on a finish_reason.
Scanned(c, content, finish) ==
    LET pushed == IF content = << >>
                  THEN [out |-> << >>, held |-> HeldBack(c)]
                  ELSE Pushed(HeldBack(c) \o content, mapping)
    IN  IF finish THEN [out |-> pushed.out \o pushed.held, held |-> << >>] ELSE pushed

-----------------------------------------------------------------------------

Init == /\ response \in Responses
        /\ mapping \in Mappings
        /\ pending = response
        /\ restorers = << >>
        /\ delivered = [cp \in Index \X Part |-> << >>]
        /\ finished = {} /\ bare = {}
        /\ stream = "open"

\* The upstream sends the next n characters of a part of choice c, with or
\* without a finish_reason; chunk is what the hook sees.
Sends(c, part, n, finish) ==
    /\ stream = "open"
    /\ c \notin finished
    /\ pending' = [pending EXCEPT ![<<c, part>>] = SubSeq(@, n + 1, Len(@))]
    /\ finish => \A p \in Part : pending'[<<c, p>>] = << >>
    /\ finished' = IF finish THEN finished \cup {c} ELSE finished

\* The hook without a mapping: every chunk as it is.
PassChunk(c, part, n, finish) ==
    /\ Passthrough
    /\ Sends(c, part, n, finish)
    /\ delivered' = [delivered EXCEPT ![<<c, part>>] =
                        @ \o SubSeq(pending[<<c, part>>], 1, n)]
    /\ UNCHANGED <<response, mapping, restorers, bare, stream>>

\* The hook with a mapping: only the content goes through the restorer of the
\* choice, which any chunk of the choice creates and a finish_reason flushes.
RestoreChunk(c, part, n, finish) ==
    LET sent == SubSeq(pending[<<c, part>>], 1, n)
        scan == Scanned(c, IF part = "content" THEN sent ELSE << >>, finish)
    IN  /\ ~Passthrough
        /\ Sends(c, part, n, finish)
        /\ restorers' = [d \in DOMAIN restorers \cup {c} |->
                            IF d = c THEN scan.held ELSE restorers[d]]
        /\ delivered' = [delivered EXCEPT
                            ![<<c, "content">>] = @ \o scan.out,
                            ![<<c, "arguments">>] =
                                IF part = "arguments" THEN @ \o sent ELSE @]
        /\ UNCHANGED <<response, mapping, bare, stream>>

\* A finish_reason in a chunk whose delta is None: the hook continues with the
\* next choice before it comes to flush().
FinishBare(c) ==
    /\ stream = "open"
    /\ c \notin finished
    /\ \A p \in Part : pending[<<c, p>>] = << >>
    /\ finished' = finished \cup {c}
    /\ bare' = bare \cup {c}
    /\ UNCHANGED <<response, mapping, pending, restorers, delivered, stream>>

\* Mutant: the hook ends in no state it knows.
EndUnknownState ==
    /\ stream = "open" /\ finished = Index
    /\ stream' = "done"
    /\ UNCHANGED <<response, mapping, pending, restorers, delivered, finished, bare>>

\* The stream ends when all choices have finished.
End == /\ stream = "open"
       /\ finished = Index
       /\ stream' = "complete"
       /\ UNCHANGED <<response, mapping, pending, restorers, delivered, finished, bare>>

\* It ends with a choice unfinished: the loop is over, and so is the hook.
Break == /\ stream = "open"
         /\ finished # Index
         /\ stream' = "cut"
         /\ UNCHANGED <<response, mapping, pending, restorers, delivered, finished, bare>>

Next == \/ \E c \in Index, part \in Part, finish \in BOOLEAN :
              \E n \in 0..Len(pending[<<c, part>>]) :
                  \/ PassChunk(c, part, n, finish)
                  \/ RestoreChunk(c, part, n, finish)
        \/ \E c \in Index : FinishBare(c)
        \/ End
        \/ Break

Spec == Init /\ [][Next]_vars

-----------------------------------------------------------------------------

\* What the upstream has sent of a part.
Sent(c, part) ==
    LET all == response[<<c, part>>]
    IN  SubSeq(all, 1, Len(all) - Len(pending[<<c, part>>]))

\* Between two chunks the client has everything that has been sent of a choice,
\* restored, but for the characters that the choice's own restorer holds back;
\* what the chunks of the other choices did makes no difference.
OnlyTailHeldBack ==
    \A c \in Index :
        delivered[<<c, "content">>] \o HeldBack(c)
            = RestoredText(Sent(c, "content"), mapping)

\* A choice that has finished is there as a whole, whatever the others do, but
\* for what its restorer held back when its last chunk came without a delta.
\* Arguments of a tool call are there as they were sent: their placeholders are
\* not restored.
FinishedIsRestored ==
    \A c \in finished :
        /\ delivered[<<c, "content">>] \o HeldBack(c)
              = RestoredText(response[<<c, "content">>], mapping)
        /\ HeldBack(c) # << >> => c \in bare
        /\ delivered[<<c, "arguments">>] = response[<<c, "arguments">>]

\* Section 5.3 of the design: when the stream ends, what is left in the buffers
\* is given out.
NothingLeftAtEnd == stream # "open" => \A c \in Index : HeldBack(c) = << >>

=============================================================================
