--------------------------- MODULE StreamRestorer ---------------------------
(***************************************************************************)
(* StreamRestorer (kpii/masking.py): restoring placeholders in a response  *)
(* that arrives in chunks cut anywhere, in the middle of a placeholder     *)
(* too.  A sliding buffer holds back a tail that may still become one.     *)
(*                                                                         *)
(* The upstream is external: it sends text in non-empty chunks of its own  *)
(* choice, then finishes.  push() is modelled one loop iteration at a time *)
(* (pc = "scan"); the client sees what a push returns when it returns.     *)
(***************************************************************************)
EXTENDS Placeholders

CONSTANTS
    Texts,      \* the responses considered
    Mappings    \* the mappings considered

ASSUME StreamTextsAssumption == Texts \subseteq Seq(Char)

ASSUME StreamMappingsAssumption ==
    \A m \in Mappings : \A p \in DOMAIN m : m[p] \in Seq(Char)

VARIABLES
    text,       \* the response the upstream sends, all chunks together
    mapping,    \* _mapping
    pending,    \* the part of text the upstream has not sent yet
    buffer,     \* _buffer
    out,        \* the list a running push() joins and returns
    delivered,  \* everything push() and flush() have returned
    pc          \* "idle" between calls, "scan" in push()'s loop, "closed" after flush()

vars == <<text, mapping, pending, buffer, out, delivered, pc>>

TypeOK == /\ text \in Seq(Char)
          /\ mapping \in Mappings
          /\ pending \in Seq(Char)
          /\ buffer \in Seq(Char)
          /\ out \in Seq(Char)
          /\ delivered \in Seq(Char)
          /\ pc \in {"idle", "scan", "closed"}

Passthrough == DOMAIN mapping = {}

\* PLACEHOLDER_RE.match(self._buffer)
Matches(p) == StartsAt(buffer, 1, p)

\* Mutant: no limit on what is held back.
UnboundedUndecided == buffer \in PotentialPrefix

\* Mutant: only a lone "[" at the end of a chunk is held back.
UndecidedAtOpenOnly == buffer = <<Open>>

\* is_potential_prefix(buffer) and len(buffer) <= MAX_PLACEHOLDER_LEN
Undecided == /\ buffer \in PotentialPrefix
             /\ Len(buffer) <= MaxPlaceholderLen

-----------------------------------------------------------------------------

Init == /\ text \in Texts
        /\ mapping \in Mappings
        /\ pending = text
        /\ buffer = << >>
        /\ out = << >>
        /\ delivered = << >>
        /\ pc = "idle"

\* push(chunk) is called with the next n characters: with an empty mapping it
\* returns them as they are, otherwise it appends them to the buffer.
Push(n) ==
    /\ pc = "idle"
    /\ pending' = SubSeq(pending, n + 1, Len(pending))
    /\ IF Passthrough
         THEN /\ delivered' = delivered \o SubSeq(pending, 1, n)
              /\ UNCHANGED <<buffer, pc>>
         ELSE /\ buffer' = buffer \o SubSeq(pending, 1, n)
              /\ pc' = "scan"
              /\ UNCHANGED delivered
    /\ UNCHANGED <<text, mapping, out>>

\* find("["): the n characters before the first "[" (all if there is none) are out.
EmitPlain(n) ==
    /\ pc = "scan"
    /\ \A i \in 1..n : buffer[i] # Open
    /\ n < Len(buffer) => buffer[n + 1] = Open
    /\ out' = out \o SubSeq(buffer, 1, n)
    /\ buffer' = SubSeq(buffer, n + 1, Len(buffer))
    /\ UNCHANGED <<text, mapping, pending, delivered, pc>>

\* A complete placeholder in front: its value, or itself when it has none.
EmitToken(p) ==
    /\ pc = "scan"
    /\ Matches(p)
    /\ out' = out \o ValueOf(mapping, p)
    /\ buffer' = SubSeq(buffer, Len(p) + 1, Len(buffer))
    /\ UNCHANGED <<text, mapping, pending, delivered, pc>>

\* A "[" that no placeholder can begin with: out goes that one character.
EmitOpen ==
    /\ pc = "scan"
    /\ buffer # << >>
    /\ buffer[1] = Open
    /\ \A p \in Placeholder : ~Matches(p)
    /\ ~Undecided
    /\ out' = out \o SubSeq(buffer, 1, 1)
    /\ buffer' = SubSeq(buffer, 2, Len(buffer))
    /\ UNCHANGED <<text, mapping, pending, delivered, pc>>

\* push() returns: nothing is left, or what is left may become a placeholder.
Return ==
    /\ pc = "scan"
    /\ \/ buffer = << >>
       \/ Undecided /\ \A p \in Placeholder : ~Matches(p)
    /\ delivered' = delivered \o out
    /\ out' = << >>
    /\ pc' = "idle"
    /\ UNCHANGED <<text, mapping, pending, buffer>>

\* Mutant: flush() forgets to return what is left.
FlushLosesRest ==
    /\ pc = "idle" /\ pending = << >>
    /\ buffer' = << >>
    /\ pc' = "closed"
    /\ UNCHANGED <<text, mapping, pending, out, delivered>>

\* Mutant: flush() only runs when nothing is held back.
FlushIfEmpty ==
    /\ pc = "idle" /\ pending = << >> /\ buffer = << >>
    /\ pc' = "closed"
    /\ UNCHANGED <<text, mapping, pending, buffer, out, delivered>>

\* Mutant: flush() leaves the restorer in no state push() knows.
FlushUnknownState ==
    /\ pc = "idle" /\ pending = << >>
    /\ delivered' = delivered \o buffer
    /\ buffer' = << >>
    /\ pc' = "flushed"
    /\ UNCHANGED <<text, mapping, pending, out>>

\* flush(), called when the stream has ended.
Flush ==
    /\ pc = "idle"
    /\ pending = << >>
    /\ delivered' = delivered \o buffer
    /\ buffer' = << >>
    /\ pc' = "closed"
    /\ UNCHANGED <<text, mapping, pending, out>>

Next == \/ \E n \in 1..Len(pending) : Push(n)
        \/ \E n \in 1..Len(buffer) : EmitPlain(n)
        \/ \E p \in Placeholder : EmitToken(p)
        \/ EmitOpen
        \/ Return
        \/ Flush

Spec == Init /\ [][Next]_vars

\* The upstream keeps sending until it finishes, and push() is straight-line code.
FairSpec == Spec /\ WF_vars(Next)

-----------------------------------------------------------------------------

\* Between two calls the restorer holds back nothing but an undecided "[":
\* at most MAX_PLACEHOLDER_LEN characters, none of them a complete
\* placeholder, and nothing at all when there is nothing to restore.
HeldBackOnlyIfUndecided ==
    pc = "idle" /\ buffer # << >> =>
        /\ ~Passthrough
        /\ buffer \in PotentialPrefix
        /\ Len(buffer) <= MaxPlaceholderLen
        /\ \A p \in Placeholder : ~Matches(p)

\* Chunking makes no difference: once the stream is flushed the client has
\* exactly what restore() makes of the whole text in one call.
SameAsOneShotRestore ==
    pc = "closed" => delivered = RestoredText(text, mapping)

\* The loop computes what Pushed says of the buffer it starts with: no turn
\* changes what is still to come out of it, nor what it will hold back.
ScanComputesPushed ==
    [][pc = "scan" =>
         LET was == Pushed(buffer, mapping)
             now == Pushed(buffer', mapping')
         IN  IF pc' = "scan"
             THEN out' \o now.out = out \o was.out /\ now.held = was.held
             ELSE was = [out |-> << >>, held |-> buffer']]_vars

\* A restored stream comes to its end, with nothing left in the buffer.
StreamCompletes == <>(pc = "closed" /\ buffer = << >>)

\* The restorer implements the scan of the whole text: what is held back or not
\* yet sent is still to be scanned, what a running push() has collected counts
\* as given to the client.
Abstract == INSTANCE TextRestore
              WITH rest <- buffer \o pending, done <- delivered \o out

\* The name the configurations use for the refinement.
RefinesTextRestore == Abstract!Spec

=============================================================================
