# A TLA+ model of the Korean PII gateway

This directory holds a formal model of the gateway in `kpii/` and
`custom_guardrails/`: TLA+ modules for its components, TLC configurations that
check them on small instances, and proofs, checked by TLAPS, of what holds for
every instance. Source lines are named per definition in `PROJECT.json`.

## 1. The system

A LiteLLM proxy calls a guardrail (`custom_guardrails/kpii_guardrail.py`) before
a request goes to the upstream model and when the response comes back. The
guardrail detects personal data in the request's text fields, refuses the
request or replaces the data by placeholders such as `[PHONE_1]`, and puts the
data back into the response.

| Component | Source | State it keeps | Operations | What makes it correct |
|---|---|---|---|---|
| Masking session | `kpii/masking.py` 25-69 | per request: counters, value -> placeholder, placeholder -> value | `mask`, `restore` | masking then restoring is exact; a placeholder means one value; offsets stay right while the text is rewritten |
| Stream restorer | `kpii/masking.py` 72-115 | per streamed choice: the buffer of what is held back | `push`, `flush` | same result as restoring the whole text, however it is cut; a bounded tail is held back |
| Detection merging | `kpii/engine.py` | none (a loop over a sorted list) | `merge`, `scan`, `scan_async` | no two kept detections overlap; the preference rule is followed |
| L1 detectors | `kpii/detectors/regex_detectors.py` | none (a list that grows) | `detect_l1` | every gate is applied; the context window is exact at its edges; of two readings the right one wins |
| Checksum validators | `kpii/validators.py` | none (a sum in a loop) | `luhn_valid`, `rrn_*`, `brn_*` | a miswritten number is told from the right one |
| Request path | `kpii/openai_gateway.py`, guardrail 78-168 | the body under way, the gathered NER calls, the verdict | `process_request(_async)`, `async_pre_call_hook` | nothing goes out unscanned; a refusal has its reason; a verdict is final |
| Non-streaming response hook | guardrail 170-187 | none | `async_post_call_success_hook` | what the hook can reach of an issued placeholder is put back |
| Streaming response hook | guardrail 189-219 | one restorer per `choice.index` | `async_post_call_streaming_iterator_hook` | choices do not disturb each other; a finished choice is complete |
| NER client | `kpii/detectors/presidio_client.py` | an HTTP client | `detect` | a failure is degraded or refused as the policy says |
| Policy | `kpii/policy.py`, `policies/default.yaml` | loaded once, immutable | `load`, `from_dict`, `action_for` | what is enforced is what the file says; what is not valid is refused at the start |
| Metrics | `kpii/metrics.py` | counters | `record_scan`, `incr_*` | they agree with what became of the requests |
| Audit log | `kpii/audit.py` | a log | `event_from_result`, `log_event` | every verdict leaves one event, and it tells the truth |
| Injection heuristics | `kpii/injection.py` | none | `detect_injection` | a request is flagged for its signals and nothing else |
| Normalisation | `kpii/normalize.py` | none | `normalize_for_detection` | what was scanned is what goes out |
| Deployment, benchmark, tests | `litellm/`, `docker-compose*.yml`, `bench/`, `tests/` | | | not modelled |

How they interact: the request hook creates a session, walks the body into
fields, has each field scanned (L1 in process; with NER one HTTP call per field,
all gathered by `asyncio.gather`), merges the detections of a field, scores the
fields for injection, and decides on the request as a whole: if anything is to be
blocked the body is not touched, otherwise every field is masked through the one
session, and the session's mapping is left in `data["metadata"]["kpii_mapping"]`.
The decision is written to the audit log and counted before it is carried out. The
response hooks take the mapping from there. Requests share only the policy, the NER
client, the metrics and the log.

What is hard here: text is rewritten in place with offsets of the text as it was
scanned; a placeholder may be cut anywhere by the upstream; choices are
interleaved in one stream; the scans of a request and of different requests
interleave at an await, fail one by one, and answer after their request has
ended; four different error policies meet in one `except` ladder; the sinks that
observe a request may fail half-way through; the same characters have several
readings, and which one wins hangs on the order of a list and the stability of a
sort; YAML has read the policy before its loader does. Each point, with its line,
is under `hazards` in `PROJECT.json`, with the properties that are about it or the
reason there is none.

## 2. The modules

| Module | Role |
|---|---|
| `Rewriting` | rewriting a text in one pass from left to right (`Pass`), and its use for the matches of a language (`Replacing`) |
| `Placeholders` | the placeholder language as a parameter, with the four assumptions that the two regular expressions satisfy; the one-shot `restore` (`RestoredText`) and `push` as one operator (`Pushed`), two passes that differ in where they stop |
| `TextRestore` | abstract specification: a left-to-right scan of a text that copies plain text and substitutes placeholders |
| `StreamRestorer` | `push` turn by turn, `flush`, passthrough; implements `TextRestore` |
| `StreamHook` | the streaming response hook: several choices, a restorer each |
| `MaskingSession` | issuing placeholders and masking the fields of a request, one detection per step |
| `Detections` | detections, the policy's actions, the preference order and the declarative `Merged` |
| `Engine` | policy filter and the greedy loop of `merge`; computes `Merged` |
| `Validators` | the checksums and the birth date as operators: one term per digit, a comparison |
| `Checksums` | the loops of the checksums, run side by side on a number and a miswritten form of it |
| `DetectL1` | `detect_l1`: rule by rule, match by match, each through the gate of its entity |
| `Injection` | weights, score and flag of the injection heuristics |
| `PolicyLoader` | `Policy.load` and `from_dict`, setting by setting, with what YAML makes of a word |
| `RequestLife` | abstract specification of requests: open, then refused, sent or sent unchecked, then answered; what is hidden, what of that an answer has within reach, and what is left |
| `Gateway` | the request path for concurrent requests, with sidecar, sinks, counters and the non-streaming response; implements `RequestLife` |
| `MC*` | small instances for TLC; `MCPlaceholders` is shared by the two stream models |
| `Lemmas` | what several proofs rest on: cutting and joining texts, the rule of `merge` (`MergedFollowsTheRule`), the laws of passes |
| `Scan_proofs` | theorems about `DetectL1` and `Engine`, one by one and joined |
| `*_proofs` | theorems about `StreamRestorer`, `StreamHook`, `MaskingSession`, `Checksums`, `PolicyLoader` and `Gateway` |

The components are checked one at a time and joined by operators. `Engine` shows the
loop of `merge` to compute `Merged` (a theorem), and `Gateway` and `DetectL1` use
`Merged`; `StreamRestorer` shows the loop of `push` to compute `Pushed` (a theorem,
too), and `StreamHook` uses `Pushed`; `Validators` is what `DetectL1` gates its
matches with and what `Checksums` steps through; `Injection` gives `Gateway` its
scores. `MaskingSession` assumes of its detections (`WellPlaced`) what `Merged`
provides (the theorem `MergeLeavesWellPlaced`), and `Gateway` takes masking a field
for what `MaskingSession` shows it to be: the detections are replaced, and can be put
back. `MaskingSession` has texts of symbols and the stream models texts of characters;
the theorem `CharactersComeBack` is what joins them.

### Correspondence with the code

* `StreamRestorer`. `buffer` is `_buffer`, `out` the local list of `push`,
  `delivered` everything returned so far, `pending` what the upstream has still to
  send. `Push(n)` is the call with the next `n` characters; `EmitPlain`,
  `EmitToken`, `EmitOpen` are the three branches of the loop that go on,
  `Return` the two that leave it.
* `StreamHook`. `restorers` is the dictionary of the hook. `RestoreChunk` is the
  whole body of the loop for one choice of a chunk: get or create the restorer,
  push the content unless it is empty, flush on a `finish_reason`. A chunk with
  several choices is several such steps. `FinishBare` is a last chunk whose delta
  is `None`, which the hook skips before it looks at the `finish_reason`.
  `PassChunk` is the path without a mapping. `End` and `Break` are a stream that
  ends with all choices finished, and with one unfinished.
* `MaskingSession`. `counters`, `valueToPh`, `phToValue` are the three
  dictionaries; `Mask(f, d)` is one turn of the loop in `mask`, with
  `_placeholder_for` inside it. The fields are masked in the order of the body,
  as `_finalize` does. A placeholder is one symbol of a text, which is shorter or
  longer than the value it replaces, so that offsets do go stale; the client may
  have written the same symbol itself. `MaxIndex` is the largest index
  `PLACEHOLDER_RE` reads back (999 in the code, 2 in the instance). `Restored` is
  `session.restore`: a pass that looks up the tokens it can read (`Read`).
* `Engine`. `found` is the list `dets`, `todo` the sorted list still to be gone
  through, `chosen` the kept ones; `LookAt` is one turn of the loop. The names of the
  state machine begin with `Merge`, so that one module can extend it together with
  `DetectL1`. `Before` is `sorted`'s key with the stability of
  the sort as its last component.
* `Checksums`. `seen` and `sum` are the loop's counter and total; Luhn goes from
  the right. `wrong` and `wrongSum` are the same loop on the miswritten number.
* `DetectL1`. `turn` is the expression the function is at, `next` the match
  `finditer` gives next, `out` the list. A match is external: a span with the digits
  in it. `Haystack` is the slice of `_has_context`, `Confirmed` the gates. The six
  expressions for credentials are six rules of one entity, and matches of different
  ones may be the same characters or overlap.
* `PolicyLoader`. `at` counts the settings read, in the order of `from_dict`;
  `policy` has the values so far. A scalar is a word, plain or quoted, and
  `IsBoolean`, `IsNumber`, `IsNull` are what `yaml.safe_load` makes of it;
  `ChoiceOf`, `IntegersOf`, `TruthOf` are `str`, `int` and `bool` of that. The first
  section, `top`, is the file as a whole: a file that is missing, is no YAML or has
  no mapping at its top is refused there, and an empty one has every default.
* `Gateway`. A handler's run between two awaits is one action: `ReceiveL1Only` the
  whole hook without NER; with NER `ReceiveNer` up to the await, `Resume` or
  `ResumeWithError` after it. `Finalize` is `_finalize` and the rest of the hook,
  in the code's order: decide, observe, raise or mask, store the mapping.
  `NerAnswers`, `NerUnavailable`, `NerMalformed` end one field's call, also after
  its request has ended. `Observe` writes the event (`events`), counts
  (`blockedTotal`, `flaggedTotal`) and lets the audit log or the metrics raise
  (`sink`), which ends the block and nothing else: the log, `record_scan` before it
  has counted the request, or a label or the injection metric behind that
  (`late_raise`). `nerFailures` is the counter of the failed calls. It is outside of
  that block, in `scan_async`: if it raises, the call ends the scan (`uncounted`), and
  the hook ends in its `except` clause. The counts of an event are modelled as the
  sets of what they count.
  `Answer` is an upstream that repeats what it was sent. Which fields it repeats where
  the hook looks, in the text of a message or the arguments of a tool call, is a free
  choice (`heard`); what it repeats elsewhere, as a text completion does, the hook
  does not touch. `Index` is the number in a placeholder and `WidePlaces` those whose
  number is above `MaxIndex` (999 in the code), which `restore` does not read. The
  values of a body are taken to be all different; that equal ones share a placeholder
  is in `MaskingSession`.

### Mutants

Operators with a comment that begins with `Mutant:` are no part of a model. Each is
a plausible mistake in the definition behind it (a dropped limit, a wrong order, a
missing reset), and is there to show that the property named with it in
`PROJECT.json` would notice.

## 3. The runs

| Run | Instance | States | What it shows |
|---|---|---|---|
| `stream_restorer` | all texts of up to 4 characters over 5, also behind a `[`, and seven longer ones; three mappings; every way of cutting | 68,924 | the client has what `restore` makes of the whole text (`SameAsOneShotRestore`), every step is a step of the abstract scan (`RefinesTextRestore`), the loop computes `Pushed`, the tail held back is bounded and undecided, the stream completes |
| `stream_hook` | two choices with five texts each, tool call arguments on one, a last chunk with and without a delta, every interleaving and cutting | 49,312 | a choice is unaffected by the other, and what the client lacks is what the choice's own restorer holds back (`OnlyTailHeldBack`); a finished choice is complete, exactly but for the two gaps below (`FinishedIsRestored`) |
| `masking_session` | two fields of up to 3 and 2 symbols over 2 characters, every set of disjoint detections of two entities; requests with a literal placeholder; up to three values where two can be read back | 81,390 | in-place masking from the right is one left-to-right substitution (`MasksWhatWasDetected`), offsets stay valid, the round trip is exact at every point but for two named losses (`RoundTrip`), dictionaries are inverse, numbers without gaps and in the order of replacement, meanings never change |
| `engine_merge` | up to three detections, regex and NER, with one entity switched off | 27,182 | kept detections are disjoint, and the loop's result is `Merged` |
| `checksums` | valid numbers with every changed digit and every exchanged pair: Luhn on numbers of two and three digits, RRN and BRN with the last two digits varied | 30,203 | which miswritten numbers are found and exactly which are not |
| `detect_l1` | a match with up to four characters on either side, a window of three, keywords of two and three, five combinations of readings, among them two expressions for credentials, a second match behind | 108,996 | a keyword counts if it stands wholly on one side and within the window (`ContextOnOneSide`); of two readings of the same characters the one of the earlier expression wins in `merge` (`TiesGoToTheFirst`) |
| `policy_loader` | every file that differs from a base file in up to two settings or sections, one of them by any of 14 words, plain or quoted, the other by an `off`, a `2` or by being left out, or in the file as a whole | 62,919 | an accepted file is enforced as its words read (`LoadedAsWritten`), a refused one has a setting to blame (`RefusedForASetting`) |
| `gateway` | two requests, seven bodies of up to two fields, six policies, four behaviours of the sinks, every outcome of every call, answers that repeat any of the fields where they are restored | 279,306 | see below |

`gateway` checks

* that a forwarded body has been scanned in every field, and that each detection of
  L1 in it is kept or met by a kept one that overlaps it (`SentIsScanned`; met is not
  covered, see below);
* that each refusal and each fail-open has the reason its marker states
  (`RefusedForAReason`). A sink that fails in the observation of a request is never
  one. The metric of a failed call is one, when it raises in a degraded scan;
* that a body refused for its content is as it was received (`RefusedBodyUntouched`);
* that in the messages of an answer only those placeholders are left whose index is
  too wide, unless the mapping could not be stored, and that outside of messages all
  are (`AnswerRestored`);
* that the counters equal the number of requests and calls they stand for, in every
  state of the interleaving, with a request counted also if its observation raised
  behind the counter (`CountersAgree`);
* that an event tells the verdict and what was replaced, also when the hook fails
  behind it (`EventTellsWhatHappened`), and that there is one for each request
  scanned to its end, whose event could be written (`EveryVerdictAudited`);
* that requests are flagged for a strong signal or weak ones of two categories in one
  field and for nothing else (`FlaggedForItsSignals`);
* that the handlers implement `RequestLife`, so that calls that answer late change no
  verdict (`RefinesRequestLife`);
* and that every request ends (`EveryRequestConcludes`).

### Where the code and its documents disagree

Four runs each refute one statement of the documents or comments by what the code
does; `findings` in `PROJECT.json` quotes each:

| Run | Statement that does not hold |
|---|---|
| `stream_hook_cut` | at the end of a stream what is left in the buffers is given out (DESIGN.md:204; only on a `finish_reason`) |
| `gateway_sidecar_fault` | a sidecar in disorder means degrading (`presidio_client.py`:4, DESIGN.md:88; an answer of unexpected shape is an internal error) |
| `gateway_forwards_raw` | the normalised text is what is forwarded (`normalize.py`:9; only where something is masked) |
| `policy_documented` | an action is one of block, mask, log_only and off (`operations.md`:12; a plain `off` is a Boolean in YAML and stops the start) |

Other disagreements are written into the properties that hold, as the exact extent
of what the code does:

* DESIGN.md:161 numbers placeholders by first appearance; the code numbers the
  values of a field from its end (`NumberedAsReplaced`).
* DESIGN.md:164 says that a placeholder in the client's own text does no harm; it
  turns into a value if the session has issued the same one (`RoundTrip`). A value
  with an index of more than three digits stays replaced (`RoundTrip`, too).
* docs/onboarding.md:32 says that streamed responses are restored; the arguments of
  tool calls are not, and what is held back is lost when the last chunk has no delta
  (`FinishedIsRestored`).
* The comment at `kpii_guardrail.py`:88, THREAT_MODEL.md:156 and docs/NOTES.md:43 have
  no failing metric influence what becomes of a request. The metric at
  `engine.py`:53 is not in the block that isolates them: if it raises, a request that
  was to be degraded ends in 500 or fails open (`RefusedForAReason`), without an event
  (`EveryVerdictAudited`).
* `openai_gateway.py`:85 masks the prompt of a text completion; the answer to one is
  not restored, since the hook looks at messages only (`AnswerRestored`).
* THREAT_MODEL.md:130 has an audit event for every request; the paths that end in
  503 and 500, and a hook that fails open on an unreadable body, leave none
  (`EveryVerdictAudited`).
* DESIGN.md:19 has nothing detected go out; a detection that loses in `merge` is
  dropped whole, with the part the winner does not cover (`MergeIsMerged`,
  `SentIsScanned`, which speaks of overlapping and not of covering).
* policies/default.yaml:24 says that two weak signals suffice; they must be of two
  categories and in one field (`FlaggedForItsSignals`).
* `kpii_blocked_requests_total` is described as the requests blocked for personal
  data, and counts those refused for injection and length as well;
  `kpii_ner_failures_total` stays 0 under `on_failure: block` (`CountersAgree`).
* `enabled: "false"`, quoted, enables (`LoadedAsWritten`).

### Bounds, and why they are enough

* Texts. A placeholder of the small language has 4 or 5 characters and the limit is
  6, so that texts of up to 10 characters reach: a placeholder cut at every
  position, one behind another, one beginning inside what looked like one, one wider
  than the index allows, a tail that outgrows the limit, and a line feed at the end
  of a tail. `TextBound` is the length up to which all texts are taken.
* Values. Mappings with no, one and two placeholders, one of whose values ends
  with `[`: what has been inserted must not be scanned again.
* Merging. Three detections are needed for one to lose to a second that itself
  loses to a third, and for ties in each component of the sort key.
* Masking. Two fields and two entities make values repeat within a field, across
  fields and across entities; three values with `MaxIndex` 2 go over the width.
* Checksums. A term depends on a digit and on its place, so that each is varied with
  every other fixed; the two digits varied at the end include the check digit and,
  for a BRN, the one with the carry.
* Context. Four characters on a side of a window of three let a keyword stand
  inside, be cut by the window, stand outside it, and be put together from both
  sides.
* Policy files. Settings are read independently of each other, and two changes show
  which of two wrong settings is refused first.
* Requests. Two requests and two fields show every order of a request's calls
  with each other and with those of another request; requests share only the
  policy and the counters. With `MaxIndex` 1 two values of an entity are enough for
  an index that is not read back, in one field and across two.

The behaviours of the models end, so the configurations switch the deadlock check
off; that they end where they should is a property where something could keep them
from it (`StreamCompletes`, `EveryRequestConcludes`).

### Fairness

`StreamRestorer` assumes weak fairness of its next-state relation: `push` and
`flush` are straight-line code, and an upstream that has not finished sends on.
`Gateway` assumes weak fairness of each request's hook (the event loop runs what is
ready), its calls and its upstream call (LiteLLM has a timeout) together: something
happens of a request as long as anything can. The timeouts of httpx are those of one
wait each, to connect, to write, or to read the next bytes, so that a sidecar which
sends a byte now and then could hold a call for ever; that a call has finitely many
waits is an assumption about the sidecar. It is never assumed that a call
succeeds. The other models
state safety only and assume none: their loops go through lists.

## 4. What is proved

All theorems are checked by TLAPS for every value of the constants, under the
`ASSUME`s of the modules, which TLC evaluates in the runs.

* `Lemmas`. The three models that rewrite texts do so by `Pass`, a recursive
  function from places to what is put out behind them. `PassFacts` shows that it has
  a value, `PassOnwards` that its pieces are texts; `PassInParts` splits a pass at a
  place it comes to, `PassesMeet` says that two passes that agree on a stretch put
  out the same there, `PassMapped` that rewriting what has been rewritten is one
  pass with each piece rewritten, `PassGivesBack` that a pass whose pieces are cut
  from the text puts out the text. The theorems on induction that take an operator
  cannot be used, so that each is shown by the last place at which it fails: a
  finite set of places that is not empty has a largest element. On these rest the
  lemmas about `Replacing`: what goes before the rest at which a pass stops may be
  replaced on its own, and the rest later, together with what has come behind it.
  `Spelled` writes a text of symbols out, symbol by symbol; it is a pass, too
  (`SpelledLaws`, `SpelledTwice`), and `ReplacingSpelled` says what `Replacing` makes of
  the text that is written out, if nothing is found in it that runs across symbols.
* `StreamRestorer_proofs`. `TypeCorrect`; `HoldsBackOnlyUndecided`; `Refinement`:
  `Spec => RefinesTextRestore`; `ChunkingMakesNoDifference`: `Spec =>
  []SameAsOneShotRestore`; `LoopComputesPushed`. Assumed: a placeholder has one `[`,
  in front, and at most `MaxPlaceholderLen` characters; none is a prefix of another;
  every proper prefix of a placeholder is recognised. The inductive invariant adds to
  type correctness that `out` is empty outside `push` (`Quiet`) and the statement
  about the buffer. The heart of the refinement is that what is emitted as plain text
  is not the beginning of a placeholder of the text *as a whole*, of which the buffer
  has only a part: were it one, the buffer would be one of its prefixes, which the
  expression recognises, or hold all of it, which matches. For the result as a whole
  the invariant is `NothingLost`: what has been given out, followed by what restoring
  would make of the buffer and all that is still to come, is at every turn what
  restoring makes of the whole text. `LoopComputesPushed` is the same for one `push`:
  no turn changes what the pass over the buffer will put out and hold back.
* `StreamHook_proofs`. `TypeCorrect`, `OnlyTailIsHeldBack`, `FinishedAreRestored`, for
  any number of choices with any texts, cut and interleaved in any way, and every
  mapping. That the client's part and the tail held back are the restored text is not
  inductive: the tail may become a placeholder. The invariant `Restores` has it for
  every continuation instead (`Continues`): whatever text follows, what the client
  has, followed by the tail and that text restored, is all of it restored. The theorem
  is the case in which nothing follows, since a tail restores to itself
  (`TailUnchanged`). A chunk moves characters from one side to the other
  (`ScanContinues`), a `finish_reason` takes the empty continuation, and the other
  choices keep what they have (`OtherChoice`).
* `MaskingSession_proofs`. `TypeCorrect`, `OffsetsValid`, `PlaceholdersUnambiguous`,
  `Numbering`, `MeaningKept`, `NumberedInOrder`, `MaskedWhatWasDetected`,
  `MaskThenRestore` (`Spec => []RoundTrip`), for every request with well placed
  detections. The invariant has to contain all of it at once: that a new placeholder
  is new follows from the numbering, the numbering from the dictionaries being
  inverse, and offsets stay valid because of what is still to be replaced everything
  lies left of what has been. For the order of the numbers a second invariant
  (`Order`) says that each turn adds one place, behind all places where something has
  been replaced before, and that no placeholder is without one. It is proved along
  with `MasksWhatWasDetected`, which is inductive with it: the front of a field, up to
  where something has been replaced, is as it was (`FrontIsCopied`), so that cutting
  the span out of the rewritten field and out of the text that was scanned is the same
  (`OneMoreRewritten`), and a placeholder given once stays (`MeaningKept`). The round
  trip is then no more than restoring a pass (`RestoredRewritten`, by `PassMapped`):
  each placeholder restores to its span or, if it is too wide, to itself.
  `RestorableComesBack` is the corollary a user would ask for: a field in which the
  client wrote no placeholder of the session, of a session with no more values than
  can be read back, comes back exactly as it was. `MergeLeavesWellPlaced` discharges
  the assumption on requests for what `merge` leaves of detections that are spans of
  their text.
  `CharactersComeBack` takes back the one liberty of the module, that a placeholder is
  one symbol. For every way of writing symbols with characters that is like the code's
  (`Writes`: one `[` per placeholder, in front; no placeholder begins another; no two
  tokens alike; a token with a wider index is not matched, nor the beginning of one
  that is) `restore` on the characters of a masked field, which is `Replacing` as in
  `RestoredText`, gives the characters of `Restored` on its symbols; and so for a
  restorable field the characters that came in. The fields must be read as the
  expression reads them (`NothingElse`): what it finds among their characters is one
  symbol each. What the client wrote can always be read so, with a placeholder that the
  session cannot issue, such as `[FOO_1]`, for a symbol of its own (a detection that
  begins or ends inside a placeholder the client wrote is outside the model). That
  masking keeps it so (`ReplacedHasNothingElse`) is the point: where text has been cut
  out and a placeholder put in, the characters left and right of it never make up
  another, since across the seam there would be a second `[`. The lemma behind it
  (`RestoresCharacters`) is about any text, an answer of the upstream included. With
  `ChunkingMakesNoDifference`, in which the text that is streamed is arbitrary, a
  response that repeats a masked field reads as the field did, however it is cut.
* `MergedFollowsTheRule`, in `Lemmas`: for every list of detections and every
  policy exactly one set of detections follows the rule of `merge`, so that `Merged`,
  which chooses one, is well defined. `Before` is a strict total order, the place in
  the list being its last component. A set that is right for what goes before a
  detection can be made right for the detection too (`OneMorePlace`); a set that is
  right for as much as possible, which exists because the list is finite, is
  therefore right for all of it (`RuleCanBeFollowed`). Two sets that follow the rule
  cannot differ, as there would be a first detection at which they do
  (`RuleHasOneOutcome`). Both take the smallest element of a finite set, for which
  the library's theorem on strict subsets serves, and need no induction over lists.
* `Checksums_proofs`. `TypeCorrect`, `ChangesDetected`, `ExchangesDetected`, for
  numbers of every length. The invariant relates the two sums at every turn: they
  are equal until the loop comes to the changed place, and differ by the difference
  of the terms behind it. What remains is arithmetic of single digits, split into
  its cases.
* `Scan_proofs`, on the two halves of `scan` and on what they are together.
  `MergeTypeCorrect`, `MergeIsDisjoint`, `LoopComputesMerged`, for every list of
  detections and every policy. Invariant: what has been looked at goes before what
  has not in the order of the sort (`SeenGoFirst`), so that a detection's fate
  depends on what is already decided only (`KeepsThePreferred`); a turn of the loop
  is `OneMorePlace`. At the end `chosen` follows the rule for the whole list, and by
  `MergedFollowsTheRule` it is `Merged`.
  `TypeCorrect`, `ContextDecides`, `TiesToTheFirst`. For every text, window and set of
  keywords without blanks, a match is reported exactly if a keyword stands wholly on
  one side of it and within the window. One half is about sequences: an occurrence in
  `Haystack` cannot contain the blank, so it lies in one of the slices, and an index of
  a slice is an index of the text. The other is an invariant: of the rules behind the
  loop all and only the confirmed matches are in `out`. For the ties: `out` is in the
  order of the expressions, so that of two readings of the same characters the earlier
  is preferred, and whatever makes `merge` drop it makes it drop the later one, the
  preference being transitive (`SameSpanLoses`).
  `ScanKeepsTheFirst` is about the two loops, one behind the other: when `merge` has
  been handed (`Handed`) the list of `detect_l1` with anything from the NER client
  behind it, which is how `scan` and `scan_async` build it, the later of two readings
  is not in `chosen`. It needs more than `TiesToTheFirst`, which is about the list of
  `detect_l1` alone: a detection of NER may drop the preferred reading, and then it
  drops the other, too.
* `PolicyLoader_proofs`. `TypeCorrect`, `LoadsWhatIsWritten`, `RefusedForSomething`,
  for every policy file of the modelled settings, and for whatever YAML makes of its
  words. Invariant (`ReadFromFile`): every setting read so far has a value that the
  code can make of its scalar, and the settings are read in an order without gaps
  (`OrderIsComplete`). `AcceptedIfDocumented` is the lemma behind the second
  property: a setting has a value exactly if its word is documented and it is not a
  plain `off`; `ValueIsWritten` is the one behind the first. The proofs need more of
  the words than a run shows (`WordAssumption`): that lowering leaves the words the
  code compares with as they are, and that a number YAML reads is an integer.
* `Gateway_proofs`. `TypeCorrect`, `RefusedUntouched`, `AnswersRestored`,
  `SentScanned`, `RefusedForReasons`, `EventsTellTheTruth`, `VerdictsAudited`,
  `CountersRight`, `FlagsRight`, and `Refinement`: `Spec => RefinesRequestLife`, for
  any number of requests, fields, policies and entities. The invariant `Inv` is type
  correctness and, of each request, `Core`, `Told` and `Scanned`. `Core`: before its
  verdict nothing has been said of a request (`Waiting`), after it status, body and
  mapping belong together (`Judged`), the answer shows what was masked but for what
  the mapping gives back within reach (`Answered`), and what is kept is what a scan
  can leave. `Told`: the calls explain what `gather` raises,
  an uncounted one included, and none is under way when a scan has gone well (`Calls`), a marker has its reason
  (`Reasoned`), and the events are what they should be (`Audited`). `Calls` is what
  carries it: a call that ends after the verdict could only change the reasons and the
  events of a request without an error, and such a request has no call under way.
  `Scanned`: of a request that went out as checked no scan has failed, no signal
  refuses it, and every detection of L1 is kept or met by one that is, because `merge`
  drops a detection only for one that overlaps it (`MergedFollowsTheRule` again). The
  counters have invariants of their own: each is the number of elements of a set (the
  calls that failed and were counted, the refused requests whose observation came to
  the counter) that is finite and grows by at most one element with each step. What a request is flagged
  for is arithmetic over the six categories of signals. A step of one request leaves
  the others as they are (`OthersSame`), so that each action is looked at for one
  request only.

The proof modules of the two stream models extend `Lemmas` and through it
`Detections`; the constants of that module and `ActionAssumption` play no part in
their theorems.

Only model-checked: the two liveness properties, `StreamCompletes` and
`EveryRequestConcludes`, which are outside TLAPS. Every invariant, action property
and refinement that a passing run checks is also a theorem. The runs that refute a
statement have no theorem: a counterexample needs none. What the regular
expressions match and what YAML reads are parameters, with what is assumed of them
in an `ASSUME` each; that the expressions satisfy the assumptions is read off them
and not proved.

## 5. What is not modelled, and the plan

* The regular expressions of L1 and of the injection heuristics, and Unicode
  normalisation: they match and map characters, one by one. The models take matches,
  patterns that fire and whether normalisation changes a field as their input.
* The NER client's connection pool and the arithmetic of the spans it is sent. The
  pool belongs to httpx, and a call that times out at any moment is modelled.
* The fields of an audit event that identify a request, `ner_degraded`, which is
  never set, the labels and the latency of the metrics, the wording of messages:
  records that nothing reads.
* The non-streaming response hook's walk over the choices of a response: which parts
  of it the walk comes to is a free choice of `Answer`.
* Deployment files, the benchmark, the tests' utilities and the fake upstream: not
  part of the running gateway.

What is left of the plan, in order: `MaskingSession` composed with `Gateway`, so that
the texts of a request go with it through the hook and back; the spans of the sidecar
beyond the text, with what Python's slices make of them.
