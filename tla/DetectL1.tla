------------------------------ MODULE DetectL1 ------------------------------
(***************************************************************************)
(* detect_l1 (kpii/detectors/regex_detectors.py): the matches of each      *)
(* regular expression are gone through in turn, and those that pass the    *)
(* gate of their entity are reported.  What merge() makes of the list is   *)
(* Merged, which Engine shows its loop to compute.                         *)
(*                                                                         *)
(* External: the regular expressions.  A match is a span of the text with  *)
(* the digits in it.                                                       *)
(***************************************************************************)
EXTENDS Detections, Validators

CONSTANTS
    Char,       \* the characters of a text
    Lower,      \* str.lower, character by character
    Space,      \* the character " "
    Keywords,   \* _CTX_PASSPORT, _CTX_DRIVER, _CTX_BANK: per entity its keywords
    Window,     \* _CTX_WINDOW
    Today,      \* datetime.date.today(), as YYYYMMDD
    Inputs      \* the texts with their matches considered

\* Mutant: BRN is tried before BANK_ACCOUNT.
RulesBrnFirst == <<"RRN", "CARD", "MOBILE", "LANDLINE", "EMAIL", "DRIVER_LICENSE",
                   "PASSPORT", "BRN", "BANK_ACCOUNT",
                   "SK", "AKIA", "GHP", "XOX", "AIZA", "PRIVATE_KEY">>

\* The expressions in the order in which they are tried, the last six being those
\* of _CREDENTIAL.
Rules == <<"RRN", "CARD", "MOBILE", "LANDLINE", "EMAIL", "DRIVER_LICENSE",
           "PASSPORT", "BANK_ACCOUNT", "BRN",
           "SK", "AKIA", "GHP", "XOX", "AIZA", "PRIVATE_KEY">>

Credential == {"SK", "AKIA", "GHP", "XOX", "AIZA", "PRIVATE_KEY"}

Rule == {"RRN", "CARD", "MOBILE", "LANDLINE", "EMAIL", "DRIVER_LICENSE",
         "PASSPORT", "BANK_ACCOUNT", "BRN"} \cup Credential

ContextEntity == {"DRIVER_LICENSE", "PASSPORT", "BANK_ACCOUNT"}

EntityOf(rule) == IF rule \in {"MOBILE", "LANDLINE"} THEN "PHONE"
                  ELSE IF rule \in Credential THEN "CREDENTIAL" ELSE rule

Match == [start : Nat, end : Nat, digits : Seq(Digit)]

ASSUME EntityAssumption == \A rule \in Rule : EntityOf(rule) \in Entity
ASSUME WindowAssumption == Window \in Nat
ASSUME LowerAssumption == Space \in Char /\ Lower \in [Char -> Char]

\* No keyword is empty or has a blank in it.
ASSUME KeywordsAssumption ==
    \A e \in ContextEntity : \A k \in Keywords[e] :
        k \in Seq(Char) /\ k # << >> /\ \A j \in DOMAIN k : Lower[k[j]] # Lower[Space]

\* finditer: matches within the text, from left to right, without overlap.
WellFormed(x) ==
    /\ x.text \in Seq(Char)
    /\ x.matches \in [Rule -> Seq(Match)]
    /\ \A rule \in Rule : \A i \in DOMAIN x.matches[rule] :
           LET m == x.matches[rule][i]
           IN  /\ m.start < m.end /\ m.end <= Len(x.text)
               /\ \A j \in 1..(i - 1) : x.matches[rule][j].end <= m.start

ASSUME InputsAssumption == \A x \in Inputs : WellFormed(x)

VARIABLES
    input,      \* the text and its matches
    turn,       \* which rule the function is at
    next,       \* which of the rule's matches comes next
    out         \* out

vars == <<input, turn, next, out>>

Max0(n) == IF n < 0 THEN 0 ELSE n
AtMost(n, bound) == IF n > bound THEN bound ELSE n

\* Keyword k occurs in h, whatever the case of its letters.
OccursIn(k, h) ==
    \E i \in 0..(Len(h) - Len(k)) : \A j \in 1..Len(k) : Lower[h[i + j]] = Lower[k[j]]

\* Mutant: the two sides are put together without a blank.
HaystackJoined(text, m) ==
    SubSeq(text, Max0(m.start - Window) + 1, m.start)
      \o SubSeq(text, m.end + 1, AtMost(m.end + Window, Len(text)))

\* What _has_context searches: the characters around a match, a blank in its place.
Haystack(text, m) ==
    SubSeq(text, Max0(m.start - Window) + 1, m.start)
      \o <<Space>> \o SubSeq(text, m.end + 1, AtMost(m.end + Window, Len(text)))

HasContext(text, m, e) == \E k \in Keywords[e] : OccursIn(k, Haystack(text, m))

\* The gates: a date of birth, the length and Luhn of a card, a keyword near,
\* the checksum of a BRN.  The others have none.
Confirmed(rule, text, m) ==
    /\ rule = "RRN" => BirthDateValid(m.digits, Today)
    /\ rule = "CARD" => Len(m.digits) \in {15, 16, 19} /\ ChecksumValid("luhn", m.digits)
    /\ rule \in ContextEntity => HasContext(text, m, rule)
    /\ rule = "BRN" => ChecksumValid("brn", m.digits)

DetectionOf(rule, m) ==
    [entity |-> EntityOf(rule), start |-> m.start, end |-> m.end, source |-> "regex"]

Init == /\ input \in Inputs
        /\ turn = 1
        /\ next = 1
        /\ out = << >>

Matches == input.matches[Rules[turn]]

\* One match of the rule.
Consider ==
    /\ turn <= Len(Rules) /\ next <= Len(Matches)
    /\ LET m == Matches[next]
       IN  out' = IF Confirmed(Rules[turn], input.text, m)
                  THEN Append(out, DetectionOf(Rules[turn], m)) ELSE out
    /\ next' = next + 1
    /\ UNCHANGED <<input, turn>>

\* Mutant: the next rule begins where this one has ended.
NextRuleKeepsPlace ==
    /\ turn <= Len(Rules) /\ next > Len(Matches)
    /\ turn' = turn + 1
    /\ UNCHANGED <<input, next, out>>

\* The rule has no more.
NextRule ==
    /\ turn <= Len(Rules) /\ next > Len(Matches)
    /\ turn' = turn + 1
    /\ next' = 1
    /\ UNCHANGED <<input, out>>

Next == Consider \/ NextRule

Spec == Init /\ [][Next]_vars

-----------------------------------------------------------------------------

\* The types, and where detect_l1 is.
TypeOK ==
    /\ WellFormed(input)
    /\ turn \in 1..(Len(Rules) + 1)
    /\ next \in Nat \ {0}
    /\ turn <= Len(Rules) => next <= Len(Matches) + 1
    /\ out \in Seq(Detection)

Done == turn > Len(Rules)

\* Keyword k stands in the text wholly before m or wholly behind it, and no
\* further away than the window.
Beside(k, text, m) ==
    \E i \in 0..(Len(text) - Len(k)) :
        /\ \A j \in 1..Len(k) : Lower[text[i + j]] = Lower[k[j]]
        /\ \/ m.start - Window <= i /\ i + Len(k) <= m.start
           \/ m.end <= i /\ i + Len(k) <= m.end + Window

\* _has_context: of an entity that needs a context, exactly those matches are
\* reported that have a keyword of the entity beside them.  A keyword that is
\* cut by the window, or put together from both sides of the match, is none.
ContextOnOneSide ==
    Done => \A e \in ContextEntity : \A i \in DOMAIN input.matches[e] :
        LET m == input.matches[e][i]
        IN  (\E d \in DOMAIN out : out[d] = DetectionOf(e, m))
              <=> \E k \in Keywords[e] : Beside(k, input.text, m)

\* detect_l1 and engine.merge: an account number may have the form of a phone
\* number or of a BRN.  Where both are confirmed for the same characters, the
\* phone number stays, and the account number rather than the BRN, provided the
\* policy does not switch it off.
TiesGoToTheFirst ==
    Done => \A i, j \in Active(out) :
        /\ out[i].start = out[j].start /\ out[i].end = out[j].end
        /\ \/ out[i].entity = "PHONE" /\ out[j].entity = "BANK_ACCOUNT"
           \/ out[i].entity = "BANK_ACCOUNT" /\ out[j].entity = "BRN"
        => j \notin Merged(out)

=============================================================================
