---------------------------- MODULE PolicyLoader ----------------------------
(***************************************************************************)
(* Policy.load and from_dict (kpii/policy.py): the settings are read from  *)
(* the policy file one after the other, and the first that is refused ends *)
(* the start of the guardrail.                                             *)
(*                                                                         *)
(* A scalar is what the file says: a word, plain or quoted.  What          *)
(* yaml.safe_load makes of it is external (YAML 1.1): a quoted word is     *)
(* text, a plain one may be a Boolean ("off" is), a number or null.  A     *)
(* file that is missing, that is no YAML or holds something else than a    *)
(* mapping has a top level of no use.  Left out: ner.api_base (any value   *)
(* will do) and the second and further entities, which are read like the   *)
(* first.                                                                  *)
(***************************************************************************)
EXTENDS Integers, Sequences, FiniteSets

CONSTANTS
    Word,       \* the words of a policy file
    Lower,      \* str.lower of a word
    BooleanOf,  \* the words that are Booleans when plain, and which
    NumberOf,   \* the words that are numbers, and which
    Files       \* the policy files considered

Scalar == [word : Word, quoted : BOOLEAN]

Absent == [word |-> "", quoted |-> FALSE]

Section == [version |-> "top", default_action |-> "top", on_internal_error |-> "top",
            max_scan_chars |-> "top", entity_action |-> "entities",
            on_failure |-> "ner", ner_enabled |-> "ner", timeout_ms |-> "ner",
            injection_action |-> "injection", injection_enabled |-> "injection",
            threshold |-> "injection"]

Key == DOMAIN Section

\* A section is a mapping, or empty (missing, null, off), or some other value; so
\* is the top level, which is "other", too, if the file cannot be read.
File == [scalars : [Key -> Scalar \cup {Absent}],
         sections : [{"top", "entities", "ner", "injection"} -> {"mapping", "empty", "other"}]]

\* The numbers of a policy file are integers; str.lower leaves the actions, and
\* "null", as they are.
ASSUME WordAssumption ==
    /\ "" \notin Word
    /\ Lower \in [Word -> Word]
    /\ \A w \in Word \cap {"block", "mask", "log_only", "off", "null"} : Lower[w] = w
    /\ DOMAIN BooleanOf \subseteq Word /\ DOMAIN NumberOf \subseteq Word
    /\ BooleanOf \in [DOMAIN BooleanOf -> BOOLEAN]
    /\ NumberOf \in [DOMAIN NumberOf -> Int]
    /\ DOMAIN BooleanOf \cap DOMAIN NumberOf = {}
ASSUME FilesAssumption == Files \subseteq File

VARIABLES
    file,       \* the policy file
    at,         \* how many settings have been read
    policy,     \* the settings so far
    start       \* "loading", "loaded" or "refused"

vars == <<file, at, policy, start>>

-----------------------------------------------------------------------------

\* The order in which from_dict reads.
Order == <<"version", "default_action", "entity_action", "on_internal_error",
           "on_failure", "ner_enabled", "timeout_ms",
           "injection_action", "injection_enabled", "threshold", "max_scan_chars">>

\* The defaults; an entity that is not named has none of its own.
Default == [version |-> 1, default_action |-> "mask", on_internal_error |-> "block",
            max_scan_chars |-> 0, entity_action |-> "unnamed",
            on_failure |-> "degrade", ner_enabled |-> FALSE, timeout_ms |-> 300,
            injection_action |-> "log_only", injection_enabled |-> FALSE, threshold |-> 2]

Documented == [default_action |-> {"block", "mask", "log_only", "off"},
               entity_action |-> {"block", "mask", "log_only", "off"},
               on_internal_error |-> {"block", "allow"},
               on_failure |-> {"degrade", "block"},
               injection_action |-> {"block", "log_only"}]

ChoiceKey == DOMAIN Documented
LoweredKey == {"default_action", "entity_action", "injection_action"}
BooleanKey == {"ner_enabled", "injection_enabled"}
NumberKey == Key \ (ChoiceKey \cup BooleanKey)

\* What safe_load makes of a scalar, as far as str(), int() and bool() care.
IsBoolean(s) == ~s.quoted /\ s.word \in DOMAIN BooleanOf
IsNumber(s) == ~s.quoted /\ s.word \in DOMAIN NumberOf
IsNull(s) == ~s.quoted /\ s.word = "null"

\* str() of it, .lower() where the code has that: of a Boolean and of null it is
\* a word no setting knows ("True", "false", "None").
ChoiceOf(key, s) ==
    IF IsBoolean(s) \/ IsNull(s) THEN "no choice"
    ELSE IF key \in LoweredKey THEN Lower[s.word] ELSE s.word

\* Mutant: True is 0 as well.
IntegersOfTrue(s) ==
    IF IsBoolean(s) THEN {0}
    ELSE {NumberOf[w] : w \in {s.word} \cap DOMAIN NumberOf}

\* int() of it: a Boolean is 0 or 1, other words than numbers raise.
IntegersOf(s) ==
    IF IsBoolean(s) THEN {IF BooleanOf[s.word] THEN 1 ELSE 0}
    ELSE {NumberOf[w] : w \in {s.word} \cap DOMAIN NumberOf}

\* bool() of it: of text it is whether there is any.
TruthOf(s) ==
    IF IsBoolean(s) THEN BooleanOf[s.word]
    ELSE IF IsNumber(s) THEN NumberOf[s.word] # 0 ELSE ~IsNull(s)

\* Mutant: an entity without an action has the default one.
LoadedLenient(key, s) ==
    IF s = Absent THEN {Default[key]}
    ELSE IF key \in ChoiceKey THEN {ChoiceOf(key, s)} \cap Documented[key]
    ELSE IF key \in BooleanKey THEN {TruthOf(s)}
    ELSE {n \in IntegersOf(s) : key = "max_scan_chars" => n >= 0}

\* Mutant: any choice will do.
LoadedUnchecked(key, s) ==
    IF s = Absent THEN IF key = "entity_action" THEN {} ELSE {Default[key]}
    ELSE IF key \in ChoiceKey THEN {ChoiceOf(key, s)}
    ELSE IF key \in BooleanKey THEN {TruthOf(s)}
    ELSE {n \in IntegersOf(s) : key = "max_scan_chars" => n >= 0}

\* The value a setting of a mapping loads as, none if it is refused; an entity
\* that is there has to have an action.
Loaded(key, s) ==
    IF s = Absent THEN IF key = "entity_action" THEN {} ELSE {Default[key]}
    ELSE IF key \in ChoiceKey THEN {ChoiceOf(key, s)} \cap Documented[key]
    ELSE IF key \in BooleanKey THEN {TruthOf(s)}
    ELSE {n \in IntegersOf(s) : key = "max_scan_chars" => n >= 0}

\* The shape of what a setting is looked up in.
Shape(key) ==
    IF file.sections["top"] = "mapping" THEN file.sections[Section[key]] ELSE file.sections["top"]

\* data.get(section) or {}, and data itself: what is empty has the defaults; .get
\* or .items of another value than a mapping raises, as does reading a file.
Values(key) ==
    CASE Shape(key) = "mapping" -> Loaded(key, file.scalars[key])
      [] Shape(key) = "empty"   -> {Default[key]}
      [] Shape(key) = "other"   -> {}

Init == /\ file \in Files
        /\ at = 0
        /\ policy = << >>
        /\ start = "loading"

Read(key) ==
    \E value \in Values(key) :
        /\ policy' = [k \in DOMAIN policy \cup {key} |->
                         IF k = key THEN value ELSE policy[k]]
        /\ at' = at + 1
        /\ start' = IF at' = Len(Order) THEN "loaded" ELSE start
        /\ UNCHANGED file

Refuse(key) ==
    /\ Values(key) = {}
    /\ start' = "refused"
    /\ UNCHANGED <<file, at, policy>>

Next == /\ start = "loading"
        /\ Read(Order[at + 1]) \/ Refuse(Order[at + 1])

Spec == Init /\ [][Next]_vars

\* action_for of the entity.
ActionForEntity ==
    IF policy.entity_action = "unnamed" THEN policy.default_action ELSE policy.entity_action

-----------------------------------------------------------------------------

Number == {NumberOf[w] : w \in DOMAIN NumberOf} \cup {0, 1, 2, 300}

TypeOK ==
    /\ file \in File
    /\ at \in 0..Len(Order)
    /\ DOMAIN policy = {Order[i] : i \in 1..at}
    /\ start \in {"loading", "loaded", "refused"}
    /\ start = "loaded" <=> at = Len(Order)
    /\ \A k \in DOMAIN policy :
        /\ k \in ChoiceKey =>
               policy[k] \in Documented[k] \cup ({Default[k]} \cap {"unnamed"})
        /\ k \in BooleanKey => policy[k] \in BOOLEAN
        /\ k \in NumberKey => policy[k] \in Number

Written(key) == Shape(key) = "mapping" /\ file.scalars[key] # Absent

\* A guardrail that has started enforces what its policy file says, reading
\* words as their author does: a choice is the word, in either case where the
\* loader folds it; a number is that number and off and on are 0 and 1; a plain
\* Boolean is what it says, but a quoted one is true whatever it says; and the
\* entity's action is its own or the default one.
LoadedAsWritten ==
    start = "loaded" =>
        /\ \A k \in Key : IF ~Written(k) THEN policy[k] = Default[k] ELSE
            LET s == file.scalars[k]
            IN  /\ k \in ChoiceKey => policy[k] \in {s.word, Lower[s.word]}
                /\ k \in NumberKey /\ s.word \in DOMAIN NumberOf =>
                       policy[k] = NumberOf[s.word]
                /\ k \in NumberKey /\ s.word \in DOMAIN BooleanOf =>
                       policy[k] = IF BooleanOf[s.word] THEN 1 ELSE 0
                /\ k \in BooleanKey /\ s.word \in DOMAIN BooleanOf =>
                       policy[k] = (s.quoted \/ BooleanOf[s.word])
        /\ IF Written("entity_action") THEN ActionForEntity = policy.entity_action
           ELSE ActionForEntity = policy.default_action

\* What a reader of the documentation would refuse: a word it does not list for
\* the setting, a number that is none or too small, an entity without an action,
\* a section that is none, and a file that cannot be read or is none.
Undocumented(key) ==
    \/ Shape(key) = "other"
    \/ key = "entity_action" /\ Shape(key) = "mapping" /\ ~Written(key)
    \/ /\ Written(key)
       /\ LET s == file.scalars[key]
          IN  \/ /\ key \in ChoiceKey
                 /\ s.word \notin Documented[key]
                 /\ key \in LoweredKey => Lower[s.word] \notin Documented[key]
              \/ /\ key \in NumberKey
                 /\ s.word \notin DOMAIN NumberOf
                 /\ s.quoted \/ s.word \notin DOMAIN BooleanOf
              \/ /\ key = "max_scan_chars"
                 /\ s.word \in DOMAIN NumberOf
                 /\ NumberOf[s.word] < 0

\* An action that YAML takes for a Boolean: off, unless it is quoted.
PlainOff(key) ==
    /\ key \in ChoiceKey /\ Written(key)
    /\ IsBoolean(file.scalars[key])

\* The start fails for a file or a setting that the documentation does not know,
\* or an action that is a plain off, and for nothing else; and never half-way: what
\* is refused is known before the first request.
RefusedForASetting ==
    /\ start = "loaded" => \A k \in Key : ~Undocumented(k) /\ ~PlainOff(k)
    /\ start = "refused" => Undocumented(Order[at + 1]) \/ PlainOff(Order[at + 1])

\* What the operations guide says of the file: an action is one of block, mask,
\* log_only and off.  A file with documented settings only is not refused.
DocumentedIsAccepted == start = "refused" => \E k \in Key : Undocumented(k)

=============================================================================
