------------------------ MODULE PolicyLoader_proofs -------------------------
(***************************************************************************)
(* What is proved of the policy loader: for every policy file, whatever    *)
(* words it has and whatever YAML makes of them.                           *)
(***************************************************************************)
EXTENDS PolicyLoader, TLAPS

\* What has been read is what the file has for it, and what is refused has no
\* value.
ReadFromFile ==
    /\ \A i \in 1..at : policy[Order[i]] \in Values(Order[i])
    /\ start = "refused" => at < Len(Order) /\ Values(Order[at + 1]) = {}

Inv == TypeOK /\ ReadFromFile

\* The settings, one by one.
LEMMA Keys ==
    Key = {"version", "default_action", "on_internal_error", "max_scan_chars",
           "entity_action", "on_failure", "ner_enabled", "timeout_ms",
           "injection_action", "injection_enabled", "threshold"}
BY DEF Key, Section

\* from_dict reads every setting, and none twice.
LEMMA OrderIsComplete ==
    /\ Len(Order) = 11
    /\ \A i \in 1..11 : Order[i] \in Key
    /\ \A i, j \in 1..11 : Order[i] = Order[j] => i = j
    /\ \A k \in Key : \E i \in 1..11 : Order[i] = k
<1>1. Len(Order) = 11
  BY DEF Order
<1>2. /\ Order[1] = "version" /\ Order[2] = "default_action" /\ Order[3] = "entity_action"
      /\ Order[4] = "on_internal_error" /\ Order[5] = "on_failure"
      /\ Order[6] = "ner_enabled" /\ Order[7] = "timeout_ms"
      /\ Order[8] = "injection_action" /\ Order[9] = "injection_enabled"
      /\ Order[10] = "threshold" /\ Order[11] = "max_scan_chars"
  BY DEF Order
<1>3. \A i \in 1..11 : \/ i = 1 \/ i = 2 \/ i = 3 \/ i = 4 \/ i = 5 \/ i = 6
                       \/ i = 7 \/ i = 8 \/ i = 9 \/ i = 10 \/ i = 11
  OBVIOUS
<1>4. \A i \in 1..11 : Order[i] \in Key
  BY <1>2, <1>3, Keys
<1>5. \A i, j \in 1..11 : Order[i] = Order[j] => i = j
  <2> SUFFICES ASSUME NEW i \in 1..11, NEW j \in 1..11, i # j
               PROVE  Order[i] # Order[j]
    OBVIOUS
  <2>1. CASE i <= 6 /\ j <= 6
    BY <1>2, <2>1
  <2>2. CASE i <= 6 /\ j > 6
    BY <1>2, <2>2
  <2>3. CASE i > 6 /\ j <= 6
    BY <1>2, <2>3
  <2>4. CASE i > 6 /\ j > 6
    BY <1>2, <2>4
  <2>. QED  BY <2>1, <2>2, <2>3, <2>4
<1>6. \A k \in Key : \E i \in 1..11 : Order[i] = k
  BY <1>2, Keys
<1>. QED  BY <1>1, <1>4, <1>5, <1>6

\* Which settings are read as a choice, as a truth value and as a number.
LEMMA KindsOfKeys ==
    /\ ChoiceKey = {"default_action", "entity_action", "on_internal_error",
                    "on_failure", "injection_action"}
    /\ ChoiceKey \subseteq Key /\ BooleanKey \subseteq Key
    /\ ChoiceKey \cap BooleanKey = {}
    /\ NumberKey = {"version", "timeout_ms", "threshold", "max_scan_chars"}
<1>1. ChoiceKey = {"default_action", "entity_action", "on_internal_error",
                   "on_failure", "injection_action"}
  BY DEF ChoiceKey, Documented
<1>. QED  BY <1>1, Keys DEF BooleanKey, NumberKey

\* What the documentation lists for a choice setting, and the default; an entity
\* without an entry is unnamed.
LEMMA Choices ==
    /\ Documented["default_action"] = {"block", "mask", "log_only", "off"}
    /\ Documented["entity_action"] = {"block", "mask", "log_only", "off"}
    /\ Documented["on_internal_error"] = {"block", "allow"}
    /\ Documented["on_failure"] = {"degrade", "block"}
    /\ Documented["injection_action"] = {"block", "log_only"}
    /\ Default["default_action"] = "mask" /\ Default["entity_action"] = "unnamed"
    /\ Default["on_internal_error"] = "block" /\ Default["on_failure"] = "degrade"
    /\ Default["injection_action"] = "log_only"
BY DEF Documented, Default

\* "unnamed", "null" and what a Boolean is read as are no documented choices.
LEMMA DocumentedChoices ==
    ASSUME NEW k \in ChoiceKey
    PROVE  /\ "unnamed" \notin Documented[k]
           /\ "no choice" \notin Documented[k]
           /\ "null" \notin Documented[k]
<1>1. k = "default_action" \/ k = "entity_action" =>
         Documented[k] = {"block", "mask", "log_only", "off"}
  BY Choices
<1>2. k = "on_internal_error" => Documented[k] = {"block", "allow"}
  BY Choices
<1>3. k = "on_failure" => Documented[k] = {"degrade", "block"}
  BY Choices
<1>4. k = "injection_action" => Documented[k] = {"block", "log_only"}
  BY Choices
<1>5. k \in {"default_action", "entity_action", "on_internal_error",
            "on_failure", "injection_action"}
  BY KindsOfKeys
<1>6. /\ "unnamed" \notin {"block", "mask", "log_only", "off", "allow", "degrade"}
      /\ "no choice" \notin {"block", "mask", "log_only", "off", "allow", "degrade"}
      /\ "null" \notin {"block", "mask", "log_only", "off", "allow", "degrade"}
  OBVIOUS
<1>7. Documented[k] \subseteq {"block", "mask", "log_only", "off", "allow", "degrade"}
  <2>1. CASE k = "default_action" \/ k = "entity_action"
    BY <1>1, <2>1
  <2>2. CASE k = "on_internal_error"
    BY <1>2, <2>2
  <2>3. CASE k = "on_failure"
    BY <1>3, <2>3
  <2>4. CASE k = "injection_action"
    BY <1>4, <2>4
  <2>. QED  BY <1>5, <2>1, <2>2, <2>3, <2>4
<1>. QED  BY <1>6, <1>7

\* The default of a choice setting is documented, those of the others have their
\* type; only an entity is unnamed.
LEMMA Defaults ==
    /\ \A k \in ChoiceKey : Default[k] \in Documented[k] \cup ({Default[k]} \cap {"unnamed"})
    /\ \A k \in BooleanKey : Default[k] \in BOOLEAN
    /\ \A k \in NumberKey : Default[k] \in Number
    /\ Default["entity_action"] = "unnamed"
<1>1. ASSUME NEW k \in ChoiceKey
      PROVE  Default[k] \in Documented[k] \cup ({Default[k]} \cap {"unnamed"})
  <2>1. \/ k = "default_action" \/ k = "entity_action" \/ k = "on_internal_error"
        \/ k = "on_failure" \/ k = "injection_action"
    BY KindsOfKeys
  <2>. QED  BY <2>1, Choices
<1>2. ASSUME NEW k \in BooleanKey PROVE Default[k] \in BOOLEAN
  <2>1. Default["ner_enabled"] = FALSE /\ Default["injection_enabled"] = FALSE
    BY Zenon DEF Default
  <2>2. k = "ner_enabled" \/ k = "injection_enabled"
    BY DEF BooleanKey
  <2>. QED  BY <2>1, <2>2
<1>3. ASSUME NEW k \in NumberKey PROVE Default[k] \in Number
  <2>1. /\ Default["version"] = 1 /\ Default["timeout_ms"] = 300
        /\ Default["threshold"] = 2 /\ Default["max_scan_chars"] = 0
    BY DEF Default
  <2>2. k = "version" \/ k = "timeout_ms" \/ k = "threshold" \/ k = "max_scan_chars"
    BY KindsOfKeys
  <2>. QED  BY <2>1, <2>2 DEF Number
<1>. QED  BY <1>1, <1>2, <1>3, Choices

\* What a written setting may load as.
LEMMA LoadedKinds ==
    ASSUME NEW key \in Key, NEW s \in Scalar \cup {Absent}, s # Absent
    PROVE  /\ key \in ChoiceKey => Loaded(key, s) = {ChoiceOf(key, s)} \cap Documented[key]
           /\ key \in BooleanKey => Loaded(key, s) = {TruthOf(s)}
           /\ key \in NumberKey =>
                  Loaded(key, s) = {n \in IntegersOf(s) : key = "max_scan_chars" => n >= 0}
BY KindsOfKeys DEF Loaded, NumberKey

\* The section of a setting is a mapping, empty, or something else.
LEMMA Shapes ==
    ASSUME file \in File, NEW key \in Key
    PROVE  /\ Shape(key) \in {"mapping", "empty", "other"}
           /\ file.scalars[key] \in Scalar \cup {Absent}
           /\ Shape(key) = "mapping" => Values(key) = Loaded(key, file.scalars[key])
           /\ Shape(key) = "empty" => Values(key) = {Default[key]}
           /\ Shape(key) = "other" => Values(key) = {}
<1>1. Section[key] \in {"top", "entities", "ner", "injection"}
  BY Keys DEF Section
<1>2. Shape(key) \in {"mapping", "empty", "other"}
  BY <1>1 DEF Shape, File
<1>3. file.scalars[key] \in Scalar \cup {Absent}
  BY DEF File
<1>. QED  BY <1>2, <1>3 DEF Values

\* A word is no Boolean and a number at once.
LEMMA ScalarKinds ==
    ASSUME NEW s \in Scalar
    PROVE  /\ s.word \in Word /\ s.quoted \in BOOLEAN
           /\ IsBoolean(s) => BooleanOf[s.word] \in BOOLEAN
           /\ ~(s.word \in DOMAIN BooleanOf /\ s.word \in DOMAIN NumberOf)
           /\ TruthOf(s) \in BOOLEAN
<1>1. s.word \in Word /\ s.quoted \in BOOLEAN
  BY DEF Scalar
<1>2. IsBoolean(s) => BooleanOf[s.word] \in BOOLEAN
  BY WordAssumption DEF IsBoolean
<1>3. ~(s.word \in DOMAIN BooleanOf /\ s.word \in DOMAIN NumberOf)
  BY WordAssumption
<1>4. TruthOf(s) \in BOOLEAN
  <2>1. CASE IsBoolean(s)
    BY <1>2, <2>1, Zenon DEF TruthOf
  <2>2. CASE ~IsBoolean(s)
    BY <2>2, Zenon DEF TruthOf
  <2>. QED  BY <2>1, <2>2
<1>. QED  BY <1>1, <1>2, <1>3, <1>4

\* int() of a scalar.
LEMMA IntegersAre ==
    ASSUME NEW s \in Scalar
    PROVE  /\ IsBoolean(s) => IntegersOf(s) = {IF BooleanOf[s.word] THEN 1 ELSE 0}
           /\ ~IsBoolean(s) /\ s.word \in DOMAIN NumberOf =>
                  IntegersOf(s) = {NumberOf[s.word]}
           /\ ~IsBoolean(s) /\ s.word \notin DOMAIN NumberOf => IntegersOf(s) = {}
           /\ IntegersOf(s) \subseteq Number
BY DEF IntegersOf, Number

\* The values a setting may have.
LEMMA ValueType ==
    ASSUME file \in File, NEW key \in Key, NEW v \in Values(key)
    PROVE  /\ key \in ChoiceKey => v \in Documented[key] \cup ({Default[key]} \cap {"unnamed"})
           /\ key \in BooleanKey => v \in BOOLEAN
           /\ key \in NumberKey => v \in Number
<1> DEFINE s == file.scalars[key]
<1>1. CASE v = Default[key]
  BY <1>1, Defaults
<1>2. CASE v # Default[key]
  <2>1. s \in Scalar /\ s # Absent /\ v \in Loaded(key, s)
    BY <1>2, Shapes DEF Loaded
  <2> HIDE DEF s
  <2>2. CASE key \in ChoiceKey
    BY <2>1, <2>2, LoadedKinds, KindsOfKeys DEF NumberKey
  <2>3. CASE key \in BooleanKey
    BY <2>1, <2>3, LoadedKinds, ScalarKinds, KindsOfKeys DEF NumberKey
  <2>4. CASE key \in NumberKey
    BY <2>1, <2>4, LoadedKinds, IntegersAre, KindsOfKeys DEF NumberKey
  <2>. QED  BY <2>2, <2>3, <2>4
<1>. QED  BY <1>1, <1>2

LEMMA InitInv == Init => Inv
<1> SUFFICES ASSUME Init PROVE Inv
  OBVIOUS
<1>1. file \in File /\ at = 0 /\ start = "loading"
  BY FilesAssumption DEF Init
<1>2. DOMAIN policy = {} /\ 1..at = {}
  BY <1>1 DEF Init
<1>. QED  BY <1>1, <1>2, OrderIsComplete DEF Inv, TypeOK, ReadFromFile

\* Reading the next setting adds it to what has been read; refusing it changes
\* nothing that has.
LEMMA NextInv == Inv /\ [Next]_vars => Inv'
<1> SUFFICES ASSUME Inv, [Next]_vars PROVE Inv'
  OBVIOUS
<1>0. /\ file \in File /\ at \in 0..11 /\ DOMAIN policy = {Order[i] : i \in 1..at}
      /\ Len(Order) = 11
      /\ (start = "loaded") <=> (at = 11)
      /\ \A i \in 1..at : policy[Order[i]] \in Values(Order[i])
  BY OrderIsComplete DEF Inv, TypeOK, ReadFromFile
<1>1. ASSUME start = "loading", Read(Order[at + 1]) PROVE Inv'
  <2> DEFINE key == Order[at + 1]
  <2>1. at + 1 \in 1..11 /\ key \in Key
    BY <1>0, <1>1, OrderIsComplete
  <2>2. PICK v \in Values(key) :
           /\ policy' = [k \in DOMAIN policy \cup {key} |-> IF k = key THEN v ELSE policy[k]]
           /\ at' = at + 1
           /\ start' = IF at' = Len(Order) THEN "loaded" ELSE start
           /\ file' = file
    BY <1>1 DEF Read
  <2>3. \A k : Values(k)' = Values(k)
    BY <2>2 DEF Values, Shape
  <2>4. DOMAIN policy' = {Order[i] : i \in 1..at'}
    BY <1>0, <2>1, <2>2
  <2>5. ASSUME NEW i \in 1..at' PROVE policy'[Order[i]] \in Values(Order[i])
    <3>1. CASE i = at + 1
      BY <2>2, <3>1
    <3>2. CASE i # at + 1
      <4>1. i \in 1..at /\ i \in 1..11
        BY <1>0, <2>1, <2>2, <3>2
      <4>2. Order[i] # key /\ Order[i] \in DOMAIN policy
        BY <1>0, <2>1, <3>2, <4>1, OrderIsComplete
      <4>3. policy'[Order[i]] = policy[Order[i]]
        BY <2>2, <4>2
      <4>. QED  BY <1>0, <4>1, <4>3
    <3>. QED  BY <3>1, <3>2
  <2>6. ASSUME NEW k \in DOMAIN policy'
        PROVE  /\ k \in ChoiceKey =>
                     policy'[k] \in Documented[k] \cup ({Default[k]} \cap {"unnamed"})
               /\ k \in BooleanKey => policy'[k] \in BOOLEAN
               /\ k \in NumberKey => policy'[k] \in Number
    <3>1. PICK i \in 1..at' : k = Order[i]
      BY <2>4, <2>6
    <3>2. k \in Key /\ policy'[k] \in Values(k)
      BY <1>0, <2>1, <2>2, <2>5, <3>1, OrderIsComplete
    <3>. QED  BY <1>0, <3>2, ValueType
  <2>7. /\ start' \in {"loading", "loaded", "refused"}
        /\ (start' = "loaded") <=> (at' = Len(Order)) /\ at' \in 0..Len(Order)
        /\ start' # "refused"
    BY <1>0, <1>1, <2>1, <2>2
  <2>8. TypeOK'
    BY <1>0, <2>2, <2>4, <2>6, <2>7 DEF TypeOK
  <2>. QED  BY <2>3, <2>5, <2>7, <2>8 DEF Inv, ReadFromFile
<1>2. ASSUME start = "loading", Refuse(Order[at + 1]) PROVE Inv'
  <2>1. /\ file' = file /\ at' = at /\ policy' = policy /\ start' = "refused"
        /\ Values(Order[at + 1]) = {} /\ at # 11
    BY <1>0, <1>2 DEF Refuse
  <2>2. \A k : Values(k)' = Values(k)
    BY <2>1 DEF Values, Shape
  <2>3. TypeOK'
    BY <1>0, <2>1 DEF Inv, TypeOK
  <2>. QED  BY <1>0, <2>1, <2>2, <2>3 DEF Inv, ReadFromFile
<1>3. CASE UNCHANGED vars
  <2>1. \A k : Values(k)' = Values(k)
    BY <1>3 DEF vars, Values, Shape
  <2>. QED  BY <1>3, <2>1 DEF vars, Inv, TypeOK, ReadFromFile
<1>. QED  BY <1>1, <1>2, <1>3 DEF Next

\* The invariant holds throughout.
THEOREM Invariance == Spec => []Inv
BY InitInv, NextInv, PTL DEF Spec

\* The settings keep their types: no word gets through as something else.
THEOREM TypeCorrect == Spec => []TypeOK
<1>1. Inv => TypeOK
  BY DEF Inv
<1>. QED  BY <1>1, Invariance, PTL

\* A setting has a value exactly if a reader of the documentation would accept it
\* and it is no plain off.
LEMMA AcceptedIfDocumented ==
    ASSUME file \in File, NEW key \in Key
    PROVE  Values(key) # {} <=> ~Undocumented(key) /\ ~PlainOff(key)
<1> DEFINE s == file.scalars[key]
<1>1. CASE Shape(key) = "other"
  BY <1>1, Shapes DEF Undocumented
<1>2. CASE Shape(key) = "empty"
  BY <1>2, Shapes DEF Undocumented, PlainOff, Written
<1>3. CASE Shape(key) = "mapping" /\ s = Absent
  BY <1>3, Shapes DEF Undocumented, PlainOff, Written, Loaded
<1>4. CASE Shape(key) = "mapping" /\ s # Absent
  <2>1. s \in Scalar /\ Values(key) = Loaded(key, s) /\ Written(key)
    BY <1>4, Shapes DEF Written
  <2>2. /\ Undocumented(key) <=>
              \/ /\ key \in ChoiceKey
                 /\ s.word \notin Documented[key]
                 /\ key \in LoweredKey => Lower[s.word] \notin Documented[key]
              \/ /\ key \in NumberKey
                 /\ s.word \notin DOMAIN NumberOf
                 /\ s.quoted \/ s.word \notin DOMAIN BooleanOf
              \/ /\ key = "max_scan_chars"
                 /\ s.word \in DOMAIN NumberOf
                 /\ NumberOf[s.word] < 0
        /\ PlainOff(key) <=> key \in ChoiceKey /\ IsBoolean(s)
    BY <1>4, <2>1 DEF Undocumented, PlainOff
  <2> HIDE DEF s
  <2>3. CASE key \in ChoiceKey
    <3>1. key \notin NumberKey /\ key # "max_scan_chars"
      BY <2>3, KindsOfKeys DEF NumberKey
    <3>2. Values(key) # {} <=> ChoiceOf(key, s) \in Documented[key]
      BY <2>1, <2>3, LoadedKinds, <1>4
    <3>3. CASE IsBoolean(s)
      BY <2>2, <2>3, <3>2, <3>3, DocumentedChoices DEF ChoiceOf
    <3>4. CASE ~IsBoolean(s) /\ IsNull(s)
      <4>1. s.word = "null" /\ Lower[s.word] = "null"
        BY <2>1, <3>4, ScalarKinds, WordAssumption DEF IsNull
      <4>2. Values(key) = {}
        BY <2>3, <3>2, <3>4, DocumentedChoices DEF ChoiceOf
      <4>3. Undocumented(key)
        BY <2>2, <2>3, <4>1, DocumentedChoices
      <4>. QED  BY <4>2, <4>3
    <3>5. CASE ~IsBoolean(s) /\ ~IsNull(s)
      <4>1. ChoiceOf(key, s) = IF key \in LoweredKey THEN Lower[s.word] ELSE s.word
        BY <3>5 DEF ChoiceOf
      <4>2. key \in LoweredKey /\ s.word \in Documented[key] => Lower[s.word] \in Documented[key]
        <5>1. CASE key \in LoweredKey /\ s.word \in Documented[key]
          <6>1. key = "default_action" \/ key = "entity_action" \/ key = "injection_action"
            BY <5>1 DEF LoweredKey
          <6>2. s.word \in {"block", "mask", "log_only", "off"}
            BY <5>1, <6>1, Choices
          <6>. QED  BY <2>1, <5>1, <6>2, ScalarKinds, WordAssumption
        <5>. QED  BY <5>1
      <4>. QED  BY <2>2, <2>3, <3>1, <3>2, <3>5, <4>1, <4>2
    <3>. QED  BY <3>3, <3>4, <3>5
  <2>4. CASE key \in BooleanKey
    <3>1. key \notin ChoiceKey /\ key \notin NumberKey /\ key # "max_scan_chars"
      BY <2>4, KindsOfKeys DEF NumberKey, BooleanKey
    <3>2. Values(key) # {}
      BY <2>1, <2>4, <1>4, LoadedKinds
    <3>. QED  BY <2>2, <3>1, <3>2
  <2>5. CASE key \in NumberKey
    <3>1. key \notin ChoiceKey
      BY <2>5 DEF NumberKey
    <3>2. Values(key) = {n \in IntegersOf(s) : key = "max_scan_chars" => n >= 0}
      BY <2>1, <2>5, <1>4, LoadedKinds
    <3>3. CASE IsBoolean(s)
      <4>1. IntegersOf(s) = {0} \/ IntegersOf(s) = {1}
        BY <2>1, <3>3, IntegersAre
      <4>2. s.word \in DOMAIN BooleanOf /\ ~s.quoted /\ s.word \notin DOMAIN NumberOf
        BY <2>1, <3>3, ScalarKinds DEF IsBoolean
      <4>. QED  BY <2>2, <3>1, <3>2, <4>1, <4>2
    <3>4. CASE ~IsBoolean(s) /\ s.word \in DOMAIN NumberOf
      <4>1. IntegersOf(s) = {NumberOf[s.word]} /\ NumberOf[s.word] \in Int
        BY <2>1, <3>4, IntegersAre, WordAssumption
      <4>. QED  BY <2>2, <3>1, <3>2, <3>4, <4>1
    <3>5. CASE ~IsBoolean(s) /\ s.word \notin DOMAIN NumberOf
      <4>1. IntegersOf(s) = {}
        BY <2>1, <3>5, IntegersAre
      <4>. QED  BY <2>2, <2>5, <3>2, <3>5, <4>1 DEF IsBoolean
    <3>. QED  BY <3>3, <3>4, <3>5
  <2>. QED  BY <2>3, <2>4, <2>5 DEF NumberKey
<1>. QED  BY <1>1, <1>2, <1>3, <1>4, Shapes

\* The start fails for a setting that the documentation does not know, or for a
\* plain off, and for nothing else: the settings that have been read were all
\* accepted, and one that has no value ends the loading.
THEOREM RefusedForSomething == Spec => []RefusedForASetting
<1>1. Inv => RefusedForASetting
  <2> SUFFICES ASSUME Inv PROVE RefusedForASetting
    OBVIOUS
  <2>1. /\ file \in File /\ at \in 0..11 /\ Len(Order) = 11
        /\ start = "loaded" => at = 11
    BY OrderIsComplete DEF Inv, TypeOK
  <2>2. ASSUME start = "loaded", NEW k \in Key PROVE ~Undocumented(k) /\ ~PlainOff(k)
    <3>1. PICK i \in 1..at : Order[i] = k
      BY <2>1, <2>2, OrderIsComplete
    <3>2. Values(k) # {}
      BY <3>1 DEF Inv, ReadFromFile
    <3>. QED  BY <2>1, <3>2, AcceptedIfDocumented
  <2>3. ASSUME start = "refused"
        PROVE  Undocumented(Order[at + 1]) \/ PlainOff(Order[at + 1])
    <3>1. at + 1 \in 1..11 /\ Values(Order[at + 1]) = {}
      BY <2>1, <2>3 DEF Inv, ReadFromFile
    <3>2. Order[at + 1] \in Key
      BY <3>1, OrderIsComplete
    <3>. QED  BY <2>1, <3>1, <3>2, AcceptedIfDocumented
  <2>. QED  BY <2>2, <2>3 DEF RefusedForASetting
<1>. QED  BY <1>1, Invariance, PTL

\* What a written setting loads as is what it says.
LEMMA ValueIsWritten ==
    ASSUME file \in File, NEW k \in Key, NEW v \in Values(k)
    PROVE  IF ~Written(k) THEN v = Default[k] ELSE
            LET s == file.scalars[k]
            IN  /\ k \in ChoiceKey => v \in {s.word, Lower[s.word]} /\ v \in Documented[k]
                /\ k \in NumberKey /\ s.word \in DOMAIN NumberOf => v = NumberOf[s.word]
                /\ k \in NumberKey /\ s.word \in DOMAIN BooleanOf =>
                       v = IF BooleanOf[s.word] THEN 1 ELSE 0
                /\ k \in BooleanKey /\ s.word \in DOMAIN BooleanOf =>
                       v = (s.quoted \/ BooleanOf[s.word])
<1>1. CASE ~Written(k)
  BY <1>1, Shapes DEF Written, Loaded
<1>2. CASE Written(k)
  <2> DEFINE s == file.scalars[k]
  <2>1. s \in Scalar /\ s # Absent /\ v \in Loaded(k, s)
    BY <1>2, Shapes DEF Written
  <2> HIDE DEF s
  <2>2. ASSUME k \in ChoiceKey PROVE v \in {s.word, Lower[s.word]} /\ v \in Documented[k]
    <3>1. v = ChoiceOf(k, s) /\ v \in Documented[k]
      BY <2>1, <2>2, LoadedKinds
    <3>. QED  BY <2>2, <3>1, DocumentedChoices DEF ChoiceOf
  <2>3. ASSUME k \in NumberKey, s.word \in DOMAIN NumberOf PROVE v = NumberOf[s.word]
    <3>1. v \in IntegersOf(s) /\ ~IsBoolean(s)
      BY <2>1, <2>3, LoadedKinds, ScalarKinds DEF IsBoolean
    <3>. QED  BY <2>1, <2>3, <3>1, IntegersAre
  <2>4. ASSUME k \in NumberKey, s.word \in DOMAIN BooleanOf
        PROVE  v = IF BooleanOf[s.word] THEN 1 ELSE 0
    <3>1. v \in IntegersOf(s) /\ s.word \notin DOMAIN NumberOf
      BY <2>1, <2>4, LoadedKinds, ScalarKinds
    <3>2. IsBoolean(s)
      BY <2>1, <3>1, IntegersAre
    <3>. QED  BY <2>1, <3>1, <3>2, IntegersAre
  <2>5. ASSUME k \in BooleanKey, s.word \in DOMAIN BooleanOf
        PROVE  v = (s.quoted \/ BooleanOf[s.word])
    <3>1. v = TruthOf(s) /\ s.word \notin DOMAIN NumberOf /\ s.quoted \in BOOLEAN
      BY <2>1, <2>5, LoadedKinds, ScalarKinds
    <3>2. CASE s.quoted = TRUE
      <4>1. ~IsBoolean(s) /\ ~IsNumber(s) /\ ~IsNull(s)
        BY <3>2 DEF IsBoolean, IsNumber, IsNull
      <4>2. v = TRUE
        BY <3>1, <4>1 DEF TruthOf
      <4>. QED  BY <3>2, <4>2
    <3>3. CASE s.quoted = FALSE
      <4>1. IsBoolean(s) /\ BooleanOf[s.word] \in BOOLEAN
        BY <2>1, <2>5, <3>3, ScalarKinds DEF IsBoolean
      <4>2. v = BooleanOf[s.word]
        BY <3>1, <4>1 DEF TruthOf
      <4>. QED  BY <3>3, <4>1, <4>2
    <3>. QED  BY <3>1, <3>2, <3>3
  <2>. QED  BY <1>2, <2>2, <2>3, <2>4, <2>5 DEF s
<1>. QED  BY <1>1, <1>2

\* A guardrail that has started enforces what its policy file says, a quoted "off"
\* excepted, and what the file does not say is the default.
THEOREM LoadsWhatIsWritten == Spec => []LoadedAsWritten
<1>1. Inv => LoadedAsWritten
  <2> SUFFICES ASSUME Inv, start = "loaded" PROVE LoadedAsWritten
    BY DEF LoadedAsWritten
  <2>1. file \in File /\ at = 11 /\ Len(Order) = 11
    BY OrderIsComplete DEF Inv, TypeOK
  <2>2. ASSUME NEW k \in Key PROVE policy[k] \in Values(k)
    <3>1. PICK i \in 1..at : Order[i] = k
      BY <2>1, OrderIsComplete
    <3>. QED  BY <3>1 DEF Inv, ReadFromFile
  <2>3. ASSUME NEW k \in Key
        PROVE  IF ~Written(k) THEN policy[k] = Default[k] ELSE
                LET s == file.scalars[k]
                IN  /\ k \in ChoiceKey => policy[k] \in {s.word, Lower[s.word]}
                    /\ k \in NumberKey /\ s.word \in DOMAIN NumberOf =>
                           policy[k] = NumberOf[s.word]
                    /\ k \in NumberKey /\ s.word \in DOMAIN BooleanOf =>
                           policy[k] = IF BooleanOf[s.word] THEN 1 ELSE 0
                    /\ k \in BooleanKey /\ s.word \in DOMAIN BooleanOf =>
                           policy[k] = (s.quoted \/ BooleanOf[s.word])
    BY <2>1, <2>2, ValueIsWritten
  <2>4. "entity_action" \in Key /\ "entity_action" \in ChoiceKey
    BY Keys, KindsOfKeys
  <2>5. IF Written("entity_action") THEN ActionForEntity = policy.entity_action
        ELSE ActionForEntity = policy.default_action
    <3>1. CASE Written("entity_action")
      <4>1. policy.entity_action \in Documented["entity_action"]
        BY <2>1, <2>2, <2>4, <3>1, ValueIsWritten
      <4>. QED  BY <2>4, <3>1, <4>1, DocumentedChoices DEF ActionForEntity
    <3>2. CASE ~Written("entity_action")
      <4>1. policy.entity_action = "unnamed"
        BY <2>3, <2>4, <3>2, Choices
      <4>. QED  BY <3>2, <4>1 DEF ActionForEntity
    <3>. QED  BY <3>1, <3>2
  <2>. QED  BY <2>3, <2>5 DEF LoadedAsWritten
<1>. QED  BY <1>1, Invariance, PTL

=============================================================================
