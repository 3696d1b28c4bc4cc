-------------------------- MODULE StreamHook_proofs --------------------------
(***************************************************************************)
(* What is proved of StreamHook for every placeholder language, set of     *)
(* choices, responses and mappings, and for every way in which the chunks  *)
(* of the choices are cut and interleaved.                                 *)
(***************************************************************************)
EXTENDS StreamHook, Lemmas

LEMMA JoinIsAssociative ==
    \A s, t, u \in Seq(Char) : s \o (t \o u) = (s \o t) \o u
BY ConcatAssociative

\* The start of a join, with the end cut off.
LEMMA EndCutOff ==
    ASSUME NEW s \in Seq(Char), NEW t \in Seq(Char)
    PROVE  /\ SubSeq(s \o t, 1, Len(s \o t) - Len(t)) = s
           /\ s \o t \in Seq(Char)
<1>1. /\ Len(s) \in Nat /\ Len(t) \in Nat /\ Len(s) \in 0..Len(s)
      /\ s \o t \in Seq(Char) /\ Len(s \o t) = Len(s) + Len(t)
  BY LenProperties, ConcatProperties
<1>2. SubSeq(s \o t, 1, Len(s)) = SubSeq(s, 1, Len(s)) /\ SubSeq(s, 1, Len(s)) = s
  BY <1>1, CutOfJoin, SubSeqFull
<1>3. Len(s \o t) - Len(t) = Len(s)
  BY <1>1
<1>. QED  BY <1>1, <1>2, <1>3

\* A placeholder is a text, begins with "[" and has no other, and is not empty.
LEMMA PlaceholderShape ==
    ASSUME NEW p \in Placeholder
    PROVE  /\ p \in Seq(Char)
           /\ Len(p) \in Nat \ {0}
           /\ Len(p) <= MaxPlaceholderLen
           /\ p[1] = Open
<1>1. Len(p) \in Nat
  BY PlaceholderAssumption, LenProperties
<1>. QED  BY <1>1, PlaceholderAssumption DEF OpensOnce

\* Placeholders can be looked for, and replaced as the mapping says.
LEMMA PlaceholdersAreFindable == Findable(Char, Placeholder)
<1>1. \A p \in Placeholder : p \in Seq(Char) /\ Len(p) >= 1
  BY PlaceholderShape
<1>. QED  BY <1>1, PrefixFreeAssumption DEF Findable

LEMMA MappingReplaces ==
    ASSUME mapping \in Mappings
    PROVE  Replaceable(Char, Placeholder, Values(mapping))
<1>1. ASSUME NEW p \in Placeholder PROVE Values(mapping)[p] \in Seq(Char)
  <2>1. Values(mapping)[p] = ValueOf(mapping, p)
    BY DEF Values
  <2>2. ValueOf(mapping, p) \in Seq(Char)
    BY PlaceholderShape, HookMappingsAssumption DEF ValueOf
  <2>. QED  BY <2>1, <2>2
<1>. QED  BY <1>1, PlaceholdersAreFindable DEF Replaceable

\* push() stops in time: it holds back whatever may still become a placeholder.
LEMMA UndecidableInTime == StopsInTime(Char, Placeholder, Undecidable)
<1>1. ASSUME NEW p \in Placeholder, NEW k \in 1..(Len(p) - 1)
      PROVE  SubSeq(p, 1, k) \in Undecidable
  <2>1. SubSeq(p, 1, k) \in PotentialPrefix
    BY PotentialAssumption
  <2>2. /\ p \in Seq(Char) /\ Len(p) \in Nat /\ Len(p) <= MaxPlaceholderLen
        /\ MaxPlaceholderLen \in Nat
    BY PlaceholderShape, PlaceholderAssumption
  <2>3. k \in 0..Len(p) /\ k <= MaxPlaceholderLen
    BY <2>2
  <2>4. Len(SubSeq(p, 1, k)) = k
    BY <2>2, <2>3, CutProperties
  <2>. QED  BY <2>1, <2>3, <2>4 DEF Undecidable
<1>. QED  BY <1>1, PlaceholdersAreFindable, PrefixesSuffice

\* What restoring makes of a text is a text; of no text, none.
LEMMA RestoredIsText ==
    ASSUME mapping \in Mappings
    PROVE  /\ \A t \in Seq(Char) : RestoredText(t, mapping) \in Seq(Char)
           /\ RestoredText(<< >>, mapping) = << >>
<1> DEFINE value == Values(mapping)
<1>1. /\ Replaceable(Char, Placeholder, value)
      /\ \A t : RestoredText(t, mapping) = Replacing(t, Placeholder, value, {}).out
  BY MappingReplaces DEF RestoredText
<1> HIDE DEF value
<1>2. Replacing(<< >>, Placeholder, value, {}).out = << >>
  BY <1>1, ReplacingNothing
<1>3. \A t \in Seq(Char) : Replacing(t, Placeholder, value, {}).out \in Seq(Char)
  BY <1>1, ReplacingType
<1>. QED  BY <1>1, <1>2, <1>3

\* When the mapping is empty restoring changes nothing.
LEMMA NothingToRestore ==
    ASSUME mapping \in Mappings, Passthrough
    PROVE  \A t \in Seq(Char) : RestoredText(t, mapping) = t
<1> DEFINE value == Values(mapping)
<1>1. /\ Replaceable(Char, Placeholder, value)
      /\ \A t : RestoredText(t, mapping) = Replacing(t, Placeholder, value, {}).out
      /\ \A p \in Placeholder : value[p] = p
  BY MappingReplaces DEF RestoredText, Values, ValueOf, Passthrough
<1> HIDE DEF value
<1>. QED  BY <1>1, ReplacingBySelf

\* What a restorer may hold back: nothing, or what may still become a placeholder.
HeldTail(b) == b = << >> \/ (b \in Undecidable /\ ~FoundAt(b, 1, Placeholder))

\* A tail has no placeholder in it, so that restoring does not change it.
LEMMA TailUnchanged ==
    ASSUME mapping \in Mappings, NEW b \in Seq(Char), HeldTail(b)
    PROVE  RestoredText(b, mapping) = b
<1> DEFINE value == Values(mapping)
<1>1. /\ Replaceable(Char, Placeholder, value)
      /\ RestoredText(b, mapping) = Replacing(b, Placeholder, value, {}).out
  BY MappingReplaces DEF RestoredText
<1>2. CASE b = << >>
  BY <1>2, RestoredIsText
<1>3. CASE b # << >>
  <2>1. /\ ~FoundAt(b, 1, Placeholder)
        /\ \A i \in 2..Len(b) : b[i] # Open
    BY <1>3, PotentialAssumption DEF HeldTail, Undecidable, OpensOnce
  <2>2. Len(b) \in Nat
    BY LenProperties
  <2>3. ASSUME NEW i \in 1..Len(b) PROVE ~FoundAt(b, i, Placeholder)
    <3> SUFFICES ASSUME NEW p \in Placeholder, StartsAt(b, i, p) PROVE FALSE
      BY DEF FoundAt
    <3>1. Len(p) \in Nat \ {0} /\ p[1] = Open
      BY PlaceholderShape
    <3>2. b[i + 1 - 1] = p[1] /\ i + 1 - 1 = i
      BY <2>2, <3>1 DEF StartsAt
    <3>3. i = 1
      BY <2>1, <2>2, <3>1, <3>2
    <3>. QED  BY <2>1, <3>3 DEF FoundAt
  <2> HIDE DEF value
  <2>. QED  BY <1>1, <2>3, ReplacingNowhere
<1>. QED  BY <1>2, <1>3

\* push(): what it returns and what it holds back; with more text behind it comes
\* what restoring makes of the whole.
LEMMA PushedEffect ==
    ASSUME mapping \in Mappings, NEW t \in Seq(Char)
    PROVE  /\ Pushed(t, mapping).out \in Seq(Char)
           /\ Pushed(t, mapping).held \in Seq(Char)
           /\ HeldTail(Pushed(t, mapping).held)
           /\ \A x \in Seq(Char) :
                  Pushed(t, mapping).out \o RestoredText(Pushed(t, mapping).held \o x, mapping)
                    = RestoredText(t \o x, mapping)
<1> DEFINE value == Values(mapping)
           R == Replacing(t, Placeholder, value, Undecidable)
           W(u) == Replacing(u, Placeholder, value, {}).out
<1>1. /\ Replaceable(Char, Placeholder, value)
      /\ Pushed(t, mapping) = R
      /\ \A u : RestoredText(u, mapping) = W(u)
  BY MappingReplaces DEF RestoredText, Pushed
<1> HIDE DEF value
<1>2. /\ R.out \in Seq(Char) /\ R.held \in Seq(Char)
      /\ \/ R.held = << >>
         \/ R.held \in Undecidable /\ ~FoundAt(R.held, 1, Placeholder)
  BY <1>1, ReplacingType
<1>3. ASSUME NEW x \in Seq(Char) PROVE R.out \o W(R.held \o x) = W(t \o x)
  <2>1. Replaceable(Char, Placeholder, value) /\ StopsInTime(Char, Placeholder, Undecidable)
    BY <1>1, UndecidableInTime
  <2>2. Continued(t, x, Placeholder, value, Undecidable)
    BY <2>1, ReplacingInPieces
  <2>. QED  BY <2>2 DEF Continued
<1> HIDE DEF R, W
<1>. QED  BY <1>1, <1>2, <1>3 DEF HeldTail

-----------------------------------------------------------------------------

\* What has not been sent of a part is the end of it.
PendingIsRest ==
    \A c \in Index, p \in Part :
        \E s \in Seq(Char) : response[<<c, p>>] = s \o pending[<<c, p>>]

\* Of the text sent the client has given, and held is what the restorer holds
\* back: whatever comes next, the two together are the restored text.
Continues(given, held, sent) ==
    \A x \in Seq(Char) : Joined(given, RestoredText(Joined(held, x), mapping))
                           = RestoredText(Joined(sent, x), mapping)

\* What the client has of a choice: the arguments as they were sent; without a
\* mapping the content too; with one the content restored, but for the tail that
\* is held back, and that whatever is still to come.  When the choice has
\* finished, all of it has been sent, and a tail is left by a bare chunk only.
Restores(c) ==
    LET given == delivered[<<c, "content">>]
    IN  /\ delivered[<<c, "arguments">>] = Sent(c, "arguments")
        /\ c \in finished => \A p \in Part : pending[<<c, p>>] = << >>
        /\ IF Passthrough
           THEN HeldBack(c) = << >> /\ given = Sent(c, "content")
           ELSE /\ HeldTail(HeldBack(c))
                /\ c \notin finished => Continues(given, HeldBack(c), Sent(c, "content"))
                /\ c \in finished =>
                       /\ given \o HeldBack(c)
                            = RestoredText(response[<<c, "content">>], mapping)
                       /\ HeldBack(c) # << >> => c \in bare

Inv == TypeOK /\ PendingIsRest /\ \A c \in Index : Restores(c)

\* What has been sent, and what has not.
LEMMA SentAndPending ==
    ASSUME TypeOK, PendingIsRest, NEW c \in Index, NEW p \in Part
    PROVE  /\ Sent(c, p) \in Seq(Char)
           /\ pending[<<c, p>>] \in Seq(Char)
           /\ response[<<c, p>>] = Sent(c, p) \o pending[<<c, p>>]
           /\ HeldBack(c) \in Seq(Char)
           /\ delivered[<<c, p>>] \in Seq(Char)
<1> DEFINE r == response[<<c, p>>]
           t == pending[<<c, p>>]
<1>1. /\ t \in Seq(Char) /\ delivered[<<c, p>>] \in Seq(Char)
      /\ <<c, p>> \in Index \X Part
  BY DEF TypeOK
<1>2. PICK s \in Seq(Char) : r = s \o t
  BY DEF PendingIsRest
<1>3. Sent(c, p) = SubSeq(r, 1, Len(r) - Len(t))
  BY DEF Sent
<1>4. HeldBack(c) \in Seq(Char)
  BY EmptySeq DEF TypeOK, HeldBack
<1> HIDE DEF r, t
<1>5. Sent(c, p) = s
  BY <1>1, <1>2, <1>3, EndCutOff
<1>. QED  BY <1>1, <1>2, <1>4, <1>5 DEF r, t

\* What is not yet sent of the response is not longer than what was.
LEMMA SentOf ==
    ASSUME NEW c, NEW p, NEW s \in Seq(Char), NEW t \in Seq(Char),
           response[<<c, p>>] = s \o t, pending[<<c, p>>] = t
    PROVE  Sent(c, p) = s
BY EndCutOff DEF Sent

\* Sending n characters of a part: they are added to what has been sent of it,
\* and nothing else changes.
LEMMA SendsEffect ==
    ASSUME TypeOK, PendingIsRest, response' = response,
           NEW c \in Index, NEW part \in Part, NEW finish \in BOOLEAN,
           NEW n \in 0..Len(pending[<<c, part>>]), Sends(c, part, n, finish)
    PROVE  /\ PendingIsRest'
           /\ pending' \in [Index \X Part -> Seq(Char)]
           /\ SubSeq(pending[<<c, part>>], 1, n) \in Seq(Char)
           /\ Sent(c, part)' = Sent(c, part) \o SubSeq(pending[<<c, part>>], 1, n)
           /\ \A d \in Index, p \in Part : <<d, p>> # <<c, part>> =>
                  /\ Sent(d, p)' = Sent(d, p)
                  /\ pending'[<<d, p>>] = pending[<<d, p>>]
<1> DEFINE t == pending[<<c, part>>]
           sent == SubSeq(t, 1, n)
           later == SubSeq(t, n + 1, Len(t))
           s == Sent(c, part)
           r == response[<<c, part>>]
<1>1. s \in Seq(Char) /\ t \in Seq(Char) /\ r = s \o t
  BY SentAndPending
<1>2. sent \in Seq(Char) /\ later \in Seq(Char) /\ sent \o later = t
  <2>1. n \in 0..Len(t)
    OBVIOUS
  <2> HIDE DEF t
  <2>. QED  BY <1>1, <2>1, CutProperties, CutAndJoin
<1>3. /\ pending \in [Index \X Part -> Seq(Char)]
      /\ pending' = [pending EXCEPT ![<<c, part>>] = later]
      /\ <<c, part>> \in Index \X Part
  BY DEF Sends, TypeOK
<1> HIDE DEF sent, later
<1>4. /\ pending' \in [Index \X Part -> Seq(Char)]
      /\ pending'[<<c, part>>] = later
      /\ \A d \in Index, p \in Part : <<d, p>> # <<c, part>> =>
             pending'[<<d, p>>] = pending[<<d, p>>]
  BY <1>2, <1>3
<1> DEFINE s2 == s \o sent
<1>5. s2 \in Seq(Char) /\ r = s2 \o later
  <2> HIDE DEF s, r, t
  <2>1. s2 \in Seq(Char)
    BY <1>1, <1>2, ConcatProperties
  <2>2. s \o (sent \o later) = (s \o sent) \o later
    BY <1>1, <1>2, JoinIsAssociative
  <2>. QED  BY <1>1, <1>2, <2>1, <2>2
<1> HIDE DEF s2
<1>6. Sent(c, part)' = s2
  <2>1. Sent(c, part)' = SubSeq(r, 1, Len(r) - Len(later))
    BY <1>4 DEF Sent
  <2> HIDE DEF r
  <2>. QED  BY <1>2, <1>5, <2>1, EndCutOff
<1>7. ASSUME NEW d \in Index, NEW p \in Part, <<d, p>> # <<c, part>>
      PROVE  Sent(d, p)' = Sent(d, p)
  BY <1>4, <1>7 DEF Sent
<1>8. PendingIsRest'
  <2> SUFFICES ASSUME NEW d \in Index, NEW p \in Part
               PROVE  \E q \in Seq(Char) : response[<<d, p>>] = q \o pending'[<<d, p>>]
    BY DEF PendingIsRest
  <2>1. CASE <<d, p>> = <<c, part>>
    <3>1. response[<<d, p>>] = s2 \o pending'[<<d, p>>]
      BY <1>4, <1>5, <2>1
    <3>. QED  BY <1>5, <3>1
  <2>2. CASE <<d, p>> # <<c, part>>
    BY <1>4, <2>2 DEF PendingIsRest
  <2>. QED  BY <2>1, <2>2
<1>. QED  BY <1>2, <1>4, <1>6, <1>7, <1>8 DEF s2, s, sent, t

\* A choice of which nothing changes stays as it is.
LEMMA OtherChoice ==
    ASSUME NEW d \in Index, Restores(d), mapping' = mapping, response' = response,
           HeldBack(d)' = HeldBack(d),
           d \in finished' <=> d \in finished, d \in bare => d \in bare',
           \A p \in Part : /\ delivered'[<<d, p>>] = delivered[<<d, p>>]
                           /\ pending'[<<d, p>>] = pending[<<d, p>>]
                           /\ Sent(d, p)' = Sent(d, p)
    PROVE  Restores(d)'
<1>1. "content" \in Part /\ "arguments" \in Part
  BY DEF Part
<1>2. Passthrough' <=> Passthrough
  BY DEF Passthrough
<1>4. Continues(delivered[<<d, "content">>], HeldBack(d), Sent(d, "content"))
        => Continues(delivered[<<d, "content">>], HeldBack(d), Sent(d, "content"))'
  BY <1>1 DEF Continues
<1>. QED  BY <1>1, <1>2, <1>4 DEF Restores

LEMMA InitInv == Init => Inv
<1> SUFFICES ASSUME Init PROVE Inv
  OBVIOUS
<1>1. response \in [Index \X Part -> Seq(Char)] /\ << >> \in Seq(Char)
  BY ResponsesAssumption, EmptySeq DEF Init
<1>2. TypeOK
  BY <1>1 DEF Init, TypeOK
<1>3. ASSUME NEW c \in Index, NEW p \in Part
      PROVE  /\ response[<<c, p>>] = << >> \o pending[<<c, p>>]
             /\ Sent(c, p) = << >>
  <2> DEFINE t == pending[<<c, p>>]
  <2>1. t = response[<<c, p>>] /\ t \in Seq(Char)
    BY <1>1 DEF Init
  <2>2. << >> \o t = t
    <3> HIDE DEF t
    <3>. QED  BY <2>1, ConcatEmptySeq
  <2>3. response[<<c, p>>] = << >> \o t /\ pending[<<c, p>>] = t
    BY <2>1, <2>2
  <2> HIDE DEF t
  <2>. QED  BY <1>1, <2>1, <2>3, SentOf
<1>4. PendingIsRest
  BY <1>1, <1>3 DEF PendingIsRest
<1>5. ASSUME NEW c \in Index PROVE Restores(c)
  <2>1. /\ "content" \in Part /\ "arguments" \in Part
        /\ Sent(c, "content") = << >> /\ Sent(c, "arguments") = << >>
    BY <1>3 DEF Part
  <2>2. /\ delivered[<<c, "content">>] = << >> /\ delivered[<<c, "arguments">>] = << >>
        /\ HeldBack(c) = << >> /\ c \notin finished
    BY <2>1 DEF Init, HeldBack
  <2>3. ASSUME NEW x \in Seq(Char)
        PROVE  << >> \o RestoredText(<< >> \o x, mapping) = RestoredText(<< >> \o x, mapping)
    <3> DEFINE u == RestoredText(x, mapping)
    <3>1. << >> \o x = x /\ u \in Seq(Char)
      BY ConcatEmptySeq, RestoredIsText DEF Init
    <3> HIDE DEF u
    <3>2. << >> \o u = u
      BY <3>1, ConcatEmptySeq
    <3>. QED  BY <3>1, <3>2 DEF u
  <2>4. Continues(<< >>, << >>, << >>)
    BY <2>3 DEF Continues, Joined
  <2>. QED  BY <2>1, <2>2, <2>4 DEF Restores, HeldTail
<1>. QED  BY <1>2, <1>4, <1>5 DEF Inv

\* Joining, by its name.
LEMMA JoinedLaws ==
    /\ \A a, b \in Seq(Char) : Joined(a, b) \in Seq(Char)
    /\ \A a, b, d \in Seq(Char) : Joined(a, Joined(b, d)) = Joined(Joined(a, b), d)
    /\ \A a \in Seq(Char) : Joined(a, << >>) = a /\ Joined(<< >>, a) = a
    /\ << >> \in Seq(Char)
<1>1. \A a, b \in Seq(Char) : Joined(a, b) \in Seq(Char)
  BY ConcatProperties DEF Joined
<1>2. \A a, b, d \in Seq(Char) : Joined(a, Joined(b, d)) = Joined(Joined(a, b), d)
  BY JoinIsAssociative DEF Joined
<1>3. \A a \in Seq(Char) : Joined(a, << >>) = a /\ Joined(<< >>, a) = a
  BY ConcatEmptySeq DEF Joined
<1>. QED  BY <1>1, <1>2, <1>3, EmptySeq

\* What push() makes of what was held back and of new content continues what the
\* client already has.
LEMMA ScanContinues ==
    ASSUME mapping \in Mappings,
           NEW held \in Seq(Char), NEW sent \in Seq(Char), NEW given \in Seq(Char),
           NEW content \in Seq(Char), NEW o \in Seq(Char), NEW h \in Seq(Char),
           Continues(given, held, sent), Continues(o, h, Joined(held, content))
    PROVE  Continues(Joined(given, o), h, Joined(sent, content))
<1> SUFFICES ASSUME NEW x \in Seq(Char)
             PROVE  Joined(Joined(given, o), RestoredText(Joined(h, x), mapping))
                      = RestoredText(Joined(Joined(sent, content), x), mapping)
  BY DEF Continues
<1> DEFINE y == Joined(content, x)
           u == RestoredText(Joined(h, x), mapping)
<1>1. y \in Seq(Char) /\ u \in Seq(Char)
  BY JoinedLaws, RestoredIsText
<1>2. /\ Joined(Joined(held, content), x) = Joined(held, y)
      /\ Joined(Joined(sent, content), x) = Joined(sent, y)
      /\ Joined(Joined(given, o), u) = Joined(given, Joined(o, u))
  BY <1>1, JoinedLaws
<1>3. Joined(o, u) = RestoredText(Joined(held, y), mapping)
  BY <1>2 DEF Continues
<1>4. Joined(given, RestoredText(Joined(held, y), mapping))
        = RestoredText(Joined(sent, y), mapping)
  BY <1>1 DEF Continues
<1>. QED  BY <1>2, <1>3, <1>4

\* A chunk of a choice that has not finished: what the restorer makes of its
\* content continues what the client has of the choice, and a finish_reason
\* completes it.
LEMMA ScannedEffect ==
    ASSUME mapping \in Mappings, NEW c, HeldBack(c) \in Seq(Char), HeldTail(HeldBack(c)),
           NEW sent \in Seq(Char), NEW given \in Seq(Char),
           Continues(given, HeldBack(c), sent),
           NEW content \in Seq(Char), NEW finish \in BOOLEAN
    PROVE  LET scan == Scanned(c, content, finish)
               s == Joined(sent, content)
           IN  /\ scan.out \in Seq(Char) /\ scan.held \in Seq(Char) /\ HeldTail(scan.held)
               /\ ~finish => Continues(Joined(given, scan.out), scan.held, s)
               /\ finish => /\ scan.held = << >>
                            /\ Joined(given, scan.out) = RestoredText(s, mapping)
<1> DEFINE held == HeldBack(c)
           scan == Scanned(c, content, finish)
           s == Joined(sent, content)
           t == held \o content
           pushed == IF content = << >> THEN [out |-> << >>, held |-> held]
                                        ELSE Pushed(t, mapping)
           o == pushed.out
           h == pushed.held
<1>p. /\ finish => scan.out = o \o h /\ scan.held = << >>
      /\ ~finish => scan.out = o /\ scan.held = h
  BY DEF Scanned
<1>2. /\ o \in Seq(Char) /\ h \in Seq(Char) /\ HeldTail(h)
      /\ Continues(o, h, Joined(held, content))
  <2>1. CASE content = << >>
    <3>1. o = << >> /\ h = held
      BY <2>1
    <3> HIDE DEF o, h
    <3>2. Joined(held, content) = held
      BY <2>1, JoinedLaws
    <3>3. Continues(<< >>, held, held)
      <4> SUFFICES ASSUME NEW x \in Seq(Char)
                   PROVE  Joined(<< >>, RestoredText(Joined(held, x), mapping))
                            = RestoredText(Joined(held, x), mapping)
        BY DEF Continues
      <4>1. RestoredText(Joined(held, x), mapping) \in Seq(Char)
        BY JoinedLaws, RestoredIsText
      <4>. QED  BY <4>1, JoinedLaws
    <3>. QED  BY <3>1, <3>2, <3>3, JoinedLaws
  <2>2. CASE content # << >>
    <3>1. o = Pushed(t, mapping).out /\ h = Pushed(t, mapping).held
      BY <2>2
    <3>2. t \in Seq(Char) /\ t = Joined(held, content)
      BY ConcatProperties DEF Joined
    <3> HIDE DEF o, h, t
    <3>3. /\ Pushed(t, mapping).out \in Seq(Char)
          /\ Pushed(t, mapping).held \in Seq(Char)
          /\ HeldTail(Pushed(t, mapping).held)
      BY <3>2, PushedEffect
    <3>4. ASSUME NEW x \in Seq(Char)
          PROVE  Joined(Pushed(t, mapping).out,
                        RestoredText(Joined(Pushed(t, mapping).held, x), mapping))
                   = RestoredText(Joined(t, x), mapping)
      BY <3>2, PushedEffect DEF Joined
    <3>. QED  BY <3>1, <3>2, <3>3, <3>4 DEF Continues
  <2>. QED  BY <2>1, <2>2
<1>3. Continues(Joined(given, o), h, s)
  <2>1. /\ mapping \in Mappings /\ held \in Seq(Char) /\ sent \in Seq(Char)
        /\ given \in Seq(Char) /\ content \in Seq(Char) /\ Continues(given, held, sent)
    OBVIOUS
  <2> HIDE DEF o, h, held
  <2>. QED  BY <1>2, <2>1, ScanContinues
<1> HIDE DEF o, h, held, scan, s, t
<1>4. CASE finish
  <2>1. scan.out = Joined(o, h) /\ scan.held = << >>
    BY <1>4, <1>p DEF Joined
  <2>2. Joined(Joined(given, o), RestoredText(Joined(h, << >>), mapping))
          = RestoredText(Joined(s, << >>), mapping)
    BY <1>3, JoinedLaws DEF Continues
  <2>3. Joined(h, << >>) = h /\ Joined(s, << >>) = s
    BY <1>2, JoinedLaws DEF s
  <2>4. RestoredText(h, mapping) = h
    BY <1>2, TailUnchanged
  <2>5. Joined(Joined(given, o), h) = Joined(given, Joined(o, h)) /\ Joined(o, h) \in Seq(Char)
    BY <1>2, JoinedLaws
  <2>6. Joined(given, scan.out) = RestoredText(s, mapping)
    BY <2>1, <2>2, <2>3, <2>4, <2>5
  <2>7. scan.out \in Seq(Char) /\ scan.held \in Seq(Char) /\ HeldTail(scan.held)
    BY <2>1, <2>5, EmptySeq DEF HeldTail
  <2>. QED  BY <1>4, <2>1, <2>6, <2>7 DEF scan, s
<1>5. CASE ~finish
  <2>1. scan.out = o /\ scan.held = h
    BY <1>5, <1>p
  <2>. QED  BY <1>2, <1>3, <1>5, <2>1 DEF scan, s
<1>. QED  BY <1>4, <1>5

-----------------------------------------------------------------------------

\* A chunk that is passed on adds to what has been sent and to what the client
\* has the same characters.
LEMMA PassChunkRestores ==
    ASSUME Inv, NEW c \in Index, NEW part \in Part, NEW finish \in BOOLEAN,
           NEW n \in 0..Len(pending[<<c, part>>]), PassChunk(c, part, n, finish)
    PROVE  Inv'
<1> DEFINE chunk == SubSeq(pending[<<c, part>>], 1, n)
<1>1. /\ TypeOK /\ PendingIsRest /\ Sends(c, part, n, finish)
      /\ response' = response /\ mapping' = mapping /\ restorers' = restorers
      /\ bare' = bare /\ stream' = stream /\ Passthrough
  BY DEF Inv, PassChunk
<1>2. /\ PendingIsRest'
      /\ pending' \in [Index \X Part -> Seq(Char)]
      /\ chunk \in Seq(Char)
      /\ Sent(c, part)' = Sent(c, part) \o chunk
      /\ \A d \in Index, p \in Part : <<d, p>> # <<c, part>> =>
             /\ Sent(d, p)' = Sent(d, p)
             /\ pending'[<<d, p>>] = pending[<<d, p>>]
  BY <1>1, SendsEffect
<1>3. /\ delivered' = [delivered EXCEPT ![<<c, part>>] = @ \o chunk]
      /\ delivered \in [Index \X Part -> Seq(Char)]
      /\ <<c, part>> \in Index \X Part
  BY <1>1 DEF PassChunk, TypeOK
<1>4. /\ finished' = IF finish THEN finished \cup {c} ELSE finished
      /\ c \notin finished
      /\ finish => \A p \in Part : pending'[<<c, p>>] = << >>
  BY <1>1 DEF Sends
<1> HIDE DEF chunk
<1>5. delivered[<<c, part>>] \o chunk \in Seq(Char)
  BY <1>2, <1>3, ConcatProperties
<1>6. /\ delivered' \in [Index \X Part -> Seq(Char)]
      /\ delivered'[<<c, part>>] = delivered[<<c, part>>] \o chunk
      /\ \A d \in Index, p \in Part : <<d, p>> # <<c, part>> =>
             delivered'[<<d, p>>] = delivered[<<d, p>>]
  BY <1>3, <1>5
<1>7. TypeOK'
  BY <1>1, <1>2, <1>4, <1>6 DEF TypeOK
<1>8. \A d : HeldBack(d)' = HeldBack(d)
  BY <1>1 DEF HeldBack
<1>9. ASSUME NEW d \in Index PROVE Restores(d)'
  <2>1. Restores(d)
    BY DEF Inv
  <2>2. CASE d = c
    <3>1. ASSUME NEW p \in Part, delivered[<<c, p>>] = Sent(c, p)
          PROVE  delivered'[<<c, p>>] = Sent(c, p)'
      <4>1. CASE p = part
        BY <1>2, <1>6, <3>1, <4>1
      <4>2. CASE p # part
        BY <1>2, <1>6, <3>1, <4>2
      <4>. QED  BY <4>1, <4>2
    <3>2. /\ delivered[<<c, "arguments">>] = Sent(c, "arguments")
          /\ delivered[<<c, "content">>] = Sent(c, "content")
          /\ HeldBack(c) = << >>
          /\ "content" \in Part /\ "arguments" \in Part
      BY <1>1, <2>1, <2>2 DEF Restores, Part
    <3>3. /\ delivered'[<<c, "arguments">>] = Sent(c, "arguments")'
          /\ delivered'[<<c, "content">>] = Sent(c, "content")'
      BY <3>1, <3>2
    <3>4. Passthrough' /\ (c \in finished' => \A p \in Part : pending'[<<c, p>>] = << >>)
      BY <1>1, <1>4 DEF Passthrough
    <3>. QED  BY <1>8, <2>2, <3>2, <3>3, <3>4 DEF Restores
  <2>3. CASE d # c
    <3>1. \A p \in Part : /\ delivered'[<<d, p>>] = delivered[<<d, p>>]
                          /\ pending'[<<d, p>>] = pending[<<d, p>>]
                          /\ Sent(d, p)' = Sent(d, p)
      BY <1>2, <1>6, <2>3
    <3>2. (d \in finished' <=> d \in finished) /\ (d \in bare => d \in bare')
      BY <1>1, <1>4, <2>3
    <3>. QED  BY <1>1, <1>8, <2>1, <3>1, <3>2, OtherChoice
  <2>. QED  BY <2>2, <2>3
<1>. QED  BY <1>2, <1>7, <1>9 DEF Inv

\* What the restorer of a choice makes of a chunk, in the terms of the state.
LEMMA RestoreChunkEffect ==
    ASSUME Inv, NEW c \in Index, NEW part \in Part, NEW finish \in BOOLEAN,
           NEW n \in 0..Len(pending[<<c, part>>]), RestoreChunk(c, part, n, finish)
    PROVE  LET sent == SubSeq(pending[<<c, part>>], 1, n)
               content == IF part = "content" THEN sent ELSE << >>
               scan == Scanned(c, content, finish)
               given == delivered[<<c, "content">>]
               s == Joined(Sent(c, "content"), content)
           IN  /\ sent \in Seq(Char) /\ content \in Seq(Char)
               /\ s = Sent(c, "content")'
               /\ scan.out \in Seq(Char) /\ scan.held \in Seq(Char) /\ HeldTail(scan.held)
               /\ ~finish => Continues(Joined(given, scan.out), scan.held, s)
               /\ finish => /\ scan.held = << >>
                            /\ Joined(given, scan.out) = RestoredText(s, mapping)
<1> DEFINE sent == SubSeq(pending[<<c, part>>], 1, n)
           content == IF part = "content" THEN sent ELSE << >>
           given == delivered[<<c, "content">>]
           s0 == Sent(c, "content")
<1>1. /\ TypeOK /\ PendingIsRest /\ Sends(c, part, n, finish)
      /\ response' = response /\ ~Passthrough /\ c \notin finished
      /\ mapping \in Mappings /\ "content" \in Part
  BY DEF Inv, RestoreChunk, Sends, TypeOK, Part
<1>2. /\ s0 \in Seq(Char) /\ HeldBack(c) \in Seq(Char) /\ given \in Seq(Char)
  BY <1>1, SentAndPending
<1>3. /\ sent \in Seq(Char)
      /\ Sent(c, part)' = Sent(c, part) \o sent
      /\ \A d \in Index, p \in Part : <<d, p>> # <<c, part>> =>
             /\ Sent(d, p)' = Sent(d, p)
             /\ pending'[<<d, p>>] = pending[<<d, p>>]
  BY <1>1, SendsEffect
<1>4. HeldTail(HeldBack(c)) /\ Continues(given, HeldBack(c), s0)
  BY <1>1 DEF Inv, Restores
<1> HIDE DEF sent
<1>5. content \in Seq(Char) /\ Joined(s0, content) = Sent(c, "content")'
  <2>1. CASE part = "content"
    BY <1>3, <2>1 DEF Joined
  <2>2. CASE part # "content"
    <3>1. Sent(c, "content")' = s0 /\ content = << >>
      BY <1>1, <1>3, <2>2
    <3> HIDE DEF s0, content
    <3>. QED  BY <1>2, <3>1, JoinedLaws
  <2>. QED  BY <2>1, <2>2
<1> DEFINE scan == Scanned(c, content, finish)
<1> HIDE DEF content, given, s0
<1>6. /\ scan.out \in Seq(Char) /\ scan.held \in Seq(Char) /\ HeldTail(scan.held)
      /\ ~finish => Continues(Joined(given, scan.out), scan.held, Joined(s0, content))
      /\ finish => /\ scan.held = << >>
                   /\ Joined(given, scan.out) = RestoredText(Joined(s0, content), mapping)
  BY <1>1, <1>2, <1>4, <1>5, ScannedEffect
<1>. QED  BY <1>3, <1>5, <1>6 DEF content, given, s0, sent

\* A chunk that goes through the restorer of its choice.
LEMMA RestoreChunkRestores ==
    ASSUME Inv, NEW c \in Index, NEW part \in Part, NEW finish \in BOOLEAN,
           NEW n \in 0..Len(pending[<<c, part>>]), RestoreChunk(c, part, n, finish)
    PROVE  Inv'
<1> DEFINE sent == SubSeq(pending[<<c, part>>], 1, n)
           content == IF part = "content" THEN sent ELSE << >>
           scan == Scanned(c, content, finish)
           given == delivered[<<c, "content">>]
           s == Joined(Sent(c, "content"), content)
           tool == IF part = "arguments" THEN delivered[<<c, "arguments">>] \o sent
                                         ELSE delivered[<<c, "arguments">>]
<1>1. /\ TypeOK /\ PendingIsRest /\ Sends(c, part, n, finish)
      /\ response' = response /\ mapping' = mapping /\ ~Passthrough
      /\ bare' = bare /\ stream' = stream /\ mapping \in Mappings
      /\ "content" \in Part /\ "arguments" \in Part
  BY DEF Inv, RestoreChunk, TypeOK, Part
<1>2. /\ PendingIsRest'
      /\ pending' \in [Index \X Part -> Seq(Char)]
      /\ sent \in Seq(Char)
      /\ Sent(c, part)' = Sent(c, part) \o sent
      /\ \A d \in Index, p \in Part : <<d, p>> # <<c, part>> =>
             /\ Sent(d, p)' = Sent(d, p)
             /\ pending'[<<d, p>>] = pending[<<d, p>>]
  BY <1>1, SendsEffect
<1>3. /\ s = Sent(c, "content")'
      /\ scan.out \in Seq(Char) /\ scan.held \in Seq(Char) /\ HeldTail(scan.held)
      /\ ~finish => Continues(Joined(given, scan.out), scan.held, s)
      /\ finish => /\ scan.held = << >>
                   /\ Joined(given, scan.out) = RestoredText(s, mapping)
  BY RestoreChunkEffect
<1>4. /\ finished' = IF finish THEN finished \cup {c} ELSE finished
      /\ c \notin finished
      /\ finish => \A p \in Part : pending'[<<c, p>>] = << >>
  BY <1>1 DEF Sends
<1>5. /\ restorers' = [d \in DOMAIN restorers \cup {c} |->
                           IF d = c THEN scan.held ELSE restorers[d]]
      /\ delivered' = [delivered EXCEPT
                           ![<<c, "content">>] = @ \o scan.out,
                           ![<<c, "arguments">>] =
                               IF part = "arguments" THEN @ \o sent ELSE @]
      /\ delivered \in [Index \X Part -> Seq(Char)]
      /\ DOMAIN restorers \subseteq Index
      /\ \A d \in DOMAIN restorers : restorers[d] \in Seq(Char)
      /\ <<c, "content">> \in Index \X Part /\ <<c, "arguments">> \in Index \X Part
  BY <1>1 DEF RestoreChunk, TypeOK
<1> HIDE DEF scan, sent
<1>6. /\ DOMAIN restorers' \subseteq Index
      /\ \A d \in DOMAIN restorers' : restorers'[d] \in Seq(Char)
      /\ HeldBack(c)' = scan.held
      /\ \A d \in Index : d # c => HeldBack(d)' = HeldBack(d)
  BY <1>3, <1>5 DEF HeldBack
<1>7. /\ given \o scan.out \in Seq(Char) /\ given \o scan.out = Joined(given, scan.out)
      /\ tool \in Seq(Char)
  <2>1. given \in Seq(Char) /\ delivered[<<c, "arguments">>] \in Seq(Char)
    BY <1>5
  <2>. QED  BY <1>2, <1>3, <2>1, ConcatProperties DEF Joined
<1>8. delivered' = [delivered EXCEPT ![<<c, "content">>] = given \o scan.out,
                                     ![<<c, "arguments">>] = tool]
  BY <1>5
<1> DEFINE now == given \o scan.out
<1> HIDE DEF given, tool, now
<1>9. delivered' = [delivered EXCEPT ![<<c, "content">>] = now,
                                     ![<<c, "arguments">>] = tool]
  BY <1>8 DEF now
<1>10. now \in Seq(Char) /\ tool \in Seq(Char) /\ now = Joined(given, scan.out)
  BY <1>7 DEF now
<1>11. /\ delivered' \in [Index \X Part -> Seq(Char)]
       /\ delivered'[<<c, "content">>] = now
       /\ delivered'[<<c, "arguments">>] = tool
       /\ \A d \in Index, p \in Part : d # c => delivered'[<<d, p>>] = delivered[<<d, p>>]
  BY <1>5, <1>9, <1>10
<1>12. TypeOK'
  BY <1>1, <1>2, <1>4, <1>6, <1>11 DEF TypeOK
<1>13. tool = Sent(c, "arguments")'
  <2>1. delivered[<<c, "arguments">>] = Sent(c, "arguments")
    BY DEF Inv, Restores
  <2>2. CASE part = "arguments"
    BY <1>2, <2>1, <2>2 DEF tool
  <2>3. CASE part # "arguments"
    BY <1>1, <1>2, <2>1, <2>3 DEF tool
  <2>. QED  BY <2>2, <2>3
<1>14. Restores(c)'
  <2>1. ~Passthrough' /\ (c \in finished' <=> finish)
    BY <1>1, <1>4 DEF Passthrough
  <2>2. delivered'[<<c, "arguments">>] = Sent(c, "arguments")'
        /\ (c \in finished' => \A p \in Part : pending'[<<c, p>>] = << >>)
    BY <1>4, <1>11, <1>13, <2>1
  <2>3. HeldTail(HeldBack(c))'
    BY <1>3, <1>6 DEF HeldTail
  <2>4. c \notin finished' => Continues(delivered[<<c, "content">>], HeldBack(c), Sent(c, "content"))'
    <3>1. c \notin finished' => Continues(now, scan.held, s)
      BY <1>3, <1>10, <2>1
    <3> HIDE DEF s
    <3>. QED  BY <1>1, <1>3, <1>6, <1>11, <3>1 DEF Continues
  <2>5. ASSUME c \in finished'
        PROVE  /\ HeldBack(c)' = << >>
               /\ now \o HeldBack(c)' = RestoredText(response[<<c, "content">>], mapping)
    <3>1. scan.held = << >> /\ now = RestoredText(s, mapping)
      BY <1>3, <1>10, <2>1, <2>5
    <3>2. pending'[<<c, "content">>] = << >>
      BY <1>1, <2>2, <2>5
    <3> DEFINE r == response[<<c, "content">>]
    <3>3. r \in Seq(Char) /\ s = SubSeq(r, 1, Len(r) - Len(<< >>))
      BY <1>1, <1>3, <3>2 DEF Sent, TypeOK
    <3> HIDE DEF r
    <3>4. s = r
      BY <3>3, SubSeqFull, LenProperties
    <3>5. now \o << >> = now
      BY <1>10, ConcatEmptySeq
    <3>. QED  BY <1>6, <3>1, <3>4, <3>5 DEF r
  <2>6. c \in finished' =>
           /\ now \o HeldBack(c)' = RestoredText(response[<<c, "content">>], mapping)'
           /\ HeldBack(c)' = << >>
    BY <1>1, <2>5
  <2>. QED  BY <1>11, <2>1, <2>2, <2>3, <2>4, <2>6 DEF Restores
<1>15. ASSUME NEW d \in Index, d # c PROVE Restores(d)'
  <2>1. Restores(d)
    BY DEF Inv
  <2>2. \A p \in Part : /\ delivered'[<<d, p>>] = delivered[<<d, p>>]
                        /\ pending'[<<d, p>>] = pending[<<d, p>>]
                        /\ Sent(d, p)' = Sent(d, p)
    BY <1>2, <1>11, <1>15
  <2>3. (d \in finished' <=> d \in finished) /\ (d \in bare => d \in bare')
        /\ HeldBack(d)' = HeldBack(d)
    BY <1>1, <1>4, <1>6, <1>15
  <2>. QED  BY <1>1, <2>1, <2>2, <2>3, OtherChoice
<1>. QED  BY <1>2, <1>12, <1>14, <1>15 DEF Inv

\* A finish_reason without a delta: all of the choice has been sent, so that what
\* the client has and the tail that is held back are the restored response.
LEMMA FinishBareRestores ==
    ASSUME Inv, NEW c \in Index, FinishBare(c)
    PROVE  Inv'
<1>1. /\ TypeOK /\ PendingIsRest /\ mapping \in Mappings
      /\ response' = response /\ mapping' = mapping /\ pending' = pending
      /\ restorers' = restorers /\ delivered' = delivered /\ stream' = stream
      /\ finished' = finished \cup {c} /\ bare' = bare \cup {c} /\ c \notin finished
      /\ \A p \in Part : pending[<<c, p>>] = << >>
      /\ "content" \in Part /\ "arguments" \in Part
  BY DEF Inv, FinishBare, TypeOK, Part
<1>2. TypeOK' /\ PendingIsRest'
  BY <1>1 DEF TypeOK, PendingIsRest
<1>3. /\ \A d : HeldBack(d)' = HeldBack(d)
      /\ \A d, p : Sent(d, p)' = Sent(d, p)
      /\ Passthrough' <=> Passthrough
  BY <1>1 DEF HeldBack, Sent, Passthrough
<1>4. Restores(c)'
  <2> DEFINE r == response[<<c, "content">>]
             given == delivered[<<c, "content">>]
             held == HeldBack(c)
  <2>1. Restores(c)
    BY DEF Inv
  <2>2. /\ delivered'[<<c, "arguments">>] = Sent(c, "arguments")'
        /\ \A p \in Part : pending'[<<c, p>>] = << >>
        /\ c \in finished' /\ c \in bare'
    BY <1>1, <1>3, <2>1 DEF Restores
  <2>3. CASE Passthrough
    BY <1>1, <1>3, <2>1, <2>2, <2>3 DEF Restores
  <2>4. CASE ~Passthrough
    <3>1. HeldTail(held) /\ Continues(given, held, Sent(c, "content"))
      BY <1>1, <2>1, <2>4 DEF Restores
    <3>2. r \in Seq(Char) /\ Sent(c, "content") = SubSeq(r, 1, Len(r) - Len(<< >>))
      BY <1>1 DEF Sent, TypeOK
    <3>3. held \in Seq(Char)
      BY <1>1, SentAndPending
    <3> HIDE DEF r, given, held
    <3>4. Sent(c, "content") = r
      BY <3>2, SubSeqFull, LenProperties
    <3>5. Joined(given, RestoredText(Joined(held, << >>), mapping))
            = RestoredText(Joined(r, << >>), mapping)
      BY <3>1, <3>4, EmptySeq DEF Continues
    <3>6. Joined(held, << >>) = held /\ Joined(r, << >>) = r
      BY <3>2, <3>3, JoinedLaws
    <3>7. RestoredText(held, mapping) = held
      BY <1>1, <3>1, <3>3, TailUnchanged
    <3>8. given \o held = RestoredText(r, mapping)
      BY <3>5, <3>6, <3>7 DEF Joined
    <3>9. HeldTail(held)'
      BY <3>1, <1>1, <1>3 DEF held, HeldTail
    <3>. QED  BY <1>1, <1>3, <2>2, <2>4, <3>8, <3>9 DEF Restores, r, given, held
  <2>. QED  BY <2>3, <2>4
<1>5. ASSUME NEW d \in Index, d # c PROVE Restores(d)'
  <2>1. Restores(d)
    BY DEF Inv
  <2>2. (d \in finished' <=> d \in finished) /\ (d \in bare => d \in bare')
    BY <1>1, <1>5
  <2>. QED  BY <1>1, <1>3, <2>1, <2>2, OtherChoice
<1>. QED  BY <1>2, <1>4, <1>5 DEF Inv

\* No step of the hook, of the upstream or of the end of the stream breaks it.
LEMMA NextInv == Inv /\ [Next]_vars => Inv'
<1> SUFFICES ASSUME Inv, [Next]_vars PROVE Inv'
  OBVIOUS
<1>1. ASSUME NEW c \in Index, NEW part \in Part, NEW finish \in BOOLEAN,
             NEW n \in 0..Len(pending[<<c, part>>]), PassChunk(c, part, n, finish)
      PROVE  Inv'
  BY <1>1, PassChunkRestores
<1>2. ASSUME NEW c \in Index, NEW part \in Part, NEW finish \in BOOLEAN,
             NEW n \in 0..Len(pending[<<c, part>>]), RestoreChunk(c, part, n, finish)
      PROVE  Inv'
  BY <1>2, RestoreChunkRestores
<1>3. ASSUME NEW c \in Index, FinishBare(c) PROVE Inv'
  BY <1>3, FinishBareRestores
<1>4. ASSUME <<response, mapping, pending, restorers, delivered, finished, bare>>' =
               <<response, mapping, pending, restorers, delivered, finished, bare>>,
             stream' \in {"open", "complete", "cut"}
      PROVE  Inv'
  <2>1. /\ response' = response /\ mapping' = mapping /\ pending' = pending
        /\ restorers' = restorers /\ delivered' = delivered
        /\ finished' = finished /\ bare' = bare
    BY <1>4
  <2>2. TypeOK' /\ PendingIsRest'
    BY <1>4, <2>1 DEF Inv, TypeOK, PendingIsRest
  <2>3. /\ \A d : HeldBack(d)' = HeldBack(d)
        /\ \A d, p : Sent(d, p)' = Sent(d, p)
    BY <2>1 DEF HeldBack, Sent
  <2>4. ASSUME NEW d \in Index PROVE Restores(d)'
    <3>1. Restores(d)
      BY DEF Inv
    <3>. QED  BY <2>1, <2>3, <3>1, OtherChoice
  <2>. QED  BY <2>2, <2>4 DEF Inv
<1>5. CASE End
  BY <1>4, <1>5 DEF End
<1>6. CASE Break
  BY <1>4, <1>6 DEF Break
<1>7. CASE UNCHANGED vars
  BY <1>4, <1>7 DEF vars, Inv, TypeOK
<1>. QED  BY <1>1, <1>2, <1>3, <1>5, <1>6, <1>7 DEF Next

LEMMA SpecInv == Spec => []Inv
BY InitInv, NextInv, PTL DEF Spec

\* The buffers, the text delivered and the flags keep their types, however the
\* upstream cuts and interleaves its chunks.
THEOREM TypeCorrect == Spec => []TypeOK
<1>1. Inv => TypeOK
  BY DEF Inv
<1>. QED  BY <1>1, SpecInv, PTL

\* Between two chunks the client of a streamed response has of each choice what
\* restore() would make of all that has been sent of it, but for the tail in the
\* restorer of that choice, whatever the chunks of the other choices were.
THEOREM OnlyTailIsHeldBack == Spec => []OnlyTailHeldBack
<1>1. Inv => OnlyTailHeldBack
  <2> SUFFICES ASSUME Inv, NEW c \in Index
               PROVE  delivered[<<c, "content">>] \o HeldBack(c)
                        = RestoredText(Sent(c, "content"), mapping)
    BY DEF OnlyTailHeldBack
  <2> DEFINE r == response[<<c, "content">>]
             given == delivered[<<c, "content">>]
             held == HeldBack(c)
             s == Sent(c, "content")
  <2>1. Restores(c) /\ TypeOK /\ PendingIsRest /\ mapping \in Mappings /\ "content" \in Part
    BY DEF Inv, TypeOK, Part
  <2>2. s \in Seq(Char) /\ held \in Seq(Char) /\ given \in Seq(Char)
    BY <2>1, SentAndPending
  <2>3. CASE Passthrough
    <3>1. held = << >> /\ given = s
      BY <2>1, <2>3 DEF Restores
    <3> HIDE DEF held, given, s
    <3>2. RestoredText(s, mapping) = s /\ s \o << >> = s
      BY <2>1, <2>2, <2>3, NothingToRestore, ConcatEmptySeq
    <3>3. given \o held = RestoredText(s, mapping)
      BY <3>1, <3>2
    <3>. QED  BY <3>3 DEF held, given, s
  <2>4. CASE ~Passthrough /\ c \notin finished
    <3>1. HeldTail(held) /\ Continues(given, held, s)
      BY <2>1, <2>4 DEF Restores
    <3> HIDE DEF held, given, s
    <3>2. Joined(given, RestoredText(Joined(held, << >>), mapping))
            = RestoredText(Joined(s, << >>), mapping)
      BY <3>1, EmptySeq DEF Continues
    <3>3. Joined(held, << >>) = held /\ Joined(s, << >>) = s
      BY <2>2, JoinedLaws
    <3>4. RestoredText(held, mapping) = held
      BY <2>1, <2>2, <3>1, TailUnchanged
    <3>5. given \o held = RestoredText(s, mapping)
      BY <3>2, <3>3, <3>4 DEF Joined
    <3>. QED  BY <3>5 DEF held, given, s
  <2>5. CASE ~Passthrough /\ c \in finished
    <3>1. given \o held = RestoredText(r, mapping) /\ pending[<<c, "content">>] = << >>
      BY <2>1, <2>5 DEF Restores
    <3>2. r \in Seq(Char) /\ s = SubSeq(r, 1, Len(r) - Len(<< >>))
      BY <2>1, <3>1 DEF Sent, TypeOK
    <3> HIDE DEF held, given, s, r
    <3>3. s = r
      BY <3>2, SubSeqFull, LenProperties
    <3>4. given \o held = RestoredText(s, mapping)
      BY <3>1, <3>3
    <3>. QED  BY <3>4 DEF held, given, s
  <2>. QED  BY <2>3, <2>4, <2>5
<1>. QED  BY <1>1, SpecInv, PTL

\* A choice that has finished has been delivered whole: its arguments as they
\* were, its content restored, but for a tail that only a last chunk without a
\* delta leaves in the restorer.
THEOREM FinishedAreRestored == Spec => []FinishedIsRestored
<1>1. Inv => FinishedIsRestored
  <2> SUFFICES ASSUME Inv, NEW c \in finished
               PROVE  /\ delivered[<<c, "content">>] \o HeldBack(c)
                            = RestoredText(response[<<c, "content">>], mapping)
                      /\ HeldBack(c) # << >> => c \in bare
                      /\ delivered[<<c, "arguments">>] = response[<<c, "arguments">>]
    BY DEF FinishedIsRestored
  <2>1. /\ c \in Index /\ TypeOK /\ mapping \in Mappings
        /\ "content" \in Part /\ "arguments" \in Part
    BY DEF Inv, TypeOK, Part
  <2>2. Restores(c)
    BY <2>1 DEF Inv
  <2>3. ASSUME NEW p \in Part PROVE Sent(c, p) = response[<<c, p>>]
    <3> DEFINE r == response[<<c, p>>]
    <3>1. r \in Seq(Char) /\ pending[<<c, p>>] = << >>
      BY <2>1, <2>2 DEF Restores, TypeOK
    <3>2. Sent(c, p) = SubSeq(r, 1, Len(r) - Len(<< >>))
      BY <3>1 DEF Sent
    <3> HIDE DEF r
    <3>3. Sent(c, p) = r
      BY <3>1, <3>2, SubSeqFull, LenProperties
    <3>. QED  BY <3>3 DEF r
  <2>4. delivered[<<c, "arguments">>] = response[<<c, "arguments">>]
    BY <2>1, <2>2, <2>3 DEF Restores
  <2>5. CASE Passthrough
    <3> DEFINE r == response[<<c, "content">>]
    <3>1. HeldBack(c) = << >> /\ delivered[<<c, "content">>] = r /\ r \in Seq(Char)
      BY <2>1, <2>2, <2>3, <2>5 DEF Restores, TypeOK
    <3> HIDE DEF r
    <3>2. RestoredText(r, mapping) = r /\ r \o << >> = r
      BY <2>1, <2>5, <3>1, NothingToRestore, ConcatEmptySeq
    <3>. QED  BY <2>4, <3>1, <3>2 DEF r
  <2>6. CASE ~Passthrough
    BY <2>2, <2>4, <2>6 DEF Restores
  <2>. QED  BY <2>5, <2>6
<1>. QED  BY <1>1, SpecInv, PTL

=============================================================================
