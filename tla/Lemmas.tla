------------------------------- MODULE Lemmas -------------------------------
(***************************************************************************)
(* What the proofs about the components share: cutting and joining texts,  *)
(* the rule of engine.merge, and rewriting a text in one pass.             *)
(***************************************************************************)
EXTENDS Detections, Rewriting, SequenceTheorems, FiniteSetTheorems,
        WellFoundedInduction, TLAPS

\* A sequence cut after its first n elements: the two halves and their elements.
LEMMA CutProperties ==
    ASSUME NEW S, NEW s \in Seq(S), NEW n \in 0..Len(s)
    PROVE  /\ SubSeq(s, 1, n) \in Seq(S)
           /\ Len(SubSeq(s, 1, n)) = n
           /\ \A i \in 1..n : SubSeq(s, 1, n)[i] = s[i]
           /\ SubSeq(s, n + 1, Len(s)) \in Seq(S)
           /\ Len(SubSeq(s, n + 1, Len(s))) = Len(s) - n
           /\ \A i \in 1..(Len(s) - n) : SubSeq(s, n + 1, Len(s))[i] = s[n + i]
<1>0. Len(s) \in Nat /\ n \in Int /\ n <= Len(s) /\ 0 <= n
  BY LenProperties
<1>1. \A i \in 1..Len(s) : s[i] \in S
  BY ElementOfSeq
<1>2. \A i \in 1..n : s[i] \in S
  BY <1>0, <1>1
<1>3. \A i \in (n + 1)..Len(s) : s[i] \in S
  BY <1>0, <1>1
<1>4. /\ SubSeq(s, 1, n) \in Seq(S)
      /\ Len(SubSeq(s, 1, n)) = IF 1 <= n THEN n - 1 + 1 ELSE 0
      /\ \A i \in 1..(n - 1 + 1) : SubSeq(s, 1, n)[i] = s[1 + i - 1]
  BY <1>0, <1>2, SubSeqProperties
<1>5. /\ SubSeq(s, n + 1, Len(s)) \in Seq(S)
      /\ Len(SubSeq(s, n + 1, Len(s)))
           = IF n + 1 <= Len(s) THEN Len(s) - (n + 1) + 1 ELSE 0
      /\ \A i \in 1..(Len(s) - (n + 1) + 1) :
             SubSeq(s, n + 1, Len(s))[i] = s[(n + 1) + i - 1]
  <2>1. n + 1 \in Int /\ Len(s) \in Int
    BY <1>0
  <2>. QED  BY <2>1, <1>3, SubSeqProperties
<1>. QED  BY <1>0, <1>4, <1>5

\* Joining the two halves gives the sequence back.
LEMMA CutAndJoin ==
    ASSUME NEW S, NEW s \in Seq(S), NEW n \in 0..Len(s)
    PROVE  SubSeq(s, 1, n) \o SubSeq(s, n + 1, Len(s)) = s
<1>1. n \in (1 - 1)..Len(s) /\ 1 \in 1..(Len(s) + 1) /\ Len(s) \in n..Len(s)
  BY LenProperties
<1>2. SubSeq(s, 1, n) \o SubSeq(s, n + 1, Len(s)) = SubSeq(s, 1, Len(s))
  BY <1>1, ConcatAdjacentSubSeq
<1>. QED  BY <1>2, SubSeqFull

\* Cutting within the first of two joined sequences.
LEMMA CutOfJoin ==
    ASSUME NEW S, NEW s \in Seq(S), NEW t \in Seq(S), NEW n \in 0..Len(s)
    PROVE  /\ SubSeq(s \o t, 1, n) = SubSeq(s, 1, n)
           /\ SubSeq(s \o t, n + 1, Len(s \o t)) = SubSeq(s, n + 1, Len(s)) \o t
<1>0. /\ s \o t \in Seq(S)
      /\ Len(s \o t) = Len(s) + Len(t)
      /\ \A i \in 1..(Len(s) + Len(t)) :
             (s \o t)[i] = IF i <= Len(s) THEN s[i] ELSE t[i - Len(s)]
      /\ Len(s) \in Nat /\ Len(t) \in Nat
  BY ConcatProperties, LenProperties
<1>1. n \in 0..Len(s \o t)
  BY <1>0
<1>2. /\ SubSeq(s \o t, 1, n) \in Seq(S)
      /\ Len(SubSeq(s \o t, 1, n)) = n
      /\ \A i \in 1..n : SubSeq(s \o t, 1, n)[i] = (s \o t)[i]
      /\ SubSeq(s \o t, n + 1, Len(s \o t)) \in Seq(S)
      /\ Len(SubSeq(s \o t, n + 1, Len(s \o t))) = Len(s \o t) - n
      /\ \A i \in 1..(Len(s \o t) - n) :
             SubSeq(s \o t, n + 1, Len(s \o t))[i] = (s \o t)[n + i]
  BY <1>0, <1>1, CutProperties
<1>3. /\ SubSeq(s, 1, n) \in Seq(S)
      /\ Len(SubSeq(s, 1, n)) = n
      /\ \A i \in 1..n : SubSeq(s, 1, n)[i] = s[i]
      /\ SubSeq(s, n + 1, Len(s)) \in Seq(S)
      /\ Len(SubSeq(s, n + 1, Len(s))) = Len(s) - n
      /\ \A i \in 1..(Len(s) - n) : SubSeq(s, n + 1, Len(s))[i] = s[n + i]
  BY CutProperties
<1>4. SubSeq(s \o t, 1, n) = SubSeq(s, 1, n)
  <2>1. \A i \in 1..n : SubSeq(s \o t, 1, n)[i] = SubSeq(s, 1, n)[i]
    BY <1>0, <1>2, <1>3
  <2>. QED  BY <1>2, <1>3, <2>1, SeqEqual
<1>5. SubSeq(s \o t, n + 1, Len(s \o t)) = SubSeq(s, n + 1, Len(s)) \o t
  <2> DEFINE u == SubSeq(s, n + 1, Len(s))
             v == SubSeq(s \o t, n + 1, Len(s \o t))
  <2>0. /\ u \in Seq(S) /\ Len(u) = Len(s) - n
        /\ \A i \in 1..(Len(s) - n) : u[i] = s[n + i]
        /\ v \in Seq(S) /\ Len(v) = Len(s \o t) - n
        /\ \A i \in 1..(Len(s \o t) - n) : v[i] = (s \o t)[n + i]
    BY <1>2, <1>3
  <2>. HIDE DEF u, v
  <2>1. /\ u \o t \in Seq(S)
        /\ Len(u \o t) = Len(u) + Len(t)
        /\ \A i \in 1..(Len(u) + Len(t)) :
               (u \o t)[i] = IF i <= Len(u) THEN u[i] ELSE t[i - Len(u)]
    BY <2>0, ConcatProperties
  <2>2. v \in Seq(S) /\ Len(v) = Len(u \o t)
    BY <1>0, <2>0, <2>1
  <2>3. ASSUME NEW i \in 1..Len(v)
        PROVE  v[i] = (u \o t)[i]
    <3>1. v[i] = (s \o t)[n + i] /\ i \in 1..(Len(s) + Len(t) - n)
      BY <1>0, <2>0, <2>3
    <3>2. n + i \in 1..(Len(s) + Len(t))
      BY <3>1, <1>0
    <3>3. CASE i <= Len(u)
      BY <3>1, <3>2, <3>3, <1>0, <2>0, <2>1
    <3>4. CASE ~(i <= Len(u))
      <4>1. (s \o t)[n + i] = t[n + i - Len(s)]
        BY <3>2, <3>4, <1>0, <2>0
      <4>2. (u \o t)[i] = t[i - Len(u)]
        BY <3>1, <3>4, <1>0, <2>0, <2>1
      <4>3. n + i - Len(s) = i - Len(u)
        BY <1>0, <2>0, <3>1
      <4>. QED  BY <3>1, <4>1, <4>2, <4>3
    <3>. QED  BY <3>3, <3>4
  <2>4. v = u \o t
    BY <2>1, <2>2, <2>3, SeqEqual
  <2>. QED  BY <2>4 DEF u, v
<1>. QED  BY <1>4, <1>5

-----------------------------------------------------------------------------

\* The preference is an order: of two places one goes before the other, and
\* never both.
LEMMA BeforeIsTotal ==
    ASSUME NEW f \in Seq(Detection), NEW i \in 1..Len(f), NEW j \in 1..Len(f), i # j
    PROVE  /\ Before(f, i, j) \/ Before(f, j, i)
           /\ ~(Before(f, i, j) /\ Before(f, j, i))
<1> DEFINE li == Length(f[i])
           lj == Length(f[j])
           ri == Rank(f[i])
           rj == Rank(f[j])
           si == f[i].start
           sj == f[j].start
<1>1. f[i] \in Detection /\ f[j] \in Detection
  BY ElementOfSeq
<1>2. /\ li \in Int /\ lj \in Int /\ si \in Int /\ sj \in Int
      /\ i \in Int /\ j \in Int
  BY <1>1, LenProperties DEF Detection, Length
<1>3. ri \in Int /\ rj \in Int
  BY DEF Rank
<1>4. Before(f, i, j) <=> \/ li > lj
                          \/ li = lj /\ ri < rj
                          \/ li = lj /\ ri = rj /\ si < sj
                          \/ li = lj /\ ri = rj /\ si = sj /\ i < j
  BY DEF Before
<1>5. Before(f, j, i) <=> \/ lj > li
                          \/ lj = li /\ rj < ri
                          \/ lj = li /\ rj = ri /\ sj < si
                          \/ lj = li /\ rj = ri /\ sj = si /\ j < i
  BY DEF Before
<1> HIDE DEF li, lj, ri, rj, si, sj
<1>. QED  BY <1>2, <1>3, <1>4, <1>5

\* Nothing goes before itself.
LEMMA BeforeIsStrict ==
    ASSUME NEW f \in Seq(Detection), NEW i \in 1..Len(f)
    PROVE  ~Before(f, i, i)
<1>1. f[i] \in Detection
  BY ElementOfSeq
<1>2. Length(f[i]) \in Int /\ Rank(f[i]) \in Int /\ f[i].start \in Int /\ i \in Int
  BY <1>1 DEF Detection, Length, Rank
<1>. QED  BY <1>2 DEF Before

\* It is transitive.
LEMMA BeforeIsTransitive ==
    ASSUME NEW f \in Seq(Detection), NEW i \in 1..Len(f), NEW j \in 1..Len(f),
           NEW k \in 1..Len(f), Before(f, i, j), Before(f, j, k)
    PROVE  Before(f, i, k)
<1> DEFINE l(p) == Length(f[p])
           r(p) == Rank(f[p])
           s(p) == f[p].start
<1>1. \A p \in 1..Len(f) : l(p) \in Int /\ r(p) \in Int /\ s(p) \in Int /\ p \in Int
  <2> SUFFICES ASSUME NEW p \in 1..Len(f)
               PROVE  l(p) \in Int /\ r(p) \in Int /\ s(p) \in Int /\ p \in Int
    OBVIOUS
  <2>1. f[p] \in Detection
    BY ElementOfSeq
  <2>. QED  BY <2>1, LenProperties DEF Detection, Length, Rank
<1>2. \A p, q : Before(f, p, q) <=> \/ l(p) > l(q)
                                    \/ l(p) = l(q) /\ r(p) < r(q)
                                    \/ l(p) = l(q) /\ r(p) = r(q) /\ s(p) < s(q)
                                    \/ l(p) = l(q) /\ r(p) = r(q) /\ s(p) = s(q) /\ p < q
  BY DEF Before
<1> HIDE DEF l, r, s
<1>3. /\ l(i) \in Int /\ l(j) \in Int /\ l(k) \in Int
      /\ r(i) \in Int /\ r(j) \in Int /\ r(k) \in Int
      /\ s(i) \in Int /\ s(j) \in Int /\ s(k) \in Int
      /\ i \in Int /\ j \in Int /\ k \in Int
  BY <1>1
<1>. QED  BY <1>2, <1>3

\* Of finitely many sets one has none of the others within it.
LEMMA SmallestSet ==
    ASSUME NEW A, IsFiniteSet(A), NEW T, T # {}, \A U \in T : U \subseteq A
    PROVE  \E U \in T : \A V \in T : V \subseteq U => V = U
<1>1. IsWellFoundedOn(StrictSubsetOrdering(A), SUBSET A)
  BY FS_StrictSubsetOrderingWellFounded, FS_FiniteSubsetsOfFinite
<1>2. PICK U \in T : \A V \in T : <<V, U>> \notin StrictSubsetOrdering(A)
  BY <1>1, WFMin
<1>3. ASSUME NEW V \in T, V \subseteq U PROVE V = U
  BY <1>2, <1>3 DEF StrictSubsetOrdering
<1>. QED  BY <1>3

LEMMA ActiveIsFinite ==
    ASSUME NEW f \in Seq(Detection) PROVE IsFiniteSet(Active(f))
<1>1. Len(f) \in Int
  BY LenProperties
<1>2. IsFiniteSet(1..Len(f))
  BY <1>1, FS_Interval
<1>3. Active(f) \in SUBSET (1..Len(f))
  BY DEF Active
<1>. QED  BY <1>2, <1>3, FS_Subset

\* One place of any goes before all the others.
LEMMA FirstPlace ==
    ASSUME NEW f \in Seq(Detection), NEW U \in SUBSET Active(f), U # {}
    PROVE  \E i \in U : \A j \in U \ {i} : Before(f, i, j)
<1> DEFINE Front == {V \in SUBSET U : V # {} /\ \A v \in V : \A j \in U \ V : Before(f, v, j)}
<1>1. U \subseteq 1..Len(f) /\ IsFiniteSet(U)
  BY ActiveIsFinite, FS_Subset DEF Active
<1>2. Front # {} /\ \A V \in Front : V \subseteq U
  <2>1. U \in Front
    OBVIOUS
  <2>. QED  BY <2>1
<1>3. PICK V \in Front : \A W \in Front : W \subseteq V => W = V
  <2> HIDE DEF Front
  <2>. QED  BY <1>1, <1>2, SmallestSet
<1>4. \A v, w \in V : ~Before(f, v, w)
  <2> SUFFICES ASSUME NEW v \in V, NEW w \in V, Before(f, v, w) PROVE FALSE
    OBVIOUS
  <2> DEFINE W == {u \in V : Before(f, u, w)}
  <2>1. v \in W /\ W \in SUBSET U
    OBVIOUS
  <2>2. w \notin W
    BY <1>1, BeforeIsStrict
  <2>3. ASSUME NEW u \in W, NEW j \in U \ W PROVE Before(f, u, j)
    <3>1. CASE j \notin V
      BY <3>1
    <3>2. CASE j \in V /\ j = w
      BY <3>2
    <3>3. CASE j \in V /\ j # w
      <4>1. ~Before(f, j, w)
        BY <3>3
      <4>2. Before(f, w, j)
        BY <1>1, <3>3, <4>1, BeforeIsTotal
      <4>3. Before(f, u, w) /\ u \in 1..Len(f) /\ w \in 1..Len(f) /\ j \in 1..Len(f)
        BY <1>1
      <4>. QED  BY <4>2, <4>3, BeforeIsTransitive
    <3>. QED  BY <3>1, <3>2, <3>3
  <2>4. W \in Front
    BY <2>1, <2>3
  <2>. QED  BY <1>3, <2>2, <2>4
<1>5. PICK i \in V : TRUE
  OBVIOUS
<1>6. ASSUME NEW j \in U \ {i} PROVE Before(f, i, j)
  <2>1. CASE j \notin V
    BY <2>1
  <2>2. CASE j \in V
    BY <1>1, <1>4, <2>2, BeforeIsTotal
  <2>. QED  BY <2>1, <2>2
<1>. QED  BY <1>5, <1>6

\* With the next place a set that follows the rule is one for a place more, as
\* the loop of merge() has it.
LEMMA OneMorePlace ==
    ASSUME NEW f \in Seq(Detection), NEW seen \in SUBSET Active(f), NEW i \in Active(f),
           i \notin seen, \A s \in seen : Before(f, s, i),
           NEW K, Keeps(f, seen, K)
    PROVE  Keeps(f, seen \cup {i},
                 IF \E c \in K : Overlap(f[i], f[c]) THEN K ELSE K \cup {i})
<1> DEFINE L == IF \E c \in K : Overlap(f[i], f[c]) THEN K ELSE K \cup {i}
<1>1. /\ K \subseteq seen
      /\ \A s \in seen :
             s \in K <=> ~\E k \in K : Before(f, k, s) /\ Overlap(f[k], f[s])
  BY DEF Keeps
<1>2. i \in 1..Len(f) /\ seen \subseteq 1..Len(f)
  BY DEF Active
<1>3. \A s \in seen : ~Before(f, i, s)
  BY <1>2, BeforeIsTotal
<1>4. ~Before(f, i, i)
  BY <1>2, BeforeIsStrict
<1>5. \A a, b : Overlap(a, b) <=> Overlap(b, a)
  BY DEF Overlap
<1>6. L \subseteq seen \cup {i} /\ \A s \in seen : s \in L <=> s \in K
  BY <1>1
<1>7. ASSUME NEW s \in seen \cup {i}
      PROVE  s \in L <=> ~\E k \in L : Before(f, k, s) /\ Overlap(f[k], f[s])
  <2>1. CASE s \in seen
    <3>1. \A k \in L : Before(f, k, s) => k \in K
      BY <1>1, <1>3, <1>6, <2>1
    <3>2. K \subseteq L
      OBVIOUS
    <3>. QED  BY <1>1, <1>6, <2>1, <3>1, <3>2
  <2>2. CASE s = i
    <3>1. i \in L <=> ~\E c \in K : Overlap(f[i], f[c])
      BY <1>1
    <3>2. (\E k \in L : Before(f, k, i) /\ Overlap(f[k], f[i]))
             <=> \E c \in K : Overlap(f[i], f[c])
      <4>1. \A k \in K : Before(f, k, i) /\ k \in L
        BY <1>1
      <4>2. \A k \in L : Before(f, k, i) => k \in K
        BY <1>4
      <4>. QED  BY <1>5, <4>1, <4>2
    <3>. QED  BY <2>2, <3>1, <3>2
  <2>. QED  BY <2>1, <2>2
<1>. QED  BY <1>6, <1>7 DEF Keeps

\* So there is a set that follows the rule for all places.
LEMMA RuleCanBeFollowed ==
    ASSUME NEW f \in Seq(Detection)
    PROVE  \E K \in SUBSET Active(f) : Keeps(f, Active(f), K)
<1> DEFINE A == Active(f)
           Ahead == {U \in SUBSET A : /\ \A s \in A \ U : \A j \in U : Before(f, s, j)
                                     /\ \E K \in SUBSET A : Keeps(f, A \ U, K)}
<1>1. A \in Ahead
  <2>1. A \ A = {} /\ Keeps(f, {}, {})
    BY DEF Keeps
  <2>. QED  BY <2>1
<1>2. PICK U \in Ahead : \A V \in Ahead : V \subseteq U => V = U
  <2>1. IsFiniteSet(A) /\ Ahead # {} /\ \A V \in Ahead : V \subseteq A
    BY <1>1, ActiveIsFinite
  <2> HIDE DEF A, Ahead
  <2>. QED  BY <2>1, SmallestSet
<1>3. PICK K \in SUBSET A : Keeps(f, A \ U, K)
  OBVIOUS
<1>4. CASE U = {}
  BY <1>3, <1>4
<1>5. CASE U # {}
  <2>1. PICK i \in U : \A j \in U \ {i} : Before(f, i, j)
    BY <1>5, FirstPlace
  <2> DEFINE V == U \ {i}
  <2>2. A \ V = (A \ U) \cup {i}
    OBVIOUS
  <2>3. \A s \in A \ V : \A j \in V : Before(f, s, j)
    BY <2>1, <2>2
  <2>4. \E L : Keeps(f, A \ V, L)
    <3>1. i \in A /\ i \notin A \ U /\ A \ U \in SUBSET A /\ \A s \in A \ U : Before(f, s, i)
      OBVIOUS
    <3> HIDE DEF A
    <3>2. A = Active(f) /\ Keeps(f, A \ U, K)
      BY <1>3 DEF A
    <3>3. Keeps(f, (A \ U) \cup {i},
                IF \E c \in K : Overlap(f[i], f[c]) THEN K ELSE K \cup {i})
      BY <3>1, <3>2, OneMorePlace
    <3>. QED  BY <2>2, <3>3
  <2>5. \A L : Keeps(f, A \ V, L) => L \in SUBSET A
    BY DEF Keeps
  <2>6. V \in Ahead
    BY <2>3, <2>4, <2>5
  <2>. QED  BY <1>2, <2>6
<1>. QED  BY <1>4, <1>5

\* And only one.
LEMMA RuleHasOneOutcome ==
    ASSUME NEW f \in Seq(Detection), NEW K, NEW L,
           Keeps(f, Active(f), K), Keeps(f, Active(f), L)
    PROVE  K = L
<1>1. K \subseteq Active(f) /\ L \subseteq Active(f)
  BY DEF Keeps
<1>2. SUFFICES ASSUME K # L PROVE FALSE
  OBVIOUS
<1> DEFINE D == (K \ L) \cup (L \ K)
<1>3. D \in SUBSET Active(f) /\ D # {}
  BY <1>1, <1>2
<1>4. PICK i \in D : \A j \in D \ {i} : Before(f, i, j)
  BY <1>3, FirstPlace
<1>5. \A k \in D : ~Before(f, k, i)
  <2>1. i \in 1..Len(f) /\ D \subseteq 1..Len(f)
    BY <1>3 DEF Active
  <2>. QED  BY <1>4, <2>1, BeforeIsStrict, BeforeIsTotal
<1>6. \A k : Before(f, k, i) => (k \in K <=> k \in L)
  BY <1>5
<1>7. i \in Active(f)
  BY <1>3
<1>8. i \in K <=> ~\E k \in K : Before(f, k, i) /\ Overlap(f[k], f[i])
  BY <1>7 DEF Keeps
<1>9. i \in L <=> ~\E k \in L : Before(f, k, i) /\ Overlap(f[k], f[i])
  BY <1>7 DEF Keeps
<1>. QED  BY <1>6, <1>8, <1>9

\* Merged follows the rule, and whatever does is Merged.
THEOREM MergedFollowsTheRule ==
    ASSUME NEW f \in Seq(Detection)
    PROVE  /\ Keeps(f, Active(f), Merged(f))
           /\ \A K : Keeps(f, Active(f), K) => K = Merged(f)
<1>1. PICK K \in SUBSET Active(f) : Keeps(f, Active(f), K)
  BY RuleCanBeFollowed
<1>2. {L \in SUBSET Active(f) : Keeps(f, Active(f), L)} = {K}
  BY <1>1, RuleHasOneOutcome
<1>3. Merged(f) = K
  BY <1>2 DEF Merged
<1>. QED  BY <1>1, <1>3, RuleHasOneOutcome

\* A detection that merge() drops overlaps one that it keeps and that goes before.
LEMMA DroppedForAnother ==
    ASSUME NEW f \in Seq(Detection), NEW i \in Active(f), i \notin Merged(f)
    PROVE  \E k \in Merged(f) : Before(f, k, i) /\ Overlap(f[k], f[i])
BY MergedFollowsTheRule DEF Keeps

-----------------------------------------------------------------------------

\* A set of numbers that has every number of which it has all the smaller ones
\* has them all.
LEMMA EveryNumber ==
    ASSUME NEW T, \A m \in Nat : (\A k \in 0..(m - 1) : k \in T) => m \in T
    PROVE  Nat \subseteq T
<1> SUFFICES ASSUME Nat \ T # {} PROVE FALSE
  OBVIOUS
<1>1. PICK m \in Nat \ T : \A k \in Nat \ T : ~(<<k, m>> \in OpToRel(<, Nat))
  BY NatLessThanWellFounded, WFMin
<1>2. \A k \in 0..(m - 1) : k \in T
  <2> SUFFICES ASSUME NEW k \in 0..(m - 1), k \notin T PROVE FALSE
    OBVIOUS
  <2>1. k \in Nat \ T /\ k < m
    OBVIOUS
  <2>2. <<k, m>> \in OpToRel(<, Nat)
    BY <2>1 DEF OpToRel
  <2>. QED  BY <1>1, <2>1, <2>2
<1>. QED  BY <1>1, <1>2

\* The same from the other end of an interval: what has every place of which it
\* has all the later ones has them all.
LEMMA EveryPlace ==
    ASSUME NEW n \in Nat, NEW T,
           \A i \in 1..n : (\A j \in (i + 1)..n : j \in T) => i \in T
    PROVE  1..n \subseteq T
<1> DEFINE U == {k \in Nat : n - k \in 1..n => n - k \in T}
<1>1. ASSUME NEW m \in Nat, \A k \in 0..(m - 1) : k \in U
      PROVE  m \in U
  <2> SUFFICES ASSUME n - m \in 1..n PROVE n - m \in T
    OBVIOUS
  <2>1. ASSUME NEW j \in (n - m + 1)..n PROVE j \in T
    <3>1. n - j \in 0..(m - 1) /\ n - (n - j) = j /\ j \in 1..n
      BY <2>1
    <3>2. n - j \in U
      BY <1>1, <3>1
    <3>. QED  BY <3>1, <3>2
  <2>. QED  BY <2>1
<1>2. Nat \subseteq U
  <2> HIDE DEF U
  <2>. QED  BY <1>1, EveryNumber
<1>3. ASSUME NEW i \in 1..n PROVE i \in T
  <2>1. n - i \in Nat /\ n - (n - i) = i
    OBVIOUS
  <2>. QED  BY <1>2, <2>1
<1>. QED  BY <1>3

-----------------------------------------------------------------------------

\* The steps of a pass lead onwards, and what it puts out are sequences over S.
Onwards(S, n, next, piece) ==
    /\ n \in Nat
    /\ \A i \in 1..n : next[i] \in i..(n + 1) /\ piece[i] \in Seq(S)

\* What Pass says of place i, for a function that gives what it says of the
\* places behind.
PlaceOfPass(f, i, n, next, piece) ==
    IF i > n THEN [out |-> << >>, at |-> i]
    ELSE IF next[i] = i THEN [out |-> << >>, at |-> i]
    ELSE [out |-> piece[i] \o f[next[i]].out, at |-> f[next[i]].at]

\* The recursion of Pass describes a function.
LEMMA PassExists ==
    ASSUME NEW S, NEW n, NEW next, NEW piece, Onwards(S, n, next, piece)
    PROVE  \E f : f = [i \in 1..(n + 1) |-> PlaceOfPass(f, i, n, next, piece)]
<1> DEFINE Right(f, i) == f[i] = PlaceOfPass(f, i, n, next, piece)
           T == {i \in 1..(n + 1) :
                   \E f : f = [j \in 1..(n + 1) |-> f[j]] /\ \A j \in i..(n + 1) : Right(f, j)}
<1>0. n \in Nat /\ n + 1 \in Nat /\ \A i \in 1..n : next[i] \in i..(n + 1)
  BY DEF Onwards
<1>1. ASSUME NEW i \in 1..(n + 1), \A j \in (i + 1)..(n + 1) : j \in T
      PROVE  i \in T
  <2>1. PICK f : /\ f = [j \in 1..(n + 1) |-> f[j]]
                 /\ \A j \in (i + 1)..(n + 1) : Right(f, j)
    <3>1. CASE i = n + 1
      <4> DEFINE g == [j \in 1..(n + 1) |-> 0]
      <4>1. g = [j \in 1..(n + 1) |-> g[j]] /\ (i + 1)..(n + 1) = {}
        BY <1>0, <3>1
      <4> HIDE DEF g, Right
      <4>. QED  BY <4>1
    <3>2. CASE i # n + 1
      <4>1. i + 1 \in (i + 1)..(n + 1)
        BY <1>0, <3>2
      <4> HIDE DEF T
      <4>2. i + 1 \in T
        BY <1>1, <4>1
      <4> USE DEF T
      <4>. QED  BY <4>2
    <3>. QED  BY <3>1, <3>2
  <2> DEFINE g == [j \in 1..(n + 1) |-> IF j = i THEN PlaceOfPass(f, i, n, next, piece)
                                                 ELSE f[j]]
  <2>2. \A j \in (i + 1)..(n + 1) : g[j] = f[j]
    BY <1>0
  <2>3. ASSUME NEW j \in i..(n + 1)
        PROVE  PlaceOfPass(g, j, n, next, piece) = PlaceOfPass(f, j, n, next, piece)
    <3>1. CASE j > n \/ next[j] = j
      BY <3>1 DEF PlaceOfPass
    <3>2. CASE j <= n /\ next[j] # j
      <4>1. next[j] \in (i + 1)..(n + 1)
        <5>1. j \in 1..n
          BY <1>0, <3>2
        <5>2. next[j] \in j..(n + 1)
          BY <1>0, <5>1
        <5>. QED  BY <1>0, <3>2, <5>2
      <4>2. g[next[j]] = f[next[j]]
        BY <2>2, <4>1
      <4> HIDE DEF g
      <4>. QED  BY <4>2 DEF PlaceOfPass
    <3>. QED  BY <1>0, <3>1, <3>2
  <2>4. ASSUME NEW j \in i..(n + 1) PROVE Right(g, j)
    <3>1. CASE j = i
      <4>1. g[j] = PlaceOfPass(f, j, n, next, piece)
        BY <3>1
      <4>. QED  BY <2>3, <4>1
    <3>2. CASE j # i
      <4>1. j \in (i + 1)..(n + 1)
        BY <1>0, <3>2
      <4>2. g[j] = f[j] /\ f[j] = PlaceOfPass(f, j, n, next, piece)
        BY <2>1, <2>2, <4>1
      <4>. QED  BY <2>3, <4>2
    <3>. QED  BY <3>1, <3>2
  <2>5. g = [j \in 1..(n + 1) |-> g[j]]
    OBVIOUS
  <2> HIDE DEF g, Right
  <2>. QED  BY <2>4, <2>5
<1>2. 1 \in T
  <2> HIDE DEF T
  <2>1. 1..(n + 1) \subseteq T
    BY <1>0, <1>1, EveryPlace
  <2>. QED  BY <1>0, <2>1
<1>3. PICK f : f = [j \in 1..(n + 1) |-> f[j]] /\ \A j \in 1..(n + 1) : Right(f, j)
  BY <1>2
<1>4. f = [i \in 1..(n + 1) |-> PlaceOfPass(f, i, n, next, piece)]
  BY <1>3
<1>. QED  BY <1>4

\* The same for f[i], part by part.
PlaceIsRight(f, i, n, next, piece) ==
    /\ i > n \/ next[i] = i => f[i].out = << >> /\ f[i].at = i
    /\ i \in 1..n /\ next[i] # i => /\ f[i].out = piece[i] \o f[next[i]].out
                                   /\ f[i].at = f[next[i]].at

\* So every place of it is what Pass says.
LEMMA PassAtPlace ==
    ASSUME NEW S, NEW n, NEW next, NEW piece, Onwards(S, n, next, piece)
    PROVE  \A i \in 1..(n + 1) : PlaceIsRight(Pass(n, next, piece), i, n, next, piece)
<1> DEFINE from == Pass(n, next, piece)
<1> DEFINE Says(f) == f = [j \in 1..(n + 1) |-> PlaceOfPass(f, j, n, next, piece)]
<1>1. from = CHOOSE f : Says(f)
  BY DEF Pass, PlaceOfPass
<1>2. \E f : Says(f)
  BY PassExists
<1>3. Says(from)
  <2> HIDE DEF from, Says
  <2>. QED  BY <1>1, <1>2
<1> HIDE DEF from
<1>. SUFFICES ASSUME NEW i \in 1..(n + 1)
              PROVE  PlaceIsRight(from, i, n, next, piece)
  BY DEF from
<1>4. from[i] = PlaceOfPass(from, i, n, next, piece)
  BY <1>3
<1>5. CASE i > n \/ next[i] = i
  <2>1. from[i] = [out |-> << >>, at |-> i]
    BY <1>4, <1>5 DEF PlaceOfPass
  <2>2. ~(i \in 1..n /\ next[i] # i)
    BY <1>5 DEF Onwards
  <2>3. from[i].out = << >> /\ from[i].at = i
    BY <2>1
  <2>. QED  BY <2>2, <2>3 DEF PlaceIsRight
<1>6. CASE i \in 1..n /\ next[i] # i
  <2>0. ~(i > n)
    BY <1>6 DEF Onwards
  <2>1. from[i] = [out |-> piece[i] \o from[next[i]].out, at |-> from[next[i]].at]
    BY <1>4, <1>6, <2>0 DEF PlaceOfPass
  <2> DEFINE o == piece[i] \o from[next[i]].out
             a == from[next[i]].at
  <2>2. from[i] = [out |-> o, at |-> a]
    BY <2>1
  <2> HIDE DEF o, a
  <2>3. from[i].out = o /\ from[i].at = a
    BY <2>2
  <2>. QED  BY <1>6, <2>0, <2>3 DEF PlaceIsRight, o, a
<1>7. i > n \/ i \in 1..n
  BY DEF Onwards
<1>. QED  BY <1>5, <1>6, <1>7

\* What a pass puts out are sequences; it stops behind the text or at a place
\* that leads nowhere.
LEMMA PassType ==
    ASSUME NEW S, NEW n, NEW next, NEW piece, Onwards(S, n, next, piece),
           NEW i \in 1..(n + 1)
    PROVE  LET from == Pass(n, next, piece)
           IN  /\ from[i].out \in Seq(S)
               /\ from[i].at \in i..(n + 1)
               /\ from[i].at <= n => next[from[i].at] = from[i].at
<1> DEFINE from == Pass(n, next, piece)
           T == {j \in 1..(n + 1) :
                   /\ from[j].out \in Seq(S)
                   /\ from[j].at \in j..(n + 1)
                   /\ from[j].at <= n => next[from[j].at] = from[j].at}
<1>0. /\ n \in Nat /\ n + 1 \in Nat
      /\ \A j \in 1..n : next[j] \in j..(n + 1) /\ piece[j] \in Seq(S)
  BY DEF Onwards
<1>1. \A j \in 1..(n + 1) : PlaceIsRight(from, j, n, next, piece)
  BY PassAtPlace
<1> HIDE DEF from
<1>2. ASSUME NEW j \in 1..(n + 1), \A k \in (j + 1)..(n + 1) : k \in T
      PROVE  j \in T
  <2>1. CASE j > n \/ next[j] = j
    <3>1. from[j].out = << >> /\ from[j].at = j
      BY <1>1, <2>1 DEF PlaceIsRight
    <3>2. from[j].out \in Seq(S)
      BY <3>1, EmptySeq
    <3>3. from[j].at \in j..(n + 1)
      BY <1>0, <3>1
    <3>4. from[j].at <= n => next[from[j].at] = from[j].at
      BY <1>0, <2>1, <3>1
    <3>. QED  BY <3>2, <3>3, <3>4
  <2>2. CASE j \in 1..n /\ next[j] # j
    <3>1. /\ next[j] \in (j + 1)..(n + 1)
          /\ piece[j] \in Seq(S)
      <4>1. next[j] \in j..(n + 1) /\ piece[j] \in Seq(S)
        BY <1>0, <2>2
      <4>. QED  BY <1>0, <2>2, <4>1
    <3>2. /\ from[j].out = piece[j] \o from[next[j]].out
          /\ from[j].at = from[next[j]].at
      BY <1>1, <2>2 DEF PlaceIsRight
    <3>3. next[j] \in T
      <4> HIDE DEF T
      <4>. QED  BY <1>2, <3>1
    <3>4. from[j].out \in Seq(S)
      BY <3>1, <3>2, <3>3, ConcatProperties
    <3>5. from[j].at \in j..(n + 1)
      <4>1. from[next[j]].at \in next[j]..(n + 1)
        BY <3>3
      <4>. QED  BY <1>0, <3>1, <3>2, <4>1
    <3>6. from[j].at <= n => next[from[j].at] = from[j].at
      BY <3>2, <3>3
    <3>. QED  BY <3>4, <3>5, <3>6
  <2>. QED  BY <1>0, <2>1, <2>2
<1>3. 1..(n + 1) \subseteq T
  <2> HIDE DEF T
  <2>. QED  BY <1>0, <1>2, EveryPlace
<1>. QED  BY <1>3 DEF from

\* Two passes with the same steps, those of the one d places behind those of the
\* other, from some place on: from there on they put out the same and stop
\* d places apart.
LEMMA PassesAgree ==
    ASSUME NEW S, NEW m, NEW next2, NEW piece2, Onwards(S, m, next2, piece2),
           NEW d \in Int, NEW next, NEW piece, Onwards(S, m + d, next, piece),
           NEW j \in 1..(m + 1), j + d \in 1..(m + d + 1),
           \A i \in j..m : next[i + d] = next2[i] + d /\ piece[i + d] = piece2[i]
    PROVE  /\ Pass(m + d, next, piece)[j + d].out = Pass(m, next2, piece2)[j].out
           /\ Pass(m + d, next, piece)[j + d].at = Pass(m, next2, piece2)[j].at + d
<1> DEFINE n == m + d
           from == Pass(n, next, piece)
           from2 == Pass(m, next2, piece2)
           T == {i \in 1..(m + 1) : i >= j => /\ from[i + d].out = from2[i].out
                                              /\ from[i + d].at = from2[i].at + d}
<1>0. /\ n \in Nat /\ m \in Nat /\ m + 1 \in Nat
      /\ \A i \in 1..n : next[i] \in i..(n + 1) /\ piece[i] \in Seq(S)
      /\ \A i \in 1..m : next2[i] \in i..(m + 1) /\ piece2[i] \in Seq(S)
  BY DEF Onwards
<1>1. \A i \in 1..(n + 1) : PlaceIsRight(from, i, n, next, piece)
  BY PassAtPlace
<1>2. \A i \in 1..(m + 1) : PlaceIsRight(from2, i, m, next2, piece2)
  BY PassAtPlace
<1> HIDE DEF from, from2
<1>3. ASSUME NEW i \in 1..(m + 1), \A k \in (i + 1)..(m + 1) : k \in T
      PROVE  i \in T
  <2> SUFFICES ASSUME i >= j
               PROVE  /\ from[i + d].out = from2[i].out
                      /\ from[i + d].at = from2[i].at + d
    OBVIOUS
  <2>0. i + d \in 1..(n + 1) /\ (i > m <=> i + d > n)
    BY <1>0
  <2>1. CASE i > m
    <3>1. /\ from[i + d].out = << >> /\ from[i + d].at = i + d
          /\ from2[i].out = << >> /\ from2[i].at = i
      BY <1>1, <1>2, <2>0, <2>1 DEF PlaceIsRight
    <3>. QED  BY <3>1
  <2>2. CASE i <= m
    <3>1. i \in j..m /\ i \in 1..m /\ i + d \in 1..n
      BY <1>0, <2>0, <2>2
    <3>2. /\ next[i + d] = next2[i] + d /\ piece[i + d] = piece2[i]
          /\ next2[i] \in i..(m + 1)
      BY <1>0, <3>1
    <3>3. CASE next2[i] = i
      <4>1. /\ from[i + d].out = << >> /\ from[i + d].at = i + d
            /\ from2[i].out = << >> /\ from2[i].at = i
        BY <1>1, <1>2, <2>0, <3>2, <3>3 DEF PlaceIsRight
      <4>. QED  BY <4>1
    <3>4. CASE next2[i] # i
      <4>1. next2[i] \in (i + 1)..(m + 1) /\ next2[i] >= j /\ next[i + d] # i + d
        BY <1>0, <3>1, <3>2, <3>4
      <4>2. next2[i] \in T
        <5> HIDE DEF T
        <5>. QED  BY <1>3, <4>1
      <4>3. /\ from[next2[i] + d].out = from2[next2[i]].out
            /\ from[next2[i] + d].at = from2[next2[i]].at + d
        BY <4>1, <4>2
      <4>4. /\ from[i + d].out = piece[i + d] \o from[next[i + d]].out
            /\ from[i + d].at = from[next[i + d]].at
        BY <1>1, <2>0, <3>1, <4>1 DEF PlaceIsRight
      <4>5. /\ from2[i].out = piece2[i] \o from2[next2[i]].out
            /\ from2[i].at = from2[next2[i]].at
        BY <1>2, <3>1, <3>4 DEF PlaceIsRight
      <4>6. /\ from[i + d].out = piece2[i] \o from[next2[i] + d].out
            /\ from[i + d].at = from[next2[i] + d].at
        BY <3>2, <4>4
      <4>. QED  BY <4>3, <4>5, <4>6
    <3>. QED  BY <3>3, <3>4
  <2>. QED  BY <1>0, <2>1, <2>2
<1>4. 1..(m + 1) \subseteq T
  <2> HIDE DEF T
  <2>. QED  BY <1>0, <1>3, EveryPlace
<1>5. j \in T /\ j >= j
  BY <1>0, <1>4
<1>. QED  BY <1>5 DEF from, from2

-----------------------------------------------------------------------------

\* What can be looked for in texts over S: texts that are not empty and of which
\* none begins another.
Findable(S, P) ==
    /\ \A p \in P : p \in Seq(S) /\ Len(p) >= 1
    /\ \A p, q \in P : StartsAt(q, 1, p) => p = q

\* And replaced by other texts.
Replaceable(S, P, value) == Findable(S, P) /\ \A p \in P : value[p] \in Seq(S)

\* Something of P is found in text at place i.
FoundAt(text, i, P) == \E p \in P : StartsAt(text, i, p)

\* At one place no more than one text is found.
LEMMA OneIsFound ==
    ASSUME NEW S, NEW P, Findable(S, P),
           NEW t \in Seq(S), NEW i \in 1..Len(t),
           NEW p \in P, NEW q \in P, StartsAt(t, i, p), StartsAt(t, i, q)
    PROVE  p = q
<1>1. /\ Len(p) \in Nat /\ Len(q) \in Nat /\ Len(p) >= 1 /\ Len(q) >= 1
  BY LenProperties DEF Findable
<1>2. /\ \A k \in 1..Len(p) : t[i + k - 1] = p[k]
      /\ \A k \in 1..Len(q) : t[i + k - 1] = q[k]
  BY DEF StartsAt
<1>3. /\ \A k \in 1..Len(p) : k \in 1..Len(q) => p[1 + k - 1] = q[k]
      /\ \A k \in 1..Len(q) : k \in 1..Len(p) => q[1 + k - 1] = p[k]
  <2>1. \A k \in 1..Len(p) : k \in 1..Len(q) => p[k] = q[k]
    BY <1>2
  <2>2. /\ \A k \in 1..Len(p) : 1 + k - 1 = k
        /\ \A k \in 1..Len(q) : 1 + k - 1 = k
    BY <1>1
  <2>. QED  BY <2>1, <2>2
<1>4. StartsAt(p, 1, q) \/ StartsAt(q, 1, p)
  <2>1. CASE Len(q) <= Len(p)
    BY <1>1, <1>3, <2>1 DEF StartsAt
  <2>2. CASE Len(p) <= Len(q)
    BY <1>1, <1>3, <2>2 DEF StartsAt
  <2>. QED  BY <1>1, <2>1, <2>2
<1>. QED  BY <1>4 DEF Findable

\* Where something is found, the pass goes on behind it, and puts out its value.
LEMMA NextAtMatch ==
    ASSUME NEW S, NEW P, Findable(S, P), NEW Stops,
           NEW t \in Seq(S), NEW i \in 1..Len(t), NEW p \in P, StartsAt(t, i, p)
    PROVE  /\ NextPlace(t, P, Stops)[i] = i + Len(p)
           /\ Len(p) \in 1..(Len(t) + 1 - i)
<1> DEFINE q == CHOOSE x \in P : StartsAt(t, i, x)
<1>1. q \in P /\ StartsAt(t, i, q)
  OBVIOUS
<1> HIDE DEF q
<1>2. q = p
  BY <1>1, OneIsFound
<1>3. NextPlace(t, P, Stops)[i] = i + Len(q)
  BY DEF NextPlace, q
<1>4. Len(p) \in Nat /\ Len(p) >= 1 /\ Len(t) \in Nat /\ i + Len(p) <= Len(t) + 1
  BY LenProperties DEF Findable, StartsAt
<1>. QED  BY <1>2, <1>3, <1>4

LEMMA PieceAtMatch ==
    ASSUME NEW S, NEW P, Findable(S, P), NEW value,
           NEW t \in Seq(S), NEW i \in 1..Len(t), NEW p \in P, StartsAt(t, i, p)
    PROVE  PieceAt(t, P, value)[i] = value[p]
<1> DEFINE q == CHOOSE x \in P : StartsAt(t, i, x)
<1>1. q \in P /\ StartsAt(t, i, q)
  OBVIOUS
<1> HIDE DEF q
<1>2. q = p
  BY <1>1, OneIsFound
<1>3. PieceAt(t, P, value)[i] = value[q]
  BY DEF PieceAt, q
<1>. QED  BY <1>2, <1>3

\* Elsewhere it goes on with the next element or stops, and puts out the element.
LEMMA NextElsewhere ==
    ASSUME NEW t, NEW P, NEW Stops, NEW i \in 1..Len(t), ~FoundAt(t, i, P)
    PROVE  NextPlace(t, P, Stops)[i]
             = IF SubSeq(t, i, Len(t)) \in Stops THEN i ELSE i + 1
BY DEF NextPlace, FoundAt

LEMMA PieceElsewhere ==
    ASSUME NEW t, NEW P, NEW value, NEW i \in 1..Len(t), ~FoundAt(t, i, P)
    PROVE  PieceAt(t, P, value)[i] = <<t[i]>>
BY DEF PieceAt, FoundAt

\* The steps lead onwards.
LEMMA StepsLeadOnwards ==
    ASSUME NEW S, NEW P, NEW value, NEW Stops, Replaceable(S, P, value), NEW t \in Seq(S)
    PROVE  Onwards(S, Len(t), NextPlace(t, P, Stops), PieceAt(t, P, value))
<1>0. Len(t) \in Nat
  BY LenProperties
<1>1. ASSUME NEW i \in 1..Len(t)
      PROVE  /\ NextPlace(t, P, Stops)[i] \in i..(Len(t) + 1)
             /\ PieceAt(t, P, value)[i] \in Seq(S)
  <2>1. CASE FoundAt(t, i, P)
    <3>1. PICK p \in P : StartsAt(t, i, p)
      BY <2>1 DEF FoundAt
    <3>2. /\ NextPlace(t, P, Stops)[i] = i + Len(p)
          /\ PieceAt(t, P, value)[i] = value[p]
          /\ Len(p) \in 1..(Len(t) + 1 - i)
      BY <3>1, NextAtMatch, PieceAtMatch DEF Replaceable
    <3>. QED  BY <1>0, <3>2 DEF Replaceable
  <2>2. CASE ~FoundAt(t, i, P)
    <3>1. <<t[i]>> \in Seq(S)
      BY ElementOfSeq
    <3>2. /\ NextPlace(t, P, Stops)[i]
               = IF SubSeq(t, i, Len(t)) \in Stops THEN i ELSE i + 1
          /\ PieceAt(t, P, value)[i] = <<t[i]>>
      BY <2>2, NextElsewhere, PieceElsewhere
    <3>. QED  BY <1>0, <3>1, <3>2
  <2>. QED  BY <2>1, <2>2
<1>. QED  BY <1>0, <1>1 DEF Onwards

\* The rest of a text behind its first k elements: what is found in it, and what
\* is behind a place of it.
LEMMA WithinRest ==
    ASSUME NEW S, NEW t \in Seq(S), NEW k \in 0..Len(t), NEW i,
           i \in 1..Len(SubSeq(t, k + 1, Len(t)))
    PROVE  LET u == SubSeq(t, k + 1, Len(t))
           IN  /\ \A p \in Seq(S) : StartsAt(u, i, p) <=> StartsAt(t, i + k, p)
               /\ SubSeq(u, i, Len(u)) = SubSeq(t, i + k, Len(t))
               /\ u[i] = t[i + k]
<1> DEFINE u == SubSeq(t, k + 1, Len(t))
<1>0. /\ Len(t) \in Nat /\ u \in Seq(S) /\ Len(u) = Len(t) - k
      /\ \A j \in 1..(Len(t) - k) : u[j] = t[k + j]
  BY CutProperties, LenProperties
<1>1. i \in 1..(Len(t) - k) /\ i - 1 \in 0..Len(u) /\ i - 1 + k \in 0..Len(t)
  BY <1>0
<1> HIDE DEF u
<1>2. u[i] = t[i + k]
  BY <1>0, <1>1
<1>3. ASSUME NEW p \in Seq(S) PROVE StartsAt(u, i, p) <=> StartsAt(t, i + k, p)
  <2>1. Len(p) \in Nat
    BY LenProperties
  <2>2. i + Len(p) <= Len(u) + 1 <=> i + k + Len(p) <= Len(t) + 1
    BY <1>0, <1>1, <2>1
  <2>3. ASSUME i + Len(p) <= Len(u) + 1, NEW j \in 1..Len(p)
        PROVE  u[i + j - 1] = t[i + k + j - 1]
    <3>1. i + j - 1 \in 1..(Len(t) - k) /\ k + (i + j - 1) = i + k + j - 1
      BY <1>0, <1>1, <2>1, <2>3
    <3>. QED  BY <1>0, <3>1
  <2>. QED  BY <2>2, <2>3 DEF StartsAt
<1>4. SubSeq(u, i, Len(u)) = SubSeq(t, i + k, Len(t))
  <2> DEFINE v == SubSeq(u, (i - 1) + 1, Len(u))
             w == SubSeq(t, (i - 1 + k) + 1, Len(t))
  <2>1. /\ v \in Seq(S) /\ Len(v) = Len(u) - (i - 1)
        /\ \A j \in 1..(Len(u) - (i - 1)) : v[j] = u[(i - 1) + j]
    BY <1>0, <1>1, CutProperties
  <2>2. /\ w \in Seq(S) /\ Len(w) = Len(t) - (i - 1 + k)
        /\ \A j \in 1..(Len(t) - (i - 1 + k)) : w[j] = t[(i - 1 + k) + j]
    BY <1>0, <1>1, CutProperties
  <2> HIDE DEF v, w
  <2>3. Len(v) = Len(w)
    BY <1>0, <1>1, <2>1, <2>2
  <2>4. ASSUME NEW j \in 1..Len(v) PROVE v[j] = w[j]
    <3>1. v[j] = u[(i - 1) + j] /\ w[j] = t[(i - 1 + k) + j]
      BY <1>0, <1>1, <2>1, <2>2, <2>4
    <3>2. (i - 1) + j \in 1..(Len(t) - k) /\ k + ((i - 1) + j) = (i - 1 + k) + j
      BY <1>0, <1>1, <2>1, <2>4
    <3>. QED  BY <1>0, <3>1, <3>2
  <2>5. v = w
    BY <2>1, <2>2, <2>3, <2>4, SeqEqual
  <2>6. (i - 1) + 1 = i /\ (i - 1 + k) + 1 = i + k
    BY <1>0, <1>1
  <2>. QED  BY <2>5, <2>6 DEF v, w
<1>. QED  BY <1>2, <1>3, <1>4 DEF u

\* The two parts of what Replacing gives.
LEMMA ReplacingParts ==
    ASSUME NEW t, NEW P, NEW value, NEW Stops
    PROVE  LET from == Pass(Len(t), NextPlace(t, P, Stops), PieceAt(t, P, value))
           IN  /\ Replacing(t, P, value, Stops).out = from[1].out
               /\ Replacing(t, P, value, Stops).held = SubSeq(t, from[1].at, Len(t))
<1> DEFINE from == Pass(Len(t), NextPlace(t, P, Stops), PieceAt(t, P, value))
           o == from[1].out
           h == SubSeq(t, from[1].at, Len(t))
<1>1. Replacing(t, P, value, Stops) = [out |-> o, held |-> h]
  BY DEF Replacing
<1> HIDE DEF o, h
<1>2. Replacing(t, P, value, Stops).out = o /\ Replacing(t, P, value, Stops).held = h
  BY <1>1
<1>. QED  BY <1>2 DEF o, h

\* From place k + 1 on a pass does what it does with the rest of the text alone.
LEMMA ReplacingRest ==
    ASSUME NEW S, NEW P, NEW value, NEW Stops, Replaceable(S, P, value),
           NEW t \in Seq(S), NEW k \in 0..Len(t)
    PROVE  LET from == Pass(Len(t), NextPlace(t, P, Stops), PieceAt(t, P, value))
               rest == Replacing(SubSeq(t, k + 1, Len(t)), P, value, Stops)
           IN  /\ rest.out = from[k + 1].out
               /\ rest.held = SubSeq(t, from[k + 1].at, Len(t))
<1> DEFINE u == SubSeq(t, k + 1, Len(t))
           from == Pass(Len(t), NextPlace(t, P, Stops), PieceAt(t, P, value))
           from2 == Pass(Len(u), NextPlace(u, P, Stops), PieceAt(u, P, value))
<1>0. Len(t) \in Nat /\ Len(u) \in Nat /\ u \in Seq(S) /\ Len(u) = Len(t) - k
  BY CutProperties, LenProperties
<1>1. /\ Onwards(S, Len(t), NextPlace(t, P, Stops), PieceAt(t, P, value))
      /\ Onwards(S, Len(u), NextPlace(u, P, Stops), PieceAt(u, P, value))
  <2> HIDE DEF u
  <2>. QED  BY <1>0, StepsLeadOnwards
<1>2. ASSUME NEW i \in 1..Len(u)
      PROVE  /\ NextPlace(t, P, Stops)[i + k] = NextPlace(u, P, Stops)[i] + k
             /\ PieceAt(t, P, value)[i + k] = PieceAt(u, P, value)[i]
  <2>0. /\ \A p \in Seq(S) : StartsAt(u, i, p) <=> StartsAt(t, i + k, p)
        /\ SubSeq(u, i, Len(u)) = SubSeq(t, i + k, Len(t))
        /\ u[i] = t[i + k]
    BY <1>2, WithinRest
  <2> HIDE DEF u
  <2>1. i + k \in 1..Len(t)
    BY <1>0
  <2>2. \A p \in P : StartsAt(u, i, p) <=> StartsAt(t, i + k, p)
    BY <2>0 DEF Replaceable, Findable
  <2>3. CASE FoundAt(u, i, P)
    <3>1. PICK p \in P : StartsAt(u, i, p)
      BY <2>3 DEF FoundAt
    <3>2. /\ NextPlace(u, P, Stops)[i] = i + Len(p)
          /\ PieceAt(u, P, value)[i] = value[p]
      BY <1>0, <3>1, NextAtMatch, PieceAtMatch DEF Replaceable
    <3>3. /\ NextPlace(t, P, Stops)[i + k] = i + k + Len(p)
          /\ PieceAt(t, P, value)[i + k] = value[p]
      BY <2>1, <2>2, <3>1, NextAtMatch, PieceAtMatch DEF Replaceable
    <3>4. Len(p) \in Nat
      BY LenProperties DEF Replaceable, Findable
    <3>. QED  BY <3>2, <3>3, <3>4
  <2>4. CASE ~FoundAt(u, i, P)
    <3>1. ~FoundAt(t, i + k, P)
      BY <2>2, <2>4 DEF FoundAt
    <3>2. /\ NextPlace(u, P, Stops)[i]
               = IF SubSeq(u, i, Len(u)) \in Stops THEN i ELSE i + 1
          /\ PieceAt(u, P, value)[i] = <<u[i]>>
      BY <2>4, NextElsewhere, PieceElsewhere
    <3>3. /\ NextPlace(t, P, Stops)[i + k]
               = IF SubSeq(t, i + k, Len(t)) \in Stops THEN i + k ELSE i + k + 1
          /\ PieceAt(t, P, value)[i + k] = <<t[i + k]>>
      BY <2>1, <3>1, NextElsewhere, PieceElsewhere
    <3>. QED  BY <2>0, <3>2, <3>3
  <2>. QED  BY <2>3, <2>4
<1>3. /\ from[1 + k].out = from2[1].out
      /\ from[1 + k].at = from2[1].at + k
  <2> HIDE DEF u
  <2>1. /\ Len(t) = Len(u) + k /\ k \in Int /\ 1 \in 1..(Len(u) + 1)
        /\ 1 + k \in 1..(Len(u) + k + 1)
    BY <1>0
  <2> DEFINE N == NextPlace(t, P, Stops)
             N2 == NextPlace(u, P, Stops)
             C == PieceAt(t, P, value)
             C2 == PieceAt(u, P, value)
  <2>2. \A i \in 1..Len(u) : N[i + k] = N2[i] + k /\ C[i + k] = C2[i]
    BY <1>2
  <2>3. Onwards(S, Len(u) + k, N, C) /\ Onwards(S, Len(u), N2, C2)
    BY <1>1, <2>1
  <2> DEFINE m == Len(u)
  <2> HIDE DEF N, N2, C, C2, m
  <2>4. /\ k \in Int /\ 1 \in 1..(m + 1) /\ 1 + k \in 1..(m + k + 1)
        /\ Onwards(S, m, N2, C2) /\ Onwards(S, m + k, N, C)
        /\ \A i \in 1..m : N[i + k] = N2[i] + k /\ C[i + k] = C2[i]
    BY <2>1, <2>2, <2>3 DEF m
  <2>5. /\ Pass(m + k, N, C)[1 + k].out = Pass(m, N2, C2)[1].out
        /\ Pass(m + k, N, C)[1 + k].at = Pass(m, N2, C2)[1].at + k
    BY <2>4, PassesAgree
  <2>. QED  BY <2>1, <2>5 DEF N, N2, C, C2, m
<1>4. from2[1].at \in 1..(Len(u) + 1)
  <2> HIDE DEF u, from
  <2>1. 1 \in 1..(Len(u) + 1)
    BY <1>0
  <2>. QED  BY <1>1, <2>1, PassType
<1>5. SubSeq(u, from2[1].at, Len(u)) = SubSeq(t, from2[1].at + k, Len(t))
  <2>1. CASE from2[1].at \in 1..Len(u)
    BY <2>1, WithinRest
  <2>2. CASE from2[1].at = Len(u) + 1
    <3>1. /\ SubSeq(u, Len(u) + 1, Len(u)) = << >>
          /\ SubSeq(t, Len(t) + 1, Len(t)) = << >>
      <4> HIDE DEF u
      <4>. QED  BY <1>0, SubSeqEmpty
    <3>2. Len(u) + 1 + k = Len(t) + 1
      BY <1>0
    <3>. QED  BY <2>2, <3>1, <3>2
  <2>3. from2[1].at \in 1..Len(u) \/ from2[1].at = Len(u) + 1
    <3> HIDE DEF u, from2
    <3>. QED  BY <1>0, <1>4
  <2>. QED  BY <2>1, <2>2, <2>3
<1>6. /\ Replacing(u, P, value, Stops).out = from2[1].out
      /\ Replacing(u, P, value, Stops).held = SubSeq(u, from2[1].at, Len(u))
  BY ReplacingParts
<1>7. 1 + k = k + 1
  OBVIOUS
<1> HIDE DEF from, from2
<1>. QED  BY <1>3, <1>5, <1>6, <1>7 DEF from, u

\* What a pass puts out and holds back are texts, and what it holds back is a
\* text to stop in front of, in front of which nothing is found.
LEMMA ReplacingType ==
    ASSUME NEW S, NEW P, NEW value, NEW Stops, Replaceable(S, P, value), NEW t \in Seq(S)
    PROVE  /\ Replacing(t, P, value, Stops).out \in Seq(S)
           /\ Replacing(t, P, value, Stops).held \in Seq(S)
           /\ \/ Replacing(t, P, value, Stops).held = << >>
              \/ /\ Replacing(t, P, value, Stops).held \in Stops
                 /\ ~FoundAt(Replacing(t, P, value, Stops).held, 1, P)
<1> DEFINE next == NextPlace(t, P, Stops)
           piece == PieceAt(t, P, value)
           at == Pass(Len(t), next, piece)[1].at
           held == Replacing(t, P, value, Stops).held
<1>0. Len(t) \in Nat /\ 1 \in 1..(Len(t) + 1)
  BY LenProperties
<1>1. Onwards(S, Len(t), next, piece)
  BY StepsLeadOnwards
<1>2. /\ Pass(Len(t), next, piece)[1].out \in Seq(S)
      /\ at \in 1..(Len(t) + 1)
      /\ at <= Len(t) => next[at] = at
  <2> HIDE DEF next, piece
  <2>. QED  BY <1>0, <1>1, PassType
<1>3. held = SubSeq(t, at, Len(t)) /\ Replacing(t, P, value, Stops).out \in Seq(S)
  BY <1>2, ReplacingParts
<1>4. CASE at = Len(t) + 1
  <2>1. held = << >>
    <3> HIDE DEF at, held
    <3>. QED  BY <1>0, <1>3, <1>4, SubSeqEmpty
  <2>. QED  BY <1>3, <2>1, EmptySeq
<1>5. CASE at \in 1..Len(t)
  <2> HIDE DEF at, held
  <2>1. next[at] = at /\ at - 1 \in 0..Len(t) /\ (at - 1) + 1 = at
    BY <1>0, <1>2, <1>5
  <2>2. ~FoundAt(t, at, P)
    <3> SUFFICES ASSUME NEW p \in P, StartsAt(t, at, p) PROVE FALSE
      BY DEF FoundAt
    <3>1. next[at] = at + Len(p) /\ Len(p) \in 1..(Len(t) + 1 - at)
      BY <1>5, NextAtMatch DEF Replaceable
    <3>. QED  BY <1>0, <1>5, <2>1, <3>1
  <2>3. held \in Stops
    <3>1. next[at] = IF held \in Stops THEN at ELSE at + 1
      BY <1>3, <1>5, <2>2, NextElsewhere
    <3>. QED  BY <1>5, <2>1, <3>1
  <2>4. held = SubSeq(t, (at - 1) + 1, Len(t)) /\ held \in Seq(S) /\ 1 \in 1..Len(held)
    <3>1. held = SubSeq(t, (at - 1) + 1, Len(t))
      BY <1>3, <2>1
    <3>2. held \in Seq(S) /\ Len(held) = Len(t) - (at - 1)
      BY <2>1, <3>1, CutProperties
    <3>. QED  BY <1>0, <1>5, <3>1, <3>2
  <2>5. ~FoundAt(held, 1, P)
    <3>1. \A p \in Seq(S) : StartsAt(held, 1, p) <=> StartsAt(t, 1 + (at - 1), p)
      BY <2>1, <2>4, WithinRest
    <3>2. 1 + (at - 1) = at
      BY <2>1
    <3>. QED  BY <2>2, <3>1, <3>2 DEF FoundAt, Replaceable, Findable
  <2>. QED  BY <1>3, <2>3, <2>4, <2>5 DEF held
<1>. QED  BY <1>0, <1>2, <1>4, <1>5

\* From an empty text comes nothing.
LEMMA ReplacingNothing ==
    ASSUME NEW S, NEW P, NEW value, NEW Stops, Replaceable(S, P, value)
    PROVE  /\ Replacing(<< >>, P, value, Stops).out = << >>
           /\ Replacing(<< >>, P, value, Stops).held = << >>
<1> DEFINE t == << >>
           next == NextPlace(t, P, Stops)
           piece == PieceAt(t, P, value)
           from == Pass(Len(t), next, piece)
<1>0. t \in Seq(S) /\ Len(t) = 0 /\ 1 \in 1..(Len(t) + 1) /\ 1 > Len(t)
  BY EmptySeq
<1>1. from[1].out = << >> /\ from[1].at = 1
  <2>1. Onwards(S, Len(t), next, piece)
    <3> HIDE DEF t
    <3>. QED  BY <1>0, StepsLeadOnwards
  <2> HIDE DEF t, next, piece
  <2>2. PlaceIsRight(from, 1, Len(t), next, piece)
    BY <1>0, <2>1, PassAtPlace
  <2>. QED  BY <1>0, <2>2 DEF PlaceIsRight
<1>2. SubSeq(t, 1, Len(t)) = << >>
  BY <1>0, SubSeqEmpty
<1>3. /\ Replacing(t, P, value, Stops).out = from[1].out
      /\ Replacing(t, P, value, Stops).held = SubSeq(t, from[1].at, Len(t))
  <2> HIDE DEF t
  <2>. QED  BY ReplacingParts
<1>. QED  BY <1>1, <1>2, <1>3

\* One text behind another: a name for it, so that the provers can match what a
\* lemma says of a join without looking into it.
Joined(a, b) == a \o b

\* A match in front is replaced, and the rest follows.
LEMMA ReplacingMatch ==
    ASSUME NEW S, NEW P, NEW value, NEW Stops, Replaceable(S, P, value), NEW t \in Seq(S),
           NEW p \in P, StartsAt(t, 1, p)
    PROVE  /\ Len(p) \in 1..Len(t)
           /\ Replacing(t, P, value, Stops).out
                = Joined(value[p],
                         Replacing(SubSeq(t, Len(p) + 1, Len(t)), P, value, Stops).out)
           /\ Replacing(t, P, value, Stops).held
                = Replacing(SubSeq(t, Len(p) + 1, Len(t)), P, value, Stops).held
<1> DEFINE next == NextPlace(t, P, Stops)
           piece == PieceAt(t, P, value)
           from == Pass(Len(t), next, piece)
           rest == Replacing(SubSeq(t, Len(p) + 1, Len(t)), P, value, Stops)
<1>0. Len(t) \in Nat /\ Len(p) \in 1..Len(t) /\ 1 \in 1..Len(t) /\ 1 \in 1..(Len(t) + 1)
  BY LenProperties DEF StartsAt, Replaceable, Findable
<1>1. next[1] = 1 + Len(p) /\ piece[1] = value[p]
  BY <1>0, NextAtMatch, PieceAtMatch DEF Replaceable
<1>2. PlaceIsRight(from, 1, Len(t), next, piece)
  <2>1. Onwards(S, Len(t), next, piece)
    BY StepsLeadOnwards
  <2> HIDE DEF next, piece
  <2>. QED  BY <1>0, <2>1, PassAtPlace
<1>3. /\ rest.out = from[Len(p) + 1].out
      /\ rest.held = SubSeq(t, from[Len(p) + 1].at, Len(t))
  <2>1. Len(p) \in 0..Len(t)
    BY <1>0
  <2>. QED  BY <2>1, ReplacingRest
<1>4. /\ Replacing(t, P, value, Stops).out = from[1].out
      /\ Replacing(t, P, value, Stops).held = SubSeq(t, from[1].at, Len(t))
  BY ReplacingParts
<1> HIDE DEF next, piece, from, rest
<1>5. next[1] # 1 /\ next[1] = Len(p) + 1
  BY <1>0, <1>1
<1>6. /\ from[1].out = piece[1] \o from[next[1]].out
      /\ from[1].at = from[next[1]].at
  BY <1>0, <1>2, <1>5 DEF PlaceIsRight
<1>7. /\ from[1].out = value[p] \o from[Len(p) + 1].out
      /\ from[1].at = from[Len(p) + 1].at
  BY <1>1, <1>5, <1>6
<1>8. /\ Replacing(t, P, value, Stops).out = value[p] \o rest.out
      /\ Replacing(t, P, value, Stops).held = rest.held
  BY <1>3, <1>4, <1>7
<1>9. Replacing(t, P, value, Stops).out = Joined(value[p], rest.out)
  BY <1>8 DEF Joined
<1>. QED  BY <1>0, <1>8, <1>9 DEF rest

\* Of a text to stop in front of nothing is put out, unless a match is in front.
LEMMA ReplacingStops ==
    ASSUME NEW S, NEW P, NEW value, NEW Stops, Replaceable(S, P, value), NEW t \in Seq(S),
           t # << >>, ~FoundAt(t, 1, P), t \in Stops
    PROVE  /\ Replacing(t, P, value, Stops).out = << >>
           /\ Replacing(t, P, value, Stops).held = t
<1> DEFINE next == NextPlace(t, P, Stops)
           piece == PieceAt(t, P, value)
           from == Pass(Len(t), next, piece)
<1>0. Len(t) \in Nat /\ 1 \in 1..Len(t) /\ 1 \in 1..(Len(t) + 1) /\ SubSeq(t, 1, Len(t)) = t
  BY LenProperties, EmptySeq, SubSeqFull
<1>1. next[1] = 1
  <2>1. next[1] = IF SubSeq(t, 1, Len(t)) \in Stops THEN 1 ELSE 1 + 1
    BY <1>0, NextElsewhere
  <2> HIDE DEF next
  <2>. QED  BY <1>0, <2>1
<1>2. PlaceIsRight(from, 1, Len(t), next, piece)
  <2>1. Onwards(S, Len(t), next, piece)
    BY StepsLeadOnwards
  <2> HIDE DEF next, piece
  <2>. QED  BY <1>0, <2>1, PassAtPlace
<1>3. /\ Replacing(t, P, value, Stops).out = from[1].out
      /\ Replacing(t, P, value, Stops).held = SubSeq(t, from[1].at, Len(t))
  BY ReplacingParts
<1> HIDE DEF next, piece, from
<1>. QED  BY <1>0, <1>1, <1>2, <1>3 DEF PlaceIsRight

\* Any other element in front is copied, and the rest follows.
LEMMA ReplacingPlain ==
    ASSUME NEW S, NEW P, NEW value, NEW Stops, Replaceable(S, P, value), NEW t \in Seq(S),
           t # << >>, ~FoundAt(t, 1, P), t \notin Stops
    PROVE  /\ Replacing(t, P, value, Stops).out
                = Joined(<<t[1]>>, Replacing(SubSeq(t, 2, Len(t)), P, value, Stops).out)
           /\ Replacing(t, P, value, Stops).held
                = Replacing(SubSeq(t, 2, Len(t)), P, value, Stops).held
<1> DEFINE next == NextPlace(t, P, Stops)
           piece == PieceAt(t, P, value)
           from == Pass(Len(t), next, piece)
           rest == Replacing(SubSeq(t, 2, Len(t)), P, value, Stops)
<1>0. Len(t) \in Nat /\ 1 \in 1..Len(t) /\ 1 \in 1..(Len(t) + 1) /\ SubSeq(t, 1, Len(t)) = t
  BY LenProperties, EmptySeq, SubSeqFull
<1>1. next[1] = 2 /\ piece[1] = <<t[1]>>
  <2>1. next[1] = IF SubSeq(t, 1, Len(t)) \in Stops THEN 1 ELSE 1 + 1
    BY <1>0, NextElsewhere
  <2>2. piece[1] = <<t[1]>>
    BY <1>0, PieceElsewhere
  <2> HIDE DEF next, piece
  <2>3. SubSeq(t, 1, Len(t)) \notin Stops
    BY <1>0
  <2>4. next[1] = 1 + 1
    BY <2>1, <2>3
  <2>5. next[1] = 2
    BY <2>4
  <2>. QED  BY <2>2, <2>5
<1>2. PlaceIsRight(from, 1, Len(t), next, piece)
  <2>1. Onwards(S, Len(t), next, piece)
    BY StepsLeadOnwards
  <2> HIDE DEF next, piece
  <2>. QED  BY <1>0, <2>1, PassAtPlace
<1>3. rest.out = from[2].out /\ rest.held = SubSeq(t, from[2].at, Len(t))
  <2>1. ASSUME NEW k \in 0..Len(t)
        PROVE  LET r == Replacing(SubSeq(t, k + 1, Len(t)), P, value, Stops)
               IN  r.out = from[k + 1].out /\ r.held = SubSeq(t, from[k + 1].at, Len(t))
    BY ReplacingRest
  <2>2. 1 \in 0..Len(t)
    BY <1>0
  <2> HIDE DEF from
  <2>. QED  BY <2>1, <2>2
<1>4. /\ Replacing(t, P, value, Stops).out = from[1].out
      /\ Replacing(t, P, value, Stops).held = SubSeq(t, from[1].at, Len(t))
  BY ReplacingParts
<1> HIDE DEF next, piece, from, rest
<1>5. /\ from[1].out = piece[1] \o from[next[1]].out
      /\ from[1].at = from[next[1]].at
  BY <1>0, <1>1, <1>2 DEF PlaceIsRight
<1>6. from[1].out = <<t[1]>> \o from[2].out /\ from[1].at = from[2].at
  BY <1>1, <1>5
<1>7. /\ Replacing(t, P, value, Stops).out = <<t[1]>> \o rest.out
      /\ Replacing(t, P, value, Stops).held = rest.held
  BY <1>3, <1>4, <1>6
<1>8. Replacing(t, P, value, Stops).out = Joined(<<t[1]>>, rest.out)
  BY <1>7 DEF Joined
<1>. QED  BY <1>7, <1>8 DEF rest

-----------------------------------------------------------------------------

\* What is found in front of a text is found in front of it with more behind it.
LEMMA FoundInJoin ==
    ASSUME NEW S, NEW s \in Seq(S), NEW t \in Seq(S), NEW p \in Seq(S),
           Len(p) >= 1, StartsAt(s, 1, p)
    PROVE  StartsAt(s \o t, 1, p) /\ Len(p) \in 1..Len(s)
<1>1. Len(s) \in Nat /\ Len(t) \in Nat /\ Len(p) \in Nat
  BY LenProperties
<1>2. /\ Len(s \o t) = Len(s) + Len(t)
      /\ \A i \in 1..(Len(s) + Len(t)) :
             (s \o t)[i] = IF i <= Len(s) THEN s[i] ELSE t[i - Len(s)]
  BY ConcatProperties
<1>3. Len(p) <= Len(s) /\ \A k \in 1..Len(p) : s[k] = p[k]
  BY <1>1 DEF StartsAt
<1>4. \A k \in 1..Len(p) : (s \o t)[1 + k - 1] = p[k]
  BY <1>1, <1>2, <1>3
<1>. QED  BY <1>1, <1>2, <1>3, <1>4 DEF StartsAt

\* Stops has every text that more text can make one with a match in front.
StopsInTime(S, P, Stops) ==
    \A s, x \in Seq(S) :
        s # << >> /\ FoundAt(s \o x, 1, P) => FoundAt(s, 1, P) \/ s \in Stops

\* For that it suffices that it has the proper prefixes of P.
LEMMA PrefixesSuffice ==
    ASSUME NEW S, NEW P, NEW Stops, Findable(S, P),
           \A p \in P : \A k \in 1..(Len(p) - 1) : SubSeq(p, 1, k) \in Stops
    PROVE  StopsInTime(S, P, Stops)
<1> SUFFICES ASSUME NEW s \in Seq(S), NEW x \in Seq(S), s # << >>,
                    NEW p \in P, StartsAt(s \o x, 1, p), ~StartsAt(s, 1, p)
             PROVE  s \in Stops
  BY DEF StopsInTime, FoundAt
<1>1. /\ Len(s) \in Nat /\ Len(s) >= 1 /\ Len(x) \in Nat
      /\ p \in Seq(S) /\ Len(p) \in Nat /\ Len(p) >= 1
  BY EmptySeq, LenProperties DEF Findable
<1>2. /\ Len(s \o x) = Len(s) + Len(x)
      /\ \A i \in 1..(Len(s) + Len(x)) :
             (s \o x)[i] = IF i <= Len(s) THEN s[i] ELSE x[i - Len(s)]
  BY ConcatProperties
<1>3. Len(p) <= Len(s) + Len(x) /\ \A k \in 1..Len(p) : (s \o x)[k] = p[k]
  BY <1>1, <1>2 DEF StartsAt
<1>4. Len(s) < Len(p)
  <2> SUFFICES ASSUME Len(p) <= Len(s) PROVE FALSE
    BY <1>1
  <2>1. \A k \in 1..Len(p) : s[1 + k - 1] = p[k]
    BY <1>1, <1>2, <1>3
  <2>. QED  BY <1>1, <2>1 DEF StartsAt
<1>5. Len(s) \in 0..Len(p) /\ Len(s) \in 1..(Len(p) - 1)
  BY <1>1, <1>4
<1>6. /\ SubSeq(p, 1, Len(s)) \in Seq(S)
      /\ Len(SubSeq(p, 1, Len(s))) = Len(s)
      /\ \A i \in 1..Len(s) : SubSeq(p, 1, Len(s))[i] = p[i]
  BY <1>1, <1>5, CutProperties
<1>7. \A i \in 1..Len(s) : SubSeq(p, 1, Len(s))[i] = s[i]
  BY <1>1, <1>2, <1>3, <1>4, <1>6
<1>8. SubSeq(p, 1, Len(s)) = s
  BY <1>6, <1>7, SeqEqual
<1>. QED  BY <1>5, <1>8

\* What a pass puts out of t, and what comes from what it holds back with x behind
\* it, is what comes from t with x behind it.
Continued(t, x, P, value, Stops) ==
    Replacing(t, P, value, Stops).out
      \o Replacing(Replacing(t, P, value, Stops).held \o x, P, value, {}).out
    = Replacing(t \o x, P, value, {}).out

\* A pass that stops in time can be continued with more text.
LEMMA ReplacingInPieces ==
    ASSUME NEW S, NEW P, NEW value, NEW Stops, Replaceable(S, P, value),
           StopsInTime(S, P, Stops), NEW x \in Seq(S)
    PROVE  \A t \in Seq(S) : Continued(t, x, P, value, Stops)
<1> DEFINE R(t) == Replacing(t, P, value, Stops)
           W(t) == Replacing(t, P, value, {})
           Same(t) == R(t).out \o W(R(t).held \o x).out = W(t \o x).out
           T == {m \in Nat : \A t \in Seq(S) : Len(t) = m => Same(t)}
<1>0. \A t \in Seq(S) : R(t).out \in Seq(S) /\ W(t).out \in Seq(S) /\ R(t).held \in Seq(S)
  BY ReplacingType
<1>a. \A u, v, w \in Seq(S) : u \o (v \o w) = (u \o v) \o w
  BY ConcatAssociative
<1>b. \A u, v \in Seq(S) : u \o v \in Seq(S)
  BY ConcatProperties
<1>1. ASSUME NEW m \in Nat, \A k \in 0..(m - 1) : k \in T PROVE m \in T
  <2> SUFFICES ASSUME NEW t \in Seq(S), Len(t) = m PROVE Same(t)
    OBVIOUS
  <2>0. ASSUME NEW u \in Seq(S), Len(u) < m PROVE Same(u)
    <3>1. Len(u) \in 0..(m - 1)
      BY <2>0, LenProperties
    <3> HIDE DEF Same
    <3>. QED  BY <1>1, <3>1
  <2>1. CASE t = << >>
    <3>1. R(t).out = << >> /\ R(t).held = << >>
      BY <2>1, ReplacingNothing
    <3>2. << >> \o x \in Seq(S)
      BY EmptySeq, ConcatProperties
    <3> HIDE DEF R, W
    <3>3. << >> \o W(<< >> \o x).out = W(<< >> \o x).out
      BY <1>0, <3>2, ConcatEmptySeq
    <3>. QED  BY <2>1, <3>1, <3>3
  <2>2. CASE FoundAt(t, 1, P)
    <3>1. PICK p \in P : StartsAt(t, 1, p)
      BY <2>2 DEF FoundAt
    <3> DEFINE u == SubSeq(t, Len(p) + 1, Len(t))
    <3>2. p \in Seq(S) /\ Len(p) >= 1 /\ value[p] \in Seq(S)
      BY DEF Replaceable, Findable
    <3>3. StartsAt(t \o x, 1, p) /\ Len(p) \in 1..Len(t) /\ t \o x \in Seq(S)
      BY <3>1, <3>2, FoundInJoin, ConcatProperties
    <3>4. /\ u \in Seq(S) /\ Len(u) < m
          /\ SubSeq(t \o x, Len(p) + 1, Len(t \o x)) = u \o x
      <4>1. Len(p) \in 0..Len(t) /\ Len(t) \in Nat
        BY <3>3, LenProperties
      <4>2. u \in Seq(S) /\ Len(u) = Len(t) - Len(p)
        BY <4>1, CutProperties
      <4>3. SubSeq(t \o x, Len(p) + 1, Len(t \o x)) = u \o x
        BY <4>1, CutOfJoin
      <4>4. Len(u) < m
        BY <3>3, <4>1, <4>2
      <4> HIDE DEF u
      <4>. QED  BY <4>2, <4>3, <4>4
    <3>5. R(t).out = Joined(value[p], R(u).out) /\ R(t).held = R(u).held
      BY <3>1, ReplacingMatch
    <3>6. W(t \o x).out = Joined(value[p], W(u \o x).out)
      <4>1. W(t \o x).out
              = Joined(value[p], W(SubSeq(t \o x, Len(p) + 1, Len(t \o x))).out)
        <5> DEFINE y == t \o x
        <5>1. StartsAt(y, 1, p) /\ y \in Seq(S)
          BY <3>3
        <5> HIDE DEF y
        <5>2. W(y).out = Joined(value[p], W(SubSeq(y, Len(p) + 1, Len(y))).out)
          BY <5>1, ReplacingMatch
        <5>. QED  BY <5>2 DEF y
      <4>. QED  BY <3>4, <4>1
    <3>7. Same(u)
      BY <2>0, <3>4
    <3> DEFINE v == value[p]
    <3> HIDE DEF R, W, u, v
    <3>8. /\ v \in Seq(S) /\ R(u).out \in Seq(S) /\ R(u).held \o x \in Seq(S)
          /\ W(R(u).held \o x).out \in Seq(S)
      BY <1>0, <1>b, <3>2, <3>4 DEF v
    <3>9. R(t).out = v \o R(u).out /\ W(t \o x).out = v \o W(u \o x).out
      BY <3>5, <3>6 DEF v, Joined
    <3>10. (v \o R(u).out) \o W(R(u).held \o x).out
             = v \o (R(u).out \o W(R(u).held \o x).out)
      <4> DEFINE a == R(u).out
                 b == W(R(u).held \o x).out
      <4>1. v \in Seq(S) /\ a \in Seq(S) /\ b \in Seq(S)
        BY <3>8
      <4> HIDE DEF a, b
      <4>2. (v \o a) \o b = v \o (a \o b)
        BY <1>a, <4>1
      <4>. QED  BY <4>2 DEF a, b
    <3>. QED  BY <3>5, <3>7, <3>9, <3>10
  <2>3. CASE t # << >> /\ ~FoundAt(t, 1, P) /\ t \in Stops
    <3>1. R(t).out = << >> /\ R(t).held = t
      BY <2>3, ReplacingStops
    <3>2. t \o x \in Seq(S)
      BY ConcatProperties
    <3> HIDE DEF R, W
    <3>. QED  BY <1>0, <3>1, <3>2, ConcatEmptySeq
  <2>4. CASE t # << >> /\ ~FoundAt(t, 1, P) /\ t \notin Stops
    <3> DEFINE u == SubSeq(t, 2, Len(t))
    <3>1. /\ Len(t) \in Nat /\ Len(t) >= 1 /\ Len(x) \in Nat
      BY <2>4, EmptySeq, LenProperties
    <3>2. /\ t \o x \in Seq(S) /\ t \o x # << >> /\ (t \o x)[1] = t[1]
      <4>1. /\ t \o x \in Seq(S) /\ Len(t \o x) = Len(t) + Len(x)
            /\ \A i \in 1..(Len(t) + Len(x)) :
                   (t \o x)[i] = IF i <= Len(t) THEN t[i] ELSE x[i - Len(t)]
        BY ConcatProperties
      <4>. QED  BY <3>1, <4>1, EmptySeq
    <3>3. /\ u \in Seq(S) /\ Len(u) < m
          /\ SubSeq(t \o x, 2, Len(t \o x)) = u \o x
      <4>1. ASSUME NEW k \in 0..Len(t), k = 1
            PROVE  /\ SubSeq(t, k + 1, Len(t)) \in Seq(S)
                   /\ Len(SubSeq(t, k + 1, Len(t))) = Len(t) - k
                   /\ SubSeq(t \o x, k + 1, Len(t \o x)) = SubSeq(t, k + 1, Len(t)) \o x
        BY CutProperties, CutOfJoin
      <4>2. 1 \in 0..Len(t)
        BY <3>1
      <4>. QED  BY <3>1, <4>1, <4>2
    <3>4. R(t).out = Joined(<<t[1]>>, R(u).out) /\ R(t).held = R(u).held
      BY <2>4, ReplacingPlain
    <3>5. ~FoundAt(t \o x, 1, P)
      BY <2>4 DEF StopsInTime
    <3>6. W(t \o x).out = Joined(<<(t \o x)[1]>>, W(SubSeq(t \o x, 2, Len(t \o x))).out)
      <4> DEFINE y == t \o x
      <4>1. ~FoundAt(y, 1, P) /\ y \in Seq(S) /\ y # << >> /\ y \notin {}
        BY <3>2, <3>5
      <4> HIDE DEF y
      <4>2. W(y).out = Joined(<<y[1]>>, W(SubSeq(y, 2, Len(y))).out)
        BY <4>1, ReplacingPlain
      <4>. QED  BY <4>2 DEF y
    <3>7. Same(u)
      BY <2>0, <3>3
    <3> DEFINE v == <<t[1]>>
    <3>8. v \in Seq(S)
      <4>1. t[1] \in S
        BY <3>1, ElementOfSeq
      <4>. QED  BY <4>1
    <3>9. R(t).out = v \o R(u).out /\ W(t \o x).out = v \o W(u \o x).out
      <4> HIDE DEF R, W
      <4>. QED  BY <3>2, <3>3, <3>4, <3>6 DEF Joined
    <3> HIDE DEF R, W, u, v
    <3>10. /\ R(u).out \in Seq(S) /\ R(u).held \o x \in Seq(S)
           /\ W(R(u).held \o x).out \in Seq(S)
      BY <1>0, <1>b, <3>3
    <3>11. (v \o R(u).out) \o W(R(u).held \o x).out
             = v \o (R(u).out \o W(R(u).held \o x).out)
      <4> DEFINE a == R(u).out
                 b == W(R(u).held \o x).out
      <4>1. v \in Seq(S) /\ a \in Seq(S) /\ b \in Seq(S)
        BY <3>8, <3>10
      <4> HIDE DEF a, b
      <4>2. (v \o a) \o b = v \o (a \o b)
        BY <1>a, <4>1
      <4>. QED  BY <4>2 DEF a, b
    <3>. QED  BY <3>4, <3>7, <3>9, <3>11
  <2>. QED  BY <2>1, <2>2, <2>3, <2>4
<1>2. Nat \subseteq T
  <2> HIDE DEF T
  <2>. QED  BY <1>1, EveryNumber
<1>3. \A t \in Seq(S) : Same(t)
  BY <1>2, LenProperties
<1>. QED  BY <1>3 DEF Continued

-----------------------------------------------------------------------------

\* The rest of a rest.
LEMMA RestOfRest ==
    ASSUME NEW S, NEW t \in Seq(S), NEW k \in 0..Len(t), NEW j \in 0..(Len(t) - k)
    PROVE  LET u == SubSeq(t, k + 1, Len(t))
           IN  SubSeq(u, j + 1, Len(u)) = SubSeq(t, k + j + 1, Len(t))
<1> DEFINE u == SubSeq(t, k + 1, Len(t))
           v == SubSeq(u, j + 1, Len(u))
           w == SubSeq(t, k + j + 1, Len(t))
<1>0. /\ Len(t) \in Nat /\ u \in Seq(S) /\ Len(u) = Len(t) - k
      /\ \A i \in 1..(Len(t) - k) : u[i] = t[k + i]
  BY CutProperties, LenProperties
<1>1. /\ w \in Seq(S) /\ Len(w) = Len(t) - (k + j)
      /\ \A i \in 1..(Len(t) - (k + j)) : w[i] = t[k + j + i]
  <2>1. k + j \in 0..Len(t)
    BY <1>0
  <2>. QED  BY <2>1, CutProperties
<1> HIDE DEF u, w
<1>2. /\ v \in Seq(S) /\ Len(v) = Len(u) - j
      /\ \A i \in 1..(Len(u) - j) : v[i] = u[j + i]
  <2>1. j \in 0..Len(u)
    BY <1>0
  <2>. QED  BY <1>0, <2>1, CutProperties
<1> HIDE DEF v
<1>3. Len(v) = Len(w)
  BY <1>0, <1>1, <1>2
<1>4. ASSUME NEW i \in 1..Len(v) PROVE v[i] = w[i]
  <2>1. i \in 1..(Len(u) - j) /\ i \in 1..(Len(t) - (k + j)) /\ j + i \in 1..(Len(t) - k)
    BY <1>0, <1>2, <1>4
  <2>2. v[i] = u[j + i] /\ w[i] = t[k + j + i] /\ u[j + i] = t[k + (j + i)]
    BY <1>0, <1>1, <1>2, <2>1
  <2>3. k + (j + i) = k + j + i
    BY <1>0, <2>1
  <2>. QED  BY <2>2, <2>3
<1>. QED  BY <1>1, <1>2, <1>3, <1>4, SeqEqual DEF u, v, w

\* One element more of the front.
LEMMA LongerFront ==
    ASSUME NEW S, NEW t \in Seq(S), NEW k \in 0..Len(t), k < Len(t)
    PROVE  SubSeq(t, 1, k) \o <<t[k + 1]>> = SubSeq(t, 1, k + 1)
<1> DEFINE a == SubSeq(t, 1, k)
           b == <<t[k + 1]>>
           c == SubSeq(t, 1, k + 1)
<1>0. Len(t) \in Nat /\ k \in Nat /\ k + 1 \in 1..Len(t) /\ k + 1 \in 0..Len(t)
  BY LenProperties
<1>1. a \in Seq(S) /\ Len(a) = k /\ \A i \in 1..k : a[i] = t[i]
  BY CutProperties
<1>2. c \in Seq(S) /\ Len(c) = k + 1 /\ \A i \in 1..(k + 1) : c[i] = t[i]
  BY <1>0, CutProperties
<1>3. b \in Seq(S) /\ Len(b) = 1 /\ b[1] = t[k + 1]
  <2>1. t[k + 1] \in S
    BY <1>0, ElementOfSeq
  <2>. QED  BY <2>1
<1> HIDE DEF a, b, c
<1>4. /\ a \o b \in Seq(S) /\ Len(a \o b) = k + 1
      /\ \A i \in 1..(k + 1) : (a \o b)[i] = IF i <= k THEN a[i] ELSE b[i - k]
  <2>1. /\ a \o b \in Seq(S) /\ Len(a \o b) = Len(a) + Len(b)
        /\ \A i \in 1..(Len(a) + Len(b)) :
               (a \o b)[i] = IF i <= Len(a) THEN a[i] ELSE b[i - Len(a)]
    BY <1>1, <1>3, ConcatProperties
  <2>. QED  BY <1>1, <1>3, <2>1
<1>5. ASSUME NEW i \in 1..(k + 1) PROVE (a \o b)[i] = c[i]
  <2>1. CASE i <= k
    BY <1>0, <1>1, <1>2, <1>4, <2>1
  <2>2. CASE i = k + 1
    BY <1>0, <1>2, <1>3, <1>4, <2>2
  <2>3. i <= k \/ i = k + 1
    BY <1>0
  <2>. QED  BY <2>1, <2>2, <2>3
<1> DEFINE d == a \o b
<1>6. d \in Seq(S) /\ Len(d) = Len(c) /\ \A i \in 1..Len(d) : d[i] = c[i]
  BY <1>2, <1>4, <1>5
<1> HIDE DEF d
<1>7. d = c
  BY <1>2, <1>6, SeqEqual
<1>. QED  BY <1>7 DEF a, b, c, d

\* What is found in front of a text is its front.
LEMMA MatchIsFront ==
    ASSUME NEW S, NEW t \in Seq(S), NEW p \in Seq(S), StartsAt(t, 1, p)
    PROVE  Len(p) \in 0..Len(t) /\ SubSeq(t, 1, Len(p)) = p
<1>1. Len(t) \in Nat /\ Len(p) \in 0..Len(t) /\ \A k \in 1..Len(p) : t[k] = p[k]
  BY LenProperties DEF StartsAt
<1>2. /\ SubSeq(t, 1, Len(p)) \in Seq(S)
      /\ Len(SubSeq(t, 1, Len(p))) = Len(p)
      /\ \A i \in 1..Len(p) : SubSeq(t, 1, Len(p))[i] = t[i]
  BY <1>1, CutProperties
<1>3. \A i \in 1..Len(p) : SubSeq(t, 1, Len(p))[i] = p[i]
  BY <1>1, <1>2
<1>. QED  BY <1>1, <1>2, <1>3, SeqEqual

\* The elements in front that are no match and no place to stop are copied, and
\* the rest follows.
LEMMA ReplacingCopies ==
    ASSUME NEW S, NEW P, NEW value, NEW Stops, Replaceable(S, P, value), NEW t \in Seq(S),
           NEW n \in 0..Len(t),
           \A i \in 1..n : ~FoundAt(t, i, P) /\ SubSeq(t, i, Len(t)) \notin Stops
    PROVE  /\ Replacing(t, P, value, Stops).out
                = Joined(SubSeq(t, 1, n),
                         Replacing(SubSeq(t, n + 1, Len(t)), P, value, Stops).out)
           /\ Replacing(t, P, value, Stops).held
                = Replacing(SubSeq(t, n + 1, Len(t)), P, value, Stops).held
<1> DEFINE R(u) == Replacing(u, P, value, Stops)
           Rest(k) == SubSeq(t, k + 1, Len(t))
           Front(k) == SubSeq(t, 1, k)
           Says(k) == /\ R(t).out = Front(k) \o R(Rest(k)).out
                      /\ R(t).held = R(Rest(k)).held
           T == {k \in Nat : k <= n => Says(k)}
<1>0. /\ Len(t) \in Nat /\ n \in Nat /\ n <= Len(t)
      /\ \A u \in Seq(S) : R(u).out \in Seq(S)
      /\ \A k \in 0..Len(t) : Front(k) \in Seq(S) /\ Rest(k) \in Seq(S)
                              /\ Len(Rest(k)) = Len(t) - k
  BY LenProperties, ReplacingType, CutProperties
<1>1. ASSUME NEW m \in Nat, \A k \in 0..(m - 1) : k \in T PROVE m \in T
  <2> SUFFICES ASSUME m <= n PROVE Says(m)
    OBVIOUS
  <2>1. CASE m = 0
    <3>1. Front(0) = << >> /\ Rest(0) = t
      <4>1. 0 + 1 = 1 /\ SubSeq(t, 1, Len(t)) = t /\ SubSeq(t, 1, 0) = << >>
        BY SubSeqFull, SubSeqEmpty
      <4>. QED  BY <4>1
    <3>2. << >> \o R(t).out = R(t).out
      <4> HIDE DEF R
      <4>. QED  BY <1>0, ConcatEmptySeq
    <3> HIDE DEF R, Front, Rest
    <3>. QED  BY <2>1, <3>1, <3>2
  <2>2. CASE m >= 1
    <3> DEFINE k == m - 1
    <3>1. k \in 0..(m - 1) /\ k + 1 = m /\ k <= n /\ k \in 0..Len(t) /\ k < Len(t)
          /\ m \in 1..n /\ m \in 1..Len(t)
      BY <1>0, <2>2
    <3> HIDE DEF k
    <3>2. Says(k)
      <4> HIDE DEF Says
      <4>. QED  BY <1>1, <3>1
    <3> DEFINE v == Rest(k)
    <3>3. v \in Seq(S) /\ Len(v) = Len(t) - k /\ 1 \in 1..Len(v) /\ v # << >>
      <4>1. v \in Seq(S) /\ Len(v) = Len(t) - k
        BY <1>0, <3>1
      <4> HIDE DEF v
      <4>2. 1 \in 1..Len(v)
        BY <1>0, <3>1, <4>1
      <4>. QED  BY <4>1, <4>2, EmptySeq
    <3>4. /\ \A p \in Seq(S) : StartsAt(v, 1, p) <=> StartsAt(t, 1 + k, p)
          /\ v[1] = t[1 + k]
      <4>1. 1 \in 1..Len(SubSeq(t, k + 1, Len(t)))
        BY <3>3
      <4>2. \A p \in Seq(S) : StartsAt(SubSeq(t, k + 1, Len(t)), 1, p)
                                 <=> StartsAt(t, 1 + k, p)
        <5> HIDE DEF v, Rest
        <5>. QED  BY <3>1, <4>1, WithinRest
      <4>3. SubSeq(t, k + 1, Len(t))[1] = t[1 + k]
        <5> HIDE DEF v, Rest
        <5>. QED  BY <3>1, <4>1, WithinRest
      <4>. QED  BY <4>2, <4>3
    <3>5. v = SubSeq(t, m, Len(t)) /\ 1 + k = m
      BY <3>1
    <3>6. SubSeq(v, 2, Len(v)) = Rest(m)
      <4>1. 1 \in 0..(Len(t) - k) /\ 1 + 1 = 2 /\ k + 1 + 1 = m + 1
        BY <1>0, <3>1
      <4>2. SubSeq(v, 1 + 1, Len(v)) = SubSeq(t, k + 1 + 1, Len(t))
        BY <3>1, <4>1, RestOfRest
      <4>. QED  BY <4>1, <4>2
    <3>7. Front(k) \o <<t[k + 1]>> = Front(m)
      <4>1. Front(k) \o <<t[k + 1]>> = Front(k + 1)
        BY <3>1, LongerFront
      <4>. QED  BY <3>1, <4>1
    <3>8. ~FoundAt(v, 1, P) /\ v \notin Stops
      <4>1. ~FoundAt(t, m, P) /\ SubSeq(t, m, Len(t)) \notin Stops
        BY <3>1
      <4>2. ~FoundAt(v, 1, P)
        BY <3>4, <3>5, <4>1 DEF FoundAt, Replaceable, Findable
      <4>. QED  BY <3>5, <4>1, <4>2
    <3> HIDE DEF v, Rest, Front
    <3>9. R(v).out = Joined(<<v[1]>>, R(SubSeq(v, 2, Len(v))).out)
          /\ R(v).held = R(SubSeq(v, 2, Len(v))).held
      BY <3>3, <3>8, ReplacingPlain
    <3> DEFINE a == Front(k)
               b == <<t[k + 1]>>
               c == R(Rest(m)).out
    <3>10. a \in Seq(S) /\ b \in Seq(S) /\ c \in Seq(S)
      <4>1. t[k + 1] \in S
        BY <3>1, ElementOfSeq
      <4>2. m \in 0..Len(t)
        BY <1>0
      <4> HIDE DEF R
      <4>3. c \in Seq(S)
        BY <1>0, <4>2
      <4>. QED  BY <1>0, <3>1, <4>1, <4>3
    <3> HIDE DEF R, a, b, c
    <3>11. R(v).out = b \o c /\ R(v).held = R(Rest(m)).held
      BY <3>1, <3>4, <3>5, <3>6, <3>9 DEF Joined, b, c
    <3>12. R(t).out = a \o R(v).out /\ R(t).held = R(v).held
      BY <3>2 DEF a, v
    <3>13. a \o (b \o c) = (a \o b) \o c
      <4>1. \A d, e, f \in Seq(S) : d \o (e \o f) = (d \o e) \o f
        BY ConcatAssociative
      <4>. QED  BY <3>10, <4>1
    <3>14. R(t).out = (a \o b) \o c
      BY <3>11, <3>12, <3>13
    <3>15. a \o b = Front(m)
      BY <3>7 DEF a, b
    <3>. QED  BY <3>11, <3>12, <3>14, <3>15 DEF c
  <2> HIDE DEF Says
  <2>. QED  BY <2>1, <2>2
<1>2. n \in T
  <2> HIDE DEF T
  <2>1. Nat \subseteq T
    BY <1>1, EveryNumber
  <2>. QED  BY <1>0, <2>1
<1>3. Says(n)
  <2> HIDE DEF Says
  <2>. QED  BY <1>0, <1>2
<1>. QED  BY <1>3 DEF Joined

\* Where nothing is found, nothing is changed.
LEMMA ReplacingNowhere ==
    ASSUME NEW S, NEW P, NEW value, Replaceable(S, P, value), NEW t \in Seq(S),
           \A i \in 1..Len(t) : ~FoundAt(t, i, P)
    PROVE  Replacing(t, P, value, {}).out = t
<1> DEFINE n == Len(t)
<1>1. n \in 0..Len(t) /\ \A i \in 1..n : ~FoundAt(t, i, P) /\ SubSeq(t, i, Len(t)) \notin {}
  BY LenProperties
<1>2. SubSeq(t, 1, n) = t /\ SubSeq(t, n + 1, Len(t)) = << >>
  <2>1. SubSeq(t, 1, Len(t)) = t
    BY SubSeqFull
  <2>2. SubSeq(t, Len(t) + 1, Len(t)) = << >>
    BY LenProperties, SubSeqEmpty
  <2>. QED  BY <2>1, <2>2
<1> HIDE DEF n
<1>3. Replacing(t, P, value, {}).out
        = Joined(SubSeq(t, 1, n), Replacing(SubSeq(t, n + 1, Len(t)), P, value, {}).out)
  BY <1>1, ReplacingCopies
<1>4. Replacing(<< >>, P, value, {}).out = << >>
  BY ReplacingNothing
<1>5. Replacing(t, P, value, {}).out = t \o << >>
  BY <1>2, <1>3, <1>4 DEF Joined
<1>. QED  BY <1>5, ConcatEmptySeq

\* Replacing every match by itself changes nothing.
LEMMA ReplacingBySelf ==
    ASSUME NEW S, NEW P, NEW value, Replaceable(S, P, value), \A p \in P : value[p] = p
    PROVE  \A t \in Seq(S) : Replacing(t, P, value, {}).out = t
<1> DEFINE R(t) == Replacing(t, P, value, {})
           Same(t) == R(t).out = t
           T == {m \in Nat : \A t \in Seq(S) : Len(t) = m => Same(t)}
<1>1. ASSUME NEW m \in Nat, \A k \in 0..(m - 1) : k \in T PROVE m \in T
  <2> SUFFICES ASSUME NEW t \in Seq(S), Len(t) = m PROVE Same(t)
    OBVIOUS
  <2>0. ASSUME NEW u \in Seq(S), Len(u) < m PROVE Same(u)
    <3>1. Len(u) \in 0..(m - 1)
      BY <2>0, LenProperties
    <3> HIDE DEF Same
    <3>. QED  BY <1>1, <3>1
  <2>1. CASE t = << >>
    <3>1. R(<< >>).out = << >>
      BY ReplacingNothing
    <3>. QED  BY <2>1, <3>1
  <2>2. CASE FoundAt(t, 1, P)
    <3>1. PICK p \in P : StartsAt(t, 1, p)
      BY <2>2 DEF FoundAt
    <3> DEFINE u == SubSeq(t, Len(p) + 1, Len(t))
    <3>2. p \in Seq(S) /\ Len(p) >= 1 /\ value[p] = p
      BY DEF Replaceable, Findable
    <3>3. Len(p) \in 0..Len(t) /\ SubSeq(t, 1, Len(p)) = p
      BY <3>1, <3>2, MatchIsFront
    <3>4. u \in Seq(S) /\ Len(u) < m /\ p \o u = t
      <4>1. u \in Seq(S) /\ Len(u) = Len(t) - Len(p)
        BY <3>3, CutProperties
      <4>2. SubSeq(t, 1, Len(p)) \o u = t
        BY <3>3, CutAndJoin
      <4>3. Len(u) < m
        <5> HIDE DEF u
        <5>. QED  BY <3>2, <3>3, <4>1, LenProperties
      <4>. QED  BY <3>3, <4>1, <4>2, <4>3
    <3>5. R(t).out = Joined(value[p], R(u).out)
      BY <3>1, ReplacingMatch
    <3>6. R(u).out = u
      BY <2>0, <3>4
    <3> HIDE DEF R, u
    <3>. QED  BY <3>2, <3>4, <3>5, <3>6 DEF Joined
  <2>3. CASE t # << >> /\ ~FoundAt(t, 1, P)
    <3> DEFINE u == SubSeq(t, 2, Len(t))
    <3>1. Len(t) \in Nat /\ Len(t) >= 1
      BY <2>3, EmptySeq, LenProperties
    <3>2. u \in Seq(S) /\ Len(u) < m /\ <<t[1]>> \o u = t
      <4>0. 0 \in 0..Len(t) /\ 1 \in 0..Len(t) /\ 0 < Len(t) /\ 0 + 1 = 1
            /\ 1 + 1 = 2 /\ SubSeq(t, 1, 0) = << >>
        BY <3>1, SubSeqEmpty
      <4>1. ASSUME NEW k \in 0..Len(t), k = 1
            PROVE  /\ SubSeq(t, k + 1, Len(t)) \in Seq(S)
                   /\ Len(SubSeq(t, k + 1, Len(t))) = Len(t) - k
                   /\ SubSeq(t, 1, k) \o SubSeq(t, k + 1, Len(t)) = t
        BY CutProperties, CutAndJoin
      <4>2. u \in Seq(S) /\ Len(u) = Len(t) - 1 /\ SubSeq(t, 1, 1) \o u = t
        BY <4>0, <4>1
      <4>3. SubSeq(t, 1, 0) \o <<t[0 + 1]>> = SubSeq(t, 1, 0 + 1)
        BY <4>0, LongerFront
      <4>4. << >> \o <<t[1]>> = <<t[1]>>
        <5> DEFINE b == <<t[1]>>
        <5>1. b \in Seq({t[1]})
          OBVIOUS
        <5> HIDE DEF b
        <5>2. << >> \o b = b
          BY <5>1, ConcatEmptySeq
        <5>. QED  BY <5>2 DEF b
      <4>5. SubSeq(t, 1, 1) = <<t[1]>>
        BY <4>0, <4>3, <4>4
      <4>6. Len(u) < m
        BY <3>1, <4>2
      <4>. QED  BY <4>2, <4>5, <4>6
    <3>3. R(t).out = Joined(<<t[1]>>, R(u).out)
      BY <2>3, ReplacingPlain
    <3>4. R(u).out = u
      BY <2>0, <3>2
    <3> HIDE DEF R, u
    <3>. QED  BY <3>2, <3>3, <3>4 DEF Joined
  <2>. QED  BY <2>1, <2>2, <2>3
<1>2. Nat \subseteq T
  <2> HIDE DEF T
  <2>. QED  BY <1>1, EveryNumber
<1>. QED  BY <1>2, LenProperties

-----------------------------------------------------------------------------

\* The laws of joining, by its name.
LEMMA JoinLaws ==
    ASSUME NEW S
    PROVE  /\ << >> \in Seq(S)
           /\ \A a, b \in Seq(S) : Joined(a, b) \in Seq(S)
           /\ \A a, b, c \in Seq(S) : Joined(a, Joined(b, c)) = Joined(Joined(a, b), c)
           /\ \A a \in Seq(S) : Joined(a, << >>) = a /\ Joined(<< >>, a) = a
<1>1. \A a, b \in Seq(S) : Joined(a, b) \in Seq(S)
  BY ConcatProperties DEF Joined
<1>2. \A a, b, c \in Seq(S) : Joined(a, Joined(b, c)) = Joined(Joined(a, b), c)
  <2>1. \A a, b, c \in Seq(S) : a \o (b \o c) = (a \o b) \o c
    BY ConcatAssociative
  <2>. QED  BY <2>1 DEF Joined
<1>3. \A a \in Seq(S) : Joined(a, << >>) = a /\ Joined(<< >>, a) = a
  BY ConcatEmptySeq DEF Joined
<1>. QED  BY <1>1, <1>2, <1>3, EmptySeq

\* What the proofs use of a pass.
LEMMA PassFacts ==
    ASSUME NEW S, NEW n, NEW next, NEW piece, Onwards(S, n, next, piece)
    PROVE  /\ n \in Nat /\ n + 1 \in Nat
           /\ \A i \in 1..n : next[i] \in i..(n + 1) /\ piece[i] \in Seq(S)
           /\ \A i \in 1..(n + 1) : PlaceIsRight(Pass(n, next, piece), i, n, next, piece)
           /\ \A i \in 1..(n + 1) : Pass(n, next, piece)[i].out \in Seq(S)
<1>1. \A i \in 1..(n + 1) : PlaceIsRight(Pass(n, next, piece), i, n, next, piece)
  BY PassAtPlace
<1>2. \A i \in 1..(n + 1) : Pass(n, next, piece)[i].out \in Seq(S)
  BY PassType
<1>3. /\ n \in Nat /\ n + 1 \in Nat
      /\ \A i \in 1..n : next[i] \in i..(n + 1) /\ piece[i] \in Seq(S)
  BY DEF Onwards
<1>. QED  BY <1>1, <1>2, <1>3

\* A place that leads onwards, in a pass.
LEMMA PassOnwards ==
    ASSUME NEW f, NEW i, NEW n, NEW next, NEW piece,
           PlaceIsRight(f, i, n, next, piece), i \in 1..n, next[i] # i
    PROVE  f[i].out = Joined(piece[i], f[next[i]].out)
BY DEF PlaceIsRight, Joined

\* While a pass copies a text it puts out the text.
LEMMA PassCopies ==
    ASSUME NEW S, NEW n, NEW next, NEW piece, Onwards(S, n, next, piece),
           NEW t \in Seq(S), Len(t) = n, NEW k \in 0..n,
           \A i \in 1..k : next[i] = i + 1 /\ piece[i] = <<t[i]>>
    PROVE  Pass(n, next, piece)[1].out
             = Joined(SubSeq(t, 1, k), Pass(n, next, piece)[k + 1].out)
<1> DEFINE from == Pass(n, next, piece)
           Front(m) == SubSeq(t, 1, m)
           Says(m) == from[1].out = Joined(Front(m), from[m + 1].out)
           T == {m \in Nat : m <= k => Says(m)}
<1>0. /\ n \in Nat /\ k \in Nat /\ k <= n
      /\ \A i \in 1..(n + 1) : PlaceIsRight(from, i, n, next, piece)
      /\ \A i \in 1..(n + 1) : from[i].out \in Seq(S)
      /\ \A m \in 0..n : Front(m) \in Seq(S)
  <2>1. \A m \in 0..n : Front(m) \in Seq(S)
    BY CutProperties
  <2> HIDE DEF Front
  <2>. QED  BY <2>1, PassFacts
<1>j. \A u, v, w \in Seq(S) : Joined(u, Joined(v, w)) = Joined(Joined(u, v), w)
  BY JoinLaws
<1> HIDE DEF from
<1>1. ASSUME NEW m \in Nat, \A j \in 0..(m - 1) : j \in T PROVE m \in T
  <2> SUFFICES ASSUME m <= k PROVE Says(m)
    OBVIOUS
  <2>1. CASE m = 0
    <3>1. Front(0) = << >> /\ 0 + 1 = 1 /\ 1 \in 1..(n + 1)
      BY <1>0, SubSeqEmpty
    <3>2. Joined(<< >>, from[1].out) = from[1].out
      BY <1>0, <3>1, JoinLaws
    <3> HIDE DEF Front
    <3>. QED  BY <2>1, <3>1, <3>2
  <2>2. CASE m >= 1
    <3> DEFINE j == m - 1
    <3>1. j \in 0..(m - 1) /\ j + 1 = m /\ j <= k /\ j < Len(t) /\ j \in 0..Len(t)
          /\ j \in 0..n /\ m \in 1..k /\ m \in 1..n /\ m \in 1..(n + 1) /\ m + 1 \in 1..(n + 1) /\ ~(m > n)
      BY <1>0, <2>2
    <3> HIDE DEF j
    <3>2. Says(j)
      <4> HIDE DEF Says
      <4>. QED  BY <1>1, <3>1
    <3>3. next[m] = m + 1 /\ piece[m] = <<t[m]>> /\ next[m] # m
      BY <3>1
    <3>4. from[m].out = Joined(<<t[m]>>, from[m + 1].out)
      <4>1. PlaceIsRight(from, m, n, next, piece)
        BY <1>0, <3>1
      <4>2. m \in 1..n /\ next[m] # m
        BY <3>1, <3>3
      <4> HIDE DEF Front
      <4>3. from[m].out = Joined(piece[m], from[next[m]].out)
        BY <4>1, <4>2, PassOnwards
      <4>. QED  BY <3>3, <4>3
    <3>5. Joined(Front(j), <<t[m]>>) = Front(m)
      <4>1. SubSeq(t, 1, j) \o <<t[j + 1]>> = SubSeq(t, 1, j + 1)
        BY <3>1, LongerFront
      <4>. QED  BY <3>1, <4>1 DEF Joined
    <3>6. <<t[m]>> \in Seq(S)
      <4>1. t[m] \in S
        BY <1>0, <3>1, ElementOfSeq
      <4>. QED  BY <4>1
    <3> DEFINE a == <<t[m]>>
    <3> HIDE DEF Front, a
    <3>7. Joined(Front(j), Joined(a, from[m + 1].out)) = Joined(Joined(Front(j), a), from[m + 1].out)
      <4>1. Front(j) \in Seq(S) /\ a \in Seq(S) /\ from[m + 1].out \in Seq(S)
        BY <1>0, <3>1, <3>6 DEF a
      <4>. QED  BY <1>j, <4>1
    <3>. QED  BY <3>1, <3>2, <3>4, <3>5, <3>7 DEF a
  <2> HIDE DEF Says
  <2>. QED  BY <2>1, <2>2
<1>2. Nat \subseteq T
  <2> HIDE DEF T
  <2>. QED  BY <1>1, EveryNumber
<1>. QED  BY <1>0, <1>2 DEF from

\* Reading what a pass puts out, with a reading h that may be done piece by piece,
\* is a pass that puts out the pieces as they are read.
LEMMA PassMapped ==
    ASSUME NEW S, NEW n, NEW next, NEW piece, NEW piece2,
           Onwards(S, n, next, piece), Onwards(S, n, next, piece2),
           NEW h, h[<< >>] = << >>,
           \A a, b \in Seq(S) : h[Joined(a, b)] = Joined(h[a], h[b]),
           \A i \in 1..n : piece2[i] = h[piece[i]]
    PROVE  Pass(n, next, piece2)[1].out = h[Pass(n, next, piece)[1].out]
<1> DEFINE from == Pass(n, next, piece)
           from2 == Pass(n, next, piece2)
           T == {i \in 1..(n + 1) : from2[i].out = h[from[i].out]}
<1>0. /\ n \in Nat /\ n + 1 \in Nat
      /\ \A i \in 1..n : next[i] \in i..(n + 1) /\ piece[i] \in Seq(S)
      /\ \A i \in 1..(n + 1) : PlaceIsRight(from, i, n, next, piece)
      /\ \A i \in 1..(n + 1) : from[i].out \in Seq(S)
  BY PassFacts
<1>00. \A i \in 1..(n + 1) : PlaceIsRight(from2, i, n, next, piece2)
  BY PassFacts
<1> HIDE DEF from, from2
<1>1. ASSUME NEW i \in 1..(n + 1), \A j \in (i + 1)..(n + 1) : j \in T
      PROVE  i \in T
  <2>1. CASE i > n \/ next[i] = i
    <3>1. from[i].out = << >> /\ from2[i].out = << >>
      BY <1>0, <1>00, <2>1 DEF PlaceIsRight
    <3>. QED  BY <3>1
  <2>2. CASE i \in 1..n /\ next[i] # i
    <3>1. next[i] \in i..(n + 1) /\ piece[i] \in Seq(S) /\ piece2[i] = h[piece[i]]
      BY <1>0, <2>2
    <3>2. next[i] \in (i + 1)..(n + 1) /\ next[i] \in 1..(n + 1)
      BY <1>0, <2>2, <3>1
    <3>3. /\ from[i].out = Joined(piece[i], from[next[i]].out)
          /\ from2[i].out = Joined(piece2[i], from2[next[i]].out)
      <4>1. i \in 1..(n + 1) /\ i \in 1..n
        BY <1>0, <2>2
      <4>2. /\ PlaceIsRight(from, i, n, next, piece)
            /\ PlaceIsRight(from2, i, n, next, piece2)
        BY <1>0, <1>00, <4>1
      <4>. QED  BY <2>2, <4>1, <4>2, PassOnwards
    <3>4. next[i] \in T
      <4> HIDE DEF T
      <4>. QED  BY <1>1, <3>2
    <3>5. h[Joined(piece[i], from[next[i]].out)] = Joined(h[piece[i]], h[from[next[i]].out])
      BY <1>0, <3>1, <3>2
    <3>. QED  BY <3>1, <3>3, <3>4, <3>5
  <2>. QED  BY <1>0, <2>1, <2>2
<1>2. 1..(n + 1) \subseteq T
  <2> HIDE DEF T
  <2>. QED  BY <1>0, <1>1, EveryPlace
<1>3. 1 \in 1..(n + 1)
  BY <1>0
<1>. QED  BY <1>2, <1>3 DEF from, from2

\* A pass that begins like a shorter one puts out what that does, and behind it
\* what it puts out from the end of the shorter one on.
LEMMA PassInParts ==
    ASSUME NEW S, NEW m, NEW n, NEW next, NEW piece, NEW next1, NEW piece1,
           Onwards(S, m, next1, piece1), Onwards(S, n, next, piece), m <= n,
           \A i \in 1..m : next1[i] # i /\ next[i] = next1[i] /\ piece[i] = piece1[i]
    PROVE  Pass(n, next, piece)[1].out
             = Joined(Pass(m, next1, piece1)[1].out, Pass(n, next, piece)[m + 1].out)
<1> DEFINE from == Pass(n, next, piece)
           from1 == Pass(m, next1, piece1)
           rest == from[m + 1].out
           T == {i \in 1..(m + 1) : from[i].out = Joined(from1[i].out, rest)}
<1>0. /\ n \in Nat
      /\ \A i \in 1..(n + 1) : PlaceIsRight(from, i, n, next, piece)
      /\ \A i \in 1..(n + 1) : from[i].out \in Seq(S)
  BY PassFacts
<1>01. /\ m \in Nat /\ m + 1 \in Nat
       /\ \A i \in 1..m : next1[i] \in i..(m + 1) /\ piece1[i] \in Seq(S)
       /\ \A i \in 1..(m + 1) : PlaceIsRight(from1, i, m, next1, piece1)
       /\ \A i \in 1..(m + 1) : from1[i].out \in Seq(S)
  BY PassFacts
<1>00. rest \in Seq(S)
  <2>1. m + 1 \in 1..(n + 1)
    BY <1>0, <1>01
  <2>. QED  BY <1>0, <2>1
<1>j. \A u, v, w \in Seq(S) : Joined(u, Joined(v, w)) = Joined(Joined(u, v), w)
  BY JoinLaws
<1> HIDE DEF from, from1, rest
<1>1. ASSUME NEW i \in 1..(m + 1), \A j \in (i + 1)..(m + 1) : j \in T
      PROVE  i \in T
  <2>1. CASE i = m + 1
    <3>1. from1[i].out = << >>
      <4>1. i > m /\ PlaceIsRight(from1, i, m, next1, piece1)
        BY <1>01, <2>1
      <4>. QED  BY <4>1 DEF PlaceIsRight
    <3>2. Joined(<< >>, rest) = rest
      BY <1>00, JoinLaws
    <3>. QED  BY <2>1, <3>1, <3>2 DEF rest
  <2>2. CASE i \in 1..m
    <3>1. /\ next1[i] \in i..(m + 1) /\ next1[i] # i /\ next[i] = next1[i]
          /\ piece[i] = piece1[i] /\ piece1[i] \in Seq(S)
      BY <1>0, <1>01, <2>2
    <3>2. next1[i] \in (i + 1)..(m + 1) /\ next1[i] \in 1..(m + 1)
          /\ i \in 1..(n + 1) /\ i \in 1..n /\ i \in 1..m
      BY <1>0, <1>01, <2>2, <3>1
    <3>3. /\ from[i].out = Joined(piece1[i], from[next1[i]].out)
          /\ from1[i].out = Joined(piece1[i], from1[next1[i]].out)
      <4>1. /\ PlaceIsRight(from, i, n, next, piece)
            /\ PlaceIsRight(from1, i, m, next1, piece1)
        BY <1>0, <1>01, <3>2
      <4>2. /\ from[i].out = Joined(piece[i], from[next[i]].out)
            /\ from1[i].out = Joined(piece1[i], from1[next1[i]].out)
        BY <3>1, <3>2, <4>1, PassOnwards
      <4>. QED  BY <3>1, <4>2
    <3>4. next1[i] \in T
      <4> HIDE DEF T
      <4>. QED  BY <1>1, <3>2
    <3>5. Joined(piece1[i], Joined(from1[next1[i]].out, rest))
            = Joined(Joined(piece1[i], from1[next1[i]].out), rest)
      <4>1. /\ piece1[i] \in Seq(S) /\ from1[next1[i]].out \in Seq(S) /\ rest \in Seq(S)
        BY <1>01, <1>00, <3>1, <3>2
      <4>. QED  BY <1>j, <4>1
    <3>. QED  BY <3>3, <3>4, <3>5
  <2>. QED  BY <1>0, <1>01, <2>1, <2>2
<1>2. 1..(m + 1) \subseteq T
  <2> HIDE DEF T
  <2>. QED  BY <1>01, <1>1, EveryPlace
<1>3. 1 \in 1..(m + 1)
  BY <1>01
<1>. QED  BY <1>2, <1>3 DEF from, from1, rest

\* Two passes over as many places that have the same steps from some place on put
\* out the same from there on.
LEMMA PassesMeet ==
    ASSUME NEW S, NEW n, NEW next, NEW piece, NEW next2, NEW piece2,
           Onwards(S, n, next, piece), Onwards(S, n, next2, piece2),
           NEW j \in 1..(n + 1),
           \A i \in j..n : next2[i] = next[i] /\ piece2[i] = piece[i]
    PROVE  Pass(n, next2, piece2)[j].out = Pass(n, next, piece)[j].out
<1> DEFINE d == 0
<1>1. n \in Nat /\ n + d = n /\ j + d = j /\ d \in Int /\ j + d \in 1..(n + d + 1)
  BY DEF Onwards
<1>2. \A i \in j..n : next2[i + d] = next[i] + d /\ piece2[i + d] = piece[i]
  <2>1. \A i \in j..n : i + d = i /\ next[i] + d = next[i]
    <3>1. \A i \in j..n : next[i] \in Int /\ i \in Int
      BY <1>1 DEF Onwards
    <3>. QED  BY <3>1
  <2> HIDE DEF d
  <2>. QED  BY <2>1
<1>3. Onwards(S, n + d, next2, piece2)
  BY <1>1
<1> HIDE DEF d
<1>4. Pass(n + d, next2, piece2)[j + d].out = Pass(n, next, piece)[j].out
  BY <1>1, <1>2, <1>3, PassesAgree
<1>. QED  BY <1>1, <1>4

\* A pass of which every piece is what it passes over gives the text back.
LEMMA PassGivesBack ==
    ASSUME NEW S, NEW n, NEW next, NEW piece, Onwards(S, n, next, piece),
           NEW t \in Seq(S), Len(t) = n,
           \A i \in 1..n : next[i] # i /\ piece[i] = SubSeq(t, i, next[i] - 1)
    PROVE  Pass(n, next, piece)[1].out = t
<1> DEFINE from == Pass(n, next, piece)
           Rest(i) == SubSeq(t, i, n)
           T == {i \in 1..(n + 1) : from[i].out = Rest(i)}
<1>0. /\ n \in Nat /\ n + 1 \in Nat
      /\ \A i \in 1..n : next[i] \in i..(n + 1) /\ piece[i] \in Seq(S)
      /\ \A i \in 1..(n + 1) : PlaceIsRight(from, i, n, next, piece)
  BY PassFacts
<1> HIDE DEF from
<1>1. ASSUME NEW i \in 1..(n + 1), \A j \in (i + 1)..(n + 1) : j \in T
      PROVE  i \in T
  <2>1. CASE i = n + 1
    <3>1. from[i].out = << >>
      <4>1. PlaceIsRight(from, i, n, next, piece) /\ i > n
        BY <1>0, <2>1
      <4>. QED  BY <4>1 DEF PlaceIsRight
    <3>2. Rest(i) = << >>
      BY <1>0, <2>1, SubSeqEmpty
    <3>. QED  BY <3>1, <3>2
  <2>2. CASE i \in 1..n
    <3> DEFINE j == next[i]
    <3>1. j \in (i + 1)..(n + 1) /\ j # i /\ piece[i] = SubSeq(t, i, j - 1)
      BY <1>0, <2>2
    <3>2. from[i].out = Joined(piece[i], from[j].out)
      <4>1. PlaceIsRight(from, i, n, next, piece) /\ i \in 1..n /\ next[i] # i
        BY <1>0, <2>2, <3>1
      <4>2. from[i].out = Joined(piece[i], from[next[i]].out)
        BY <4>1, PassOnwards
      <4>. QED  BY <4>2
    <3>3. j \in T
      <4> HIDE DEF T
      <4>. QED  BY <1>1, <3>1
    <3>4. SubSeq(t, i, j - 1) \o SubSeq(t, j, n) = SubSeq(t, i, n)
      <4> DEFINE k == j - 1
      <4>1. i \in 1..(Len(t) + 1) /\ k \in (i - 1)..Len(t) /\ n \in k..Len(t) /\ k + 1 = j
        BY <1>0, <2>2, <3>1
      <4> HIDE DEF k, j
      <4>2. SubSeq(t, i, k) \o SubSeq(t, k + 1, n) = SubSeq(t, i, n)
        BY <4>1, ConcatAdjacentSubSeq
      <4>. QED  BY <4>1, <4>2 DEF k
    <3> HIDE DEF j
    <3>. QED  BY <3>1, <3>2, <3>3, <3>4 DEF Joined
  <2>. QED  BY <1>0, <2>1, <2>2
<1>2. 1..(n + 1) \subseteq T
  <2> HIDE DEF T
  <2>. QED  BY <1>0, <1>1, EveryPlace
<1>3. 1 \in 1..(n + 1) /\ SubSeq(t, 1, n) = t
  BY <1>0, SubSeqFull
<1>4. 1 \in T
  <2> HIDE DEF T
  <2>. QED  BY <1>2, <1>3
<1>. QED  BY <1>3, <1>4 DEF from

-----------------------------------------------------------------------------

\* spell gives a text over C for each symbol of S.
Spells(S, C, spell) == \A s \in S : spell[s] \in Seq(C)

\* A text over symbols, each written out as the text spell gives for it.
Onward(t) == [i \in 1..Len(t) |-> i + 1]
Written(t, spell) == [i \in 1..Len(t) |-> spell[t[i]]]
Spelled(t, spell) == Pass(Len(t), Onward(t), Written(t, spell))[1].out

\* Writing out is a pass that stops nowhere.
LEMMA SpelledIsPass ==
    ASSUME NEW S, NEW C, NEW spell, Spells(S, C, spell), NEW t \in Seq(S)
    PROVE  /\ Onwards(C, Len(t), Onward(t), Written(t, spell))
           /\ \A i \in 1..Len(t) : /\ Onward(t)[i] = i + 1
                                   /\ Written(t, spell)[i] = spell[t[i]]
           /\ Spelled(t, spell) = Pass(Len(t), Onward(t), Written(t, spell))[1].out
           /\ Spelled(t, spell) \in Seq(C)
<1> DEFINE n == Len(t)
           next == Onward(t)
           piece == Written(t, spell)
<1>1. n \in Nat /\ \A i \in 1..n : t[i] \in S
  BY LenProperties, ElementOfSeq
<1>2. \A i \in 1..n : next[i] = i + 1 /\ piece[i] = spell[t[i]]
  BY DEF Onward, Written
<1>3. Spelled(t, spell) = Pass(n, next, piece)[1].out
  BY DEF Spelled
<1> HIDE DEF n, next, piece
<1>4. Onwards(C, n, next, piece)
  BY <1>1, <1>2 DEF Onwards, Spells
<1>5. 1 \in 1..(n + 1)
  BY <1>1
<1>6. Pass(n, next, piece)[1].out \in Seq(C)
  BY <1>4, <1>5, PassFacts
<1>. QED  BY <1>2, <1>3, <1>4, <1>6 DEF n, next, piece

\* It works piece by piece.
LEMMA SpelledLaws ==
    ASSUME NEW S, NEW C, NEW spell, Spells(S, C, spell)
    PROVE  /\ Spelled(<< >>, spell) = << >>
           /\ \A s \in S : Spelled(<<s>>, spell) = spell[s]
           /\ \A a, b \in Seq(S) :
                  Spelled(Joined(a, b), spell) = Joined(Spelled(a, spell), Spelled(b, spell))
<1>1. Spelled(<< >>, spell) = << >>
  <2> DEFINE t == << >>
             next == Onward(t)
             piece == Written(t, spell)
  <2>1. t \in Seq(S) /\ Len(t) = 0
    BY EmptySeq
  <2> HIDE DEF t
  <2>2. Onwards(C, 0, next, piece) /\ Spelled(t, spell) = Pass(0, next, piece)[1].out
    <3>1. t \in Seq(S)
      BY <2>1
    <3>2. /\ Onwards(C, Len(t), next, piece)
          /\ Spelled(t, spell) = Pass(Len(t), next, piece)[1].out
      BY <3>1, SpelledIsPass
    <3>. QED  BY <2>1, <3>2
  <2> HIDE DEF next, piece
  <2>3. PlaceIsRight(Pass(0, next, piece), 1, 0, next, piece)
    BY <2>2, PassFacts
  <2>. QED  BY <2>2, <2>3 DEF PlaceIsRight, t
<1>2. ASSUME NEW s \in S PROVE Spelled(<<s>>, spell) = spell[s]
  <2> DEFINE t == <<s>>
             next == Onward(t)
             piece == Written(t, spell)
             P == Pass(Len(t), next, piece)
  <2>1. t \in Seq(S) /\ Len(t) = 1 /\ t[1] = s
    OBVIOUS
  <2> HIDE DEF t
  <2>2. Onwards(C, Len(t), next, piece) /\ Spelled(t, spell) = P[1].out
    <3>1. t \in Seq(S)
      BY <2>1
    <3>. QED  BY <3>1, SpelledIsPass
  <2>3. next[1] = 2 /\ piece[1] = spell[s]
    <3>1. 1 \in 1..Len(t)
      BY <2>1
    <3>. QED  BY <2>1, <3>1, SpelledIsPass
  <2> HIDE DEF next, piece
  <2>4. /\ PlaceIsRight(P, 1, 1, next, piece) /\ PlaceIsRight(P, 2, 1, next, piece)
        /\ piece[1] \in Seq(C)
    BY <2>1, <2>2, PassFacts
  <2> HIDE DEF P
  <2>5. P[2].out = << >>
    BY <2>4 DEF PlaceIsRight
  <2>6. P[1].out = Joined(piece[1], P[next[1]].out)
    BY <2>3, <2>4, PassOnwards
  <2>7. Joined(piece[1], << >>) = piece[1]
    BY <2>4, JoinLaws
  <2>. QED  BY <2>2, <2>3, <2>5, <2>6, <2>7 DEF t
<1>3. ASSUME NEW a \in Seq(S), NEW b \in Seq(S)
      PROVE  Spelled(Joined(a, b), spell) = Joined(Spelled(a, spell), Spelled(b, spell))
  <2> DEFINE t == Joined(a, b)
             m == Len(a)
             l == Len(b)
             n == l + m
             next == Onward(t)
             piece == Written(t, spell)
             nextA == Onward(a)
             pieceA == Written(a, spell)
             nextB == Onward(b)
             pieceB == Written(b, spell)
  <2>1. /\ t \in Seq(S) /\ Len(t) = n /\ m \in Nat /\ l \in Nat /\ m <= n
        /\ \A i \in 1..m : t[i] = a[i]
        /\ \A i \in 1..l : t[i + m] = b[i]
    <3>1. /\ a \o b \in Seq(S) /\ Len(a \o b) = Len(a) + Len(b)
          /\ \A i \in 1..(Len(a) + Len(b)) :
                 (a \o b)[i] = IF i <= Len(a) THEN a[i] ELSE b[i - Len(a)]
          /\ Len(a) \in Nat /\ Len(b) \in Nat
      BY ConcatProperties, LenProperties
    <3>2. t = a \o b
      BY DEF Joined
    <3> HIDE DEF t
    <3>3. \A i \in 1..l : t[i + m] = b[i]
      <4> SUFFICES ASSUME NEW i \in 1..l PROVE t[i + m] = b[i]
        OBVIOUS
      <4>1. i + m \in 1..(Len(a) + Len(b)) /\ ~(i + m <= Len(a)) /\ i + m - Len(a) = i
        BY <3>1
      <4>. QED  BY <3>1, <3>2, <4>1
    <3>. QED  BY <3>1, <3>2, <3>3
  <2>2. /\ Onwards(C, Len(t), next, piece)
        /\ Spelled(t, spell) = Pass(Len(t), next, piece)[1].out
        /\ \A i \in 1..Len(t) : next[i] = i + 1 /\ piece[i] = spell[t[i]]
    <3>1. t \in Seq(S)
      BY <2>1
    <3> HIDE DEF t
    <3>. QED  BY <3>1, SpelledIsPass
  <2>3. /\ Onwards(C, m, nextA, pieceA) /\ Spelled(a, spell) = Pass(m, nextA, pieceA)[1].out
        /\ Onwards(C, l, nextB, pieceB) /\ Spelled(b, spell) = Pass(l, nextB, pieceB)[1].out
        /\ \A i \in 1..m : nextA[i] = i + 1 /\ pieceA[i] = spell[a[i]]
        /\ \A i \in 1..l : nextB[i] = i + 1 /\ pieceB[i] = spell[b[i]]
    BY SpelledIsPass
  <2>4. /\ \A i \in 1..m : nextA[i] # i /\ next[i] = nextA[i] /\ piece[i] = pieceA[i]
        /\ \A i \in 1..l : next[i + m] = nextB[i] + m /\ piece[i + m] = pieceB[i]
    <3>1. ASSUME NEW i \in 1..m
          PROVE  nextA[i] # i /\ next[i] = nextA[i] /\ piece[i] = pieceA[i]
      <4>1. i \in 1..Len(t) /\ t[i] = a[i]
        BY <2>1
      <4>2. i + 1 # i /\ i \in 1..m
        BY <2>1
      <4> HIDE DEF t, m, next, piece, nextA, pieceA
      <4>. QED  BY <2>2, <2>3, <4>1, <4>2
    <3>2. ASSUME NEW i \in 1..l
          PROVE  next[i + m] = nextB[i] + m /\ piece[i + m] = pieceB[i]
      <4>1. i + m \in 1..Len(t) /\ t[i + m] = b[i] /\ i + m + 1 = i + 1 + m
        BY <2>1
      <4> HIDE DEF t, next, piece, nextB, pieceB
      <4>. QED  BY <2>2, <2>3, <4>1
    <3>. QED  BY <3>1, <3>2
  <2> HIDE DEF t, m, l, next, piece, nextA, pieceA, nextB, pieceB
  <2>5. Pass(n, next, piece)[1].out
          = Joined(Pass(m, nextA, pieceA)[1].out, Pass(n, next, piece)[m + 1].out)
    <3>1. Onwards(C, n, next, piece) /\ m <= n
      BY <2>1, <2>2
    <3> HIDE DEF n
    <3>. QED  BY <2>3, <2>4, <3>1, PassInParts
  <2>6. Pass(n, next, piece)[m + 1].out = Pass(l, nextB, pieceB)[1].out
    <3>1. m \in Int /\ 1 \in 1..(l + 1) /\ 1 + m \in 1..(l + m + 1) /\ 1 + m = m + 1
      BY <2>1
    <3>2. Onwards(C, l + m, next, piece)
      BY <2>1, <2>2
    <3>3. Pass(l + m, next, piece)[1 + m].out = Pass(l, nextB, pieceB)[1].out
      BY <2>3, <2>4, <3>1, <3>2, PassesAgree
    <3>. QED  BY <3>1, <3>3
  <2> HIDE DEF n
  <2>7. Spelled(t, spell) = Joined(Spelled(a, spell), Spelled(b, spell))
    BY <2>1, <2>2, <2>3, <2>5, <2>6
  <2>. QED  BY <2>7 DEF t
<1>. QED  BY <1>1, <1>2, <1>3

\* The first of two joined texts is in front, the second behind it.
LEMMA PartsOfJoin ==
    ASSUME NEW S
    PROVE  \A a, b \in Seq(S) :
               /\ Joined(a, b) \in Seq(S)
               /\ Len(a) \in Nat /\ Len(b) \in Nat
               /\ Len(Joined(a, b)) = Len(a) + Len(b)
               /\ \A i \in 1..Len(a) : Joined(a, b)[i] = a[i]
               /\ Len(b) >= 1 => Joined(a, b)[Len(a) + 1] = b[1]
               /\ SubSeq(Joined(a, b), 1, Len(a)) = a
               /\ SubSeq(Joined(a, b), Len(a) + 1, Len(Joined(a, b))) = b
<1> SUFFICES ASSUME NEW a \in Seq(S), NEW b \in Seq(S)
             PROVE  /\ Joined(a, b) \in Seq(S)
                    /\ Len(a) \in Nat /\ Len(b) \in Nat
                    /\ Len(Joined(a, b)) = Len(a) + Len(b)
                    /\ \A i \in 1..Len(a) : Joined(a, b)[i] = a[i]
                    /\ Len(b) >= 1 => Joined(a, b)[Len(a) + 1] = b[1]
                    /\ SubSeq(Joined(a, b), 1, Len(a)) = a
                    /\ SubSeq(Joined(a, b), Len(a) + 1, Len(Joined(a, b))) = b
  OBVIOUS
<1> DEFINE t == Joined(a, b)
<1>0. /\ t \in Seq(S) /\ Len(t) = Len(a) + Len(b)
      /\ \A i \in 1..(Len(a) + Len(b)) : t[i] = IF i <= Len(a) THEN a[i] ELSE b[i - Len(a)]
      /\ Len(a) \in Nat /\ Len(b) \in Nat
  BY ConcatProperties, LenProperties DEF Joined
<1> HIDE DEF t
<1>1. Len(a) \in 0..Len(t)
  BY <1>0
<1>2. /\ SubSeq(t, 1, Len(a)) \in Seq(S) /\ Len(SubSeq(t, 1, Len(a))) = Len(a)
      /\ \A i \in 1..Len(a) : SubSeq(t, 1, Len(a))[i] = t[i]
  BY <1>0, <1>1, CutProperties
<1>3. /\ SubSeq(t, Len(a) + 1, Len(t)) \in Seq(S)
      /\ Len(SubSeq(t, Len(a) + 1, Len(t))) = Len(b)
      /\ \A i \in 1..Len(b) : SubSeq(t, Len(a) + 1, Len(t))[i] = t[Len(a) + i]
  <2>1. Len(t) - Len(a) = Len(b)
    BY <1>0
  <2>. QED  BY <1>0, <1>1, <2>1, CutProperties
<1>4. \A i \in 1..Len(a) : t[i] = a[i]
  BY <1>0
<1>5. \A i \in 1..Len(b) : t[Len(a) + i] = b[i]
  <2> SUFFICES ASSUME NEW i \in 1..Len(b) PROVE t[Len(a) + i] = b[i]
    OBVIOUS
  <2>1. /\ Len(a) + i \in 1..(Len(a) + Len(b)) /\ ~(Len(a) + i <= Len(a))
        /\ Len(a) + i - Len(a) = i
    BY <1>0
  <2>. QED  BY <1>0, <2>1
<1>6. SubSeq(t, 1, Len(a)) = a
  BY <1>2, <1>4, SeqEqual
<1>7. SubSeq(t, Len(a) + 1, Len(t)) = b
  BY <1>3, <1>5, SeqEqual
<1>. QED  BY <1>0, <1>4, <1>5, <1>6, <1>7 DEF t

\* A rest of a text is its first symbol and the rest behind it.
LEMMA FirstAndRest ==
    ASSUME NEW S, NEW t \in Seq(S), NEW i \in 1..Len(t)
    PROVE  /\ t[i] \in S /\ <<t[i]>> \in Seq(S)
           /\ SubSeq(t, i, Len(t)) \in Seq(S) /\ SubSeq(t, i + 1, Len(t)) \in Seq(S)
           /\ SubSeq(t, i, Len(t)) = Joined(<<t[i]>>, SubSeq(t, i + 1, Len(t)))
<1> DEFINE u == SubSeq(t, i, Len(t))
           w == SubSeq(t, i + 1, Len(t))
<1>0. /\ Len(t) \in Nat /\ i \in Int /\ i - 1 \in 0..Len(t) /\ (i - 1) + 1 = i
      /\ i \in 0..Len(t) /\ 1 \in 0..(Len(t) - (i - 1)) /\ (i - 1) + 1 + 1 = i + 1
      /\ t[i] \in S
  BY LenProperties, ElementOfSeq
<1>1. /\ u \in Seq(S) /\ Len(u) = Len(t) - (i - 1)
      /\ \A j \in 1..(Len(t) - (i - 1)) : u[j] = t[(i - 1) + j]
  BY <1>0, CutProperties
<1>2. w \in Seq(S)
  BY <1>0, CutProperties
<1>3. SubSeq(u, 1 + 1, Len(u)) = w
  BY <1>0, RestOfRest
<1> HIDE DEF u, w
<1>4. 1 \in 0..Len(u) /\ 1 \in 1..(Len(t) - (i - 1)) /\ (i - 1) + 1 = i
  BY <1>0, <1>1
<1>5. u[1] = t[i]
  BY <1>1, <1>4
<1>6. SubSeq(u, 1, 1) = <<t[i]>>
  <2> DEFINE c == SubSeq(u, 1, 1)
  <2>1. c \in Seq(S) /\ Len(c) = 1 /\ c[1] = t[i]
    <3>1. /\ c \in Seq(S) /\ Len(c) = 1 /\ \A j \in 1..1 : c[j] = u[j]
      BY <1>1, <1>4, CutProperties
    <3>. QED  BY <1>5, <3>1
  <2> HIDE DEF c
  <2>2. c = <<c[1]>>
    BY <2>1
  <2>. QED  BY <2>1, <2>2 DEF c
<1>7. SubSeq(u, 1, 1) \o SubSeq(u, 1 + 1, Len(u)) = u
  BY <1>1, <1>4, CutAndJoin
<1>8. u = Joined(<<t[i]>>, w)
  BY <1>3, <1>6, <1>7 DEF Joined
<1>9. <<t[i]>> \in Seq(S)
  BY <1>0
<1>. QED  BY <1>0, <1>1, <1>2, <1>8, <1>9 DEF u, w

\* A rest of a text is written out with the text of its first symbol in front.
LEMMA SpelledRest ==
    ASSUME NEW S, NEW C, NEW spell, Spells(S, C, spell), NEW t \in Seq(S),
           NEW i \in 1..Len(t)
    PROVE  /\ spell[t[i]] \in Seq(C)
           /\ Spelled(SubSeq(t, i + 1, Len(t)), spell) \in Seq(C)
           /\ Spelled(SubSeq(t, i, Len(t)), spell)
                = Joined(spell[t[i]], Spelled(SubSeq(t, i + 1, Len(t)), spell))
<1> DEFINE u == SubSeq(t, i, Len(t))
           w == SubSeq(t, i + 1, Len(t))
           s == t[i]
           c == <<s>>
<1>1. s \in S /\ c \in Seq(S) /\ w \in Seq(S) /\ u = Joined(c, w)
  BY FirstAndRest
<1> HIDE DEF u, w, s
<1>2. Spelled(c, spell) = spell[s]
  BY <1>1, SpelledLaws
<1> HIDE DEF c
<1>3. Spelled(Joined(c, w), spell) = Joined(Spelled(c, spell), Spelled(w, spell))
  BY <1>1, SpelledLaws
<1>4. Spelled(w, spell) \in Seq(C)
  BY <1>1, SpelledIsPass
<1>5. spell[s] \in Seq(C)
  BY <1>1 DEF Spells
<1>. QED  BY <1>1, <1>2, <1>3, <1>4, <1>5 DEF u, w, s

\* The ends of a text: all of it, and nothing.
LEMMA WholeAndNothing ==
    ASSUME NEW S, NEW t \in Seq(S)
    PROVE  /\ Len(t) \in Nat
           /\ SubSeq(t, 1, Len(t)) = t
           /\ SubSeq(t, Len(t) + 1, Len(t)) = << >>
<1>1. Len(t) \in Nat
  BY LenProperties
<1>2. SubSeq(t, 1, Len(t)) = t
  BY SubSeqFull
<1>3. SubSeq(t, Len(t) + 1, Len(t)) = << >>
  <2> DEFINE w == SubSeq(t, Len(t) + 1, Len(t))
  <2>1. Len(t) \in 0..Len(t)
    BY <1>1
  <2>2. w \in Seq(S) /\ Len(w) = Len(t) - Len(t)
    BY <2>1, CutProperties
  <2> HIDE DEF w
  <2>3. Len(w) = 0
    BY <1>1, <2>2
  <2>. QED  BY <2>2, <2>3, EmptySeq DEF w
<1>. QED  BY <1>1, <1>2, <1>3

\* Writing out what was written out before.
LEMMA SpelledTwice ==
    ASSUME NEW S, NEW C, NEW D, NEW spell, Spells(S, C, spell), NEW again, Spells(C, D, again),
           NEW both, \A s \in S : both[s] = Spelled(spell[s], again),
           NEW t \in Seq(S)
    PROVE  Spelled(Spelled(t, spell), again) = Spelled(t, both)
<1> DEFINE n == Len(t)
           R(i) == SubSeq(t, i, n)
           T == {i \in 1..(n + 1) : Spelled(Spelled(R(i), spell), again) = Spelled(R(i), both)}
<1>0. n \in Nat /\ n + 1 \in Nat /\ R(1) = t /\ R(n + 1) = << >>
  BY WholeAndNothing
<1>1. Spells(S, D, both)
  <2> SUFFICES ASSUME NEW s \in S PROVE both[s] \in Seq(D)
    BY DEF Spells
  <2>1. spell[s] \in Seq(C)
    BY DEF Spells
  <2>2. Spelled(spell[s], again) \in Seq(D)
    BY <2>1, SpelledIsPass
  <2>. QED  BY <2>2
<1>2. ASSUME NEW i \in 1..(n + 1), \A j \in (i + 1)..(n + 1) : j \in T PROVE i \in T
  <2>1. CASE i = n + 1
    <3>1. Spelled(<< >>, spell) = << >> /\ Spelled(<< >>, both) = << >>
          /\ Spelled(<< >>, again) = << >>
      BY <1>1, SpelledLaws
    <3>. QED  BY <1>0, <2>1, <3>1
  <2>2. CASE i \in 1..n
    <3>1. i + 1 \in T /\ i \in 1..Len(t) /\ t[i] \in S
      <4>1. i + 1 \in (i + 1)..(n + 1)
        BY <1>0, <2>2
      <4> HIDE DEF T
      <4>2. i \in 1..Len(t)
        BY <2>2
      <4>. QED  BY <1>2, <4>1, <4>2, ElementOfSeq
    <3> DEFINE a == spell[t[i]]
               b == Spelled(R(i + 1), spell)
    <3>2. a \in Seq(C) /\ b \in Seq(C) /\ Spelled(R(i), spell) = Joined(a, b)
      BY <3>1, SpelledRest
    <3>3. Spelled(R(i), both) = Joined(both[t[i]], Spelled(R(i + 1), both))
      BY <1>1, <3>1, SpelledRest
    <3>4. both[t[i]] = Spelled(a, again)
      BY <3>1
    <3>5. Spelled(b, again) = Spelled(R(i + 1), both)
      BY <3>1
    <3> HIDE DEF a, b, R, T
    <3>6. Spelled(Joined(a, b), again) = Joined(Spelled(a, again), Spelled(b, again))
      BY <3>2, SpelledLaws
    <3>7. Spelled(Spelled(R(i), spell), again) = Spelled(R(i), both)
      BY <3>2, <3>3, <3>4, <3>5, <3>6
    <3>. QED  BY <3>7 DEF T
  <2>. QED  BY <1>0, <2>1, <2>2
<1>3. 1..(n + 1) \subseteq T
  <2> HIDE DEF T
  <2>. QED  BY <1>0, <1>2, EveryPlace
<1>4. 1 \in 1..(n + 1)
  BY <1>0
<1>. QED  BY <1>0, <1>3, <1>4

\* Each text spell gives has a character, and none behind the first is open.
Opening(S, open, spell) ==
    \A s \in S : /\ Len(spell[s]) >= 1
                 /\ \A k \in 2..Len(spell[s]) : spell[s][k] # open

\* read gives what becomes of the text of a symbol that is replaced if it is in P.
Reads(S, P, value, spell, read) ==
    \A s \in S : read[s] = IF spell[s] \in P THEN value[spell[s]] ELSE spell[s]

\* Nothing of P is found in the text that is written out but what is written for a
\* symbol of its own.
NothingElse(t, spell, P) ==
    \A i \in 1..Len(t) : spell[t[i]] \notin P =>
        ~FoundAt(Spelled(SubSeq(t, i, Len(t)), spell), 1, P)

\* Replacing finds in what is written out the symbols written as something of P,
\* and copies what is written for the others.
LEMMA ReplacingSpelled ==
    ASSUME NEW S, NEW C, NEW P, NEW value, Replaceable(C, P, value),
           NEW open, \A p \in P : p[1] = open,
           NEW spell, Spells(S, C, spell), Opening(S, open, spell),
           NEW read, Reads(S, P, value, spell, read),
           NEW t \in Seq(S), NothingElse(t, spell, P)
    PROVE  Replacing(Spelled(t, spell), P, value, {}).out = Spelled(t, read)
<1> DEFINE n == Len(t)
           R(i) == SubSeq(t, i, n)
           Out(u) == Replacing(u, P, value, {}).out
           T == {i \in 1..(n + 1) : Out(Spelled(R(i), spell)) = Spelled(R(i), read)}
<1>0. n \in Nat /\ n + 1 \in Nat /\ R(1) = t /\ R(n + 1) = << >>
  BY WholeAndNothing
<1>1. Spells(S, C, read)
  BY DEF Spells, Replaceable, Reads
<1>2. ASSUME NEW i \in 1..(n + 1), \A j \in (i + 1)..(n + 1) : j \in T PROVE i \in T
  <2>1. CASE i = n + 1
    <3>1. Spelled(<< >>, spell) = << >> /\ Spelled(<< >>, read) = << >>
      BY <1>1, SpelledLaws
    <3>2. Out(<< >>) = << >>
      BY ReplacingNothing
    <3>. QED  BY <1>0, <2>1, <3>1, <3>2
  <2>2. CASE i \in 1..n
    <3> DEFINE s == t[i]
               v == spell[s]
               w == Spelled(R(i + 1), spell)
               u == Joined(v, w)
    <3>1. i + 1 \in T /\ i \in 1..Len(t) /\ s \in S
      <4>1. i + 1 \in (i + 1)..(n + 1)
        BY <1>0, <2>2
      <4> HIDE DEF T
      <4>2. i \in 1..Len(t)
        BY <2>2
      <4>. QED  BY <1>2, <4>1, <4>2, ElementOfSeq
    <3>2. v \in Seq(C) /\ w \in Seq(C) /\ Spelled(R(i), spell) = u
      BY <3>1, SpelledRest
    <3>3. Spelled(R(i), read) = Joined(read[s], Spelled(R(i + 1), read))
      BY <1>1, <3>1, SpelledRest
    <3>4. Out(w) = Spelled(R(i + 1), read)
      BY <3>1
    <3>5. /\ Len(v) >= 1 /\ \A k \in 2..Len(v) : v[k] # open
          /\ read[s] = IF v \in P THEN value[v] ELSE v
          /\ v \notin P => ~FoundAt(Spelled(R(i), spell), 1, P)
      BY <3>1 DEF NothingElse, Opening, Reads
    <3> HIDE DEF v, w, s, R, T
    <3>6. /\ u \in Seq(C) /\ Len(u) = Len(v) + Len(w)
          /\ \A k \in 1..Len(v) : u[k] = v[k]
          /\ SubSeq(u, 1, Len(v)) = v /\ SubSeq(u, Len(v) + 1, Len(u)) = w
          /\ Len(v) \in Nat /\ Len(w) \in Nat
      <4>1. v \in Seq(C) /\ w \in Seq(C)
        BY <3>2
      <4>2. u \in Seq(C) /\ Len(u) = Len(v) + Len(w) /\ Len(v) \in Nat /\ Len(w) \in Nat
        BY <4>1, PartsOfJoin
      <4>3. \A k \in 1..Len(v) : u[k] = v[k]
        BY <4>1, PartsOfJoin
      <4>4. SubSeq(u, 1, Len(v)) = v
        BY <4>1, PartsOfJoin
      <4>5. SubSeq(u, Len(v) + 1, Len(u)) = w
        BY <4>1, PartsOfJoin
      <4>. QED  BY <4>2, <4>3, <4>4, <4>5
    <3>7. CASE v \in P
      <4>1. StartsAt(v, 1, v)
        BY <3>6 DEF StartsAt
      <4>2. StartsAt(u, 1, v)
        BY <3>2, <3>5, <4>1, FoundInJoin DEF Joined
      <4> HIDE DEF u
      <4>3. Out(u) = Joined(value[v], Out(SubSeq(u, Len(v) + 1, Len(u))))
        <5>1. u \in Seq(C)
          BY <3>6
        <5>. QED  BY <3>7, <4>2, <5>1, ReplacingMatch
      <4>4. Out(u) = Spelled(R(i), read)
        BY <3>3, <3>4, <3>5, <3>6, <3>7, <4>3
      <4>. QED  BY <3>2, <4>4 DEF T
    <3>8. CASE v \notin P
      <4>1. ASSUME NEW k \in 1..Len(v) PROVE ~FoundAt(u, k, P)
        <5>1. CASE k = 1
          BY <3>2, <3>5, <3>8, <5>1
        <5>2. CASE k \in 2..Len(v)
          <6> SUFFICES ASSUME NEW p \in P, StartsAt(u, k, p) PROVE FALSE
            BY DEF FoundAt
          <6>1. Len(p) \in Nat /\ Len(p) >= 1 /\ p[1] = open
            BY LenProperties DEF Replaceable, Findable
          <6> HIDE DEF u
          <6>2. 1 \in 1..Len(p) /\ k + 1 - 1 = k
            BY <6>1, <5>2
          <6>3. u[k] = p[1]
            BY <6>2 DEF StartsAt
          <6>. QED  BY <3>5, <3>6, <5>2, <6>1, <6>3
        <5>. QED  BY <3>6, <5>1, <5>2
      <4> HIDE DEF u
      <4>2. Len(v) \in 0..Len(u)
        BY <3>6
      <4>3. \A k \in 1..Len(v) : ~FoundAt(u, k, P) /\ SubSeq(u, k, Len(u)) \notin {}
        BY <4>1
      <4>4. Out(u) = Joined(SubSeq(u, 1, Len(v)), Out(SubSeq(u, Len(v) + 1, Len(u))))
        <5>1. u \in Seq(C)
          BY <3>6
        <5>. QED  BY <4>2, <4>3, <5>1, ReplacingCopies
      <4>5. Out(u) = Spelled(R(i), read)
        BY <3>3, <3>4, <3>5, <3>6, <3>8, <4>4
      <4>. QED  BY <3>2, <4>5 DEF T
    <3>. QED  BY <3>7, <3>8
  <2>. QED  BY <1>0, <2>1, <2>2
<1>3. 1..(n + 1) \subseteq T
  <2> HIDE DEF T
  <2>. QED  BY <1>0, <1>2, EveryPlace
<1>4. 1 \in 1..(n + 1)
  BY <1>0
<1>. QED  BY <1>0, <1>3, <1>4

\* What stands behind a text does not matter to what is found in front of it, as
\* long as it begins with what begins a match and is nowhere else in one.
LEMMA NotAcross ==
    ASSUME NEW C, NEW P, Findable(C, P), NEW open,
           \A p \in P : \A k \in 2..Len(p) : p[k] # open,
           NEW u \in Seq(C), NEW x \in Seq(C), NEW v \in Seq(C),
           Len(u) >= 1, Len(v) >= 1, v[1] = open,
           ~FoundAt(Joined(u, x), 1, P)
    PROVE  ~FoundAt(Joined(u, v), 1, P)
<1> SUFFICES ASSUME NEW p \in P, StartsAt(Joined(u, v), 1, p) PROVE FALSE
  BY DEF FoundAt
<1>1. p \in Seq(C) /\ Len(p) >= 1 /\ Len(p) \in Nat /\ Len(u) \in Nat /\ Len(v) \in Nat
  BY LenProperties DEF Findable
<1>2. /\ Len(Joined(u, v)) = Len(u) + Len(v)
      /\ \A i \in 1..Len(u) : Joined(u, v)[i] = u[i]
      /\ Joined(u, v)[Len(u) + 1] = v[1]
  BY PartsOfJoin
<1>3. /\ Len(p) <= Len(u) + Len(v)
      /\ \A k \in 1..Len(p) : Joined(u, v)[k] = p[k]
  BY <1>1, <1>2 DEF StartsAt
<1>4. CASE Len(p) <= Len(u)
  <2>1. StartsAt(u, 1, p)
    BY <1>1, <1>2, <1>3, <1>4 DEF StartsAt
  <2>2. StartsAt(Joined(u, x), 1, p)
    BY <1>1, <2>1, FoundInJoin DEF Joined
  <2>. QED  BY <2>2 DEF FoundAt
<1>5. CASE Len(p) > Len(u)
  <2>1. Len(u) + 1 \in 2..Len(p) /\ Len(u) + 1 \in 1..Len(p)
    BY <1>1, <1>5
  <2>2. p[Len(u) + 1] = v[1]
    BY <1>2, <1>3, <2>1
  <2>. QED  BY <2>1, <2>2
<1>. QED  BY <1>1, <1>4, <1>5

\* A symbol written as what begins like a match, but does not as far as it goes, is
\* no match whatever stands behind it.
LEMMA TooWide ==
    ASSUME NEW C, NEW P, Findable(C, P), NEW v \in Seq(C), NEW x \in Seq(C),
           \A p \in P : \E k \in 1..Len(p) : k <= Len(v) /\ p[k] # v[k]
    PROVE  ~FoundAt(Joined(v, x), 1, P)
<1> SUFFICES ASSUME NEW p \in P, StartsAt(Joined(v, x), 1, p) PROVE FALSE
  BY DEF FoundAt
<1>1. PICK k \in 1..Len(p) : k <= Len(v) /\ p[k] # v[k]
  OBVIOUS
<1>2. Len(p) \in Nat /\ Len(v) \in Nat
  BY LenProperties DEF Findable
<1>3. Joined(v, x)[k] = v[k]
  <2>1. k \in 1..Len(v)
    BY <1>1, <1>2
  <2>2. \A i \in 1..Len(v) : Joined(v, x)[i] = v[i]
    BY PartsOfJoin
  <2>. QED  BY <2>1, <2>2
<1>4. Joined(v, x)[1 + k - 1] = p[k] /\ 1 + k - 1 = k
  BY <1>2 DEF StartsAt
<1>. QED  BY <1>1, <1>3, <1>4

\* NothingElse of two joined texts, one by one.
LEMMA NothingElseJoined ==
    ASSUME NEW S, NEW C, NEW spell, Spells(S, C, spell), NEW P,
           NEW a \in Seq(S), NEW b \in Seq(S)
    PROVE  NothingElse(Joined(a, b), spell, P) <=>
               /\ NothingElse(b, spell, P)
               /\ \A i \in 1..Len(a) : spell[a[i]] \notin P =>
                      ~FoundAt(Joined(Spelled(SubSeq(a, i, Len(a)), spell),
                                      Spelled(b, spell)), 1, P)
<1> DEFINE t == Joined(a, b)
           m == Len(a)
           l == Len(b)
           n == Len(t)
           Fine(u, s) == spell[s] \notin P => ~FoundAt(Spelled(u, spell), 1, P)
<1>1. /\ t \in Seq(S) /\ m \in Nat /\ l \in Nat /\ n = m + l
      /\ \A i \in 1..m : t[i] = a[i]
      /\ SubSeq(t, m + 1, n) = b
  <2>1. /\ t \in Seq(S) /\ m \in Nat /\ l \in Nat /\ n = m + l
        /\ \A i \in 1..m : t[i] = a[i]
    BY PartsOfJoin
  <2>2. SubSeq(t, m + 1, n) = b
    BY PartsOfJoin
  <2>. QED  BY <2>1, <2>2
<1>2. ASSUME NEW i \in 1..l
      PROVE  SubSeq(t, i + m, n) = SubSeq(b, i, l) /\ t[i + m] = b[i]
  <2> HIDE DEF t
  <2>1. m \in 0..Len(t) /\ i \in 1..Len(SubSeq(t, m + 1, Len(t)))
    BY <1>1
  <2>2. LET u == SubSeq(t, m + 1, Len(t))
        IN  SubSeq(u, i, Len(u)) = SubSeq(t, i + m, Len(t)) /\ u[i] = t[i + m]
    BY <1>1, <2>1, WithinRest
  <2>. QED  BY <1>1, <2>2
<1>3. ASSUME NEW i \in 1..m
      PROVE  /\ SubSeq(t, i, n) = Joined(SubSeq(a, i, m), b)
             /\ SubSeq(a, i, m) \in Seq(S)
  <2>1. i - 1 \in 0..Len(a) /\ (i - 1) + 1 = i
    BY <1>1
  <2>2. SubSeq(a \o b, (i - 1) + 1, Len(a \o b)) = SubSeq(a, (i - 1) + 1, Len(a)) \o b
    BY <2>1, CutOfJoin
  <2>3. SubSeq(a, (i - 1) + 1, Len(a)) \in Seq(S)
    BY <2>1, CutProperties
  <2>. QED  BY <2>1, <2>2, <2>3 DEF Joined
<1>4. ASSUME NEW i \in 1..m
      PROVE  Spelled(SubSeq(t, i, n), spell)
                = Joined(Spelled(SubSeq(a, i, m), spell), Spelled(b, spell))
  <2> DEFINE x == SubSeq(a, i, m)
  <2>1. x \in Seq(S) /\ SubSeq(t, i, n) = Joined(x, b)
    BY <1>3
  <2> HIDE DEF x, t, n
  <2>2. Spelled(Joined(x, b), spell) = Joined(Spelled(x, spell), Spelled(b, spell))
    BY <2>1, SpelledLaws
  <2>. QED  BY <2>1, <2>2 DEF x
<1>5. NothingElse(t, spell, P) <=> \A i \in 1..n : Fine(SubSeq(t, i, n), t[i])
  BY DEF NothingElse
<1>6. NothingElse(b, spell, P) <=> \A i \in 1..l : Fine(SubSeq(b, i, l), b[i])
  BY DEF NothingElse
<1> HIDE DEF t, l, n
<1>7. (\A i \in 1..n : Fine(SubSeq(t, i, n), t[i])) <=>
          /\ \A i \in 1..l : Fine(SubSeq(t, i + m, n), t[i + m])
          /\ \A i \in 1..m : Fine(SubSeq(t, i, n), t[i])
  <2> DEFINE F(i) == Fine(SubSeq(t, i, n), t[i])
  <2>1. \A i \in 1..l : i + m \in 1..n
    BY <1>1
  <2>2. \A i \in 1..m : i \in 1..n
    BY <1>1
  <2>3. \A i \in 1..n : i \in 1..m \/ (i - m \in 1..l /\ (i - m) + m = i)
    BY <1>1
  <2> HIDE DEF F
  <2>4. (\A i \in 1..n : F(i)) <=> (\A i \in 1..l : F(i + m)) /\ (\A i \in 1..m : F(i))
    <3>1. ASSUME \A i \in 1..l : F(i + m), \A i \in 1..m : F(i), NEW i \in 1..n
          PROVE  F(i)
      <4>1. CASE i \in 1..m
        BY <3>1, <4>1
      <4>2. CASE i - m \in 1..l /\ (i - m) + m = i
        <5>1. F((i - m) + m)
          BY <3>1, <4>2
        <5>. QED  BY <4>2, <5>1
      <4>. QED  BY <2>3, <4>1, <4>2
    <3>. QED  BY <2>1, <2>2, <3>1
  <2>. QED  BY <2>4 DEF F
<1>8. (\A i \in 1..l : Fine(SubSeq(t, i + m, n), t[i + m])) <=> NothingElse(b, spell, P)
  BY <1>2, <1>6
<1>9. (\A i \in 1..m : Fine(SubSeq(t, i, n), t[i])) <=>
          \A i \in 1..m : spell[a[i]] \notin P =>
              ~FoundAt(Joined(Spelled(SubSeq(a, i, m), spell), Spelled(b, spell)), 1, P)
  BY <1>1, <1>4
<1>. QED  BY <1>5, <1>7, <1>8, <1>9 DEF t

=============================================================================
