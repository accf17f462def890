---------------------------- MODULE DataLemmas ----------------------------
(* Facts about numbers and sequences that several proofs need, induction   *)
(* among them.  The library states induction for an operator P(_), which   *)
(* the provers cannot instantiate; here it is derived, for sets, from the   *)
(* fact that < is well-founded on Nat, and with it that the recursive       *)
(* function inside FlattenSeq exists.                                      *)
EXTENDS Naturals, Sequences, SequencesExt, FiniteSetTheorems, WellFoundedInduction, TLAPS

\* A set of natural numbers has a least element.
LEMMA Least ==
    ASSUME NEW S, S \subseteq Nat, S # {}
    PROVE  \E m \in S : \A k \in S : m <= k
<1> DEFINE R == OpToRel(<, Nat)
<1>1. IsWellFoundedOn(R, Nat)
  BY NatLessThanWellFounded
<1>2. \A x, y \in Nat : x < y => <<x, y>> \in R
  BY DEF OpToRel
<1> HIDE DEF R
<1>3. PICK m \in S : \A k \in S : ~ (<<k, m>> \in R)
  BY <1>1, WFMin
<1>4. ASSUME NEW k \in S PROVE m <= k
  <2>1. ~ (k < m)
    BY <1>2, <1>3
  <2> QED
    BY <2>1
<1> QED
  BY <1>4

\* Induction over the natural numbers, for a property given as a set.
LEMMA Induction ==
    ASSUME NEW S, 0 \in S, \A n \in Nat : n \in S => n + 1 \in S
    PROVE  Nat \subseteq S
<1> SUFFICES ASSUME Nat \ S # {} PROVE FALSE
  OBVIOUS
<1>1. PICK m \in Nat \ S : \A k \in Nat \ S : m <= k
  BY Least
<1>2. m # 0 /\ m - 1 \in Nat /\ m - 1 \notin Nat \ S
  BY <1>1
<1>3. (m - 1) + 1 \in S
  BY <1>2
<1> QED
  BY <1>1, <1>3

\* Division with remainder.
LEMMA Division ==
    ASSUME NEW a \in Nat, NEW r \in Nat \ {0}
    PROVE  a \div r \in Nat /\ a % r \in 0..(r - 1) /\ a = r * (a \div r) + (a % r)
OBVIOUS

LEMMA Remainder ==
    ASSUME NEW q \in Nat, NEW r \in Nat \ {0}, NEW i \in 0..(r - 1)
    PROVE  (q * r + i) % r = i
<1> DEFINE a == q * r + i
           d == a \div r
           m == a % r
<1>1. a \in Nat
  OBVIOUS
<1> HIDE DEF a
<1>2. d \in Nat /\ m \in 0..(r - 1) /\ a = r * d + m
  BY <1>1, Division
<1> HIDE DEF d, m
<1>3. d = q
  <2>1. CASE d < q
    <3>1. PICK e \in Nat : q = d + 1 + e
      <4>1. q - d - 1 \in Nat /\ q = d + 1 + (q - d - 1)
        BY <1>2, <2>1
      <4> QED
        BY <4>1
    <3>2. q * r = r * d + r + r * e /\ r * e \in Nat /\ r * d \in Nat
      BY <3>1, <1>2
    <3> QED
      BY <3>2, <1>2 DEF a
  <2>2. CASE d > q
    <3>1. PICK e \in Nat : d = q + 1 + e
      <4>1. d - q - 1 \in Nat /\ d = q + 1 + (d - q - 1)
        BY <1>2, <2>2
      <4> QED
        BY <4>1
    <3>2. r * d = q * r + r + r * e /\ r * e \in Nat /\ q * r \in Nat
      BY <3>1, <1>2
    <3> QED
      BY <3>2, <1>2 DEF a
  <2> QED
    BY <2>1, <2>2, <1>2
<1> QED
  BY <1>2, <1>3 DEF a, m

\* The function FlattenSeq defines on the way: f[i] is g[1] \o ... \o g[i].
Joins(f, g, n) == f = [i \in 1..n |-> IF i = 1 THEN g[i] ELSE f[i - 1] \o g[i]]

LEMMA JoinsAt ==
    ASSUME NEW f, NEW g, NEW n \in Nat, Joins(f, g, n), NEW i \in 1..n
    PROVE  f[i] = IF i = 1 THEN g[i] ELSE f[i - 1] \o g[i]
BY DEF Joins

\* There is such a function, and only one.
LEMMA JoinsExists == ASSUME NEW g PROVE \A n \in Nat : \E f : Joins(f, g, n)
<1> DEFINE S == {n \in Nat : \E f : Joins(f, g, n)}
<1>1. 0 \in S
  <2>1. Joins([i \in 1..0 |-> 0], g, 0)
    BY DEF Joins
  <2> QED
    BY <2>1
<1>2. ASSUME NEW n \in Nat, n \in S PROVE n + 1 \in S
  <2>1. PICK f : Joins(f, g, n)
    BY <1>2
  <2> DEFINE h == [i \in 1..(n + 1) |->
                     IF i = 1 THEN g[i] ELSE f[i - 1] \o g[i]]
  <2>2. ASSUME NEW i \in 1..(n + 1), i # 1 PROVE h[i - 1] = f[i - 1]
    <3>1. i - 1 \in 1..n /\ i - 1 \in 1..(n + 1)
      BY <2>2
    <3>2. f[i - 1] = IF i - 1 = 1 THEN g[i - 1] ELSE f[(i - 1) - 1] \o g[i - 1]
      BY <2>1, <3>1, JoinsAt
    <3> QED
      BY <3>1, <3>2
  <2>3. Joins(h, g, n + 1)
    BY <2>2 DEF Joins
  <2> QED
    BY <2>3
<1> HIDE DEF S
<1>3. Nat \subseteq S
  BY <1>1, <1>2, Induction
<1> QED
  BY <1>3 DEF S

LEMMA JoinsUnique ==
    ASSUME NEW g, NEW m \in Nat, NEW n \in Nat, NEW e, NEW f, m <= n,
           Joins(e, g, m), Joins(f, g, n)
    PROVE  \A k \in 1..m : e[k] = f[k]
<1> DEFINE S == {k \in Nat : k \in 1..m => e[k] = f[k]}
<1>1. 0 \in S
  OBVIOUS
<1>2. ASSUME NEW k \in Nat, k \in S PROVE k + 1 \in S
  <2> SUFFICES ASSUME k + 1 \in 1..m PROVE e[k + 1] = f[k + 1]
    OBVIOUS
  <2>1. k + 1 \in 1..n /\ (k + 1) - 1 = k
    OBVIOUS
  <2>2. e[k + 1] = IF k + 1 = 1 THEN g[k + 1] ELSE e[(k + 1) - 1] \o g[k + 1]
    BY JoinsAt
  <2>3. f[k + 1] = IF k + 1 = 1 THEN g[k + 1] ELSE f[(k + 1) - 1] \o g[k + 1]
    BY <2>1, JoinsAt
  <2>4. CASE k = 0
    BY <2>2, <2>3, <2>4
  <2>5. CASE k # 0
    <3>1. e[k] = f[k]
      BY <1>2, <2>5
    <3> QED
      BY <2>1, <2>2, <2>3, <2>5, <3>1
  <2> QED
    BY <2>4, <2>5
<1> HIDE DEF S
<1>3. Nat \subseteq S
  BY <1>1, <1>2, Induction
<1> QED
  BY <1>3 DEF S

\* The first n sequences of g, and what they are one after another.
Initial(g, n) == [i \in 1..n |-> g[i]]
Joined(g, n) == FlattenSeq(Initial(g, n))

\* The recursion in FlattenSeq is sound: it does define that function.
LEMMA JoinedIs ==
    ASSUME NEW g, NEW n \in Nat \ {0}
    PROVE  \E f : Joins(f, g, n) /\ Joined(g, n) = f[n]
<1> DEFINE s == Initial(g, n)
<1>1. Len(s) = n /\ \A i \in 1..n : s[i] = g[i]
  BY DEF Initial
<1> DEFINE F == CHOOSE f : f = [i \in 1..Len(s) |-> IF i = 1 THEN s[i] ELSE f[i - 1] \o s[i]]
<1>2. FlattenSeq(s) = F[Len(s)]
  <2>1. Len(s) # 0
    BY <1>1
  <2> QED
    BY <2>1 DEF FlattenSeq
<1>3. \A f : Joins(f, g, n) <=> f = [i \in 1..Len(s) |-> IF i = 1 THEN s[i] ELSE f[i - 1] \o s[i]]
  BY <1>1 DEF Joins
<1>4. F = [i \in 1..Len(s) |-> IF i = 1 THEN s[i] ELSE F[i - 1] \o s[i]]
  BY <1>3, JoinsExists
<1> QED
  BY <1>1, <1>2, <1>3, <1>4 DEF Joined

\* What FlattenSeq returns, one sequence after another.
LEMMA JoinedNone == ASSUME NEW g PROVE Joined(g, 0) = <<>>
BY DEF Joined, Initial, FlattenSeq

LEMMA JoinedFirst ==
    ASSUME NEW g PROVE Joined(g, 1) = g[1]
<1>1. PICK f : Joins(f, g, 1) /\ Joined(g, 1) = f[1]
  BY JoinedIs
<1> QED
  BY <1>1, JoinsAt

LEMMA JoinedLater ==
    ASSUME NEW g, NEW n \in Nat \ {0}
    PROVE  Joined(g, n + 1) = Joined(g, n) \o g[n + 1]
<1>1. PICK e : Joins(e, g, n) /\ Joined(g, n) = e[n]
  BY JoinedIs
<1>2. PICK f : Joins(f, g, n + 1) /\ Joined(g, n + 1) = f[n + 1]
  BY JoinedIs
<1>3. f[n + 1] = f[n] \o g[n + 1]
  <2>1. n + 1 \in Nat /\ n + 1 \in 1..(n + 1) /\ n + 1 # 1 /\ (n + 1) - 1 = n
    OBVIOUS
  <2>2. f[n + 1] = IF n + 1 = 1 THEN g[n + 1] ELSE f[(n + 1) - 1] \o g[n + 1]
    BY <1>2, <2>1, JoinsAt
  <2> QED
    BY <2>1, <2>2
<1>4. e[n] = f[n]
  <2>1. n \in Nat /\ n + 1 \in Nat /\ n <= n + 1 /\ n \in 1..n
    OBVIOUS
  <2> QED
    BY <1>1, <1>2, <2>1, JoinsUnique
<1> QED
  BY <1>1, <1>2, <1>3, <1>4

LEMMA JoinedNext ==
    ASSUME NEW T, NEW g, NEW n \in Nat, g[n + 1] \in Seq(T)
    PROVE  Joined(g, n + 1) = Joined(g, n) \o g[n + 1]
<1>1. CASE n = 0
  BY <1>1, JoinedNone, JoinedFirst
<1>2. CASE n # 0
  BY <1>2, JoinedLater
<1> QED
  BY <1>1, <1>2

\* Types of sequences, as facts a prover can instantiate.
LEMMA EmptyType == ASSUME NEW T PROVE <<>> \in Seq(T)
OBVIOUS

LEMMA ConcatType ==
    ASSUME NEW T, NEW a \in Seq(T), NEW b \in Seq(T)
    PROVE  a \o b \in Seq(T)
OBVIOUS

LEMMA JoinedType ==
    ASSUME NEW T, NEW g, NEW n \in Nat, \A i \in 1..n : g[i] \in Seq(T)
    PROVE  Joined(g, n) \in Seq(T)
<1> DEFINE S == {k \in Nat : k <= n => Joined(g, k) \in Seq(T)}
<1>1. 0 \in S
  <2>1. Joined(g, 0) \in Seq(T)
    BY JoinedNone, EmptyType, Zenon
  <2> QED
    BY <2>1
<1>2. ASSUME NEW k \in Nat, k \in S PROVE k + 1 \in S
  <2> SUFFICES ASSUME k + 1 <= n PROVE Joined(g, k + 1) \in Seq(T)
    OBVIOUS
  <2>1. g[k + 1] \in Seq(T) /\ Joined(g, k) \in Seq(T)
    BY <1>2
  <2>2. Joined(g, k + 1) = Joined(g, k) \o g[k + 1]
    BY <2>1, JoinedNext
  <2> QED
    BY <2>1, <2>2, ConcatType, Zenon
<1> HIDE DEF S
<1>3. Nat \subseteq S
  BY <1>1, <1>2, Induction
<1> QED
  BY <1>3 DEF S

\* n sequences of at most c elements.
LEMMA JoinedLength ==
    ASSUME NEW T, NEW g, NEW n \in Nat, NEW c \in Nat,
           \A i \in 1..n : g[i] \in Seq(T) /\ Len(g[i]) <= c
    PROVE  Joined(g, n) \in Seq(T) /\ Len(Joined(g, n)) <= n * c
<1>1. \A k \in 0..n : Joined(g, k) \in Seq(T)
  BY JoinedType
<1> DEFINE S == {k \in Nat : k <= n => Len(Joined(g, k)) <= k * c}
<1>2. 0 \in S
  BY JoinedNone
<1>3. ASSUME NEW k \in Nat, k \in S PROVE k + 1 \in S
  <2> SUFFICES ASSUME k + 1 <= n PROVE Len(Joined(g, k + 1)) <= (k + 1) * c
    OBVIOUS
  <2>1. g[k + 1] \in Seq(T) /\ Len(g[k + 1]) <= c /\ Joined(g, k) \in Seq(T)
    BY <1>1
  <2>2. Joined(g, k + 1) = Joined(g, k) \o g[k + 1]
    BY <2>1, JoinedNext
  <2>3. Len(Joined(g, k + 1)) = Len(Joined(g, k)) + Len(g[k + 1])
    BY <2>1, <2>2
  <2>4. Len(Joined(g, k)) <= k * c /\ Len(Joined(g, k)) \in Nat /\ Len(g[k + 1]) \in Nat
    BY <1>3, <2>1
  <2>5. k * c \in Nat /\ (k + 1) * c = k * c + c
    OBVIOUS
  <2> QED
    BY <2>1, <2>3, <2>4, <2>5
<1> HIDE DEF S
<1>4. Nat \subseteq S
  BY <1>2, <1>3, Induction
<1> QED
  BY <1>1, <1>4 DEF S

\* Two adjacent pieces of a sequence.
LEMMA SubSeqsMeet ==
    ASSUME NEW T, NEW s \in Seq(T), NEW a \in 0..Len(s), NEW b \in a..Len(s)
    PROVE  SubSeq(s, 1, a) \o SubSeq(s, a + 1, b) = SubSeq(s, 1, b)
OBVIOUS

LEMMA SubSeqType ==
    ASSUME NEW T, NEW s \in Seq(T), NEW b \in 0..Len(s)
    PROVE  SubSeq(s, 1, b) \in Seq(T)
OBVIOUS

LEMMA WindowType ==
    ASSUME NEW T, NEW s \in Seq(T), NEW a \in 1..(Len(s) + 1), NEW b \in 0..Len(s)
    PROVE  /\ SubSeq(s, a, b) \in Seq(T)
           /\ Len(SubSeq(s, a, b)) = IF a <= b THEN b - a + 1 ELSE 0
           /\ \A k \in 1..(b - a + 1) : SubSeq(s, a, b)[k] = s[a + k - 1]
OBVIOUS

LEMMA SubSeqAll == ASSUME NEW T, NEW s \in Seq(T) PROVE SubSeq(s, 1, Len(s)) = s
OBVIOUS

LEMMA SubSeqNone ==
    ASSUME NEW T, NEW s \in Seq(T), NEW a \in Nat, NEW b \in Nat, a > b
    PROVE  SubSeq(s, a, b) = <<>>
OBVIOUS

LEMMA ConcatNone == ASSUME NEW T, NEW s \in Seq(T) PROVE s \o <<>> = s
OBVIOUS

LEMMA SeqEqual ==
    ASSUME NEW T, NEW s \in Seq(T) PROVE s = [i \in 1..Len(s) |-> s[i]]
OBVIOUS

\* One element more.
LEMMA AppendAt ==
    ASSUME NEW T, NEW s \in Seq(T), NEW e
    PROVE  /\ Len(s) \in Nat /\ Len(Append(s, e)) = Len(s) + 1
           /\ \A i \in 1..Len(s) : Append(s, e)[i] = s[i]
           /\ Append(s, e)[Len(s) + 1] = e
OBVIOUS

LEMMA SubSeqOfAppend ==
    ASSUME NEW T, NEW s \in Seq(T), NEW e \in T, NEW a \in Nat \ {0}, NEW b \in 0..Len(s)
    PROVE  SubSeq(Append(s, e), a, b) = SubSeq(s, a, b)
OBVIOUS

LEMMA AppendIsConcat ==
    ASSUME NEW T, NEW s \in Seq(T), NEW e \in T PROVE s \o <<e>> = Append(s, e)
OBVIOUS

\* Joined looks at the first n sequences only.
LEMMA JoinedSame ==
    ASSUME NEW g, NEW h, NEW n \in Nat, \A i \in 1..n : g[i] = h[i]
    PROVE  Joined(g, n) = Joined(h, n)
<1>1. Initial(g, n) = Initial(h, n)
  BY DEF Initial
<1> QED
  BY <1>1 DEF Joined

\* A set with no element, and with one, as a sequence.
LEMMA SetToSeqEmpty == SetToSeq({}) = <<>>
BY FS_EmptySet DEF SetToSeq

LEMMA SetToSeqSingleton == ASSUME NEW x PROVE SetToSeq({x}) = <<x>>
<1>1. Cardinality({x}) = 1
  BY FS_Singleton
<1>2. <<x>> \in [1..1 -> {x}] /\ IsInjective(<<x>>)
  BY DEF IsInjective
<1>3. SetToSeq({x}) \in [1..1 -> {x}]
  BY <1>1, <1>2 DEF SetToSeq
<1> QED
  BY <1>3
============================================================================
