--------------------------- MODULE BotFlowProofs ---------------------------
(***************************************************************************)
(* Theorems about BotFlow, BotEvents and QqSend, for any frames, any       *)
(* configuration and any bounds.                                           *)
(*                                                                         *)
(* The first part is about sequences.  FlattenSeq is recursive, and the    *)
(* induction theorems of the library cannot be instantiated by the         *)
(* provers; an induction over the naturals is done here with a set, from   *)
(* the fact that a non-empty set of naturals has a least element.          *)
(***************************************************************************)
EXTENDS BotFlow, SequenceTheorems, FiniteSetTheorems, WellFoundedInduction, TLAPS

-----------------------------------------------------------------------------
(* Naturals.                                                               *)

LEMMA LeastNat ==
  ASSUME NEW S \in SUBSET Nat, S # {}
  PROVE  \E n \in S : \A m \in S : n <= m
  <1> DEFINE R == OpToRel(<, Nat)
  <1>1. IsWellFoundedOn(R, Nat)
    BY NatLessThanWellFounded
  <1>2. \A a, b \in Nat : <<a, b>> \in R <=> a < b
    BY DEF OpToRel
  <1> HIDE DEF R
  <1>3. PICK n \in S : \A m \in S : ~(<<m, n>> \in R)
    BY <1>1, WFMin
  <1>4. ASSUME NEW m \in S PROVE n <= m
    <2>1. ~(m < n) /\ m \in Nat /\ n \in Nat
      BY <1>2, <1>3
    <2> QED
      BY <2>1
  <1> QED
    BY <1>4

LEMMA SetInduction ==
  ASSUME NEW S, 0 \in S, \A n \in Nat : n \in S => n + 1 \in S
  PROVE  Nat \subseteq S
  <1> SUFFICES ASSUME Nat \ S # {} PROVE FALSE
    OBVIOUS
  <1>1. PICK n \in Nat \ S : \A m \in Nat \ S : n <= m
    BY LeastNat
  <1>2. n # 0 /\ n - 1 \in Nat
    OBVIOUS
  <1>3. n - 1 \in S
    BY <1>1, <1>2
  <1> QED
    BY <1>1, <1>2, <1>3

-----------------------------------------------------------------------------
(* Sequences, of whatever elements.                                        *)

IsSeq(s) == \E S : s \in Seq(S)

LEMMA SeqFacts ==
  ASSUME NEW s, IsSeq(s)
  PROVE  /\ Len(s) \in Nat /\ DOMAIN s = 1..Len(s)
         /\ s = [i \in 1..Len(s) |-> s[i]]
  BY DEF IsSeq

LEMMA SeqFromFunction ==
  ASSUME NEW n \in Nat, NEW s, s = [i \in 1..n |-> s[i]]
  PROVE  IsSeq(s) /\ Len(s) = n /\ s \in Seq({s[i] : i \in 1..n})
  <1>1. s \in [1..n -> {s[i] : i \in 1..n}]
    OBVIOUS
  <1>2. s \in Seq({s[i] : i \in 1..n}) /\ Len(s) = n
    BY <1>1, IsASeq
  <1> QED
    BY <1>2 DEF IsSeq

LEMMA AppendFacts ==
  ASSUME NEW s, IsSeq(s), NEW e
  PROVE  /\ IsSeq(Append(s, e)) /\ Len(Append(s, e)) = Len(s) + 1
         /\ \A i \in 1..Len(s) : Append(s, e)[i] = s[i]
         /\ Append(s, e)[Len(s) + 1] = e
  <1>1. PICK S : s \in Seq(S)
    BY DEF IsSeq
  <1>2. s \in Seq(S \cup {e}) /\ e \in S \cup {e}
    BY <1>1
  <1>3. Append(s, e) \in Seq(S \cup {e})
    BY <1>2
  <1> QED
    BY <1>2, <1>3 DEF IsSeq

LEMMA ConcatFacts ==
  ASSUME NEW s, IsSeq(s), NEW t, IsSeq(t)
  PROVE  /\ IsSeq(s \o t) /\ Len(s \o t) = Len(s) + Len(t)
         /\ \A i \in 1..Len(s) : (s \o t)[i] = s[i]
         /\ \A i \in 1..Len(t) : (s \o t)[Len(s) + i] = t[i]
         /\ \A i \in 1..Len(s \o t) : i > Len(s) => i - Len(s) \in 1..Len(t) /\ (s \o t)[i] = t[i - Len(s)]
  <1>1. PICK S : s \in Seq(S)
    BY DEF IsSeq
  <1>2. PICK T : t \in Seq(T)
    BY DEF IsSeq
  <1>3. s \in Seq(S \cup T) /\ t \in Seq(S \cup T)
    BY <1>1, <1>2
  <1>4. s \o t \in Seq(S \cup T)
    BY <1>3
  <1>5. /\ Len(s \o t) = Len(s) + Len(t)
        /\ \A i \in 1..Len(s) + Len(t) : (s \o t)[i] = IF i <= Len(s) THEN s[i] ELSE t[i - Len(s)]
    BY <1>3, ConcatProperties
  <1>6. Len(s) \in Nat /\ Len(t) \in Nat
    BY <1>3
  <1> QED
    BY <1>4, <1>5, <1>6 DEF IsSeq

LEMMA SubSeqFacts ==
  ASSUME NEW s, IsSeq(s), NEW m \in 1..Len(s) + 1, NEW n \in 0..Len(s), m <= n + 1
  PROVE  /\ IsSeq(SubSeq(s, m, n)) /\ Len(SubSeq(s, m, n)) = n - m + 1
         /\ \A i \in 1..(n - m + 1) : SubSeq(s, m, n)[i] = s[m + i - 1]
  <1>1. PICK S : s \in Seq(S)
    BY DEF IsSeq
  <1>2. Len(s) \in Nat
    BY <1>1
  <1>3. SubSeq(s, m, n) = [i \in 1..(n - m + 1) |-> s[m + i - 1]]
    BY <1>1, <1>2
  <1>4. n - m + 1 \in Nat
    BY <1>2
  <1> QED
    BY <1>3, <1>4, SeqFromFunction

LEMMA SameSeq ==
  ASSUME NEW s, IsSeq(s), NEW t, IsSeq(t), Len(s) = Len(t), \A i \in 1..Len(s) : s[i] = t[i]
  PROVE  s = t
  BY SeqFacts

-----------------------------------------------------------------------------
(* FlattenSeq: what it is recursively, and where its elements come from.   *)

\* f[i] is the concatenation of the first i sections.
Folds(f, s, n) == f = [i \in 1..n |-> IF i = 1 THEN s[i] ELSE f[i - 1] \o s[i]]

LEMMA FoldAt ==
  ASSUME NEW s, NEW n \in Nat, NEW f, Folds(f, s, n), NEW i \in 1..n
  PROVE  f[i] = IF i = 1 THEN s[i] ELSE f[i - 1] \o s[i]
  <1> DEFINE e(x) == IF x = 1 THEN s[x] ELSE f[x - 1] \o s[x]
  <1>1. f = [x \in 1..n |-> e(x)]
    BY DEF Folds
  <1> HIDE DEF e
  <1>2. f[i] = e(i)
    BY <1>1
  <1> QED
    BY <1>2 DEF e

LEMMA FoldExists ==
  ASSUME NEW s, NEW n \in Nat
  PROVE  \E f : Folds(f, s, n)
  <1> DEFINE S == {k \in Nat : \E f : Folds(f, s, k)}
  <1>1. 0 \in S
    <2>1. Folds([i \in 1..0 |-> s], s, 0)
      BY DEF Folds
    <2> QED
      BY <2>1
  <1>2. ASSUME NEW k \in Nat, k \in S PROVE k + 1 \in S
    <2>1. PICK f : Folds(f, s, k)
      BY <1>2
    <2> DEFINE last == IF k = 0 THEN s[1] ELSE f[k] \o s[k + 1]
               g == [i \in 1..k + 1 |-> IF i = k + 1 THEN last ELSE f[i]]
    <2>2. ASSUME NEW i \in 1..k + 1
          PROVE  g[i] = IF i = 1 THEN s[i] ELSE g[i - 1] \o s[i]
      <3>1. CASE i = k + 1
        BY <3>1
      <3>2. CASE i \in 1..k
        <4>1. g[i] = f[i] /\ (i # 1 => i - 1 \in 1..k /\ g[i - 1] = f[i - 1])
          BY <3>2
        <4>2. f[i] = IF i = 1 THEN s[i] ELSE f[i - 1] \o s[i]
          BY <2>1, <3>2 DEF Folds
        <4> QED
          BY <4>1, <4>2
      <3> QED
        BY <3>1, <3>2
    <2>3. g = [i \in 1..k + 1 |-> g[i]]
      OBVIOUS
    <2> HIDE DEF g
    <2>4. Folds(g, s, k + 1)
      BY <2>2, <2>3 DEF Folds
    <2> QED
      BY <2>4
  <1> HIDE DEF S
  <1>3. Nat \subseteq S
    BY <1>1, <1>2, SetInduction
  <1> QED
    BY <1>3 DEF S

Agree(s, t, n) == \A i \in 1..n : s[i] = t[i]

LEMMA FoldUnique ==
  ASSUME NEW s, NEW t, NEW f, NEW g, NEW m \in Nat, NEW n \in Nat, m # 0, m <= n,
         Agree(s, t, m),
         Folds(f, s, m), Folds(g, t, n)
  PROVE  f[m] = g[m]
  <1> DEFINE S == {k \in Nat : k \in 1..m => f[k] = g[k]}
  <1> USE DEF Agree
  <1>1. 0 \in S
    OBVIOUS
  <1>2. ASSUME NEW k \in Nat, k \in S PROVE k + 1 \in S
    <2> SUFFICES ASSUME k + 1 \in 1..m PROVE f[k + 1] = g[k + 1]
      OBVIOUS
    <2>1. /\ f[k + 1] = IF k + 1 = 1 THEN s[k + 1] ELSE f[(k + 1) - 1] \o s[k + 1]
          /\ g[k + 1] = IF k + 1 = 1 THEN t[k + 1] ELSE g[(k + 1) - 1] \o t[k + 1]
      BY FoldAt
    <2>2. (k + 1) - 1 = k /\ s[k + 1] = t[k + 1] /\ (k + 1 # 1 => k \in 1..m)
      OBVIOUS
    <2> QED
      BY <1>2, <2>1, <2>2
  <1> HIDE DEF S
  <1>3. Nat \subseteq S
    BY <1>1, <1>2, SetInduction
  <1> QED
    BY <1>3 DEF S

LEMMA FlattenEmpty ==
  ASSUME NEW s, IsSeq(s), Len(s) = 0
  PROVE  FlattenSeq(s) = s
  BY DEF FlattenSeq

LEMMA FlattenFold ==
  ASSUME NEW s, IsSeq(s), Len(s) # 0
  PROVE  \E f : Folds(f, s, Len(s)) /\ FlattenSeq(s) = f[Len(s)]
  <1> DEFINE g == CHOOSE f : f = [i \in 1..Len(s) |-> IF i = 1 THEN s[i] ELSE f[i - 1] \o s[i]]
  <1>1. Len(s) \in Nat
    BY SeqFacts
  <1>2. FlattenSeq(s) = g[Len(s)]
    BY DEF FlattenSeq
  <1>3. \E f : f = [i \in 1..Len(s) |-> IF i = 1 THEN s[i] ELSE f[i - 1] \o s[i]]
    BY <1>1, FoldExists DEF Folds
  <1>4. Folds(g, s, Len(s))
    BY <1>3 DEF Folds
  <1> QED
    BY <1>2, <1>4

LEMMA FlattenStep ==
  ASSUME NEW s, IsSeq(s), NEW t, IsSeq(t), Len(t) = Len(s) + 1, Agree(s, t, Len(s)),
         IsSeq(t[Len(t)])
  PROVE  FlattenSeq(t) = FlattenSeq(s) \o t[Len(t)]
  <1>1. Len(s) \in Nat /\ Len(t) \in Nat
    BY SeqFacts
  <1>2. PICK g : Folds(g, t, Len(t)) /\ FlattenSeq(t) = g[Len(t)]
    BY <1>1, FlattenFold
  <1>3. g[Len(t)] = IF Len(t) = 1 THEN t[Len(t)] ELSE g[Len(t) - 1] \o t[Len(t)]
    BY <1>1, <1>2, FoldAt
  <1>4. CASE Len(s) = 0
    <2>1. FlattenSeq(s) = s /\ s = <<>>
      BY <1>4, FlattenEmpty, SeqFacts
    <2>2. <<>> \o t[Len(t)] = t[Len(t)]
      BY ConcatEmptySeq DEF IsSeq
    <2> QED
      BY <1>2, <1>3, <1>4, <2>1, <2>2
  <1>5. CASE Len(s) # 0
    <2>1. PICK f : Folds(f, s, Len(s)) /\ FlattenSeq(s) = f[Len(s)]
      BY <1>5, FlattenFold
    <2>2. f[Len(s)] = g[Len(s)]
      <3>1. Len(s) \in Nat \ {0} /\ Len(t) \in Nat /\ Len(s) <= Len(t)
        BY <1>1, <1>5
      <3> QED
        BY <1>2, <2>1, <3>1, FoldUnique
    <2> QED
      <3>1. Len(t) - 1 = Len(s) /\ Len(t) # 1
        BY <1>1, <1>5
      <3> QED
        BY <1>2, <1>3, <2>1, <2>2, <3>1
  <1> QED
    BY <1>4, <1>5

First(s, n) == [i \in 1..n |-> s[i]]

LEMMA FirstFacts ==
  ASSUME NEW s, NEW n \in Nat
  PROVE  IsSeq(First(s, n)) /\ Len(First(s, n)) = n /\ \A i \in 1..n : First(s, n)[i] = s[i]
  BY SeqFromFunction DEF First

LEMMA FlattenFirst ==
  ASSUME NEW s, IsSeq(s), \A i \in 1..Len(s) : IsSeq(s[i]),
         NEW n \in Nat, n + 1 <= Len(s)
  PROVE  FlattenSeq(First(s, n + 1)) = FlattenSeq(First(s, n)) \o s[n + 1]
  <1> DEFINE u == First(s, n)
             v == First(s, n + 1)
  <1>1. IsSeq(u) /\ Len(u) = n /\ \A i \in 1..n : u[i] = s[i]
    BY FirstFacts
  <1>2. IsSeq(v) /\ Len(v) = n + 1 /\ \A i \in 1..n + 1 : v[i] = s[i]
    <2>1. n + 1 \in Nat
      OBVIOUS
    <2> QED
      BY <2>1, FirstFacts
  <1>3. Agree(u, v, Len(u)) /\ v[Len(v)] = s[n + 1]
    BY <1>1, <1>2 DEF Agree
  <1>4. IsSeq(v[Len(v)])
    BY <1>3, SeqFacts
  <1> HIDE DEF u, v
  <1>5. FlattenSeq(v) = FlattenSeq(u) \o v[Len(v)]
    BY <1>1, <1>2, <1>3, <1>4, FlattenStep
  <1> QED
    BY <1>3, <1>5 DEF u, v

LEMMA FlattenNone ==
  ASSUME NEW s
  PROVE  FlattenSeq(First(s, 0)) = <<>>
  <1>1. First(s, 0) = <<>>
    BY DEF First
  <1>2. IsSeq(<<>>) /\ Len(<<>>) = 0
    BY DEF IsSeq
  <1> QED
    BY <1>1, <1>2, FlattenEmpty

\* Each element of t comes from a section among the first n, and their order is kept.
FromSection(t, k, s, i) == \E a \in 1..Len(s[i]) : t[k] = s[i][a]
InOrderFrom(t, s, n) ==
  /\ IsSeq(t)
  /\ \A k \in 1..Len(t) : \E i \in 1..n : FromSection(t, k, s, i)
  /\ \A k, l \in 1..Len(t) :
       k < l => \E i, j \in 1..n : i <= j /\ FromSection(t, k, s, i) /\ FromSection(t, l, s, j)

LEMMA OrderStep ==
  ASSUME NEW s, NEW n \in Nat, NEW t, InOrderFrom(t, s, n), IsSeq(s[n + 1])
  PROVE  InOrderFrom(t \o s[n + 1], s, n + 1)
  <1> DEFINE u == t \o s[n + 1]
  <1>1. /\ IsSeq(u) /\ Len(t) \in Nat /\ Len(s[n + 1]) \in Nat
        /\ Len(u) = Len(t) + Len(s[n + 1])
        /\ \A k \in 1..Len(t) : u[k] = t[k]
        /\ \A k \in 1..Len(u) : k > Len(t) => k - Len(t) \in 1..Len(s[n + 1]) /\ u[k] = s[n + 1][k - Len(t)]
    <2>1. IsSeq(t) /\ IsSeq(s[n + 1])
      BY DEF InOrderFrom
    <2>2. Len(t) \in Nat /\ Len(s[n + 1]) \in Nat
      BY <2>1, SeqFacts
    <2> QED
      BY <2>1, <2>2, ConcatFacts
  <1> HIDE DEF u
  <1>2. ASSUME NEW k \in 1..Len(t), NEW i \in 1..n, FromSection(t, k, s, i)
        PROVE  FromSection(u, k, s, i)
    BY <1>1, <1>2 DEF FromSection
  <1>3. ASSUME NEW k \in 1..Len(u), k > Len(t)
        PROVE  FromSection(u, k, s, n + 1)
    BY <1>1, <1>3 DEF FromSection
  <1>4. \A k \in 1..Len(u) : k \in 1..Len(t) \/ k > Len(t)
    BY <1>1
  <1>5. 1..n \subseteq 1..n + 1 /\ n + 1 \in 1..n + 1
    OBVIOUS
  <1>6. ASSUME NEW k \in 1..Len(u) PROVE \E i \in 1..n + 1 : FromSection(u, k, s, i)
    <2>1. CASE k > Len(t)
      BY <1>3, <1>5, <2>1
    <2>2. CASE k \in 1..Len(t)
      <3>1. PICK i \in 1..n : FromSection(t, k, s, i)
        BY <2>2 DEF InOrderFrom
      <3> QED
        BY <1>2, <1>5, <2>2, <3>1
    <2> QED
      BY <1>4, <2>1, <2>2
  <1>7. ASSUME NEW k \in 1..Len(u), NEW l \in 1..Len(u), k < l
        PROVE  \E i, j \in 1..n + 1 : i <= j /\ FromSection(u, k, s, i) /\ FromSection(u, l, s, j)
    <2>1. CASE l > Len(t)
      <3>1. PICK i \in 1..n + 1 : FromSection(u, k, s, i)
        BY <1>6
      <3> QED
        BY <1>3, <1>5, <2>1, <3>1
    <2>2. CASE l \in 1..Len(t)
      <3>1. k \in 1..Len(t)
        BY <1>1, <1>7, <2>2
      <3>2. PICK i \in 1..n, j \in 1..n : i <= j /\ FromSection(t, k, s, i) /\ FromSection(t, l, s, j)
        BY <1>7, <2>2, <3>1 DEF InOrderFrom
      <3> QED
        BY <1>2, <1>5, <2>2, <3>1, <3>2
    <2> QED
      BY <1>4, <2>1, <2>2
  <1> QED
    BY <1>1, <1>6, <1>7 DEF InOrderFrom, u

LEMMA FlattenOrder ==
  ASSUME NEW s, IsSeq(s), \A i \in 1..Len(s) : IsSeq(s[i])
  PROVE  InOrderFrom(FlattenSeq(s), s, Len(s))
  <1> DEFINE S == {k \in Nat : k <= Len(s) => InOrderFrom(FlattenSeq(First(s, k)), s, k)}
  <1>1. 0 \in S
    <2>1. InOrderFrom(<<>>, s, 0)
      BY DEF InOrderFrom, IsSeq
    <2> QED
      BY <2>1, FlattenNone
  <1>2. ASSUME NEW k \in Nat, k \in S PROVE k + 1 \in S
    <2> SUFFICES ASSUME k + 1 <= Len(s)
                 PROVE  InOrderFrom(FlattenSeq(First(s, k + 1)), s, k + 1)
      OBVIOUS
    <2>0. Len(s) \in Nat
      BY SeqFacts
    <2>1. InOrderFrom(FlattenSeq(First(s, k)), s, k)
      BY <1>2, <2>0
    <2>2. IsSeq(s[k + 1])
      BY <2>0
    <2>3. FlattenSeq(First(s, k + 1)) = FlattenSeq(First(s, k)) \o s[k + 1]
      BY FlattenFirst
    <2> QED
      BY <2>1, <2>2, <2>3, OrderStep
  <1> HIDE DEF S
  <1>3. Len(s) \in S
    BY <1>1, <1>2, SetInduction, SeqFacts
  <1>4. First(s, Len(s)) = s /\ Len(s) \in Nat
    BY SeqFacts DEF First
  <1> QED
    BY <1>3, <1>4 DEF S

-----------------------------------------------------------------------------
(* The parts of a message.                                                 *)

LEMMA FirstOtherFacts ==
  ASSUME NEW rest \in Seq(STRING)
  PROVE  /\ FirstOther(rest) \in 0..Len(rest)
         /\ FirstOther(rest) = 0 => \A i \in 1..Len(rest) : rest[i] \in Texts
         /\ FirstOther(rest) # 0 => \A i \in 1..FirstOther(rest) - 1 : rest[i] \in Texts
  <1> DEFINE I == {i \in 1..Len(rest) : rest[i] \notin Texts}
  <1>1. FirstOther(rest) = IF I # {} THEN Min(I) ELSE 0
    BY DEF FirstOther, SelectInSeq
  <1>2. CASE I = {}
    <2>1. FirstOther(rest) = 0
      BY <1>1, <1>2
    <2>2. Len(rest) \in Nat
      OBVIOUS
    <2> QED
      BY <1>2, <2>1, <2>2
  <1>3. CASE I # {}
    <2>1. I \in SUBSET Nat
      OBVIOUS
    <2>2. \E n \in I : \A m \in I : n <= m
      BY <1>3, <2>1, LeastNat
    <2>3. Min(I) \in I /\ \A m \in I : Min(I) <= m
      BY <2>2 DEF Min
    <2>4. FirstOther(rest) = Min(I) /\ Len(rest) \in Nat
      BY <1>1, <1>3
    <2> HIDE DEF I
    <2>5. FirstOther(rest) \in I /\ \A m \in I : FirstOther(rest) <= m
      BY <2>3, <2>4
    <2>6. FirstOther(rest) \in 1..Len(rest)
      BY <2>5 DEF I
    <2>7. ASSUME NEW i \in 1..FirstOther(rest) - 1 PROVE rest[i] \in Texts
      <3>1. i \in 1..Len(rest) /\ ~(FirstOther(rest) <= i)
        BY <2>4, <2>6
      <3> QED
        BY <2>5, <3>1 DEF I
    <2> QED
      BY <2>6, <2>7
  <1> QED
    BY <1>2, <1>3

LEMMA TextGroupFacts ==
  ASSUME NEW rest \in Seq(STRING)
  PROVE  /\ TextGroup(rest) \in Seq(STRING) /\ AfterGroup(rest) \in Seq(STRING)
         /\ Len(rest) = Len(TextGroup(rest)) + Len(AfterGroup(rest))
         /\ rest = TextGroup(rest) \o AfterGroup(rest)
         /\ \A i \in 1..Len(TextGroup(rest)) : TextGroup(rest)[i] \in Texts
         /\ TextGroup(rest) = <<>> => AfterGroup(rest) = rest
  <1> DEFINE n == IF FirstOther(rest) = 0 THEN Len(rest) ELSE FirstOther(rest) - 1
  <1>1. Len(rest) \in Nat /\ n \in 0..Len(rest) /\ \A i \in 1..n : rest[i] \in Texts
    BY FirstOtherFacts
  <1>2. TextGroup(rest) = SubSeq(rest, 1, n)
    <2>1. rest = SubSeq(rest, 1, Len(rest))
      BY SubSeqFull
    <2> QED
      BY <2>1 DEF TextGroup
  <1> HIDE DEF n
  <1>3. /\ TextGroup(rest) \in Seq(STRING) /\ Len(TextGroup(rest)) = n
        /\ \A i \in 1..n : TextGroup(rest)[i] = rest[i]
    BY <1>1, <1>2
  <1>4. AfterGroup(rest) = SubSeq(rest, n + 1, Len(rest))
    BY <1>3 DEF AfterGroup
  <1>5. /\ AfterGroup(rest) \in Seq(STRING) /\ Len(AfterGroup(rest)) = Len(rest) - n
        /\ \A i \in 1..Len(rest) - n : AfterGroup(rest)[i] = rest[n + i]
    BY <1>1, <1>4
  <1>6. rest = TextGroup(rest) \o AfterGroup(rest)
    <2>1. SubSeq(rest, 1, n) \o SubSeq(rest, n + 1, Len(rest)) = SubSeq(rest, 1, Len(rest))
      <3>1. 1 \in 1..Len(rest) + 1 /\ n \in 1 - 1..Len(rest) /\ Len(rest) \in n..Len(rest)
        BY <1>1
      <3> QED
        BY <3>1, ConcatAdjacentSubSeq
    <2> QED
      BY <1>2, <1>4, <2>1, SubSeqFull
  <1>7. TextGroup(rest) = <<>> => AfterGroup(rest) = rest
    <2>1. TextGroup(rest) = <<>> => n = 0
      BY <1>3
    <2> QED
      BY <1>1, <1>4, <2>1, SubSeqFull
  <1> QED
    BY <1>1, <1>3, <1>5, <1>6, <1>7

-----------------------------------------------------------------------------
(* Types.  A target and a reply are what the frame says, so that tasks and *)
(* posts are sequences of records of which only the other fields are known.*)

Width == 2^SeqBits

Uploading == {"prepare", "open", "collect", "put", "part_finish", "exchange"}
Places == Uploading \cup {"text", "media", "single", "done", "unsupported"}
WorkStates ==
  [at : Places, rest : Seq(STRING), block : Nat, generation : Nat, tries : Nat, seq : 0..Width - 1]

\* Where the runner may be in a task, and what is left of the task there.
Doing(task, step) ==
  /\ step \in WorkStates
  /\ \/ task.op = "single" /\ step.at = "single"
     \/ task.op = "upload" /\ step.at \in Uploading /\ step.rest = <<>>
     \/ task.op = "send" /\ step.at \in Uploading \cup {"media"} /\ step.rest # <<>> /\ Head(step.rest) = "image"
     \/ task.op = "send" /\ step.at = "text" /\ step.rest # <<>> /\ TextGroup(step.rest) # <<>>
     \/ task.op = "send" /\ step.at = "done" /\ step.rest = <<>>
     \/ task.op = "send" /\ step.at = "unsupported"
  /\ step.at \in {"put", "part_finish"} => step.generation \in 1..2 /\ step.block \in 1..Blocks(step.generation)

TaskOK(task) ==
  /\ task.op \in {"send", "upload", "single", "malformed"}
  /\ task.op = "send" => task.segments \in Seq(STRING)
  /\ task.op \in {"send", "upload"} => task.generation \in 1..2

TasksOK ==
  /\ IsSeq(tasks) /\ IsSeq(outcome) /\ Len(outcome) = Len(tasks)
  /\ \A t \in 1..Len(tasks) : TaskOK(tasks[t]) /\ outcome[t] \in {"none", "completed", "failed"}
RunnerOK ==
  /\ running \in 0..Len(tasks)
  /\ running # 0 => Doing(tasks[running], work) /\ outcome[running] = "none"
  /\ nextSeq \in 0..Width - 1 /\ messages \in Nat
ServerOK ==
  /\ IsSeq(posts)
  /\ upload \in [generation : 0..2, parts : 0..2, finished : SUBSET (1..2)]
  /\ resource.generation \in 1..2
  /\ resource = [generation |-> resource.generation, hinted |-> resource.hinted,
                 hashed |-> resource.hashed, provider |-> resource.provider]
SendTypeOK == TasksOK /\ RunnerOK /\ ServerOK

\* 2^SeqBits is the number of subsets of 1..SeqBits, and these are more than one.
LEMMA WidthFacts == Width \in Nat /\ Width > 1
  <1>1. SeqBits \in Nat \ {0}
    BY SendAssumption
  <1>2. PICK S : S = SUBSET (1..SeqBits)
    OBVIOUS
  <1>3. IsFiniteSet(S) /\ Cardinality(S) = Width
    <2>1. IsFiniteSet(1..SeqBits) /\ Cardinality(1..SeqBits) = SeqBits
      BY <1>1, FS_Interval
    <2>2. Cardinality(S) = 2^Cardinality(1..SeqBits)
      BY <1>2, <2>1, FS_SUBSET
    <2> QED
      BY <1>2, <2>1, <2>2, FS_SUBSET DEF Width
  <1>4. {{}, {1}} \subseteq S /\ {} # {1}
    BY <1>1, <1>2
  <1>5. IsFiniteSet({{}, {1}}) /\ Cardinality({{}, {1}}) = 2
    <2>1. IsFiniteSet({{}}) /\ Cardinality({{}}) = 1
      BY FS_Singleton
    <2>2. IsFiniteSet({{}} \cup {{1}}) /\ Cardinality({{}} \cup {{1}}) = 1 + 1
      BY <1>4, <2>1, FS_AddElement
    <2>3. {{}} \cup {{1}} = {{}, {1}}
      OBVIOUS
    <2> QED
      BY <2>2, <2>3
  <1>6. 2 <= Cardinality(S) /\ Cardinality(S) \in Nat
    BY <1>3, <1>4, <1>5, FS_Subset, FS_CardinalityType
  <1> QED
    BY <1>3, <1>6

LEMMA NextSeqFacts ==
  ASSUME NEW n \in 0..Width - 1
  PROVE  /\ (n + 1) % 2^SeqBits \in 0..Width - 1
         /\ (n + 1) % 2^SeqBits = n + 1 \/ ((n + 1) % 2^SeqBits = 0 /\ n + 1 = Width)
  <1>1. ASSUME NEW m \in Nat, m > 1, NEW k \in 0..m - 1
        PROVE  (k + 1) % m = IF k + 1 = m THEN 0 ELSE k + 1
    OBVIOUS
  <1>2. (n + 1) % Width = IF n + 1 = Width THEN 0 ELSE n + 1
    BY <1>1, WidthFacts
  <1>3. (n + 1) % 2^SeqBits = IF n + 1 = Width THEN 0 ELSE n + 1
    BY <1>2 DEF Width
  <1> QED
    BY <1>3, WidthFacts

LEMMA StartRecord ==
  ASSUME NEW rest, NEW s
  PROVE  [SendFrom(rest) EXCEPT !.tries = 1, !.seq = s]
         = [at |-> Upcoming(rest), rest |-> rest, block |-> 0, generation |-> 0, tries |-> 1, seq |-> s]
  <1> DEFINE step == SendFrom(rest)
  <1>1. step = [at |-> Upcoming(rest), rest |-> rest, block |-> 0, generation |-> 0, tries |-> 1, seq |-> 0]
    BY DEF SendFrom
  <1> HIDE DEF step
  <1>2. [step EXCEPT !.tries = 1, !.seq = s]
        = [x \in DOMAIN step |-> IF x = "seq" THEN s ELSE IF x = "tries" THEN 1 ELSE step[x]]
    OBVIOUS
  <1>3. [step EXCEPT !.tries = 1, !.seq = s]
        = [at |-> Upcoming(rest), rest |-> rest, block |-> 0, generation |-> 0, tries |-> 1, seq |-> s]
    BY <1>1, <1>2
  <1> QED
    BY <1>3 DEF step

\* The step that the next rounds of the loop come to is one that fits what is left.
LEMMA SendFromFacts ==
  ASSUME NEW task, task.op = "send", NEW rest \in Seq(STRING), NEW s \in 0..Width - 1
  PROVE  Doing(task, [SendFrom(rest) EXCEPT !.tries = 1, !.seq = s])
  <1> DEFINE step == [at |-> Upcoming(rest), rest |-> rest, block |-> 0, generation |-> 0, tries |-> 1, seq |-> s]
  <1>1. [SendFrom(rest) EXCEPT !.tries = 1, !.seq = s] = step
    BY StartRecord
  <1>2. Upcoming(rest) \in {"done", "unsupported", "text", "prepare"}
    BY DEF Upcoming
  <1>3. step \in WorkStates
    BY <1>2 DEF WorkStates, Places, Uploading
  <1>4. CASE Upcoming(rest) \in {"done", "unsupported"}
    <2>1. Upcoming(rest) = "done" => rest = <<>>
      BY DEF Upcoming
    <2> QED
      BY <1>1, <1>3, <1>4, <2>1 DEF Doing
  <1>5. CASE Upcoming(rest) = "text"
    <2>1. rest # <<>> /\ TextGroup(rest) # <<>>
      BY <1>5 DEF Upcoming
    <2> QED
      BY <1>1, <1>3, <1>5, <2>1 DEF Doing
  <1>6. CASE Upcoming(rest) = "prepare"
    <2>1. rest # <<>> /\ TextGroup(rest) = <<>> /\ ~(AfterGroup(rest) # <<>> /\ Head(AfterGroup(rest)) # "image")
      BY <1>6 DEF Upcoming
    <2>2. rest # <<>> /\ Head(rest) = "image"
      BY <2>1, TextGroupFacts
    <2>3. step.at \in Uploading \cup {"media"} /\ step.at \notin {"put", "part_finish"}
      BY <1>6 DEF Uploading
    <2> HIDE DEF step
    <2>4. step.rest = rest
      BY DEF step
    <2> QED
      BY <1>1, <1>3, <2>2, <2>3, <2>4 DEF Doing
  <1> QED
    BY <1>2, <1>4, <1>5, <1>6

LEMMA GoesFacts ==
  ASSUME RunnerOK, NEW step, Goes(step)
  PROVE  /\ nextSeq' \in 0..Width - 1 /\ messages' \in Nat
         /\ work' = [step EXCEPT !.tries = 1, !.seq = nextSeq]
         /\ step.at \in Sending =>
              messages' = messages + 1 /\ (nextSeq' = nextSeq + 1 \/ (nextSeq' = 0 /\ nextSeq + 1 = Width))
         /\ step.at \notin Sending => messages' = messages /\ nextSeq' = nextSeq
  <1>1. nextSeq \in 0..Width - 1 /\ messages \in Nat
    BY DEF RunnerOK
  <1>2. CASE step.at \in Sending
    <2>1. nextSeq' = (nextSeq + 1) % 2^SeqBits /\ messages' = messages + 1
      BY <1>2 DEF Goes
    <2> QED
      BY <1>1, <1>2, <2>1, NextSeqFacts DEF Goes
  <1>3. CASE step.at \notin Sending
    BY <1>1, <1>3 DEF Goes
  <1> QED
    BY <1>2, <1>3

\* The runner begins a task or goes on with it.
LEMMA GoesOK ==
  ASSUME SendTypeOK, UNCHANGED <<tasks, outcome>>,
         NEW t \in 1..Len(tasks), outcome[t] = "none", running' = t,
         NEW step, Goes(step), Doing(tasks[t], [step EXCEPT !.tries = 1, !.seq = nextSeq])
  PROVE  TasksOK' /\ RunnerOK'
  <1>1. TasksOK'
    BY DEF SendTypeOK, TasksOK
  <1>2. /\ nextSeq' \in 0..Width - 1 /\ messages' \in Nat
        /\ work' = [step EXCEPT !.tries = 1, !.seq = nextSeq]
    BY GoesFacts DEF SendTypeOK
  <1> QED
    BY <1>1, <1>2 DEF RunnerOK, Doing, Width, WorkStates

\* A task ends.
LEMMA OutcomeOK ==
  ASSUME TasksOK, NEW t \in 1..Len(tasks), NEW result \in {"completed", "failed"},
         outcome' = [outcome EXCEPT ![t] = result], tasks' = tasks
  PROVE  TasksOK'
  <1>1. DOMAIN outcome = 1..Len(tasks) /\ Len(tasks) \in Nat
    BY SeqFacts DEF TasksOK
  <1>2. outcome' = [i \in 1..Len(tasks) |-> IF i = t THEN result ELSE outcome[i]]
    BY <1>1
  <1>3. IsSeq(outcome') /\ Len(outcome') = Len(tasks)
    BY <1>1, <1>2, SeqFromFunction
  <1>4. \A i \in 1..Len(tasks) : outcome'[i] \in {"none", "completed", "failed"}
    BY <1>2 DEF TasksOK
  <1> QED
    BY <1>3, <1>4 DEF TasksOK

LEMMA EndsOK ==
  ASSUME SendTypeOK, running # 0, NEW result \in {"completed", "failed"}, Ends(result), tasks' = tasks
  PROVE  TasksOK' /\ RunnerOK'
  <1>1. running \in 1..Len(tasks)
    BY SeqFacts DEF SendTypeOK, RunnerOK, TasksOK
  <1>2. TasksOK'
    BY <1>1, OutcomeOK DEF SendTypeOK, Ends
  <1>3. running' = 0 /\ nextSeq' = nextSeq /\ messages' = messages
    BY DEF Ends
  <1>4. 0 \in 0..Len(tasks')
    BY SeqFacts DEF SendTypeOK, TasksOK
  <1> QED
    BY <1>2, <1>3, <1>4 DEF SendTypeOK, RunnerOK, Width

-----------------------------------------------------------------------------
(* What a step of the OpenAPI runner comes to, in five cases, from which   *)
(* every invariant below is proved.                                        *)

\* The counters follow the place the runner goes to.
Counted ==
  /\ work'.at \in Sending =>
       /\ messages' = messages + 1 /\ work'.seq = nextSeq
       /\ nextSeq' = nextSeq + 1 \/ (nextSeq' = 0 /\ nextSeq + 1 = Width)
  /\ work'.at \notin Sending => messages' = messages /\ nextSeq' = nextSeq

\* What is left of the task once the request the runner is at is answered.
Left ==
  IF work.at = "text" THEN AfterGroup(work.rest)
  ELSE IF work.at = "media" THEN Tail(work.rest) ELSE work.rest

Begins ==
  /\ running = 0 /\ running' \in 1..Len(tasks) /\ outcome[running'] = "none"
  /\ tasks[running'].op = "send" => work'.rest = tasks[running'].segments
  /\ work'.at \notin (Uploading \ {"prepare"}) \cup {"media"}
  /\ Counted /\ UNCHANGED <<outcome, posts, upload>>
Skips ==
  /\ running = 0 /\ UNCHANGED <<running, work, nextSeq, messages, posts, upload>>
  /\ \E t \in 1..Len(tasks) : outcome[t] = "none" /\ outcome' = [outcome EXCEPT ![t] = "failed"]
GoesOn ==
  /\ running # 0 /\ UNCHANGED <<outcome, running>>
  /\ work'.rest = Left /\ Counted
  /\ (Requesting /\ Effect) \/ (~Requesting /\ NoEffect)
Repeats ==
  /\ Requesting /\ (Effect \/ NoEffect)
  /\ work' = AnotherAttempt /\ UNCHANGED <<outcome, running, nextSeq, messages>>
Stops ==
  /\ running # 0 /\ ((Requesting /\ Effect) \/ NoEffect)
  /\ \E result \in {"completed", "failed"} :
       /\ Ends(result)
       /\ result = "completed" /\ tasks[running].op = "send" => work.at = "done"
RunnerMoves == Begins \/ Skips \/ GoesOn \/ Repeats \/ Stops

\* The record that At gives when the runner goes there.
LEMMA AtFacts ==
  ASSUME NEW w \in WorkStates, NEW p, NEW s
  PROVE  [[w EXCEPT !.at = p] EXCEPT !.tries = 1, !.seq = s]
         = [at |-> p, rest |-> w.rest, block |-> w.block, generation |-> w.generation, tries |-> 1, seq |-> s]
  <1>1. w = [at |-> w.at, rest |-> w.rest, block |-> w.block, generation |-> w.generation, tries |-> w.tries, seq |-> w.seq]
    BY DEF WorkStates
  <1> DEFINE v == [w EXCEPT !.at = p]
  <1>2. v = [at |-> p, rest |-> w.rest, block |-> w.block, generation |-> w.generation, tries |-> w.tries, seq |-> w.seq]
    BY <1>1
  <1> HIDE DEF v
  <1>3. [v EXCEPT !.tries = 1, !.seq = s]
        = [at |-> p, rest |-> w.rest, block |-> w.block, generation |-> w.generation, tries |-> 1, seq |-> s]
    <2>1. [v EXCEPT !.tries = 1, !.seq = s]
          = [z \in DOMAIN v |-> IF z = "seq" THEN s ELSE IF z = "tries" THEN 1 ELSE v[z]]
      OBVIOUS
    <2> QED
      BY <1>2, <2>1
  <1> QED
    BY <1>3 DEF v

LEMMA AtNextBlock ==
  ASSUME NEW w \in WorkStates, NEW p, NEW s
  PROVE  [[[w EXCEPT !.at = p] EXCEPT !.block = @ + 1] EXCEPT !.tries = 1, !.seq = s]
         = [at |-> p, rest |-> w.rest, block |-> w.block + 1, generation |-> w.generation, tries |-> 1, seq |-> s]
  <1>1. w = [at |-> w.at, rest |-> w.rest, block |-> w.block, generation |-> w.generation, tries |-> w.tries, seq |-> w.seq]
    BY DEF WorkStates
  <1> DEFINE v == [w EXCEPT !.at = p]
  <1>2. v = [at |-> p, rest |-> w.rest, block |-> w.block, generation |-> w.generation, tries |-> w.tries, seq |-> w.seq]
    BY <1>1
  <1> HIDE DEF v
  <1> DEFINE x == [v EXCEPT !.block = @ + 1]
  <1>3. x = [at |-> p, rest |-> w.rest, block |-> w.block + 1, generation |-> w.generation, tries |-> w.tries, seq |-> w.seq]
    BY <1>2
  <1> HIDE DEF x
  <1>4. [x EXCEPT !.tries = 1, !.seq = s]
        = [at |-> p, rest |-> w.rest, block |-> w.block + 1, generation |-> w.generation, tries |-> 1, seq |-> s]
    <2>1. [x EXCEPT !.tries = 1, !.seq = s]
          = [z \in DOMAIN x |-> IF z = "seq" THEN s ELSE IF z = "tries" THEN 1 ELSE x[z]]
      OBVIOUS
    <2> QED
      BY <1>3, <2>1
  <1> QED
    BY <1>4 DEF v, x

LEMMA AtFirstBlock ==
  ASSUME NEW w \in WorkStates, NEW g, NEW s
  PROVE  [[[w EXCEPT !.at = "put"] EXCEPT !.block = 1, !.generation = g] EXCEPT !.tries = 1, !.seq = s]
         = [at |-> "put", rest |-> w.rest, block |-> 1, generation |-> g, tries |-> 1, seq |-> s]
  <1>1. w = [at |-> w.at, rest |-> w.rest, block |-> w.block, generation |-> w.generation, tries |-> w.tries, seq |-> w.seq]
    BY DEF WorkStates
  <1> DEFINE v == [w EXCEPT !.at = "put"]
  <1>2. v = [at |-> "put", rest |-> w.rest, block |-> w.block, generation |-> w.generation, tries |-> w.tries, seq |-> w.seq]
    BY <1>1
  <1> HIDE DEF v
  <1> DEFINE y == [v EXCEPT !.block = 1, !.generation = g]
  <1>3. y = [at |-> "put", rest |-> w.rest, block |-> 1, generation |-> g, tries |-> w.tries, seq |-> w.seq]
    <2>1. y = [z \in DOMAIN v |-> IF z = "generation" THEN g ELSE IF z = "block" THEN 1 ELSE v[z]]
      OBVIOUS
    <2> QED
      BY <1>2, <2>1
  <1> HIDE DEF y
  <1>4. [y EXCEPT !.tries = 1, !.seq = s]
        = [at |-> "put", rest |-> w.rest, block |-> 1, generation |-> g, tries |-> 1, seq |-> s]
    <2>1. [y EXCEPT !.tries = 1, !.seq = s]
          = [z \in DOMAIN y |-> IF z = "seq" THEN s ELSE IF z = "tries" THEN 1 ELSE y[z]]
      OBVIOUS
    <2> QED
      BY <1>3, <2>1
  <1> QED
    BY <1>4 DEF v, y

LEMMA StartTyped ==
  ASSUME NEW a \in Places, NEW rest \in Seq(STRING), NEW s \in 0..Width - 1
  PROVE  [at |-> a, rest |-> rest, block |-> 0, generation |-> 0, tries |-> 1, seq |-> s] \in WorkStates
  BY DEF WorkStates

\* The place a step says and the counters that go with it.
LEMMA CountedFacts ==
  ASSUME RunnerOK, NEW step, Goes(step), work'.at = step.at, work'.seq = nextSeq
  PROVE  Counted
  BY GoesFacts DEF Counted

LEMMA TakeMoves ==
  ASSUME SendTypeOK, Take
  PROVE  (Begins \/ Skips) /\ TasksOK' /\ RunnerOK'
  <1> DEFINE t == CHOOSE x \in Waiting : \A y \in Waiting : x <= y
             s == nextSeq
  <1>0. Len(tasks) \in Nat /\ nextSeq \in 0..Width - 1
    BY SeqFacts DEF SendTypeOK, TasksOK, RunnerOK
  <1>1. t \in 1..Len(tasks) /\ outcome[t] = "none"
    <2>1. Waiting \in SUBSET Nat /\ Waiting # {}
      BY <1>0 DEF Waiting, Take
    <2>2. \E x \in Waiting : \A y \in Waiting : x <= y
      BY <2>1, LeastNat
    <2>3. t \in Waiting
      BY <2>2
    <2> QED
      BY <2>3 DEF Waiting
  <1>2. /\ running = 0 /\ UNCHANGED <<tasks, posts, upload, resource>>
        /\ \/ /\ Undeliverable(tasks[t]) /\ outcome' = [outcome EXCEPT ![t] = "failed"]
              /\ UNCHANGED <<running, work, nextSeq, messages>>
           \/ /\ ~Undeliverable(tasks[t]) /\ running' = t /\ Goes(FirstStep(tasks[t]))
              /\ outcome' = outcome
    BY DEF Take
  <1> HIDE DEF t
  <1>3. CASE Undeliverable(tasks[t]) /\ outcome' = [outcome EXCEPT ![t] = "failed"]
             /\ UNCHANGED <<running, work, nextSeq, messages>>
    <2>1. Skips
      BY <1>1, <1>2, <1>3 DEF Skips
    <2>2. TasksOK'
      BY <1>1, <1>2, <1>3, OutcomeOK DEF SendTypeOK
    <2>3. RunnerOK'
      BY <1>0, <1>2, <1>3 DEF SendTypeOK, RunnerOK, Width
    <2> QED
      BY <2>1, <2>2, <2>3
  <1>4. CASE ~Undeliverable(tasks[t]) /\ running' = t /\ Goes(FirstStep(tasks[t])) /\ outcome' = outcome
    <2> DEFINE step == FirstStep(tasks[t])
               start == [step EXCEPT !.tries = 1, !.seq = s]
    <2>1. TaskOK(tasks[t])
      BY <1>1 DEF SendTypeOK, TasksOK
    <2>2. ASSUME tasks[t].op = "send" PROVE step = SendFrom(tasks[t].segments)
      BY <2>2 DEF FirstStep
    <2>3. SendFrom(<<>>) = [at |-> "done", rest |-> <<>>, block |-> 0, generation |-> 0, tries |-> 1, seq |-> 0]
      BY DEF SendFrom, Upcoming
    <2>4. SendFrom(<<>>) \in WorkStates
      <3>1. <<>> \in Seq(STRING) /\ 0 \in 0..Width - 1 /\ "done" \in Places
        BY WidthFacts DEF Places
      <3> QED
        BY <2>3, <3>1, StartTyped
    <2>5. ASSUME tasks[t].op = "upload"
          PROVE  /\ start = [at |-> "prepare", rest |-> <<>>, block |-> 0, generation |-> 0, tries |-> 1, seq |-> s]
                 /\ step.at = "prepare"
      <3>1. step = [SendFrom(<<>>) EXCEPT !.at = "prepare"]
        BY <2>5 DEF FirstStep
      <3>2. "prepare" \in Places
        BY DEF Places, Uploading
      <3>3. [[SendFrom(<<>>) EXCEPT !.at = "prepare"] EXCEPT !.tries = 1, !.seq = s]
            = [at |-> "prepare", rest |-> SendFrom(<<>>).rest, block |-> SendFrom(<<>>).block,
               generation |-> SendFrom(<<>>).generation, tries |-> 1, seq |-> s]
        BY <2>4, AtFacts
      <3>4. step.at = "prepare"
        BY <2>3, <3>1
      <3> HIDE DEF step
      <3> QED
        BY <2>3, <3>1, <3>3, <3>4
    <2>6. ASSUME tasks[t].op = "single"
          PROVE  /\ start = [at |-> "single", rest |-> <<>>, block |-> 0, generation |-> 0, tries |-> 1, seq |-> s]
                 /\ step.at = "single"
      <3>1. step = [SendFrom(<<>>) EXCEPT !.at = "single"]
        BY <2>6 DEF FirstStep
      <3>2. "single" \in Places
        BY DEF Places
      <3>3. [[SendFrom(<<>>) EXCEPT !.at = "single"] EXCEPT !.tries = 1, !.seq = s]
            = [at |-> "single", rest |-> SendFrom(<<>>).rest, block |-> SendFrom(<<>>).block,
               generation |-> SendFrom(<<>>).generation, tries |-> 1, seq |-> s]
        BY <2>4, AtFacts
      <3>4. step.at = "single"
        BY <2>3, <3>1
      <3> HIDE DEF step
      <3> QED
        BY <2>3, <3>1, <3>3, <3>4
    <2>7. /\ Doing(tasks[t], start) /\ start.at = step.at /\ start.seq = s
          /\ start.at \notin (Uploading \ {"prepare"}) \cup {"media"}
          /\ tasks[t].op = "send" => start.rest = tasks[t].segments
      <3>1. CASE tasks[t].op = "send"
        <4>1. Doing(tasks[t], start)
          BY <1>0, <2>1, <2>2, <3>1, SendFromFacts DEF TaskOK
        <4>2. start = [at |-> Upcoming(tasks[t].segments), rest |-> tasks[t].segments, block |-> 0,
                       generation |-> 0, tries |-> 1, seq |-> s]
          BY <2>2, <3>1, StartRecord
        <4>3. step.at = Upcoming(tasks[t].segments)
          BY <2>2, <3>1 DEF SendFrom
        <4>4. Upcoming(tasks[t].segments) \in {"done", "unsupported", "text", "prepare"}
          BY DEF Upcoming
        <4> HIDE DEF start, step
        <4> QED
          BY <4>1, <4>2, <4>3, <4>4 DEF Uploading
      <3>2. CASE tasks[t].op = "upload"
        <4> HIDE DEF start, step
        <4> QED
          <5>1. "prepare" \in Places /\ <<>> \in Seq(STRING)
            BY DEF Places, Uploading
          <5>2. start \in WorkStates
            BY <1>0, <2>5, <3>2, <5>1, StartTyped
          <5>3. start.at = "prepare" /\ start.rest = <<>> /\ start.seq = s
            BY <2>5, <3>2
          <5> QED
            BY <2>5, <3>2, <5>2, <5>3 DEF Doing, Uploading
      <3>3. CASE tasks[t].op = "single"
        <4> HIDE DEF start, step
        <4> QED
          <5>1. "single" \in Places /\ <<>> \in Seq(STRING)
            BY DEF Places
          <5>2. start \in WorkStates
            BY <1>0, <2>6, <3>3, <5>1, StartTyped
          <5>3. start.at = "single" /\ start.seq = s
            BY <2>6, <3>3
          <5> QED
            BY <2>6, <3>3, <5>2, <5>3 DEF Doing, Uploading
      <3> QED
        BY <1>4, <2>1, <3>1, <3>2, <3>3 DEF TaskOK, Undeliverable
    <2>8. work' = start
      BY <1>4 DEF Goes
    <2>9. Goes(step)
      BY <1>4
    <2> HIDE DEF step
    <2>10. TasksOK' /\ RunnerOK'
      BY <1>1, <1>2, <1>4, <2>7, <2>9, GoesOK
    <2> HIDE DEF start
    <2>11. Counted
      BY <2>7, <2>8, <2>9, CountedFacts DEF SendTypeOK
    <2>12. Begins
      BY <1>1, <1>2, <1>4, <2>7, <2>8, <2>11 DEF Begins
    <2> QED
      BY <2>10, <2>12
  <1> QED
    BY <1>2, <1>3, <1>4

\* The runner goes on with its task.
LEMMA OnwardOK ==
  ASSUME SendTypeOK, running # 0, UNCHANGED <<tasks, outcome, running>>,
         NEW step, Goes(step), NEW start, start = [step EXCEPT !.tries = 1, !.seq = nextSeq],
         start.at = step.at, start.seq = nextSeq, start.rest = Left, Doing(tasks[running], start)
  PROVE  TasksOK' /\ RunnerOK' /\ Counted /\ work'.rest = Left /\ work' = start
  <1>1. running \in 1..Len(tasks) /\ outcome[running] = "none" /\ running' = running
    BY SeqFacts DEF SendTypeOK, RunnerOK, TasksOK
  <1>2. TasksOK' /\ RunnerOK'
    BY <1>1, GoesOK
  <1>3. work' = start
    BY DEF Goes
  <1>4. Counted
    BY <1>3, CountedFacts DEF SendTypeOK
  <1> QED
    BY <1>2, <1>3, <1>4

\* The runner stays at the image, or the upload, that it is at.
LEMMA OnwardImage ==
  ASSUME SendTypeOK, running # 0, UNCHANGED <<tasks, outcome, running>>, work.at \in Uploading,
         NEW step, Goes(step), NEW start \in WorkStates, start = [step EXCEPT !.tries = 1, !.seq = nextSeq],
         start.at = step.at, start.seq = nextSeq, start.rest = work.rest,
         start.at \in Uploading \cup {"media"}, start.at = "media" => work.rest # <<>>,
         start.at \in {"put", "part_finish"} =>
           start.generation \in 1..2 /\ start.block \in 1..Blocks(start.generation)
  PROVE  TasksOK' /\ RunnerOK' /\ Counted /\ work'.rest = Left /\ work' = start
  <1>1. Doing(tasks[running], work)
    BY DEF SendTypeOK, RunnerOK
  <1>2. Left = work.rest
    BY DEF Left, Uploading
  <1>3. CASE tasks[running].op = "upload"
    <2>1. work.rest = <<>>
      BY <1>1, <1>3 DEF Doing
    <2>2. Doing(tasks[running], start)
      BY <1>3, <2>1 DEF Doing
    <2> QED
      BY <1>2, <2>2, OnwardOK
  <1>4. CASE tasks[running].op = "send"
    <2>1. work.rest # <<>> /\ Head(work.rest) = "image"
      BY <1>1, <1>4 DEF Doing, Uploading
    <2>2. Doing(tasks[running], start)
      BY <1>4, <2>1 DEF Doing
    <2> QED
      BY <1>2, <2>2, OnwardOK
  <1>5. tasks[running].op \in {"upload", "send"}
    BY <1>1 DEF Doing, Uploading
  <1> QED
    BY <1>3, <1>4, <1>5

LEMMA OnwardAt ==
  ASSUME SendTypeOK, running # 0, UNCHANGED <<tasks, outcome, running>>, work.at \in Uploading,
         NEW p \in {"open", "collect", "part_finish", "exchange", "media"}, Goes(At(p)),
         p = "media" => work.rest # <<>>, p = "part_finish" => work.at = "put"
  PROVE  /\ TasksOK' /\ RunnerOK' /\ Counted /\ work'.rest = Left
         /\ work'.at = p /\ work'.block = work.block /\ work'.generation = work.generation
  <1> DEFINE start == [at |-> p, rest |-> work.rest, block |-> work.block, generation |-> work.generation,
                       tries |-> 1, seq |-> nextSeq]
  <1>1. Doing(tasks[running], work) /\ work \in WorkStates /\ nextSeq \in 0..Width - 1
    BY DEF SendTypeOK, RunnerOK, Doing
  <1>2. start = [At(p) EXCEPT !.tries = 1, !.seq = nextSeq]
    BY <1>1, AtFacts DEF At
  <1>3. At(p).at = p
    BY <1>1 DEF At, WorkStates
  <1>4. start \in WorkStates
    BY <1>1 DEF WorkStates, Places, Uploading
  <1>5. /\ start.at = p /\ start.rest = work.rest /\ start.seq = nextSeq
        /\ start.block = work.block /\ start.generation = work.generation
    OBVIOUS
  <1> HIDE DEF start
  <1>6. p = "part_finish" => work.generation \in 1..2 /\ work.block \in 1..Blocks(work.generation)
    BY <1>1 DEF Doing
  <1>7. p \in Uploading \cup {"media"} /\ p # "put"
    BY DEF Uploading
  <1> QED
    BY <1>2, <1>3, <1>4, <1>5, <1>6, <1>7, OnwardImage

LEMMA OnwardFirstBlock ==
  ASSUME SendTypeOK, running # 0, UNCHANGED <<tasks, outcome, running>>, work.at \in Uploading,
         NEW g \in 1..2, Goes([At("put") EXCEPT !.block = 1, !.generation = g])
  PROVE  /\ TasksOK' /\ RunnerOK' /\ Counted /\ work'.rest = Left
         /\ work'.at = "put" /\ work'.block = 1 /\ work'.generation = g
  <1> DEFINE start == [at |-> "put", rest |-> work.rest, block |-> 1, generation |-> g, tries |-> 1, seq |-> nextSeq]
             step == [At("put") EXCEPT !.block = 1, !.generation = g]
  <1>1. work \in WorkStates /\ nextSeq \in 0..Width - 1
    BY DEF SendTypeOK, RunnerOK, Doing
  <1>2. start = [step EXCEPT !.tries = 1, !.seq = nextSeq]
    <2>1. [[[work EXCEPT !.at = "put"] EXCEPT !.block = 1, !.generation = g] EXCEPT !.tries = 1, !.seq = nextSeq]
          = [at |-> "put", rest |-> work.rest, block |-> 1, generation |-> g, tries |-> 1, seq |-> nextSeq]
      BY <1>1, AtFirstBlock, Zenon
    <2> QED
      BY <2>1 DEF At
  <1>3. step.at = "put"
    BY <1>1 DEF At, WorkStates
  <1>4. start \in WorkStates
    BY <1>1 DEF WorkStates, Places, Uploading
  <1>5. /\ start.at = "put" /\ start.rest = work.rest /\ start.seq = nextSeq
        /\ start.block = 1 /\ start.generation = g
    OBVIOUS
  <1>6. Goes(step)
    OBVIOUS
  <1> HIDE DEF start, step
  <1>7. 1 \in 1..Blocks(g) /\ "put" \in Uploading
    BY DEF Blocks, Uploading
  <1> QED
    BY <1>2, <1>3, <1>4, <1>5, <1>6, <1>7, OnwardImage

LEMMA OnwardNextBlock ==
  ASSUME SendTypeOK, running # 0, UNCHANGED <<tasks, outcome, running>>, work.at = "part_finish",
         work.block < Blocks(work.generation), Goes([At("put") EXCEPT !.block = @ + 1])
  PROVE  /\ TasksOK' /\ RunnerOK' /\ Counted /\ work'.rest = Left
         /\ work'.at = "put" /\ work'.block = work.block + 1 /\ work'.generation = work.generation
  <1> DEFINE start == [at |-> "put", rest |-> work.rest, block |-> work.block + 1,
                       generation |-> work.generation, tries |-> 1, seq |-> nextSeq]
             step == [At("put") EXCEPT !.block = @ + 1]
  <1>1. work \in WorkStates /\ nextSeq \in 0..Width - 1 /\ Doing(tasks[running], work)
    BY DEF SendTypeOK, RunnerOK, Doing
  <1>2. start = [step EXCEPT !.tries = 1, !.seq = nextSeq]
    BY <1>1, AtNextBlock DEF At
  <1>3. step.at = "put"
    BY <1>1 DEF At, WorkStates
  <1>4. start \in WorkStates
    BY <1>1 DEF WorkStates, Places, Uploading
  <1>5. /\ start.at = "put" /\ start.rest = work.rest /\ start.seq = nextSeq
        /\ start.block = work.block + 1 /\ start.generation = work.generation
    OBVIOUS
  <1>6. Goes(step)
    OBVIOUS
  <1> HIDE DEF start, step
  <1>7. work.generation \in 1..2 /\ work.block + 1 \in 1..Blocks(work.generation) /\ "put" \in Uploading
    BY <1>1 DEF Doing, Blocks, Uploading
  <1>8. work.at \in Uploading
    BY DEF Uploading
  <1> QED
    BY <1>2, <1>3, <1>4, <1>5, <1>6, <1>7, <1>8, OnwardImage

\* From a part of the message that is sent to what follows it.
LEMMA OnwardSend ==
  ASSUME SendTypeOK, running # 0, UNCHANGED <<tasks, outcome, running>>, work.at \in Sending,
         Goes(SendFrom(Left))
  PROVE  /\ TasksOK' /\ RunnerOK' /\ Counted /\ work'.rest = Left
         /\ work'.at = Upcoming(Left)
  <1> DEFINE start == [SendFrom(Left) EXCEPT !.tries = 1, !.seq = nextSeq]
  <1>1. nextSeq \in 0..Width - 1 /\ Doing(tasks[running], work)
    BY DEF SendTypeOK, RunnerOK
  <1>2. tasks[running].op = "send" /\ work.rest \in Seq(STRING) /\ work.rest # <<>>
    BY <1>1 DEF Doing, WorkStates, Sending, Uploading
  <1>3. Left \in Seq(STRING)
    <2>1. AfterGroup(work.rest) \in Seq(STRING) /\ Tail(work.rest) \in Seq(STRING)
      BY <1>2, TextGroupFacts, HeadTailProperties
    <2> QED
      BY <1>2, <2>1 DEF Left
  <1>4. Doing(tasks[running], start)
    BY <1>1, <1>2, <1>3, SendFromFacts
  <1>5. start = [at |-> Upcoming(Left), rest |-> Left, block |-> 0, generation |-> 0, tries |-> 1, seq |-> nextSeq]
    BY StartRecord
  <1>6. SendFrom(Left).at = Upcoming(Left)
    BY DEF SendFrom
  <1>7. start.at = Upcoming(Left) /\ start.rest = Left /\ start.seq = nextSeq
    BY <1>5
  <1>8. start = [SendFrom(Left) EXCEPT !.tries = 1, !.seq = nextSeq]
    OBVIOUS
  <1> HIDE DEF start
  <1>9. TasksOK' /\ RunnerOK' /\ Counted /\ work'.rest = Left /\ work' = start
    BY <1>4, <1>6, <1>7, <1>8, OnwardOK
  <1> QED
    BY <1>7, <1>9

\* What follows a request that was answered well.
LEMMA ContinueMoves ==
  ASSUME SendTypeOK, Requesting, Continue, tasks' = tasks
  PROVE  /\ TasksOK' /\ RunnerOK'
         /\ \/ UNCHANGED <<outcome, running>> /\ work'.rest = Left /\ Counted
            \/ Ends("completed") /\ tasks[running].op # "send"
  <1>0. running # 0 /\ work.at \in Requests /\ Doing(tasks[running], work)
    BY DEF Requesting, SendTypeOK, RunnerOK
  <1>1. CASE work.at \in Sending
    <2>1. Goes(SendFrom(Left)) /\ UNCHANGED <<outcome, running>>
      BY <1>1 DEF Continue, Left, Sending
    <2> QED
      BY <1>0, <1>1, <2>1, OnwardSend
  <1>2. CASE work.at = "prepare"
    <2>1. Goes(At("open")) /\ UNCHANGED <<outcome, running>>
      BY <1>2 DEF Continue
    <2>2. "prepare" \in Uploading
      BY DEF Uploading
    <2> QED
      BY <1>0, <1>2, <2>1, <2>2, OnwardAt
  <1>3. CASE work.at = "part_finish" /\ work.block < Blocks(work.generation)
    <2>1. Goes([At("put") EXCEPT !.block = @ + 1]) /\ UNCHANGED <<outcome, running>>
      BY <1>3 DEF Continue
    <2> QED
      BY <1>0, <1>3, <2>1, OnwardNextBlock
  <1>4. CASE work.at = "part_finish" /\ ~(work.block < Blocks(work.generation))
    <2>1. Goes(At("exchange")) /\ UNCHANGED <<outcome, running>>
      BY <1>4 DEF Continue
    <2>2. "part_finish" \in Uploading
      BY DEF Uploading
    <2> QED
      BY <1>0, <1>4, <2>1, <2>2, OnwardAt
  <1>5. CASE work.at = "exchange" /\ work.rest # <<>>
    <2>1. Goes(At("media")) /\ UNCHANGED <<outcome, running>>
      BY <1>5 DEF Continue
    <2>2. "exchange" \in Uploading
      BY DEF Uploading
    <2> QED
      BY <1>0, <1>5, <2>1, <2>2, OnwardAt
  <1>6. CASE work.at = "single" \/ (work.at = "exchange" /\ work.rest = <<>>)
    <2>1. Ends("completed")
      BY <1>6 DEF Continue
    <2>2. tasks[running].op # "send"
      BY <1>0, <1>6 DEF Doing, Uploading
    <2> QED
      BY <1>0, <2>1, <2>2, EndsOK
  <1> QED
    BY <1>0, <1>1, <1>2, <1>3, <1>4, <1>5, <1>6 DEF Requests, Sending

\* A request that is repeated keeps all but the count of its attempts.
LEMMA RepeatFacts ==
  ASSUME RunnerOK, running # 0, work' = AnotherAttempt
  PROVE  /\ work' \in WorkStates
         /\ work'.at = work.at /\ work'.rest = work.rest /\ work'.seq = work.seq
         /\ work'.block = work.block /\ work'.generation = work.generation
  <1>1. work \in WorkStates
    BY DEF RunnerOK, Doing
  <1>2. work' = [work EXCEPT !.tries = work.tries + 1]
    BY DEF AnotherAttempt
  <1> QED
    BY <1>1, <1>2 DEF WorkStates

LEMMA RequestMoves ==
  ASSUME SendTypeOK, Request
  PROVE  (GoesOn \/ Repeats \/ Stops) /\ TasksOK' /\ RunnerOK'
  <1>1. Requesting /\ running # 0 /\ tasks' = tasks /\ resource' = resource
    BY DEF Request, Requesting
  <1>2. CASE Answered
    <2>1. Effect /\ Continue
      BY <1>2 DEF Answered
    <2>2. TasksOK' /\ RunnerOK'
      BY <1>1, <2>1, ContinueMoves
    <2>3. \/ UNCHANGED <<outcome, running>> /\ work'.rest = Left /\ Counted
          \/ Ends("completed") /\ tasks[running].op # "send"
      BY <1>1, <2>1, ContinueMoves
    <2> QED
      BY <1>1, <2>1, <2>2, <2>3 DEF GoesOn, Stops
  <1>3. CASE Lost /\ work' = AnotherAttempt /\ UNCHANGED <<outcome, running, nextSeq, messages>>
    <2>1. Effect \/ NoEffect
      BY <1>3 DEF Lost
    <2>2. Repeats
      BY <1>1, <1>3, <2>1 DEF Repeats
    <2>3. RunnerOK /\ TasksOK
      BY DEF SendTypeOK
    <2>4. Doing(tasks[running], work')
      BY <1>1, <1>3, <2>3, RepeatFacts DEF RunnerOK, Doing
    <2>5. TasksOK'
      BY <1>1, <1>3, <2>3 DEF TasksOK
    <2>6. RunnerOK'
      <3>1. Doing(tasks[running], work)'
        BY <1>1, <1>3, <2>4 DEF Doing, WorkStates, Width
      <3> QED
        BY <1>1, <1>3, <2>3, <3>1 DEF RunnerOK, Width
    <2> QED
      BY <2>2, <2>5, <2>6
  <1>4. CASE (Effect \/ NoEffect) /\ Ends("failed")
    <2>1. TasksOK' /\ RunnerOK'
      BY <1>1, <1>4, EndsOK
    <2>2. Stops
      BY <1>1, <1>4 DEF Stops
    <2> QED
      BY <2>1, <2>2
  <1> QED
    BY <1>2, <1>3, <1>4 DEF Request, Lost, Refused

\* The reads between the requests of an upload.
LEMMA ReadMoves ==
  ASSUME SendTypeOK, OpenDescriptor \/ Collect \/ PutBlock
  PROVE  (GoesOn \/ Stops) /\ TasksOK' /\ RunnerOK'
  <1>1. /\ running # 0 /\ work.at \in {"open", "collect", "put"} /\ work.at \in Uploading
        /\ UNCHANGED <<tasks, posts, upload, resource>>
    BY DEF OpenDescriptor, Collect, PutBlock, Uploading
  <1>2. ~Requesting /\ NoEffect
    BY <1>1 DEF Requesting, Requests, NoEffect
  <1>3. CASE Ends("failed")
    <2>1. TasksOK' /\ RunnerOK'
      BY <1>1, <1>3, EndsOK
    <2>2. Stops
      BY <1>1, <1>2, <1>3 DEF Stops
    <2> QED
      BY <2>1, <2>2
  <1>4. ASSUME UNCHANGED <<outcome, running>>, work'.rest = Left, Counted PROVE GoesOn
    BY <1>1, <1>2, <1>4 DEF GoesOn
  <1>5. CASE Goes(At("collect")) /\ UNCHANGED <<outcome, running>>
    BY <1>1, <1>4, <1>5, OnwardAt
  <1>6. CASE Goes(At("part_finish")) /\ UNCHANGED <<outcome, running>> /\ work.at = "put"
    BY <1>1, <1>4, <1>6, OnwardAt
  <1>7. CASE Goes([At("put") EXCEPT !.block = 1, !.generation = resource.generation]) /\ UNCHANGED <<outcome, running>>
    <2>1. resource.generation \in 1..2
      BY DEF SendTypeOK, ServerOK
    <2> QED
      BY <1>1, <1>4, <1>7, <2>1, OnwardFirstBlock
  <1> QED
    BY <1>3, <1>5, <1>6, <1>7 DEF OpenDescriptor, Collect, PutBlock, ReadResource

LEMMA FinishMoves ==
  ASSUME SendTypeOK, Finish
  PROVE  Stops /\ TasksOK' /\ RunnerOK'
  <1>1. /\ running # 0 /\ UNCHANGED <<tasks, posts, upload, resource>>
        /\ Ends(IF work.at = "done" THEN "completed" ELSE "failed")
    BY DEF Finish
  <1>2. PICK result \in {"completed", "failed"} : Ends(result) /\ (result = "completed" => work.at = "done")
    BY <1>1
  <1>3. TasksOK' /\ RunnerOK'
    BY <1>1, <1>2, EndsOK
  <1>4. Stops
    BY <1>1, <1>2 DEF Stops, NoEffect
  <1> QED
    BY <1>3, <1>4

LEMMA RunnerStep ==
  ASSUME SendTypeOK, Runner
  PROVE  RunnerMoves /\ TasksOK' /\ RunnerOK' /\ UNCHANGED <<tasks, resource>>
  <1>1. UNCHANGED <<tasks, resource>>
    BY DEF Runner, Take, Request, OpenDescriptor, Collect, PutBlock, Finish
  <1>2. CASE Take
    BY <1>1, <1>2, TakeMoves DEF RunnerMoves
  <1>3. CASE Request
    BY <1>1, <1>3, RequestMoves DEF RunnerMoves
  <1>4. CASE OpenDescriptor \/ Collect \/ PutBlock
    BY <1>1, <1>4, ReadMoves DEF RunnerMoves
  <1>5. CASE Finish
    BY <1>1, <1>5, FinishMoves DEF RunnerMoves
  <1> QED
    BY <1>2, <1>3, <1>4, <1>5 DEF Runner

-----------------------------------------------------------------------------
(* The steps of the flow, as the sender sees them.                         *)

SenderIdle == UNCHANGED <<running, work, nextSeq, messages, posts, upload>>
Submits ==
  /\ SenderIdle /\ resource' = resource
  /\ \E operation : TaskOK(operation) /\ Submitted(operation)
Elsewhere ==
  /\ SenderIdle /\ UNCHANGED <<tasks, outcome>>
  /\ resource' = resource \/ Replace
SendMoves == Submits \/ Elsewhere \/ (Runner /\ UNCHANGED resource)

LEMMA FlowMoves ==
  ASSUME SendTypeOK, [FlowNext]_flowVars
  PROVE  SendMoves
  <1>1. resource.generation \in 1..2
    BY DEF SendTypeOK, ServerOK
  <1>2. CASE (SubmitFrame \/ Runners) /\ UNCHANGED <<sendVars, origins>>
    BY <1>2 DEF SendMoves, Elsewhere, SenderIdle, sendVars
  <1>3. CASE Handle
    <2>1. SenderIdle /\ resource' = resource
      BY <1>3 DEF Handle, SenderIdle
    <2> DEFINE command == Head(handleTasks)
               message == Message(command.payload.target, command.payload.message, Answers[command.binding])
    <2>2. CASE command.binding \in DOMAIN Answers /\ Submitted(message)
      <3>1. Answers[command.binding] \in Seq(STRING)
        BY <2>2, AnswersAssumption
      <3>2. TaskOK(message)
        BY <1>1, <3>1 DEF TaskOK, Message
      <3> HIDE DEF message
      <3> QED
        BY <2>1, <2>2, <3>2 DEF SendMoves, Submits
    <2>3. CASE UNCHANGED <<tasks, outcome>>
      BY <2>1, <2>3 DEF SendMoves, Elsewhere
    <2> QED
      BY <1>3, <2>2, <2>3 DEF Handle, AnswerTo
  <1>4. CASE SubmitOther
    <2>1. SenderIdle /\ resource' = resource
      BY <1>4 DEF SubmitOther, SenderIdle
    <2>2. PICK operation \in OtherOperations : Submitted(operation)
      BY <1>4 DEF SubmitOther
    <2>3. TaskOK(operation)
      BY <1>1, <2>2 DEF OtherOperations, TaskOK, MediaUpload, SingleRequest, Malformed
    <2> QED
      BY <2>1, <2>2, <2>3 DEF SendMoves, Submits
  <1>5. CASE Runner
    BY <1>5 DEF SendMoves, Runner, Take, Request, OpenDescriptor, Collect, PutBlock, Finish
  <1>6. CASE Replace
    BY <1>6 DEF SendMoves, Elsewhere, SenderIdle, Replace
  <1>7. CASE UNCHANGED flowVars
    BY <1>7 DEF SendMoves, Elsewhere, SenderIdle, flowVars, sendVars
  <1> QED
    BY <1>2, <1>3, <1>4, <1>5, <1>6, <1>7 DEF FlowNext

LEMMA SubmittedFacts ==
  ASSUME TasksOK, NEW operation, Submitted(operation)
  PROVE  /\ IsSeq(tasks') /\ IsSeq(outcome')
         /\ Len(tasks) \in Nat /\ Len(tasks') = Len(tasks) + 1 /\ Len(outcome') = Len(tasks) + 1
         /\ \A t \in 1..Len(tasks) : tasks'[t] = tasks[t] /\ outcome'[t] = outcome[t]
         /\ tasks'[Len(tasks) + 1] = operation /\ outcome'[Len(tasks) + 1] = "none"
  <1>1. tasks' = Append(tasks, operation) /\ outcome' = Append(outcome, "none")
    BY DEF Submitted
  <1>2. IsSeq(tasks) /\ IsSeq(outcome) /\ Len(outcome) = Len(tasks) /\ Len(tasks) \in Nat
    BY SeqFacts DEF TasksOK
  <1> QED
    BY <1>1, <1>2, AppendFacts

LEMMA SubmitsType ==
  ASSUME SendTypeOK, Submits
  PROVE  SendTypeOK'
  <1>1. PICK operation : TaskOK(operation) /\ Submitted(operation)
    BY DEF Submits
  <1>2. /\ IsSeq(tasks') /\ IsSeq(outcome')
        /\ Len(tasks) \in Nat /\ Len(tasks') = Len(tasks) + 1 /\ Len(outcome') = Len(tasks) + 1
        /\ \A t \in 1..Len(tasks) : tasks'[t] = tasks[t] /\ outcome'[t] = outcome[t]
        /\ tasks'[Len(tasks) + 1] = operation /\ outcome'[Len(tasks) + 1] = "none"
    BY <1>1, SubmittedFacts DEF SendTypeOK
  <1>3. \A t \in 1..Len(tasks) : TaskOK(tasks[t]) /\ outcome[t] \in {"none", "completed", "failed"}
    BY DEF SendTypeOK, TasksOK
  <1>4. ASSUME NEW t \in 1..Len(tasks')
        PROVE  TaskOK(tasks'[t]) /\ outcome'[t] \in {"none", "completed", "failed"}
    <2>1. t \in 1..Len(tasks) \/ t = Len(tasks) + 1
      BY <1>2
    <2> QED
      BY <1>1, <1>2, <1>3, <2>1
  <1>5. TasksOK'
    <2>1. \A t \in 1..Len(tasks') : TaskOK(tasks[t])'
      BY <1>4 DEF TaskOK
    <2> QED
      BY <1>2, <1>4, <2>1 DEF TasksOK
  <1>6. RunnerOK'
    <2>1. running \in 0..Len(tasks) /\ UNCHANGED <<running, work, nextSeq, messages>>
      BY DEF SendTypeOK, RunnerOK, Submits, SenderIdle
    <2>2. running # 0 => tasks'[running] = tasks[running] /\ outcome'[running] = outcome[running]
      BY <1>2, <2>1
    <2>3. running # 0 => Doing(tasks[running], work)'
      BY <2>1, <2>2 DEF SendTypeOK, RunnerOK, Doing, WorkStates, Width
    <2> QED
      BY <1>2, <2>1, <2>2, <2>3 DEF SendTypeOK, RunnerOK, Width
  <1>7. ServerOK'
    BY DEF SendTypeOK, ServerOK, Submits, SenderIdle
  <1> QED
    BY <1>5, <1>6, <1>7 DEF SendTypeOK

\* What a request leaves at the server.
NewPost == posts' = Append(posts, Post) /\ work.at \in Sending /\ (posts = <<>> \/ Last(posts) # Post)
SamePosts == posts' = posts

LEMMA PostsChange ==
  ASSUME IsSeq(posts), Effect \/ NoEffect
  PROVE  /\ NewPost \/ SamePosts
         /\ IsSeq(posts') /\ Len(posts) \in Nat
         /\ \A i \in 1..Len(posts) : posts'[i] = posts[i]
         /\ NewPost => Len(posts') = Len(posts) + 1 /\ posts'[Len(posts) + 1] = Post
  <1>1. NewPost \/ SamePosts
    BY DEF Effect, NoEffect, NewPost, SamePosts
  <1>2. Len(posts) \in Nat
    BY SeqFacts
  <1>3. CASE NewPost
    BY <1>1, <1>2, <1>3, AppendFacts DEF NewPost
  <1>4. CASE ~NewPost
    BY <1>1, <1>2, <1>4 DEF SamePosts
  <1> QED
    BY <1>3, <1>4, <1>1, <1>2

LEMMA EffectType ==
  ASSUME SendTypeOK, running # 0, Effect \/ NoEffect, resource' = resource
  PROVE  ServerOK'
  <1>1. IsSeq(posts')
    BY PostsChange DEF SendTypeOK, ServerOK
  <1>2. upload' \in [generation : 0..2, parts : 0..2, finished : SUBSET (1..2)]
    <2>1. upload \in [generation : 0..2, parts : 0..2, finished : SUBSET (1..2)]
      BY DEF SendTypeOK, ServerOK
    <2>2. CASE upload' = upload
      BY <2>1, <2>2
    <2>3. CASE work.at = "prepare" /\ Effect
      <3>1. PICK n \in 0..2 : upload' = [NoImage EXCEPT !.parts = n]
        BY <2>3 DEF Effect, Blocks
      <3> QED
        BY <3>1 DEF NoImage
    <2>4. CASE work.at = "part_finish" /\ Effect
      <3>1. upload' = [upload EXCEPT !.finished = upload.finished \cup {work.block}, !.generation = work.generation]
        BY <2>4 DEF Effect
      <3>2. work.generation \in 1..2 /\ work.block \in 1..Blocks(work.generation)
        BY <2>4 DEF SendTypeOK, RunnerOK, Doing
      <3>3. work.block \in 1..2 /\ work.generation \in 0..2
        BY <3>2 DEF Blocks
      <3> QED
        BY <2>1, <3>1, <3>3
    <2> QED
      BY <2>2, <2>3, <2>4 DEF Effect, NoEffect
  <1> QED
    BY <1>1, <1>2 DEF SendTypeOK, ServerOK

LEMMA ElsewhereType ==
  ASSUME SendTypeOK, Elsewhere
  PROVE  SendTypeOK'
  <1>1. UNCHANGED <<tasks, outcome, running, work, nextSeq, messages, posts, upload>>
    BY DEF Elsewhere, SenderIdle
  <1>2. TasksOK'
    BY <1>1 DEF SendTypeOK, TasksOK, TaskOK
  <1>3. RunnerOK'
    BY <1>1 DEF SendTypeOK, RunnerOK, Doing, WorkStates, Width
  <1>4. ServerOK'
    <2>1. CASE resource' = resource
      BY <1>1, <2>1 DEF SendTypeOK, ServerOK
    <2>2. CASE Replace
      <3>1. resource' = [resource EXCEPT !.generation = 2]
        BY <2>2 DEF Replace
      <3> QED
        BY <1>1, <3>1 DEF SendTypeOK, ServerOK
    <2> QED
      BY <2>1, <2>2 DEF Elsewhere
  <1> QED
    BY <1>2, <1>3, <1>4 DEF SendTypeOK

LEMMA RunnerType ==
  ASSUME SendTypeOK, Runner
  PROVE  SendTypeOK'
  <1>1. RunnerMoves /\ TasksOK' /\ RunnerOK' /\ UNCHANGED <<tasks, resource>>
    BY RunnerStep
  <1>2. ServerOK'
    <2>1. CASE Begins \/ Skips
      BY <1>1, <2>1 DEF SendTypeOK, ServerOK, Begins, Skips
    <2>2. CASE GoesOn \/ Repeats \/ Stops
      BY <1>1, <2>2, EffectType DEF GoesOn, Repeats, Stops, Requesting
    <2> QED
      BY <1>1, <2>1, <2>2 DEF RunnerMoves
  <1> QED
    BY <1>1, <1>2 DEF SendTypeOK

LEMMA FlowTypeStep ==
  ASSUME SendTypeOK, [FlowNext]_flowVars
  PROVE  SendTypeOK'
  BY FlowMoves, SubmitsType, ElsewhereType, RunnerType DEF SendMoves

LEMMA FlowTypeInit == FlowInit => SendTypeOK
  <1> SUFFICES ASSUME FlowInit PROVE SendTypeOK
    OBVIOUS
  <1>1. IsSeq(<<>>) /\ Len(<<>>) = 0
    BY DEF IsSeq
  <1>2. TasksOK
    BY <1>1 DEF FlowInit, SendInit, TasksOK
  <1>3. RunnerOK
    BY <1>1, SendAssumption DEF FlowInit, SendInit, RunnerOK, Width
  <1>4. ServerOK
    BY <1>1, SendAssumption DEF FlowInit, SendInit, ServerOK, NoImage
  <1> QED
    BY <1>2, <1>3, <1>4 DEF SendTypeOK

\* The runner is at a task that has not ended, at a place that a task of its kind
\* has and with a part left that fits the place; the server knows of no block
\* that an image does not have (tasks/mod.rs, api/service.rs, media.rs).
THEOREM SendTyped == FlowSpec => []SendTypeOK
  <1>1. FlowInit => SendTypeOK
    BY FlowTypeInit
  <1>2. SendTypeOK /\ [FlowNext]_flowVars => SendTypeOK'
    BY FlowTypeStep
  <1> QED
    BY <1>1, <1>2, PTL DEF FlowSpec

-----------------------------------------------------------------------------
(* RepeatsRecognised.                                                      *)

\* b is n messages after a, and the counter may have wrapped once between them.
Follows(a, n, b) == a + n = b \/ a + n = b + Width

\* The msg_seq of a post tells how many messages before the next one it was begun,
\* as long as the counter has not gone all the way round.
PostNumbered(p) ==
  /\ p.seq \in 0..Width - 1 /\ p.nth \in 1..messages
  /\ messages < p.nth + Width => Follows(p.seq, messages - p.nth + 1, nextSeq)
Apart(p, q) == p.nth <= q.nth /\ q.nth < p.nth + Width => Follows(p.seq, q.nth - p.nth, q.seq)
NumberInv(ps) ==
  /\ \A i \in 1..Len(ps) : PostNumbered(ps[i])
  /\ \A i, j \in 1..Len(ps) : Apart(ps[i], ps[j])
WorkNumbered ==
  running # 0 /\ work.at \in Sending => messages >= 1 /\ Follows(work.seq, 1, nextSeq)

\* A post belongs to the part the runner is at exactly if it was begun last; the parts
\* of a task are sent from the first to the last, and no part is begun twice.
PostPlaced(p) ==
  /\ p.task \in 1..Len(tasks) /\ p.left \in Nat
  /\ p.task # running => outcome[p.task] # "none"
  /\ running # 0 /\ p.task = running =>
       /\ p.left >= Len(work.rest)
       /\ work.at \notin Sending => p.left > Len(work.rest)
  /\ running # 0 /\ work.at \in Sending =>
       (p.nth = messages <=> p.task = running /\ p.left = Len(work.rest))
SamePart(p, q) == p.task = q.task /\ p.left = q.left
PartsInv(ps) ==
  /\ \A i \in 1..Len(ps) : PostPlaced(ps[i])
  /\ \A i, j \in 1..Len(ps) : ps[i].nth = ps[j].nth <=> SamePart(ps[i], ps[j])

RepeatInv == NumberInv(posts) /\ WorkNumbered /\ PartsInv(posts)

LEMMA FollowsBack ==
  ASSUME NEW a \in 0..Width - 1, NEW b \in 0..Width - 1, NEW c \in 0..Width - 1,
         NEW n \in 0..Width - 1, Follows(a, n + 1, c), Follows(b, 1, c)
  PROVE  Follows(a, n, b)
  BY WidthFacts DEF Follows

\* A post that the request at hand adds is numbered and placed like the others.
LEMMA PostAdded ==
  ASSUME SendTypeOK, RepeatInv, running # 0, Effect \/ NoEffect
  PROVE  NumberInv(posts') /\ PartsInv(posts')
  <1>1. /\ NewPost \/ SamePosts
        /\ Len(posts) \in Nat
        /\ \A i \in 1..Len(posts) : posts'[i] = posts[i]
        /\ NewPost => Len(posts') = Len(posts) + 1 /\ posts'[Len(posts) + 1] = Post
    BY PostsChange DEF SendTypeOK, ServerOK
  <1>2. CASE SamePosts
    BY <1>2 DEF SamePosts, RepeatInv
  <1>3. CASE NewPost
    <2>1. work.at \in Sending /\ work \in WorkStates
      BY <1>3 DEF NewPost, SendTypeOK, RunnerOK, Doing
    <2>2. Len(work.rest) \in Nat /\ running \in 1..Len(tasks)
      BY <2>1, SeqFacts DEF WorkStates, SendTypeOK, RunnerOK, TasksOK
    <2>3. Post.nth = messages /\ Post.seq = work.seq /\ Post.task = running /\ Post.left = Len(work.rest)
      BY DEF Post
    <2>4. /\ work.seq \in 0..Width - 1 /\ messages \in Nat /\ nextSeq \in 0..Width - 1 /\ Width \in Nat
          /\ messages >= 1 /\ Follows(work.seq, 1, nextSeq)
      BY <2>1, WidthFacts DEF SendTypeOK, RunnerOK, WorkStates, RepeatInv, WorkNumbered
    <2>5. PostNumbered(Post)
      BY <2>3, <2>4 DEF PostNumbered, Follows
    <2>6. PostPlaced(Post)
      BY <2>1, <2>2, <2>3 DEF PostPlaced
    <2>7. ASSUME NEW p, PostNumbered(p) PROVE Apart(p, Post) /\ Apart(Post, p)
      <3>1. p.seq \in 0..Width - 1 /\ p.nth \in 1..messages
        BY <2>7 DEF PostNumbered
      <3>2. ASSUME messages < p.nth + Width PROVE Follows(p.seq, messages - p.nth, work.seq)
        <4>1. Follows(p.seq, messages - p.nth + 1, nextSeq) /\ messages - p.nth \in 0..Width - 1
          BY <2>4, <2>7, <3>1, <3>2 DEF PostNumbered
        <4> QED
          BY <2>4, <3>1, <4>1, FollowsBack
      <3>3. ASSUME p.nth = messages PROVE Follows(work.seq, 0, p.seq)
        <4>1. messages - p.nth = 0 /\ messages < p.nth + Width
          BY <2>4, <3>3, WidthFacts
        <4>2. Follows(p.seq, 0, work.seq)
          BY <3>2, <4>1
        <4> QED
          BY <2>4, <3>1, <4>2 DEF Follows
      <3>4. Apart(p, Post)
        BY <2>3, <3>2 DEF Apart
      <3>5. Apart(Post, p)
        <4> SUFFICES ASSUME messages <= p.nth PROVE Follows(work.seq, p.nth - messages, p.seq)
          BY <2>3 DEF Apart
        <4>1. p.nth = messages /\ p.nth - messages = 0
          BY <2>4, <3>1
        <4> QED
          BY <3>3, <4>1
      <3> QED
        BY <3>4, <3>5
    <2>8. Apart(Post, Post)
      BY <2>3, <2>4 DEF Apart, Follows
    <2>9. ASSUME NEW p, PostPlaced(p)
          PROVE  (p.nth = Post.nth <=> SamePart(p, Post)) /\ (Post.nth = p.nth <=> SamePart(Post, p))
      BY <2>1, <2>2, <2>3, <2>9 DEF PostPlaced, SamePart
    <2>10. \A i \in 1..Len(posts') : (i \in 1..Len(posts) /\ posts'[i] = posts[i]) \/ posts'[i] = Post
      BY <1>1, <1>3
    <2>11. \A i \in 1..Len(posts) : PostNumbered(posts[i]) /\ PostPlaced(posts[i])
      BY DEF RepeatInv, NumberInv, PartsInv
    <2>12. NumberInv(posts')
      BY <2>5, <2>7, <2>8, <2>10, <2>11 DEF RepeatInv, NumberInv
    <2>13. PartsInv(posts')
      <3>1. SamePart(Post, Post)
        BY DEF SamePart
      <3> QED
        BY <2>6, <2>9, <2>10, <2>11, <3>1 DEF RepeatInv, PartsInv
    <2> QED
      BY <2>12, <2>13
  <1> QED
    BY <1>1, <1>2, <1>3

LEMMA FollowsOn ==
  ASSUME NEW a \in 0..Width - 1, NEW n \in 0..Width - 1, NEW c \in 0..Width - 1, Follows(a, n, c),
         NEW d, d = c + 1 \/ (d = 0 /\ c + 1 = Width)
  PROVE  Follows(a, n + 1, d)
  BY WidthFacts DEF Follows

\* Less is left after a part of the message than before it.
LEMMA LeftFacts ==
  ASSUME RunnerOK, running # 0
  PROVE  /\ Len(Left) \in Nat /\ Len(work.rest) \in Nat
         /\ work.at \in Sending => Len(Left) < Len(work.rest)
         /\ work.at \notin Sending => Left = work.rest
  <1>1. Doing(tasks[running], work) /\ work.rest \in Seq(STRING)
    BY DEF RunnerOK, Doing, WorkStates
  <1>2. CASE work.at = "text"
    <2>1. TextGroup(work.rest) # <<>> /\ TextGroup(work.rest) \in Seq(STRING) /\ AfterGroup(work.rest) \in Seq(STRING)
          /\ Len(work.rest) = Len(TextGroup(work.rest)) + Len(AfterGroup(work.rest))
      BY <1>1, <1>2, TextGroupFacts DEF Doing, Uploading
    <2>2. Left = AfterGroup(work.rest) /\ Len(TextGroup(work.rest)) # 0
      BY <1>2, <2>1 DEF Left
    <2> QED
      BY <1>1, <1>2, <2>1, <2>2 DEF Sending
  <1>3. CASE work.at = "media"
    <2>1. work.rest # <<>> /\ Left = Tail(work.rest)
      BY <1>1, <1>3 DEF Doing, Uploading, Left
    <2>2. Len(Tail(work.rest)) = Len(work.rest) - 1 /\ Len(work.rest) # 0
      BY <1>1, <2>1, HeadTailProperties
    <2> QED
      BY <1>1, <1>3, <2>1, <2>2 DEF Sending
  <1>4. CASE work.at \notin {"text", "media"}
    BY <1>1, <1>4 DEF Left, Sending
  <1> QED
    BY <1>2, <1>3, <1>4

LEMMA NumberOnward ==
  ASSUME SendTypeOK, Counted, NEW p, PostNumbered(p)
  PROVE  /\ p.nth \in 1..messages' /\ p.nth \in 1..messages
         /\ messages' < p.nth + Width => Follows(p.seq, messages' - p.nth + 1, nextSeq')
         /\ work'.at \in Sending => messages' >= 1 /\ p.nth # messages' /\ Follows(work'.seq, 1, nextSeq')
  <1>1. p.seq \in 0..Width - 1 /\ p.nth \in 1..messages /\ messages \in Nat /\ nextSeq \in 0..Width - 1 /\ Width \in Nat
    BY WidthFacts DEF PostNumbered, SendTypeOK, RunnerOK
  <1>2. CASE work'.at \in Sending
    <2>1. /\ messages' = messages + 1 /\ work'.seq = nextSeq
          /\ nextSeq' = nextSeq + 1 \/ (nextSeq' = 0 /\ nextSeq + 1 = Width)
      BY <1>2 DEF Counted
    <2>2. ASSUME messages + 1 < p.nth + Width PROVE Follows(p.seq, messages + 1 - p.nth + 1, nextSeq')
      <3>1. messages < p.nth + Width /\ messages - p.nth + 1 \in 0..Width - 1
        BY <1>1, <2>2
      <3>2. Follows(p.seq, messages - p.nth + 1, nextSeq)
        BY <3>1 DEF PostNumbered
      <3>3. Follows(p.seq, messages - p.nth + 1 + 1, nextSeq')
        BY <1>1, <2>1, <3>1, <3>2, FollowsOn
      <3> QED
        BY <1>1, <3>3
    <2>3. Follows(nextSeq, 1, nextSeq')
      BY <1>1, <2>1 DEF Follows
    <2> QED
      BY <1>1, <1>2, <2>1, <2>2, <2>3
  <1>3. CASE work'.at \notin Sending
    BY <1>1, <1>3 DEF Counted, PostNumbered
  <1> QED
    BY <1>2, <1>3

LEMMA WorkNumberedNext ==
  ASSUME SendTypeOK, Counted
  PROVE  WorkNumbered'
  <1>1. messages \in Nat /\ nextSeq \in 0..Width - 1 /\ Width \in Nat
    BY WidthFacts DEF SendTypeOK, RunnerOK
  <1>2. work'.at \in Sending => messages' >= 1 /\ Follows(work'.seq, 1, nextSeq')
    BY <1>1 DEF Counted, Follows
  <1> QED
    BY <1>2 DEF WorkNumbered, Follows, Width

\* What is to be shown of the posts that are there after a step.
LEMMA NumberNext ==
  ASSUME NumberInv(posts'),
         \A i \in 1..Len(posts') :
           /\ posts'[i].nth \in 1..messages'
           /\ messages' < posts'[i].nth + Width => Follows(posts'[i].seq, messages' - posts'[i].nth + 1, nextSeq')
  PROVE  NumberInv(posts)'
  BY DEF NumberInv, PostNumbered, Apart, Follows, Width

LEMMA PartsNext ==
  ASSUME PartsInv(posts'), tasks' = tasks,
         \A i \in 1..Len(posts') :
           /\ posts'[i].task # running' => outcome'[posts'[i].task] # "none"
           /\ running' # 0 /\ posts'[i].task = running' =>
                /\ posts'[i].left >= Len(work'.rest)
                /\ work'.at \notin Sending => posts'[i].left > Len(work'.rest)
           /\ running' # 0 /\ work'.at \in Sending =>
                (posts'[i].nth = messages' <=> posts'[i].task = running' /\ posts'[i].left = Len(work'.rest))
  PROVE  PartsInv(posts)'
  BY DEF PartsInv, PostPlaced, SamePart

LEMMA RepeatBegins ==
  ASSUME SendTypeOK, RepeatInv, Begins, tasks' = tasks
  PROVE  RepeatInv'
  <1>1. posts' = posts /\ running = 0 /\ outcome' = outcome /\ Counted /\ outcome[running'] = "none"
    BY DEF Begins
  <1>2. NumberInv(posts') /\ PartsInv(posts')
    BY <1>1 DEF RepeatInv
  <1>3. NumberInv(posts)'
    BY <1>1, <1>2, NumberOnward, NumberNext DEF NumberInv
  <1>4. PartsInv(posts)'
    <2>1. ASSUME NEW i \in 1..Len(posts')
          PROVE  posts'[i].task # running' /\ outcome'[posts'[i].task] # "none" /\
                 (work'.at \in Sending => posts'[i].nth # messages')
      <3>1. PostPlaced(posts'[i]) /\ PostNumbered(posts'[i])
        BY <1>2 DEF NumberInv, PartsInv
      <3>2. posts'[i].task # 0
        BY <3>1, SeqFacts DEF PostPlaced, SendTypeOK, TasksOK
      <3> QED
        BY <1>1, <3>1, <3>2, NumberOnward DEF PostPlaced
    <2> QED
      BY <1>2, <2>1, PartsNext
  <1> QED
    BY <1>1, <1>3, <1>4, WorkNumberedNext DEF RepeatInv

LEMMA RepeatSkips ==
  ASSUME SendTypeOK, RepeatInv, Skips, tasks' = tasks
  PROVE  RepeatInv'
  <1>1. posts' = posts /\ running = 0 /\ running' = 0 /\ UNCHANGED <<nextSeq, messages>>
    BY DEF Skips
  <1>2. PICK t \in 1..Len(tasks) : outcome' = [outcome EXCEPT ![t] = "failed"]
    BY DEF Skips
  <1>3. \A u \in 1..Len(tasks) : outcome[u] # "none" => outcome'[u] # "none"
    BY <1>2, SeqFacts DEF SendTypeOK, TasksOK
  <1>4. NumberInv(posts)'
    BY <1>1, NumberNext DEF RepeatInv, NumberInv, PostNumbered
  <1>5. PartsInv(posts)'
    <2>1. ASSUME NEW i \in 1..Len(posts') PROVE outcome'[posts'[i].task] # "none"
      <3>1. PostPlaced(posts[i]) /\ posts[i].task # 0
        BY <1>1, <2>1, SeqFacts DEF RepeatInv, PartsInv, PostPlaced, SendTypeOK, TasksOK
      <3> QED
        BY <1>1, <1>3, <3>1 DEF PostPlaced
    <2> QED
      BY <1>1, <2>1, PartsNext DEF RepeatInv
  <1> QED
    BY <1>1, <1>4, <1>5 DEF RepeatInv, WorkNumbered

LEMMA RepeatGoesOn ==
  ASSUME SendTypeOK, RepeatInv, GoesOn, tasks' = tasks
  PROVE  RepeatInv'
  <1>1. /\ running # 0 /\ running' = running /\ outcome' = outcome
        /\ work'.rest = Left /\ Counted /\ (Effect \/ NoEffect)
    BY DEF GoesOn
  <1>2. NumberInv(posts') /\ PartsInv(posts')
    BY <1>1, PostAdded
  <1>3. NumberInv(posts)'
    BY <1>1, <1>2, NumberOnward, NumberNext DEF NumberInv
  <1>4. PartsInv(posts)'
    <2>1. /\ Len(Left) \in Nat /\ Len(work.rest) \in Nat
          /\ work.at \in Sending => Len(Left) < Len(work.rest)
          /\ work.at \notin Sending => Left = work.rest
      BY <1>1, LeftFacts DEF SendTypeOK
    <2>2. ASSUME NEW i \in 1..Len(posts')
          PROVE  /\ posts'[i].task # running => outcome'[posts'[i].task] # "none"
                 /\ posts'[i].task = running => posts'[i].left > Len(work'.rest) /\ posts'[i].left >= Len(work'.rest)
                 /\ work'.at \in Sending => posts'[i].nth # messages'
      <3>1. PostPlaced(posts'[i]) /\ PostNumbered(posts'[i])
        BY <1>2 DEF NumberInv, PartsInv
      <3>2. work'.at \in Sending => posts'[i].nth # messages'
        BY <1>1, <3>1, NumberOnward
      <3>3. posts'[i].task = running => posts'[i].left > Len(Left) /\ posts'[i].left >= Len(Left)
        BY <1>1, <2>1, <3>1 DEF PostPlaced
      <3> QED
        BY <1>1, <3>1, <3>2, <3>3 DEF PostPlaced
    <2>3. \A i \in 1..Len(posts') : posts'[i].left \in Nat
      BY <1>2 DEF PartsInv, PostPlaced
    <2>4. Len(work'.rest) \in Nat
      BY <1>1, <2>1
    <2> QED
      BY <1>1, <1>2, <2>2, <2>3, <2>4, PartsNext
  <1> QED
    BY <1>1, <1>3, <1>4, WorkNumberedNext DEF RepeatInv

LEMMA RepeatRepeats ==
  ASSUME SendTypeOK, RepeatInv, Repeats, tasks' = tasks
  PROVE  RepeatInv'
  <1>1. /\ running # 0 /\ UNCHANGED <<outcome, running, nextSeq, messages>> /\ (Effect \/ NoEffect)
        /\ work' = AnotherAttempt
    BY DEF Repeats, Requesting
  <1>2. NumberInv(posts') /\ PartsInv(posts')
    BY <1>1, PostAdded
  <1>3. work'.at = work.at /\ work'.rest = work.rest /\ work'.seq = work.seq
    BY <1>1, RepeatFacts DEF SendTypeOK
  <1>4. NumberInv(posts)'
    BY <1>1, <1>2, NumberNext DEF NumberInv, PostNumbered
  <1>5. PartsInv(posts)'
    <2>1. \A i \in 1..Len(posts') : PostPlaced(posts'[i])
      BY <1>2 DEF PartsInv
    <2> QED
      BY <1>1, <1>2, <1>3, <2>1, PartsNext DEF PostPlaced
  <1>6. WorkNumbered'
    BY <1>1, <1>3 DEF RepeatInv, WorkNumbered, Follows, Width
  <1> QED
    BY <1>4, <1>5, <1>6 DEF RepeatInv

LEMMA RepeatStops ==
  ASSUME SendTypeOK, RepeatInv, Stops, tasks' = tasks
  PROVE  RepeatInv'
  <1>1. running # 0 /\ (Effect \/ NoEffect)
    BY DEF Stops
  <1>2. PICK result \in {"completed", "failed"} : Ends(result)
    BY DEF Stops
  <1>3. running' = 0 /\ UNCHANGED <<nextSeq, messages>> /\ outcome' = [outcome EXCEPT ![running] = result]
    BY <1>2 DEF Ends
  <1>4. NumberInv(posts') /\ PartsInv(posts')
    BY <1>1, PostAdded
  <1>5. NumberInv(posts)'
    BY <1>3, <1>4, NumberNext DEF NumberInv, PostNumbered
  <1>6. PartsInv(posts)'
    <2>1. \A u \in 1..Len(tasks) : u = running \/ outcome[u] # "none" => outcome'[u] # "none"
      BY <1>2, <1>3, SeqFacts DEF SendTypeOK, TasksOK
    <2>2. ASSUME NEW i \in 1..Len(posts')
          PROVE  outcome'[posts'[i].task] # "none" /\ posts'[i].task # 0
      <3>1. PostPlaced(posts'[i]) /\ Len(tasks) \in Nat
        BY <1>4, SeqFacts DEF PartsInv, SendTypeOK, TasksOK
      <3> QED
        BY <2>1, <3>1 DEF PostPlaced
    <2> QED
      BY <1>3, <1>4, <2>2, PartsNext
  <1> QED
    BY <1>3, <1>5, <1>6 DEF RepeatInv, WorkNumbered

LEMMA RepeatElsewhere ==
  ASSUME SendTypeOK, RepeatInv, Submits \/ Elsewhere
  PROVE  RepeatInv'
  <1>1. SenderIdle
    BY DEF Submits, Elsewhere
  <1>2. /\ Len(tasks) \in Nat /\ 1..Len(tasks) \subseteq 1..Len(tasks')
        /\ \A t \in 1..Len(tasks) : outcome'[t] = outcome[t]
    <2>1. CASE Elsewhere
      BY <2>1, SeqFacts DEF Elsewhere, SendTypeOK, TasksOK
    <2>2. CASE Submits
      <3>1. PICK operation : Submitted(operation)
        BY <2>2 DEF Submits
      <3>2. /\ Len(tasks) \in Nat /\ Len(tasks') = Len(tasks) + 1
            /\ \A t \in 1..Len(tasks) : outcome'[t] = outcome[t]
        BY <3>1, SubmittedFacts DEF SendTypeOK
      <3> QED
        BY <3>2
    <2> QED
      BY <2>1, <2>2
  <1>3. NumberInv(posts)' /\ WorkNumbered'
    BY <1>1 DEF RepeatInv, NumberInv, PostNumbered, Apart, Follows, Width, WorkNumbered, SenderIdle
  <1>4. PartsInv(posts)'
    BY <1>1, <1>2 DEF RepeatInv, PartsInv, PostPlaced, SamePart, SenderIdle
  <1> QED
    BY <1>3, <1>4 DEF RepeatInv

LEMMA RepeatStep ==
  ASSUME SendTypeOK, RepeatInv, [FlowNext]_flowVars
  PROVE  RepeatInv'
  <1>1. CASE Submits \/ Elsewhere
    BY <1>1, RepeatElsewhere
  <1>2. CASE Runner
    BY <1>2, RunnerStep, RepeatBegins, RepeatSkips, RepeatGoesOn, RepeatRepeats, RepeatStops DEF RunnerMoves
  <1> QED
    BY <1>1, <1>2, FlowMoves DEF SendMoves

\* Within one round of the counter, two messages have one number only if they are one.
LEMMA SameNumber ==
  ASSUME NEW p, NEW q, Apart(p, q), p.seq \in 0..Width - 1, q.seq \in 0..Width - 1,
         p.nth \in Int, q.nth \in Int, p.nth <= q.nth, q.nth < p.nth + Width
  PROVE  p.nth = q.nth <=> p.seq = q.seq
  <1>1. ASSUME NEW a \in 0..Width - 1, NEW b \in 0..Width - 1, NEW n \in 0..Width - 1, Follows(a, n, b)
        PROVE  n = 0 <=> a = b
    BY <1>1, WidthFacts DEF Follows
  <1>2. Follows(p.seq, q.nth - p.nth, q.seq)
    BY DEF Apart
  <1>3. q.nth - p.nth \in 0..Width - 1
    BY WidthFacts
  <1> QED
    BY <1>1, <1>2, <1>3

\* The numbers of messages and the places of their parts, in every reachable state.
THEOREM PartsNumbered == FlowSpec => []RepeatInv
  <1>1. FlowInit => RepeatInv
    BY DEF FlowInit, SendInit, RepeatInv, NumberInv, PartsInv, WorkNumbered
  <1>2. SendTypeOK /\ RepeatInv /\ [FlowNext]_flowVars => RepeatInv'
    BY RepeatStep
  <1> QED
    BY <1>1, <1>2, SendTyped, PTL DEF FlowSpec

\* QQ can tell a repeated attempt from another message by its msg_seq, for a counter of
\* any width that starts anywhere, however many messages are lost, refused or repeated
\* (ensure_msg_seq before execute_json, service.rs:47-57; SystemQqIdSource of bundle.rs).
THEOREM RepeatsAreRecognised == FlowSpec => []RepeatsRecognised
  <1>1. RepeatInv => RepeatsRecognised
    <2> SUFFICES ASSUME RepeatInv, NEW i \in 1..Len(posts), NEW j \in 1..Len(posts),
                        posts[i].nth <= posts[j].nth, posts[j].nth < posts[i].nth + 2^SeqBits
                 PROVE  posts[i].task = posts[j].task /\ posts[i].left = posts[j].left <=> posts[i].seq = posts[j].seq
      BY DEF RepeatsRecognised
    <2>1. PostNumbered(posts[i]) /\ PostNumbered(posts[j]) /\ Apart(posts[i], posts[j])
          /\ (posts[i].nth = posts[j].nth <=> SamePart(posts[i], posts[j]))
      BY DEF RepeatInv, NumberInv, PartsInv
    <2>2. /\ posts[i].seq \in 0..Width - 1 /\ posts[j].seq \in 0..Width - 1
          /\ posts[i].nth \in Int /\ posts[j].nth \in Int
      BY <2>1 DEF PostNumbered
    <2>3. posts[j].nth < posts[i].nth + Width /\ Width \in Nat
      BY WidthFacts DEF Width
    <2>4. posts[i].nth = posts[j].nth <=> posts[i].seq = posts[j].seq
      BY <2>1, <2>2, <2>3, SameNumber
    <2> QED
      BY <2>1, <2>4 DEF SamePart
  <1> QED
    BY <1>1, PartsNumbered, PTL

-----------------------------------------------------------------------------
(* ImageIsWhole.                                                           *)

Named(generation) == resource.hashed => generation = tasks[running].generation

\* Which blocks of the image the runner is at have been confirmed, and whose they are:
\* u is the upload under way.
ImageInv(u) ==
  running # 0 =>
    /\ work.at \in {"open", "collect"} => u.finished = {}
    /\ work.at = "put" =>
         u.finished = 1..work.block - 1 /\ (work.block > 1 => u.generation = work.generation)
    /\ work.at = "part_finish" =>
         /\ u.finished \in {1..work.block - 1, 1..work.block}
         /\ u.finished # {} => u.generation = work.generation
    /\ work.at \in {"put", "part_finish"} => Named(work.generation)
    /\ work.at \in {"exchange", "media"} => u.finished = 1..Blocks(u.generation) /\ Named(u.generation)

PostWhole(p) ==
  /\ p.task \in 1..Len(tasks)
  /\ p.body = <<"image">> =>
       /\ p.media.finished = 1..Blocks(p.media.generation)
       /\ resource.hashed => p.media.generation = tasks[p.task].generation
PostsWhole(ps) == \A i \in 1..Len(ps) : PostWhole(ps[i])

WholeInv == ImageInv(upload) /\ PostsWhole(posts)

\* What a request that the server takes, or not, does to the upload.
LEMMA EffectOnImage ==
  ASSUME SendTypeOK, ImageInv(upload), Requesting, Effect \/ NoEffect
  PROVE  /\ ImageInv(upload')
         /\ Effect /\ work.at = "prepare" => upload'.finished = {}
         /\ Effect /\ work.at = "part_finish" =>
              upload'.finished = 1..work.block /\ upload'.generation = work.generation
  <1>1. running # 0 /\ work.at \in Requests
    BY DEF Requesting
  <1>2. upload \in [generation : 0..2, parts : 0..2, finished : SUBSET (1..2)]
    BY DEF SendTypeOK, ServerOK
  <1>3. CASE upload' = upload /\ ~(Effect /\ work.at \in {"prepare", "part_finish"})
    BY <1>3
  <1>4. CASE Effect /\ work.at = "prepare"
    <2>1. PICK n : upload' = [NoImage EXCEPT !.parts = n]
      BY <1>4 DEF Effect
    <2>2. upload'.finished = {}
      BY <2>1 DEF NoImage
    <2> QED
      BY <1>4, <2>2 DEF ImageInv
  <1>5. CASE Effect /\ work.at = "part_finish"
    <2>1. upload' = [upload EXCEPT !.finished = upload.finished \cup {work.block}, !.generation = work.generation]
      BY <1>5 DEF Effect
    <2>2. upload'.finished = upload.finished \cup {work.block} /\ upload'.generation = work.generation
      BY <1>2, <2>1
    <2>3. work.generation \in 1..2 /\ work.block \in 1..Blocks(work.generation)
      BY <1>1, <1>5 DEF SendTypeOK, RunnerOK, Doing
    <2>4. work.block \in Nat \ {0}
      BY <2>3 DEF Blocks
    <2>5. upload.finished \in {1..work.block - 1, 1..work.block} /\ Named(work.generation)
      BY <1>1, <1>5 DEF ImageInv
    <2>6. upload'.finished = 1..work.block
      BY <2>2, <2>4, <2>5
    <2> QED
      BY <1>5, <2>2, <2>5, <2>6 DEF ImageInv
  <1> QED
    BY <1>3, <1>4, <1>5 DEF Effect, NoEffect

\* A post of text is not one of an image; one of an image shows the upload.
LEMMA EffectOnPosts ==
  ASSUME SendTypeOK, WholeInv, running # 0, Effect \/ NoEffect
  PROVE  PostsWhole(posts')
  <1>1. /\ NewPost \/ SamePosts
        /\ Len(posts) \in Nat
        /\ \A i \in 1..Len(posts) : posts'[i] = posts[i]
        /\ NewPost => Len(posts') = Len(posts) + 1 /\ posts'[Len(posts) + 1] = Post
    BY PostsChange DEF SendTypeOK, ServerOK
  <1>2. CASE SamePosts
    BY <1>2 DEF SamePosts, WholeInv
  <1>3. CASE NewPost
    <2>1. running \in 1..Len(tasks) /\ Post.task = running
      BY SeqFacts DEF SendTypeOK, RunnerOK, TasksOK, Post
    <2>2. ASSUME work.at = "text" PROVE PostWhole(Post)
      <3>1. Post.body = TextGroup(work.rest)
        BY <2>2 DEF Post
      <3>2. work.rest \in Seq(STRING)
        BY DEF SendTypeOK, RunnerOK, Doing, WorkStates
      <3>3. \A i \in 1..Len(TextGroup(work.rest)) : TextGroup(work.rest)[i] \in Texts
        BY <3>2, TextGroupFacts
      <3>4. Post.body # <<"image">>
        <4> SUFFICES ASSUME TextGroup(work.rest) = <<"image">> PROVE FALSE
          BY <3>1
        <4>1. Len(<<"image">>) = 1 /\ <<"image">>[1] = "image"
          OBVIOUS
        <4>2. TextGroup(work.rest)[1] \in Texts /\ TextGroup(work.rest)[1] = "image"
          BY <3>3, <4>1
        <4> QED
          BY <4>2 DEF Texts
      <3> QED
        BY <2>1, <3>4 DEF PostWhole
    <2>3. ASSUME work.at = "media" PROVE PostWhole(Post)
      <3>1. Post.media = upload
        BY <2>3 DEF Post
      <3>2. upload.finished = 1..Blocks(upload.generation) /\ Named(upload.generation)
        BY <2>3 DEF WholeInv, ImageInv
      <3> QED
        BY <2>1, <3>1, <3>2 DEF PostWhole, Named
    <2>4. PostWhole(Post)
      BY <1>3, <2>2, <2>3 DEF NewPost, Sending
    <2>5. \A i \in 1..Len(posts') : (i \in 1..Len(posts) /\ posts'[i] = posts[i]) \/ posts'[i] = Post
      BY <1>1, <1>3
    <2> QED
      BY <2>4, <2>5 DEF WholeInv, PostsWhole
  <1> QED
    BY <1>1, <1>2, <1>3

LEMMA PostsWholeNext ==
  ASSUME PostsWhole(posts'), UNCHANGED <<tasks, resource>>
  PROVE  PostsWhole(posts)'
  BY DEF PostsWhole, PostWhole

\* Where the runner goes after a request that was answered, the upload fits.
LEMMA ImageContinues ==
  ASSUME SendTypeOK, ImageInv(upload), Requesting, Effect, Continue, UNCHANGED <<tasks, resource>>
  PROVE  ImageInv(upload)'
  <1>0. /\ running # 0 /\ work.at \in Requests /\ Doing(tasks[running], work)
        /\ ImageInv(upload')
        /\ work.at = "prepare" => upload'.finished = {}
        /\ work.at = "part_finish" => upload'.finished = 1..work.block /\ upload'.generation = work.generation
    BY EffectOnImage DEF Requesting, SendTypeOK, RunnerOK
  <1>1. CASE work.at \in Sending
    <2>1. Goes(SendFrom(Left)) /\ UNCHANGED <<outcome, running>>
      BY <1>1 DEF Continue, Left, Sending
    <2>2. work'.at = Upcoming(Left)
      BY <1>0, <1>1, <2>1, OnwardSend
    <2>3. work'.at \in {"done", "unsupported", "text", "prepare"}
      BY <2>2 DEF Upcoming
    <2> QED
      BY <2>3 DEF ImageInv
  <1>2. CASE work.at = "prepare"
    <2>1. Goes(At("open")) /\ UNCHANGED <<outcome, running>>
      BY <1>2 DEF Continue
    <2>2. work'.at = "open"
      BY <1>0, <1>2, <2>1, OnwardAt DEF Uploading
    <2> QED
      BY <1>0, <1>2, <2>2 DEF ImageInv
  <1>3. CASE work.at = "part_finish"
    <2>1. work.generation \in 1..2 /\ work.block \in 1..Blocks(work.generation) /\ Named(work.generation)
      BY <1>0, <1>3 DEF Doing, ImageInv
    <2>2. work.block \in Nat \ {0} /\ Blocks(work.generation) \in Nat
      BY <2>1 DEF Blocks
    <2>3. CASE work.block < Blocks(work.generation)
      <3>1. Goes([At("put") EXCEPT !.block = @ + 1]) /\ UNCHANGED <<outcome, running>>
        BY <1>3, <2>3 DEF Continue
      <3>2. /\ work'.at = "put" /\ work'.block = work.block + 1 /\ work'.generation = work.generation
            /\ running' = running
        BY <1>0, <1>3, <2>3, <3>1, OnwardNextBlock
      <3>3. work.block + 1 - 1 = work.block
        BY <2>2
      <3> QED
        BY <1>0, <1>3, <2>1, <3>2, <3>3 DEF ImageInv, Named
    <2>4. CASE ~(work.block < Blocks(work.generation))
      <3>1. Goes(At("exchange")) /\ UNCHANGED <<outcome, running>>
        BY <1>3, <2>4 DEF Continue
      <3>2. work'.at = "exchange" /\ running' = running
        BY <1>0, <1>3, <3>1, OnwardAt DEF Uploading
      <3>3. work.block = Blocks(work.generation)
        BY <2>1, <2>2, <2>4
      <3> QED
        BY <1>0, <1>3, <2>1, <3>2, <3>3 DEF ImageInv, Named, Blocks
    <2> QED
      BY <2>3, <2>4
  <1>4. CASE work.at = "exchange" /\ work.rest # <<>>
    <2>1. Goes(At("media")) /\ UNCHANGED <<outcome, running>>
      BY <1>4 DEF Continue
    <2>2. work'.at = "media" /\ running' = running
      BY <1>0, <1>4, <2>1, OnwardAt DEF Uploading
    <2> QED
      BY <1>0, <1>4, <2>2 DEF ImageInv, Named, Blocks
  <1>5. CASE work.at = "single" \/ (work.at = "exchange" /\ work.rest = <<>>)
    <2>1. Ends("completed")
      BY <1>5 DEF Continue
    <2> QED
      BY <2>1 DEF Ends, ImageInv
  <1> QED
    BY <1>0, <1>1, <1>2, <1>3, <1>4, <1>5 DEF Requests, Sending

LEMMA ImageRequest ==
  ASSUME SendTypeOK, WholeInv, Request
  PROVE  WholeInv'
  <1>1. Requesting /\ running # 0 /\ UNCHANGED <<tasks, resource>> /\ (Effect \/ NoEffect)
    BY DEF Request, Requesting, Answered, Lost, Refused
  <1>2. PostsWhole(posts)'
    BY <1>1, EffectOnPosts, PostsWholeNext
  <1>3. ImageInv(upload') /\ ImageInv(upload)
    BY <1>1, EffectOnImage DEF WholeInv
  <1>4. CASE Answered
    BY <1>1, <1>2, <1>3, <1>4, ImageContinues DEF Answered, WholeInv
  <1>5. CASE work' = AnotherAttempt /\ running' = running
    <2>1. work'.at = work.at /\ work'.block = work.block /\ work'.generation = work.generation
      BY <1>1, <1>5, RepeatFacts DEF SendTypeOK
    <2>2. ImageInv(upload)'
      BY <1>1, <1>3, <1>5, <2>1 DEF ImageInv, Named, Blocks
    <2> QED
      BY <1>2, <2>2 DEF WholeInv
  <1>6. CASE Ends("failed")
    BY <1>2, <1>6 DEF Ends, ImageInv, WholeInv
  <1> QED
    BY <1>4, <1>5, <1>6 DEF Request, Lost, Refused

LEMMA ImageRead ==
  ASSUME SendTypeOK, WholeInv, OpenDescriptor \/ Collect \/ PutBlock
  PROVE  WholeInv'
  <1>1. /\ running # 0 /\ work.at \in Uploading /\ UNCHANGED <<tasks, posts, upload, resource>>
        /\ ImageInv(upload)
    BY DEF OpenDescriptor, Collect, PutBlock, Uploading, WholeInv
  <1>2. PostsWhole(posts)'
    BY <1>1, PostsWholeNext DEF WholeInv
  <1>3. CASE Ends("failed")
    BY <1>2, <1>3 DEF Ends, ImageInv, WholeInv
  <1>4. CASE work.at = "open" /\ Goes(At("collect")) /\ UNCHANGED <<outcome, running>>
    <2>1. work'.at = "collect"
      BY <1>1, <1>4, OnwardAt
    <2> QED
      BY <1>1, <1>2, <1>4, <2>1 DEF ImageInv, WholeInv
  <1>5. CASE /\ work.at = "collect" /\ DigestMatches /\ UNCHANGED <<outcome, running>>
             /\ Goes([At("put") EXCEPT !.block = 1, !.generation = resource.generation])
    <2>1. resource.generation \in 1..2
      BY DEF SendTypeOK, ServerOK
    <2>2. work'.at = "put" /\ work'.block = 1 /\ work'.generation = resource.generation
      BY <1>1, <1>5, <2>1, OnwardFirstBlock
    <2>3. 1..1 - 1 = {}
      OBVIOUS
    <2> QED
      BY <1>1, <1>2, <1>5, <2>2, <2>3 DEF ImageInv, Named, DigestMatches, WholeInv
  <1>6. CASE work.at = "put" /\ Goes(At("part_finish")) /\ UNCHANGED <<outcome, running>>
    <2>1. work'.at = "part_finish" /\ work'.block = work.block /\ work'.generation = work.generation
      BY <1>1, <1>6, OnwardAt
    <2>2. work.block \in Nat
      BY <1>1 DEF SendTypeOK, RunnerOK, Doing, WorkStates
    <2>3. upload.finished # {} => work.block > 1
      BY <1>1, <1>6, <2>2 DEF ImageInv
    <2> QED
      BY <1>1, <1>2, <1>6, <2>1, <2>3 DEF ImageInv, Named, WholeInv
  <1> QED
    BY <1>3, <1>4, <1>5, <1>6 DEF OpenDescriptor, Collect, PutBlock, ReadResource

LEMMA ImageRunner ==
  ASSUME SendTypeOK, WholeInv, Runner
  PROVE  WholeInv'
  <1>1. CASE Request
    BY <1>1, ImageRequest
  <1>2. CASE OpenDescriptor \/ Collect \/ PutBlock
    BY <1>2, ImageRead
  <1>3. CASE Take
    <2>1. (Begins \/ Skips) /\ UNCHANGED <<tasks, posts, upload, resource>>
      BY <1>3, TakeMoves DEF Take
    <2>2. PostsWhole(posts)'
      BY <2>1, PostsWholeNext DEF WholeInv
    <2>3. ImageInv(upload)'
      <3>1. CASE Skips
        BY <3>1 DEF Skips, ImageInv
      <3>2. CASE Begins
        <4>1. work'.at \notin (Uploading \ {"prepare"}) \cup {"media"}
          BY <3>2 DEF Begins
        <4> QED
          BY <4>1 DEF ImageInv, Uploading
      <3> QED
        BY <2>1, <3>1, <3>2
    <2> QED
      BY <2>2, <2>3 DEF WholeInv
  <1>4. CASE Finish
    <2>1. UNCHANGED <<tasks, posts, upload, resource>> /\ running' = 0
      BY <1>4 DEF Finish, Ends
    <2> QED
      BY <2>1, PostsWholeNext DEF WholeInv, ImageInv
  <1> QED
    BY <1>1, <1>2, <1>3, <1>4 DEF Runner

\* What the sender only sees: tasks that are added, and the resource replaced.
LEMMA TasksKept ==
  ASSUME TasksOK, Submits \/ Elsewhere
  PROVE  /\ Len(tasks) \in Nat /\ 1..Len(tasks) \subseteq 1..Len(tasks')
         /\ \A t \in 1..Len(tasks) : tasks'[t] = tasks[t] /\ outcome'[t] = outcome[t]
  <1>1. CASE Elsewhere
    BY <1>1, SeqFacts DEF Elsewhere, TasksOK
  <1>2. CASE Submits
    <2>1. PICK operation : Submitted(operation)
      BY <1>2 DEF Submits
    <2>2. /\ Len(tasks) \in Nat /\ Len(tasks') = Len(tasks) + 1
          /\ \A t \in 1..Len(tasks) : tasks'[t] = tasks[t] /\ outcome'[t] = outcome[t]
      BY <2>1, SubmittedFacts
    <2> QED
      BY <2>2
  <1> QED
    BY <1>1, <1>2

LEMMA ResourceKept ==
  ASSUME ServerOK, Submits \/ Elsewhere
  PROVE  resource'.hashed = resource.hashed /\ SenderIdle
  <1>1. resource = [generation |-> resource.generation, hinted |-> resource.hinted,
                    hashed |-> resource.hashed, provider |-> resource.provider]
    BY DEF ServerOK
  <1>2. CASE Replace
    <2>1. resource' = [resource EXCEPT !.generation = 2]
      BY <1>2 DEF Replace
    <2> QED
      BY <1>1, <2>1 DEF Submits, Elsewhere
  <1> QED
    BY <1>2 DEF Submits, Elsewhere

LEMMA ImageElsewhere ==
  ASSUME SendTypeOK, WholeInv, Submits \/ Elsewhere
  PROVE  WholeInv'
  <1>1. /\ Len(tasks) \in Nat /\ 1..Len(tasks) \subseteq 1..Len(tasks')
        /\ \A t \in 1..Len(tasks) : tasks'[t] = tasks[t]
    BY TasksKept DEF SendTypeOK
  <1>2. resource'.hashed = resource.hashed /\ UNCHANGED <<running, work, posts, upload>>
    BY ResourceKept DEF SendTypeOK, SenderIdle
  <1>3. running # 0 => tasks'[running] = tasks[running]
    BY <1>1 DEF SendTypeOK, RunnerOK
  <1>4. ImageInv(upload)'
    BY <1>2, <1>3 DEF WholeInv, ImageInv, Named, Blocks
  <1>5. PostsWhole(posts)'
    BY <1>1, <1>2 DEF WholeInv, PostsWhole, PostWhole, Blocks
  <1> QED
    BY <1>4, <1>5 DEF WholeInv

\* An image that is posted has all its blocks, confirmed one after the other, and its
\* bytes are of the generation the message named when the resource carries a hash,
\* whatever is lost or repeated and whenever the resource is replaced: the
\* hash is compared once, after all bytes are collected (read_chunks, media.rs:48-98,
\* with upload_resource_chunks).
THEOREM ImagesAreWhole == FlowSpec => []ImageIsWhole
  <1>1. FlowInit => WholeInv
    BY DEF FlowInit, SendInit, WholeInv, ImageInv, PostsWhole
  <1>2. SendTypeOK /\ WholeInv => ImageIsWhole
    BY DEF WholeInv, PostsWhole, PostWhole, ImageIsWhole
  <1>3. SendTypeOK /\ WholeInv /\ [FlowNext]_flowVars => WholeInv'
    BY FlowMoves, ImageRunner, ImageElsewhere DEF SendMoves
  <1> QED
    BY <1>1, <1>2, <1>3, SendTyped, PTL DEF FlowSpec

-----------------------------------------------------------------------------
(* PartsArriveInOrder.                                                     *)

Sections(ps, t) == [i \in DOMAIN ps |-> IF ps[i].task = t THEN ps[i].body ELSE <<>>]
BodiesOK(ps) == IsSeq(ps) /\ \A i \in 1..Len(ps) : ps[i].body \in Seq(STRING)

LEMMA SectionsFacts ==
  ASSUME NEW ps, BodiesOK(ps), NEW t
  PROVE  /\ IsSeq(Sections(ps, t)) /\ Len(Sections(ps, t)) = Len(ps) /\ Len(ps) \in Nat
         /\ \A i \in 1..Len(ps) :
              /\ Sections(ps, t)[i] = IF ps[i].task = t THEN ps[i].body ELSE <<>>
              /\ IsSeq(Sections(ps, t)[i])
  <1> DEFINE s == Sections(ps, t)
  <1>1. Len(ps) \in Nat /\ DOMAIN ps = 1..Len(ps)
    BY SeqFacts DEF BodiesOK
  <1>2. s = [i \in 1..Len(ps) |-> IF ps[i].task = t THEN ps[i].body ELSE <<>>]
    BY <1>1 DEF Sections
  <1>3. /\ s = [i \in 1..Len(ps) |-> s[i]]
        /\ \A i \in 1..Len(ps) : s[i] = IF ps[i].task = t THEN ps[i].body ELSE <<>>
    BY <1>2
  <1> HIDE DEF s
  <1>4. IsSeq(s) /\ Len(s) = Len(ps)
    BY <1>1, <1>3, SeqFromFunction
  <1>5. ASSUME NEW i \in 1..Len(ps) PROVE IsSeq(s[i])
    <2>1. ps[i].body \in Seq(STRING) /\ <<>> \in Seq(STRING)
      BY DEF BodiesOK
    <2>2. s[i] = ps[i].body \/ s[i] = <<>>
      BY <1>3
    <2> QED
      BY <2>1, <2>2 DEF IsSeq
  <1> QED
    BY <1>1, <1>3, <1>4, <1>5 DEF s

\* Nothing arrives of a task without a post.
LEMMA NoneArrived ==
  ASSUME NEW ps, BodiesOK(ps), NEW t, \A i \in 1..Len(ps) : ps[i].task # t
  PROVE  FlattenSeq(Sections(ps, t)) = <<>>
  <1> DEFINE s == Sections(ps, t)
             f == FlattenSeq(s)
  <1>1. /\ IsSeq(s) /\ Len(s) = Len(ps)
        /\ \A i \in 1..Len(ps) : s[i] = <<>> /\ IsSeq(s[i])
    BY SectionsFacts
  <1> HIDE DEF s
  <1>2. InOrderFrom(f, s, Len(s))
    BY <1>1, FlattenOrder
  <1> HIDE DEF f
  <1>3. IsSeq(f) /\ \A k \in 1..Len(f) : \E i \in 1..Len(s) : FromSection(f, k, s, i)
    BY <1>2 DEF InOrderFrom
  <1>4. \A k \in 1..Len(f) : FALSE
    BY <1>1, <1>3 DEF FromSection
  <1>5. Len(f) \in Nat
    BY <1>3, SeqFacts
  <1>6. Len(f) = 0
    BY <1>4, <1>5
  <1>7. f = <<>>
    BY <1>3, <1>6, SeqFacts
  <1> QED
    BY <1>7 DEF f, s

\* A new post adds its body to what has arrived of its task, and to no other.
LEMMA MoreArrived ==
  ASSUME NEW ps, BodiesOK(ps), NEW p, p.body \in Seq(STRING), NEW t,
         FlattenSeq(Sections(ps, t)) \in Seq(STRING)
  PROVE  /\ BodiesOK(Append(ps, p))
         /\ FlattenSeq(Sections(Append(ps, p), t))
            = IF p.task = t THEN FlattenSeq(Sections(ps, t)) \o p.body ELSE FlattenSeq(Sections(ps, t))
  <1> DEFINE qs == Append(ps, p)
             u == Sections(ps, t)
             v == Sections(qs, t)
  <1>1. /\ IsSeq(ps) /\ IsSeq(qs) /\ Len(ps) \in Nat /\ Len(qs) = Len(ps) + 1
        /\ \A i \in 1..Len(ps) : qs[i] = ps[i]
        /\ qs[Len(ps) + 1] = p
    BY AppendFacts, SeqFacts DEF BodiesOK
  <1> HIDE DEF qs
  <1>2. BodiesOK(qs)
    <2>1. \A i \in 1..Len(qs) : i \in 1..Len(ps) \/ i = Len(ps) + 1
      BY <1>1
    <2> QED
      BY <1>1, <2>1 DEF BodiesOK
  <1>3. /\ IsSeq(u) /\ Len(u) = Len(ps)
        /\ \A i \in 1..Len(ps) : u[i] = IF ps[i].task = t THEN ps[i].body ELSE <<>>
    BY SectionsFacts
  <1>4. /\ IsSeq(v) /\ Len(v) = Len(qs)
        /\ \A i \in 1..Len(qs) : v[i] = (IF qs[i].task = t THEN qs[i].body ELSE <<>>) /\ IsSeq(v[i])
    BY <1>2, SectionsFacts
  <1> HIDE DEF u, v
  <1>5. 1..Len(ps) \subseteq 1..Len(qs) /\ Len(qs) \in 1..Len(qs)
    BY <1>1
  <1>6. Agree(u, v, Len(u)) /\ Len(v) = Len(u) + 1 /\ IsSeq(v[Len(v)])
    BY <1>1, <1>3, <1>4, <1>5 DEF Agree
  <1>7. FlattenSeq(v) = FlattenSeq(u) \o v[Len(v)]
    BY <1>3, <1>4, <1>6, FlattenStep
  <1>8. v[Len(v)] = IF p.task = t THEN p.body ELSE <<>>
    BY <1>1, <1>4, <1>5
  <1>9. FlattenSeq(u) \in Seq(STRING)
    BY DEF u
  <1>10. FlattenSeq(u) \o <<>> = FlattenSeq(u)
    BY <1>9, ConcatEmptySeq
  <1> QED
    BY <1>2, <1>7, <1>8, <1>10 DEF u, v, qs

LEMMA JoinParts ==
  ASSUME NEW s \in Seq(STRING), NEW t \in Seq(STRING), NEW u \in Seq(STRING)
  PROVE  (s \o t) \o u = s \o (t \o u)
  BY ConcatAssociative

LEMMA PrefixOfConcat ==
  ASSUME NEW s \in Seq(STRING), NEW t \in Seq(STRING)
  PROVE  IsPrefix(s, s \o t)
  <1>1. /\ s \o t \in Seq(STRING) /\ Len(s \o t) = Len(s) + Len(t)
        /\ \A i \in 1..Len(s) : (s \o t)[i] = s[i]
        /\ Len(s) \in Nat /\ Len(t) \in Nat
    BY ConcatProperties
  <1>2. SubSeq(s, 1, Len(s)) = [i \in 1..Len(s) |-> s[i]]
    BY <1>1
  <1>3. SubSeq(s \o t, 1, Len(s)) = [i \in 1..Len(s) |-> (s \o t)[i]]
    BY <1>1
  <1> QED
    BY <1>1, <1>2, <1>3 DEF IsPrefix

\* The part that the runner is at, and what follows it, are what it is given to send.
LEMMA PartAndLeft ==
  ASSUME RunnerOK, running # 0, work.at \in Sending
  PROVE  /\ Post.body \in Seq(STRING) /\ Left \in Seq(STRING)
         /\ work.rest = Post.body \o Left
         /\ work.rest \in Seq(STRING)
  <1>1. work.rest \in Seq(STRING) /\ Doing(tasks[running], work)
    BY DEF RunnerOK, Doing, WorkStates
  <1>2. CASE work.at = "text"
    <2>1. Post.body = TextGroup(work.rest) /\ Left = AfterGroup(work.rest)
      BY <1>2 DEF Post, Left
    <2> QED
      BY <1>1, <2>1, TextGroupFacts
  <1>3. CASE work.at = "media"
    <2>1. Post.body = <<"image">> /\ Left = Tail(work.rest)
      BY <1>3 DEF Post, Left
    <2>2. work.rest # <<>> /\ Head(work.rest) = "image"
      BY <1>1, <1>3 DEF Doing, Uploading
    <2>3. Tail(work.rest) \in Seq(STRING)
      BY <1>1, <2>2, HeadTailProperties
    <2>4. <<"image">> \in Seq(STRING)
      <3>1. Head(work.rest) \in STRING /\ "image" = Head(work.rest)
        BY <1>1, <2>2, HeadTailProperties
      <3>2. <<Head(work.rest)>> \in Seq(STRING)
        BY <3>1
      <3> QED
        BY <3>1, <3>2
    <2>5. work.rest = <<Head(work.rest)>> \o Tail(work.rest)
      <3> DEFINE s == work.rest
                 t == Tail(s)
                 u == <<Head(s)>> \o t
      <3>1. /\ s \in Seq(STRING) /\ t \in Seq(STRING) /\ Len(t) = Len(s) - 1 /\ Len(s) \in Nat
            /\ \A i \in 1..Len(t) : t[i] = s[i + 1]
            /\ Head(s) = s[1] /\ <<Head(s)>> \in Seq(STRING)
        BY <1>1, <2>2, <2>3, <2>4, HeadTailProperties
      <3>2. /\ Len(u) = 1 + Len(t) /\ u \in Seq(STRING)
            /\ \A i \in 1..1 + Len(t) : u[i] = IF i <= 1 THEN <<Head(s)>>[i] ELSE t[i - 1]
        BY <3>1, ConcatProperties
      <3> HIDE DEF s, t, u
      <3>3. Len(s) = Len(u) /\ IsSeq(s) /\ IsSeq(u) /\ Len(t) \in Nat
        BY <3>1, <3>2 DEF IsSeq
      <3>4. ASSUME NEW i \in 1..Len(s) PROVE s[i] = u[i]
        <4>1. CASE i = 1
          BY <3>1, <3>2, <3>3, <4>1
        <4>2. CASE i # 1
          <5>1. i - 1 \in 1..Len(t) /\ i \in 1..1 + Len(t) /\ (i - 1) + 1 = i
            BY <3>1, <3>3, <4>2
          <5> QED
            BY <3>1, <3>2, <4>2, <5>1
        <4> QED
          BY <4>1, <4>2
      <3>5. s = u
        BY <3>3, <3>4, SameSeq
      <3> QED
        BY <3>5 DEF s, t, u
    <2> QED
      BY <1>1, <2>1, <2>2, <2>3, <2>4, <2>5
  <1> QED
    BY <1>2, <1>3 DEF Sending

\* How much of a message has arrived: nothing before the runner begins it, all before
\* the part that the runner is at, or all before what is left after it when that part
\* is the last that arrived.
AtLast(ps) == work.at \in Sending /\ ps # <<>> /\ Last(ps) = Post
ArrivedSoFar(arrived, t, last) ==
  /\ arrived \in Seq(STRING)
  /\ outcome[t] = "none" /\ t # running => arrived = <<>>
  /\ outcome[t] = "completed" => arrived = tasks[t].segments
  /\ outcome[t] = "failed" => IsPrefix(arrived, tasks[t].segments)
  /\ running # 0 /\ t = running =>
       arrived \o (IF last THEN Left ELSE work.rest) = tasks[t].segments
OrderInv(ps) ==
  \A t \in 1..Len(tasks) :
    tasks[t].op = "send" => ArrivedSoFar(FlattenSeq(Sections(ps, t)), t, AtLast(ps))

SentInv == BodiesOK(posts) /\ OrderInv(posts)

\* A request adds a part at its place, or nothing.
LEMMA PartAdded ==
  ASSUME SendTypeOK, SentInv, running # 0, Effect \/ NoEffect
  PROVE  /\ BodiesOK(posts') /\ OrderInv(posts')
         /\ Effect /\ work.at \in Sending => AtLast(posts')
  <1>1. CASE posts' = posts
    <2>1. Effect /\ work.at \in Sending => AtLast(posts)
      <3> SUFFICES ASSUME Effect, work.at \in Sending, ~AtLast(posts) PROVE FALSE
        OBVIOUS
      <3>1. posts' = Append(posts, Post)
        BY DEF Effect, AtLast
      <3>2. Len(Append(posts, Post)) = Len(posts) + 1 /\ Len(posts) \in Nat
        BY AppendFacts, SeqFacts DEF SentInv, BodiesOK
      <3> QED
        BY <1>1, <3>1, <3>2
    <2> QED
      BY <1>1, <2>1 DEF SentInv
  <1>2. CASE posts' = Append(posts, Post) /\ work.at \in Sending /\ (posts = <<>> \/ Last(posts) # Post)
    <2>1. /\ Post.body \in Seq(STRING) /\ Left \in Seq(STRING) /\ work.rest = Post.body \o Left
          /\ Post.task = running
      BY <1>2, PartAndLeft DEF SendTypeOK, Post
    <2>2. ~AtLast(posts)
      BY <1>2 DEF AtLast
    <2>3. BodiesOK(posts)
      BY DEF SentInv
    <2>4. AtLast(posts')
      <3> DEFINE qs == Append(posts, Post)
      <3>1. IsSeq(posts) /\ Len(posts) \in Nat
        BY <2>3, SeqFacts DEF BodiesOK
      <3>2. Len(qs) = Len(posts) + 1 /\ qs[Len(posts) + 1] = Post
        BY <3>1, AppendFacts
      <3>3. Len(<<>>) = 0
        OBVIOUS
      <3>4. qs # <<>> /\ qs[Len(qs)] = Post
        BY <3>1, <3>2, <3>3
      <3> QED
        BY <1>2, <3>4 DEF AtLast, Last
    <2>5. BodiesOK(posts')
      <3>1. Post.body \in Seq(STRING) /\ IsSeq(posts) /\ Len(posts) \in Nat
        BY <2>1, <2>3, SeqFacts DEF BodiesOK
      <3>2. /\ IsSeq(posts') /\ Len(posts') = Len(posts) + 1
            /\ \A i \in 1..Len(posts) : posts'[i] = posts[i]
            /\ posts'[Len(posts) + 1] = Post
        BY <1>2, <3>1, AppendFacts
      <3>3. \A i \in 1..Len(posts') : i \in 1..Len(posts) \/ i = Len(posts) + 1
        BY <3>1, <3>2
      <3> QED
        BY <2>3, <3>1, <3>2, <3>3 DEF BodiesOK
    <2>6. ASSUME NEW t \in 1..Len(tasks), tasks[t].op = "send"
          PROVE  ArrivedSoFar(FlattenSeq(Sections(posts', t)), t, TRUE)
      <3> DEFINE a == FlattenSeq(Sections(posts, t))
                 b == FlattenSeq(Sections(posts', t))
      <3>1. ArrivedSoFar(a, t, FALSE)
        BY <2>2, <2>6 DEF SentInv, OrderInv, ArrivedSoFar
      <3>2. a \in Seq(STRING)
        BY <3>1 DEF ArrivedSoFar
      <3>3. b = IF Post.task = t THEN a \o Post.body ELSE a
        BY <1>2, <2>1, <2>3, <3>2, MoreArrived
      <3> HIDE DEF a, b
      <3>4. ASSUME t # running PROVE ArrivedSoFar(b, t, TRUE)
        BY <2>1, <3>1, <3>3, <3>4 DEF ArrivedSoFar
      <3>5. ASSUME t = running PROVE ArrivedSoFar(b, t, TRUE)
        <4>1. outcome[t] = "none"
          BY <3>5 DEF SendTypeOK, RunnerOK
        <4>2. b = a \o Post.body /\ a \o work.rest = tasks[t].segments
          BY <2>1, <3>1, <3>3, <3>5 DEF ArrivedSoFar
        <4>3. b \in Seq(STRING)
          BY <2>1, <3>2, <4>2, ConcatProperties
        <4>4. (a \o Post.body) \o Left = a \o (Post.body \o Left)
          BY <2>1, <3>2, JoinParts
        <4> QED
          BY <2>1, <3>5, <4>1, <4>2, <4>3, <4>4 DEF ArrivedSoFar
      <3> QED
        BY <3>4, <3>5 DEF b
    <2>7. OrderInv(posts')
      BY <2>4, <2>6 DEF OrderInv, ArrivedSoFar
    <2> QED
      BY <2>4, <2>5, <2>7
  <1> QED
    BY <1>1, <1>2 DEF Effect, NoEffect

\* A part that is begun has not arrived.
LEMMA NotLast ==
  ASSUME SendTypeOK, BodiesOK(posts'), NumberInv(posts'), Counted
  PROVE  ~AtLast(posts)'
  <1> SUFFICES ASSUME work'.at \in Sending, posts' # <<>>, Last(posts') = Post' PROVE FALSE
    BY DEF AtLast, Sending
  <1>1. messages' = messages + 1 /\ messages \in Nat
    BY DEF Counted, SendTypeOK, RunnerOK
  <1>2. Len(posts') \in Nat /\ Len(posts') # 0
    BY SeqFacts DEF BodiesOK
  <1>3. posts'[Len(posts')].nth \in 1..messages
    BY <1>2 DEF NumberInv, PostNumbered
  <1>4. Post'.nth = messages'
    BY DEF Post
  <1> QED
    BY <1>1, <1>3, <1>4 DEF Last

\* What has arrived of a task when the runner is at it.
LEMMA ArrivedAt ==
  ASSUME NEW a, ArrivedSoFar(a, running, TRUE) \/ ArrivedSoFar(a, running, FALSE),
         RunnerOK, running # 0
  PROVE  IsPrefix(a, tasks[running].segments)
  <1>1. work.rest \in Seq(STRING)
    BY DEF RunnerOK, Doing, WorkStates
  <1>2. CASE ArrivedSoFar(a, running, FALSE)
    <2>1. a \in Seq(STRING) /\ a \o work.rest = tasks[running].segments
      BY <1>2 DEF ArrivedSoFar
    <2>2. IsPrefix(a, a \o work.rest)
      BY <1>1, <2>1, PrefixOfConcat
    <2> QED
      BY <2>1, <2>2
  <1>3. CASE ArrivedSoFar(a, running, TRUE)
    <2>1. a \in Seq(STRING) /\ a \o Left = tasks[running].segments
      BY <1>3 DEF ArrivedSoFar
    <2>2. Left \in Seq(STRING)
      <3>1. CASE work.at \in Sending
        BY <3>1, PartAndLeft
      <3>2. CASE work.at \notin Sending
        BY <1>1, <3>2 DEF Left, Sending
      <3> QED
        BY <3>1, <3>2
    <2>3. IsPrefix(a, a \o Left)
      BY <2>1, <2>2, PrefixOfConcat
    <2> QED
      BY <2>1, <2>3
  <1> QED
    BY <1>2, <1>3

LEMMA OrderGoesOn ==
  ASSUME SendTypeOK, RepeatInv, SentInv, GoesOn, tasks' = tasks
  PROVE  SentInv'
  <1>1. /\ running # 0 /\ running' = running /\ outcome' = outcome
        /\ work'.rest = Left /\ Counted /\ (Effect \/ NoEffect)
        /\ work.at \in Sending => Effect
    BY DEF GoesOn, Requesting, Requests, Sending
  <1>2. /\ BodiesOK(posts') /\ OrderInv(posts')
        /\ Effect /\ work.at \in Sending => AtLast(posts')
    BY <1>1, PartAdded
  <1>3. ~AtLast(posts)'
    BY <1>1, <1>2, PostAdded, NotLast
  <1>4. ASSUME NEW t \in 1..Len(tasks), tasks[t].op = "send"
        PROVE  ArrivedSoFar(FlattenSeq(Sections(posts, t)), t, FALSE)'
    <2> DEFINE a == FlattenSeq(Sections(posts', t))
    <2>1. ArrivedSoFar(a, t, AtLast(posts'))
      BY <1>2, <1>4 DEF OrderInv
    <2>2. AtLast(posts') \/ Left = work.rest
      BY <1>1, <1>2, LeftFacts DEF SendTypeOK
    <2> HIDE DEF a
    <2>3. running # 0 /\ t = running => a \o work'.rest = tasks[t].segments
      BY <1>1, <2>1, <2>2 DEF ArrivedSoFar
    <2>4. /\ a \in Seq(STRING)
          /\ outcome[t] = "none" /\ t # running => a = <<>>
          /\ outcome[t] = "completed" => a = tasks[t].segments
          /\ outcome[t] = "failed" => IsPrefix(a, tasks[t].segments)
      BY <2>1 DEF ArrivedSoFar
    <2> QED
      BY <1>1, <2>3, <2>4 DEF ArrivedSoFar, a
  <1>5. OrderInv(posts)'
    BY <1>3, <1>4 DEF OrderInv, ArrivedSoFar
  <1> QED
    BY <1>2, <1>5 DEF SentInv, BodiesOK, IsSeq

LEMMA OrderStops ==
  ASSUME SendTypeOK, SentInv, Stops, tasks' = tasks
  PROVE  SentInv'
  <1>1. running # 0 /\ (Effect \/ NoEffect) /\ running \in 1..Len(tasks)
    BY SeqFacts DEF Stops, SendTypeOK, RunnerOK, TasksOK
  <1>2. PICK result \in {"completed", "failed"} :
          Ends(result) /\ (result = "completed" /\ tasks[running].op = "send" => work.at = "done")
    BY DEF Stops
  <1>3. running' = 0 /\ outcome' = [outcome EXCEPT ![running] = result]
    BY <1>2 DEF Ends
  <1>4. \A t \in 1..Len(tasks) : outcome'[t] = IF t = running THEN result ELSE outcome[t]
    BY <1>3, SeqFacts DEF SendTypeOK, TasksOK
  <1>5. BodiesOK(posts') /\ OrderInv(posts')
    BY <1>1, PartAdded
  <1>6. ASSUME NEW t \in 1..Len(tasks), tasks[t].op = "send"
        PROVE  ArrivedSoFar(FlattenSeq(Sections(posts, t)), t, FALSE)'
    <2> DEFINE a == FlattenSeq(Sections(posts', t))
    <2>1. ArrivedSoFar(a, t, AtLast(posts'))
      BY <1>5, <1>6 DEF OrderInv
    <2> HIDE DEF a
    <2>2. CASE t # running
      BY <1>3, <1>4, <2>1, <2>2 DEF ArrivedSoFar, a
    <2>3. CASE t = running /\ result = "failed"
      <3>1. ArrivedSoFar(a, running, TRUE) \/ ArrivedSoFar(a, running, FALSE)
        BY <2>1, <2>3 DEF ArrivedSoFar
      <3>2. IsPrefix(a, tasks[t].segments)
        BY <1>1, <2>3, <3>1, ArrivedAt DEF SendTypeOK
      <3> QED
        BY <1>3, <1>4, <2>1, <2>3, <3>2 DEF ArrivedSoFar, a
    <2>4. CASE t = running /\ result = "completed"
      <3>1. work.at = "done" /\ Doing(tasks[running], work)
        BY <1>1, <1>2, <1>6, <2>4 DEF SendTypeOK, RunnerOK
      <3>2. work.rest = <<>> /\ ~AtLast(posts')
        BY <3>1 DEF Doing, Uploading, AtLast, Sending
      <3>3. a \o <<>> = tasks[t].segments /\ a \in Seq(STRING)
        BY <1>1, <2>1, <2>4, <3>2 DEF ArrivedSoFar
      <3>4. a = tasks[t].segments
        BY <3>3, ConcatEmptySeq
      <3> QED
        BY <1>3, <1>4, <2>1, <2>4, <3>4 DEF ArrivedSoFar, a
    <2> QED
      BY <2>2, <2>3, <2>4
  <1>7. OrderInv(posts)'
    BY <1>3, <1>6 DEF OrderInv, ArrivedSoFar
  <1> QED
    BY <1>5, <1>7 DEF SentInv, BodiesOK, IsSeq

LEMMA OrderRepeats ==
  ASSUME SendTypeOK, SentInv, Repeats, UNCHANGED <<tasks, resource>>
  PROVE  SentInv'
  <1>1. /\ running # 0 /\ UNCHANGED <<outcome, running, nextSeq, messages>> /\ (Effect \/ NoEffect)
        /\ work' = AnotherAttempt
    BY DEF Repeats, Requesting
  <1>2. BodiesOK(posts') /\ OrderInv(posts')
    BY <1>1, PartAdded
  <1>3. work'.at = work.at /\ work'.rest = work.rest /\ work'.seq = work.seq
    BY <1>1, RepeatFacts DEF SendTypeOK
  <1>4. work.at \in Sending => Post' = Post
    <2>1. work.at \in Sending => upload' = upload
      BY <1>1 DEF Effect, NoEffect, Sending
    <2> QED
      BY <1>1, <1>3, <2>1 DEF Post, NoImage
  <1>5. AtLast(posts)' <=> AtLast(posts')
    BY <1>3, <1>4 DEF AtLast, Sending
  <1>6. Left' = Left
    BY <1>3 DEF Left
  <1>7. OrderInv(posts)'
    <2> SUFFICES ASSUME NEW t \in 1..Len(tasks), tasks[t].op = "send"
                 PROVE  ArrivedSoFar(FlattenSeq(Sections(posts, t)), t, AtLast(posts))'
      BY DEF OrderInv
    <2> DEFINE a == FlattenSeq(Sections(posts', t))
    <2>1. ArrivedSoFar(a, t, AtLast(posts'))
      BY <1>2 DEF OrderInv
    <2> HIDE DEF a
    <2> QED
      BY <1>1, <1>3, <1>5, <1>6, <2>1 DEF ArrivedSoFar, a
  <1> QED
    BY <1>2, <1>7 DEF SentInv, BodiesOK, IsSeq

\* Before a task is begun nothing has arrived of it.
LEMMA OrderTakes ==
  ASSUME SendTypeOK, RepeatInv, SentInv, Begins \/ Skips, tasks' = tasks
  PROVE  SentInv'
  <1>1. running = 0 /\ posts' = posts
    BY DEF Begins, Skips
  <1>2. BodiesOK(posts') /\ OrderInv(posts')
    BY <1>1 DEF SentInv
  <1>3. ~AtLast(posts)' \/ Skips
    BY <1>1, <1>2, NotLast DEF Begins, RepeatInv
  <1>4. ASSUME NEW t \in 1..Len(tasks), tasks[t].op = "send"
        PROVE  ArrivedSoFar(FlattenSeq(Sections(posts, t)), t, FALSE)'
    <2> DEFINE a == FlattenSeq(Sections(posts', t))
               segments == tasks[t].segments
    <2>1. ArrivedSoFar(a, t, AtLast(posts'))
      BY <1>2, <1>4 DEF OrderInv
    <2>2. /\ a \in Seq(STRING)
          /\ outcome[t] = "none" => a = <<>>
          /\ outcome[t] = "completed" => a = segments
          /\ outcome[t] = "failed" => IsPrefix(a, segments)
      BY <1>1, <2>1 DEF ArrivedSoFar
    <2>3. <<>> \o segments = segments /\ segments \in Seq(STRING)
      BY <1>4, ConcatEmptySeq DEF SendTypeOK, TasksOK, TaskOK
    <2> HIDE DEF a
    <2>4. CASE Begins
      <3>1. /\ outcome' = outcome /\ running' \in 1..Len(tasks) /\ outcome[running'] = "none"
            /\ t = running' => work'.rest = segments
        BY <1>4, <2>4 DEF Begins
      <3> QED
        BY <2>2, <2>3, <3>1 DEF ArrivedSoFar, a
    <2>5. CASE Skips
      <3>1. running' = 0
        BY <2>5 DEF Skips
      <3>2. PICK s \in 1..Len(tasks) : outcome[s] = "none" /\ outcome' = [outcome EXCEPT ![s] = "failed"]
        BY <2>5 DEF Skips
      <3>3. outcome'[t] = IF t = s THEN "failed" ELSE outcome[t]
        BY <3>2, SeqFacts DEF SendTypeOK, TasksOK
      <3>4. t = s => IsPrefix(a, segments)
        <4>1. <<>> \in Seq(STRING)
          OBVIOUS
        <4>2. IsPrefix(<<>>, <<>> \o segments)
          BY <2>3, <4>1, PrefixOfConcat
        <4> QED
          BY <2>2, <2>3, <3>2, <4>2
      <3> QED
        BY <2>2, <3>1, <3>3, <3>4 DEF ArrivedSoFar, a
    <2> QED
      BY <2>4, <2>5
  <1>5. OrderInv(posts)'
    <2>1. CASE ~AtLast(posts)'
      BY <1>4, <2>1 DEF OrderInv, ArrivedSoFar
    <2>2. CASE Skips
      <3>1. running' = 0
        BY <2>2 DEF Skips
      <3> QED
        BY <1>4, <3>1 DEF OrderInv, ArrivedSoFar
    <2> QED
      BY <1>3, <2>1, <2>2
  <1> QED
    BY <1>2, <1>5 DEF SentInv, BodiesOK, IsSeq

LEMMA OrderElsewhere ==
  ASSUME SendTypeOK, RepeatInv, SentInv, Submits \/ Elsewhere
  PROVE  SentInv'
  <1>1. /\ Len(tasks) \in Nat /\ 1..Len(tasks) \subseteq 1..Len(tasks')
        /\ \A t \in 1..Len(tasks) : tasks'[t] = tasks[t] /\ outcome'[t] = outcome[t]
    BY TasksKept DEF SendTypeOK
  <1>2. UNCHANGED <<running, work, nextSeq, messages, posts, upload>>
    BY DEF Submits, Elsewhere, SenderIdle
  <1>3. running # 0 => running \in 1..Len(tasks) /\ tasks'[running] = tasks[running]
    BY <1>1 DEF SendTypeOK, RunnerOK
  <1>4. running # 0 => (AtLast(posts)' <=> AtLast(posts))
    <2> SUFFICES ASSUME running # 0 PROVE AtLast(posts)' <=> AtLast(posts)
      OBVIOUS
    <2>1. Post' = Post
      BY <1>2, <1>3 DEF Post, NoImage
    <2> QED
      BY <1>2, <2>1 DEF AtLast, Sending
  <1>5. Left' = Left
    BY <1>2 DEF Left
  <1>6. ASSUME NEW t \in 1..Len(tasks), tasks[t].op = "send"
        PROVE  ArrivedSoFar(FlattenSeq(Sections(posts, t)), t, AtLast(posts))'
    <2> DEFINE a == FlattenSeq(Sections(posts, t))
    <2>1. ArrivedSoFar(a, t, AtLast(posts))
      BY <1>6 DEF SentInv, OrderInv
    <2>2. a' = a
      BY <1>2
    <2> HIDE DEF a
    <2> QED
      BY <1>1, <1>2, <1>4, <1>5, <2>1, <2>2 DEF ArrivedSoFar, a
  <1>7. ASSUME NEW t \in 1..Len(tasks'), tasks'[t].op = "send"
        PROVE  ArrivedSoFar(FlattenSeq(Sections(posts, t)), t, AtLast(posts))'
    <2>1. CASE t \in 1..Len(tasks)
      BY <1>1, <1>6, <1>7, <2>1
    <2>2. CASE t \notin 1..Len(tasks)
      <3>1. PICK operation : Submitted(operation)
        BY <1>7, <2>2 DEF Submits, Elsewhere
      <3>2. t = Len(tasks) + 1 /\ outcome'[t] = "none"
        BY <1>7, <2>2, <3>1, SubmittedFacts DEF SendTypeOK
      <3>3. t # running'
        BY <1>2, <2>2, <3>2, <1>1, <1>3
      <3>4. \A i \in 1..Len(posts) : posts[i].task # t
        BY <2>2 DEF RepeatInv, PartsInv, PostPlaced
      <3>5. FlattenSeq(Sections(posts, t)) = <<>>
        BY <3>4, NoneArrived DEF SentInv
      <3>6. FlattenSeq(Sections(posts', t)) = <<>> /\ <<>> \in Seq(STRING)
        BY <1>2, <3>5
      <3> QED
        BY <3>2, <3>3, <3>6 DEF ArrivedSoFar
    <2> QED
      BY <2>1, <2>2
  <1>8. OrderInv(posts)'
    BY <1>7 DEF OrderInv
  <1> QED
    BY <1>2, <1>8 DEF SentInv, BodiesOK, IsSeq

LEMMA SentStep ==
  ASSUME SendTypeOK, RepeatInv, SentInv, [FlowNext]_flowVars
  PROVE  SentInv'
  <1>1. CASE Submits \/ Elsewhere
    BY <1>1, OrderElsewhere
  <1>2. CASE Runner
    BY <1>2, RunnerStep, OrderTakes, OrderGoesOn, OrderRepeats, OrderStops DEF RunnerMoves
  <1> QED
    BY <1>1, <1>2, FlowMoves DEF SendMoves

\* What has arrived of a message is at every moment a beginning of it, each part once
\* but for repetitions of an attempt, and all of it has arrived when its task is
\* reported completed; whatever is lost, refused or repeated, and however many tasks
\* there are (send_bot_message, service.rs:60-133).
THEOREM PartsAreInOrder == FlowSpec => []PartsArriveInOrder
  <1>1. FlowInit => SentInv
    BY DEF FlowInit, SendInit, SentInv, BodiesOK, IsSeq, OrderInv
  <1>2. SendTypeOK /\ SentInv => PartsArriveInOrder
    <2> SUFFICES ASSUME SendTypeOK, SentInv, NEW t \in 1..Len(tasks), tasks[t].op = "send"
                 PROVE  /\ IsPrefix(Arrived(t), tasks[t].segments)
                        /\ outcome[t] = "completed" => Arrived(t) = tasks[t].segments
      BY DEF PartsArriveInOrder
    <2> DEFINE a == Arrived(t)
               segments == tasks[t].segments
    <2>1. ArrivedSoFar(a, t, AtLast(posts))
      BY DEF SentInv, OrderInv, Arrived, Sections
    <2> HIDE DEF a
    <2>2. segments \in Seq(STRING) /\ outcome[t] \in {"none", "completed", "failed"}
      BY DEF SendTypeOK, TasksOK, TaskOK
    <2>3. CASE running # 0 /\ t = running
      <3>1. ArrivedSoFar(a, running, TRUE) \/ ArrivedSoFar(a, running, FALSE)
        BY <2>1, <2>3 DEF ArrivedSoFar
      <3> QED
        BY <2>1, <2>3, <3>1, ArrivedAt DEF SendTypeOK, ArrivedSoFar, a
    <2>4. CASE outcome[t] = "none" /\ t # running
      <3>1. a = <<>>
        BY <2>1, <2>4 DEF ArrivedSoFar
      <3>2. <<>> \o segments = segments /\ <<>> \in Seq(STRING)
        BY <2>2, ConcatEmptySeq
      <3>3. IsPrefix(<<>>, <<>> \o segments)
        BY <2>2, <3>2, PrefixOfConcat
      <3> QED
        BY <2>4, <3>1, <3>2, <3>3 DEF a
    <2>5. CASE outcome[t] = "completed"
      <3>1. a = segments
        BY <2>1, <2>5 DEF ArrivedSoFar
      <3>2. segments \o <<>> = segments /\ <<>> \in Seq(STRING)
        BY <2>2, ConcatEmptySeq
      <3>3. IsPrefix(segments, segments \o <<>>)
        BY <2>2, <3>2, PrefixOfConcat
      <3> QED
        BY <3>1, <3>2, <3>3 DEF a
    <2>6. CASE outcome[t] = "failed"
      BY <2>1, <2>6 DEF ArrivedSoFar, a
    <2>7. t # 0
      BY SeqFacts DEF SendTypeOK, TasksOK
    <2> QED
      BY <2>2, <2>3, <2>4, <2>5, <2>6, <2>7
  <1>3. SendTypeOK /\ RepeatInv /\ SentInv /\ [FlowNext]_flowVars => SentInv'
    BY SentStep
  <1> QED
    BY <1>1, <1>2, <1>3, SendTyped, PartsNumbered, PTL DEF FlowSpec

-----------------------------------------------------------------------------
(* Which frames are commands.                                              *)

LEMMA PrefixFacts ==
  ASSUME NEW s, IsSeq(s), NEW t, IsSeq(t)
  PROVE  IsPrefix(s, t) <=> Len(s) <= Len(t) /\ \A i \in 1..Len(s) : s[i] = t[i]
  <1>1. Len(s) \in Nat /\ Len(t) \in Nat /\ (\E S : s \in Seq(S)) /\ (\E S : t \in Seq(S))
    BY SeqFacts DEF IsSeq
  <1>2. SubSeq(s, 1, Len(s)) = [i \in 1..Len(s) |-> s[i]]
    BY <1>1
  <1>3. Len(s) <= Len(t) => SubSeq(t, 1, Len(s)) = [i \in 1..Len(s) |-> t[i]]
    BY <1>1
  <1>4. [i \in 1..Len(s) |-> s[i]] = [i \in 1..Len(s) |-> t[i]] <=> \A i \in 1..Len(s) : s[i] = t[i]
    OBVIOUS
  <1> QED
    BY <1>2, <1>3, <1>4 DEF IsPrefix

LEMMA PrefixOfFacts ==
  ASSUME NEW text
  PROVE  /\ PrefixOf(text) \in 0..Len(CommandPrefixes)
         /\ PrefixOf(text) = 0 => \A i \in 1..Len(CommandPrefixes) : ~IsPrefix(CommandPrefixes[i], text)
         /\ PrefixOf(text) # 0 => IsPrefix(CommandPrefixes[PrefixOf(text)], text)
         /\ \A i \in 1..PrefixOf(text) - 1 : ~IsPrefix(CommandPrefixes[i], text)
  <1> DEFINE I == {i \in 1..Len(CommandPrefixes) : IsPrefix(CommandPrefixes[i], text)}
  <1>0. Len(CommandPrefixes) \in Nat
    BY EventsAssumption
  <1>1. PrefixOf(text) = IF I # {} THEN Min(I) ELSE 0
    BY DEF PrefixOf, SelectInSeq
  <1>2. CASE I = {}
    BY <1>0, <1>1, <1>2
  <1>3. CASE I # {}
    <2>1. I \in SUBSET Nat
      BY <1>0
    <2>2. \E n \in I : \A m \in I : n <= m
      BY <1>3, <2>1, LeastNat
    <2>3. Min(I) \in I /\ \A m \in I : Min(I) <= m
      BY <2>2 DEF Min
    <2>4. PrefixOf(text) = Min(I)
      BY <1>1, <1>3
    <2> HIDE DEF I
    <2>5. PrefixOf(text) \in I /\ \A m \in I : PrefixOf(text) <= m
      BY <2>3, <2>4
    <2>6. PrefixOf(text) \in 1..Len(CommandPrefixes) /\ IsPrefix(CommandPrefixes[PrefixOf(text)], text)
      BY <2>5 DEF I
    <2>7. ASSUME NEW i \in 1..PrefixOf(text) - 1 PROVE ~IsPrefix(CommandPrefixes[i], text)
      <3>1. i \in 1..Len(CommandPrefixes) /\ ~(PrefixOf(text) <= i)
        BY <1>0, <2>6
      <3> QED
        BY <2>5, <3>1 DEF I
    <2> QED
      BY <1>0, <2>6, <2>7
  <1> QED
    BY <1>2, <1>3

LEMMA EventFields ==
  ASSUME NEW frame
  PROVE  /\ EventOf(frame).kind = EventKind(frame.type) /\ EventOf(frame).target = Target(frame)
         /\ EventOf(frame).message = IF frame.type \in MessageTypes THEN frame.id ELSE "none"
         /\ EventOf(frame).text = IF frame.type \in MessageTypes THEN Content(frame) ELSE <<>>
  BY DEF EventOf, BotMessage

Mention(frame) ==
  IF frame.type = "GROUP_AT_MESSAGE_CREATE" /\ IsPrefix(<<"@bot">>, frame.text) THEN <<"@bot">> ELSE <<>>

\* The text after the mention begins with a prefix exactly if the whole begins with both.
LEMMA ContentFacts ==
  ASSUME NEW frame, frame.text \in Seq(STRING), NEW p, p \in Seq(STRING)
  PROVE  /\ Content(frame) \in Seq(STRING)
         /\ IsPrefix(Mention(frame) \o p, frame.text) <=> IsPrefix(p, Content(frame))
         /\ IsPrefix(p, Content(frame)) =>
              Beyond(frame.text, Len(Mention(frame) \o p)) = Beyond(Content(frame), Len(p))
  <1> DEFINE text == frame.text
             m == <<"@bot">>
  <1>1. IsSeq(m) /\ Len(m) = 1 /\ m[1] = "@bot" /\ IsSeq(text) /\ Len(text) \in Nat
        /\ IsSeq(p) /\ Len(p) \in Nat
    <2>1. m \in Seq({"@bot"}) /\ Len(m) = 1 /\ m[1] = "@bot"
      OBVIOUS
    <2>2. IsSeq(m)
      BY <2>1 DEF IsSeq
    <2>3. IsSeq(text) /\ IsSeq(p)
      BY DEF IsSeq
    <2> QED
      BY <2>1, <2>2, <2>3, SeqFacts
  <1>2. IsPrefix(m, text) <=> text # <<>> /\ Head(text) = "@bot"
    <2>1. IsPrefix(m, text) <=> Len(m) <= Len(text) /\ \A i \in 1..Len(m) : m[i] = text[i]
      BY <1>1, PrefixFacts
    <2>2. text # <<>> <=> Len(text) >= 1
      OBVIOUS
    <2>3. text # <<>> => Head(text) = text[1]
      OBVIOUS
    <2> QED
      BY <1>1, <2>1, <2>2, <2>3
  <1>3. CASE Mention(frame) = <<>>
    <2>1. Content(frame) = text
      <3>1. ~(frame.type = "GROUP_AT_MESSAGE_CREATE" /\ text # <<>> /\ Head(text) = "@bot")
        <4>1. Len(<<>>) = 0 /\ Len(<<"@bot">>) = 1
          OBVIOUS
        <4> QED
          BY <1>2, <1>3, <4>1 DEF Mention
      <3> QED
        BY <3>1 DEF Content
    <2>2. <<>> \o p = p
      BY ConcatEmptySeq
    <2> QED
      BY <1>3, <2>1, <2>2
  <1>4. CASE Mention(frame) = m
    <2>1. frame.type = "GROUP_AT_MESSAGE_CREATE" /\ text # <<>> /\ Head(text) = "@bot"
      <3>1. Len(<<>>) = 0 /\ Len(m) = 1
        OBVIOUS
      <3> QED
        BY <1>2, <1>4, <3>1 DEF Mention
    <2> DEFINE rest == Tail(text)
               u == m \o p
    <2>2. Content(frame) = rest
      BY <2>1 DEF Content
    <2>3. /\ rest \in Seq(STRING) /\ Len(rest) = Len(text) - 1 /\ Len(text) # 0 /\ text[1] = "@bot"
          /\ \A i \in 1..Len(rest) : rest[i] = text[i + 1]
      <3>1. Len(text) # 0 /\ Head(text) = text[1]
        BY <2>1
      <3> QED
        BY <2>1, <3>1, HeadTailProperties
    <2>4. /\ IsSeq(u) /\ Len(u) = 1 + Len(p) /\ u[1] = "@bot"
          /\ \A i \in 1..Len(p) : u[1 + i] = p[i]
      BY <1>1, ConcatFacts
    <2> HIDE DEF rest, u, m
    <2>5. IsPrefix(u, text) <=> Len(u) <= Len(text) /\ \A i \in 1..Len(u) : u[i] = text[i]
      BY <1>1, <2>4, PrefixFacts
    <2>6. IsPrefix(p, rest) <=> Len(p) <= Len(rest) /\ \A i \in 1..Len(p) : p[i] = rest[i]
      BY <1>1, <2>3, PrefixFacts DEF IsSeq
    <2>7. ASSUME Len(u) <= Len(text), NEW i \in 1..Len(p)
          PROVE  i \in 1..Len(rest) /\ 1 + i \in 1..Len(u) /\ rest[i] = text[1 + i] /\ u[1 + i] = p[i]
      <3>1. i \in 1..Len(rest) /\ 1 + i \in 1..Len(u) /\ 1 + i = i + 1
        BY <1>1, <2>3, <2>4, <2>7
      <3> QED
        BY <2>3, <2>4, <3>1
    <2>8. Len(u) <= Len(text) <=> Len(p) <= Len(rest)
      BY <1>1, <2>3, <2>4
    <2>9. IsPrefix(u, text) <=> IsPrefix(p, rest)
      <3>1. ASSUME Len(u) <= Len(text), \A i \in 1..Len(u) : u[i] = text[i], NEW i \in 1..Len(p)
            PROVE  p[i] = rest[i]
        BY <2>7, <3>1
      <3>2. ASSUME Len(u) <= Len(text), \A i \in 1..Len(p) : p[i] = rest[i], NEW k \in 1..Len(u)
            PROVE  u[k] = text[k]
        <4>1. CASE k = 1
          BY <2>3, <2>4, <4>1
        <4>2. CASE k # 1
          <5>1. k - 1 \in 1..Len(p) /\ 1 + (k - 1) = k
            BY <1>1, <2>4, <4>2
          <5> QED
            BY <2>7, <3>2, <5>1
        <4> QED
          BY <4>1, <4>2
      <3> QED
        BY <2>5, <2>6, <2>8, <3>1, <3>2
    <2>10. ASSUME IsPrefix(p, rest) PROVE Beyond(text, Len(u)) = Beyond(rest, Len(p))
      <3> DEFINE n == Len(text) - Len(u)
                 v == Beyond(text, Len(u))
                 w == Beyond(rest, Len(p))
      <3>1. Len(p) <= Len(rest) /\ n \in Nat
        BY <1>1, <2>3, <2>4, <2>6, <2>10
      <3>2. IsSeq(v) /\ Len(v) = n /\ \A i \in 1..n : v[i] = text[Len(u) + i]
        <4>1. Len(u) + 1 \in 1..Len(text) + 1 /\ Len(text) \in 0..Len(text) /\ Len(u) + 1 <= Len(text) + 1
              /\ Len(text) - (Len(u) + 1) + 1 = n
          BY <1>1, <2>3, <2>4, <3>1
        <4>2. \A i \in 1..n : (Len(u) + 1) + i - 1 = Len(u) + i
          BY <1>1, <2>4, <3>1
        <4> QED
          BY <1>1, <4>1, <4>2, SubSeqFacts DEF Beyond
      <3>3. IsSeq(w) /\ Len(w) = n /\ \A i \in 1..n : w[i] = rest[Len(p) + i]
        <4>1. /\ Len(p) + 1 \in 1..Len(rest) + 1 /\ Len(rest) \in 0..Len(rest) /\ Len(p) + 1 <= Len(rest) + 1
              /\ Len(rest) - (Len(p) + 1) + 1 = n /\ IsSeq(rest)
          BY <1>1, <2>3, <2>4, <3>1 DEF IsSeq
        <4>2. \A i \in 1..n : (Len(p) + 1) + i - 1 = Len(p) + i
          BY <1>1, <3>1
        <4> QED
          BY <4>1, <4>2, SubSeqFacts DEF Beyond
      <3> HIDE DEF v, w
      <3>4. ASSUME NEW i \in 1..n PROVE v[i] = w[i]
        <4>1. Len(p) + i \in 1..Len(rest) /\ Len(p) + i + 1 = Len(u) + i
          BY <1>1, <2>3, <2>4, <3>1
        <4> QED
          BY <2>3, <3>2, <3>3, <4>1
      <3>5. v = w
        BY <3>2, <3>3, <3>4, SameSeq
      <3> QED
        BY <3>5 DEF v, w
    <2> QED
      BY <1>4, <2>2, <2>3, <2>9, <2>10 DEF rest, u
  <1> QED
    BY <1>3, <1>4 DEF Mention

\* A frame asks for a command exactly if the parser makes one of it.
LEMMA AsksExactly ==
  ASSUME NEW frame, frame.text \in Seq(STRING), NEW name
  PROVE  Asks(frame, name) <=>
           /\ frame.op = 0 /\ frame.type \in MessageTypes
           /\ PrefixOf(Content(frame)) # 0
           /\ name = CommandName(Content(frame)) /\ name # <<>>
  <1> DEFINE content == Content(frame)
             k == PrefixOf(content)
             m == Mention(frame)
             begins(mention, i) == IsPrefix(mention \o CommandPrefixes[i], frame.text)
             named(mention, i) ==
               /\ mention = <<"@bot">> <=> frame.type = "GROUP_AT_MESSAGE_CREATE" /\ IsPrefix(<<"@bot">>, frame.text)
               /\ begins(mention, i) /\ \A j \in 1..i - 1 : ~begins(mention, j)
               /\ name = Lower(Beyond(frame.text, Len(mention \o CommandPrefixes[i]))) /\ name # <<>>
  <1>1. /\ DOMAIN CommandPrefixes = 1..Len(CommandPrefixes) /\ Len(CommandPrefixes) \in Nat
        /\ \A i \in 1..Len(CommandPrefixes) : CommandPrefixes[i] \in Seq(STRING)
    BY EventsAssumption
  <1>2. Asks(frame, name) <=>
          frame.op = 0 /\ frame.type \in MessageTypes /\
          \E i \in 1..Len(CommandPrefixes), mention \in {<<>>, <<"@bot">>} : named(mention, i)
    BY <1>1 DEF Asks
  <1>3. <<>> # <<"@bot">>
    <2>1. Len(<<>>) = 0 /\ Len(<<"@bot">>) = 1
      OBVIOUS
    <2> QED
      BY <2>1
  <1>4. ASSUME NEW i \in 1..Len(CommandPrefixes)
        PROVE  /\ begins(m, i) <=> IsPrefix(CommandPrefixes[i], content)
               /\ IsPrefix(CommandPrefixes[i], content) =>
                    Beyond(frame.text, Len(m \o CommandPrefixes[i])) = Beyond(content, Len(CommandPrefixes[i]))
    BY <1>1, ContentFacts
  <1>5. /\ k \in 0..Len(CommandPrefixes)
        /\ k = 0 => \A i \in 1..Len(CommandPrefixes) : ~IsPrefix(CommandPrefixes[i], content)
        /\ k # 0 => IsPrefix(CommandPrefixes[k], content)
        /\ \A i \in 1..k - 1 : ~IsPrefix(CommandPrefixes[i], content)
    BY PrefixOfFacts
  <1>6. CommandName(content) = Lower(Beyond(content, Len(CommandPrefixes[k])))
    BY DEF CommandName
  <1>7. m \in {<<>>, <<"@bot">>} /\ (m = <<"@bot">> <=> frame.type = "GROUP_AT_MESSAGE_CREATE" /\ IsPrefix(<<"@bot">>, frame.text))
    BY <1>3 DEF Mention
  <1> HIDE DEF content, k, m
  <1>8. ASSUME NEW i \in 1..Len(CommandPrefixes), NEW mention \in {<<>>, <<"@bot">>}, named(mention, i)
        PROVE  k # 0 /\ name = CommandName(content) /\ name # <<>>
    <2>1. mention = m
      BY <1>3, <1>7, <1>8
    <2>2. IsPrefix(CommandPrefixes[i], content) /\ \A j \in 1..i - 1 : ~IsPrefix(CommandPrefixes[j], content)
      <3>1. begins(m, i) /\ \A j \in 1..i - 1 : ~begins(m, j)
        BY <1>8, <2>1
      <3>2. \A j \in 1..i - 1 : j \in 1..Len(CommandPrefixes)
        BY <1>1
      <3> QED
        BY <1>4, <3>1, <3>2
    <2>3. i = k
      <3>1. k # 0 /\ ~(i < k)
        BY <1>1, <1>5, <2>2
      <3>2. ~(k < i)
        BY <1>1, <1>5, <2>2, <3>1
      <3> QED
        BY <1>1, <1>5, <3>1, <3>2
    <2>4. name = Lower(Beyond(content, Len(CommandPrefixes[i])))
      BY <1>4, <1>8, <2>1, <2>2
    <2> QED
      BY <1>6, <1>8, <1>1, <2>3, <2>4
  <1>9. ASSUME k # 0, name = CommandName(content), name # <<>>
        PROVE  k \in 1..Len(CommandPrefixes) /\ named(m, k)
    <2>1. k \in 1..Len(CommandPrefixes) /\ \A j \in 1..k - 1 : j \in 1..Len(CommandPrefixes)
      BY <1>1, <1>5, <1>9
    <2>2. begins(m, k) /\ \A j \in 1..k - 1 : ~begins(m, j)
      BY <1>4, <1>5, <1>9, <2>1
    <2>3. name = Lower(Beyond(frame.text, Len(m \o CommandPrefixes[k])))
      BY <1>4, <1>5, <1>6, <1>9, <2>1
    <2> QED
      BY <1>7, <1>9, <2>1, <2>2, <2>3
  <1> HIDE DEF named
  <1>10. (\E i \in 1..Len(CommandPrefixes), mention \in {<<>>, <<"@bot">>} : named(mention, i))
         <=> k # 0 /\ name = CommandName(content) /\ name # <<>>
    BY <1>7, <1>8, <1>9
  <1> QED
    BY <1>2, <1>10 DEF content, k

-----------------------------------------------------------------------------
(* The queues.                                                             *)

Elements(q) == {q[i] : i \in 1..Len(q)}

LEMMA ConcatElements ==
  ASSUME NEW q, IsSeq(q), NEW r, IsSeq(r)
  PROVE  IsSeq(q \o r) /\ Elements(q \o r) = Elements(q) \cup Elements(r)
  <1>1. /\ IsSeq(q \o r) /\ Len(q \o r) = Len(q) + Len(r) /\ Len(q) \in Nat /\ Len(r) \in Nat
        /\ \A i \in 1..Len(q) : (q \o r)[i] = q[i]
        /\ \A i \in 1..Len(r) : (q \o r)[Len(q) + i] = r[i]
        /\ \A i \in 1..Len(q \o r) : i > Len(q) => i - Len(q) \in 1..Len(r) /\ (q \o r)[i] = r[i - Len(q)]
    <2>1. Len(q) \in Nat /\ Len(r) \in Nat
      BY SeqFacts
    <2> QED
      BY <2>1, ConcatFacts
  <1>2. ASSUME NEW i \in 1..Len(q \o r) PROVE (q \o r)[i] \in Elements(q) \cup Elements(r)
    <2>1. CASE i > Len(q)
      BY <1>1, <2>1 DEF Elements
    <2>2. CASE i \in 1..Len(q)
      BY <1>1, <2>2 DEF Elements
    <2> QED
      BY <1>1, <2>1, <2>2
  <1>3. ASSUME NEW i \in 1..Len(q) PROVE q[i] \in Elements(q \o r)
    <2>1. i \in 1..Len(q \o r)
      BY <1>1
    <2> QED
      BY <1>1, <2>1 DEF Elements
  <1>4. ASSUME NEW i \in 1..Len(r) PROVE r[i] \in Elements(q \o r)
    <2>1. Len(q) + i \in 1..Len(q \o r)
      BY <1>1
    <2> QED
      BY <1>1, <2>1 DEF Elements
  <1> QED
    BY <1>1, <1>2, <1>3, <1>4 DEF Elements

LEMMA PartElements ==
  ASSUME NEW q, IsSeq(q), NEW n \in 0..Len(q)
  PROVE  /\ IsSeq(FirstOf(q, n)) /\ Len(FirstOf(q, n)) = n /\ \A i \in 1..n : FirstOf(q, n)[i] = q[i]
         /\ IsSeq(Beyond(q, n)) /\ Len(Beyond(q, n)) = Len(q) - n
         /\ \A i \in 1..Len(q) - n : Beyond(q, n)[i] = q[n + i]
         /\ Elements(FirstOf(q, n)) \subseteq Elements(q) /\ Elements(Beyond(q, n)) \subseteq Elements(q)
  <1>1. Len(q) \in Nat
    BY SeqFacts
  <1>2. IsSeq(FirstOf(q, n)) /\ Len(FirstOf(q, n)) = n /\ \A i \in 1..n : FirstOf(q, n)[i] = q[i]
    <2>1. 1 \in 1..Len(q) + 1 /\ 1 <= n + 1 /\ n - 1 + 1 = n /\ \A i \in 1..n : 1 + i - 1 = i
      BY <1>1
    <2> QED
      BY <2>1, SubSeqFacts DEF FirstOf
  <1>3. /\ IsSeq(Beyond(q, n)) /\ Len(Beyond(q, n)) = Len(q) - n
        /\ \A i \in 1..Len(q) - n : Beyond(q, n)[i] = q[n + i]
    <2>1. n + 1 \in 1..Len(q) + 1 /\ Len(q) \in 0..Len(q) /\ n + 1 <= Len(q) + 1
          /\ Len(q) - (n + 1) + 1 = Len(q) - n
      BY <1>1
    <2> DEFINE r == SubSeq(q, n + 1, Len(q))
    <2>2. IsSeq(r) /\ Len(r) = Len(q) - n /\ \A i \in 1..Len(q) - n : r[i] = q[n + 1 + i - 1]
      BY <2>1, SubSeqFacts
    <2> HIDE DEF r
    <2>3. \A i \in 1..Len(q) - n : r[i] = q[n + i]
      BY <1>1, <2>2
    <2> QED
      BY <2>2, <2>3 DEF Beyond, r
  <1>4. ASSUME NEW i \in 1..Len(q) - n PROVE n + i \in 1..Len(q)
    BY <1>1
  <1>5. 1..n \subseteq 1..Len(q)
    BY <1>1
  <1> QED
    BY <1>2, <1>3, <1>4, <1>5 DEF Elements

LEMMA FlattenElements ==
  ASSUME NEW s, IsSeq(s), \A i \in 1..Len(s) : IsSeq(s[i])
  PROVE  IsSeq(FlattenSeq(s)) /\ \A x \in Elements(FlattenSeq(s)) : \E i \in 1..Len(s) : x \in Elements(s[i])
  <1>1. InOrderFrom(FlattenSeq(s), s, Len(s))
    BY FlattenOrder
  <1> DEFINE t == FlattenSeq(s)
  <1> HIDE DEF t
  <1>2. IsSeq(t) /\ \A k \in 1..Len(t) : \E i \in 1..Len(s) : FromSection(t, k, s, i)
    BY <1>1 DEF InOrderFrom, t
  <1>3. ASSUME NEW k \in 1..Len(t) PROVE \E i \in 1..Len(s) : t[k] \in Elements(s[i])
    <2>1. PICK i \in 1..Len(s) : FromSection(t, k, s, i)
      BY <1>2
    <2>2. t[k] \in Elements(s[i])
      BY <2>1 DEF FromSection, Elements
    <2> QED
      BY <2>2
  <1>4. \A x \in Elements(t) : \E i \in 1..Len(s) : x \in Elements(s[i])
    BY <1>3 DEF Elements
  <1> QED
    BY <1>2, <1>4 DEF t

LEMMA BatchFacts ==
  ASSUME NEW q, IsSeq(q), NEW n \in BatchOf(q)
  PROVE  n \in 1..Len(q) /\ n \in Nat /\ Len(q) \in Nat
  BY SeqFacts, EventsAssumption DEF BatchOf

\* What a child task says of the frame it comes from.
Frame(x) == submitted[x.correlation]
FrameOK(x) == x.correlation \in 1..Len(submitted) /\ x.payload = Frame(x)
EventOK(x) == x.correlation \in 1..Len(submitted) /\ Frame(x).op = 0 /\ x.payload = EventOf(Frame(x))
CommandOK(x) == EventOK(x) /\ Asks(Frame(x), x.binding)
IsCommand(frame) == \E name : Asks(frame, name)

EventsOK ==
  /\ IsSeq(submitted) /\ Elements(submitted) \subseteq Frames
  /\ IsSeq(frameTasks) /\ IsSeq(ingestTasks) /\ IsSeq(parseTasks) /\ IsSeq(handleTasks) /\ IsSeq(taken)
  /\ \A x \in Elements(frameTasks) : FrameOK(x)
  /\ \A x \in Elements(ingestTasks) \cup Elements(parseTasks) : EventOK(x)
  /\ \A x \in Elements(handleTasks) \cup Elements(taken) : CommandOK(x)

LEMMA SingletonFacts ==
  ASSUME NEW x
  PROVE  /\ IsSeq(<<x>>) /\ Len(<<x>>) = 1 /\ <<x>>[1] = x /\ Elements(<<x>>) = {x}
         /\ IsSeq(<<>>) /\ Len(<<>>) = 0 /\ Elements(<<>>) = {}
  <1>1. <<x>> \in Seq({x}) /\ Len(<<x>>) = 1 /\ <<x>>[1] = x
    OBVIOUS
  <1>2. <<>> \in Seq({x}) /\ Len(<<>>) = 0
    OBVIOUS
  <1>3. IsSeq(<<x>>) /\ IsSeq(<<>>)
    BY <1>1, <1>2 DEF IsSeq
  <1>4. Elements(<<x>>) = {x} /\ Elements(<<>>) = {}
    BY <1>1, <1>2 DEF Elements
  <1> QED
    BY <1>1, <1>2, <1>3, <1>4

\* The mapper makes an event of a dispatch, and nothing of another frame.
LEMMA IngestFacts ==
  ASSUME NEW x, FrameOK(x)
  PROVE  /\ IsSeq(IngestTasks(x)) /\ Len(IngestTasks(x)) = IF Frame(x).op = 0 THEN 1 ELSE 0
         /\ \A y \in Elements(IngestTasks(x)) : EventOK(y) /\ y.correlation = x.correlation
  <1> DEFINE y == [id |-> x.id \o <<"ingest">>, correlation |-> x.correlation, payload |-> EventOf(x.payload)]
  <1>1. IngestTasks(x) = IF Frame(x).op # 0 THEN <<>> ELSE <<y>>
    BY DEF IngestTasks, FrameOK
  <1>2. y.correlation = x.correlation /\ y.payload = EventOf(x.payload)
    OBVIOUS
  <1> HIDE DEF y
  <1>3. Frame(x).op = 0 => EventOK(y)
    BY <1>2 DEF FrameOK, EventOK, Frame
  <1> QED
    BY <1>1, <1>2, <1>3, SingletonFacts

\* The parser makes a command of an event exactly if its frame asks for one.
LEMMA HandleFacts ==
  ASSUME NEW x, EventOK(x), Frame(x).text \in Seq(STRING)
  PROVE  /\ IsSeq(HandleTasks(x)) /\ Len(HandleTasks(x)) = IF IsCommand(Frame(x)) THEN 1 ELSE 0
         /\ \A y \in Elements(HandleTasks(x)) : CommandOK(y) /\ y.correlation = x.correlation
  <1> DEFINE frame == Frame(x)
             event == x.payload
             y == [id |-> <<"handle">> \o x.id, correlation |-> x.correlation,
                   binding |-> CommandName(event.text), payload |-> event]
             command == frame.type \in MessageTypes /\ PrefixOf(Content(frame)) # 0 /\ CommandName(Content(frame)) # <<>>
  <1>1. /\ event.kind = "message_created" <=> frame.type \in MessageTypes
        /\ frame.type \in MessageTypes => event.text = Content(frame)
        /\ frame.op = 0
    BY EventFields DEF EventOK, EventKind
  <1>2. HandleTasks(x) = IF command THEN <<y>> ELSE <<>>
    BY <1>1 DEF HandleTasks
  <1>3. y.correlation = x.correlation /\ y.payload = event /\ y.binding = CommandName(event.text)
    OBVIOUS
  <1>4. IsCommand(frame) <=> command
    BY <1>1, AsksExactly DEF IsCommand
  <1> HIDE DEF y
  <1>5. command => CommandOK(y)
    <2>1. command => Asks(frame, y.binding)
      BY <1>1, <1>3, AsksExactly
    <2> QED
      BY <1>3, <2>1 DEF CommandOK, EventOK, Frame
  <1> QED
    BY <1>2, <1>3, <1>4, <1>5, SingletonFacts

\* The sections of a sequence made from another one, entry by entry.
LEMMA SectionSeq ==
  ASSUME NEW n \in Nat, NEW s, s = [i \in 1..n |-> s[i]], \A i \in 1..n : IsSeq(s[i])
  PROVE  /\ IsSeq(s) /\ Len(s) = n /\ IsSeq(FlattenSeq(s)) /\ Len(FlattenSeq(s)) \in Nat
         /\ \A x \in Elements(FlattenSeq(s)) : \E i \in 1..n : x \in Elements(s[i])
  <1>1. IsSeq(s) /\ Len(s) = n
    BY SeqFromFunction
  <1>2. IsSeq(FlattenSeq(s)) /\ \A x \in Elements(FlattenSeq(s)) : \E i \in 1..n : x \in Elements(s[i])
    BY <1>1, FlattenElements
  <1>3. Len(FlattenSeq(s)) \in Nat
    BY <1>2, SeqFacts
  <1> QED
    BY <1>1, <1>2, <1>3

MatchSections(event) ==
  [s \in DOMAIN Subscriptions |-> IF Matches(event, Subscriptions[s]) THEN <<Subscriptions[s]>> ELSE <<>>]

LEMMA MatchingFacts ==
  ASSUME NEW event
  PROVE  /\ IsSeq(MatchSections(event)) /\ Len(MatchSections(event)) = Len(Subscriptions)
         /\ \A i \in 1..Len(Subscriptions) :
              /\ IsSeq(MatchSections(event)[i])
              /\ MatchSections(event)[i] = IF Matches(event, Subscriptions[i]) THEN <<Subscriptions[i]>> ELSE <<>>
         /\ Matching(event) = FlattenSeq(MatchSections(event))
         /\ IsSeq(Matching(event)) /\ Len(Matching(event)) \in Nat
  <1> DEFINE s == MatchSections(event)
  <1>1. Len(Subscriptions) \in Nat /\ DOMAIN Subscriptions = 1..Len(Subscriptions)
    BY EventsAssumption
  <1>2. s = [i \in 1..Len(Subscriptions) |-> IF Matches(event, Subscriptions[i]) THEN <<Subscriptions[i]>> ELSE <<>>]
    BY <1>1 DEF MatchSections
  <1>3. /\ s = [i \in 1..Len(Subscriptions) |-> s[i]]
        /\ \A i \in 1..Len(Subscriptions) : s[i] = IF Matches(event, Subscriptions[i]) THEN <<Subscriptions[i]>> ELSE <<>>
    BY <1>2
  <1>4. Matching(event) = FlattenSeq(s)
    BY DEF Matching, MatchSections
  <1> HIDE DEF s
  <1>5. \A i \in 1..Len(Subscriptions) : IsSeq(s[i])
    BY <1>3, SingletonFacts
  <1>6. IsSeq(s) /\ Len(s) = Len(Subscriptions) /\ IsSeq(FlattenSeq(s)) /\ Len(FlattenSeq(s)) \in Nat
    BY <1>1, <1>3, <1>5, SectionSeq
  <1> QED
    BY <1>3, <1>4, <1>5, <1>6 DEF s

\* A dispatched task carries the correlation and the event of the task it is made from.
LEMMA DispatchFacts ==
  ASSUME NEW batch, NEW i
  PROVE  /\ IsSeq(DispatchTasks(batch, i)) /\ Len(DispatchTasks(batch, i)) = Len(Matching(batch[i].payload))
         /\ \A j \in 1..Len(Matching(batch[i].payload)) :
              DispatchTasks(batch, i)[j].protocol = Matching(batch[i].payload)[j].protocol
         /\ \A y \in Elements(DispatchTasks(batch, i)) :
              y.correlation = batch[i].correlation /\ y.payload = batch[i].payload
  <1> DEFINE d == DispatchTasks(batch, i)
             list == Matching(batch[i].payload)
             e(j) == [id |-> <<"dispatch", batch[i].payload.event, sequence + Before(batch, i) + j>>,
                      correlation |-> batch[i].correlation, protocol |-> list[j].protocol, payload |-> batch[i].payload]
  <1>1. Len(list) \in Nat
    BY MatchingFacts
  <1>2. d = [j \in 1..Len(list) |-> e(j)]
    BY DEF DispatchTasks
  <1>3. \A j \in 1..Len(list) : d[j] = e(j)
    BY <1>2
  <1>4. d = [j \in 1..Len(list) |-> d[j]]
    BY <1>2
  <1>5. \A j \in 1..Len(list) :
          d[j].correlation = batch[i].correlation /\ d[j].payload = batch[i].payload /\ d[j].protocol = list[j].protocol
    <2>1. \A j : e(j).correlation = batch[i].correlation /\ e(j).payload = batch[i].payload /\ e(j).protocol = list[j].protocol
      OBVIOUS
    <2> HIDE DEF e, d, list
    <2> QED
      BY <1>3, <2>1
  <1> HIDE DEF d, list
  <1>6. IsSeq(d) /\ Len(d) = Len(list)
    BY <1>1, <1>4, SeqFromFunction
  <1>7. \A y \in Elements(d) : y.correlation = batch[i].correlation /\ y.payload = batch[i].payload
    BY <1>5, <1>6 DEF Elements
  <1> QED
    BY <1>5, <1>6, <1>7 DEF d, list

ProtocolSections(children, protocol) ==
  [c \in DOMAIN children |-> IF children[c].protocol = protocol THEN <<children[c]>> ELSE <<>>]

LEMMA ProtocolFacts ==
  ASSUME NEW children, IsSeq(children), NEW protocol
  PROVE  /\ IsSeq(ProtocolSections(children, protocol)) /\ Len(ProtocolSections(children, protocol)) = Len(children)
         /\ \A c \in 1..Len(children) :
              /\ IsSeq(ProtocolSections(children, protocol)[c])
              /\ ProtocolSections(children, protocol)[c] = IF children[c].protocol = protocol THEN <<children[c]>> ELSE <<>>
              /\ \A y \in Elements(ProtocolSections(children, protocol)[c]) : y = children[c]
         /\ OfProtocol(children, protocol) = FlattenSeq(ProtocolSections(children, protocol))
         /\ IsSeq(OfProtocol(children, protocol))
         /\ Elements(OfProtocol(children, protocol)) \subseteq Elements(children)
  <1> DEFINE s == ProtocolSections(children, protocol)
  <1>1. Len(children) \in Nat /\ DOMAIN children = 1..Len(children)
    BY SeqFacts
  <1>2. s = [c \in 1..Len(children) |-> IF children[c].protocol = protocol THEN <<children[c]>> ELSE <<>>]
    BY <1>1 DEF ProtocolSections
  <1>3. /\ s = [c \in 1..Len(children) |-> s[c]]
        /\ \A c \in 1..Len(children) : s[c] = IF children[c].protocol = protocol THEN <<children[c]>> ELSE <<>>
    BY <1>2
  <1>4. OfProtocol(children, protocol) = FlattenSeq(s)
    BY DEF OfProtocol, ProtocolSections
  <1> HIDE DEF s
  <1>5. ASSUME NEW c \in 1..Len(children)
        PROVE  IsSeq(s[c]) /\ (\A y \in Elements(s[c]) : y = children[c]) /\ children[c] \in Elements(children)
    <2>1. IsSeq(s[c]) /\ \A y \in Elements(s[c]) : y = children[c]
      <3>1. /\ IsSeq(<<children[c]>>) /\ Elements(<<children[c]>>) = {children[c]}
            /\ IsSeq(<<>>) /\ Elements(<<>>) = {}
        BY SingletonFacts
      <3>2. s[c] = <<children[c]>> \/ s[c] = <<>>
        BY <1>3
      <3>3. CASE s[c] = <<children[c]>>
        BY <3>1, <3>3
      <3>4. CASE s[c] = <<>>
        BY <3>1, <3>4
      <3> QED
        BY <3>2, <3>3, <3>4
    <2>2. children[c] \in Elements(children)
      BY DEF Elements
    <2> QED
      BY <2>1, <2>2
  <1>6. /\ IsSeq(s) /\ Len(s) = Len(children) /\ IsSeq(FlattenSeq(s))
        /\ \A x \in Elements(FlattenSeq(s)) : \E c \in 1..Len(children) : x \in Elements(s[c])
    BY <1>1, <1>3, <1>5, SectionSeq
  <1>7. Elements(FlattenSeq(s)) \subseteq Elements(children)
    BY <1>5, <1>6
  <1> QED
    BY <1>3, <1>4, <1>5, <1>6, <1>7 DEF s

-----------------------------------------------------------------------------
(* The runners keep the order of the frames.                               *)

Sorted(q) == \A i, j \in 1..Len(q) : i < j => q[i].correlation <= q[j].correlation
Numbered(q) == \A x \in Elements(q) : x.correlation \in Nat

\* Each entry of out carries the correlation of an entry of b, and they are in order.
Carries(y, b) == \E i \in 1..Len(b) : y.correlation = b[i].correlation
Made(out, b) ==
  /\ IsSeq(out) /\ Sorted(out)
  /\ \A y \in Elements(out) : Carries(y, b)

LEMMA MadeFlatten ==
  ASSUME NEW b, IsSeq(b), Sorted(b), Numbered(b),
         NEW s, IsSeq(s), Len(s) = Len(b),
         \A i \in 1..Len(b) : IsSeq(s[i]) /\ \A y \in Elements(s[i]) : y.correlation = b[i].correlation
  PROVE  Made(FlattenSeq(s), b)
  <1> DEFINE t == FlattenSeq(s)
  <1>1. InOrderFrom(t, s, Len(s))
    BY FlattenOrder
  <1> HIDE DEF t
  <1>2. ASSUME NEW k \in 1..Len(t), NEW i \in 1..Len(b), FromSection(t, k, s, i)
        PROVE  t[k].correlation = b[i].correlation
    <2>1. t[k] \in Elements(s[i])
      BY <1>2 DEF FromSection, Elements
    <2> QED
      BY <2>1
  <1>3. ASSUME NEW k \in 1..Len(t) PROVE Carries(t[k], b)
    <2>1. PICK i \in 1..Len(b) : FromSection(t, k, s, i)
      BY <1>1 DEF InOrderFrom
    <2> QED
      BY <1>2, <2>1 DEF Carries
  <1>4. ASSUME NEW k \in 1..Len(t), NEW l \in 1..Len(t), k < l
        PROVE  t[k].correlation <= t[l].correlation
    <2>1. PICK i \in 1..Len(b), j \in 1..Len(b) : i <= j /\ FromSection(t, k, s, i) /\ FromSection(t, l, s, j)
      BY <1>1, <1>4 DEF InOrderFrom
    <2>2. t[k].correlation = b[i].correlation /\ t[l].correlation = b[j].correlation
      BY <1>2, <2>1
    <2>3. b[i].correlation \in Nat
      BY DEF Numbered, Elements
    <2>4. b[i].correlation <= b[j].correlation
      <3>1. i \in Int /\ j \in Int /\ (i < j \/ i = j)
        BY <2>1, SeqFacts
      <3> QED
        BY <2>3, <3>1 DEF Sorted
    <2> QED
      BY <2>2, <2>4
  <1>5. IsSeq(t)
    BY <1>1 DEF InOrderFrom
  <1>6. \A y \in Elements(t) : Carries(y, b)
    BY <1>3 DEF Elements
  <1>7. Sorted(t)
    BY <1>4 DEF Sorted
  <1> QED
    BY <1>5, <1>6, <1>7 DEF Made, t

LEMMA MadeAgain ==
  ASSUME NEW b, NEW c, NEW d, IsSeq(c), Made(c, b), Made(d, c)
  PROVE  Made(d, b)
  <1> SUFFICES ASSUME NEW y \in Elements(d) PROVE Carries(y, b)
    BY DEF Made
  <1>1. PICK i \in 1..Len(c) : y.correlation = c[i].correlation
    BY DEF Made, Carries
  <1>2. c[i] \in Elements(c)
    BY DEF Elements
  <1>3. PICK k \in 1..Len(b) : c[i].correlation = b[k].correlation
    BY <1>2 DEF Made, Carries
  <1> QED
    BY <1>1, <1>3 DEF Carries

-----------------------------------------------------------------------------
(* What the runners make of the first n tasks of their queues.             *)

Mapped(n) == FlattenSeq([i \in 1..n |-> IngestTasks(frameTasks[i])])
Dispatched(n) == FlattenSeq([i \in 1..n |-> DispatchTasks(FirstOf(ingestTasks, n), i)])
Parsed(n) == FlattenSeq([i \in 1..n |-> HandleTasks(parseTasks[i])])

\* y comes from the i-th task of the queue q.
From(y, q, i) == y.correlation = q[i].correlation

LEMMA MappedFacts ==
  ASSUME EventsOK, NEW n \in 0..Len(frameTasks)
  PROVE  IsSeq(Mapped(n)) /\ \A y \in Elements(Mapped(n)) : EventOK(y)
  <1> DEFINE s == [i \in 1..n |-> IngestTasks(frameTasks[i])]
  <1>1. n \in Nat /\ 1..n \subseteq 1..Len(frameTasks)
    BY SeqFacts DEF EventsOK
  <1>2. s = [i \in 1..n |-> s[i]] /\ \A i \in 1..n : s[i] = IngestTasks(frameTasks[i])
    OBVIOUS
  <1>3. Mapped(n) = FlattenSeq(s)
    BY DEF Mapped
  <1> HIDE DEF s
  <1>4. ASSUME NEW i \in 1..n PROVE IsSeq(s[i]) /\ \A y \in Elements(s[i]) : EventOK(y)
    <2>1. FrameOK(frameTasks[i])
      BY <1>1 DEF EventsOK, Elements
    <2> QED
      BY <1>2, <2>1, IngestFacts
  <1>5. IsSeq(FlattenSeq(s)) /\ \A x \in Elements(FlattenSeq(s)) : \E i \in 1..n : x \in Elements(s[i])
    BY <1>1, <1>2, <1>4, SectionSeq
  <1> QED
    BY <1>3, <1>4, <1>5

LEMMA TextOfFrame ==
  ASSUME EventsOK, NEW x, EventOK(x)
  PROVE  Frame(x).text \in Seq(STRING)
  <1>1. Frame(x) \in Elements(submitted)
    BY DEF EventOK, Elements, Frame
  <1>2. Frame(x) \in Frames
    BY <1>1 DEF EventsOK
  <1> QED
    BY <1>2, EventsAssumption

LEMMA ParsedFacts ==
  ASSUME EventsOK, NEW n \in 0..Len(parseTasks)
  PROVE  IsSeq(Parsed(n)) /\ \A y \in Elements(Parsed(n)) : CommandOK(y)
  <1> DEFINE s == [i \in 1..n |-> HandleTasks(parseTasks[i])]
  <1>1. n \in Nat /\ 1..n \subseteq 1..Len(parseTasks)
    BY SeqFacts DEF EventsOK
  <1>2. s = [i \in 1..n |-> s[i]] /\ \A i \in 1..n : s[i] = HandleTasks(parseTasks[i])
    OBVIOUS
  <1>3. Parsed(n) = FlattenSeq(s)
    BY DEF Parsed
  <1> HIDE DEF s
  <1>4. ASSUME NEW i \in 1..n PROVE IsSeq(s[i]) /\ \A y \in Elements(s[i]) : CommandOK(y)
    <2>1. EventOK(parseTasks[i])
      BY <1>1 DEF EventsOK, Elements
    <2> QED
      BY <1>2, <2>1, TextOfFrame, HandleFacts
  <1>5. IsSeq(FlattenSeq(s)) /\ \A x \in Elements(FlattenSeq(s)) : \E i \in 1..n : x \in Elements(s[i])
    BY <1>1, <1>2, <1>4, SectionSeq
  <1> QED
    BY <1>3, <1>4, <1>5

LEMMA DispatchedFacts ==
  ASSUME EventsOK, NEW n \in 0..Len(ingestTasks)
  PROVE  IsSeq(Dispatched(n)) /\ \A y \in Elements(Dispatched(n)) : EventOK(y)
  <1> DEFINE b == FirstOf(ingestTasks, n)
             s == [i \in 1..n |-> DispatchTasks(b, i)]
  <1>1. n \in Nat /\ 1..n \subseteq 1..Len(ingestTasks)
    BY SeqFacts DEF EventsOK
  <1>2. s = [i \in 1..n |-> s[i]] /\ \A i \in 1..n : s[i] = DispatchTasks(b, i)
    OBVIOUS
  <1>3. Dispatched(n) = FlattenSeq(s)
    BY DEF Dispatched
  <1>4. \A i \in 1..n : b[i] = ingestTasks[i]
    BY PartElements DEF EventsOK
  <1> HIDE DEF s, b
  <1>5. ASSUME NEW i \in 1..n PROVE IsSeq(s[i]) /\ \A y \in Elements(s[i]) : EventOK(y)
    <2>1. EventOK(b[i])
      BY <1>1, <1>4 DEF EventsOK, Elements
    <2>2. IsSeq(s[i]) /\ \A y \in Elements(s[i]) : y.correlation = b[i].correlation /\ y.payload = b[i].payload
      BY <1>2, DispatchFacts
    <2> QED
      BY <2>1, <2>2 DEF EventOK, Frame
  <1>6. IsSeq(FlattenSeq(s)) /\ \A x \in Elements(FlattenSeq(s)) : \E i \in 1..n : x \in Elements(s[i])
    BY <1>1, <1>2, <1>5, SectionSeq
  <1> QED
    BY <1>3, <1>5, <1>6

-----------------------------------------------------------------------------
(* Every task on the way is made of the frame whose number it carries.     *)

\* The frames that were submitted stay what they are.
FramesKept ==
  /\ IsSeq(submitted') /\ Len(submitted) \in Nat /\ Len(submitted') \in Nat
  /\ Len(submitted) <= Len(submitted')
  /\ \A c \in 1..Len(submitted) : submitted'[c] = submitted[c]

LEMMA FramesKeptFacts ==
  ASSUME FramesKept, NEW x
  PROVE  /\ FrameOK(x) => FrameOK(x)'
         /\ EventOK(x) => EventOK(x)'
         /\ CommandOK(x) => CommandOK(x)'
  <1>1. x.correlation \in 1..Len(submitted) =>
          x.correlation \in 1..Len(submitted') /\ submitted'[x.correlation] = submitted[x.correlation]
    BY DEF FramesKept
  <1> QED
    BY <1>1 DEF FrameOK, EventOK, CommandOK, Frame

LEMMA SubmitFrameFacts ==
  ASSUME EventsOK, SubmitFrame
  PROVE  /\ FramesKept /\ Len(submitted') = Len(submitted) + 1
         /\ Elements(submitted') \subseteq Frames
         /\ \E task : /\ frameTasks' = frameTasks \o <<task>> /\ FrameOK(task)'
                      /\ task.correlation = Len(submitted) + 1
         /\ UNCHANGED <<ingestTasks, parseTasks, handleTasks, taken>>
  <1>1. PICK frame \in Frames :
          /\ submitted' = Append(submitted, frame)
          /\ frameTasks' = Append(frameTasks, [id |-> <<Len(submitted) + 1>>, correlation |-> Len(submitted) + 1,
                                               payload |-> frame])
    BY DEF SubmitFrame
  <1>0. PICK task : task = [id |-> <<Len(submitted) + 1>>, correlation |-> Len(submitted) + 1, payload |-> frame]
    OBVIOUS
  <1>2. Len(submitted) \in Nat /\ IsSeq(submitted) /\ IsSeq(frameTasks)
    BY SeqFacts DEF EventsOK
  <1>3. /\ IsSeq(submitted') /\ Len(submitted') = Len(submitted) + 1
        /\ \A i \in 1..Len(submitted) : submitted'[i] = submitted[i]
        /\ submitted'[Len(submitted) + 1] = frame
    BY <1>1, <1>2, AppendFacts
  <1>4. FramesKept
    BY <1>2, <1>3 DEF FramesKept
  <1>5. Elements(submitted') \subseteq Frames
    <2> SUFFICES ASSUME NEW i \in 1..Len(submitted') PROVE submitted'[i] \in Frames
      BY DEF Elements
    <2>1. i \in 1..Len(submitted) \/ i = Len(submitted) + 1
      BY <1>2, <1>3
    <2>2. \A k \in 1..Len(submitted) : submitted[k] \in Frames
      BY DEF EventsOK, Elements
    <2> QED
      BY <1>1, <1>3, <2>1, <2>2
  <1>6. task.correlation = Len(submitted) + 1 /\ task.payload = frame
    BY <1>0
  <1>7. frameTasks' = frameTasks \o <<task>>
    <2>1. PICK S : frameTasks \in Seq(S)
      BY <1>2 DEF IsSeq
    <2>2. frameTasks \in Seq(S \cup {task}) /\ task \in S \cup {task}
      BY <2>1
    <2>3. Append(frameTasks, task) = frameTasks \o <<task>>
      BY <2>2
    <2> QED
      BY <1>0, <1>1, <2>3
  <1>8. FrameOK(task)'
    <2>1. Len(submitted) + 1 \in 1..Len(submitted')
      BY <1>2, <1>3
    <2> QED
      BY <1>3, <1>6, <2>1 DEF FrameOK, Frame
  <1> QED
    BY <1>3, <1>4, <1>5, <1>6, <1>7, <1>8 DEF SubmitFrame

\* What each runner does to the queues.
MapsFrames(n) ==
  /\ n \in 1..Len(frameTasks)
  /\ ingestTasks' = ingestTasks \o Mapped(n) /\ frameTasks' = Beyond(frameTasks, n)
  /\ UNCHANGED <<submitted, parseTasks, handleTasks, taken>>
Routes(n) ==
  /\ n \in 1..Len(ingestTasks)
  /\ parseTasks' = parseTasks \o OfProtocol(Dispatched(n), "parse") /\ ingestTasks' = Beyond(ingestTasks, n)
  /\ UNCHANGED <<submitted, frameTasks, handleTasks, taken>>
Parses(n) ==
  /\ n \in 1..Len(parseTasks)
  /\ handleTasks' = handleTasks \o Parsed(n) /\ parseTasks' = Beyond(parseTasks, n)
  /\ UNCHANGED <<submitted, frameTasks, ingestTasks, taken>>
Takes ==
  /\ 1 \in 1..Len(handleTasks)
  /\ taken' = taken \o <<handleTasks[1]>> /\ handleTasks' = Beyond(handleTasks, 1)
  /\ UNCHANGED <<submitted, frameTasks, ingestTasks, parseTasks>>
NoEvents == UNCHANGED <<submitted, frameTasks, ingestTasks, parseTasks, handleTasks, taken>>

EventMoves ==
  \/ SubmitFrame \/ Takes \/ NoEvents
  \/ \E n : MapsFrames(n) \/ Routes(n) \/ Parses(n)

LEMMA HeadIsFirst ==
  ASSUME NEW q, IsSeq(q), q # <<>>
  PROVE  1 \in 1..Len(q) /\ Head(q) = q[1] /\ Tail(q) = Beyond(q, 1)
  <1>1. PICK S : q \in Seq(S)
    BY DEF IsSeq
  <1>2. /\ 1 \in 1..Len(q) /\ Head(q) = q[1] /\ Len(q) \in Nat
        /\ Tail(q) \in Seq(S) /\ Len(Tail(q)) = Len(q) - 1
    BY <1>1
  <1>3. \A i \in 1..Len(Tail(q)) : Tail(q)[i] = q[i + 1]
    BY <1>1, HeadTailProperties
  <1>4. IsSeq(Beyond(q, 1)) /\ Len(Beyond(q, 1)) = Len(q) - 1 /\ \A i \in 1..Len(q) - 1 : Beyond(q, 1)[i] = q[1 + i]
    <2>1. 1 \in 0..Len(q)
      BY <1>2
    <2> QED
      BY <2>1, PartElements
  <1> DEFINE t == Tail(q)
             b == Beyond(q, 1)
  <1>5. IsSeq(t)
    BY <1>2 DEF IsSeq
  <1> HIDE DEF t, b
  <1>6. \A i \in 1..Len(t) : t[i] = b[i]
    <2>1. \A i \in 1..Len(t) : t[i] = q[i + 1]
      BY <1>3 DEF t
    <2>2. \A i \in 1..Len(q) - 1 : b[i] = q[1 + i]
      BY <1>4 DEF b
    <2>3. \A i \in 1..Len(q) - 1 : 1 + i = i + 1
      BY <1>2
    <2> QED
      BY <1>2, <2>1, <2>2, <2>3 DEF t
  <1>7. t = b
    BY <1>2, <1>4, <1>5, <1>6, SameSeq DEF t, b
  <1> QED
    BY <1>2, <1>7 DEF t, b

LEMMA FlowEvents ==
  ASSUME EventsOK, [FlowNext]_flowVars
  PROVE  EventMoves
  <1>1. CASE SubmitFrame
    BY <1>1 DEF EventMoves
  <1>2. ASSUME MapFrames PROVE \E n : MapsFrames(n)
    <2>1. PICK n \in BatchOf(frameTasks) :
            /\ ingestTasks' = ingestTasks \o FlattenSeq([i \in 1..n |-> IngestTasks(frameTasks[i])])
            /\ frameTasks' = Beyond(frameTasks, n)
            /\ UNCHANGED <<submitted, parseTasks, handleTasks, eventTasks, sequence, taken>>
      BY <1>2 DEF MapFrames
    <2>2. n \in 1..Len(frameTasks)
      BY BatchFacts DEF EventsOK
    <2>3. MapsFrames(n)
      BY <2>1, <2>2 DEF MapsFrames, Mapped
    <2> QED
      BY <2>3
  <1>3. ASSUME Route PROVE \E n : Routes(n)
    <2>1. PICK n \in BatchOf(ingestTasks) :
            /\ parseTasks' = parseTasks \o OfProtocol(FlattenSeq([i \in 1..n |-> DispatchTasks(FirstOf(ingestTasks, n), i)]), "parse")
            /\ ingestTasks' = Beyond(ingestTasks, n)
            /\ UNCHANGED <<submitted, frameTasks, handleTasks, taken>>
      BY <1>3 DEF Route
    <2>2. n \in 1..Len(ingestTasks)
      BY BatchFacts DEF EventsOK
    <2>3. Routes(n)
      BY <2>1, <2>2 DEF Routes, Dispatched
    <2> QED
      BY <2>3
  <1>4. ASSUME ParseCommands PROVE \E n : Parses(n)
    <2>1. PICK n \in BatchOf(parseTasks) :
            /\ handleTasks' = handleTasks \o FlattenSeq([i \in 1..n |-> HandleTasks(parseTasks[i])])
            /\ parseTasks' = Beyond(parseTasks, n)
            /\ UNCHANGED <<submitted, frameTasks, ingestTasks, eventTasks, sequence, taken>>
      BY <1>4 DEF ParseCommands
    <2>2. n \in 1..Len(parseTasks)
      BY BatchFacts DEF EventsOK
    <2>3. Parses(n)
      BY <2>1, <2>2 DEF Parses, Parsed
    <2> QED
      BY <2>3
  <1>5. ASSUME TakeCommand PROVE Takes
    <2>1. /\ handleTasks # <<>>
          /\ taken' = Append(taken, Head(handleTasks)) /\ handleTasks' = Tail(handleTasks)
          /\ UNCHANGED <<submitted, frameTasks, ingestTasks, parseTasks>>
      BY <1>5 DEF TakeCommand
    <2>2. 1 \in 1..Len(handleTasks) /\ Head(handleTasks) = handleTasks[1] /\ Tail(handleTasks) = Beyond(handleTasks, 1)
      BY <2>1, HeadIsFirst DEF EventsOK
    <2>3. PICK S : taken \in Seq(S)
      BY DEF EventsOK, IsSeq
    <2>4. PICK x : x = Head(handleTasks)
      OBVIOUS
    <2>5. taken \in Seq(S \cup {x}) /\ x \in S \cup {x}
      BY <2>3
    <2>6. Append(taken, x) = taken \o <<x>>
      BY <2>5
    <2> QED
      BY <2>1, <2>2, <2>4, <2>6 DEF Takes
  <1>6. CASE Handle
    BY <1>5, <1>6 DEF Handle, EventMoves
  <1>7. CASE UNCHANGED eventVars
    BY <1>7 DEF EventMoves, NoEvents, eventVars
  <1>8. CASE SubmitFrame \/ Runners
    BY <1>2, <1>3, <1>4, <1>8 DEF Runners, EventMoves
  <1>9. [FlowNext]_flowVars => SubmitFrame \/ Runners \/ Handle \/ UNCHANGED eventVars
    BY DEF FlowNext, flowVars, SubmitOther
  <1> QED
    BY <1>6, <1>7, <1>8, <1>9

LEMMA EventsStay ==
  ASSUME EventsOK, UNCHANGED submitted
  PROVE  FramesKept /\ Elements(submitted') \subseteq Frames
  BY SeqFacts DEF EventsOK, FramesKept, Elements

LEMMA EventsStep ==
  ASSUME EventsOK, EventMoves
  PROVE  EventsOK' /\ FramesKept
  <1>1. /\ \A x \in Elements(frameTasks) : FrameOK(x)
        /\ \A x \in Elements(ingestTasks) : EventOK(x)
        /\ \A x \in Elements(parseTasks) : EventOK(x)
        /\ \A x \in Elements(handleTasks) : CommandOK(x)
        /\ \A x \in Elements(taken) : CommandOK(x)
        /\ IsSeq(frameTasks) /\ IsSeq(ingestTasks) /\ IsSeq(parseTasks) /\ IsSeq(handleTasks) /\ IsSeq(taken)
    BY DEF EventsOK
  <1>2. ASSUME FramesKept, Elements(submitted') \subseteq Frames,
               IsSeq(frameTasks'), IsSeq(ingestTasks'), IsSeq(parseTasks'), IsSeq(handleTasks'), IsSeq(taken'),
               \A x \in Elements(frameTasks') : FrameOK(x)',
               \A x \in Elements(ingestTasks') : EventOK(x), \A x \in Elements(parseTasks') : EventOK(x),
               \A x \in Elements(handleTasks') : CommandOK(x), \A x \in Elements(taken') : CommandOK(x)
        PROVE  EventsOK'
    <2>1. /\ \A x \in Elements(ingestTasks') \cup Elements(parseTasks') : EventOK(x)'
          /\ \A x \in Elements(handleTasks') \cup Elements(taken') : CommandOK(x)'
      BY <1>2, FramesKeptFacts
    <2>2. IsSeq(submitted')
      BY <1>2 DEF FramesKept
    <2> QED
      BY <1>2, <2>1, <2>2 DEF EventsOK
  <1>3. ASSUME UNCHANGED submitted, NEW x PROVE FrameOK(x) => FrameOK(x)'
    BY <1>3, EventsStay, FramesKeptFacts
  <1>4. CASE SubmitFrame
    <2>1. /\ FramesKept /\ Elements(submitted') \subseteq Frames
          /\ UNCHANGED <<ingestTasks, parseTasks, handleTasks, taken>>
      BY <1>4, SubmitFrameFacts
    <2>2. PICK task : frameTasks' = frameTasks \o <<task>> /\ FrameOK(task)'
      BY <1>4, SubmitFrameFacts
    <2>3. IsSeq(<<task>>) /\ Elements(<<task>>) = {task}
      BY SingletonFacts
    <2>4. IsSeq(frameTasks') /\ Elements(frameTasks') = Elements(frameTasks) \cup {task}
      BY <1>1, <2>2, <2>3, ConcatElements
    <2>5. \A x \in Elements(frameTasks') : FrameOK(x)'
      BY <1>1, <2>1, <2>2, <2>4, FramesKeptFacts
    <2> QED
      BY <1>1, <1>2, <2>1, <2>4, <2>5
  <1>5. ASSUME NEW n, MapsFrames(n) PROVE EventsOK' /\ FramesKept
    <2>1. n \in 0..Len(frameTasks)
      BY <1>5, SeqFacts, <1>1 DEF MapsFrames
    <2>2. IsSeq(Mapped(n)) /\ \A y \in Elements(Mapped(n)) : EventOK(y)
      BY <2>1, MappedFacts
    <2>3. IsSeq(ingestTasks') /\ Elements(ingestTasks') = Elements(ingestTasks) \cup Elements(Mapped(n))
      BY <1>1, <1>5, <2>2, ConcatElements DEF MapsFrames
    <2>4. IsSeq(frameTasks') /\ Elements(frameTasks') \subseteq Elements(frameTasks)
      BY <1>1, <1>5, <2>1, PartElements DEF MapsFrames
    <2>5. UNCHANGED <<submitted, parseTasks, handleTasks, taken>>
      BY <1>5 DEF MapsFrames
    <2> QED
      BY <1>1, <1>2, <1>3, <2>2, <2>3, <2>4, <2>5, EventsStay
  <1>6. ASSUME NEW n, Routes(n) PROVE EventsOK' /\ FramesKept
    <2>1. n \in 0..Len(ingestTasks)
      BY <1>6, SeqFacts, <1>1 DEF Routes
    <2> DEFINE out == OfProtocol(Dispatched(n), "parse")
    <2>2. IsSeq(out) /\ \A y \in Elements(out) : EventOK(y)
      <3>1. IsSeq(Dispatched(n)) /\ \A y \in Elements(Dispatched(n)) : EventOK(y)
        BY <2>1, DispatchedFacts
      <3>2. IsSeq(out) /\ Elements(out) \subseteq Elements(Dispatched(n))
        BY <3>1, ProtocolFacts
      <3> QED
        BY <3>1, <3>2
    <2>3. IsSeq(parseTasks') /\ Elements(parseTasks') = Elements(parseTasks) \cup Elements(out)
      BY <1>1, <1>6, <2>2, ConcatElements DEF Routes
    <2>4. IsSeq(ingestTasks') /\ Elements(ingestTasks') \subseteq Elements(ingestTasks)
      BY <1>1, <1>6, <2>1, PartElements DEF Routes
    <2>5. UNCHANGED <<submitted, frameTasks, handleTasks, taken>>
      BY <1>6 DEF Routes
    <2> QED
      BY <1>1, <1>2, <1>3, <2>2, <2>3, <2>4, <2>5, EventsStay
  <1>7. ASSUME NEW n, Parses(n) PROVE EventsOK' /\ FramesKept
    <2>1. n \in 0..Len(parseTasks)
      BY <1>7, SeqFacts, <1>1 DEF Parses
    <2>2. IsSeq(Parsed(n)) /\ \A y \in Elements(Parsed(n)) : CommandOK(y)
      BY <2>1, ParsedFacts
    <2>3. IsSeq(handleTasks') /\ Elements(handleTasks') = Elements(handleTasks) \cup Elements(Parsed(n))
      BY <1>1, <1>7, <2>2, ConcatElements DEF Parses
    <2>4. IsSeq(parseTasks') /\ Elements(parseTasks') \subseteq Elements(parseTasks)
      BY <1>1, <1>7, <2>1, PartElements DEF Parses
    <2>5. UNCHANGED <<submitted, frameTasks, ingestTasks, taken>>
      BY <1>7 DEF Parses
    <2> QED
      BY <1>1, <1>2, <1>3, <2>2, <2>3, <2>4, <2>5, EventsStay
  <1>8. CASE Takes
    <2>1. 1 \in 0..Len(handleTasks) /\ handleTasks[1] \in Elements(handleTasks)
      BY <1>8, SeqFacts, <1>1 DEF Takes, Elements
    <2>2. IsSeq(<<handleTasks[1]>>) /\ Elements(<<handleTasks[1]>>) = {handleTasks[1]}
      BY SingletonFacts
    <2>3. IsSeq(taken') /\ Elements(taken') = Elements(taken) \cup {handleTasks[1]}
      BY <1>1, <1>8, <2>2, ConcatElements DEF Takes
    <2>4. IsSeq(handleTasks') /\ Elements(handleTasks') \subseteq Elements(handleTasks)
      BY <1>1, <1>8, <2>1, PartElements DEF Takes
    <2>5. UNCHANGED <<submitted, frameTasks, ingestTasks, parseTasks>>
      BY <1>8 DEF Takes
    <2> QED
      BY <1>1, <1>2, <1>3, <2>1, <2>3, <2>4, <2>5, EventsStay
  <1>9. CASE NoEvents
    <2>1. UNCHANGED <<submitted, frameTasks, ingestTasks, parseTasks, handleTasks, taken>>
      BY <1>9 DEF NoEvents
    <2> QED
      BY <1>1, <1>2, <1>3, <2>1, EventsStay
  <1>10. CASE SubmitFrame
    BY <1>4, <1>10, SubmitFrameFacts
  <1> QED
    BY <1>4, <1>5, <1>6, <1>7, <1>8, <1>9, <1>10, EventsStay DEF EventMoves, Takes, NoEvents

\* Whatever is on its way from a frame to a handler is of a frame that was
\* submitted, the event of that frame when it is past the mapper, and a command
\* that the frame asks for when it is past the parser (gateway/mapper.rs,
\* plugin-bot-event-router, plugin-bot-command).
THEOREM EventsComeFromFrames == FlowSpec => []EventsOK
  <1>1. FlowInit => EventsOK
    <2> SUFFICES ASSUME FlowInit PROVE EventsOK
      OBVIOUS
    <2>1. IsSeq(<<>>) /\ Elements(<<>>) = {}
      BY SingletonFacts
    <2> QED
      BY <2>1 DEF FlowInit, EventsInit, EventsOK
  <1>2. EventsOK /\ [FlowNext]_flowVars => EventsOK'
    BY FlowEvents, EventsStep
  <1> QED
    BY <1>1, <1>2, PTL DEF FlowSpec

-----------------------------------------------------------------------------
(* AnswersReturn.                                                          *)

AnswerOf(task, origin) ==
  /\ origin \in 1..Len(submitted)
  /\ task.target = Target(submitted[origin]) /\ task.reply = submitted[origin].id
  /\ \E name \in DOMAIN Answers : Asks(submitted[origin], name) /\ task.segments = Answers[name]
OriginsInv ==
  /\ IsSeq(origins) /\ Len(origins) = Len(tasks)
  /\ \A t \in 1..Len(tasks) : tasks[t].op = "send" => AnswerOf(tasks[t], origins[t])

PostAnswers(p) ==
  /\ p.task \in 1..Len(tasks) /\ tasks[p.task].op = "send"
  /\ p.target = tasks[p.task].target
  /\ p.body # <<"image">> => p.reply = tasks[p.task].reply
PostsAnswer(ps) == \A i \in 1..Len(ps) : PostAnswers(ps[i])

ReturnInv == OriginsInv /\ PostsAnswer(posts)

\* What a task is, and what it answers, is settled when it is submitted.
TaskAdded(operation, origin) ==
  /\ Submitted(operation) /\ origins' = Append(origins, origin)
TasksSame == UNCHANGED <<tasks, outcome, origins>>

LEMMA AnswerToCommand ==
  ASSUME EventsOK, handleTasks # <<>>,
         NEW command, command = Head(handleTasks), command.binding \in DOMAIN Answers,
         AnswerTo(command, Answers[command.binding])
  PROVE  \E operation : /\ TaskAdded(operation, command.correlation)
                        /\ AnswerOf(operation, command.correlation)
  <1> DEFINE operation == Message(command.payload.target, command.payload.message, Answers[command.binding])
  <1>1. CommandOK(command)
    <2>1. 1 \in 1..Len(handleTasks) /\ Head(handleTasks) = handleTasks[1]
      BY HeadIsFirst DEF EventsOK
    <2> QED
      BY <2>1 DEF EventsOK, Elements
  <1> DEFINE frame == Frame(command)
  <1>2. /\ command.correlation \in 1..Len(submitted) /\ frame = submitted[command.correlation]
        /\ command.payload = EventOf(frame) /\ Asks(frame, command.binding)
    BY <1>1 DEF CommandOK, EventOK, Frame
  <1>3. frame.type \in MessageTypes
    BY <1>2 DEF Asks
  <1>4. EventOf(frame).target = Target(frame) /\ EventOf(frame).message = frame.id
    BY <1>3, EventFields
  <1>5. operation.target = command.payload.target /\ operation.reply = command.payload.message
        /\ operation.segments = Answers[command.binding]
    BY DEF Message
  <1>6. Resolve([correlation |-> command.correlation], Defaults).correlation = command.correlation
    BY DEF Resolve, Defaults
  <1>7. Submitted(operation) /\ origins' = Append(origins, command.correlation)
    BY <1>6 DEF AnswerTo
  <1> HIDE DEF operation, frame
  <1>8. AnswerOf(operation, command.correlation)
    BY <1>2, <1>4, <1>5 DEF AnswerOf
  <1> QED
    BY <1>7, <1>8 DEF TaskAdded

LEMMA FlowTasks ==
  ASSUME EventsOK, [FlowNext]_flowVars
  PROVE  \/ TasksSame /\ SenderIdle
         \/ SenderIdle /\ \E operation, origin :
              /\ TaskAdded(operation, origin)
              /\ operation.op = "send" => AnswerOf(operation, origin)
         \/ Runner /\ UNCHANGED <<tasks, origins>>
  <1>1. CASE (SubmitFrame \/ Runners) /\ UNCHANGED <<sendVars, origins>>
    BY <1>1 DEF TasksSame, SenderIdle, sendVars
  <1>2. CASE Handle
    <2> DEFINE command == Head(handleTasks)
    <2>1. SenderIdle /\ handleTasks # <<>>
      BY <1>2 DEF Handle, SenderIdle, TakeCommand
    <2>2. CASE command.binding \in DOMAIN Answers /\ AnswerTo(command, Answers[command.binding])
      BY <2>1, <2>2, AnswerToCommand
    <2>3. CASE UNCHANGED <<tasks, outcome, origins>>
      BY <2>1, <2>3 DEF TasksSame
    <2> QED
      BY <1>2, <2>2, <2>3 DEF Handle
  <1>3. CASE SubmitOther
    <2>1. PICK operation \in OtherOperations : Submitted(operation)
      BY <1>3 DEF SubmitOther
    <2>2. operation.op # "send"
      BY <2>1 DEF OtherOperations, MediaUpload, SingleRequest, Malformed
    <2>3. SenderIdle /\ TaskAdded(operation, 0)
      BY <1>3, <2>1 DEF SubmitOther, SenderIdle, TaskAdded
    <2> QED
      BY <2>2, <2>3
  <1>4. CASE Runner /\ UNCHANGED <<eventVars, origins>>
    BY <1>4 DEF Runner, Take, Request, OpenDescriptor, Collect, PutBlock, Finish
  <1>5. CASE Replace /\ UNCHANGED <<eventVars, origins>>
    BY <1>5 DEF Replace, TasksSame, SenderIdle
  <1>6. CASE UNCHANGED flowVars
    BY <1>6 DEF TasksSame, SenderIdle, flowVars, sendVars
  <1> QED
    BY <1>1, <1>2, <1>3, <1>4, <1>5, <1>6 DEF FlowNext

LEMMA AnswerOfKept ==
  ASSUME FramesKept, NEW task, NEW origin, AnswerOf(task, origin)
  PROVE  AnswerOf(task, origin)'
  BY DEF FramesKept, AnswerOf

LEMMA OriginsKept ==
  ASSUME OriginsInv, FramesKept, UNCHANGED <<tasks, origins>>
  PROVE  OriginsInv'
  <1>1. \A t \in 1..Len(tasks) : tasks[t].op = "send" => AnswerOf(tasks[t], origins[t])'
    BY DEF OriginsInv, FramesKept, AnswerOf
  <1> QED
    BY <1>1 DEF OriginsInv

LEMMA PostsAnswerNext ==
  ASSUME PostsAnswer(posts'), TasksOK, Len(tasks) \in Nat, 1..Len(tasks) \subseteq 1..Len(tasks'),
         \A t \in 1..Len(tasks) : tasks'[t] = tasks[t]
  PROVE  PostsAnswer(posts)'
  BY DEF PostsAnswer, PostAnswers

\* A request of the runner posts a part of the message it is at.
LEMMA EffectAnswers ==
  ASSUME SendTypeOK, PostsAnswer(posts), Requesting, Effect \/ NoEffect
  PROVE  PostsAnswer(posts')
  <1>1. /\ NewPost \/ SamePosts
        /\ Len(posts) \in Nat
        /\ \A i \in 1..Len(posts) : posts'[i] = posts[i]
        /\ NewPost => Len(posts') = Len(posts) + 1 /\ posts'[Len(posts) + 1] = Post
    BY PostsChange DEF SendTypeOK, ServerOK
  <1>2. CASE SamePosts
    BY <1>2 DEF SamePosts
  <1>3. CASE NewPost
    <2>1. running \in 1..Len(tasks) /\ Post.task = running
      BY SeqFacts DEF SendTypeOK, RunnerOK, TasksOK, Post, Requesting
    <2>2. tasks[running].op = "send"
      BY <1>3 DEF SendTypeOK, RunnerOK, Doing, NewPost, Sending, Requesting, Uploading
    <2>3. Post.target = tasks[running].target /\ (Post.body # <<"image">> => Post.reply = tasks[running].reply)
      BY DEF Post
    <2>4. PostAnswers(Post)
      BY <2>1, <2>2, <2>3 DEF PostAnswers
    <2>5. \A i \in 1..Len(posts') : (i \in 1..Len(posts) /\ posts'[i] = posts[i]) \/ posts'[i] = Post
      BY <1>1, <1>3
    <2> QED
      BY <2>4, <2>5 DEF PostsAnswer
  <1> QED
    BY <1>1, <1>2, <1>3

LEMMA ReturnStep ==
  ASSUME SendTypeOK, EventsOK, ReturnInv, [FlowNext]_flowVars
  PROVE  ReturnInv'
  <1>1. FramesKept
    BY FlowEvents, EventsStep
  <1>2. TasksOK /\ Len(tasks) \in Nat /\ IsSeq(origins) /\ Len(origins) = Len(tasks)
    BY SeqFacts DEF SendTypeOK, TasksOK, ReturnInv, OriginsInv
  <1>3. CASE TasksSame /\ SenderIdle
    <2>1. UNCHANGED <<tasks, origins, posts>>
      BY <1>3 DEF TasksSame, SenderIdle
    <2> QED
      BY <1>1, <1>2, <2>1, OriginsKept, PostsAnswerNext DEF ReturnInv
  <1>4. ASSUME SenderIdle, NEW operation, NEW origin, TaskAdded(operation, origin),
               operation.op = "send" => AnswerOf(operation, origin)
        PROVE  ReturnInv'
    <2>1. /\ Len(tasks') = Len(tasks) + 1 /\ tasks'[Len(tasks) + 1] = operation
          /\ \A t \in 1..Len(tasks) : tasks'[t] = tasks[t]
      BY <1>2, <1>4, SubmittedFacts DEF TaskAdded
    <2>2. /\ IsSeq(origins') /\ Len(origins') = Len(tasks) + 1 /\ origins'[Len(tasks) + 1] = origin
          /\ \A t \in 1..Len(tasks) : origins'[t] = origins[t]
      BY <1>2, <1>4, AppendFacts DEF TaskAdded
    <2>3. ASSUME NEW t \in 1..Len(tasks'), tasks'[t].op = "send" PROVE AnswerOf(tasks[t], origins[t])'
      <3>1. CASE t \in 1..Len(tasks)
        <4>1. AnswerOf(tasks[t], origins[t]) /\ tasks'[t] = tasks[t] /\ origins'[t] = origins[t]
          BY <2>1, <2>2, <2>3, <3>1 DEF ReturnInv, OriginsInv
        <4> QED
          BY <1>1, <4>1 DEF AnswerOf, FramesKept
      <3>2. CASE t = Len(tasks) + 1
        <4>1. AnswerOf(operation, origin) /\ tasks'[t] = operation /\ origins'[t] = origin
          BY <1>4, <2>1, <2>2, <2>3, <3>2
        <4> QED
          BY <1>1, <4>1 DEF AnswerOf, FramesKept
      <3> QED
        BY <1>2, <2>1, <3>1, <3>2
    <2>4. OriginsInv'
      BY <2>1, <2>2, <2>3 DEF OriginsInv
    <2>5. posts' = posts /\ 1..Len(tasks) \subseteq 1..Len(tasks')
      BY <1>2, <1>4, <2>1 DEF SenderIdle
    <2> QED
      BY <1>2, <2>1, <2>4, <2>5, PostsAnswerNext DEF ReturnInv
  <1>5. ASSUME Runner, UNCHANGED <<tasks, origins>> PROVE ReturnInv'
    <2>1. RunnerMoves
      BY <1>5, RunnerStep
    <2>2. PostsAnswer(posts')
      <3>1. CASE posts' = posts
        BY <3>1 DEF ReturnInv
      <3>2. CASE Requesting /\ (Effect \/ NoEffect)
        BY <3>2, EffectAnswers DEF ReturnInv
      <3> QED
        BY <2>1, <3>1, <3>2 DEF RunnerMoves, Begins, Skips, GoesOn, Repeats, Stops, NoEffect
    <2> QED
      BY <1>1, <1>2, <1>5, <2>2, OriginsKept, PostsAnswerNext DEF ReturnInv
  <1> QED
    BY <1>3, <1>4, <1>5, FlowTasks

\* Whatever is posted answers a message somebody sent, in the scene that message
\* came from, with what the command in it asks for, and its text names that
\* message: through the batches of the mapper, the router and the parser, the
\* handlers' options and the runner (target_map.rs:6, service.rs:127, context.rs).
THEOREM AnswersComeBack == FlowSpec => []AnswersReturn
  <1>1. FlowInit => ReturnInv
    <2> SUFFICES ASSUME FlowInit PROVE ReturnInv
      OBVIOUS
    <2>1. IsSeq(<<>>) /\ Len(<<>>) = 0
      BY SingletonFacts
    <2> QED
      BY <2>1 DEF FlowInit, SendInit, ReturnInv, OriginsInv, PostsAnswer
  <1>2. SendTypeOK /\ EventsOK /\ ReturnInv => AnswersReturn
    <2> SUFFICES ASSUME SendTypeOK, EventsOK, ReturnInv PROVE AnswersReturn
      OBVIOUS
    <2>1. DOMAIN posts = 1..Len(posts) /\ DOMAIN submitted = 1..Len(submitted)
      BY SeqFacts DEF SendTypeOK, ServerOK, EventsOK
    <2>2. ASSUME NEW i \in 1..Len(posts)
          PROVE  PostAnswers(posts[i]) /\ AnswerOf(tasks[posts[i].task], origins[posts[i].task])
      BY DEF ReturnInv, PostsAnswer, PostAnswers, OriginsInv
    <2> QED
      BY <2>1, <2>2 DEF AnswersReturn, PostAnswers, AnswerOf
  <1>3. SendTypeOK /\ EventsOK /\ ReturnInv /\ [FlowNext]_flowVars => ReturnInv'
    BY ReturnStep
  <1> QED
    BY <1>1, <1>2, <1>3, SendTyped, EventsComeFromFrames, PTL DEF FlowSpec

-----------------------------------------------------------------------------
(* The order of the frames is kept from queue to queue.                    *)

Precedes(q, r) == \A x \in Elements(q), y \in Elements(r) : x.correlation <= y.correlation

LEMMA SortedConcat ==
  ASSUME NEW q, IsSeq(q), Sorted(q), NEW r, IsSeq(r), Sorted(r), Precedes(q, r)
  PROVE  Sorted(q \o r)
  <1> DEFINE t == q \o r
  <1>0. Len(q) \in Nat /\ Len(r) \in Nat
    BY SeqFacts
  <1>1. /\ Len(t) = Len(q) + Len(r)
        /\ \A i \in 1..Len(q) : t[i] = q[i]
        /\ \A i \in 1..Len(t) : i > Len(q) => i - Len(q) \in 1..Len(r) /\ t[i] = r[i - Len(q)]
    BY <1>0, ConcatFacts
  <1> HIDE DEF t
  <1>2. ASSUME NEW i \in 1..Len(t), NEW j \in 1..Len(t), i < j
        PROVE  t[i].correlation <= t[j].correlation
    <2>1. CASE j <= Len(q)
      <3>1. i \in 1..Len(q) /\ j \in 1..Len(q) /\ t[i] = q[i] /\ t[j] = q[j]
        BY <1>0, <1>1, <1>2, <2>1
      <3> QED
        BY <1>2, <3>1 DEF Sorted
    <2>2. CASE i > Len(q)
      <3>1. /\ i - Len(q) \in 1..Len(r) /\ j - Len(q) \in 1..Len(r) /\ i - Len(q) < j - Len(q)
            /\ t[i] = r[i - Len(q)] /\ t[j] = r[j - Len(q)]
        BY <1>0, <1>1, <1>2, <2>2
      <3> QED
        BY <3>1 DEF Sorted
    <2>3. CASE i <= Len(q) /\ j > Len(q)
      <3>1. i \in 1..Len(q) /\ j - Len(q) \in 1..Len(r) /\ t[i] = q[i] /\ t[j] = r[j - Len(q)]
        BY <1>0, <1>1, <1>2, <2>3
      <3> QED
        BY <3>1 DEF Precedes, Elements
    <2> QED
      BY <1>0, <1>1, <2>1, <2>2, <2>3
  <1> QED
    BY <1>2 DEF Sorted, t

LEMMA SortedParts ==
  ASSUME NEW q, IsSeq(q), Sorted(q), NEW n \in 0..Len(q)
  PROVE  Sorted(FirstOf(q, n)) /\ Sorted(Beyond(q, n)) /\ Precedes(FirstOf(q, n), Beyond(q, n))
  <1> DEFINE a == FirstOf(q, n)
             b == Beyond(q, n)
  <1>1. /\ Len(a) = n /\ \A i \in 1..n : a[i] = q[i]
        /\ Len(b) = Len(q) - n /\ \A i \in 1..Len(q) - n : b[i] = q[n + i]
    BY PartElements
  <1>2. Len(q) \in Nat /\ n \in Nat
    BY SeqFacts
  <1> HIDE DEF a, b
  <1>3. Sorted(a)
    BY <1>1, <1>2 DEF Sorted
  <1>4. ASSUME NEW i \in 1..Len(b), NEW j \in 1..Len(b), i < j PROVE b[i].correlation <= b[j].correlation
    <2>1. n + i \in 1..Len(q) /\ n + j \in 1..Len(q) /\ n + i < n + j /\ b[i] = q[n + i] /\ b[j] = q[n + j]
      BY <1>1, <1>2, <1>4
    <2> QED
      BY <2>1 DEF Sorted
  <1>5. ASSUME NEW i \in 1..Len(a), NEW j \in 1..Len(b) PROVE a[i].correlation <= b[j].correlation
    <2>1. i \in 1..Len(q) /\ n + j \in 1..Len(q) /\ i < n + j /\ a[i] = q[i] /\ b[j] = q[n + j]
      BY <1>1, <1>2
    <2> QED
      BY <2>1 DEF Sorted
  <1>6. Sorted(b)
    BY <1>4 DEF Sorted
  <1>7. Precedes(a, b)
    BY <1>5 DEF Precedes, Elements
  <1> QED
    BY <1>3, <1>6, <1>7 DEF a, b

\* The first n tasks of q leave it, and what is made of them goes to the end of r.
LEMMA PassOn ==
  ASSUME NEW q, IsSeq(q), Sorted(q), NEW r, IsSeq(r), Sorted(r), Precedes(r, q),
         NEW n \in 0..Len(q), NEW out, Made(out, FirstOf(q, n))
  PROVE  /\ Sorted(Beyond(q, n)) /\ Sorted(r \o out) /\ Precedes(r \o out, Beyond(q, n))
         /\ \A a : Precedes(a, r) /\ Precedes(a, q) => Precedes(a, r \o out) /\ Precedes(a, Beyond(q, n))
         /\ \A d : Precedes(r, d) /\ Precedes(q, d) => Precedes(r \o out, d) /\ Precedes(Beyond(q, n), d)
  <1> DEFINE b == FirstOf(q, n)
             q1 == Beyond(q, n)
             r1 == r \o out
  <1>1. IsSeq(out) /\ Sorted(out) /\ \A y \in Elements(out) : Carries(y, b)
    BY DEF Made
  <1>2. IsSeq(b) /\ Elements(b) \subseteq Elements(q) /\ IsSeq(q1) /\ Elements(q1) \subseteq Elements(q)
    BY PartElements
  <1>3. Sorted(b) /\ Sorted(q1) /\ Precedes(b, q1)
    BY SortedParts
  <1>4. Elements(r1) = Elements(r) \cup Elements(out)
    BY <1>1, ConcatElements
  <1> HIDE DEF b, q1
  <1>5. ASSUME NEW y \in Elements(out)
        PROVE  \E x \in Elements(b) : y.correlation = x.correlation
    BY <1>1 DEF Carries, Elements
  <1>6. Precedes(r, out)
    BY <1>2, <1>5 DEF Precedes
  <1>7. Sorted(r1)
    BY <1>1, <1>6, SortedConcat
  <1> HIDE DEF r1
  <1>8. Precedes(r1, q1)
    BY <1>2, <1>3, <1>4, <1>5 DEF Precedes
  <1>9. ASSUME NEW a, Precedes(a, r), Precedes(a, q) PROVE Precedes(a, r1) /\ Precedes(a, q1)
    BY <1>2, <1>4, <1>5, <1>9 DEF Precedes
  <1>10. ASSUME NEW d, Precedes(r, d), Precedes(q, d) PROVE Precedes(r1, d) /\ Precedes(q1, d)
    BY <1>2, <1>4, <1>5, <1>10 DEF Precedes
  <1> QED
    BY <1>3, <1>7, <1>8, <1>9, <1>10 DEF q1, r1

\* A section of a batch, and what it is made of.
LEMMA MadeOf ==
  ASSUME NEW q, IsSeq(q), Sorted(q), Numbered(q), NEW n \in 0..Len(q),
         NEW s, s = [i \in 1..n |-> s[i]],
         \A i \in 1..n : IsSeq(s[i]) /\ \A y \in Elements(s[i]) : y.correlation = q[i].correlation
  PROVE  Made(FlattenSeq(s), FirstOf(q, n))
  <1> DEFINE b == FirstOf(q, n)
  <1>1. IsSeq(b) /\ Len(b) = n /\ (\A i \in 1..n : b[i] = q[i]) /\ Elements(b) \subseteq Elements(q)
    BY PartElements
  <1>2. Sorted(b)
    BY SortedParts
  <1> HIDE DEF b
  <1>3. Numbered(b)
    BY <1>1 DEF Numbered
  <1>4. n \in Nat
    BY SeqFacts
  <1>5. IsSeq(s) /\ Len(s) = n
    BY <1>4, SeqFromFunction
  <1> QED
    BY <1>1, <1>2, <1>3, <1>5, MadeFlatten DEF b

\* Each task takes the number of its frame along, past every other number before it.
PipeInv ==
  /\ Sorted(taken) /\ Sorted(handleTasks) /\ Sorted(parseTasks) /\ Sorted(ingestTasks) /\ Sorted(frameTasks)
  /\ Precedes(taken, handleTasks) /\ Precedes(taken, parseTasks) /\ Precedes(taken, ingestTasks)
  /\ Precedes(taken, frameTasks)
  /\ Precedes(handleTasks, parseTasks) /\ Precedes(handleTasks, ingestTasks) /\ Precedes(handleTasks, frameTasks)
  /\ Precedes(parseTasks, ingestTasks) /\ Precedes(parseTasks, frameTasks)
  /\ Precedes(ingestTasks, frameTasks)

LEMMA QueuesNumbered ==
  ASSUME EventsOK
  PROVE  /\ Numbered(taken) /\ Numbered(handleTasks) /\ Numbered(parseTasks) /\ Numbered(ingestTasks)
         /\ Numbered(frameTasks)
         /\ Len(submitted) \in Nat
         /\ \A x \in Elements(taken) \cup Elements(handleTasks) \cup Elements(parseTasks)
                     \cup Elements(ingestTasks) \cup Elements(frameTasks) : x.correlation \in 1..Len(submitted)
  <1>1. Len(submitted) \in Nat
    BY SeqFacts DEF EventsOK
  <1>2. \A x \in Elements(taken) \cup Elements(handleTasks) \cup Elements(parseTasks)
               \cup Elements(ingestTasks) \cup Elements(frameTasks) : x.correlation \in 1..Len(submitted)
    BY DEF EventsOK, FrameOK, EventOK, CommandOK
  <1> QED
    BY <1>1, <1>2 DEF Numbered

LEMMA MappedMade ==
  ASSUME EventsOK, PipeInv, NEW n \in 0..Len(frameTasks)
  PROVE  Made(Mapped(n), FirstOf(frameTasks, n))
  <1> DEFINE s == [i \in 1..n |-> IngestTasks(frameTasks[i])]
  <1>1. 1..n \subseteq 1..Len(frameTasks)
    BY SeqFacts DEF EventsOK
  <1>2. s = [i \in 1..n |-> s[i]] /\ \A i \in 1..n : s[i] = IngestTasks(frameTasks[i])
    OBVIOUS
  <1>3. Mapped(n) = FlattenSeq(s)
    BY DEF Mapped
  <1> HIDE DEF s
  <1>4. ASSUME NEW i \in 1..n
        PROVE  IsSeq(s[i]) /\ \A y \in Elements(s[i]) : y.correlation = frameTasks[i].correlation
    <2>1. FrameOK(frameTasks[i])
      BY <1>1 DEF EventsOK, Elements
    <2> QED
      BY <1>2, <2>1, IngestFacts
  <1>5. IsSeq(frameTasks) /\ Sorted(frameTasks) /\ Numbered(frameTasks)
    BY QueuesNumbered DEF EventsOK, PipeInv
  <1> QED
    BY <1>2, <1>3, <1>4, <1>5, MadeOf

LEMMA ParsedMade ==
  ASSUME EventsOK, PipeInv, NEW n \in 0..Len(parseTasks)
  PROVE  Made(Parsed(n), FirstOf(parseTasks, n))
  <1> DEFINE s == [i \in 1..n |-> HandleTasks(parseTasks[i])]
  <1>1. 1..n \subseteq 1..Len(parseTasks)
    BY SeqFacts DEF EventsOK
  <1>2. s = [i \in 1..n |-> s[i]] /\ \A i \in 1..n : s[i] = HandleTasks(parseTasks[i])
    OBVIOUS
  <1>3. Parsed(n) = FlattenSeq(s)
    BY DEF Parsed
  <1> HIDE DEF s
  <1>4. ASSUME NEW i \in 1..n
        PROVE  IsSeq(s[i]) /\ \A y \in Elements(s[i]) : y.correlation = parseTasks[i].correlation
    <2>1. EventOK(parseTasks[i])
      BY <1>1 DEF EventsOK, Elements
    <2> QED
      BY <1>2, <2>1, TextOfFrame, HandleFacts
  <1>5. IsSeq(parseTasks) /\ Sorted(parseTasks) /\ Numbered(parseTasks)
    BY QueuesNumbered DEF EventsOK, PipeInv
  <1> QED
    BY <1>2, <1>3, <1>4, <1>5, MadeOf

LEMMA RoutedMade ==
  ASSUME EventsOK, PipeInv, NEW n \in 0..Len(ingestTasks)
  PROVE  Made(OfProtocol(Dispatched(n), "parse"), FirstOf(ingestTasks, n))
  <1> DEFINE b == FirstOf(ingestTasks, n)
             s == [i \in 1..n |-> DispatchTasks(b, i)]
             children == Dispatched(n)
             sections == ProtocolSections(children, "parse")
  <1>1. n \in Nat /\ \A i \in 1..n : b[i] = ingestTasks[i]
    BY PartElements, SeqFacts DEF EventsOK
  <1>2. s = [i \in 1..n |-> s[i]] /\ \A i \in 1..n : s[i] = DispatchTasks(b, i)
    OBVIOUS
  <1>3. children = FlattenSeq(s)
    BY DEF Dispatched
  <1> HIDE DEF s
  <1>4. ASSUME NEW i \in 1..n
        PROVE  IsSeq(s[i]) /\ \A y \in Elements(s[i]) : y.correlation = ingestTasks[i].correlation
    <2> HIDE DEF b
    <2>1. IsSeq(s[i]) /\ \A y \in Elements(s[i]) : y.correlation = b[i].correlation
      BY <1>2, DispatchFacts
    <2> QED
      BY <1>1, <2>1
  <1>5. IsSeq(ingestTasks) /\ Sorted(ingestTasks) /\ Numbered(ingestTasks)
    BY QueuesNumbered DEF EventsOK, PipeInv
  <1>6. Made(children, b)
    BY <1>2, <1>3, <1>4, <1>5, MadeOf
  <1> HIDE DEF children, b
  <1>7. IsSeq(children) /\ Sorted(children)
    BY <1>6 DEF Made
  <1>8. Numbered(children)
    <2>1. \A y \in Elements(children) : EventOK(y)
      BY DispatchedFacts DEF children
    <2> QED
      BY <2>1, QueuesNumbered DEF Numbered, EventOK
  <1>9. /\ IsSeq(sections) /\ Len(sections) = Len(children)
        /\ \A c \in 1..Len(children) :
             IsSeq(sections[c]) /\ \A y \in Elements(sections[c]) : y.correlation = children[c].correlation
        /\ OfProtocol(children, "parse") = FlattenSeq(sections)
    BY <1>7, ProtocolFacts
  <1> HIDE DEF sections
  <1>10. Made(OfProtocol(children, "parse"), children)
    BY <1>7, <1>8, <1>9, MadeFlatten
  <1>11. Made(OfProtocol(children, "parse"), b)
    BY <1>6, <1>7, <1>10, MadeAgain
  <1> QED
    BY <1>11 DEF b, children

LEMMA SubmittedLast ==
  ASSUME EventsOK, PipeInv, SubmitFrame
  PROVE  PipeInv'
  <1>1. UNCHANGED <<ingestTasks, parseTasks, handleTasks, taken>>
    BY SubmitFrameFacts
  <1>2. PICK task : frameTasks' = frameTasks \o <<task>> /\ task.correlation = Len(submitted) + 1
    BY SubmitFrameFacts
  <1>3. IsSeq(<<task>>) /\ Elements(<<task>>) = {task} /\ Len(<<task>>) = 1 /\ IsSeq(frameTasks)
    BY SingletonFacts DEF EventsOK
  <1>4. Elements(frameTasks') = Elements(frameTasks) \cup {task}
    BY <1>2, <1>3, ConcatElements
  <1>5. \A x \in Elements(taken) \cup Elements(handleTasks) \cup Elements(parseTasks)
                 \cup Elements(ingestTasks) \cup Elements(frameTasks) : x.correlation <= task.correlation
    BY <1>2, QueuesNumbered
  <1>6. Sorted(frameTasks')
    <2>1. Sorted(<<task>>)
      BY <1>3 DEF Sorted
    <2>2. Precedes(frameTasks, <<task>>)
      BY <1>3, <1>5 DEF Precedes
    <2> QED
      BY <1>2, <1>3, <2>1, <2>2, SortedConcat DEF PipeInv
  <1>7. /\ Precedes(taken, frameTasks') /\ Precedes(handleTasks, frameTasks')
        /\ Precedes(parseTasks, frameTasks') /\ Precedes(ingestTasks, frameTasks')
    BY <1>4, <1>5 DEF PipeInv, Precedes
  <1>8. PICK q : q = frameTasks'
    OBVIOUS
  <1> QED
    BY <1>1, <1>6, <1>7 DEF PipeInv, Sorted, Precedes, Elements

LEMMA PipeStep ==
  ASSUME EventsOK, PipeInv, EventMoves
  PROVE  PipeInv'
  <1>1. ASSUME NEW n, MapsFrames(n) PROVE PipeInv'
    <2>1. n \in 0..Len(frameTasks) /\ IsSeq(frameTasks) /\ IsSeq(ingestTasks)
      BY <1>1, SeqFacts DEF MapsFrames, EventsOK
    <2>2. PICK out : out = Mapped(n)
      OBVIOUS
    <2>3. Made(out, FirstOf(frameTasks, n))
      BY <2>1, <2>2, MappedMade
    <2>4. PICK q, r : q = Beyond(frameTasks, n) /\ r = ingestTasks \o out
      OBVIOUS
    <2>5. /\ Sorted(q) /\ Sorted(r) /\ Precedes(r, q)
          /\ \A a : Precedes(a, ingestTasks) /\ Precedes(a, frameTasks) => Precedes(a, r) /\ Precedes(a, q)
          /\ \A d : Precedes(ingestTasks, d) /\ Precedes(frameTasks, d) => Precedes(r, d) /\ Precedes(q, d)
      BY <2>1, <2>3, <2>4, PassOn DEF PipeInv
    <2>6. frameTasks' = q /\ ingestTasks' = r /\ UNCHANGED <<taken, handleTasks, parseTasks>>
      BY <1>1, <2>2, <2>4 DEF MapsFrames
    <2>7. /\ Sorted(taken') /\ Sorted(handleTasks') /\ Sorted(parseTasks')
          /\ Sorted(ingestTasks') /\ Sorted(frameTasks')
          /\ Precedes(taken', handleTasks') /\ Precedes(taken', parseTasks')
          /\ Precedes(taken', ingestTasks') /\ Precedes(taken', frameTasks')
          /\ Precedes(handleTasks', parseTasks') /\ Precedes(handleTasks', ingestTasks')
          /\ Precedes(handleTasks', frameTasks')
          /\ Precedes(parseTasks', ingestTasks') /\ Precedes(parseTasks', frameTasks')
          /\ Precedes(ingestTasks', frameTasks')
      BY <2>5, <2>6 DEF PipeInv
    <2> QED
      BY <2>7 DEF PipeInv, Sorted, Precedes, Elements
  <1>2. ASSUME NEW n, Routes(n) PROVE PipeInv'
    <2>1. n \in 0..Len(ingestTasks) /\ IsSeq(ingestTasks) /\ IsSeq(parseTasks)
      BY <1>2, SeqFacts DEF Routes, EventsOK
    <2>2. PICK out : out = OfProtocol(Dispatched(n), "parse")
      OBVIOUS
    <2>3. Made(out, FirstOf(ingestTasks, n))
      BY <2>1, <2>2, RoutedMade
    <2>4. PICK q, r : q = Beyond(ingestTasks, n) /\ r = parseTasks \o out
      OBVIOUS
    <2>5. /\ Sorted(q) /\ Sorted(r) /\ Precedes(r, q)
          /\ \A a : Precedes(a, parseTasks) /\ Precedes(a, ingestTasks) => Precedes(a, r) /\ Precedes(a, q)
          /\ \A d : Precedes(parseTasks, d) /\ Precedes(ingestTasks, d) => Precedes(r, d) /\ Precedes(q, d)
      BY <2>1, <2>3, <2>4, PassOn DEF PipeInv
    <2>6. ingestTasks' = q /\ parseTasks' = r /\ UNCHANGED <<taken, handleTasks, frameTasks>>
      BY <1>2, <2>2, <2>4 DEF Routes
    <2>7. /\ Sorted(taken') /\ Sorted(handleTasks') /\ Sorted(parseTasks')
          /\ Sorted(ingestTasks') /\ Sorted(frameTasks')
          /\ Precedes(taken', handleTasks') /\ Precedes(taken', parseTasks')
          /\ Precedes(taken', ingestTasks') /\ Precedes(taken', frameTasks')
          /\ Precedes(handleTasks', parseTasks') /\ Precedes(handleTasks', ingestTasks')
          /\ Precedes(handleTasks', frameTasks')
          /\ Precedes(parseTasks', ingestTasks') /\ Precedes(parseTasks', frameTasks')
          /\ Precedes(ingestTasks', frameTasks')
      BY <2>5, <2>6 DEF PipeInv
    <2> QED
      BY <2>7 DEF PipeInv, Sorted, Precedes, Elements
  <1>3. ASSUME NEW n, Parses(n) PROVE PipeInv'
    <2>1. n \in 0..Len(parseTasks) /\ IsSeq(parseTasks) /\ IsSeq(handleTasks)
      BY <1>3, SeqFacts DEF Parses, EventsOK
    <2>2. PICK out : out = Parsed(n)
      OBVIOUS
    <2>3. Made(out, FirstOf(parseTasks, n))
      BY <2>1, <2>2, ParsedMade
    <2>4. PICK q, r : q = Beyond(parseTasks, n) /\ r = handleTasks \o out
      OBVIOUS
    <2>5. /\ Sorted(q) /\ Sorted(r) /\ Precedes(r, q)
          /\ \A a : Precedes(a, handleTasks) /\ Precedes(a, parseTasks) => Precedes(a, r) /\ Precedes(a, q)
          /\ \A d : Precedes(handleTasks, d) /\ Precedes(parseTasks, d) => Precedes(r, d) /\ Precedes(q, d)
      BY <2>1, <2>3, <2>4, PassOn DEF PipeInv
    <2>6. parseTasks' = q /\ handleTasks' = r /\ UNCHANGED <<taken, ingestTasks, frameTasks>>
      BY <1>3, <2>2, <2>4 DEF Parses
    <2>7. /\ Sorted(taken') /\ Sorted(handleTasks') /\ Sorted(parseTasks')
          /\ Sorted(ingestTasks') /\ Sorted(frameTasks')
          /\ Precedes(taken', handleTasks') /\ Precedes(taken', parseTasks')
          /\ Precedes(taken', ingestTasks') /\ Precedes(taken', frameTasks')
          /\ Precedes(handleTasks', parseTasks') /\ Precedes(handleTasks', ingestTasks')
          /\ Precedes(handleTasks', frameTasks')
          /\ Precedes(parseTasks', ingestTasks') /\ Precedes(parseTasks', frameTasks')
          /\ Precedes(ingestTasks', frameTasks')
      BY <2>5, <2>6 DEF PipeInv
    <2> QED
      BY <2>7 DEF PipeInv, Sorted, Precedes, Elements
  <1>4. CASE Takes
    <2>1. 1 \in 0..Len(handleTasks) /\ IsSeq(handleTasks) /\ IsSeq(taken)
      BY <1>4, SeqFacts DEF Takes, EventsOK
    <2>2. PICK out : out = <<handleTasks[1]>>
      OBVIOUS
    <2>3. Made(out, FirstOf(handleTasks, 1))
      <3>1. /\ IsSeq(FirstOf(handleTasks, 1)) /\ Len(FirstOf(handleTasks, 1)) = 1
            /\ \A i \in 1..1 : FirstOf(handleTasks, 1)[i] = handleTasks[i]
        BY <2>1, PartElements
      <3>2. IsSeq(out) /\ Len(out) = 1 /\ Elements(out) = {handleTasks[1]}
        BY <2>2, SingletonFacts
      <3>3. Sorted(out)
        BY <3>2 DEF Sorted
      <3>4. \A y \in Elements(out) : Carries(y, FirstOf(handleTasks, 1))
        BY <3>1, <3>2 DEF Carries
      <3> QED
        BY <3>2, <3>3, <3>4 DEF Made
    <2>4. PICK q, r : q = Beyond(handleTasks, 1) /\ r = taken \o out
      OBVIOUS
    <2>5. /\ Sorted(q) /\ Sorted(r) /\ Precedes(r, q)
          /\ \A a : Precedes(a, taken) /\ Precedes(a, handleTasks) => Precedes(a, r) /\ Precedes(a, q)
          /\ \A d : Precedes(taken, d) /\ Precedes(handleTasks, d) => Precedes(r, d) /\ Precedes(q, d)
      BY <2>1, <2>3, <2>4, PassOn DEF PipeInv
    <2>6. handleTasks' = q /\ taken' = r /\ UNCHANGED <<parseTasks, ingestTasks, frameTasks>>
      BY <1>4, <2>2, <2>4 DEF Takes
    <2>7. /\ Sorted(taken') /\ Sorted(handleTasks') /\ Sorted(parseTasks')
          /\ Sorted(ingestTasks') /\ Sorted(frameTasks')
          /\ Precedes(taken', handleTasks') /\ Precedes(taken', parseTasks')
          /\ Precedes(taken', ingestTasks') /\ Precedes(taken', frameTasks')
          /\ Precedes(handleTasks', parseTasks') /\ Precedes(handleTasks', ingestTasks')
          /\ Precedes(handleTasks', frameTasks')
          /\ Precedes(parseTasks', ingestTasks') /\ Precedes(parseTasks', frameTasks')
          /\ Precedes(ingestTasks', frameTasks')
      BY <2>5, <2>6 DEF PipeInv
    <2> QED
      BY <2>7 DEF PipeInv, Sorted, Precedes, Elements
  <1>5. CASE NoEvents
    BY <1>5 DEF NoEvents, PipeInv, Sorted, Precedes, Elements
  <1> QED
    BY <1>1, <1>2, <1>3, <1>4, <1>5, SubmittedLast DEF EventMoves

-----------------------------------------------------------------------------
(* Counting the elements of a sequence that are in a set.                  *)

Where(q, X) == {i \in 1..Len(q) : q[i] \in X}
Count(q, X) == Cardinality(Where(q, X))

LEMMA CountNat ==
  ASSUME NEW q, IsSeq(q), NEW X
  PROVE  Count(q, X) \in Nat /\ IsFiniteSet(Where(q, X))
  <1>1. IsFiniteSet(1..Len(q))
    BY SeqFacts, FS_Interval
  <1>2. IsFiniteSet(Where(q, X))
    BY <1>1, FS_Subset DEF Where
  <1> QED
    BY <1>2, FS_CardinalityType DEF Count

LEMMA CountSame ==
  ASSUME NEW q, NEW X, NEW Y, \A i \in 1..Len(q) : q[i] \in X <=> q[i] \in Y
  PROVE  Count(q, X) = Count(q, Y)
  <1>1. Where(q, X) = Where(q, Y)
    BY DEF Where
  <1> QED
    BY <1>1 DEF Count

LEMMA CountNone ==
  ASSUME NEW q, NEW X, \A i \in 1..Len(q) : q[i] \notin X
  PROVE  Count(q, X) = 0
  <1>1. Where(q, X) = {}
    BY DEF Where
  <1> QED
    BY <1>1, FS_EmptySet DEF Count

LEMMA CountOne ==
  ASSUME NEW x, NEW X
  PROVE  Count(<<x>>, X) = (IF x \in X THEN 1 ELSE 0) /\ Count(<<>>, X) = 0
  <1>1. Len(<<x>>) = 1 /\ <<x>>[1] = x /\ Len(<<>>) = 0
    BY SingletonFacts
  <1>2. Where(<<x>>, X) = IF x \in X THEN {1} ELSE {}
    BY <1>1 DEF Where
  <1>3. Where(<<>>, X) = {}
    BY <1>1 DEF Where
  <1>4. Cardinality({1}) = 1 /\ Cardinality({}) = 0
    BY FS_Singleton, FS_EmptySet
  <1> QED
    BY <1>2, <1>3, <1>4 DEF Count

LEMMA CountConcat ==
  ASSUME NEW q, IsSeq(q), NEW r, IsSeq(r), NEW X
  PROVE  Count(q \o r, X) = Count(q, X) + Count(r, X)
  <1> DEFINE t == q \o r
             n == Len(q)
             A == Where(q, X)
             B == Where(r, X)
             C == {n + i : i \in B}
             f == [i \in B |-> n + i]
  <1>0. n \in Nat /\ Len(r) \in Nat
    BY SeqFacts
  <1>1. /\ Len(t) = n + Len(r)
        /\ \A i \in 1..n : t[i] = q[i]
        /\ \A i \in 1..Len(r) : t[n + i] = r[i]
        /\ \A i \in 1..Len(t) : i > n => i - n \in 1..Len(r) /\ t[i] = r[i - n]
    BY <1>0, ConcatFacts
  <1>2. IsFiniteSet(A) /\ IsFiniteSet(B) /\ Cardinality(A) \in Nat /\ Cardinality(B) \in Nat
    BY CountNat DEF Count
  <1>3. A \subseteq 1..n /\ B \subseteq 1..Len(r)
    BY DEF Where
  <1>4. IsFiniteSet(C) /\ Cardinality(C) = Cardinality(B)
    <2>1. f \in Bijection(B, C)
      BY <1>0, <1>3 DEF Bijection, Injection, Surjection, IsInjective
    <2>2. ExistsBijection(B, C)
      BY <2>1 DEF ExistsBijection
    <2> QED
      BY <1>2, <2>2, FS_Bijection
  <1> HIDE DEF t, n
  <1>5. Where(t, X) = A \cup C
    <2>1. ASSUME NEW i \in Where(t, X) PROVE i \in A \cup C
      <3>1. i \in 1..Len(t) /\ t[i] \in X
        BY <2>1 DEF Where
      <3>2. CASE i <= n
        <4>1. i \in 1..n /\ q[i] \in X
          BY <1>0, <1>1, <3>1, <3>2
        <4> QED
          BY <4>1 DEF Where, n
      <3>3. CASE i > n
        <4>1. i - n \in 1..Len(r) /\ r[i - n] \in X /\ i = n + (i - n)
          BY <1>0, <1>1, <3>1, <3>3
        <4>2. i - n \in B
          BY <4>1 DEF Where
        <4> QED
          BY <4>1, <4>2
      <3> QED
        BY <1>0, <3>1, <3>2, <3>3
    <2>2. ASSUME NEW i \in A PROVE i \in Where(t, X)
      <3>1. i \in 1..n /\ q[i] \in X
        BY <2>2 DEF Where, n
      <3> QED
        BY <1>0, <1>1, <3>1 DEF Where
    <2>3. ASSUME NEW i \in B PROVE n + i \in Where(t, X)
      <3>1. i \in 1..Len(r) /\ r[i] \in X
        BY <2>3 DEF Where
      <3>2. n + i \in 1..Len(t) /\ t[n + i] = r[i]
        BY <1>0, <1>1, <3>1
      <3> QED
        BY <3>1, <3>2 DEF Where
    <2> QED
      BY <2>1, <2>2, <2>3
  <1>6. A \cap C = {}
    BY <1>0, <1>3 DEF n
  <1>7. Cardinality(A \cap C) = 0
    BY <1>6, FS_EmptySet
  <1> HIDE DEF A, B, C
  <1>8. Cardinality(A \cup C) = Cardinality(A) + Cardinality(C) - Cardinality(A \cap C)
    BY <1>2, <1>4, FS_Union
  <1> QED
    BY <1>2, <1>4, <1>5, <1>7, <1>8 DEF Count, A, B, t

LEMMA CountParts ==
  ASSUME NEW q, IsSeq(q), NEW n \in 0..Len(q), NEW X
  PROVE  Count(q, X) = Count(FirstOf(q, n), X) + Count(Beyond(q, n), X)
  <1> DEFINE a == FirstOf(q, n)
             b == Beyond(q, n)
             t == a \o b
  <1>1. /\ IsSeq(a) /\ Len(a) = n /\ \A i \in 1..n : a[i] = q[i]
        /\ IsSeq(b) /\ Len(b) = Len(q) - n /\ \A i \in 1..Len(q) - n : b[i] = q[n + i]
    BY PartElements
  <1>2. n \in Nat /\ Len(q) \in Nat /\ n <= Len(q) /\ Len(b) \in Nat
    BY <1>1, SeqFacts
  <1> HIDE DEF a, b
  <1>3. /\ IsSeq(t) /\ Len(t) = Len(q)
        /\ \A i \in 1..Len(a) : t[i] = a[i]
        /\ \A i \in 1..Len(t) : i > Len(a) => i - Len(a) \in 1..Len(b) /\ t[i] = b[i - Len(a)]
    <2>1. IsSeq(a) /\ IsSeq(b) /\ Len(a) \in Nat /\ Len(b) \in Nat
      BY <1>1, <1>2
    <2>2. /\ IsSeq(t) /\ Len(t) = Len(a) + Len(b)
          /\ \A i \in 1..Len(a) : t[i] = a[i]
          /\ \A i \in 1..Len(t) : i > Len(a) => i - Len(a) \in 1..Len(b) /\ t[i] = b[i - Len(a)]
      BY <2>1, ConcatFacts
    <2> QED
      BY <1>1, <1>2, <2>2
  <1>4. Count(t, X) = Count(a, X) + Count(b, X)
    BY <1>1, CountConcat
  <1> HIDE DEF t
  <1>5. ASSUME NEW i \in 1..Len(t) PROVE t[i] = q[i]
    <2>1. CASE i <= n
      BY <1>1, <1>2, <1>3, <2>1
    <2>2. CASE i > n
      <3>1. i - n \in 1..Len(q) - n /\ t[i] = b[i - n] /\ n + (i - n) = i
        BY <1>1, <1>2, <1>3, <2>2
      <3> QED
        BY <1>1, <3>1
    <2> QED
      BY <1>2, <1>3, <2>1, <2>2
  <1>6. t = q
    BY <1>3, <1>5, SameSeq
  <1> QED
    BY <1>4, <1>6 DEF a, b

LEMMA CountFirst ==
  ASSUME NEW b, NEW n \in Nat, NEW Y
  PROVE  Count(First(b, n + 1), Y) = Count(First(b, n), Y) + (IF b[n + 1] \in Y THEN 1 ELSE 0)
  <1> DEFINE u == First(b, n)
             v == First(b, n + 1)
             e == <<b[n + 1]>>
             t == u \o e
  <1>1. IsSeq(u) /\ Len(u) = n /\ \A i \in 1..n : u[i] = b[i]
    BY FirstFacts
  <1>2. IsSeq(v) /\ Len(v) = n + 1 /\ \A i \in 1..n + 1 : v[i] = b[i]
    <2>1. n + 1 \in Nat
      OBVIOUS
    <2> QED
      BY <2>1, FirstFacts
  <1>3. IsSeq(e) /\ Len(e) = 1 /\ e[1] = b[n + 1]
    BY SingletonFacts
  <1>4. Count(e, Y) = IF b[n + 1] \in Y THEN 1 ELSE 0
    BY CountOne
  <1> HIDE DEF u, v, e
  <1>5. IsSeq(t) /\ Len(t) = n + 1 /\ (\A i \in 1..n : t[i] = u[i]) /\ t[n + 1] = e[1]
    <2>1. IsSeq(u) /\ IsSeq(e) /\ Len(u) \in Nat /\ Len(e) \in Nat /\ 1 \in 1..Len(e)
      BY <1>1, <1>3
    <2>2. /\ IsSeq(t) /\ Len(t) = Len(u) + Len(e)
          /\ \A i \in 1..Len(u) : t[i] = u[i]
          /\ \A i \in 1..Len(e) : t[Len(u) + i] = e[i]
      BY <2>1, ConcatFacts
    <2> QED
      BY <1>1, <1>3, <2>1, <2>2
  <1>6. Count(t, Y) = Count(u, Y) + Count(e, Y)
    BY <1>1, <1>3, CountConcat
  <1> HIDE DEF t
  <1>7. \A i \in 1..n + 1 : v[i] = t[i]
    <2>1. ASSUME NEW i \in 1..n + 1 PROVE v[i] = t[i]
      <3>1. i \in 1..n \/ i = n + 1
        OBVIOUS
      <3> QED
        BY <1>1, <1>2, <1>3, <1>5, <3>1
    <2> QED
      BY <2>1
  <1>8. v = t
    BY <1>2, <1>5, <1>7, SameSeq
  <1> QED
    BY <1>4, <1>6, <1>8 DEF u, v

LEMMA FirstAll ==
  ASSUME NEW s, IsSeq(s)
  PROVE  First(s, Len(s)) = s
  BY SeqFacts DEF First

\* Each section of an element in Y has m elements in X, the others have none.
LEMMA CountFlatten ==
  ASSUME NEW b, IsSeq(b), NEW s, IsSeq(s), Len(s) = Len(b), NEW m \in Nat, NEW X, NEW Y,
         \A i \in 1..Len(b) : IsSeq(s[i]) /\ Count(s[i], X) = IF b[i] \in Y THEN m ELSE 0
  PROVE  Count(FlattenSeq(s), X) = m * Count(b, Y)
  <1> DEFINE Sofar(n) == IsSeq(FlattenSeq(First(s, n))) /\ Count(FlattenSeq(First(s, n)), X) = m * Count(First(b, n), Y)
             S == {n \in Nat : n <= Len(s) => Sofar(n)}
  <1>0. Len(s) \in Nat
    BY SeqFacts
  <1>1. 0 \in S
    <2>1. FlattenSeq(First(s, 0)) = <<>>
      BY FlattenNone
    <2>2. IsSeq(<<>>) /\ Count(<<>>, X) = 0
      BY SingletonFacts, CountOne
    <2>3. Len(First(b, 0)) = 0
      BY FirstFacts
    <2>4. Count(First(b, 0), Y) = 0
      BY <2>3, CountNone
    <2>5. m * 0 = 0
      OBVIOUS
    <2> QED
      BY <2>1, <2>2, <2>4, <2>5
  <1>2. ASSUME NEW n \in Nat, n \in S PROVE n + 1 \in S
    <2> SUFFICES ASSUME n + 1 <= Len(s) PROVE Sofar(n + 1)
      OBVIOUS
    <2>1. Sofar(n) /\ n + 1 \in 1..Len(s)
      BY <1>0, <1>2
    <2>2. IsSeq(s[n + 1]) /\ Count(s[n + 1], X) = IF b[n + 1] \in Y THEN m ELSE 0
      BY <2>1
    <2>3. FlattenSeq(First(s, n + 1)) = FlattenSeq(First(s, n)) \o s[n + 1]
      BY <2>1, FlattenFirst
    <2>4. /\ IsSeq(FlattenSeq(First(s, n + 1)))
          /\ Count(FlattenSeq(First(s, n + 1)), X) = Count(FlattenSeq(First(s, n)), X) + Count(s[n + 1], X)
      <3>1. IsSeq(FlattenSeq(First(s, n)) \o s[n + 1])
        BY <2>1, <2>2, ConcatElements
      <3>2. PICK x, y : x = FlattenSeq(First(s, n)) /\ y = s[n + 1]
        OBVIOUS
      <3>3. IsSeq(x) /\ IsSeq(y)
        BY <2>1, <2>2, <3>2
      <3>4. Count(x \o y, X) = Count(x, X) + Count(y, X)
        BY <3>3, CountConcat
      <3> QED
        BY <2>3, <3>1, <3>2, <3>4
    <2>5. Count(First(b, n + 1), Y) = Count(First(b, n), Y) + (IF b[n + 1] \in Y THEN 1 ELSE 0)
      BY CountFirst
    <2>6. Count(First(b, n), Y) \in Nat
      BY FirstFacts, CountNat
    <2>7. \A c \in Nat : m * (c + 1) = m * c + m /\ m * (c + 0) = m * c + 0
      OBVIOUS
    <2> QED
      BY <2>1, <2>2, <2>4, <2>5, <2>6, <2>7
  <1> HIDE DEF S
  <1>3. Nat \subseteq S
    BY <1>1, <1>2, SetInduction
  <1>4. Len(s) \in S
    BY <1>0, <1>3
  <1>5. First(s, Len(s)) = s /\ First(b, Len(s)) = b
    BY FirstAll
  <1> QED
    BY <1>0, <1>4, <1>5 DEF S

-----------------------------------------------------------------------------
(* How many tasks of a queue are of one frame.                             *)

Number(q, f) == Cardinality({i \in 1..Len(q) : q[i].correlation = f})
OfFrame(U, f) == {x \in U : x.correlation = f}

LEMMA NumberCount ==
  ASSUME NEW q, NEW U, Elements(q) \subseteq U, NEW f
  PROVE  Number(q, f) = Count(q, OfFrame(U, f))
  <1>1. \A i \in 1..Len(q) : q[i] \in U
    BY DEF Elements
  <1>2. Where(q, OfFrame(U, f)) = {i \in 1..Len(q) : q[i].correlation = f}
    BY <1>1 DEF Where, OfFrame
  <1> QED
    BY <1>2 DEF Number, Count

LEMMA NumberFacts ==
  ASSUME NEW q, IsSeq(q), NEW r, IsSeq(r), NEW f
  PROVE  Number(q, f) \in Nat /\ Number(q \o r, f) = Number(q, f) + Number(r, f)
  <1> DEFINE U == Elements(q) \cup Elements(r)
  <1>1. Elements(q \o r) = U
    BY ConcatElements
  <1>2. Number(q \o r, f) = Count(q \o r, OfFrame(U, f))
    BY <1>1, NumberCount
  <1>3. Elements(q) \subseteq U /\ Elements(r) \subseteq U
    OBVIOUS
  <1> HIDE DEF U
  <1>4. Number(q, f) = Count(q, OfFrame(U, f)) /\ Number(r, f) = Count(r, OfFrame(U, f))
    BY <1>3, NumberCount
  <1> QED
    BY <1>2, <1>4, CountNat, CountConcat

LEMMA NumberParts ==
  ASSUME NEW q, IsSeq(q), NEW n \in 0..Len(q), NEW f
  PROVE  /\ Number(q, f) = Number(FirstOf(q, n), f) + Number(Beyond(q, n), f)
         /\ Number(FirstOf(q, n), f) \in Nat /\ Number(Beyond(q, n), f) \in Nat
  <1> DEFINE U == Elements(q)
  <1>1. /\ IsSeq(FirstOf(q, n)) /\ Elements(FirstOf(q, n)) \subseteq U
        /\ IsSeq(Beyond(q, n)) /\ Elements(Beyond(q, n)) \subseteq U /\ Elements(q) \subseteq U
    BY PartElements
  <1> HIDE DEF U
  <1>2. /\ Number(q, f) = Count(q, OfFrame(U, f))
        /\ Number(FirstOf(q, n), f) = Count(FirstOf(q, n), OfFrame(U, f))
        /\ Number(Beyond(q, n), f) = Count(Beyond(q, n), OfFrame(U, f))
    BY <1>1, NumberCount
  <1>3. Count(q, OfFrame(U, f)) = Count(FirstOf(q, n), OfFrame(U, f)) + Count(Beyond(q, n), OfFrame(U, f))
    BY CountParts
  <1> QED
    BY <1>1, <1>2, <1>3, NumberFacts

LEMMA NumberSingle ==
  ASSUME NEW x, NEW f
  PROVE  Number(<<x>>, f) = (IF x.correlation = f THEN 1 ELSE 0) /\ Number(<<>>, f) = 0
  <1>1. Elements(<<x>>) = {x} /\ Elements(<<>>) = {}
    BY SingletonFacts
  <1>2. Number(<<x>>, f) = Count(<<x>>, OfFrame({x}, f)) /\ Number(<<>>, f) = Count(<<>>, OfFrame({x}, f))
    BY <1>1, NumberCount
  <1>3. x \in OfFrame({x}, f) <=> x.correlation = f
    BY DEF OfFrame
  <1> QED
    BY <1>2, <1>3, CountOne

LEMMA NumberNone ==
  ASSUME NEW q, NEW f, \A x \in Elements(q) : x.correlation # f
  PROVE  Number(q, f) = 0
  <1>1. {i \in 1..Len(q) : q[i].correlation = f} = {}
    BY DEF Elements
  <1> QED
    BY <1>1, FS_EmptySet DEF Number

LEMMA FirstMany ==
  ASSUME NEW m \in Nat
  PROVE  Cardinality(1..m) = m
  <1>1. Cardinality(1..m) = IF 1 > m THEN 0 ELSE m - 1 + 1
    BY FS_Interval
  <1> QED
    BY <1>1

\* A task of the frame f makes m, of the same frame.
LEMMA NumberMade ==
  ASSUME NEW q, IsSeq(q), NEW n \in 0..Len(q), NEW s, s = [i \in 1..n |-> s[i]], NEW f, NEW m \in Nat,
         \A i \in 1..n :
           /\ IsSeq(s[i]) /\ \A y \in Elements(s[i]) : y.correlation = q[i].correlation
           /\ q[i].correlation = f => Len(s[i]) = m
  PROVE  Number(FlattenSeq(s), f) = m * Number(FirstOf(q, n), f)
  <1> DEFINE b == FirstOf(q, n)
             U == UNION {Elements(s[i]) : i \in 1..n}
             X == OfFrame(U, f)
             Y == OfFrame(Elements(b), f)
  <1>1. IsSeq(b) /\ Len(b) = n /\ \A i \in 1..n : b[i] = q[i]
    BY PartElements
  <1> HIDE DEF b
  <1>2. n \in Nat
    BY SeqFacts
  <1>3. IsSeq(s) /\ Len(s) = n /\ \A x \in Elements(FlattenSeq(s)) : \E i \in 1..n : x \in Elements(s[i])
    BY <1>2, SectionSeq
  <1>4. Elements(FlattenSeq(s)) \subseteq U
    BY <1>3
  <1>5. Number(FlattenSeq(s), f) = Count(FlattenSeq(s), X)
    BY <1>4, NumberCount
  <1>6. Number(b, f) = Count(b, Y)
    BY NumberCount
  <1>7. ASSUME NEW i \in 1..n PROVE IsSeq(s[i]) /\ Count(s[i], X) = IF b[i] \in Y THEN m ELSE 0
    <2>1. b[i] \in Y <=> q[i].correlation = f
      BY <1>1 DEF OfFrame, Elements
    <2>2. Elements(s[i]) \subseteq U
      OBVIOUS
    <2>3. \A j \in 1..Len(s[i]) : s[i][j] \in X <=> q[i].correlation = f
      <3>1. \A j \in 1..Len(s[i]) : s[i][j] \in Elements(s[i])
        BY DEF Elements
      <3> QED
        BY <2>2, <3>1 DEF OfFrame
    <2>4. CASE q[i].correlation = f
      <3>1. Where(s[i], X) = 1..m
        BY <2>3, <2>4 DEF Where
      <3>2. Cardinality(1..m) = m
        BY FirstMany
      <3> QED
        BY <2>1, <2>4, <3>1, <3>2 DEF Count
    <2>5. CASE q[i].correlation # f
      BY <2>1, <2>3, <2>5, CountNone
    <2> QED
      BY <2>4, <2>5
  <1> HIDE DEF X, Y, U
  <1>8. Count(FlattenSeq(s), X) = m * Count(b, Y)
    BY <1>1, <1>3, <1>7, CountFlatten
  <1> QED
    BY <1>5, <1>6, <1>8 DEF b

Parsers == Cardinality({s \in DOMAIN Subscriptions :
             /\ Subscriptions[s].protocol = "parse" /\ Subscriptions[s].platform \in {"none", "any", "qqbot"}
             /\ Subscriptions[s].kind \in {"none", "message_created"}})

LEMMA SubscriptionsFacts ==
  /\ IsSeq(Subscriptions) /\ Len(Subscriptions) \in Nat /\ DOMAIN Subscriptions = 1..Len(Subscriptions)
  /\ Parsers \in Nat
  <1>1. IsSeq(Subscriptions) /\ Len(Subscriptions) \in Nat /\ DOMAIN Subscriptions = 1..Len(Subscriptions)
    BY EventsAssumption DEF IsSeq
  <1>2. IsFiniteSet(1..Len(Subscriptions))
    BY <1>1, FS_Interval
  <1> DEFINE I == {s \in DOMAIN Subscriptions :
             /\ Subscriptions[s].protocol = "parse" /\ Subscriptions[s].platform \in {"none", "any", "qqbot"}
             /\ Subscriptions[s].kind \in {"none", "message_created"}}
  <1>3. I \subseteq 1..Len(Subscriptions)
    BY <1>1
  <1> HIDE DEF I
  <1>4. Cardinality(I) \in Nat
    BY <1>2, <1>3, FS_Subset, FS_CardinalityType
  <1> QED
    BY <1>1, <1>4 DEF Parsers, I

\* The subscriptions that match a message, and those of them that are the parser's.
LEMMA MatchingParsers ==
  ASSUME NEW event, event.kind = "message_created"
  PROVE  Cardinality({j \in 1..Len(Matching(event)) : Matching(event)[j].protocol = "parse"}) = Parsers
  <1> DEFINE list == Matching(event)
             s == MatchSections(event)
             U == UNION {Elements(s[i]) : i \in 1..Len(Subscriptions)}
             X == {x \in U : x.protocol = "parse"}
             Y == {x \in Elements(Subscriptions) : x.protocol = "parse" /\ Matches(event, x)}
  <1>1. /\ IsSeq(s) /\ Len(s) = Len(Subscriptions)
        /\ \A i \in 1..Len(Subscriptions) :
             /\ IsSeq(s[i])
             /\ s[i] = IF Matches(event, Subscriptions[i]) THEN <<Subscriptions[i]>> ELSE <<>>
        /\ list = FlattenSeq(s) /\ IsSeq(list)
    BY MatchingFacts
  <1>2. \A x \in Elements(list) : \E i \in 1..Len(s) : x \in Elements(s[i])
    BY <1>1, FlattenElements
  <1>3. Elements(list) \subseteq U
    BY <1>1, <1>2
  <1>4. {j \in 1..Len(list) : list[j].protocol = "parse"} = Where(list, X)
    BY <1>3 DEF Where, Elements
  <1>5. ASSUME NEW i \in 1..Len(Subscriptions)
        PROVE  Count(s[i], X) = IF Subscriptions[i] \in Y THEN 1 ELSE 0
    <2>1. Subscriptions[i] \in Elements(Subscriptions)
      BY DEF Elements
    <2>2. Subscriptions[i] \in Y <=> Subscriptions[i].protocol = "parse" /\ Matches(event, Subscriptions[i])
      BY <2>1
    <2>3. CASE Matches(event, Subscriptions[i])
      <3>1. s[i] = <<Subscriptions[i]>>
        BY <1>1, <2>3
      <3>2. Subscriptions[i] \in U
        <4>1. Elements(<<Subscriptions[i]>>) = {Subscriptions[i]}
          BY SingletonFacts
        <4>2. Subscriptions[i] \in Elements(s[i])
          BY <3>1, <4>1
        <4> QED
          BY <4>2
      <3>3. Subscriptions[i] \in X <=> Subscriptions[i].protocol = "parse"
        BY <3>2
      <3> HIDE DEF X, Y, s
      <3>4. Count(s[i], X) = IF Subscriptions[i] \in X THEN 1 ELSE 0
        BY <3>1, CountOne
      <3> QED
        BY <2>2, <2>3, <3>3, <3>4
    <2>4. CASE ~Matches(event, Subscriptions[i])
      <3>1. s[i] = <<>>
        BY <1>1, <2>4
      <3> HIDE DEF X, Y, s
      <3>2. Count(s[i], X) = 0
        BY <3>1, CountOne
      <3> QED
        BY <2>2, <2>4, <3>2
    <2> QED
      BY <2>3, <2>4
  <1>6. Where(Subscriptions, Y) = {k \in DOMAIN Subscriptions :
             /\ Subscriptions[k].protocol = "parse" /\ Subscriptions[k].platform \in {"none", "any", "qqbot"}
             /\ Subscriptions[k].kind \in {"none", "message_created"}}
    BY SubscriptionsFacts DEF Where, Elements, Matches
  <1>7. Count(Subscriptions, Y) = Parsers /\ Parsers \in Nat
    BY <1>6, SubscriptionsFacts DEF Count, Parsers
  <1> HIDE DEF X, Y, s
  <1>8. Count(FlattenSeq(s), X) = Parsers
    <2>1. IsSeq(Subscriptions) /\ IsSeq(s) /\ Len(s) = Len(Subscriptions)
      BY <1>1, SubscriptionsFacts
    <2>2. PICK m \in Nat : m = 1
      OBVIOUS
    <2>3. \A i \in 1..Len(Subscriptions) : IsSeq(s[i]) /\ Count(s[i], X) = IF Subscriptions[i] \in Y THEN m ELSE 0
      BY <1>1, <1>5, <2>2
    <2>4. Count(FlattenSeq(s), X) = m * Count(Subscriptions, Y)
      BY <2>1, <2>3, CountFlatten
    <2> QED
      BY <1>7, <2>2, <2>4
  <1>9. Count(list, X) = Parsers
    BY <1>1, <1>8
  <1> QED
    BY <1>4, <1>9 DEF Count

\* A frame that is a command: each runner passes on all there is of it.
LEMMA CommandFrame ==
  ASSUME NEW frame, IsCommand(frame)
  PROVE  frame.op = 0 /\ EventOf(frame).kind = "message_created"
  <1>1. frame.op = 0 /\ frame.type \in MessageTypes
    BY DEF IsCommand, Asks
  <1> QED
    BY <1>1, EventFields DEF EventKind

LEMMA MappedNumber ==
  ASSUME EventsOK, NEW n \in 0..Len(frameTasks), NEW f, IsCommand(submitted[f])
  PROVE  Number(Mapped(n), f) = Number(FirstOf(frameTasks, n), f)
  <1> DEFINE s == [i \in 1..n |-> IngestTasks(frameTasks[i])]
  <1>0. PICK m \in Nat : m = 1
    OBVIOUS
  <1>1. 1..n \subseteq 1..Len(frameTasks) /\ IsSeq(frameTasks)
    BY SeqFacts DEF EventsOK
  <1>2. s = [i \in 1..n |-> s[i]] /\ \A i \in 1..n : s[i] = IngestTasks(frameTasks[i])
    OBVIOUS
  <1>3. Mapped(n) = FlattenSeq(s)
    BY DEF Mapped
  <1> HIDE DEF s
  <1>4. ASSUME NEW i \in 1..n
        PROVE  /\ IsSeq(s[i]) /\ \A y \in Elements(s[i]) : y.correlation = frameTasks[i].correlation
               /\ frameTasks[i].correlation = f => Len(s[i]) = m
    <2>1. FrameOK(frameTasks[i])
      BY <1>1 DEF EventsOK, Elements
    <2>2. /\ IsSeq(s[i]) /\ \A y \in Elements(s[i]) : y.correlation = frameTasks[i].correlation
          /\ Len(s[i]) = IF Frame(frameTasks[i]).op = 0 THEN 1 ELSE 0
      BY <1>2, <2>1, IngestFacts
    <2>3. frameTasks[i].correlation = f => Frame(frameTasks[i]).op = 0
      BY CommandFrame DEF Frame
    <2> QED
      BY <1>0, <2>2, <2>3
  <1>5. Number(FlattenSeq(s), f) = m * Number(FirstOf(frameTasks, n), f)
    BY <1>1, <1>2, <1>4, NumberMade
  <1> QED
    BY <1>0, <1>1, <1>3, <1>5, NumberParts

LEMMA ParsedNumber ==
  ASSUME EventsOK, NEW n \in 0..Len(parseTasks), NEW f, IsCommand(submitted[f])
  PROVE  Number(Parsed(n), f) = Number(FirstOf(parseTasks, n), f)
  <1> DEFINE s == [i \in 1..n |-> HandleTasks(parseTasks[i])]
  <1>0. PICK m \in Nat : m = 1
    OBVIOUS
  <1>1. 1..n \subseteq 1..Len(parseTasks) /\ IsSeq(parseTasks)
    BY SeqFacts DEF EventsOK
  <1>2. s = [i \in 1..n |-> s[i]] /\ \A i \in 1..n : s[i] = HandleTasks(parseTasks[i])
    OBVIOUS
  <1>3. Parsed(n) = FlattenSeq(s)
    BY DEF Parsed
  <1> HIDE DEF s
  <1>4. ASSUME NEW i \in 1..n
        PROVE  /\ IsSeq(s[i]) /\ \A y \in Elements(s[i]) : y.correlation = parseTasks[i].correlation
               /\ parseTasks[i].correlation = f => Len(s[i]) = m
    <2>1. EventOK(parseTasks[i])
      BY <1>1 DEF EventsOK, Elements
    <2>2. /\ IsSeq(s[i]) /\ \A y \in Elements(s[i]) : y.correlation = parseTasks[i].correlation
          /\ Len(s[i]) = IF IsCommand(Frame(parseTasks[i])) THEN 1 ELSE 0
      BY <1>2, <2>1, TextOfFrame, HandleFacts
    <2>3. parseTasks[i].correlation = f => IsCommand(Frame(parseTasks[i]))
      BY DEF Frame
    <2> QED
      BY <1>0, <2>2, <2>3
  <1>5. Number(FlattenSeq(s), f) = m * Number(FirstOf(parseTasks, n), f)
    BY <1>1, <1>2, <1>4, NumberMade
  <1> QED
    BY <1>0, <1>1, <1>3, <1>5, NumberParts

\* The router: one task for each of the parser's subscriptions.
LEMMA RoutedNumber ==
  ASSUME EventsOK, NEW n \in 0..Len(ingestTasks), NEW f, IsCommand(submitted[f])
  PROVE  Number(OfProtocol(Dispatched(n), "parse"), f) = Parsers * Number(FirstOf(ingestTasks, n), f)
  <1> DEFINE b == FirstOf(ingestTasks, n)
             s == [i \in 1..n |-> DispatchTasks(b, i)]
             children == Dispatched(n)
             sections == ProtocolSections(children, "parse")
             U == UNION {Elements(s[i]) : i \in 1..n}
             X == {x \in U : x.protocol = "parse" /\ x.correlation = f}
             Y == OfFrame(Elements(b), f)
             V == UNION {Elements(sections[c]) : c \in 1..Len(children)}
             Z == OfFrame(V, f)
  <1>0. Parsers \in Nat
    BY SubscriptionsFacts
  <1>1. /\ n \in Nat /\ IsSeq(b) /\ Len(b) = n
        /\ \A i \in 1..n : b[i] = ingestTasks[i] /\ ingestTasks[i] \in Elements(ingestTasks)
    <2>1. n \in Nat /\ 1..n \subseteq 1..Len(ingestTasks) /\ IsSeq(ingestTasks)
      BY SeqFacts DEF EventsOK
    <2>2. \A i \in 1..n : ingestTasks[i] \in Elements(ingestTasks)
      BY <2>1 DEF Elements
    <2> QED
      BY <2>1, <2>2, PartElements
  <1>2. s = [i \in 1..n |-> s[i]] /\ \A i \in 1..n : s[i] = DispatchTasks(b, i)
    OBVIOUS
  <1>3. children = FlattenSeq(s)
    BY DEF Dispatched
  <1> HIDE DEF s, b, children, sections
  <1>4. ASSUME NEW i \in 1..n
        PROVE  /\ IsSeq(s[i]) /\ Len(s[i]) = Len(Matching(b[i].payload))
               /\ \A j \in 1..Len(s[i]) :
                    /\ s[i][j].protocol = Matching(b[i].payload)[j].protocol
                    /\ s[i][j].correlation = b[i].correlation
    <2>1. /\ IsSeq(s[i]) /\ Len(s[i]) = Len(Matching(b[i].payload))
          /\ \A j \in 1..Len(Matching(b[i].payload)) : s[i][j].protocol = Matching(b[i].payload)[j].protocol
          /\ \A y \in Elements(s[i]) : y.correlation = b[i].correlation
      BY <1>2, DispatchFacts
    <2>2. \A j \in 1..Len(s[i]) : s[i][j] \in Elements(s[i])
      BY DEF Elements
    <2> QED
      BY <2>1, <2>2
  <1>5. ASSUME NEW i \in 1..n PROVE IsSeq(s[i]) /\ Count(s[i], X) = IF b[i] \in Y THEN Parsers ELSE 0
    <2>1. b[i] \in Y <=> b[i].correlation = f
      BY <1>1 DEF OfFrame, Elements
    <2>2. \A j \in 1..Len(s[i]) : s[i][j] \in X <=> Matching(b[i].payload)[j].protocol = "parse" /\ b[i].correlation = f
      <3>1. \A j \in 1..Len(s[i]) : s[i][j] \in U
        BY DEF Elements
      <3> QED
        BY <1>4, <3>1
    <2>3. CASE b[i].correlation = f
      <3>1. EventOK(b[i])
        BY <1>1 DEF EventsOK
      <3>2. b[i].payload = EventOf(submitted[f])
        BY <2>3, <3>1 DEF EventOK, Frame
      <3>3. b[i].payload.kind = "message_created"
        BY <3>2, CommandFrame
      <3>4. Where(s[i], X) = {j \in 1..Len(Matching(b[i].payload)) : Matching(b[i].payload)[j].protocol = "parse"}
        BY <1>4, <2>2, <2>3 DEF Where
      <3>5. Count(s[i], X) = Parsers
        BY <3>3, <3>4, MatchingParsers DEF Count
      <3> QED
        BY <1>4, <2>1, <2>3, <3>5
    <2>4. CASE b[i].correlation # f
      <3>1. \A j \in 1..Len(s[i]) : s[i][j] \notin X
        BY <2>2, <2>4
      <3> HIDE DEF X, Y
      <3>2. Count(s[i], X) = 0
        BY <3>1, CountNone
      <3> QED
        BY <1>4, <2>1, <2>4, <3>2
    <2> QED
      BY <2>3, <2>4
  <1>6. IsSeq(s) /\ Len(s) = n /\ \A x \in Elements(children) : \E i \in 1..n : x \in Elements(s[i])
    BY <1>1, <1>2, <1>3, <1>4, SectionSeq
  <1>7. Elements(children) \subseteq U
    BY <1>6
  <1>8. Count(children, X) = Parsers * Count(b, Y)
    <2> HIDE DEF X, Y, U
    <2> QED
      BY <1>0, <1>1, <1>3, <1>5, <1>6, CountFlatten
  <1>9. IsSeq(children)
    BY DispatchedFacts DEF children
  <1>10. /\ IsSeq(sections) /\ Len(sections) = Len(children)
         /\ \A c \in 1..Len(children) :
              /\ IsSeq(sections[c])
              /\ sections[c] = IF children[c].protocol = "parse" THEN <<children[c]>> ELSE <<>>
         /\ OfProtocol(children, "parse") = FlattenSeq(sections)
    BY <1>9, ProtocolFacts DEF sections
  <1>11. ASSUME NEW c \in 1..Len(children) PROVE Count(sections[c], Z) = IF children[c] \in X THEN 1 ELSE 0
    <2>1. children[c] \in X <=> children[c].protocol = "parse" /\ children[c].correlation = f
      <3>1. children[c] \in Elements(children)
        BY DEF Elements
      <3> QED
        BY <1>7, <3>1
    <2>2. CASE children[c].protocol = "parse"
      <3>1. sections[c] = <<children[c]>>
        BY <1>10, <2>2
      <3>2. Elements(<<children[c]>>) = {children[c]}
        BY SingletonFacts
      <3>3. children[c] \in V
        BY <3>1, <3>2
      <3>4. children[c] \in Z <=> children[c].correlation = f
        BY <3>3 DEF OfFrame
      <3> HIDE DEF Z, X, V
      <3>5. Count(sections[c], Z) = IF children[c] \in Z THEN 1 ELSE 0
        BY <3>1, CountOne
      <3> QED
        BY <2>1, <2>2, <3>4, <3>5
    <2>3. CASE children[c].protocol # "parse"
      <3>1. sections[c] = <<>>
        BY <1>10, <2>3
      <3> HIDE DEF Z, X, V
      <3>2. Count(sections[c], Z) = 0
        BY <3>1, CountOne
      <3> QED
        BY <2>1, <2>3, <3>2
    <2> QED
      BY <2>2, <2>3
  <1>12. Count(FlattenSeq(sections), Z) = Count(children, X)
    <2> HIDE DEF Z, X, V
    <2>1. PICK m \in Nat : m = 1
      OBVIOUS
    <2>2. \A c \in 1..Len(children) : IsSeq(sections[c]) /\ Count(sections[c], Z) = IF children[c] \in X THEN m ELSE 0
      BY <1>10, <1>11, <2>1
    <2>3. Count(FlattenSeq(sections), Z) = m * Count(children, X)
      BY <1>9, <1>10, <2>2, CountFlatten
    <2>4. Count(children, X) \in Nat
      BY <1>9, CountNat
    <2> QED
      BY <2>1, <2>3, <2>4
  <1>13. Number(FlattenSeq(sections), f) = Count(FlattenSeq(sections), Z)
    <2>1. \A x \in Elements(FlattenSeq(sections)) : \E c \in 1..Len(children) : x \in Elements(sections[c])
      BY <1>10, FlattenElements
    <2>2. Elements(FlattenSeq(sections)) \subseteq V
      BY <2>1
    <2> HIDE DEF V
    <2> QED
      BY <2>2, NumberCount
  <1>14. Number(b, f) = Count(b, Y)
    BY NumberCount
  <1> QED
    BY <1>8, <1>10, <1>12, <1>13, <1>14 DEF children, b

-----------------------------------------------------------------------------
(* CommandsOnce.                                                           *)

\* A command is still to be routed, or it is there once for each subscription of the parser.
CountInv ==
  \A f \in 1..Len(submitted) :
    IsCommand(submitted[f]) =>
      Number(taken, f) + Number(handleTasks, f) + Number(parseTasks, f)
        + Parsers * (Number(ingestTasks, f) + Number(frameTasks, f)) = Parsers

LEMMA NumbersNat ==
  ASSUME EventsOK, NEW f
  PROVE  /\ Number(taken, f) \in Nat /\ Number(handleTasks, f) \in Nat /\ Number(parseTasks, f) \in Nat
         /\ Number(ingestTasks, f) \in Nat /\ Number(frameTasks, f) \in Nat
  BY NumberFacts DEF EventsOK

\* k tasks of a queue that become k, or Parsers * k, of the next.
LEMMA Balance ==
  ASSUME NEW P \in Nat, NEW t \in Nat, NEW h \in Nat, NEW p \in Nat, NEW i \in Nat, NEW f \in Nat, NEW k \in Nat,
         t + h + p + P * (i + f) = P
  PROVE  /\ \A h1 \in Nat : h = k + h1 => (t + k) + h1 + p + P * (i + f) = P
         /\ \A p1 \in Nat : p = k + p1 => t + (h + k) + p1 + P * (i + f) = P
         /\ \A i1 \in Nat : i = k + i1 => t + h + (p + P * k) + P * (i1 + f) = P
         /\ \A f1 \in Nat : f = k + f1 => t + h + p + P * ((i + k) + f1) = P
  <1>1. \A i1 \in Nat : i = k + i1 => P * (i + f) = P * k + P * (i1 + f)
    OBVIOUS
  <1>2. \A i1 \in Nat : P * k \in Nat /\ P * (i1 + f) \in Nat
    OBVIOUS
  <1>3. \A f1 \in Nat : f = k + f1 => (i + k) + f1 = i + f
    OBVIOUS
  <1>4. P * (i + f) \in Nat
    OBVIOUS
  <1> QED
    BY <1>1, <1>2, <1>3, <1>4

LEMMA CountSubmitted ==
  ASSUME EventsOK, CountInv, SubmitFrame
  PROVE  CountInv'
  <1>1. /\ UNCHANGED <<ingestTasks, parseTasks, handleTasks, taken>>
        /\ FramesKept /\ Len(submitted') = Len(submitted) + 1
    BY SubmitFrameFacts
  <1>2. PICK task : frameTasks' = frameTasks \o <<task>> /\ task.correlation = Len(submitted) + 1
    BY SubmitFrameFacts
  <1>3. \A f : Number(frameTasks', f) = Number(frameTasks, f) + (IF task.correlation = f THEN 1 ELSE 0)
    <2>1. IsSeq(frameTasks) /\ IsSeq(<<task>>)
      BY SingletonFacts DEF EventsOK
    <2> QED
      BY <1>2, <2>1, NumberFacts, NumberSingle
  <1>4. Len(submitted) \in Nat
    BY QueuesNumbered
  <1>5. ASSUME NEW f \in 1..Len(submitted'), IsCommand(submitted'[f])
        PROVE  Number(taken, f) + Number(handleTasks, f) + Number(parseTasks, f)
                 + Parsers * (Number(ingestTasks, f) + Number(frameTasks', f)) = Parsers
    <2>1. CASE f \in 1..Len(submitted)
      <3>1. submitted'[f] = submitted[f] /\ task.correlation # f
        BY <1>1, <1>2, <1>4, <2>1 DEF FramesKept
      <3>2. Number(frameTasks', f) = Number(frameTasks, f)
        BY <1>3, <3>1, NumbersNat
      <3> QED
        BY <1>5, <2>1, <3>1, <3>2 DEF CountInv
    <2>2. CASE f = Len(submitted) + 1
      <3>1. \A x \in Elements(taken) \cup Elements(handleTasks) \cup Elements(parseTasks)
                     \cup Elements(ingestTasks) \cup Elements(frameTasks) : x.correlation # f
        BY <2>2, QueuesNumbered
      <3>2. /\ Number(taken, f) = 0 /\ Number(handleTasks, f) = 0 /\ Number(parseTasks, f) = 0
            /\ Number(ingestTasks, f) = 0 /\ Number(frameTasks, f) = 0
        BY <3>1, NumberNone
      <3>3. Number(frameTasks', f) = 1
        BY <1>2, <1>3, <2>2, <3>2
      <3> QED
        BY <3>2, <3>3, SubscriptionsFacts
    <2> QED
      BY <1>1, <1>4, <2>1, <2>2
  <1> QED
    BY <1>1, <1>5 DEF CountInv, Number

LEMMA CountStep ==
  ASSUME EventsOK, CountInv, EventMoves
  PROVE  CountInv'
  <1> DEFINE Sum(t, h, p, i, f) == t + h + p + Parsers * (i + f) = Parsers
  <1>1. \A f \in 1..Len(submitted) : IsCommand(submitted[f]) =>
          Sum(Number(taken, f), Number(handleTasks, f), Number(parseTasks, f), Number(ingestTasks, f), Number(frameTasks, f))
    BY DEF CountInv
  <1>2. ASSUME UNCHANGED submitted,
               \A f \in 1..Len(submitted) : IsCommand(submitted[f]) =>
                 Sum(Number(taken', f), Number(handleTasks', f), Number(parseTasks', f), Number(ingestTasks', f),
                     Number(frameTasks', f))
        PROVE  CountInv'
    BY <1>2 DEF CountInv, Number
  <1> HIDE DEF Sum
  <1>3. ASSUME NEW k \in Nat, NEW t \in Nat, NEW h \in Nat, NEW p \in Nat, NEW i \in Nat, NEW f \in Nat, Sum(t, h, p, i, f)
        PROVE  /\ \A h1 \in Nat : h = k + h1 => Sum(t + k, h1, p, i, f)
               /\ \A p1 \in Nat : p = k + p1 => Sum(t, h + k, p1, i, f)
               /\ \A i1 \in Nat : i = k + i1 => Sum(t, h, p + Parsers * k, i1, f)
               /\ \A f1 \in Nat : f = k + f1 => Sum(t, h, p, i + k, f1)
    BY <1>3, Balance, SubscriptionsFacts DEF Sum
  <1>4. /\ IsSeq(frameTasks) /\ IsSeq(ingestTasks) /\ IsSeq(parseTasks) /\ IsSeq(handleTasks) /\ IsSeq(taken)
    BY DEF EventsOK
  <1>5. ASSUME NEW n, MapsFrames(n) PROVE CountInv'
    <2>1. n \in 0..Len(frameTasks) /\ UNCHANGED <<submitted, parseTasks, handleTasks, taken>>
      BY <1>5, SeqFacts, <1>4 DEF MapsFrames
    <2>2. PICK out, rest : out = Mapped(n) /\ rest = Beyond(frameTasks, n)
      OBVIOUS
    <2>3. ingestTasks' = ingestTasks \o out /\ frameTasks' = rest /\ IsSeq(out)
      BY <1>5, <2>1, <2>2, MappedFacts DEF MapsFrames
    <2>4. ASSUME NEW f \in 1..Len(submitted), IsCommand(submitted[f])
          PROVE  Sum(Number(taken, f), Number(handleTasks, f), Number(parseTasks, f), Number(ingestTasks', f), Number(frameTasks', f))
      <3>1. PICK k \in Nat : k = Number(FirstOf(frameTasks, n), f)
        BY <1>4, <2>1, NumberParts
      <3>2. Number(frameTasks, f) = k + Number(frameTasks', f) /\ Number(frameTasks', f) \in Nat
        BY <1>4, <2>1, <2>2, <2>3, <3>1, NumberParts
      <3>3. Number(out, f) = k
        BY <2>1, <2>2, <2>4, <3>1, MappedNumber
      <3>4. Number(ingestTasks', f) = Number(ingestTasks, f) + k
        BY <1>4, <2>3, <3>3, NumberFacts
      <3> QED
        BY <1>1, <1>3, <2>4, <3>2, <3>4, NumbersNat
    <2> QED
      BY <1>2, <2>1, <2>4
  <1>6. ASSUME NEW n, Routes(n) PROVE CountInv'
    <2>1. n \in 0..Len(ingestTasks) /\ UNCHANGED <<submitted, frameTasks, handleTasks, taken>>
      BY <1>6, SeqFacts, <1>4 DEF Routes
    <2>2. PICK out, rest : out = OfProtocol(Dispatched(n), "parse") /\ rest = Beyond(ingestTasks, n)
      OBVIOUS
    <2>3. parseTasks' = parseTasks \o out /\ ingestTasks' = rest /\ IsSeq(out)
      <3>1. IsSeq(Dispatched(n))
        BY <2>1, DispatchedFacts
      <3>2. IsSeq(OfProtocol(Dispatched(n), "parse"))
        BY <3>1, ProtocolFacts
      <3> QED
        BY <1>6, <2>2, <3>2 DEF Routes
    <2>4. ASSUME NEW f \in 1..Len(submitted), IsCommand(submitted[f])
          PROVE  Sum(Number(taken, f), Number(handleTasks, f), Number(parseTasks', f), Number(ingestTasks', f), Number(frameTasks, f))
      <3>1. PICK k \in Nat : k = Number(FirstOf(ingestTasks, n), f)
        BY <1>4, <2>1, NumberParts
      <3>2. Number(ingestTasks, f) = k + Number(ingestTasks', f) /\ Number(ingestTasks', f) \in Nat
        BY <1>4, <2>1, <2>2, <2>3, <3>1, NumberParts
      <3>3. Number(out, f) = Parsers * k
        BY <2>1, <2>2, <2>4, <3>1, RoutedNumber
      <3>4. Number(parseTasks', f) = Number(parseTasks, f) + Parsers * k
        BY <1>4, <2>3, <3>3, NumberFacts
      <3> QED
        BY <1>1, <1>3, <2>4, <3>2, <3>4, NumbersNat
    <2> QED
      BY <1>2, <2>1, <2>4
  <1>7. ASSUME NEW n, Parses(n) PROVE CountInv'
    <2>1. n \in 0..Len(parseTasks) /\ UNCHANGED <<submitted, frameTasks, ingestTasks, taken>>
      BY <1>7, SeqFacts, <1>4 DEF Parses
    <2>2. PICK out, rest : out = Parsed(n) /\ rest = Beyond(parseTasks, n)
      OBVIOUS
    <2>3. handleTasks' = handleTasks \o out /\ parseTasks' = rest /\ IsSeq(out)
      BY <1>7, <2>1, <2>2, ParsedFacts DEF Parses
    <2>4. ASSUME NEW f \in 1..Len(submitted), IsCommand(submitted[f])
          PROVE  Sum(Number(taken, f), Number(handleTasks', f), Number(parseTasks', f), Number(ingestTasks, f), Number(frameTasks, f))
      <3>1. PICK k \in Nat : k = Number(FirstOf(parseTasks, n), f)
        BY <1>4, <2>1, NumberParts
      <3>2. Number(parseTasks, f) = k + Number(parseTasks', f) /\ Number(parseTasks', f) \in Nat
        BY <1>4, <2>1, <2>2, <2>3, <3>1, NumberParts
      <3>3. Number(out, f) = k
        BY <2>1, <2>2, <2>4, <3>1, ParsedNumber
      <3>4. Number(handleTasks', f) = Number(handleTasks, f) + k
        BY <1>4, <2>3, <3>3, NumberFacts
      <3> QED
        BY <1>1, <1>3, <2>4, <3>2, <3>4, NumbersNat
    <2> QED
      BY <1>2, <2>1, <2>4
  <1>8. CASE Takes
    <2>1. 1 \in 0..Len(handleTasks) /\ UNCHANGED <<submitted, frameTasks, ingestTasks, parseTasks>>
      BY <1>8, SeqFacts, <1>4 DEF Takes
    <2>2. PICK out, rest : out = <<handleTasks[1]>> /\ rest = Beyond(handleTasks, 1)
      OBVIOUS
    <2>3. taken' = taken \o out /\ handleTasks' = rest /\ IsSeq(out)
      BY <1>8, <2>2, SingletonFacts DEF Takes
    <2>4. FirstOf(handleTasks, 1) = out
      <3>1. /\ IsSeq(FirstOf(handleTasks, 1)) /\ Len(FirstOf(handleTasks, 1)) = 1
            /\ FirstOf(handleTasks, 1)[1] = handleTasks[1]
        <4>1. \A i \in 1..1 : FirstOf(handleTasks, 1)[i] = handleTasks[i]
          BY <1>4, <2>1, PartElements
        <4>2. 1 \in 1..1
          OBVIOUS
        <4> QED
          BY <1>4, <2>1, <4>1, <4>2, PartElements
      <3>2. Len(out) = 1 /\ out[1] = handleTasks[1]
        BY <2>2, SingletonFacts
      <3>3. \A i \in 1..1 : i = 1
        OBVIOUS
      <3> QED
        BY <2>3, <3>1, <3>2, <3>3, SameSeq
    <2>5. ASSUME NEW f \in 1..Len(submitted), IsCommand(submitted[f])
          PROVE  Sum(Number(taken', f), Number(handleTasks', f), Number(parseTasks, f), Number(ingestTasks, f), Number(frameTasks, f))
      <3>1. PICK k \in Nat : k = Number(out, f)
        BY <2>3, NumberFacts
      <3>2. Number(handleTasks, f) = k + Number(handleTasks', f) /\ Number(handleTasks', f) \in Nat
        BY <1>4, <2>1, <2>2, <2>3, <2>4, <3>1, NumberParts
      <3>3. Number(taken', f) = Number(taken, f) + k
        BY <1>4, <2>3, <3>1, NumberFacts
      <3> QED
        BY <1>1, <1>3, <2>5, <3>2, <3>3, NumbersNat
    <2> QED
      BY <1>2, <2>1, <2>5
  <1>9. CASE NoEvents
    BY <1>9 DEF NoEvents, CountInv, Number
  <1> QED
    BY <1>5, <1>6, <1>7, <1>8, <1>9, CountSubmitted DEF EventMoves

\* The name of a command is what follows k words of the text, at least one.
LEMMA CommandByText ==
  ASSUME NEW frame, frame.text \in Seq(STRING)
  PROVE  IsCommand(frame) <=>
           \E name \in {Beyond(frame.text, k) : k \in 1..Len(frame.text)} : Asks(frame, Lower(name))
  <1> SUFFICES ASSUME NEW name, Asks(frame, name)
               PROVE  \E k \in 1..Len(frame.text) : name = Lower(Beyond(frame.text, k))
    BY DEF IsCommand
  <1>1. PICK i \in DOMAIN CommandPrefixes, mention \in {<<>>, <<"@bot">>} :
          /\ IsPrefix(mention \o CommandPrefixes[i], frame.text)
          /\ name = Lower(Beyond(frame.text, Len(mention \o CommandPrefixes[i])))
    BY DEF Asks
  <1>2. CommandPrefixes[i] \in Seq(STRING) /\ CommandPrefixes[i] # <<>>
    BY <1>1, EventsAssumption
  <1>3. IsSeq(mention) /\ IsSeq(CommandPrefixes[i]) /\ IsSeq(frame.text)
    <2>1. IsSeq(<<>>) /\ IsSeq(<<"@bot">>)
      BY SingletonFacts
    <2> QED
      BY <1>1, <1>2, <2>1 DEF IsSeq
  <1>4. Len(mention) \in Nat /\ Len(CommandPrefixes[i]) \in Nat /\ Len(frame.text) \in Nat /\ Len(CommandPrefixes[i]) # 0
    <2>1. Len(CommandPrefixes[i]) # 0
      BY <1>2
    <2> QED
      BY <1>3, <2>1, SeqFacts
  <1>5. PICK p : p = mention \o CommandPrefixes[i]
    OBVIOUS
  <1>6. IsSeq(p) /\ Len(p) \in Nat /\ Len(p) >= 1
    <2>1. IsSeq(p) /\ Len(p) = Len(mention) + Len(CommandPrefixes[i])
      BY <1>3, <1>5, ConcatFacts
    <2> QED
      BY <1>4, <2>1
  <1>7. Len(p) <= Len(frame.text)
    BY <1>1, <1>3, <1>5, <1>6, PrefixFacts
  <1> QED
    BY <1>1, <1>4, <1>5, <1>6, <1>7

LEMMA OnceEach ==
  ASSUME EventsOK, PipeInv, CountInv
  PROVE  CommandsOnce
  <1>1. IsSeq(taken) /\ IsSeq(handleTasks) /\ IsSeq(Commands)
        /\ Elements(Commands) = Elements(taken) \cup Elements(handleTasks)
    BY ConcatElements DEF EventsOK, Commands
  <1>2. DOMAIN Commands = 1..Len(Commands) /\ DOMAIN submitted = 1..Len(submitted) /\ Len(Commands) \in Nat
    BY <1>1, SeqFacts DEF EventsOK
  <1>3. ASSUME NEW i \in 1..Len(Commands)
        PROVE  CommandOK(Commands[i])
    BY <1>1 DEF EventsOK, Elements
  <1>4. Sorted(Commands)
    BY <1>1, SortedConcat DEF PipeInv, Commands
  <1>5. ASSUME NEW i \in 1..Len(Commands), i > 1
        PROVE  Commands[i - 1].correlation <= Commands[i].correlation
    <2>1. i - 1 \in 1..Len(Commands) /\ i - 1 < i
      BY <1>2, <1>5
    <2> QED
      BY <1>4, <2>1 DEF Sorted
  <1>6. ASSUME frameTasks = <<>>, ingestTasks = <<>>, parseTasks = <<>>, NEW f \in 1..Len(submitted)
        PROVE  Cardinality({i \in 1..Len(Commands) : Commands[i].correlation = f}) =
                 IF IsCommand(submitted[f]) THEN Parsers ELSE 0
    <2>1. Number(Commands, f) = Number(taken, f) + Number(handleTasks, f)
      BY <1>1, NumberFacts DEF Commands
    <2>2. CASE IsCommand(submitted[f])
      <3>1. Number(<<>>, f) = 0
        BY NumberSingle
      <3>2. Number(parseTasks, f) = 0 /\ Number(ingestTasks, f) = 0 /\ Number(frameTasks, f) = 0
        BY <1>6, <3>1
      <3>3. Parsers * (0 + 0) = 0
        BY SubscriptionsFacts
      <3>4. Number(taken, f) + Number(handleTasks, f) + 0 + Parsers * (0 + 0) = Parsers
        BY <2>2, <3>2 DEF CountInv
      <3>5. Number(taken, f) + Number(handleTasks, f) = Parsers
        BY <3>3, <3>4, NumbersNat
      <3> QED
        BY <2>1, <2>2, <3>5 DEF Number
    <2>3. CASE ~IsCommand(submitted[f])
      <3>1. \A x \in Elements(Commands) : x.correlation # f
        BY <1>1, <2>3 DEF EventsOK, CommandOK, IsCommand, Frame
      <3>2. Number(Commands, f) = 0
        BY <3>1, NumberNone
      <3> QED
        BY <2>3, <3>2 DEF Number
    <2> QED
      BY <2>2, <2>3
  <1>7. ASSUME NEW f \in 1..Len(submitted)
        PROVE  IsCommand(submitted[f]) <=>
                 \E name \in {Beyond(submitted[f].text, k) : k \in 1..Len(submitted[f].text)} : Asks(submitted[f], Lower(name))
    <2>1. submitted[f].text \in Seq(STRING)
      BY EventsAssumption DEF EventsOK, Elements
    <2> QED
      BY <2>1, CommandByText
  <1>8. \A i \in 1..Len(Commands) : Asks(submitted[Commands[i].correlation], Commands[i].binding)
    BY <1>3 DEF CommandOK, Frame
  <1> DEFINE Commanded(f) ==
               \E name \in {Beyond(submitted[f].text, k) : k \in 1..Len(submitted[f].text)} : Asks(submitted[f], Lower(name))
             Tasks(f) == Cardinality({i \in DOMAIN Commands : Commands[i].correlation = f})
  <1>9. ASSUME frameTasks = <<>>, ingestTasks = <<>>, parseTasks = <<>>, NEW f \in DOMAIN submitted
        PROVE  Tasks(f) = IF Commanded(f) THEN Parsers ELSE 0
    <2>1. f \in 1..Len(submitted) /\ Tasks(f) = Cardinality({i \in 1..Len(Commands) : Commands[i].correlation = f})
      BY <1>2
    <2>2. IsCommand(submitted[f]) <=> Commanded(f)
      BY <1>7, <2>1
    <2> HIDE DEF Tasks, Commanded
    <2> QED
      BY <1>6, <1>9, <2>1, <2>2
  <1>10. \A i \in DOMAIN Commands :
           /\ Asks(submitted[Commands[i].correlation], Commands[i].binding)
           /\ i > 1 => Commands[i - 1].correlation <= Commands[i].correlation
    BY <1>2, <1>5, <1>8
  <1>11. (frameTasks = <<>> /\ ingestTasks = <<>> /\ parseTasks = <<>>) =>
           \A f \in DOMAIN submitted : Tasks(f) = IF Commanded(f) THEN Parsers ELSE 0
    BY <1>9
  <1> QED
    BY <1>10, <1>11 DEF CommandsOnce, Parsers

\* Each message that is a command becomes one task for each subscription of the
\* parser that matches, in the order the messages arrived, whatever the batches
\* of the three runners; nothing else becomes one.  It holds for any frames,
\* prefixes, subscriptions and batch size: each entry of a queue carries the
\* number of its frame past the runners, in order, and what is taken from one
\* queue is what the next is given (run_batch of mapper.rs, of the router and
\* of the command plugin).
THEOREM CommandsAreMadeOnce == FlowSpec => []CommandsOnce
  <1>1. FlowInit => PipeInv /\ CountInv
    <2> SUFFICES ASSUME FlowInit PROVE PipeInv /\ CountInv
      OBVIOUS
    <2>1. Len(<<>>) = 0 /\ Elements(<<>>) = {}
      BY SingletonFacts
    <2> QED
      BY <2>1 DEF FlowInit, EventsInit, PipeInv, CountInv, Sorted, Precedes
  <1>2. EventsOK /\ PipeInv /\ CountInv => CommandsOnce
    BY OnceEach
  <1>3. EventsOK /\ PipeInv /\ CountInv /\ [FlowNext]_flowVars => (PipeInv /\ CountInv)'
    BY FlowEvents, PipeStep, CountStep, SubmittedLast, CountSubmitted
  <1> QED
    BY <1>1, <1>2, <1>3, EventsComeFromFrames, PTL DEF FlowSpec

=============================================================================
