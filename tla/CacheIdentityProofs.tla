------------------------ MODULE CacheIdentityProofs ------------------------
(***************************************************************************)
(* Proofs about CacheIdentity for texts of any length over any characters, *)
(* and argument objects with any keys and values.                          *)
(***************************************************************************)
EXTENDS CacheIdentity, SequenceTheorems, FiniteSetTheorems, NaturalsInduction,
        WellFoundedInduction, TLAPS

\* A set takes the place of the predicate that an induction is about.
LEMMA Induction ==
  ASSUME NEW S, 0 \in S, \A n \in Nat : n \in S => n + 1 \in S
  PROVE  Nat \subseteq S
<1> DEFINE T == Nat \ S
           R == OpToRel(<, Nat)
<1>0. \A x, y \in Nat : x < y => <<x, y>> \in R
  BY DEF OpToRel
<1>1. IsWellFoundedOn(R, Nat)
  BY NatLessThanWellFounded, Zenon
<1>2. SUFFICES ASSUME T # {} PROVE FALSE
  OBVIOUS
<1>3. PICK x \in T : \A y \in T : ~ (<<y, x>> \in R)
  <2> HIDE DEF R
  <2>1. T \subseteq Nat
   OBVIOUS
  <2> HIDE DEF T
  <2> QED
  BY <1>1, <1>2, <2>1, WFMin, Zenon
<1> HIDE DEF R
<1>4. x \in Nat /\ x # 0 /\ x - 1 \in Nat /\ x - 1 \notin S
  BY <1>0, <1>3
<1>5. <<x - 1, x>> \in R
  <2>1. x - 1 < x
    BY <1>4
  <2> QED
    BY <1>0, <1>4, <2>1
<1>6. x - 1 \in T
  BY <1>4
<1> QED
  BY <1>3, <1>5, <1>6

-----------------------------------------------------------------------------
\* What FlattenSeq computes: the function that its LET defines.
Flat(n, s, f) == f = [i \in 1 .. n |-> IF i = 1 THEN s[i] ELSE f[i - 1] \o s[i]]

LEMMA FlatAt ==
  ASSUME NEW n \in Nat, NEW s, NEW f, Flat(n, s, f), NEW i \in 1 .. n
  PROVE  f[i] = IF i = 1 THEN s[i] ELSE f[i - 1] \o s[i]
<1> DEFINE g == [j \in 1 .. n |-> IF j = 1 THEN s[j] ELSE f[j - 1] \o s[j]]
<1>1. f = g
  BY DEF Flat
<1>2. g[i] = IF i = 1 THEN s[i] ELSE f[i - 1] \o s[i]
  OBVIOUS
<1> HIDE DEF g
<1> QED
  BY <1>1, <1>2

LEMMA FlatExists ==
  ASSUME NEW n \in Nat, NEW s
  PROVE  \E f : Flat(n, s, f)
<1> DEFINE S == {m \in Nat : \E f : Flat(m, s, f)}
<1>1. 0 \in S
  <2>1. Flat(0, s, [i \in 1 .. 0 |-> i])
    BY DEF Flat
  <2> QED
    BY <2>1
<1>2. ASSUME NEW m \in Nat, m \in S PROVE m + 1 \in S
  <2>1. PICK f : Flat(m, s, f)
    BY <1>2
  <2> DEFINE h == IF m = 0 THEN s[1] ELSE f[m] \o s[m + 1]
             g == [i \in 1 .. m + 1 |-> IF i = m + 1 THEN h ELSE f[i]]
  <2>2. ASSUME NEW i \in 1 .. m + 1 PROVE g[i] = IF i = 1 THEN s[i] ELSE g[i - 1] \o s[i]
    <3>1. CASE i = m + 1 /\ m = 0
      BY <3>1
    <3>2. CASE i = m + 1 /\ m # 0
      <4>1. m \in 1 .. m + 1 /\ m # m + 1 /\ i - 1 = m /\ i # 1
        BY <3>2
      <4>2. g[i] = f[m] \o s[m + 1] /\ g[m] = f[m]
        BY <3>2, <4>1
      <4> QED
        BY <3>2, <4>1, <4>2
    <3>3. CASE i # m + 1
      <4>1. i \in 1 .. m /\ (i = 1 \/ i - 1 \in 1 .. m)
        BY <3>3
      <4>2. f[i] = IF i = 1 THEN s[i] ELSE f[i - 1] \o s[i]
        BY <2>1, <4>1 DEF Flat
      <4>3. g[i] = f[i] /\ (i # 1 => g[i - 1] = f[i - 1])
        BY <4>1
      <4> QED
        BY <4>2, <4>3
    <3> QED
      BY <3>1, <3>2, <3>3
  <2>3. g = [i \in 1 .. m + 1 |-> g[i]]
    OBVIOUS
  <2> HIDE DEF g
  <2>4. Flat(m + 1, s, g)
    BY <2>2, <2>3 DEF Flat
  <2>5. \E f1 : Flat(m + 1, s, f1)
    BY <2>4
  <2> QED
    BY <2>5
<1> HIDE DEF S
<1>3. n \in S
  BY <1>1, <1>2, Induction
<1> QED
  BY <1>3 DEF S

LEMMA FlatLast ==
  ASSUME NEW n \in Nat, n # 0, NEW s, NEW f, Flat(n + 1, s, f)
  PROVE  f[n + 1] = f[n] \o s[n + 1]
<1>1. f[n + 1] = IF n + 1 = 1 THEN s[n + 1] ELSE f[n + 1 - 1] \o s[n + 1]
  <2> DEFINE m == n + 1
  <2>1. m \in Nat /\ Flat(m, s, f) /\ n + 1 \in 1 .. m
    OBVIOUS
  <2> HIDE DEF m
  <2> QED
    BY <2>1, FlatAt
<1>2. n + 1 # 1 /\ f[n + 1 - 1] = f[n]
  OBVIOUS
<1> QED
  BY <1>1, <1>2, Zenon

\* Lists that agree but for one more member have such functions that agree.
LEMMA FlatAgree ==
  ASSUME NEW n \in Nat, NEW s, NEW f, Flat(n, s, f),
         NEW t, NEW g, Flat(n + 1, t, g),
         \A i \in 1 .. n : s[i] = t[i]
  PROVE  \A i \in 1 .. n : f[i] = g[i]
<1> DEFINE S == {k \in Nat : k \in 1 .. n => f[k] = g[k]}
<1>1. 0 \in S
  OBVIOUS
<1>2. ASSUME NEW k \in Nat, k \in S PROVE k + 1 \in S
  <2> SUFFICES ASSUME k + 1 \in 1 .. n PROVE f[k + 1] = g[k + 1]
    OBVIOUS
  <2>1. f[k + 1] = IF k + 1 = 1 THEN s[k + 1] ELSE f[k + 1 - 1] \o s[k + 1]
    BY FlatAt
  <2>2. k + 1 \in 1 .. n + 1
    OBVIOUS
  <2>3. g[k + 1] = IF k + 1 = 1 THEN t[k + 1] ELSE g[k + 1 - 1] \o t[k + 1]
    <3> DEFINE m == n + 1
    <3>1. m \in Nat /\ Flat(m, t, g) /\ k + 1 \in 1 .. m
      BY <2>2
    <3> HIDE DEF m
    <3> QED
      BY <3>1, FlatAt
  <2>4. k + 1 # 1 => k \in 1 .. n /\ k + 1 - 1 = k
    OBVIOUS
  <2>5. k + 1 # 1 => f[k] = g[k]
    BY <1>2, <2>4
  <2> QED
    BY <2>1, <2>3, <2>4, <2>5
<1> HIDE DEF S
<1>3. Nat \subseteq S
  BY <1>1, <1>2, Induction
<1> QED
  BY <1>3 DEF S

LEMMA FlattenValue ==
  ASSUME NEW s, Len(s) \in Nat, Len(s) # 0
  PROVE  \E f : Flat(Len(s), s, f) /\ FlattenSeq(s) = f[Len(s)]
<1> DEFINE f == CHOOSE f : Flat(Len(s), s, f)
<1>1. FlattenSeq(s) = f[Len(s)]
  BY DEF FlattenSeq, Flat
<1>2. Flat(Len(s), s, f)
  BY FlatExists
<1> QED
  BY <1>1, <1>2

LEMMA FlattenEmpty ==
  ASSUME NEW s, Len(s) = 0
  PROVE  FlattenSeq(s) = s
  BY DEF FlattenSeq

LEMMA FlattenTyped ==
  ASSUME NEW A, NEW s \in Seq(Seq(A))
  PROVE  FlattenSeq(s) \in Seq(A)
<1>1. Len(s) \in Nat /\ \A i \in 1 .. Len(s) : s[i] \in Seq(A)
  BY LenProperties, ElementOfSeq
<1>2. CASE Len(s) = 0
  <2>1. s = <<>>
    BY <1>2, EmptySeq
  <2> QED
    BY <1>2, <2>1, FlattenEmpty, EmptySeq
<1>3. CASE Len(s) # 0
  <2>1. PICK f : Flat(Len(s), s, f) /\ FlattenSeq(s) = f[Len(s)]
    BY <1>1, <1>3, FlattenValue
  <2> DEFINE S == {k \in Nat : k \in 1 .. Len(s) => f[k] \in Seq(A)}
  <2>2. 0 \in S
    OBVIOUS
  <2>3. ASSUME NEW k \in Nat, k \in S PROVE k + 1 \in S
    <3> SUFFICES ASSUME k + 1 \in 1 .. Len(s) PROVE f[k + 1] \in Seq(A)
      OBVIOUS
    <3>1. f[k + 1] = IF k + 1 = 1 THEN s[k + 1] ELSE f[k + 1 - 1] \o s[k + 1]
      BY <1>1, <2>1, FlatAt
    <3>2. s[k + 1] \in Seq(A)
      BY <1>1
    <3>3. CASE k + 1 = 1
      BY <3>1, <3>2, <3>3
    <3>4. CASE k + 1 # 1
      <4>1. k \in 1 .. Len(s) /\ k + 1 - 1 = k
        BY <1>1, <3>4
      <4>2. f[k] \in Seq(A)
        BY <2>3, <4>1
      <4> QED
        BY <3>1, <3>2, <3>4, <4>1, <4>2, ConcatProperties
    <3> QED
      BY <3>3, <3>4
  <2> HIDE DEF S
  <2>4. Nat \subseteq S
    BY <2>2, <2>3, Induction
  <2>5. Len(s) \in S /\ Len(s) \in 1 .. Len(s)
    BY <1>1, <1>3, <2>4
  <2> QED
    BY <2>1, <2>5 DEF S
<1> QED
  BY <1>2, <1>3

\* A list of texts that agrees with another, and has one more at its end.
LEMMA FlattenNext ==
  ASSUME NEW n \in Nat, n # 0, NEW s, Len(s) = n, NEW t, Len(t) = n + 1,
         \A i \in 1 .. n : s[i] = t[i]
  PROVE  FlattenSeq(t) = FlattenSeq(s) \o t[n + 1]
<1>1. PICK f : Flat(n, s, f) /\ FlattenSeq(s) = f[n]
  BY FlattenValue
<1>2. PICK g : Flat(n + 1, t, g) /\ FlattenSeq(t) = g[n + 1]
  <2>1. Len(t) \in Nat /\ Len(t) # 0
    OBVIOUS
  <2> QED
    BY <2>1, FlattenValue
<1>3. \A i \in 1 .. n : f[i] = g[i]
  BY <1>1, <1>2, FlatAgree
<1>4. g[n + 1] = g[n] \o t[n + 1]
  BY <1>2, FlatLast
<1>5. f[n] = g[n]
  <2>1. n \in 1 .. n
    OBVIOUS
  <2> QED
    BY <1>3, <2>1
<1> QED
  BY <1>1, <1>2, <1>4, <1>5

LEMMA FlattenOne ==
  ASSUME NEW t, Len(t) = 1
  PROVE  FlattenSeq(t) = t[1]
<1>1. PICK g : Flat(1, t, g) /\ FlattenSeq(t) = g[1]
  <2>1. Len(t) \in Nat /\ Len(t) # 0
    OBVIOUS
  <2>2. \E g : Flat(Len(t), t, g) /\ FlattenSeq(t) = g[Len(t)]
    BY <2>1, FlattenValue, Zenon
  <2> QED
    BY <2>2
<1>2. g[1] = t[1]
  BY <1>1, FlatAt
<1> QED
  BY <1>1, <1>2

LEMMA FlattenMore ==
  ASSUME NEW A, NEW s \in Seq(Seq(A)), NEW t \in Seq(Seq(A)),
         Len(t) = Len(s) + 1, \A i \in 1 .. Len(s) : t[i] = s[i]
  PROVE  FlattenSeq(t) = FlattenSeq(s) \o t[Len(t)]
<1> DEFINE n == Len(s)
<1>1. n \in Nat /\ Len(t) = n + 1
  BY LenProperties
<1>2. CASE n = 0
  <2>1. s = <<>> /\ Len(t) = 1
    BY <1>1, <1>2, EmptySeq
  <2>2. FlattenSeq(s) = <<>>
    BY <1>2, <2>1, FlattenEmpty
  <2>3. t[1] \in Seq(A)
    BY <2>1, ElementOfSeq
  <2>4. <<>> \o t[1] = t[1]
    BY <2>3, ConcatEmptySeq
  <2>5. FlattenSeq(t) = t[1]
    BY <2>1, FlattenOne
  <2> QED
    BY <2>1, <2>2, <2>4, <2>5
<1>3. CASE n # 0
  <2>1. \A i \in 1 .. n : s[i] = t[i]
    OBVIOUS
  <2>2. Len(s) = n
    OBVIOUS
  <2> HIDE DEF n
  <2>3. FlattenSeq(t) = FlattenSeq(s) \o t[n + 1]
    BY <1>1, <1>3, <2>1, <2>2, FlattenNext
  <2> QED
    BY <1>1, <2>3
<1> QED
  BY <1>2, <1>3

-----------------------------------------------------------------------------
\* Induction along the list: a set that holds the empty list, and every list
\* that is one longer than a member of it, holds all lists.
LEMMA ListInduction ==
  ASSUME NEW A, NEW T, <<>> \in T,
         \A s \in Seq(A), e \in A : s \in T => Append(s, e) \in T
  PROVE  Seq(A) \subseteq T
<1> DEFINE S == {n \in Nat : \A s \in Seq(A) : Len(s) = n => s \in T}
<1>1. 0 \in S
  BY EmptySeq
<1>2. ASSUME NEW n \in Nat, n \in S PROVE n + 1 \in S
  <2> SUFFICES ASSUME NEW s \in Seq(A), Len(s) = n + 1 PROVE s \in T
    OBVIOUS
  <2>1. s # <<>>
    BY EmptySeq
  <2>2. PICK t \in Seq(A), e \in A : s = Append(t, e)
    BY <2>1, SequenceEmptyOrAppend, Zenon
  <2>3. Len(s) = Len(t) + 1 /\ Len(t) \in Nat
    BY <2>2, AppendProperties, LenProperties
  <2>4. t \in T
    BY <1>2, <2>3
  <2> QED
    BY <2>2, <2>4
<1> HIDE DEF S
<1>3. Nat \subseteq S
  BY <1>1, <1>2, Induction
<1> QED
  BY <1>3, LenProperties DEF S

\* Append and concatenation under names which the provers do not expand.
Extend(s, e) == Append(s, e)

Cat(s, t) == s \o t

LEMMA CatProperties ==
  ASSUME NEW A, NEW s \in Seq(A), NEW t \in Seq(A)
  PROVE  /\ Cat(s, t) \in Seq(A) /\ Len(Cat(s, t)) = Len(s) + Len(t)
         /\ \A i \in 1 .. Len(s) + Len(t) : Cat(s, t)[i] = IF i <= Len(s) THEN s[i] ELSE t[i - Len(s)]
  BY ConcatProperties DEF Cat

LEMMA CatAssociative ==
  ASSUME NEW A, NEW s \in Seq(A), NEW t \in Seq(A), NEW u \in Seq(A)
  PROVE  Cat(s, Cat(t, u)) = Cat(Cat(s, t), u)
  BY ConcatAssociative DEF Cat

\* A word over A ends where the first other symbol stands.
LEMMA SplitFirst ==
  ASSUME NEW B, NEW A, A \subseteq B,
         NEW s \in Seq(A), NEW x \in Seq(B), Len(x) > 0 => x[1] \notin A,
         NEW t \in Seq(A), NEW y \in Seq(B), Len(y) > 0 => y[1] \notin A,
         Cat(s, x) = Cat(t, y)
  PROVE  s = t /\ x = y
<1>0. s \o x = t \o y
  BY DEF Cat
<1>1. /\ s \in Seq(B) /\ t \in Seq(B)
      /\ Len(s) \in Nat /\ Len(t) \in Nat /\ Len(x) \in Nat /\ Len(y) \in Nat
  BY SeqMonotonic, LenProperties
<1>2. /\ Len(s) + Len(x) = Len(t) + Len(y)
      /\ \A i \in 1 .. Len(s) + Len(x) : (s \o x)[i] = IF i <= Len(s) THEN s[i] ELSE x[i - Len(s)]
      /\ \A i \in 1 .. Len(t) + Len(y) : (t \o y)[i] = IF i <= Len(t) THEN t[i] ELSE y[i - Len(t)]
  BY <1>0, <1>1, ConcatProperties
<1>3. /\ \A i \in 1 .. Len(s) : s[i] \in A
      /\ \A i \in 1 .. Len(t) : t[i] \in A
  BY ElementOfSeq
<1>4. ~ Len(s) < Len(t)
  <2> SUFFICES ASSUME Len(s) < Len(t) PROVE FALSE
    OBVIOUS
  <2> DEFINE i == Len(s) + 1
  <2>1. i \in 1 .. Len(s) + Len(x) /\ i \in 1 .. Len(t) /\ i - Len(s) = 1 /\ Len(x) > 0
    BY <1>1, <1>2
  <2>2. (s \o x)[i] = x[1] /\ (t \o y)[i] = t[i]
    BY <1>1, <1>2, <2>1
  <2> QED
    BY <1>0, <1>3, <2>1, <2>2
<1>5. ~ Len(t) < Len(s)
  <2> SUFFICES ASSUME Len(t) < Len(s) PROVE FALSE
    OBVIOUS
  <2> DEFINE i == Len(t) + 1
  <2>1. i \in 1 .. Len(t) + Len(y) /\ i \in 1 .. Len(s) /\ i - Len(t) = 1 /\ Len(y) > 0
    BY <1>1, <1>2
  <2>2. (t \o y)[i] = y[1] /\ (s \o x)[i] = s[i]
    BY <1>1, <1>2, <2>1
  <2> QED
    BY <1>0, <1>3, <2>1, <2>2
<1>6. Len(s) = Len(t)
  BY <1>1, <1>4, <1>5
<1>7. s = t
  <2>1. ASSUME NEW i \in 1 .. Len(s) PROVE s[i] = t[i]
    BY <1>0, <1>1, <1>2, <1>6
  <2> QED
    BY <1>6, <2>1, SeqEqual
<1>8. x = y
  BY <1>0, <1>1, <1>7, ConcatSimplifications
<1> QED
  BY <1>7, <1>8

\* A symbol between what is before it and a word.
Sep(x, c, s) == x \o <<c>> \o s

\* A word over A starts after the last other symbol.
LEMMA SplitLast ==
  ASSUME NEW B, NEW A, A \subseteq B,
         NEW s \in Seq(A), NEW x \in Seq(B), NEW c \in B \ A,
         NEW t \in Seq(A), NEW y \in Seq(B), NEW d \in B \ A,
         Sep(x, c, s) = Sep(y, d, t)
  PROVE  x = y /\ c = d /\ s = t
<1>0. x \o <<c>> \o s = y \o <<d>> \o t
  BY DEF Sep
<1> DEFINE xc == Append(x, c)
           yd == Append(y, d)
<1>1. /\ s \in Seq(B) /\ t \in Seq(B)
      /\ Len(s) \in Nat /\ Len(t) \in Nat /\ Len(x) \in Nat /\ Len(y) \in Nat
  BY SeqMonotonic, LenProperties
<1>2. /\ x \o <<c>> = xc /\ xc \in Seq(B) /\ Len(xc) = Len(x) + 1 /\ xc[Len(x) + 1] = c
      /\ y \o <<d>> = yd /\ yd \in Seq(B) /\ Len(yd) = Len(y) + 1 /\ yd[Len(y) + 1] = d
  BY <1>1, AppendIsConcat, AppendProperties
<1> HIDE DEF xc, yd
<1>3. xc \o s = yd \o t
  BY <1>0, <1>2
<1>4. /\ Len(xc) + Len(s) = Len(yd) + Len(t)
      /\ \A i \in 1 .. Len(xc) + Len(s) : (xc \o s)[i] = IF i <= Len(xc) THEN xc[i] ELSE s[i - Len(xc)]
      /\ \A i \in 1 .. Len(yd) + Len(t) : (yd \o t)[i] = IF i <= Len(yd) THEN yd[i] ELSE t[i - Len(yd)]
  <2>1. /\ Len(xc \o s) = Len(xc) + Len(s)
        /\ \A i \in 1 .. Len(xc) + Len(s) : (xc \o s)[i] = IF i <= Len(xc) THEN xc[i] ELSE s[i - Len(xc)]
    BY <1>1, <1>2, ConcatProperties
  <2>2. /\ Len(yd \o t) = Len(yd) + Len(t)
        /\ \A i \in 1 .. Len(yd) + Len(t) : (yd \o t)[i] = IF i <= Len(yd) THEN yd[i] ELSE t[i - Len(yd)]
    BY <1>1, <1>2, ConcatProperties
  <2> QED
    BY <1>3, <2>1, <2>2
<1>5. /\ \A i \in 1 .. Len(s) : s[i] \in A
      /\ \A i \in 1 .. Len(t) : t[i] \in A
  BY ElementOfSeq
<1>6. ~ Len(xc) < Len(yd)
  <2> SUFFICES ASSUME Len(xc) < Len(yd) PROVE FALSE
    OBVIOUS
  <2> DEFINE i == Len(yd)
  <2>1. i \in 1 .. Len(yd) + Len(t) /\ i \in 1 .. Len(xc) + Len(s) /\ i - Len(xc) \in 1 .. Len(s)
    BY <1>1, <1>2, <1>4
  <2>2. (yd \o t)[i] = d /\ (xc \o s)[i] = s[i - Len(xc)]
    BY <1>1, <1>2, <1>4, <2>1
  <2> QED
    BY <1>3, <1>5, <2>1, <2>2
<1>7. ~ Len(yd) < Len(xc)
  <2> SUFFICES ASSUME Len(yd) < Len(xc) PROVE FALSE
    OBVIOUS
  <2> DEFINE i == Len(xc)
  <2>1. i \in 1 .. Len(xc) + Len(s) /\ i \in 1 .. Len(yd) + Len(t) /\ i - Len(yd) \in 1 .. Len(t)
    BY <1>1, <1>2, <1>4
  <2>2. (xc \o s)[i] = c /\ (yd \o t)[i] = t[i - Len(yd)]
    BY <1>1, <1>2, <1>4, <2>1
  <2> QED
    BY <1>3, <1>5, <2>1, <2>2
<1>8. Len(xc) = Len(yd)
  BY <1>1, <1>2, <1>6, <1>7
<1>9. xc = yd
  <2>1. ASSUME NEW i \in 1 .. Len(xc) PROVE xc[i] = yd[i]
    BY <1>1, <1>2, <1>3, <1>4, <1>8
  <2> QED
    BY <1>2, <1>8, <2>1, SeqEqual
<1>10. s = t
  BY <1>1, <1>2, <1>3, <1>9, ConcatSimplifications
<1>11. x = y /\ c = d
  BY <1>9, AppendInjective DEF xc, yd
<1> QED
  BY <1>10, <1>11

-----------------------------------------------------------------------------
\* The symbols of an encoded text: none of them is a delimiter.
Hexes == {"3A", "25", "23", "3F", "3D", "26", "7B", "7D"}
Delimiters == {":", "#", "?", "=", "&", "{", "}"}
Out == (Characters \ Escaped) \cup {"%"} \cup Hexes

Piece(c) == IF c \in Escaped THEN <<"%", Hex[c]>> ELSE <<c>>
Pieces(t) == [i \in DOMAIN t |-> Piece(t[i])]

LEMMA OutHasNoDelimiter == Out \cap Delimiters = {}
  BY DEF Out, Delimiters, Escaped, Hexes

LEMMA HexInjective ==
  /\ \A c \in Escaped : Hex[c] \in Hexes /\ Hex[c] # "%"
  /\ \A c, d \in Escaped : Hex[c] = Hex[d] => c = d
<1>1. /\ Hex[":"] = "3A" /\ Hex["%"] = "25" /\ Hex["#"] = "23" /\ Hex["?"] = "3F"
      /\ Hex["="] = "3D" /\ Hex["&"] = "26" /\ Hex["{"] = "7B" /\ Hex["}"] = "7D"
  BY DEF Hex, Escaped
<1> QED
  BY <1>1 DEF Escaped, Hexes

LEMMA PieceTyped ==
  ASSUME NEW c \in Characters
  PROVE  Piece(c) \in Seq(Out)
<1>1. CASE c \in Escaped
  <2>1. "%" \in Out /\ Hex[c] \in Out
    BY <1>1, HexInjective DEF Out
  <2>2. <<"%", Hex[c]>> \in Seq(Out)
    BY <2>1
  <2> QED
    BY <1>1, <2>2 DEF Piece
<1>2. CASE c \notin Escaped
  <2>1. c \in Out
    BY <1>2 DEF Out
  <2>2. <<c>> \in Seq(Out)
    BY <2>1
  <2> QED
    BY <1>2, <2>2 DEF Piece
<1> QED
  BY <1>1, <1>2

\* A function on an initial segment of the naturals is a list of that length.
LEMMA ListOf ==
  ASSUME NEW A, NEW n \in Nat, NEW f \in [1 .. n -> A]
  PROVE  f \in Seq(A) /\ Len(f) = n
<1>1. f \in Seq(A)
  BY SeqDef
<1>2. Len(f) \in Nat /\ 1 .. Len(f) = 1 .. n
  BY <1>1, LenProperties
<1>3. Len(f) = n
  <2>1. \A a, b \in Nat : 1 .. a = 1 .. b => ~ a < b
    <3> SUFFICES ASSUME NEW a \in Nat, NEW b \in Nat, 1 .. a = 1 .. b, a < b PROVE FALSE
      OBVIOUS
    <3>1. b \in 1 .. b /\ b \notin 1 .. a
      OBVIOUS
    <3> QED
      BY <3>1
  <2> QED
    BY <1>2, <2>1
<1> QED
  BY <1>1, <1>3

LEMMA PiecesTyped ==
  ASSUME NEW t \in Seq(Characters)
  PROVE  Pieces(t) \in Seq(Seq(Out)) /\ Len(Pieces(t)) = Len(t)
<1>1. DOMAIN t = 1 .. Len(t) /\ Len(t) \in Nat /\ \A i \in 1 .. Len(t) : t[i] \in Characters
  BY LenProperties, ElementOfSeq
<1>2. Pieces(t) \in [1 .. Len(t) -> Seq(Out)]
  BY <1>1, PieceTyped DEF Pieces
<1> QED
  BY <1>1, <1>2, ListOf

LEMMA EncodeTyped ==
  ASSUME NEW t \in Seq(Characters)
  PROVE  encodeComponent(t) \in Seq(Out)
<1>1. encodeComponent(t) = FlattenSeq(Pieces(t))
  BY DEF encodeComponent, Pieces, Piece
<1> QED
  BY <1>1, PiecesTyped, FlattenTyped

LEMMA EncodeEmpty == encodeComponent(<<>>) = <<>>
<1>1. encodeComponent(<<>>) = FlattenSeq(Pieces(<<>>))
  BY DEF encodeComponent, Pieces, Piece
<1>2. Pieces(<<>>) \in Seq(Seq(Out)) /\ Len(Pieces(<<>>)) = 0
  BY EmptySeq, PiecesTyped
<1>3. Pieces(<<>>) = <<>>
  BY <1>2, EmptySeq
<1> QED
  BY <1>1, <1>2, <1>3, FlattenEmpty

LEMMA EncodeAppend ==
  ASSUME NEW t \in Seq(Characters), NEW c \in Characters
  PROVE  encodeComponent(Append(t, c)) = encodeComponent(t) \o Piece(c)
<1> DEFINE u == Append(t, c)
<1>1. u \in Seq(Characters) /\ Len(u) = Len(t) + 1 /\ u[Len(t) + 1] = c /\ Len(t) \in Nat
      /\ \A i \in 1 .. Len(t) : u[i] = t[i]
  BY AppendProperties, LenProperties
<1> HIDE DEF u
<1>2. encodeComponent(t) = FlattenSeq(Pieces(t)) /\ encodeComponent(u) = FlattenSeq(Pieces(u))
  BY DEF encodeComponent, Pieces, Piece
<1>3. /\ Pieces(t) \in Seq(Seq(Out)) /\ Len(Pieces(t)) = Len(t)
      /\ Pieces(u) \in Seq(Seq(Out)) /\ Len(Pieces(u)) = Len(t) + 1
  BY <1>1, PiecesTyped
<1>4. /\ Pieces(u)[Len(t) + 1] = Piece(c)
      /\ \A i \in 1 .. Len(t) : Pieces(u)[i] = Pieces(t)[i]
  <2>1. DOMAIN t = 1 .. Len(t) /\ DOMAIN u = 1 .. Len(t) + 1
    BY <1>1, LenProperties
  <2>2. \A i \in 1 .. Len(t) + 1 : Pieces(u)[i] = Piece(u[i])
    BY <2>1 DEF Pieces
  <2>3. \A i \in 1 .. Len(t) : Pieces(t)[i] = Piece(t[i])
    BY <2>1 DEF Pieces
  <2>4. Len(t) + 1 \in 1 .. Len(t) + 1 /\ \A i \in 1 .. Len(t) : i \in 1 .. Len(t) + 1
    BY <1>1
  <2> QED
    BY <1>1, <2>2, <2>3, <2>4
<1>5. FlattenSeq(Pieces(u)) = FlattenSeq(Pieces(t)) \o Pieces(u)[Len(Pieces(u))]
  BY <1>3, <1>4, FlattenMore
<1> QED
  BY <1>2, <1>3, <1>4, <1>5 DEF u

LEMMA AppendTwo ==
  ASSUME NEW A, NEW s \in Seq(A), NEW a \in A, NEW b \in A
  PROVE  s \o <<a, b>> = Append(Append(s, a), b)
<1> DEFINE ab == <<a, b>>
           sa == Append(s, a)
           sab == Append(sa, b)
<1>1. ab \in Seq(A) /\ Len(ab) = 2 /\ ab[1] = a /\ ab[2] = b
  OBVIOUS
<1>2. /\ sa \in Seq(A) /\ Len(sa) = Len(s) + 1 /\ Len(s) \in Nat
      /\ \A i \in 1 .. Len(s) : sa[i] = s[i]
      /\ sa[Len(s) + 1] = a
  BY AppendProperties, LenProperties
<1> HIDE DEF ab, sa
<1>3. /\ sab \in Seq(A) /\ Len(sab) = Len(sa) + 1
      /\ \A i \in 1 .. Len(sa) : sab[i] = sa[i]
      /\ sab[Len(sa) + 1] = b
  BY <1>2, AppendProperties
<1>4. /\ s \o ab \in Seq(A) /\ Len(s \o ab) = Len(s) + Len(ab)
      /\ \A i \in 1 .. Len(s) + Len(ab) : (s \o ab)[i] = IF i <= Len(s) THEN s[i] ELSE ab[i - Len(s)]
  BY <1>1, ConcatProperties
<1> HIDE DEF sab
<1>5. ASSUME NEW i \in 1 .. Len(s) + 2 PROVE (s \o ab)[i] = sab[i]
  <2>1. CASE i \in 1 .. Len(s)
    BY <1>1, <1>2, <1>3, <1>4, <2>1
  <2>2. CASE i = Len(s) + 1
    <3>1. i - Len(s) = 1 /\ ~ i <= Len(s) /\ i \in 1 .. Len(sa)
      BY <1>2, <2>2
    <3> QED
      BY <1>1, <1>2, <1>3, <1>4, <2>2, <3>1
  <2>3. CASE i = Len(s) + 2
    <3>1. i - Len(s) = 2 /\ ~ i <= Len(s) /\ i = Len(sa) + 1
      BY <1>2, <2>3
    <3> QED
      BY <1>1, <1>2, <1>3, <1>4, <2>3, <3>1
  <2>4. Len(s) \in Nat
    BY <1>2
  <2>5. i \in 1 .. Len(s) \/ i = Len(s) + 1 \/ i = Len(s) + 2
    BY <2>4
  <2> QED
    BY <2>1, <2>2, <2>3, <2>5, Zenon
<1>6. s \o ab = sab
  BY <1>1, <1>2, <1>3, <1>4, <1>5, SeqEqual
<1> QED
  BY <1>6 DEF ab, sa, sab

LEMMA ExtendProperties ==
  ASSUME NEW A, NEW s \in Seq(A), NEW e \in A
  PROVE  Extend(s, e) \in Seq(A) /\ Extend(s, e) # <<>>
  BY AppendProperties DEF Extend

LEMMA ExtendInjective ==
  ASSUME NEW A, NEW s \in Seq(A), NEW e \in A, NEW t \in Seq(A), NEW f \in A, Extend(s, e) = Extend(t, f)
  PROVE  s = t /\ e = f
  BY AppendInjective DEF Extend

LEMMA EmptyOrExtend ==
  ASSUME NEW A, NEW s \in Seq(A), s # <<>>
  PROVE  \E t \in Seq(A), e \in A : s = Extend(t, e)
  BY SequenceEmptyOrAppend, Zenon DEF Extend

\* An escaped character ends in its hex symbol, after a percent sign; any
\* other stands for itself and is not a percent sign.
LEMMA EncodeStep ==
  ASSUME NEW t \in Seq(Characters), NEW c \in Characters
  PROVE  /\ c \in Escaped => /\ Hex[c] \in Out
                            /\ Extend(encodeComponent(t), "%") \in Seq(Out)
                            /\ encodeComponent(Extend(t, c)) = Extend(Extend(encodeComponent(t), "%"), Hex[c])
         /\ c \notin Escaped => /\ c \in Out /\ c # "%"
                               /\ encodeComponent(Extend(t, c)) = Extend(encodeComponent(t), c)
<1>1. encodeComponent(Extend(t, c)) = encodeComponent(t) \o Piece(c) /\ encodeComponent(t) \in Seq(Out)
  BY EncodeAppend, EncodeTyped DEF Extend
<1>2. ASSUME c \in Escaped
      PROVE  /\ Hex[c] \in Out
             /\ Extend(encodeComponent(t), "%") \in Seq(Out)
             /\ encodeComponent(Extend(t, c)) = Extend(Extend(encodeComponent(t), "%"), Hex[c])
  <2>1. Hex[c] \in Out /\ "%" \in Out
    BY <1>2, HexInjective DEF Out
  <2>2. encodeComponent(t) \o <<"%", Hex[c]>> = Extend(Extend(encodeComponent(t), "%"), Hex[c])
    BY <1>1, <2>1, AppendTwo DEF Extend
  <2>3. Extend(encodeComponent(t), "%") \in Seq(Out)
    BY <1>1, <2>1, ExtendProperties
  <2>4. Piece(c) = <<"%", Hex[c]>>
    BY <1>2 DEF Piece
  <2> QED
    BY <1>1, <2>1, <2>2, <2>3, <2>4, Zenon
<1>3. ASSUME c \notin Escaped
      PROVE  c \in Out /\ c # "%" /\ encodeComponent(Extend(t, c)) = Extend(encodeComponent(t), c)
  <2>1. c \in Out /\ c # "%"
    BY <1>3 DEF Out, Escaped
  <2>2. encodeComponent(t) \o <<c>> = Extend(encodeComponent(t), c)
    BY <1>1, <2>1, AppendIsConcat DEF Extend
  <2>3. Piece(c) = <<c>>
    BY <1>3 DEF Piece
  <2> QED
    BY <1>1, <2>1, <2>2, <2>3, Zenon
<1> QED
  BY <1>2, <1>3

LEMMA EncodeEnd ==
  ASSUME NEW t \in Seq(Characters), NEW z \in Seq(Out)
  PROVE  encodeComponent(t) # Extend(z, "%")
<1>0. "%" \in Out
  BY DEF Out
<1>1. CASE t = <<>>
  BY <1>0, <1>1, EncodeEmpty, ExtendProperties
<1>2. CASE t # <<>>
  <2>1. PICK u \in Seq(Characters), c \in Characters : t = Extend(u, c)
    BY <1>2, EmptyOrExtend
  <2>2. encodeComponent(u) \in Seq(Out)
    BY EncodeTyped
  <2>3. CASE c \in Escaped
    <3>1. Hex[c] # "%"
      BY <2>3, HexInjective
    <3> QED
      BY <1>0, <2>1, <2>3, <3>1, EncodeStep, ExtendInjective
  <2>4. CASE c \notin Escaped
    BY <1>0, <2>1, <2>2, <2>4, EncodeStep, ExtendInjective
  <2> QED
    BY <2>3, <2>4
<1> QED
  BY <1>1, <1>2

\* Encoding loses nothing, whatever the text.
LEMMA EncodeInjective ==
  ASSUME NEW t \in Seq(Characters), NEW u \in Seq(Characters), encodeComponent(t) = encodeComponent(u)
  PROVE  t = u
<1> DEFINE T == {a \in Seq(Characters) :
                   \A b \in Seq(Characters) : encodeComponent(a) = encodeComponent(b) => a = b}
<1>1. ASSUME NEW a \in Seq(Characters), NEW c \in Characters PROVE encodeComponent(Extend(a, c)) # <<>>
  <2>1. encodeComponent(a) \in Seq(Out)
    BY EncodeTyped
  <2>2. CASE c \in Escaped
    <3>1. /\ Hex[c] \in Out /\ Extend(encodeComponent(a), "%") \in Seq(Out)
          /\ encodeComponent(Extend(a, c)) = Extend(Extend(encodeComponent(a), "%"), Hex[c])
      BY <2>2, EncodeStep
    <3> QED
      BY <3>1, ExtendProperties
  <2>3. CASE c \notin Escaped
    BY <2>1, <2>3, EncodeStep, ExtendProperties
  <2> QED
    BY <2>2, <2>3
<1>2. <<>> \in T
  <2> SUFFICES ASSUME NEW b \in Seq(Characters), encodeComponent(<<>>) = encodeComponent(b) PROVE <<>> = b
    BY EmptySeq
  <2>1. encodeComponent(b) = <<>>
    BY EncodeEmpty
  <2>2. ASSUME b # <<>> PROVE FALSE
    <3>1. PICK v \in Seq(Characters), d \in Characters : b = Extend(v, d)
      BY <2>2, EmptyOrExtend
    <3> QED
      BY <1>1, <2>1, <3>1
  <2> QED
    BY <2>2
<1>3. ASSUME NEW a \in Seq(Characters), NEW c \in Characters, a \in T PROVE Extend(a, c) \in T
  <2>1. Extend(a, c) \in Seq(Characters)
    BY ExtendProperties
  <2> SUFFICES ASSUME NEW b \in Seq(Characters), encodeComponent(Extend(a, c)) = encodeComponent(b)
               PROVE  Extend(a, c) = b
    BY <2>1
  <2>2. b # <<>>
    BY <1>1, EncodeEmpty
  <2>3. PICK v \in Seq(Characters), d \in Characters : b = Extend(v, d)
    BY <2>2, EmptyOrExtend
  <2>4. encodeComponent(Extend(a, c)) = encodeComponent(Extend(v, d))
    BY <2>3
  <2>5. encodeComponent(a) \in Seq(Out) /\ encodeComponent(v) \in Seq(Out) /\ "%" \in Out
    BY EncodeTyped DEF Out
  <2>6. encodeComponent(a) = encodeComponent(v) /\ c = d
    <3>1. CASE c \in Escaped /\ d \in Escaped
      <4>1. /\ Hex[c] \in Out /\ Extend(encodeComponent(a), "%") \in Seq(Out)
            /\ Hex[d] \in Out /\ Extend(encodeComponent(v), "%") \in Seq(Out)
            /\ Extend(Extend(encodeComponent(a), "%"), Hex[c]) = Extend(Extend(encodeComponent(v), "%"), Hex[d])
        BY <2>4, <3>1, EncodeStep
      <4>2. Extend(encodeComponent(a), "%") = Extend(encodeComponent(v), "%") /\ Hex[c] = Hex[d]
        BY <4>1, ExtendInjective
      <4> QED
        BY <2>5, <3>1, <4>2, ExtendInjective, HexInjective
    <3>2. CASE c \notin Escaped /\ d \notin Escaped
      <4>1. Extend(encodeComponent(a), c) = Extend(encodeComponent(v), d) /\ c \in Out /\ d \in Out
        BY <2>4, <3>2, EncodeStep
      <4> QED
        BY <2>5, <4>1, ExtendInjective
    <3>3. CASE c \in Escaped /\ d \notin Escaped
      <4>1. /\ Extend(Extend(encodeComponent(a), "%"), Hex[c]) = Extend(encodeComponent(v), d)
            /\ Hex[c] \in Out /\ Extend(encodeComponent(a), "%") \in Seq(Out) /\ d \in Out
        BY <2>4, <3>3, EncodeStep
      <4>2. Extend(encodeComponent(a), "%") = encodeComponent(v)
        BY <2>5, <4>1, ExtendInjective
      <4> QED
        BY <2>5, <4>2, EncodeEnd
    <3>4. CASE c \notin Escaped /\ d \in Escaped
      <4>1. /\ Extend(Extend(encodeComponent(v), "%"), Hex[d]) = Extend(encodeComponent(a), c)
            /\ Hex[d] \in Out /\ Extend(encodeComponent(v), "%") \in Seq(Out) /\ c \in Out
        BY <2>4, <3>4, EncodeStep
      <4>2. Extend(encodeComponent(v), "%") = encodeComponent(a)
        BY <2>5, <4>1, ExtendInjective
      <4> QED
        BY <2>5, <4>2, EncodeEnd
    <3> QED
      BY <3>1, <3>2, <3>3, <3>4
  <2>7. a = v
    BY <1>3, <2>6
  <2> QED
    BY <2>3, <2>6, <2>7
<1> HIDE DEF T
<1>4. Seq(Characters) \subseteq T
  BY <1>2, <1>3, ListInduction DEF Extend
<1> QED
  BY <1>4 DEF T

-----------------------------------------------------------------------------
\* All the symbols of a key.
All == Out \cup Delimiters \cup {"dialcache-frame-v1", "watermark"}

LEMMA SepTyped ==
  ASSUME NEW A, NEW x \in Seq(A), NEW c \in A, NEW s \in Seq(A)
  PROVE  Sep(x, c, s) \in Seq(A) /\ Sep(x, c, s) # <<>> /\ Len(Sep(x, c, s)) > 0
<1> DEFINE xc == x \o <<c>>
<1>1. xc \in Seq(A) /\ Len(xc) = Len(x) + 1
  <2>1. xc = Append(x, c)
    BY AppendIsConcat
  <2> HIDE DEF xc
  <2> QED
    BY <2>1, AppendProperties
<1>2. Sep(x, c, s) = xc \o s
  BY DEF Sep
<1> HIDE DEF xc
<1>3. Sep(x, c, s) \in Seq(A) /\ Len(Sep(x, c, s)) = Len(xc) + Len(s)
  BY <1>1, <1>2, ConcatProperties
<1>4. Len(x) \in Nat /\ Len(s) \in Nat
  BY LenProperties
<1>5. Len(Sep(x, c, s)) > 0
  BY <1>1, <1>3, <1>4
<1> QED
  BY <1>3, <1>5, EmptySeq

LEMMA SepInjective ==
  ASSUME NEW x \in Seq(All), NEW c \in Delimiters, NEW s \in Seq(Out),
         NEW y \in Seq(All), NEW d \in Delimiters, NEW t \in Seq(Out),
         Sep(x, c, s) = Sep(y, d, t)
  PROVE  x = y /\ c = d /\ s = t
<1>1. Out \subseteq All /\ c \in All \ Out /\ d \in All \ Out
  BY OutHasNoDelimiter DEF All
<1> QED
  BY <1>1, SplitLast

LEMMA OutIsAll == Out \subseteq All /\ Delimiters \subseteq All /\ Seq(Out) \subseteq Seq(All)
<1>1. Out \subseteq All /\ Delimiters \subseteq All
  BY DEF All
<1> QED
  BY <1>1, SeqMonotonic

\* The names of an entity can be read back from its joined components.
LEMMA JoinTyped ==
  ASSUME NEW ns \in Seq(Characters), NEW type \in Seq(Characters), NEW id \in Seq(Characters)
  PROVE  LET join == joinUrnComponents(ns, type, id)
         IN  /\ join = Sep(Sep(encodeComponent(ns), ":", encodeComponent(type)), ":", encodeComponent(id))
             /\ join \in Seq(Out \cup {":"}) /\ Len(join) > 0
             /\ join \in Seq(All)
<1> DEFINE A == Out \cup {":"}
           inner == Sep(encodeComponent(ns), ":", encodeComponent(type))
<1>1. /\ encodeComponent(ns) \in Seq(A) /\ encodeComponent(type) \in Seq(A)
      /\ encodeComponent(id) \in Seq(A) /\ ":" \in A
  <2>1. Seq(Out) \subseteq Seq(A)
    BY SeqMonotonic
  <2> HIDE DEF A
  <2>2. ":" \in A
    BY DEF A
  <2> QED
    BY <2>1, <2>2, EncodeTyped
<1> HIDE DEF A
<1>2. inner \in Seq(A)
  BY <1>1, SepTyped
<1>3. joinUrnComponents(ns, type, id) = Sep(inner, ":", encodeComponent(id))
  BY DEF joinUrnComponents, Sep
<1> HIDE DEF inner
<1>4. Sep(inner, ":", encodeComponent(id)) \in Seq(A) /\ Len(Sep(inner, ":", encodeComponent(id))) > 0
  BY <1>1, <1>2, SepTyped
<1>5. A \subseteq All
  BY OutIsAll DEF A, Delimiters
<1>6. Sep(inner, ":", encodeComponent(id)) \in Seq(All)
  BY <1>4, <1>5, SeqMonotonic
<1> QED
  BY <1>3, <1>4, <1>6 DEF A, inner

LEMMA JoinInjective ==
  ASSUME NEW ns \in Seq(Characters), NEW type \in Seq(Characters), NEW id \in Seq(Characters),
         NEW ns2 \in Seq(Characters), NEW type2 \in Seq(Characters), NEW id2 \in Seq(Characters),
         joinUrnComponents(ns, type, id) = joinUrnComponents(ns2, type2, id2)
  PROVE  ns = ns2 /\ type = type2 /\ id = id2
<1> DEFINE inner == Sep(encodeComponent(ns), ":", encodeComponent(type))
           inner2 == Sep(encodeComponent(ns2), ":", encodeComponent(type2))
<1>1. Sep(inner, ":", encodeComponent(id)) = Sep(inner2, ":", encodeComponent(id2))
  BY JoinTyped
<1>2. ":" \in Delimiters /\ ":" \in All
  BY OutIsAll DEF Delimiters
<1>3. /\ encodeComponent(ns) \in Seq(All) /\ encodeComponent(ns2) \in Seq(All)
      /\ encodeComponent(type) \in Seq(All) /\ encodeComponent(type2) \in Seq(All)
      /\ encodeComponent(type) \in Seq(Out) /\ encodeComponent(type2) \in Seq(Out)
      /\ encodeComponent(id) \in Seq(Out) /\ encodeComponent(id2) \in Seq(Out)
  BY EncodeTyped, OutIsAll
<1>4. inner \in Seq(All) /\ inner2 \in Seq(All)
  BY <1>2, <1>3, SepTyped
<1>5. inner = inner2 /\ encodeComponent(id) = encodeComponent(id2)
  <2> HIDE DEF inner, inner2
  <2> QED
    BY <1>1, <1>2, <1>3, <1>4, SepInjective
<1>6. encodeComponent(ns) = encodeComponent(ns2) /\ encodeComponent(type) = encodeComponent(type2)
  BY <1>2, <1>3, <1>5, SepInjective
<1> QED
  BY <1>5, <1>6, EncodeInjective

-----------------------------------------------------------------------------
\* Arguments that are encoded, and what each of them contributes.
Entry == [name : Seq(Characters), value : Seq(Characters)]
ArgSep(i) == IF i = 1 THEN "?" ELSE "&"
ArgPiece(i, e) == Sep(Cat(<<ArgSep(i)>>, encodeComponent(e.name)), "=", encodeComponent(e.value))
ArgPieces(a) == [i \in DOMAIN a |-> ArgPiece(i, a[i])]

LEMMA SepConcat ==
  ASSUME NEW A, NEW x \in Seq(A), NEW c \in A, NEW n \in Seq(A), NEW d \in A, NEW v \in Seq(A)
  PROVE  Cat(x, Sep(Cat(<<c>>, n), d, v)) = Sep(Sep(x, c, n), d, v)
<1> DEFINE lc == <<c>>
           ld == <<d>>
<1>1. lc \in Seq(A) /\ ld \in Seq(A)
  OBVIOUS
<1>2. Sep(Cat(lc, n), d, v) = Cat(Cat(Cat(lc, n), ld), v) /\ Sep(Sep(x, c, n), d, v) = Cat(Cat(Cat(Cat(x, lc), n), ld), v)
  BY DEF Sep, Cat
<1> HIDE DEF lc, ld
<1>3. Cat(lc, n) \in Seq(A) /\ Cat(x, lc) \in Seq(A)
  BY <1>1, CatProperties
<1>4. Cat(Cat(lc, n), ld) \in Seq(A)
  BY <1>1, <1>3, CatProperties
<1>5. Cat(x, Cat(Cat(Cat(lc, n), ld), v)) = Cat(Cat(x, Cat(Cat(lc, n), ld)), v)
  BY <1>4, CatAssociative
<1>6. Cat(x, Cat(Cat(lc, n), ld)) = Cat(Cat(x, Cat(lc, n)), ld)
  BY <1>1, <1>3, CatAssociative
<1>7. Cat(x, Cat(lc, n)) = Cat(Cat(x, lc), n)
  BY <1>1, CatAssociative
<1>8. Cat(x, Sep(Cat(lc, n), d, v)) = Sep(Sep(x, c, n), d, v)
  BY <1>2, <1>5, <1>6, <1>7
<1> QED
  BY <1>8 DEF lc

LEMMA ArgPieceTyped ==
  ASSUME NEW i \in Nat, NEW e \in Entry
  PROVE  /\ ArgPiece(i, e) = Sep(Cat(<<ArgSep(i)>>, encodeComponent(e.name)), "=", encodeComponent(e.value))
         /\ ArgPiece(i, e) \in Seq(All) /\ Len(ArgPiece(i, e)) > 0
         /\ ArgPiece(i, e)[1] = ArgSep(i)
<1> DEFINE x == <<ArgSep(i)>>
           n == encodeComponent(e.name)
           v == encodeComponent(e.value)
<1>1. n \in Seq(All) /\ v \in Seq(All) /\ "=" \in All /\ ArgSep(i) \in All
  BY EncodeTyped, OutIsAll DEF Entry, ArgSep, Delimiters
<1>2. x \in Seq(All) /\ Len(x) = 1 /\ x[1] = ArgSep(i)
  BY <1>1
<1>3. ArgPiece(i, e) = Sep(Cat(x, n), "=", v)
  BY DEF ArgPiece
<1> HIDE DEF x, n, v
<1> DEFINE xn == Cat(x, n)
           xnd == Append(xn, "=")
<1>4. Len(n) \in Nat /\ Len(v) \in Nat
  BY <1>1, LenProperties
<1>5. xn \in Seq(All) /\ Len(xn) = 1 + Len(n) /\ xn[1] = ArgSep(i)
  <2>1. 1 \in 1 .. Len(x) + Len(n) /\ 1 <= Len(x)
    BY <1>2, <1>4
  <2> QED
    BY <1>1, <1>2, <2>1, CatProperties
<1> HIDE DEF xn
<1>6. Sep(xn, "=", v) \in Seq(All) /\ Len(Sep(xn, "=", v)) > 0
  BY <1>1, <1>5, SepTyped
<1>7. Sep(xn, "=", v)[1] = ArgSep(i)
  <2>1. xn \o <<"=">> = xnd /\ xnd \in Seq(All) /\ Len(xnd) = Len(xn) + 1 /\ xnd[1] = xn[1]
    <3>1. 1 \in 1 .. Len(xn)
      BY <1>4, <1>5
    <3> QED
      BY <1>1, <1>5, <3>1, AppendIsConcat, AppendProperties
  <2> HIDE DEF xnd
  <2>2. Sep(xn, "=", v) = xnd \o v
    BY <2>1 DEF Sep
  <2>3. 1 \in 1 .. Len(xnd) + Len(v) /\ 1 <= Len(xnd)
    BY <1>4, <1>5, <2>1
  <2>4. (xnd \o v)[1] = xnd[1]
    BY <1>1, <2>1, <2>3, ConcatProperties
  <2> QED
    BY <1>5, <2>1, <2>2, <2>4
<1> QED
  BY <1>3, <1>6, <1>7 DEF x, n, v, xn

LEMMA ArgPiecesTyped ==
  ASSUME NEW a \in Seq(Entry)
  PROVE  ArgPieces(a) \in Seq(Seq(All)) /\ Len(ArgPieces(a)) = Len(a)
<1>1. DOMAIN a = 1 .. Len(a) /\ Len(a) \in Nat /\ \A i \in 1 .. Len(a) : i \in Nat /\ a[i] \in Entry
  BY LenProperties, ElementOfSeq
<1>2. ArgPieces(a) \in [1 .. Len(a) -> Seq(All)]
  BY <1>1, ArgPieceTyped DEF ArgPieces
<1> QED
  BY <1>1, <1>2, ListOf

LEMMA ArgsTyped ==
  ASSUME NEW a \in Seq(Entry)
  PROVE  EncodedArgs(a) \in Seq(All)
<1>1. EncodedArgs(a) = FlattenSeq(ArgPieces(a))
  BY DEF EncodedArgs, ArgPieces, ArgPiece, ArgSep, Sep, Cat
<1> QED
  BY <1>1, ArgPiecesTyped, FlattenTyped

LEMMA ArgsEmpty == EncodedArgs(<<>>) = <<>>
<1>1. EncodedArgs(<<>>) = FlattenSeq(ArgPieces(<<>>))
  BY DEF EncodedArgs, ArgPieces, ArgPiece, ArgSep, Sep, Cat
<1>2. ArgPieces(<<>>) \in Seq(Seq(All)) /\ Len(ArgPieces(<<>>)) = 0
  BY EmptySeq, ArgPiecesTyped
<1>3. ArgPieces(<<>>) = <<>>
  BY <1>2, EmptySeq
<1> QED
  BY <1>1, <1>2, <1>3, FlattenEmpty

LEMMA ArgsAppend ==
  ASSUME NEW a \in Seq(Entry), NEW e \in Entry
  PROVE  /\ EncodedArgs(Extend(a, e)) = Cat(EncodedArgs(a), ArgPiece(Len(a) + 1, e))
         /\ EncodedArgs(Extend(a, e)) = Sep(Sep(EncodedArgs(a), ArgSep(Len(a) + 1), encodeComponent(e.name)),
                                          "=", encodeComponent(e.value))
<1> DEFINE u == Append(a, e)
<1>1. u \in Seq(Entry) /\ Len(u) = Len(a) + 1 /\ u[Len(a) + 1] = e /\ Len(a) \in Nat
      /\ \A i \in 1 .. Len(a) : u[i] = a[i]
  BY AppendProperties, LenProperties
<1> HIDE DEF u
<1>2. EncodedArgs(a) = FlattenSeq(ArgPieces(a)) /\ EncodedArgs(u) = FlattenSeq(ArgPieces(u))
  BY DEF EncodedArgs, ArgPieces, ArgPiece, ArgSep, Sep, Cat
<1>3. /\ ArgPieces(a) \in Seq(Seq(All)) /\ Len(ArgPieces(a)) = Len(a)
      /\ ArgPieces(u) \in Seq(Seq(All)) /\ Len(ArgPieces(u)) = Len(a) + 1
  BY <1>1, ArgPiecesTyped
<1>4. /\ ArgPieces(u)[Len(a) + 1] = ArgPiece(Len(a) + 1, e)
      /\ \A i \in 1 .. Len(a) : ArgPieces(u)[i] = ArgPieces(a)[i]
  <2>1. DOMAIN a = 1 .. Len(a) /\ DOMAIN u = 1 .. Len(a) + 1
    BY <1>1, LenProperties
  <2>2. \A i \in 1 .. Len(a) + 1 : ArgPieces(u)[i] = ArgPiece(i, u[i])
    BY <2>1 DEF ArgPieces
  <2>3. \A i \in 1 .. Len(a) : ArgPieces(a)[i] = ArgPiece(i, a[i])
    BY <2>1 DEF ArgPieces
  <2>4. Len(a) + 1 \in 1 .. Len(a) + 1 /\ \A i \in 1 .. Len(a) : i \in 1 .. Len(a) + 1
    BY <1>1
  <2> QED
    BY <1>1, <2>2, <2>3, <2>4
<1>5. FlattenSeq(ArgPieces(u)) = FlattenSeq(ArgPieces(a)) \o ArgPieces(u)[Len(ArgPieces(u))]
  BY <1>3, <1>4, FlattenMore
<1>6. EncodedArgs(u) = Cat(EncodedArgs(a), ArgPiece(Len(a) + 1, e))
  BY <1>2, <1>3, <1>4, <1>5 DEF Cat
<1>7. Cat(EncodedArgs(a), ArgPiece(Len(a) + 1, e))
        = Sep(Sep(EncodedArgs(a), ArgSep(Len(a) + 1), encodeComponent(e.name)), "=", encodeComponent(e.value))
  <2> DEFINE n == encodeComponent(e.name)
             v == encodeComponent(e.value)
             c == ArgSep(Len(a) + 1)
             x == EncodedArgs(a)
  <2>1. n \in Seq(All) /\ v \in Seq(All) /\ "=" \in All /\ c \in All /\ x \in Seq(All)
    BY EncodeTyped, OutIsAll, ArgsTyped DEF Entry, ArgSep, Delimiters
  <2>2. ArgPiece(Len(a) + 1, e) = Sep(Cat(<<c>>, n), "=", v)
    BY <1>1, ArgPieceTyped
  <2> HIDE DEF n, v, c, x
  <2>3. Cat(x, Sep(Cat(<<c>>, n), "=", v)) = Sep(Sep(x, c, n), "=", v)
    BY <2>1, SepConcat
  <2>4. Cat(x, ArgPiece(Len(a) + 1, e)) = Sep(Sep(x, c, n), "=", v)
    BY <2>2, <2>3
  <2> QED
    BY <2>4 DEF n, v, c, x
<1> QED
  BY <1>6, <1>7 DEF u, Extend

\* Encoded arguments start with a question mark, if there are any.
LEMMA ArgsStart ==
  ASSUME NEW a \in Seq(Entry), Len(EncodedArgs(a)) > 0
  PROVE  EncodedArgs(a)[1] = "?"
<1> DEFINE T == {b \in Seq(Entry) : \/ b = <<>>
                                    \/ Len(EncodedArgs(b)) > 0 /\ EncodedArgs(b)[1] = "?"}
<1>1. <<>> \in T
  BY EmptySeq
<1>2. ASSUME NEW b \in Seq(Entry), NEW e \in Entry, b \in T PROVE Extend(b, e) \in T
  <2> DEFINE n == Len(b) + 1
  <2>1. Extend(b, e) \in Seq(Entry)
    BY ExtendProperties
  <2>2. Len(b) \in Nat /\ n \in Nat
    BY LenProperties
  <2>3. /\ EncodedArgs(Extend(b, e)) = Cat(EncodedArgs(b), ArgPiece(n, e))
        /\ EncodedArgs(b) \in Seq(All)
    BY ArgsAppend, ArgsTyped
  <2>4. ArgPiece(n, e) \in Seq(All) /\ Len(ArgPiece(n, e)) > 0 /\ ArgPiece(n, e)[1] = ArgSep(n)
    BY <2>2, ArgPieceTyped
  <2>5. Len(EncodedArgs(b)) \in Nat /\ Len(ArgPiece(n, e)) \in Nat
    BY <2>3, <2>4, LenProperties
  <2>6. /\ Len(EncodedArgs(Extend(b, e))) = Len(EncodedArgs(b)) + Len(ArgPiece(n, e))
        /\ EncodedArgs(Extend(b, e))[1]
             = IF 1 <= Len(EncodedArgs(b)) THEN EncodedArgs(b)[1] ELSE ArgPiece(n, e)[1 - Len(EncodedArgs(b))]
    <3> DEFINE s == EncodedArgs(b)
               t == ArgPiece(n, e)
    <3>1. 1 \in 1 .. Len(s) + Len(t)
      BY <2>4, <2>5
    <3>2. s \in Seq(All) /\ t \in Seq(All) /\ EncodedArgs(Extend(b, e)) = Cat(s, t)
      BY <2>3, <2>4
    <3> HIDE DEF s, t
    <3>3. Len(Cat(s, t)) = Len(s) + Len(t) /\ Cat(s, t)[1] = IF 1 <= Len(s) THEN s[1] ELSE t[1 - Len(s)]
      BY <3>1, <3>2, CatProperties
    <3> QED
      BY <3>2, <3>3 DEF s, t
  <2>7. CASE b = <<>>
    <3>1. EncodedArgs(b) = <<>> /\ Len(EncodedArgs(b)) = 0 /\ n = 1
      BY <2>7, ArgsEmpty, EmptySeq
    <3>2. ArgSep(n) = "?"
      BY <3>1 DEF ArgSep
    <3> HIDE DEF n
    <3>3. EncodedArgs(Extend(b, e))[1] = ArgPiece(n, e)[1]
      BY <2>6, <3>1
    <3>4. Len(EncodedArgs(Extend(b, e))) > 0
      BY <2>4, <2>5, <2>6, <3>1
    <3> QED
      BY <2>1, <2>4, <3>2, <3>3, <3>4
  <2>8. CASE b # <<>>
    <3>1. Len(EncodedArgs(b)) > 0 /\ EncodedArgs(b)[1] = "?"
      BY <1>2, <2>8
    <3>2. Len(EncodedArgs(Extend(b, e))) > 0 /\ EncodedArgs(Extend(b, e))[1] = "?"
      BY <2>4, <2>5, <2>6, <3>1
    <3> QED
      BY <2>1, <3>2
  <2> QED
    BY <2>7, <2>8
<1> HIDE DEF T
<1>3. Seq(Entry) \subseteq T
  BY <1>1, <1>2, ListInduction DEF Extend
<1>4. CASE a = <<>>
  <2>1. Len(EncodedArgs(a)) = 0
    BY <1>4, ArgsEmpty, EmptySeq
  <2> QED
    BY <2>1
<1>5. CASE a # <<>>
  BY <1>3, <1>5 DEF T
<1> QED
  BY <1>4, <1>5

\* The arguments can be read back.
LEMMA ArgsInjective ==
  ASSUME NEW a \in Seq(Entry), NEW b \in Seq(Entry), EncodedArgs(a) = EncodedArgs(b)
  PROVE  a = b
<1> DEFINE T == {u \in Seq(Entry) : \A v \in Seq(Entry) : EncodedArgs(u) = EncodedArgs(v) => u = v}
<1>0. "=" \in Delimiters /\ \A i : ArgSep(i) \in Delimiters
  BY DEF Delimiters, ArgSep
<1>1. ASSUME NEW u \in Seq(Entry), NEW e \in Entry
      PROVE  /\ EncodedArgs(Extend(u, e)) # <<>>
             /\ encodeComponent(e.name) \in Seq(Out) /\ encodeComponent(e.value) \in Seq(Out)
             /\ EncodedArgs(u) \in Seq(All)
             /\ Sep(EncodedArgs(u), ArgSep(Len(u) + 1), encodeComponent(e.name)) \in Seq(All)
  <2>1. e.name \in Seq(Characters) /\ e.value \in Seq(Characters)
    BY DEF Entry
  <2>2. encodeComponent(e.name) \in Seq(Out) /\ encodeComponent(e.value) \in Seq(Out)
    BY <2>1, EncodeTyped
  <2>3. /\ encodeComponent(e.name) \in Seq(All) /\ encodeComponent(e.value) \in Seq(All)
        /\ EncodedArgs(u) \in Seq(All) /\ ArgSep(Len(u) + 1) \in All /\ "=" \in All
    BY <1>0, <2>2, OutIsAll, ArgsTyped
  <2>4. Sep(EncodedArgs(u), ArgSep(Len(u) + 1), encodeComponent(e.name)) \in Seq(All)
    BY <2>3, SepTyped
  <2>5. EncodedArgs(Extend(u, e)) # <<>>
    BY <2>3, <2>4, ArgsAppend, SepTyped
  <2> QED
    BY <2>2, <2>3, <2>4, <2>5
<1>2. <<>> \in T
  <2> SUFFICES ASSUME NEW v \in Seq(Entry), EncodedArgs(<<>>) = EncodedArgs(v) PROVE <<>> = v
    BY EmptySeq
  <2>1. EncodedArgs(v) = <<>>
    BY ArgsEmpty
  <2>2. ASSUME v # <<>> PROVE FALSE
    <3>1. PICK w \in Seq(Entry), f \in Entry : v = Extend(w, f)
      BY <2>2, EmptyOrExtend
    <3> QED
      BY <1>1, <2>1, <3>1
  <2> QED
    BY <2>2
<1>3. ASSUME NEW u \in Seq(Entry), NEW e \in Entry, u \in T PROVE Extend(u, e) \in T
  <2>1. Extend(u, e) \in Seq(Entry)
    BY ExtendProperties
  <2> SUFFICES ASSUME NEW v \in Seq(Entry), EncodedArgs(Extend(u, e)) = EncodedArgs(v)
               PROVE  Extend(u, e) = v
    BY <2>1
  <2>2. v # <<>>
    BY <1>1, ArgsEmpty
  <2>3. PICK w \in Seq(Entry), f \in Entry : v = Extend(w, f)
    BY <2>2, EmptyOrExtend
  <2> DEFINE x == Sep(EncodedArgs(u), ArgSep(Len(u) + 1), encodeComponent(e.name))
             y == Sep(EncodedArgs(w), ArgSep(Len(w) + 1), encodeComponent(f.name))
  <2>4. Sep(x, "=", encodeComponent(e.value)) = Sep(y, "=", encodeComponent(f.value))
    BY <2>3, ArgsAppend
  <2>5. /\ encodeComponent(e.name) \in Seq(Out) /\ encodeComponent(e.value) \in Seq(Out)
        /\ encodeComponent(f.name) \in Seq(Out) /\ encodeComponent(f.value) \in Seq(Out)
        /\ EncodedArgs(u) \in Seq(All) /\ x \in Seq(All)
        /\ EncodedArgs(w) \in Seq(All) /\ y \in Seq(All)
    BY <1>1
  <2>6. x = y /\ encodeComponent(e.value) = encodeComponent(f.value)
    <3> HIDE DEF x, y
    <3> QED
      BY <1>0, <2>4, <2>5, SepInjective
  <2>7. EncodedArgs(u) = EncodedArgs(w) /\ encodeComponent(e.name) = encodeComponent(f.name)
    BY <1>0, <2>5, <2>6, SepInjective
  <2>8. e = f
    <3>1. e.name = f.name /\ e.value = f.value
      BY <2>6, <2>7, EncodeInjective DEF Entry
    <3>2. e = [name |-> e.name, value |-> e.value] /\ f = [name |-> f.name, value |-> f.value]
      BY DEF Entry
    <3> QED
      BY <3>1, <3>2
  <2>9. u = w
    BY <1>3, <2>7
  <2> QED
    BY <2>3, <2>8, <2>9
<1> HIDE DEF T
<1>4. Seq(Entry) \subseteq T
  BY <1>2, <1>3, ListInduction DEF Extend
<1> QED
  BY <1>4 DEF T

-----------------------------------------------------------------------------
\* A set whose members have ranks from 1 to k can be listed by rank.
LEMMA SortedList ==
  ASSUME NEW S, NEW r \in [S -> Nat \ {0}], \A x, y \in S : r[x] = r[y] => x = y,
         NEW k \in Nat, \A x \in S : r[x] <= k
  PROVE  /\ IsFiniteSet(S)
         /\ \E g \in [1 .. Cardinality(S) -> S] :
              \A i, j \in 1 .. Cardinality(S) : i < j => r[g[i]] < r[g[j]]
<1> DEFINE UpTo(m) == {x \in S : r[x] <= m}
           Lists(m, n, g) == /\ g \in [1 .. n -> UpTo(m)]
                             /\ \A x \in UpTo(m) : \E i \in 1 .. n : g[i] = x
                             /\ \A i, j \in 1 .. n : i < j => r[g[i]] < r[g[j]]
           T == {m \in Nat : \E n \in Nat : \E g : Lists(m, n, g)}
<1>1. 0 \in T
  <2>1. UpTo(0) = {}
    OBVIOUS
  <2>2. Lists(0, 0, [i \in 1 .. 0 |-> i])
    BY <2>1
  <2> HIDE DEF Lists
  <2>3. \E n \in Nat : \E g : Lists(0, n, g)
    BY <2>2
  <2> QED
    BY <2>3
<1>2. ASSUME NEW m \in Nat, m \in T PROVE m + 1 \in T
  <2>1. PICK n \in Nat : \E g : Lists(m, n, g)
    BY <1>2
  <2>2. PICK g : Lists(m, n, g)
    BY <2>1
  <2>3. CASE \A x \in S : r[x] # m + 1
    <3>1. UpTo(m + 1) = UpTo(m)
      BY <2>3
    <3>2. Lists(m + 1, n, g)
      BY <2>2, <3>1
    <3> HIDE DEF Lists
    <3>3. \E n1 \in Nat : \E g1 : Lists(m + 1, n1, g1)
      BY <3>2
    <3> QED
      BY <3>3
  <2>4. CASE \E x \in S : r[x] = m + 1
    <3>1. PICK x \in S : r[x] = m + 1
      BY <2>4
    <3> DEFINE h == [i \in 1 .. n + 1 |-> IF i = n + 1 THEN x ELSE g[i]]
    <3>2. UpTo(m + 1) = UpTo(m) \cup {x}
      BY <3>1
    <3>3. \A i \in 1 .. n : i \in 1 .. n + 1 /\ i # n + 1 /\ h[i] = g[i] /\ g[i] \in UpTo(m)
      BY <2>2
    <3>4. n + 1 \in 1 .. n + 1 /\ h[n + 1] = x
      OBVIOUS
    <3>5. h \in [1 .. n + 1 -> UpTo(m + 1)]
      <4>1. \A i \in 1 .. n + 1 : i = n + 1 \/ i \in 1 .. n
        OBVIOUS
      <4>2. \A i \in 1 .. n + 1 : h[i] \in UpTo(m + 1)
        <5> HIDE DEF UpTo, h
        <5> QED
          BY <3>2, <3>3, <3>4, <4>1
      <4> QED
        BY <4>2
    <3>6. \A y \in UpTo(m + 1) : \E i \in 1 .. n + 1 : h[i] = y
      <4> HIDE DEF UpTo, h
      <4>1. \A y \in UpTo(m) : \E i \in 1 .. n : g[i] = y
        BY <2>2
      <4> QED
        BY <3>2, <3>3, <3>4, <4>1
    <3>7. \A i, j \in 1 .. n + 1 : i < j => r[h[i]] < r[h[j]]
      <4> SUFFICES ASSUME NEW i \in 1 .. n + 1, NEW j \in 1 .. n + 1, i < j PROVE r[h[i]] < r[h[j]]
        OBVIOUS
      <4>1. i \in 1 .. n /\ h[i] = g[i] /\ g[i] \in UpTo(m)
        <5>1. i \in 1 .. n
          OBVIOUS
        <5> QED
          BY <3>3, <5>1
      <4>2. CASE j = n + 1
        <5>1. r[g[i]] \in Nat /\ r[g[i]] <= m
          BY <4>1
        <5> QED
          BY <3>1, <3>4, <4>1, <4>2, <5>1
      <4>3. CASE j # n + 1
        <5>1. j \in 1 .. n
          BY <4>3
        <5>2. r[g[i]] < r[g[j]]
          BY <2>2, <4>1, <5>1
        <5> QED
          BY <3>3, <4>1, <5>1, <5>2
      <4> QED
        BY <4>2, <4>3
    <3> HIDE DEF h, UpTo
    <3>8. Lists(m + 1, n + 1, h)
      BY <3>5, <3>6, <3>7
    <3> HIDE DEF Lists
    <3>9. \E n1 \in Nat : \E g1 : Lists(m + 1, n1, g1)
      BY <3>8
    <3> QED
      BY <3>9
  <2> QED
    BY <2>3, <2>4
<1> HIDE DEF T
<1>3. k \in T
  BY <1>1, <1>2, Induction
<1>4. PICK n \in Nat : \E g : Lists(k, n, g)
  BY <1>3 DEF T
<1>5. PICK g : Lists(k, n, g)
  BY <1>4
<1>6. UpTo(k) = S
  OBVIOUS
<1>7. /\ g \in [1 .. n -> S]
      /\ \A x \in S : \E i \in 1 .. n : g[i] = x
      /\ \A i, j \in 1 .. n : i < j => r[g[i]] < r[g[j]]
  BY <1>5, <1>6
<1>8. g \in Bijection(1 .. n, S)
  <2>1. ASSUME NEW i \in 1 .. n, NEW j \in 1 .. n, g[i] = g[j] PROVE i = j
    <3>1. ~ i < j /\ ~ j < i
      <4>1. r[g[i]] \in Nat /\ r[g[i]] = r[g[j]]
        BY <1>7, <2>1
      <4> QED
        BY <1>7, <4>1
    <3> QED
      BY <3>1
  <2>2. IsInjective(g)
    BY <1>7, <2>1 DEF IsInjective
  <2> QED
    BY <1>7, <2>2 DEF Bijection, Injection, Surjection
<1>9. ExistsBijection(1 .. n, S)
  BY <1>8 DEF ExistsBijection
<1>10. IsFiniteSet(S) /\ Cardinality(S) = n
  BY <1>9, FS_NatBijection, FS_CountingElements
<1> QED
  BY <1>7, <1>10

LEMMA RankOf ==
  ASSUME NEW t \in ToSet(Texts)
  PROVE  Rank(t) \in 1 .. Len(Texts) /\ Texts[Rank(t)] = t
<1>1. DOMAIN Texts = 1 .. Len(Texts)
  BY IdentityAssumption, LenProperties
<1>2. \E i \in DOMAIN Texts : Texts[i] = t
  BY DEF ToSet
<1> QED
  BY <1>1, <1>2 DEF Rank

LEMMA ArgMapTyped ==
  ASSUME NEW args \in ArgLists
  PROVE  /\ \A e \in ArgMap(args) : e \in Entry /\ e.name \in ToSet(Texts)
         /\ \A e, f \in ArgMap(args) : e.name = f.name => e = f
<1> DEFINE R == [name : ToSet(Texts), value : Seq(Characters) \cup {Undefined}]
<1>1. args \in Seq(R) /\ \A i, j \in DOMAIN args : args[i].name = args[j].name => i = j
  BY IdentityAssumption
<1>2. ASSUME NEW e \in ArgMap(args) PROVE \E i \in DOMAIN args : e = args[i] /\ e \in R /\ e.value # Undefined
  <2> HIDE DEF R
  <2>1. PICK i \in DOMAIN args : e = args[i]
    BY DEF ArgMap, ToSet
  <2>2. i \in 1 .. Len(args)
    BY <1>1, LenProperties
  <2>3. args[i] \in R
    BY <1>1, <2>2, ElementOfSeq
  <2>4. e.value # Undefined
    BY DEF ArgMap
  <2> QED
    BY <2>1, <2>3, <2>4
<1>3. \A t \in ToSet(Texts) : t \in Seq(Characters)
  <2>1. ASSUME NEW t \in ToSet(Texts) PROVE t \in Seq(Characters)
    <3>1. Texts \in Seq(Seq(Characters))
      BY IdentityAssumption
    <3>2. Rank(t) \in 1 .. Len(Texts) /\ Texts[Rank(t)] = t
      BY RankOf
    <3> QED
      BY <3>1, <3>2, ElementOfSeq
  <2> QED
    BY <2>1
<1>4. ASSUME NEW e \in ArgMap(args) PROVE e \in Entry /\ e.name \in ToSet(Texts)
  <2>1. e \in R /\ e.value # Undefined
    BY <1>2
  <2>2. e = [name |-> e.name, value |-> e.value] /\ e.name \in ToSet(Texts) /\ e.value \in Seq(Characters)
    BY <2>1
  <2>3. e.name \in Seq(Characters)
    BY <1>3, <2>2
  <2> QED
    BY <2>2, <2>3 DEF Entry
<1>5. ASSUME NEW e \in ArgMap(args), NEW f \in ArgMap(args), e.name = f.name PROVE e = f
  <2>1. PICK i \in DOMAIN args : e = args[i]
    BY <1>2
  <2>2. PICK j \in DOMAIN args : f = args[j]
    BY <1>2
  <2>3. i = j
    BY <1>1, <1>5, <2>1, <2>2
  <2> QED
    BY <2>1, <2>2, <2>3
<1> QED
  BY <1>4, <1>5

\* Normalizing lists exactly the defined arguments, whatever order they had.
LEMMA Normalized ==
  ASSUME NEW args \in ArgLists
  PROVE  normalizeArgs(args) \in Seq(Entry) /\ ToSet(normalizeArgs(args)) = ArgMap(args)
<1> DEFINE S == ArgMap(args)
           r == [e \in S |-> Rank(e.name)]
           n == Cardinality(S)
           Sorted(g) == g \in [1 .. n -> S] /\ \A i, j \in 1 .. n : i < j => r[g[i]] < r[g[j]]
           L == normalizeArgs(args)
<1>1. Len(Texts) \in Nat
  BY IdentityAssumption, LenProperties
<1>2. \A e \in S : r[e] \in 1 .. Len(Texts) /\ Texts[r[e]] = e.name
  BY ArgMapTyped, RankOf
<1>3. \A e, f \in S : r[e] = r[f] => e = f
  <2> HIDE DEF r, S
  <2> QED
    BY <1>2, ArgMapTyped DEF S
<1>4. r \in [S -> Nat \ {0}] /\ \A e \in S : r[e] <= Len(Texts)
  <2>1. \A e \in S : Rank(e.name) = r[e]
    OBVIOUS
  <2> QED
    BY <1>1, <1>2, <2>1
<1>5. IsFiniteSet(S) /\ \E g : Sorted(g)
  <2> HIDE DEF r, S
  <2> QED
    BY <1>1, <1>3, <1>4, SortedList
<1>6. Sorted(L)
  <2>1. L = CHOOSE g \in [1 .. n -> S] :
               \A i, j \in DOMAIN g : i < j => Rank(g[i].name) < Rank(g[j].name)
    BY DEF normalizeArgs, ArgMap
  <2>2. \A g \in [1 .. n -> S] :
          (\A i, j \in DOMAIN g : i < j => Rank(g[i].name) < Rank(g[j].name)) <=> Sorted(g)
    OBVIOUS
  <2> HIDE DEF L, Sorted
  <2>3. PICK g : Sorted(g)
    BY <1>5
  <2>4. g \in [1 .. n -> S]
    BY <2>3 DEF Sorted
  <2>5. \E g1 \in [1 .. n -> S] : \A i, j \in DOMAIN g1 : i < j => Rank(g1[i].name) < Rank(g1[j].name)
    BY <2>2, <2>3, <2>4
  <2>6. L \in [1 .. n -> S] /\ \A i, j \in DOMAIN L : i < j => Rank(L[i].name) < Rank(L[j].name)
    BY <2>1, <2>5
  <2> QED
    BY <2>2, <2>6
<1> HIDE DEF L
<1>7. n \in Nat
  BY <1>5, FS_CardinalityType
<1>8. L \in Injection(1 .. n, S)
  <2>1. ASSUME NEW i \in 1 .. n, NEW j \in 1 .. n, L[i] = L[j] PROVE i = j
    <3>1. ~ i < j /\ ~ j < i
      <4>1. r[L[i]] \in Nat /\ r[L[i]] = r[L[j]]
        <5>1. L[i] \in S
          BY <1>6
        <5> HIDE DEF r, S
        <5> QED
          BY <1>4, <2>1, <5>1
      <4> HIDE DEF r
      <4> QED
        BY <1>6, <4>1
    <3> QED
      BY <1>7, <3>1
  <2>2. IsInjective(L)
    BY <1>6, <2>1 DEF IsInjective
  <2> QED
    BY <1>6, <2>2 DEF Injection
<1>9. L \in Surjection(1 .. n, S)
  <2>1. IsFiniteSet(1 .. n) /\ Cardinality(1 .. n) = n
    BY <1>7, FS_Interval
  <2> HIDE DEF S
  <2> QED
    BY <1>5, <1>8, <2>1, FS_Injection
<1>10. L \in Seq(Entry) /\ Len(L) = n
  <2>1. L \in [1 .. n -> Entry]
    BY <1>6, ArgMapTyped
  <2> QED
    BY <1>7, <2>1, ListOf
<1>11. ToSet(L) = S
  <2>1. DOMAIN L = 1 .. n
    BY <1>6
  <2>2. \A i \in 1 .. n : L[i] \in S
    BY <1>6
  <2>3. \A e \in S : \E i \in 1 .. n : L[i] = e
    BY <1>9 DEF Surjection
  <2> HIDE DEF S, n
  <2> QED
    BY <2>1, <2>2, <2>3 DEF ToSet
<1> QED
  BY <1>10, <1>11 DEF L

-----------------------------------------------------------------------------
\* A key, from what it is built of.
PrefixSymbols == Out \cup {":", "{", "}"}

LEMMA IdentityTyped ==
  ASSUME NEW d \in Identities
  PROVE  /\ d.ns \in Seq(Characters) /\ d.type \in Seq(Characters) /\ d.id \in Seq(Characters)
         /\ d.useCase \in Seq(Characters) /\ d.args \in ArgLists /\ d.tracked \in BOOLEAN
<1>1. /\ d.ns \in Namespaces /\ d.type \in KeyTypes /\ d.id \in Ids /\ d.useCase \in UseCases
      /\ d.args \in ArgLists /\ d.tracked \in BOOLEAN
  BY DEF Identities
<1>2. Namespaces \cup KeyTypes \cup Ids \cup UseCases \subseteq Seq(Characters)
  BY IdentityAssumption
<1> HIDE IdentityAssumption
<1> QED
  BY <1>1, <1>2

LEMMA JoinStart ==
  ASSUME NEW j \in Seq(Out \cup {":"}), Len(j) > 0
  PROVE  \A i \in 1 .. Len(j) : j[i] \notin {"{", "}"}
<1>1. \A i \in 1 .. Len(j) : j[i] \in Out \cup {":"}
  BY ElementOfSeq
<1>2. (Out \cup {":"}) \cap {"{", "}"} = {}
  BY OutHasNoDelimiter DEF Delimiters
<1> QED
  BY <1>1, <1>2

\* A list between two symbols.
Wrap(o, j, c) == Extend(Cat(<<o>>, j), c)

LEMMA WrapForm ==
  ASSUME NEW A, NEW o \in A, NEW c \in A, NEW j \in Seq(A)
  PROVE  /\ Wrap(o, j, c) \in Seq(A) /\ Len(Wrap(o, j, c)) = Len(j) + 2
         /\ Wrap(o, j, c)[1] = o /\ Wrap(o, j, c)[Len(j) + 2] = c
         /\ \A i \in 1 .. Len(j) : Wrap(o, j, c)[i + 1] = j[i]
<1> DEFINE lo == <<o>>
           oj == Cat(lo, j)
           tag == Append(oj, c)
<1>0. Len(j) \in Nat
  BY LenProperties
<1>1. lo \in Seq(A) /\ Len(lo) = 1 /\ lo[1] = o
  OBVIOUS
<1> HIDE DEF lo
<1>3. /\ oj \in Seq(A) /\ Len(oj) = Len(j) + 1
      /\ \A i \in 1 .. Len(j) + 1 : oj[i] = IF i <= 1 THEN lo[i] ELSE j[i - 1]
  <2>1. /\ oj \in Seq(A) /\ Len(oj) = Len(lo) + Len(j)
        /\ \A i \in 1 .. Len(lo) + Len(j) : oj[i] = IF i <= Len(lo) THEN lo[i] ELSE j[i - Len(lo)]
    BY <1>1, CatProperties
  <2>2. Len(lo) = 1 /\ Len(lo) + Len(j) = Len(j) + 1
    BY <1>0, <1>1
  <2> HIDE DEF oj
  <2> QED
    BY <2>1, <2>2
<1> HIDE DEF oj
<1>4. oj[1] = o /\ \A i \in 1 .. Len(j) : oj[i + 1] = j[i]
  <2>1. oj[1] = lo[1]
    <3>1. 1 \in 1 .. Len(j) + 1
      BY <1>0
    <3> QED
      BY <1>3, <3>1
  <2>2. ASSUME NEW i \in 1 .. Len(j) PROVE oj[i + 1] = j[i]
    <3>1. i + 1 \in 1 .. Len(j) + 1 /\ ~ i + 1 <= 1 /\ i + 1 - 1 = i
      BY <1>0
    <3>2. oj[i + 1] = j[i + 1 - 1]
      BY <1>3, <3>1
    <3> QED
      BY <3>1, <3>2
  <2> QED
    BY <1>1, <2>1, <2>2
<1>5. /\ tag \in Seq(A) /\ Len(tag) = Len(oj) + 1
      /\ \A i \in 1 .. Len(oj) : tag[i] = oj[i]
      /\ tag[Len(oj) + 1] = c
  BY <1>3, AppendProperties
<1>6. Wrap(o, j, c) = tag
  BY DEF Wrap, Extend, lo, oj
<1> HIDE DEF tag
<1>7. Len(tag) = Len(j) + 2 /\ tag[1] = o /\ tag[Len(j) + 2] = c /\ \A i \in 1 .. Len(j) : tag[i + 1] = j[i]
  <2>1. Len(oj) + 1 = Len(j) + 2
    BY <1>0, <1>3
  <2>2. 1 \in 1 .. Len(oj) /\ \A i \in 1 .. Len(j) : i + 1 \in 1 .. Len(oj)
    BY <1>0, <1>3
  <2> QED
    BY <1>4, <1>5, <2>1, <2>2
<1> QED
  BY <1>5, <1>6, <1>7

LEMMA WrapStart ==
  ASSUME NEW A, NEW o \in A, NEW c \in A, NEW j \in Seq(A)
  PROVE  Wrap(o, j, c) \in Seq(A) /\ Wrap(o, j, c)[1] = o
  BY WrapForm

LEMMA WrapInjective ==
  ASSUME NEW A, NEW o \in A, NEW c \in A, NEW j \in Seq(A), NEW k \in Seq(A), Wrap(o, j, c) = Wrap(o, k, c)
  PROVE  j = k
<1> DEFINE lo == <<o>>
<1>1. lo \in Seq(A)
  OBVIOUS
<1> HIDE DEF lo
<1>5. Cat(lo, j) \in Seq(A) /\ Cat(lo, k) \in Seq(A)
  BY <1>1, CatProperties
<1>2. Extend(Cat(lo, j), c) = Extend(Cat(lo, k), c)
  BY DEF Wrap, lo
<1>3. Cat(lo, j) = Cat(lo, k)
  BY <1>2, <1>5, ExtendInjective
<1>4. lo \o j = lo \o k
  BY <1>3 DEF Cat
<1> QED
  BY <1>1, <1>4, ConcatSimplifications

LEMMA WrapIs ==
  ASSUME NEW A, NEW o \in A, NEW c \in A, NEW j \in Seq(A)
  PROVE  <<o>> \o j \o <<c>> = Wrap(o, j, c)
<1> DEFINE oj == <<o>> \o j
<1>1. oj \in Seq(A)
  BY ConcatProperties
<1> HIDE DEF oj
<1>2. oj \o <<c>> = Append(oj, c)
  BY <1>1, AppendIsConcat
<1> QED
  BY <1>2 DEF oj, Wrap, Extend, Cat

LEMMA Braces == "{" \in All /\ "}" \in All /\ "{" \in PrefixSymbols /\ "}" \in PrefixSymbols
  BY OutIsAll DEF Delimiters, PrefixSymbols

LEMMA TagForm ==
  ASSUME NEW j \in Seq(All)
  PROVE  redisClusterHashTag(j) = Wrap("{", j, "}")
  BY Braces, WrapIs DEF redisClusterHashTag

LEMMA PrefixTyped ==
  ASSUME NEW d \in Identities
  PROVE  prefix(d) \in Seq(PrefixSymbols) /\ prefix(d) \in Seq(All)
<1> DEFINE j == joinUrnComponents(d.ns, d.type, d.id)
<1>1. j \in Seq(Out \cup {":"})
  BY IdentityTyped, JoinTyped
<1> HIDE DEF j
<1>2. j \in Seq(PrefixSymbols)
  <2>1. Out \cup {":"} \subseteq PrefixSymbols
    BY DEF PrefixSymbols
  <2> QED
    BY <1>1, <2>1, SeqMonotonic
<1>3. PrefixSymbols \subseteq All
  BY OutIsAll DEF PrefixSymbols, Delimiters
<1>4. j \in Seq(All)
  BY <1>2, <1>3, SeqMonotonic
<1>5. redisClusterHashTag(j) \in Seq(PrefixSymbols)
  <2>1. Wrap("{", j, "}") \in Seq(PrefixSymbols)
    BY <1>2, Braces, WrapForm
  <2> QED
    BY <1>4, <2>1, TagForm
<1>6. prefix(d) \in Seq(PrefixSymbols)
  BY <1>2, <1>5 DEF prefix, j
<1> QED
  BY <1>3, <1>6, SeqMonotonic

\* The first part of a key tells whether the call is tracked, and which
\* entity it is for.
LEMMA PrefixInjective ==
  ASSUME NEW d \in Identities, NEW e \in Identities, prefix(d) = prefix(e)
  PROVE  d.tracked = e.tracked /\ d.ns = e.ns /\ d.type = e.type /\ d.id = e.id
<1> DEFINE j == joinUrnComponents(d.ns, d.type, d.id)
           k == joinUrnComponents(e.ns, e.type, e.id)
<1>1. /\ j \in Seq(Out \cup {":"}) /\ Len(j) > 0 /\ j \in Seq(All)
      /\ k \in Seq(Out \cup {":"}) /\ Len(k) > 0 /\ k \in Seq(All)
  BY IdentityTyped, JoinTyped
<1>2. ASSUME j = k PROVE d.ns = e.ns /\ d.type = e.type /\ d.id = e.id
  BY <1>2, IdentityTyped, JoinInjective
<1>3. /\ prefix(d) = IF d.tracked THEN redisClusterHashTag(j) ELSE j
      /\ prefix(e) = IF e.tracked THEN redisClusterHashTag(k) ELSE k
  BY DEF prefix
<1> HIDE DEF j, k
<1>4. j[1] # "{" /\ k[1] # "{"
  <2>1. 1 \in 1 .. Len(j) /\ 1 \in 1 .. Len(k)
    BY <1>1, LenProperties
  <2> QED
    BY <1>1, <2>1, JoinStart
<1>5. /\ redisClusterHashTag(j) = Wrap("{", j, "}") /\ Wrap("{", j, "}")[1] = "{"
      /\ redisClusterHashTag(k) = Wrap("{", k, "}") /\ Wrap("{", k, "}")[1] = "{"
  <2>2. Wrap("{", j, "}")[1] = "{" /\ Wrap("{", k, "}")[1] = "{"
    BY <1>1, Braces, WrapStart
  <2>3. redisClusterHashTag(j) = Wrap("{", j, "}") /\ redisClusterHashTag(k) = Wrap("{", k, "}")
    BY <1>1, TagForm
  <2> QED
    BY <2>2, <2>3
<1>6. d.tracked \in BOOLEAN /\ e.tracked \in BOOLEAN
  BY IdentityTyped
<1>7. CASE d.tracked /\ e.tracked
  <2>1. Wrap("{", j, "}") = Wrap("{", k, "}")
    BY <1>3, <1>5, <1>7
  <2>2. j = k
    BY <1>1, <2>1, Braces, WrapInjective
  <2> QED
    BY <1>2, <1>7, <2>2
<1>8. CASE d.tracked /\ ~ e.tracked
  BY <1>3, <1>4, <1>5, <1>8
<1>9. CASE ~ d.tracked /\ e.tracked
  BY <1>3, <1>4, <1>5, <1>9
<1>10. CASE ~ d.tracked /\ ~ e.tracked
  BY <1>2, <1>3, <1>6, <1>10
<1> QED
  BY <1>6, <1>7, <1>8, <1>9, <1>10

LEMMA UrnForm ==
  ASSUME NEW d \in Identities
  PROVE  /\ urn(d) = Sep(Cat(prefix(d), EncodedArgs(normalizeArgs(d.args))), "#", encodeComponent(d.useCase))
         /\ EncodedArgs(normalizeArgs(d.args)) \in Seq(All)
         /\ Cat(prefix(d), EncodedArgs(normalizeArgs(d.args))) \in Seq(All)
         /\ encodeComponent(d.useCase) \in Seq(Out)
         /\ urn(d) \in Seq(All)
<1>1. urn(d) = Sep(Cat(prefix(d), EncodedArgs(normalizeArgs(d.args))), "#", encodeComponent(d.useCase))
  BY DEF urn, Sep, Cat
<1>2. EncodedArgs(normalizeArgs(d.args)) \in Seq(All)
  BY IdentityTyped, Normalized, ArgsTyped
<1>3. Cat(prefix(d), EncodedArgs(normalizeArgs(d.args))) \in Seq(All)
  BY <1>2, PrefixTyped, CatProperties
<1>4. encodeComponent(d.useCase) \in Seq(Out) /\ encodeComponent(d.useCase) \in Seq(All)
  BY IdentityTyped, EncodeTyped, OutIsAll
<1>5. "#" \in All
  BY OutIsAll DEF Delimiters
<1>6. Sep(Cat(prefix(d), EncodedArgs(normalizeArgs(d.args))), "#", encodeComponent(d.useCase)) \in Seq(All)
  BY <1>3, <1>4, <1>5, SepTyped
<1> QED
  BY <1>1, <1>2, <1>3, <1>4, <1>6

\* A key tells the calls it serves apart from all others.
LEMMA KeysTellApart ==
  ASSUME NEW d \in Identities, NEW e \in Identities
  PROVE  urn(d) = urn(e) <=> SameIdentity(d, e)
<1> DEFINE a == normalizeArgs(d.args)
           b == normalizeArgs(e.args)
<1>1. ASSUME urn(d) = urn(e) PROVE SameIdentity(d, e)
  <2>1. "#" \in Delimiters
    BY DEF Delimiters
  <2>2. /\ Cat(prefix(d), EncodedArgs(a)) = Cat(prefix(e), EncodedArgs(b))
        /\ encodeComponent(d.useCase) = encodeComponent(e.useCase)
    <3> DEFINE x == Cat(prefix(d), EncodedArgs(a))
               y == Cat(prefix(e), EncodedArgs(b))
    <3>1. /\ x \in Seq(All) /\ y \in Seq(All)
          /\ encodeComponent(d.useCase) \in Seq(Out) /\ encodeComponent(e.useCase) \in Seq(Out)
          /\ Sep(x, "#", encodeComponent(d.useCase)) = Sep(y, "#", encodeComponent(e.useCase))
      BY <1>1, UrnForm
    <3> HIDE DEF x, y
    <3>2. x = y /\ encodeComponent(d.useCase) = encodeComponent(e.useCase)
      BY <2>1, <3>1, SepInjective
    <3> QED
      BY <3>2 DEF x, y
  <2>3. a \in Seq(Entry) /\ b \in Seq(Entry) /\ ToSet(a) = ArgMap(d.args) /\ ToSet(b) = ArgMap(e.args)
    BY IdentityTyped, Normalized
  <2> HIDE DEF a, b
  <2>4. prefix(d) = prefix(e) /\ EncodedArgs(a) = EncodedArgs(b)
    <3>1. /\ prefix(d) \in Seq(PrefixSymbols) /\ prefix(e) \in Seq(PrefixSymbols)
          /\ EncodedArgs(a) \in Seq(All) /\ EncodedArgs(b) \in Seq(All)
      BY <2>3, PrefixTyped, ArgsTyped
    <3>2. PrefixSymbols \subseteq All /\ "?" \notin PrefixSymbols
      BY OutIsAll, OutHasNoDelimiter DEF PrefixSymbols, Delimiters
    <3>3. /\ Len(EncodedArgs(a)) > 0 => EncodedArgs(a)[1] \notin PrefixSymbols
          /\ Len(EncodedArgs(b)) > 0 => EncodedArgs(b)[1] \notin PrefixSymbols
      BY <2>3, <3>2, ArgsStart
    <3> QED
      BY <2>2, <3>1, <3>2, <3>3, SplitFirst
  <2>5. a = b
    BY <2>3, <2>4, ArgsInjective
  <2>6. d.tracked = e.tracked /\ d.ns = e.ns /\ d.type = e.type /\ d.id = e.id
    BY <2>4, PrefixInjective
  <2>7. d.useCase = e.useCase
    BY <2>2, IdentityTyped, EncodeInjective
  <2>8. ArgMap(d.args) = ArgMap(e.args)
    BY <2>3, <2>5
  <2> QED
    BY <2>6, <2>7, <2>8 DEF SameIdentity, Identities
<1>2. ASSUME SameIdentity(d, e) PROVE urn(d) = urn(e)
  <2>1. /\ d.ns = e.ns /\ d.type = e.type /\ d.id = e.id /\ d.useCase = e.useCase /\ d.tracked = e.tracked
        /\ ArgMap(d.args) = ArgMap(e.args)
    BY <1>2 DEF SameIdentity, Identities
  <2>2. a = b
    BY <2>1 DEF normalizeArgs, ArgMap
  <2>3. prefix(d) = prefix(e)
    BY <2>1 DEF prefix
  <2> HIDE DEF a, b
  <2> QED
    BY <2>1, <2>2, <2>3 DEF urn, a, b
<1> QED
  BY <1>1, <1>2

-----------------------------------------------------------------------------
\* What the cluster hashes of a key that starts with a hash tag is the tag.
FirstOf(k, c) ==
  LET I == {i \in 1 .. Len(k) : k[i] = c} IN IF I # {} THEN Min(I) ELSE 0

LEMMA FirstAt ==
  ASSUME NEW k, Len(k) \in Nat, NEW c, NEW m \in 1 .. Len(k), k[m] = c, \A i \in 1 .. m - 1 : k[i] # c
  PROVE  FirstOf(k, c) = m
<1> DEFINE I == {i \in 1 .. Len(k) : k[i] = c}
<1>1. m \in I
  OBVIOUS
<1>2. \A i \in I : m <= i
  <2> SUFFICES ASSUME NEW i \in I, ~ m <= i PROVE FALSE
    OBVIOUS
  <2>1. i \in 1 .. m - 1
    OBVIOUS
  <2> QED
    BY <2>1
<1>3. I \subseteq Int
  OBVIOUS
<1> HIDE DEF I
<1>4. Min(I) = m
  <2>1. \A x \in I : (\A y \in I : x <= y) => x = m
    BY <1>1, <1>2, <1>3
  <2> QED
    BY <1>1, <1>2, <2>1 DEF Min
<1>5. I # {}
  BY <1>1
<1> QED
  BY <1>4, <1>5 DEF FirstOf, I

LEMMA SlotForm ==
  ASSUME NEW k
  PROVE  Slot(k) = LET from == FirstOf(k, "{")
                       to   == FirstOf(k, "}")
                   IN IF from # 0 /\ to > from + 1 THEN SubSeq(k, from + 1, to - 1) ELSE k
  BY DEF Slot, SelectInSeq, FirstOf

\* k starts with p.
Starts(k, p) == Len(p) <= Len(k) /\ \A i \in 1 .. Len(p) : k[i] = p[i]

LEMMA StartsItself ==
  ASSUME NEW A, NEW p \in Seq(A)
  PROVE  Starts(p, p)
<1>1. Len(p) \in Nat
  BY LenProperties
<1> QED
  BY <1>1 DEF Starts

LEMMA StartsMore ==
  ASSUME NEW A, NEW p \in Seq(A), NEW k \in Seq(A), NEW x \in Seq(A), Starts(k, p)
  PROVE  Starts(Cat(k, x), p)
<1>1. Len(p) \in Nat /\ Len(k) \in Nat /\ Len(x) \in Nat /\ Len(p) <= Len(k)
  BY LenProperties DEF Starts
<1>2. /\ Len(Cat(k, x)) = Len(k) + Len(x)
      /\ \A i \in 1 .. Len(k) + Len(x) : Cat(k, x)[i] = IF i <= Len(k) THEN k[i] ELSE x[i - Len(k)]
  BY CatProperties
<1>3. ASSUME NEW i \in 1 .. Len(p) PROVE Cat(k, x)[i] = p[i]
  <2>1. i \in 1 .. Len(k) + Len(x) /\ i <= Len(k)
    BY <1>1
  <2>2. Cat(k, x)[i] = k[i]
    BY <1>2, <2>1
  <2> QED
    BY <2>2 DEF Starts
<1>4. Len(p) <= Len(Cat(k, x))
  BY <1>1, <1>2
<1> QED
  BY <1>3, <1>4 DEF Starts

LEMMA TagStarts ==
  ASSUME NEW A, NEW o \in A, NEW c \in A, NEW j \in Seq(A), NEW k \in Seq(A), Starts(k, Wrap(o, j, c))
  PROVE  /\ Len(j) \in Nat /\ Len(k) \in Nat /\ Len(j) + 2 <= Len(k)
         /\ k[1] = o /\ k[Len(j) + 2] = c /\ \A i \in 1 .. Len(j) : k[i + 1] = j[i]
<1> DEFINE w == Wrap(o, j, c)
<1>1. /\ Len(w) = Len(j) + 2 /\ w[1] = o /\ w[Len(j) + 2] = c
      /\ \A i \in 1 .. Len(j) : w[i + 1] = j[i]
  BY WrapForm
<1>2. Len(w) <= Len(k) /\ \A i \in 1 .. Len(w) : k[i] = w[i]
  BY DEF Starts
<1>3. Len(j) \in Nat /\ Len(k) \in Nat
  BY LenProperties
<1> HIDE DEF w
<1>4. 1 \in 1 .. Len(w) /\ Len(j) + 2 \in 1 .. Len(w) /\ \A i \in 1 .. Len(j) : i + 1 \in 1 .. Len(w)
  BY <1>1, <1>3
<1> QED
  BY <1>1, <1>2, <1>3, <1>4

LEMMA TagBetween ==
  ASSUME NEW A, NEW o \in A, NEW c \in A, o # c,
         NEW j \in Seq(A), Len(j) > 0, \A i \in 1 .. Len(j) : j[i] # c,
         NEW k \in Seq(A), Starts(k, Wrap(o, j, c))
  PROVE  /\ FirstOf(k, o) # 0 /\ FirstOf(k, c) > FirstOf(k, o) + 1
         /\ SubSeq(k, FirstOf(k, o) + 1, FirstOf(k, c) - 1) = j
<1>3. /\ Len(j) \in Nat /\ Len(k) \in Nat /\ Len(j) + 2 <= Len(k)
      /\ k[1] = o /\ k[Len(j) + 2] = c /\ \A i \in 1 .. Len(j) : k[i + 1] = j[i]
  BY TagStarts
<1> DEFINE n == Len(j) + 2
<1>5. /\ 1 \in 1 .. Len(k) /\ n \in 1 .. Len(k) /\ n \in Nat
      /\ n > 1 + 1 /\ 1 + 1 = 2 /\ n - 1 = Len(j) + 1 /\ \A i \in 1 .. 1 - 1 : FALSE
  BY <1>3
<1>6. \A i \in 1 .. n - 1 : k[i] # c
  <2> SUFFICES ASSUME NEW i \in 1 .. n - 1 PROVE k[i] # c
    OBVIOUS
  <2>1. CASE i = 1
    BY <1>3, <2>1
  <2>2. CASE i # 1
    <3>1. i - 1 \in 1 .. Len(j) /\ i - 1 + 1 = i
      BY <1>3, <2>2
    <3> QED
      BY <1>3, <3>1
  <2> QED
    BY <2>1, <2>2
<1>7. FirstOf(k, o) = 1
  BY <1>3, <1>5, FirstAt
<1>8. FirstOf(k, c) = n
  <2>1. k[n] = c
    BY <1>3
  <2> HIDE DEF n
  <2> QED
    BY <1>3, <1>5, <1>6, <2>1, FirstAt
<1>9. SubSeq(k, 2, Len(j) + 1) = j
  <2> DEFINE u == SubSeq(k, 2, Len(j) + 1)
  <2>1. \A i \in 2 .. Len(j) + 1 : i \in 1 .. Len(k)
    BY <1>3
  <2>2. \A i \in 2 .. Len(j) + 1 : k[i] \in A
    BY <2>1, ElementOfSeq
  <2>3. 2 \in Int /\ Len(j) + 1 \in Int /\ 2 <= Len(j) + 1 /\ Len(j) + 1 - 2 + 1 = Len(j)
    BY <1>3
  <2>4. /\ u \in Seq(A) /\ Len(u) = Len(j)
        /\ \A i \in 1 .. Len(j) : u[i] = k[2 + i - 1]
    BY <2>2, <2>3, SubSeqProperties
  <2>5. \A i \in 1 .. Len(j) : u[i] = j[i]
    <3> SUFFICES ASSUME NEW i \in 1 .. Len(j) PROVE u[i] = j[i]
      OBVIOUS
    <3>1. 2 + i - 1 = i + 1
      OBVIOUS
    <3> HIDE DEF u
    <3> QED
      BY <1>3, <2>4, <3>1
  <2> HIDE DEF u
  <2> QED
    BY <2>4, <2>5, SeqEqual DEF u
<1> HIDE DEF n
<1> QED
  BY <1>5, <1>7, <1>8, <1>9

LEMMA SlotOf ==
  ASSUME NEW j \in Seq(Out \cup {":"}), Len(j) > 0, NEW k \in Seq(All), Starts(k, redisClusterHashTag(j))
  PROVE  Slot(k) = j
<1>1. j \in Seq(All)
  <2>1. Out \cup {":"} \subseteq All
    BY OutIsAll DEF Delimiters
  <2> QED
    BY <2>1, SeqMonotonic
<1>2. Starts(k, Wrap("{", j, "}"))
  BY <1>1, TagForm
<1>3. \A i \in 1 .. Len(j) : j[i] # "}"
  BY JoinStart
<1>4. "{" # "}"
  OBVIOUS
<1>5. /\ FirstOf(k, "{") # 0 /\ FirstOf(k, "}") > FirstOf(k, "{") + 1
      /\ SubSeq(k, FirstOf(k, "{") + 1, FirstOf(k, "}") - 1) = j
  <2> DEFINE o == "{"
             c == "}"
  <2>1. /\ o \in All /\ c \in All /\ o # c
        /\ \A i \in 1 .. Len(j) : j[i] # c
        /\ Starts(k, Wrap(o, j, c))
    BY <1>2, <1>3, <1>4, Braces
  <2> HIDE DEF o, c
  <2>2. /\ FirstOf(k, o) # 0 /\ FirstOf(k, c) > FirstOf(k, o) + 1
        /\ SubSeq(k, FirstOf(k, o) + 1, FirstOf(k, c) - 1) = j
    BY <1>1, <2>1, TagBetween
  <2> QED
    BY <2>2 DEF o, c
<1> QED
  BY <1>5, SlotForm, Zenon

LEMMA SuffixTyped ==
  ASSUME NEW a \in All, NEW b \in All, NEW s \in Seq(All)
  PROVE  /\ <<a, b>> \in Seq(All) /\ Cat(s, <<a, b>>) \in Seq(All)
         /\ Cat(s, <<a, b>>) = Extend(Extend(s, a), b)
         /\ Extend(s, a) \in Seq(All)
<1>1. <<a, b>> \in Seq(All)
  OBVIOUS
<1>2. s \o <<a, b>> = Append(Append(s, a), b)
  BY AppendTwo
<1>3. Append(s, a) \in Seq(All) /\ Append(Append(s, a), b) \in Seq(All)
  BY AppendProperties
<1> QED
  BY <1>1, <1>2, <1>3 DEF Cat, Extend

\* The two kinds of Redis keys, and the cluster slot that the tracked ones
\* share with the watermark of their entity alone.
LEMMA WatermarkSlots ==
  ASSUME NEW d \in Identities,
         NEW ns \in Seq(Characters), NEW type \in Seq(Characters), NEW id \in Seq(Characters)
  PROVE  /\ redisKey(d) # redisWatermarkKey(ns, type, id)
         /\ d.tracked => (Slot(redisKey(d)) = Slot(redisWatermarkKey(ns, type, id))
                            <=> d.ns = ns /\ d.type = type /\ d.id = id)
<1> DEFINE j == joinUrnComponents(ns, type, id)
           k == joinUrnComponents(d.ns, d.type, d.id)
           tag == redisClusterHashTag(j)
           w == redisWatermarkKey(ns, type, id)
           key == redisKey(d)
<1>1. /\ ":" \in All /\ "dialcache-frame-v1" \in All /\ "#" \in All /\ "watermark" \in All
      /\ "dialcache-frame-v1" # "watermark"
  BY OutIsAll DEF All, Delimiters
<1>2. /\ j \in Seq(Out \cup {":"}) /\ Len(j) > 0 /\ j \in Seq(All)
      /\ k \in Seq(Out \cup {":"}) /\ Len(k) > 0 /\ k \in Seq(All)
  BY IdentityTyped, JoinTyped
<1>3. tag = Wrap("{", j, "}") /\ tag \in Seq(All)
  <2>1. Wrap("{", j, "}") \in Seq(All)
    BY <1>2, Braces, WrapStart
  <2> QED
    BY <1>2, <2>1, TagForm
<1>4. w = Cat(tag, <<"#", "watermark">>) /\ key = Cat(urn(d), <<":", "dialcache-frame-v1">>)
  BY DEF redisWatermarkKey, redisKey, Cat
<1>5. urn(d) \in Seq(All)
  BY UrnForm
<1> HIDE DEF tag
<1>6. /\ w \in Seq(All) /\ w = Extend(Extend(tag, "#"), "watermark") /\ Extend(tag, "#") \in Seq(All)
      /\ <<"#", "watermark">> \in Seq(All)
  <2>1. tag \in Seq(All)
    BY <1>3
  <2>2. w = Cat(tag, <<"#", "watermark">>)
    BY <1>4
  <2> QED
    BY <1>1, <2>1, <2>2, SuffixTyped
<1>7. /\ key \in Seq(All) /\ key = Extend(Extend(urn(d), ":"), "dialcache-frame-v1")
      /\ Extend(urn(d), ":") \in Seq(All) /\ <<":", "dialcache-frame-v1">> \in Seq(All)
  BY <1>1, <1>4, <1>5, SuffixTyped
<1> HIDE DEF w, key
<1>8. key # w
  BY <1>1, <1>6, <1>7, ExtendInjective
<1>9. Slot(w) = j
  <2>1. Starts(tag, tag)
    BY <1>3, StartsItself
  <2>2. Starts(w, tag)
    BY <1>3, <1>4, <1>6, <2>1, StartsMore
  <2> HIDE DEF j
  <2> QED
    BY <1>2, <1>6, <2>2, SlotOf DEF tag
<1>10. ASSUME d.tracked PROVE Slot(key) = k
  <2> DEFINE p == prefix(d)
             a == EncodedArgs(normalizeArgs(d.args))
             u == encodeComponent(d.useCase)
             h == <<"#">>
  <2>1. p = redisClusterHashTag(k) /\ p \in Seq(All)
    BY <1>10, PrefixTyped DEF prefix
  <2>2. a \in Seq(All) /\ Cat(p, a) \in Seq(All) /\ u \in Seq(All)
    BY UrnForm, OutIsAll
  <2>3. h \in Seq(All)
    BY <1>1
  <2>4. urn(d) = Cat(Cat(Cat(p, a), h), u)
    BY UrnForm DEF Sep, Cat
  <2> HIDE DEF p, a, u, h, k
  <2>5. Cat(Cat(p, a), h) \in Seq(All)
    BY <2>2, <2>3, CatProperties
  <2>6. Starts(p, p)
    BY <2>1, StartsItself
  <2>7. Starts(Cat(p, a), p)
    BY <2>1, <2>2, <2>6, StartsMore
  <2>8. Starts(Cat(Cat(p, a), h), p)
    BY <2>1, <2>2, <2>3, <2>7, StartsMore
  <2>9. Starts(urn(d), p)
    BY <2>1, <2>2, <2>4, <2>5, <2>8, StartsMore
  <2>10. Starts(key, p)
    BY <1>4, <1>5, <1>7, <2>1, <2>9, StartsMore
  <2> QED
    BY <1>2, <1>7, <2>1, <2>10, SlotOf
<1>11. ASSUME d.tracked PROVE Slot(key) = Slot(w) <=> d.ns = ns /\ d.type = type /\ d.id = id
  <2>1. Slot(key) = Slot(w) <=> k = j
    BY <1>9, <1>10, <1>11
  <2>2. k = j => d.ns = ns /\ d.type = type /\ d.id = id
    BY IdentityTyped, JoinInjective
  <2> QED
    BY <2>1, <2>2
<1> QED
  BY <1>8, <1>11 DEF key, w

-----------------------------------------------------------------------------
\* The states of the module.
TypeOK ==
  /\ useCases \in [Namespaces -> SUBSET UseCases]
  /\ wrappers \in [Namespaces -> [UseCases -> Nat]]
  /\ latest \in Identities \cup {Nil}
  /\ marked \in [ns : Namespaces, type : KeyTypes, id : Ids] \cup {Nil}

IInv == TypeOK /\ OneWrapperEach

LEMMA InitHolds == Init => IInv
  BY DEF Init, IInv, TypeOK, OneWrapperEach

LEMMA NextKeeps == IInv /\ [Next]_vars => IInv'
<1> SUFFICES ASSUME IInv, [Next]_vars PROVE IInv'
  OBVIOUS
<1> USE DEF IInv, TypeOK
<1>1. ASSUME NEW ns \in Namespaces, NEW u \in UseCases, NEW valid \in BOOLEAN, Cached(ns, u, valid)
      PROVE  IInv'
  <2>1. TypeOK'
    BY <1>1 DEF Cached, RegisteredBy
  <2>2. OneWrapperEach'
    <3> SUFFICES ASSUME NEW n \in Namespaces, NEW v \in UseCases
                 PROVE  wrappers'[n][v] = IF v \in useCases'[n] THEN 1 ELSE 0
      BY DEF OneWrapperEach
    <3>1. wrappers[n][v] = IF v \in useCases[n] THEN 1 ELSE 0
      BY DEF OneWrapperEach
    <3>2. CASE n = ns /\ v = u
      BY <1>1, <3>1, <3>2 DEF Cached, RegisteredBy, MayRegister
    <3>3. CASE ~ (n = ns /\ v = u)
      BY <1>1, <3>1, <3>3 DEF Cached, RegisteredBy, MayRegister
    <3> QED
      BY <3>2, <3>3
  <2> QED
    BY <2>1, <2>2
<1>2. ASSUME NEW d \in Identities, BuildKey(d) PROVE IInv'
  BY <1>2 DEF BuildKey, OneWrapperEach
<1>3. ASSUME NEW ns \in Namespaces, NEW type \in KeyTypes, NEW id \in Ids, InvalidateRemote(ns, type, id)
      PROVE  IInv'
  BY <1>3 DEF InvalidateRemote, OneWrapperEach
<1>4. CASE UNCHANGED vars
  BY <1>4 DEF vars, OneWrapperEach
<1> QED
  BY <1>1, <1>2, <1>3, <1>4 DEF Next

LEMMA IInvHolds == Spec => []IInv
  BY InitHolds, NextKeeps, PTL DEF Spec

\* Two calls share a key exactly when they are calls of one use case for one
\* entity with the same defined arguments, whatever texts name them: the
\* encoding leaves no delimiter in a component and loses nothing of it
\* (key.ts:42-61).
THEOREM KeysIdentifyHolds == Spec => []KeysIdentify
<1>1. IInv => KeysIdentify
  BY KeysTellApart DEF IInv, TypeOK, KeysIdentify
<1> QED
  BY <1>1, IInvHolds, PTL

\* No value key is a watermark key, and the slot of a tracked value key is
\* the one of its entity's watermark and of no other's
\* (redis-cache.ts:154-172).
THEOREM WatermarksGuardHolds == Spec => []WatermarksGuard
<1>1. ASSUME IInv PROVE WatermarksGuard
  <2> SUFFICES ASSUME latest # Nil, marked # Nil
               PROVE  LET w == redisWatermarkKey(marked.ns, marked.type, marked.id) IN
                      /\ redisKey(latest) # w
                      /\ latest.tracked =>
                           (Slot(redisKey(latest)) = Slot(w)
                              <=> <<latest.ns, latest.type, latest.id>> = <<marked.ns, marked.type, marked.id>>)
    BY DEF WatermarksGuard
  <2>1. latest \in Identities /\ marked \in [ns : Namespaces, type : KeyTypes, id : Ids]
    BY <1>1 DEF IInv, TypeOK
  <2>2. Namespaces \cup KeyTypes \cup Ids \cup UseCases \subseteq Seq(Characters)
    BY IdentityAssumption
  <2>3. marked.ns \in Seq(Characters) /\ marked.type \in Seq(Characters) /\ marked.id \in Seq(Characters)
    BY <2>1, <2>2
  <2> QED
    BY <2>1, <2>3, WatermarkSlots
<1> QED
  BY <1>1, IInvHolds, PTL

\* However the calls of cached() mix with failed ones, a use case is
\* registered exactly when one cached function of that name exists
\* (dialcache.ts:271-274, 656-668).
THEOREM OneWrapperEachHolds == Spec => []OneWrapperEach
  BY IInvHolds, PTL DEF IInv

=============================================================================
