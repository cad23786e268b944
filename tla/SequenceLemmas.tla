--------------------------- MODULE SequenceLemmas ---------------------------
(* What the proofs need to know of the operators on sequences that are defined  *)
(* by recursion: induction over the natural numbers with a set in the place of  *)
(* a predicate, FlattenSeq by its equations, and what ElementsIn keeps.         *)
EXTENDS Integers, Sequences, SequencesExt, Subsequences, SequenceTheorems, WellFoundedInduction,
        TLAPS

-----------------------------------------------------------------------------
(* Induction.                                                                   *)

LEMMA LeastElement ==
    ASSUME NEW T, T \subseteq Nat, T # {}
    PROVE  \E x \in T : \A y \in T : x <= y
<1> DEFINE R == {ss \in Nat \X Nat : ss[1] < ss[2]}
<1>1. IsWellFoundedOn(R, Nat)
  BY NatLessThanWellFounded DEF OpToRel
<1>2. \E x \in T : \A y \in T : ~ (<<y, x>> \in R)
  <2> HIDE DEF R
  <2> QED
    BY <1>1, WFMin
<1>3. PICK x \in T : \A y \in T : ~ (<<y, x>> \in R)
  BY <1>2
<1>4. \A y \in T : ~ (y < x)
  BY <1>3
<1>5. QED
  BY <1>4

\* Induction: a set that holds 0 and the successor of each number in it holds them all.
LEMMA SetInduction ==
    ASSUME NEW T, 0 \in T, \A n \in Nat : n \in T => n + 1 \in T
    PROVE  \A n \in Nat : n \in T
<1> SUFFICES ASSUME NEW n \in Nat, n \notin T PROVE FALSE
  OBVIOUS
<1> DEFINE U == {m \in Nat : m \notin T}
<1>1. PICK x \in U : \A y \in U : x <= y
  <2>1. U \subseteq Nat /\ U # {}
    OBVIOUS
  <2> HIDE DEF U
  <2> QED
    BY <2>1, LeastElement
<1>2. x # 0 /\ x - 1 \in Nat
  OBVIOUS
<1>3. x - 1 \in T
  BY <1>1, <1>2
<1>4. QED
  BY <1>2, <1>3

-----------------------------------------------------------------------------
(* FlattenSeq.                                                                  *)

\* f gives what is flattened of s up to each of its elements.
Flattens(f, s, n) == f = [i \in 1..n |-> IF i = 1 THEN s[i] ELSE f[i - 1] \o s[i]]

LEMMA FlatteningExists ==
    ASSUME NEW s
    PROVE  \A n \in Nat : \E f : Flattens(f, s, n)
<1> DEFINE T == {n \in Nat : \E f : Flattens(f, s, n)}
<1>1. 0 \in T
  <2> DEFINE f == [i \in 1..0 |-> 0]
  <2>1. Flattens(f, s, 0)
    BY DEF Flattens
  <2>2. QED
    BY <2>1
<1>2. ASSUME NEW n \in Nat, n \in T PROVE n + 1 \in T
  <2>1. PICK f : Flattens(f, s, n)
    BY <1>2
  <2> DEFINE g == [i \in 1..(n + 1) |->
                     IF i <= n THEN f[i] ELSE IF i = 1 THEN s[i] ELSE f[i - 1] \o s[i]]
  <2>2. \A i \in 1..n : f[i] = IF i = 1 THEN s[i] ELSE f[i - 1] \o s[i]
    BY <2>1, Zenon DEF Flattens
  <2>3. \A i \in 1..(n + 1) : g[i] = IF i = 1 THEN s[i] ELSE g[i - 1] \o s[i]
    BY <2>2
  <2>4. Flattens(g, s, n + 1)
    BY <2>3, Zenon DEF Flattens
  <2>5. QED
    BY <2>4
<1>3. \A n \in Nat : n \in T
  <2> HIDE DEF T
  <2> QED
    BY <1>1, <1>2, SetInduction
<1>4. QED
  BY <1>3

LEMMA FlattenSeqIsLast ==
    ASSUME NEW S, NEW s \in Seq(Seq(S))
    PROVE  /\ s = <<>> => FlattenSeq(s) = <<>>
           /\ s # <<>> => \E f : /\ Flattens(f, s, Len(s)) /\ FlattenSeq(s) = f[Len(s)]
                                 /\ \A i \in 1..Len(s) : f[i] \in Seq(S)
<1>1. Len(s) \in Nat /\ (s = <<>> <=> Len(s) = 0)
  BY EmptySeq, LenProperties
<1>2. s = <<>> => FlattenSeq(s) = <<>>
  BY <1>1 DEF FlattenSeq
<1>3. ASSUME s # <<>>
      PROVE  \E f : Flattens(f, s, Len(s)) /\ FlattenSeq(s) = f[Len(s)]
  <2> DEFINE f == CHOOSE f : f = [i \in 1..Len(s) |-> IF i = 1 THEN s[i] ELSE f[i - 1] \o s[i]]
  <2>1. FlattenSeq(s) = f[Len(s)]
    BY <1>1, <1>3 DEF FlattenSeq
  <2>2. \E g : g = [i \in 1..Len(s) |-> IF i = 1 THEN s[i] ELSE g[i - 1] \o s[i]]
    BY <1>1, FlatteningExists, Zenon DEF Flattens
  <2>3. f = [i \in 1..Len(s) |-> IF i = 1 THEN s[i] ELSE f[i - 1] \o s[i]]
    BY <2>2, Zenon
  <2>4. QED
    BY <2>1, <2>3, Zenon DEF Flattens
<1>4. ASSUME NEW f, Flattens(f, s, Len(s)) PROVE \A i \in 1..Len(s) : f[i] \in Seq(S)
  <2> DEFINE T == {n \in Nat : n \in 1..Len(s) => f[n] \in Seq(S)}
  <2>1. 0 \in T
    BY <1>1
  <2>2. ASSUME NEW n \in Nat, n \in T PROVE n + 1 \in T
    <3>1. SUFFICES ASSUME n + 1 \in 1..Len(s) PROVE f[n + 1] \in Seq(S)
      OBVIOUS
    <3>2. s[n + 1] \in Seq(S)
      BY <1>1, <3>1, ElementOfSeq
    <3>3. f[n + 1] = IF n + 1 = 1 THEN s[n + 1] ELSE f[n] \o s[n + 1]
      <4>1. \A i \in 1..Len(s) : f[i] = IF i = 1 THEN s[i] ELSE f[i - 1] \o s[i]
        BY <1>4 DEF Flattens
      <4>2. f[n + 1] = IF n + 1 = 1 THEN s[n + 1] ELSE f[(n + 1) - 1] \o s[n + 1]
        BY <3>1, <4>1
      <4>3. QED
        BY <4>2
    <3>4. n # 0 => f[n] \in Seq(S)
      BY <1>1, <2>2, <3>1
    <3>5. QED
      BY <3>2, <3>3, <3>4, ConcatProperties
  <2>3. \A n \in Nat : n \in T
    <3> HIDE DEF T
    <3> QED
      BY <2>1, <2>2, SetInduction
  <2>4. QED
    BY <1>1, <2>3
<1>5. QED
  BY <1>2, <1>3, <1>4

LEMMA FlattenType ==
    ASSUME NEW S, NEW s \in Seq(Seq(S))
    PROVE  FlattenSeq(s) \in Seq(S)
<1>1. CASE s = <<>>
  <2>1. FlattenSeq(s) = <<>>
    BY <1>1, FlattenSeqIsLast
  <2>2. QED
    BY <2>1
<1>2. CASE s # <<>>
  <2>1. Len(s) \in Nat \ {0}
    BY <1>2, EmptySeq
  <2>2. PICK f : FlattenSeq(s) = f[Len(s)] /\ \A i \in 1..Len(s) : f[i] \in Seq(S)
    BY <1>2, FlattenSeqIsLast
  <2>3. Len(s) \in 1..Len(s)
    BY <2>1
  <2>4. QED
    BY <2>2, <2>3
<1>3. QED
  BY <1>1, <1>2

LEMMA FlattenOne ==
    ASSUME NEW S, NEW x \in Seq(S)
    PROVE  FlattenSeq(<<x>>) = x
<1>1. <<x>> \in Seq(Seq(S)) /\ <<x>> # <<>> /\ Len(<<x>>) = 1 /\ <<x>>[1] = x
  OBVIOUS
<1>2. PICK f : Flattens(f, <<x>>, 1) /\ FlattenSeq(<<x>>) = f[1]
  BY <1>1, FlattenSeqIsLast
<1>3. f[1] = x
  BY <1>1, <1>2 DEF Flattens
<1>4. QED
  BY <1>2, <1>3

\* An element at the end.
LEMMA FlattenAppend ==
    ASSUME NEW S, NEW s \in Seq(Seq(S)), NEW x \in Seq(S)
    PROVE  FlattenSeq(Append(s, x)) = FlattenSeq(s) \o x
<1>1. CASE s = <<>>
  <2>1. Append(s, x) = <<x>>
    BY <1>1
  <2>2. QED
    BY <1>1, <2>1, FlattenOne, FlattenSeqIsLast, ConcatEmptySeq
<1>2. CASE s # <<>>
  <2> DEFINE a == Append(s, x)
             n == Len(s)
  <2>1. /\ a \in Seq(Seq(S)) /\ a # <<>> /\ n \in Nat \ {0} /\ Len(a) = n + 1 /\ a[n + 1] = x
        /\ \A i \in 1..n : a[i] = s[i]
    BY <1>2, AppendProperties, EmptySeq
  <2> HIDE DEF a, n
  <2>2. PICK f : Flattens(f, s, n) /\ FlattenSeq(s) = f[n]
    BY <1>2, FlattenSeqIsLast DEF n
  <2>3. PICK g : Flattens(g, a, n + 1) /\ FlattenSeq(a) = g[n + 1]
    <3>1. \E g : Flattens(g, a, Len(a)) /\ FlattenSeq(a) = g[Len(a)]
      BY <2>1, FlattenSeqIsLast
    <3>2. QED
      BY <2>1, <3>1
  <2>4. \A i \in 1..n : f[i] = IF i = 1 THEN s[i] ELSE f[i - 1] \o s[i]
    BY <2>2 DEF Flattens
  <2>5. \A i \in 1..(n + 1) : g[i] = IF i = 1 THEN a[i] ELSE g[i - 1] \o a[i]
    BY <2>3 DEF Flattens
  <2> DEFINE T == {k \in Nat : k \in 1..n => g[k] = f[k]}
  <2>6. 0 \in T
    OBVIOUS
  <2>7. ASSUME NEW k \in Nat, k \in T PROVE k + 1 \in T
    <3>1. SUFFICES ASSUME k + 1 \in 1..n PROVE g[k + 1] = f[k + 1]
      OBVIOUS
    <3>2. k + 1 \in 1..(n + 1) /\ a[k + 1] = s[k + 1]
      BY <2>1, <3>1
    <3>3. /\ f[k + 1] = IF k + 1 = 1 THEN s[k + 1] ELSE f[(k + 1) - 1] \o s[k + 1]
          /\ g[k + 1] = IF k + 1 = 1 THEN a[k + 1] ELSE g[(k + 1) - 1] \o a[k + 1]
      BY <2>4, <2>5, <3>1, <3>2
    <3>4. k # 0 => g[k] = f[k]
      BY <2>1, <2>7, <3>1
    <3>5. (k + 1) - 1 = k /\ (k + 1 = 1 <=> k = 0)
      OBVIOUS
    <3>6. QED
      BY <3>2, <3>3, <3>4, <3>5
  <2>8. \A k \in Nat : k \in T
    <3> HIDE DEF T
    <3> QED
      BY <2>6, <2>7, SetInduction
  <2>9. g[n] = f[n]
    <3>1. n \in T /\ n \in 1..n
      BY <2>1, <2>8
    <3>2. QED
      BY <3>1
  <2>10. g[n + 1] = g[n] \o x
    <3>1. n + 1 \in 1..(n + 1) /\ n + 1 # 1 /\ (n + 1) - 1 = n
      BY <2>1
    <3>2. g[n + 1] = g[(n + 1) - 1] \o a[n + 1]
      BY <2>5, <3>1
    <3>3. QED
      BY <2>1, <3>1, <3>2
  <2>11. FlattenSeq(a) = FlattenSeq(s) \o x
    BY <2>2, <2>3, <2>9, <2>10
  <2>12. QED
    BY <2>11 DEF a
<1>3. QED
  BY <1>1, <1>2

\* An element at the front.
LEMMA FlattenCons ==
    ASSUME NEW S, NEW s \in Seq(Seq(S)), NEW x \in Seq(S)
    PROVE  FlattenSeq(<<x>> \o s) = x \o FlattenSeq(s)
<1>00. ASSUME NEW y \in Seq(S), NEW z \in Seq(S) PROVE (x \o y) \o z = x \o (y \o z)
  BY ConcatAssociative, SMTT(20)
<1> DEFINE a == <<x>> \o s
           n == Len(s)
<1>0. <<x>> \in Seq(Seq(S)) /\ Len(<<x>>) = 1 /\ <<x>>[1] = x
  OBVIOUS
<1>1. CASE s = <<>>
  <2>1. a = <<x>>
    BY <1>0, <1>1, ConcatEmptySeq
  <2>2. QED
    BY <1>1, <2>1, FlattenOne, FlattenSeqIsLast, ConcatEmptySeq
<1>2. CASE s # <<>>
  <2>1. /\ a \in Seq(Seq(S)) /\ a # <<>> /\ n \in Nat \ {0} /\ Len(a) = n + 1 /\ a[1] = x
        /\ \A i \in 1..n : a[i + 1] = s[i]
    <3>1. n \in Nat \ {0}
      BY <1>2, EmptySeq
    <3>2. /\ a \in Seq(Seq(S)) /\ Len(a) = 1 + n
          /\ \A i \in 1..(1 + n) : a[i] = IF i <= 1 THEN <<x>>[i] ELSE s[i - 1]
      BY <1>0, ConcatProperties
    <3> HIDE DEF a, n
    <3>3. a[1] = x
      BY <1>0, <3>1, <3>2
    <3>4. \A i \in 1..n : a[i + 1] = s[i]
      <4>1. TAKE i \in 1..n
      <4>2. i + 1 \in 1..(1 + n) /\ ~(i + 1 <= 1) /\ (i + 1) - 1 = i
        BY <3>1
      <4>3. QED
        BY <3>2, <4>2
    <3>5. a # <<>>
      BY <3>1, <3>2, EmptySeq
    <3>6. QED
      BY <3>1, <3>2, <3>3, <3>4, <3>5
  <2> HIDE DEF a, n
  <2>2. PICK f : /\ Flattens(f, s, n) /\ FlattenSeq(s) = f[n]
                 /\ \A i \in 1..n : f[i] \in Seq(S)
    BY <1>2, FlattenSeqIsLast DEF n
  <2>3. PICK g : Flattens(g, a, n + 1) /\ FlattenSeq(a) = g[n + 1]
    <3>1. \E g : Flattens(g, a, Len(a)) /\ FlattenSeq(a) = g[Len(a)]
      BY <2>1, FlattenSeqIsLast
    <3>2. QED
      BY <2>1, <3>1
  <2>4. \A i \in 1..n : f[i] = IF i = 1 THEN s[i] ELSE f[i - 1] \o s[i]
    BY <2>2 DEF Flattens
  <2>5. \A i \in 1..(n + 1) : g[i] = IF i = 1 THEN a[i] ELSE g[i - 1] \o a[i]
    BY <2>3 DEF Flattens
  <2> DEFINE T == {k \in Nat : k \in 1..n => g[k + 1] = x \o f[k]}
  <2>6. 0 \in T
    OBVIOUS
  <2>7. ASSUME NEW k \in Nat, k \in T PROVE k + 1 \in T
    <3>1. SUFFICES ASSUME k + 1 \in 1..n PROVE g[(k + 1) + 1] = x \o f[k + 1]
      OBVIOUS
    <3>2. (k + 1) + 1 \in 1..(n + 1) /\ (k + 1) + 1 # 1 /\ ((k + 1) + 1) - 1 = k + 1
      BY <2>1, <3>1
    <3>3. g[(k + 1) + 1] = g[k + 1] \o s[k + 1]
      <4>1. g[(k + 1) + 1] = g[((k + 1) + 1) - 1] \o a[(k + 1) + 1]
        BY <2>5, <3>2
      <4>2. a[(k + 1) + 1] = s[k + 1]
        BY <2>1, <3>1
      <4>3. QED
        BY <3>2, <4>1, <4>2
    <3>4. CASE k = 0
      <4>1. 1 \in 1..n /\ 1 \in 1..(n + 1)
        BY <2>1
      <4>2. g[1] = x /\ f[1] = s[1]
        BY <2>1, <2>4, <2>5, <4>1
      <4>3. k + 1 = 1
        BY <3>4
      <4>4. QED
        BY <3>3, <4>2, <4>3
    <3>5. CASE k # 0
      <4>1. k \in 1..n
        BY <2>1, <3>1, <3>5
      <4>2. g[k + 1] = x \o f[k] /\ f[k] \in Seq(S)
        BY <2>2, <2>7, <4>1
      <4>3. f[k + 1] = f[k] \o s[k + 1]
        <5>1. k + 1 # 1 /\ (k + 1) - 1 = k
          BY <3>5
        <5>2. f[k + 1] = f[(k + 1) - 1] \o s[k + 1]
          BY <2>4, <3>1, <5>1
        <5>3. QED
          BY <5>1, <5>2
      <4>4. s[k + 1] \in Seq(S)
        BY <3>1, ElementOfSeq DEF n
      <4>5. (x \o f[k]) \o s[k + 1] = x \o (f[k] \o s[k + 1])
        BY <1>00, <4>2, <4>4
      <4>6. QED
        BY <3>3, <4>2, <4>3, <4>5
    <3>6. QED
      BY <3>4, <3>5
  <2>8. \A k \in Nat : k \in T
    <3> HIDE DEF T
    <3> QED
      BY <2>6, <2>7, SetInduction
  <2>9. g[n + 1] = x \o f[n]
    <3>1. n \in T /\ n \in 1..n
      BY <2>1, <2>8
    <3>2. QED
      BY <3>1
  <2>10. QED
    BY <2>2, <2>3, <2>9 DEF a
<1>3. QED
  BY <1>1, <1>2

-----------------------------------------------------------------------------
(* ElementsIn.                                                                  *)

\* f gives what is kept of s up to each of its elements.
Keeps(f, s, S, n) ==
  f = [i \in 0..n |-> IF i = 0 THEN <<>>
                      ELSE IF s[i] \in S THEN Append(f[i - 1], s[i]) ELSE f[i - 1]]

LEMMA KeepingExists ==
    ASSUME NEW s, NEW S
    PROVE  \A n \in Nat : \E f : Keeps(f, s, S, n)
<1> DEFINE T == {n \in Nat : \E f : Keeps(f, s, S, n)}
<1>1. 0 \in T
  <2> DEFINE f == [i \in 0..0 |-> <<>>]
  <2>1. Keeps(f, s, S, 0)
    BY DEF Keeps
  <2>2. QED
    BY <2>1
<1>2. ASSUME NEW n \in Nat, n \in T PROVE n + 1 \in T
  <2>1. PICK f : Keeps(f, s, S, n)
    BY <1>2
  <2> DEFINE g == [i \in 0..(n + 1) |->
                     IF i <= n THEN f[i] ELSE IF s[i] \in S THEN Append(f[i - 1], s[i]) ELSE f[i - 1]]
  <2>2. \A i \in 0..n : f[i] = IF i = 0 THEN <<>>
                               ELSE IF s[i] \in S THEN Append(f[i - 1], s[i]) ELSE f[i - 1]
    BY <2>1 DEF Keeps
  <2>3. \A i \in 0..(n + 1) : g[i] = IF i = 0 THEN <<>>
                                     ELSE IF s[i] \in S THEN Append(g[i - 1], s[i]) ELSE g[i - 1]
    BY <2>2
  <2>4. Keeps(g, s, S, n + 1)
    BY <2>3 DEF Keeps
  <2>5. QED
    BY <2>4
<1>3. \A n \in Nat : n \in T
  <2> HIDE DEF T
  <2> QED
    BY <1>1, <1>2, SetInduction
<1>4. QED
  BY <1>3

\* e is made of elements of s up to the n-th that are in S: all of them when all are in S, and
\* none twice when none is in s twice.
Picks(e, s, S, T, n) ==
  /\ e \in Seq(T) /\ Len(e) <= n
  /\ \A k \in 1..Len(e) : \E i \in 1..n : e[k] = s[i] /\ s[i] \in S
  /\ (\A i \in 1..n : s[i] \in S) => Len(e) = n /\ \A i \in 1..n : e[i] = s[i]
  /\ IsInjective(s) => \A j, k \in 1..Len(e) : e[j] = e[k] => j = k

LEMMA PicksOneMore ==
    ASSUME NEW T, NEW s \in Seq(T), NEW S, NEW n \in Nat, n + 1 <= Len(s), NEW e,
           Picks(e, s, S, T, n)
    PROVE  Picks(IF s[n + 1] \in S THEN Append(e, s[n + 1]) ELSE e, s, S, T, n + 1)
<1>0. /\ Len(s) \in Nat /\ DOMAIN s = 1..Len(s) /\ n + 1 \in 1..Len(s) /\ s[n + 1] \in T
      /\ e \in Seq(T) /\ Len(e) \in Nat
  BY LenProperties, ElementOfSeq DEF Picks
<1>1. CASE s[n + 1] \notin S
  <2>1. \A k \in 1..Len(e) : \E i \in 1..(n + 1) : e[k] = s[i] /\ s[i] \in S
    BY <1>0 DEF Picks
  <2>2. ~(\A i \in 1..(n + 1) : s[i] \in S)
    BY <1>1
  <2>3. Len(e) <= n + 1
    BY <1>0 DEF Picks
  <2>4. Picks(e, s, S, T, n + 1)
    BY <2>1, <2>2, <2>3 DEF Picks
  <2>5. QED
    BY <1>1, <2>4
<1>2. CASE s[n + 1] \in S
  <2> DEFINE a == Append(e, s[n + 1])
  <2>1. /\ a \in Seq(T) /\ Len(a) = Len(e) + 1 /\ a[Len(e) + 1] = s[n + 1]
        /\ \A k \in 1..Len(e) : a[k] = e[k]
    BY <1>0, AppendProperties
  <2> HIDE DEF a
  <2>2. Len(a) <= n + 1
    BY <1>0, <2>1 DEF Picks
  <2>3. ASSUME NEW k \in 1..Len(a) PROVE \E i \in 1..(n + 1) : a[k] = s[i] /\ s[i] \in S
    <3>1. CASE k = Len(e) + 1
      <4>1. n + 1 \in 1..(n + 1)
        OBVIOUS
      <4>2. QED
        BY <1>2, <2>1, <3>1, <4>1
    <3>2. CASE k # Len(e) + 1
      <4>1. k \in 1..Len(e)
        BY <1>0, <2>1, <3>2
      <4>2. PICK i \in 1..n : e[k] = s[i] /\ s[i] \in S
        BY <4>1 DEF Picks
      <4>3. i \in 1..(n + 1) /\ a[k] = e[k]
        BY <2>1, <4>1
      <4>4. QED
        BY <4>2, <4>3
    <3>3. QED
      BY <3>1, <3>2
  <2>4. ASSUME \A i \in 1..(n + 1) : s[i] \in S
        PROVE  Len(a) = n + 1 /\ \A i \in 1..(n + 1) : a[i] = s[i]
    <3>1. \A i \in 1..n : s[i] \in S
      BY <2>4
    <3>2. Len(e) = n /\ \A i \in 1..n : e[i] = s[i]
      BY <3>1 DEF Picks
    <3>3. ASSUME NEW i \in 1..(n + 1) PROVE a[i] = s[i]
      <4>1. i = n + 1 \/ i \in 1..n
        OBVIOUS
      <4>2. QED
        BY <2>1, <3>2, <4>1
    <3>4. QED
      BY <2>1, <3>2, <3>3
  <2>5. ASSUME IsInjective(s), NEW j \in 1..Len(a), NEW k \in 1..Len(a), a[j] = a[k]
        PROVE  j = k
    <3>1. \A i \in 1..n : s[i] = s[n + 1] => FALSE
      BY <1>0, <2>5 DEF IsInjective
    <3>2. ASSUME NEW i \in 1..Len(e), a[i] = s[n + 1] PROVE FALSE
      <4>1. PICK m \in 1..n : e[i] = s[m]
        BY DEF Picks
      <4>2. QED
        BY <2>1, <3>1, <3>2, <4>1
    <3>3. (j \in 1..Len(e) \/ j = Len(e) + 1) /\ (k \in 1..Len(e) \/ k = Len(e) + 1)
      BY <1>0, <2>1
    <3>4. ASSUME j \in 1..Len(e), k \in 1..Len(e) PROVE j = k
      BY <2>1, <2>5, <3>4 DEF Picks
    <3>5. QED
      BY <2>1, <2>5, <3>2, <3>3, <3>4
  <2>6. Picks(a, s, S, T, n + 1)
    BY <2>1, <2>2, <2>3, <2>4, <2>5 DEF Picks
  <2>7. QED
    BY <1>2, <2>6 DEF a
<1>3. QED
  BY <1>1, <1>2

LEMMA ElementsInPicks ==
    ASSUME NEW T, NEW s \in Seq(T), NEW S
    PROVE  Picks(ElementsIn(s, S), s, S, T, Len(s))
<1>0. Len(s) \in Nat
  BY LenProperties
<1> DEFINE f == CHOOSE f : Keeps(f, s, S, Len(s))
<1>1. ElementsIn(s, S) = f[Len(s)]
  BY DEF ElementsIn, Keeps
<1>2. Keeps(f, s, S, Len(s))
  BY <1>0, KeepingExists
<1> HIDE DEF f
<1>3. \A i \in 0..Len(s) : f[i] = IF i = 0 THEN <<>>
                                  ELSE IF s[i] \in S THEN Append(f[i - 1], s[i]) ELSE f[i - 1]
  BY <1>2 DEF Keeps
<1> DEFINE P == {n \in Nat : n <= Len(s) => Picks(f[n], s, S, T, n)}
<1>4. 0 \in P
  <2>1. f[0] = <<>>
    BY <1>0, <1>3
  <2>2. Picks(<<>>, s, S, T, 0)
    BY DEF Picks
  <2>3. QED
    BY <2>1, <2>2
<1>5. ASSUME NEW n \in Nat, n \in P PROVE n + 1 \in P
  <2>1. SUFFICES ASSUME n + 1 <= Len(s) PROVE Picks(f[n + 1], s, S, T, n + 1)
    OBVIOUS
  <2>2. n + 1 \in 0..Len(s) /\ n <= Len(s) /\ n + 1 # 0 /\ (n + 1) - 1 = n
    BY <1>0, <2>1
  <2>3. f[n + 1] = IF s[n + 1] \in S THEN Append(f[n], s[n + 1]) ELSE f[n]
    BY <1>3, <2>2
  <2>4. Picks(f[n], s, S, T, n)
    BY <1>5, <2>2
  <2>5. Picks(IF s[n + 1] \in S THEN Append(f[n], s[n + 1]) ELSE f[n], s, S, T, n + 1)
    BY <2>1, <2>4, PicksOneMore
  <2>6. QED
    BY <2>3, <2>5
<1>6. \A n \in Nat : n \in P
  <2> HIDE DEF P
  <2> QED
    BY <1>4, <1>5, SetInduction
<1>7. QED
  BY <1>0, <1>1, <1>6

\* What ElementsIn keeps.
LEMMA ElementsInKeeps ==
    ASSUME NEW T, NEW s \in Seq(T), NEW S
    PROVE  /\ ElementsIn(s, S) \in Seq(T) /\ Len(ElementsIn(s, S)) <= Len(s)
           /\ \A k \in 1..Len(ElementsIn(s, S)) :
                \E i \in 1..Len(s) : ElementsIn(s, S)[k] = s[i] /\ s[i] \in S
           /\ (\A i \in 1..Len(s) : s[i] \in S) => ElementsIn(s, S) = s
           /\ IsInjective(s) => IsInjective(ElementsIn(s, S))
<1> DEFINE e == ElementsIn(s, S)
<1>1. Picks(e, s, S, T, Len(s))
  BY ElementsInPicks
<1> HIDE DEF e
<1>2. e \in Seq(T) /\ DOMAIN e = 1..Len(e)
  BY <1>1, LenProperties DEF Picks
<1>3. (\A i \in 1..Len(s) : s[i] \in S) => e = s
  BY <1>1, <1>2, SeqEqual DEF Picks
<1>4. IsInjective(s) => IsInjective(e)
  BY <1>1, <1>2 DEF Picks, IsInjective
<1>5. QED
  BY <1>1, <1>2, <1>3, <1>4 DEF Picks, e
====
