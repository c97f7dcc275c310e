---------------------------- MODULE SequenceLemmas ----------------------------
(***************************************************************************)
(* Induction over numbers and what it gives about FlattenSeq.  The         *)
(* library's theorems of induction are about an operator that the caller   *)
(* supplies; this one is about a set, and follows from the fact that every *)
(* set of natural numbers has a least member.                              *)
(***************************************************************************)
EXTENDS Integers, Sequences, SequencesExt, SequenceTheorems, WellFoundedInduction, TLAPS

\* A set that has 0 and the successor of each of its members has every number.
LEMMA SetInduction ==
    ASSUME NEW A, 0 \in A, \A n \in Nat : n \in A => n + 1 \in A
    PROVE  \A n \in Nat : n \in A
<1> DEFINE R == OpToRel(<, Nat)
<1>1. IsWellFoundedOn(R, Nat)
  BY NatLessThanWellFounded
<1>2. \A m, n \in Nat : m < n => <<m, n>> \in R
  BY Zenon DEF OpToRel
<1> HIDE DEF R
<1> SUFFICES ASSUME Nat \ A # {} PROVE FALSE
  OBVIOUS
<1>3. PICK x \in Nat \ A : \A y \in Nat \ A : ~ (<<y, x>> \in R)
  <2>1. Nat \ A \subseteq Nat
    OBVIOUS
  <2> QED
    BY <1>1, <2>1, WFMin
<1>4. x - 1 \in Nat /\ x - 1 < x /\ x \in Nat
  BY <1>3
<1>5. x - 1 \in A
  BY <1>2, <1>3, <1>4
<1> QED
  BY <1>3, <1>4, <1>5

-----------------------------------------------------------------------------
(* Flattening.  Flattens(g, ss, n): g[i] is the concatenation of the first *)
(* i members of ss, for each i up to n.                                    *)

Flattens(g, ss, n) ==
    g = [i \in 1 .. n |-> IF i = 1 THEN ss[i] ELSE g[i - 1] \o ss[i]]

LEMMA FlattensAt ==
    ASSUME NEW g, NEW ss, NEW n, Flattens(g, ss, n), NEW i \in 1 .. n
    PROVE  g[i] = IF i = 1 THEN ss[i] ELSE g[i - 1] \o ss[i]
<1> DEFINE e(j) == IF j = 1 THEN ss[j] ELSE g[j - 1] \o ss[j]
<1>1. g = [j \in 1 .. n |-> e(j)]
  BY DEF Flattens
<1> HIDE DEF e
<1>2. g[i] = e(i)
  BY <1>1
<1> QED
  BY <1>2 DEF e

LEMMA FlattensExists ==
    ASSUME NEW ss, NEW n \in Nat
    PROVE  \E g : Flattens(g, ss, n)
<1> DEFINE A == {m \in Nat : \E g : Flattens(g, ss, m)}
<1>1. 0 \in A
  <2> DEFINE g == [i \in 1 .. 0 |-> ss[i]]
  <2>1. g = [i \in 1 .. 0 |-> IF i = 1 THEN ss[i] ELSE g[i - 1] \o ss[i]]
    OBVIOUS
  <2> QED
    BY <2>1 DEF Flattens
<1>2. ASSUME NEW m \in Nat, m \in A PROVE m + 1 \in A
  <2>1. PICK g : Flattens(g, ss, m)
    BY <1>2
  <2> DEFINE h == [i \in 1 .. m + 1 |->
                     IF i = 1 THEN ss[i]
                     ELSE (IF i - 1 \in 1 .. m THEN g[i - 1] ELSE ss[i]) \o ss[i]]
  <2>2. \A i \in 1 .. m : h[i] = g[i]
    <3> TAKE i \in 1 .. m
    <3>1. i # 1 => i - 1 \in 1 .. m
      OBVIOUS
    <3> QED
      BY <2>1, <3>1, FlattensAt
  <2>3. \A i \in 1 .. m + 1 : h[i] = IF i = 1 THEN ss[i] ELSE h[i - 1] \o ss[i]
    <3> SUFFICES ASSUME NEW i \in 1 .. m + 1, i # 1 PROVE h[i] = h[i - 1] \o ss[i]
      OBVIOUS
    <3>1. i - 1 \in 1 .. m
      OBVIOUS
    <3> QED
      BY <2>2, <3>1
  <2>4. Flattens(h, ss, m + 1)
    <3>1. h = [i \in 1 .. m + 1 |-> h[i]]
      OBVIOUS
    <3> HIDE DEF h
    <3> QED
      BY <2>3, <3>1 DEF Flattens
  <2> QED
    BY <2>4
<1> HIDE DEF A
<1>3. n \in A
  BY <1>1, <1>2, SetInduction
<1> QED
  BY <1>3 DEF A

\* What is flattened up to i depends on the first i members only.
LEMMA FlattensAgree ==
    ASSUME NEW ss, NEW tt, NEW m \in Nat, NEW n \in Nat, NEW g, NEW h,
           Flattens(g, ss, m), Flattens(h, tt, n), m <= n,
           \A i \in 1 .. m : ss[i] = tt[i]
    PROVE  \A i \in 1 .. m : g[i] = h[i]
<1> DEFINE A == {i \in Nat : i \in 1 .. m => g[i] = h[i]}
<1>1. 0 \in A
  OBVIOUS
<1>2. ASSUME NEW i \in Nat, i \in A PROVE i + 1 \in A
  <2> SUFFICES ASSUME i + 1 \in 1 .. m PROVE g[i + 1] = h[i + 1]
    OBVIOUS
  <2>1. /\ g[i + 1] = IF i + 1 = 1 THEN ss[i + 1] ELSE g[i + 1 - 1] \o ss[i + 1]
        /\ h[i + 1] = IF i + 1 = 1 THEN tt[i + 1] ELSE h[i + 1 - 1] \o tt[i + 1]
    <3>1. i + 1 \in 1 .. m /\ i + 1 \in 1 .. n
      OBVIOUS
    <3> QED
      BY <3>1, FlattensAt
  <2>2. i + 1 # 1 => g[i] = h[i] /\ i + 1 - 1 = i
    BY <1>2
  <2> QED
    BY <2>1, <2>2
<1> HIDE DEF A
<1>3. \A i \in Nat : i \in A
  BY <1>1, <1>2, SetInduction
<1> QED
  BY <1>3 DEF A

LEMMA FlattenIs ==
    ASSUME NEW ss, NEW n \in Nat \ {0}, Len(ss) = n, NEW g, Flattens(g, ss, n)
    PROVE  FlattenSeq(ss) = g[n]
<1> DEFINE f == CHOOSE f : Flattens(f, ss, n)
<1>1. Flattens(f, ss, n)
  BY Zenon
<1>2. Len(ss) # 0
  OBVIOUS
<1>3. FlattenSeq(ss) = f[n]
  BY <1>2, Zenon DEF FlattenSeq, Flattens
<1> HIDE DEF f
<1>4. \A i \in 1 .. n : f[i] = g[i]
  BY <1>1, FlattensAgree
<1> QED
  BY <1>3, <1>4

LEMMA FlattenEmpty == FlattenSeq(<<>>) = <<>>
BY DEF FlattenSeq

LEMMA FlattenAppend ==
    ASSUME NEW S, NEW ss \in Seq(Seq(S)), NEW s \in Seq(S)
    PROVE  FlattenSeq(Append(ss, s)) = FlattenSeq(ss) \o s
<1> DEFINE tt == Append(ss, s)
           n == Len(ss)
           p == Len(tt)
<1>1. n \in Nat /\ p \in Nat \ {0} /\ p = n + 1 /\ tt[p] = s /\ \A i \in 1 .. n : tt[i] = ss[i]
  OBVIOUS
<1>2. Len(tt) = p /\ Len(ss) = n /\ (n = 0 => ss = <<>>)
  OBVIOUS
<1> HIDE DEF tt, n, p
<1>3. PICK h : Flattens(h, tt, p)
  BY <1>1, FlattensExists
<1>4. FlattenSeq(tt) = h[p]
  BY <1>1, <1>2, <1>3, FlattenIs
<1>5. h[p] = IF p = 1 THEN tt[p] ELSE h[p - 1] \o tt[p]
  <2>1. p \in 1 .. p
    BY <1>1
  <2> QED
    BY <1>3, <2>1, FlattensAt
<1>6. CASE n = 0
  <2>1. FlattenSeq(tt) = s
    BY <1>1, <1>4, <1>5, <1>6
  <2>2. <<>> \o s = s
    OBVIOUS
  <2> QED
    BY <1>2, <1>6, <2>1, <2>2, FlattenEmpty DEF tt
<1>7. CASE n > 0
  <2>1. PICK g : Flattens(g, ss, n)
    BY <1>1, FlattensExists
  <2>2. FlattenSeq(ss) = g[n]
    BY <1>1, <1>2, <1>7, <2>1, FlattenIs
  <2>3. \A i \in 1 .. n : g[i] = h[i]
    <3>1. n \in Nat /\ p \in Nat /\ n <= p /\ \A i \in 1 .. n : ss[i] = tt[i]
      BY <1>1
    <3> QED
      BY <1>3, <2>1, <3>1, FlattensAgree
  <2>4. p - 1 = n /\ n \in 1 .. n /\ p # 1
    BY <1>1, <1>7
  <2>5. FlattenSeq(tt) = g[n] \o s
    BY <1>1, <1>4, <1>5, <2>3, <2>4
  <2> QED
    BY <2>2, <2>5 DEF tt
<1> QED
  BY <1>1, <1>6, <1>7

LEMMA EmptyConcat ==
    ASSUME NEW S, NEW s \in Seq(S)
    PROVE  <<>> \o s = s /\ s \o <<>> = s
BY ConcatEmptySeq

LEMMA FrontAndLast ==
    ASSUME NEW S, NEW s \in Seq(S), NEW n \in Nat, Len(s) = n + 1
    PROVE  /\ SubSeq(s, 1, n) \in Seq(S) /\ Len(SubSeq(s, 1, n)) = n
           /\ s[n + 1] \in S
           /\ s = Append(SubSeq(s, 1, n), s[n + 1])
<1>1. SubSeq(s, 1, n) \in Seq(S) /\ Len(SubSeq(s, 1, n)) = n /\ s[n + 1] \in S
  OBVIOUS
<1>2. \A i \in 1 .. n + 1 : s[i] = Append(SubSeq(s, 1, n), s[n + 1])[i]
  OBVIOUS
<1>3. /\ Append(SubSeq(s, 1, n), s[n + 1]) \in Seq(S)
      /\ Len(Append(SubSeq(s, 1, n), s[n + 1])) = n + 1
  BY <1>1
<1> QED
  BY <1>1, <1>2, <1>3, SeqEqual

LEMMA FlattenType ==
    ASSUME NEW S, NEW ss \in Seq(Seq(S))
    PROVE  FlattenSeq(ss) \in Seq(S)
<1> DEFINE A == {n \in Nat : \A tt \in Seq(Seq(S)) : Len(tt) = n => FlattenSeq(tt) \in Seq(S)}
<1>1. 0 \in A
  <2> SUFFICES ASSUME NEW tt \in Seq(Seq(S)), Len(tt) = 0 PROVE FlattenSeq(tt) \in Seq(S)
    OBVIOUS
  <2>1. tt = <<>> /\ <<>> \in Seq(S)
    OBVIOUS
  <2> QED
    BY <2>1, FlattenEmpty
<1>2. ASSUME NEW n \in Nat, n \in A PROVE n + 1 \in A
  <2> SUFFICES ASSUME NEW tt \in Seq(Seq(S)), Len(tt) = n + 1 PROVE FlattenSeq(tt) \in Seq(S)
    OBVIOUS
  <2> DEFINE uu == SubSeq(tt, 1, n)
             s == tt[n + 1]
  <2>1. uu \in Seq(Seq(S)) /\ Len(uu) = n /\ s \in Seq(S) /\ tt = Append(uu, s)
    BY FrontAndLast
  <2>2. FlattenSeq(uu) \in Seq(S)
    BY <1>2, <2>1
  <2> HIDE DEF uu, s
  <2>3. FlattenSeq(tt) = FlattenSeq(uu) \o s
    BY <2>1, FlattenAppend
  <2> QED
    BY <2>1, <2>2, <2>3
<1> HIDE DEF A
<1>3. \A n \in Nat : n \in A
  BY <1>1, <1>2, SetInduction
<1> QED
  BY <1>3 DEF A

LEMMA ConcatAny ==
    \A S : \A x, y, z \in Seq(S) : (x \o y) \o z = x \o (y \o z)
BY ConcatAssociative

\* One more member at the end of the second of two lists.
LEMMA FlattenConcatOne ==
    \A S : \A ss, tt \in Seq(Seq(S)), s \in Seq(S) :
      FlattenSeq(ss \o tt) = FlattenSeq(ss) \o FlattenSeq(tt)
      => FlattenSeq(ss \o Append(tt, s)) = FlattenSeq(ss) \o FlattenSeq(Append(tt, s))
<1> DEFINE C(ss, tt, s) ==
             FlattenSeq(ss \o tt) = FlattenSeq(ss) \o FlattenSeq(tt)
             => FlattenSeq(ss \o Append(tt, s)) = FlattenSeq(ss) \o FlattenSeq(Append(tt, s))
<1>1. ASSUME NEW S, NEW ss, NEW tt, NEW s,
             ss \in Seq(Seq(S)), tt \in Seq(Seq(S)), s \in Seq(S)
      PROVE  C(ss, tt, s)
  <2> SUFFICES ASSUME FlattenSeq(ss \o tt) = FlattenSeq(ss) \o FlattenSeq(tt)
      PROVE  FlattenSeq(ss \o Append(tt, s)) = FlattenSeq(ss) \o FlattenSeq(Append(tt, s))
    OBVIOUS
  <2> DEFINE P == Seq(Seq(S))
             Q == Seq(S)
             x == FlattenSeq(ss)
             y == FlattenSeq(tt)
             one == <<s>>
  <2>1. /\ ss \in P /\ tt \in P /\ one \in P /\ ss \o tt \in P
        /\ Append(tt, s) = tt \o one
        /\ Append(ss \o tt, s) = (ss \o tt) \o one
    BY <1>1
  <2>2. x \in Q /\ y \in Q /\ s \in Q
    BY <1>1, FlattenType
  <2>3. \A u, v, w \in P : (u \o v) \o w = u \o (v \o w)
    <3> DEFINE W == Seq(S)
    <3> HIDE DEF W
    <3>1. \A u, v, w \in Seq(W) : (u \o v) \o w = u \o (v \o w)
      BY ConcatAny
    <3> QED
      BY <3>1 DEF W
  <2>4. \A u, v, w \in Q : (u \o v) \o w = u \o (v \o w)
    BY ConcatAny
  <2>5. FlattenSeq(Append(tt, s)) = y \o s
    BY <1>1, FlattenAppend
  <2>6. FlattenSeq(Append(ss \o tt, s)) = FlattenSeq(ss \o tt) \o s
    BY <1>1, <2>1, FlattenAppend
  <2>7. FlattenSeq(ss \o tt) = x \o y
    OBVIOUS
  <2> HIDE DEF P, Q, x, y, one
  <2>8. ss \o Append(tt, s) = Append(ss \o tt, s)
    <3>1. (ss \o tt) \o one = ss \o (tt \o one)
      BY <2>1, <2>3, SMT
    <3> QED
      BY <2>1, <3>1, SMT
  <2>9. (x \o y) \o s = x \o (y \o s)
    BY <2>2, <2>4, SMT
  <2>10. FlattenSeq(ss \o Append(tt, s)) = x \o FlattenSeq(Append(tt, s))
    BY <2>5, <2>6, <2>7, <2>8, <2>9, Zenon
  <2> QED
    BY <2>10 DEF x
<1> HIDE DEF C
<1>2. \A S : \A ss, tt \in Seq(Seq(S)), s \in Seq(S) : C(ss, tt, s)
  BY <1>1
<1> QED
  BY <1>2 DEF C

LEMMA FlattenConcat ==
    ASSUME NEW S, NEW ss \in Seq(Seq(S)), NEW tt \in Seq(Seq(S))
    PROVE  FlattenSeq(ss \o tt) = FlattenSeq(ss) \o FlattenSeq(tt)
<1> DEFINE A == {n \in Nat : \A uu \in Seq(Seq(S)) :
                   Len(uu) = n => FlattenSeq(ss \o uu) = FlattenSeq(ss) \o FlattenSeq(uu)}
<1>1. 0 \in A
  <2> SUFFICES ASSUME NEW uu \in Seq(Seq(S)), Len(uu) = 0
               PROVE  FlattenSeq(ss \o uu) = FlattenSeq(ss) \o FlattenSeq(uu)
    OBVIOUS
  <2>1. uu = <<>>
    OBVIOUS
  <2>2. ss \o <<>> = ss
    BY EmptyConcat
  <2>3. FlattenSeq(ss) \o <<>> = FlattenSeq(ss)
    BY FlattenType, EmptyConcat
  <2> QED
    BY <2>1, <2>2, <2>3, FlattenEmpty
<1>2. ASSUME NEW n \in Nat, n \in A PROVE n + 1 \in A
  <2> SUFFICES ASSUME NEW uu \in Seq(Seq(S)), Len(uu) = n + 1
               PROVE  FlattenSeq(ss \o uu) = FlattenSeq(ss) \o FlattenSeq(uu)
    OBVIOUS
  <2> DEFINE vv == SubSeq(uu, 1, n)
             s == uu[n + 1]
  <2>1. vv \in Seq(Seq(S)) /\ Len(vv) = n /\ s \in Seq(S) /\ uu = Append(vv, s)
    BY FrontAndLast
  <2>2. FlattenSeq(ss \o vv) = FlattenSeq(ss) \o FlattenSeq(vv)
    BY <1>2, <2>1
  <2> HIDE DEF vv, s
  <2> QED
    BY <2>1, <2>2, FlattenConcatOne, Zenon
<1> HIDE DEF A
<1>3. \A n \in Nat : n \in A
  BY <1>1, <1>2, SetInduction
<1>4. Len(tt) \in Nat
  OBVIOUS
<1> QED
  BY <1>3, <1>4 DEF A

LEMMA FlattenOne ==
    ASSUME NEW S, NEW s \in Seq(S)
    PROVE  FlattenSeq(<<s>>) = s
<1>1. <<s>> = Append(<<>>, s) /\ <<>> \in Seq(Seq(S))
  OBVIOUS
<1>2. FlattenSeq(Append(<<>>, s)) = FlattenSeq(<<>>) \o s
  BY <1>1, FlattenAppend
<1> QED
  BY <1>1, <1>2, FlattenEmpty, EmptyConcat

\* What the first k members, and the members after them, flatten to.
FlatFirst(ss, k) == FlattenSeq(SubSeq(ss, 1, k))
FlatRest(ss, k) == FlattenSeq(SubSeq(ss, k + 1, Len(ss)))

LEMMA FlatFirstGrows ==
    ASSUME NEW S, NEW ss \in Seq(Seq(S)), NEW k \in 0 .. Len(ss)
    PROVE  /\ FlatFirst(ss, k) \in Seq(S)
           /\ FlatFirst(ss, 0) = <<>>
           /\ FlatFirst(ss, Len(ss)) = FlattenSeq(ss)
           /\ k < Len(ss) => FlatFirst(ss, k + 1) = FlatFirst(ss, k) \o ss[k + 1]
<1>1. SubSeq(ss, 1, k) \in Seq(Seq(S)) /\ SubSeq(ss, 1, 0) = <<>>
  OBVIOUS
<1>2. SubSeq(ss, 1, Len(ss)) = ss
  BY SubSeqFull
<1>3. ASSUME k < Len(ss) PROVE SubSeq(ss, 1, k + 1) = Append(SubSeq(ss, 1, k), ss[k + 1])
  <2>1. /\ SubSeq(ss, 1, k + 1) \in Seq(Seq(S)) /\ ss[k + 1] \in Seq(S)
        /\ Append(SubSeq(ss, 1, k), ss[k + 1]) \in Seq(Seq(S))
    BY <1>3
  <2>2. Len(SubSeq(ss, 1, k + 1)) = k + 1 /\ Len(Append(SubSeq(ss, 1, k), ss[k + 1])) = k + 1
    BY <1>3
  <2>3. \A i \in 1 .. k + 1 : SubSeq(ss, 1, k + 1)[i] = Append(SubSeq(ss, 1, k), ss[k + 1])[i]
    BY <1>3
  <2> QED
    BY <2>1, <2>2, <2>3, SeqEqual
<1>4. k < Len(ss) => ss[k + 1] \in Seq(S)
  OBVIOUS
<1> QED
  BY <1>1, <1>2, <1>3, <1>4, FlattenType, FlattenEmpty, FlattenAppend DEF FlatFirst

LEMMA FlatRestShrinks ==
    ASSUME NEW S, NEW ss \in Seq(Seq(S)), NEW k \in 0 .. Len(ss)
    PROVE  /\ FlatRest(ss, k) \in Seq(S)
           /\ FlatRest(ss, 0) = FlattenSeq(ss)
           /\ FlatRest(ss, Len(ss)) = <<>>
           /\ k < Len(ss) => FlatRest(ss, k) = ss[k + 1] \o FlatRest(ss, k + 1)
<1>1. SubSeq(ss, k + 1, Len(ss)) \in Seq(Seq(S)) /\ SubSeq(ss, Len(ss) + 1, Len(ss)) = <<>>
  OBVIOUS
<1>2. SubSeq(ss, 1, Len(ss)) = ss
  BY SubSeqFull
<1>3. ASSUME k < Len(ss)
      PROVE  /\ SubSeq(ss, k + 1, Len(ss)) = <<ss[k + 1]>> \o SubSeq(ss, k + 1 + 1, Len(ss))
             /\ SubSeq(ss, k + 1 + 1, Len(ss)) \in Seq(Seq(S)) /\ ss[k + 1] \in Seq(S)
             /\ <<ss[k + 1]>> \in Seq(Seq(S))
  <2>1. k + 1 \in 1 .. Len(ss) /\ Len(ss) \in k + 1 .. Len(ss)
    BY <1>3
  <2>2. SubSeq(ss, k + 1 + 1, Len(ss)) \in Seq(Seq(S)) /\ ss[k + 1] \in Seq(S)
    BY <1>3
  <2> QED
    BY <2>1, <2>2, SubSeqRecursiveFirst
<1>4. ASSUME k < Len(ss) PROVE FlatRest(ss, k) = ss[k + 1] \o FlatRest(ss, k + 1)
  <2>1. FlattenSeq(<<ss[k + 1]>>) = ss[k + 1]
    BY <1>3, <1>4, FlattenOne
  <2> QED
    BY <1>3, <1>4, <2>1, FlattenConcat DEF FlatRest
<1>5. FlatRest(ss, 0) = FlattenSeq(ss)
  <2>1. 0 + 1 = 1
    OBVIOUS
  <2> QED
    BY <1>2, <2>1 DEF FlatRest
<1> QED
  BY <1>1, <1>4, <1>5, FlattenType, FlattenEmpty DEF FlatRest
===============================================================================
