-------------------------- MODULE TagCache_proofs --------------------------
(***************************************************************************)
(* What holds of tags and of a registry addressed by them, for every set   *)
(* of locations, with keys of any characters and any length, every set of  *)
(* configured encodings and any number of puts: the encodings are          *)
(* injective and decode what they encode, and an item put is found.        *)
(*                                                                         *)
(* A recursive definition is the CHOOSE of a function that satisfies its   *)
(* equation.  That there is one is proved by induction over the set of the *)
(* numbers up to which there is one; what holds of it likewise, or by the  *)
(* least counterexample.                                                   *)
(***************************************************************************)
EXTENDS TagCache, SequenceTheorems, FiniteSetTheorems, TLAPS

----------------------------------------------------------------------------
(* Induction, and FlattenSeq.                                              *)

\* A set of numbers has a least one.
LEMMA Least ==
  ASSUME NEW S, S \subseteq Nat, S # {}
  PROVE  \E n \in S : \A m \in S : n <= m
<1>1. \E x \in S : \A y \in S : ~(<<y, x>> \in OpToRel(<, Nat))
  BY NatLessThanWellFounded, WFMin
<1>2. PICK n \in S : \A m \in S : ~(<<m, n>> \in OpToRel(<, Nat))
  BY <1>1
<1>3. ASSUME NEW m \in S PROVE n <= m
  <2>1. ~(m < n)
    BY <1>2 DEF OpToRel
  <2>2. m \in Nat /\ n \in Nat
    OBVIOUS
  <2> QED BY ONLY <2>1, <2>2
<1> QED BY <1>3

\* Induction, over the set of the numbers that have the property.
LEMMA Induct ==
  ASSUME NEW S, 0 \in S, \A n \in Nat : n \in S => n + 1 \in S
  PROVE  Nat \subseteq S
<1> SUFFICES ASSUME Nat \ S # {} PROVE FALSE
  OBVIOUS
<1>1. PICK n \in Nat \ S : \A m \in Nat \ S : n <= m
  BY Least
<1>2. n # 0
  BY <1>1
<1>3. n - 1 \in Nat /\ n - 1 \in S
  BY <1>1, <1>2
<1> QED BY <1>1, <1>3

\* Induction over the last element of a sequence.
LEMMA SeqInduct ==
  ASSUME NEW S, NEW T, <<>> \in T,
         \A s \in Seq(S), e \in S : s \in T => Append(s, e) \in T
  PROVE  Seq(S) \subseteq T
<1> DEFINE N == { n \in Nat : \A s \in Seq(S) : Len(s) = n => s \in T }
<1>1. 0 \in N
  BY EmptySeq
<1>2. ASSUME NEW n \in N PROVE n + 1 \in N
  <2> SUFFICES ASSUME NEW s \in Seq(S), Len(s) = n + 1 PROVE s \in T
    OBVIOUS
  <2>1. s # <<>>
    BY EmptySeq
  <2>2. PICK f \in Seq(S), e \in S : s = Append(f, e)
    BY <2>1, SequenceEmptyOrAppend
  <2>3. Len(f) = n
    BY <2>2, AppendProperties, LenProperties
  <2> QED BY <2>2, <2>3
<1>3. Nat \subseteq N
  BY <1>1, <1>2, Induct
<1> QED BY <1>3, LenProperties

\* f is the function that FlattenSeq defines.
Flattens(f, ss, n) == f = [i \in 1..n |-> IF i = 1 THEN ss[i] ELSE f[i - 1] \o ss[i]]

\* The first n elements of ss are those of tt.
AgreeOn(ss, tt, n) == \A i \in 1..n : ss[i] = tt[i]

\* The recursive equation of FlattenSeq has a solution.
LEMMA FlattenExists ==
  ASSUME NEW ss, NEW len \in Nat
  PROVE  \E g : g = [i \in 1..len |-> IF i = 1 THEN ss[i] ELSE g[i - 1] \o ss[i]]
<1> DEFINE step(g, k) == [i \in 1..k |-> IF i = 1 THEN ss[i] ELSE g[i - 1] \o ss[i]]
           N == { n \in Nat : \E g : g = step(g, n) }
<1>1. 0 \in N
  <2>1. <<>> = step(<<>>, 0)
    OBVIOUS
  <2> QED BY <2>1
<1>2. ASSUME NEW n \in N PROVE n + 1 \in N
  <2>1. PICK g : g = step(g, n)
    OBVIOUS
  <2> DEFINE h == [i \in 1..(n + 1) |-> IF i <= n THEN g[i]
                                       ELSE IF i = 1 THEN ss[i] ELSE g[i - 1] \o ss[i]]
  <2>2. n \in Nat /\ n + 1 \in Nat
    OBVIOUS
  <2>3. ASSUME NEW i \in 1..n PROVE g[i] = IF i = 1 THEN ss[i] ELSE g[i - 1] \o ss[i]
    BY ONLY <2>1, i \in 1..n
  <2>4. ASSUME NEW i \in 1..(n + 1) PROVE h[i] = IF i = 1 THEN ss[i] ELSE h[i - 1] \o ss[i]
    <3>1. CASE i <= n
      <4>1. h[i] = g[i] /\ i \in 1..n
        BY ONLY <3>1, <2>2, i \in 1..(n + 1)
      <4>2. i # 1 => h[i - 1] = g[i - 1]
        BY ONLY <3>1, <2>2, i \in 1..(n + 1)
      <4> HIDE DEF h
      <4> QED BY ONLY <4>1, <4>2, <2>3
    <3>2. CASE i = n + 1
      <4>1. h[i] = IF i = 1 THEN ss[i] ELSE g[i - 1] \o ss[i]
        BY ONLY <3>2, <2>2
      <4>2. i # 1 => h[i - 1] = g[i - 1]
        BY ONLY <3>2, <2>2
      <4> HIDE DEF h
      <4> QED BY ONLY <4>1, <4>2
    <3> QED BY ONLY <3>1, <3>2, <2>2, i \in 1..(n + 1)
  <2>5. h = [i \in 1..(n + 1) |-> h[i]]
    BY ONLY <2>2
  <2> HIDE DEF h
  <2>6. h = step(h, n + 1)
    BY ONLY <2>4, <2>5
  <2> QED BY ONLY <2>2, <2>6
<1> HIDE DEF N
<1>3. Nat \subseteq N
  BY <1>1, <1>2, Induct
<1> QED BY <1>3 DEF N

\* Its values are sequences over S when the blocks are.
LEMMA FlattenTyped ==
  ASSUME NEW S, NEW n \in Nat, NEW ss, \A i \in 1..n : ss[i] \in Seq(S),
         NEW f, Flattens(f, ss, n)
  PROVE  \A i \in 1..n : f[i] \in Seq(S)
<1> DEFINE T == { k \in Nat : k + 1 <= n => f[k + 1] \in Seq(S) }
<1>1. ASSUME NEW i \in 1..n PROVE f[i] = IF i = 1 THEN ss[i] ELSE f[i - 1] \o ss[i]
  BY i \in 1..n DEF Flattens
<1>2. 0 \in T
  BY ONLY <1>1, n \in Nat, \A i \in 1..n : ss[i] \in Seq(S)
<1>3. ASSUME NEW k \in T PROVE k + 1 \in T
  <2> SUFFICES ASSUME (k + 1) + 1 <= n PROVE f[(k + 1) + 1] \in Seq(S)
    OBVIOUS
  <2>1. k + 2 = (k + 1) + 1 /\ k + 2 \in 1..n /\ k + 2 # 1 /\ (k + 2) - 1 = k + 1 /\ k + 1 <= n /\ k \in Nat
    BY ONLY k \in T, n \in Nat, (k + 1) + 1 <= n
  <2>2. f[k + 2] = f[k + 1] \o ss[k + 2]
    BY ONLY <1>1, <2>1
  <2>3. f[k + 1] \in Seq(S) /\ ss[k + 2] \in Seq(S)
    BY ONLY k \in T, <2>1, \A i \in 1..n : ss[i] \in Seq(S)
  <2> QED BY ONLY <2>1, <2>2, <2>3, ConcatProperties
<1> HIDE DEF T
<1>4. Nat \subseteq T
  BY ONLY <1>2, <1>3, Induct
<1>5. ASSUME NEW i \in 1..n PROVE f[i] \in Seq(S)
  <2>1. i - 1 \in Nat /\ (i - 1) + 1 = i /\ i <= n
    BY ONLY i \in 1..n, n \in Nat
  <2>2. i - 1 \in T
    BY ONLY <2>1, <1>4
  <2> QED BY ONLY <2>1, <2>2 DEF T
<1> QED BY ONLY <1>5

\* Of no block there is nothing.
LEMMA FlattenEmpty == FlattenSeq(<<>>) = <<>>
BY DEF FlattenSeq

\* The function FlattenSeq defines.
LEMMA FlattenDefined ==
  ASSUME NEW S, NEW ss \in Seq(Seq(S)), ss # <<>>
  PROVE  \E f : Flattens(f, ss, Len(ss)) /\ FlattenSeq(ss) = f[Len(ss)]
<1>1. Len(ss) # 0 /\ Len(ss) \in Nat
  BY EmptySeq
<1> DEFINE f == CHOOSE g : g = [i \in 1..Len(ss) |-> IF i = 1 THEN ss[i] ELSE g[i - 1] \o ss[i]]
<1>2. \E g : g = [i \in 1..Len(ss) |-> IF i = 1 THEN ss[i] ELSE g[i - 1] \o ss[i]]
  BY <1>1, FlattenExists
<1>3. f = [i \in 1..Len(ss) |-> IF i = 1 THEN ss[i] ELSE f[i - 1] \o ss[i]]
  BY ONLY <1>2
<1>4. FlattenSeq(ss) = f[Len(ss)]
  BY <1>1 DEF FlattenSeq
<1> HIDE DEF f
<1> QED BY ONLY <1>3, <1>4 DEF Flattens

\* The solutions for two sequences that agree, agree as far.
LEMMA FlattenAgree ==
  ASSUME NEW ss, NEW tt, NEW m \in Nat, NEW n \in Nat, m <= n,
         AgreeOn(ss, tt, m),
         NEW f, Flattens(f, ss, m), NEW g, Flattens(g, tt, n)
  PROVE  AgreeOn(f, g, m)
<1> DEFINE T == { k \in Nat : k + 1 <= m => f[k + 1] = g[k + 1] }
<1>1. ASSUME NEW i \in 1..m PROVE f[i] = IF i = 1 THEN ss[i] ELSE f[i - 1] \o ss[i]
  BY i \in 1..m DEF Flattens
<1>2. ASSUME NEW i \in 1..n PROVE g[i] = IF i = 1 THEN tt[i] ELSE g[i - 1] \o tt[i]
  BY i \in 1..n DEF Flattens
<1>3. \A i \in 1..m : ss[i] = tt[i] /\ i \in 1..n
  BY DEF AgreeOn
<1>4. 0 \in T
  BY ONLY <1>1, <1>2, <1>3, m \in Nat, n \in Nat, m <= n
<1>5. ASSUME NEW k \in T PROVE k + 1 \in T
  <2> SUFFICES ASSUME (k + 1) + 1 <= m PROVE f[(k + 1) + 1] = g[(k + 1) + 1]
    OBVIOUS
  <2>1. k + 2 = (k + 1) + 1 /\ k + 2 \in 1..m /\ k + 2 # 1 /\ (k + 2) - 1 = k + 1 /\ k + 1 <= m /\ k \in Nat
    BY ONLY k \in T, m \in Nat, (k + 1) + 1 <= m
  <2>2. f[k + 2] = f[k + 1] \o ss[k + 2]
    BY ONLY <1>1, <2>1
  <2>3. g[k + 2] = g[k + 1] \o tt[k + 2]
    BY ONLY <1>2, <1>3, <2>1
  <2>4. f[k + 1] = g[k + 1] /\ ss[k + 2] = tt[k + 2]
    BY ONLY k \in T, <2>1, <1>3
  <2> QED BY ONLY <2>1, <2>2, <2>3, <2>4
<1> HIDE DEF T
<1>6. Nat \subseteq T
  BY ONLY <1>4, <1>5, Induct
<1>7. ASSUME NEW i \in 1..m PROVE f[i] = g[i]
  <2>1. i - 1 \in Nat /\ (i - 1) + 1 = i /\ i <= m
    BY ONLY i \in 1..m, m \in Nat
  <2>2. i - 1 \in T
    BY ONLY <2>1, <1>6
  <2> QED BY ONLY <2>1, <2>2 DEF T
<1> QED BY ONLY <1>7 DEF AgreeOn

\* A block added is a block appended.
LEMMA FlattenAppend ==
  ASSUME NEW S, NEW ss \in Seq(Seq(S)), NEW s \in Seq(S)
  PROVE  /\ FlattenSeq(ss) \in Seq(S)
         /\ FlattenSeq(Append(ss, s)) = FlattenSeq(ss) \o s
<1> DEFINE n == Len(ss)
           tt == Append(ss, s)
<1>0. n \in Nat /\ \A i \in 1..n : ss[i] \in Seq(S)
  BY LenProperties, ElementOfSeq
<1>1. /\ tt \in Seq(Seq(S)) /\ tt # <<>> /\ Len(tt) = n + 1
      /\ tt[n + 1] = s /\ \A i \in 1..n : tt[i] = ss[i]
  BY AppendProperties
<1> HIDE DEF tt, n
<1>2. PICK g : Flattens(g, tt, n + 1) /\ FlattenSeq(tt) = g[n + 1]
  <2>1. \E g : Flattens(g, tt, Len(tt)) /\ FlattenSeq(tt) = g[Len(tt)]
    BY ONLY <1>1, FlattenDefined
  <2> QED BY ONLY <2>1, <1>1
<1>2a. n + 1 \in 1..(n + 1) /\ (n + 1) - 1 = n /\ (n + 1 = 1 <=> n = 0)
  BY ONLY <1>0
<1>2b. g[n + 1] = IF n = 0 THEN s ELSE g[n] \o s
  <2>1. g[n + 1] = IF n + 1 = 1 THEN tt[n + 1] ELSE g[(n + 1) - 1] \o tt[n + 1]
    BY ONLY <1>2, <1>2a DEF Flattens
  <2> QED BY ONLY <2>1, <1>2a, <1>1
<1>3. CASE ss = <<>>
  <2>1. FlattenSeq(ss) = <<>> /\ n = 0
    BY <1>3, FlattenEmpty, EmptySeq DEF n
  <2>2. FlattenSeq(tt) = s
    BY ONLY <1>2, <1>2b, <2>1
  <2>3. <<>> \o s = s /\ <<>> \in Seq(S)
    BY ConcatEmptySeq, EmptySeq
  <2> QED BY ONLY <2>1, <2>2, <2>3 DEF tt
<1>4. CASE ss # <<>>
  <2>1. n >= 1
    BY <1>0, <1>4, EmptySeq DEF n
  <2>2. PICK f : Flattens(f, ss, n) /\ FlattenSeq(ss) = f[n]
    BY <1>4, FlattenDefined DEF n
  <2>3. AgreeOn(ss, tt, n)
    BY <1>1 DEF AgreeOn
  <2>4. AgreeOn(f, g, n)
    <3>1. n \in Nat /\ n + 1 \in Nat /\ n <= n + 1
      BY ONLY <1>0
    <3> QED BY ONLY <3>1, <1>2, <2>2, <2>3, FlattenAgree
  <2>5. f[n] = g[n]
    BY ONLY <1>0, <2>1, <2>4 DEF AgreeOn
  <2>6. g[n + 1] = g[n] \o s
    BY ONLY <1>0, <2>1, <1>2b
  <2>7. \A i \in 1..n : f[i] \in Seq(S)
    BY ONLY <2>2, <1>0, FlattenTyped
  <2>8. f[n] \in Seq(S)
    BY ONLY <1>0, <2>1, <2>7
  <2> QED BY ONLY <1>2, <2>2, <2>5, <2>6, <2>8 DEF tt
<1> QED BY <1>3, <1>4

\* b is the end of c.
Ends(c, b) ==
  /\ Len(b) <= Len(c)
  /\ \A i \in 1..Len(b) : c[Len(c) - Len(b) + i] = b[i]

\* No block ends another.
SuffixFree(B) == \A b, c \in B : Ends(c, b) => b = c

\* Of two sequences with one end, the shorter second part ends the longer.
LEMMA ConcatEnds ==
  ASSUME NEW S, NEW x \in Seq(S), NEW y \in Seq(S), NEW b \in Seq(S), NEW c \in Seq(S),
         x \o b = y \o c, Len(b) <= Len(c)
  PROVE  Ends(c, b)
<1>1. /\ Len(x) \in Nat /\ Len(y) \in Nat /\ Len(b) \in Nat /\ Len(c) \in Nat
      /\ Len(x) + Len(b) = Len(y) + Len(c)
  BY ConcatProperties, LenProperties
<1>2. ASSUME NEW i \in 1..Len(b) PROVE c[Len(c) - Len(b) + i] = b[i]
  <2> DEFINE j == Len(x) + i
  <2>1. /\ j \in 1..(Len(x) + Len(b)) /\ ~(j <= Len(x)) /\ j - Len(x) = i
        /\ j \in 1..(Len(y) + Len(c)) /\ ~(j <= Len(y)) /\ j - Len(y) = Len(c) - Len(b) + i
    BY ONLY <1>1, i \in 1..Len(b), Len(b) <= Len(c), SMTT(30)
  <2> HIDE DEF j
  <2>2. (x \o b)[j] = b[i]
    BY <2>1, ConcatProperties
  <2>3. (y \o c)[j] = c[j - Len(y)]
    BY ONLY <2>1, ConcatProperties, y \in Seq(S), c \in Seq(S)
  <2> QED BY <2>1, <2>2, <2>3
<1> QED BY <1>2 DEF Ends

\* Of blocks none of which ends another, the flattened sequence determines them.
LEMMA FlattenInjective ==
  ASSUME NEW S, NEW B, B \subseteq Seq(S), <<>> \notin B, SuffixFree(B)
  PROVE  \A ss, tt \in Seq(B) : FlattenSeq(ss) = FlattenSeq(tt) => ss = tt
<1> DEFINE T == { ss \in Seq(B) : \A tt \in Seq(B) : FlattenSeq(ss) = FlattenSeq(tt) => ss = tt }
<1>1. ASSUME NEW ss \in Seq(B), NEW b \in B
      PROVE  /\ FlattenSeq(ss) \in Seq(S)
             /\ FlattenSeq(Append(ss, b)) = FlattenSeq(ss) \o b
             /\ FlattenSeq(Append(ss, b)) # <<>>
  <2>1. ss \in Seq(Seq(S)) /\ b \in Seq(S) /\ b # <<>>
    BY SeqMonotonic
  <2>2. FlattenSeq(ss) \in Seq(S) /\ FlattenSeq(Append(ss, b)) = FlattenSeq(ss) \o b
    BY ONLY <2>1, FlattenAppend
  <2> QED BY ONLY <2>1, <2>2, ConcatEqualIffEmpty
<1>2. <<>> \in T
  <2> SUFFICES ASSUME NEW tt \in Seq(B), tt # <<>> PROVE FlattenSeq(tt) # FlattenSeq(<<>>)
    BY EmptySeq
  <2>1. PICK uu \in Seq(B), c \in B : tt = Append(uu, c)
    BY SequenceEmptyOrAppend
  <2> QED BY <2>1, <1>1, FlattenEmpty
<1>3. ASSUME NEW ss \in Seq(B), NEW b \in B, ss \in T
      PROVE  Append(ss, b) \in T
  <2> SUFFICES ASSUME NEW tt \in Seq(B), FlattenSeq(Append(ss, b)) = FlattenSeq(tt)
               PROVE  Append(ss, b) = tt
    BY AppendProperties
  <2>1. tt # <<>>
    BY <1>1, FlattenEmpty
  <2>2. PICK uu \in Seq(B), c \in B : tt = Append(uu, c)
    BY <2>1, SequenceEmptyOrAppend
  <2>3. FlattenSeq(ss) \o b = FlattenSeq(uu) \o c
    BY <1>1, <2>2
  <2>4. /\ b \in Seq(S) /\ c \in Seq(S)
        /\ FlattenSeq(ss) \in Seq(S) /\ FlattenSeq(uu) \in Seq(S)
    BY <1>1
  <2>5. Ends(c, b) \/ Ends(b, c)
    <3>1. Len(b) \in Nat /\ Len(c) \in Nat
      BY <2>4, LenProperties
    <3>2. CASE Len(b) <= Len(c)
      BY ONLY <3>2, <2>3, <2>4, ConcatEnds
    <3>3. CASE Len(c) <= Len(b)
      BY ONLY <3>3, <2>3, <2>4, ConcatEnds
    <3> QED BY ONLY <3>1, <3>2, <3>3
  <2>6. b = c
    BY <2>5 DEF SuffixFree
  <2>7. FlattenSeq(ss) = FlattenSeq(uu)
    BY ONLY <2>3, <2>4, <2>6, ConcatSimplifications
  <2>8. ss = uu
    BY ONLY ss \in T, uu \in Seq(B), <2>7
  <2> QED BY <2>2, <2>6, <2>8
<1> HIDE DEF T
<1>4. Seq(B) \subseteq T
  BY ONLY <1>2, <1>3, SeqInduct
<1> QED BY ONLY <1>4 DEF T

\* Two sequences of blocks flatten one after the other.
LEMMA FlattenConcat ==
  ASSUME NEW S, NEW ss \in Seq(Seq(S)), NEW tt \in Seq(Seq(S))
  PROVE  FlattenSeq(ss \o tt) = FlattenSeq(ss) \o FlattenSeq(tt)
<1> DEFINE B == Seq(S)
           T == { uu \in Seq(B) : FlattenSeq(ss \o uu) = FlattenSeq(ss) \o FlattenSeq(uu) }
<1>0. FlattenSeq(ss) \in Seq(S)
  BY FlattenAppend, EmptySeq
<1>1. <<>> \in T
  <2>1. ss \o <<>> = ss /\ FlattenSeq(ss) \o <<>> = FlattenSeq(ss)
    BY <1>0, ConcatEmptySeq
  <2> QED BY <2>1, FlattenEmpty, EmptySeq
<1>2. ASSUME NEW uu \in Seq(B), NEW s \in B, uu \in T
      PROVE  Append(uu, s) \in T
  <2>1. ss \o uu \in Seq(B) /\ FlattenSeq(uu) \in Seq(S)
    BY ConcatProperties, FlattenAppend, EmptySeq
  <2>2. ss \o Append(uu, s) = Append(ss \o uu, s)
    <3>1. Append(uu, s) = uu \o <<s>> /\ Append(ss \o uu, s) = (ss \o uu) \o <<s>> /\ <<s>> \in Seq(B)
      BY <2>1, AppendIsConcat
    <3> HIDE DEF B, T
    <3>2. (ss \o uu) \o <<s>> = ss \o (uu \o <<s>>)
      BY <3>1, ConcatAssociative, SMTT(30) DEF B
    <3> QED BY ONLY <3>1, <3>2
  <2>3. FlattenSeq(Append(ss \o uu, s)) = FlattenSeq(ss \o uu) \o s
    BY ONLY <2>1, s \in B, FlattenAppend
  <2>4. FlattenSeq(Append(uu, s)) = FlattenSeq(uu) \o s
    BY ONLY uu \in Seq(B), s \in B, FlattenAppend
  <2>5. FlattenSeq(ss \o uu) = FlattenSeq(ss) \o FlattenSeq(uu)
    BY ONLY uu \in T
  <2>6. (FlattenSeq(ss) \o FlattenSeq(uu)) \o s = FlattenSeq(ss) \o (FlattenSeq(uu) \o s)
    BY ONLY <1>0, <2>1, s \in B, ConcatAssociative, SMTT(30)
  <2>7. Append(uu, s) \in Seq(B)
    BY AppendProperties
  <2> QED BY ONLY <2>2, <2>3, <2>4, <2>5, <2>6, <2>7
<1> HIDE DEF T
<1>3. Seq(B) \subseteq T
  BY ONLY <1>1, <1>2, SeqInduct
<1> QED BY <1>3 DEF T

----------------------------------------------------------------------------
(* The custom encoding.                                                    *)

\* The symbols of the custom encoding.
Symbols == Letters \cup Figures \cup Dashes

\* The tables are inverses of each other.
LEMMA SymbolTable ==
  /\ \A n \in 0..63 : symbol_table[n] \in Symbols /\ symbol_table[n] \in Int
  /\ \A m, n \in 0..63 : symbol_table[m] = symbol_table[n] => m = n
  /\ DOMAIN reverse_table = Symbols
  /\ \A n \in 0..63 : reverse_table[symbol_table[n]] = n
<1>1. \A n \in 0..63 : symbol_table[n] \in Symbols /\ symbol_table[n] \in Int
  BY DEF symbol_table, Symbols, Letters, Figures, Dashes
<1>2. \A m, n \in 0..63 : symbol_table[m] = symbol_table[n] => m = n
  BY DEF symbol_table
<1>3. ASSUME NEW n \in 0..63 PROVE reverse_table[symbol_table[n]] = n
  <2>1. reverse_table[symbol_table[n]] = CHOOSE m \in 0..63 : symbol_table[m] = symbol_table[n]
    BY <1>1 DEF reverse_table, Symbols
  <2> QED BY ONLY <2>1, <1>2, n \in 0..63
<1>4. DOMAIN reverse_table = Symbols
  BY DEF reverse_table, Symbols
<1> QED BY ONLY <1>1, <1>2, <1>3, <1>4

\* f is Digits on 0..n.
DigitsUpTo(f, n) ==
  f = [m \in 0..n |-> IF m = 0 THEN <<>> ELSE Append(f[m \div 64], symbol_table[m % 64])]

\* The recursive equation of Digits has a solution on every 0..n;
LEMMA DigitsUpToExists == \A n \in Nat : \E f : DigitsUpTo(f, n)
<1> DEFINE N == { n \in Nat : \E f : DigitsUpTo(f, n) }
<1>1. 0 \in N
  <2> DEFINE f == [m \in 0..0 |-> <<>>]
  <2>1. DigitsUpTo(f, 0)
    BY DEF DigitsUpTo
  <2> QED BY ONLY <2>1
<1>2. ASSUME NEW n \in N PROVE n + 1 \in N
  <2>1. PICK g : DigitsUpTo(g, n)
    OBVIOUS
  <2>2. n \in Nat /\ n + 1 \in Nat
    OBVIOUS
  <2>3. ASSUME NEW m \in 0..n
        PROVE  g[m] = IF m = 0 THEN <<>> ELSE Append(g[m \div 64], symbol_table[m % 64])
    BY ONLY <2>1, m \in 0..n DEF DigitsUpTo
  <2> DEFINE h == [m \in 0..(n + 1) |-> IF m <= n THEN g[m]
                                       ELSE Append(g[m \div 64], symbol_table[m % 64])]
  <2>4. ASSUME NEW m \in 0..(n + 1)
        PROVE  h[m] = IF m = 0 THEN <<>> ELSE Append(h[m \div 64], symbol_table[m % 64])
    <3>1. m # 0 => m \div 64 \in 0..n
      BY ONLY <2>2, m \in 0..(n + 1)
    <3>2. m # 0 => h[m \div 64] = g[m \div 64]
      BY ONLY <3>1, <2>2
    <3>3. CASE m <= n
      <4>1. h[m] = g[m] /\ m \in 0..n
        BY ONLY <3>3, <2>2, m \in 0..(n + 1)
      <4> HIDE DEF h
      <4> QED BY ONLY <4>1, <3>2, <2>3
    <3>4. CASE m = n + 1
      <4>1. h[m] = Append(g[m \div 64], symbol_table[m % 64]) /\ m # 0
        BY ONLY <3>4, <2>2
      <4> HIDE DEF h
      <4> QED BY ONLY <4>1, <3>2
    <3> QED BY ONLY <3>3, <3>4, <2>2, m \in 0..(n + 1)
  <2>5. h = [m \in 0..(n + 1) |-> h[m]]
    BY ONLY <2>2
  <2> HIDE DEF h
  <2>6. DigitsUpTo(h, n + 1)
    BY ONLY <2>4, <2>5 DEF DigitsUpTo
  <2> QED BY ONLY <2>2, <2>6
<1> HIDE DEF N
<1>3. Nat \subseteq N
  BY ONLY <1>1, <1>2, Induct
<1> QED BY ONLY <1>3 DEF N

\* two of them agree as far as both go;
LEMMA DigitsUpToAgree ==
  ASSUME NEW m \in Nat, NEW n \in Nat, m <= n,
         NEW f, DigitsUpTo(f, m), NEW g, DigitsUpTo(g, n)
  PROVE  \A k \in 0..m : f[k] = g[k]
<1> DEFINE D == { k \in 0..m : f[k] # g[k] }
<1>1. ASSUME NEW k \in 0..m
      PROVE  /\ f[k] = IF k = 0 THEN <<>> ELSE Append(f[k \div 64], symbol_table[k % 64])
             /\ g[k] = IF k = 0 THEN <<>> ELSE Append(g[k \div 64], symbol_table[k % 64])
  <2>1. f[k] = IF k = 0 THEN <<>> ELSE Append(f[k \div 64], symbol_table[k % 64])
    BY ONLY DigitsUpTo(f, m), k \in 0..m DEF DigitsUpTo
  <2>2. k \in 0..n
    OBVIOUS
  <2>3. g[k] = IF k = 0 THEN <<>> ELSE Append(g[k \div 64], symbol_table[k % 64])
    BY ONLY DigitsUpTo(g, n), <2>2 DEF DigitsUpTo
  <2> QED BY ONLY <2>1, <2>3
<1> SUFFICES ASSUME D # {} PROVE FALSE
  OBVIOUS
<1>2. PICK k \in D : \A j \in D : k <= j
  <2>1. D \subseteq Nat
    BY ONLY m \in Nat
  <2> HIDE DEF D
  <2> QED BY ONLY D # {}, <2>1, Least
<1>3. k \in 0..m /\ f[k] # g[k]
  BY ONLY k \in D
<1>4. k # 0
  BY ONLY <1>1, <1>3
<1>5. k \div 64 \in 0..m /\ ~(k <= k \div 64)
  BY ONLY <1>3, <1>4, m \in Nat
<1>6. k \div 64 \notin D
  BY ONLY <1>2, <1>5
<1>7. f[k \div 64] = g[k \div 64]
  BY ONLY <1>5, <1>6
<1> QED BY ONLY <1>1, <1>3, <1>4, <1>7

\* so it has one on Nat,
LEMMA DigitsExists ==
  \E f : f = [n \in Nat |-> IF n = 0 THEN <<>> ELSE Append(f[n \div 64], symbol_table[n % 64])]
<1> DEFINE G == [n \in Nat |-> CHOOSE f : DigitsUpTo(f, n)]
           F == [n \in Nat |-> G[n][n]]
<1>1. \A n \in Nat : DigitsUpTo(G[n], n)
  BY ONLY DigitsUpToExists
<1>2. \A n \in Nat : F[n] = G[n][n]
  OBVIOUS
<1>3. F = [n \in Nat |-> F[n]]
  OBVIOUS
<1> HIDE DEF F, G
<1>4. ASSUME NEW n \in Nat
      PROVE  F[n] = IF n = 0 THEN <<>> ELSE Append(F[n \div 64], symbol_table[n % 64])
  <2>1. F[n] = IF n = 0 THEN <<>> ELSE Append(G[n][n \div 64], symbol_table[n % 64])
    <3>1. n \in 0..n /\ DigitsUpTo(G[n], n) /\ F[n] = G[n][n]
      BY <1>1, <1>2
    <3> QED BY ONLY <3>1 DEF DigitsUpTo
  <2> DEFINE d == n \div 64
  <2>2. d \in Nat /\ d <= n /\ d \in 0..d
    OBVIOUS
  <2>3. \A k \in 0..d : G[d][k] = G[n][k]
    BY ONLY n \in Nat, <1>1, <2>2, DigitsUpToAgree
  <2>4. F[d] = G[n][d]
    BY ONLY <2>2, <2>3, <1>2
  <2> QED BY ONLY <2>1, <2>4
<1> QED BY ONLY <1>3, <1>4, ZenonT(40)

\* and Digits satisfies its equation.
LEMMA DigitsDefined ==
  \A n \in Nat : Digits[n] = IF n = 0 THEN <<>> ELSE Append(Digits[n \div 64], symbol_table[n % 64])
<1>1. Digits = [n \in Nat |-> IF n = 0 THEN <<>> ELSE Append(Digits[n \div 64], symbol_table[n % 64])]
  BY ONLY DigitsExists DEF Digits
<1> QED BY ONLY <1>1

\* The digits are symbols.
LEMMA DigitsTyped == \A n \in Nat : Digits[n] \in Seq(Symbols)
<1> DEFINE D == { n \in Nat : Digits[n] \notin Seq(Symbols) }
<1> SUFFICES ASSUME D # {} PROVE FALSE
  OBVIOUS
<1>1. PICK n \in D : \A m \in D : n <= m
  <2>1. D \subseteq Nat
    OBVIOUS
  <2> HIDE DEF D
  <2> QED BY ONLY D # {}, <2>1, Least
<1>2. n \in Nat /\ Digits[n] \notin Seq(Symbols)
  BY ONLY n \in D
<1>3. n # 0
  BY ONLY <1>2, DigitsDefined, EmptySeq
<1>4. n \div 64 \in Nat /\ ~(n <= n \div 64) /\ n % 64 \in 0..63
  BY ONLY <1>2, <1>3
<1>5. n \div 64 \notin D
  BY ONLY <1>1, <1>4
<1>6. Digits[n \div 64] \in Seq(Symbols)
  BY ONLY <1>4, <1>5
<1>7. Digits[n] = Append(Digits[n \div 64], symbol_table[n % 64])
  BY ONLY <1>2, <1>3, DigitsDefined
<1>8. symbol_table[n % 64] \in Symbols
  BY ONLY <1>4, SymbolTable
<1> QED BY ONLY <1>2, <1>6, <1>7, <1>8, AppendProperties

\* No two code points have the same digits.
LEMMA DigitsInjective == \A m, n \in Nat : Digits[m] = Digits[n] => m = n
<1> DEFINE D == { n \in Nat : \E m \in Nat : Digits[m] = Digits[n] /\ m # n }
<1> SUFFICES ASSUME D # {} PROVE FALSE
  OBVIOUS
<1>1. PICK n \in D : \A k \in D : n <= k
  <2>1. D \subseteq Nat
    OBVIOUS
  <2> HIDE DEF D
  <2> QED BY ONLY D # {}, <2>1, Least
<1>2. PICK m \in Nat : Digits[m] = Digits[n] /\ m # n
  BY ONLY n \in D
<1>3. n \in Nat
  BY ONLY n \in D
<1> DEFINE a == m \div 64
           b == n \div 64
<1>4. /\ a \in Nat /\ b \in Nat /\ m % 64 \in 0..63 /\ n % 64 \in 0..63
      /\ m = 64 * a + (m % 64) /\ n = 64 * b + (n % 64)
      /\ n # 0 => ~(n <= b)
  BY ONLY m \in Nat, <1>3, SMTT(30)
<1> HIDE DEF a, b
<1>5. /\ Digits[a] \in Seq(Symbols) /\ Digits[b] \in Seq(Symbols)
      /\ symbol_table[m % 64] \in Symbols /\ symbol_table[n % 64] \in Symbols
  BY ONLY <1>4, DigitsTyped, SymbolTable
<1>6. ~(m = 0 \/ n = 0)
  <2>1. \A k \in Nat : k # 0 => Digits[k] # <<>>
    <3> SUFFICES ASSUME NEW k \in Nat, k # 0 PROVE Digits[k] # <<>>
      OBVIOUS
    <3>1. k \div 64 \in Nat /\ k % 64 \in 0..63
      OBVIOUS
    <3>2. Digits[k \div 64] \in Seq(Symbols) /\ symbol_table[k % 64] \in Symbols
      BY ONLY <3>1, DigitsTyped, SymbolTable
    <3>3. Digits[k] = Append(Digits[k \div 64], symbol_table[k % 64])
      BY ONLY k \in Nat, k # 0, DigitsDefined
    <3> QED BY ONLY <3>2, <3>3, AppendProperties
  <2>2. Digits[0] = <<>>
    BY ONLY DigitsDefined
  <2> QED BY ONLY <1>2, <1>3, m \in Nat, <2>1, <2>2
<1>7. Append(Digits[a], symbol_table[m % 64]) = Append(Digits[b], symbol_table[n % 64])
  BY ONLY <1>2, <1>3, <1>6, m \in Nat, DigitsDefined, ZenonT(40) DEF a, b
<1>8. Digits[a] = Digits[b] /\ symbol_table[m % 64] = symbol_table[n % 64]
  <2> DEFINE x == symbol_table[m % 64]
             y == symbol_table[n % 64]
             s == Digits[a]
             t == Digits[b]
  <2>1. s \in Seq(Symbols) /\ t \in Seq(Symbols) /\ x \in Symbols /\ y \in Symbols
    BY ONLY <1>5
  <2>2. Append(s, x) = Append(t, y)
    BY ONLY <1>7
  <2> HIDE DEF x, y, s, t
  <2>3. s = t /\ x = y
    BY ONLY <2>1, <2>2, AppendInjective, SMTT(30)
  <2> QED BY ONLY <2>3 DEF x, y, s, t
<1>9. m % 64 = n % 64
  BY ONLY <1>4, <1>8, SymbolTable
<1>10. a # b
  BY ONLY <1>2, <1>4, <1>9
<1>11. b \in D
  BY ONLY <1>4, <1>8, <1>10
<1> QED BY ONLY <1>1, <1>4, <1>6, <1>11

\* The symbols of a custom tag.
TagSymbols == Symbols \cup {Underscore}

\* What encode_char makes of digits.
Bracketed(d) == <<Underscore>> \o d \o <<Underscore>>

\* What a character of a key becomes in its custom tag.
CustomBlocks == { <<c>> : c \in Symbols } \cup { Bracketed(d) : d \in Seq(Symbols) }

\* An underscore is no digit.
LEMMA UnderscoreIsNoSymbol == Underscore \notin Symbols /\ TagSymbols \subseteq Nat
BY DEF TagSymbols, Underscore, Symbols, Letters, Figures, Dashes

\* Digits in brackets: underscores at both ends and nowhere else.
LEMMA BracketedProperties ==
  ASSUME NEW d \in Seq(Symbols)
  PROVE  /\ Len(d) \in Nat /\ Bracketed(d) \in Seq(TagSymbols) /\ Len(Bracketed(d)) = Len(d) + 2
         /\ Bracketed(d)[1] = Underscore /\ Bracketed(d)[Len(d) + 2] = Underscore
         /\ \A i \in 2..(Len(d) + 1) : Bracketed(d)[i] = d[i - 1] /\ Bracketed(d)[i] \in Symbols
<1> DEFINE u == <<Underscore>>
           ud == u \o d
<1>1. /\ u \in Seq(TagSymbols) /\ Len(u) = 1 /\ u[1] = Underscore
      /\ d \in Seq(TagSymbols) /\ Len(d) \in Nat
      /\ \A i \in 1..Len(d) : d[i] \in Symbols
  BY SeqMonotonic, LenProperties, ElementOfSeq DEF TagSymbols
<1> HIDE DEF u
<1>2. /\ ud \in Seq(TagSymbols) /\ Len(ud) = 1 + Len(d)
      /\ \A i \in 1..(1 + Len(d)) : ud[i] = IF i <= 1 THEN u[i] ELSE d[i - 1]
  <2>1. /\ u \o d \in Seq(TagSymbols) /\ Len(u \o d) = Len(u) + Len(d)
        /\ \A i \in 1..(Len(u) + Len(d)) : (u \o d)[i] = IF i <= Len(u) THEN u[i] ELSE d[i - Len(u)]
    <3>1. u \in Seq(TagSymbols) /\ d \in Seq(TagSymbols)
      BY ONLY <1>1
    <3> QED BY ONLY <3>1, ConcatProperties
  <2> QED BY ONLY <1>1, <2>1
<1> HIDE DEF ud
<1>3. /\ ud \o u \in Seq(TagSymbols) /\ Len(ud \o u) = Len(ud) + 1
      /\ \A i \in 1..(Len(ud) + 1) : (ud \o u)[i] = IF i <= Len(ud) THEN ud[i] ELSE u[i - Len(ud)]
  <2>1. ud \in Seq(TagSymbols) /\ u \in Seq(TagSymbols)
    BY ONLY <1>1, <1>2
  <2>2. /\ Len(ud \o u) = Len(ud) + Len(u)
        /\ \A i \in 1..(Len(ud) + Len(u)) : (ud \o u)[i] = IF i <= Len(ud) THEN ud[i] ELSE u[i - Len(ud)]
    BY ONLY <2>1, ConcatProperties
  <2>3. ud \o u \in Seq(TagSymbols)
    BY ONLY <2>1, ConcatProperties
  <2> QED BY ONLY <1>1, <2>2, <2>3
<1>4. Bracketed(d) = ud \o u
  BY DEF Bracketed, u, ud
<1> DEFINE b == ud \o u
<1> HIDE DEF b
<1>5. /\ Len(b) = Len(d) + 2
      /\ \A i \in 1..(Len(d) + 2) : b[i] = IF i <= Len(d) + 1 THEN ud[i] ELSE u[i - (Len(d) + 1)]
  BY ONLY <1>1, <1>2, <1>3 DEF b
<1>6. b[1] = Underscore /\ b[Len(d) + 2] = Underscore
  <2>1. b[1] = ud[1] /\ ud[1] = u[1]
    BY ONLY <1>1, <1>2, <1>5
  <2>2. b[Len(d) + 2] = u[1]
    BY ONLY <1>1, <1>5
  <2> QED BY ONLY <1>1, <2>1, <2>2
<1>7. \A i \in 2..(Len(d) + 1) : b[i] = d[i - 1] /\ b[i] \in Symbols
  <2> SUFFICES ASSUME NEW i \in 2..(Len(d) + 1) PROVE b[i] = d[i - 1] /\ b[i] \in Symbols
    OBVIOUS
  <2>1. i \in 1..(Len(d) + 2) /\ i \in 1..(1 + Len(d)) /\ i <= Len(d) + 1 /\ ~(i <= 1) /\ i - 1 \in 1..Len(d)
    BY ONLY <1>1, i \in 2..(Len(d) + 1)
  <2>2. b[i] = ud[i] /\ ud[i] = d[i - 1]
    BY ONLY <2>1, <1>2, <1>5
  <2> QED BY ONLY <2>1, <2>2, <1>1
<1> QED BY ONLY <1>1, <1>3, <1>4, <1>5, <1>6, <1>7 DEF b

\* No such block ends another: an underscore at the end says where it began.
LEMMA CustomBlocksProperties ==
  /\ CustomBlocks \subseteq Seq(TagSymbols) /\ <<>> \notin CustomBlocks /\ SuffixFree(CustomBlocks)
  /\ CustomBlocks \subseteq Seq(Nat)
<1>1. CustomBlocks \subseteq Seq(TagSymbols)
  <2>1. ASSUME NEW c \in Symbols PROVE <<c>> \in Seq(TagSymbols)
    BY DEF TagSymbols
  <2>2. ASSUME NEW d \in Seq(Symbols) PROVE Bracketed(d) \in Seq(TagSymbols)
    BY BracketedProperties
  <2> QED BY ONLY <2>1, <2>2 DEF CustomBlocks
<1>2. <<>> \notin CustomBlocks
  BY BracketedProperties, EmptySeq DEF CustomBlocks
<1>3. ASSUME NEW b \in CustomBlocks, NEW c \in CustomBlocks, Ends(c, b)
      PROVE  b = c
  <2>0. /\ Len(b) \in Nat /\ Len(c) \in Nat /\ Len(b) <= Len(c)
        /\ \A i \in 1..Len(b) : c[Len(c) - Len(b) + i] = b[i]
    BY <1>1, <1>3, LenProperties DEF Ends
  <2>1. CASE \E k \in Symbols : c = <<k>>
    <3>1. PICK k \in Symbols : c = <<k>>
      BY <2>1
    <3>2. CASE \E h \in Symbols : b = <<h>>
      <4>1. PICK h \in Symbols : b = <<h>>
        BY <3>2
      <4>2. c[1] = b[1]
        BY <2>0, <3>1, <4>1
      <4> QED BY ONLY <3>1, <4>1, <4>2
    <3>3. CASE \E d \in Seq(Symbols) : b = Bracketed(d)
      BY <3>1, <3>3, <2>0, BracketedProperties
    <3> QED BY <3>2, <3>3 DEF CustomBlocks
  <2>2. CASE \E d \in Seq(Symbols) : c = Bracketed(d)
    <3>1. PICK d \in Seq(Symbols) : c = Bracketed(d)
      BY <2>2
    <3>2. /\ Len(d) \in Nat /\ Len(c) = Len(d) + 2 /\ c[1] = Underscore /\ c[Len(d) + 2] = Underscore
          /\ \A i \in 2..(Len(d) + 1) : c[i] \in Symbols
      BY <3>1, BracketedProperties
    <3>3. CASE \E h \in Symbols : b = <<h>>
      <4>1. PICK h \in Symbols : b = <<h>>
        BY <3>3
      <4>2. Len(b) = 1 /\ b[1] = h
        BY <4>1
      <4>3. c[Len(c)] = h
        BY ONLY <2>0, <3>2, <4>2
      <4> QED BY ONLY <4>3, <3>2, h \in Symbols, UnderscoreIsNoSymbol
    <3>4. CASE \E e \in Seq(Symbols) : b = Bracketed(e)
      <4>1. PICK e \in Seq(Symbols) : b = Bracketed(e)
        BY <3>4
      <4>2. Len(e) \in Nat /\ Len(b) = Len(e) + 2 /\ b[1] = Underscore
        BY <4>1, BracketedProperties
      <4>3. c[Len(c) - Len(b) + 1] = Underscore
        BY ONLY <2>0, <4>2
      <4>4. Len(c) = Len(b)
        <5> DEFINE i == Len(c) - Len(b) + 1
        <5>1. i \in 1..(Len(d) + 2) /\ i # Len(d) + 2
          BY ONLY <2>0, <3>2, <4>2
        <5>2. i \notin 2..(Len(d) + 1)
          BY ONLY <3>2, <4>3, UnderscoreIsNoSymbol
        <5>3. i = 1
          <6> HIDE DEF i
          <6> QED BY ONLY <5>1, <5>2, <3>2
        <5> QED BY ONLY <5>3, <2>0
      <4>5. \A i \in 1..Len(b) : b[i] = c[i]
        BY ONLY <2>0, <4>4
      <4>6. b \in Seq(TagSymbols) /\ c \in Seq(TagSymbols)
        BY <1>1
      <4> QED BY ONLY <4>4, <4>5, <4>6, SeqEqual
    <3> QED BY <3>3, <3>4 DEF CustomBlocks
  <2> QED BY <2>1, <2>2 DEF CustomBlocks
<1>4. SuffixFree(CustomBlocks)
  BY <1>3 DEF SuffixFree
<1>5. CustomBlocks \subseteq Seq(Nat)
  BY <1>1, UnderscoreIsNoSymbol, SeqMonotonic
<1> QED BY ONLY <1>1, <1>2, <1>4, <1>5

\* The block of the i-th character of a key.
CustomBlock(key, i) == IF Copied(key, i) THEN <<key[i]>> ELSE encode_char(key[i])

\* The blocks of a key.
CustomBlocksOf(key) == [i \in DOMAIN key |-> CustomBlock(key, i)]

\* The blocks of a key are CustomBlocks, and its tag is their concatenation.
LEMMA CustomBlocksOfProperties ==
  ASSUME NEW key \in Seq(Nat)
  PROVE  /\ CustomBlocksOf(key) \in Seq(CustomBlocks) /\ Len(CustomBlocksOf(key)) = Len(key)
         /\ \A i \in 1..Len(key) : /\ CustomBlocksOf(key)[i] = CustomBlock(key, i)
                                   /\ Copied(key, i) => key[i] \in Symbols
                                   /\ encode_char(key[i]) = Bracketed(Digits[key[i]])
                                   /\ Digits[key[i]] \in Seq(Symbols)
         /\ CustomEncode(key) = FlattenSeq(CustomBlocksOf(key))
<1>1. DOMAIN key = 1..Len(key) /\ Len(key) \in Nat /\ \A i \in 1..Len(key) : key[i] \in Nat
  BY LenProperties, ElementOfSeq
<1>2. ASSUME NEW i \in 1..Len(key)
      PROVE  /\ CustomBlock(key, i) \in CustomBlocks
             /\ Copied(key, i) => key[i] \in Symbols
             /\ encode_char(key[i]) = Bracketed(Digits[key[i]])
             /\ Digits[key[i]] \in Seq(Symbols)
  <2>1. Digits[key[i]] \in Seq(Symbols)
    BY ONLY <1>1, i \in 1..Len(key), DigitsTyped
  <2>2. encode_char(key[i]) = Bracketed(Digits[key[i]])
    BY DEF encode_char, Bracketed
  <2>3. Copied(key, i) => key[i] \in Symbols
    BY DEF Copied, Symbols
  <2>4. CustomBlock(key, i) \in CustomBlocks
    <3>1. CASE Copied(key, i)
      BY ONLY <3>1, <2>3 DEF CustomBlock, CustomBlocks
    <3>2. CASE ~Copied(key, i)
      BY ONLY <3>2, <2>1, <2>2 DEF CustomBlock, CustomBlocks
    <3> QED BY ONLY <3>1, <3>2
  <2> QED BY ONLY <2>1, <2>2, <2>3, <2>4
<1>3. CustomBlocksOf(key) = [i \in 1..Len(key) |-> CustomBlock(key, i)]
  BY ONLY <1>1 DEF CustomBlocksOf
<1>4. CustomBlocksOf(key) \in Seq(CustomBlocks) /\ Len(CustomBlocksOf(key)) = Len(key)
  BY ONLY <1>1, <1>2, <1>3
<1>5. CustomEncode(key) = FlattenSeq(CustomBlocksOf(key))
  BY DEF CustomEncode, CustomBlocksOf, CustomBlock
<1> QED BY ONLY <1>2, <1>3, <1>4, <1>5

\* The custom encoding never gives two keys one tag.
THEOREM CustomEncodeInjective ==
  ASSUME NEW k \in Seq(Nat), NEW l \in Seq(Nat), CustomEncode(k) = CustomEncode(l)
  PROVE  k = l
<1>1. CustomBlocksOf(k) = CustomBlocksOf(l)
  <2>1. FlattenSeq(CustomBlocksOf(k)) = FlattenSeq(CustomBlocksOf(l))
    BY CustomBlocksOfProperties
  <2>2. CustomBlocksOf(k) \in Seq(CustomBlocks) /\ CustomBlocksOf(l) \in Seq(CustomBlocks)
    BY CustomBlocksOfProperties
  <2> QED BY ONLY <2>1, <2>2, CustomBlocksProperties, FlattenInjective
<1>2. Len(k) = Len(l)
  BY <1>1, CustomBlocksOfProperties
<1>3. ASSUME NEW i \in 1..Len(k) PROVE k[i] = l[i]
  <2>1. /\ i \in 1..Len(l) /\ k[i] \in Nat /\ l[i] \in Nat
    BY <1>2, ElementOfSeq
  <2>2. CustomBlock(k, i) = CustomBlock(l, i)
    BY ONLY k \in Seq(Nat), l \in Seq(Nat), <1>1, <2>1, i \in 1..Len(k), CustomBlocksOfProperties
  <2> DEFINE a == Digits[k[i]]
             b == Digits[l[i]]
  <2>3. /\ Copied(k, i) => k[i] \in Symbols
        /\ encode_char(k[i]) = Bracketed(a) /\ a \in Seq(Symbols)
    BY CustomBlocksOfProperties
  <2>4. /\ Copied(l, i) => l[i] \in Symbols
        /\ encode_char(l[i]) = Bracketed(b) /\ b \in Seq(Symbols)
    BY <2>1, CustomBlocksOfProperties
  <2>5. \A n \in Nat : a = Digits[n] => k[i] = n
    BY ONLY <2>1, DigitsInjective
  <2> HIDE DEF a, b
  <2>6. /\ Len(a) \in Nat /\ Len(Bracketed(a)) = Len(a) + 2
        /\ \A j \in 2..(Len(a) + 1) : Bracketed(a)[j] = a[j - 1]
    BY ONLY <2>3, BracketedProperties
  <2>7. /\ Len(b) \in Nat /\ Len(Bracketed(b)) = Len(b) + 2
        /\ \A j \in 2..(Len(b) + 1) : Bracketed(b)[j] = b[j - 1]
    BY ONLY <2>4, BracketedProperties
  <2>8. CASE Copied(k, i) /\ Copied(l, i)
    BY ONLY <2>8, <2>2 DEF CustomBlock
  <2>9. CASE ~Copied(k, i) /\ ~Copied(l, i)
    <3>1. Bracketed(a) = Bracketed(b)
      BY ONLY <2>9, <2>2, <2>3, <2>4 DEF CustomBlock
    <3>2. Len(a) = Len(b)
      BY ONLY <3>1, <2>6, <2>7
    <3>3. ASSUME NEW j \in 1..Len(a) PROVE a[j] = b[j]
      <4>1. j + 1 \in 2..(Len(a) + 1) /\ (j + 1) - 1 = j
        BY ONLY <2>6, j \in 1..Len(a)
      <4> QED BY ONLY <4>1, <3>1, <3>2, <2>6, <2>7
    <3>4. a = b
      BY ONLY <3>2, <3>3, <2>3, <2>4, SeqEqual
    <3> QED BY <3>4, <2>5, <2>1 DEF b
  <2>10. CASE Copied(k, i) /\ ~Copied(l, i)
    <3>1. <<k[i]>> = Bracketed(b)
      BY ONLY <2>10, <2>2, <2>4 DEF CustomBlock
    <3>2. Len(<<k[i]>>) = 1
      BY ONLY TRUE
    <3>3. Len(Bracketed(b)) = 1
      BY ONLY <3>1, <3>2
    <3>4. Len(b) \in Nat /\ 1 = Len(b) + 2
      BY ONLY <3>3, <2>7
    <3>5. \A n \in Nat : 1 # n + 2
      BY ONLY TRUE
    <3> QED BY ONLY <3>4, <3>5
  <2>11. CASE ~Copied(k, i) /\ Copied(l, i)
    <3>1. <<l[i]>> = Bracketed(a)
      BY ONLY <2>11, <2>2, <2>3 DEF CustomBlock
    <3>2. Len(<<l[i]>>) = 1
      BY ONLY TRUE
    <3>3. Len(Bracketed(a)) = 1
      BY ONLY <3>1, <3>2
    <3>4. Len(a) \in Nat /\ 1 = Len(a) + 2
      BY ONLY <3>3, <2>6
    <3>5. \A n \in Nat : 1 # n + 2
      BY ONLY TRUE
    <3> QED BY ONLY <3>4, <3>5
  <2> QED BY ONLY <2>8, <2>9, <2>10, <2>11
<1> QED BY <1>2, <1>3, SeqEqual

\* x is an element of s.
Occurs(x, s) == \E h \in 1..Len(s) : s[h] = x

\* What occurs in a block occurs in the flattened sequence.
LEMMA FlattenOccurs ==
  ASSUME NEW S
  PROVE  \A ss \in Seq(Seq(S)) : \A i \in 1..Len(ss) : \A x :
           Occurs(x, ss[i]) => Occurs(x, FlattenSeq(ss))
<1> DEFINE B == Seq(S)
           T == { ss \in Seq(B) : \A i \in 1..Len(ss) : \A x :
                    Occurs(x, ss[i]) => Occurs(x, FlattenSeq(ss)) }
<1>1. <<>> \in T
  BY EmptySeq
<1>2. ASSUME NEW ss \in Seq(B), NEW s \in B, ss \in T
      PROVE  Append(ss, s) \in T
  <2> DEFINE f == FlattenSeq(ss)
             g == FlattenSeq(Append(ss, s))
  <2>1. f \in Seq(S) /\ g = f \o s
    BY FlattenAppend
  <2>2. /\ Len(f) \in Nat /\ Len(s) \in Nat /\ Len(g) = Len(f) + Len(s)
        /\ \A i \in 1..(Len(f) + Len(s)) : g[i] = IF i <= Len(f) THEN f[i] ELSE s[i - Len(f)]
    <3>1. f \o s \in Seq(S) /\ Len(f \o s) = Len(f) + Len(s)
      BY <2>1, ConcatProperties
    <3>2. \A i \in 1..(Len(f) + Len(s)) : (f \o s)[i] = IF i <= Len(f) THEN f[i] ELSE s[i - Len(f)]
      BY <2>1, ConcatProperties
    <3> HIDE DEF f, g
    <3> QED BY <2>1, <3>1, <3>2, LenProperties
  <2>3. \A i \in 1..Len(ss) : \A x : Occurs(x, ss[i]) => Occurs(x, f)
    BY ONLY ss \in T
  <2>4. /\ Append(ss, s) \in Seq(B) /\ Len(Append(ss, s)) = Len(ss) + 1 /\ Len(ss) \in Nat
        /\ \A i \in 1..Len(ss) : Append(ss, s)[i] = ss[i]
        /\ Append(ss, s)[Len(ss) + 1] = s
    BY AppendProperties, LenProperties
  <2> HIDE DEF f, g
  <2>5. ASSUME NEW x, Occurs(x, f) PROVE Occurs(x, g)
    <3>1. PICK h \in 1..Len(f) : f[h] = x
      BY ONLY <2>5 DEF Occurs
    <3>2. h \in 1..Len(g) /\ g[h] = x
      BY ONLY <2>2, <3>1
    <3> QED BY ONLY <3>2 DEF Occurs
  <2>6. ASSUME NEW x, Occurs(x, s) PROVE Occurs(x, g)
    <3>1. PICK h \in 1..Len(s) : s[h] = x
      BY ONLY <2>6 DEF Occurs
    <3>2. Len(f) + h \in 1..Len(g) /\ ~(Len(f) + h <= Len(f)) /\ (Len(f) + h) - Len(f) = h
      BY ONLY <2>2, h \in 1..Len(s)
    <3>3. g[Len(f) + h] = x
      BY ONLY <2>2, <3>1, <3>2
    <3> QED BY ONLY <3>2, <3>3 DEF Occurs
  <2>7. ASSUME NEW i \in 1..(Len(ss) + 1), NEW x, Occurs(x, Append(ss, s)[i])
        PROVE  Occurs(x, g)
    <3>1. CASE i \in 1..Len(ss)
      BY ONLY <3>1, <2>3, <2>4, <2>5, <2>7
    <3>2. CASE i = Len(ss) + 1
      BY ONLY <3>2, <2>4, <2>6, <2>7
    <3> QED BY ONLY <3>1, <3>2, <2>4, i \in 1..(Len(ss) + 1)
  <2> QED BY ONLY <2>4, <2>7 DEF g
<1> HIDE DEF T
<1>3. Seq(B) \subseteq T
  BY ONLY <1>1, <1>2, SeqInduct
<1> QED BY ONLY <1>3 DEF T

\* The type of a flattened sequence.
LEMMA FlattenType == ASSUME NEW S, NEW ss \in Seq(Seq(S)) PROVE FlattenSeq(ss) \in Seq(S)
BY FlattenAppend, EmptySeq

\* A custom tag is made of tag symbols.
LEMMA CustomEncodeType ==
  ASSUME NEW key \in Seq(Nat)
  PROVE  /\ CustomEncode(key) \in Seq(TagSymbols)
         /\ CustomBlocksOf(key) \in Seq(Seq(TagSymbols))
<1>1. CustomBlocksOf(key) \in Seq(Seq(TagSymbols))
  BY CustomBlocksOfProperties, CustomBlocksProperties, SeqMonotonic
<1> QED BY <1>1, CustomBlocksOfProperties, FlattenType

\* A character that stands for itself is in the tag, another brings a `_'.
LEMMA CustomEncodeOccurs ==
  ASSUME NEW key \in Seq(Nat), NEW i \in 1..Len(key)
  PROVE  /\ Copied(key, i) => key[i] \in Symbols /\ Occurs(key[i], CustomEncode(key))
         /\ ~Copied(key, i) => Occurs(Underscore, CustomEncode(key))
<1> DEFINE b == CustomBlocksOf(key)[i]
<1>1. /\ CustomBlocksOf(key) \in Seq(Seq(TagSymbols)) /\ i \in 1..Len(CustomBlocksOf(key))
      /\ b = CustomBlock(key, i) /\ (Copied(key, i) => key[i] \in Symbols)
      /\ encode_char(key[i]) = Bracketed(Digits[key[i]])
      /\ Digits[key[i]] \in Seq(Symbols)
      /\ CustomEncode(key) = FlattenSeq(CustomBlocksOf(key))
  BY CustomEncodeType, CustomBlocksOfProperties
<1>2. \A x : Occurs(x, b) => Occurs(x, CustomEncode(key))
  BY <1>1, FlattenOccurs
<1>3. ASSUME Copied(key, i) PROVE Occurs(key[i], b)
  <2>1. b = <<key[i]>>
    BY ONLY <1>1, <1>3 DEF CustomBlock
  <2> QED BY <2>1 DEF Occurs
<1>4. ASSUME ~Copied(key, i) PROVE Occurs(Underscore, b)
  <2>1. b = Bracketed(Digits[key[i]])
    BY ONLY <1>1, <1>4 DEF CustomBlock
  <2>2. Len(b) \in Nat /\ 1 \in 1..Len(b) /\ b[1] = Underscore
    <3> DEFINE d == Digits[key[i]]
    <3>1. d \in Seq(Symbols) /\ b = Bracketed(d)
      BY ONLY <1>1, <2>1
    <3> HIDE DEF d, b
    <3>2. Len(d) \in Nat /\ Len(b) = Len(d) + 2 /\ b[1] = Underscore
      BY ONLY <3>1, BracketedProperties
    <3> QED BY ONLY <3>2
  <2> QED BY ONLY <2>2 DEF Occurs
<1> QED BY ONLY <1>1, <1>2, <1>3, <1>4

----------------------------------------------------------------------------
(* Regrouping.                                                             *)

\* The powers of two that regrouping divides by.
LEMMA Powers ==
  /\ Power[3] = 8 /\ Power[4] = 16 /\ Power[5] = 32 /\ Power[6] = 64 /\ Power[7] = 128
  /\ Power[8] = 256 /\ Power[12] = 4096 /\ Power[13] = 8192 /\ Power[14] = 16384
  /\ Power[15] = 32768 /\ Power[16] = 65536 /\ Power[17] = 131072 /\ Power[18] = 262144
  /\ Power[19] = 524288
BY SMT DEF Power

\* The old word of number i, from 0.
At(words, i) == IF i < Len(words) THEN words[i + 1] ELSE 0

\* The window of Regroup: three words of `size' values from the i-th on.
Window(words, i, size) == (At(words, i) * size + At(words, i + 1)) * size + At(words, i + 2)

\* The words of number m, from 0, in the one regrouping and in the other.
WordAt(bytes, m) == (Window(bytes, (m * 5) \div 8, 256) \div Power[19 - ((m * 5) % 8)]) % 32
ByteAt(words, n) == (Window(words, (n * 8) \div 5, 32) \div Power[7 - ((n * 8) % 5)]) % 256

\* The two regroupings, with their words named.
LEMMA RegroupAt ==
  ASSUME NEW words, NEW count \in Nat
  PROVE  /\ Regroup(words, 8, 5, count) = [j \in 1..count |-> WordAt(words, j - 1)]
         /\ Regroup(words, 5, 8, count) = [j \in 1..count |-> ByteAt(words, j - 1)]
<1>1. Power[8] = 256 /\ Power[5] = 32
  BY Powers
<1>2. ASSUME NEW j \in 1..count
      PROVE  3 * 8 - 5 - (((j - 1) * 5) % 8) = 19 - (((j - 1) * 5) % 8)
  OBVIOUS
<1>3. ASSUME NEW j \in 1..count
      PROVE  3 * 5 - 8 - (((j - 1) * 8) % 5) = 7 - (((j - 1) * 8) % 5)
  OBVIOUS
<1>4. Regroup(words, 8, 5, count) = [j \in 1..count |-> WordAt(words, j - 1)]
  BY <1>1, <1>2 DEF Regroup, WordAt, Window, At
<1>5. Regroup(words, 5, 8, count) = [j \in 1..count |-> ByteAt(words, j - 1)]
  BY <1>1, <1>3 DEF Regroup, ByteAt, Window, At
<1> QED BY ONLY <1>4, <1>5

\* A word, or 0 past the last one.
LEMMA AtByte ==
  ASSUME NEW N \in Nat, NEW words \in Seq(0..N), NEW i \in Nat
  PROVE  At(words, i) \in 0..N /\ (i >= Len(words) => At(words, i) = 0)
<1>1. Len(words) \in Nat
  BY LenProperties
<1>2. CASE i < Len(words)
  <2>1. i + 1 \in 1..Len(words)
    BY <1>1, <1>2
  <2>2. words[i + 1] \in 0..N
    BY <2>1, ElementOfSeq
  <2> QED BY ONLY <1>1, <1>2, <2>2, i \in Nat DEF At
<1>3. CASE ~(i < Len(words))
  BY <1>3 DEF At
<1> QED BY <1>2, <1>3

\* The words of five bits that begin at each place of a window of bytes.
LEMMA WordsOfWindow ==
  ASSUME NEW bytes \in Seq(0..255), NEW i \in Nat
  PROVE  /\ (Window(bytes, i, 256) \div 524288) % 32 = At(bytes, i) \div 8
         /\ (Window(bytes, i, 256) \div 262144) % 32 = (At(bytes, i) \div 4) % 32
         /\ (Window(bytes, i, 256) \div 131072) % 32 = (At(bytes, i) \div 2) % 32
         /\ (Window(bytes, i, 256) \div 65536) % 32 = At(bytes, i) % 32
         /\ (Window(bytes, i, 256) \div 32768) % 32 = (At(bytes, i) % 16) * 2 + (At(bytes, i + 1) \div 128)
         /\ (Window(bytes, i, 256) \div 16384) % 32 = (At(bytes, i) % 8) * 4 + (At(bytes, i + 1) \div 64)
         /\ (Window(bytes, i, 256) \div 8192) % 32 = (At(bytes, i) % 4) * 8 + (At(bytes, i + 1) \div 32)
         /\ (Window(bytes, i, 256) \div 4096) % 32 = (At(bytes, i) % 2) * 16 + (At(bytes, i + 1) \div 16)
<1> DEFINE a == At(bytes, i)
           b == At(bytes, i + 1)
           c == At(bytes, i + 2)
           win == Window(bytes, i, 256)
<1>1. a \in 0..255 /\ b \in 0..255 /\ c \in 0..255
  <2>1. i + 1 \in Nat /\ i + 2 \in Nat /\ 255 \in Nat
    OBVIOUS
  <2> QED BY <2>1, AtByte, ZenonT(40)
<1>2. win = (a * 256 + b) * 256 + c
  BY DEF Window
<1> HIDE DEF a, b, c, win
<1>3. /\ (win \div 524288) % 32 = a \div 8
      /\ (win \div 262144) % 32 = (a \div 4) % 32
      /\ (win \div 131072) % 32 = (a \div 2) % 32
      /\ (win \div 65536) % 32 = a % 32
      /\ (win \div 32768) % 32 = (a % 16) * 2 + (b \div 128)
      /\ (win \div 16384) % 32 = (a % 8) * 4 + (b \div 64)
      /\ (win \div 8192) % 32 = (a % 4) * 8 + (b \div 32)
      /\ (win \div 4096) % 32 = (a % 2) * 16 + (b \div 16)
  <2>1. (win \div 524288) % 32 = a \div 8
    <3>1. win \div 524288 = a \div 8
      BY ONLY <1>1, <1>2, SMTT(30)
    <3> QED BY ONLY <3>1, <1>1, SMTT(30)
  <2>2. (win \div 262144) % 32 = (a \div 4) % 32
    <3>1. win \div 262144 = a \div 4
      BY ONLY <1>1, <1>2, SMTT(30)
    <3> QED BY ONLY <3>1, <1>1, SMTT(30)
  <2>3. (win \div 131072) % 32 = (a \div 2) % 32
    <3>1. win \div 131072 = a \div 2
      BY ONLY <1>1, <1>2, SMTT(30)
    <3> QED BY ONLY <3>1, <1>1, SMTT(30)
  <2>4. (win \div 65536) % 32 = a % 32
    <3>1. win \div 65536 = a
      BY ONLY <1>1, <1>2, SMTT(30)
    <3> QED BY ONLY <3>1, <1>1, SMTT(30)
  <2>5. (win \div 32768) % 32 = (a % 16) * 2 + (b \div 128)
    <3> DEFINE x == b \div 128
               y == b % 128
               u == a \div 16
               r == a % 16
    <3>1. x \in 0..1 /\ y \in 0..127 /\ b = 128 * x + y
      BY ONLY <1>1, SMTT(30)
    <3>2. u \in Nat /\ r \in 0..15 /\ a = 16 * u + r
      BY ONLY <1>1, SMTT(30)
    <3> HIDE DEF x, y, u, r
    <3>3. win = 32768 * (32 * u + (r * 2 + x)) + (256 * y + c)
      BY ONLY <1>2, <3>1, <3>2, <1>1, SMTT(30)
    <3>4. win \div 32768 = 32 * u + (r * 2 + x)
      BY ONLY <3>1, <3>2, <3>3, <1>1, SMTT(30)
    <3>5. (32 * u + (r * 2 + x)) % 32 = r * 2 + x
      BY ONLY <3>1, <3>2, SMTT(30)
    <3> QED BY ONLY <3>4, <3>5, SMT DEF x, r
  <2>6. (win \div 16384) % 32 = (a % 8) * 4 + (b \div 64)
    <3> DEFINE x == b \div 64
               y == b % 64
               u == a \div 8
               r == a % 8
    <3>1. x \in 0..3 /\ y \in 0..63 /\ b = 64 * x + y
      BY ONLY <1>1, SMTT(30)
    <3>2. u \in Nat /\ r \in 0..7 /\ a = 8 * u + r
      BY ONLY <1>1, SMTT(30)
    <3> HIDE DEF x, y, u, r
    <3>3. win = 16384 * (32 * u + (r * 4 + x)) + (256 * y + c)
      BY ONLY <1>2, <3>1, <3>2, <1>1, SMTT(30)
    <3>4. win \div 16384 = 32 * u + (r * 4 + x)
      BY ONLY <3>1, <3>2, <3>3, <1>1, SMTT(30)
    <3>5. (32 * u + (r * 4 + x)) % 32 = r * 4 + x
      BY ONLY <3>1, <3>2, SMTT(30)
    <3> QED BY ONLY <3>4, <3>5, SMT DEF x, r
  <2>7. (win \div 8192) % 32 = (a % 4) * 8 + (b \div 32)
    <3> DEFINE x == b \div 32
               y == b % 32
               u == a \div 4
               r == a % 4
    <3>1. x \in 0..7 /\ y \in 0..31 /\ b = 32 * x + y
      BY ONLY <1>1, SMTT(30)
    <3>2. u \in Nat /\ r \in 0..3 /\ a = 4 * u + r
      BY ONLY <1>1, SMTT(30)
    <3> HIDE DEF x, y, u, r
    <3>3. win = 8192 * (32 * u + (r * 8 + x)) + (256 * y + c)
      BY ONLY <1>2, <3>1, <3>2, <1>1, SMTT(30)
    <3>4. win \div 8192 = 32 * u + (r * 8 + x)
      BY ONLY <3>1, <3>2, <3>3, <1>1, SMTT(30)
    <3>5. (32 * u + (r * 8 + x)) % 32 = r * 8 + x
      BY ONLY <3>1, <3>2, SMTT(30)
    <3> QED BY ONLY <3>4, <3>5, SMT DEF x, r
  <2>8. (win \div 4096) % 32 = (a % 2) * 16 + (b \div 16)
    <3> DEFINE x == b \div 16
               y == b % 16
               u == a \div 2
               r == a % 2
    <3>1. x \in 0..15 /\ y \in 0..15 /\ b = 16 * x + y
      BY ONLY <1>1, SMTT(30)
    <3>2. u \in Nat /\ r \in 0..1 /\ a = 2 * u + r
      BY ONLY <1>1, SMTT(30)
    <3> HIDE DEF x, y, u, r
    <3>3. win = 4096 * (32 * u + (r * 16 + x)) + (256 * y + c)
      BY ONLY <1>2, <3>1, <3>2, <1>1, SMTT(30)
    <3>4. win \div 4096 = 32 * u + (r * 16 + x)
      BY ONLY <3>1, <3>2, <3>3, <1>1, SMTT(30)
    <3>5. (32 * u + (r * 16 + x)) % 32 = r * 16 + x
      BY ONLY <3>1, <3>2, SMTT(30)
    <3> QED BY ONLY <3>4, <3>5, SMT DEF x, r
  <2> QED BY ONLY <2>1, <2>2, <2>3, <2>4, <2>5, <2>6, <2>7, <2>8, SMT
<1> QED BY ONLY <1>3, SMT DEF a, b, win

\* The eight words of five bits in the q-th five bytes.
LEMMA WordsOfGroup ==
  ASSUME NEW bytes \in Seq(0..255), NEW q \in Nat
  PROVE  /\ WordAt(bytes, 8 * q) = At(bytes, 5 * q) \div 8
         /\ WordAt(bytes, 8 * q + 1) = (At(bytes, 5 * q) % 8) * 4 + (At(bytes, 5 * q + 1) \div 64)
         /\ WordAt(bytes, 8 * q + 2) = (At(bytes, 5 * q + 1) \div 2) % 32
         /\ WordAt(bytes, 8 * q + 3) = (At(bytes, 5 * q + 1) % 2) * 16 + (At(bytes, 5 * q + 2) \div 16)
         /\ WordAt(bytes, 8 * q + 4) = (At(bytes, 5 * q + 2) % 16) * 2 + (At(bytes, 5 * q + 3) \div 128)
         /\ WordAt(bytes, 8 * q + 5) = (At(bytes, 5 * q + 3) \div 4) % 32
         /\ WordAt(bytes, 8 * q + 6) = (At(bytes, 5 * q + 3) % 4) * 8 + (At(bytes, 5 * q + 4) \div 32)
         /\ WordAt(bytes, 8 * q + 7) = At(bytes, 5 * q + 4) % 32
<1>2. WordAt(bytes, 8 * q) = At(bytes, 5 * q) \div 8
  <2> DEFINE i == 5 * q
             m == 8 * q
  <2>1. i \in Nat /\ (m * 5) \div 8 = i /\ 19 - ((m * 5) % 8) = 19 /\ i + 1 = 5 * q + 1
    BY ONLY q \in Nat
  <2> HIDE DEF i, m
  <2>2. WordAt(bytes, m) = (Window(bytes, i, 256) \div 524288) % 32
    BY ONLY <2>1, Powers, SMT DEF WordAt
  <2>3. WordAt(bytes, m) = At(bytes, i) \div 8
    BY ONLY bytes \in Seq(0..255), <2>1, <2>2, WordsOfWindow, SMT
  <2> QED BY ONLY <2>1, <2>3 DEF i, m
<1>3. WordAt(bytes, 8 * q + 1) = (At(bytes, 5 * q) % 8) * 4 + (At(bytes, 5 * q + 1) \div 64)
  <2> DEFINE i == 5 * q
             m == 8 * q + 1
  <2>1. i \in Nat /\ (m * 5) \div 8 = i /\ 19 - ((m * 5) % 8) = 14 /\ i + 1 = 5 * q + 1
    BY ONLY q \in Nat
  <2> HIDE DEF i, m
  <2>2. WordAt(bytes, m) = (Window(bytes, i, 256) \div 16384) % 32
    BY ONLY <2>1, Powers, SMT DEF WordAt
  <2>3. WordAt(bytes, m) = (At(bytes, i) % 8) * 4 + (At(bytes, i + 1) \div 64)
    BY ONLY bytes \in Seq(0..255), <2>1, <2>2, WordsOfWindow, SMT
  <2> QED BY ONLY <2>1, <2>3 DEF i, m
<1>4. WordAt(bytes, 8 * q + 2) = (At(bytes, 5 * q + 1) \div 2) % 32
  <2> DEFINE i == 5 * q + 1
             m == 8 * q + 2
  <2>1. i \in Nat /\ (m * 5) \div 8 = i /\ 19 - ((m * 5) % 8) = 17 /\ i + 1 = 5 * q + 2
    BY ONLY q \in Nat
  <2> HIDE DEF i, m
  <2>2. WordAt(bytes, m) = (Window(bytes, i, 256) \div 131072) % 32
    BY ONLY <2>1, Powers, SMT DEF WordAt
  <2>3. WordAt(bytes, m) = (At(bytes, i) \div 2) % 32
    BY ONLY bytes \in Seq(0..255), <2>1, <2>2, WordsOfWindow, SMT
  <2> QED BY ONLY <2>1, <2>3 DEF i, m
<1>5. WordAt(bytes, 8 * q + 3) = (At(bytes, 5 * q + 1) % 2) * 16 + (At(bytes, 5 * q + 2) \div 16)
  <2> DEFINE i == 5 * q + 1
             m == 8 * q + 3
  <2>1. i \in Nat /\ (m * 5) \div 8 = i /\ 19 - ((m * 5) % 8) = 12 /\ i + 1 = 5 * q + 2
    BY ONLY q \in Nat
  <2> HIDE DEF i, m
  <2>2. WordAt(bytes, m) = (Window(bytes, i, 256) \div 4096) % 32
    BY ONLY <2>1, Powers, SMTT(30) DEF WordAt
  <2>3. WordAt(bytes, m) = (At(bytes, i) % 2) * 16 + (At(bytes, i + 1) \div 16)
    BY ONLY bytes \in Seq(0..255), <2>1, <2>2, WordsOfWindow, SMT
  <2> QED BY ONLY <2>1, <2>3 DEF i, m
<1>6. WordAt(bytes, 8 * q + 4) = (At(bytes, 5 * q + 2) % 16) * 2 + (At(bytes, 5 * q + 3) \div 128)
  <2> DEFINE i == 5 * q + 2
             m == 8 * q + 4
  <2>1. i \in Nat /\ (m * 5) \div 8 = i /\ 19 - ((m * 5) % 8) = 15 /\ i + 1 = 5 * q + 3
    BY ONLY q \in Nat
  <2> HIDE DEF i, m
  <2>2. WordAt(bytes, m) = (Window(bytes, i, 256) \div 32768) % 32
    BY ONLY <2>1, Powers, SMT DEF WordAt
  <2>3. WordAt(bytes, m) = (At(bytes, i) % 16) * 2 + (At(bytes, i + 1) \div 128)
    BY ONLY bytes \in Seq(0..255), <2>1, <2>2, WordsOfWindow, SMT
  <2> QED BY ONLY <2>1, <2>3 DEF i, m
<1>7. WordAt(bytes, 8 * q + 5) = (At(bytes, 5 * q + 3) \div 4) % 32
  <2> DEFINE i == 5 * q + 3
             m == 8 * q + 5
  <2>1. i \in Nat /\ (m * 5) \div 8 = i /\ 19 - ((m * 5) % 8) = 18 /\ i + 1 = 5 * q + 4
    BY ONLY q \in Nat
  <2> HIDE DEF i, m
  <2>2. WordAt(bytes, m) = (Window(bytes, i, 256) \div 262144) % 32
    BY ONLY <2>1, Powers, SMT DEF WordAt
  <2>3. WordAt(bytes, m) = (At(bytes, i) \div 4) % 32
    BY ONLY bytes \in Seq(0..255), <2>1, <2>2, WordsOfWindow, SMT
  <2> QED BY ONLY <2>1, <2>3 DEF i, m
<1>8. WordAt(bytes, 8 * q + 6) = (At(bytes, 5 * q + 3) % 4) * 8 + (At(bytes, 5 * q + 4) \div 32)
  <2> DEFINE i == 5 * q + 3
             m == 8 * q + 6
  <2>1. i \in Nat /\ (m * 5) \div 8 = i /\ 19 - ((m * 5) % 8) = 13 /\ i + 1 = 5 * q + 4
    BY ONLY q \in Nat
  <2> HIDE DEF i, m
  <2>2. WordAt(bytes, m) = (Window(bytes, i, 256) \div 8192) % 32
    BY ONLY <2>1, Powers, SMT DEF WordAt
  <2>3. WordAt(bytes, m) = (At(bytes, i) % 4) * 8 + (At(bytes, i + 1) \div 32)
    BY ONLY bytes \in Seq(0..255), <2>1, <2>2, WordsOfWindow, SMT
  <2> QED BY ONLY <2>1, <2>3 DEF i, m
<1>9. WordAt(bytes, 8 * q + 7) = At(bytes, 5 * q + 4) % 32
  <2> DEFINE i == 5 * q + 4
             m == 8 * q + 7
  <2>1. i \in Nat /\ (m * 5) \div 8 = i /\ 19 - ((m * 5) % 8) = 16 /\ i + 1 = 5 * q + 5
    BY ONLY q \in Nat
  <2> HIDE DEF i, m
  <2>2. WordAt(bytes, m) = (Window(bytes, i, 256) \div 65536) % 32
    BY ONLY <2>1, Powers, SMT DEF WordAt
  <2>3. WordAt(bytes, m) = At(bytes, i) % 32
    BY ONLY bytes \in Seq(0..255), <2>1, <2>2, WordsOfWindow, SMT
  <2> QED BY ONLY <2>1, <2>3 DEF i, m
<1> QED BY ONLY <1>2, <1>3, <1>4, <1>5, <1>6, <1>7, <1>8, <1>9

\* The bytes that begin at each place of a window of words of five bits.
LEMMA BytesOfWindow ==
  ASSUME NEW words \in Seq(0..31), NEW i \in Nat
  PROVE  /\ (Window(words, i, 32) \div 128) % 256 = At(words, i) * 8 + (At(words, i + 1) \div 4)
         /\ (Window(words, i, 32) \div 64) % 256 = (At(words, i) % 16) * 16 + (At(words, i + 1) \div 2)
         /\ (Window(words, i, 32) \div 32) % 256 = (At(words, i) % 8) * 32 + At(words, i + 1)
         /\ (Window(words, i, 32) \div 16) % 256 = (At(words, i) % 4) * 64 + At(words, i + 1) * 2 + (At(words, i + 2) \div 16)
         /\ (Window(words, i, 32) \div 8) % 256 = (At(words, i) % 2) * 128 + At(words, i + 1) * 4 + (At(words, i + 2) \div 8)
<1> DEFINE u == At(words, i)
           v == At(words, i + 1)
           w == At(words, i + 2)
           win == Window(words, i, 32)
<1>1. u \in 0..31 /\ v \in 0..31 /\ w \in 0..31
  <2>1. i + 1 \in Nat /\ i + 2 \in Nat /\ 31 \in Nat
    OBVIOUS
  <2> QED BY <2>1, AtByte
<1>2. win = (u * 32 + v) * 32 + w
  BY DEF Window
<1> HIDE DEF u, v, w, win
<1>3. (win \div 128) % 256 = u * 8 + (v \div 4)
  <2> DEFINE x == v \div 4
             y == v % 4
  <2>1. x \in 0..7 /\ y \in 0..3 /\ v = 4 * x + y
    BY ONLY <1>1, SMTT(30)
  <2> HIDE DEF x, y
  <2>2. win = 128 * (8 * u + x) + (32 * y + w)
    BY ONLY <1>2, <2>1, <1>1, SMTT(30)
  <2>3. win \div 128 = 8 * u + x
    BY ONLY <2>1, <2>2, <1>1, SMTT(30)
  <2>4. (8 * u + x) % 256 = u * 8 + x
    BY ONLY <2>1, <1>1, SMTT(30)
  <2> QED BY ONLY <2>3, <2>4, SMT DEF x
<1>4. (win \div 64) % 256 = (u % 16) * 16 + (v \div 2)
  <2> DEFINE x == v \div 2
             y == v % 2
             t == u \div 16
             r == u % 16
  <2>1. x \in 0..15 /\ y \in 0..1 /\ v = 2 * x + y
    BY ONLY <1>1, SMTT(30)
  <2>2. t \in Nat /\ r \in 0..15 /\ u = 16 * t + r
    BY ONLY <1>1, SMTT(30)
  <2> HIDE DEF x, y, t, r
  <2>3. win = 64 * (16 * u + x) + (32 * y + w)
    BY ONLY <1>2, <2>1, <1>1, SMTT(30)
  <2>4. win \div 64 = 16 * u + x
    BY ONLY <2>1, <2>3, <1>1, SMTT(30)
  <2>5. 16 * u + x = 256 * t + (16 * r + x)
    BY ONLY <2>1, <2>2, <1>1, SMTT(30)
  <2>6. (256 * t + (16 * r + x)) % 256 = 16 * r + x
    BY ONLY <2>1, <2>2, <1>1, SMTT(30)
  <2>7. (win \div 64) % 256 = 16 * r + x
    BY ONLY <2>4, <2>5, <2>6, SMT
  <2> QED BY ONLY <2>1, <2>2, <2>7, <1>1, SMT DEF x, r
<1>5. (win \div 32) % 256 = (u % 8) * 32 + v
  <2> DEFINE t == u \div 8
             r == u % 8
  <2>1. w \in Nat
    BY ONLY <1>1, SMTT(30)
  <2>2. t \in Nat /\ r \in 0..7 /\ u = 8 * t + r
    BY ONLY <1>1, SMTT(30)
  <2> HIDE DEF t, r
  <2>3. win = 32 * (32 * u + v) + (w)
    BY ONLY <1>2, <2>1, <1>1, SMTT(30)
  <2>4. win \div 32 = 32 * u + v
    BY ONLY <2>1, <2>3, <1>1, SMTT(30)
  <2>5. 32 * u + v = 256 * t + (32 * r + v)
    BY ONLY <2>1, <2>2, <1>1, SMTT(30)
  <2>6. (256 * t + (32 * r + v)) % 256 = 32 * r + v
    BY ONLY <2>1, <2>2, <1>1, SMTT(30)
  <2>7. (win \div 32) % 256 = 32 * r + v
    BY ONLY <2>4, <2>5, <2>6, SMT
  <2> QED BY ONLY <2>1, <2>2, <2>7, <1>1, SMT DEF r
<1>6. (win \div 16) % 256 = (u % 4) * 64 + v * 2 + (w \div 16)
  <2> DEFINE x == w \div 16
             y == w % 16
             t == u \div 4
             r == u % 4
  <2>1. x \in 0..1 /\ y \in 0..15 /\ w = 16 * x + y
    BY ONLY <1>1, SMTT(30)
  <2>2. t \in Nat /\ r \in 0..3 /\ u = 4 * t + r
    BY ONLY <1>1, SMTT(30)
  <2> HIDE DEF x, y, t, r
  <2>3. win = 16 * (64 * u + (2 * v + x)) + (y)
    BY ONLY <1>2, <2>1, <1>1, SMTT(30)
  <2>4. win \div 16 = 64 * u + (2 * v + x)
    BY ONLY <2>1, <2>3, <1>1, SMTT(30)
  <2>5. 64 * u + (2 * v + x) = 256 * t + (64 * r + (2 * v + x))
    BY ONLY <2>1, <2>2, <1>1, SMTT(30)
  <2>6. (256 * t + (64 * r + (2 * v + x))) % 256 = 64 * r + (2 * v + x)
    BY ONLY <2>1, <2>2, <1>1, SMTT(30)
  <2>7. (win \div 16) % 256 = 64 * r + (2 * v + x)
    BY ONLY <2>4, <2>5, <2>6, SMT
  <2> QED BY ONLY <2>1, <2>2, <2>7, <1>1, SMT DEF x, r
<1>7. (win \div 8) % 256 = (u % 2) * 128 + v * 4 + (w \div 8)
  <2> DEFINE x == w \div 8
             y == w % 8
             t == u \div 2
             r == u % 2
  <2>1. x \in 0..3 /\ y \in 0..7 /\ w = 8 * x + y
    BY ONLY <1>1, SMTT(30)
  <2>2. t \in Nat /\ r \in 0..1 /\ u = 2 * t + r
    BY ONLY <1>1, SMTT(30)
  <2> HIDE DEF x, y, t, r
  <2>3. win = 8 * (128 * u + (4 * v + x)) + (y)
    BY ONLY <1>2, <2>1, <1>1, SMTT(30)
  <2>4. win \div 8 = 128 * u + (4 * v + x)
    BY ONLY <2>1, <2>3, <1>1, SMTT(30)
  <2>5. 128 * u + (4 * v + x) = 256 * t + (128 * r + (4 * v + x))
    BY ONLY <2>1, <2>2, <1>1, SMTT(30)
  <2>6. (256 * t + (128 * r + (4 * v + x))) % 256 = 128 * r + (4 * v + x)
    BY ONLY <2>1, <2>2, <1>1, SMTT(30)
  <2>7. (win \div 8) % 256 = 128 * r + (4 * v + x)
    BY ONLY <2>4, <2>5, <2>6, SMT
  <2> QED BY ONLY <2>1, <2>2, <2>7, <1>1, SMT DEF x, r
<1> QED BY ONLY <1>3, <1>4, <1>5, <1>6, <1>7, SMT DEF u, v, w, win

\* A byte is put together again from what the words have of it.
LEMMA Remainder ==
  /\ \A u \in Nat, v \in 0..1 : (u * 2 + v) % 2 = v
  /\ \A u \in Nat, v \in 0..3 : (u * 4 + v) % 4 = v
  /\ \A u \in Nat, v \in 0..15 : (u * 16 + v) % 16 = v
<1>1. \A u \in Nat, v \in 0..1 : (u * 2 + v) % 2 = v
  BY SMTT(30)
<1>2. \A u \in Nat, v \in 0..3 : (u * 4 + v) % 4 = v
  BY SMTT(30)
<1>3. \A u \in Nat, v \in 0..15 : (u * 16 + v) % 16 = v
  BY SMTT(30)
<1> QED BY ONLY <1>1, <1>2, <1>3, Zenon

\* The bits of the first byte of a group, put together from its words.
LEMMA ByteTogether0 ==
  \A x, y \in 0..255 : (x \div 8) * 8 + (((x % 8) * 4 + (y \div 64)) \div 4) = x
BY SMTT(30)

\* The bits of the last one.
LEMMA ByteTogether4 ==
  \A x, y \in 0..255 : (((x % 4) * 8 + (y \div 32)) % 8) * 32 + (y % 32) = y
BY SMTT(30)

\* The five bytes of the q-th eight words, when the words are of bytes.
LEMMA BytesOfGroup ==
  ASSUME NEW bytes \in Seq(0..255), NEW words \in Seq(0..31), NEW q \in Nat,
         \A m \in Nat : At(words, m) = WordAt(bytes, m)
  PROVE  \A r \in 0..4 : ByteAt(words, 5 * q + r) = At(bytes, 5 * q + r)
<1> DEFINE w(t) == At(words, 8 * q + t)
           b(r) == At(bytes, 5 * q + r)
<1>1. \A t \in 0..8 : w(t) \in 0..31
  <2> SUFFICES ASSUME NEW t \in 0..8 PROVE w(t) \in 0..31
    OBVIOUS
  <2>1. 8 * q + t \in Nat /\ 31 \in Nat
    OBVIOUS
  <2> QED BY ONLY <2>1, words \in Seq(0..31), AtByte
<1>2. \A r \in 0..5 : b(r) \in 0..255
  <2> SUFFICES ASSUME NEW r \in 0..5 PROVE b(r) \in 0..255
    OBVIOUS
  <2>1. 5 * q + r \in Nat /\ 255 \in Nat
    OBVIOUS
  <2> QED BY ONLY <2>1, bytes \in Seq(0..255), AtByte
<1>3. /\ w(0) = b(0) \div 8
      /\ w(1) = (b(0) % 8) * 4 + (b(1) \div 64)
      /\ w(2) = (b(1) \div 2) % 32
      /\ w(3) = (b(1) % 2) * 16 + (b(2) \div 16)
      /\ w(4) = (b(2) % 16) * 2 + (b(3) \div 128)
      /\ w(5) = (b(3) \div 4) % 32
      /\ w(6) = (b(3) % 4) * 8 + (b(4) \div 32)
      /\ w(7) = b(4) % 32
  <2>1. \A t \in 0..7 : w(t) = WordAt(bytes, 8 * q + t)
    <3> SUFFICES ASSUME NEW t \in 0..7 PROVE w(t) = WordAt(bytes, 8 * q + t)
      OBVIOUS
    <3>1. 8 * q + t \in Nat
      OBVIOUS
    <3> QED BY <3>1
  <2>2. 8 * q + 0 = 8 * q /\ 5 * q + 0 = 5 * q
    OBVIOUS
  <2> QED BY ONLY <2>1, <2>2, bytes \in Seq(0..255), q \in Nat, WordsOfGroup
<1>4. ByteAt(words, 5 * q + 0) = (Window(words, 8 * q + 0, 32) \div 128) % 256
  <2> DEFINE n == 5 * q + 0
             i == 8 * q + 0
  <2>1. (n * 8) \div 5 = i /\ 7 - ((n * 8) % 5) = 7
    BY ONLY q \in Nat
  <2> HIDE DEF i, n
  <2>2. Power[7] = 128
    BY ONLY Powers
  <2>3. Power[7 - ((n * 8) % 5)] = 128
    BY ONLY <2>1, <2>2
  <2>4. ByteAt(words, n) = (Window(words, i, 32) \div 128) % 256
    BY ONLY <2>1, <2>3 DEF ByteAt
  <2> QED BY ONLY <2>4 DEF i, n
<1>5. ByteAt(words, 5 * q + 1) = (Window(words, 8 * q + 1, 32) \div 16) % 256
  <2> DEFINE n == 5 * q + 1
             i == 8 * q + 1
  <2>1. (n * 8) \div 5 = i /\ 7 - ((n * 8) % 5) = 4
    BY ONLY q \in Nat
  <2> HIDE DEF i, n
  <2>2. Power[4] = 16
    BY ONLY Powers
  <2>3. Power[7 - ((n * 8) % 5)] = 16
    BY ONLY <2>1, <2>2
  <2>4. ByteAt(words, n) = (Window(words, i, 32) \div 16) % 256
    BY ONLY <2>1, <2>3 DEF ByteAt
  <2> QED BY ONLY <2>4 DEF i, n
<1>6. ByteAt(words, 5 * q + 2) = (Window(words, 8 * q + 3, 32) \div 64) % 256
  <2> DEFINE n == 5 * q + 2
             i == 8 * q + 3
  <2>1. (n * 8) \div 5 = i /\ 7 - ((n * 8) % 5) = 6
    BY ONLY q \in Nat
  <2> HIDE DEF i, n
  <2>2. Power[6] = 64
    BY ONLY Powers
  <2>3. Power[7 - ((n * 8) % 5)] = 64
    BY ONLY <2>1, <2>2
  <2>4. ByteAt(words, n) = (Window(words, i, 32) \div 64) % 256
    BY ONLY <2>1, <2>3 DEF ByteAt
  <2> QED BY ONLY <2>4 DEF i, n
<1>7. ByteAt(words, 5 * q + 3) = (Window(words, 8 * q + 4, 32) \div 8) % 256
  <2> DEFINE n == 5 * q + 3
             i == 8 * q + 4
  <2>1. (n * 8) \div 5 = i /\ 7 - ((n * 8) % 5) = 3
    BY ONLY q \in Nat
  <2> HIDE DEF i, n
  <2>2. Power[3] = 8
    BY ONLY Powers
  <2>3. Power[7 - ((n * 8) % 5)] = 8
    BY ONLY <2>1, <2>2
  <2>4. ByteAt(words, n) = (Window(words, i, 32) \div 8) % 256
    BY ONLY <2>1, <2>3 DEF ByteAt
  <2> QED BY ONLY <2>4 DEF i, n
<1>8. ByteAt(words, 5 * q + 4) = (Window(words, 8 * q + 6, 32) \div 32) % 256
  <2> DEFINE n == 5 * q + 4
             i == 8 * q + 6
  <2>1. (n * 8) \div 5 = i /\ 7 - ((n * 8) % 5) = 5
    BY ONLY q \in Nat
  <2> HIDE DEF i, n
  <2>2. Power[5] = 32
    BY ONLY Powers
  <2>3. Power[7 - ((n * 8) % 5)] = 32
    BY ONLY <2>1, <2>2
  <2>4. ByteAt(words, n) = (Window(words, i, 32) \div 32) % 256
    BY ONLY <2>1, <2>3 DEF ByteAt
  <2> QED BY ONLY <2>4 DEF i, n
<1>9. /\ ByteAt(words, 5 * q + 0) = w(0) * 8 + (w(1) \div 4)
      /\ ByteAt(words, 5 * q + 1) = (w(1) % 4) * 64 + w(2) * 2 + (w(3) \div 16)
      /\ ByteAt(words, 5 * q + 2) = (w(3) % 16) * 16 + (w(4) \div 2)
      /\ ByteAt(words, 5 * q + 3) = (w(4) % 2) * 128 + w(5) * 4 + (w(6) \div 8)
      /\ ByteAt(words, 5 * q + 4) = (w(6) % 8) * 32 + w(7)
  <2>1. ByteAt(words, 5 * q + 0) = At(words, 8 * q + 0) * 8 + (At(words, 8 * q + 1) \div 4)
    <3> DEFINE i == 8 * q + 0
    <3>1. i \in Nat /\ i + 1 = 8 * q + 1 /\ i + 2 = 8 * q + 2
      BY ONLY q \in Nat
    <3> HIDE DEF i
    <3>2. (Window(words, i, 32) \div 128) % 256 = At(words, i) * 8 + (At(words, i + 1) \div 4)
      BY ONLY <3>1, words \in Seq(0..31), BytesOfWindow
    <3> QED BY ONLY <3>1, <3>2, <1>4 DEF i
  <2>2. ByteAt(words, 5 * q + 1) = (At(words, 8 * q + 1) % 4) * 64 + At(words, 8 * q + 2) * 2 + (At(words, 8 * q + 3) \div 16)
    <3> DEFINE i == 8 * q + 1
    <3>1. i \in Nat /\ i + 1 = 8 * q + 2 /\ i + 2 = 8 * q + 3
      BY ONLY q \in Nat
    <3> HIDE DEF i
    <3>2. (Window(words, i, 32) \div 16) % 256 = (At(words, i) % 4) * 64 + At(words, i + 1) * 2 + (At(words, i + 2) \div 16)
      BY ONLY <3>1, words \in Seq(0..31), BytesOfWindow
    <3> QED BY ONLY <3>1, <3>2, <1>5 DEF i
  <2>3. ByteAt(words, 5 * q + 2) = (At(words, 8 * q + 3) % 16) * 16 + (At(words, 8 * q + 4) \div 2)
    <3> DEFINE i == 8 * q + 3
    <3>1. i \in Nat /\ i + 1 = 8 * q + 4 /\ i + 2 = 8 * q + 5
      BY ONLY q \in Nat
    <3> HIDE DEF i
    <3>2. (Window(words, i, 32) \div 64) % 256 = (At(words, i) % 16) * 16 + (At(words, i + 1) \div 2)
      BY ONLY <3>1, words \in Seq(0..31), BytesOfWindow
    <3> QED BY ONLY <3>1, <3>2, <1>6 DEF i
  <2>4. ByteAt(words, 5 * q + 3) = (At(words, 8 * q + 4) % 2) * 128 + At(words, 8 * q + 5) * 4 + (At(words, 8 * q + 6) \div 8)
    <3> DEFINE i == 8 * q + 4
    <3>1. i \in Nat /\ i + 1 = 8 * q + 5 /\ i + 2 = 8 * q + 6
      BY ONLY q \in Nat
    <3> HIDE DEF i
    <3>2. (Window(words, i, 32) \div 8) % 256 = (At(words, i) % 2) * 128 + At(words, i + 1) * 4 + (At(words, i + 2) \div 8)
      BY ONLY <3>1, words \in Seq(0..31), BytesOfWindow
    <3> QED BY ONLY <3>1, <3>2, <1>7 DEF i
  <2>5. ByteAt(words, 5 * q + 4) = (At(words, 8 * q + 6) % 8) * 32 + At(words, 8 * q + 7)
    <3> DEFINE i == 8 * q + 6
    <3>1. i \in Nat /\ i + 1 = 8 * q + 7 /\ i + 2 = 8 * q + 8
      BY ONLY q \in Nat
    <3> HIDE DEF i
    <3>2. (Window(words, i, 32) \div 32) % 256 = (At(words, i) % 8) * 32 + At(words, i + 1)
      BY ONLY <3>1, words \in Seq(0..31), BytesOfWindow
    <3> QED BY ONLY <3>1, <3>2, <1>8 DEF i
  <2> QED BY ONLY <2>1, <2>2, <2>3, <2>4, <2>5
<1>10. /\ b(0) \in 0..255 /\ b(1) \in 0..255 /\ b(2) \in 0..255 /\ b(3) \in 0..255 /\ b(4) \in 0..255
  BY ONLY <1>2
<1> HIDE DEF w, b
<1>11. ByteAt(words, 5 * q + 0) = b(0)
  <2>1. ByteAt(words, 5 * q + 0) =
          (b(0) \div 8) * 8 + (((b(0) % 8) * 4 + (b(1) \div 64)) \div 4)
    BY ONLY <1>3, <1>9, Zenon
  <2>2. (b(0) \div 8) * 8 + (((b(0) % 8) * 4 + (b(1) \div 64)) \div 4) = b(0)
    BY ONLY <1>10, ByteTogether0, Zenon
  <2> QED BY ONLY <2>1, <2>2, Zenon
<1>12. ByteAt(words, 5 * q + 1) = b(1)
  <2>1. ByteAt(words, 5 * q + 1) =
          (((b(0) % 8) * 4 + (b(1) \div 64)) % 4) * 64 + ((b(1) \div 2) % 32) * 2 + (((b(1) % 2) * 16 + (b(2) \div 16)) \div 16)
    BY ONLY <1>3, <1>9, Zenon
  <2>2. (((b(0) % 8) * 4 + (b(1) \div 64)) % 4) * 64 + ((b(1) \div 2) % 32) * 2 + (((b(1) % 2) * 16 + (b(2) \div 16)) \div 16) = b(1)
    <3>1. b(0) \in 0..255 /\ b(1) \in 0..255 /\ b(2) \in 0..255
      BY ONLY <1>10
    <3> DEFINE x == b(0)
               y == b(1)
               z == b(2)
    <3> HIDE DEF x, y, z
    <3>2. x \in 0..255 /\ y \in 0..255 /\ z \in 0..255
      BY ONLY <3>1 DEF x, y, z
    <3>3. (((x % 8) * 4 + (y \div 64)) % 4) * 64 + ((y \div 2) % 32) * 2 + (((y % 2) * 16 + (z \div 16)) \div 16) = y
      <4>1. ((x % 8) * 4 + (y \div 64)) % 4 = y \div 64
        <5> DEFINE u == x % 8
                   v == y \div 64
        <5>1. u \in Nat /\ v \in 0..3
          BY ONLY <3>2
        <5> HIDE DEF u, v
        <5>2. (u * 4 + v) % 4 = v
          BY ONLY <5>1, Remainder, Zenon
        <5> QED BY ONLY <5>2 DEF u, v
      <4>2. ((y % 2) * 16 + (z \div 16)) \div 16 = y % 2
        BY ONLY <3>2, SMTT(30)
      <4>3. (y \div 64) * 64 + ((y \div 2) % 32) * 2 + (y % 2) = y
        BY ONLY <3>2, SMTT(30)
      <4> QED BY ONLY <4>1, <4>2, <4>3, Zenon
    <3> QED BY ONLY <3>3, Zenon DEF x, y, z
  <2> QED BY ONLY <2>1, <2>2, Zenon
<1>13. ByteAt(words, 5 * q + 2) = b(2)
  <2>1. ByteAt(words, 5 * q + 2) =
          (((b(1) % 2) * 16 + (b(2) \div 16)) % 16) * 16 + (((b(2) % 16) * 2 + (b(3) \div 128)) \div 2)
    BY ONLY <1>3, <1>9, Zenon
  <2>2. (((b(1) % 2) * 16 + (b(2) \div 16)) % 16) * 16 + (((b(2) % 16) * 2 + (b(3) \div 128)) \div 2) = b(2)
    <3>1. b(1) \in 0..255 /\ b(2) \in 0..255 /\ b(3) \in 0..255
      BY ONLY <1>10
    <3> DEFINE x == b(1)
               y == b(2)
               z == b(3)
    <3> HIDE DEF x, y, z
    <3>2. x \in 0..255 /\ y \in 0..255 /\ z \in 0..255
      BY ONLY <3>1 DEF x, y, z
    <3>3. (((x % 2) * 16 + (y \div 16)) % 16) * 16 + (((y % 16) * 2 + (z \div 128)) \div 2) = y
      <4>1. ((x % 2) * 16 + (y \div 16)) % 16 = y \div 16
        <5> DEFINE u == x % 2
                   v == y \div 16
        <5>1. u \in Nat /\ v \in 0..15
          BY ONLY <3>2
        <5> HIDE DEF u, v
        <5>2. (u * 16 + v) % 16 = v
          BY ONLY <5>1, Remainder, Zenon
        <5> QED BY ONLY <5>2 DEF u, v
      <4>2. ((y % 16) * 2 + (z \div 128)) \div 2 = y % 16
        BY ONLY <3>2, SMTT(30)
      <4>3. (y \div 16) * 16 + (y % 16) = y
        BY ONLY <3>2, SMTT(30)
      <4> QED BY ONLY <4>1, <4>2, <4>3, Zenon
    <3> QED BY ONLY <3>3, Zenon DEF x, y, z
  <2> QED BY ONLY <2>1, <2>2, Zenon
<1>14. ByteAt(words, 5 * q + 3) = b(3)
  <2>1. ByteAt(words, 5 * q + 3) =
          (((b(2) % 16) * 2 + (b(3) \div 128)) % 2) * 128 + ((b(3) \div 4) % 32) * 4 + (((b(3) % 4) * 8 + (b(4) \div 32)) \div 8)
    BY ONLY <1>3, <1>9, Zenon
  <2>2. (((b(2) % 16) * 2 + (b(3) \div 128)) % 2) * 128 + ((b(3) \div 4) % 32) * 4 + (((b(3) % 4) * 8 + (b(4) \div 32)) \div 8) = b(3)
    <3>1. b(2) \in 0..255 /\ b(3) \in 0..255 /\ b(4) \in 0..255
      BY ONLY <1>10
    <3> DEFINE x == b(2)
               y == b(3)
               z == b(4)
    <3> HIDE DEF x, y, z
    <3>2. x \in 0..255 /\ y \in 0..255 /\ z \in 0..255
      BY ONLY <3>1 DEF x, y, z
    <3>3. (((x % 16) * 2 + (y \div 128)) % 2) * 128 + ((y \div 4) % 32) * 4 + (((y % 4) * 8 + (z \div 32)) \div 8) = y
      <4>1. ((x % 16) * 2 + (y \div 128)) % 2 = y \div 128
        <5> DEFINE u == x % 16
                   v == y \div 128
        <5>1. u \in Nat /\ v \in 0..1
          BY ONLY <3>2
        <5> HIDE DEF u, v
        <5>2. (u * 2 + v) % 2 = v
          BY ONLY <5>1, Remainder, Zenon
        <5> QED BY ONLY <5>2 DEF u, v
      <4>2. ((y % 4) * 8 + (z \div 32)) \div 8 = y % 4
        BY ONLY <3>2, SMTT(30)
      <4>3. (y \div 128) * 128 + ((y \div 4) % 32) * 4 + (y % 4) = y
        BY ONLY <3>2, SMTT(30)
      <4> QED BY ONLY <4>1, <4>2, <4>3, Zenon
    <3> QED BY ONLY <3>3, Zenon DEF x, y, z
  <2> QED BY ONLY <2>1, <2>2, Zenon
<1>15. ByteAt(words, 5 * q + 4) = b(4)
  <2>1. ByteAt(words, 5 * q + 4) =
          (((b(3) % 4) * 8 + (b(4) \div 32)) % 8) * 32 + (b(4) % 32)
    BY ONLY <1>3, <1>9, Zenon
  <2>2. (((b(3) % 4) * 8 + (b(4) \div 32)) % 8) * 32 + (b(4) % 32) = b(4)
    BY ONLY <1>10, ByteTogether4, Zenon
  <2> QED BY ONLY <2>1, <2>2, Zenon
<1>16. \A r \in 0..4 : r = 0 \/ r = 1 \/ r = 2 \/ r = 3 \/ r = 4
  BY ONLY TRUE
<1> QED BY ONLY <1>11, <1>12, <1>13, <1>14, <1>15, <1>16 DEF b

\* Each formula of WordsOfGroup yields five bits, and none of zeros.
LEMMA WordFormulas ==
  /\ \A a \in 0..255 : a \div 8 \in 0..31 /\ (a = 0 => a \div 8 = 0)
  /\ \A a, b \in 0..255 : (a % 8) * 4 + (b \div 64) \in 0..31 /\ (a = 0 /\ b = 0 => (a % 8) * 4 + (b \div 64) = 0)
  /\ \A a \in 0..255 : (a \div 2) % 32 \in 0..31 /\ (a = 0 => (a \div 2) % 32 = 0)
  /\ \A a, b \in 0..255 : (a % 2) * 16 + (b \div 16) \in 0..31 /\ (a = 0 /\ b = 0 => (a % 2) * 16 + (b \div 16) = 0)
  /\ \A a, b \in 0..255 : (a % 16) * 2 + (b \div 128) \in 0..31 /\ (a = 0 /\ b = 0 => (a % 16) * 2 + (b \div 128) = 0)
  /\ \A a \in 0..255 : (a \div 4) % 32 \in 0..31 /\ (a = 0 => (a \div 4) % 32 = 0)
  /\ \A a, b \in 0..255 : (a % 4) * 8 + (b \div 32) \in 0..31 /\ (a = 0 /\ b = 0 => (a % 4) * 8 + (b \div 32) = 0)
  /\ \A a \in 0..255 : a % 32 \in 0..31 /\ (a = 0 => a % 32 = 0)
<1>1. \A a \in 0..255 : a \div 8 \in 0..31 /\ (a = 0 => a \div 8 = 0)
  BY SMTT(30)
<1>2. \A a, b \in 0..255 : (a % 8) * 4 + (b \div 64) \in 0..31 /\ (a = 0 /\ b = 0 => (a % 8) * 4 + (b \div 64) = 0)
  BY SMTT(30)
<1>3. \A a \in 0..255 : (a \div 2) % 32 \in 0..31 /\ (a = 0 => (a \div 2) % 32 = 0)
  BY SMTT(30)
<1>4. \A a, b \in 0..255 : (a % 2) * 16 + (b \div 16) \in 0..31 /\ (a = 0 /\ b = 0 => (a % 2) * 16 + (b \div 16) = 0)
  BY SMTT(30)
<1>5. \A a, b \in 0..255 : (a % 16) * 2 + (b \div 128) \in 0..31 /\ (a = 0 /\ b = 0 => (a % 16) * 2 + (b \div 128) = 0)
  BY SMTT(30)
<1>6. \A a \in 0..255 : (a \div 4) % 32 \in 0..31 /\ (a = 0 => (a \div 4) % 32 = 0)
  BY SMTT(30)
<1>7. \A a, b \in 0..255 : (a % 4) * 8 + (b \div 32) \in 0..31 /\ (a = 0 /\ b = 0 => (a % 4) * 8 + (b \div 32) = 0)
  BY SMTT(30)
<1>8. \A a \in 0..255 : a % 32 \in 0..31 /\ (a = 0 => a % 32 = 0)
  BY SMTT(30)
<1> QED BY ONLY <1>1, <1>2, <1>3, <1>4, <1>5, <1>6, <1>7, <1>8, Zenon

\* A word beyond the last byte is zero.
LEMMA WordAtType ==
  ASSUME NEW bytes \in Seq(0..255), NEW m \in Nat
  PROVE  WordAt(bytes, m) \in 0..31 /\ (5 * m >= 8 * Len(bytes) => WordAt(bytes, m) = 0)
<1> DEFINE q == m \div 8
           L == Len(bytes)
<1>1. L \in Nat /\ q \in Nat
  BY LenProperties
<1>2. m = 8 * q \/ m = 8 * q + 1 \/ m = 8 * q + 2 \/ m = 8 * q + 3
        \/ m = 8 * q + 4 \/ m = 8 * q + 5 \/ m = 8 * q + 6 \/ m = 8 * q + 7
  BY ONLY m \in Nat
<1> HIDE DEF q, L
<1>3. ASSUME NEW i \in Nat PROVE At(bytes, i) \in 0..255 /\ (i >= L => At(bytes, i) = 0)
  <2>1. 255 \in Nat
    OBVIOUS
  <2> QED BY <2>1, AtByte DEF L
<1>5. CASE m = 8 * q
  <2> DEFINE a == At(bytes, 5 * q)
  <2>1. WordAt(bytes, m) = a \div 8
    BY ONLY <1>5, <1>1, bytes \in Seq(0..255), WordsOfGroup
  <2>2. a \in 0..255
    BY ONLY <1>1, <1>3
  <2>3. 5 * m >= 8 * L => a = 0
    <3>1. 5 * m >= 8 * L => 5 * q >= L
      BY ONLY <1>5, <1>1
    <3>2. 5 * q \in Nat
      BY ONLY <1>1
    <3> QED BY ONLY <3>1, <3>2, <1>3
  <2> HIDE DEF a
  <2>4. a \div 8 \in 0..31 /\ (5 * m >= 8 * L => a \div 8 = 0)
    BY ONLY <2>2, <2>3, WordFormulas, ZenonT(40)
  <2> QED BY ONLY <2>1, <2>4, Zenon DEF L
<1>6. CASE m = 8 * q + 1
  <2> DEFINE a == At(bytes, 5 * q)
             b == At(bytes, 5 * q + 1)
  <2>1. WordAt(bytes, m) = (a % 8) * 4 + (b \div 64)
    BY ONLY <1>6, <1>1, bytes \in Seq(0..255), WordsOfGroup
  <2>2. a \in 0..255 /\ b \in 0..255
    BY ONLY <1>1, <1>3
  <2>3. 5 * m >= 8 * L => a = 0 /\ b = 0
    <3>1. 5 * m >= 8 * L => 5 * q >= L /\ 5 * q + 1 >= L
      BY ONLY <1>6, <1>1
    <3>2. 5 * q \in Nat /\ 5 * q + 1 \in Nat
      BY ONLY <1>1
    <3> QED BY ONLY <3>1, <3>2, <1>3
  <2> HIDE DEF a, b
  <2>4. (a % 8) * 4 + (b \div 64) \in 0..31 /\ (5 * m >= 8 * L => (a % 8) * 4 + (b \div 64) = 0)
    <3>1. \A x, y \in 0..255 : (x % 8) * 4 + (y \div 64) \in 0..31 /\ (x = 0 /\ y = 0 => (x % 8) * 4 + (y \div 64) = 0)
      BY ONLY WordFormulas, Zenon
    <3> QED BY ONLY <2>2, <2>3, <3>1, Zenon
  <2> QED BY ONLY <2>1, <2>4, Zenon DEF L
<1>7. CASE m = 8 * q + 2
  <2> DEFINE a == At(bytes, 5 * q + 1)
  <2>1. WordAt(bytes, m) = (a \div 2) % 32
    BY ONLY <1>7, <1>1, bytes \in Seq(0..255), WordsOfGroup
  <2>2. a \in 0..255
    BY ONLY <1>1, <1>3
  <2>3. 5 * m >= 8 * L => a = 0
    <3>1. 5 * m >= 8 * L => 5 * q + 1 >= L
      BY ONLY <1>7, <1>1
    <3>2. 5 * q + 1 \in Nat
      BY ONLY <1>1
    <3> QED BY ONLY <3>1, <3>2, <1>3
  <2> HIDE DEF a
  <2>4. (a \div 2) % 32 \in 0..31 /\ (5 * m >= 8 * L => (a \div 2) % 32 = 0)
    BY ONLY <2>2, <2>3, WordFormulas, Zenon
  <2> QED BY ONLY <2>1, <2>4, Zenon DEF L
<1>8. CASE m = 8 * q + 3
  <2> DEFINE a == At(bytes, 5 * q + 1)
             b == At(bytes, 5 * q + 2)
  <2>1. WordAt(bytes, m) = (a % 2) * 16 + (b \div 16)
    BY ONLY <1>8, <1>1, bytes \in Seq(0..255), WordsOfGroup
  <2>2. a \in 0..255 /\ b \in 0..255
    BY ONLY <1>1, <1>3
  <2>3. 5 * m >= 8 * L => a = 0 /\ b = 0
    <3>1. 5 * m >= 8 * L => 5 * q + 1 >= L /\ 5 * q + 2 >= L
      BY ONLY <1>8, <1>1
    <3>2. 5 * q + 1 \in Nat /\ 5 * q + 2 \in Nat
      BY ONLY <1>1
    <3> QED BY ONLY <3>1, <3>2, <1>3
  <2> HIDE DEF a, b
  <2>4. (a % 2) * 16 + (b \div 16) \in 0..31 /\ (5 * m >= 8 * L => (a % 2) * 16 + (b \div 16) = 0)
    <3>1. \A x, y \in 0..255 : (x % 2) * 16 + (y \div 16) \in 0..31 /\ (x = 0 /\ y = 0 => (x % 2) * 16 + (y \div 16) = 0)
      BY ONLY WordFormulas, Zenon
    <3> QED BY ONLY <2>2, <2>3, <3>1, Zenon
  <2> QED BY ONLY <2>1, <2>4, Zenon DEF L
<1>9. CASE m = 8 * q + 4
  <2> DEFINE a == At(bytes, 5 * q + 2)
             b == At(bytes, 5 * q + 3)
  <2>1. WordAt(bytes, m) = (a % 16) * 2 + (b \div 128)
    BY ONLY <1>9, <1>1, bytes \in Seq(0..255), WordsOfGroup
  <2>2. a \in 0..255 /\ b \in 0..255
    BY ONLY <1>1, <1>3
  <2>3. 5 * m >= 8 * L => a = 0 /\ b = 0
    <3>1. 5 * m >= 8 * L => 5 * q + 2 >= L /\ 5 * q + 3 >= L
      BY ONLY <1>9, <1>1
    <3>2. 5 * q + 2 \in Nat /\ 5 * q + 3 \in Nat
      BY ONLY <1>1
    <3> QED BY ONLY <3>1, <3>2, <1>3
  <2> HIDE DEF a, b
  <2>4. (a % 16) * 2 + (b \div 128) \in 0..31 /\ (5 * m >= 8 * L => (a % 16) * 2 + (b \div 128) = 0)
    <3>1. \A x, y \in 0..255 : (x % 16) * 2 + (y \div 128) \in 0..31 /\ (x = 0 /\ y = 0 => (x % 16) * 2 + (y \div 128) = 0)
      BY ONLY WordFormulas, Zenon
    <3> QED BY ONLY <2>2, <2>3, <3>1, ZenonT(40)
  <2> QED BY ONLY <2>1, <2>4, Zenon DEF L
<1>10. CASE m = 8 * q + 5
  <2> DEFINE a == At(bytes, 5 * q + 3)
  <2>1. WordAt(bytes, m) = (a \div 4) % 32
    BY ONLY <1>10, <1>1, bytes \in Seq(0..255), WordsOfGroup
  <2>2. a \in 0..255
    BY ONLY <1>1, <1>3
  <2>3. 5 * m >= 8 * L => a = 0
    <3>1. 5 * m >= 8 * L => 5 * q + 3 >= L
      BY ONLY <1>10, <1>1
    <3>2. 5 * q + 3 \in Nat
      BY ONLY <1>1
    <3> QED BY ONLY <3>1, <3>2, <1>3
  <2> HIDE DEF a
  <2>4. (a \div 4) % 32 \in 0..31 /\ (5 * m >= 8 * L => (a \div 4) % 32 = 0)
    BY ONLY <2>2, <2>3, WordFormulas, Zenon
  <2> QED BY ONLY <2>1, <2>4, Zenon DEF L
<1>11. CASE m = 8 * q + 6
  <2> DEFINE a == At(bytes, 5 * q + 3)
             b == At(bytes, 5 * q + 4)
  <2>1. WordAt(bytes, m) = (a % 4) * 8 + (b \div 32)
    BY ONLY <1>11, <1>1, bytes \in Seq(0..255), WordsOfGroup
  <2>2. a \in 0..255 /\ b \in 0..255
    BY ONLY <1>1, <1>3
  <2>3. 5 * m >= 8 * L => a = 0 /\ b = 0
    <3>1. 5 * m >= 8 * L => 5 * q + 3 >= L /\ 5 * q + 4 >= L
      BY ONLY <1>11, <1>1
    <3>2. 5 * q + 3 \in Nat /\ 5 * q + 4 \in Nat
      BY ONLY <1>1
    <3> QED BY ONLY <3>1, <3>2, <1>3
  <2> HIDE DEF a, b
  <2>4. (a % 4) * 8 + (b \div 32) \in 0..31 /\ (5 * m >= 8 * L => (a % 4) * 8 + (b \div 32) = 0)
    <3>1. \A x, y \in 0..255 : (x % 4) * 8 + (y \div 32) \in 0..31 /\ (x = 0 /\ y = 0 => (x % 4) * 8 + (y \div 32) = 0)
      BY ONLY WordFormulas, Zenon
    <3> QED BY ONLY <2>2, <2>3, <3>1, Zenon
  <2> QED BY ONLY <2>1, <2>4, Zenon DEF L
<1>12. CASE m = 8 * q + 7
  <2> DEFINE a == At(bytes, 5 * q + 4)
  <2>1. WordAt(bytes, m) = a % 32
    BY ONLY <1>12, <1>1, bytes \in Seq(0..255), WordsOfGroup
  <2>2. a \in 0..255
    BY ONLY <1>1, <1>3
  <2>3. 5 * m >= 8 * L => a = 0
    <3>1. 5 * m >= 8 * L => 5 * q + 4 >= L
      BY ONLY <1>12, <1>1
    <3>2. 5 * q + 4 \in Nat
      BY ONLY <1>1
    <3> QED BY ONLY <3>1, <3>2, <1>3
  <2> HIDE DEF a
  <2>4. a % 32 \in 0..31 /\ (5 * m >= 8 * L => a % 32 = 0)
    BY ONLY <2>2, <2>3, WordFormulas, Zenon
  <2> QED BY ONLY <2>1, <2>4, Zenon DEF L
<1> QED BY ONLY <1>2, <1>5, <1>6, <1>7, <1>8, <1>9, <1>10, <1>11, <1>12

\* Regrouping eight words of bits as five and back loses nothing.
LEMMA RegroupBack ==
  ASSUME NEW bytes \in Seq(0..255), NEW count, count = (8 * Len(bytes) + 4) \div 5,
         NEW words, words = Regroup(bytes, 8, 5, count)
  PROVE  /\ words \in Seq(0..31) /\ Len(words) = count /\ count \in Nat
         /\ (5 * count) \div 8 = Len(bytes) /\ count % 8 \notin {1, 3, 6}
         /\ Regroup(words, 5, 8, Len(bytes)) = bytes
<1> DEFINE L == Len(bytes)
<1>1. L \in Nat /\ bytes = [i \in 1..L |-> bytes[i]]
  BY LenProperties
<1>2. count = (8 * L + 4) \div 5
  OBVIOUS
<1> HIDE DEF L
<1>3. count \in Nat /\ (5 * count) \div 8 = L /\ count % 8 \notin {1, 3, 6} /\ 5 * count >= 8 * L
  <2> DEFINE q == L \div 5
             r == L % 5
  <2>1. q \in Nat /\ r \in 0..4 /\ L = 5 * q + r
    BY ONLY <1>1
  <2> HIDE DEF q, r
  <2>2. \/ r = 0 /\ count = 8 * q
        \/ r = 1 /\ count = 8 * q + 2
        \/ r = 2 /\ count = 8 * q + 4
        \/ r = 3 /\ count = 8 * q + 5
        \/ r = 4 /\ count = 8 * q + 7
    BY ONLY <2>1, <1>2, SMTT(30)
  <2>3. count \in Nat /\ 5 * count >= 8 * L
    BY ONLY <2>1, <2>2, SMTT(30)
  <2>4. (5 * count) \div 8 = L
    BY ONLY <2>1, <2>2, SMTT(30)
  <2>5. count % 8 \notin {1, 3, 6}
    BY ONLY <2>1, <2>2, SMTT(30)
  <2> QED BY ONLY <2>3, <2>4, <2>5
<1>4. words = [j \in 1..count |-> WordAt(bytes, j - 1)]
  BY <1>3, RegroupAt
<1>5. \A m \in Nat : WordAt(bytes, m) \in 0..31 /\ (5 * m >= 8 * L => WordAt(bytes, m) = 0)
  BY WordAtType DEF L
<1>6. words \in Seq(0..31) /\ Len(words) = count
  <2>1. \A j \in 1..count : WordAt(bytes, j - 1) \in 0..31
    <3>1. \A j \in 1..count : j - 1 \in Nat
      BY ONLY <1>3
    <3> QED BY ONLY <3>1, <1>5
  <2> QED BY ONLY <1>3, <1>4, <2>1
<1>7. ASSUME NEW m \in Nat PROVE At(words, m) = WordAt(bytes, m)
  <2>1. CASE m < count
    <3>1. m + 1 \in 1..count /\ (m + 1) - 1 = m
      BY ONLY <1>3, <2>1, m \in Nat
    <3>2. words[m + 1] = WordAt(bytes, m)
      BY ONLY <3>1, <1>4
    <3> QED BY ONLY <3>2, <2>1, <1>6 DEF At
  <2>2. CASE ~(m < count)
    <3>1. 5 * m >= 8 * L
      BY ONLY <1>1, <1>3, <2>2, m \in Nat
    <3>2. At(words, m) = 0
      BY ONLY <2>2, <1>6 DEF At
    <3> QED BY ONLY <3>1, <3>2, <1>5, m \in Nat
  <2> QED BY ONLY <2>1, <2>2
<1>8. ASSUME NEW n \in Nat PROVE ByteAt(words, n) = At(bytes, n)
  <2> DEFINE q == n \div 5
             r == n % 5
  <2>1. q \in Nat /\ r \in 0..4 /\ n = 5 * q + r
    OBVIOUS
  <2> HIDE DEF q, r
  <2>2. \A m \in Nat : At(words, m) = WordAt(bytes, m)
    BY ONLY <1>7
  <2>3. \A s \in 0..4 : ByteAt(words, 5 * q + s) = At(bytes, 5 * q + s)
    BY ONLY <2>1, <2>2, <1>6, bytes \in Seq(0..255), BytesOfGroup
  <2> QED BY ONLY <2>1, <2>3
<1>9. Regroup(words, 5, 8, L) = [j \in 1..L |-> ByteAt(words, j - 1)]
  BY ONLY <1>1, RegroupAt
<1>10. ASSUME NEW j \in 1..L PROVE ByteAt(words, j - 1) = bytes[j]
  <2>1. j - 1 \in Nat /\ (j - 1) + 1 = j /\ j - 1 < L
    BY ONLY <1>1, j \in 1..L
  <2>2. At(bytes, j - 1) = bytes[j]
    BY ONLY <2>1 DEF At, L
  <2> QED BY ONLY <2>1, <2>2, <1>8
<1>11. Regroup(words, 5, 8, L) = bytes
  BY ONLY <1>1, <1>9, <1>10
<1> QED BY ONLY <1>3, <1>6, <1>11 DEF L

----------------------------------------------------------------------------
(* UTF-8.                                                                  *)

\* The code point of the bytes p, as in FromUtf8.
CodeOf(p) ==
  CASE Len(p) = 1 -> p[1]
    [] Len(p) = 2 -> 64 * (p[1] % 32) + (p[2] % 64)
    [] Len(p) = 3 -> 4096 * (p[1] % 16) + 64 * (p[2] % 64) + (p[3] % 64)
    [] OTHER -> 262144 * (p[1] % 8) + 4096 * (p[2] % 64) + 64 * (p[3] % 64) + (p[4] % 64)

\* What a character becomes.
Utf8Blocks == { Utf8(c) : c \in CodePoints }

\* What follows the first byte continues it.
LEMMA TailBytes == \A c \in Nat : /\ 128 + (c % 64) \in 128..191
                                  /\ (128 + (c % 64)) % 64 = c % 64
<1>1. \A c \in Nat : 128 + (c % 64) \in 128..191
  BY SMTT(30)
<1>2. \A c \in Nat : (128 + (c % 64)) % 64 = c % 64
  BY SMTT(30)
<1> QED BY ONLY <1>1, <1>2, SMT

\* Of two, of three and of four bytes: the first one, and the parts of the
\* code point that each of them holds.
LEMMA TwoBytes ==
  ASSUME NEW c \in Nat, 128 <= c, c < 2048
  PROVE  192 + (c \div 64) \in 192..255 /\ 64 * ((192 + (c \div 64)) % 32) + (c % 64) = c
<1> DEFINE h == c \div 64
           l == c % 64
<1>1. h \in 2..31
  BY SMTT(30)
<1>2. c = 64 * h + l
  BY SMTT(30)
<1> HIDE DEF h, l
<1>3. (192 + h) % 32 = h /\ 192 + h \in 192..255
  BY ONLY <1>1, SMTT(30)
<1>4. 64 * ((192 + h) % 32) + l = c
  BY ONLY <1>2, <1>3, SMT
<1> QED BY ONLY <1>3, <1>4, SMT DEF h, l

\* As TwoBytes, for the characters of three bytes.
LEMMA ThreeBytes ==
  ASSUME NEW c \in Nat, 2048 <= c, c < 65536
  PROVE  /\ 224 + (c \div 4096) \in 192..255
         /\ 4096 * ((224 + (c \div 4096)) % 16) + 64 * ((c \div 64) % 64) + (c % 64) = c
<1> DEFINE h == c \div 4096
           m == (c \div 64) % 64
           l == c % 64
<1>1. h \in 0..15
  BY SMTT(30)
<1>2. c = 4096 * h + 64 * m + l
  BY SMTT(30)
<1> HIDE DEF h, m, l
<1>3. (224 + h) % 16 = h /\ 224 + h \in 192..255
  BY ONLY <1>1, SMTT(30)
<1>4. 4096 * ((224 + h) % 16) + 64 * m + l = c
  BY ONLY <1>2, <1>3, SMT
<1> QED BY ONLY <1>3, <1>4, SMT DEF h, m, l

\* As TwoBytes, for the characters of four bytes.
LEMMA FourBytes ==
  ASSUME NEW c \in Nat, 65536 <= c, c <= 1114111
  PROVE  /\ 240 + (c \div 262144) \in 192..255
         /\ 262144 * ((240 + (c \div 262144)) % 8) + 4096 * ((c \div 4096) % 64)
              + 64 * ((c \div 64) % 64) + (c % 64) = c
<1> DEFINE h == c \div 262144
           k == (c \div 4096) % 64
           m == (c \div 64) % 64
           l == c % 64
<1>1. h \in 0..4
  BY SMTT(30)
<1>2. c = 262144 * h + 4096 * k + 64 * m + l
  BY SMTT(30)
<1> HIDE DEF h, k, m, l
<1>3. (240 + h) % 8 = h /\ 240 + h \in 192..255
  BY ONLY <1>1, SMTT(30)
<1>4. 262144 * ((240 + h) % 8) + 4096 * k + 64 * m + l = c
  BY ONLY <1>2, <1>3, SMT
<1> QED BY ONLY <1>3, <1>4, SMT DEF h, k, m, l

\* Each form of a character's bytes.
LEMMA Utf8Forms ==
  ASSUME NEW c \in CodePoints
  PROVE  LET t(n) == 128 + (n % 64)
         IN \/ c < 128 /\ Utf8(c) = <<c>>
            \/ 128 <= c /\ c < 2048 /\ Utf8(c) = <<192 + (c \div 64), t(c)>>
            \/ 2048 <= c /\ c < 65536
                 /\ Utf8(c) = <<224 + (c \div 4096), t(c \div 64), t(c)>>
            \/ 65536 <= c
                 /\ Utf8(c) = <<240 + (c \div 262144), t(c \div 4096), t(c \div 64), t(c)>>
<1>1. c \in Nat
  BY SMT DEF CodePoints
<1>2. c \div 1 = c
  BY ONLY <1>1, SMT
<1>3. CASE c < 128
  <2>1. Utf8(c) = <<c>>
    BY ONLY <1>1, <1>3, SMT DEF Utf8
  <2> QED BY ONLY <1>3, <2>1, SMT
<1>4. CASE 128 <= c /\ c < 2048
  <2>1. Utf8(c) = <<192 + (c \div 64), 128 + (c % 64)>>
    <3>1. ~(c < 128) /\ ~(2048 <= c /\ c < 65536)
      BY ONLY <1>1, <1>4, SMT
    <3> QED BY ONLY <1>1, <1>2, <1>4, <3>1, SMT DEF Utf8
  <2> QED BY ONLY <1>4, <2>1, SMT
<1>5. CASE 2048 <= c /\ c < 65536
  <2>1. Utf8(c) = <<224 + (c \div 4096), 128 + ((c \div 64) % 64), 128 + (c % 64)>>
    <3>1. ~(c < 128) /\ ~(128 <= c /\ c < 2048)
      BY ONLY <1>1, <1>5, SMT
    <3> QED BY ONLY <1>1, <1>2, <1>5, <3>1, SMT DEF Utf8
  <2> QED BY ONLY <1>5, <2>1, SMT
<1>6. CASE 65536 <= c
  <2>1. Utf8(c) = <<240 + (c \div 262144), 128 + ((c \div 4096) % 64), 128 + ((c \div 64) % 64), 128 + (c % 64)>>
    <3>1. ~(c < 128) /\ ~(128 <= c /\ c < 2048) /\ ~(2048 <= c /\ c < 65536)
      BY ONLY <1>1, <1>6, SMT
    <3> QED BY ONLY <1>1, <1>2, <1>6, <3>1, SMT DEF Utf8
  <2> QED BY ONLY <1>6, <2>1, SMT
<1>7. c < 128 \/ (128 <= c /\ c < 2048) \/ (2048 <= c /\ c < 65536) \/ 65536 <= c
  BY ONLY <1>1, SMT
<1> QED BY ONLY <1>3, <1>4, <1>5, <1>6, <1>7, SMT

\* A character is one to four bytes of which only the first begins one.
LEMMA Utf8Bytes ==
  ASSUME NEW c \in CodePoints
  PROVE  /\ Utf8(c) \in Seq(0..255) /\ Len(Utf8(c)) \in 1..4
         /\ Utf8(c)[1] \notin 128..191
         /\ \A i \in 2..Len(Utf8(c)) : Utf8(c)[i] \in 128..191
         /\ CodeOf(Utf8(c)) = c
<1> DEFINE t(n) == 128 + (n % 64)
<1>1. c \in Nat /\ c <= 1114111
  BY SMT DEF CodePoints
<1>2. c \div 64 \in Nat /\ c \div 4096 \in Nat
  BY ONLY <1>1, SMT
<1>3. \A n \in Nat : t(n) \in 128..191 /\ t(n) % 64 = n % 64
  BY ONLY TailBytes, SMT
<1>4. \/ c < 128 /\ Utf8(c) = <<c>>
      \/ 128 <= c /\ c < 2048 /\ Utf8(c) = <<192 + (c \div 64), t(c)>>
      \/ 2048 <= c /\ c < 65536
            /\ Utf8(c) = <<224 + (c \div 4096), t(c \div 64), t(c)>>
      \/ 65536 <= c
            /\ Utf8(c) = <<240 + (c \div 262144), t(c \div 4096), t(c \div 64), t(c)>>
  BY Utf8Forms, SMT
<1> HIDE DEF t
<1>5. CASE c < 128 /\ Utf8(c) = <<c>>
  <2>1. c \in 0..127
    BY ONLY <1>1, <1>5, SMT
  <2> QED BY ONLY <2>1, <1>5, SMT DEF CodeOf
<1>6. CASE 128 <= c /\ c < 2048 /\ Utf8(c) = <<192 + (c \div 64), t(c)>>
  <2> DEFINE h == 192 + (c \div 64)
             x == t(c)
  <2>1. h \in 192..255 /\ 64 * (h % 32) + (c % 64) = c
    BY ONLY <1>1, <1>6, TwoBytes, SMT
  <2>2. x \in 128..191 /\ x % 64 = c % 64
    BY ONLY <1>1, <1>3, SMT
  <2>3. Utf8(c) = <<h, x>>
    BY ONLY <1>6, SMT DEF h, x
  <2> HIDE DEF h, x
  <2> QED BY ONLY <2>1, <2>2, <2>3, SMT DEF CodeOf
<1>7. CASE 2048 <= c /\ c < 65536
             /\ Utf8(c) = <<224 + (c \div 4096), t(c \div 64), t(c)>>
  <2> DEFINE h == 224 + (c \div 4096)
             x == t(c \div 64)
             y == t(c)
  <2>1. h \in 192..255 /\ 4096 * (h % 16) + 64 * ((c \div 64) % 64) + (c % 64) = c
    BY ONLY <1>1, <1>7, ThreeBytes, SMT
  <2>2. /\ x \in 128..191 /\ x % 64 = (c \div 64) % 64
        /\ y \in 128..191 /\ y % 64 = c % 64
    BY ONLY <1>1, <1>2, <1>3, SMT
  <2>3. Utf8(c) = <<h, x, y>>
    BY ONLY <1>7, SMT DEF h, x, y
  <2> HIDE DEF h, x, y
  <2>4. 4096 * (h % 16) + 64 * (x % 64) + (y % 64) = c
    BY ONLY <2>1, <2>2, SMT
  <2> QED BY ONLY <2>1, <2>2, <2>3, <2>4, SMT DEF CodeOf
<1>8. CASE 65536 <= c
             /\ Utf8(c) = <<240 + (c \div 262144), t(c \div 4096), t(c \div 64), t(c)>>
  <2> DEFINE h == 240 + (c \div 262144)
             w == t(c \div 4096)
             x == t(c \div 64)
             y == t(c)
  <2>1. /\ h \in 192..255
        /\ 262144 * (h % 8) + 4096 * ((c \div 4096) % 64) + 64 * ((c \div 64) % 64) + (c % 64) = c
    BY ONLY <1>1, <1>8, FourBytes, SMT
  <2>2. /\ w \in 128..191 /\ w % 64 = (c \div 4096) % 64
        /\ x \in 128..191 /\ x % 64 = (c \div 64) % 64
        /\ y \in 128..191 /\ y % 64 = c % 64
    BY ONLY <1>1, <1>2, <1>3, SMT
  <2>3. Utf8(c) = <<h, w, x, y>>
    BY ONLY <1>8, SMT DEF h, w, x, y
  <2> HIDE DEF h, w, x, y
  <2>4. 262144 * (h % 8) + 4096 * (w % 64) + 64 * (x % 64) + (y % 64) = c
    BY ONLY <2>1, <2>2, SMT
  <2> QED BY ONLY <2>1, <2>2, <2>3, <2>4, SMT DEF CodeOf
<1> QED BY ONLY <1>4, <1>5, <1>6, <1>7, <1>8, SMT

\* No character ends another: its first byte continues none.
LEMMA Utf8BlocksProperties ==
  Utf8Blocks \subseteq Seq(0..255) /\ <<>> \notin Utf8Blocks /\ SuffixFree(Utf8Blocks)
<1>1. \A b \in Utf8Blocks : /\ b \in Seq(0..255) /\ Len(b) \in 1..4 /\ b[1] \notin 128..191
                            /\ \A i \in 2..Len(b) : b[i] \in 128..191
  <2> TAKE b \in Utf8Blocks
  <2>1. PICK c \in CodePoints : b = Utf8(c)
    BY DEF Utf8Blocks
  <2>2. /\ Utf8(c) \in Seq(0..255) /\ Len(Utf8(c)) \in 1..4 /\ Utf8(c)[1] \notin 128..191
        /\ \A i \in 2..Len(Utf8(c)) : Utf8(c)[i] \in 128..191
    BY ONLY c \in CodePoints, Utf8Bytes, ZenonT(40)
  <2> QED BY ONLY <2>1, <2>2, Zenon
<1>2. ASSUME NEW b \in Utf8Blocks, NEW c \in Utf8Blocks, Ends(c, b)
      PROVE  b = c
  <2>1. /\ Len(b) \in 1..4 /\ Len(c) \in 1..4 /\ b \in Seq(0..255) /\ c \in Seq(0..255)
        /\ b[1] \notin 128..191 /\ \A i \in 2..Len(c) : c[i] \in 128..191
    BY <1>1
  <2>2. /\ Len(b) <= Len(c)
        /\ \A i \in 1..Len(b) : c[Len(c) - Len(b) + i] = b[i]
    BY <1>2 DEF Ends
  <2>3. Len(b) = Len(c)
    <3> SUFFICES ASSUME Len(b) < Len(c) PROVE FALSE
      BY <2>1, <2>2
    <3> DEFINE m == Len(b)
               n == Len(c)
    <3>0. m \in 1..4 /\ n \in 1..4 /\ m < n
      BY <2>1
    <3> HIDE DEF m, n
    <3>1. Len(c) - Len(b) + 1 \in 2..Len(c) /\ 1 \in 1..Len(b)
      BY ONLY <3>0 DEF m, n
    <3>2. c[Len(c) - Len(b) + 1] = b[1]
      BY ONLY <2>2, <3>1
    <3> QED BY ONLY <2>1, <3>1, <3>2
  <2>4. \A i \in 1..Len(b) : c[i] = b[i]
    <3>1. \A i \in 1..Len(b) : Len(c) - Len(b) + i = i
      BY ONLY <2>1, <2>3
    <3> QED BY ONLY <2>2, <3>1
  <2> QED BY ONLY <2>1, <2>3, <2>4, SeqEqual
<1>3. <<>> \notin Utf8Blocks
  <2>1. ASSUME <<>> \in Utf8Blocks PROVE FALSE
    <3>1. Len(<<>>) \in 1..4
      BY ONLY <1>1, <2>1
    <3> QED BY ONLY <3>1
  <2> QED BY <2>1
<1> QED BY <1>1, <1>2, <1>3 DEF SuffixFree

\* The bytes of a key.
Utf8BlocksOf(key) == [i \in DOMAIN key |-> Utf8(key[i])]
\* The bytes of a key.
BytesOf(key) == FlattenSeq(Utf8BlocksOf(key))

\* What Utf8BlocksOf and BytesOf are made of.
LEMMA Utf8BlocksOfProperties ==
  ASSUME NEW key \in Seq(CodePoints)
  PROVE  /\ Utf8BlocksOf(key) \in Seq(Utf8Blocks) /\ Len(Utf8BlocksOf(key)) = Len(key)
         /\ \A i \in 1..Len(key) : Utf8BlocksOf(key)[i] = Utf8(key[i]) /\ key[i] \in CodePoints
         /\ BytesOf(key) \in Seq(0..255)
<1>1. Len(key) \in Nat /\ DOMAIN key = 1..Len(key) /\ \A i \in 1..Len(key) : key[i] \in CodePoints
  BY LenProperties, ElementOfSeq
<1>2. /\ Utf8BlocksOf(key) = [i \in 1..Len(key) |-> Utf8(key[i])]
      /\ \A i \in 1..Len(key) : Utf8(key[i]) \in Utf8Blocks
  BY <1>1 DEF Utf8BlocksOf, Utf8Blocks
<1>3. Utf8BlocksOf(key) \in Seq(Utf8Blocks) /\ Len(Utf8BlocksOf(key)) = Len(key)
  BY ONLY <1>1, <1>2
<1>4. BytesOf(key) \in Seq(0..255)
  <2>1. Utf8BlocksOf(key) \in Seq(Seq(0..255))
    BY ONLY <1>3, Utf8BlocksProperties, SeqMonotonic
  <2>2. FlattenSeq(Utf8BlocksOf(key)) \in Seq(0..255)
    BY ONLY <2>1, FlattenType
  <2> QED BY ONLY <2>2, Zenon DEF BytesOf
<1> QED BY <1>1, <1>2, <1>3, <1>4

\* No two keys have the same bytes.
LEMMA BytesInjective ==
  ASSUME NEW k \in Seq(CodePoints), NEW l \in Seq(CodePoints), BytesOf(k) = BytesOf(l)
  PROVE  k = l
<1>1. Utf8BlocksOf(k) = Utf8BlocksOf(l)
  <2>1. Utf8BlocksOf(k) \in Seq(Utf8Blocks) /\ Utf8BlocksOf(l) \in Seq(Utf8Blocks)
    BY Utf8BlocksOfProperties
  <2>2. \A ss, tt \in Seq(Utf8Blocks) : FlattenSeq(ss) = FlattenSeq(tt) => ss = tt
    BY Utf8BlocksProperties, FlattenInjective
  <2> QED BY <2>1, <2>2 DEF BytesOf
<1>2. /\ Len(Utf8BlocksOf(k)) = Len(k)
      /\ \A i \in 1..Len(k) : Utf8BlocksOf(k)[i] = Utf8(k[i]) /\ k[i] \in CodePoints
  BY Utf8BlocksOfProperties
<1>3. /\ Len(Utf8BlocksOf(l)) = Len(l)
      /\ \A i \in 1..Len(l) : Utf8BlocksOf(l)[i] = Utf8(l[i]) /\ l[i] \in CodePoints
  BY Utf8BlocksOfProperties
<1>4. \A i \in 1..Len(k) : k[i] = l[i]
  <2>1. \A c \in CodePoints : CodeOf(Utf8(c)) = c
    BY Utf8Bytes
  <2> QED BY ONLY <1>1, <1>2, <1>3, <2>1
<1> QED BY <1>1, <1>2, <1>3, <1>4, SeqEqual

----------------------------------------------------------------------------
(* Base32.                                                                 *)

\* The symbols of a base32 tag.
Base32Symbols == Figures \cup (97..118)

\* A symbol stands for the word it was made from.
LEMMA Base32SymbolTable ==
  \A n \in 0..31 : /\ Base32Symbol(n) \in Base32Symbols
                   /\ Base32Value(Base32Symbol(n)) = n
<1> TAKE n \in 0..31
<1>1. CASE n < 10
  <2>1. Base32Symbol(n) = 48 + n /\ 48 + n \in 48..57
    BY <1>1, SMT DEF Base32Symbol
  <2>2. Base32Value(48 + n) = n
    BY ONLY n \in 0..31, <2>1, SMT DEF Base32Value
  <2> QED BY ONLY <2>1, <2>2, SMT DEF Base32Symbols, Figures
<1>2. CASE ~(n < 10)
  <2>1. Base32Symbol(n) = 87 + n /\ 87 + n \in 97..118 /\ 87 + n \notin 48..57 /\ 87 + n \notin 65..86
    BY <1>2, SMT DEF Base32Symbol
  <2>2. Base32Value(87 + n) = n
    BY ONLY n \in 0..31, <2>1, SMT DEF Base32Value
  <2> QED BY ONLY <2>1, <2>2, SMT DEF Base32Symbols, Figures
<1> QED BY ONLY <1>1, <1>2

\* None of them is an underscore, and all are symbols of the other encoding.
LEMMA Base32SymbolsAreSymbols ==
  Underscore \notin Base32Symbols /\ Base32Symbols \subseteq (Letters \cup Figures) \cap Nat
BY SMT DEF Base32Symbols, Underscore, Letters, Figures

\* The words of five bits of a key.
WordsOf(key) == Regroup(BytesOf(key), 8, 5, (8 * Len(BytesOf(key)) + 4) \div 5)

\* Their number is one that the decoder admits, and they give the bytes back.
LEMMA WordsOfProperties ==
  ASSUME NEW key \in Seq(CodePoints)
  PROVE  /\ BytesOf(key) \in Seq(0..255)
         /\ WordsOf(key) \in Seq(0..31)
         /\ (5 * Len(WordsOf(key))) \div 8 = Len(BytesOf(key))
         /\ Len(WordsOf(key)) % 8 \notin {1, 3, 6}
         /\ Len(WordsOf(key)) = (8 * Len(BytesOf(key)) + 4) \div 5
         /\ Regroup(WordsOf(key), 5, 8, Len(BytesOf(key))) = BytesOf(key)
<1>1. BytesOf(key) \in Seq(0..255)
  BY Utf8BlocksOfProperties
<1> DEFINE bytes == BytesOf(key)
           count == (8 * Len(bytes) + 4) \div 5
           words == Regroup(bytes, 8, 5, count)
<1>2. words = WordsOf(key)
  BY DEF WordsOf
<1> HIDE DEF words, count, bytes
<1>3. bytes \in Seq(0..255) /\ count = (8 * Len(bytes) + 4) \div 5 /\ words = Regroup(bytes, 8, 5, count)
  BY <1>1 DEF bytes, count, words
<1>4. /\ words \in Seq(0..31) /\ Len(words) = count
      /\ (5 * count) \div 8 = Len(bytes) /\ count % 8 \notin {1, 3, 6}
      /\ Regroup(words, 5, 8, Len(bytes)) = bytes
  BY ONLY <1>3, RegroupBack
<1> QED BY ONLY <1>1, <1>2, <1>3, <1>4 DEF bytes

\* A base32 tag has a symbol for each word.
LEMMA Base32EncodeProperties ==
  ASSUME NEW key \in Seq(CodePoints)
  PROVE  /\ Base32Encode(key) \in Seq(Base32Symbols)
         /\ Len(Base32Encode(key)) = Len(WordsOf(key))
         /\ \A j \in 1..Len(WordsOf(key)) : Base32Value(Base32Encode(key)[j]) = WordsOf(key)[j]
<1> DEFINE words == WordsOf(key)
<1>1. Base32Encode(key) = [j \in DOMAIN words |-> Base32Symbol(words[j])]
  BY DEF Base32Encode, WordsOf, BytesOf, Utf8BlocksOf
<1>2. words \in Seq(0..31)
  BY WordsOfProperties
<1> HIDE DEF words
<1>3. Len(words) \in Nat /\ DOMAIN words = 1..Len(words) /\ \A j \in 1..Len(words) : words[j] \in 0..31
  BY <1>2, LenProperties, ElementOfSeq
<1>4. \A j \in 1..Len(words) : /\ Base32Symbol(words[j]) \in Base32Symbols
                               /\ Base32Value(Base32Symbol(words[j])) = words[j]
  BY ONLY <1>3, Base32SymbolTable
<1>5. /\ Base32Encode(key) \in Seq(Base32Symbols) /\ Len(Base32Encode(key)) = Len(words)
      /\ \A j \in 1..Len(words) : Base32Encode(key)[j] = Base32Symbol(words[j])
  BY ONLY <1>1, <1>3, <1>4
<1> QED BY ONLY <1>4, <1>5 DEF words

\* No two keys have the same base32 tag.
THEOREM Base32EncodeInjective ==
  ASSUME NEW k \in Seq(CodePoints), NEW l \in Seq(CodePoints), Base32Encode(k) = Base32Encode(l)
  PROVE  k = l
<1> DEFINE v == WordsOf(k)
           w == WordsOf(l)
<1>1. /\ v \in Seq(0..31) /\ (5 * Len(v)) \div 8 = Len(BytesOf(k))
      /\ Regroup(v, 5, 8, Len(BytesOf(k))) = BytesOf(k)
  BY WordsOfProperties
<1>2. /\ w \in Seq(0..31) /\ (5 * Len(w)) \div 8 = Len(BytesOf(l))
      /\ Regroup(w, 5, 8, Len(BytesOf(l))) = BytesOf(l)
  BY WordsOfProperties
<1>3. /\ Len(Base32Encode(k)) = Len(v)
      /\ \A j \in 1..Len(v) : Base32Value(Base32Encode(k)[j]) = v[j]
  BY Base32EncodeProperties
<1>4. /\ Len(Base32Encode(l)) = Len(w)
      /\ \A j \in 1..Len(w) : Base32Value(Base32Encode(l)[j]) = w[j]
  BY Base32EncodeProperties
<1>5. Len(v) = Len(w) /\ \A j \in 1..Len(v) : v[j] = w[j]
  BY <1>3, <1>4
<1> HIDE DEF v, w
<1>6. v = w
  BY ONLY <1>1, <1>2, <1>5, SeqEqual
<1>7. BytesOf(k) = BytesOf(l)
  BY ONLY <1>1, <1>2, <1>6
<1> QED BY <1>7, BytesInjective

\* A custom tag that is a base32 tag is that of a Plain key.
LEMMA CustomIsBase32 ==
  ASSUME NEW k \in Seq(Nat), NEW l \in Seq(CodePoints), CustomEncode(k) = Base32Encode(l)
  PROVE  Plain(k)
<1>1. CustomEncode(k) \in Seq(Base32Symbols)
  BY Base32EncodeProperties
<1>2. ASSUME NEW x, Occurs(x, CustomEncode(k)) PROVE x \in Base32Symbols
  BY <1>1, <1>2, ElementOfSeq DEF Occurs
<1>3. ASSUME NEW i \in 1..Len(k) PROVE k[i] \in Base32Symbols
  <2>1. Copied(k, i)
    BY <1>2, CustomEncodeOccurs, Base32SymbolsAreSymbols
  <2> QED BY <2>1, <1>2, CustomEncodeOccurs
<1>4. DOMAIN k = 1..Len(k)
  BY LenProperties
<1> QED BY ONLY <1>3, <1>4 DEF Plain, Base32Symbols

----------------------------------------------------------------------------
(* Keys.                                                                   *)

\* A sequence of blocks begins as its first block does.
LEMMA FlattenFirst ==
  ASSUME NEW S, NEW B, B \subseteq Seq(S), <<>> \notin B
  PROVE  \A ss \in Seq(B) : ss # <<>> => FlattenSeq(ss) \in Seq(S) /\ FlattenSeq(ss) # <<>>
                                         /\ FlattenSeq(ss)[1] = ss[1][1]
<1> DEFINE T == { ss \in Seq(B) : ss # <<>> => FlattenSeq(ss) \in Seq(S) /\ FlattenSeq(ss) # <<>>
                                               /\ FlattenSeq(ss)[1] = ss[1][1] }
<1>1. <<>> \in T
  BY EmptySeq
<1>2. ASSUME NEW ss \in Seq(B), NEW b \in B, ss \in T PROVE Append(ss, b) \in T
  <2>1. ss \in Seq(Seq(S)) /\ b \in Seq(S)
    BY SeqMonotonic
  <2>2. FlattenSeq(ss) \in Seq(S) /\ FlattenSeq(Append(ss, b)) = FlattenSeq(ss) \o b
    BY <2>1, FlattenAppend
  <2>3. Append(ss, b) \in Seq(B) /\ Len(b) \in Nat /\ Len(b) # 0 /\ Len(ss) \in Nat
    BY <2>1, AppendProperties, LenProperties, EmptySeq
  <2> DEFINE x == FlattenSeq(ss)
             y == FlattenSeq(Append(ss, b))
             f == Append(ss, b)[1]
  <2>4. x \in Seq(S) /\ Len(x) \in Nat /\ y = x \o b
    BY <2>2, LenProperties
  <2>5. y \in Seq(S) /\ Len(y) = Len(x) + Len(b)
        /\ \A i \in 1..Len(y) : y[i] = IF i <= Len(x) THEN x[i] ELSE b[i - Len(x)]
    BY <2>1, <2>4, ConcatProperties
  <2>6. CASE ss = <<>>
    <3>1. Len(x) = 0 /\ f = b
      BY <2>6, FlattenEmpty, EmptySeq, AppendProperties
    <3>2. 1 \in 1..Len(y) /\ ~(1 <= Len(x)) /\ 1 - Len(x) = 1
      BY ONLY <2>3, <2>4, <2>5, <3>1
    <3>3. y[1] = b[1] /\ y # <<>>
      BY ONLY <2>5, <3>2, EmptySeq
    <3> QED BY <2>3, <2>5, <3>1, <3>3
  <2>7. CASE ss # <<>>
    <3>1. x # <<>> /\ x[1] = ss[1][1]
      BY <1>2, <2>7
    <3>2. Len(x) # 0 /\ Len(ss) # 0
      BY <2>4, <2>7, <3>1, EmptySeq
    <3>3. f = ss[1]
      BY <2>3, <3>2, AppendProperties
    <3>4. 1 \in 1..Len(y) /\ 1 <= Len(x)
      BY ONLY <2>3, <2>4, <2>5, <3>2
    <3>5. y[1] = x[1] /\ y # <<>>
      BY ONLY <2>5, <3>4, EmptySeq
    <3> QED BY <2>3, <2>5, <3>1, <3>3, <3>5
  <2> QED BY <2>6, <2>7
<1> HIDE DEF T
<1>3. Seq(B) \subseteq T
  BY <1>1, <1>2, SeqInduct
<1> QED BY <1>3 DEF T

\* What a character can be.
Scalars == { c \in CodePoints : IsScalar(c) }

\* The parts of a key with the `/' that joins each to those before it.
Joined(p) == <<47>> \o p

\* What a part of a key is made of.
NameChars == { c \in Scalars : c # 47 }

\* The parts, each with the `/' before it.
JoinBlocks == { Joined(p) : p \in Seq(NameChars) }

\* Those of a key.
JoinBlocksOf(parts) == [i \in DOMAIN parts |-> Joined(parts[i])]

\* A part with the `/' before it: no other is in it.
LEMMA JoinedProperties ==
  ASSUME NEW p \in Seq(NameChars)
  PROVE  /\ Joined(p) \in Seq(Scalars) /\ Len(p) \in Nat /\ Len(Joined(p)) = Len(p) + 1
         /\ Joined(p)[1] = 47
         /\ \A i \in 2..(Len(p) + 1) : Joined(p)[i] = p[i - 1] /\ p[i - 1] \in NameChars
<1> DEFINE u == <<47>>
<1>1. 47 \in Scalars
  BY SMT DEF Scalars, IsScalar, CodePoints
<1>2. u \in Seq(Scalars) /\ Len(u) = 1 /\ u[1] = 47
  BY <1>1
<1>3. p \in Seq(Scalars) /\ Len(p) \in Nat /\ \A i \in 1..Len(p) : p[i] \in NameChars
  <2>1. NameChars \subseteq Scalars
    BY DEF NameChars
  <2> QED BY <2>1, SeqMonotonic, LenProperties, ElementOfSeq
<1> HIDE DEF u
<1>4. u \o p \in Seq(Scalars) /\ Len(u \o p) = Len(u) + Len(p)
      /\ \A i \in 1..(Len(u) + Len(p)) : (u \o p)[i] = IF i <= Len(u) THEN u[i] ELSE p[i - Len(u)]
  <2>1. u \o p \in Seq(Scalars) /\ Len(u \o p) = Len(u) + Len(p)
    BY ONLY <1>2, <1>3, ConcatProperties
  <2>2. \A i \in 1..(Len(u) + Len(p)) : (u \o p)[i] = IF i <= Len(u) THEN u[i] ELSE p[i - Len(u)]
    BY ONLY <1>2, <1>3, ConcatProperties, ZenonT(40)
  <2> QED BY ONLY <2>1, <2>2
<1>5. 1 \in 1..(1 + Len(p)) /\ 1 <= 1 /\ 1 + Len(p) = Len(p) + 1
      /\ \A i \in 2..(Len(p) + 1) : i \in 1..(1 + Len(p)) /\ ~(i <= 1) /\ i - 1 \in 1..Len(p)
  BY ONLY <1>3
<1>6. (u \o p)[1] = 47 /\ \A i \in 2..(Len(p) + 1) : (u \o p)[i] = p[i - 1] /\ p[i - 1] \in NameChars
  BY ONLY <1>2, <1>3, <1>4, <1>5
<1> QED BY ONLY <1>2, <1>3, <1>4, <1>5, <1>6 DEF Joined, u

\* So none of them ends another.
LEMMA JoinBlocksProperties ==
  JoinBlocks \subseteq Seq(Scalars) /\ <<>> \notin JoinBlocks /\ SuffixFree(JoinBlocks)
<1>1. \A b \in JoinBlocks : /\ b \in Seq(Scalars) /\ Len(b) \in Nat /\ Len(b) >= 1 /\ b[1] = 47
                            /\ \A i \in 2..Len(b) : b[i] # 47
  <2> TAKE b \in JoinBlocks
  <2>1. PICK p \in Seq(NameChars) : b = Joined(p)
    BY DEF JoinBlocks
  <2>2. /\ Joined(p) \in Seq(Scalars) /\ Len(p) \in Nat /\ Len(Joined(p)) = Len(p) + 1
        /\ Joined(p)[1] = 47
        /\ \A i \in 2..(Len(p) + 1) : Joined(p)[i] = p[i - 1] /\ p[i - 1] \in NameChars
    BY ONLY p \in Seq(NameChars), JoinedProperties
  <2>3. \A c \in NameChars : c # 47
    BY DEF NameChars
  <2> QED BY ONLY <2>1, <2>2, <2>3
<1>2. ASSUME NEW b \in JoinBlocks, NEW c \in JoinBlocks, Ends(c, b)
      PROVE  b = c
  <2>1. /\ b \in Seq(Scalars) /\ c \in Seq(Scalars)
        /\ b[1] = 47 /\ \A i \in 2..Len(c) : c[i] # 47
    BY ONLY <1>1, <1>2
  <2> DEFINE m == Len(b)
             n == Len(c)
  <2>2. m \in Nat /\ n \in Nat /\ m >= 1
    BY ONLY <1>1, <1>2
  <2>3. m <= n /\ \A i \in 1..m : c[n - m + i] = b[i]
    BY <1>2 DEF Ends
  <2>4. m = n
    <3> SUFFICES ASSUME m < n PROVE FALSE
      BY <2>2, <2>3
    <3> HIDE DEF m, n
    <3>1. n - m + 1 \in 2..n /\ 1 \in 1..m
      BY <2>2
    <3>2. c[n - m + 1] = 47
      BY ONLY <2>1, <2>3, <3>1
    <3> QED BY ONLY <2>1, <3>1, <3>2 DEF n
  <2>5. \A i \in 1..m : c[i] = b[i]
    <3> HIDE DEF m, n
    <3>1. \A i \in 1..m : n - m + i = i
      BY ONLY <2>2, <2>4
    <3> QED BY ONLY <2>3, <3>1
  <2> QED BY ONLY <2>1, <2>4, <2>5, SeqEqual
<1>3. <<>> \notin JoinBlocks
  <2>1. ASSUME <<>> \in JoinBlocks PROVE FALSE
    <3>1. Len(<<>>) >= 1
      BY ONLY <1>1, <2>1
    <3> QED BY ONLY <3>1
  <2> QED BY <2>1
<1> QED BY <1>1, <1>2, <1>3 DEF SuffixFree

\* The parts of a key, one after the other, begin with the `/' that join drops.
LEMMA JoinBlocksOfProperties ==
  ASSUME NEW parts \in Seq(Seq(NameChars)), parts # <<>>
  PROVE  /\ JoinBlocksOf(parts) \in Seq(JoinBlocks) /\ Len(JoinBlocksOf(parts)) = Len(parts)
         /\ \A i \in 1..Len(parts) : JoinBlocksOf(parts)[i] = Joined(parts[i])
         /\ FlattenSeq(JoinBlocksOf(parts)) \in Seq(Scalars) \ {<<>>}
         /\ FlattenSeq(JoinBlocksOf(parts))[1] = 47
         /\ Join(parts) = Tail(FlattenSeq(JoinBlocksOf(parts)))
         /\ Join(parts) \in Seq(Scalars)
<1>1. /\ Len(parts) \in Nat /\ Len(parts) # 0 /\ DOMAIN parts = 1..Len(parts)
      /\ \A i \in 1..Len(parts) : parts[i] \in Seq(NameChars)
  BY LenProperties, ElementOfSeq, EmptySeq
<1> DEFINE bs == JoinBlocksOf(parts)
           f == FlattenSeq(bs)
<1>2. bs = [i \in 1..Len(parts) |-> Joined(parts[i])]
      /\ \A i \in 1..Len(parts) : Joined(parts[i]) \in JoinBlocks
  BY <1>1 DEF JoinBlocksOf, JoinBlocks
<1> HIDE DEF bs
<1>3. bs \in Seq(JoinBlocks) /\ Len(bs) = Len(parts) /\ \A i \in 1..Len(parts) : bs[i] = Joined(parts[i])
  BY ONLY <1>1, <1>2
<1>4. bs # <<>>
  <2>1. Len(<<>>) = 0
    BY EmptySeq
  <2> QED BY ONLY <1>1, <1>3, <2>1
<1>5. f \in Seq(Scalars) /\ f # <<>> /\ f[1] = bs[1][1]
  BY ONLY <1>3, <1>4, JoinBlocksProperties, FlattenFirst
<1>6. f[1] = 47
  <2>1. 1 \in 1..Len(parts)
    BY ONLY <1>1
  <2>2. parts[1] \in Seq(NameChars) /\ bs[1] = Joined(parts[1])
    BY ONLY <1>1, <1>3, <2>1
  <2>3. Joined(parts[1])[1] = 47
    BY ONLY <2>2, JoinedProperties
  <2> QED BY ONLY <1>5, <2>2, <2>3
<1>7. Tail(f) \in Seq(Scalars)
  BY <1>5, HeadTailProperties
<1>8. Join(parts) = Tail(f)
  BY DEF Join, bs, JoinBlocksOf, Joined
<1> QED BY ONLY <1>3, <1>5, <1>6, <1>7, <1>8 DEF bs

\* No two sequences of parts join to the same key.
LEMMA JoinInjective ==
  ASSUME NEW k \in Seq(Seq(NameChars)), NEW l \in Seq(Seq(NameChars)),
         k # <<>>, l # <<>>, Join(k) = Join(l)
  PROVE  k = l
<1> DEFINE bk == JoinBlocksOf(k)
           bl == JoinBlocksOf(l)
           f == FlattenSeq(bk)
           g == FlattenSeq(bl)
<1>1. /\ bk \in Seq(JoinBlocks) /\ Len(bk) = Len(k) /\ \A i \in 1..Len(k) : bk[i] = Joined(k[i])
      /\ f \in Seq(Scalars) /\ f # <<>> /\ f[1] = 47 /\ Join(k) = Tail(f)
  BY JoinBlocksOfProperties
<1>2. /\ bl \in Seq(JoinBlocks) /\ Len(bl) = Len(l) /\ \A i \in 1..Len(l) : bl[i] = Joined(l[i])
      /\ g \in Seq(Scalars) /\ g # <<>> /\ g[1] = 47 /\ Join(l) = Tail(g)
  BY JoinBlocksOfProperties
<1> HIDE DEF bk, bl
<1>3. f = g
  <2> HIDE DEF f, g
  <2>1. Len(f) \in Nat /\ Len(f) # 0 /\ Len(g) \in Nat /\ Len(g) # 0
    BY ONLY <1>1, <1>2, LenProperties, EmptySeq
  <2>2. /\ Len(Tail(f)) = Len(f) - 1 /\ \A i \in 1..Len(Tail(f)) : Tail(f)[i] = f[i + 1]
        /\ Len(Tail(g)) = Len(g) - 1 /\ \A i \in 1..Len(Tail(g)) : Tail(g)[i] = g[i + 1]
    BY ONLY <1>1, <1>2, HeadTailProperties
  <2>3. Tail(f) = Tail(g)
    BY ONLY <1>1, <1>2, Join(k) = Join(l)
  <2>4. Len(f) = Len(g)
    <3>1. Len(f) - 1 = Len(g) - 1
      BY ONLY <2>2, <2>3, Zenon
    <3> QED BY ONLY <2>1, <3>1
  <2>5. ASSUME NEW i \in 1..Len(f) PROVE f[i] = g[i]
    <3>1. CASE i = 1
      BY ONLY <1>1, <1>2, <3>1
    <3>2. CASE i # 1
      <4>1. i - 1 \in 1..Len(Tail(f)) /\ (i - 1) + 1 = i
        BY ONLY <2>1, <2>2, <3>2, i \in 1..Len(f)
      <4> QED BY ONLY <2>2, <2>3, <4>1
    <3> QED BY ONLY <3>1, <3>2
  <2> QED BY ONLY <1>1, <1>2, <2>4, <2>5, SeqEqual
<1>4. bk = bl
  <2>1. \A ss, tt \in Seq(JoinBlocks) : FlattenSeq(ss) = FlattenSeq(tt) => ss = tt
    BY ONLY JoinBlocksProperties, FlattenInjective
  <2> QED BY ONLY <1>1, <1>2, <1>3, <2>1 DEF f, g
<1>5. Len(k) = Len(l)
  BY ONLY <1>1, <1>2, <1>4
<1>6. ASSUME NEW i \in 1..Len(k) PROVE k[i] = l[i]
  <2> DEFINE p == k[i]
             q == l[i]
  <2>1. p \in Seq(NameChars) /\ q \in Seq(NameChars)
    BY ONLY <1>5, i \in 1..Len(k), k \in Seq(Seq(NameChars)), l \in Seq(Seq(NameChars)), ElementOfSeq
  <2>2. Joined(p) = Joined(q)
    BY ONLY <1>1, <1>2, <1>4, <1>5, i \in 1..Len(k)
  <2> HIDE DEF p, q
  <2>3. /\ Len(p) \in Nat /\ Len(Joined(p)) = Len(p) + 1 /\ \A h \in 2..(Len(p) + 1) : Joined(p)[h] = p[h - 1]
        /\ Len(q) \in Nat /\ Len(Joined(q)) = Len(q) + 1 /\ \A h \in 2..(Len(q) + 1) : Joined(q)[h] = q[h - 1]
    BY ONLY <2>1, JoinedProperties
  <2>4. Len(p) = Len(q)
    BY ONLY <2>2, <2>3
  <2>5. ASSUME NEW h \in 1..Len(p) PROVE p[h] = q[h]
    <3>1. h + 1 \in 2..(Len(p) + 1) /\ (h + 1) - 1 = h
      BY ONLY <2>3, h \in 1..Len(p)
    <3> QED BY ONLY <2>2, <2>3, <2>4, <3>1
  <2>6. p = q
    BY ONLY <2>1, <2>4, <2>5, SeqEqual
  <2> QED BY ONLY <2>6 DEF p, q
<1> QED BY ONLY <1>5, <1>6, k \in Seq(Seq(NameChars)), l \in Seq(Seq(NameChars)), SeqEqual

\* The parts of a location, by TagAssumption.
LEMMA PartsTyped ==
  ASSUME NEW l \in Locations
  PROVE  l.parts \in Seq(Seq(NameChars)) /\ l.parts # <<>>
<1>1. /\ l.parts \in Seq(Seq(CodePoints)) /\ l.parts # <<>>
      /\ \A i \in DOMAIN l.parts : \A j \in DOMAIN l.parts[i] :
           IsScalar(l.parts[i][j]) /\ l.parts[i][j] # 47
  BY TagAssumption
<1> DEFINE parts == l.parts
<1> HIDE DEF parts
<1>2. /\ parts \in Seq(Seq(CodePoints))
      /\ \A i \in DOMAIN parts : \A j \in DOMAIN parts[i] : IsScalar(parts[i][j]) /\ parts[i][j] # 47
  BY ONLY <1>1 DEF parts
<1>3. Len(parts) \in Nat /\ DOMAIN parts = 1..Len(parts)
      /\ \A i \in 1..Len(parts) : parts[i] \in Seq(CodePoints)
  BY <1>2, LenProperties, ElementOfSeq
<1>4. ASSUME NEW i \in 1..Len(parts) PROVE parts[i] \in Seq(NameChars)
  <2> DEFINE p == parts[i]
  <2>1. p \in Seq(CodePoints) /\ \A j \in DOMAIN p : IsScalar(p[j]) /\ p[j] # 47
    BY <1>2, <1>3
  <2> HIDE DEF p
  <2>2. Len(p) \in Nat /\ p = [j \in 1..Len(p) |-> p[j]] /\ DOMAIN p = 1..Len(p)
        /\ \A j \in 1..Len(p) : p[j] \in CodePoints
    BY <2>1, LenProperties, ElementOfSeq
  <2>3. \A j \in 1..Len(p) : p[j] \in NameChars
    BY ONLY <2>1, <2>2 DEF NameChars, Scalars
  <2>4. p \in Seq(NameChars)
    BY ONLY <2>2, <2>3
  <2> QED BY <2>4 DEF p
<1>5. parts = [i \in 1..Len(parts) |-> parts[i]]
  BY <1>2, LenProperties
<1>6. parts \in Seq(Seq(NameChars))
  BY ONLY <1>3, <1>4, <1>5
<1> QED BY <1>1, <1>6 DEF parts

\* A key is a sequence of characters.
LEMMA KeyTyped ==
  ASSUME NEW l \in Locations
  PROVE  /\ KeyOf[l] = Join(l.parts) /\ KeyOf[l] \in Seq(Scalars)
         /\ KeyOf[l] \in Seq(CodePoints) /\ KeyOf[l] \in Seq(Nat)
<1>1. Join(l.parts) \in Seq(Scalars)
  BY PartsTyped, JoinBlocksOfProperties
<1>2. KeyOf[l] = Join(l.parts)
  BY DEF KeyOf
<1>3. Scalars \subseteq CodePoints /\ CodePoints \subseteq Nat
  BY SMT DEF Scalars, CodePoints
<1>4. KeyOf[l] \in Seq(CodePoints)
  BY <1>1, <1>2, <1>3, SeqMonotonic
<1> QED BY <1>1, <1>2, <1>3, <1>4, SeqMonotonic

\* No two locations of a repository have the same key.
LEMMA KeyInjective ==
  ASSUME NEW l \in Locations, NEW m \in Locations, l.registry = m.registry,
         l.repository = m.repository, KeyOf[l] = KeyOf[m]
  PROVE  l = m
<1>1. l.parts = m.parts
  BY KeyTyped, PartsTyped, JoinInjective
<1>2. \A x \in Locations : x = [registry |-> x.registry, repository |-> x.repository, parts |-> x.parts]
  BY TagAssumption
<1> QED BY ONLY <1>1, <1>2, l \in Locations, m \in Locations, l.registry = m.registry, l.repository = m.repository

\* Two keys with one tag are the same key, and encoded in the same way, but for
\* a Plain one.
LEMMA TagsDiffer ==
  ASSUME NEW k \in Seq(CodePoints), NEW l \in Seq(CodePoints), k \in Seq(Nat), l \in Seq(Nat),
         NEW e \in Encodings, NEW f \in Encodings,
         key_to_tag(e, k) = key_to_tag(f, l)
  PROVE  (e = f /\ k = l) \/ (e # f /\ (Plain(k) \/ Plain(l)))
<1>1. CASE e = "custom" /\ f = "custom"
  BY <1>1, CustomEncodeInjective DEF key_to_tag
<1>2. CASE e = "custom" /\ f = "base32_dnssec"
  BY <1>2, CustomIsBase32 DEF key_to_tag
<1>3. CASE e = "base32_dnssec" /\ f = "custom"
  <2>1. CustomEncode(l) = Base32Encode(k)
    BY <1>3 DEF key_to_tag
  <2> QED BY <1>3, <2>1, CustomIsBase32
<1>4. CASE e = "base32_dnssec" /\ f = "base32_dnssec"
  BY <1>4, Base32EncodeInjective DEF key_to_tag
<1> QED BY <1>1, <1>2, <1>3, <1>4 DEF Encodings

\* Two puts with one reference are of one location, but for a Plain key.
LEMMA ReferencesDiffer ==
  ASSUME NEW l \in Locations, NEW m \in Locations, NEW e \in Encodings, NEW f \in Encodings,
         ReferenceOf[l][e] = ReferenceOf[m][f]
  PROVE  (e = f /\ l = m) \/ (e # f /\ (Plain(KeyOf[l]) \/ Plain(KeyOf[m])))
<1>1. /\ ReferenceOf[l][e] = <<l.registry, l.repository, key_to_tag(e, KeyOf[l])>>
      /\ ReferenceOf[m][f] = <<m.registry, m.repository, key_to_tag(f, KeyOf[m])>>
  BY DEF ReferenceOf
<1>2. /\ l.registry = m.registry /\ l.repository = m.repository
      /\ key_to_tag(e, KeyOf[l]) = key_to_tag(f, KeyOf[m])
  <2>1. \A a1, a2, a3, b1, b2, b3 : <<a1, a2, a3>> = <<b1, b2, b3>> => a1 = b1 /\ a2 = b2 /\ a3 = b3
    OBVIOUS
  <2>2. <<l.registry, l.repository, key_to_tag(e, KeyOf[l])>> = <<m.registry, m.repository, key_to_tag(f, KeyOf[m])>>
    BY <1>1, Zenon
  <2> QED BY ONLY <2>1, <2>2, Zenon
<1>3. (e = f /\ KeyOf[l] = KeyOf[m]) \/ (e # f /\ (Plain(KeyOf[l]) \/ Plain(KeyOf[m])))
  BY <1>2, KeyTyped, TagsDiffer
<1> QED BY <1>2, <1>3, KeyInjective

\* A concatenation splits where it was joined.
LEMMA SplitConcat ==
  ASSUME NEW S, NEW s \in Seq(S), NEW t \in Seq(S)
  PROVE  /\ Len(s \o t) = Len(s) + Len(t)
         /\ SubSeq(s \o t, 1, Len(s)) = s
         /\ SubSeq(s \o t, Len(s) + 1, Len(s \o t)) = t
<1> DEFINE c == s \o t
           m == Len(s)
           n == Len(t)
<1>1. c \in Seq(S) /\ Len(c) = m + n
  BY ConcatProperties
<1>2. \A i \in 1..(m + n) : c[i] = IF i <= m THEN s[i] ELSE t[i - m]
  BY ConcatProperties
<1>3. m \in Nat /\ n \in Nat
  BY LenProperties
<1> HIDE DEF c
<1>4. \A i \in 1..(m + n) : c[i] \in S
  BY ONLY <1>1, ElementOfSeq
<1> HIDE DEF m, n
<1>5. SubSeq(c, 1, m) = s
  <2> DEFINE x == SubSeq(c, 1, m)
  <2>1. \A i \in 1..m : c[i] \in S
    BY ONLY <1>3, <1>4
  <2>2. x \in Seq(S) /\ Len(x) = (IF 1 <= m THEN m - 1 + 1 ELSE 0)
        /\ \A i \in 1..(m - 1 + 1) : x[i] = c[1 + i - 1]
    BY ONLY <1>3, <2>1, SubSeqProperties
  <2> HIDE DEF x
  <2>3. Len(x) = m
    BY ONLY <1>3, <2>2
  <2>4. \A i \in 1..m : i \in 1..(m - 1 + 1) /\ 1 + i - 1 = i /\ i \in 1..(m + n) /\ i <= m
    BY ONLY <1>3
  <2>5. \A i \in 1..m : x[i] = s[i]
    BY ONLY <1>2, <2>2, <2>4
  <2>6. x = s
    BY ONLY <2>2, <2>3, <2>5, s \in Seq(S), SeqEqual DEF m
  <2> QED BY ONLY <2>6 DEF x
<1>6. SubSeq(c, m + 1, m + n) = t
  <2> DEFINE x == SubSeq(c, m + 1, m + n)
  <2>1. \A i \in (m + 1)..(m + n) : c[i] \in S
    BY ONLY <1>3, <1>4
  <2>2. m + 1 \in Int /\ m + n \in Int
    BY ONLY <1>3
  <2>3. x \in Seq(S) /\ Len(x) = (IF m + 1 <= m + n THEN (m + n) - (m + 1) + 1 ELSE 0)
        /\ \A i \in 1..((m + n) - (m + 1) + 1) : x[i] = c[(m + 1) + i - 1]
    BY ONLY <2>1, <2>2, SubSeqProperties
  <2> HIDE DEF x
  <2>4. Len(x) = n
    BY ONLY <1>3, <2>3
  <2>5. \A i \in 1..n : /\ i \in 1..((m + n) - (m + 1) + 1) /\ (m + 1) + i - 1 = m + i
                        /\ m + i \in 1..(m + n) /\ ~(m + i <= m) /\ (m + i) - m = i
    BY ONLY <1>3
  <2>6. \A i \in 1..n : x[i] = t[i]
    BY ONLY <1>2, <2>3, <2>5
  <2>7. x = t
    BY ONLY <2>3, <2>4, <2>6, t \in Seq(S), SeqEqual DEF n
  <2> QED BY ONLY <2>7 DEF x
<1> QED BY <1>1, <1>5, <1>6 DEF c, m, n

\* Whatever is in the path and whatever in the query, a request for l says l.
LEMMA RequestedSame == \A l \in Locations : \A m \in Requested[l] : m = l
<1> SUFFICES ASSUME NEW l \in Locations, NEW u \in Urls(l) PROVE Located(u) = l
  BY DEF Requested
<1>1. PICK q \in [registry : BOOLEAN, repository : BOOLEAN] :
        /\ q.repository \/ Len(l.repository) = RepositoryParts
        /\ u = [registry |-> IF q.registry THEN <<l.registry>> ELSE <<>>,
                repository |-> IF q.repository THEN <<l.repository>> ELSE <<>>,
                path |-> (IF q.registry THEN <<>> ELSE <<l.registry>>)
                           \o (IF q.repository THEN <<>> ELSE l.repository) \o l.parts]
  BY DEF Urls
<1>2. /\ l = [registry |-> l.registry, repository |-> l.repository, parts |-> l.parts]
      /\ l.registry \in Names /\ l.repository \in Seq(Names)
      /\ l.parts \in Seq(Seq(CodePoints)) /\ l.parts # <<>>
      /\ RepositoryParts \in Nat
  BY TagAssumption
<1> DEFINE A == Names \cup Seq(CodePoints)
           repo == l.repository
           parts == l.parts
           name == l.registry
           inPath == IF q.repository THEN <<>> ELSE repo
           rest == inPath \o parts
           head == IF q.registry THEN <<>> ELSE <<name>>
<1>3. /\ repo \in Seq(A) /\ parts \in Seq(A) /\ name \in A /\ parts # <<>>
      /\ Len(repo) \in Nat /\ Len(parts) \in Nat /\ Len(parts) # 0
  <2>1. Names \subseteq A /\ Seq(CodePoints) \subseteq A
    OBVIOUS
  <2> HIDE DEF A
  <2> QED BY <1>2, <2>1, SeqMonotonic, LenProperties, EmptySeq
<1> HIDE DEF A, repo, parts, name
<1>4. inPath \in Seq(A) /\ rest \in Seq(A) /\ head \in Seq(A)
  <2>1. inPath \in Seq(A) /\ head \in Seq(A)
    BY <1>3
  <2> HIDE DEF inPath, head
  <2> QED BY <1>3, <2>1, ConcatProperties
<1>5. u.path = (head \o inPath) \o parts /\ (head \o inPath) \o parts = head \o rest
  <2>1. u.path = (head \o inPath) \o parts
    BY <1>1 DEF repo, parts, name
  <2> HIDE DEF inPath, head
  <2>2. (head \o inPath) \o parts = head \o (inPath \o parts)
    <3>1. \A x, y, z \in Seq(A) : (x \o y) \o z = x \o (y \o z)
      BY ONLY ConcatAssociative
    <3>2. head \in Seq(A) /\ inPath \in Seq(A) /\ parts \in Seq(A)
      BY ONLY <1>3, <1>4
    <3> QED BY ONLY <3>1, <3>2, Zenon
  <2> QED BY <2>1, <2>2
<1>6. rest = (IF u.registry # <<>> THEN u.path ELSE Tail(u.path))
      /\ name = IF u.registry # <<>> THEN u.registry[1] ELSE Head(u.path)
  <2>1. CASE q.registry
    <3>1. u.registry = <<name>> /\ <<name>> # <<>> /\ <<name>>[1] = name
      BY <1>1, <2>1 DEF name
    <3>2. head = <<>>
      BY <2>1
    <3> HIDE DEF head, rest
    <3>3. u.path = rest
      BY ONLY <1>4, <1>5, <3>2, ConcatEmptySeq
    <3> QED BY ONLY <3>1, <3>3
  <2>2. CASE ~q.registry
    <3>1. u.registry = <<>>
      BY <1>1, <2>2
    <3>2. head = <<name>>
      BY <2>2
    <3> HIDE DEF head, rest
    <3>3. <<name>> \o rest # <<>> /\ Head(<<name>> \o rest) = name /\ Tail(<<name>> \o rest) = rest
      BY ONLY <1>3, <1>4
    <3> QED BY ONLY <1>5, <3>1, <3>2, <3>3
  <2> QED BY <2>1, <2>2
<1>7. CASE q.repository
  <2>1. rest = parts
    BY <1>3, <1>7, ConcatEmptySeq
  <2>2. u.repository = <<repo>> /\ <<repo>> # <<>> /\ <<repo>>[1] = repo
    BY <1>1, <1>7 DEF repo
  <2> HIDE DEF rest
  <2>3. Located(u) = [registry |-> name, repository |-> repo, parts |-> parts]
    BY ONLY <1>6, <2>1, <2>2 DEF Located
  <2> QED BY <1>2, <2>3 DEF name, repo, parts
<1>8. CASE ~q.repository
  <2>1. u.repository = <<>> /\ Len(repo) = RepositoryParts
    BY <1>1, <1>8 DEF repo
  <2>2. rest = repo \o parts
    BY <1>8
  <2> HIDE DEF rest
  <2>3. /\ Len(rest) = Len(repo) + Len(parts) /\ ~(Len(rest) <= RepositoryParts)
        /\ SubSeq(rest, 1, RepositoryParts) = repo
        /\ SubSeq(rest, RepositoryParts + 1, Len(rest)) = parts
    <3>1. /\ Len(repo \o parts) = Len(repo) + Len(parts)
          /\ SubSeq(repo \o parts, 1, Len(repo)) = repo
          /\ SubSeq(repo \o parts, Len(repo) + 1, Len(repo \o parts)) = parts
      BY ONLY <1>3, SplitConcat
    <3>2. ~(Len(repo) + Len(parts) <= Len(repo))
      BY ONLY <1>3
    <3> QED BY ONLY <2>1, <2>2, <3>1, <3>2
  <2>4. Located(u) = [registry |-> name, repository |-> repo, parts |-> parts]
    BY ONLY <1>6, <2>1, <2>3 DEF Located, SplitAt
  <2> QED BY <1>2, <2>4 DEF name, repo, parts
<1> QED BY <1>7, <1>8

----------------------------------------------------------------------------
(* The registry.                                                           *)

\* The reference of the i-th of the puts ps.
PutAs(ps, i) == ReferenceOf[ps[i].location][ps[i].encoding]

\* The registry has what it took, and of each reference the newest.
Stored ==
  /\ \A i \in DOMAIN puts : Legal(PutAs(puts, i)[3]) => PutAs(puts, i) \in DOMAIN store
  /\ \A r \in DOMAIN store : /\ Legal(r[3])
                             /\ \A i \in DOMAIN puts : PutAs(puts, i) = r => i <= store[r]

\* What TagAssumption says of the constants.
LEMMA OptionsTyped ==
  /\ RepositoryParts \in Nat /\ MaxPuts \in Nat
  /\ \A o \in OptionSets : /\ o \in Seq(Encodings) /\ o # <<>> /\ Len(o) \in Nat /\ Len(o) # 0
                           /\ DOMAIN o = 1..Len(o) /\ Head(o) = o[1]
                           /\ \A i \in 1..Len(o) : o[i] \in Encodings
<1>1. RepositoryParts \in Nat /\ MaxPuts \in Nat /\ \A o \in OptionSets : o \in Seq(Encodings) /\ o # <<>>
  BY TagAssumption
<1>2. ASSUME NEW o \in Seq(Encodings), o # <<>>
      PROVE  /\ Len(o) \in Nat /\ Len(o) # 0 /\ DOMAIN o = 1..Len(o) /\ Head(o) = o[1]
             /\ \A i \in 1..Len(o) : o[i] \in Encodings
  BY <1>2, LenProperties, EmptySeq, ElementOfSeq
<1> QED BY <1>1, <1>2

\* A put keeps TypeOK and Stored.
LEMMA PutStep ==
  ASSUME TypeOK, Stored, NEW l \in Locations, Put(l)
  PROVE  TypeOK' /\ Stored'
<1> DEFINE e == Head(encodings)
           n == Len(puts)
           entry == [location |-> l, encoding |-> e]
           r0 == ReferenceOf[l][e]
<1>1. /\ encodings \in OptionSets /\ encodings' = encodings
      /\ puts \in Seq([location : Locations, encoding : Encodings])
      /\ n < MaxPuts /\ puts' = Append(puts, entry)
  BY DEF TypeOK, Put, MainEncoding
<1>2. e \in Encodings /\ n \in Nat /\ MaxPuts \in Nat
  BY <1>1, OptionsTyped, LenProperties
<1>3. /\ DOMAIN store \subseteq { ReferenceOf[m][f] : m \in Locations, f \in Encodings }
      /\ \A r \in DOMAIN store : store[r] \in DOMAIN puts /\ r = PutAs(puts, store[r])
  BY DEF TypeOK, PutAs
<1>4. store' = IF Legal(r0[3])
                 THEN [r \in DOMAIN store \cup {r0} |-> IF r = r0 THEN n + 1 ELSE store[r]]
                 ELSE store
  BY DEF Put, PutReference, MainEncoding
<1>5. entry \in [location : Locations, encoding : Encodings] /\ entry.location = l /\ entry.encoding = e
  BY <1>2
<1> HIDE DEF e, entry
<1>6. /\ puts' \in Seq([location : Locations, encoding : Encodings]) /\ Len(puts') = n + 1
      /\ DOMAIN puts = 1..n /\ DOMAIN puts' = 1..(n + 1)
      /\ \A i \in 1..n : puts'[i] = puts[i]
      /\ puts'[n + 1] = entry
  BY <1>1, <1>5, AppendProperties, LenProperties
<1>7. PutAs(puts', n + 1) = r0 /\ \A i \in 1..n : PutAs(puts', i) = PutAs(puts, i)
  BY <1>5, <1>6 DEF PutAs
<1> HIDE DEF n, r0
<1>8. r0 \in { ReferenceOf[m][f] : m \in Locations, f \in Encodings }
  BY <1>2 DEF r0
<1>9. \A i \in 1..(n + 1) : i \in 1..n \/ i = n + 1
  BY ONLY <1>2
<1>10. n + 1 \in 1..(n + 1) /\ \A i \in 1..n : i \in 1..(n + 1) /\ i <= n + 1 /\ i # n + 1
  BY ONLY <1>2
<1>11. \A r \in DOMAIN store : store[r] \in 1..n /\ r = PutAs(puts, store[r]) /\ Legal(r[3])
        /\ \A i \in 1..n : PutAs(puts, i) = r => i <= store[r]
  BY <1>3, <1>6 DEF Stored
<1>12. \A i \in 1..n : Legal(PutAs(puts, i)[3]) => PutAs(puts, i) \in DOMAIN store
  BY <1>6 DEF Stored
<1>13. CASE Legal(r0[3])
  <2>1. /\ DOMAIN store' = DOMAIN store \cup {r0} /\ store'[r0] = n + 1
        /\ \A r \in DOMAIN store : r # r0 => store'[r] = store[r]
    BY ONLY <1>4, <1>13
  <2>2. \A r \in DOMAIN store' : store'[r] \in 1..(n + 1) /\ r = PutAs(puts', store'[r])
    <3> TAKE r \in DOMAIN store'
    <3>1. CASE r = r0
      BY ONLY <2>1, <3>1, <1>7, <1>10
    <3>2. CASE r # r0
      <4>1. r \in DOMAIN store /\ store'[r] = store[r] /\ store[r] \in 1..n /\ r = PutAs(puts, store[r])
        BY ONLY <2>1, <3>2, <1>11, r \in DOMAIN store'
      <4>2. PutAs(puts', store[r]) = PutAs(puts, store[r])
        BY ONLY <4>1, <1>7
      <4> QED BY ONLY <4>1, <4>2, <1>10
    <3> QED BY ONLY <3>1, <3>2
  <2>3. DOMAIN store' \subseteq { ReferenceOf[m][f] : m \in Locations, f \in Encodings }
    BY ONLY <2>1, <1>3, <1>8
  <2>4. TypeOK'
    BY ONLY <1>1, <1>2, <1>6, <2>2, <2>3 DEF TypeOK, PutAs
  <2>5. \A i \in 1..(n + 1) : Legal(PutAs(puts', i)[3]) => PutAs(puts', i) \in DOMAIN store'
    BY ONLY <1>7, <1>9, <1>12, <2>1
  <2>6. \A r \in DOMAIN store' : Legal(r[3]) /\ \A i \in 1..(n + 1) : PutAs(puts', i) = r => i <= store'[r]
    <3> TAKE r \in DOMAIN store'
    <3>1. CASE r = r0
      BY ONLY <3>1, <2>1, <1>9, <1>10, <1>13, <1>2
    <3>2. CASE r # r0
      BY ONLY <3>2, <2>1, <1>7, <1>9, <1>11, r \in DOMAIN store'
    <3> QED BY ONLY <3>1, <3>2
  <2> QED BY ONLY <1>6, <2>4, <2>5, <2>6 DEF Stored
<1>14. CASE ~Legal(r0[3])
  <2>1. store' = store
    BY ONLY <1>4, <1>14
  <2>2. \A r \in DOMAIN store' : store'[r] \in 1..(n + 1) /\ r = PutAs(puts', store'[r])
    <3> TAKE r \in DOMAIN store'
    <3>1. store'[r] = store[r] /\ store[r] \in 1..n /\ r = PutAs(puts, store[r])
      BY ONLY <2>1, <1>11, r \in DOMAIN store'
    <3>2. PutAs(puts', store[r]) = PutAs(puts, store[r])
      BY ONLY <3>1, <1>7
    <3> QED BY ONLY <3>1, <3>2, <1>10
  <2>3. TypeOK'
    BY ONLY <1>1, <1>2, <1>3, <1>6, <2>1, <2>2 DEF TypeOK, PutAs
  <2>4. \A i \in 1..(n + 1) : Legal(PutAs(puts', i)[3]) => PutAs(puts', i) \in DOMAIN store'
    BY ONLY <1>7, <1>9, <1>12, <1>14, <2>1
  <2>5. \A r \in DOMAIN store' : Legal(r[3]) /\ \A i \in 1..(n + 1) : PutAs(puts', i) = r => i <= store'[r]
    BY ONLY <2>1, <1>7, <1>9, <1>11, <1>14
  <2> QED BY ONLY <1>6, <2>3, <2>4, <2>5 DEF Stored
<1> QED BY <1>13, <1>14

\* What the model keeps: its type, and what the registry has.
THEOREM TypeCorrect == Spec => [](TypeOK /\ Stored)
<1>1. Init => TypeOK /\ Stored
  <2> SUFFICES ASSUME Init PROVE TypeOK /\ Stored
    OBVIOUS
  <2>1. encodings \in OptionSets /\ puts = <<>> /\ store = <<>>
    BY DEF Init
  <2>2. DOMAIN puts = {} /\ DOMAIN store = {} /\ Len(puts) = 0
        /\ puts \in Seq([location : Locations, encoding : Encodings])
    BY <2>1, EmptySeq
  <2> QED BY ONLY <2>1, <2>2, OptionsTyped DEF TypeOK, Stored
<1>2. TypeOK /\ Stored /\ [Next]_vars => (TypeOK /\ Stored)'
  <2> SUFFICES ASSUME TypeOK, Stored, [Next]_vars PROVE (TypeOK /\ Stored)'
    OBVIOUS
  <2>1. CASE Push
    BY <2>1, PutStep DEF Push
  <2>2. CASE ServerPut
    BY <2>2, PutStep DEF ServerPut
  <2>3. CASE Reconfigure
    BY <2>3 DEF Reconfigure, TypeOK, Stored, PutAs
  <2>4. CASE UNCHANGED vars
    BY <2>4 DEF vars, TypeOK, Stored, PutAs
  <2> QED BY <2>1, <2>2, <2>3, <2>4 DEF Next
<1> QED BY <1>1, <1>2, PTL DEF Spec

\* What TypeOK says of a put.
LEMMA PutTyped ==
  ASSUME TypeOK, NEW i \in DOMAIN puts
  PROVE  /\ puts[i].location \in Locations /\ puts[i].encoding \in Encodings
         /\ PutAs(puts, i)[3] = key_to_tag(puts[i].encoding, KeyOf[puts[i].location])
<1>1. puts \in Seq([location : Locations, encoding : Encodings])
  BY DEF TypeOK
<1>2. puts[i] \in [location : Locations, encoding : Encodings]
  BY <1>1, LenProperties, ElementOfSeq
<1>3. puts[i].location \in Locations /\ puts[i].encoding \in Encodings
  BY <1>2
<1> DEFINE l == puts[i].location
           e == puts[i].encoding
<1> HIDE DEF l, e
<1>4. l \in Locations /\ e \in Encodings
  BY <1>3 DEF l, e
<1>5. ReferenceOf[l][e] = <<l.registry, l.repository, key_to_tag(e, KeyOf[l])>>
  BY ONLY <1>4 DEF ReferenceOf
<1>6. ReferenceOf[l][e][3] = key_to_tag(e, KeyOf[l])
  BY ONLY <1>5
<1> QED BY ONLY <1>3, <1>6 DEF PutAs, l, e

\* A tag is of the tags' alphabet, and never begins with a `-' or `.'.
LEMMA TagAlphabet ==
  ASSUME NEW key \in Seq(CodePoints), key \in Seq(Nat), NEW e \in Encodings
  PROVE  LET tag == key_to_tag(e, key)
         IN /\ tag \in Seq(TagSymbols)
            /\ Len(tag) # 0 => tag[1] \in Letters \cup Figures \cup {Underscore}
<1>1. CASE e = "base32_dnssec"
  <2> DEFINE tag == Base32Encode(key)
  <2>1. tag \in Seq(Base32Symbols)
    BY Base32EncodeProperties
  <2> HIDE DEF tag
  <2>2. Base32Symbols \subseteq Letters \cup Figures /\ Base32Symbols \subseteq TagSymbols
    BY Base32SymbolsAreSymbols DEF TagSymbols, Symbols
  <2>3. tag \in Seq(TagSymbols)
    BY ONLY <2>1, <2>2, SeqMonotonic
  <2>4. Len(tag) # 0 => tag[1] \in Base32Symbols
    <3>1. Len(tag) \in Nat
      BY <2>1, LenProperties
    <3>2. Len(tag) # 0 => 1 \in 1..Len(tag)
      BY ONLY <3>1
    <3> QED BY ONLY <2>1, <3>2, ElementOfSeq
  <2> QED BY <1>1, <2>2, <2>3, <2>4 DEF key_to_tag, tag
<1>2. CASE e = "custom"
  <2> DEFINE tag == CustomEncode(key)
             bs == CustomBlocksOf(key)
  <2>1. tag \in Seq(TagSymbols) /\ tag = FlattenSeq(bs)
        /\ bs \in Seq(CustomBlocks) /\ Len(bs) = Len(key)
        /\ \A i \in 1..Len(key) : /\ bs[i] = CustomBlock(key, i)
                                  /\ encode_char(key[i]) = Bracketed(Digits[key[i]])
                                  /\ Digits[key[i]] \in Seq(Symbols)
    BY CustomEncodeType, CustomBlocksOfProperties
  <2> HIDE DEF tag, bs
  <2>2. ASSUME Len(tag) # 0 PROVE tag[1] \in Letters \cup Figures \cup {Underscore}
    <3>1. bs # <<>> /\ Len(key) \in Nat /\ Len(bs) \in Nat
      BY <2>1, <2>2, FlattenEmpty, EmptySeq, LenProperties
    <3>2. 1 \in 1..Len(key)
      BY <2>1, <3>1, EmptySeq
    <3>3. CustomBlocks \subseteq Seq(TagSymbols) /\ <<>> \notin CustomBlocks
      BY CustomBlocksProperties
    <3>4. tag[1] = bs[1][1]
      BY ONLY <2>1, <3>1, <3>3, FlattenFirst
    <3>5. CASE Copied(key, 1)
      <4>1. key[1] \in Letters \cup Figures
        BY <3>5 DEF Copied
      <4>2. bs[1] = <<key[1]>>
        BY ONLY <2>1, <3>2, <3>5 DEF CustomBlock
      <4> QED BY ONLY <3>4, <4>1, <4>2
    <3>6. CASE ~Copied(key, 1)
      <4> DEFINE d == Digits[key[1]]
      <4>1. bs[1] = Bracketed(d) /\ d \in Seq(Symbols)
        BY ONLY <2>1, <3>2, <3>6 DEF CustomBlock
      <4> HIDE DEF d
      <4>2. bs[1][1] = Underscore
        BY ONLY <4>1, BracketedProperties
      <4> QED BY ONLY <3>4, <4>2
    <3> QED BY <3>5, <3>6
  <2> QED BY <1>2, <2>1, <2>2 DEF key_to_tag, tag
<1> QED BY <1>1, <1>2 DEF Encodings

\* The encodings keep to the alphabet of tags.
THEOREM AlphabetKept == Spec => []OnlyLengthMatters
<1>1. TypeOK => OnlyLengthMatters
  <2> SUFFICES ASSUME TypeOK, NEW i \in DOMAIN puts, Len(PutAs(puts, i)[3]) \in 1..128
               PROVE  Legal(PutAs(puts, i)[3])
    BY DEF OnlyLengthMatters, PutAs
  <2> DEFINE tag == PutAs(puts, i)[3]
             l == puts[i].location
             e == puts[i].encoding
  <2>1. l \in Locations /\ e \in Encodings /\ tag = key_to_tag(e, KeyOf[l])
    BY PutTyped
  <2> HIDE DEF tag, l, e
  <2>2. tag \in Seq(TagSymbols) /\ (Len(tag) # 0 => tag[1] \in Letters \cup Figures \cup {Underscore})
    BY ONLY <2>1, KeyTyped, TagAlphabet
  <2>3. Len(tag) \in 1..128 /\ Len(tag) # 0
    <3>1. Len(tag) \in 1..128
      BY Zenon DEF tag
    <3>2. \A n \in 1..128 : n # 0
      OBVIOUS
    <3> QED BY ONLY <3>1, <3>2, Zenon
  <2>4. \A j \in DOMAIN tag : tag[j] \in Letters \cup Figures \cup {Underscore} \cup Dashes
    BY <2>2, LenProperties, ElementOfSeq DEF TagSymbols, Symbols
  <2>5. Legal(tag)
    BY ONLY <2>2, <2>3, <2>4 DEF Legal
  <2> QED BY <2>5 DEF tag
<1> QED BY <1>1, TypeCorrect, PTL

\* The least of a set of places.
LEMMA MinLeast ==
  ASSUME NEW S, S \subseteq Nat, S # {}
  PROVE  Min(S) \in S /\ \A j \in S : Min(S) <= j
<1>1. \E n \in S : \A m \in S : n <= m
  BY Least
<1> QED BY <1>1 DEF Min

\* What a lookup finds is under one of the references it asks for.
LEMMA FoundThere ==
  ASSUME TypeOK, Stored, NEW l \in Locations
  PROVE  LET there == { i \in DOMAIN encodings : ReferenceOf[l][encodings[i]] \in DOMAIN store }
         IN /\ there = {} => Found(l) = 0
            /\ there # {} =>
                 \E i \in there :
                   /\ \A j \in there : i <= j
                   /\ encodings[i] \in Encodings
                   /\ Found(l) = store[ReferenceOf[l][encodings[i]]]
                   /\ Found(l) \in DOMAIN puts
                   /\ PutAs(puts, Found(l)) = ReferenceOf[l][encodings[i]]
                   /\ Legal(PutAs(puts, Found(l))[3])
<1> DEFINE there == { i \in DOMAIN encodings : ReferenceOf[l][encodings[i]] \in DOMAIN store }
<1>1. /\ DOMAIN ReferencesMerged(l) = DOMAIN encodings
      /\ \A i \in DOMAIN encodings : ReferencesMerged(l)[i] = ReferenceOf[l][encodings[i]]
  BY DEF ReferencesMerged
<1>2. there = { i \in DOMAIN ReferencesMerged(l) : ReferencesMerged(l)[i] \in DOMAIN store }
  BY <1>1
<1>3. Found(l) = IF there = {} THEN 0 ELSE store[ReferencesMerged(l)[Min(there)]]
  BY <1>2, Zenon DEF Found
<1>4. DOMAIN encodings = 1..Len(encodings) /\ Len(encodings) \in Nat
      /\ \A i \in DOMAIN encodings : encodings[i] \in Encodings
  BY OptionsTyped DEF TypeOK
<1>5. there \subseteq Nat /\ there \subseteq DOMAIN encodings
  BY <1>4
<1>6. ASSUME there # {}
      PROVE  \E i \in there :
                   /\ \A j \in there : i <= j
                   /\ encodings[i] \in Encodings
                   /\ Found(l) = store[ReferenceOf[l][encodings[i]]]
                   /\ Found(l) \in DOMAIN puts
                   /\ PutAs(puts, Found(l)) = ReferenceOf[l][encodings[i]]
                   /\ Legal(PutAs(puts, Found(l))[3])
  <2> DEFINE i == Min(there)
             r == ReferenceOf[l][encodings[i]]
  <2>1. i \in there /\ \A j \in there : i <= j
    <3> HIDE DEF there
    <3> QED BY ONLY <1>5, <1>6, MinLeast
  <2>2. r \in DOMAIN store /\ encodings[i] \in Encodings /\ i \in DOMAIN encodings
    BY <1>4, <2>1
  <2>3. Found(l) = store[r]
    <3> HIDE DEF there
    <3> QED BY ONLY <1>1, <1>3, <1>6, <2>2, Zenon
  <2>4. store[r] \in DOMAIN puts /\ r = PutAs(puts, store[r]) /\ Legal(r[3])
    <3> HIDE DEF r
    <3> QED BY <2>2 DEF TypeOK, PutAs, Stored
  <2> HIDE DEF i
  <2> QED BY <2>1, <2>2, <2>3, <2>4
<1> QED BY <1>3, <1>6

\* A lookup mixes two keys up only if one of them is Plain.
THEOREM MixupsKnown == Spec => []MixupsArePlain
<1>1. TypeOK /\ Stored => MixupsArePlain
  <2> SUFFICES ASSUME TypeOK, Stored, NEW l \in Locations,
                      Found(l) # 0, puts[Found(l)].location # l
               PROVE  Plain(KeyOf[l]) \/ Plain(KeyOf[puts[Found(l)].location])
    BY DEF MixupsArePlain
  <2>1. PICK i \in DOMAIN encodings : /\ encodings[i] \in Encodings
                                     /\ Found(l) \in DOMAIN puts
                                     /\ PutAs(puts, Found(l)) = ReferenceOf[l][encodings[i]]
    BY FoundThere
  <2>2. puts[Found(l)].location \in Locations /\ puts[Found(l)].encoding \in Encodings
    BY <2>1, PutTyped
  <2>3. ReferenceOf[puts[Found(l)].location][puts[Found(l)].encoding] = ReferenceOf[l][encodings[i]]
    BY <2>1 DEF PutAs
  <2> QED BY <2>1, <2>2, <2>3, ReferencesDiffer
<1> QED BY <1>1, TypeCorrect, PTL

\* The last of a set of puts.
LEMMA NewestLast ==
  ASSUME NEW n \in Nat, NEW S, S \subseteq 1..n, S # {}
  PROVE  Newest(S) \in S /\ \A j \in S : j <= Newest(S)
<1> DEFINE T == { n - i : i \in S }
<1>1. T \subseteq Nat /\ T # {}
  OBVIOUS
<1>2. PICK t \in T : \A u \in T : t <= u
  BY <1>1, Least
<1>3. PICK i \in S : t = n - i
  OBVIOUS
<1>4. ASSUME NEW j \in S PROVE j <= i
  <2>1. n - i <= n - j
    BY <1>2, <1>3
  <2>2. i \in 1..n /\ j \in 1..n
    OBVIOUS
  <2> QED BY ONLY <2>1, <2>2, n \in Nat
<1> QED BY <1>4 DEF Newest

\* Whoever asks for an item gets a version of it as long as an encoding it was
\* put under is configured, the newest if the encoding of that comes first.
THEOREM NewestReturned == Spec => []NewestFound
<1>1. TypeOK /\ Stored => NewestFound
  <2> DEFINE N(l) == Newest(PutsOf(l))
             e(l) == puts[N(l)].encoding
             there(l) == { i \in DOMAIN encodings : ReferenceOf[l][encodings[i]] \in DOMAIN store }
  <2> SUFFICES ASSUME TypeOK, Stored, \A i \in DOMAIN puts : ~Plain(KeyOf[puts[i].location]),
                      NEW l \in Locations, PutsOf(l) # {}
               PROVE  /\ Found(l) # 0 <=> \E i \in DOMAIN encodings : encodings[i] \in Used(l)
                      /\ Found(l) # 0 => Found(l) \in PutsOf(l)
                      /\ Found(l) = N(l) <=> NewestFirst(l)
    BY RequestedSame DEF NewestFound
  <2>1. DOMAIN puts = 1..Len(puts) /\ Len(puts) \in Nat
    BY LenProperties DEF TypeOK
  <2>2. \A i \in PutsOf(l) : /\ i \in DOMAIN puts /\ puts[i].location = l
                             /\ PutAs(puts, i) = ReferenceOf[l][puts[i].encoding]
                             /\ Legal(PutAs(puts, i)[3])
    BY DEF PutsOf, PutAs
  <2>3. N(l) \in PutsOf(l) /\ \A i \in PutsOf(l) : i <= N(l)
    <3>1. PutsOf(l) \subseteq 1..Len(puts)
      BY <2>1, <2>2
    <3> QED BY <2>1, <3>1, NewestLast
  <2>4. /\ DOMAIN encodings = 1..Len(encodings) /\ Len(encodings) \in Nat
        /\ \A i \in DOMAIN encodings : encodings[i] \in Encodings
    BY OptionsTyped DEF TypeOK
  <2>5. ~Plain(KeyOf[l])
    BY <2>2, <2>3
  \* Under a reference of l there are only puts of l.
  <2>6. ASSUME NEW f \in Encodings, NEW p \in DOMAIN puts,
               PutAs(puts, p) = ReferenceOf[l][f], Legal(PutAs(puts, p)[3])
        PROVE  p \in PutsOf(l) /\ puts[p].encoding = f
    <3>1. puts[p].location \in Locations /\ puts[p].encoding \in Encodings
      BY PutTyped
    <3>2. ReferenceOf[puts[p].location][puts[p].encoding] = ReferenceOf[l][f]
      BY <2>6 DEF PutAs
    <3>3. ~Plain(KeyOf[puts[p].location])
      OBVIOUS
    <3>4. puts[p].location = l /\ puts[p].encoding = f
      BY <2>5, <3>1, <3>2, <3>3, ReferencesDiffer
    <3> QED BY <2>6, <3>4 DEF PutsOf, PutAs
  \* A lookup meets an item at the encodings used.
  <2>7. \A i \in DOMAIN encodings : i \in there(l) <=> encodings[i] \in Used(l)
    <3> TAKE i \in DOMAIN encodings
    <3> DEFINE r == ReferenceOf[l][encodings[i]]
    <3>1. ASSUME encodings[i] \in Used(l) PROVE r \in DOMAIN store
      <4>1. PICK p \in PutsOf(l) : puts[p].encoding = encodings[i]
        BY <3>1 DEF Used
      <4>2. p \in DOMAIN puts /\ PutAs(puts, p) = r /\ Legal(PutAs(puts, p)[3])
        BY <2>2, <4>1
      <4> QED BY <4>2 DEF Stored
    <3>2. ASSUME r \in DOMAIN store PROVE encodings[i] \in Used(l)
      <4>1. store[r] \in DOMAIN puts /\ PutAs(puts, store[r]) = r /\ Legal(PutAs(puts, store[r])[3])
        <5> HIDE DEF r
        <5> QED BY <3>2 DEF TypeOK, PutAs, Stored
      <4>2. store[r] \in PutsOf(l) /\ puts[store[r]].encoding = encodings[i]
        BY <2>4, <2>6, <4>1
      <4> QED BY <4>2 DEF Used
    <3> QED BY <3>1, <3>2
  <2>8. /\ N(l) \in DOMAIN puts /\ PutAs(puts, N(l)) = ReferenceOf[l][e(l)]
        /\ N(l) \in Nat /\ N(l) # 0
    BY <2>1, <2>2, <2>3
  <2>9. there(l) \subseteq DOMAIN encodings
    OBVIOUS
  <2>10. there(l) = {} => Found(l) = 0
    BY FoundThere
  <2>11. there(l) # {} =>
           \E i \in there(l) :
             /\ \A j \in there(l) : i <= j
             /\ encodings[i] \in Encodings
             /\ Found(l) = store[ReferenceOf[l][encodings[i]]]
             /\ Found(l) \in DOMAIN puts
             /\ PutAs(puts, Found(l)) = ReferenceOf[l][encodings[i]]
             /\ Legal(PutAs(puts, Found(l))[3])
    BY FoundThere
  <2>12. ReferenceOf[l][e(l)] \in DOMAIN store =>
           \A i \in DOMAIN store : i = ReferenceOf[l][e(l)] => N(l) <= store[i]
    BY <2>8 DEF Stored
  <2> HIDE DEF N, e, there
  <2>13. CASE there(l) = {}
    <3>1. \A i \in DOMAIN encodings : encodings[i] \notin Used(l)
      BY <2>7, <2>13
    <3>2. ~NewestFirst(l)
      <4>1. e(l) \in Used(l)
        BY <2>3 DEF Used, e
      <4>2. \A i \in DOMAIN encodings : encodings[i] # e(l)
        BY <3>1, <4>1
      <4> QED BY ONLY <4>2 DEF NewestFirst, e, N
    <3> QED BY ONLY <2>8, <2>10, <2>13, <3>1, <3>2
  <2>14. CASE there(l) # {}
    <3>1. PICK i \in there(l) :
             /\ \A j \in there(l) : i <= j
             /\ encodings[i] \in Encodings
             /\ Found(l) = store[ReferenceOf[l][encodings[i]]]
             /\ Found(l) \in DOMAIN puts
             /\ PutAs(puts, Found(l)) = ReferenceOf[l][encodings[i]]
             /\ Legal(PutAs(puts, Found(l))[3])
      BY <2>11, <2>14
    <3>2. i \in DOMAIN encodings /\ encodings[i] \in Used(l)
      BY <2>7, <2>9
    <3>3. \A j \in 1..(i - 1) : encodings[j] \notin Used(l)
      <4> TAKE j \in 1..(i - 1)
      <4>1. j \in DOMAIN encodings /\ ~(i <= j)
        BY ONLY <2>4, <3>2, j \in 1..(i - 1)
      <4> QED BY <2>7, <3>1, <4>1
    <3>4. Found(l) \in PutsOf(l) /\ puts[Found(l)].encoding = encodings[i]
      BY <2>6, <3>1
    <3>5. Found(l) # 0
      BY ONLY <2>1, <3>1
    <3>6. ASSUME Found(l) = N(l) PROVE NewestFirst(l)
      <4>1. encodings[i] = e(l)
        BY <3>4, <3>6 DEF e
      <4> QED BY ONLY <3>2, <3>3, <4>1 DEF NewestFirst, e, N
    <3>7. ASSUME NewestFirst(l) PROVE Found(l) = N(l)
      <4>1. PICK h \in DOMAIN encodings : /\ encodings[h] = e(l)
                                          /\ \A j \in 1..(h - 1) : encodings[j] \notin Used(l)
        BY ONLY <3>7 DEF NewestFirst, e, N
      <4>2. e(l) \in Used(l)
        BY <2>3 DEF Used, e
      <4>3. h \in there(l)
        BY <2>7, <4>1, <4>2
      <4>4. i <= h /\ ~(i \in 1..(h - 1))
        BY <3>1, <3>2, <4>1, <4>3
      <4>5. i = h
        BY ONLY <2>4, <3>2, <4>4, h \in DOMAIN encodings
      <4>6. N(l) <= Found(l)
        BY <2>12, <3>1, <4>1, <4>5, <2>9 DEF there
      <4>7. Found(l) <= N(l)
        BY <2>3, <3>4
      <4>8. Found(l) \in Nat
        BY ONLY <2>1, <3>1
      <4> QED BY ONLY <2>8, <4>6, <4>7, <4>8
    <3> QED BY ONLY <3>2, <3>4, <3>5, <3>6, <3>7
  <2> QED BY ONLY <2>13, <2>14
<1> QED BY <1>1, TypeCorrect, PTL

----------------------------------------------------------------------------
(* Decoding a custom tag.                                                  *)

\* One more symbol of a character, as in decode_char.
Accumulated(v, x) == IF v > 1114111 THEN v ELSE v * Base + reverse_table[x]

\* f is the function that decode_char defines.
Decodes(f, s, n) == f = [i \in 0..n |-> IF i = 0 THEN 0 ELSE Accumulated(f[i - 1], s[i])]

\* The recursive equation of decode_char has a solution,
LEMMA DecodesExists == ASSUME NEW s, NEW len \in Nat PROVE \E f : Decodes(f, s, len)
<1> DEFINE N == { n \in Nat : \E f : Decodes(f, s, n) }
<1>1. 0 \in N
  <2> DEFINE f == [i \in 0..0 |-> 0]
  <2>1. \A i \in 0..0 : i = 0
    OBVIOUS
  <2>2. f = [i \in 0..0 |-> IF i = 0 THEN 0 ELSE Accumulated(f[i - 1], s[i])]
    BY ONLY <2>1
  <2> QED BY <2>2 DEF Decodes
<1>2. ASSUME NEW n \in N PROVE n + 1 \in N
  <2>1. PICK f : Decodes(f, s, n)
    OBVIOUS
  <2> DEFINE h == [i \in 0..(n + 1) |-> IF i <= n THEN f[i] ELSE Accumulated(f[n], s[n + 1])]
  <2>2. n \in Nat /\ n + 1 \in Nat
    OBVIOUS
  <2>3. ASSUME NEW i \in 0..n PROVE f[i] = IF i = 0 THEN 0 ELSE Accumulated(f[i - 1], s[i])
    BY ONLY <2>1, i \in 0..n DEF Decodes
  <2>4. ASSUME NEW i \in 0..(n + 1) PROVE h[i] = IF i = 0 THEN 0 ELSE Accumulated(h[i - 1], s[i])
    <3>1. CASE i <= n
      <4>1. h[i] = f[i] /\ i \in 0..n
        BY ONLY <3>1, <2>2, i \in 0..(n + 1)
      <4>2. i # 0 => h[i - 1] = f[i - 1]
        BY ONLY <3>1, <2>2, i \in 0..(n + 1)
      <4> HIDE DEF h
      <4> QED BY ONLY <4>1, <4>2, <2>3
    <3>2. CASE i = n + 1
      <4>1. i # 0 /\ i - 1 = n
        BY ONLY <3>2, <2>2
      <4>2. h[i] = Accumulated(f[n], s[n + 1])
        BY ONLY <3>2, <2>2
      <4>3. h[n] = f[n]
        BY ONLY <2>2
      <4> HIDE DEF h
      <4> QED BY ONLY <4>1, <4>2, <4>3, <3>2
    <3> QED BY ONLY <3>1, <3>2, <2>2, i \in 0..(n + 1)
  <2>5. h = [i \in 0..(n + 1) |-> h[i]]
    BY ONLY <2>2
  <2> HIDE DEF h
  <2>6. h = [i \in 0..(n + 1) |-> IF i = 0 THEN 0 ELSE Accumulated(h[i - 1], s[i])]
    BY ONLY <2>4, <2>5
  <2> QED BY ONLY <2>2, <2>6 DEF Decodes
<1> HIDE DEF N
<1>3. Nat \subseteq N
  BY <1>1, <1>2, Induct
<1> QED BY <1>3 DEF N

\* Each of its values is the one before with a symbol more.
LEMMA DecodesPoints ==
  ASSUME NEW s, NEW n \in Nat, NEW f, Decodes(f, s, n), NEW i \in 0..n
  PROVE  f[i] = IF i = 0 THEN 0 ELSE Accumulated(f[i - 1], s[i])
BY ONLY Decodes(f, s, n), i \in 0..n DEF Decodes

\* Solutions for symbols that agree, agree as far.
LEMMA DecodesAgree ==
  ASSUME NEW s, NEW t, NEW m \in Nat, NEW n \in Nat, m <= n, AgreeOn(s, t, m),
         NEW f, Decodes(f, s, m), NEW g, Decodes(g, t, n)
  PROVE  \A k \in 0..m : f[k] = g[k]
<1> DEFINE T == { k \in Nat : k <= m => f[k] = g[k] }
<1>1. ASSUME NEW i \in 0..m PROVE f[i] = IF i = 0 THEN 0 ELSE Accumulated(f[i - 1], s[i])
  BY ONLY Decodes(f, s, m), i \in 0..m DEF Decodes
<1>2. ASSUME NEW i \in 0..n PROVE g[i] = IF i = 0 THEN 0 ELSE Accumulated(g[i - 1], t[i])
  BY ONLY Decodes(g, t, n), i \in 0..n DEF Decodes
<1>3. \A i \in 1..m : s[i] = t[i]
  BY DEF AgreeOn
<1>4. 0 \in T
  <2>1. 0 \in 0..m /\ 0 \in 0..n
    BY ONLY m \in Nat, n \in Nat
  <2> QED BY ONLY <1>1, <1>2, <2>1
<1>5. ASSUME NEW k \in T PROVE k + 1 \in T
  <2> SUFFICES ASSUME k + 1 <= m PROVE f[k + 1] = g[k + 1]
    OBVIOUS
  <2>1. /\ k \in Nat /\ k <= m /\ k + 1 \in 0..m /\ k + 1 \in 0..n /\ k + 1 \in 1..m
        /\ k + 1 # 0 /\ (k + 1) - 1 = k
    BY ONLY k \in T, m \in Nat, n \in Nat, m <= n, k + 1 <= m
  <2>2. f[k] = g[k] /\ s[k + 1] = t[k + 1]
    BY ONLY k \in T, <2>1, <1>3
  <2>3. f[k + 1] = Accumulated(f[k], s[k + 1])
    BY ONLY <1>1, <2>1
  <2>4. g[k + 1] = Accumulated(g[k], t[k + 1])
    BY ONLY <1>2, <2>1
  <2> QED BY ONLY <2>2, <2>3, <2>4
<1> HIDE DEF T
<1>6. Nat \subseteq T
  BY ONLY <1>4, <1>5, Induct
<1>7. \A k \in 0..m : k \in Nat /\ k <= m
  BY ONLY m \in Nat
<1> QED BY ONLY <1>6, <1>7 DEF T

\* The same, in the words of decode_char.
DecodesAll(g, s) ==
  g = [i \in 0..Len(s) |-> IF i = 0 THEN 0
                          ELSE IF g[i - 1] > 1114111 THEN g[i - 1]
                          ELSE g[i - 1] * Base + reverse_table[s[i]]]

\* What decode_char returns is the last value of such a solution.
LEMMA DecodeDefined ==
  ASSUME NEW s, Len(s) \in Nat
  PROVE  \E f : Decodes(f, s, Len(s)) /\ decode_char(s) = f[Len(s)]
<1> DEFINE f == CHOOSE g : DecodesAll(g, s)
<1>1. \E g : DecodesAll(g, s)
  <2>1. PICK g : Decodes(g, s, Len(s))
    BY ONLY Len(s) \in Nat, DecodesExists
  <2>2. DecodesAll(g, s)
    BY ONLY <2>1, SMT DEF Decodes, Accumulated, DecodesAll
  <2> QED BY ONLY <2>2, SMT
<1>2. DecodesAll(f, s)
  BY ONLY <1>1, SMT
<1>3. decode_char(s) = f[Len(s)]
  BY ONLY TRUE, SMT DEF decode_char, DecodesAll
<1> HIDE DEF f
<1>4. Decodes(f, s, Len(s))
  BY ONLY <1>2, SMT DEF Decodes, Accumulated, DecodesAll
<1> QED BY ONLY <1>3, <1>4

\* decode_char, symbol by symbol.
LEMMA DecodeAppend ==
  /\ decode_char(<<>>) = 0
  /\ \A s \in Seq(Symbols), x \in Symbols :
       decode_char(Append(s, x)) = Accumulated(decode_char(s), x)
<1>1. decode_char(<<>>) = 0
  <2>1. Len(<<>>) = 0 /\ Len(<<>>) \in Nat
    OBVIOUS
  <2>2. PICK f : Decodes(f, <<>>, Len(<<>>)) /\ decode_char(<<>>) = f[Len(<<>>)]
    BY <2>1, DecodeDefined
  <2>3. 0 \in 0..Len(<<>>)
    BY <2>1
  <2>4. f[0] = 0
    BY <2>1, <2>2, <2>3, DecodesPoints
  <2> QED BY ONLY <2>1, <2>2, <2>4
<1>2. ASSUME NEW s \in Seq(Symbols), NEW x \in Symbols
      PROVE  decode_char(Append(s, x)) = Accumulated(decode_char(s), x)
  <2> DEFINE n == Len(s)
             t == Append(s, x)
  <2>1. n \in Nat /\ Len(t) = n + 1 /\ Len(t) \in Nat /\ (\A i \in 1..n : t[i] = s[i]) /\ t[n + 1] = x
    BY LenProperties, AppendProperties
  <2>2. PICK f : Decodes(f, s, n) /\ decode_char(s) = f[n]
    BY <2>1, DecodeDefined
  <2>3. PICK g : Decodes(g, t, n + 1) /\ decode_char(t) = g[n + 1]
    <3> HIDE DEF t
    <3>1. \E g : Decodes(g, t, Len(t)) /\ decode_char(t) = g[Len(t)]
      BY ONLY <2>1, DecodeDefined
    <3> QED BY ONLY <2>1, <3>1
  <2> HIDE DEF t, n
  <2>4. n + 1 \in Nat /\ n <= n + 1 /\ n \in 0..n /\ n + 1 \in 0..(n + 1) /\ n + 1 # 0 /\ (n + 1) - 1 = n
    BY ONLY <2>1
  <2>5. AgreeOn(s, t, n)
    BY ONLY <2>1 DEF AgreeOn
  <2>6. f[n] = g[n]
    BY ONLY <2>1, <2>2, <2>3, <2>4, <2>5, DecodesAgree
  <2>7. g[n + 1] = Accumulated(g[n], t[n + 1])
    BY ONLY <2>3, <2>4, DecodesPoints
  <2> QED BY ONLY <2>1, <2>2, <2>3, <2>6, <2>7 DEF t
<1> QED BY ONLY <1>1, <1>2

\* decode_char undoes encode_char.
LEMMA DecodeDigits == \A c \in CodePoints : decode_char(Digits[c]) = c
<1> DEFINE T == { c \in CodePoints : decode_char(Digits[c]) # c }
<1> SUFFICES ASSUME T # {} PROVE FALSE
  OBVIOUS
<1>1. \A c : c \in CodePoints <=> c \in Nat /\ c <= 1114111
  BY SMT DEF CodePoints
<1>2. PICK c \in T : \A d \in T : c <= d
  <2>1. T \subseteq Nat
    BY <1>1, SMT
  <2> HIDE DEF T
  <2> QED BY ONLY <2>1, T # {}, Least
<1>3. c \in Nat /\ c <= 1114111 /\ decode_char(Digits[c]) # c
  BY <1>1, SMT
<1>4. c # 0
  <2>1. Digits[0] = <<>>
    BY DigitsDefined
  <2>2. decode_char(Digits[0]) = 0
    BY ONLY <2>1, DecodeAppend
  <2> QED BY ONLY <1>3, <2>2, SMT
<1> DEFINE d == c \div 64
           s == c % 64
<1>5. d \in Nat /\ s \in 0..63 /\ c = d * 64 + s /\ d < c
  BY ONLY <1>3, <1>4, SMTT(30)
<1>6. Digits[c] = Append(Digits[d], symbol_table[s])
  <2>1. c \in Nat
    BY ONLY <1>3, SMT
  <2> QED BY ONLY <2>1, <1>4, DigitsDefined
<1> HIDE DEF d, s
<1>7. decode_char(Digits[d]) = d
  <2>1. d \notin T
    BY ONLY <1>2, <1>3, <1>5, SMT
  <2>2. d \in CodePoints
    BY ONLY <1>1, <1>3, <1>5, SMTT(30)
  <2> QED BY ONLY <2>1, <2>2, SMT DEF T
<1>8. Digits[d] \in Seq(Symbols) /\ symbol_table[s] \in Symbols /\ reverse_table[symbol_table[s]] = s
  BY ONLY <1>5, DigitsTyped, SymbolTable
<1>9. decode_char(Digits[c]) = Accumulated(d, symbol_table[s])
  BY ONLY <1>6, <1>7, <1>8, DecodeAppend
<1>10. Accumulated(d, symbol_table[s]) = d * 64 + s
  BY ONLY <1>3, <1>5, <1>8, SMT DEF Accumulated, Base
<1> QED BY ONLY <1>3, <1>5, <1>9, <1>10, SMT

\* What CustomDecode says of the tag t: its underscores, those before the i-th
\* character, and whether that one closes a pair or stands for itself.
Marks(t) == { i \in DOMAIN t : t[i] = Underscore }
Opened(t, i) == { j \in Marks(t) : j < i }
Closes(t, i) == i \in Marks(t) /\ Cardinality(Opened(t, i)) % 2 = 1
Bare(t, i) == i \notin Marks(t) /\ Cardinality(Opened(t, i)) % 2 = 0
CharAt(t, i) == decode_char(SubSeq(t, Newest(Opened(t, i)) + 1, i - 1))
Out(t, i) == CASE Closes(t, i) -> <<CharAt(t, i)>>
               [] Bare(t, i) -> <<t[i]>>
               [] OTHER -> <<>>
Outs(t) == [i \in DOMAIN t |-> Out(t, i)]

\* The tag t is decoded as key.
DecodesAs(t, key) ==
  /\ t \in Seq(TagSymbols)
  /\ Cardinality(Marks(t)) % 2 = 0
  /\ \A i \in 1..Len(t) : i \notin Marks(t) => t[i] \in Symbols
  /\ \A i \in Marks(t) : Closes(t, i) => IsScalar(CharAt(t, i))
  /\ Outs(t) \in Seq(Seq(Scalars))
  /\ FlattenSeq(Outs(t)) = key

\* A tag that is decoded as key is one of which CustomDecode returns key.
LEMMA CustomDecodeAs ==
  ASSUME NEW t, NEW key, DecodesAs(t, key)
  PROVE  CustomDecode(t) = key
<1>1. CustomDecode(t) =
        IF /\ Cardinality(Marks(t)) % 2 = 0
           /\ \A i \in DOMAIN t \ Marks(t) : t[i] \in DOMAIN reverse_table
           /\ \A i \in Marks(t) : Closes(t, i) => IsScalar(CharAt(t, i))
          THEN FlattenSeq(Outs(t))
          ELSE Undecodable
  BY ONLY TRUE, Zenon DEF CustomDecode, Marks, Opened, Closes, Bare, CharAt, Out, Outs, Newest
<1>2. DOMAIN t = 1..Len(t) /\ DOMAIN reverse_table = Symbols
  BY LenProperties, SymbolTable DEF DecodesAs
<1>3. /\ Cardinality(Marks(t)) % 2 = 0
      /\ \A i \in 1..Len(t) : i \notin Marks(t) => t[i] \in Symbols
      /\ \A i \in Marks(t) : Closes(t, i) => IsScalar(CharAt(t, i))
      /\ FlattenSeq(Outs(t)) = key
  BY DEF DecodesAs
<1> QED BY ONLY <1>1, <1>2, <1>3

\* The characters before the i-th keep their part, whatever follows them.
LEMMA MarksOfConcat ==
  ASSUME NEW t \in Seq(TagSymbols), NEW b \in Seq(TagSymbols)
  PROVE  LET c == t \o b IN
         /\ c \in Seq(TagSymbols) /\ Len(c) = Len(t) + Len(b)
         /\ \A i \in 1..Len(t) : c[i] = t[i]
         /\ \A j \in 1..Len(b) : c[Len(t) + j] = b[j]
         /\ \A i \in 1..Len(t) : i \in Marks(c) <=> i \in Marks(t)
         /\ \A j \in 1..Len(b) : Len(t) + j \in Marks(c) <=> b[j] = Underscore
         /\ Marks(c) \subseteq 1..(Len(t) + Len(b)) /\ Marks(t) \subseteq 1..Len(t)
         /\ IsFiniteSet(Marks(t))
<1> DEFINE c == t \o b
           m == Len(t)
           n == Len(b)
<1>1. c \in Seq(TagSymbols) /\ Len(c) = m + n
  BY ConcatProperties
<1>2. \A i \in 1..(m + n) : c[i] = IF i <= m THEN t[i] ELSE b[i - m]
  BY ConcatProperties
<1>3. m \in Nat /\ n \in Nat /\ DOMAIN t = 1..m
  BY LenProperties
<1> HIDE DEF c
<1>4. DOMAIN c = 1..(m + n)
  BY <1>1, LenProperties
<1> HIDE DEF m, n
<1>5. \A i \in 1..m : i \in 1..(m + n) /\ i <= m
  BY ONLY <1>3
<1>6. \A j \in 1..n : m + j \in 1..(m + n) /\ ~(m + j <= m) /\ (m + j) - m = j
  BY ONLY <1>3
<1>7. /\ \A i \in 1..m : c[i] = t[i]
      /\ \A j \in 1..n : c[m + j] = b[j]
  BY ONLY <1>2, <1>5, <1>6
<1>8. /\ \A i \in 1..m : i \in Marks(c) <=> i \in Marks(t)
      /\ \A j \in 1..n : m + j \in Marks(c) <=> b[j] = Underscore
  BY ONLY <1>3, <1>4, <1>5, <1>6, <1>7 DEF Marks
<1>9. Marks(c) \subseteq 1..(m + n) /\ Marks(t) \subseteq 1..m
  BY ONLY <1>3, <1>4 DEF Marks
<1>10. IsFiniteSet(Marks(t))
  <2>1. IsFiniteSet(1..m)
    BY <1>3, FS_Interval
  <2> QED BY <1>9, <2>1, FS_Subset
<1> QED BY ONLY <1>1, <1>7, <1>8, <1>9, <1>10 DEF c, m, n

\* Nor what they say.
LEMMA OutsKept ==
  ASSUME NEW t \in Seq(TagSymbols), NEW b \in Seq(TagSymbols), NEW i \in 1..Len(t)
  PROVE  /\ Opened(t \o b, i) = Opened(t, i)
         /\ Closes(t \o b, i) <=> Closes(t, i)
         /\ Closes(t, i) => CharAt(t \o b, i) = CharAt(t, i)
         /\ Out(t \o b, i) = Out(t, i)
<1> DEFINE c == t \o b
           m == Len(t)
           n == Len(b)
<1>1. /\ c \in Seq(TagSymbols) /\ m \in Nat /\ n \in Nat
      /\ \A h \in 1..m : c[h] = t[h] /\ (h \in Marks(c) <=> h \in Marks(t))
      /\ Marks(c) \subseteq 1..(m + n) /\ Marks(t) \subseteq 1..m /\ IsFiniteSet(Marks(t))
  BY MarksOfConcat, LenProperties
<1>2. \A f \in 1..m, h \in 1..m : SubSeq(c, f, h) = SubSeq(t, f, h)
  BY SubSeqOfConcat1
<1>3. i \in 1..m
  OBVIOUS
<1> HIDE DEF c, m, n
<1>4. Opened(c, i) = Opened(t, i)
  <2>1. \A j \in 1..(m + n) : j < i => j \in 1..m
    BY ONLY <1>1, <1>3
  <2>2. \A j \in 1..m : j \in 1..(m + n)
    BY ONLY <1>1
  <2> QED BY ONLY <1>1, <2>1, <2>2 DEF Opened
<1>5. Closes(c, i) <=> Closes(t, i)
  BY ONLY <1>1, <1>3, <1>4 DEF Closes
<1>6. ASSUME Closes(t, i) PROVE CharAt(c, i) = CharAt(t, i)
  <2> DEFINE O == Opened(t, i)
             f == Newest(O)
  <2>1. O # {}
    <3>1. Cardinality(O) % 2 = 1
      BY ONLY <1>6 DEF Closes
    <3>2. Cardinality({}) = 0
      BY FS_EmptySet
    <3>3. 0 % 2 # 1
      OBVIOUS
    <3> HIDE DEF O
    <3> QED BY ONLY <3>1, <3>2, <3>3, Zenon
  <2>2. O \subseteq 1..m /\ \A j \in O : j < i
    BY ONLY <1>1 DEF Opened
  <2>3. f \in O
    <3> HIDE DEF O
    <3> QED BY ONLY <2>1, <2>2, <1>1, NewestLast
  <2>4. f \in 1..m /\ f < i
    BY ONLY <2>2, <2>3
  <2> HIDE DEF f, O
  <2>5. f + 1 \in 1..m /\ i - 1 \in 1..m
    BY ONLY <1>1, <1>3, <2>4
  <2>6. SubSeq(c, f + 1, i - 1) = SubSeq(t, f + 1, i - 1)
    BY ONLY <1>2, <2>5
  <2> QED BY ONLY <1>4, <2>6, Zenon DEF CharAt, f, O
<1>7. Bare(c, i) <=> Bare(t, i)
  BY ONLY <1>1, <1>3, <1>4 DEF Bare
<1>8. c[i] = t[i]
  BY ONLY <1>1, <1>3
<1>9. Out(c, i) = Out(t, i)
  <2>1. CASE Closes(t, i)
    <3>1. ~Bare(t, i) /\ ~Bare(c, i) /\ Closes(c, i)
      BY ONLY <1>5, <1>7, <2>1 DEF Closes, Bare
    <3>2. Out(t, i) = <<CharAt(t, i)>> /\ Out(c, i) = <<CharAt(c, i)>>
      BY ONLY <2>1, <3>1 DEF Out
    <3> QED BY ONLY <1>6, <2>1, <3>2
  <2>2. CASE ~Closes(t, i)
    <3>1. ~Closes(c, i)
      BY ONLY <1>5, <2>2
    <3> QED BY ONLY <1>7, <1>8, <2>2, <3>1 DEF Out
  <2> QED BY ONLY <2>1, <2>2
<1> QED BY ONLY <1>4, <1>5, <1>6, <1>9 DEF c

\* What the characters of b say when they follow t.
OutsFollow(t, b, bo) == Len(bo) = Len(b) /\ \A j \in 1..Len(b) : Out(t \o b, Len(t) + j) = bo[j]

\* What a tag decodes to, when a block is added.
LEMMA OutsOfConcat ==
  ASSUME NEW t \in Seq(TagSymbols), NEW b \in Seq(TagSymbols), NEW bo \in Seq(Seq(Scalars)),
         OutsFollow(t, b, bo),
         Outs(t) \in Seq(Seq(Scalars))
  PROVE  /\ Outs(t \o b) = Outs(t) \o bo
         /\ Outs(t \o b) \in Seq(Seq(Scalars))
         /\ FlattenSeq(Outs(t \o b)) = FlattenSeq(Outs(t)) \o FlattenSeq(bo)
<1> DEFINE c == t \o b
           m == Len(t)
           n == Len(b)
           o == Outs(t)
<1>1. m \in Nat /\ n \in Nat /\ DOMAIN t = 1..m /\ DOMAIN c = 1..(m + n)
  BY MarksOfConcat, LenProperties
<1>2. \A i \in 1..m : Out(c, i) = Out(t, i)
  BY OutsKept
<1>3. \A j \in 1..n : Out(c, m + j) = bo[j]
  BY DEF OutsFollow
<1>4. Len(bo) = n
  BY DEF OutsFollow
<1> HIDE DEF c, m, n
<1>5. o = [i \in 1..m |-> Out(t, i)] /\ Outs(c) = [i \in 1..(m + n) |-> Out(c, i)]
  BY ONLY <1>1 DEF Outs
<1>6. Len(o) = m /\ \A i \in 1..m : o[i] = Out(t, i)
  BY ONLY <1>1, <1>5
<1>7. o \in Seq(Seq(Scalars))
  OBVIOUS
<1> HIDE DEF o
<1>8. o \o bo \in Seq(Seq(Scalars)) /\ Len(o \o bo) = m + n
  BY ONLY <1>4, <1>6, <1>7, bo \in Seq(Seq(Scalars)), ConcatProperties
<1>9. \A i \in 1..(m + n) : (o \o bo)[i] = IF i <= m THEN o[i] ELSE bo[i - m]
  BY ONLY <1>4, <1>6, <1>7, bo \in Seq(Seq(Scalars)), ConcatProperties
<1>10. \A i \in 1..(m + n) : (o \o bo)[i] = Out(c, i)
  <2> TAKE i \in 1..(m + n)
  <2>1. CASE i <= m
    <3>1. i \in 1..m
      BY ONLY <2>1, <1>1, i \in 1..(m + n)
    <3> QED BY ONLY <2>1, <3>1, <1>2, <1>6, <1>9, i \in 1..(m + n)
  <2>2. CASE ~(i <= m)
    <3>1. i - m \in 1..n /\ m + (i - m) = i
      BY ONLY <2>2, <1>1, i \in 1..(m + n)
    <3>2. bo[i - m] = Out(c, i)
      BY ONLY <3>1, <1>3
    <3> QED BY ONLY <2>2, <3>2, <1>9, i \in 1..(m + n)
  <2> QED BY ONLY <2>1, <2>2
<1>11. o \o bo = [i \in 1..(m + n) |-> (o \o bo)[i]]
  <2> DEFINE x == o \o bo
  <2>1. x \in Seq(Seq(Scalars)) /\ Len(x) = m + n
    BY ONLY <1>8
  <2> HIDE DEF x
  <2>2. x = [i \in 1..Len(x) |-> x[i]]
    BY ONLY <2>1, LenProperties
  <2> QED BY ONLY <2>1, <2>2 DEF x
<1>12. Outs(c) = o \o bo
  BY ONLY <1>5, <1>10, <1>11, Zenon
<1>13. FlattenSeq(o \o bo) = FlattenSeq(o) \o FlattenSeq(bo)
  BY ONLY <1>7, bo \in Seq(Seq(Scalars)), FlattenConcat
<1> QED BY ONLY <1>8, <1>12, <1>13 DEF c, o

\* A symbol is a character.
LEMMA SymbolsAreScalars == Symbols \subseteq Scalars
BY SMT DEF Symbols, Letters, Figures, Dashes, Scalars, CodePoints, IsScalar

\* The concatenation of one block of one element.
LEMMA SingleFlattens == ASSUME NEW S, NEW x \in S PROVE FlattenSeq(<< <<x>> >>) = <<x>>
<1>1. <<>> \in Seq(Seq(S)) /\ <<x>> \in Seq(S)
  OBVIOUS
<1>2. FlattenSeq(Append(<<>>, <<x>>)) = FlattenSeq(<<>>) \o <<x>>
  BY ONLY <1>1, FlattenAppend
<1>3. Append(<<>>, <<x>>) = << <<x>> >>
  OBVIOUS
<1>4. <<>> \o <<x>> = <<x>>
  BY ONLY <1>1, ConcatEmptySeq
<1> QED BY ONLY <1>2, <1>3, <1>4, FlattenEmpty

\* Nothing, however often, is nothing.
LEMMA EmptiesFlatten == \A ss \in Seq({<<>>}) : FlattenSeq(ss) = <<>>
<1> DEFINE T == { ss \in Seq({<<>>}) : FlattenSeq(ss) = <<>> }
<1>1. <<>> \in T
  BY FlattenEmpty, EmptySeq
<1>2. ASSUME NEW ss \in Seq({<<>>}), NEW e \in {<<>>}, ss \in T PROVE Append(ss, e) \in T
  <2>1. <<>> \in Seq(Nat) /\ e = <<>>
    OBVIOUS
  <2>2. ss \in Seq(Seq(Nat))
    <3>1. {<<>>} \subseteq Seq(Nat)
      BY <2>1
    <3> QED BY ONLY <3>1, ss \in Seq({<<>>}), SeqMonotonic
  <2>3. FlattenSeq(Append(ss, <<>>)) = FlattenSeq(ss) \o <<>>
    BY ONLY <2>1, <2>2, FlattenAppend
  <2>4. <<>> \o <<>> = <<>>
    BY ONLY <2>1, ConcatEmptySeq
  <2>5. Append(ss, e) \in Seq({<<>>})
    BY AppendProperties
  <2>6. FlattenSeq(ss) = <<>>
    BY ONLY <1>2
  <2>7. FlattenSeq(Append(ss, e)) = <<>>
    BY ONLY <2>1, <2>3, <2>4, <2>6
  <2> QED BY ONLY <2>5, <2>7
<1> HIDE DEF T
<1>3. Seq({<<>>}) \subseteq T
  BY ONLY <1>1, <1>2, SeqInduct
<1> QED BY ONLY <1>3 DEF T

\* One more character that stands for itself.
LEMMA DecodesSymbol ==
  ASSUME NEW t, NEW key, DecodesAs(t, key), NEW x \in Symbols
  PROVE  DecodesAs(t \o <<x>>, key \o <<x>>)
<1> DEFINE b == <<x>>
           bo == << <<x>> >>
           c == t \o b
           m == Len(t)
<1>1. /\ t \in Seq(TagSymbols) /\ Cardinality(Marks(t)) % 2 = 0
      /\ \A i \in 1..m : i \notin Marks(t) => t[i] \in Symbols
      /\ \A i \in Marks(t) : Closes(t, i) => IsScalar(CharAt(t, i))
      /\ Outs(t) \in Seq(Seq(Scalars)) /\ FlattenSeq(Outs(t)) = key
  BY DEF DecodesAs
<1>2. /\ b \in Seq(TagSymbols) /\ Len(b) = 1 /\ b[1] = x /\ x # Underscore /\ x \in Scalars
      /\ bo \in Seq(Seq(Scalars)) /\ Len(bo) = 1 /\ bo[1] = <<x>>
  <2>1. x \in TagSymbols /\ x # Underscore /\ x \in Scalars
    BY UnderscoreIsNoSymbol, SymbolsAreScalars DEF TagSymbols
  <2> QED BY ONLY <2>1
<1>3. FlattenSeq(bo) = <<x>>
  BY <1>2, SingleFlattens
<1> HIDE DEF b, bo
<1>4. /\ c \in Seq(TagSymbols) /\ Len(c) = m + Len(b)
      /\ \A i \in 1..m : c[i] = t[i]
      /\ \A j \in 1..Len(b) : c[m + j] = b[j]
      /\ \A i \in 1..m : i \in Marks(c) <=> i \in Marks(t)
      /\ \A j \in 1..Len(b) : m + j \in Marks(c) <=> b[j] = Underscore
      /\ Marks(c) \subseteq 1..(m + Len(b)) /\ Marks(t) \subseteq 1..m
  BY ONLY <1>1, <1>2, MarksOfConcat
<1>5. m \in Nat
  BY <1>1, LenProperties
<1>6. \A i \in 1..m : (Closes(c, i) <=> Closes(t, i)) /\ (Closes(t, i) => CharAt(c, i) = CharAt(t, i))
  BY ONLY <1>1, <1>2, OutsKept
<1> HIDE DEF c, m
<1>7. 1 \in 1..1 /\ \A i \in 1..(m + 1) : i \in 1..m \/ i = m + 1
  BY ONLY <1>5
<1>8. c[m + 1] = x /\ m + 1 \notin Marks(c) /\ Marks(c) = Marks(t)
  <2>1. c[m + 1] = x /\ m + 1 \notin Marks(c)
    BY ONLY <1>2, <1>4, <1>7
  <2> QED BY ONLY <1>2, <1>4, <1>7, <2>1
<1>9. Opened(c, m + 1) = Marks(t)
  <2>1. \A i \in 1..m : i < m + 1
    BY ONLY <1>5
  <2> QED BY ONLY <1>4, <1>8, <2>1 DEF Opened
<1>10. Out(c, m + 1) = <<x>>
  <2>1. ~Closes(c, m + 1) /\ Bare(c, m + 1)
    BY ONLY <1>1, <1>8, <1>9 DEF Closes, Bare
  <2> QED BY ONLY <1>8, <2>1 DEF Out
<1>11. \A j \in 1..Len(b) : Out(c, m + j) = bo[j]
  <2>1. \A j \in 1..1 : j = 1
    OBVIOUS
  <2> QED BY ONLY <1>2, <1>10, <2>1
<1>12. Outs(c) \in Seq(Seq(Scalars)) /\ FlattenSeq(Outs(c)) = FlattenSeq(Outs(t)) \o FlattenSeq(bo)
  <2>1. OutsFollow(t, b, bo)
    BY ONLY <1>2, <1>11 DEF OutsFollow, c, m
  <2> QED BY ONLY <1>1, <1>2, <2>1, OutsOfConcat DEF c
<1>13. \A i \in 1..(m + 1) : i \notin Marks(c) => c[i] \in Symbols
  BY ONLY <1>1, <1>4, <1>7, <1>8, x \in Symbols
<1>14. \A i \in Marks(c) : Closes(c, i) => IsScalar(CharAt(c, i))
  BY ONLY <1>1, <1>4, <1>6, <1>8
<1>15. DecodesAs(c, key \o <<x>>)
  <2>1. Len(c) = m + 1
    BY ONLY <1>2, <1>4
  <2>2. FlattenSeq(Outs(c)) = key \o <<x>>
    BY ONLY <1>1, <1>3, <1>12
  <2>3. Cardinality(Marks(c)) % 2 = 0
    BY ONLY <1>1, <1>8
  <2> QED BY ONLY <1>4, <1>12, <1>13, <1>14, <2>1, <2>2, <2>3 DEF DecodesAs
<1> QED BY ONLY <1>15 DEF c, b

\* The characters between two brackets are those of one character of the key.
LEMMA BracketsOfConcat ==
  ASSUME NEW t \in Seq(TagSymbols), NEW d \in Seq(Symbols), Cardinality(Marks(t)) % 2 = 0
  PROVE  LET b == Bracketed(d)
             c == t \o b
             m == Len(t)
             last == m + (Len(d) + 2)
         IN /\ c \in Seq(TagSymbols) /\ Len(c) = last
            /\ \A i \in 1..m : c[i] = t[i] /\ (i \in Marks(c) <=> i \in Marks(t))
            /\ \A i \in (m + 2)..(m + Len(d) + 1) : i \notin Marks(c) /\ c[i] \in Symbols
            /\ Marks(c) = Marks(t) \cup {m + 1, last}
            /\ Cardinality(Marks(c)) % 2 = 0
            /\ Out(c, m + 1) = <<>> /\ ~Closes(c, m + 1)
            /\ \A i \in (m + 2)..(m + Len(d) + 1) : Out(c, i) = <<>>
            /\ Closes(c, last) /\ CharAt(c, last) = decode_char(d)
            /\ Out(c, last) = <<decode_char(d)>>
<1> DEFINE b == Bracketed(d)
           c == t \o b
           m == Len(t)
           k == Len(d)
           last == m + (k + 2)
           M == Marks(t)
<1>1. /\ k \in Nat /\ b \in Seq(TagSymbols) /\ Len(b) = k + 2
      /\ b[1] = Underscore /\ b[k + 2] = Underscore
      /\ \A i \in 2..(k + 1) : b[i] = d[i - 1] /\ b[i] \in Symbols
  BY BracketedProperties
<1>2. m \in Nat
  BY LenProperties
<1> HIDE DEF b
<1>3. /\ c \in Seq(TagSymbols) /\ Len(c) = m + (k + 2)
      /\ \A i \in 1..m : c[i] = t[i]
      /\ \A j \in 1..(k + 2) : c[m + j] = b[j]
      /\ \A i \in 1..m : i \in Marks(c) <=> i \in M
      /\ \A j \in 1..(k + 2) : m + j \in Marks(c) <=> b[j] = Underscore
      /\ Marks(c) \subseteq 1..(m + (k + 2)) /\ M \subseteq 1..m
      /\ IsFiniteSet(M)
  <2>1. /\ c \in Seq(TagSymbols) /\ Len(c) = m + Len(b)
        /\ \A i \in 1..m : c[i] = t[i]
        /\ \A j \in 1..Len(b) : c[m + j] = b[j]
        /\ \A i \in 1..m : i \in Marks(c) <=> i \in M
        /\ \A j \in 1..Len(b) : m + j \in Marks(c) <=> b[j] = Underscore
        /\ Marks(c) \subseteq 1..(m + Len(b)) /\ M \subseteq 1..m
        /\ IsFiniteSet(M)
    BY ONLY <1>1, t \in Seq(TagSymbols), MarksOfConcat
  <2>2. Len(b) = k + 2
    BY ONLY <1>1
  <2> QED BY ONLY <2>1, <2>2, Zenon
<1>4. Cardinality(M) % 2 = 0
  OBVIOUS
<1> HIDE DEF c, m, k, M
<1>5. \A i \in 1..(m + (k + 2)) : i \in 1..m \/ i = m + 1 \/ i \in (m + 2)..(m + k + 1) \/ i = m + (k + 2)
  BY ONLY <1>1, <1>2
<1>6. \A i \in (m + 2)..(m + k + 1) : i - m \in 2..(k + 1) /\ i - m \in 1..(k + 2) /\ m + (i - m) = i
                                      /\ m + 1 < i /\ i < m + (k + 2)
  BY ONLY <1>1, <1>2
<1>7. 1 \in 1..(k + 2) /\ k + 2 \in 1..(k + 2) /\ m + 1 # last /\ m + 1 < last
  BY ONLY <1>1, <1>2
<1>8. \A i \in (m + 2)..(m + k + 1) : i \notin Marks(c) /\ c[i] \in Symbols
  <2> TAKE i \in (m + 2)..(m + k + 1)
  <2>1. c[i] = b[i - m] /\ (i \in Marks(c) <=> b[i - m] = Underscore) /\ b[i - m] \in Symbols
    BY ONLY <1>1, <1>3, <1>6
  <2> QED BY ONLY <2>1, UnderscoreIsNoSymbol
<1>9. m + 1 \in Marks(c) /\ last \in Marks(c)
  BY ONLY <1>1, <1>3, <1>7
<1>10. Marks(c) = M \cup {m + 1, last}
  <2>1. \A i \in M : i \in Marks(c)
    BY ONLY <1>3
  <2>2. \A i \in Marks(c) : i \in M \/ i = m + 1 \/ i = last
    BY ONLY <1>3, <1>5, <1>8
  <2> QED BY ONLY <2>1, <2>2, <1>9
<1>11. m + 1 \notin M /\ last \notin M /\ \A i \in M : i < m + 1
  BY ONLY <1>1, <1>2, <1>3
<1>12. Cardinality(M) \in Nat
  BY ONLY <1>3, FS_CardinalityType
<1>13. /\ IsFiniteSet(M \cup {m + 1}) /\ Cardinality(M \cup {m + 1}) = Cardinality(M) + 1
  BY ONLY <1>3, <1>11, FS_AddElement
<1>14. Cardinality(Marks(c)) = Cardinality(M) + 1 + 1
  <2>1. last \notin M \cup {m + 1}
    BY ONLY <1>7, <1>11
  <2>2. Cardinality((M \cup {m + 1}) \cup {last}) = Cardinality(M \cup {m + 1}) + 1
    BY ONLY <1>13, <2>1, FS_AddElement
  <2>3. Marks(c) = (M \cup {m + 1}) \cup {last}
    BY ONLY <1>10
  <2> QED BY ONLY <2>2, <2>3, <1>13
<1>15. (Cardinality(M) + 1 + 1) % 2 = 0 /\ (Cardinality(M) + 1) % 2 = 1 /\ 1 # 0
  <2>1. \A n \in Nat : n % 2 = 0 => (n + 1 + 1) % 2 = 0 /\ (n + 1) % 2 = 1
    BY SMTT(30)
  <2>2. 1 # 0
    OBVIOUS
  <2> DEFINE n == Cardinality(M)
  <2>3. n \in Nat /\ n % 2 = 0
    BY ONLY <1>4, <1>12
  <2> HIDE DEF n
  <2>4. (n + 1 + 1) % 2 = 0 /\ (n + 1) % 2 = 1
    BY ONLY <2>1, <2>3
  <2> QED BY ONLY <2>2, <2>4 DEF n
<1>16. Opened(c, m + 1) = M
  BY ONLY <1>2, <1>7, <1>10, <1>11 DEF Opened, last
<1>17. ASSUME NEW i \in Nat, m + 1 < i, i <= last PROVE Opened(c, i) = M \cup {m + 1}
  <2>1. \A j \in M : j < i
    <3>1. \A j \in M : j \in 1..m /\ j < m + 1
      BY ONLY <1>3, <1>11
    <3> QED BY ONLY <3>1, <1>17, <1>2
  <2>2. ~(last < i) /\ m + 1 < i
    BY ONLY <1>1, <1>2, <1>17
  <2> HIDE DEF last
  <2> QED BY ONLY <2>1, <2>2, <1>10 DEF Opened
<1>18. Out(c, m + 1) = <<>> /\ ~Closes(c, m + 1)
  <2>1. Cardinality(Opened(c, m + 1)) % 2 = 0 /\ m + 1 \in Marks(c)
    BY ONLY <1>4, <1>9, <1>16
  <2>2. 0 # 1
    OBVIOUS
  <2>3. ~Closes(c, m + 1) /\ ~Bare(c, m + 1)
    BY ONLY <2>1, <2>2, Zenon DEF Closes, Bare
  <2> QED BY ONLY <2>3, Zenon DEF Out
<1>19. \A i \in (m + 2)..(m + k + 1) : Out(c, i) = <<>>
  <2> TAKE i \in (m + 2)..(m + k + 1)
  <2>1. i \in Nat /\ m + 1 < i /\ i <= last
    BY ONLY <1>1, <1>2, i \in (m + 2)..(m + k + 1)
  <2>2. Opened(c, i) = M \cup {m + 1}
    BY ONLY <1>17, <2>1
  <2>3. Cardinality(Opened(c, i)) % 2 = 1
    BY ONLY <1>13, <1>15, <2>2, Zenon
  <2>4. i \notin Marks(c)
    BY ONLY <1>8, i \in (m + 2)..(m + k + 1)
  <2>5. ~Closes(c, i) /\ ~Bare(c, i)
    BY ONLY <1>15, <2>3, <2>4, Zenon DEF Closes, Bare
  <2> QED BY ONLY <2>5, Zenon DEF Out
<1>20. Opened(c, last) = M \cup {m + 1}
  <2>1. last \in Nat /\ m + 1 < last /\ last <= last
    BY ONLY <1>1, <1>2
  <2> QED BY ONLY <2>1, <1>17
<1>21. Closes(c, last)
  BY ONLY <1>9, <1>13, <1>15, <1>20, Zenon DEF Closes
<1>22. Newest(Opened(c, last)) = m + 1
  <2> DEFINE O == M \cup {m + 1}
             f == Newest(O)
  <2>1. O \subseteq 1..(m + 1) /\ O # {} /\ m + 1 \in Nat /\ \A j \in O : j <= m + 1
    BY ONLY <1>2, <1>3
  <2>2. m + 1 \in O
    OBVIOUS
  <2> HIDE DEF O
  <2>3. f \in O /\ \A j \in O : j <= f
    BY ONLY <2>1, NewestLast
  <2>4. f <= m + 1 /\ m + 1 <= f /\ f \in Nat
    <3> HIDE DEF f
    <3>1. f \in 1..(m + 1)
      BY ONLY <2>1, <2>3
    <3>2. f <= m + 1 /\ m + 1 <= f
      BY ONLY <2>1, <2>2, <2>3
    <3> QED BY ONLY <3>1, <3>2, <1>2
  <2> HIDE DEF f
  <2>5. f = m + 1
    BY ONLY <1>2, <2>4
  <2> QED BY ONLY <2>5, <1>20 DEF f, O
<1>23. SubSeq(c, (m + 1) + 1, last - 1) = d
  <2> DEFINE x == SubSeq(c, m + 2, m + k + 1)
  <2>1. \A i \in (m + 2)..(m + k + 1) : c[i] \in Symbols
    BY ONLY <1>8
  <2>2. m + 2 \in Int /\ m + k + 1 \in Int
    BY ONLY <1>1, <1>2
  <2>3. x \in Seq(Symbols) /\ Len(x) = (IF m + 2 <= m + k + 1 THEN (m + k + 1) - (m + 2) + 1 ELSE 0)
        /\ \A i \in 1..((m + k + 1) - (m + 2) + 1) : x[i] = c[(m + 2) + i - 1]
    BY ONLY <2>1, <2>2, SubSeqProperties
  <2> HIDE DEF x
  <2>4. Len(x) = k
    BY ONLY <1>1, <1>2, <2>3
  <2>5. \A i \in 1..k : /\ i \in 1..((m + k + 1) - (m + 2) + 1) /\ (m + 2) + i - 1 = m + (i + 1)
                        /\ i + 1 \in 1..(k + 2) /\ i + 1 \in 2..(k + 1) /\ (i + 1) - 1 = i
    BY ONLY <1>1, <1>2
  <2>6. \A i \in 1..k : x[i] = d[i]
    <3> TAKE i \in 1..k
    <3>1. x[i] = c[m + (i + 1)]
      BY ONLY <2>3, <2>5, i \in 1..k
    <3>2. c[m + (i + 1)] = b[i + 1]
      BY ONLY <1>3, <2>5, i \in 1..k
    <3>3. b[i + 1] = d[i]
      BY ONLY <1>1, <2>5, i \in 1..k
    <3> QED BY ONLY <3>1, <3>2, <3>3
  <2>7. x = d
    BY ONLY <2>3, <2>4, <2>6, d \in Seq(Symbols), SeqEqual DEF k
  <2>8. (m + 1) + 1 = m + 2 /\ last - 1 = m + k + 1
    BY ONLY <1>1, <1>2
  <2> QED BY ONLY <2>7, <2>8, Zenon DEF x
<1>24. CharAt(c, last) = decode_char(d)
  BY ONLY <1>22, <1>23, Zenon DEF CharAt
<1>25. Out(c, last) = <<decode_char(d)>>
  BY ONLY <1>21, <1>24, Zenon DEF Out, Bare, Closes
<1>26. Cardinality(Marks(c)) % 2 = 0
  BY ONLY <1>14, <1>15, Zenon
<1>27. \A i \in 1..m : c[i] = t[i] /\ (i \in Marks(c) <=> i \in M)
  BY ONLY <1>3
<1> QED BY ONLY <1>3, <1>8, <1>10, <1>18, <1>19, <1>21, <1>24, <1>25, <1>26, <1>27, Zenon DEF b, c, m, k, M

\* One more character between brackets.
LEMMA DecodesBrackets ==
  ASSUME NEW t, NEW key, DecodesAs(t, key), NEW d \in Seq(Symbols), NEW v \in Scalars,
         v = decode_char(d)
  PROVE  DecodesAs(t \o Bracketed(d), key \o <<v>>)
<1> DEFINE b == Bracketed(d)
           c == t \o b
           m == Len(t)
           k == Len(d)
           last == m + (k + 2)
           bo == [j \in 1..(k + 2) |-> IF j = k + 2 THEN <<v>> ELSE <<>>]
<1>1. /\ t \in Seq(TagSymbols) /\ Cardinality(Marks(t)) % 2 = 0
      /\ \A i \in 1..m : i \notin Marks(t) => t[i] \in Symbols
      /\ \A i \in Marks(t) : Closes(t, i) => IsScalar(CharAt(t, i))
      /\ Outs(t) \in Seq(Seq(Scalars)) /\ FlattenSeq(Outs(t)) = key
  BY DEF DecodesAs
<1>2. m \in Nat /\ k \in Nat /\ b \in Seq(TagSymbols) /\ Len(b) = k + 2 /\ Marks(t) \subseteq 1..m
  <2>1. k \in Nat /\ b \in Seq(TagSymbols) /\ Len(b) = k + 2
    BY BracketedProperties
  <2> HIDE DEF b, k
  <2> QED BY <1>1, <2>1, LenProperties DEF Marks
<1>3. /\ c \in Seq(TagSymbols) /\ Len(c) = last
      /\ \A i \in 1..m : c[i] = t[i] /\ (i \in Marks(c) <=> i \in Marks(t))
      /\ \A i \in (m + 2)..(m + k + 1) : i \notin Marks(c) /\ c[i] \in Symbols
      /\ Marks(c) = Marks(t) \cup {m + 1, last}
      /\ Cardinality(Marks(c)) % 2 = 0
      /\ Out(c, m + 1) = <<>> /\ ~Closes(c, m + 1)
      /\ \A i \in (m + 2)..(m + k + 1) : Out(c, i) = <<>>
      /\ CharAt(c, last) = v
      /\ Out(c, last) = <<v>>
  BY ONLY <1>1, v = decode_char(d), d \in Seq(Symbols), BracketsOfConcat, Zenon
<1>4. \A i \in 1..m : (Closes(c, i) <=> Closes(t, i)) /\ (Closes(t, i) => CharAt(c, i) = CharAt(t, i))
  BY ONLY <1>1, <1>2, OutsKept
<1> HIDE DEF b, c, m, k
<1>5. bo \in Seq(Seq(Scalars)) /\ Len(bo) = k + 2 /\ \A j \in 1..(k + 2) : bo[j] = IF j = k + 2 THEN <<v>> ELSE <<>>
  BY ONLY <1>2, v \in Scalars
<1>6. FlattenSeq(bo) = <<v>>
  <2> DEFINE es == [j \in 1..(k + 1) |-> <<>>]
  <2>1. es \in Seq({<<>>}) /\ es \in Seq(Seq(Scalars)) /\ Len(es) = k + 1 /\ \A j \in 1..(k + 1) : es[j] = <<>>
    BY ONLY <1>2
  <2>2. <<v>> \in Seq(Scalars)
    OBVIOUS
  <2> HIDE DEF es, bo
  <2>3. /\ Append(es, <<v>>) \in Seq(Seq(Scalars)) /\ Len(Append(es, <<v>>)) = k + 1 + 1
        /\ \A j \in 1..(k + 1) : Append(es, <<v>>)[j] = es[j]
        /\ Append(es, <<v>>)[k + 1 + 1] = <<v>>
    BY ONLY <2>1, <2>2, AppendProperties
  <2>4. k + 1 + 1 = k + 2 /\ \A j \in 1..(k + 2) : j = k + 2 \/ (j # k + 2 /\ j \in 1..(k + 1))
    BY ONLY <1>2
  <2>5. \A j \in 1..(k + 2) : Append(es, <<v>>)[j] = bo[j]
    BY ONLY <1>5, <2>1, <2>3, <2>4
  <2>6. bo = Append(es, <<v>>)
    <3> DEFINE x == Append(es, <<v>>)
    <3>1. x \in Seq(Seq(Scalars)) /\ Len(x) = Len(bo) /\ Len(bo) = k + 2
      BY ONLY <1>5, <2>3, <2>4
    <3>2. \A j \in 1..Len(bo) : bo[j] = x[j]
      BY ONLY <2>5, <3>1
    <3> HIDE DEF x
    <3>3. bo = x
      BY ONLY <1>5, <3>1, <3>2, SeqEqual
    <3> QED BY ONLY <3>3 DEF x
  <2>7. FlattenSeq(es) = <<>>
    BY ONLY <2>1, EmptiesFlatten
  <2>8. FlattenSeq(bo) = <<>> \o <<v>>
    BY ONLY <2>1, <2>2, <2>6, <2>7, FlattenAppend
  <2> QED BY ONLY <2>2, <2>8, ConcatEmptySeq
<1> HIDE DEF bo
<1>7. OutsFollow(t, b, bo)
  <2>1. \A j \in 1..(k + 2) : j = 1 \/ j = k + 2 \/ m + j \in (m + 2)..(m + k + 1)
    BY ONLY <1>2
  <2>2. 1 # k + 2 /\ \A j \in 1..(k + 2) : m + j \in (m + 2)..(m + k + 1) => j # k + 2
    BY ONLY <1>2
  <2>3. \A j \in 1..(k + 2) : Out(c, m + j) = bo[j]
    BY ONLY <1>3, <1>5, <2>1, <2>2
  <2> QED BY ONLY <1>2, <1>5, <2>3 DEF OutsFollow, c, m
<1>8. Outs(c) \in Seq(Seq(Scalars)) /\ FlattenSeq(Outs(c)) = key \o <<v>>
  <2>1. Outs(c) \in Seq(Seq(Scalars)) /\ FlattenSeq(Outs(c)) = FlattenSeq(Outs(t)) \o FlattenSeq(bo)
    BY ONLY <1>1, <1>2, <1>5, <1>7, OutsOfConcat DEF c
  <2> QED BY ONLY <2>1, <1>1, <1>6
<1>9. \A i \in 1..Len(c) : i \notin Marks(c) => c[i] \in Symbols
  <2>1. \A i \in 1..last : i \in 1..m \/ i = m + 1 \/ i \in (m + 2)..(m + k + 1) \/ i = last
    BY ONLY <1>2
  <2> HIDE DEF last
  <2> QED BY ONLY <1>1, <1>3, <2>1
<1>10. \A i \in Marks(c) : Closes(c, i) => IsScalar(CharAt(c, i))
  <2>1. IsScalar(v)
    BY DEF Scalars
  <2> HIDE DEF last
  <2>2. \A i \in Marks(c) : (i \in Marks(t) /\ i \in 1..m) \/ i = m + 1 \/ i = last
    BY ONLY <1>2, <1>3
  <2> QED BY ONLY <1>1, <1>3, <1>4, <2>1, <2>2
<1>11. DecodesAs(c, key \o <<v>>)
  BY ONLY <1>3, <1>8, <1>9, <1>10 DEF DecodesAs
<1> QED BY ONLY <1>11 DEF c, b

\* A character is encoded in the same way whatever follows it.
LEMMA CustomEncodeAppend ==
  ASSUME NEW key \in Seq(Nat), NEW c \in Nat
  PROVE  /\ CustomEncode(key) \in Seq(TagSymbols)
         /\ LET b == CustomBlock(Append(key, c), Len(key) + 1)
            IN /\ CustomEncode(Append(key, c)) = CustomEncode(key) \o b
               /\ b \in CustomBlocks
               /\ (b = <<c>> /\ c \in Symbols) \/ (b = Bracketed(Digits[c]) /\ Digits[c] \in Seq(Symbols))
<1> DEFINE l == Append(key, c)
           n == Len(key)
           b == CustomBlock(l, n + 1)
           bk == CustomBlocksOf(key)
           bl == CustomBlocksOf(l)
<1>1. /\ l \in Seq(Nat) /\ n \in Nat /\ Len(l) = n + 1 /\ l[n + 1] = c
      /\ \A i \in 1..n : l[i] = key[i]
  BY AppendProperties, LenProperties
<1>2. /\ bk \in Seq(CustomBlocks) /\ Len(bk) = n /\ \A i \in 1..n : bk[i] = CustomBlock(key, i)
      /\ CustomEncode(key) = FlattenSeq(bk) /\ CustomEncode(key) \in Seq(TagSymbols)
  BY CustomBlocksOfProperties, CustomEncodeType
<1> HIDE DEF l, bk, n
<1>3. /\ bl \in Seq(CustomBlocks) /\ Len(bl) = n + 1
      /\ \A i \in 1..(n + 1) : /\ bl[i] = CustomBlock(l, i)
                               /\ Copied(l, i) => l[i] \in Symbols
                               /\ encode_char(l[i]) = Bracketed(Digits[l[i]])
                               /\ Digits[l[i]] \in Seq(Symbols)
      /\ CustomEncode(l) = FlattenSeq(bl)
  <2>1. Len(l) = n + 1 /\ l \in Seq(Nat)
    BY ONLY <1>1
  <2>2. /\ bl \in Seq(CustomBlocks) /\ Len(bl) = Len(l)
        /\ \A i \in 1..Len(l) : /\ bl[i] = CustomBlock(l, i)
                                /\ Copied(l, i) => l[i] \in Symbols
                                /\ encode_char(l[i]) = Bracketed(Digits[l[i]])
                                /\ Digits[l[i]] \in Seq(Symbols)
        /\ CustomEncode(l) = FlattenSeq(bl)
    BY ONLY <2>1, CustomBlocksOfProperties
  <2> QED BY ONLY <2>1, <2>2, Zenon
<1> HIDE DEF bl
<1>4. n + 1 \in 1..(n + 1) /\ \A i \in 1..n : i \in 1..(n + 1)
  BY ONLY <1>1
<1>5. bl[n + 1] = b /\ bl[n + 1] \in CustomBlocks
  <2>1. bl[n + 1] = b
    BY ONLY <1>3, <1>4
  <2> HIDE DEF b
  <2> QED BY ONLY <1>3, <1>4, <2>1, ElementOfSeq
<1>6. \A i \in 1..n : bl[i] = bk[i]
  <2> TAKE i \in 1..n
  <2>1. Copied(l, i) <=> Copied(key, i)
    BY ONLY <1>1, i \in 1..n DEF Copied
  <2>2. CustomBlock(l, i) = CustomBlock(key, i)
    BY ONLY <1>1, <2>1, i \in 1..n DEF CustomBlock
  <2> QED BY ONLY <1>2, <1>3, <1>4, <2>2, i \in 1..n
<1>7. (b = <<c>> /\ c \in Symbols) \/ (b = Bracketed(Digits[c]) /\ Digits[c] \in Seq(Symbols))
  BY ONLY <1>1, <1>3, <1>4 DEF CustomBlock
<1> HIDE DEF b
<1>8. b \in CustomBlocks
  BY ONLY <1>5
<1>9. bl = Append(bk, b)
  <2> DEFINE x == Append(bk, b)
  <2>1. x \in Seq(CustomBlocks) /\ Len(x) = n + 1 /\ (\A i \in 1..n : x[i] = bk[i]) /\ x[n + 1] = b
    BY ONLY <1>2, <1>8, AppendProperties
  <2> HIDE DEF x
  <2>2. \A i \in 1..(n + 1) : i \in 1..n \/ i = n + 1
    BY ONLY <1>1
  <2>3. \A i \in 1..Len(bl) : bl[i] = x[i]
    BY ONLY <1>3, <1>5, <1>6, <2>1, <2>2
  <2>4. bl = x
    BY ONLY <1>3, <2>1, <2>3, SeqEqual
  <2> QED BY ONLY <2>4 DEF x
<1>10. FlattenSeq(Append(bk, b)) = FlattenSeq(bk) \o b
  <2>1. bk \in Seq(Seq(TagSymbols)) /\ b \in Seq(TagSymbols)
    BY ONLY <1>2, <1>8, CustomBlocksProperties, SeqMonotonic
  <2> QED BY ONLY <2>1, FlattenAppend
<1>11. CustomEncode(l) = CustomEncode(key) \o b
  BY ONLY <1>2, <1>3, <1>9, <1>10, Zenon
<1> QED BY ONLY <1>2, <1>7, <1>8, <1>11 DEF l, n, b

\* A character is its code point.
LEMMA ScalarsAreCodePoints == Scalars \subseteq CodePoints /\ Scalars \subseteq Nat
BY SMT DEF Scalars, CodePoints

\* A custom tag is decoded as the key it was made from.
THEOREM CustomRoundTrip == \A key \in Seq(Scalars) : CustomDecode(CustomEncode(key)) = key
<1> DEFINE T == { key \in Seq(Scalars) : DecodesAs(CustomEncode(key), key) }
<1>1. <<>> \in T
  <2>1. CustomEncode(<<>>) = <<>>
    <3>1. <<>> \in Seq(Nat)
      OBVIOUS
    <3>2. CustomEncode(<<>>) = FlattenSeq(CustomBlocksOf(<<>>)) /\ CustomBlocksOf(<<>>) \in Seq(CustomBlocks)
          /\ Len(CustomBlocksOf(<<>>)) = Len(<<>>)
      BY ONLY <3>1, CustomBlocksOfProperties
    <3>3. CustomBlocksOf(<<>>) = <<>>
      BY ONLY <3>2, EmptySeq
    <3> QED BY ONLY <3>2, <3>3, FlattenEmpty
  <2>2. DOMAIN <<>> = {} /\ <<>> \in Seq(TagSymbols) /\ <<>> \in Seq(Seq(Scalars)) /\ Len(<<>>) = 0
        /\ <<>> \in Seq(Scalars)
    OBVIOUS
  <2>3. Marks(<<>>) = {}
    BY ONLY <2>2 DEF Marks
  <2>4. Outs(<<>>) = <<>>
    BY ONLY <2>2 DEF Outs
  <2>5. Cardinality({}) = 0 /\ 0 % 2 = 0
    BY FS_EmptySet
  <2>6. \A i \in 1..0 : FALSE
    OBVIOUS
  <2>7. DecodesAs(<<>>, <<>>)
    BY ONLY <2>2, <2>3, <2>4, <2>5, <2>6, FlattenEmpty DEF DecodesAs
  <2> QED BY <2>1, <2>2, <2>7
<1>2. ASSUME NEW key \in Seq(Scalars), NEW c \in Scalars, key \in T PROVE Append(key, c) \in T
  <2> DEFINE t == CustomEncode(key)
             b == CustomBlock(Append(key, c), Len(key) + 1)
  <2>1. DecodesAs(t, key)
    BY ONLY <1>2
  <2>2. key \in Seq(Nat) /\ c \in Nat /\ c \in CodePoints
    BY ScalarsAreCodePoints, SeqMonotonic
  <2>3. CustomEncode(Append(key, c)) = t \o b
        /\ ((b = <<c>> /\ c \in Symbols) \/ (b = Bracketed(Digits[c]) /\ Digits[c] \in Seq(Symbols)))
    BY ONLY <2>2, CustomEncodeAppend
  <2>4. Append(key, c) = key \o <<c>> /\ Append(key, c) \in Seq(Scalars)
    BY AppendIsConcat, AppendProperties
  <2> HIDE DEF t, b
  <2>5. DecodesAs(t \o b, key \o <<c>>)
    <3>1. CASE b = <<c>> /\ c \in Symbols
      BY ONLY <3>1, <2>1, DecodesSymbol
    <3>2. CASE b = Bracketed(Digits[c]) /\ Digits[c] \in Seq(Symbols)
      <4>1. c = decode_char(Digits[c])
        BY ONLY <2>2, DecodeDigits
      <4> DEFINE d == Digits[c]
      <4>2. d \in Seq(Symbols) /\ c = decode_char(d) /\ b = Bracketed(d)
        BY ONLY <3>2, <4>1
      <4> HIDE DEF d
      <4> QED BY ONLY <2>1, <4>2, c \in Scalars, DecodesBrackets
    <3> QED BY ONLY <3>1, <3>2, <2>3
  <2> QED BY <2>3, <2>4, <2>5
<1> HIDE DEF T
<1>3. Seq(Scalars) \subseteq T
  BY ONLY <1>1, <1>2, SeqInduct
<1> QED BY ONLY <1>3, CustomDecodeAs DEF T

----------------------------------------------------------------------------
(* From bytes back to characters.                                          *)

\* The names of FromUtf8.
Starts(b) == { i \in DOMAIN b : b[i] \notin 128..191 }
EndsPiece(b, i, j) ==
  /\ j \in i..Len(b)
  /\ j = Len(b) \/ j + 1 \in Starts(b)
  /\ \A h \in (i + 1)..j : h \notin Starts(b)
PieceEnd(b, i) == CHOOSE j \in i..Len(b) : /\ j = Len(b) \/ j + 1 \in Starts(b)
                                           /\ \A h \in (i + 1)..j : h \notin Starts(b)
Piece(b, i) == SubSeq(b, i, PieceEnd(b, i))
ValidPiece(p) == Len(p) <= 4 /\ IsScalar(CodeOf(p)) /\ Utf8(CodeOf(p)) = p
ByteOut(b, i) == IF i \in Starts(b) THEN <<CodeOf(Piece(b, i))>> ELSE <<>>
ByteOuts(b) == [i \in DOMAIN b |-> ByteOut(b, i)]

\* The bytes b are read as key.
ReadsAs(b, key) ==
  /\ b \in Seq(0..255)
  /\ b = <<>> \/ 1 \in Starts(b)
  /\ \A i \in Starts(b) : (\E j : EndsPiece(b, i, j)) /\ ValidPiece(Piece(b, i))
  /\ ByteOuts(b) \in Seq(Seq(Scalars))
  /\ FlattenSeq(ByteOuts(b)) = key

\* Bytes that are read as key are those of which FromUtf8 returns key.
LEMMA FromUtf8ReadsAs ==
  ASSUME NEW b, NEW key, ReadsAs(b, key)
  PROVE  FromUtf8(b) = key
<1>1. FromUtf8(b) = IF b = <<>> \/ (1 \in Starts(b) /\ \A i \in Starts(b) : ValidPiece(Piece(b, i)))
                      THEN FlattenSeq(ByteOuts(b))
                      ELSE Undecodable
  BY ONLY TRUE, SMT DEF FromUtf8, Starts, PieceEnd, Piece, ValidPiece, ByteOut, ByteOuts, CodeOf
<1> QED BY ONLY <1>1, ReadsAs(b, key) DEF ReadsAs

\* A piece has one end.
LEMMA PieceEndIs ==
  ASSUME NEW b \in Seq(0..255), NEW i \in 1..Len(b), NEW j, EndsPiece(b, i, j)
  PROVE  j \in i..Len(b) /\ PieceEnd(b, i) = j
<1> DEFINE S == Starts(b)
           e == PieceEnd(b, i)
           n == Len(b)
<1>1. n \in Nat
  BY LenProperties
<1>2. j \in i..n /\ (j = n \/ j + 1 \in S) /\ \A h \in (i + 1)..j : h \notin S
  BY ONLY EndsPiece(b, i, j) DEF EndsPiece
<1>3. e \in i..n /\ (e = n \/ e + 1 \in S) /\ \A h \in (i + 1)..e : h \notin S
  BY ONLY <1>2 DEF PieceEnd
<1> HIDE DEF S, e, n
<1>4. ~(j < e)
  <2>1. ASSUME j < e PROVE FALSE
    <3>1. j # n /\ j + 1 \in (i + 1)..e
      BY ONLY <1>1, <1>2, <1>3, <2>1, i \in 1..Len(b) DEF n
    <3> QED BY ONLY <1>2, <1>3, <3>1
  <2> QED BY ONLY <2>1
<1>5. ~(e < j)
  <2>1. ASSUME e < j PROVE FALSE
    <3>1. e # n /\ e + 1 \in (i + 1)..j
      BY ONLY <1>1, <1>2, <1>3, <2>1, i \in 1..Len(b) DEF n
    <3> QED BY ONLY <1>2, <1>3, <3>1
  <2> QED BY ONLY <2>1
<1>6. e = j
  BY ONLY <1>1, <1>2, <1>3, <1>4, <1>5, i \in 1..Len(b) DEF n
<1> QED BY ONLY <1>2, <1>6 DEF e, n

\* A sequence is the concatenation of two whose elements it has, in order.
Follows(f, m, p) == \A j \in 1..Len(p) : f[m + j] = p[j]
LEMMA IsConcat ==
  ASSUME NEW S, NEW o \in Seq(S), NEW p \in Seq(S), NEW f, DOMAIN f = 1..(Len(o) + Len(p)),
         f = [i \in DOMAIN f |-> f[i]],
         AgreeOn(f, o, Len(o)), Follows(f, Len(o), p)
  PROVE  f = o \o p
<1> DEFINE m == Len(o)
           n == Len(p)
           x == o \o p
<1>1. m \in Nat /\ n \in Nat
  BY LenProperties
<1>2. x \in Seq(S) /\ Len(x) = m + n
  BY ConcatProperties
<1>3. \A i \in 1..(m + n) : x[i] = IF i <= m THEN o[i] ELSE p[i - m]
  BY ConcatProperties
<1>4. (\A i \in 1..m : f[i] = o[i]) /\ (\A j \in 1..n : f[m + j] = p[j])
  BY DEF AgreeOn, Follows
<1>5. f = [i \in 1..(m + n) |-> f[i]]
  OBVIOUS
<1> HIDE DEF m, n, x
<1>6. x = [i \in 1..(m + n) |-> x[i]]
  BY ONLY <1>2, LenProperties
<1>7. \A i \in 1..(m + n) : (i <= m /\ i \in 1..m) \/ (~(i <= m) /\ i - m \in 1..n /\ m + (i - m) = i)
  BY ONLY <1>1
<1>8. \A i \in 1..(m + n) : f[i] = x[i]
  BY ONLY <1>3, <1>4, <1>7
<1>9. f = x
  BY ONLY <1>5, <1>6, <1>8, Zenon
<1> QED BY ONLY <1>9 DEF x

\* A character after bytes begins a piece, its other bytes begin none.
LEMMA StartsOfConcat ==
  ASSUME NEW b \in Seq(0..255), NEW c \in CodePoints
  PROVE  LET d == b \o Utf8(c)
             m == Len(b)
             n == Len(Utf8(c))
         IN /\ d \in Seq(0..255) /\ Len(d) = m + n /\ m \in Nat /\ n \in 1..4
            /\ \A i \in 1..m : d[i] = b[i] /\ (i \in Starts(d) <=> i \in Starts(b))
            /\ m + 1 \in Starts(d)
            /\ \A i \in (m + 2)..(m + n) : i \notin Starts(d)
            /\ Starts(d) \subseteq 1..(m + n) /\ Starts(b) \subseteq 1..m
            /\ \A f \in 1..m, h \in 1..m : SubSeq(d, f, h) = SubSeq(b, f, h)
            /\ SubSeq(d, m + 1, m + n) = Utf8(c)
<1> DEFINE x == Utf8(c)
           d == b \o x
           m == Len(b)
           n == Len(x)
<1>1. x \in Seq(0..255) /\ n \in 1..4 /\ x[1] \notin 128..191 /\ \A i \in 2..n : x[i] \in 128..191
  BY ONLY c \in CodePoints, Utf8Bytes, ZenonT(40)
<1> HIDE DEF x
<1>2. d \in Seq(0..255) /\ Len(d) = m + n
  BY ONLY <1>1, b \in Seq(0..255), ConcatProperties
<1>3. \A i \in 1..(m + n) : d[i] = IF i <= m THEN b[i] ELSE x[i - m]
  BY ONLY <1>1, b \in Seq(0..255), ConcatProperties
<1>4. m \in Nat /\ DOMAIN b = 1..m
  BY LenProperties
<1>5. DOMAIN d = 1..(m + n)
  BY ONLY <1>2, LenProperties
<1>6. \A f \in 1..m, h \in 1..m : SubSeq(d, f, h) = SubSeq(b, f, h)
  BY ONLY <1>1, b \in Seq(0..255), SubSeqOfConcat1
<1>7. SubSeq(d, m + 1, m + n) = x
  BY ONLY <1>1, <1>2, b \in Seq(0..255), SplitConcat
<1> HIDE DEF d, m, n
<1>8. \A i \in 1..m : i \in 1..(m + n) /\ i <= m
  BY ONLY <1>1, <1>4
<1>9. \A i \in 1..m : d[i] = b[i] /\ (i \in Starts(d) <=> i \in Starts(b))
  <2> TAKE i \in 1..m
  <2>1. d[i] = b[i]
    BY ONLY <1>3, <1>8, i \in 1..m
  <2>2. i \in DOMAIN d /\ i \in DOMAIN b
    BY ONLY <1>4, <1>5, <1>8, i \in 1..m
  <2> QED BY ONLY <2>1, <2>2, Zenon DEF Starts
<1>10. m + 1 \in Starts(d)
  <2>1. m + 1 \in 1..(m + n) /\ ~(m + 1 <= m) /\ (m + 1) - m = 1
    BY ONLY <1>1, <1>4
  <2> QED BY ONLY <1>1, <1>3, <1>5, <2>1, ZenonT(40) DEF Starts
<1>11. \A i \in (m + 2)..(m + n) : i \notin Starts(d)
  <2>1. \A i \in (m + 2)..(m + n) : i \in 1..(m + n) /\ ~(i <= m) /\ i - m \in 2..n
    BY ONLY <1>1, <1>4
  <2> QED BY ONLY <1>1, <1>3, <2>1, ZenonT(40) DEF Starts
<1>12. Starts(d) \subseteq 1..(m + n) /\ Starts(b) \subseteq 1..m
  BY ONLY <1>4, <1>5 DEF Starts
<1> QED BY ONLY <1>1, <1>2, <1>4, <1>6, <1>7, <1>9, <1>10, <1>11, <1>12 DEF d, x, m, n

\* One more character.
LEMMA ReadsCharacter ==
  ASSUME NEW b, NEW key, ReadsAs(b, key), NEW c \in Scalars
  PROVE  ReadsAs(b \o Utf8(c), key \o <<c>>)
<1> DEFINE x == Utf8(c)
           d == b \o x
           m == Len(b)
           n == Len(x)
           o == ByteOuts(b)
           es == [j \in 1..(n - 1) |-> <<>>]
           bo == << <<c>> >> \o es
<1>1. /\ b \in Seq(0..255) /\ (b = <<>> \/ 1 \in Starts(b))
      /\ \A i \in Starts(b) : (\E j : EndsPiece(b, i, j)) /\ ValidPiece(Piece(b, i))
      /\ o \in Seq(Seq(Scalars)) /\ FlattenSeq(o) = key
  BY DEF ReadsAs
<1>2. c \in CodePoints /\ IsScalar(c)
  BY DEF Scalars
<1>3. /\ d \in Seq(0..255) /\ Len(d) = m + n /\ m \in Nat /\ n \in 1..4
      /\ \A i \in 1..m : d[i] = b[i] /\ (i \in Starts(d) <=> i \in Starts(b))
      /\ m + 1 \in Starts(d)
      /\ \A i \in (m + 2)..(m + n) : i \notin Starts(d)
      /\ Starts(d) \subseteq 1..(m + n) /\ Starts(b) \subseteq 1..m
      /\ \A f \in 1..m, h \in 1..m : SubSeq(d, f, h) = SubSeq(b, f, h)
      /\ SubSeq(d, m + 1, m + n) = x
  BY ONLY <1>1, <1>2, StartsOfConcat, Zenon
<1>4. CodeOf(x) = c
  BY ONLY <1>2, Utf8Bytes, Zenon
<1>5. b = <<>> \/ m # 0
  BY ONLY <1>1, EmptySeq
<1>6. DOMAIN d = 1..(m + n) /\ DOMAIN b = 1..m
  BY ONLY <1>1, <1>3, LenProperties
<1> HIDE DEF x, d, m, n, o
<1>7. 1 \in Starts(d)
  <2>1. CASE m = 0
    BY ONLY <1>3, <2>1
  <2>2. CASE m # 0
    <3>1. 1 \in 1..m
      BY ONLY <1>3, <2>2
    <3>2. 1 \in Starts(b)
      <4>1. b # <<>>
        <5>1. Len(<<>>) = 0
          OBVIOUS
        <5> QED BY ONLY <2>2, <5>1 DEF m
      <4> QED BY ONLY <1>1, <4>1
    <3> QED BY ONLY <1>3, <3>1, <3>2
  <2> QED BY ONLY <2>1, <2>2
<1>8. ASSUME NEW i \in Starts(b)
      PROVE  (\E j : EndsPiece(d, i, j)) /\ Piece(d, i) = Piece(b, i)
  <2>1. PICK j : EndsPiece(b, i, j)
    BY ONLY <1>1, <1>8
  <2>2. i \in 1..m
    BY ONLY <1>3, <1>8
  <2>3. j \in i..m /\ PieceEnd(b, i) = j
    BY ONLY <1>1, <2>1, <2>2, PieceEndIs DEF m
  <2>4. (j = m \/ j + 1 \in Starts(b)) /\ \A h \in (i + 1)..j : h \notin Starts(b)
    BY ONLY <2>1 DEF EndsPiece, m
  <2>5. j \in 1..m /\ j \in i..(m + n) /\ \A h \in (i + 1)..j : h \in 1..m
    BY ONLY <1>3, <2>2, <2>3
  <2>6. j + 1 \in Starts(d)
    BY ONLY <1>3, <2>4
  <2>7. \A h \in (i + 1)..j : h \notin Starts(d)
    BY ONLY <1>3, <2>4, <2>5
  <2>8. EndsPiece(d, i, j)
    BY ONLY <1>3, <2>5, <2>6, <2>7 DEF EndsPiece
  <2>9. PieceEnd(d, i) = j
    <3>1. i \in 1..Len(d)
      BY ONLY <1>3, <2>2
    <3> QED BY ONLY <1>3, <2>8, <3>1, PieceEndIs
  <2>10. SubSeq(d, i, j) = SubSeq(b, i, j)
    BY ONLY <1>3, <2>2, <2>5
  <2> QED BY ONLY <2>3, <2>8, <2>9, <2>10, Zenon DEF Piece
<1>9. EndsPiece(d, m + 1, m + n) /\ Piece(d, m + 1) = x
  <2>1. m + n \in (m + 1)..(m + n) /\ m + 1 \in 1..(m + n) /\ (m + 1) + 1 = m + 2
    BY ONLY <1>3
  <2>2. EndsPiece(d, m + 1, m + n)
    BY ONLY <1>3, <2>1 DEF EndsPiece
  <2>3. PieceEnd(d, m + 1) = m + n
    BY ONLY <1>3, <2>1, <2>2, PieceEndIs
  <2> QED BY ONLY <1>3, <2>2, <2>3, Zenon DEF Piece
<1>10. ValidPiece(x)
  <2>1. n <= 4
    BY ONLY <1>3
  <2> QED BY ONLY <1>2, <1>4, <2>1, Zenon DEF ValidPiece, x, n
<1>11. \A i \in Starts(d) : i \in Starts(b) \/ i = m + 1
  <2>1. \A i \in 1..(m + n) : i \in 1..m \/ i = m + 1 \/ i \in (m + 2)..(m + n)
    BY ONLY <1>3
  <2> QED BY ONLY <1>3, <2>1
<1>12. \A i \in Starts(d) : (\E j : EndsPiece(d, i, j)) /\ ValidPiece(Piece(d, i))
  <2> TAKE i \in Starts(d)
  <2>1. CASE i \in Starts(b)
    BY ONLY <2>1, <1>1, <1>8, Zenon
  <2>2. CASE i = m + 1
    BY ONLY <2>2, <1>9, <1>10, Zenon
  <2> QED BY ONLY <2>1, <2>2, <1>11, i \in Starts(d)
<1>13. /\ bo \in Seq(Seq(Scalars)) /\ Len(bo) = n /\ bo[1] = <<c>> /\ \A j \in 2..n : bo[j] = <<>>
       /\ FlattenSeq(bo) = <<c>>
  <2> DEFINE hs == << <<c>> >>
  <2>1. /\ hs \in Seq(Seq(Scalars)) /\ Len(hs) = 1 /\ hs[1] = <<c>>
    OBVIOUS
  <2>2. /\ es \in Seq({<<>>}) /\ es \in Seq(Seq(Scalars)) /\ Len(es) = n - 1
        /\ \A j \in 1..(n - 1) : es[j] = <<>>
    BY ONLY <1>3
  <2>3. FlattenSeq(hs) = <<c>> /\ <<c>> \in Seq(Scalars)
    BY SingleFlattens
  <2> HIDE DEF hs, es
  <2>4. bo \in Seq(Seq(Scalars)) /\ Len(bo) = Len(hs) + Len(es)
    BY ONLY <2>1, <2>2, ConcatProperties DEF hs
  <2>5. \A i \in 1..(Len(hs) + Len(es)) : bo[i] = IF i <= Len(hs) THEN hs[i] ELSE es[i - Len(hs)]
    BY ONLY <2>1, <2>2, ConcatProperties DEF hs
  <2>6. FlattenSeq(es) = <<>>
    BY ONLY <2>2, EmptiesFlatten
  <2>7. FlattenSeq(bo) = <<c>> \o <<>>
    BY ONLY <2>1, <2>2, <2>3, <2>6, FlattenConcat, ZenonT(40) DEF hs
  <2>8. <<c>> \o <<>> = <<c>>
    BY ONLY <2>3, ConcatEmptySeq
  <2> HIDE DEF bo
  <2>9. 1 \in 1..(1 + (n - 1)) /\ 1 <= 1 /\ 1 + (n - 1) = n
    BY ONLY <1>3
  <2>10. \A j \in 2..n : j \in 1..(1 + (n - 1)) /\ ~(j <= 1) /\ j - 1 \in 1..(n - 1)
    BY ONLY <1>3
  <2> QED BY ONLY <2>1, <2>2, <2>4, <2>5, <2>7, <2>8, <2>9, <2>10
<1> HIDE DEF bo, es
<1>14. ByteOuts(d) = o \o bo
  <2> DEFINE f == ByteOuts(d)
  <2>1. f = [i \in 1..(m + n) |-> ByteOut(d, i)] /\ o = [i \in 1..m |-> ByteOut(b, i)]
    BY ONLY <1>6 DEF ByteOuts, o
  <2>2. Len(o) = m /\ \A i \in 1..m : o[i] = ByteOut(b, i)
    BY ONLY <1>3, <2>1
  <2>3. \A i \in 1..m : ByteOut(d, i) = ByteOut(b, i)
    <3> TAKE i \in 1..m
    <3>1. CASE i \in Starts(b)
      BY ONLY <3>1, <1>3, <1>8, i \in 1..m, Zenon DEF ByteOut
    <3>2. CASE i \notin Starts(b)
      BY ONLY <3>2, <1>3, i \in 1..m, Zenon DEF ByteOut
    <3> QED BY ONLY <3>1, <3>2
  <2>4. \A j \in 1..n : ByteOut(d, m + j) = bo[j]
    <3> TAKE j \in 1..n
    <3>1. CASE j = 1
      <4>1. ByteOut(d, m + 1) = <<c>>
        BY ONLY <1>3, <1>4, <1>9, Zenon DEF ByteOut
      <4> QED BY ONLY <3>1, <4>1, <1>13
    <3>2. CASE j # 1
      <4>1. j \in 2..n /\ m + j \in (m + 2)..(m + n)
        BY ONLY <3>2, <1>3, j \in 1..n
      <4>2. ByteOut(d, m + j) = <<>>
        BY ONLY <1>3, <4>1, Zenon DEF ByteOut
      <4> QED BY ONLY <4>1, <4>2, <1>13
    <3> QED BY ONLY <3>1, <3>2
  <2>5. \A i \in 1..(m + n) : f[i] = ByteOut(d, i)
    BY ONLY <2>1
  <2>6. DOMAIN f = 1..(m + n) /\ f = [i \in DOMAIN f |-> f[i]]
    BY ONLY <2>1
  <2> HIDE DEF f
  <2>7. AgreeOn(f, o, m) /\ Follows(f, m, bo)
    <3>1. \A i \in 1..m : i \in 1..(m + n)
      BY ONLY <1>3
    <3>2. \A j \in 1..n : m + j \in 1..(m + n)
      BY ONLY <1>3
    <3>3. AgreeOn(f, o, m)
      BY ONLY <2>2, <2>3, <2>5, <3>1 DEF AgreeOn
    <3>4. Follows(f, m, bo)
      BY ONLY <2>4, <2>5, <3>2, <1>13 DEF Follows
    <3> QED BY ONLY <3>3, <3>4
  <2>8. f = o \o bo
    BY ONLY <1>1, <1>13, <2>2, <2>6, <2>7, IsConcat
  <2> QED BY ONLY <2>8 DEF f
<1>15. ByteOuts(d) \in Seq(Seq(Scalars)) /\ FlattenSeq(ByteOuts(d)) = key \o <<c>>
  <2>1. o \o bo \in Seq(Seq(Scalars))
    BY ONLY <1>1, <1>13, ConcatProperties
  <2>2. FlattenSeq(o \o bo) = FlattenSeq(o) \o FlattenSeq(bo)
    BY ONLY <1>1, <1>13, FlattenConcat
  <2> QED BY ONLY <1>1, <1>13, <1>14, <2>1, <2>2, Zenon
<1>16. ReadsAs(d, key \o <<c>>)
  BY ONLY <1>3, <1>7, <1>12, <1>15, Zenon DEF ReadsAs
<1> QED BY ONLY <1>16 DEF d, x

\* The bytes of a key and one more character.
LEMMA BytesOfAppend ==
  ASSUME NEW key \in Seq(CodePoints), NEW c \in CodePoints
  PROVE  BytesOf(Append(key, c)) = BytesOf(key) \o Utf8(c)
<1> DEFINE l == Append(key, c)
           bk == Utf8BlocksOf(key)
           bl == Utf8BlocksOf(l)
           x == Utf8(c)
           n == Len(key)
<1>1. n \in Nat /\ l \in Seq(CodePoints) /\ Len(l) = n + 1 /\ (\A i \in 1..n : l[i] = key[i]) /\ l[n + 1] = c
  BY AppendProperties, LenProperties
<1> HIDE DEF l, n
<1>2. bk \in Seq(Utf8Blocks) /\ Len(bk) = n /\ \A i \in 1..n : bk[i] = Utf8(key[i])
  BY Utf8BlocksOfProperties DEF n
<1>3. bl \in Seq(Utf8Blocks) /\ Len(bl) = n + 1 /\ \A i \in 1..(n + 1) : bl[i] = Utf8(l[i])
  BY ONLY <1>1, Utf8BlocksOfProperties
<1>4. x \in Utf8Blocks
  BY ONLY c \in CodePoints, Zenon DEF Utf8Blocks
<1> HIDE DEF bk, bl
<1>5. bl[n + 1] = x
  BY ONLY <1>1, <1>3
<1>6. \A i \in 1..n : bl[i] = bk[i]
  BY ONLY <1>1, <1>2, <1>3
<1> HIDE DEF x
<1>7. bl = Append(bk, x)
  <2> DEFINE y == Append(bk, x)
  <2>1. y \in Seq(Utf8Blocks) /\ Len(y) = n + 1 /\ (\A i \in 1..n : y[i] = bk[i]) /\ y[n + 1] = x
    BY ONLY <1>2, <1>4, AppendProperties
  <2> HIDE DEF y
  <2>2. \A i \in 1..(n + 1) : i \in 1..n \/ i = n + 1
    BY ONLY <1>1
  <2>3. \A i \in 1..Len(bl) : bl[i] = y[i]
    BY ONLY <1>3, <1>5, <1>6, <2>1, <2>2
  <2>4. bl = y
    BY ONLY <1>3, <2>1, <2>3, SeqEqual
  <2> QED BY ONLY <2>4 DEF y
<1>8. FlattenSeq(Append(bk, x)) = FlattenSeq(bk) \o x
  <2>1. bk \in Seq(Seq(0..255)) /\ x \in Seq(0..255)
    BY ONLY <1>2, <1>4, Utf8BlocksProperties, SeqMonotonic
  <2> QED BY ONLY <2>1, FlattenAppend
<1> QED BY ONLY <1>7, <1>8, Zenon DEF BytesOf, l, bk, bl, x

\* Bytes are read as the key they are of.
LEMMA BytesRead == \A key \in Seq(Scalars) : FromUtf8(BytesOf(key)) = key
<1> DEFINE T == { key \in Seq(Scalars) : ReadsAs(BytesOf(key), key) }
<1>1. <<>> \in T
  <2>1. BytesOf(<<>>) = <<>>
    <3>1. <<>> \in Seq(CodePoints)
      OBVIOUS
    <3>2. Utf8BlocksOf(<<>>) \in Seq(Utf8Blocks) /\ Len(Utf8BlocksOf(<<>>)) = Len(<<>>)
      BY ONLY <3>1, Utf8BlocksOfProperties
    <3>3. Utf8BlocksOf(<<>>) = <<>>
      BY ONLY <3>2, EmptySeq
    <3> QED BY ONLY <3>3, FlattenEmpty DEF BytesOf
  <2>2. DOMAIN <<>> = {} /\ <<>> \in Seq(0..255) /\ <<>> \in Seq(Seq(Scalars)) /\ <<>> \in Seq(Scalars)
    OBVIOUS
  <2>3. Starts(<<>>) = {}
    BY ONLY <2>2 DEF Starts
  <2>4. ByteOuts(<<>>) = <<>>
    BY ONLY <2>2 DEF ByteOuts
  <2>5. ReadsAs(<<>>, <<>>)
    BY ONLY <2>2, <2>3, <2>4, FlattenEmpty DEF ReadsAs
  <2> QED BY <2>1, <2>2, <2>5
<1>2. ASSUME NEW key \in Seq(Scalars), NEW c \in Scalars, key \in T PROVE Append(key, c) \in T
  <2>1. ReadsAs(BytesOf(key), key)
    BY ONLY <1>2
  <2>2. key \in Seq(CodePoints) /\ c \in CodePoints
    BY ScalarsAreCodePoints, SeqMonotonic
  <2>3. BytesOf(Append(key, c)) = BytesOf(key) \o Utf8(c)
    BY ONLY <2>2, BytesOfAppend
  <2>4. Append(key, c) = key \o <<c>> /\ Append(key, c) \in Seq(Scalars)
    BY AppendIsConcat, AppendProperties
  <2>5. ReadsAs(BytesOf(key) \o Utf8(c), key \o <<c>>)
    BY ONLY <2>1, <1>2, ReadsCharacter
  <2> QED BY <2>3, <2>4, <2>5
<1> HIDE DEF T
<1>3. Seq(Scalars) \subseteq T
  BY ONLY <1>1, <1>2, SeqInduct
<1> QED BY ONLY <1>3, FromUtf8ReadsAs DEF T

\* A base32 tag is decoded as the key it was made from.
THEOREM Base32RoundTrip == \A key \in Seq(Scalars) : Base32Decode(Base32Encode(key)) = key
<1> TAKE key \in Seq(Scalars)
<1> DEFINE tag == Base32Encode(key)
           bytes == BytesOf(key)
           words == WordsOf(key)
           values == [i \in DOMAIN tag |-> Base32Value(tag[i])]
<1>1. key \in Seq(CodePoints)
  BY ScalarsAreCodePoints, SeqMonotonic
<1>2. /\ words \in Seq(0..31) /\ (5 * Len(words)) \div 8 = Len(bytes)
      /\ Len(words) % 8 \notin {1, 3, 6} /\ Len(words) = (8 * Len(bytes) + 4) \div 5
      /\ Regroup(words, 5, 8, Len(bytes)) = bytes
  BY ONLY <1>1, WordsOfProperties
<1>3. /\ tag \in Seq(Base32Symbols) /\ Len(tag) = Len(words)
      /\ \A j \in 1..Len(words) : Base32Value(tag[j]) = words[j]
  BY ONLY <1>1, Base32EncodeProperties
<1>4. words = Regroup(bytes, 8, 5, (8 * Len(bytes) + 4) \div 5)
  BY ONLY TRUE, Zenon DEF WordsOf
<1>5. Base32Decode(tag) =
        IF /\ \A i \in DOMAIN values : values[i] < 32
           /\ Len(tag) % 8 \notin {1, 3, 6}
           /\ Regroup(Regroup(values, 5, 8, (5 * Len(tag)) \div 8), 8, 5, Len(tag)) = values
          THEN FromUtf8(Regroup(values, 5, 8, (5 * Len(tag)) \div 8))
          ELSE Undecodable
  BY ONLY TRUE, Zenon DEF Base32Decode
<1> HIDE DEF tag, bytes, words
<1>6. DOMAIN tag = 1..Len(words) /\ words = [i \in 1..Len(words) |-> words[i]]
      /\ \A i \in 1..Len(words) : words[i] \in 0..31
      /\ DOMAIN words = 1..Len(words)
  BY ONLY <1>2, <1>3, LenProperties, ElementOfSeq
<1>7. values = words
  BY ONLY <1>3, <1>6
<1>8. \A i \in DOMAIN words : words[i] < 32
  <2>1. \A x \in 0..31 : x < 32
    OBVIOUS
  <2>2. \A i \in DOMAIN words : words[i] \in 0..31
    BY ONLY <1>6, Zenon
  <2> QED BY ONLY <2>1, <2>2, Zenon
<1>9. FromUtf8(bytes) = key
  BY BytesRead DEF bytes
<1> HIDE DEF values
<1>10. Regroup(Regroup(values, 5, 8, (5 * Len(tag)) \div 8), 8, 5, Len(tag)) = values
  BY ONLY <1>2, <1>3, <1>4, <1>7, Zenon
<1>11. Regroup(values, 5, 8, (5 * Len(tag)) \div 8) = bytes /\ Len(tag) % 8 \notin {1, 3, 6}
  BY ONLY <1>2, <1>3, <1>7, Zenon
<1>12. Base32Decode(tag) = key
  BY ONLY <1>5, <1>7, <1>8, <1>9, <1>10, <1>11, Zenon
<1> QED BY ONLY <1>12 DEF tag

----------------------------------------------------------------------------
(* The way back from a tag.                                                *)

\* A tag is decoded as its key by the encoding that made it.
LEMMA RoundTrip ==
  ASSUME NEW key \in Seq(Scalars), NEW e \in Encodings
  PROVE  tag_to_key(e, key_to_tag(e, key)) = key
<1>1. CASE e = "custom"
  BY ONLY <1>1, CustomRoundTrip, Zenon DEF tag_to_key, key_to_tag
<1>2. CASE e = "base32_dnssec"
  <2>1. e # "custom"
    BY <1>2
  <2> QED BY ONLY <2>1, Base32RoundTrip, Zenon DEF tag_to_key, key_to_tag
<1> QED BY ONLY <1>1, <1>2, e \in Encodings DEF Encodings

\* No key is Undecodable.
LEMMA KeysDecode == Undecodable \notin Seq(Scalars)
<1> SUFFICES ASSUME Undecodable \in Seq(Scalars) PROVE FALSE
  OBVIOUS
<1>1. Undecodable \in Seq(Nat)
  BY ScalarsAreCodePoints, SeqMonotonic
<1>2. <<-1>> \in Seq(Nat) => -1 \in Nat
  <2>1. Len(<<-1>>) = 1 /\ <<-1>>[1] = -1 /\ 1 \in 1..1
    OBVIOUS
  <2> QED BY ONLY <2>1, ElementOfSeq
<1> QED BY ONLY <1>1, <1>2 DEF Undecodable

\* base32 refuses the custom tag of a key that no base32 tag looks like.
LEMMA Base32Refuses ==
  ASSUME NEW key \in Seq(Scalars), ~LooksBase32(key)
  PROVE  Base32Decode(CustomEncode(key)) = Undecodable
<1> DEFINE tag == CustomEncode(key)
<1>1. key \in Seq(Nat)
  BY ScalarsAreCodePoints, SeqMonotonic
<1>2. DOMAIN key = 1..Len(key)
  BY LenProperties
<1>3. PICK i \in 1..Len(key) : ~(Base32Value(key[i]) < 32)
  BY ONLY <1>2, ~LooksBase32(key) DEF LooksBase32
<1>4. PICK x : Occurs(x, tag) /\ ~(Base32Value(x) < 32)
  <2>1. CASE Copied(key, i)
    BY ONLY <1>1, <1>3, <2>1, CustomEncodeOccurs
  <2>2. CASE ~Copied(key, i)
    <3>1. Occurs(Underscore, tag)
      BY ONLY <1>1, <1>3, <2>2, CustomEncodeOccurs
    <3>2. ~(Base32Value(Underscore) < 32)
      BY ONLY TRUE, SMT DEF Base32Value, Underscore
    <3> QED BY ONLY <3>1, <3>2
  <2> QED BY ONLY <2>1, <2>2
<1>5. tag \in Seq(TagSymbols)
  BY ONLY <1>1, CustomEncodeType
<1> HIDE DEF tag
<1>6. PICK h \in 1..Len(tag) : tag[h] = x
  BY ONLY <1>4 DEF Occurs
<1>7. DOMAIN tag = 1..Len(tag)
  BY ONLY <1>5, LenProperties
<1> DEFINE values == [j \in DOMAIN tag |-> Base32Value(tag[j])]
<1>8. h \in DOMAIN values /\ ~(values[h] < 32)
  BY ONLY <1>4, <1>6, <1>7
<1>9. ~(\A j \in DOMAIN values : values[j] < 32)
  BY ONLY <1>8, Zenon
<1>10. Base32Decode(tag) =
        IF /\ \A j \in DOMAIN values : values[j] < 32
           /\ Len(tag) % 8 \notin {1, 3, 6}
           /\ Regroup(Regroup(values, 5, 8, (5 * Len(tag)) \div 8), 8, 5, Len(tag)) = values
          THEN FromUtf8(Regroup(values, 5, 8, (5 * Len(tag)) \div 8))
          ELSE Undecodable
  BY ONLY TRUE, Zenon DEF Base32Decode
<1> HIDE DEF values
<1>11. Base32Decode(tag) = Undecodable
  BY ONLY <1>9, <1>10, Zenon
<1> QED BY ONLY <1>11 DEF tag

\* `oranc tag decode' prints the key of a tag, whichever encoding made it.
THEOREM DecodedBack == Spec => []DecodesBack
<1>1. TypeOK => DecodesBack
  <2> SUFFICES ASSUME TypeOK, NEW r \in DOMAIN store,
                      LET put == puts[store[r]]
                          key == KeyOf[put.location]
                          fallback == \E i \in DOMAIN encodings : encodings[i] = put.encoding
                      IN \/ put.encoding = MainEncoding
                         \/ MainEncoding = "base32_dnssec" /\ ~LooksBase32(key) /\ fallback
               PROVE  DecodeTag(encodings, r[3]) = KeyOf[puts[store[r]].location]
    BY DEF DecodesBack
  <2> DEFINE l == puts[store[r]].location
             e == puts[store[r]].encoding
             key == KeyOf[l]
             tag == r[3]
             decodes == { i \in DOMAIN encodings : tag_to_key(encodings[i], tag) # Undecodable }
             n == Len(encodings)
  <2>1. store[r] \in DOMAIN puts /\ r = PutAs(puts, store[r])
    BY DEF TypeOK, PutAs
  <2>2. l \in Locations /\ e \in Encodings /\ tag = key_to_tag(e, key)
    BY <2>1, PutTyped
  <2>3. key \in Seq(Scalars)
    BY ONLY <2>2, KeyTyped
  <2>4. /\ DOMAIN encodings = 1..n /\ n \in Nat /\ n # 0 /\ MainEncoding = encodings[1]
        /\ \A i \in 1..n : encodings[i] \in Encodings
    BY OptionsTyped DEF TypeOK, MainEncoding
  <2>5. \/ e = encodings[1]
        \/ encodings[1] = "base32_dnssec" /\ ~LooksBase32(key) /\ \E i \in 1..n : encodings[i] = e
    BY <2>4
  <2>6. DecodeTag(encodings, tag) =
          IF decodes = {} THEN Undecodable ELSE tag_to_key(encodings[Min(decodes)], tag)
    BY ONLY TRUE, Zenon DEF DecodeTag
  <2>7. decodes \subseteq Nat
    BY ONLY <2>4
  <2>8. tag_to_key(e, tag) = key /\ key # Undecodable
    BY ONLY <2>2, <2>3, RoundTrip, KeysDecode
  <2>9. \A i \in 1..n : i \in decodes <=> tag_to_key(encodings[i], tag) # Undecodable
    BY ONLY <2>4
  <2>10. decodes \subseteq 1..n
    BY ONLY <2>4
  <2> HIDE DEF l, e, key, tag, n
  <2>11. 1 \in 1..n
    BY ONLY <2>4
  <2> HIDE DEF decodes
  <2>12. CASE e = encodings[1]
    <3>1. 1 \in decodes
      BY ONLY <2>8, <2>9, <2>11, <2>12
    <3>2. Min(decodes) \in 1..n /\ Min(decodes) <= 1
      BY ONLY <2>7, <2>10, <3>1, MinLeast
    <3>3. Min(decodes) = 1
      BY ONLY <3>2, <2>4
    <3>4. decodes # {}
      BY ONLY <3>1
    <3>5. DecodeTag(encodings, tag) = key
      BY ONLY <2>6, <2>8, <2>12, <3>3, <3>4, Zenon
    <3> QED BY ONLY <3>5 DEF tag, key, l
  <2>13. CASE e # encodings[1] /\ encodings[1] = "base32_dnssec" /\ ~LooksBase32(key)
              /\ \E i \in 1..n : encodings[i] = e
    <3>1. e = "custom"
      BY ONLY <2>2, <2>13 DEF Encodings
    <3>2. Base32Decode(tag) = Undecodable
      <4>1. tag = CustomEncode(key)
        BY ONLY <2>2, <3>1, Zenon DEF key_to_tag
      <4> QED BY ONLY <2>3, <2>13, <4>1, Base32Refuses
    <3>3. ASSUME NEW i \in decodes PROVE encodings[i] = e
      <4>1. i \in 1..n /\ encodings[i] \in Encodings
        BY ONLY <2>4, <2>10, <3>3
      <4>2. tag_to_key(encodings[i], tag) # Undecodable
        BY ONLY <2>9, <3>3, <4>1
      <4>3. ASSUME encodings[i] # "custom" PROVE FALSE
        <5>1. tag_to_key(encodings[i], tag) = Base32Decode(tag)
          BY ONLY <4>3, Zenon DEF tag_to_key
        <5> QED BY ONLY <5>1, <3>2, <4>2
      <4> QED BY ONLY <3>1, <4>3
    <3>4. decodes # {}
      BY ONLY <2>8, <2>9, <2>13
    <3>5. Min(decodes) \in decodes
      BY ONLY <2>7, <3>4, MinLeast
    <3>6. DecodeTag(encodings, tag) = key
      BY ONLY <2>6, <2>8, <3>3, <3>4, <3>5, Zenon
    <3> QED BY ONLY <3>6 DEF tag, key, l
  <2>14. e = encodings[1] \/ (e # encodings[1] /\ encodings[1] = "base32_dnssec" /\ ~LooksBase32(key)
              /\ \E i \in 1..n : encodings[i] = e)
    BY ONLY <2>5
  <2> QED BY ONLY <2>12, <2>13, <2>14
<1> QED BY <1>1, TypeCorrect, PTL
=============================================================================
