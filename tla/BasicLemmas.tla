---------------------------- MODULE BasicLemmas ----------------------------
(***************************************************************************)
(* What the proofs of several components rest on: the least-number         *)
(* principle, in the form in which an induction is the claim that a set of *)
(* counterexamples is empty, and what FlattenSeq does.                     *)
(***************************************************************************)
EXTENDS Integers, SequencesExt, FiniteSetsExt, FiniteSetTheorems, TLAPS

\* The intervals from 0 are ordered by inclusion, and that order is well founded.
LEMMA LeastOf ==
  ASSUME NEW S \in SUBSET Nat, S # {}
  PROVE  /\ Min(S) \in S
         /\ \A k \in 0..Min(S) - 1 : k \notin S
<1> DEFINE R == StrictSubsetOrdering(Nat)
           T == {0..k : k \in S}
<1>1. T \subseteq FiniteSubsetsOf(Nat) /\ T # {}
  <2>1. \A k \in S : IsFiniteSet(0..k) /\ 0..k \in SUBSET Nat
    BY FS_Interval
  <2>2. QED
    BY <2>1 DEF FiniteSubsetsOf
<1>2. PICK I \in T : \A J \in T : ~ (<<J, I>> \in R)
  <2>1. IsWellFoundedOn(R, FiniteSubsetsOf(Nat))
    BY FS_StrictSubsetOrderingWellFounded
  <2> HIDE DEF R, T
  <2>2. QED
    BY <1>1, <2>1, WFMin
<1>3. PICK x \in S : I = 0..x
  OBVIOUS
<1>4. \A y \in S : x =< y
  <2>1. SUFFICES ASSUME NEW y \in S, y < x PROVE FALSE
    OBVIOUS
  <2>2. 0..y \subseteq 0..x /\ x \in 0..x /\ x \notin 0..y
    BY <2>1
  <2>3. 0..y \in SUBSET Nat /\ 0..x \in SUBSET Nat
    OBVIOUS
  <2>4. <<0..y, 0..x>> \in R
    BY <2>2, <2>3 DEF StrictSubsetOrdering
  <2>5. QED
    BY <1>2, <1>3, <2>4
<1>5. \E z \in S : \A y \in S : z =< y
  BY <1>4
<1>6. Min(S) \in S /\ \A y \in S : Min(S) =< y
  BY <1>5, Zenon DEF Min
<1>7. QED
  <2> DEFINE m == Min(S)
  <2>1. m \in Nat /\ m \in S /\ \A y \in S : m =< y
    BY <1>6
  <2> HIDE DEF m, R, T
  <2>2. \A k \in 0..m - 1 : k \notin S
    BY <2>1
  <2>3. QED
    BY <2>1, <2>2 DEF m

(***************************************************************************)
(* FlattenSeq.                                                             *)
(***************************************************************************)
Flattened(f, ss, i) == IF i = 1 THEN ss[i] ELSE f[i - 1] \o ss[i]
IsFlat(f, ss) == f = [i \in 1..Len(ss) |-> Flattened(f, ss, i)]

\* The recursion has a solution, and it consists of sequences.
LEMMA FlatGoesOn ==
  ASSUME NEW S, NEW ss \in Seq(Seq(S)), NEW s \in Seq(S), NEW f, IsFlat(f, ss),
         f \in [1..Len(ss) -> Seq(S)]
  PROVE  LET n == Len(ss) + 1
             g == [i \in 1..n |-> IF i < n THEN f[i] ELSE IF n = 1 THEN s ELSE f[n - 1] \o s]
         IN  IsFlat(g, Append(ss, s)) /\ g \in [1..n -> Seq(S)]
<1> DEFINE n == Len(ss) + 1
           g == [i \in 1..n |-> IF i < n THEN f[i] ELSE IF n = 1 THEN s ELSE f[n - 1] \o s]
           t == Append(ss, s)
<1>1. n \in Nat \ {0} /\ Len(t) = n /\ t[n] = s /\ \A i \in 1..n - 1 : t[i] = ss[i]
  OBVIOUS
<1>2. \A i \in 1..n - 1 : f[i] = Flattened(f, ss, i) /\ f[i] \in Seq(S)
  <2>1. \A i \in 1..Len(ss) : f[i] = Flattened(f, ss, i)
    BY Zenon DEF IsFlat
  <2>2. 1..n - 1 = 1..Len(ss)
    OBVIOUS
  <2>3. QED
    BY <2>1, <2>2
<1> HIDE DEF t
<1>3. ASSUME NEW i \in 1..n
      PROVE  g[i] = Flattened(g, t, i) /\ g[i] \in Seq(S)
  <2>1. CASE i < n
    <3>1. i \in 1..n - 1 /\ g[i] = f[i] /\ t[i] = ss[i]
      BY <1>1, <2>1
    <3>2. i # 1 => g[i - 1] = f[i - 1]
      BY <1>1, <2>1
    <3>3. QED
      BY <1>2, <3>1, <3>2 DEF Flattened
  <2>2. CASE i = n
    <3>1. g[n] = (IF n = 1 THEN s ELSE f[n - 1] \o s)
      BY <1>1
    <3>2. n # 1 => g[n - 1] = f[n - 1] /\ f[n - 1] \in Seq(S)
      BY <1>1, <1>2
    <3>3. QED
      BY <1>1, <2>2, <3>1, <3>2 DEF Flattened
  <2>3. QED
    BY <2>1, <2>2
<1>4. g = [i \in 1..n |-> g[i]]
  OBVIOUS
<1> HIDE DEF g
<1>5. g = [i \in 1..n |-> Flattened(g, t, i)]
  BY <1>3, <1>4
<1>6. IsFlat(g, t) /\ g \in [1..n -> Seq(S)]
  BY <1>1, <1>3, <1>4, <1>5 DEF IsFlat
<1>7. QED
  BY <1>6 DEF g, t

LEMMA FlatExists ==
  ASSUME NEW S, NEW ss \in Seq(Seq(S))
  PROVE  \E f \in [1..Len(ss) -> Seq(S)] : IsFlat(f, ss)
<1> DEFINE Stuck == {n \in Nat : \E t \in Seq(Seq(S)) :
                       Len(t) = n /\ ~ \E f \in [1..n -> Seq(S)] : IsFlat(f, t)}
           m     == Min(Stuck)
<1>1. SUFFICES ASSUME Len(ss) \in Stuck PROVE FALSE
  BY DEF Stuck
<1>2. m \in Stuck /\ \A k \in 0..m - 1 : k \notin Stuck
  BY <1>1, LeastOf
<1> HIDE DEF m
<1>3. PICK t \in Seq(Seq(S)) : Len(t) = m /\ ~ \E f \in [1..m -> Seq(S)] : IsFlat(f, t)
  BY <1>2
<1>4. CASE m = 0
  <2>1. <<>> \in [1..0 -> Seq(S)] /\ <<>> = [i \in 1..0 |-> Flattened(<<>>, t, i)]
    OBVIOUS
  <2>2. IsFlat(<<>>, t)
    BY <1>3, <1>4, <2>1 DEF IsFlat
  <2>3. QED
    BY <1>3, <1>4, <2>1, <2>2
<1>5. CASE m # 0
  <2> DEFINE r == SubSeq(t, 1, m - 1)
             s == t[m]
  <2>1. m \in Nat /\ m - 1 \in Nat /\ m - 1 \in 0..m - 1
    BY <1>2, <1>5
  <2>2. r \in Seq(Seq(S)) /\ Len(r) = m - 1 /\ s \in Seq(S) /\ t = Append(r, s)
    BY <1>3, <2>1
  <2> HIDE DEF r, s
  <2>3. PICK f \in [1..m - 1 -> Seq(S)] : IsFlat(f, r)
    BY <1>2, <2>1, <2>2
  <2>4. \E g : IsFlat(g, Append(r, s)) /\ g \in [1..(m - 1) + 1 -> Seq(S)]
    BY <2>2, <2>3, FlatGoesOn
  <2>5. QED
    BY <1>3, <2>1, <2>2, <2>4
<1>6. QED
  BY <1>4, <1>5

LEMMA FlatUnique ==
  ASSUME NEW ss, Len(ss) \in Nat, NEW f, NEW g, IsFlat(f, ss), IsFlat(g, ss)
  PROVE  f = g
<1> DEFINE Bad == {i \in Nat : i \in 1..Len(ss) /\ f[i] # g[i]}
           m   == Min(Bad)
<1>1. /\ \A i \in 1..Len(ss) : f[i] = Flattened(f, ss, i)
      /\ \A i \in 1..Len(ss) : g[i] = Flattened(g, ss, i)
  BY Zenon DEF IsFlat
<1>2. ASSUME Bad # {} PROVE FALSE
  <2>1. m \in Bad /\ \A k \in 0..m - 1 : k \notin Bad
    BY <1>2, LeastOf
  <2> HIDE DEF m
  <2>2. CASE m = 1
    BY <1>1, <2>1, <2>2 DEF Flattened
  <2>3. CASE m # 1
    <3>1. m - 1 \in 0..m - 1 /\ m - 1 \in Nat /\ m - 1 \in 1..Len(ss)
      BY <2>1, <2>3
    <3>2. f[m - 1] = g[m - 1]
      BY <2>1, <3>1
    <3>3. QED
      BY <1>1, <2>1, <2>3, <3>2 DEF Flattened
  <2>4. QED
    BY <2>2, <2>3
<1>3. \A i \in 1..Len(ss) : f[i] = g[i]
  BY <1>2
<1>4. f = [i \in 1..Len(ss) |-> f[i]] /\ g = [i \in 1..Len(ss) |-> g[i]]
  BY Zenon DEF IsFlat
<1>5. QED
  BY <1>3, <1>4, Zenon

LEMMA FlatIs ==
  ASSUME NEW S, NEW ss \in Seq(Seq(S)), ss # <<>>, NEW f, IsFlat(f, ss)
  PROVE  FlattenSeq(ss) = f[Len(ss)]
<1>1. Len(ss) \in Nat /\ Len(ss) # 0
  OBVIOUS
<1> DEFINE F == CHOOSE g : IsFlat(g, ss)
<1>2. FlattenSeq(ss) = F[Len(ss)]
  BY <1>1 DEF FlattenSeq, IsFlat, Flattened
<1>3. IsFlat(F, ss)
  BY Zenon
<1> HIDE DEF F
<1>4. F = f
  BY <1>1, <1>3, FlatUnique
<1>5. QED
  BY <1>2, <1>4

\* What FlattenSeq does is to concatenate.
LEMMA FlatAppend ==
  ASSUME NEW S, NEW ss \in Seq(Seq(S)), NEW s \in Seq(S)
  PROVE  /\ FlattenSeq(ss) \in Seq(S)
         /\ FlattenSeq(Append(ss, s)) = IF ss = <<>> THEN s ELSE FlattenSeq(ss) \o s
<1> DEFINE n == Len(ss) + 1
           t == Append(ss, s)
<1>1. PICK f \in [1..Len(ss) -> Seq(S)] : IsFlat(f, ss)
  BY FlatExists
<1> DEFINE g == [i \in 1..n |-> IF i < n THEN f[i] ELSE IF n = 1 THEN s ELSE f[n - 1] \o s]
<1>2. IsFlat(g, t)
  BY <1>1, FlatGoesOn
<1>3. t \in Seq(Seq(S)) /\ t # <<>> /\ Len(t) = n /\ n \in Nat \ {0} /\ n - 1 = Len(ss)
  OBVIOUS
<1>4. g[n] = IF n = 1 THEN s ELSE f[Len(ss)] \o s
  BY <1>3
<1> HIDE DEF n, t, g
<1>5. FlattenSeq(t) = g[n]
  BY <1>2, <1>3, FlatIs
<1>6. CASE ss = <<>>
  <2>1. FlattenSeq(ss) = <<>> /\ <<>> \in Seq(S)
    BY <1>6 DEF FlattenSeq
  <2>2. n = 1
    BY <1>6 DEF n
  <2>3. QED
    BY <1>4, <1>5, <1>6, <2>1, <2>2 DEF t
<1>7. CASE ss # <<>>
  <2>1. FlattenSeq(ss) = f[Len(ss)]
    BY <1>1, <1>7, FlatIs
  <2>2. Len(ss) \in 1..Len(ss) /\ n # 1
    BY <1>7 DEF n
  <2>3. QED
    BY <1>1, <1>4, <1>5, <1>7, <2>1, <2>2 DEF t
<1>8. QED
  BY <1>6, <1>7
=============================================================================
