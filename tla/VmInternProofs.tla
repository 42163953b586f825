--------------------------- MODULE VmInternProofs ---------------------------
(***************************************************************************)
(* Proofs about the intern table of VmIntern, for any contents, any hash   *)
(* function, any initial capacity of at least two slots and any number of  *)
(* strings.                                                                *)
(***************************************************************************)
EXTENDS VmIntern, BasicLemmas, FiniteSetTheorems, TLAPS

NonNull(t, n) == {i \in 0..n - 1 : t[i] # Null}

\* A probe for hash h reaches slot i: no empty slot comes before it.
Reaches(t, n, h, i) ==
  \E k \in 0..n - 1 :
    Slot(h, k, n) = i /\ \A j \in 0..k - 1 : t[Slot(h, j, n)] # Null

\* Every string of A that is in t is reached by a probe for its hash.
Placed(t, n, h, A) ==
  \A i \in 0..n - 1 : t[i] \in A => Reaches(t, n, h[t[i]], i)

\* A table of n slots over the strings S, c of them filled.
IsTable(t, n, S, c) ==
  /\ t \in [0..n - 1 -> S \cup {Null}]
  /\ Cardinality(NonNull(t, n)) = c

HashOf == [s \in Strings |-> Hash[text[s]]]

\* The inductive invariant.
TextOK  == \E m \in Nat : text \in [1..m -> Contents]
TableOK == /\ cap \in Nat /\ cap # 1 /\ count \in Nat
           /\ count <= (cap * 3) \div 4
           /\ IsTable(table, cap, Strings, count)
HeapOK  == heap \subseteq Entries /\ held \subseteq Strings
PlaceOK == Placed(table, cap, HashOf, heap)

IInv == TextOK /\ TableOK /\ HeapOK /\ PlaceOK /\ OnePerContent

(***************************************************************************)
(* Slots.                                                                  *)
(***************************************************************************)
\* The probe sequence goes through every slot once.
LEMMA SlotRange ==
  ASSUME NEW n \in Nat \ {0}, NEW h \in Nat, NEW k \in 0..n - 1
  PROVE  Slot(h, k, n) \in 0..n - 1
<1>1. h % n \in 0..n - 1
  OBVIOUS
<1>2. QED
  BY <1>1 DEF Slot

LEMMA SlotOnto ==
  ASSUME NEW n \in Nat \ {0}, NEW h \in Nat, NEW i \in 0..n - 1
  PROVE  \E k \in 0..n - 1 : Slot(h, k, n) = i
<1>1. h % n \in 0..n - 1
  OBVIOUS
<1> DEFINE r == h % n
           k == IF i < r THEN (i - r) + n ELSE i - r
<1> HIDE DEF r
<1>2. k \in 0..n - 1 /\ (IF r + k < n THEN r + k ELSE (r + k) - n) = i
  BY <1>1 DEF r
<1>3. Slot(h, k, n) = i
  BY <1>2 DEF Slot, r
<1>4. QED
  BY <1>2, <1>3

LEMMA EmptySlot ==
  ASSUME NEW n \in Nat, NEW S, NEW c \in Nat, NEW t, IsTable(t, n, S, c), c < n
  PROVE  \E i \in 0..n - 1 : t[i] = Null
<1>1. SUFFICES ASSUME \A i \in 0..n - 1 : t[i] # Null PROVE FALSE
  OBVIOUS
<1>2. NonNull(t, n) = 0..n - 1
  BY <1>1 DEF NonNull
<1>3. Cardinality(0..n - 1) = n
  BY FS_Interval, n - 1 \in Int
<1>4. QED
  BY <1>2, <1>3 DEF IsTable

(***************************************************************************)
(* Probing and placing.                                                    *)
(***************************************************************************)
LEMMA ProbeStops ==
  ASSUME NEW n \in Nat \ {0}, NEW h \in Nat, NEW t,
         \E i \in 0..n - 1 : t[i] = Null
  PROVE  /\ ProbeLength(t, n, h) \in 0..n - 1
         /\ t[Slot(h, ProbeLength(t, n, h), n)] = Null
         /\ \A j \in 0..ProbeLength(t, n, h) - 1 : t[Slot(h, j, n)] # Null
<1> DEFINE S == {k \in 0..n - 1 : t[Slot(h, k, n)] = Null}
<1>1. PICK i \in 0..n - 1 : t[i] = Null
  OBVIOUS
<1>2. PICK k \in 0..n - 1 : Slot(h, k, n) = i
  BY SlotOnto
<1>3. S \in SUBSET Nat /\ S # {}
  BY <1>1, <1>2
<1>4. Min(S) \in S /\ \A j \in 0..Min(S) - 1 : j \notin S
  BY <1>3, LeastOf
<1>5. ProbeLength(t, n, h) = Min(S)
  BY DEF ProbeLength
<1>6. \A j \in 0..Min(S) - 1 : j \in 0..n - 1
  BY <1>4
<1>7. QED
  BY <1>4, <1>5, <1>6

\* What is reached in a search is before the first empty slot.
LEMMA ReachedInTime ==
  ASSUME NEW n \in Nat \ {0}, NEW h \in Nat, NEW t,
         \E i \in 0..n - 1 : t[i] = Null,
         NEW i \in 0..n - 1, t[i] # Null, Reaches(t, n, h, i)
  PROVE  \E k \in 0..ProbeLength(t, n, h) - 1 : Slot(h, k, n) = i
<1> DEFINE p == ProbeLength(t, n, h)
<1>1. p \in 0..n - 1 /\ t[Slot(h, p, n)] = Null
  BY ProbeStops
<1> HIDE DEF p
<1>2. PICK k \in 0..n - 1 :
        Slot(h, k, n) = i /\ \A j \in 0..k - 1 : t[Slot(h, j, n)] # Null
  BY DEF Reaches
<1>3. k # p /\ ~(p \in 0..k - 1)
  BY <1>1, <1>2
<1>4. k \in 0..p - 1
  BY <1>1, <1>3
<1>5. QED
  BY <1>2, <1>4 DEF p

\* Filling an empty slot takes nothing out of reach.
LEMMA StillReached ==
  ASSUME NEW n \in Nat \ {0}, NEW g \in Nat, NEW t, DOMAIN t = 0..n - 1,
         NEW p \in 0..n - 1, t[p] = Null, NEW s, s # Null,
         NEW i \in 0..n - 1, Reaches(t, n, g, i)
  PROVE  Reaches([t EXCEPT ![p] = s], n, g, i)
<1> DEFINE u == [t EXCEPT ![p] = s]
<1>1. \A j \in 0..n - 1 : t[j] # Null => u[j] # Null
  OBVIOUS
<1>2. PICK k \in 0..n - 1 :
        Slot(g, k, n) = i /\ \A j \in 0..k - 1 : t[Slot(g, j, n)] # Null
  BY DEF Reaches
<1>3. ASSUME NEW j \in 0..k - 1 PROVE u[Slot(g, j, n)] # Null
  <2>1. j \in 0..n - 1
    OBVIOUS
  <2>2. Slot(g, j, n) \in 0..n - 1
    BY <2>1, SlotRange
  <2>3. QED
    BY <1>1, <1>2, <2>2
<1>4. QED
  BY <1>2, <1>3 DEF Reaches

\* The insertion loop: s gets an empty slot that its probe sequence reaches.
LEMMA PlaceFacts ==
  ASSUME NEW n \in Nat \ {0}, NEW h \in Nat, NEW S, NEW c \in Nat,
         NEW t, IsTable(t, n, S, c), c < n, NEW s \in S, s # Null
  PROVE  \E p \in 0..n - 1 :
           /\ t[p] = Null
           /\ Place(t, n, h, s) = [t EXCEPT ![p] = s]
           /\ IsTable(Place(t, n, h, s), n, S, c + 1)
           /\ Reaches(Place(t, n, h, s), n, h, p)
<1> DEFINE l == ProbeLength(t, n, h)
           p == Slot(h, l, n)
           u == Place(t, n, h, s)
<1>1. \E i \in 0..n - 1 : t[i] = Null
  BY EmptySlot
<1>2. /\ l \in 0..n - 1 /\ t[p] = Null
      /\ \A j \in 0..l - 1 : t[Slot(h, j, n)] # Null
  BY <1>1, ProbeStops
<1>3. p \in 0..n - 1
  BY <1>2, SlotRange
<1>4. u = [t EXCEPT ![p] = s]
  BY DEF Place
<1> HIDE DEF l, u
<1>5. t \in [0..n - 1 -> S \cup {Null}]
  BY DEF IsTable
<1>6. u \in [0..n - 1 -> S \cup {Null}] /\ u[p] = s
      /\ \A i \in 0..n - 1 : i # p => u[i] = t[i]
  BY <1>3, <1>4, <1>5
<1>7. Cardinality(NonNull(u, n)) = c + 1
  <2>1. NonNull(u, n) = NonNull(t, n) \cup {p} /\ p \notin NonNull(t, n)
    BY <1>2, <1>3, <1>6 DEF NonNull
  <2>2. NonNull(t, n) \in SUBSET (0..n - 1)
    BY DEF NonNull
  <2>3. IsFiniteSet(NonNull(t, n))
    <3>1. IsFiniteSet(0..n - 1)
      BY FS_Interval, n - 1 \in Int
    <3>2. QED
      BY <2>2, <3>1, FS_Subset
  <2>4. Cardinality(NonNull(t, n)) = c
    BY DEF IsTable
  <2>5. QED
    BY <2>1, <2>3, <2>4, FS_AddElement
<1>8. Reaches(u, n, h, p)
  <2>1. ASSUME NEW j \in 0..l - 1 PROVE u[Slot(h, j, n)] # Null
    <3>1. j \in 0..n - 1
      BY <1>2
    <3>2. Slot(h, j, n) \in 0..n - 1 /\ t[Slot(h, j, n)] # Null
      BY <1>2, <3>1, SlotRange
    <3>3. QED
      BY <1>6, <3>2
  <2>2. QED
    BY <1>2, <2>1 DEF Reaches
<1>9. QED
  BY <1>2, <1>3, <1>4, <1>6, <1>7, <1>8 DEF IsTable, u

\* u has the entries of t and s.
Gains(u, t, n, s) ==
  /\ \E i \in 0..n - 1 : u[i] = s
  /\ \A i \in 0..n - 1 : t[i] # Null => u[i] = t[i]

\* Every string that was reached still is, and s is, when h is its hash in g.
LEMMA PlaceKeeps ==
  ASSUME NEW n \in Nat \ {0}, NEW S, NEW c \in Nat,
         NEW t, IsTable(t, n, S, c), c < n, NEW s \in S, s # Null,
         NEW A \in SUBSET S, Null \notin A, NEW g \in [S -> Nat], Placed(t, n, g, A)
  PROVE  /\ Placed(Place(t, n, g[s], s), n, g, A)
         /\ IsTable(Place(t, n, g[s], s), n, S, c + 1)
         /\ Gains(Place(t, n, g[s], s), t, n, s)
<1> DEFINE u == Place(t, n, g[s], s)
<1>1. g[s] \in Nat
  OBVIOUS
<1>2. PICK p \in 0..n - 1 : /\ t[p] = Null /\ u = [t EXCEPT ![p] = s]
                           /\ IsTable(u, n, S, c + 1) /\ Reaches(u, n, g[s], p)
  BY <1>1, PlaceFacts
<1>3. t \in [0..n - 1 -> S \cup {Null}]
  BY DEF IsTable
<1> HIDE DEF u
<1>4. u[p] = s /\ \A i \in 0..n - 1 : i # p => u[i] = t[i]
  BY <1>2, <1>3
<1>5. ASSUME NEW i \in 0..n - 1, u[i] \in A PROVE Reaches(u, n, g[u[i]], i)
  <2>1. CASE i = p
    BY <1>2, <1>4, <2>1
  <2>2. CASE i # p
    <3>1. u[i] = t[i] /\ t[i] \in A
      BY <1>4, <1>5, <2>2
    <3>2. Reaches(t, n, g[t[i]], i) /\ g[t[i]] \in Nat
      BY <3>1 DEF Placed
    <3>3. QED
      BY <1>2, <1>3, <3>1, <3>2, StillReached
  <2>3. QED
    BY <2>1, <2>2
<1>6. Placed(u, n, g, A)
  BY <1>5 DEF Placed
<1>7. QED
  BY <1>2, <1>4, <1>6 DEF u, Gains

(***************************************************************************)
(* Growing.                                                                *)
(***************************************************************************)
\* One slot of the old table, and the table after the first i of them.
Step(t, n, h, i) ==
  IF table[i - 1] = Null THEN t ELSE Place(t, n, h[table[i - 1]], table[i - 1])

IsMove(f, n, h, i) ==
  f = [j \in 0..i |-> IF j = 0 THEN [x \in 0..n - 1 |-> Null] ELSE Step(f[j - 1], n, h, j)]

LEMMA MoveGoesOn ==
  ASSUME NEW n, NEW h, NEW i \in Nat, NEW f, IsMove(f, n, h, i)
  PROVE  \E g : IsMove(g, n, h, i + 1)
<1> DEFINE g == [j \in 0..i + 1 |-> IF j <= i THEN f[j] ELSE Step(f[i], n, h, i + 1)]
           e == [x \in 0..n - 1 |-> Null]
<1> HIDE DEF e
<1>1. \A j \in 0..i : f[j] = IF j = 0 THEN e ELSE Step(f[j - 1], n, h, j)
  BY DEF IsMove, e
<1>2. ASSUME NEW j \in 0..i + 1
      PROVE  g[j] = IF j = 0 THEN e ELSE Step(g[j - 1], n, h, j)
  <2>1. CASE j = i + 1
    <3>1. g[j] = Step(f[i], n, h, j) /\ j # 0 /\ j - 1 = i /\ g[i] = f[i]
      BY <2>1
    <3>2. QED
      BY <3>1
  <2>2. CASE j <= i
    <3>1. g[j] = f[j] /\ j \in 0..i
      BY <2>2
    <3>2. CASE j = 0
      BY <1>1, <3>1, <3>2
    <3>3. CASE j # 0
      <4>1. j - 1 \in 0..i + 1 /\ j - 1 <= i
        BY <3>1, <3>3
      <4>2. g[j - 1] = f[j - 1]
        BY <4>1
      <4>3. QED
        BY <1>1, <3>1, <3>3, <4>2
    <3>4. QED
      BY <3>2, <3>3
  <2>3. QED
    BY <2>1, <2>2
<1>3. g = [j \in 0..i + 1 |-> g[j]]
  OBVIOUS
<1> HIDE DEF g
<1>4. g = [j \in 0..i + 1 |-> IF j = 0 THEN e ELSE Step(g[j - 1], n, h, j)]
  BY <1>2, <1>3
<1>5. QED
  BY <1>4 DEF IsMove, e

LEMMA MoveExists ==
  ASSUME NEW n, NEW h, NEW c \in Nat
  PROVE  \E f : IsMove(f, n, h, c)
<1> DEFINE Stuck == {i \in Nat : ~ \E f : IsMove(f, n, h, i)}
           m     == Min(Stuck)
<1>1. SUFFICES ASSUME c \in Stuck PROVE FALSE
  OBVIOUS
<1>2. m \in Stuck /\ \A k \in 0..m - 1 : k \notin Stuck
  BY <1>1, LeastOf
<1> HIDE DEF m
<1>3. CASE m = 0
  <2> DEFINE e == [x \in 0..n - 1 |-> Null]
             f == [j \in 0..0 |-> e]
  <2> HIDE DEF e
  <2>1. f = [j \in 0..0 |-> IF j = 0 THEN e ELSE Step(f[j - 1], n, h, j)]
    OBVIOUS
  <2>2. IsMove(f, n, h, 0)
    BY <2>1 DEF IsMove, e
  <2>3. QED
    BY <1>2, <1>3, <2>2
<1>4. CASE m # 0
  <2>1. m - 1 \in Nat /\ m - 1 \in 0..m - 1 /\ (m - 1) + 1 = m
    BY <1>2, <1>4
  <2>2. \E f : IsMove(f, n, h, m - 1)
    BY <1>2, <2>1
  <2>3. \E g : IsMove(g, n, h, m)
    BY <2>1, <2>2, MoveGoesOn
  <2>4. QED
    BY <1>2, <2>3
<1>5. QED
  BY <1>3, <1>4

LEMMA MovedIs ==
  ASSUME NEW n, NEW h, cap \in Nat
  PROVE  \E f : IsMove(f, n, h, cap) /\ Moved(n, h) = f[cap]
<1> DEFINE f == CHOOSE g : IsMove(g, n, h, cap)
<1>1. IsMove(f, n, h, cap)
  BY MoveExists
<1>2. Moved(n, h) = f[cap]
  BY DEF Moved, IsMove, Step
<1>3. QED
  BY <1>1, <1>2

\* What holds of the new table when the first i slots of the old one are done: it
\* has their entries and no others, those of A where their hash h leads to.
Moving(t, i, n, h, A) ==
  /\ IsTable(t, n, Entries, Cardinality(NonNull(table, i)))
  /\ \A j \in 0..i - 1 : table[j] # Null => \E k \in 0..n - 1 : t[k] = table[j]
  /\ Placed(t, n, h, A)

\* The slots filled among the first i.
LEMMA FilledSlots ==
  ASSUME NEW i \in Nat
  PROVE  /\ IsFiniteSet(NonNull(table, i)) /\ Cardinality(NonNull(table, i)) \in 0..i
         /\ Cardinality(NonNull(table, i + 1)) =
              IF table[i] = Null THEN Cardinality(NonNull(table, i))
              ELSE Cardinality(NonNull(table, i)) + 1
<1>1. IsFiniteSet(0..i - 1) /\ Cardinality(0..i - 1) = i
  BY FS_Interval, i - 1 \in Int
<1>2. NonNull(table, i) \in SUBSET (0..i - 1)
  BY DEF NonNull
<1>3. IsFiniteSet(NonNull(table, i)) /\ Cardinality(NonNull(table, i)) <= i
  BY <1>1, <1>2, FS_Subset
<1>4. Cardinality(NonNull(table, i)) \in Nat
  BY <1>3, FS_CardinalityType
<1>5. CASE table[i] = Null
  <2>1. NonNull(table, i + 1) = NonNull(table, i)
    BY <1>5 DEF NonNull
  <2>2. QED
    BY <1>3, <1>4, <1>5, <2>1
<1>6. CASE table[i] # Null
  <2>1. NonNull(table, i + 1) = NonNull(table, i) \cup {i} /\ i \notin NonNull(table, i)
    BY <1>6 DEF NonNull
  <2>2. QED
    BY <1>3, <1>4, <1>6, <2>1, FS_AddElement
<1>7. QED
  BY <1>5, <1>6

LEMMA MoveStep ==
  ASSUME NEW i \in Nat, cap \in Nat, i < cap, NEW n \in Nat, cap < n,
         NEW h \in [Entries -> Nat], NEW A \in SUBSET Entries,
         NEW t, Moving(t, i, n, h, A)
  PROVE  Moving(Step(t, n, h, i + 1), i + 1, n, h, A)
<1> DEFINE c == Cardinality(NonNull(table, i))
           s == table[i]
           u == Step(t, n, h, i + 1)
<1>1. c \in Nat /\ c < n /\ Cardinality(NonNull(table, i + 1)) = IF s = Null THEN c ELSE c + 1
  BY FilledSlots
<1>2. u = IF s = Null THEN t ELSE Place(t, n, h[s], s)
  BY DEF Step
<1>3. IsTable(t, n, Entries, c) /\ Placed(t, n, h, A)
      /\ \A j \in 0..i - 1 : table[j] # Null => \E k \in 0..n - 1 : t[k] = table[j]
  BY DEF Moving
<1> HIDE DEF c, u
<1>4. CASE s = Null
  <2>1. \A j \in 0..(i + 1) - 1 : table[j] # Null => \E k \in 0..n - 1 : t[k] = table[j]
    BY <1>3, <1>4
  <2>2. QED
    BY <1>1, <1>2, <1>3, <1>4, <2>1 DEF Moving, u
<1>5. CASE s # Null
  <2>1. s \in Entries /\ Null \notin A /\ n \in Nat \ {0}
    BY <1>5 DEF Entries
  <2>2. /\ Placed(u, n, h, A) /\ IsTable(u, n, Entries, c + 1)
        /\ Gains(u, t, n, s)
    <3>1. u = Place(t, n, h[s], s) /\ c \in Nat /\ c < n
      BY <1>1, <1>2, <1>5
    <3> HIDE DEF s
    <3>2. /\ n \in Nat \ {0} /\ c \in Nat /\ IsTable(t, n, Entries, c) /\ c < n
          /\ s \in Entries /\ s # Null /\ A \in SUBSET Entries /\ Null \notin A
          /\ h \in [Entries -> Nat] /\ Placed(t, n, h, A)
      BY <1>3, <1>5, <2>1, <3>1
    <3>3. Placed(Place(t, n, h[s], s), n, h, A)
      BY <3>2, PlaceKeeps, Zenon
    <3>4. IsTable(Place(t, n, h[s], s), n, Entries, c + 1)
      BY <3>2, PlaceKeeps, Zenon
    <3>5. Gains(Place(t, n, h[s], s), t, n, s)
      BY <3>2, PlaceKeeps, Zenon
    <3>6. QED
      BY <3>1, <3>3, <3>4, <3>5
  <2>3. ASSUME NEW j \in 0..(i + 1) - 1, table[j] # Null
        PROVE  \E k \in 0..n - 1 : u[k] = table[j]
    <3>1. CASE j = i
      BY <2>2, <3>1 DEF Gains
    <3>2. CASE j # i
      <4>1. PICK k \in 0..n - 1 : t[k] = table[j]
        BY <1>3, <2>3, <3>2
      <4>2. u[k] = table[j]
        BY <2>2, <2>3, <4>1 DEF Gains
      <4>3. QED
        BY <4>2
    <3>3. QED
      BY <3>1, <3>2
  <2>4. QED
    BY <1>1, <1>5, <2>2, <2>3 DEF Moving, u
<1>6. QED
  BY <1>4, <1>5

LEMMA MovedFacts ==
  ASSUME cap \in Nat, NEW n \in Nat, cap < n,
         NEW h \in [Entries -> Nat], NEW A \in SUBSET Entries
  PROVE  Moving(Moved(n, h), cap, n, h, A)
<1>1. PICK f : IsMove(f, n, h, cap) /\ Moved(n, h) = f[cap]
  BY MovedIs
<1> DEFINE Bad == {i \in Nat : i <= cap /\ ~Moving(f[i], i, n, h, A)}
           m   == Min(Bad)
<1>2. SUFFICES ASSUME cap \in Bad PROVE FALSE
  BY <1>1
<1>3. m \in Bad /\ \A k \in 0..m - 1 : k \notin Bad
  BY <1>2, LeastOf
<1> HIDE DEF m
<1>4. f[0] = [x \in 0..n - 1 |-> Null]
  BY <1>1 DEF IsMove
<1>5. CASE m = 0
  <2> DEFINE e == [x \in 0..n - 1 |-> Null]
  <2>1. NonNull(e, n) = {} /\ NonNull(table, 0) = {}
    BY DEF NonNull
  <2>2. IsTable(e, n, Entries, Cardinality(NonNull(table, 0)))
    BY <2>1 DEF IsTable
  <2>3. Placed(e, n, h, A)
    <3>1. Null \notin A
      BY DEF Entries
    <3>2. QED
      BY <3>1 DEF Placed
  <2>4. Moving(e, 0, n, h, A)
    BY <2>2, <2>3 DEF Moving
  <2>5. QED
    BY <1>3, <1>4, <1>5, <2>4
<1>6. CASE m # 0
  <2>1. m - 1 \in Nat /\ m - 1 \in 0..m - 1 /\ (m - 1) + 1 = m /\ m - 1 < cap /\ m \in 0..cap
    BY <1>3, <1>6
  <2>2. Moving(f[m - 1], m - 1, n, h, A)
    BY <1>3, <2>1
  <2>3. f[m] = Step(f[m - 1], n, h, m)
    BY <1>1, <1>6, <2>1 DEF IsMove
  <2>4. Moving(f[m], m, n, h, A)
    BY <2>1, <2>2, <2>3, MoveStep
  <2>5. QED
    BY <1>3, <2>4
<1>7. QED
  BY <1>5, <1>6

(***************************************************************************)
(* Facts of a state that satisfies the invariant.                          *)
(***************************************************************************)
LEMMA StringFacts ==
  ASSUME TextOK
  PROVE  /\ Latest \in Nat /\ Strings = 1..Latest /\ text \in [Strings -> Contents]
         /\ HashOf \in [Strings -> Nat] /\ Null \notin Strings /\ Latest + 1 \notin Strings
<1>1. PICK m \in Nat : text \in [1..m -> Contents]
  BY DEF TextOK
<1>2. Strings = 1..m
  BY <1>1 DEF Strings
<1>3. Cardinality(1..m) = m
  BY FS_Interval
<1>4. Latest = m
  BY <1>2, <1>3 DEF Latest
<1>5. HashOf \in [Strings -> Nat]
  BY <1>1, <1>2, InternAssumption DEF HashOf, InternAssumption
<1>6. QED
  BY <1>1, <1>2, <1>4, <1>5 DEF Null

LEMMA EntryFacts ==
  ASSUME TextOK, TableOK
  PROVE  Entries \subseteq Strings /\ Null \notin Entries
         /\ \A s : s \in Entries <=> s # Null /\ \E i \in 0..cap - 1 : table[i] = s
  BY DEF TableOK, IsTable, Entries

\* The load factor leaves an empty slot, before and after the next insertion.
LEMMA RoomFacts ==
  ASSUME TableOK
  PROVE  /\ cap > 0 => count < cap
         /\ NewCap \in Nat \ {0, 1} /\ count + 1 <= (NewCap * 3) \div 4 /\ count < NewCap
         /\ MustGrow => cap < NewCap
         /\ ~MustGrow => NewCap = cap
<1>1. cap \in Nat /\ count \in Nat /\ cap # 1 /\ count <= (cap * 3) \div 4
  BY DEF TableOK
<1>2. InitCap \in Nat /\ InitCap >= 2
  BY InternAssumption DEF InternAssumption
<1>3. \A k \in Nat : k > 0 => (k * 3) \div 4 < k
  OBVIOUS
<1>4. \A k \in Nat, x \in Nat : k >= 2 /\ x <= (k * 3) \div 4 => x + 1 <= ((2 * k) * 3) \div 4
  OBVIOUS
<1>5. \A k \in Nat : k >= 2 => 1 <= (k * 3) \div 4
  OBVIOUS
<1>6. cap = 0 => count = 0
  BY <1>1
<1>7. CASE ~MustGrow
  <2>1. count + 1 <= (cap * 3) \div 4 /\ NewCap = cap
    BY <1>1, <1>7 DEF MustGrow, NewCap
  <2>2. cap # 0
    BY <1>1, <2>1
  <2>3. QED
    BY <1>1, <1>3, <1>7, <2>1, <2>2
<1>8. CASE MustGrow /\ cap = 0
  <2>1. NewCap = InitCap
    BY <1>8 DEF NewCap
  <2>2. QED
    BY <1>1, <1>2, <1>3, <1>5, <1>6, <1>8, <2>1
<1>9. CASE MustGrow /\ cap # 0
  <2>1. NewCap = 2 * cap /\ cap >= 2
    BY <1>1, <1>9 DEF NewCap
  <2>2. count + 1 <= ((2 * cap) * 3) \div 4 /\ count < cap
    BY <1>1, <1>3, <1>4, <2>1
  <2>3. QED
    BY <1>1, <1>9, <2>1, <2>2
<1>10. QED
  BY <1>7, <1>8, <1>9

LEMMA AlwaysEnds ==
  ASSUME IInv
  PROVE  ProbesEnd
<1>1. SUFFICES ASSUME cap > 0 PROVE \E i \in 0..cap - 1 : table[i] = Null
  BY DEF ProbesEnd
<1>2. cap \in Nat /\ count \in Nat /\ count < cap /\ IsTable(table, cap, Strings, count)
  BY <1>1, RoomFacts DEF IInv, TableOK
<1>3. QED
  BY <1>2, EmptySlot

LEMMA AlwaysFound ==
  ASSUME IInv
  PROVE  Findable
<1>1. SUFFICES ASSUME NEW s \in Entries, s \in heap
               PROVE  \E k \in Compared(text[s]) : Probed(text[s], k) = s
  BY DEF Findable
<1>2. s # Null /\ s \in Strings /\ \E i \in 0..cap - 1 : table[i] = s
  BY EntryFacts DEF IInv
<1>3. PICK i \in 0..cap - 1 : table[i] = s
  BY <1>2
<1> DEFINE h == Hash[text[s]]
<1>4. cap \in Nat \ {0} /\ h \in Nat /\ h = HashOf[s]
  BY <1>2, <1>3, StringFacts, InternAssumption DEF IInv, TableOK, InternAssumption, HashOf
<1>5. Reaches(table, cap, h, i)
  BY <1>1, <1>3, <1>4 DEF IInv, PlaceOK, Placed
<1>6. \E j \in 0..cap - 1 : table[j] = Null
  BY <1>4, AlwaysEnds DEF ProbesEnd
<1> HIDE DEF h
<1>7. PICK k \in 0..ProbeLength(table, cap, h) - 1 : Slot(h, k, cap) = i
  BY <1>2, <1>3, <1>4, <1>5, <1>6, ReachedInTime
<1>8. QED
  BY <1>3, <1>4, <1>7 DEF Compared, Probed, h

(***************************************************************************)
(* A new string.                                                           *)
(***************************************************************************)
\* The table the new string is put in.
Room(kept, junk) == IF MustGrow THEN Rehash(NewCap, kept, junk) ELSE table

Junks(kept) == [(IF MustGrow THEN Entries \ kept ELSE {}) -> 0..NewCap - 1]

\* A table of n slots with c entries, the strings of A among them, each reached.
Holds(t, n, S, c, g, A) ==
  /\ IsTable(t, n, S, c) /\ Placed(t, n, g, A)
  /\ \A s \in A : \E i \in 0..n - 1 : t[i] = s

LEMMA RoomHolds ==
  ASSUME TextOK, TableOK, HeapOK, PlaceOK,
         NEW kept \in SUBSET heap, NEW junk \in Junks(kept)
  PROVE  Holds(Room(kept, junk), NewCap, Strings, count, HashOf, kept)
<1>1. /\ Entries \subseteq Strings /\ Null \notin Entries /\ kept \subseteq Entries
      /\ \A s \in Entries : \E i \in 0..cap - 1 : table[i] = s
  BY EntryFacts DEF HeapOK
<1>2. CASE ~MustGrow
  <2>1. NewCap = cap /\ Room(kept, junk) = table
    BY <1>2, RoomFacts DEF Room
  <2>2. IsTable(table, cap, Strings, count)
    BY DEF TableOK
  <2>3. Placed(table, cap, HashOf, kept)
    BY DEF PlaceOK, Placed
  <2>4. QED
    BY <1>1, <2>1, <2>2, <2>3 DEF Holds
<1>3. CASE MustGrow
  <2> DEFINE h == [s \in Entries |-> IF s \in kept THEN Hash[text[s]] ELSE junk[s]]
             t == Moved(NewCap, h)
  <2>1. Room(kept, junk) = t
    BY <1>3 DEF Room, Rehash
  <2>2. NewCap \in Nat /\ cap \in Nat /\ cap < NewCap
    BY <1>3, RoomFacts DEF TableOK
  <2>3. /\ h \in [Entries -> Nat]
        /\ \A s \in kept : h[s] = HashOf[s]
    <3>1. ASSUME NEW s \in Entries
          PROVE  (IF s \in kept THEN Hash[text[s]] ELSE junk[s]) \in Nat
      <4>1. Hash[text[s]] \in Nat
        BY <1>1, StringFacts, InternAssumption DEF InternAssumption
      <4>2. s \notin kept => junk[s] \in Nat
        BY <1>3, <2>2 DEF Junks
      <4>3. QED
        BY <4>1, <4>2
    <3>2. \A s \in kept : HashOf[s] = Hash[text[s]]
      BY <1>1 DEF HashOf
    <3>3. QED
      BY <1>1, <3>1, <3>2
  <2> HIDE DEF h
  <2>4. Moving(t, cap, NewCap, h, kept)
    BY <1>1, <2>2, <2>3, MovedFacts
  <2> HIDE DEF t
  <2>5. Cardinality(NonNull(table, cap)) = count
    BY DEF TableOK, IsTable
  <2>6. IsTable(t, NewCap, Entries, count) /\ Placed(t, NewCap, h, kept)
        /\ \A j \in 0..cap - 1 : table[j] # Null => \E k \in 0..NewCap - 1 : t[k] = table[j]
    BY <2>4, <2>5 DEF Moving
  <2>7. IsTable(t, NewCap, Strings, count)
    BY <1>1, <2>6 DEF IsTable
  <2>8. Placed(t, NewCap, HashOf, kept)
    BY <2>3, <2>6 DEF Placed
  <2>9. \A s \in kept : \E i \in 0..NewCap - 1 : t[i] = s
    BY <1>1, <2>6
  <2>10. QED
    BY <2>1, <2>7, <2>8, <2>9 DEF Holds
<1>4. QED
  BY <1>2, <1>3

\* s is put in, with its hash: nothing of what the table held is lost.
LEMMA AddHolds ==
  ASSUME NEW n \in Nat \ {0}, NEW S, NEW c \in Nat, NEW g \in [S -> Nat], NEW A \in SUBSET S,
         Null \notin S, NEW t, Holds(t, n, S, c, g, A), c < n,
         NEW s, s \notin S, s # Null, NEW f \in [S \cup {s} -> Nat],
         \A x \in S : f[x] = g[x]
  PROVE  Holds(Place(t, n, f[s], s), n, S \cup {s}, c + 1, f, A \cup {s})
<1> DEFINE T == S \cup {s}
           B == A \cup {s}
           u == Place(t, n, f[s], s)
<1>1. /\ IsTable(t, n, S, c) /\ t \in [0..n - 1 -> S \cup {Null}]
      /\ Placed(t, n, g, A) /\ \A x \in A : \E i \in 0..n - 1 : t[i] = x
  BY DEF Holds, IsTable
<1>2. IsTable(t, n, T, c)
  BY <1>1 DEF IsTable
<1>3. Placed(t, n, f, B)
  <2>1. ASSUME NEW i \in 0..n - 1, t[i] \in B PROVE Reaches(t, n, f[t[i]], i)
    <3>1. t[i] \in A /\ f[t[i]] = g[t[i]]
      BY <1>1, <2>1
    <3>2. QED
      BY <1>1, <3>1 DEF Placed
  <2>2. QED
    BY <2>1 DEF Placed
<1>4. /\ T = T /\ s \in T /\ B \in SUBSET T /\ Null \notin B /\ f \in [T -> Nat]
  OBVIOUS
<1> HIDE DEF T, B
<1>5. Placed(u, n, f, B) /\ IsTable(u, n, T, c + 1)
  BY <1>2, <1>3, <1>4, PlaceKeeps, Zenon
<1>6. Gains(u, t, n, s)
  BY <1>2, <1>3, <1>4, PlaceKeeps, Zenon
<1>7. ASSUME NEW x \in B PROVE \E i \in 0..n - 1 : u[i] = x
  <2>1. CASE x = s
    BY <1>6, <2>1 DEF Gains
  <2>2. CASE x \in A
    <3>1. PICK i \in 0..n - 1 : t[i] = x
      BY <1>1, <2>2
    <3>2. x # Null
      BY <2>2
    <3>3. u[i] = x
      BY <1>6, <3>1, <3>2 DEF Gains
    <3>4. QED
      BY <3>3
  <2>3. QED
    BY <2>1, <2>2 DEF B
<1>8. Holds(u, n, T, c + 1, f, B)
  BY <1>5, <1>7 DEF Holds
<1>9. QED
  BY <1>8 DEF T, B

\* No allocated string has content c when the search for c finds none.
LEMMA MissedIsNew ==
  ASSUME IInv, NEW c \in Contents, \A k \in Compared(c) : ~Equal(c, Probed(c, k))
  PROVE  \A s \in heap : text[s] # c
<1>1. SUFFICES ASSUME NEW s \in heap, text[s] = c PROVE FALSE
  OBVIOUS
<1>2. s \in Entries \cap heap
  BY DEF IInv, HeapOK
<1>3. PICK k \in Compared(c) : Probed(c, k) = s
  BY <1>1, <1>2, AlwaysFound DEF Findable
<1>4. QED
  BY <1>1, <1>3 DEF Equal

LEMMA MissIInv ==
  ASSUME IInv, NEW c \in Contents, InternMiss(c)
  PROVE  IInv'
<1> DEFINE s == Latest + 1
<1>0. PICK kept \in {heap, heap \cap held} : \E junk \in Junks(kept) :
        /\ text'  = [x \in Strings \cup {s} |-> IF x = s THEN c ELSE text[x]]
        /\ heap'  = kept \cup {s}
        /\ held'  = held \cup {s}
        /\ table' = Place(Room(kept, junk), NewCap, Hash[c], s)
        /\ cap'   = NewCap
        /\ count' = count + 1
  BY DEF InternMiss, Junks, Room
<1>1. PICK junk \in Junks(kept) :
        /\ text'  = [x \in Strings \cup {s} |-> IF x = s THEN c ELSE text[x]]
        /\ heap'  = kept \cup {s}
        /\ held'  = held \cup {s}
        /\ table' = Place(Room(kept, junk), NewCap, Hash[c], s)
        /\ cap'   = NewCap
        /\ count' = count + 1
  BY <1>0
<1>2. /\ Latest \in Nat /\ Strings = 1..Latest /\ text \in [Strings -> Contents]
      /\ HashOf \in [Strings -> Nat] /\ Null \notin Strings /\ s \notin Strings
  BY StringFacts DEF IInv
<1>3. Holds(Room(kept, junk), NewCap, Strings, count, HashOf, kept)
  BY <1>1, RoomHolds DEF IInv
<1>4. kept \subseteq heap /\ kept \in SUBSET Strings
  BY <1>1, EntryFacts DEF IInv, HeapOK
<1> HIDE DEF s
<1>5. Strings' = Strings \cup {s} /\ text'[s] = c /\ \A x \in Strings : text'[x] = text[x]
  BY <1>1, <1>2 DEF Strings
<1>6. TextOK'
  <2>1. Strings \cup {s} = 1..Latest + 1
    BY <1>2 DEF s
  <2>2. text' \in [1..Latest + 1 -> Contents]
    BY <1>1, <1>2, <2>1
  <2>3. Latest + 1 \in Nat
    BY <1>2
  <2>4. QED
    BY <2>2, <2>3 DEF TextOK
<1>7. HashOf' \in [Strings \cup {s} -> Nat] /\ HashOf'[s] = Hash[c]
      /\ \A x \in Strings : HashOf'[x] = HashOf[x]
  <2>1. HashOf' = [x \in Strings \cup {s} |-> Hash[text'[x]]]
    BY <1>5 DEF HashOf
  <2>2. \A x \in Strings \cup {s} : text'[x] \in Contents
    BY <1>2, <1>5
  <2>3. \A x \in Strings \cup {s} : Hash[text'[x]] \in Nat
    BY <2>2, InternAssumption DEF InternAssumption
  <2>4. QED
    BY <1>5, <2>1, <2>3 DEF HashOf
<1>8. Holds(table', cap', Strings', count', HashOf', heap')
  <2> DEFINE f == HashOf'
             n == NewCap
             t == Room(kept, junk)
  <2>1. n \in Nat \ {0} /\ count \in Nat /\ count < n
    BY RoomFacts DEF IInv, TableOK
  <2>2. s # Null
    BY <1>2 DEF s, Null
  <2>3. Holds(t, n, Strings, count, HashOf, kept)
    BY <1>3
  <2>4. f \in [Strings \cup {s} -> Nat] /\ f[s] = Hash[c] /\ \A x \in Strings : f[x] = HashOf[x]
    BY <1>7
  <2> HIDE DEF f, n, t
  <2>5. table' = Place(t, n, f[s], s)
    BY <1>1, <2>4 DEF n, t, s
  <2>6. Holds(Place(t, n, f[s], s), n, Strings \cup {s}, count + 1, f, kept \cup {s})
    BY <1>2, <1>4, <2>1, <2>2, <2>3, <2>4, AddHolds
  <2>7. cap' = n /\ count' = count + 1 /\ heap' = kept \cup {s} /\ Strings' = Strings \cup {s}
    BY <1>1, <1>5 DEF n, s
  <2>8. QED
    BY <2>5, <2>6, <2>7 DEF f
<1>9. TableOK'
  <2>1. cap' \in Nat /\ cap' # 1 /\ count' \in Nat /\ count' <= (cap' * 3) \div 4
    BY <1>1, RoomFacts DEF IInv, TableOK
  <2>2. QED
    BY <1>8, <2>1 DEF TableOK, Holds
<1>10. HeapOK'
  <2>1. held' \subseteq Strings'
    BY <1>1, <1>5 DEF IInv, HeapOK, s
  <2>2. ASSUME NEW x \in heap' PROVE x \in Entries'
    <3>1. x # Null
      BY <1>1, <1>2, <1>4 DEF s, Null
    <3>2. \E i \in 0..cap' - 1 : table'[i] = x
      BY <1>8 DEF Holds
    <3>3. QED
      BY <3>1, <3>2 DEF Entries
  <2>3. QED
    BY <2>1, <2>2 DEF HeapOK
<1>11. PlaceOK'
  BY <1>8 DEF PlaceOK, Holds
<1>12. OnePerContent'
  <2>1. SUFFICES ASSUME NEW a \in heap', NEW b \in heap', text'[a] = text'[b] PROVE a = b
    BY DEF OnePerContent
  <2>2. \A x \in kept : x \in heap /\ x # s /\ text'[x] = text[x] /\ text'[x] # c
    <3>1. \A x \in heap : text[x] # c
      BY MissedIsNew DEF InternMiss
    <3>2. QED
      BY <1>2, <1>4, <1>5, <3>1
  <2>3. (a \in kept \/ a = s) /\ (b \in kept \/ b = s)
    BY <1>1 DEF s
  <2>4. QED
    BY <1>5, <2>1, <2>2, <2>3 DEF IInv, OnePerContent
<1>13. QED
  BY <1>6, <1>9, <1>10, <1>11, <1>12 DEF IInv

\* The other steps change neither the strings nor the table.
LEMMA SameTable ==
  ASSUME IInv, UNCHANGED <<text, table, cap, count>>, heap' \subseteq heap, held' \subseteq Strings
  PROVE  IInv'
<1>1. Strings' = Strings /\ Entries' = Entries /\ HashOf' = HashOf
  BY DEF Strings, Entries, HashOf, Null
<1>2. TextOK' /\ TableOK'
  BY <1>1 DEF IInv, TextOK, TableOK
<1>3. HeapOK'
  BY <1>1 DEF IInv, HeapOK
<1>4. PlaceOK'
  BY <1>1 DEF IInv, PlaceOK, Placed
<1>5. OnePerContent'
  BY DEF IInv, OnePerContent
<1>6. QED
  BY <1>2, <1>3, <1>4, <1>5 DEF IInv

LEMMA HitIInv ==
  ASSUME IInv, NEW c \in Contents, InternHit(c)
  PROVE  IInv'
<1>1. PICK k \in Matches(c) : held' = held \cup {Probed(c, k)}
  BY DEF InternHit
<1>2. cap \in Nat \ {0} /\ k \in 0..ProbeLength(table, cap, Hash[c]) - 1
  BY <1>1 DEF Matches, Compared, IInv, TableOK
<1> DEFINE h == Hash[c]
<1>3. h \in Nat /\ \E i \in 0..cap - 1 : table[i] = Null
  BY <1>2, InternAssumption, AlwaysEnds DEF InternAssumption, ProbesEnd
<1> HIDE DEF h
<1>4. /\ ProbeLength(table, cap, h) \in 0..cap - 1
      /\ \A j \in 0..ProbeLength(table, cap, h) - 1 : table[Slot(h, j, cap)] # Null
  BY <1>2, <1>3, ProbeStops
<1>5. k \in 0..cap - 1 /\ table[Slot(h, k, cap)] # Null
  BY <1>2, <1>4 DEF h
<1>6. Slot(h, k, cap) \in 0..cap - 1
  BY <1>2, <1>3, <1>5, SlotRange
<1>7. Probed(c, k) \in Strings
  BY <1>5, <1>6 DEF Probed, h, IInv, TableOK, IsTable
<1>8. QED
  BY <1>1, <1>7, SameTable DEF InternHit, IInv, HeapOK

LEMMA NextIInv ==
  ASSUME IInv, [Next]_vars
  PROVE  IInv'
<1>1. ASSUME NEW c \in Contents, InternHit(c) PROVE IInv'
  BY <1>1, HitIInv
<1>2. ASSUME NEW c \in Contents, InternMiss(c) PROVE IInv'
  BY <1>2, MissIInv
<1>3. ASSUME NEW s \in held, Release(s) PROVE IInv'
  BY <1>3, SameTable DEF Release, IInv, HeapOK
<1>4. CASE Collect
  BY <1>4, SameTable DEF Collect, IInv, HeapOK
<1>5. CASE UNCHANGED vars
  BY <1>5, SameTable DEF vars, IInv, HeapOK
<1>6. QED
  BY <1>1, <1>2, <1>3, <1>4, <1>5 DEF Next

LEMMA InitIInv ==
  ASSUME Init
  PROVE  IInv
<1>1. Strings = {} /\ Entries = {} /\ NonNull(table, 0) = {}
  BY DEF Init, Strings, Entries, NonNull
<1>2. TextOK
  <2>1. 1..0 = {} /\ text \in [1..0 -> Contents]
    BY DEF Init
  <2>2. QED
    BY <2>1 DEF TextOK
<1>3. TableOK
  <2>1. table \in [0..0 - 1 -> Strings \cup {Null}]
    BY DEF Init
  <2>2. Cardinality(NonNull(table, 0)) = 0
    BY <1>1, FS_EmptySet
  <2>3. QED
    BY <2>1, <2>2 DEF Init, TableOK, IsTable
<1>4. HeapOK /\ PlaceOK /\ OnePerContent
  BY DEF Init, HeapOK, PlaceOK, Placed, OnePerContent
<1>5. QED
  BY <1>2, <1>3, <1>4 DEF IInv

(***************************************************************************)
(* The theorems.                                                           *)
(***************************************************************************)
\* The inductive invariant: as many slots are filled as the VM counts, never more
\* than three quarters of them, and every allocated string is reached from its
\* home slot through filled ones.
THEOREM Invariance == Spec => []IInv
<1>1. Init => IInv
  BY InitIInv
<1>2. IInv /\ [Next]_vars => IInv'
  BY NextIInv
<1>3. QED
  BY <1>1, <1>2, PTL DEF Spec

\* No probe of vm_alloc_string runs for ever: an empty slot is always left.
THEOREM ProbesAlwaysEnd == Spec => []ProbesEnd
<1>1. IInv => ProbesEnd
  BY AlwaysEnds
<1>2. QED
  BY <1>1, Invariance, PTL

\* An allocated string is found by a search for its content, also after growing.
THEOREM AlwaysFindable == Spec => []Findable
<1>1. IInv => Findable
  BY AlwaysFound
<1>2. QED
  BY <1>1, Invariance, PTL

\* Two allocated strings never have the same content.
THEOREM Interned == Spec => []OnePerContent
<1>1. IInv => OnePerContent
  BY DEF IInv
<1>2. QED
  BY <1>1, Invariance, PTL
=============================================================================
