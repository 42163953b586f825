--------------------------- MODULE PreprocProofs ---------------------------
(***************************************************************************)
(* Proofs about the line loop of Preproc: for any macro names, conditions, *)
(* text lines and headers, any expansion of lines, any sequence of lines   *)
(* and any nesting of conditionals and inclusions.                         *)
(***************************************************************************)
EXTENDS Preproc, BasicLemmas, SequenceTheorems

Lines   == {Expand(t, tab) : t \in Texts, tab \in MacroTables}
Frames  == [active : BOOLEAN, done : BOOLEAN]
Groups  == [vals : Seq(BOOLEAN) \ {<<>>}, elsed : BOOLEAN]
Readers == [file : Headers \cup {Main}, pos : Nat, out : Seq(Lines), base : Nat]

Outs == [i \in DOMAIN readers |-> readers[i].out]

TypeOK ==
  /\ macros \in MacroTables /\ table \in MacroTables
  /\ cond \in Seq(Frames) /\ groups \in Seq(Groups)
  /\ readers \in Seq(Readers) /\ readers # <<>>
  /\ errors \in BOOLEAN /\ legal \in BOOLEAN
  /\ flat \in Seq(Lines)

\* All of the outermost i frames are active; all of the outermost i groups are
\* the selected ones; some group of a conditional was selected before.
ActiveTo(c, i)   == \A j \in 1..i : c[j].active
SelectedTo(g, i) == \A j \in 1..i : Selected(g[j])
Held(vals)       == \E k \in DOMAIN vals : vals[k]
SomeHeld(g, i)   == Held(g[i].vals)

\* A frame for every open group.  A frame in a group that is left out is not
\* compared, as #else sets its active flag although nothing in it counts, nor is
\* the done flag after #else, which does not set it.
AgreeTo(c, g, n) ==
  /\ \A i \in 0..n : ActiveTo(c, i) <=> SelectedTo(g, i)
  /\ \A i \in 1..n :
       SelectedTo(g, i - 1) /\ ~g[i].elsed => (c[i].done <=> SomeHeld(g, i))
FramesAgree(c, g) == Len(c) = Len(g) /\ AgreeTo(c, g, Len(c))

\* The inductive invariant.
DepthOK == depth = Len(readers) - 1
AgreeOK == legal => /\ FramesAgree(cond, groups)
                    /\ macros = table
                    /\ FlattenSeq(Outs) = flat
                    /\ ~errors

IInv == TypeOK /\ DepthOK /\ AgreeOK

(***************************************************************************)
(* The outputs.                                                            *)
(***************************************************************************)
\* A line put out by the innermost file is put out last.
LEMMA OutExtends ==
  ASSUME NEW S, NEW ss \in Seq(Seq(S)), NEW o \in Seq(S), NEW p \in Seq(S)
  PROVE  FlattenSeq(Append(ss, o \o p)) = FlattenSeq(Append(ss, o)) \o p
<1>1. o \o p \in Seq(S)
  OBVIOUS
<1>2. FlattenSeq(Append(ss, o \o p)) = IF ss = <<>> THEN o \o p ELSE FlattenSeq(ss) \o (o \o p)
  BY <1>1, FlatAppend
<1>3. /\ FlattenSeq(Append(ss, o)) = IF ss = <<>> THEN o ELSE FlattenSeq(ss) \o o
      /\ FlattenSeq(ss) \in Seq(S)
  BY FlatAppend
<1>4. FlattenSeq(ss) \o (o \o p) = (FlattenSeq(ss) \o o) \o p
  BY <1>3, SMTT(30)
<1>5. CASE ss = <<>>
  BY <1>2, <1>3, <1>5
<1>6. CASE ss # <<>>
  BY <1>2, <1>3, <1>4, <1>6
<1>7. QED
  BY <1>5, <1>6

\* A header starts with an empty output and leaves its output behind the one of
\* the file that includes it.
LEMMA OutMoves ==
  ASSUME NEW S, NEW ss \in Seq(Seq(S)), NEW o \in Seq(S), NEW p \in Seq(S)
  PROVE  /\ FlattenSeq(Append(Append(ss, o), <<>>)) = FlattenSeq(Append(ss, o))
         /\ FlattenSeq(Append(Append(ss, o), p)) = FlattenSeq(Append(ss, o \o p))
<1>1. Append(ss, o) \in Seq(Seq(S)) /\ Append(ss, o) # <<>> /\ <<>> \in Seq(S)
  <2>1. Append(ss, o) \in Seq(Seq(S)) /\ Len(Append(ss, o)) = Len(ss) + 1 /\ Len(ss) \in Nat
    OBVIOUS
  <2>2. Append(ss, o) # <<>>
    <3> DEFINE t == Append(ss, o)
    <3>1. Len(t) # 0
      BY <2>1
    <3> HIDE DEF t
    <3>2. t # <<>>
      BY <3>1
    <3>3. QED
      BY <3>2 DEF t
  <2>3. <<>> \in Seq(S)
    OBVIOUS
  <2>4. QED
    BY <2>1, <2>2, <2>3
<1>2. /\ FlattenSeq(Append(Append(ss, o), <<>>)) = FlattenSeq(Append(ss, o)) \o <<>>
      /\ FlattenSeq(Append(ss, o)) \in Seq(S)
  BY <1>1, FlatAppend
<1>3. FlattenSeq(Append(Append(ss, o), p)) = FlattenSeq(Append(ss, o)) \o p
  BY <1>1, FlatAppend
<1>4. QED
  BY <1>2, <1>3, OutExtends

(***************************************************************************)
(* Lines and macro tables.                                                 *)
(***************************************************************************)
LEMMA LineFacts ==
  ASSUME NEW l \in Line
  PROVE  /\ l.d \in {"if", "elif"} => l.e \in Conditions
         /\ l.d = "define" => l.m \in Definitions
         /\ l.d = "text" => l.t \in Texts
         /\ l.d = "include" => l.f \in Headers \cup {NoFile}
         /\ l.d \in {"ifdef", "ifndef", "if", "elif", "else", "endif", "other",
                    "define", "undef", "include", "text"}
  BY DEF Line

LEMMA TableFacts ==
  ASSUME NEW tab \in MacroTables
  PROVE  /\ \A m \in Definitions : Defined(tab, m) \in MacroTables
         /\ \A n : Undefined(tab, n) \in MacroTables
<1> DEFINE N == {m[1] : m \in Definitions}
           B == {m[2] : m \in Definitions}
<1>1. \A D \in SUBSET N : [D -> B] \subseteq MacroTables
  BY DEF MacroTables
<1>2. PICK D \in SUBSET N : tab \in [D -> B]
  BY DEF MacroTables
<1>3. ASSUME NEW m \in Definitions PROVE Defined(tab, m) \in MacroTables
  <2>1. m[1] \in N /\ m[2] \in B
    OBVIOUS
  <2> HIDE DEF N, B
  <2>2. DOMAIN tab = D
    BY <1>2
  <2>3. Defined(tab, m) \in [D \cup {m[1]} -> B]
    BY <1>2, <2>1, <2>2 DEF Defined
  <2>4. D \cup {m[1]} \in SUBSET N
    BY <2>1
  <2>5. QED
    BY <1>1, <2>3, <2>4
<1>4. ASSUME NEW n PROVE Undefined(tab, n) \in MacroTables
  <2> HIDE DEF N, B
  <2>1. Undefined(tab, n) = [x \in D \ {n} |-> tab[x]]
    BY <1>2 DEF Undefined, Restrict
  <2>2. Undefined(tab, n) \in [D \ {n} -> B] /\ D \ {n} \in SUBSET N
    BY <1>2, <2>1
  <2>3. QED
    BY <1>1, <2>2
<1>5. QED
  BY <1>3, <1>4

LEMMA OutputType ==
  ASSUME TypeOK, NEW l \in Line
  PROVE  /\ Output(l) \in Seq(Lines)
         /\ l.d = "text" => Expand(l.t, table) \in Lines
<1>1. l.d = "text" => Expand(l.t, macros) \in Lines /\ Expand(l.t, table) \in Lines
  BY LineFacts DEF TypeOK, Lines
<1>2. QED
  BY <1>1 DEF Output

\* Outs without its last member, and the last: what the innermost file put out.
LEMMA OutsSplit ==
  ASSUME TypeOK
  PROVE  LET n == Len(readers)
             r == SubSeq(Outs, 1, n - 1)
         IN  /\ n \in Nat \ {0} /\ r \in Seq(Seq(Lines)) /\ Len(r) = n - 1
             /\ \A i \in 1..n - 1 : r[i] = readers[i].out
             /\ \A i \in 1..n : readers[i] \in Readers /\ readers[i].out \in Seq(Lines)
             /\ Outs = Append(r, readers[n].out)
<1> DEFINE n == Len(readers)
           r == SubSeq(Outs, 1, n - 1)
<1>1. n \in Nat \ {0} /\ DOMAIN readers = 1..n /\ \A i \in 1..n : readers[i] \in Readers
  BY DEF TypeOK
<1>2. \A i \in 1..n : readers[i].out \in Seq(Lines)
  BY <1>1 DEF Readers
<1> HIDE DEF n
<1> DEFINE Q == Seq(Lines)
<1> HIDE DEF Q
<1>3. Outs \in Seq(Q) /\ Len(Outs) = n /\ \A i \in 1..n : Outs[i] = readers[i].out
  <2>1. Outs = [i \in 1..n |-> readers[i].out]
    BY <1>1 DEF Outs
  <2>2. \A i \in 1..n : readers[i].out \in Q
    BY <1>2 DEF Q
  <2>3. QED
    BY <1>1, <2>1, <2>2
<1>4. r \in Seq(Q) /\ Len(r) = n - 1 /\ \A i \in 1..n - 1 : r[i] = Outs[i]
  BY <1>1, <1>3
<1>5. Outs = Append(r, Outs[n])
  BY <1>1, <1>3
<1>6. \A i \in 1..n - 1 : r[i] = readers[i].out
  BY <1>1, <1>3, <1>4
<1>7. Outs[n] = readers[n].out
  BY <1>1, <1>3
<1>8. QED
  BY <1>1, <1>2, <1>4, <1>5, <1>6, <1>7 DEF n, Q

\* The readers after a line: one more when a header was opened, and the line's
\* output behind all the output there is.
LEMMA StepReaders ==
  ASSUME TypeOK, NEW l \in Line, Step(l)
  PROVE  /\ readers' \in Seq(Readers) /\ readers' # <<>>
         /\ Len(readers') = IF Opens(l) THEN Len(readers) + 1 ELSE Len(readers)
         /\ FlattenSeq(Outs') = FlattenSeq(Outs) \o Output(l)
<1> DEFINE n == Len(readers)
           o == readers[n].out
           p == Output(l)
           r == SubSeq(Outs, 1, n - 1)
           e == ReadOn(readers[n], l)
           s == [readers EXCEPT ![n] = e]
           h == [file |-> l.f, pos |-> 1, out |-> <<>>, base |-> Len(groups)]
<1>1. /\ n \in Nat \ {0} /\ r \in Seq(Seq(Lines)) /\ Len(r) = n - 1
      /\ \A i \in 1..n - 1 : r[i] = readers[i].out
      /\ \A i \in 1..n : readers[i] \in Readers /\ readers[i].out \in Seq(Lines)
      /\ Outs = Append(r, o)
  BY OutsSplit
<1>2. p \in Seq(Lines) /\ o \in Seq(Lines) /\ o \o p \in Seq(Lines)
  <2>1. p \in Seq(Lines)
    BY OutputType
  <2>2. o \in Seq(Lines)
    BY <1>1
  <2> HIDE DEF o, p
  <2>3. QED
    BY <2>1, <2>2
<1>3. e \in Readers /\ e.out = o \o p
  <2> DEFINE x == readers[n]
             Q == Seq(Lines)
             q == IF x.pos = 0 THEN 0 ELSE x.pos + 1
  <2>1. x \in [file : Headers \cup {Main}, pos : Nat, out : Q, base : Nat] /\ o = x.out
    BY <1>1 DEF Readers
  <2>2. e = [x EXCEPT !.pos = q, !.out = o \o p]
    BY DEF ReadOn
  <2>3. o \o p \in Q
    BY <1>2
  <2> HIDE DEF x, Q, o, p, e
  <2>4. q \in Nat
    BY <2>1
  <2> HIDE DEF q
  <2>5. e \in [file : Headers \cup {Main}, pos : Nat, out : Q, base : Nat] /\ e.out = o \o p
    BY <2>1, <2>2, <2>3, <2>4
  <2>6. QED
    BY <2>5 DEF Readers, Q
<1>4. readers' = IF Opens(l) THEN Append(s, h) ELSE s
  BY Zenon DEF Step, Reader, Last
<1>5. Opens(l) => h \in Readers /\ h.out = <<>>
  <2>1. Len(groups) \in Nat
    BY DEF TypeOK
  <2>2. Opens(l) => l.f \in Headers \cup {Main}
    BY LineFacts DEF Opens
  <2>3. <<>> \in Seq(Lines)
    OBVIOUS
  <2>4. QED
    BY <2>1, <2>2, <2>3 DEF Readers
<1> HIDE DEF n, o, p, r, e, h
<1>6. readers \in Seq(Readers) /\ Len(readers) = n
  BY DEF TypeOK, n
<1> DEFINE R == Readers
<1> HIDE DEF R
<1>7. s \in Seq(R) /\ Len(s) = n /\ s[n] = e /\ \A i \in 1..n - 1 : s[i] = readers[i]
  BY <1>1, <1>3, <1>6 DEF R
<1> HIDE DEF s
<1> DEFINE Q == Seq(Lines)
           ro == Append(r, o \o p)
<1> HIDE DEF Q
<1>8. FlattenSeq(ro) = FlattenSeq(Outs) \o p
  BY <1>1, <1>2, OutExtends
<1>9. [i \in 1..n |-> s[i].out] = ro
  <2>1. ro \in Seq(Q) /\ Len(ro) = n /\ ro[n] = o \o p /\ \A i \in 1..n - 1 : ro[i] = r[i]
    <3>1. r \in Seq(Q) /\ o \o p \in Q
      BY <1>1, <1>2 DEF Q
    <3>2. QED
      BY <1>1, <3>1
  <2> HIDE DEF ro
  <2>2. ASSUME NEW i \in 1..n PROVE s[i].out = ro[i]
    <3>1. CASE i = n
      BY <1>3, <1>7, <2>1, <3>1
    <3>2. CASE i # n
      <4>1. i \in 1..n - 1
        BY <1>1, <3>2
      <4>2. QED
        BY <1>1, <1>7, <2>1, <4>1
    <3>3. QED
      BY <3>1, <3>2
  <2>3. ro = [i \in 1..n |-> ro[i]]
    BY <2>1
  <2>4. QED
    BY <2>2, <2>3
<1>10. CASE ~Opens(l)
  <2>1. readers' = s /\ DOMAIN s = 1..n
    BY <1>1, <1>4, <1>7, <1>10
  <2>2. Outs' = ro
    BY <1>9, <2>1 DEF Outs
  <2>3. s # <<>>
    BY <1>1, <1>7
  <2>4. QED
    BY <1>6, <1>7, <1>8, <1>10, <2>1, <2>2, <2>3 DEF R, p
<1>11. CASE Opens(l)
  <2> DEFINE t == Append(s, h)
  <2>1. readers' = t /\ t \in Seq(R) /\ Len(t) = n + 1 /\ t[n + 1] = h
        /\ DOMAIN t = 1..n + 1 /\ \A i \in 1..n : t[i] = s[i]
    BY <1>1, <1>4, <1>5, <1>7, <1>11 DEF R
  <2> HIDE DEF t
  <2>2. Outs' = Append(ro, <<>>)
    <3> DEFINE a == Append(ro, <<>>)
    <3>1. ro \in Seq(Q) /\ Len(ro) = n /\ <<>> \in Q
      <4>1. r \in Seq(Q) /\ o \o p \in Q
        BY <1>1, <1>2 DEF Q
      <4>2. QED
        BY <1>1, <4>1 DEF Q
    <3> HIDE DEF ro
    <3>2. Len(a) = n + 1 /\ a[n + 1] = <<>> /\ a \in Seq(Q) /\ \A i \in 1..n : a[i] = ro[i]
      BY <1>1, <3>1
    <3>3. \A i \in 1..n : t[i].out = ro[i]
      BY <1>9, <2>1
    <3> HIDE DEF a
    <3>4. ASSUME NEW i \in 1..n + 1 PROVE t[i].out = a[i]
      <4>1. CASE i = n + 1
        BY <1>5, <1>11, <2>1, <3>2, <4>1
      <4>2. CASE i # n + 1
        <5>1. i \in 1..n
          BY <1>1, <4>2
        <5>2. QED
          BY <3>2, <3>3, <5>1
      <4>3. QED
        BY <4>1, <4>2
    <3>5. a = [i \in 1..n + 1 |-> a[i]]
      BY <3>2
    <3>6. Outs' = [i \in 1..n + 1 |-> t[i].out]
      BY <2>1 DEF Outs
    <3>7. QED
      BY <3>4, <3>5, <3>6 DEF a
  <2>3. FlattenSeq(Append(ro, <<>>)) = FlattenSeq(ro)
    BY <1>1, <1>2, OutMoves
  <2>4. t # <<>>
    BY <1>1, <2>1
  <2>5. QED
    BY <1>6, <1>8, <1>11, <2>1, <2>2, <2>3, <2>4 DEF R, p
<1>12. QED
  BY <1>10, <1>11

\* The end of a header: one reader less, and the same output in all.
LEMMA EndReaders ==
  ASSUME TypeOK, EndHeader
  PROVE  /\ readers' \in Seq(Readers) /\ readers' # <<>>
         /\ Len(readers') = Len(readers) - 1
         /\ FlattenSeq(Outs') = FlattenSeq(Outs)
<1> DEFINE n == Len(readers)
           m == n - 1
           b == SubSeq(readers, 1, m)
           o == readers[m].out
           p == readers[n].out
           r == SubSeq(Outs, 1, m)
           q == SubSeq(Outs, 1, m - 1)
           e == [readers[m] EXCEPT !.out = o \o p]
           s == [b EXCEPT ![m] = e]
<1>1. /\ n \in Nat \ {0} /\ r \in Seq(Seq(Lines)) /\ Len(r) = m
      /\ \A i \in 1..m : r[i] = readers[i].out
      /\ \A i \in 1..n : readers[i] \in Readers /\ readers[i].out \in Seq(Lines)
      /\ Outs = Append(r, p)
  BY OutsSplit
<1>2. n > 1
  BY DEF EndHeader
<1> DEFINE R == Readers
<1>3. readers \in Seq(R) /\ Len(readers) = n
  BY DEF TypeOK
<1> HIDE DEF n, R
<1>4. m \in Nat \ {0} /\ m \in 1..n /\ n \in 1..n
  BY <1>1, <1>2
<1>5. b \in Seq(R) /\ Len(b) = m /\ \A i \in 1..m : b[i] = readers[i]
  BY <1>3, <1>4
<1>6. readers' = s
  <2>1. readers' = [Front(readers) EXCEPT ![Len(Front(readers))].out = @ \o Last(readers).out]
    BY DEF EndHeader, Reader
  <2>2. Front(readers) = b /\ Len(b) = m /\ Last(readers).out = p
    BY <1>5 DEF Front, Last, n
  <2>3. readers' = [b EXCEPT ![m].out = @ \o p]
    BY <2>1, <2>2
  <2>4. b[m] = readers[m]
    BY <1>4, <1>5
  <2> HIDE DEF b, p, m
  <2>5. QED
    BY <2>3, <2>4
<1>7. o \in Seq(Lines) /\ p \in Seq(Lines) /\ o \o p \in Seq(Lines)
  <2>1. o \in Seq(Lines) /\ p \in Seq(Lines)
    BY <1>1, <1>4
  <2> HIDE DEF o, p
  <2>2. QED
    BY <2>1
<1>8. e \in R /\ e.out = o \o p
  <2> DEFINE x == readers[m]
             Q == Seq(Lines)
  <2>1. x \in [file : Headers \cup {Main}, pos : Nat, out : Q, base : Nat] /\ o \o p \in Q
    BY <1>1, <1>4, <1>7 DEF Readers
  <2> HIDE DEF x, Q, o, p
  <2>2. e = [x EXCEPT !.out = o \o p]
    BY DEF x
  <2> HIDE DEF e
  <2>3. e \in [file : Headers \cup {Main}, pos : Nat, out : Q, base : Nat] /\ e.out = o \o p
    BY <2>1, <2>2
  <2>4. QED
    BY <2>3 DEF Readers, R, Q
<1>9. s \in Seq(R) /\ Len(s) = m /\ s[m] = e /\ \A i \in 1..m - 1 : s[i] = readers[i]
  <2> HIDE DEF b, e, m
  <2>1. QED
    BY <1>4, <1>5, <1>8
<1> DEFINE Q  == Seq(Lines)
           ro == Append(q, o \o p)
<1>10. q \in Seq(Q) /\ Len(q) = m - 1 /\ r = Append(q, o)
       /\ \A i \in 1..m - 1 : q[i] = readers[i].out
  <2> HIDE DEF Q
  <2>1. r \in Seq(Q) /\ r[m] = o
    BY <1>1, <1>4 DEF Q
  <2>2. q = SubSeq(r, 1, m - 1)
    <3> DEFINE a == Append(r, p)
    <3>1. p \in Q
      BY <1>7 DEF Q
    <3> HIDE DEF p, r, m
    <3>2. \A i \in 1..m : a[i] = r[i]
      BY <1>1, <1>4, <2>1
    <3>3. a \in Seq(Q) /\ Len(a) = m + 1
      BY <1>1, <1>4, <2>1, <3>1
    <3> HIDE DEF a
    <3>4. SubSeq(a, 1, m - 1) = SubSeq(r, 1, m - 1)
      BY <1>1, <1>4, <2>1, <3>2, <3>3
    <3>5. QED
      BY <1>1, <3>4 DEF a
  <2> HIDE DEF r, q, o, m
  <2>3. QED
    BY <1>1, <1>4, <2>1, <2>2
<1> HIDE DEF q, o, p, e, b, m, s, r, Q
<1>11. [i \in 1..m |-> s[i].out] = ro
  <2>1. ro \in Seq(Q) /\ Len(ro) = m /\ ro[m] = o \o p /\ \A i \in 1..m - 1 : ro[i] = q[i]
    <3>1. o \o p \in Q
      BY <1>7 DEF Q
    <3>2. QED
      BY <1>4, <1>10, <3>1
  <2> HIDE DEF ro
  <2>2. ASSUME NEW i \in 1..m PROVE s[i].out = ro[i]
    <3>1. CASE i = m
      BY <1>8, <1>9, <2>1, <3>1
    <3>2. CASE i # m
      <4>1. i \in 1..m - 1
        BY <1>4, <3>2
      <4>2. QED
        BY <1>9, <1>10, <2>1, <4>1
    <3>3. QED
      BY <3>1, <3>2
  <2>3. ro = [i \in 1..m |-> ro[i]]
    BY <2>1
  <2>4. QED
    BY <2>2, <2>3
<1>12. Outs' = ro
  <2>1. DOMAIN s = 1..m
    BY <1>9
  <2>2. QED
    BY <1>6, <1>11, <2>1 DEF Outs
<1>13. FlattenSeq(ro) = FlattenSeq(Outs)
  <2>1. FlattenSeq(Append(Append(q, o), p)) = FlattenSeq(ro)
    BY <1>7, <1>10, OutMoves DEF Q
  <2>2. QED
    BY <1>1, <1>10, <2>1
<1>14. s # <<>>
  BY <1>4, <1>9
<1>15. QED
  BY <1>3, <1>4, <1>6, <1>9, <1>12, <1>13, <1>14 DEF R, m, n

(***************************************************************************)
(* Frames and groups.                                                      *)
(***************************************************************************)
\* Whether the frames agree is a matter of each frame and its group.
Same(c, g, d, h, n) == \A i \in 1..n : d[i] = c[i] /\ h[i] = g[i]

LEMMA OuterAgree ==
  ASSUME NEW m \in Nat, NEW n \in Nat, n <= m, NEW c, NEW g, AgreeTo(c, g, m),
         NEW d, NEW h, Same(c, g, d, h, n)
  PROVE  /\ AgreeTo(d, h, n)
         /\ SelectedTo(h, n) <=> SelectedTo(g, n)
<1>1. ASSUME NEW i \in 0..n
      PROVE  (ActiveTo(c, i) <=> ActiveTo(d, i)) /\ (SelectedTo(g, i) <=> SelectedTo(h, i))
  <2>1. \A j \in 1..i : c[j] = d[j] /\ g[j] = h[j]
    BY DEF Same
  <2>2. QED
    BY <2>1 DEF ActiveTo, SelectedTo
<1>2. \A i \in 1..n : SomeHeld(g, i) <=> SomeHeld(h, i)
  BY DEF SomeHeld, Same
<1>3. ASSUME NEW i \in 0..n PROVE ActiveTo(d, i) <=> SelectedTo(h, i)
  <2>1. i \in 0..m
    OBVIOUS
  <2>2. QED
    BY <1>1, <2>1 DEF AgreeTo
<1>4. ASSUME NEW i \in 1..n
      PROVE  SelectedTo(h, i - 1) /\ ~h[i].elsed => (d[i].done <=> SomeHeld(h, i))
  <2>1. i \in 1..m /\ i - 1 \in 0..n
    OBVIOUS
  <2>2. QED
    BY <1>1, <1>2, <2>1 DEF AgreeTo, Same
<1>5. QED
  BY <1>1, <1>3, <1>4, n \in 0..n DEF AgreeTo

\* A frame and its group, when the groups around are selected.
TopAgrees(c, g, i) ==
  SelectedTo(g, i - 1) => /\ c[i].active <=> Selected(g[i])
                          /\ ~g[i].elsed => (c[i].done <=> SomeHeld(g, i))

LEMMA LastAgrees ==
  ASSUME NEW n \in Nat, NEW p, p = n + 1, NEW c, NEW g, AgreeTo(c, g, n), TopAgrees(c, g, p)
  PROVE  AgreeTo(c, g, p)
<1>1. 1..p = (1..n) \cup {p} /\ p - 1 = n
  OBVIOUS
<1>2. ActiveTo(c, p) <=> ActiveTo(c, n) /\ c[p].active
  BY <1>1 DEF ActiveTo
<1>3. SelectedTo(g, p) <=> SelectedTo(g, n) /\ Selected(g[p])
  BY <1>1 DEF SelectedTo
<1>4. ActiveTo(c, n) <=> SelectedTo(g, n)
  BY n \in 0..n DEF AgreeTo
<1>5. ASSUME NEW i \in 0..p PROVE ActiveTo(c, i) <=> SelectedTo(g, i)
  <2>1. CASE i = p
    BY <1>1, <1>2, <1>3, <1>4, <2>1 DEF TopAgrees
  <2>2. CASE i # p
    BY <2>2, i \in 0..n DEF AgreeTo
  <2>3. QED
    BY <2>1, <2>2
<1>6. ASSUME NEW i \in 1..p, SelectedTo(g, i - 1), ~g[i].elsed
      PROVE  c[i].done <=> SomeHeld(g, i)
  <2>1. CASE i = p
    BY <1>6, <2>1 DEF TopAgrees
  <2>2. CASE i # p
    BY <1>6, <2>2, i \in 1..n DEF AgreeTo
  <2>3. QED
    BY <2>1, <2>2
<1>7. QED
  BY <1>5, <1>6 DEF AgreeTo

LEMMA PushAgrees ==
  ASSUME NEW c \in Seq(Frames), NEW g \in Seq(Groups), FramesAgree(c, g),
         NEW a \in BOOLEAN, NEW x \in BOOLEAN, NEW e \in BOOLEAN,
         SelectedTo(g, Len(g)) => (a <=> x)
  PROVE  FramesAgree(Append(c, [active |-> a, done |-> a]),
                     Append(g, [vals |-> <<x>>, elsed |-> e]))
<1> DEFINE n == Len(c)
           p == n + 1
           f == [active |-> a, done |-> a]
           k == [vals |-> <<x>>, elsed |-> e]
           d == Append(c, f)
           h == Append(g, k)
<1>1. n \in Nat /\ Len(g) = n /\ AgreeTo(c, g, n) /\ n <= n /\ p = n + 1 /\ p - 1 = n
  BY DEF FramesAgree
<1>2. f.active = a /\ f.done = a /\ k.vals = <<x>>
  OBVIOUS
<1>3. Len(d) = p /\ d[p] = f /\ \A i \in 1..n : d[i] = c[i]
  <2> HIDE DEF f
  <2>1. QED
    BY <1>1
<1>4. Len(h) = p /\ h[p] = k /\ \A i \in 1..n : h[i] = g[i]
  <2> HIDE DEF k
  <2>1. QED
    BY <1>1
<1> HIDE DEF d, h, f, k, n, p
<1>5. AgreeTo(d, h, n) /\ (SelectedTo(h, n) <=> SelectedTo(g, n))
  <2>1. Same(c, g, d, h, n)
    BY <1>3, <1>4 DEF Same
  <2>2. QED
    BY <1>1, <2>1, OuterAgree
<1>6. Selected(k) <=> x
  BY <1>2 DEF Selected, Last
<1>7. SomeHeld(h, p) <=> x
  BY <1>2, <1>4 DEF SomeHeld, Held
<1>8. TopAgrees(d, h, p)
  BY <1>1, <1>2, <1>3, <1>4, <1>5, <1>6, <1>7 DEF TopAgrees
<1>9. AgreeTo(d, h, p)
  BY <1>1, <1>5, <1>8, LastAgrees
<1>10. QED
  BY <1>3, <1>4, <1>9 DEF FramesAgree, d, h, f, k

LEMMA PopAgrees ==
  ASSUME NEW c \in Seq(Frames), NEW g \in Seq(Groups), FramesAgree(c, g), c # <<>>
  PROVE  FramesAgree(Front(c), Front(g))
<1> DEFINE m == Len(c)
           n == m - 1
           d == Front(c)
           h == Front(g)
<1>1. m \in Nat /\ n \in Nat /\ Len(g) = m /\ n <= m /\ AgreeTo(c, g, m)
  BY DEF FramesAgree
<1>2. Len(d) = n /\ \A i \in 1..n : d[i] = c[i]
  BY <1>1 DEF Front
<1>3. Len(h) = n /\ \A i \in 1..n : h[i] = g[i]
  BY <1>1 DEF Front
<1> HIDE DEF m, n, d, h
<1>4. Same(c, g, d, h, n)
  BY <1>2, <1>3 DEF Same
<1>5. AgreeTo(d, h, n)
  BY <1>1, <1>4, OuterAgree
<1>6. QED
  BY <1>2, <1>3, <1>5 DEF FramesAgree, d, h

LEMMA ReplaceAgrees ==
  ASSUME NEW c \in Seq(Frames), NEW g \in Seq(Groups), FramesAgree(c, g), g # <<>>,
         NEW f \in Frames, NEW k \in Groups,
         SelectedTo(g, Len(g) - 1) =>
           /\ f.active <=> Selected(k)
           /\ ~k.elsed => (f.done <=> Held(k.vals))
  PROVE  FramesAgree(Front(c) \o <<f>>, [g EXCEPT ![Len(g)] = k])
<1> DEFINE m == Len(g)
           n == m - 1
           d == Front(c) \o <<f>>
           h == [g EXCEPT ![m] = k]
<1>1. m \in Nat /\ n \in Nat /\ Len(c) = m /\ n <= m /\ m = n + 1 /\ AgreeTo(c, g, m)
  BY DEF FramesAgree
<1>2. Len(d) = m /\ d[m] = f /\ \A i \in 1..n : d[i] = c[i]
  BY <1>1 DEF Front
<1>3. Len(h) = m /\ h[m] = k /\ \A i \in 1..n : h[i] = g[i]
  BY <1>1
<1>4. SelectedTo(g, n) => /\ f.active <=> Selected(k)
                          /\ ~k.elsed => (f.done <=> Held(k.vals))
  OBVIOUS
<1> HIDE DEF m, n, d, h
<1>5. AgreeTo(d, h, n) /\ (SelectedTo(h, n) <=> SelectedTo(g, n))
  <2>1. Same(c, g, d, h, n)
    BY <1>2, <1>3 DEF Same
  <2>2. QED
    BY <1>1, <2>1, OuterAgree
<1>6. SomeHeld(h, m) <=> Held(k.vals)
  BY <1>3 DEF SomeHeld
<1>7. TopAgrees(d, h, m)
  BY <1>2, <1>3, <1>4, <1>5, <1>6 DEF TopAgrees, n
<1>8. AgreeTo(d, h, m)
  BY <1>1, <1>5, <1>7, LastAgrees
<1>9. QED
  BY <1>2, <1>3, <1>8 DEF FramesAgree, d, h, m

(***************************************************************************)
(* The steps.                                                              *)
(***************************************************************************)
LEMMA ActiveIsLive ==
  ASSUME TypeOK, FramesAgree(cond, groups)
  PROVE  Active <=> Live
<1>1. Len(cond) \in Nat /\ DOMAIN cond = 1..Len(cond) /\ DOMAIN groups = 1..Len(cond)
  BY DEF TypeOK, FramesAgree
<1>2. ActiveTo(cond, Len(cond)) <=> SelectedTo(groups, Len(cond))
  BY <1>1 DEF FramesAgree, AgreeTo
<1>3. QED
  BY <1>1, <1>2 DEF Active, Live, ActiveTo, SelectedTo

LEMMA ConditionFacts ==
  ASSUME TypeOK, NEW l \in Line
  PROVE  /\ CHolds(l) \in BOOLEAN \/ l.d \notin {"ifdef", "ifndef", "if", "elif"}
         /\ l.d \in {"if", "elif"} /\ macros = table /\ Covered(l.e, table) =>
              (EvalIf(l.e, macros) <=> CHolds(l))
         /\ l.d \in {"if", "elif"} => EvalIf(l.e, macros) \in BOOLEAN
<1>1. l.d \in {"if", "elif"} => l.e \in Conditions
  BY LineFacts
<1>2. ASSUME l.d \in {"if", "elif"}
      PROVE  /\ Holds(l.e, table) \in BOOLEAN /\ EvalIf(l.e, macros) \in BOOLEAN
             /\ CHolds(l) = Holds(l.e, table)
             /\ macros = table /\ Covered(l.e, table) => (EvalIf(l.e, macros) <=> Holds(l.e, table))
  <2>1. Holds(l.e, table) \in BOOLEAN /\ EvalIf(l.e, macros) \in BOOLEAN
    BY <1>1, <1>2, ConditionAssumption DEF TypeOK
  <2>2. CHolds(l) = Holds(l.e, table)
    BY <1>2 DEF CHolds
  <2>3. Covered(l.e, table) => (EvalIf(l.e, table) <=> Holds(l.e, table))
    BY <1>1, <1>2, ConditionAssumption DEF TypeOK
  <2>4. QED
    BY <2>1, <2>2, <2>3
<1>3. l.d \in {"ifdef", "ifndef"} => CHolds(l) \in BOOLEAN
  <2>0. \A x, S : (x \in S) \in BOOLEAN /\ (x \notin S) \in BOOLEAN
    OBVIOUS
  <2>1. CASE l.d = "ifdef"
    BY <2>0, <2>1 DEF CHolds
  <2>2. CASE l.d = "ifndef"
    BY <2>0, <2>2 DEF CHolds
  <2>3. QED
    BY <2>1, <2>2
<1>4. QED
  BY <1>2, <1>3

TableAfter(l) == CASE l.d = "define" /\ Live -> Defined(table, l.m)
                   [] l.d = "undef" /\ Live -> Undefined(table, l.n)
                   [] OTHER -> table
FlatAfter(l) == IF l.d = "text" /\ Live THEN Append(flat, Expand(l.t, table)) ELSE flat

\* The innermost group after #elif or #else.
Longer(l) ==
  [vals  |-> Append(Last(groups).vals, IF l.d = "elif" THEN CHolds(l) ELSE TRUE),
   elsed |-> IF l.d = "elif" THEN Last(groups).elsed ELSE TRUE]

LEMMA LongerFacts ==
  ASSUME TypeOK, NEW l \in Line, l.d \in {"elif", "else"}, Len(groups) # 0
  PROVE  /\ Longer(l) \in Groups
         /\ NextGroups(l) = [groups EXCEPT ![Len(groups)] = Longer(l)]
         /\ Last(groups).vals \in Seq(BOOLEAN)
<1> DEFINE n == Len(groups)
           k == groups[n]
           V == Seq(BOOLEAN) \ {<<>>}
<1>1. groups \in Seq(Groups) /\ n \in Nat \ {0} /\ k \in Groups /\ Last(groups) = k
  BY DEF TypeOK, Last
<1>2. /\ k.vals \in Seq(BOOLEAN) /\ k.elsed \in BOOLEAN
      /\ k = [vals |-> k.vals, elsed |-> k.elsed]
  <2> HIDE DEF k, V
  <2>1. k \in [vals : V, elsed : BOOLEAN]
    BY <1>1 DEF Groups, V
  <2>2. k.vals \in V /\ k.elsed \in BOOLEAN /\ k = [vals |-> k.vals, elsed |-> k.elsed]
    BY <2>1
  <2>3. QED
    BY <2>2 DEF V
<1>3. CHolds(l) \in BOOLEAN \/ l.d = "else"
  BY ConditionFacts
<1> HIDE DEF n, k, V
<1>4. ASSUME NEW x \in BOOLEAN, NEW e \in BOOLEAN
      PROVE  [vals |-> Append(k.vals, x), elsed |-> e] \in Groups
  <2> DEFINE t == Append(k.vals, x)
  <2>1. t \in Seq(BOOLEAN) /\ Len(t) = Len(k.vals) + 1 /\ Len(k.vals) \in Nat
    BY <1>2
  <2> HIDE DEF t
  <2>2. t # <<>>
    BY <2>1
  <2>3. t \in V
    BY <2>1, <2>2 DEF V
  <2>4. QED
    BY <2>3 DEF Groups, V, t
<1>5. CASE l.d = "elif"
  <2>1. Longer(l) = [vals |-> Append(k.vals, CHolds(l)), elsed |-> k.elsed]
    BY <1>1, <1>5 DEF Longer
  <2>2. NextGroups(l) = [groups EXCEPT ![n].vals = Append(@, CHolds(l))]
    BY <1>5 DEF NextGroups, n
  <2>3. NextGroups(l) = [groups EXCEPT ![n] = [vals |-> Append(k.vals, CHolds(l)), elsed |-> k.elsed]]
    BY <1>2, <2>2 DEF k
  <2>4. QED
    BY <1>1, <1>2, <1>3, <1>4, <1>5, <2>1, <2>3 DEF n
<1>6. CASE l.d = "else"
  <2>1. Longer(l) = [vals |-> Append(k.vals, TRUE), elsed |-> TRUE]
    BY <1>1, <1>6 DEF Longer
  <2>2. NextGroups(l) = [groups EXCEPT ![n] = [vals |-> Append(k.vals, TRUE), elsed |-> TRUE]]
    BY <1>6 DEF NextGroups, n, k
  <2>3. QED
    BY <1>1, <1>2, <1>4, <2>1, <2>2 DEF n
<1>7. QED
  BY <1>5, <1>6

\* C's side of a line: the groups, the table and the text stay well formed.
LEMMA GroupsType ==
  ASSUME TypeOK, NEW l \in Line, CAllows(l)
  PROVE  NextGroups(l) \in Seq(Groups)
<1>1. groups \in Seq(Groups) /\ Reader.base \in Nat
  <2>1. readers[Len(readers)] \in Readers
    BY OutsSplit
  <2>2. QED
    BY <2>1 DEF TypeOK, Reader, Last, Readers
<1>2. CASE l.d \in {"ifdef", "ifndef", "if"}
  <2>1. CHolds(l) \in BOOLEAN
    BY <1>2, ConditionFacts
  <2>2. [vals |-> <<CHolds(l)>>, elsed |-> FALSE] \in Groups
    BY <2>1 DEF Groups
  <2>3. QED
    BY <1>1, <1>2, <2>2 DEF NextGroups
<1>3. CASE l.d \in {"elif", "else"}
  <2>1. Len(groups) # 0 /\ Len(groups) \in Nat
    BY <1>1, <1>3 DEF CAllows
  <2>2. Longer(l) \in Groups /\ NextGroups(l) = [groups EXCEPT ![Len(groups)] = Longer(l)]
    BY <1>3, <2>1, LongerFacts
  <2>3. QED
    BY <1>1, <2>1, <2>2
<1>4. CASE l.d = "endif"
  <2>1. Len(groups) > 0
    BY <1>1, <1>4 DEF CAllows
  <2>2. QED
    BY <1>1, <1>4, <2>1 DEF NextGroups, Front
<1>5. CASE l.d \notin {"ifdef", "ifndef", "if", "elif", "else", "endif"}
  BY <1>1, <1>5 DEF NextGroups
<1>6. QED
  BY <1>2, <1>3, <1>4, <1>5

LEMMA MeansFacts ==
  ASSUME TypeOK, NEW l \in Line, Step(l)
  PROVE  /\ groups' \in Seq(Groups) /\ table' \in MacroTables
         /\ flat' \in Seq(Lines) /\ legal' \in BOOLEAN
         /\ legal' => /\ legal /\ CAllows(l)
                      /\ groups' = NextGroups(l)
                      /\ table' = TableAfter(l)
                      /\ flat' = FlatAfter(l)
<1>1. Means(l)
  BY DEF Step
<1>2. legal' \in BOOLEAN /\ (legal' <=> legal /\ CAllows(l))
  BY <1>1 DEF Means
<1>3. CASE ~legal'
  <2>1. groups' = <<>> /\ table' = <<>> /\ flat' = <<>>
    BY <1>1, <1>3 DEF Means
  <2>2. <<>> \in MacroTables
    <3> DEFINE B == {m[2] : m \in Definitions}
    <3>1. <<>> \in [{} -> B] /\ {} \in SUBSET {m[1] : m \in Definitions}
      OBVIOUS
    <3>2. QED
      BY <3>1 DEF MacroTables
  <2>3. QED
    BY <1>2, <1>3, <2>1, <2>2
<1>4. CASE legal'
  <2>1. groups' = NextGroups(l) /\ table' = TableAfter(l) /\ flat' = FlatAfter(l)
    BY <1>1, <1>4 DEF Means, TableAfter, FlatAfter
  <2>2. NextGroups(l) \in Seq(Groups)
    BY <1>2, <1>4, GroupsType
  <2>3. TableAfter(l) \in MacroTables
    BY LineFacts, TableFacts DEF TableAfter, TypeOK
  <2>4. FlatAfter(l) \in Seq(Lines)
    BY OutputType DEF FlatAfter, TypeOK
  <2>5. QED
    BY <1>2, <1>4, <2>1, <2>2, <2>3, <2>4
<1>5. QED
  BY <1>3, <1>4

\* What every step of the loop leaves to its directive: the frames that match
\* C's groups after the line, the table C has then, and no error.
LEMMA StepIInv ==
  ASSUME IInv, NEW l \in Line, Step(l),
         macros' \in MacroTables, cond' \in Seq(Frames), errors' \in BOOLEAN,
         depth' = IF Opens(l) THEN depth + 1 ELSE depth,
         legal' => /\ FramesAgree(cond', NextGroups(l))
                   /\ macros' = TableAfter(l)
                   /\ ~errors'
  PROVE  IInv'
<1>1. /\ readers' \in Seq(Readers) /\ readers' # <<>>
      /\ Len(readers') = IF Opens(l) THEN Len(readers) + 1 ELSE Len(readers)
      /\ FlattenSeq(Outs') = FlattenSeq(Outs) \o Output(l)
  BY StepReaders DEF IInv
<1>2. /\ groups' \in Seq(Groups) /\ table' \in MacroTables
      /\ flat' \in Seq(Lines) /\ legal' \in BOOLEAN
      /\ legal' => /\ legal /\ CAllows(l)
                   /\ groups' = NextGroups(l)
                   /\ table' = TableAfter(l)
                   /\ flat' = FlatAfter(l)
  BY MeansFacts DEF IInv
<1>3. TypeOK'
  BY <1>1, <1>2 DEF TypeOK
<1>4. DepthOK'
  <2>1. Len(readers) \in Nat
    BY DEF IInv, TypeOK
  <2>2. QED
    BY <1>1, <2>1 DEF IInv, DepthOK
<1>5. ASSUME legal' PROVE FlattenSeq(Outs') = flat'
  <2>1. FlattenSeq(Outs) = flat /\ FramesAgree(cond, groups) /\ macros = table
    BY <1>2, <1>5 DEF IInv, AgreeOK
  <2>2. Active <=> Live
    BY <2>1, ActiveIsLive DEF IInv
  <2>3. flat \in Seq(Lines) /\ flat' = FlatAfter(l)
    BY <1>2, <1>5 DEF IInv, TypeOK
  <2>4. CASE l.d = "text" /\ Active
    <3>1. Output(l) = <<Expand(l.t, table)>> /\ flat' = Append(flat, Expand(l.t, table))
      BY <2>1, <2>2, <2>3, <2>4 DEF Output, FlatAfter
    <3>2. Expand(l.t, table) \in Lines
      BY <2>4, OutputType DEF IInv
    <3>3. QED
      BY <1>1, <2>1, <2>3, <3>1, <3>2
  <2>5. CASE ~(l.d = "text" /\ Active)
    <3>1. Output(l) = <<>> /\ flat' = flat
      BY <2>2, <2>3, <2>5 DEF Output, FlatAfter
    <3>2. QED
      BY <1>1, <2>1, <2>3, <3>1
  <2>6. QED
    BY <2>4, <2>5
<1>6. AgreeOK'
  <2>1. legal' => FramesAgree(cond', groups') /\ macros' = table' /\ ~errors'
    BY <1>2
  <2>2. QED
    BY <1>5, <2>1 DEF AgreeOK
<1>7. QED
  BY <1>3, <1>4, <1>6 DEF IInv

\* Before a line that C allows, the frames are those of the groups.
LEMMA Before ==
  ASSUME IInv, NEW l \in Line, Step(l), legal'
  PROVE  /\ CAllows(l) /\ FramesAgree(cond, groups) /\ macros = table /\ ~errors
         /\ Active <=> Live
<1>1. legal /\ CAllows(l)
  BY MeansFacts DEF IInv
<1>2. FramesAgree(cond, groups) /\ macros = table /\ ~errors
  BY <1>1 DEF IInv, AgreeOK
<1>3. Active <=> Live
  BY <1>2, ActiveIsLive DEF IInv
<1>4. QED
  BY <1>1, <1>2, <1>3

LEMMA KeepsTable ==
  ASSUME NEW l, l.d \notin {"define", "undef"}
  PROVE  TableAfter(l) = table
  BY DEF TableAfter

LEMMA KeepsDepth ==
  ASSUME NEW l, l.d # "include", depth' = depth
  PROVE  depth' = IF Opens(l) THEN depth + 1 ELSE depth
  BY DEF Opens

LEMMA KeepsGroups ==
  ASSUME NEW l \in Line, l.d \in {"define", "undef", "include", "other", "text"}
  PROVE  NextGroups(l) = groups
  BY DEF NextGroups

LEMMA IfKeeps ==
  ASSUME IInv, NEW l \in Line, DoIf(l), Step(l)
  PROVE  IInv'
<1>1. /\ l.d \in {"ifdef", "ifndef", "if"} /\ cond' = AfterIf(l)
      /\ macros' = macros /\ depth' = depth /\ errors' = errors
  BY DEF DoIf
<1> DEFINE a == Active /\ Enters(l)
<1>2. /\ cond \in Seq(Frames) /\ groups \in Seq(Groups) /\ macros \in MacroTables
      /\ errors \in BOOLEAN
  BY DEF IInv, TypeOK
<1>3. a \in BOOLEAN
  <2>1. Active \in BOOLEAN
    <3>1. \A j \in DOMAIN cond : cond[j] \in Frames
      BY <1>2
    <3>2. \A j \in DOMAIN cond : cond[j].active \in BOOLEAN
      BY <3>1 DEF Frames
    <3>3. QED
      BY <3>2 DEF Active
  <2>2. QED
    BY <2>1
<1>4. Frame(a) = [active |-> a, done |-> a] /\ Frame(a) \in Frames
  BY <1>3 DEF Frame, Frames
<1>5. cond' = Append(cond, Frame(a))
  BY <1>1 DEF AfterIf
<1> HIDE DEF a
<1>6. cond' \in Seq(Frames)
  BY <1>2, <1>4, <1>5
<1>7. CHolds(l) \in BOOLEAN
  BY <1>1, ConditionFacts DEF IInv
<1>8. ASSUME legal' PROVE FramesAgree(cond', NextGroups(l)) /\ macros' = TableAfter(l) /\ ~errors'
  <2>1. /\ CAllows(l) /\ FramesAgree(cond, groups) /\ macros = table /\ ~errors
        /\ Active <=> Live
    BY <1>8, Before
  <2>2. ASSUME Live PROVE a <=> CHolds(l)
    <3>1. CASE l.d = "if"
      <4>1. Covered(l.e, table)
        BY <2>1, <2>2, <3>1 DEF CAllows
      <4>2. EvalIf(l.e, macros) <=> CHolds(l)
        BY <2>1, <3>1, <4>1, ConditionFacts DEF IInv
      <4>3. QED
        BY <2>1, <2>2, <3>1, <4>2 DEF a, Enters
    <3>2. CASE l.d = "ifdef"
      BY <2>1, <2>2, <3>2 DEF a, Enters, CHolds
    <3>3. CASE l.d = "ifndef"
      BY <2>1, <2>2, <3>3 DEF a, Enters, CHolds
    <3>4. QED
      BY <1>1, <3>1, <3>2, <3>3
  <2>3. SelectedTo(groups, Len(groups)) => Live
    BY <1>2 DEF SelectedTo, Live
  <2>4. NextGroups(l) = Append(groups, [vals |-> <<CHolds(l)>>, elsed |-> FALSE])
    BY <1>1 DEF NextGroups
  <2>5. FramesAgree(Append(cond, [active |-> a, done |-> a]),
                    Append(groups, [vals |-> <<CHolds(l)>>, elsed |-> FALSE]))
    BY <1>2, <1>3, <1>7, <2>1, <2>2, <2>3, PushAgrees
  <2>6. TableAfter(l) = table
    BY <1>1, KeepsTable
  <2>7. QED
    BY <1>1, <1>4, <1>5, <2>1, <2>4, <2>5, <2>6
<1>9. depth' = IF Opens(l) THEN depth + 1 ELSE depth
  BY <1>1, KeepsDepth
<1>10. QED
  BY <1>1, <1>2, <1>6, <1>8, <1>9, StepIInv

\* One more value among those of a conditional.
LEMMA AppendVals ==
  ASSUME NEW v \in Seq(BOOLEAN), NEW x \in BOOLEAN, NEW k, k.vals = Append(v, x)
  PROVE  /\ Selected(k) <=> x /\ ~Held(v)
         /\ Held(k.vals) <=> x \/ Held(v)
<1> DEFINE t == Append(v, x)
           n == Len(v)
<1>1. n \in Nat /\ Len(t) = n + 1 /\ DOMAIN t = 1..n + 1 /\ t[n + 1] = x
      /\ DOMAIN v = 1..n /\ \A i \in 1..n : t[i] = v[i]
  OBVIOUS
<1>2. k.vals = t
  OBVIOUS
<1> HIDE DEF t, n
<1>3. Selected(k) <=> x /\ \A i \in 1..n : ~t[i]
  BY <1>1, <1>2 DEF Selected, Last
<1>4. (\E i \in DOMAIN t : t[i]) <=> x \/ \E i \in 1..n : t[i]
  <2>1. DOMAIN t = 1..n \cup {n + 1}
    BY <1>1
  <2>2. QED
    BY <1>1, <2>1
<1>5. QED
  BY <1>1, <1>2, <1>3, <1>4 DEF Held

\* The innermost group is the file's own.
LEMMA OwnGroup ==
  ASSUME IInv, NEW l \in Line, Step(l), legal', l.d \in {"elif", "else", "endif"}
  PROVE  cond # <<>> /\ groups # <<>> /\ Len(cond) = Len(groups) /\ Len(groups) \in Nat \ {0}
<1>1. Reader.base \in Nat
  <2>1. readers[Len(readers)] \in Readers
    BY OutsSplit DEF IInv
  <2>2. QED
    BY <2>1 DEF Reader, Last, Readers
<1>2. CAllows(l) /\ FramesAgree(cond, groups)
  BY Before
<1>3. Len(groups) > Reader.base
  BY <1>2 DEF CAllows
<1>4. Len(groups) \in Nat /\ Len(cond) = Len(groups)
  BY <1>2 DEF IInv, TypeOK, FramesAgree
<1>5. QED
  BY <1>1, <1>3, <1>4

\* The groups around the innermost one are selected where its parents are active.
LEMMA ParentFacts ==
  ASSUME TypeOK, FramesAgree(cond, groups), groups # <<>>
  PROVE  /\ ParentActive <=> SelectedTo(groups, Len(groups) - 1)
         /\ SelectedTo(groups, Len(groups) - 1) /\ ~Last(groups).elsed =>
              (Last(cond).done <=> Held(Last(groups).vals))
<1> DEFINE n == Len(groups)
<1>1. n \in Nat \ {0} /\ Len(cond) = n /\ AgreeTo(cond, groups, n)
  BY DEF TypeOK, FramesAgree
<1>2. n - 1 \in 0..n /\ n \in 1..n
  BY <1>1
<1>3. ActiveTo(cond, n - 1) <=> SelectedTo(groups, n - 1)
  BY <1>1, <1>2 DEF AgreeTo
<1>4. SelectedTo(groups, n - 1) /\ ~groups[n].elsed => (cond[n].done <=> SomeHeld(groups, n))
  BY <1>1, <1>2 DEF AgreeTo
<1>5. QED
  BY <1>1, <1>3, <1>4 DEF ParentActive, ActiveTo, SomeHeld, Last

LEMMA EndifKeeps ==
  ASSUME IInv, NEW l \in Line, DoEndif(l), Step(l)
  PROVE  IInv'
<1>1. /\ l.d = "endif" /\ macros' = macros /\ depth' = depth
      /\ IF cond = <<>> THEN errors' = TRUE /\ cond' = cond
         ELSE cond' = AfterEndif /\ errors' = errors
  BY DEF DoEndif
<1>2. cond \in Seq(Frames) /\ macros \in MacroTables /\ errors \in BOOLEAN
  BY DEF IInv, TypeOK
<1>3. cond' \in Seq(Frames) /\ errors' \in BOOLEAN
  <2>1. cond # <<>> => Front(cond) \in Seq(Frames)
    BY <1>2 DEF Front
  <2>2. QED
    BY <1>1, <1>2, <2>1 DEF AfterEndif
<1>4. ASSUME legal' PROVE FramesAgree(cond', NextGroups(l)) /\ macros' = TableAfter(l) /\ ~errors'
  <2>1. CAllows(l) /\ FramesAgree(cond, groups) /\ macros = table /\ ~errors
    BY <1>4, Before
  <2>2. cond # <<>>
    BY <1>1, <1>4, OwnGroup
  <2>3. NextGroups(l) = Front(groups) /\ TableAfter(l) = table
    BY <1>1, KeepsTable DEF NextGroups
  <2>4. FramesAgree(Front(cond), Front(groups))
    BY <2>1, <2>2, PopAgrees DEF IInv, TypeOK
  <2>5. QED
    BY <1>1, <2>1, <2>2, <2>3, <2>4 DEF AfterEndif
<1>5. depth' = IF Opens(l) THEN depth + 1 ELSE depth
  BY <1>1, KeepsDepth
<1>6. QED
  BY <1>1, <1>2, <1>3, <1>4, <1>5, StepIInv

LEMMA ElifKeeps ==
  ASSUME IInv, NEW l \in Line, DoElif(l), Step(l)
  PROVE  IInv'
<1> DEFINE f == Last(cond)
           a == ParentActive /\ EvalIf(l.e, macros)
           x == IF f.done THEN [f EXCEPT !.active = FALSE] ELSE Frame(a)
           v == Last(groups).vals
           n == Len(groups)
<1>1. /\ l.d = "elif" /\ macros' = macros /\ depth' = depth
      /\ IF cond = <<>> THEN errors' = TRUE /\ cond' = cond
         ELSE cond' = Front(cond) \o <<x>> /\ errors' = errors
  BY DEF DoElif, AfterElif
<1>2. /\ cond \in Seq(Frames) /\ groups \in Seq(Groups) /\ macros \in MacroTables
      /\ errors \in BOOLEAN
  BY DEF IInv, TypeOK
<1>3. a \in BOOLEAN
  <2>1. ParentActive \in BOOLEAN
    <3>1. \A j \in 1..Len(cond) - 1 : cond[j] \in Frames
      BY <1>2
    <3>2. \A j \in 1..Len(cond) - 1 : cond[j].active \in BOOLEAN
      BY <3>1 DEF Frames
    <3>3. QED
      BY <3>2 DEF ParentActive
  <2>2. EvalIf(l.e, macros) \in BOOLEAN
    BY <1>1, ConditionFacts DEF IInv
  <2>3. QED
    BY <2>1, <2>2
<1> HIDE DEF a
<1>4. ASSUME cond # <<>>
      PROVE  x \in Frames /\ f.done \in BOOLEAN
  <2>1. f \in Frames
    BY <1>2, <1>4 DEF Last
  <2> HIDE DEF f
  <2>2. QED
    BY <1>3, <2>1 DEF Frames, Frame
<1>5. /\ f.done = TRUE => x.active = FALSE /\ (cond # <<>> => x.done = TRUE)
      /\ ~f.done => x.active = a /\ x.done = a
  <2>1. CASE f.done
    <3>1. cond # <<>> => f \in Frames
      BY <1>2 DEF Last
    <3> HIDE DEF f
    <3>2. cond # <<>> => x.active = FALSE /\ x.done = f.done
      BY <2>1, <3>1 DEF Frames
    <3>3. QED
      BY <2>1, <3>2
  <2>2. CASE ~f.done
    BY <2>2 DEF Frame
  <2>3. QED
    BY <2>1, <2>2
<1> HIDE DEF x, f
<1>6. cond' \in Seq(Frames) /\ errors' \in BOOLEAN
  <2>1. cond # <<>> => Front(cond) \in Seq(Frames)
    BY <1>2 DEF Front
  <2>2. \A s \in Seq(Frames), y \in Frames : s \o <<y>> \in Seq(Frames)
    OBVIOUS
  <2>3. QED
    BY <1>1, <1>2, <1>4, <2>1, <2>2
<1>8. ASSUME legal' PROVE FramesAgree(cond', NextGroups(l)) /\ macros' = TableAfter(l) /\ ~errors'
  <2>1. CAllows(l) /\ FramesAgree(cond, groups) /\ macros = table /\ ~errors
    BY <1>8, Before
  <2>2. cond # <<>> /\ groups # <<>> /\ n \in Nat \ {0}
    BY <1>1, <1>8, OwnGroup
  <2>3. /\ Longer(l) \in Groups /\ v \in Seq(BOOLEAN)
        /\ NextGroups(l) = [groups EXCEPT ![n] = Longer(l)]
    BY <1>1, <2>2, LongerFacts DEF IInv
  <2>4. CHolds(l) \in BOOLEAN /\ ~Last(groups).elsed
    BY <1>1, <2>1, ConditionFacts DEF IInv, CAllows
  <2>5. Longer(l) = [vals |-> Append(v, CHolds(l)), elsed |-> Last(groups).elsed]
    BY <1>1 DEF Longer
  <2>6. /\ Selected(Longer(l)) <=> CHolds(l) /\ ~Held(v)
        /\ Held(Longer(l).vals) <=> CHolds(l) \/ Held(v)
    <3>1. Longer(l).vals = Append(v, CHolds(l))
      BY <2>5
    <3>2. QED
      BY <2>3, <2>4, <3>1, AppendVals
  <2>7. ASSUME SelectedTo(groups, n - 1)
        PROVE  /\ x.active <=> Selected(Longer(l))
               /\ x.done <=> Held(Longer(l).vals)
    <3>1. ParentActive /\ (f.done <=> Held(v))
      BY <2>1, <2>2, <2>4, <2>7, ParentFacts DEF IInv, f
    <3>2. CASE f.done
      BY <1>4, <1>5, <2>2, <2>6, <3>1, <3>2
    <3>3. CASE ~f.done
      <4>1. Covered(l.e, table)
        <5>1. \A i \in 1..n - 1 : Selected(groups[i])
          BY <2>7 DEF SelectedTo
        <5>2. QED
          BY <1>1, <2>1, <3>1, <3>3, <5>1 DEF CAllows, Held
      <4>2. a <=> CHolds(l)
        BY <1>1, <2>1, <3>1, <4>1, ConditionFacts DEF IInv, a
      <4>3. QED
        BY <1>5, <2>6, <3>1, <3>3, <4>2
    <3>4. QED
      BY <3>2, <3>3
  <2>8. FramesAgree(Front(cond) \o <<x>>, [groups EXCEPT ![n] = Longer(l)])
    BY <1>2, <1>4, <2>1, <2>2, <2>3, <2>7, ReplaceAgrees
  <2>9. TableAfter(l) = table
    BY <1>1, KeepsTable
  <2>10. QED
    BY <1>1, <2>1, <2>2, <2>3, <2>8, <2>9
<1>9. depth' = IF Opens(l) THEN depth + 1 ELSE depth
  BY <1>1, KeepsDepth
<1>10. QED
  BY <1>1, <1>2, <1>6, <1>8, <1>9, StepIInv

LEMMA ElseKeeps ==
  ASSUME IInv, NEW l \in Line, DoElse(l), Step(l)
  PROVE  IInv'
<1> DEFINE f == Last(cond)
           x == [f EXCEPT !.active = ~f.done]
           v == Last(groups).vals
           n == Len(groups)
<1>1. /\ l.d = "else" /\ macros' = macros /\ depth' = depth
      /\ IF cond = <<>> THEN errors' = TRUE /\ cond' = cond
         ELSE cond' = Front(cond) \o <<x>> /\ errors' = errors
  BY DEF DoElse, AfterElse
<1>2. /\ cond \in Seq(Frames) /\ groups \in Seq(Groups) /\ macros \in MacroTables
      /\ errors \in BOOLEAN
  BY DEF IInv, TypeOK
<1>3. cond # <<>> => x \in Frames /\ (x.active <=> ~f.done)
  <2>1. cond # <<>> => f \in Frames
    BY <1>2 DEF Last
  <2> HIDE DEF f
  <2>2. QED
    BY <2>1 DEF Frames
<1> HIDE DEF x, f
<1>4. cond' \in Seq(Frames) /\ errors' \in BOOLEAN
  <2>1. cond # <<>> => Front(cond) \in Seq(Frames)
    BY <1>2 DEF Front
  <2>2. \A s \in Seq(Frames), y \in Frames : s \o <<y>> \in Seq(Frames)
    OBVIOUS
  <2>3. QED
    BY <1>1, <1>2, <1>3, <2>1, <2>2
<1>5. ASSUME legal' PROVE FramesAgree(cond', NextGroups(l)) /\ macros' = TableAfter(l) /\ ~errors'
  <2>1. CAllows(l) /\ FramesAgree(cond, groups) /\ macros = table /\ ~errors
    BY <1>5, Before
  <2>2. cond # <<>> /\ groups # <<>> /\ n \in Nat \ {0}
    BY <1>1, <1>5, OwnGroup
  <2>3. /\ Longer(l) \in Groups /\ v \in Seq(BOOLEAN)
        /\ NextGroups(l) = [groups EXCEPT ![n] = Longer(l)]
    BY <1>1, <2>2, LongerFacts DEF IInv
  <2>4. ~Last(groups).elsed
    BY <1>1, <2>1 DEF CAllows
  <2>5. Longer(l) = [vals |-> Append(v, TRUE), elsed |-> TRUE]
    BY <1>1 DEF Longer
  <2>6. Longer(l).elsed /\ (Selected(Longer(l)) <=> ~Held(v))
    <3> DEFINE w == Append(v, TRUE)
    <3>1. Longer(l) = [vals |-> w, elsed |-> TRUE]
      BY <2>5
    <3> HIDE DEF w
    <3>2. Longer(l).vals = w /\ Longer(l).elsed
      BY <3>1
    <3>3. QED
      BY <2>3, <3>2, AppendVals DEF w
  <2>7. ASSUME SelectedTo(groups, n - 1)
        PROVE  x.active <=> Selected(Longer(l))
    <3>1. f.done <=> Held(v)
      BY <2>1, <2>2, <2>4, <2>7, ParentFacts DEF IInv, f
    <3>2. QED
      BY <1>3, <2>2, <2>6, <3>1
  <2>8. FramesAgree(Front(cond) \o <<x>>, [groups EXCEPT ![n] = Longer(l)])
    BY <1>2, <1>3, <2>1, <2>2, <2>3, <2>6, <2>7, ReplaceAgrees
  <2>9. TableAfter(l) = table
    BY <1>1, KeepsTable
  <2>10. QED
    BY <1>1, <2>1, <2>2, <2>3, <2>8, <2>9
<1>6. depth' = IF Opens(l) THEN depth + 1 ELSE depth
  BY <1>1, KeepsDepth
<1>7. QED
  BY <1>1, <1>2, <1>4, <1>5, <1>6, StepIInv

\* The lines that leave the frames alone.
LEMMA PlainKeeps ==
  ASSUME IInv, NEW l \in Line, Step(l), cond' = cond,
         DoDefine(l) \/ DoUndef(l) \/ DoInclude(l) \/ DoOther(l)
  PROVE  IInv'
<1>1. l.d \in {"define", "undef", "include", "other", "text"}
  BY DEF DoDefine, DoUndef, DoInclude, DoOther
<1>2. cond \in Seq(Frames) /\ macros \in MacroTables /\ errors \in BOOLEAN
  BY DEF IInv, TypeOK
<1>3. macros' \in MacroTables
  BY <1>2, LineFacts, TableFacts DEF DoDefine, DoUndef, DoInclude, DoOther
<1>4. errors' = errors \/ l.d = "include"
  BY DEF DoDefine, DoUndef, DoInclude, DoOther
<1>5. errors' \in BOOLEAN
  <2>1. CASE DoInclude(l)
    <3>1. errors' = (errors \/ (Active /\ depth > IncludeLimit))
      BY <2>1 DEF DoInclude
    <3>2. \A a, b : (a \/ b) \in BOOLEAN
      OBVIOUS
    <3>3. QED
      BY <3>1, <3>2, Zenon
  <2>2. CASE ~DoInclude(l)
    BY <1>2, <2>2 DEF DoDefine, DoUndef, DoOther
  <2>3. QED
    BY <2>1, <2>2
<1>6. depth' = IF Opens(l) THEN depth + 1 ELSE depth
  <2>1. CASE DoInclude(l)
    BY <2>1 DEF DoInclude
  <2>2. CASE ~DoInclude(l)
    BY <2>2 DEF DoDefine, DoUndef, DoOther, Opens
  <2>3. QED
    BY <2>1, <2>2
<1>7. ASSUME legal' PROVE FramesAgree(cond', NextGroups(l)) /\ macros' = TableAfter(l) /\ ~errors'
  <2>1. /\ CAllows(l) /\ FramesAgree(cond, groups) /\ macros = table /\ ~errors
        /\ Active <=> Live
    BY <1>7, Before
  <2>2. NextGroups(l) = groups
    BY <1>1, KeepsGroups
  <2>3. macros' = TableAfter(l)
    <3>1. CASE DoDefine(l)
      BY <2>1, <3>1 DEF DoDefine, TableAfter
    <3>2. CASE DoUndef(l)
      BY <2>1, <3>2 DEF DoUndef, TableAfter
    <3>3. CASE DoInclude(l) \/ DoOther(l)
      BY <2>1, <3>3, KeepsTable DEF DoInclude, DoOther
    <3>4. QED
      BY <3>1, <3>2, <3>3
  <2>4. ~errors'
    <3>1. CASE DoInclude(l)
      <4>1. Live => Len(readers) - 1 <= IncludeLimit
        BY <2>1, <3>1 DEF CAllows, DoInclude
      <4>2. depth \in Int /\ depth = Len(readers) - 1 /\ IncludeLimit \in Nat
        BY BoundsAssumption DEF IInv, DepthOK, TypeOK
      <4>3. errors' = (errors \/ (Active /\ depth > IncludeLimit))
        BY <3>1 DEF DoInclude
      <4>4. ~(Active /\ depth > IncludeLimit)
        BY <2>1, <4>1, <4>2
      <4>5. QED
        BY <2>1, <4>3, <4>4, Zenon
    <3>2. CASE ~DoInclude(l)
      BY <2>1, <3>2 DEF DoDefine, DoUndef, DoOther
    <3>3. QED
      BY <3>1, <3>2
  <2>5. QED
    BY <2>1, <2>2, <2>3, <2>4
<1>8. cond' \in Seq(Frames)
  BY <1>2
<1>9. QED
  BY <1>3, <1>5, <1>6, <1>7, <1>8, StepIInv

LEMMA EndKeeps ==
  ASSUME IInv, EndHeader
  PROVE  IInv'
<1>1. /\ readers' \in Seq(Readers) /\ readers' # <<>>
      /\ Len(readers') = Len(readers) - 1
      /\ FlattenSeq(Outs') = FlattenSeq(Outs)
  BY EndReaders DEF IInv
<1>2. /\ macros' = macros /\ cond' = cond /\ errors' = errors /\ depth' = depth - 1
      /\ legal' = (legal /\ Len(groups) = Reader.base)
      /\ IF legal' THEN groups' = groups /\ table' = table /\ flat' = flat
         ELSE groups' = <<>> /\ table' = <<>> /\ flat' = <<>>
  BY DEF EndHeader, DepthAfter
<1>3. legal' \in BOOLEAN /\ (legal' => legal)
  BY <1>2
<1>4. TypeOK'
  <2>1. <<>> \in MacroTables
    <3> DEFINE B == {m[2] : m \in Definitions}
    <3>1. <<>> \in [{} -> B] /\ {} \in SUBSET {m[1] : m \in Definitions}
      OBVIOUS
    <3>2. QED
      BY <3>1 DEF MacroTables
  <2>2. groups \in Seq(Groups) /\ table \in MacroTables /\ flat \in Seq(Lines)
    BY DEF IInv, TypeOK
  <2>3. groups' \in Seq(Groups) /\ table' \in MacroTables /\ flat' \in Seq(Lines)
    <3>1. CASE legal'
      BY <1>2, <2>2, <3>1
    <3>2. CASE ~legal'
      BY <1>2, <2>1, <3>2
    <3>3. QED
      BY <3>1, <3>2
  <2>4. QED
    BY <1>1, <1>2, <1>3, <2>3 DEF IInv, TypeOK
<1>5. DepthOK'
  <2>1. Len(readers) \in Nat
    BY DEF IInv, TypeOK
  <2>2. QED
    BY <1>1, <1>2, <2>1 DEF IInv, DepthOK
<1>6. AgreeOK'
  <2>1. ASSUME legal'
        PROVE  /\ FramesAgree(cond', groups') /\ macros' = table'
               /\ FlattenSeq(Outs') = flat' /\ ~errors'
    <3>1. /\ FramesAgree(cond, groups) /\ macros = table
          /\ FlattenSeq(Outs) = flat /\ ~errors
      BY <1>3, <2>1 DEF IInv, AgreeOK
    <3>2. QED
      BY <1>1, <1>2, <2>1, <3>1
  <2>2. QED
    BY <2>1 DEF AgreeOK
<1>7. QED
  BY <1>4, <1>5, <1>6 DEF IInv

LEMMA InitIInv == Init => IInv
<1> SUFFICES ASSUME Init PROVE IInv
  OBVIOUS
<1> DEFINE r == [file |-> Main, pos |-> 0, out |-> <<>>, base |-> 0]
<1>1. /\ macros = <<>> /\ table = <<>> /\ cond = <<>> /\ groups = <<>>
      /\ readers = <<r>> /\ depth = 0 /\ errors = FALSE /\ flat = <<>> /\ legal = TRUE
  BY DEF Init
<1>2. r \in Readers /\ r.out = <<>>
  <2>1. <<>> \in Seq(Lines)
    OBVIOUS
  <2>2. QED
    BY <2>1 DEF Readers
<1>3. <<>> \in MacroTables
  <2> DEFINE B == {m[2] : m \in Definitions}
  <2>1. <<>> \in [{} -> B] /\ {} \in SUBSET {m[1] : m \in Definitions}
    OBVIOUS
  <2>2. QED
    BY <2>1 DEF MacroTables
<1> HIDE DEF r
<1>4. /\ readers \in Seq(Readers) /\ readers # <<>> /\ Len(readers) = 1
      /\ DOMAIN readers = 1..1 /\ readers[1] = r
  BY <1>1, <1>2
<1>5. TypeOK
  <2>1. cond \in Seq(Frames) /\ groups \in Seq(Groups) /\ flat \in Seq(Lines)
    BY <1>1
  <2>2. QED
    BY <1>1, <1>3, <1>4, <2>1 DEF TypeOK
<1>6. DepthOK
  BY <1>1, <1>4 DEF DepthOK
<1>7. FramesAgree(cond, groups)
  BY <1>1 DEF FramesAgree, AgreeTo, ActiveTo, SelectedTo
<1>8. FlattenSeq(Outs) = <<>>
  <2>1. <<>> \in Seq(Seq(Lines)) /\ <<>> \in Seq(Lines)
    OBVIOUS
  <2>2. FlattenSeq(Append(<<>>, <<>>)) = IF <<>> = <<>> THEN <<>> ELSE FlattenSeq(<<>>) \o <<>>
    BY <2>1, FlatAppend
  <2>3. Outs = <<<<>>>>
    BY <1>2, <1>4 DEF Outs
  <2>4. Append(<<>>, <<>>) = <<<<>>>>
    OBVIOUS
  <2>5. QED
    BY <2>2, <2>3, <2>4
<1>9. QED
  BY <1>1, <1>5, <1>6, <1>7, <1>8 DEF IInv, AgreeOK

LEMMA NextIInv == IInv /\ [Next]_vars => IInv'
<1> SUFFICES ASSUME IInv, [Next]_vars PROVE IInv'
  OBVIOUS
<1>1. CASE ReadIf
  BY <1>1, IfKeeps DEF ReadIf
<1>2. CASE ReadElif
  BY <1>2, ElifKeeps DEF ReadElif
<1>3. CASE ReadElse
  BY <1>3, ElseKeeps DEF ReadElse
<1>4. CASE ReadEndif
  BY <1>4, EndifKeeps DEF ReadEndif
<1>5. CASE ReadDefine
  <2>1. PICK l \in Line : DoDefine(l) /\ Step(l)
    BY <1>5 DEF ReadDefine
  <2>2. cond' = cond
    BY <2>1 DEF DoDefine
  <2>3. QED
    BY <2>1, <2>2, PlainKeeps
<1>6. CASE ReadUndef
  <2>1. PICK l \in Line : DoUndef(l) /\ Step(l)
    BY <1>6 DEF ReadUndef
  <2>2. cond' = cond
    BY <2>1 DEF DoUndef
  <2>3. QED
    BY <2>1, <2>2, PlainKeeps
<1>7. CASE ReadInclude
  <2>1. PICK l \in Line : DoInclude(l) /\ Step(l)
    BY <1>7 DEF ReadInclude
  <2>2. cond' = cond
    BY <2>1 DEF DoInclude
  <2>3. QED
    BY <2>1, <2>2, PlainKeeps
<1>8. CASE ReadOther
  <2>1. PICK l \in Line : DoOther(l) /\ Step(l)
    BY <1>8 DEF ReadOther
  <2>2. cond' = cond
    BY <2>1 DEF DoOther
  <2>3. QED
    BY <2>1, <2>2, PlainKeeps
<1>9. CASE EndHeader
  BY <1>9, EndKeeps
<1>10. CASE UNCHANGED vars
  <2>1. /\ macros' = macros /\ cond' = cond /\ readers' = readers /\ depth' = depth
        /\ errors' = errors /\ groups' = groups /\ table' = table /\ flat' = flat
        /\ legal' = legal
    BY <1>10 DEF vars, pp, lang
  <2>2. Outs' = Outs
    BY <2>1 DEF Outs
  <2>3. QED
    BY <2>1, <2>2 DEF IInv, TypeOK, DepthOK, AgreeOK
<1>11. QED
  BY <1>1, <1>2, <1>3, <1>4, <1>5, <1>6, <1>7, <1>8, <1>9, <1>10 DEF Next

\* The inductive invariant holds in every state.
THEOREM Invariance == Spec => []IInv
<1>1. Init => IInv
  BY InitIInv
<1>2. IInv /\ [Next]_vars => IInv'
  BY NextIInv
<1>3. QED
  BY <1>1, <1>2, PTL DEF Spec

\* The lines that are processed are those of C's selected groups, whatever
\* conditionals surround them and in whatever files these stand, and the macro
\* table is the one these lines define (pp_is_active, pp_process_directive).
THEOREM GroupsAlwaysAsC == Spec => []GroupsAsC
<1>1. IInv => GroupsAsC
  BY ActiveIsLive DEF IInv, AgreeOK, GroupsAsC
<1>2. QED
  BY <1>1, Invariance, PTL

\* What the nested calls of pp_process_string have put out is, taken together,
\* the text C gives, and no line that keeps the rules counts as an error.
THEOREM OutputAlwaysAsC == Spec => []OutputAsC
<1>1. IInv => OutputAsC
  BY DEF IInv, AgreeOK, OutputAsC, Outs
<1>2. QED
  BY <1>1, Invariance, PTL

=============================================================================
