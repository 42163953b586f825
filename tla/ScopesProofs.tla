---------------------------- MODULE ScopesProofs ----------------------------
(***************************************************************************)
(* Proofs about names and the objects they stand for, and about the frame  *)
(* that the code generator lays out for the locals of a function, for any  *)
(* names and types and for any length and nesting.                         *)
(***************************************************************************)
EXTENDS Scopes, BasicLemmas

Slots  == [off : Nat, size : Nat, align : Nat \ {0}, extent : Nat]
Locals == [name : Names, obj : Nat, static : BOOLEAN, slot : Slots]

\* One local with its slot, and two of which b was declared later than a.
Within(v, below) == v.slot.off <= below /\ v.slot.off % v.slot.align = 0
Above(a, b)      == a.slot.off <= b.slot.off - b.slot.extent

\* LocalsApart of any list of locals.
Apart(l, below) ==
  \A i \in 1..Len(l) :
    ~l[i].static =>
      /\ Within(l[i], below)
      /\ \A j \in 1..Len(l) : j < i /\ ~l[j].static /\ ~Short(l[j].slot) => Above(l[i], l[j])

\* The inductive invariant: a slot taken later is below all that are taken,
\* because none of those reaches below next.
FrameInv ==
  /\ vars \in Seq(Locals) /\ next \in Nat /\ count \in Nat
  /\ Apart(vars, next)

LEMMA Multiple ==
  ASSUME NEW q \in Int, NEW a \in Nat \ {0}
  PROVE  (q * a) % a = 0
<1> DEFINE x == q * a
           d == x \div a
           r == x % a
<1>1. x \in Int /\ d \in Int /\ r \in 0..a - 1 /\ x = a * d + r
  BY SMT
<1>2. r = a * (q - d)
  BY <1>1, SMT
<1>3. CASE q = d
  BY <1>2, <1>3, SMT
<1>4. CASE q - d >= 1
  <2>1. a * (q - d) >= a
    BY <1>1, <1>4, SMT
  <2>2. QED
    BY <1>1, <1>2, <2>1, SMT
<1>5. CASE q - d <= -1
  <2>1. a * (q - d) <= -a
    BY <1>1, <1>5, SMT
  <2>2. QED
    BY <1>1, <1>2, <2>1, SMT
<1>6. QED
  BY <1>1, <1>3, <1>4, <1>5, SMT

\* Rounding up gives a multiple that is no less.
LEMMA CeilUp ==
  ASSUME NEW k \in Nat, NEW a \in Nat \ {0}
  PROVE  Ceil(k, a) \in Nat /\ Ceil(k, a) >= k /\ Ceil(k, a) % a = 0
<1> DEFINE x == k + a - 1
           d == x \div a
<1>1. x \in Nat /\ d \in Int /\ x % a \in 0..a - 1 /\ x = a * d + (x % a)
  BY SMT
<1>2. d * a = a * d /\ d * a \in Int
  BY <1>1, SMT
<1>3. d * a >= k
  BY <1>1, <1>2, SMT
<1>4. (d * a) % a = 0
  BY <1>1, Multiple
<1>5. Ceil(k, a) = d * a
  BY DEF Ceil
<1>6. QED
  BY <1>2, <1>3, <1>4, <1>5, SMT

\* local_alloc: the new slot is aligned and lies below what was taken, all of it
\* unless it is short.
LEMMA SlotBelow ==
  ASSUME NEW below \in Nat, NEW type \in Types
  PROVE  LET s == Slot(below, type) IN
         s \in Slots /\ s.off % s.align = 0 /\ (~Short(s) => s.off - s.extent >= below)
<1> DEFINE s     == Slot(below, type)
           size  == IF type.size <= 0 THEN 8 ELSE type.size
           align == IF type.align <= 0 THEN 8 ELSE type.align
<1>1. size \in Nat /\ align \in Nat \ {0} /\ type.extent \in Nat
  BY TypesAssumption
<1>2. s.size = size /\ s.align = align /\ s.extent = type.extent
      /\ s.off = (IF align > 1 THEN Ceil(below + size, align) ELSE below + size)
      /\ s = [off |-> s.off, size |-> size, align |-> align, extent |-> type.extent]
  BY DEF Slot
<1> HIDE DEF s, size, align
<1>3. s.off \in Nat /\ s.off >= below + size /\ s.off % align = 0
  <2>1. CASE align > 1
    <3>1. below + size \in Nat
      BY <1>1
    <3>2. LET c == Ceil(below + size, align) IN
          c \in Nat /\ c >= below + size /\ c % align = 0
      BY <1>1, <3>1, CeilUp
    <3>3. s.off = Ceil(below + size, align)
      BY <1>2, <2>1
    <3>4. QED
      BY <3>2, <3>3
  <2>2. CASE align = 1
    BY <1>1, <1>2, <2>2
  <2>3. QED
    BY <1>1, <2>1, <2>2
<1>4. s \in Slots /\ s.off % s.align = 0
  BY <1>1, <1>2, <1>3 DEF Slots
<1>a. ~Short(s) => s.off - s.extent >= below
  BY <1>1, <1>2, <1>3 DEF Short
<1>5. QED
  BY <1>4, <1>a DEF s

\* A short slot is put below as well.
LEMMA SlotDeeper ==
  ASSUME NEW below \in Nat, NEW type \in Types
  PROVE  LET s == Slot(below, type) IN s.off \in Nat /\ below <= s.off
<1> DEFINE size  == IF type.size <= 0 THEN 8 ELSE type.size
           align == IF type.align <= 0 THEN 8 ELSE type.align
           off   == IF align > 1 THEN Ceil(below + size, align) ELSE below + size
<1>1. size \in Nat /\ align \in Nat \ {0}
  BY TypesAssumption
<1>2. Slot(below, type).off = off
  BY DEF Slot
<1> HIDE DEF size, align
<1>3. below + size \in Nat /\ below <= below + size
  BY <1>1
<1>4. Ceil(below + size, align) \in Nat /\ Ceil(below + size, align) >= below + size
  BY <1>1, <1>3, CeilUp
<1>5. off \in Nat /\ below <= off
  BY <1>3, <1>4
<1>6. QED
  BY <1>2, <1>5

\* A local put in front of the list, whose slot no older one reaches into.
LEMMA PrependApart ==
  ASSUME NEW l \in Seq(Locals), NEW below \in Nat, NEW under \in Nat, NEW v \in Locals,
         Apart(l, below), below <= under,
         ~v.static => /\ Within(v, under)
                      /\ ~Short(v.slot) => v.slot.off - v.slot.extent >= below
  PROVE  <<v>> \o l \in Seq(Locals) /\ Apart(<<v>> \o l, under)
<1> DEFINE m == <<v>> \o l
<1>1. m \in Seq(Locals) /\ Len(m) = Len(l) + 1 /\ m[1] = v
      /\ \A i \in 2..Len(m) : m[i] = l[i - 1] /\ i - 1 \in 1..Len(l)
  OBVIOUS
<1>2. \A i \in 1..Len(l) : l[i] \in Locals
  OBVIOUS
<1> HIDE DEF m
<1>3. SUFFICES ASSUME NEW i \in 1..Len(m), ~m[i].static
               PROVE  /\ Within(m[i], under)
                      /\ \A j \in 1..Len(m) :
                           j < i /\ ~m[j].static /\ ~Short(m[j].slot) => Above(m[i], m[j])
  BY <1>1 DEF Apart, m
<1>4. CASE i = 1
  BY <1>1, <1>3, <1>4
<1>5. CASE i \in 2..Len(m)
  <2>1. m[i] = l[i - 1] /\ i - 1 \in 1..Len(l) /\ m[i] \in Locals
    BY <1>1, <1>2, <1>5
  <2>2. Within(m[i], below)
    BY <1>3, <2>1 DEF Apart
  <2>3. Within(m[i], under)
    <3>1. m[i].slot.off \in Nat
      BY <2>1 DEF Locals, Slots
    <3>2. QED
      BY <2>2, <3>1 DEF Within
  <2>4. ASSUME NEW j \in 1..Len(m), j < i, ~m[j].static, ~Short(m[j].slot)
        PROVE  Above(m[i], m[j])
    <3>1. CASE j = 1
      <4>1. m[j] = v /\ m[i].slot.off \in Nat /\ v.slot.off \in Nat /\ v.slot.extent \in Nat
        BY <1>1, <2>1, <3>1 DEF Locals, Slots
      <4>2. v.slot.off - v.slot.extent >= below
        BY <2>4, <4>1
      <4>3. QED
        BY <2>2, <4>1, <4>2 DEF Above, Within
    <3>2. CASE j \in 2..Len(m)
      <4>1. m[j] = l[j - 1] /\ j - 1 \in 1..Len(l) /\ j - 1 < i - 1
        BY <1>1, <2>4, <3>2
      <4>2. QED
        BY <1>3, <2>1, <2>4, <4>1 DEF Apart
    <3>3. QED
      BY <1>1, <3>1, <3>2
  <2>5. QED
    BY <2>3, <2>4
<1>6. QED
  BY <1>1, <1>3, <1>4, <1>5

LEMMA AllocApart ==
  ASSUME NEW local, local.vars \in Seq(Locals), local.next \in Nat,
         Apart(local.vars, local.next),
         NEW n \in Names, NEW id \in Nat, NEW type \in Types
  PROVE  LET r == Alloc(local, n, id, type) IN
         r.vars \in Seq(Locals) /\ r.next \in Nat /\ Apart(r.vars, r.next)
<1> DEFINE s == Slot(local.next, type)
           v == AutoVar(n, id, s)
<1>1. s \in Slots /\ s.off % s.align = 0 /\ (~Short(s) => s.off - s.extent >= local.next)
  BY SlotBelow
<1> HIDE DEF s
<1>2. v \in Locals /\ v.slot = s
  BY <1>1 DEF AutoVar, Locals
<1>3. s.off \in Nat /\ local.next <= s.off
  BY SlotDeeper DEF s
<1>4. Within(v, s.off) /\ (~Short(v.slot) => v.slot.off - v.slot.extent >= local.next)
  BY <1>1, <1>2, <1>3 DEF Within
<1> HIDE DEF v
<1>5. <<v>> \o local.vars \in Seq(Locals) /\ Apart(<<v>> \o local.vars, s.off)
  BY <1>2, <1>3, <1>4, PrependApart
<1>6. Alloc(local, n, id, type) = [vars |-> <<v>> \o local.vars, next |-> s.off]
  BY DEF Alloc, s, v
<1>7. QED
  BY <1>3, <1>5, <1>6

LEMMA AllocAllApart ==
  ASSUME NEW local, local.vars \in Seq(Locals), local.next \in Nat,
         Apart(local.vars, local.next),
         NEW ns \in NameLists, NEW id \in Nat, NEW type \in Types
  PROVE  LET r == AllocAll(local, ns, id, type) IN
         r.vars \in Seq(Locals) /\ r.next \in Nat /\ Apart(r.vars, r.next)
<1>1. CASE ns = << >>
  BY <1>1 DEF AllocAll
<1>2. ASSUME NEW n \in Names, ns = <<n>>
      PROVE  AllocAll(local, ns, id, type) = Alloc(local, n, id + 1, type)
  BY <1>2 DEF AllocAll
<1>3. ASSUME ns \in Names \X Names
      PROVE  /\ ns[1] \in Names /\ ns[2] \in Names
             /\ AllocAll(local, ns, id, type)
                  = Alloc(Alloc(local, ns[1], id + 1, type), ns[2], id + 2, type)
  BY <1>3 DEF AllocAll
<1>4. id + 1 \in Nat /\ id + 2 \in Nat
  OBVIOUS
<1>5. CASE \E n \in Names : ns = <<n>>
  <2>1. PICK n \in Names : ns = <<n>>
    BY <1>5
  <2>2. QED
    BY <1>2, <1>4, <2>1, AllocApart
<1>6. CASE ns \in Names \X Names
  <2> DEFINE first == Alloc(local, ns[1], id + 1, type)
  <2>1. first.vars \in Seq(Locals) /\ first.next \in Nat /\ Apart(first.vars, first.next)
    BY <1>3, <1>4, <1>6, AllocApart
  <2> HIDE DEF first
  <2>2. LET r == Alloc(first, ns[2], id + 2, type) IN
        r.vars \in Seq(Locals) /\ r.next \in Nat /\ Apart(r.vars, r.next)
    BY <1>3, <1>4, <1>6, <2>1, AllocApart
  <2>3. QED
    BY <1>3, <1>6, <2>2 DEF first
<1>7. QED
  BY <1>1, <1>5, <1>6 DEF NameLists

LEMMA EmptyApart ==
  ASSUME NEW below \in Nat
  PROVE  << >> \in Seq(Locals) /\ Apart(<< >>, below)
BY DEF Apart

\* Nothing of LocalsApart is lost in Apart.
LEMMA ApartMeans ==
  ASSUME FrameInv
  PROVE  LocalsApart
<1>1. vars \in Seq(Locals) /\ DOMAIN vars = 1..Len(vars)
  BY DEF FrameInv
<1>2. Apart(vars, next)
  BY DEF FrameInv
<1>3. QED
  BY <1>1, <1>2 DEF LocalsApart, Apart, Within, Above

LEMMA InitFrame == Init => FrameInv
BY EmptyApart DEF Init, FrameInv

\* Every declaration, block and function keeps the invariant.
LEMMA NextFrame ==
  FrameInv /\ [Next]_svars => FrameInv'
<1> SUFFICES ASSUME FrameInv, [Next]_svars
             PROVE  FrameInv'
  OBVIOUS
<1>0. vars \in Seq(Locals) /\ next \in Nat /\ count \in Nat /\ Apart(vars, next)
  BY DEF FrameInv
<1> DEFINE here == [vars |-> vars, next |-> next]
<1> HIDE DEF here
<1>a. here.vars = vars /\ here.next = next
  BY DEF here
<1>b. count + 1 \in Nat /\ count + 2 \in Nat
  BY <1>0
<1>1. ASSUME NEW inner \in Inners, NEW typedef \in BOOLEAN, DeclareTypeOnly(inner, typedef)
      PROVE  FrameInv'
  BY <1>0, <1>1 DEF DeclareTypeOnly, FrameInv, cg
<1>2. ASSUME NEW n \in Names, NEW st \in {"tent", "init", "extern", "proto"},
             DeclareGlobal(n, st)
      PROVE  FrameInv'
  BY <1>0, <1>2 DEF DeclareGlobal, FrameInv, cg
<1>3. ASSUME NEW n \in Names, NEW st \in {"auto", "static", "extern", "proto"}, NEW type \in Types,
             DeclareLocal(n, st, type)
      PROVE  FrameInv'
  <2> DEFINE r == Alloc(here, n, count + 1, type)
  <2>1. count' = count + 1 /\ count' \in Nat
    BY <1>0, <1>3 DEF DeclareLocal
  <2>2. CASE st = "static"
    <3> DEFINE v == StaticVar(n, count + 1)
    <3>1. v \in Locals /\ v.static
      BY <1>0 DEF StaticVar, Locals, Slots
    <3>2. vars' = <<v>> \o vars /\ next' = next
      BY <1>3, <2>2 DEF DeclareLocal
    <3> HIDE DEF v
    <3>3. <<v>> \o vars \in Seq(Locals) /\ Apart(<<v>> \o vars, next)
      BY <1>0, <3>1, PrependApart
    <3>4. QED
      BY <1>0, <2>1, <3>2, <3>3 DEF FrameInv
  <2>3. CASE st # "static"
    <3>1. vars' = r.vars /\ next' = r.next
      BY <1>3, <1>a, <2>3 DEF DeclareLocal, Alloc
    <3>2. r.vars \in Seq(Locals) /\ r.next \in Nat /\ Apart(r.vars, r.next)
      BY <1>0, <1>a, <1>b, AllocApart
    <3>3. QED
      BY <2>1, <3>1, <3>2 DEF FrameInv
  <2>4. QED
    BY <2>2, <2>3
<1>4. ASSUME NEW n \in Names, NEW inner \in Inners, NEW type \in Types,
             DeclareWith(n, inner, type)
      PROVE  FrameInv'
  <2> DEFINE r == Alloc(here, n, count + 2, type)
  <2>1. count' \in Nat
    BY <1>0, <1>4 DEF DeclareWith
  <2>2. vars' = r.vars /\ next' = r.next
    BY <1>0, <1>4, <1>a DEF DeclareWith, Alloc
  <2>3. r.vars \in Seq(Locals) /\ r.next \in Nat /\ Apart(r.vars, r.next)
    BY <1>0, <1>a, <1>b, AllocApart
  <2>4. QED
    BY <2>1, <2>2, <2>3 DEF FrameInv
<1>5. ASSUME NEW f \in Names, NEW ps \in NameLists, NEW type \in Types,
             BeginFunction(f, ps, type)
      PROVE  FrameInv'
  <2> DEFINE empty == [vars |-> << >>, next |-> 0]
             r     == AllocAll(empty, ps, count + 1, type)
  <2>1. Len(ps) \in Nat
    BY DEF NameLists
  <2>2. count' \in Nat
    BY <1>0, <1>5, <2>1 DEF BeginFunction
  <2>3. vars' = r.vars /\ next' = r.next
    BY <1>5 DEF BeginFunction
  <2>4. r.vars \in Seq(Locals) /\ r.next \in Nat /\ Apart(r.vars, r.next)
    <3>1. empty.vars \in Seq(Locals) /\ empty.next \in Nat /\ Apart(empty.vars, empty.next)
      BY EmptyApart
    <3> HIDE DEF empty
    <3>2. QED
      BY <1>b, <3>1, AllocAllApart
  <2>5. QED
    BY <2>2, <2>3, <2>4 DEF FrameInv
<1>6. ASSUME NEW k \in {"block", "loop", "switch"}, Open(k)
      PROVE  FrameInv'
  BY <1>0, <1>6 DEF Open, FrameInv, cg
<1>7. ASSUME NEW ns \in NameLists, NEW type \in Types, OpenFor(ns, type)
      PROVE  FrameInv'
  <2> DEFINE r == AllocAll(here, ns, count, type)
  <2>1. Len(ns) \in Nat
    BY DEF NameLists
  <2>2. count' \in Nat
    BY <1>0, <1>7, <2>1 DEF OpenFor
  <2>3. vars' = r.vars /\ next' = r.next
    BY <1>7 DEF OpenFor, here
  <2>4. r.vars \in Seq(Locals) /\ r.next \in Nat /\ Apart(r.vars, r.next)
    BY <1>0, <1>a, AllocAllApart
  <2>5. QED
    BY <2>2, <2>3, <2>4 DEF FrameInv
<1>8. ASSUME Close
      PROVE  FrameInv'
  <2>1. count' = count /\ ((vars' = << >> /\ next' = 0) \/ (vars' = vars /\ next' = next))
    BY <1>8 DEF Close, cg
  <2>2. vars' \in Seq(Locals) /\ next' \in Nat /\ Apart(vars', next')
    <3>1. << >> \in Seq(Locals) /\ Apart(<< >>, 0)
      BY EmptyApart
    <3>2. CASE vars' = << >> /\ next' = 0
      BY <3>1, <3>2
    <3>3. CASE vars' = vars /\ next' = next
      BY <1>0, <3>3
    <3>4. QED
      BY <2>1, <3>2, <3>3
  <2>3. QED
    BY <1>0, <2>1, <2>2 DEF FrameInv
<1>9. CASE UNCHANGED svars
  BY <1>0, <1>9 DEF svars, cg, FrameInv
<1>10. QED
  BY <1>1, <1>2, <1>3, <1>4, <1>5, <1>6, <1>7, <1>8, <1>9 DEF Next

\* The locals of a function lie apart and aligned in its frame, those of ended
\* blocks included, whatever is declared and in whatever order.
THEOREM FramesApart == Spec => []LocalsApart
<1>1. Init => FrameInv
  BY InitFrame
<1>2. FrameInv /\ [Next]_svars => FrameInv'
  BY NextFrame
<1>3. FrameInv => LocalsApart
  BY ApartMeans
<1>4. QED
  BY <1>1, <1>2, <1>3, PTL DEF Spec

(***************************************************************************)
(* Names.                                                                  *)
(***************************************************************************)
Decls    == [name : Names, kind : {"var", "func", "param", "enum", "tag"}, obj : Nat,
             full : BOOLEAN, odd : BOOLEAN]
Symbols  == [name : Names, kind : {"var", "func", "enum", "tag"}, obj : Nat, tent : BOOLEAN]
Contexts == {"func", "block", "loop", "for", "switch"}

NamesTyped ==
  /\ scopes \in Seq(Seq(Symbols)) /\ cscopes \in Seq(SUBSET Decls)
  /\ ctx \in Seq(Contexts) /\ fn \in {"none", "in", "skipped"}

\* How deep things are: the symbol table has a scope more than the language in
\* a function, and only its outermost one in a function that it gave up.
Times(c, ks) == Cardinality({i \in 1..Len(c) : c[i] \in ks})
Shape ==
  /\ fn = "none" <=> ctx = << >>
  /\ \A i \in 1..Len(ctx) : ctx[i] = "func" <=> i = 1
  /\ Len(cscopes) = 1 + Len(ctx) + Times(ctx, {"for"})
  /\ Len(scopes) = (IF fn = "in" THEN Len(cscopes) + 1 ELSE 1)
  /\ loop = (IF fn = "in" THEN Times(ctx, {"loop", "for", "switch"}) ELSE 0)
  /\ sw = (IF fn = "in" THEN Times(ctx, {"switch"}) ELSE 0)
  /\ fn = "none" => vars = << >>

\* Of the language: in a scope a name is declared once, an object is declared
\* after those of the scopes around, and what file scope has is no local.
Ordinary(d) == d.kind \notin {"enum", "tag"}
Same(d, e)  == d.name = e.name /\ IsTag(d) = IsTag(e)
Single(cs)  == \A i \in 1..Len(cs) : \A d, e \in cs[i] : Same(d, e) => d = e
Rising(cs, cnt) ==
  /\ \A i \in 1..Len(cs) : \A d \in cs[i] : d.obj <= cnt
  /\ \A i, j \in 1..Len(cs) : \A d \in cs[i], e \in cs[j] :
       d.obj # 0 /\ e.obj # 0 => /\ i < j => d.obj < e.obj
                                 /\ i = j /\ d.obj = e.obj => d = e
Outer(cs)   == \A d \in cs[1] : Ordinary(d) => d.obj = 0

\* Of the list of locals: the latest is first; what is declared in a function is
\* in it, unless it is odd; what it has is not declared under another name.
Sorted(vs, cnt) ==
  \A i \in 1..Len(vs) : /\ vs[i].obj \in 1..cnt
                        /\ \A j \in 1..Len(vs) : i < j => vs[i].obj > vs[j].obj
Listed(cs, vs) ==
  \A i \in 2..Len(cs) : \A d \in cs[i] :
    Ordinary(d) /\ (~d.odd) =>
      /\ d.obj # 0
      /\ \E x \in 1..Len(vs) : vs[x].obj = d.obj /\ vs[x].name = d.name
Owned(cs, vs) ==
  \A i \in 1..Len(cs) : \A d \in cs[i] : \A x \in 1..Len(vs) :
    d.obj = vs[x].obj => d.name = vs[x].name /\ Ordinary(d)
Local(cs, vs, cnt) ==
  Single(cs) /\ Rising(cs, cnt) /\ Outer(cs) /\ Sorted(vs, cnt) /\ Listed(cs, vs) /\ Owned(cs, vs)

\* Of the symbol table: a symbol is of an object that the scope declares, and
\* what the scope declares has a symbol (an object of file scope need not),
\* unless the name is odd from there outwards.
Lang(p)         == IF p <= 2 THEN p ELSE p - 1
OddTo(cs, n, q) == \E j \in 1..q : \E d \in cs[j] : d.name = n /\ d.odd
Alike(s, d)     == s.obj = d.obj /\ \A k \in {"enum", "tag"} : s.kind = k <=> d.kind = k
Declared(s, ds) == (\E d \in ds : Same(s, d)) /\ \A d \in ds : Same(s, d) => Alike(s, d)
Tabled(d, T)    == \E x \in 1..Len(T) : Same(T[x], d)
SymsMatch(scs, cs) ==
  \A p \in 1..Len(scs) : \A x \in 1..Len(scs[p]) :
    OddTo(cs, scs[p][x].name, Lang(p)) \/ Declared(scs[p][x], cs[Lang(p)])
DeclsMatch(scs, cs) ==
  \A q \in 1..Lang(Len(scs)) : \A d \in cs[q] :
    \/ OddTo(cs, d.name, q)
    \/ \E p \in 1..Len(scs) : Lang(p) = q /\ Tabled(d, scs[p])
    \/ q = 1 /\ Ordinary(d)

\* The second scope is that of the parameters.
ParamsMatch(scs, cs) ==
  Len(scs) > 1 =>
    \A x \in 1..Len(scs[2]) :
      /\ ~IsTag(scs[2][x]) /\ \E d \in cs[2] : Same(scs[2][x], d)
      /\ \A d \in cs[2] : Same(scs[2][x], d) => d.kind = "param"
Matching(scs, cs) == SymsMatch(scs, cs) /\ DeclsMatch(scs, cs) /\ ParamsMatch(scs, cs)

\* The inductive invariant.
NamesInv ==
  /\ FrameInv /\ NamesTyped /\ Shape
  /\ Local(cscopes, vars, count) /\ Matching(scopes, cscopes)

\* How often a construct is open.
LEMMA TimesAppend ==
  ASSUME NEW c \in Seq(Contexts), NEW k \in Contexts, NEW ks
  PROVE  /\ Times(c, ks) \in Nat
         /\ Times(Append(c, k), ks) = Times(c, ks) + One(k \in ks)
<1> DEFINE n == Len(c) + 1
           A == {i \in 1..Len(c) : c[i] \in ks}
           B == {i \in 1..Len(Append(c, k)) : Append(c, k)[i] \in ks}
<1>1. /\ Len(c) \in Nat /\ n \in Nat /\ Len(Append(c, k)) = n /\ Append(c, k)[n] = k
      /\ \A i \in 1..Len(c) : Append(c, k)[i] = c[i]
  OBVIOUS
<1>2. IsFiniteSet(A) /\ Cardinality(A) \in Nat
  <2>1. IsFiniteSet(1..Len(c)) /\ A \in SUBSET (1..Len(c))
    BY <1>1, FS_Interval
  <2>2. IsFiniteSet(A)
    BY <2>1, FS_Subset
  <2>3. QED
    BY <2>2, FS_CardinalityType
<1>3. n \notin A /\ B = IF k \in ks THEN A \cup {n} ELSE A
  BY <1>1
<1> HIDE DEF A, B, n
<1>4. Cardinality(B) = Cardinality(A) + One(k \in ks)
  <2>1. CASE k \in ks
    BY <1>2, <1>3, <2>1, FS_AddElement DEF One
  <2>2. CASE k \notin ks
    BY <1>2, <1>3, <2>2 DEF One
  <2>3. QED
    BY <2>1, <2>2
<1>5. QED
  BY <1>2, <1>4 DEF Times, A, B

LEMMA TimesFront ==
  ASSUME NEW c \in Seq(Contexts), c # << >>, NEW ks
  PROVE  LET f == SubSeq(c, 1, Len(c) - 1) IN
         /\ f \in Seq(Contexts) /\ Len(f) = Len(c) - 1
         /\ \A i \in 1..Len(f) : f[i] = c[i]
         /\ Times(f, ks) \in Nat
         /\ Times(c, ks) = Times(f, ks) + One(c[Len(c)] \in ks)
<1> DEFINE m == Len(c) - 1
           f == SubSeq(c, 1, m)
           k == c[Len(c)]
<1>1. Len(c) \in Nat \ {0} /\ m \in Nat /\ m \in 0..Len(c) /\ m = Len(c) - 1
  OBVIOUS
<1> HIDE DEF m
<1>2. /\ f \in Seq(Contexts) /\ Len(f) = Len(c) - 1 /\ k \in Contexts
      /\ \A i \in 1..Len(f) : f[i] = c[i]
  <2>1. f \in Seq(Contexts) /\ Len(f) = m /\ \A i \in 1..m : f[i] = c[i]
    BY <1>1
  <2>2. k \in Contexts
    BY <1>1
  <2>3. QED
    BY <1>1, <2>1, <2>2
<1>3. c = Append(f, k)
  BY <1>1, <1>2
<1> HIDE DEF f, k
<1>4. Times(f, ks) \in Nat /\ Times(Append(f, k), ks) = Times(f, ks) + One(k \in ks)
  BY <1>2, TimesAppend
<1>5. QED
  BY <1>2, <1>3, <1>4 DEF f, k, m

LEMMA TimesSome ==
  ASSUME NEW c \in Seq(Contexts), NEW ks
  PROVE  Times(c, ks) \in Nat /\ (Times(c, ks) = 0 <=> \A i \in 1..Len(c) : c[i] \notin ks)
<1> DEFINE A == {i \in 1..Len(c) : c[i] \in ks}
<1>1. IsFiniteSet(1..Len(c)) /\ A \in SUBSET (1..Len(c))
  BY FS_Interval
<1>2. IsFiniteSet(A)
  BY <1>1, FS_Subset
<1>3. Cardinality(A) \in Nat /\ (Cardinality(A) = 0 <=> A = {})
  BY <1>2, FS_CardinalityType, FS_EmptySet
<1>4. QED
  BY <1>3 DEF Times

LEMMA TimesEmpty == ASSUME NEW ks PROVE Times(<< >>, ks) = 0
<1>1. << >> \in Seq(Contexts) /\ \A i \in 1..Len(<< >>) : << >>[i] \notin ks
  OBVIOUS
<1>2. QED
  BY <1>1, TimesSome, Zenon

\* in_loop and in_switch are what is open, and nothing of a function is left.
LEMMA JumpsFollow == NamesInv => JumpsAccepted
<1> SUFFICES ASSUME NamesInv PROVE JumpsAccepted
  OBVIOUS
<1>1. Shape /\ ctx \in Seq(Contexts) /\ DOMAIN ctx = 1..Len(ctx)
  BY DEF NamesInv, NamesTyped
<1>2. \A ks : Times(ctx, ks) \in Nat /\ (Times(ctx, ks) = 0 <=> \A i \in 1..Len(ctx) : ctx[i] \notin ks)
  BY <1>1, TimesSome
<1>3. CASE fn = "in"
  <2>1. loop = Times(ctx, {"loop", "for", "switch"}) /\ sw = Times(ctx, {"switch"})
    BY <1>1, <1>3 DEF Shape
  <2>2. /\ loop \in Nat
        /\ loop = 0 <=> \A i \in DOMAIN ctx : ctx[i] \notin {"loop", "for", "switch"}
    BY <1>1, <1>2, <2>1
  <2>3. sw \in Nat /\ (sw = 0 <=> \A i \in DOMAIN ctx : ctx[i] \notin {"switch"})
    BY <1>1, <1>2, <2>1
  <2> DEFINE Has(ks) == \E i \in DOMAIN ctx : ctx[i] \in ks
  <2>4. /\ (loop > 0 \/ sw > 0) <=> Has({"loop", "for", "switch"})
        /\ (sw > 0) <=> Has({"switch"})
        /\ Has({"loop", "for"}) => loop > 0
        /\ loop > 0 => Has({"loop", "for", "switch"})
    BY <2>2, <2>3
  <2>5. QED
    BY <1>3, <2>4 DEF JumpsAccepted, BreakAccepted, CaseAccepted, ContinueAccepted
<1>4. CASE fn = "none"
  <2>1. ctx = << >> /\ loop = 0 /\ sw = 0 /\ Len(scopes) = 1 /\ vars = << >>
    BY <1>1, <1>4 DEF Shape
  <2> DEFINE Has(ks) == \E i \in DOMAIN ctx : ctx[i] \in ks
  <2>2. \A ks : ~Has(ks)
    BY <2>1
  <2>3. ~(loop > 0 \/ sw > 0) /\ ~(sw > 0) /\ ~(loop > 0)
    BY <2>1
  <2>4. QED
    BY <1>4, <2>1, <2>2, <2>3
       DEF JumpsAccepted, BreakAccepted, CaseAccepted, ContinueAccepted
<1>5. CASE fn = "skipped"
  BY <1>5 DEF JumpsAccepted
<1>6. QED
  BY <1>3, <1>4, <1>5 DEF NamesInv, NamesTyped

(***************************************************************************)
(* What the steps do to the scopes of the language.                        *)
(***************************************************************************)
\* The innermost scope gets a declaration, which adds to one of the same name
\* that was there; a scope is put inside; scopes are closed.
Adds(ds, e, d) ==
  /\ e \in Decls /\ e.name = d.name /\ e.kind = d.kind /\ e.obj = d.obj
  /\ e.odd <=> d.odd \/ \E c \in ds : Same(c, d) /\ c.odd
Declares(cs, cs2, d) ==
  LET k == Len(cs) IN
  /\ k \in Nat \ {0} /\ Len(cs2) = k
  /\ cs \in Seq(SUBSET Decls) /\ cs2 \in Seq(SUBSET Decls)
  /\ \A i \in 1..k : i # k => cs2[i] = cs[i]
  /\ \E e : Adds(cs[k], e, d) /\ cs2[k] = {c \in cs[k] : ~Same(c, d)} \cup {e}
Pushes(cs, cs2, ds) ==
  LET k == Len(cs) IN
  /\ k \in Nat \ {0} /\ Len(cs2) = k + 1
  /\ cs \in Seq(SUBSET Decls) /\ cs2 \in Seq(SUBSET Decls)
  /\ \A i \in 1..k : cs2[i] = cs[i]
  /\ cs2[k + 1] = ds
Pops(cs, cs2) ==
  /\ cs \in Seq(SUBSET Decls) /\ cs2 \in Seq(SUBSET Decls)
  /\ Len(cs) \in Nat /\ Len(cs2) \in 1..Len(cs)
  /\ \A i \in 1..Len(cs2) : cs2[i] = cs[i]

LEMMA CDeclareIs ==
  ASSUME NEW cs \in Seq(SUBSET Decls), Len(cs) # 0, NEW d \in Decls
  PROVE  Declares(cs, CDeclare(cs, d), d)
<1> DEFINE k   == Len(cs)
           old == {e \in cs[k] : e.name = d.name /\ IsTag(e) = IsTag(d)}
           fu  == d.full \/ \E e \in old : e.full
           od  == d.odd \/ \E e \in old : e.odd
           e   == [d EXCEPT !.full = fu, !.odd = od]
           ds  == (cs[k] \ old) \cup {e}
<1>1. k \in Nat \ {0} /\ k \in 1..k
  OBVIOUS
<1>2. CDeclare(cs, d) = [cs EXCEPT ![k] = ds]
  BY DEF CDeclare
<1>3. Adds(cs[k], e, d)
  <2>1. fu \in BOOLEAN /\ od \in BOOLEAN
    OBVIOUS
  <2>2. od <=> d.odd \/ \E c \in cs[k] : Same(c, d) /\ c.odd
    BY DEF Same
  <2> HIDE DEF fu, od
  <2>3. /\ e \in Decls /\ e.name = d.name /\ e.kind = d.kind /\ e.obj = d.obj
        /\ e.odd = od
    BY <2>1 DEF Decls
  <2>4. QED
    BY <2>2, <2>3 DEF Adds
<1>4. ds = {c \in cs[k] : ~Same(c, d)} \cup {e}
  BY DEF Same
<1> HIDE DEF e
<1>5. ds \in SUBSET Decls
  <2>1. cs[k] \in SUBSET Decls /\ e \in Decls
    BY <1>1, <1>3 DEF Adds
  <2>2. QED
    BY <2>1
<1> HIDE DEF ds
<1>6. /\ [cs EXCEPT ![k] = ds] \in Seq(SUBSET Decls) /\ Len([cs EXCEPT ![k] = ds]) = k
      /\ [cs EXCEPT ![k] = ds][k] = ds
      /\ \A i \in 1..k : i # k => [cs EXCEPT ![k] = ds][i] = cs[i]
  BY <1>1, <1>5
<1>7. QED
  BY <1>1, <1>2, <1>3, <1>4, <1>6 DEF Declares

LEMMA PushIs ==
  ASSUME NEW cs \in Seq(SUBSET Decls), Len(cs) # 0, NEW ds \in SUBSET Decls
  PROVE  Pushes(cs, Append(cs, ds), ds)
BY DEF Pushes

LEMMA PopIs ==
  ASSUME NEW cs \in Seq(SUBSET Decls), NEW m \in 1..Len(cs)
  PROVE  Pops(cs, SubSeq(cs, 1, m)) /\ Len(SubSeq(cs, 1, m)) = m
BY DEF Pops

(***************************************************************************)
(* The language and the list of locals.                                    *)
(***************************************************************************)
\* Locals are only added, for objects declared meanwhile.
Lists(vs, vs2, cnt, cnt2) ==
  /\ vs \in Seq(Locals) /\ vs2 \in Seq(Locals) /\ cnt \in Nat /\ cnt2 \in Nat /\ cnt <= cnt2
  /\ Sorted(vs2, cnt2)
  /\ \A y \in 1..Len(vs2) : vs2[y].obj > cnt \/ \E x \in 1..Len(vs) : vs2[y] = vs[x]
  /\ \A x \in 1..Len(vs) : \E y \in 1..Len(vs2) : vs2[y] = vs[x]

LEMMA ListsNone ==
  ASSUME NEW vs \in Seq(Locals), NEW cnt \in Nat, NEW cnt2 \in Nat, cnt <= cnt2,
         Sorted(vs, cnt)
  PROVE  Lists(vs, vs, cnt, cnt2)
<1>1. Sorted(vs, cnt2)
  BY DEF Sorted
<1>2. QED
  BY <1>1 DEF Lists

LEMMA ListsOne ==
  ASSUME NEW vs \in Seq(Locals), NEW cnt \in Nat, NEW cnt2 \in Nat, Sorted(vs, cnt),
         NEW v \in Locals, v.obj \in cnt + 1..cnt2
  PROVE  /\ Lists(vs, <<v>> \o vs, cnt, cnt2)
         /\ \E y \in 1..Len(<<v>> \o vs) : (<<v>> \o vs)[y] = v
<1> DEFINE w == <<v>> \o vs
<1>1. /\ w \in Seq(Locals) /\ Len(w) = Len(vs) + 1 /\ Len(vs) \in Nat /\ w[1] = v
      /\ 1 \in 1..Len(w)
      /\ \A i \in 2..Len(w) : i - 1 \in 1..Len(vs) /\ w[i] = vs[i - 1]
      /\ \A i \in 1..Len(vs) : i + 1 \in 1..Len(w) /\ w[i + 1] = vs[i]
  OBVIOUS
<1> HIDE DEF w
<1>2. \A i \in 1..Len(vs) : vs[i].obj \in 1..cnt
  BY DEF Sorted
<1>3. \A i \in 1..Len(w) : i = 1 \/ i \in 2..Len(w)
  BY <1>1
<1>4. \A i \in 1..Len(w) : w[i].obj \in 1..cnt2
  BY <1>1, <1>2, <1>3, SMTT(30)
<1>5. ASSUME NEW i \in 1..Len(w), NEW j \in 1..Len(w), i < j PROVE w[i].obj > w[j].obj
  <2>1. j \in 2..Len(w) /\ w[j] = vs[j - 1] /\ j - 1 \in 1..Len(vs)
    BY <1>1, <1>5
  <2>2. CASE i = 1
    BY <1>1, <1>2, <2>1, <2>2
  <2>3. CASE i # 1
    <3>1. i \in 2..Len(w) /\ w[i] = vs[i - 1] /\ i - 1 \in 1..Len(vs) /\ i - 1 < j - 1
      BY <1>1, <1>5, <2>3
    <3>2. QED
      BY <2>1, <3>1 DEF Sorted
  <2>4. QED
    BY <2>2, <2>3
<1>6. Sorted(w, cnt2)
  BY <1>4, <1>5 DEF Sorted
<1>7. \A y \in 1..Len(w) : w[y].obj > cnt \/ \E x \in 1..Len(vs) : w[y] = vs[x]
  <2>1. v.obj > cnt
    OBVIOUS
  <2>2. QED
    BY <1>1, <1>3, <2>1
<1>8. \A x \in 1..Len(vs) : \E y \in 1..Len(w) : w[y] = vs[x]
  BY <1>1
<1>9. cnt <= cnt2
  OBVIOUS
<1>10. Lists(vs, w, cnt, cnt2)
  BY <1>1, <1>6, <1>7, <1>8, <1>9 DEF Lists
<1>11. QED
  BY <1>1, <1>10 DEF w

LEMMA ListsMore ==
  ASSUME NEW vs, NEW vs2, NEW vs3, NEW cnt, NEW cnt2, NEW cnt3,
         Lists(vs, vs2, cnt, cnt2), Lists(vs2, vs3, cnt2, cnt3)
  PROVE  Lists(vs, vs3, cnt, cnt3)
<1>1. cnt \in Nat /\ cnt2 \in Nat /\ cnt3 \in Nat /\ cnt <= cnt3 /\ cnt <= cnt2
  BY DEF Lists
<1>2. \A y \in 1..Len(vs3) : vs3[y] \in Locals /\ vs3[y].obj \in Nat
  <2>1. \A y \in 1..Len(vs3) : vs3[y] \in Locals
    BY DEF Lists
  <2>2. QED
    BY <2>1 DEF Locals
<1>3. ASSUME NEW y \in 1..Len(vs3)
      PROVE  vs3[y].obj > cnt \/ \E x \in 1..Len(vs) : vs3[y] = vs[x]
  <2>1. CASE vs3[y].obj > cnt2
    BY <1>1, <1>2, <2>1
  <2>2. CASE \E z \in 1..Len(vs2) : vs3[y] = vs2[z]
    BY <2>2 DEF Lists
  <2>3. QED
    BY <2>1, <2>2 DEF Lists
<1>4. \A x \in 1..Len(vs) : \E y \in 1..Len(vs3) : vs3[y] = vs[x]
  BY DEF Lists
<1>5. QED
  BY <1>1, <1>3, <1>4 DEF Lists

\* A declaration of an object that is new, or of no object of its own, with the
\* local that is made for it.
Listing(k, d, vs2, cnt, cnt2) ==
  /\ d \in Decls
  /\ d.obj = 0 \/ d.obj \in cnt + 1..cnt2
  /\ Ordinary(d) => IF k = 1 THEN d.obj = 0
                    ELSE d.odd \/ \E y \in 1..Len(vs2) : vs2[y].obj = d.obj /\ vs2[y].name = d.name
  /\ Ordinary(d) \/ \A y \in 1..Len(vs2) : vs2[y].obj # d.obj
  /\ \A y \in 1..Len(vs2) : vs2[y].obj = d.obj => d.name = vs2[y].name

LEMMA LocalDeclares ==
  ASSUME NEW cs, NEW cs2, NEW d, Declares(cs, cs2, d),
         NEW vs, NEW vs2, NEW cnt, NEW cnt2, Lists(vs, vs2, cnt, cnt2),
         Local(cs, vs, cnt), Listing(Len(cs), d, vs2, cnt, cnt2)
  PROVE  Local(cs2, vs2, cnt2)
<1> DEFINE k == Len(cs)
<1>1. /\ k \in Nat \ {0} /\ k \in 1..k /\ Len(cs2) = k
      /\ \A i \in 1..k : i # k => cs2[i] = cs[i]
  BY DEF Declares
<1>2. PICK e : Adds(cs[k], e, d) /\ cs2[k] = {c \in cs[k] : ~Same(c, d)} \cup {e}
  BY DEF Declares
<1>3. /\ cnt \in Nat /\ cnt2 \in Nat /\ cnt <= cnt2 /\ Sorted(vs2, cnt2)
      /\ \A y \in 1..Len(vs2) : vs2[y].obj > cnt \/ \E x \in 1..Len(vs) : vs2[y] = vs[x]
      /\ \A x \in 1..Len(vs) : \E y \in 1..Len(vs2) : vs2[y] = vs[x]
  BY DEF Lists
<1>4. /\ e.name = d.name /\ e.kind = d.kind /\ e.obj = d.obj
      /\ Same(e, d) /\ (Ordinary(e) <=> Ordinary(d)) /\ (d.odd => e.odd)
  BY <1>2 DEF Adds, Same, Ordinary, IsTag
<1>5. d \in Decls /\ d.obj \in Nat
  BY DEF Listing, Decls
<1>6. \A i \in 1..k : \A c \in cs[i] : c.obj \in Nat /\ c.obj <= cnt
  <2>1. ASSUME NEW i \in 1..k, NEW c \in cs[i] PROVE c \in Decls
    BY DEF Declares
  <2>2. QED
    BY <2>1 DEF Decls, Local, Rising
<1>7. \A y \in 1..Len(vs2) : vs2[y].obj \in 1..cnt2
  BY <1>3 DEF Sorted
\* What is in a scope now.
<1>8. \A i \in 1..k : \A c \in cs2[i] :
        \/ i = k /\ c = e
        \/ c \in cs[i] /\ (i = k => ~Same(c, d))
  BY <1>1, <1>2
<1> HIDE DEF k
<1>9. Single(cs2)
  <2>1. \A c \in cs[k] : ~Same(c, d) => ~Same(c, e) /\ ~Same(e, c)
    BY <1>4 DEF Same
  <2>2. ASSUME NEW i \in 1..k, NEW a \in cs2[i], NEW b \in cs2[i], Same(a, b) PROVE a = b
    <3>1. CASE a \in cs[i] /\ b \in cs[i]
      BY <2>2, <3>1 DEF Local, Single, k
    <3>2. CASE a = e /\ b = e
      BY <3>2
    <3>3. CASE i = k /\ (a = e \/ b = e) /\ a # b
      <4>1. (a \in cs[k] /\ b = e /\ ~Same(a, d)) \/ (b \in cs[k] /\ a = e /\ ~Same(b, d))
        BY <1>8, <3>3
      <4>2. QED
        BY <2>1, <2>2, <4>1
    <3>4. QED
      BY <1>8, <3>1, <3>2, <3>3
  <2>3. QED
    BY <1>1, <2>2 DEF Single
<1>10. Rising(cs2, cnt2)
  <2>1. d.obj = 0 \/ d.obj \in cnt + 1..cnt2
    BY DEF Listing
  <2>2. \A i \in 1..k : \A c \in cs2[i] : c.obj <= cnt2
    BY <1>3, <1>4, <1>6, <1>8, <2>1
  <2>3. ASSUME NEW i \in 1..k, NEW j \in 1..k, NEW a \in cs2[i], NEW b \in cs2[j],
               a.obj # 0, b.obj # 0
        PROVE  (i < j => a.obj < b.obj) /\ (i = j /\ a.obj = b.obj => a = b)
    <3>1. CASE a \in cs[i] /\ b \in cs[j]
      BY <2>3, <3>1 DEF Local, Rising, k
    <3>2. CASE i = k /\ a = e /\ b \in cs[j]
      <4>1. a.obj > b.obj
        BY <1>3, <1>4, <1>6, <2>1, <2>3, <3>2
      <4>2. a.obj \in Nat /\ b.obj \in Nat /\ ~(i < j)
        BY <1>1, <1>4, <1>5, <1>6, <3>2
      <4>3. QED
        BY <4>1, <4>2
    <3>3. CASE j = k /\ b = e /\ a \in cs[i]
      <4>1. a.obj < b.obj /\ a.obj \in Nat /\ b.obj \in Nat
        BY <1>3, <1>4, <1>5, <1>6, <2>1, <2>3, <3>3
      <4>2. QED
        BY <4>1
    <3>4. CASE i = k /\ j = k /\ a = e /\ b = e
      BY <1>1, <3>4
    <3>5. QED
      BY <1>8, <3>1, <3>2, <3>3, <3>4
  <2>4. QED
    BY <1>1, <2>2, <2>3 DEF Rising
<1>11. Outer(cs2)
  <2>1. 1 \in 1..k
    BY <1>1
  <2>2. k = 1 /\ Ordinary(d) => d.obj = 0
    BY DEF Listing, k
  <2>3. \A c \in cs2[1] : Ordinary(c) => c.obj = 0
    BY <1>4, <1>8, <2>1, <2>2 DEF Local, Outer
  <2>4. QED
    BY <2>3 DEF Outer
<1>12. Listed(cs2, vs2)
  <2>1. ASSUME NEW i \in 2..k, NEW c \in cs2[i], Ordinary(c), ~c.odd
        PROVE  c.obj # 0 /\ \E y \in 1..Len(vs2) : vs2[y].obj = c.obj /\ vs2[y].name = c.name
    <3>1. CASE c \in cs[i]
      <4>1. c.obj # 0 /\ \E x \in 1..Len(vs) : vs[x].obj = c.obj /\ vs[x].name = c.name
        BY <2>1, <3>1 DEF Local, Listed, k
      <4>2. QED
        BY <1>3, <4>1
    <3>2. CASE i = k /\ c = e
      <4>1. k # 1 /\ Ordinary(d) /\ ~d.odd
        BY <1>1, <1>4, <2>1, <3>2
      <4>2. \E y \in 1..Len(vs2) : vs2[y].obj = d.obj /\ vs2[y].name = d.name
        BY <4>1 DEF Listing, k
      <4>3. QED
        BY <1>4, <1>7, <3>2, <4>2
    <3>3. QED
      BY <1>1, <1>8, <3>1, <3>2
  <2>2. QED
    BY <1>1, <2>1 DEF Listed
<1>13. Owned(cs2, vs2)
  <2>1. ASSUME NEW i \in 1..k, NEW c \in cs2[i], NEW y \in 1..Len(vs2), c.obj = vs2[y].obj
        PROVE  c.name = vs2[y].name /\ Ordinary(c)
    <3>1. CASE c \in cs[i]
      <4>1. ~(vs2[y].obj > cnt)
        BY <1>3, <1>6, <2>1, <3>1
      <4>2. PICK x \in 1..Len(vs) : vs2[y] = vs[x]
        BY <1>3, <4>1
      <4>3. QED
        BY <2>1, <3>1, <4>2 DEF Local, Owned, k
    <3>2. CASE i = k /\ c = e
      BY <1>4, <2>1, <3>2 DEF Listing
    <3>3. QED
      BY <1>8, <3>1, <3>2
  <2>2. QED
    BY <1>1, <2>1 DEF Owned
<1>14. QED
  BY <1>3, <1>9, <1>10, <1>11, <1>12, <1>13 DEF Local

\* A scope put inside, with the declarations in it and their locals.
LEMMA LocalPushes ==
  ASSUME NEW cs, NEW cs2, NEW ds, Pushes(cs, cs2, ds),
         NEW vs, NEW vs2, NEW cnt, NEW cnt2, Lists(vs, vs2, cnt, cnt2),
         Local(cs, vs, cnt),
         \A d \in ds : /\ d.obj \in cnt + 1..cnt2 /\ Ordinary(d)
                       /\ \E y \in 1..Len(vs2) : vs2[y].obj = d.obj /\ vs2[y].name = d.name,
         \A d, e \in ds : Same(d, e) \/ d.obj = e.obj => d = e
  PROVE  Local(cs2, vs2, cnt2)
<1> DEFINE k == Len(cs)
<1>1. /\ k \in Nat \ {0} /\ Len(cs2) = k + 1
      /\ \A i \in 1..k : cs2[i] = cs[i]
      /\ cs2[k + 1] = ds
      /\ \A i \in 1..Len(cs2) : i = k + 1 \/ i \in 1..k
  BY DEF Pushes
<1>2. /\ cnt \in Nat /\ cnt2 \in Nat /\ cnt <= cnt2 /\ Sorted(vs2, cnt2)
      /\ \A y \in 1..Len(vs2) : vs2[y].obj > cnt \/ \E x \in 1..Len(vs) : vs2[y] = vs[x]
      /\ \A x \in 1..Len(vs) : \E y \in 1..Len(vs2) : vs2[y] = vs[x]
  BY DEF Lists
<1>3. \A i \in 1..k : \A c \in cs[i] : c.obj \in Nat /\ c.obj <= cnt
  <2>1. ASSUME NEW i \in 1..k, NEW c \in cs[i] PROVE c \in Decls
    BY DEF Pushes
  <2>2. QED
    BY <2>1 DEF Decls, Local, Rising
<1> HIDE DEF k
<1>4. Single(cs2)
  BY <1>1 DEF Local, Single, k
<1>5. Rising(cs2, cnt2)
  <2>1. ASSUME NEW i \in 1..Len(cs2), NEW j \in 1..Len(cs2), NEW a \in cs2[i], NEW b \in cs2[j],
               a.obj # 0, b.obj # 0
        PROVE  (i < j => a.obj < b.obj) /\ (i = j /\ a.obj = b.obj => a = b)
    <3>1. CASE i \in 1..k /\ j \in 1..k
      BY <1>1, <2>1, <3>1 DEF Local, Rising, k
    <3>2. CASE i \in 1..k /\ j = k + 1
      <4>1. a \in cs[i] /\ b \in ds /\ i # j
        BY <1>1, <3>2
      <4>2. a.obj \in Nat /\ a.obj <= cnt /\ b.obj \in cnt + 1..cnt2
        BY <1>3, <3>2, <4>1
      <4>3. QED
        BY <1>2, <4>1, <4>2
    <3>3. CASE i = k + 1 /\ j \in 1..k
      BY <1>1, <3>3
    <3>4. CASE i = k + 1 /\ j = k + 1
      BY <1>1, <3>4
    <3>5. QED
      BY <1>1, <3>1, <3>2, <3>3, <3>4
  <2>2. ASSUME NEW i \in 1..Len(cs2), NEW a \in cs2[i] PROVE a.obj <= cnt2
    BY <1>1, <1>2, <1>3
  <2>3. QED
    BY <2>1, <2>2 DEF Rising
<1>6. Outer(cs2)
  BY <1>1 DEF Local, Outer
<1>7. Listed(cs2, vs2)
  <2>1. ASSUME NEW i \in 2..Len(cs2), NEW c \in cs2[i], Ordinary(c), ~c.odd
        PROVE  c.obj # 0 /\ \E y \in 1..Len(vs2) : vs2[y].obj = c.obj /\ vs2[y].name = c.name
    <3>1. CASE i = k + 1
      BY <1>1, <1>2, <3>1
    <3>2. CASE i # k + 1
      <4>1. i \in 2..k /\ c \in cs[i]
        BY <1>1, <3>2
      <4>2. c.obj # 0 /\ \E x \in 1..Len(vs) : vs[x].obj = c.obj /\ vs[x].name = c.name
        BY <2>1, <4>1 DEF Local, Listed, k
      <4>3. QED
        BY <1>2, <4>2, SMTT(30)
    <3>3. QED
      BY <3>1, <3>2
  <2>2. QED
    BY <2>1 DEF Listed
<1>8. Owned(cs2, vs2)
  <2>1. ASSUME NEW i \in 1..Len(cs2), NEW c \in cs2[i], NEW y \in 1..Len(vs2),
               c.obj = vs2[y].obj
        PROVE  c.name = vs2[y].name /\ Ordinary(c)
    <3>1. CASE i = k + 1
      <4>1. PICK z \in 1..Len(vs2) : vs2[z].obj = c.obj /\ vs2[z].name = c.name
        BY <1>1, <3>1
      <4>2. y = z
        <5>1. vs2[y].obj \in Nat /\ ~(y < z) /\ ~(z < y)
          BY <1>2, <2>1, <4>1 DEF Sorted
        <5>2. QED
          BY <5>1
      <4>3. QED
        BY <1>1, <3>1, <4>1, <4>2
    <3>2. CASE i \in 1..k
      <4>1. c \in cs[i] /\ ~(vs2[y].obj > cnt)
        BY <1>1, <1>2, <1>3, <2>1, <3>2
      <4>2. PICK x \in 1..Len(vs) : vs2[y] = vs[x]
        BY <1>2, <4>1
      <4>3. QED
        BY <2>1, <3>2, <4>1, <4>2 DEF Local, Owned, k
    <3>3. QED
      BY <1>1, <3>1, <3>2
  <2>2. QED
    BY <2>1 DEF Owned
<1>9. QED
  BY <1>2, <1>4, <1>5, <1>6, <1>7, <1>8 DEF Local

\* Scopes closed; at the end of a function the list is emptied.
LEMMA LocalPops ==
  ASSUME NEW cs, NEW cs2, Pops(cs, cs2), NEW vs, NEW cnt, Local(cs, vs, cnt)
  PROVE  Local(cs2, vs, cnt) /\ (Len(cs2) = 1 => Local(cs2, << >>, cnt))
<1>1. /\ \A i \in 1..Len(cs2) : i \in 1..Len(cs) /\ cs2[i] = cs[i]
      /\ \A i \in 2..Len(cs2) : i \in 2..Len(cs) /\ i \in 1..Len(cs2)
      /\ 1 \in 1..Len(cs2)
  BY DEF Pops
<1>2. Single(cs2) /\ Rising(cs2, cnt) /\ Outer(cs2)
  BY <1>1 DEF Local, Single, Rising, Outer
<1>3. Listed(cs2, vs) /\ Owned(cs2, vs)
  BY <1>1 DEF Local, Listed, Owned
<1>4. Sorted(<< >>, cnt) /\ Owned(cs2, << >>)
  BY DEF Sorted, Owned
<1>5. Len(cs2) = 1 => Listed(cs2, << >>)
  BY DEF Listed
<1>6. QED
  BY <1>2, <1>3, <1>4, <1>5 DEF Local

(***************************************************************************)
(* The symbol table and the language.                                      *)
(***************************************************************************)
Touches(scs, scs2, T) ==
  LET p == Len(scs) IN
  /\ p \in Nat \ {0} /\ Len(scs2) = p
  /\ scs \in Seq(Seq(Symbols)) /\ scs2 \in Seq(Seq(Symbols))
  /\ \A i \in 1..p : i # p => scs2[i] = scs[i]
  /\ scs2[p] = T
Enters(scs, scs2, T) ==
  LET p == Len(scs) IN
  /\ p \in Nat \ {0} /\ Len(scs2) = p + 1
  /\ scs \in Seq(Seq(Symbols)) /\ scs2 \in Seq(Seq(Symbols))
  /\ \A i \in 1..p : scs2[i] = scs[i]
  /\ scs2[p + 1] = T
Leaves(scs, scs2) ==
  /\ scs \in Seq(Seq(Symbols)) /\ scs2 \in Seq(Seq(Symbols))
  /\ Len(scs) \in Nat /\ Len(scs2) \in 1..Len(scs)
  /\ \A i \in 1..Len(scs2) : scs2[i] = scs[i]

\* Only symbols under the name of d, tag or not as d is, come, go or change.
Twin(s, t) == s.name = t.name /\ s.kind = t.kind /\ s.obj = t.obj
Others(T, S, d) ==
  /\ \A y \in 1..Len(T) : Same(T[y], d) \/ \E x \in 1..Len(S) : Twin(T[y], S[x])
  /\ \A x \in 1..Len(S) : Same(S[x], d) \/ \E y \in 1..Len(T) : Twin(T[y], S[x])

LEMMA SameFacts ==
  /\ \A s, t : Same(s, t) <=> Same(t, s)
  /\ \A s, t, d : Same(s, t) /\ Same(t, d) => Same(s, d)
  /\ \A s, t, d : Twin(s, t) /\ Same(t, d) => Same(s, d)
  /\ \A s, t, d : Twin(s, t) /\ Same(s, d) => Same(t, d)
  /\ \A s, t, d : Twin(s, t) /\ Alike(t, d) => Alike(s, d)
  /\ \A s, t : Same(s, t) => s.name = t.name
BY DEF Same, Twin, Alike, IsTag

LEMMA LangFacts ==
  /\ Lang(1) = 1 /\ Lang(2) = 2 /\ Lang(3) = 2
  /\ \A p \in Nat \ {0} : Lang(p) \in Nat \ {0}
  /\ \A p, r \in Nat \ {0} : p <= r => Lang(p) <= Lang(r)
  /\ \A p, r \in Nat \ {0} : p < r /\ Lang(p) = Lang(r) => p = 2 /\ r = 3
BY DEF Lang

LEMMA OddGrows ==
  ASSUME NEW cs, NEW cs2, NEW d, Declares(cs, cs2, d), NEW n, NEW q \in 1..Len(cs)
  PROVE  /\ OddTo(cs, n, q) => OddTo(cs2, n, q)
         /\ q # Len(cs) => (OddTo(cs2, n, q) <=> OddTo(cs, n, q))
         /\ d.odd => OddTo(cs2, d.name, Len(cs))
<1> DEFINE k == Len(cs)
<1>1. k \in Nat \ {0} /\ \A i \in 1..k : i # k => cs2[i] = cs[i]
  BY DEF Declares
<1>2. PICK e : Adds(cs[k], e, d) /\ cs2[k] = {c \in cs[k] : ~Same(c, d)} \cup {e}
  BY DEF Declares
<1>3. q # k => \A j \in 1..q : j \in 1..k /\ j # k
  BY <1>1
<1>4. q # k => (OddTo(cs2, n, q) <=> OddTo(cs, n, q))
  BY <1>1, <1>3 DEF OddTo
<1>5. ASSUME OddTo(cs, n, q) PROVE OddTo(cs2, n, q)
  <2>1. PICK j \in 1..q : \E c \in cs[j] : c.name = n /\ c.odd
    BY <1>5 DEF OddTo
  <2>2. PICK c \in cs[j] : c.name = n /\ c.odd
    BY <2>1
  <2>3. CASE j # k
    BY <1>1, <2>2, <2>3 DEF OddTo
  <2>4. CASE j = k /\ ~Same(c, d)
    BY <1>2, <2>2, <2>4 DEF OddTo
  <2>5. CASE j = k /\ Same(c, d)
    <3>1. e.odd /\ e.name = n /\ e \in cs2[k]
      BY <1>2, <2>2, <2>5 DEF Adds, Same
    <3>2. QED
      BY <2>5, <3>1 DEF OddTo
  <2>6. QED
    BY <2>3, <2>4, <2>5
<1>6. ASSUME d.odd PROVE OddTo(cs2, d.name, k)
  <2>1. e.odd /\ e.name = d.name /\ e \in cs2[k] /\ k \in 1..k
    BY <1>1, <1>2, <1>6 DEF Adds
  <2>2. QED
    BY <2>1 DEF OddTo
<1>7. QED
  BY <1>4, <1>5, <1>6

\* A declaration, with what sema does to its innermost scope for it: the name is
\* odd, or what the table has of it then is alike.
LEMMA MatchDeclares ==
  ASSUME NEW cs, NEW cs2, NEW d, Declares(cs, cs2, d),
         NEW scs, NEW scs2, NEW T, Touches(scs, scs2, T), Others(T, scs[Len(scs)], d),
         Matching(scs, cs), Lang(Len(scs)) = Len(cs), Len(scs) # 2,
         \A c \in cs[Len(cs)] : Same(c, d) => c.kind # "param",
         \/ OddTo(cs2, d.name, Len(cs))
         \/ /\ \A p \in 1..Len(scs2) : \A x \in 1..Len(scs2[p]) :
                 Lang(p) = Len(cs) /\ Same(scs2[p][x], d) => Alike(scs2[p][x], d)
            /\ Tabled(d, T) \/ (Len(cs) = 1 /\ Ordinary(d))
  PROVE  Matching(scs2, cs2)
<1> DEFINE k == Len(cs)
           P == Len(scs)
<1>1. /\ k \in Nat \ {0} /\ k \in 1..k /\ Len(cs2) = k
      /\ \A i \in 1..k : i # k => cs2[i] = cs[i]
  BY DEF Declares
<1>2. PICK e : Adds(cs[k], e, d) /\ cs2[k] = {c \in cs[k] : ~Same(c, d)} \cup {e}
  BY DEF Declares
<1>3. e.name = d.name /\ Same(e, d) /\ (Ordinary(e) <=> Ordinary(d)) /\ \A s : Alike(s, d) => Alike(s, e)
  BY <1>2 DEF Adds, Same, Ordinary, IsTag, Alike
<1>4. /\ P \in Nat \ {0} /\ Len(scs2) = P /\ scs2[P] = T /\ P \in 1..P
      /\ \A p \in 1..P : p # P => scs2[p] = scs[p]
  BY DEF Touches
<1>5. \A p \in 1..P : Lang(p) \in 1..k /\ (Lang(p) # k => p # P)
  BY <1>1, <1>4, LangFacts
<1>6. \A q \in 1..k : \A n : OddTo(cs, n, q) => OddTo(cs2, n, q)
  BY OddGrows
<1> DEFINE Odd2 == OddTo(cs2, d.name, k)
           Fits == \A p \in 1..P : \A x \in 1..Len(scs2[p]) :
                     Lang(p) = k /\ Same(scs2[p][x], d) => Alike(scs2[p][x], d)
           Has  == Tabled(d, T) \/ (k = 1 /\ Ordinary(d))
<1>7. Odd2 \/ (Fits /\ Has)
  BY <1>4
<1> HIDE DEF k, P, Odd2, Has
\* A symbol that is not d's was there.
<1>8. ASSUME NEW p \in 1..P, NEW x \in 1..Len(scs2[p]), ~Same(scs2[p][x], d)
      PROVE  \E z \in 1..Len(scs[p]) : Twin(scs2[p][x], scs[p][z])
  <2>1. CASE p = P
    BY <1>4, <1>8, <2>1 DEF Others, P
  <2>2. CASE p # P
    BY <1>4, <2>2 DEF Twin
  <2>3. QED
    BY <2>1, <2>2
<1>9. ASSUME NEW p \in 1..P, NEW z \in 1..Len(scs[p]), ~Same(scs[p][z], d)
      PROVE  \E x \in 1..Len(scs2[p]) : Twin(scs2[p][x], scs[p][z])
  <2>1. CASE p = P
    BY <1>4, <1>9, <2>1 DEF Others, P
  <2>2. CASE p # P
    BY <1>4, <2>2 DEF Twin
  <2>3. QED
    BY <2>1, <2>2
<1>10. SymsMatch(scs2, cs2)
  <2>1. ASSUME NEW p \in 1..P, NEW x \in 1..Len(scs2[p])
        PROVE  OddTo(cs2, scs2[p][x].name, Lang(p)) \/ Declared(scs2[p][x], cs2[Lang(p)])
    <3> DEFINE s == scs2[p][x]
               q == Lang(p)
    <3> HIDE DEF s, q
    <3>1. q \in 1..k
      BY <1>5 DEF q
    <3>2. CASE q = k /\ Same(s, d)
      <4>1. CASE Odd2
        BY <3>2, <4>1, SameFacts DEF s, q, Odd2
      <4>2. CASE Fits
        <5>1. Alike(s, e)
          BY <1>3, <3>2, <4>2 DEF s, q
        <5>2. Same(s, e) /\ e \in cs2[k]
          BY <1>2, <1>3, <3>2, SameFacts
        <5>3. \A c \in cs2[k] : Same(s, c) => c = e
          BY <1>2, <3>2, SameFacts
        <5>4. QED
          BY <3>2, <5>1, <5>2, <5>3 DEF Declared, s, q
      <4>3. QED
        BY <1>7, <4>1, <4>2
    <3>3. CASE q = k /\ ~Same(s, d)
      <4>1. PICK z \in 1..Len(scs[p]) : Twin(s, scs[p][z])
        BY <1>8, <3>3 DEF s
      <4>2. OddTo(cs, scs[p][z].name, q) \/ Declared(scs[p][z], cs[q])
        BY DEF Matching, SymsMatch, P, q
      <4>3. CASE OddTo(cs, scs[p][z].name, q)
        BY <1>6, <3>1, <4>1, <4>3 DEF Twin, s, q
      <4>4. CASE Declared(scs[p][z], cs[q])
        <5>1. PICK c \in cs[k] : Same(scs[p][z], c)
          BY <3>3, <4>4 DEF Declared
        <5>2. Same(s, c) /\ ~Same(c, d)
          BY <3>3, <4>1, <5>1, SameFacts
        <5>3. c \in cs2[k]
          BY <1>2, <5>2
        <5>4. ASSUME NEW a \in cs2[k], Same(s, a) PROVE Alike(s, a)
          <6>1. a \in cs[k]
            BY <1>2, <1>3, <3>3, <5>4, SameFacts
          <6>2. QED
            BY <3>3, <4>1, <4>4, <5>4, <6>1, SameFacts DEF Declared
        <5>5. QED
          BY <3>3, <5>2, <5>3, <5>4 DEF Declared, s, q
      <4>5. QED
        BY <4>2, <4>3, <4>4
    <3>4. CASE q # k
      <4>1. p # P /\ scs2[p] = scs[p] /\ cs2[q] = cs[q]
        BY <1>1, <1>4, <1>5, <3>1, <3>4 DEF q
      <4>2. OddTo(cs, s.name, q) \/ Declared(s, cs[q])
        BY <4>1 DEF Matching, SymsMatch, P, q, s
      <4>3. QED
        BY <1>6, <3>1, <4>1, <4>2 DEF s, q
    <3>5. QED
      BY <3>2, <3>3, <3>4
  <2>2. QED
    BY <1>4, <2>1 DEF SymsMatch
<1>11. DeclsMatch(scs2, cs2)
  <2>1. ASSUME NEW q \in 1..k, NEW c \in cs2[q]
        PROVE  \/ OddTo(cs2, c.name, q)
               \/ \E p \in 1..P : Lang(p) = q /\ Tabled(c, scs2[p])
               \/ q = 1 /\ Ordinary(c)
    <3>1. CASE c \in cs[q] /\ (q = k => ~Same(c, d))
      <4>1. \/ OddTo(cs, c.name, q)
            \/ \E p \in 1..P : Lang(p) = q /\ Tabled(c, scs[p])
            \/ q = 1 /\ Ordinary(c)
        BY <3>1 DEF Matching, DeclsMatch, P, k
      <4>2. ASSUME NEW p \in 1..P, Lang(p) = q, Tabled(c, scs[p])
            PROVE  Tabled(c, scs2[p])
        <5>1. PICK z \in 1..Len(scs[p]) : Same(scs[p][z], c)
          BY <4>2 DEF Tabled
        <5>2. CASE q = k
          <6>1. ~Same(scs[p][z], d)
            BY <3>1, <5>1, <5>2, SameFacts
          <6>2. PICK x \in 1..Len(scs2[p]) : Twin(scs2[p][x], scs[p][z])
            BY <1>9, <6>1
          <6>3. QED
            BY <5>1, <6>2, SameFacts DEF Tabled
        <5>3. CASE q # k
          BY <1>4, <1>5, <4>2, <5>3
        <5>4. QED
          BY <5>2, <5>3
      <4>3. QED
        BY <1>6, <4>1, <4>2
    <3>2. CASE q = k /\ c = e
      <4>1. CASE Odd2
        BY <1>3, <3>2, <4>1 DEF Odd2
      <4>2. CASE Tabled(d, T)
        <5>1. Tabled(e, scs2[P]) /\ Lang(P) = k
          BY <1>3, <1>4, <4>2, SameFacts DEF Tabled, k, P
        <5>2. QED
          BY <1>4, <3>2, <5>1
      <4>3. CASE k = 1 /\ Ordinary(d)
        BY <1>3, <3>2, <4>3
      <4>4. QED
        BY <1>7, <4>1, <4>2, <4>3 DEF Has
    <3>3. QED
      BY <1>1, <1>2, <2>1, <3>1, <3>2
  <2>2. Lang(Len(scs2)) = k
    BY <1>4 DEF P, k
  <2>3. QED
    BY <1>4, <2>1, <2>2 DEF DeclsMatch
<1>12. ParamsMatch(scs2, cs2)
  <2>1. ASSUME P > 1, NEW x \in 1..Len(scs2[2])
        PROVE  /\ ~IsTag(scs2[2][x]) /\ \E c \in cs2[2] : Same(scs2[2][x], c)
               /\ \A c \in cs2[2] : Same(scs2[2][x], c) => c.kind = "param"
    <3>1. 2 \in 1..P /\ P # 2
      BY <1>4, <2>1 DEF P
    <3>2. scs2[2] = scs[2]
      BY <1>4, <3>1
    <3>3. /\ ~IsTag(scs[2][x]) /\ \E c \in cs[2] : Same(scs[2][x], c)
          /\ \A c \in cs[2] : Same(scs[2][x], c) => c.kind = "param"
      BY <2>1, <3>2 DEF Matching, ParamsMatch, P
    <3>4. CASE k = 2
      <4>1. ~Same(scs[2][x], d)
        <5>1. ASSUME Same(scs[2][x], d) PROVE FALSE
          <6>1. PICK c \in cs[2] : Same(scs[2][x], c)
            BY <3>3
          <6>2. Same(c, d) /\ c.kind = "param"
            BY <3>3, <5>1, <6>1, SameFacts
          <6>3. QED
            BY <3>4, <6>2 DEF k
        <5>2. QED
          BY <5>1
      <4>2. \A c \in cs[2] : Same(scs[2][x], c) => c \in cs2[2]
        BY <1>2, <3>4, <4>1, SameFacts
      <4>3. \A c \in cs2[2] : Same(scs[2][x], c) => c \in cs[2]
        BY <1>2, <1>3, <3>4, <4>1, SameFacts
      <4>4. QED
        BY <3>2, <3>3, <4>2, <4>3
    <3>5. CASE k # 2
      <4>1. 2 \in 1..k
        BY <1>5, <3>1, LangFacts
      <4>2. cs2[2] = cs[2]
        BY <1>1, <3>5, <4>1
      <4>3. QED
        BY <3>2, <3>3, <4>2
    <3>6. QED
      BY <3>4, <3>5
  <2>2. QED
    BY <1>4, <2>1 DEF ParamsMatch
<1>13. QED
  BY <1>10, <1>11, <1>12 DEF Matching

\* In a function that sema gave up only the outermost scope counts.
LEMMA MatchSkips ==
  ASSUME NEW scs, NEW cs, NEW cs2, Len(scs) = 1, cs2[1] = cs[1], Matching(scs, cs)
  PROVE  Matching(scs, cs2)
<1>1. \A n : OddTo(cs, n, 1) <=> OddTo(cs2, n, 1)
  BY DEF OddTo
<1>2. \A p \in 1..Len(scs) : p = 1 /\ Lang(p) = 1
  BY LangFacts
<1>3. SymsMatch(scs, cs2)
  BY <1>1, <1>2 DEF Matching, SymsMatch
<1>4. DeclsMatch(scs, cs2)
  <2>1. \A q \in 1..Lang(Len(scs)) : q = 1
    BY LangFacts
  <2>2. QED
    BY <1>1, <2>1 DEF Matching, DeclsMatch
<1>5. QED
  BY <1>3, <1>4 DEF Matching, ParamsMatch

\* A scope put inside on both sides.
LEMMA MatchPushes ==
  ASSUME NEW cs, NEW cs2, NEW ds, Pushes(cs, cs2, ds),
         NEW scs, NEW scs2, NEW T, Enters(scs, scs2, T),
         Matching(scs, cs), Lang(Len(scs)) = Len(cs), Lang(Len(scs2)) = Len(cs2),
         \A y \in 1..Len(T) : OddTo(cs2, T[y].name, Len(cs2)) \/ Declared(T[y], ds),
         \A d \in ds : d.odd \/ Tabled(d, T),
         Len(scs2) = 2 => \A y \in 1..Len(T) :
           ~IsTag(T[y]) /\ (\E d \in ds : Same(T[y], d)) /\ \A d \in ds : d.kind = "param"
  PROVE  Matching(scs2, cs2)
<1> DEFINE k == Len(cs)
           P == Len(scs)
<1>1. /\ k \in Nat \ {0} /\ Len(cs2) = k + 1 /\ cs2[k + 1] = ds
      /\ \A i \in 1..k : cs2[i] = cs[i]
  BY DEF Pushes
<1>2. /\ P \in Nat \ {0} /\ Len(scs2) = P + 1 /\ scs2[P + 1] = T
      /\ \A p \in 1..P : scs2[p] = scs[p]
      /\ \A p \in 1..P + 1 : p = P + 1 \/ p \in 1..P
  BY DEF Enters
<1>3. /\ Lang(P + 1) = k + 1
      /\ \A p \in 1..P : Lang(p) \in 1..k
  BY <1>1, <1>2, LangFacts
<1>4. \A q \in 1..k : \A n : OddTo(cs, n, q) <=> OddTo(cs2, n, q)
  BY <1>1 DEF OddTo
<1>5. \A d \in ds : d.odd => OddTo(cs2, d.name, k + 1)
  BY <1>1 DEF OddTo
<1> HIDE DEF k, P
<1>6. SymsMatch(scs2, cs2)
  <2>1. ASSUME NEW p \in 1..P + 1, NEW x \in 1..Len(scs2[p])
        PROVE  OddTo(cs2, scs2[p][x].name, Lang(p)) \/ Declared(scs2[p][x], cs2[Lang(p)])
    <3>1. CASE p = P + 1
      BY <1>1, <1>2, <1>3, <3>1
    <3>2. CASE p \in 1..P
      <4>1. OddTo(cs, scs[p][x].name, Lang(p)) \/ Declared(scs[p][x], cs[Lang(p)])
        BY <1>2, <3>2 DEF Matching, SymsMatch, P
      <4>2. QED
        BY <1>1, <1>2, <1>3, <1>4, <3>2, <4>1
    <3>3. QED
      BY <1>2, <3>1, <3>2
  <2>2. QED
    BY <1>2, <2>1 DEF SymsMatch
<1>7. DeclsMatch(scs2, cs2)
  <2>1. ASSUME NEW q \in 1..k + 1, NEW c \in cs2[q]
        PROVE  \/ OddTo(cs2, c.name, q)
               \/ \E p \in 1..P + 1 : Lang(p) = q /\ Tabled(c, scs2[p])
               \/ q = 1 /\ Ordinary(c)
    <3>1. CASE q = k + 1
      BY <1>1, <1>2, <1>3, <1>5, <3>1
    <3>2. CASE q # k + 1
      <4>1. q \in 1..k /\ c \in cs[q]
        BY <1>1, <3>2
      <4>2. \/ OddTo(cs, c.name, q)
            \/ \E p \in 1..P : Lang(p) = q /\ Tabled(c, scs[p])
            \/ q = 1 /\ Ordinary(c)
        BY <4>1 DEF Matching, DeclsMatch, P, k
      <4>3. QED
        BY <1>2, <1>4, <4>1, <4>2
    <3>3. QED
      BY <3>1, <3>2
  <2>2. QED
    BY <1>2, <1>3, <2>1 DEF DeclsMatch
<1>8. ParamsMatch(scs2, cs2)
  <2>1. CASE P = 1
    <3>1. Len(scs2) = 2 /\ cs2[2] = ds /\ scs2[2] = T
      BY <1>1, <1>2, <1>3, <2>1, LangFacts
    <3>2. QED
      BY <3>1 DEF ParamsMatch
  <2>2. CASE P # 1
    <3>1. 2 \in 1..P /\ P > 1
      BY <1>2, <2>2
    <3>2. 2 \in 1..k
      BY <1>3, <3>1, LangFacts
    <3>3. QED
      BY <1>1, <1>2, <3>1, <3>2 DEF Matching, ParamsMatch, P
  <2>3. QED
    BY <2>1, <2>2
<1>9. QED
  BY <1>6, <1>7, <1>8 DEF Matching

\* The scope of a body, which the language does not have.
LEMMA MatchBody ==
  ASSUME NEW cs, NEW scs, NEW scs2, Enters(scs, scs2, << >>), Len(scs) = 2, Matching(scs, cs)
  PROVE  Matching(scs2, cs)
<1>1. /\ Len(scs2) = 3 /\ scs2[1] = scs[1] /\ scs2[2] = scs[2] /\ scs2[3] = << >>
  BY DEF Enters
<1>2. 1..Len(scs2) = {1, 2, 3} /\ 1..Len(scs) = {1, 2} /\ 1..Len(scs2[3]) = {}
  BY <1>1
<1>3. Lang(Len(scs2)) = Lang(Len(scs))
  BY <1>1, LangFacts
<1>4. SymsMatch(scs2, cs)
  BY <1>1, <1>2 DEF Matching, SymsMatch
<1>5. DeclsMatch(scs2, cs)
  BY <1>1, <1>2, <1>3 DEF Matching, DeclsMatch
<1>6. QED
  BY <1>1, <1>4, <1>5 DEF Matching, ParamsMatch

LEMMA MatchPops ==
  ASSUME NEW cs, NEW cs2, Pops(cs, cs2), NEW scs, NEW scs2, Leaves(scs, scs2),
         Matching(scs, cs), Lang(Len(scs2)) = Len(cs2), Len(scs2) # 2
  PROVE  Matching(scs2, cs2)
<1>1. /\ Len(cs2) \in Nat \ {0} /\ Len(cs) \in Nat /\ Len(cs2) <= Len(cs)
      /\ \A i \in 1..Len(cs2) : i \in 1..Len(cs) /\ cs2[i] = cs[i]
  BY DEF Pops
<1>2. /\ Len(scs2) \in Nat \ {0} /\ Len(scs) \in Nat \ {0} /\ Len(scs2) <= Len(scs)
      /\ \A p \in 1..Len(scs2) : p \in 1..Len(scs) /\ scs2[p] = scs[p]
  BY DEF Leaves
<1>3. \A q \in 1..Len(cs2) : \A n : OddTo(cs, n, q) <=> OddTo(cs2, n, q)
  BY <1>1 DEF OddTo
<1>4. \A p \in 1..Len(scs2) : Lang(p) \in 1..Len(cs2)
  BY <1>1, <1>2, LangFacts
<1>5. \A p \in 1..Len(scs) : Lang(p) \in 1..Len(cs2) => p \in 1..Len(scs2)
  <2>1. ASSUME NEW p \in 1..Len(scs), Lang(p) \in 1..Len(cs2), p \notin 1..Len(scs2)
        PROVE  FALSE
    <3>1. p > Len(scs2) /\ p \in Nat \ {0}
      BY <1>2, <2>1
    <3>2. Lang(p) = Lang(Len(scs2))
      BY <1>1, <1>2, <2>1, <3>1, LangFacts
    <3>3. QED
      BY <1>2, <3>1, <3>2, LangFacts
  <2>2. QED
    BY <2>1
<1>6. SymsMatch(scs2, cs2)
  <2>1. ASSUME NEW p \in 1..Len(scs2), NEW x \in 1..Len(scs2[p])
        PROVE  OddTo(cs2, scs2[p][x].name, Lang(p)) \/ Declared(scs2[p][x], cs2[Lang(p)])
    <3>1. OddTo(cs, scs[p][x].name, Lang(p)) \/ Declared(scs[p][x], cs[Lang(p)])
      BY <1>2 DEF Matching, SymsMatch
    <3>2. QED
      BY <1>1, <1>2, <1>3, <1>4, <3>1
  <2>2. QED
    BY <2>1 DEF SymsMatch
<1>7. DeclsMatch(scs2, cs2)
  <2>1. ASSUME NEW q \in 1..Len(cs2), NEW c \in cs2[q]
        PROVE  \/ OddTo(cs2, c.name, q)
               \/ \E p \in 1..Len(scs2) : Lang(p) = q /\ Tabled(c, scs2[p])
               \/ q = 1 /\ Ordinary(c)
    <3>a. Lang(Len(scs)) \in Nat /\ Lang(Len(scs2)) <= Lang(Len(scs))
      BY <1>2, LangFacts
    <3>1. q \in 1..Lang(Len(scs)) /\ c \in cs[q]
      BY <1>1, <3>a
    <3>2. \/ OddTo(cs, c.name, q)
          \/ \E p \in 1..Len(scs) : Lang(p) = q /\ Tabled(c, scs[p])
          \/ q = 1 /\ Ordinary(c)
      BY <3>1 DEF Matching, DeclsMatch
    <3>3. QED
      BY <1>2, <1>3, <1>5, <3>2
  <2>2. QED
    BY <2>1 DEF DeclsMatch
<1>8. ParamsMatch(scs2, cs2)
  <2>1. CASE Len(scs2) > 1
    <3>1. 2 \in 1..Len(scs2) /\ Len(scs) > 1
      BY <1>2, <2>1
    <3>2. 2 \in 1..Len(cs2)
      BY <1>4, <3>1, LangFacts
    <3>3. QED
      BY <1>1, <1>2, <3>1, <3>2 DEF Matching, ParamsMatch
  <2>2. CASE ~(Len(scs2) > 1)
    BY <2>2 DEF ParamsMatch
  <2>3. QED
    BY <2>1, <2>2
<1>9. QED
  BY <1>6, <1>7, <1>8 DEF Matching

(***************************************************************************)
(* What sema does for a declaration.                                       *)
(***************************************************************************)
\* symtable_lookup_current, and a lookup in one scope.
LEMMA FoundCurrent ==
  ASSUME NEW scs \in Seq(Seq(Symbols)), Len(scs) # 0, NEW n
  PROVE  LET S == scs[Len(scs)] old == LookupCurrent(scs, n) IN
         \/ old = None /\ \A i \in 1..Len(S) : S[i].name # n
         \/ \E i \in 1..Len(S) : old = S[i] /\ S[i].name = n
<1> DEFINE S == scs[Len(scs)]
           I == {i \in 1..Len(S) : S[i].name = n}
           P(i) == S[i].name = n /\ \A j \in 1..i - 1 : ~(S[j].name = n)
<1>1. S \in Seq(Symbols) /\ Len(S) \in Nat /\ DOMAIN S = 1..Len(S)
  OBVIOUS
<1>2. LookupCurrent(scs, n) =
        IF \E i \in 1..Len(S) : S[i].name = n THEN S[CHOOSE i \in 1..Len(S) : P(i)] ELSE None
  BY <1>1 DEF LookupCurrent, First, Current
<1>3. CASE I # {}
  <2>1. I \in SUBSET Nat
    OBVIOUS
  <2> DEFINE m == Min(I)
  <2>2. m \in I /\ \A j \in 0..m - 1 : j \notin I
    BY <1>3, <2>1, LeastOf
  <2> HIDE DEF m
  <2>3. m \in 1..Len(S) /\ P(m)
    BY <1>1, <2>2
  <2> HIDE DEF P
  <2>4. (CHOOSE i \in 1..Len(S) : P(i)) \in 1..Len(S) /\ P(CHOOSE i \in 1..Len(S) : P(i))
    BY <2>3, Zenon
  <2>5. QED
    BY <1>2, <1>3, <2>4 DEF P
<1>4. CASE I = {}
  BY <1>2, <1>4
<1>5. QED
  BY <1>3, <1>4

FirstOf(v, n, tag) == First(v, LAMBDA s : s.name = n /\ IsTag(s) = tag)

LEMMA FoundHere ==
  ASSUME NEW v \in Seq(Symbols), NEW n, NEW tag \in BOOLEAN
  PROVE  LET f == FirstOf(v, n, tag) IN
         IF \E i \in 1..Len(v) : v[i].name = n /\ IsTag(v[i]) = tag
         THEN f # None /\ \E i \in 1..Len(v) : f = v[i] /\ v[i].name = n /\ IsTag(v[i]) = tag
         ELSE f = None
<1> DEFINE Q(i) == v[i].name = n /\ IsTag(v[i]) = tag
           I == {i \in 1..Len(v) : Q(i)}
           P(i) == Q(i) /\ \A j \in 1..i - 1 : ~Q(j)
           f == FirstOf(v, n, tag)
<1>1. Len(v) \in Nat /\ DOMAIN v = 1..Len(v)
  OBVIOUS
<1>2. f = IF \E i \in 1..Len(v) : Q(i) THEN v[CHOOSE i \in 1..Len(v) : P(i)] ELSE None
  BY <1>1 DEF FirstOf, First
<1> HIDE DEF Q, f
<1>3. CASE I # {}
  <2>1. I \in SUBSET Nat
    OBVIOUS
  <2> DEFINE m == Min(I)
  <2>2. m \in I /\ \A j \in 0..m - 1 : j \notin I
    BY <1>3, <2>1, LeastOf
  <2> HIDE DEF m
  <2>3. m \in 1..Len(v) /\ P(m)
    BY <1>1, <2>2
  <2> HIDE DEF P
  <2>4. (CHOOSE i \in 1..Len(v) : P(i)) \in 1..Len(v) /\ P(CHOOSE i \in 1..Len(v) : P(i))
    BY <2>3, Zenon
  <2>5. \E i \in 1..Len(v) : f = v[i] /\ Q(i)
    BY <1>2, <1>3, <2>4 DEF P
  <2>6. \A i \in 1..Len(v) : v[i].kind # "none"
    <3>1. \A i \in 1..Len(v) : v[i] \in Symbols
      OBVIOUS
    <3>2. QED
      BY <3>1 DEF Symbols
  <2>7. f # None
    BY <2>5, <2>6 DEF None
  <2>8. QED
    BY <1>3, <2>5, <2>7 DEF Q, f
<1>4. CASE I = {}
  <2>1. ~ \E i \in 1..Len(v) : Q(i)
    BY <1>4
  <2>2. f = None
    BY <1>2, <2>1
  <2>3. QED
    BY <2>1, <2>2 DEF Q, f
<1>5. QED
  BY <1>3, <1>4

\* symtable_define: under the name of s there is a symbol in any case then, and
\* no other one is new.
LEMMA ClashMeans ==
  ASSUME NEW scs \in Seq(Seq(Symbols)), Len(scs) # 0, NEW d
  PROVE  Clash(scs, d.name, d.kind) <=> Tabled(d, scs[Len(scs)])
<1>1. DOMAIN scs[Len(scs)] = 1..Len(scs[Len(scs)])
  OBVIOUS
<1>2. QED
  BY <1>1 DEF Clash, Current, Tabled, Same, IsTag

LEMMA TouchesIs ==
  ASSUME NEW scs \in Seq(Seq(Symbols)), Len(scs) # 0, NEW T \in Seq(Symbols)
  PROVE  Touches(scs, [scs EXCEPT ![Len(scs)] = T], T)
BY DEF Touches

LEMMA TouchesNot ==
  ASSUME NEW scs \in Seq(Seq(Symbols)), Len(scs) # 0, NEW d
  PROVE  Touches(scs, scs, scs[Len(scs)]) /\ Others(scs[Len(scs)], scs[Len(scs)], d)
BY DEF Touches, Others, Twin

LEMMA DefineIs ==
  ASSUME NEW scs \in Seq(Seq(Symbols)), Len(scs) # 0, NEW s \in Symbols
  PROVE  LET S == scs[Len(scs)] IN
         \E T : /\ Touches(scs, Define(scs, s), T)
                /\ \A d : Same(s, d) => Others(T, S, d) /\ Tabled(d, T)
                /\ \A y \in 1..Len(T) : T[y] = s \/ \E x \in 1..Len(S) : T[y] = S[x]
<1> DEFINE S == scs[Len(scs)]
           T == <<s>> \o S
<1>1. S \in Seq(Symbols) /\ Len(S) \in Nat
  OBVIOUS
<1>2. CASE Clash(scs, s.name, s.kind)
  <2>1. Define(scs, s) = scs /\ Tabled(s, S)
    BY <1>2, ClashMeans DEF Define
  <2>2. Touches(scs, scs, S) /\ \A d : Others(S, S, d)
    BY TouchesNot
  <2>3. \A d : Same(s, d) => Tabled(d, S)
    BY <2>1, SameFacts DEF Tabled
  <2>4. QED
    BY <2>1, <2>2, <2>3
<1>3. CASE ~Clash(scs, s.name, s.kind)
  <2>1. /\ T \in Seq(Symbols) /\ Len(T) = Len(S) + 1 /\ T[1] = s /\ 1 \in 1..Len(T)
        /\ \A y \in 2..Len(T) : y - 1 \in 1..Len(S) /\ T[y] = S[y - 1]
        /\ \A x \in 1..Len(S) : x + 1 \in 1..Len(T) /\ T[x + 1] = S[x]
        /\ \A y \in 1..Len(T) : y = 1 \/ y \in 2..Len(T)
    BY <1>1
  <2>2. Define(scs, s) = [scs EXCEPT ![Len(scs)] = T]
    BY <1>3 DEF Define
  <2> HIDE DEF T
  <2>3. Touches(scs, Define(scs, s), T)
    BY <2>1, <2>2, TouchesIs
  <2>4. ASSUME NEW d, Same(s, d) PROVE Others(T, S, d) /\ Tabled(d, T)
    <3>1. \A y \in 1..Len(T) : Same(T[y], d) \/ \E x \in 1..Len(S) : Twin(T[y], S[x])
      BY <2>1, <2>4 DEF Twin
    <3>2. \A x \in 1..Len(S) : \E y \in 1..Len(T) : Twin(T[y], S[x])
      BY <2>1 DEF Twin
    <3>3. QED
      BY <2>1, <2>4, <3>1, <3>2 DEF Others, Tabled
  <2>5. \A y \in 1..Len(T) : T[y] = s \/ \E x \in 1..Len(S) : T[y] = S[x]
    BY <2>1
  <2>6. QED
    BY <2>3, <2>4, <2>5
<1>4. QED
  BY <1>2, <1>3

\* In a function process_var_decl defines the name or does nothing.
LEMMA SemaVarLocal ==
  ASSUME NEW scs \in Seq(Seq(Symbols)), Len(scs) > 1, NEW n, NEW st, NEW id
  PROVE  /\ SemaVar(scs, n, st, id)
              = Define(scs, [name |-> n, kind |-> "var", obj |-> id, tent |-> FALSE])
         /\ VarVerdict(scs, n, st) = "defined" <=> ~Clash(scs, n, "var")
<1> DEFINE S   == scs[Len(scs)]
           old == LookupCurrent(scs, n)
           s   == [name |-> n, kind |-> "var", obj |-> id, tent |-> FALSE]
           ver == VarVerdict(scs, n, st)
<1>1. S \in Seq(Symbols) /\ Len(scs) # 1 /\ Len(scs) # 0
  OBVIOUS
<1>2. s.name = n /\ s.kind = "var"
  OBVIOUS
<1>3. ver = IF old.kind = "var" THEN "counted"
            ELSE IF Clash(scs, n, "var") THEN "printed" ELSE "defined"
  BY <1>1 DEF VarVerdict
<1>4. old.kind = "var" => Clash(scs, n, "var")
  <2>1. ASSUME old.kind = "var" PROVE Clash(scs, n, "var")
    <3>1. old # None
      BY <2>1 DEF None
    <3>2. PICK i \in 1..Len(S) : old = S[i] /\ S[i].name = n
      BY <1>1, <3>1, FoundCurrent
    <3>3. Same(S[i], s)
      BY <2>1, <3>2 DEF Same, IsTag
    <3>4. Clash(scs, s.name, s.kind)
      BY <1>1, <3>3, ClashMeans DEF Tabled
    <3>5. QED
      BY <1>2, <3>4
  <2>2. QED
    BY <2>1
<1>5. ver = "defined" <=> ~Clash(scs, n, "var")
  BY <1>3, <1>4
<1>6. SemaVar(scs, n, st, id) = IF ver = "defined" THEN Define(scs, s) ELSE scs
  BY <1>1, <1>3 DEF SemaVar
<1>7. Clash(scs, n, "var") => Define(scs, s) = scs
  BY <1>2 DEF Define
<1>8. QED
  BY <1>5, <1>6, <1>7

\* At file scope it may clear the tentative flag of the symbol instead.
Varies(scs, scs2, n, id) ==
  LET S == scs[Len(scs)] IN
  \E T : /\ Touches(scs, scs2, T)
         /\ \A d : d.name = n /\ ~IsTag(d) => Others(T, S, d)
         /\ \A y \in 1..Len(T) : \/ T[y].kind = "var" /\ T[y].obj = id
                                 \/ \E x \in 1..Len(S) : Twin(T[y], S[x])

LEMMA SemaVarAny ==
  ASSUME NEW scs \in Seq(Seq(Symbols)), Len(scs) # 0, NEW n \in Names, NEW st, NEW id \in Nat
  PROVE  Varies(scs, SemaVar(scs, n, st, id), n, id)
<1> DEFINE S   == scs[Len(scs)]
           old == LookupCurrent(scs, n)
           ver == VarVerdict(scs, n, st)
           t   == Len(scs) = 1 /\ Tentative(st)
           s   == [name |-> n, kind |-> "var", obj |-> id, tent |-> t]
           T   == [i \in DOMAIN S |-> IF S[i] = old THEN [old EXCEPT !.tent = @ /\ st # "init"]
                                      ELSE S[i]]
<1>1. S \in Seq(Symbols) /\ Len(S) \in Nat /\ DOMAIN S = 1..Len(S)
  OBVIOUS
<1>2. ver \in {"counted", "merged", "printed", "defined"}
  BY DEF VarVerdict
<1>3. CASE ver = "defined"
  <2>1. SemaVar(scs, n, st, id) = Define(scs, s)
    BY <1>3 DEF SemaVar
  <2>2. t \in BOOLEAN
    OBVIOUS
  <2> HIDE DEF t
  <2>3. s \in Symbols /\ s.name = n /\ s.kind = "var" /\ s.obj = id
    BY <2>2 DEF Symbols
  <2> HIDE DEF s
  <2>4. \E U : /\ Touches(scs, Define(scs, s), U)
               /\ \A d : Same(s, d) => Others(U, S, d) /\ Tabled(d, U)
               /\ \A y \in 1..Len(U) : U[y] = s \/ \E x \in 1..Len(S) : U[y] = S[x]
    BY <2>3, DefineIs
  <2>5. \A d : d.name = n /\ ~IsTag(d) => Same(s, d)
    BY <2>3 DEF Same, IsTag
  <2>6. PICK U : /\ Touches(scs, Define(scs, s), U)
                 /\ \A d : Same(s, d) => Others(U, S, d) /\ Tabled(d, U)
                 /\ \A y \in 1..Len(U) : U[y] = s \/ \E x \in 1..Len(S) : U[y] = S[x]
    BY <2>4
  <2> HIDE DEF S
  <2>7. \A d : d.name = n /\ ~IsTag(d) => Others(U, S, d)
    BY <2>5, <2>6
  <2>8. \A y \in 1..Len(U) : \/ U[y].kind = "var" /\ U[y].obj = id
                             \/ \E x \in 1..Len(S) : Twin(U[y], S[x])
    BY <2>3, <2>6 DEF Twin
  <2>9. QED
    BY <2>1, <2>6, <2>7, <2>8 DEF S, Varies
<1>4. CASE ver = "merged"
  <2>1. SemaVar(scs, n, st, id) = [scs EXCEPT ![Len(scs)] = T]
    BY <1>4 DEF SemaVar
  <2>2. ASSUME NEW i \in 1..Len(S) PROVE T[i] \in Symbols /\ Twin(T[i], S[i])
    <3>1. S[i] \in Symbols
      BY <1>1
    <3>2. CASE S[i] = old
      <4> DEFINE b == S[i].tent /\ st # "init"
      <4>1. b \in BOOLEAN
        OBVIOUS
      <4>2. T[i] = [S[i] EXCEPT !.tent = b]
        BY <1>1, <3>2
      <4> HIDE DEF b
      <4>3. [S[i] EXCEPT !.tent = b] \in Symbols /\ Twin([S[i] EXCEPT !.tent = b], S[i])
        BY <3>1, <4>1 DEF Symbols, Twin
      <4>4. QED
        BY <4>2, <4>3
    <3>3. CASE S[i] # old
      BY <1>1, <3>1, <3>3 DEF Twin
    <3>4. QED
      BY <3>2, <3>3
  <2>3. T \in Seq(Symbols) /\ Len(T) = Len(S)
    <3>1. T \in [1..Len(S) -> Symbols]
      BY <1>1, <2>2
    <3> DEFINE m == Len(S)
    <3>2. m \in Nat /\ T \in [1..m -> Symbols] /\ m = Len(S)
      BY <1>1, <3>1
    <3> HIDE DEF T, S, m
    <3>3. QED
      BY <3>2, SMTT(30)
  <2> HIDE DEF T
  <2>4. Touches(scs, [scs EXCEPT ![Len(scs)] = T], T)
    BY <2>3, TouchesIs
  <2>5. \A d : Others(T, S, d)
    BY <2>2, <2>3 DEF Others
  <2>6. QED
    BY <2>1, <2>2, <2>3, <2>4, <2>5 DEF Varies
<1>5. CASE ver \in {"counted", "printed"}
  <2>1. SemaVar(scs, n, st, id) = scs
    BY <1>5 DEF SemaVar
  <2>2. Touches(scs, scs, S) /\ \A d : Others(S, S, d)
    BY TouchesNot
  <2>3. \A y \in 1..Len(S) : Twin(S[y], S[y])
    BY DEF Twin
  <2>4. QED
    BY <2>1, <2>2, <2>3 DEF Varies
<1>6. QED
  BY <1>2, <1>3, <1>4, <1>5

\* The name of d is odd, or new in the scope and s stands for it alike.
LEMMA MatchDefines ==
  ASSUME NEW cs, NEW cs2, NEW d, Declares(cs, cs2, d),
         NEW scs \in Seq(Seq(Symbols)), Len(scs) # 0, Len(scs) # 2,
         Matching(scs, cs), Lang(Len(scs)) = Len(cs),
         \A c \in cs[Len(cs)] : Same(c, d) => c.kind # "param",
         NEW s \in Symbols, Same(s, d),
         \/ OddTo(cs2, d.name, Len(cs))
         \/ Alike(s, d) /\ \A c \in cs[Len(cs)] : ~Same(c, d)
  PROVE  /\ Matching(Define(scs, s), cs2)
         /\ Define(scs, s) \in Seq(Seq(Symbols)) /\ Len(Define(scs, s)) = Len(scs)
<1> DEFINE k    == Len(cs)
           P    == Len(scs)
           scs2 == Define(scs, s)
<1>1. PICK T : /\ Touches(scs, scs2, T)
               /\ \A a : Same(s, a) => Others(T, scs[P], a) /\ Tabled(a, T)
               /\ \A y \in 1..Len(T) : T[y] = s \/ \E x \in 1..Len(scs[P]) : T[y] = scs[P][x]
  BY DefineIs
<1>2. Others(T, scs[P], d) /\ Tabled(d, T)
  BY <1>1
<1>3. /\ P \in Nat \ {0} /\ Len(scs2) = P /\ scs2[P] = T /\ scs2 \in Seq(Seq(Symbols))
      /\ \A p \in 1..P : p # P => scs2[p] = scs[p]
  BY <1>1 DEF Touches
<1>4. k \in 1..Len(cs) /\ k = Len(cs)
  BY DEF Declares
<1> HIDE DEF scs2
<1>5. ASSUME ~OddTo(cs2, d.name, k),
             NEW p \in 1..Len(scs2), NEW x \in 1..Len(scs2[p]), Lang(p) = k,
             Same(scs2[p][x], d)
      PROVE  Alike(scs2[p][x], d)
  <2>1. ~OddTo(cs, d.name, k) /\ Alike(s, d) /\ \A c \in cs[k] : ~Same(c, d)
    BY <1>4, <1>5, OddGrows
  <2>2. ASSUME NEW z \in 1..Len(scs[p]), scs2[p][x] = scs[p][z] PROVE FALSE
    <3>1. OddTo(cs, scs[p][z].name, k) \/ Declared(scs[p][z], cs[k])
      BY <1>3, <1>5 DEF Matching, SymsMatch
    <3>2. scs[p][z].name = d.name
      BY <1>5, <2>2, SameFacts
    <3>3. PICK c \in cs[k] : Same(scs[p][z], c)
      BY <2>1, <3>1, <3>2 DEF Declared
    <3>4. QED
      BY <1>5, <2>1, <2>2, <3>3, SameFacts
  <2>3. scs2[p][x] = s
    <3>1. CASE p = P
      BY <1>1, <1>3, <2>2, <3>1
    <3>2. CASE p # P
      BY <1>3, <2>2, <3>2
    <3>3. QED
      BY <3>1, <3>2
  <2>4. QED
    BY <2>1, <2>3
<1>6. Matching(scs2, cs2)
  BY <1>1, <1>2, <1>5, MatchDeclares
<1>7. QED
  BY <1>3, <1>6 DEF scs2

\* The name is odd and sema does nothing.
LEMMA MatchOdd ==
  ASSUME NEW cs, NEW cs2, NEW d, Declares(cs, cs2, d),
         NEW scs \in Seq(Seq(Symbols)), Len(scs) # 0, Len(scs) # 2,
         Matching(scs, cs), Lang(Len(scs)) = Len(cs),
         \A c \in cs[Len(cs)] : Same(c, d) => c.kind # "param",
         OddTo(cs2, d.name, Len(cs))
  PROVE  Matching(scs, cs2)
<1>1. Touches(scs, scs, scs[Len(scs)]) /\ Others(scs[Len(scs)], scs[Len(scs)], d)
  BY TouchesNot
<1>2. QED
  BY <1>1, MatchDeclares

\* A variable or function of file scope.
LEMMA MatchGlobal ==
  ASSUME NEW cs, NEW cs2, NEW d, Declares(cs, cs2, d), Len(cs) = 1, Outer(cs),
         NEW scs, NEW scs2, NEW T, Touches(scs, scs2, T), Len(scs) = 1,
         Others(T, scs[1], d), Matching(scs, cs),
         Ordinary(d), d.obj = 0,
         \A c \in cs[1] : Same(c, d) => Ordinary(c) /\ c.kind # "param",
         \A y \in 1..Len(T) :
           Same(T[y], d) => \/ Ordinary(T[y]) /\ T[y].obj = 0
                            \/ \E x \in 1..Len(scs[1]) : Twin(T[y], scs[1][x])
  PROVE  Matching(scs2, cs2)
<1>1. scs2[1] = T /\ Len(scs2) = 1 /\ 1 \in 1..Len(cs)
  BY DEF Touches
<1>2. ASSUME NEW x \in 1..Len(scs[1]), Same(scs[1][x], d), ~OddTo(cs, d.name, 1)
      PROVE  Alike(scs[1][x], d)
  <2>1. OddTo(cs, scs[1][x].name, 1) \/ Declared(scs[1][x], cs[1])
    BY LangFacts DEF Matching, SymsMatch
  <2>2. scs[1][x].name = d.name
    BY <1>2, SameFacts
  <2>3. PICK c \in cs[1] : Same(scs[1][x], c) /\ Alike(scs[1][x], c)
    BY <1>2, <2>1, <2>2 DEF Declared
  <2>4. Same(c, d)
    BY <1>2, <2>3, SameFacts
  <2>5. Ordinary(c) /\ c.obj = 0
    BY <2>4 DEF Outer
  <2>6. QED
    BY <2>3, <2>5 DEF Alike, Ordinary
<1>3. ASSUME ~OddTo(cs2, d.name, 1), NEW y \in 1..Len(T), Same(T[y], d)
      PROVE  Alike(T[y], d)
  <2>1. ~OddTo(cs, d.name, 1)
    BY <1>1, <1>3, OddGrows
  <2>2. CASE Ordinary(T[y]) /\ T[y].obj = 0
    BY <2>2 DEF Alike, Ordinary
  <2>3. CASE \E x \in 1..Len(scs[1]) : Twin(T[y], scs[1][x])
    <3>1. PICK x \in 1..Len(scs[1]) : Twin(T[y], scs[1][x])
      BY <2>3
    <3>2. Alike(scs[1][x], d)
      BY <1>2, <1>3, <2>1, <3>1, SameFacts
    <3>3. QED
      BY <3>1, <3>2, SameFacts
  <2>4. QED
    BY <1>3, <2>2, <2>3
<1>4. \/ OddTo(cs2, d.name, Len(cs))
      \/ \A p \in 1..Len(scs2) : \A x \in 1..Len(scs2[p]) :
           Lang(p) = Len(cs) /\ Same(scs2[p][x], d) => Alike(scs2[p][x], d)
  BY <1>1, <1>3
<1>5. /\ \A c \in cs[Len(cs)] : Same(c, d) => c.kind # "param"
      /\ Others(T, scs[Len(scs)], d) /\ Lang(Len(scs)) = Len(cs) /\ Len(scs) # 2
      /\ Tabled(d, T) \/ (Len(cs) = 1 /\ Ordinary(d))
  BY LangFacts
<1>6. QED
  BY <1>4, <1>5, MatchDeclares

(***************************************************************************)
(* The properties.                                                         *)
(***************************************************************************)
LEMMA GreatestOf ==
  ASSUME NEW S \in SUBSET Nat, S # {}, NEW n \in Nat, \A x \in S : x <= n
  PROVE  Max(S) \in S /\ \A y \in S : Max(S) >= y
<1> DEFINE Gaps == {n - x : x \in S}
           m == Min(Gaps)
<1>a. \A x \in S : n - x \in Nat
  OBVIOUS
<1>1. Gaps \in SUBSET Nat /\ Gaps # {}
  BY <1>a
<1>2. m \in Gaps /\ \A k \in 0..m - 1 : k \notin Gaps
  BY <1>1, LeastOf
<1> HIDE DEF m
<1>3. PICK x \in S : m = n - x
  BY <1>2
<1>4. ASSUME NEW y \in S PROVE x >= y
  <2>1. n - y \in Gaps
    OBVIOUS
  <2> HIDE DEF Gaps
  <2>2. n - y \in Nat /\ n - x \in Nat
    OBVIOUS
  <2>3. QED
    BY <1>2, <1>3, <2>1, <2>2
<1>5. \E z \in S : \A y \in S : z >= y
  BY <1>4
<1>6. QED
  BY <1>5, Zenon DEF Max

LEMMA ShapeFacts ==
  ASSUME NamesTyped, Shape
  PROVE  /\ Len(scopes) \in Nat \ {0} /\ Len(cscopes) \in Nat \ {0} /\ Len(scopes) # 2
         /\ fn = "in" => Len(scopes) > 2 /\ Len(scopes) = Len(cscopes) + 1
         /\ fn = "none" => Len(scopes) = 1 /\ Len(cscopes) = 1
         /\ fn = "skipped" => Len(scopes) = 1 /\ Len(cscopes) > 1
         /\ fn # "skipped" => Lang(Len(scopes)) = Len(cscopes)
<1>1. /\ ctx \in Seq(Contexts) /\ scopes \in Seq(Seq(Symbols)) /\ cscopes \in Seq(SUBSET Decls)
      /\ fn \in {"none", "in", "skipped"}
  BY DEF NamesTyped
<1>2. Times(ctx, {"for"}) \in Nat /\ Len(ctx) \in Nat /\ Len(scopes) \in Nat /\ Len(cscopes) \in Nat
  BY <1>1, TimesSome
<1>3. fn = "none" => Times(ctx, {"for"}) = 0 /\ Len(ctx) = 0
  BY TimesEmpty DEF Shape
<1>4. fn # "none" => Len(ctx) # 0
  BY <1>1 DEF Shape
<1>5. /\ Len(cscopes) = 1 + Len(ctx) + Times(ctx, {"for"})
      /\ Len(scopes) = (IF fn = "in" THEN Len(cscopes) + 1 ELSE 1)
  BY DEF Shape
<1>6. /\ fn = "in" => Len(scopes) > 2 /\ Len(scopes) = Len(cscopes) + 1
      /\ fn = "none" => Len(scopes) = 1 /\ Len(cscopes) = 1
      /\ fn = "skipped" => Len(scopes) = 1 /\ Len(cscopes) > 1
  BY <1>2, <1>3, <1>4, <1>5
<1>7. fn # "skipped" => Lang(Len(scopes)) = Len(cscopes)
  <2>1. CASE fn = "in"
    <3>1. Len(scopes) > 2 /\ Len(scopes) - 1 = Len(cscopes)
      BY <1>2, <1>6, <2>1
    <3>2. QED
      BY <1>2, <3>1 DEF Lang
  <2>2. CASE fn = "none"
    BY <1>6, <2>2, LangFacts
  <2>3. QED
    BY <1>1, <2>1, <2>2
<1>8. Len(scopes) \in Nat \ {0} /\ Len(cscopes) \in Nat \ {0} /\ Len(scopes) # 2
  BY <1>2, <1>5, <1>6
<1>9. QED
  BY <1>6, <1>7, <1>8

\* A lookup of a name that is not odd finds what the language does.
LEMMA LookupAgrees ==
  ASSUME NamesTyped, Shape, fn # "skipped", Matching(scopes, cscopes), Outer(cscopes),
         NEW n \in Names, NEW tag \in BOOLEAN, ~OddTo(cscopes, n, Len(cscopes))
  PROVE  Alike(LookupIn(scopes, n, tag), CDecl(n, tag))
<1> DEFINE P == Len(scopes)
           K == Len(cscopes)
           Here(p) == FirstOf(scopes[p], n, tag)
           Is(s)  == s.name = n /\ IsTag(s) = tag
           Has(p) == \E i \in 1..Len(scopes[p]) : Is(scopes[p][i])
           found == {i \in DOMAIN scopes : Here(i) # None}
           at    == CScopesOf(n, tag)
<1>1. /\ scopes \in Seq(Seq(Symbols)) /\ cscopes \in Seq(SUBSET Decls)
      /\ P \in Nat \ {0} /\ K \in Nat \ {0} /\ Lang(P) = K
      /\ DOMAIN scopes = 1..P /\ DOMAIN cscopes = 1..K
      /\ \A p \in 1..P : scopes[p] \in Seq(Symbols)
  BY ShapeFacts DEF NamesTyped
<1>2. \A p \in 1..P : IF Has(p) THEN Here(p) # None /\ \E i \in 1..Len(scopes[p]) :
                                       Here(p) = scopes[p][i] /\ Is(scopes[p][i])
                      ELSE Here(p) = None
  <2>1. ASSUME NEW p \in 1..P
        PROVE  IF Has(p) THEN Here(p) # None /\ \E i \in 1..Len(scopes[p]) :
                                Here(p) = scopes[p][i] /\ Is(scopes[p][i])
               ELSE Here(p) = None
    <3>1. scopes[p] \in Seq(Symbols)
      BY <1>1
    <3> DEFINE v == scopes[p]
    <3> HIDE DEF v
    <3>2. v \in Seq(Symbols)
      BY <3>1 DEF v
    <3>3. IF \E i \in 1..Len(v) : Is(v[i])
          THEN FirstOf(v, n, tag) # None /\ \E i \in 1..Len(v) : FirstOf(v, n, tag) = v[i] /\ Is(v[i])
          ELSE FirstOf(v, n, tag) = None
      BY <3>2, FoundHere
    <3>4. QED
      BY <3>3 DEF v
  <2>2. QED
    BY <2>1
<1>3. LookupIn(scopes, n, tag) = IF found = {} THEN None ELSE Here(Max(found))
  BY DEF LookupIn, FirstOf
<1>4. /\ at = {q \in 1..K : CIn(q, n, tag) # {}}
      /\ \A q \in 1..K : CIn(q, n, tag) = {d \in cscopes[q] : Is(d)}
  BY <1>1 DEF CScopesOf, CIn
<1>5. CDecl(n, tag) = IF at = {} THEN None ELSE CHOOSE d \in CIn(Max(at), n, tag) : TRUE
  BY DEF CDecl
<1>6. found = {p \in 1..P : Has(p)}
  BY <1>1, <1>2
<1>7. \A q \in 1..K : ~OddTo(cscopes, n, q)
  <2>1. \A q \in 1..K : \A j \in 1..q : j \in 1..K
    BY <1>1
  <2>2. QED
    BY <2>1 DEF OddTo
<1>8. \A p \in 1..P : Lang(p) \in 1..K
  BY <1>1, LangFacts
<1>9. \A s, d : Is(s) /\ Is(d) => Same(s, d)
  BY DEF Same
<1>10. \A s, d : Is(d) /\ Same(s, d) => Is(s)
  BY DEF Same
<1>11. \A s, d : Is(s) /\ Same(s, d) => Is(d)
  BY DEF Same
<1> HIDE DEF Here, Has, found, at, Is, P, K
\* What either side has, the other has.
<1>12. ASSUME NEW p \in 1..P, NEW i \in 1..Len(scopes[p]), Is(scopes[p][i])
       PROVE  /\ CIn(Lang(p), n, tag) # {}
              /\ \A d \in CIn(Lang(p), n, tag) : Alike(scopes[p][i], d)
  <2>1. OddTo(cscopes, scopes[p][i].name, Lang(p)) \/ Declared(scopes[p][i], cscopes[Lang(p)])
    BY DEF Matching, SymsMatch, P
  <2>2. Declared(scopes[p][i], cscopes[Lang(p)])
    BY <1>7, <1>8, <1>12, <2>1 DEF Is
  <2>3. CIn(Lang(p), n, tag) = {d \in cscopes[Lang(p)] : Is(d)}
    BY <1>4, <1>8
  <2>4. QED
    BY <1>9, <1>11, <1>12, <2>2, <2>3 DEF Declared
<1>13. ASSUME NEW q \in 1..K, NEW d \in CIn(q, n, tag)
       PROVE  (\E p \in 1..P : Lang(p) = q /\ Has(p)) \/ (q = 1 /\ Ordinary(d) /\ d.obj = 0)
  <2>1. d \in cscopes[q] /\ Is(d)
    BY <1>4
  <2>2. q \in 1..Lang(Len(scopes))
    BY <1>1 DEF P, K
  <2>3. \/ OddTo(cscopes, d.name, q)
        \/ \E p \in 1..Len(scopes) : Lang(p) = q /\ Tabled(d, scopes[p])
        \/ q = 1 /\ Ordinary(d)
    BY <2>1, <2>2 DEF Matching, DeclsMatch
  <2>4. ~OddTo(cscopes, d.name, q)
    BY <1>7, <2>1 DEF Is
  <2>5. \A p \in 1..P : Tabled(d, scopes[p]) => Has(p)
    BY <1>10, <2>1 DEF Tabled, Has
  <2>6. QED
    BY <2>1, <2>3, <2>4, <2>5 DEF Outer, P
<1>14. at # {} => Max(at) \in at /\ \A q \in at : Max(at) >= q
  <2>1. at \in SUBSET Nat /\ K \in Nat /\ \A q \in at : q <= K
    BY <1>1, <1>4
  <2>2. QED
    BY <2>1, GreatestOf
<1>15. found # {} => Max(found) \in found /\ \A p \in found : Max(found) >= p
  <2>1. found \in SUBSET Nat /\ P \in Nat /\ \A p \in found : p <= P
    BY <1>1, <1>6
  <2>2. QED
    BY <2>1, GreatestOf
<1> DEFINE m == Max(at)
           d == CHOOSE c \in CIn(m, n, tag) : TRUE
<1>16. at # {} => m \in 1..K /\ CIn(m, n, tag) # {} /\ CDecl(n, tag) = d
  BY <1>4, <1>5, <1>14
<1>17. at # {} => d \in CIn(m, n, tag)
  BY <1>16
<1> HIDE DEF m, d
<1>18. CASE found = {}
  <2>1. \A p \in 1..P : ~Has(p)
    BY <1>6, <1>18
  <2>2. LookupIn(scopes, n, tag) = None
    BY <1>3, <1>18
  <2>3. CASE at = {}
    BY <1>5, <2>2, <2>3 DEF Alike
  <2>4. CASE at # {}
    <3>1. Ordinary(d) /\ d.obj = 0
      BY <1>13, <1>16, <1>17, <2>1, <2>4
    <3>2. QED
      BY <1>16, <2>2, <2>4, <3>1 DEF Alike, None, Ordinary
  <2>5. QED
    BY <2>3, <2>4
<1>19. CASE found # {}
  <2> DEFINE p == Max(found)
  <2>1. p \in 1..P /\ Has(p) /\ \A r \in 1..P : Has(r) => p >= r
    BY <1>6, <1>15, <1>19
  <2>2. LookupIn(scopes, n, tag) = Here(p)
    BY <1>3, <1>19
  <2> HIDE DEF p
  <2>3. PICK i \in 1..Len(scopes[p]) : Here(p) = scopes[p][i] /\ Is(scopes[p][i])
    BY <1>2, <2>1
  <2>4. /\ CIn(Lang(p), n, tag) # {}
        /\ \A c \in CIn(Lang(p), n, tag) : Alike(scopes[p][i], c)
    BY <1>12, <2>1, <2>3
  <2>5. Lang(p) \in at /\ Lang(p) \in 1..K
    BY <1>4, <1>8, <2>1, <2>4
  <2>6. m = Lang(p)
    <3>1. m >= Lang(p) /\ m \in 1..K
      BY <1>14, <1>16, <2>5 DEF m
    <3>2. ASSUME m > Lang(p) PROVE FALSE
      <4>1. m # 1
        BY <2>5, <3>1, <3>2
      <4>2. PICK r \in 1..P : Lang(r) = m /\ Has(r)
        BY <1>13, <1>17, <2>5, <3>1, <4>1
      <4>3. p >= r /\ p \in Nat \ {0} /\ r \in Nat \ {0}
        BY <2>1, <4>2
      <4>4. Lang(p) >= Lang(r)
        BY <4>3, LangFacts
      <4>5. QED
        BY <2>5, <3>1, <3>2, <4>2, <4>4
    <3>3. QED
      BY <2>5, <3>1, <3>2
  <2>7. QED
    BY <1>16, <1>17, <2>2, <2>3, <2>4, <2>5, <2>6
<1>20. QED
  BY <1>18, <1>19

LEMMA OddIs ==
  ASSUME NamesTyped, NEW n
  PROVE  Odd(n) <=> OddTo(cscopes, n, Len(cscopes))
<1>1. DOMAIN cscopes = 1..Len(cscopes)
  BY DEF NamesTyped
<1>2. QED
  BY <1>1 DEF Odd, OddTo

LEMMA NamesFollow == NamesInv => NamesAgree
<1> SUFFICES ASSUME NamesInv, fn # "skipped", NEW n \in Names, NEW tag \in BOOLEAN, ~Odd(n)
             PROVE  LookupIn(scopes, n, tag).obj = CDecl(n, tag).obj
  BY DEF NamesAgree
<1>1. NamesTyped /\ Shape /\ Matching(scopes, cscopes) /\ Outer(cscopes)
  BY DEF NamesInv, Local
<1>2. Alike(LookupIn(scopes, n, tag), CDecl(n, tag))
  BY <1>1, OddIs, LookupAgrees
<1>3. QED
  BY <1>2 DEF Alike

LEMMA RefusalsFollow == NamesInv => RefusesOnlyRedeclaration
<1> SUFFICES ASSUME NamesInv PROVE RefusesOnlyRedeclaration
  OBVIOUS
<1>1. /\ NamesTyped /\ Shape /\ Matching(scopes, cscopes)
      /\ scopes \in Seq(Seq(Symbols)) /\ cscopes \in Seq(SUBSET Decls)
  BY DEF NamesInv, NamesTyped
<1> DEFINE P == Len(scopes)
           K == Len(cscopes)
<1>2. P \in Nat \ {0} /\ K \in Nat \ {0} /\ (fn # "skipped" => Lang(P) = K)
  BY <1>1, ShapeFacts
<1>3. ASSUME fn = "in", NEW n \in Names, ~Odd(n), ~ \E d \in CHere(n, FALSE) : d.kind = "param"
      PROVE  VarVerdict(scopes, n, "auto") = "defined" <=> CAllows(n, "var", "auto")
  <2> DEFINE v == [name |-> n, kind |-> "var"]
  <2>1. P > 2 /\ P = K + 1 /\ P \in 1..P /\ Lang(P) = K /\ K \in 1..K
    BY <1>1, <1>2, <1>3, ShapeFacts
  <2>a. v.name = n /\ v.kind = "var"
    OBVIOUS
  <2> HIDE DEF v
  <2>b. VarVerdict(scopes, n, "auto") = "defined" <=> ~Clash(scopes, n, "var")
    <3>1. /\ SemaVar(scopes, n, "auto", 0)
               = Define(scopes, [name |-> n, kind |-> "var", obj |-> 0, tent |-> FALSE])
          /\ VarVerdict(scopes, n, "auto") = "defined" <=> ~Clash(scopes, n, "var")
      <4>1. Len(scopes) > 1
        BY <1>2, <2>1
      <4>2. QED
        BY <1>1, <4>1, SemaVarLocal, Zenon
    <3>2. QED
      BY <3>1
  <2>2. VarVerdict(scopes, n, "auto") = "defined" <=> ~Clash(scopes, v.name, v.kind)
    BY <2>a, <2>b
  <2>3. Clash(scopes, v.name, v.kind) <=> Tabled(v, scopes[P])
    BY <1>1, <1>2, ClashMeans
  <2>4. CHere(n, FALSE) = {d \in cscopes[K] : Same(d, v)}
    BY <2>a DEF CHere, CIn, Same, IsTag
  <2>5. CAllows(n, "var", "auto") <=> CHere(n, FALSE) = {}
    <3>1. K # 1
      BY <2>1
    <3>2. QED
      BY <3>1 DEF CAllows
  <2>6. ~OddTo(cscopes, n, K)
    BY <1>1, <1>3, OddIs
  <2> HIDE DEF P, K
  <2>7. ASSUME Tabled(v, scopes[P]) PROVE \E d \in cscopes[K] : Same(d, v)
    <3>1. PICK x \in 1..Len(scopes[P]) : Same(scopes[P][x], v)
      BY <2>7 DEF Tabled
    <3>2. OddTo(cscopes, scopes[P][x].name, K) \/ Declared(scopes[P][x], cscopes[K])
      BY <1>1, <2>1 DEF Matching, SymsMatch, P
    <3>3. scopes[P][x].name = n
      BY <2>a, <3>1 DEF Same
    <3>4. PICK d \in cscopes[K] : Same(scopes[P][x], d)
      BY <2>6, <3>2, <3>3 DEF Declared
    <3>5. QED
      BY <3>1, <3>4, SameFacts
  <2>8. ASSUME NEW d \in cscopes[K], Same(d, v) PROVE Tabled(v, scopes[P])
    <3>1. d.name = n /\ d.kind # "param"
      <4>1. d \in CHere(n, FALSE)
        BY <2>4, <2>8
      <4>2. QED
        BY <1>3, <2>a, <2>8, <4>1 DEF Same
    <3>2. K # 1 /\ K \in 1..Lang(Len(scopes))
      BY <2>1 DEF P
    <3>3. PICK p \in 1..P : Lang(p) = K /\ Tabled(d, scopes[p])
      BY <1>1, <2>6, <3>1, <3>2 DEF Matching, DeclsMatch, P
    <3>4. PICK x \in 1..Len(scopes[p]) : Same(scopes[p][x], d)
      BY <3>3 DEF Tabled
    <3>5. p = P
      <4>1. ASSUME p # P PROVE FALSE
        <5>1. p \in Nat \ {0} /\ p < P /\ P \in Nat \ {0} /\ Lang(p) = Lang(P)
          BY <1>2, <2>1, <3>3, <4>1 DEF P
        <5>2. p = 2 /\ P = 3
          BY <5>1, LangFacts
        <5>3. K = 2 /\ P > 1
          BY <2>1, <5>2
        <5>4. d.kind = "param"
          BY <1>1, <3>4, <5>2, <5>3 DEF Matching, ParamsMatch, P
        <5>5. QED
          BY <3>1, <5>4
      <4>2. QED
        BY <4>1
    <3>6. Same(scopes[P][x], v)
      BY <2>8, <3>4, <3>5, SameFacts
    <3>7. QED
      BY <3>4, <3>5, <3>6 DEF Tabled
  <2>9. QED
    BY <2>2, <2>3, <2>4, <2>5, <2>7, <2>8
<1>4. ASSUME fn = "none", NEW n \in Names, CHere(n, FALSE) \cup CHere(n, TRUE) = {}
      PROVE  FuncAccepted(scopes, n) /\ VarVerdict(scopes, n, "init") = "defined"
  <2>1. P = 1 /\ K = 1 /\ Lang(1) = 1
    BY <1>1, <1>4, ShapeFacts, LangFacts
  <2>2. \A d \in cscopes[1] : d.name # n
    BY <1>4, <2>1 DEF CHere, CIn, IsTag
  <2>3. ~OddTo(cscopes, n, 1)
    BY <2>2 DEF OddTo
  <2>4. \A x \in 1..Len(scopes[1]) : scopes[1][x].name # n
    <3>1. ASSUME NEW x \in 1..Len(scopes[1]), scopes[1][x].name = n PROVE FALSE
      <4>1. OddTo(cscopes, scopes[1][x].name, 1) \/ Declared(scopes[1][x], cscopes[1])
        BY <1>1, <2>1 DEF Matching, SymsMatch
      <4>2. PICK d \in cscopes[1] : Same(scopes[1][x], d)
        BY <2>3, <3>1, <4>1 DEF Declared
      <4>3. QED
        BY <2>2, <3>1, <4>2, SameFacts
    <3>2. QED
      BY <3>1
  <2>5. LookupCurrent(scopes, n) = None
    BY <1>1, <2>1, <2>4, FoundCurrent, SMTT(30)
  <2>6. ~Clash(scopes, n, "var")
    <3>1. DOMAIN scopes[1] = 1..Len(scopes[1])
      BY <1>1, <2>1
    <3>2. QED
      BY <2>1, <2>4, <3>1 DEF Clash, Current
  <2>7. QED
    BY <2>5, <2>6 DEF FuncAccepted, VarVerdict, None
<1>5. QED
  BY <1>3, <1>4 DEF RefusesOnlyRedeclaration

\* What a name stands for is declared in the innermost scope that has it.
LEMMA InnermostIs ==
  ASSUME NamesTyped, NEW n, NEW tag \in BOOLEAN, CDecl(n, tag) # None
  PROVE  \E m \in 1..Len(cscopes) :
           /\ CDecl(n, tag) \in cscopes[m] /\ CDecl(n, tag).name = n /\ IsTag(CDecl(n, tag)) = tag
           /\ \A q \in 1..Len(cscopes) : \A d \in cscopes[q] :
                d.name = n /\ IsTag(d) = tag => q <= m
<1> DEFINE K  == Len(cscopes)
           at == CScopesOf(n, tag)
           m  == Max(at)
           d  == CHOOSE c \in CIn(m, n, tag) : TRUE
<1>1. K \in Nat /\ DOMAIN cscopes = 1..K
  BY DEF NamesTyped
<1>2. at = {q \in 1..K : CIn(q, n, tag) # {}}
  BY <1>1 DEF CScopesOf
<1>3. CDecl(n, tag) = IF at = {} THEN None ELSE d
  BY DEF CDecl
<1> HIDE DEF at, d
<1>4. at # {} /\ CDecl(n, tag) = d
  BY <1>3
<1>5. at \in SUBSET Nat /\ \A q \in at : q <= K
  BY <1>1, <1>2
<1>6. m \in at /\ \A q \in at : m >= q
  BY <1>1, <1>4, <1>5, GreatestOf
<1> HIDE DEF m
<1>7. m \in 1..K /\ CIn(m, n, tag) # {}
  BY <1>2, <1>6
<1>8. d \in CIn(m, n, tag)
  BY <1>7 DEF d
<1>9. ASSUME NEW q \in 1..K, NEW c \in cscopes[q], c.name = n, IsTag(c) = tag PROVE q <= m
  <2>1. q \in at
    BY <1>2, <1>9 DEF CIn
  <2>2. QED
    BY <1>1, <1>6, <1>7, <2>1
<1>10. d \in cscopes[m] /\ d.name = n /\ IsTag(d) = tag
  BY <1>8 DEF CIn
<1>11. QED
  BY <1>4, <1>7, <1>9, <1>10

\* local_find: the latest local of the name.
LEMMA LatestIs ==
  ASSUME vars \in Seq(Locals), NEW n
  PROVE  \/ LocalFind(n) = None /\ \A i \in 1..Len(vars) : vars[i].name # n
         \/ \E i \in 1..Len(vars) : /\ LocalFind(n) = vars[i] /\ vars[i].name = n
                                    /\ \A j \in 1..Len(vars) : j < i => vars[j].name # n
<1> DEFINE I == {i \in 1..Len(vars) : vars[i].name = n}
           P(i) == vars[i].name = n /\ \A j \in 1..i - 1 : ~(vars[j].name = n)
<1>1. Len(vars) \in Nat /\ DOMAIN vars = 1..Len(vars)
  OBVIOUS
<1>2. LocalFind(n) = IF \E i \in 1..Len(vars) : vars[i].name = n
                     THEN vars[CHOOSE i \in 1..Len(vars) : P(i)] ELSE None
  BY <1>1 DEF LocalFind, First
<1>3. CASE I # {}
  <2>1. I \in SUBSET Nat
    OBVIOUS
  <2> DEFINE m == Min(I)
  <2>2. m \in I /\ \A j \in 0..m - 1 : j \notin I
    BY <1>3, <2>1, LeastOf
  <2> HIDE DEF m
  <2>3. m \in 1..Len(vars) /\ P(m)
    BY <1>1, <2>2
  <2> HIDE DEF P
  <2>4. (CHOOSE i \in 1..Len(vars) : P(i)) \in 1..Len(vars)
        /\ P(CHOOSE i \in 1..Len(vars) : P(i))
    BY <2>3, Zenon
  <2>5. PICK i \in 1..Len(vars) : LocalFind(n) = vars[i] /\ P(i)
    BY <1>2, <1>3, <2>4
  <2>6. vars[i].name = n /\ \A j \in 1..Len(vars) : j < i => vars[j].name # n
    BY <2>5 DEF P
  <2>7. QED
    BY <2>5, <2>6
<1>4. CASE I = {}
  BY <1>2, <1>4
<1>5. QED
  BY <1>3, <1>4

LEMMA UsesFollow == NamesInv => UsesReachTheirObject
<1> SUFFICES ASSUME NamesInv, fn # "none", NEW n \in Names, CSees(n) # None, ~Odd(n),
                    ~ IF CSees(n).kind = "enum" THEN fn = "skipped" ELSE Stale(n)
             PROVE  CgSees(n) = CSees(n).obj
  BY DEF UsesReachTheirObject
<1> DEFINE K == Len(cscopes)
           d == CSees(n)
           f == LocalFind(n)
<1>1. /\ NamesTyped /\ Shape /\ Matching(scopes, cscopes) /\ Outer(cscopes)
      /\ Single(cscopes) /\ Rising(cscopes, count) /\ Sorted(vars, count)
      /\ Listed(cscopes, vars) /\ Owned(cscopes, vars)
  BY DEF NamesInv, Local
<1>2. /\ vars \in Seq(Locals) /\ count \in Nat /\ K \in Nat /\ DOMAIN cscopes = 1..K
      /\ fn \in {"in", "skipped"} /\ Len(vars) \in Nat
  BY DEF NamesInv, NamesTyped, FrameInv
<1>3. fn = "in" => Alike(Lookup(scopes, n), d)
  BY <1>1, OddIs, LookupAgrees DEF Lookup, CSees
<1>4. PICK m \in 1..K :
        /\ d \in cscopes[m] /\ d.name = n /\ IsTag(d) = FALSE
        /\ \A q \in 1..K : \A c \in cscopes[q] : c.name = n /\ IsTag(c) = FALSE => q <= m
  BY <1>1, InnermostIs DEF CSees
<1>5. ~d.odd
  BY <1>2, <1>4 DEF Odd
<1>6. \A i \in 1..K : \A c \in cscopes[i] : c.obj \in Nat
  <2>1. \A i \in 1..K : \A c \in cscopes[i] : c \in Decls
    BY <1>1 DEF NamesTyped
  <2>2. QED
    BY <2>1 DEF Decls
<1> HIDE DEF d, f, K
<1>7. CASE d.kind = "enum"
  <2>1. fn = "in"
    BY <1>2, <1>7 DEF d
  <2>2. QED
    BY <1>3, <1>7, <2>1 DEF CgSees, Alike, d
<1>8. CASE d.kind # "enum"
  <2>1. CgSees(n) = f.obj
    BY <1>3, <1>8 DEF CgSees, Alike, f
  <2>2. Ordinary(d)
    BY <1>4, <1>8 DEF Ordinary, IsTag
  <2>3. m # 1 => d.obj # 0 /\ \E x \in 1..Len(vars) : vars[x].obj = d.obj /\ vars[x].name = n
    <3>1. m # 1 => m \in 2..Len(cscopes)
      BY <1>2 DEF K
    <3>2. QED
      BY <1>1, <1>4, <1>5, <2>2, <3>1 DEF Listed
  <2>4. m = 1 => d.obj = 0
    BY <1>1, <1>4, <2>2 DEF Outer
  <2>5. CASE f = None /\ \A i \in 1..Len(vars) : vars[i].name # n
    <3>1. m = 1 /\ f.obj = 0
      BY <2>3, <2>5 DEF None
    <3>2. QED
      BY <2>1, <2>4, <3>1 DEF d
  <2>6. CASE \E i \in 1..Len(vars) : /\ f = vars[i] /\ vars[i].name = n
                                     /\ \A j \in 1..Len(vars) : j < i => vars[j].name # n
    <3>1. PICK i \in 1..Len(vars) : /\ f = vars[i] /\ vars[i].name = n
                                    /\ \A j \in 1..Len(vars) : j < i => vars[j].name # n
      BY <2>6
    <3>2. f.obj \in 1..count
      BY <1>1, <3>1 DEF Sorted
    <3>3. f # None
      BY <3>2 DEF None
    <3>4. f.obj \in Living
      BY <1>8, <3>3 DEF Stale, d, f
    <3>5. PICK j \in 1..K : \E c \in cscopes[j] : c.obj = f.obj
      BY <1>2, <3>4 DEF Living
    <3>6. PICK c \in cscopes[j] : c.obj = f.obj
      BY <3>5
    <3>7. c.name = n /\ Ordinary(c)
      BY <1>1, <3>1, <3>6 DEF Owned, K
    <3>8. IsTag(c) = FALSE /\ j <= m
      BY <1>4, <3>7 DEF Ordinary, IsTag
    <3>9. c.obj # 0 /\ j # 1 /\ m # 1
      BY <1>1, <1>2, <3>2, <3>6, <3>7, <3>8 DEF Outer
    <3>10. PICK x \in 1..Len(vars) : vars[x].obj = d.obj /\ vars[x].name = n
      BY <2>3, <3>9
    <3>11. f.obj >= d.obj
      <4>1. CASE x = i
        BY <1>4, <1>6, <3>1, <3>2, <3>10, <4>1
      <4>2. CASE x > i
        BY <1>1, <1>4, <1>6, <3>1, <3>2, <3>10, <4>2 DEF Sorted
      <4>3. x >= i
        BY <1>2, <3>1, <3>10
      <4>4. QED
        BY <4>1, <4>2, <4>3
    <3>12. j < m => f.obj < d.obj
      BY <1>1, <1>4, <2>3, <3>6, <3>9 DEF Rising, K
    <3>13. j = m
      BY <1>2, <1>4, <1>6, <3>2, <3>8, <3>11, <3>12
    <3>14. Same(c, d)
      BY <1>4, <3>7, <3>8 DEF Same
    <3>15. c = d
      BY <1>1, <1>4, <3>13, <3>14 DEF Single, K
    <3>16. QED
      BY <2>1, <3>6, <3>15 DEF d
  <2>7. QED
    BY <1>2, <2>5, <2>6, LatestIs DEF f
<1>9. QED
  BY <1>7, <1>8


(***************************************************************************)
(* The steps.                                                              *)
(***************************************************************************)
NamesOnly ==
  NamesTyped /\ Shape /\ Local(cscopes, vars, count) /\ Matching(scopes, cscopes)

\* What the invariant gives every step.
LEMMA InvFacts ==
  ASSUME NamesInv
  PROVE  /\ scopes \in Seq(Seq(Symbols)) /\ cscopes \in Seq(SUBSET Decls)
         /\ ctx \in Seq(Contexts) /\ fn \in {"none", "in", "skipped"}
         /\ vars \in Seq(Locals) /\ count \in Nat /\ next \in Nat
         /\ Len(scopes) \in Nat \ {0} /\ Len(cscopes) \in Nat \ {0} /\ Len(scopes) # 2
         /\ fn = "in" => Len(scopes) > 2 /\ Len(scopes) = Len(cscopes) + 1 /\ Len(cscopes) > 1
         /\ fn = "none" => Len(scopes) = 1 /\ Len(cscopes) = 1 /\ vars = << >> /\ ctx = << >>
         /\ fn = "skipped" => Len(scopes) = 1 /\ Len(cscopes) > 1
         /\ fn # "skipped" => Lang(Len(scopes)) = Len(cscopes)
         /\ Local(cscopes, vars, count) /\ Matching(scopes, cscopes) /\ Sorted(vars, count)
         /\ Outer(cscopes) /\ NamesTyped /\ Shape
<1>1. NamesTyped /\ Shape /\ FrameInv /\ Local(cscopes, vars, count) /\ Matching(scopes, cscopes)
  BY DEF NamesInv
<1>2. /\ scopes \in Seq(Seq(Symbols)) /\ cscopes \in Seq(SUBSET Decls)
      /\ ctx \in Seq(Contexts) /\ fn \in {"none", "in", "skipped"}
      /\ vars \in Seq(Locals) /\ count \in Nat /\ next \in Nat
  BY <1>1 DEF NamesTyped, FrameInv
<1>3. fn = "none" => vars = << >> /\ ctx = << >>
  BY <1>1 DEF Shape
<1>4. Sorted(vars, count) /\ Outer(cscopes)
  BY <1>1 DEF Local
<1>5. /\ Len(scopes) \in Nat \ {0} /\ Len(cscopes) \in Nat \ {0} /\ Len(scopes) # 2
      /\ fn = "in" => Len(scopes) > 2 /\ Len(scopes) = Len(cscopes) + 1
      /\ fn = "none" => Len(scopes) = 1 /\ Len(cscopes) = 1
      /\ fn = "skipped" => Len(scopes) = 1 /\ Len(cscopes) > 1
      /\ fn # "skipped" => Lang(Len(scopes)) = Len(cscopes)
  BY <1>1, ShapeFacts
<1>6. fn = "in" => Len(cscopes) > 1
  BY <1>5
<1>7. QED
  BY <1>1, <1>2, <1>3, <1>4, <1>5, <1>6

\* A declaration opens nothing.
LEMMA ShapeKept ==
  ASSUME Shape, ctx' = ctx, fn' = fn, loop' = loop, sw' = sw,
         Len(cscopes') = Len(cscopes), Len(scopes') = Len(scopes), fn = "none" => vars' = vars
  PROVE  Shape'
BY DEF Shape

\* A local in front, for the object that a declaration makes.
LEMMA ListingOne ==
  ASSUME NEW vs \in Seq(Locals), NEW cnt \in Nat, Sorted(vs, cnt),
         NEW v \in Locals, v.obj = cnt + 1,
         NEW k, k # 1, NEW d \in Decls, Ordinary(d), d.name = v.name,
         (d.obj = 0 /\ d.odd) \/ d.obj = v.obj
  PROVE  /\ Lists(vs, <<v>> \o vs, cnt, cnt + 1)
         /\ Listing(k, d, <<v>> \o vs, cnt, cnt + 1)
<1> DEFINE w == <<v>> \o vs
<1>1. cnt + 1 \in Nat /\ v.obj \in cnt + 1..cnt + 1
  OBVIOUS
<1>2. Lists(vs, w, cnt, cnt + 1) /\ \E y \in 1..Len(w) : w[y] = v
  BY <1>1, ListsOne
<1> HIDE DEF w
<1>3. PICK z \in 1..Len(w) : w[z] = v
  BY <1>2
<1>4. /\ \A i \in 1..Len(w) : w[i].obj \in 1..cnt + 1
      /\ \A i, j \in 1..Len(w) : i < j => w[i].obj > w[j].obj
  BY <1>2 DEF Lists, Sorted
<1>5. \A y \in 1..Len(w) : w[y].obj = d.obj => d.name = w[y].name
  <2>1. ASSUME NEW y \in 1..Len(w), w[y].obj = d.obj PROVE d.name = w[y].name
    <3>1. w[y].obj \in Nat /\ w[y].obj # 0
      BY <1>1, <1>4
    <3>2. w[y].obj = w[z].obj
      BY <1>3, <2>1, <3>1
    <3>3. y = z
      BY <1>4, <3>1, <3>2
    <3>4. QED
      BY <1>3, <3>3
  <2>2. QED
    BY <2>1
<1>6. d.odd \/ \E y \in 1..Len(w) : w[y].obj = d.obj /\ w[y].name = d.name
  BY <1>3
<1>7. d.obj = 0 \/ d.obj \in cnt + 1..cnt + 1
  BY <1>1
<1>8. Listing(k, d, w, cnt, cnt + 1)
  BY <1>5, <1>6, <1>7 DEF Listing
<1>9. QED
  BY <1>2, <1>8 DEF w

\* An enumerator or a tag takes a number that no local has.
LEMMA ListingInner ==
  ASSUME NEW vs \in Seq(Locals), NEW cnt \in Nat, Sorted(vs, cnt),
         NEW k, NEW d \in Decls, ~Ordinary(d), d.obj = cnt + 1
  PROVE  /\ Lists(vs, vs, cnt, cnt + 1) /\ Listing(k, d, vs, cnt, cnt + 1)
         /\ Sorted(vs, cnt + 1)
<1>1. cnt + 1 \in Nat /\ cnt <= cnt + 1
  OBVIOUS
<1>2. Lists(vs, vs, cnt, cnt + 1)
  BY <1>1, ListsNone
<1>3. \A y \in 1..Len(vs) : vs[y].obj # d.obj
  BY DEF Sorted
<1>4. d.obj \in cnt + 1..cnt + 1
  OBVIOUS
<1>5. Listing(k, d, vs, cnt, cnt + 1)
  BY <1>3, <1>4 DEF Listing
<1>6. QED
  BY <1>2, <1>5 DEF Lists

\* resolve_type: what it does not define is odd.
LEMMA ResolveMatches ==
  ASSUME NamesInv, fn # "skipped", NEW inner \in Inners, NEW id \in Nat,
         CHere(inner.name, IsTag(inner)) = {},
         NEW odd \in BOOLEAN, Hides(inner) => odd,
         NEW cs2, Declares(cscopes, cs2, D(inner.name, inner.kind, id, TRUE, odd))
  PROVE  LET scs2 == Resolve(scopes, inner, id) IN
         Matching(scs2, cs2) /\ scs2 \in Seq(Seq(Symbols)) /\ Len(scs2) = Len(scopes)
<1> DEFINE d    == D(inner.name, inner.kind, id, TRUE, odd)
           s    == [name |-> inner.name, kind |-> inner.kind, obj |-> id, tent |-> FALSE]
           K    == Len(cscopes)
           seen == LookupIn(scopes, inner.name, IsTag(inner))
           cd   == CDecl(inner.name, IsTag(inner))
<1>1. /\ inner.name \in Names /\ inner.kind \in {"enum", "tag"} /\ IsTag(inner) \in BOOLEAN
  BY DEF Inners, IsTag
<1>2. /\ d.name = inner.name /\ d.kind = inner.kind /\ d.obj = id /\ d.odd = odd
      /\ Same(s, d) /\ Alike(s, d) /\ s \in Symbols
  BY <1>1 DEF D, Same, Alike, Symbols, IsTag
<1>3. CHere(inner.name, IsTag(inner)) = {c \in cscopes[K] : Same(c, d)}
  BY <1>1, <1>2 DEF CHere, CIn, Same, IsTag
<1> HIDE DEF d, s
<1>4. \A c \in cscopes[K] : ~Same(c, d)
  BY <1>3
<1>5. /\ scopes \in Seq(Seq(Symbols)) /\ Len(scopes) # 0 /\ Len(scopes) # 2 /\ K \in 1..K
      /\ Matching(scopes, cscopes) /\ Lang(Len(scopes)) = K /\ NamesTyped /\ Shape /\ Outer(cscopes)
  BY InvFacts
<1>6. Declares(cscopes, cs2, d)
  BY DEF d
<1>7. CASE seen.kind = inner.kind
  <2>1. Resolve(scopes, inner, id) = scopes
    BY <1>7 DEF Resolve
  <2>2. OddTo(cs2, d.name, K)
    <3>1. CASE odd
      BY <1>2, <1>5, <1>6, <3>1, OddGrows
    <3>2. CASE ~odd
      <4>1. cd.kind # inner.kind
        BY <3>2 DEF Hides
      <4>2. ~Alike(seen, cd)
        BY <1>1, <1>7, <4>1 DEF Alike
      <4>3. OddTo(cscopes, inner.name, K)
        BY <1>1, <1>5, <4>2, LookupAgrees
      <4>4. QED
        BY <1>2, <1>5, <1>6, <4>3, OddGrows
    <3>3. QED
      BY <3>1, <3>2
  <2>3. Matching(scopes, cs2)
    BY <1>4, <1>5, <1>6, <2>2, MatchOdd
  <2>4. QED
    BY <1>5, <2>1, <2>3
<1>8. CASE seen.kind # inner.kind
  <2>1. Resolve(scopes, inner, id) = Define(scopes, s)
    BY <1>8 DEF Resolve, s
  <2>2. /\ Matching(Define(scopes, s), cs2)
        /\ Define(scopes, s) \in Seq(Seq(Symbols)) /\ Len(Define(scopes, s)) = Len(scopes)
    BY <1>2, <1>4, <1>5, <1>6, MatchDefines
  <2>3. QED
    BY <2>1, <2>2
<1>9. QED
  BY <1>7, <1>8


LEMMA TypeOnlyNames ==
  ASSUME NamesInv, NEW inner \in Inners, NEW typedef \in BOOLEAN,
         DeclareTypeOnly(inner, typedef)
  PROVE  NamesOnly'
<1> DEFINE odd == Hides(inner) \/ typedef \/ fn # "none"
           d   == D(inner.name, inner.kind, count + 1, TRUE, odd)
           cs2 == CDeclare(cscopes, d)
           K   == Len(cscopes)
<1>1. /\ CHere(inner.name, IsTag(inner)) = {} /\ cscopes' = cs2 /\ count' = count + 1
      /\ scopes' = IF fn = "none" /\ ~typedef THEN Resolve(scopes, inner, count + 1) ELSE scopes
      /\ loop' = loop /\ sw' = sw /\ fn' = fn /\ vars' = vars /\ ctx' = ctx
  BY DEF DeclareTypeOnly, cg
<1>2. /\ scopes \in Seq(Seq(Symbols)) /\ cscopes \in Seq(SUBSET Decls)
      /\ ctx \in Seq(Contexts) /\ fn \in {"none", "in", "skipped"} /\ Shape
      /\ vars \in Seq(Locals) /\ count \in Nat /\ Sorted(vars, count)
      /\ Len(scopes) # 0 /\ Len(scopes) # 2 /\ K \in Nat /\ K # 0 /\ K \in 1..K
      /\ fn # "skipped" => Lang(Len(scopes)) = K
      /\ fn = "skipped" => Len(scopes) = 1 /\ K > 1
      /\ Local(cscopes, vars, count) /\ Matching(scopes, cscopes)
  BY InvFacts
<1>3. inner.name \in Names /\ inner.kind \in {"enum", "tag"} /\ odd \in BOOLEAN
  BY DEF Inners
<1> HIDE DEF odd
<1>4. d \in Decls /\ ~Ordinary(d) /\ d.obj = count + 1 /\ d.odd = odd /\ d.name = inner.name
      /\ d.kind = inner.kind
  BY <1>2, <1>3 DEF D, Decls, Ordinary
<1>5. CHere(inner.name, IsTag(inner)) = {c \in cscopes[K] : Same(c, d)}
  BY <1>4 DEF CHere, CIn, Same, IsTag
<1>6. Declares(cscopes, cs2, d)
  BY <1>2, <1>4, CDeclareIs
<1>7. Declares(cscopes, cs2, D(inner.name, inner.kind, count + 1, TRUE, odd))
  BY <1>6
<1> HIDE DEF d, cs2
<1>8. \A c \in cscopes[K] : ~Same(c, d)
  BY <1>1, <1>5
<1>9. cs2 \in Seq(SUBSET Decls) /\ Len(cs2) = K /\ (K > 1 => cs2[1] = cscopes[1])
  BY <1>2, <1>6 DEF Declares
<1>10. Local(cs2, vars, count + 1)
  <2>1. Lists(vars, vars, count, count + 1) /\ Listing(K, d, vars, count, count + 1)
    BY <1>2, <1>4, ListingInner
  <2>2. QED
    BY <1>2, <1>6, <2>1, LocalDeclares
<1>11. Matching(scopes', cs2) /\ scopes' \in Seq(Seq(Symbols)) /\ Len(scopes') = Len(scopes)
  <2>1. CASE fn = "none" /\ ~typedef
    <3>1. count + 1 \in Nat /\ (Hides(inner) => odd)
      BY <1>2 DEF odd
    <3>2. LET scs2 == Resolve(scopes, inner, count + 1) IN
          Matching(scs2, cs2) /\ scs2 \in Seq(Seq(Symbols)) /\ Len(scs2) = Len(scopes)
      BY <1>1, <1>3, <1>7, <2>1, <3>1, ResolveMatches
    <3>3. QED
      BY <1>1, <2>1, <3>2
  <2>2. CASE fn = "in" \/ (fn = "none" /\ typedef)
    <3>1. OddTo(cs2, d.name, K)
      BY <1>2, <1>4, <1>6, <2>2, OddGrows DEF odd
    <3>2. Matching(scopes, cs2)
      BY <1>2, <1>6, <1>8, <2>2, <3>1, MatchOdd
    <3>3. QED
      BY <1>1, <1>2, <2>2, <3>2
  <2>3. CASE fn = "skipped"
    <3>1. Matching(scopes, cs2)
      BY <1>2, <1>9, <2>3, MatchSkips
    <3>2. QED
      BY <1>1, <1>2, <2>3, <3>1
  <2>4. QED
    BY <1>2, <2>1, <2>2, <2>3
<1>12. Shape'
  BY <1>1, <1>2, <1>9, <1>11, ShapeKept
<1>13. NamesTyped'
  BY <1>1, <1>2, <1>9, <1>11 DEF NamesTyped
<1>14. QED
  BY <1>1, <1>10, <1>11, <1>12, <1>13 DEF NamesOnly

LEMMA GlobalNames ==
  ASSUME NamesInv, NEW n \in Names, NEW st \in {"tent", "init", "extern", "proto"},
         DeclareGlobal(n, st)
  PROVE  NamesOnly'
<1> DEFINE kind == IF st = "proto" THEN "func" ELSE "var"
           full == st = "init"
           d    == D(n, kind, 0, full, FALSE)
           cs2  == CDeclare(cscopes, d)
           scs2 == SemaVar(scopes, n, st, 0)
<1>1. /\ fn = "none" /\ CAllows(n, kind, st) /\ cscopes' = cs2 /\ count' = count + 1
      /\ scopes' = scs2
      /\ loop' = loop /\ sw' = sw /\ fn' = fn /\ vars' = vars /\ ctx' = ctx
  BY DEF DeclareGlobal, cg
<1>2. /\ scopes \in Seq(Seq(Symbols)) /\ cscopes \in Seq(SUBSET Decls)
      /\ ctx \in Seq(Contexts) /\ Shape /\ Outer(cscopes)
      /\ vars \in Seq(Locals) /\ vars = << >> /\ count \in Nat /\ Sorted(vars, count)
      /\ Len(scopes) = 1 /\ Len(cscopes) = 1 /\ Len(scopes) # 0 /\ Len(cscopes) # 0
      /\ Local(cscopes, vars, count) /\ Matching(scopes, cscopes)
  BY <1>1, InvFacts
<1>3. kind \in {"var", "func"} /\ full \in BOOLEAN
  OBVIOUS
<1>4. \A c \in CHere(n, FALSE) : c.kind = kind
  <2>1. (kind = "tag") = FALSE
    OBVIOUS
  <2>2. QED
    BY <1>1, <2>1 DEF CAllows
<1> HIDE DEF kind, full
<1>5. d \in Decls /\ Ordinary(d) /\ d.obj = 0 /\ d.name = n /\ ~IsTag(d)
  BY <1>3 DEF D, Decls, Ordinary, IsTag
<1>6. CHere(n, FALSE) = {c \in cscopes[1] : Same(c, d)}
  BY <1>2, <1>5 DEF CHere, CIn, Same, IsTag
<1>7. Declares(cscopes, cs2, d)
  BY <1>2, <1>5, CDeclareIs
<1> HIDE DEF d, cs2
<1>8. \A c \in cscopes[1] : Same(c, d) => Ordinary(c) /\ c.kind # "param"
  BY <1>3, <1>4, <1>6 DEF Ordinary
<1>9. cs2 \in Seq(SUBSET Decls) /\ Len(cs2) = 1
  BY <1>2, <1>7 DEF Declares
<1>10. Local(cs2, vars, count + 1)
  <2>1. count + 1 \in Nat /\ count <= count + 1
    BY <1>2
  <2>2. Lists(vars, vars, count, count + 1)
    BY <1>2, <2>1, ListsNone
  <2>3. Listing(1, d, vars, count, count + 1)
    BY <1>2, <1>5 DEF Listing
  <2>4. Listing(Len(cscopes), d, vars, count, count + 1) /\ Local(cscopes, vars, count)
    BY <1>2, <2>3
  <2>5. QED
    BY <1>7, <2>2, <2>4, LocalDeclares
<1>a. Varies(scopes, scs2, n, 0)
  BY <1>2, SemaVarAny
<1>11. PICK T : /\ Touches(scopes, scs2, T)
                /\ \A a : a.name = n /\ ~IsTag(a) => Others(T, scopes[1], a)
                /\ \A y \in 1..Len(T) : \/ T[y].kind = "var" /\ T[y].obj = 0
                                        \/ \E x \in 1..Len(scopes[1]) : Twin(T[y], scopes[1][x])
  BY <1>2, <1>a DEF Varies
<1> HIDE DEF scs2
<1>12. Matching(scs2, cs2)
  <2>1. Others(T, scopes[1], d)
    BY <1>5, <1>11
  <2>2. \A y \in 1..Len(T) :
          Same(T[y], d) => \/ Ordinary(T[y]) /\ T[y].obj = 0
                           \/ \E x \in 1..Len(scopes[1]) : Twin(T[y], scopes[1][x])
    BY <1>11 DEF Ordinary
  <2>3. QED
    BY <1>2, <1>5, <1>7, <1>8, <1>11, <2>1, <2>2, MatchGlobal
<1>13. scs2 \in Seq(Seq(Symbols)) /\ Len(scs2) = 1
  BY <1>2, <1>11 DEF Touches
<1>14. Shape'
  BY <1>1, <1>2, <1>9, <1>13, ShapeKept
<1>15. NamesTyped'
  BY <1>1, <1>2, <1>9, <1>13 DEF NamesTyped
<1>16. QED
  BY <1>1, <1>10, <1>12, <1>14, <1>15 DEF NamesOnly


\* In a function.
LEMMA InFunction ==
  ASSUME NamesInv, fn # "none"
  PROVE  LET K == Len(cscopes) IN
         /\ scopes \in Seq(Seq(Symbols)) /\ cscopes \in Seq(SUBSET Decls)
         /\ ctx \in Seq(Contexts) /\ fn \in {"in", "skipped"} /\ Shape
         /\ vars \in Seq(Locals) /\ count \in Nat /\ Sorted(vars, count) /\ next \in Nat
         /\ Len(scopes) # 0 /\ Len(scopes) # 2 /\ K > 1 /\ K \in Nat /\ K # 0 /\ K # 1 /\ 1 \in 1..K
         /\ fn = "in" => Len(scopes) > 2 /\ Len(scopes) > 1 /\ Len(scopes) = K + 1 /\ Lang(Len(scopes)) = K
         /\ fn = "skipped" => Len(scopes) = 1
         /\ Local(cscopes, vars, count) /\ Matching(scopes, cscopes)
<1> DEFINE K == Len(cscopes)
<1>1. fn \in {"in", "skipped"}
  BY InvFacts, Zenon
<1>2. K \in Nat /\ K > 1
  BY <1>1, InvFacts
<1>3. K # 0 /\ K # 1 /\ 1 \in 1..K
  BY <1>2
<1>4. fn = "in" => Len(scopes) > 2 /\ Len(scopes) > 1 /\ Len(scopes) = K + 1 /\ Lang(Len(scopes)) = K
  BY InvFacts
<1>5. Len(scopes) # 0 /\ Len(scopes) # 2 /\ (fn = "skipped" => Len(scopes) = 1)
  BY InvFacts
<1>6. /\ scopes \in Seq(Seq(Symbols)) /\ cscopes \in Seq(SUBSET Decls)
      /\ ctx \in Seq(Contexts) /\ Shape
      /\ vars \in Seq(Locals) /\ count \in Nat /\ Sorted(vars, count) /\ next \in Nat
      /\ Local(cscopes, vars, count) /\ Matching(scopes, cscopes)
  BY InvFacts, Zenon
<1>7. QED
  BY <1>1, <1>2, <1>3, <1>4, <1>5, <1>6

LEMMA LocalIs ==
  ASSUME NEW n \in Names, NEW id \in Nat, NEW below \in Nat, NEW type \in Types
  PROVE  /\ AutoVar(n, id, Slot(below, type)) \in Locals
         /\ AutoVar(n, id, Slot(below, type)).name = n
         /\ AutoVar(n, id, Slot(below, type)).obj = id
         /\ StaticVar(n, id) \in Locals /\ StaticVar(n, id).name = n /\ StaticVar(n, id).obj = id
<1>1. Slot(below, type) \in Slots
  BY SlotBelow
<1>2. [off |-> 0, size |-> 0, align |-> 1, extent |-> 0] \in Slots
  BY DEF Slots
<1>3. QED
  BY <1>1, <1>2 DEF AutoVar, StaticVar, Locals

LEMMA LocalNames ==
  ASSUME NamesInv, NEW n \in Names, NEW st \in {"auto", "static", "extern", "proto"},
         NEW type \in Types, DeclareLocal(n, st, type)
  PROVE  NamesOnly'
<1> DEFINE id  == count + 1
           kind == IF st = "proto" THEN "func" ELSE "var"
           odd == st \in {"extern", "proto"}
           obj == IF odd THEN 0 ELSE id
           d   == D(n, kind, obj, TRUE, odd)
           cs2 == CDeclare(cscopes, d)
           v   == IF st = "static" THEN StaticVar(n, id) ELSE AutoVar(n, id, Slot(next, type))
           s   == [name |-> n, kind |-> "var", obj |-> id, tent |-> FALSE]
           K   == Len(cscopes)
<1>1. /\ fn # "none" /\ CAllows(n, kind, st) /\ cscopes' = cs2 /\ count' = count + 1
      /\ scopes' = IF fn = "in" THEN SemaVar(scopes, n, st, id) ELSE scopes
      /\ vars' = <<v>> \o vars
      /\ loop' = loop /\ sw' = sw /\ fn' = fn /\ ctx' = ctx
  BY DEF DeclareLocal
<1>2. /\ scopes \in Seq(Seq(Symbols)) /\ cscopes \in Seq(SUBSET Decls)
      /\ ctx \in Seq(Contexts) /\ fn \in {"in", "skipped"} /\ Shape
      /\ vars \in Seq(Locals) /\ count \in Nat /\ Sorted(vars, count) /\ next \in Nat
      /\ Len(scopes) # 0 /\ Len(scopes) # 2 /\ K > 1 /\ K \in Nat /\ K # 0 /\ K # 1 /\ 1 \in 1..K
      /\ fn = "in" => Len(scopes) > 1 /\ Lang(Len(scopes)) = K
      /\ fn = "skipped" => Len(scopes) = 1
      /\ Local(cscopes, vars, count) /\ Matching(scopes, cscopes)
  BY <1>1, InFunction, Zenon
<1>3. id \in Nat /\ odd \in BOOLEAN /\ obj \in Nat /\ ((obj = 0 /\ odd) \/ obj = id)
      /\ kind \in {"var", "func"}
  BY <1>2
<1>4. v \in Locals /\ v.name = n /\ v.obj = id
  BY <1>2, <1>3, LocalIs
<1>5. CHere(n, FALSE) = {} \/ (odd /\ \A c \in CHere(n, FALSE) : c.kind \in {"var", "func"})
  <2>1. (kind = "tag") = FALSE
    BY <1>3
  <2>2. QED
    BY <1>1, <1>2, <1>3, <2>1 DEF CAllows
<1> HIDE DEF v, odd, obj, kind
<1>6. d \in Decls /\ Ordinary(d) /\ d.obj = obj /\ d.name = n /\ d.odd = odd /\ ~IsTag(d)
      /\ d.kind \in {"var", "func"}
  BY <1>3 DEF D, Decls, Ordinary, IsTag
<1>7. CHere(n, FALSE) = {c \in cscopes[K] : Same(c, d)}
  BY <1>6 DEF CHere, CIn, Same, IsTag
<1>8. Declares(cscopes, cs2, d)
  BY <1>2, <1>6, CDeclareIs
<1> HIDE DEF d, cs2
<1>9. \A c \in cscopes[K] : Same(c, d) => c.kind # "param" /\ odd
  BY <1>5, <1>7
<1>10. cs2 \in Seq(SUBSET Decls) /\ Len(cs2) = K /\ cs2[1] = cscopes[1]
  BY <1>2, <1>8 DEF Declares
<1>11. Local(cs2, <<v>> \o vars, count + 1)
  <2>1. v.obj = count + 1 /\ d.name = v.name /\ ((d.obj = 0 /\ d.odd) \/ d.obj = v.obj)
    BY <1>3, <1>4, <1>6
  <2>2. /\ Lists(vars, <<v>> \o vars, count, count + 1)
        /\ Listing(K, d, <<v>> \o vars, count, count + 1)
    BY <1>2, <1>4, <1>6, <2>1, ListingOne
  <2>3. QED
    BY <1>2, <1>8, <2>2, LocalDeclares
<1>12. Matching(scopes', cs2) /\ scopes' \in Seq(Seq(Symbols)) /\ Len(scopes') = Len(scopes)
  <2>1. CASE fn = "in"
    <3>1. scopes' = Define(scopes, s)
      <4>1. Len(scopes) > 1
        BY <1>2, <2>1
      <4>2. SemaVar(scopes, n, st, id) = Define(scopes, s)
        BY <1>2, <4>1, SemaVarLocal
      <4>3. QED
        BY <1>1, <2>1, <4>2
    <3>2. s \in Symbols /\ Same(s, d) /\ (obj = id => Alike(s, d))
      BY <1>3, <1>6 DEF Symbols, Same, Alike, IsTag
    <3> HIDE DEF s
    <3>3. \/ OddTo(cs2, d.name, K)
          \/ Alike(s, d) /\ \A c \in cscopes[K] : ~Same(c, d)
      <4>1. CASE odd
        BY <1>2, <1>6, <1>8, <4>1, OddGrows
      <4>2. CASE ~odd
        BY <1>3, <1>9, <3>2, <4>2
      <4>3. QED
        BY <4>1, <4>2
    <3>a. /\ \A c \in cscopes[K] : Same(c, d) => c.kind # "param"
          /\ Lang(Len(scopes)) = K
      BY <1>2, <1>9, <2>1
    <3>4. /\ Matching(Define(scopes, s), cs2)
          /\ Define(scopes, s) \in Seq(Seq(Symbols)) /\ Len(Define(scopes, s)) = Len(scopes)
      <4>1. /\ scopes \in Seq(Seq(Symbols)) /\ Len(scopes) # 0 /\ Len(scopes) # 2
            /\ Matching(scopes, cscopes)
        BY <1>2
      <4>2. s \in Symbols /\ Same(s, d)
        BY <3>2
      <4>3. QED
        BY <1>8, <3>a, <3>3, <4>1, <4>2, MatchDefines
    <3>5. QED
      BY <3>1, <3>4
  <2>2. CASE fn = "skipped"
    <3>1. Matching(scopes, cs2)
      BY <1>2, <1>10, <2>2, MatchSkips
    <3>2. QED
      BY <1>1, <1>2, <2>2, <3>1
  <2>3. QED
    BY <1>2, <2>1, <2>2
<1>13. Shape'
  BY <1>1, <1>2, <1>10, <1>12, ShapeKept
<1>14. NamesTyped'
  BY <1>1, <1>2, <1>10, <1>12 DEF NamesTyped
<1>15. QED
  BY <1>1, <1>11, <1>12, <1>13, <1>14 DEF NamesOnly

LEMMA WithNames ==
  ASSUME NamesInv, NEW n \in Names, NEW inner \in Inners, NEW type \in Types,
         DeclareWith(n, inner, type)
  PROVE  NamesOnly'
<1> DEFINE id   == count + 1
           odd  == Hides(inner)
           d    == D(inner.name, inner.kind, id, TRUE, odd)
           cs1  == CDeclare(cscopes, d)
           c    == D(n, "var", id + 1, TRUE, FALSE)
           cs2  == CDeclare(cs1, c)
           v    == AutoVar(n, id + 1, Slot(next, type))
           scs1 == Resolve(scopes, inner, id)
           s    == [name |-> n, kind |-> "var", obj |-> id + 1, tent |-> FALSE]
           K    == Len(cscopes)
<1>1. /\ fn # "none" /\ cscopes' = cs2 /\ count' = id + 1
      /\ inner.name # n /\ CHere(inner.name, IsTag(inner)) = {} /\ CHere(n, FALSE) = {}
      /\ scopes' = IF fn = "in" THEN SemaVar(scs1, n, "auto", id + 1) ELSE scopes
      /\ vars' = <<v>> \o vars
      /\ loop' = loop /\ sw' = sw /\ fn' = fn /\ ctx' = ctx
  BY DEF DeclareWith
<1>2. /\ scopes \in Seq(Seq(Symbols)) /\ cscopes \in Seq(SUBSET Decls)
      /\ ctx \in Seq(Contexts) /\ fn \in {"in", "skipped"} /\ Shape
      /\ vars \in Seq(Locals) /\ count \in Nat /\ Sorted(vars, count) /\ next \in Nat
      /\ Len(scopes) # 0 /\ Len(scopes) # 2 /\ K > 1 /\ K \in Nat /\ K # 0 /\ K # 1 /\ 1 \in 1..K
      /\ fn = "in" => Len(scopes) > 1 /\ Lang(Len(scopes)) = K
      /\ fn = "skipped" => Len(scopes) = 1
      /\ Local(cscopes, vars, count) /\ Matching(scopes, cscopes)
  BY <1>1, InFunction, Zenon
<1>3. id \in Nat /\ id + 1 \in Nat /\ id = count + 1 /\ odd \in BOOLEAN
      /\ inner.name \in Names /\ inner.kind \in {"enum", "tag"}
  BY <1>2 DEF Inners, Hides
<1> HIDE DEF id
<1>4. v \in Locals /\ v.name = n /\ v.obj = id + 1
  BY <1>2, <1>3, LocalIs
<1>a. odd = Hides(inner)
  OBVIOUS
<1> HIDE DEF v, odd
<1>5. d \in Decls /\ ~Ordinary(d) /\ d.obj = id /\ d.odd = odd /\ d.name = inner.name
      /\ d.kind = inner.kind
  BY <1>3 DEF D, Decls, Ordinary
<1>6. c \in Decls /\ Ordinary(c) /\ c.obj = id + 1 /\ c.name = n /\ ~IsTag(c) /\ c.kind = "var"
  BY <1>3 DEF D, Decls, Ordinary, IsTag
<1>7. /\ CHere(inner.name, IsTag(inner)) = {a \in cscopes[K] : Same(a, d)}
      /\ CHere(n, FALSE) = {a \in cscopes[K] : Same(a, c)}
  BY <1>5, <1>6 DEF CHere, CIn, Same, IsTag
<1>8. Declares(cscopes, cs1, d)
  BY <1>2, <1>5, CDeclareIs
<1>9. Declares(cscopes, cs1, D(inner.name, inner.kind, id, TRUE, odd))
  BY <1>8
<1> HIDE DEF d, cs1
<1>10. cs1 \in Seq(SUBSET Decls) /\ Len(cs1) = K /\ cs1[1] = cscopes[1]
  BY <1>2, <1>8 DEF Declares
<1>11. Declares(cs1, cs2, c)
  BY <1>2, <1>6, <1>10, CDeclareIs
<1> HIDE DEF c, cs2
<1>12. cs2 \in Seq(SUBSET Decls) /\ Len(cs2) = K /\ cs2[1] = cscopes[1]
  BY <1>2, <1>10, <1>11 DEF Declares
<1>13. \A a \in cs1[K] : ~Same(a, c)
  <2>1. PICK e : Adds(cscopes[K], e, d) /\ cs1[K] = {a \in cscopes[K] : ~Same(a, d)} \cup {e}
    BY <1>8 DEF Declares
  <2>2. e.name = inner.name
    BY <1>5, <2>1 DEF Adds
  <2>3. ~Same(e, c)
    BY <1>1, <1>6, <2>2 DEF Same
  <2>4. QED
    BY <1>1, <1>7, <2>1, <2>3
<1>14. Local(cs1, vars, id) /\ Sorted(vars, id)
  <2>1. /\ Lists(vars, vars, count, id) /\ Listing(K, d, vars, count, id)
        /\ Sorted(vars, id)
    BY <1>2, <1>3, <1>5, ListingInner
  <2>2. QED
    BY <1>2, <1>8, <2>1, LocalDeclares
<1>15. Local(cs2, <<v>> \o vars, id + 1)
  <2>1. c.name = v.name /\ c.obj = v.obj
    BY <1>4, <1>6
  <2>2. /\ Lists(vars, <<v>> \o vars, id, id + 1)
        /\ Listing(K, c, <<v>> \o vars, id, id + 1)
    BY <1>2, <1>3, <1>4, <1>6, <1>14, <2>1, ListingOne
  <2>3. QED
    BY <1>10, <1>11, <1>14, <2>2, LocalDeclares
<1>16. Matching(scopes', cs2) /\ scopes' \in Seq(Seq(Symbols)) /\ Len(scopes') = Len(scopes)
  <2>1. CASE fn = "in"
    <3>1. Matching(scs1, cs1) /\ scs1 \in Seq(Seq(Symbols)) /\ Len(scs1) = Len(scopes)
      BY <1>1, <1>3, <1>a, <1>9, <2>1, ResolveMatches
    <3> HIDE DEF scs1
    <3>2. /\ Len(scs1) > 1 /\ Len(scs1) # 0 /\ Len(scs1) # 2
          /\ Lang(Len(scs1)) = Len(cs1) /\ Len(cs1) = K
      BY <1>2, <1>10, <2>1, <3>1
    <3>3. scopes' = Define(scs1, s)
      <4>1. SemaVar(scs1, n, "auto", id + 1) = Define(scs1, s)
        BY <3>1, <3>2, SemaVarLocal
      <4>2. QED
        BY <1>1, <2>1, <4>1
    <3>4. s \in Symbols /\ Same(s, c) /\ Alike(s, c)
      BY <1>3, <1>6 DEF Symbols, Same, Alike, IsTag
    <3> HIDE DEF s
    <3>5. /\ Matching(Define(scs1, s), cs2)
          /\ Define(scs1, s) \in Seq(Seq(Symbols)) /\ Len(Define(scs1, s)) = Len(scs1)
      <4>1. /\ \A a \in cs1[Len(cs1)] : Same(a, c) => a.kind # "param"
            /\ Alike(s, c) /\ \A a \in cs1[Len(cs1)] : ~Same(a, c)
        BY <1>13, <3>2, <3>4
      <4>2. QED
        BY <1>11, <3>1, <3>2, <3>4, <4>1, MatchDefines
    <3>6. QED
      BY <3>1, <3>3, <3>5
  <2>2. CASE fn = "skipped"
    <3>1. Matching(scopes, cs2)
      BY <1>2, <1>12, <2>2, MatchSkips
    <3>2. QED
      BY <1>1, <1>2, <2>2, <3>1
  <2>3. QED
    BY <1>2, <2>1, <2>2
<1>17. Shape'
  BY <1>1, <1>2, <1>12, <1>16, ShapeKept
<1>18. NamesTyped'
  BY <1>1, <1>2, <1>12, <1>16 DEF NamesTyped
<1>19. QED
  BY <1>1, <1>15, <1>16, <1>17, <1>18 DEF NamesOnly


\* The locals of parameters, or of the first clause of a for, and their objects.
Gets(vs, vs2, ns, cnt) ==
  /\ Len(ns) \in Nat /\ Lists(vs, vs2, cnt, cnt + Len(ns))
  /\ \A i \in 1..Len(ns) : \E y \in 1..Len(vs2) : vs2[y].obj = cnt + i /\ vs2[y].name = ns[i]
ObjectsOf(ns, kind, cnt, odd) == {D(ns[i], kind, cnt + i, TRUE, odd) : i \in DOMAIN ns}

LEMMA AllocAllLists ==
  ASSUME NEW local, local.vars \in Seq(Locals), local.next \in Nat,
         NEW ns \in NameLists, NEW cnt \in Nat, NEW type \in Types, Sorted(local.vars, cnt)
  PROVE  Gets(local.vars, AllocAll(local, ns, cnt, type).vars, ns, cnt)
<1> DEFINE vs == local.vars
           r  == AllocAll(local, ns, cnt, type)
<1>1. cnt + 1 \in Nat /\ cnt + 2 \in Nat
  OBVIOUS
<1>2. CASE ns = << >>
  <2>1. Len(ns) = 0 /\ r = local /\ cnt + Len(ns) = cnt
    BY <1>2 DEF AllocAll
  <2>2. Lists(vs, vs, cnt, cnt)
    BY ListsNone
  <2>3. QED
    BY <2>1, <2>2 DEF Gets
<1>3. CASE \E n \in Names : ns = <<n>>
  <2>1. PICK n \in Names : ns = <<n>>
    BY <1>3
  <2> DEFINE v == AutoVar(n, cnt + 1, Slot(local.next, type))
  <2>2. v \in Locals /\ v.name = n /\ v.obj = cnt + 1
    BY <1>1, LocalIs
  <2>3. Len(ns) = 1 /\ ns[1] = n /\ r.vars = <<v>> \o vs
    BY <2>1 DEF AllocAll, Alloc
  <2> HIDE DEF v, r
  <2>4. v.obj \in cnt + 1..cnt + 1
    BY <1>1, <2>2
  <2>a. Lists(vs, <<v>> \o vs, cnt, cnt + 1) /\ \E y \in 1..Len(<<v>> \o vs) : (<<v>> \o vs)[y] = v
    BY <1>1, <2>2, <2>4, ListsOne
  <2>5. Lists(vs, r.vars, cnt, cnt + 1) /\ \E y \in 1..Len(r.vars) : r.vars[y] = v
    BY <2>3, <2>a
  <2>6. \A i \in 1..1 : \E y \in 1..Len(r.vars) : r.vars[y].obj = cnt + i /\ r.vars[y].name = ns[i]
    BY <2>2, <2>3, <2>5
  <2>7. QED
    BY <2>3, <2>5, <2>6 DEF r, Gets
<1>4. CASE ns \in Names \X Names
  <2> DEFINE v == AutoVar(ns[1], cnt + 1, Slot(local.next, type))
             a == Alloc(local, ns[1], cnt + 1, type)
             w == AutoVar(ns[2], cnt + 2, Slot(a.next, type))
  <2>1. Len(ns) = 2 /\ ns[1] \in Names /\ ns[2] \in Names
    BY <1>4
  <2>2. v \in Locals /\ v.name = ns[1] /\ v.obj = cnt + 1
    BY <1>1, <2>1, LocalIs
  <2>3. a.vars = <<v>> \o vs /\ a.next = Slot(local.next, type).off
    BY DEF Alloc
  <2>4. a.next \in Nat
    <3>1. Slot(local.next, type) \in Slots
      BY SlotBelow
    <3>2. QED
      BY <2>3, <3>1 DEF Slots
  <2>5. r.vars = <<w>> \o a.vars
    BY <2>1 DEF AllocAll, Alloc
  <2> HIDE DEF v, a, r
  <2>6. w \in Locals /\ w.name = ns[2] /\ w.obj = cnt + 2
    BY <1>1, <2>1, <2>4, LocalIs
  <2> HIDE DEF w
  <2>7. v.obj \in cnt + 1..cnt + 1 /\ w.obj \in cnt + 1 + 1..cnt + 2
    BY <2>2, <2>6
  <2>a. Lists(vs, <<v>> \o vs, cnt, cnt + 1) /\ \E y \in 1..Len(<<v>> \o vs) : (<<v>> \o vs)[y] = v
    BY <1>1, <2>2, <2>7, ListsOne
  <2>8. Lists(vs, a.vars, cnt, cnt + 1) /\ \E y \in 1..Len(a.vars) : a.vars[y] = v
    BY <2>3, <2>a
  <2>9. a.vars \in Seq(Locals) /\ Sorted(a.vars, cnt + 1)
    BY <2>8 DEF Lists
  <2>b. /\ Lists(a.vars, <<w>> \o a.vars, cnt + 1, cnt + 2)
        /\ \E y \in 1..Len(<<w>> \o a.vars) : (<<w>> \o a.vars)[y] = w
    <3> DEFINE c == cnt + 1
               e == cnt + 2
               u == a.vars
    <3>1. c \in Nat /\ e \in Nat /\ w.obj \in c + 1..e /\ u \in Seq(Locals) /\ Sorted(u, c)
          /\ w \in Locals
      BY <1>1, <2>6, <2>7, <2>9
    <3> HIDE DEF c, e, u
    <3>2. Lists(u, <<w>> \o u, c, e) /\ \E y \in 1..Len(<<w>> \o u) : (<<w>> \o u)[y] = w
      BY <3>1, ListsOne
    <3>3. QED
      BY <3>2 DEF c, e, u
  <2>10. Lists(a.vars, r.vars, cnt + 1, cnt + 2) /\ \E y \in 1..Len(r.vars) : r.vars[y] = w
    BY <2>5, <2>b
  <2>11. Lists(vs, r.vars, cnt, cnt + 2)
    BY <2>8, <2>10, ListsMore
  <2>12. \E y \in 1..Len(r.vars) : r.vars[y] = v
    BY <2>8, <2>10, Zenon DEF Lists
  <2>13. \A i \in 1..2 : \E y \in 1..Len(r.vars) : r.vars[y].obj = cnt + i /\ r.vars[y].name = ns[i]
    <3>1. \E y \in 1..Len(r.vars) : r.vars[y].obj = cnt + 1 /\ r.vars[y].name = ns[1]
      BY <2>2, <2>12
    <3>2. \E y \in 1..Len(r.vars) : r.vars[y].obj = cnt + 2 /\ r.vars[y].name = ns[2]
      BY <2>6, <2>10
    <3>3. \A i \in 1..2 : i = 1 \/ i = 2
      OBVIOUS
    <3>4. QED
      BY <3>1, <3>2, <3>3
  <2>14. QED
    BY <2>1, <2>11, <2>13 DEF r, Gets
<1>5. QED
  BY <1>2, <1>3, <1>4 DEF NameLists

\* The names of a list are distinct.
LEMMA NameListIs ==
  ASSUME NEW ns \in NameLists
  PROVE  /\ Len(ns) \in 0..2 /\ DOMAIN ns = 1..Len(ns) /\ \A i \in 1..Len(ns) : ns[i] \in Names
         /\ \A i, j \in 1..Len(ns) : ns[i] = ns[j] => i = j
<1>1. CASE ns = << >>
  BY <1>1
<1>2. CASE \E n \in Names : ns = <<n>>
  BY <1>2
<1>3. CASE ns \in {p \in Names \X Names : p[1] # p[2]}
  <2>1. Len(ns) = 2 /\ ns[1] \in Names /\ ns[2] \in Names /\ ns[1] # ns[2] /\ DOMAIN ns = 1..2
    BY <1>3
  <2>2. \A i \in 1..2 : i = 1 \/ i = 2
    OBVIOUS
  <2>3. QED
    BY <2>1, <2>2
<1>4. QED
  BY <1>1, <1>2, <1>3 DEF NameLists

\* A scope for them, of the language.
Made(ds, ns, kind, cnt, odd) ==
  /\ ds \in SUBSET Decls
  /\ \A d, e \in ds : Same(d, e) => d = e
  /\ \A d \in ds : \E i \in 1..Len(ns) :
       d.name = ns[i] /\ d.kind = kind /\ d.obj = cnt + i /\ (d.odd <=> odd)
  /\ \A i \in 1..Len(ns) : \E d \in ds : d.name = ns[i] /\ d.kind = kind /\ d.obj = cnt + i

LEMMA LocalEnters ==
  ASSUME NEW cs \in Seq(SUBSET Decls), Len(cs) # 0,
         NEW ns \in NameLists, NEW cnt \in Nat, NEW kind \in {"var", "param"}, NEW odd \in BOOLEAN,
         NEW vs, NEW vs2, Gets(vs, vs2, ns, cnt), Local(cs, vs, cnt),
         NEW ds, ds = ObjectsOf(ns, kind, cnt, odd), NEW cs2, cs2 = Append(cs, ds)
  PROVE  /\ Made(ds, ns, kind, cnt, odd)
         /\ Pushes(cs, cs2, ds) /\ Local(cs2, vs2, cnt + Len(ns))
<1> DEFINE E(i)  == D(ns[i], kind, cnt + i, TRUE, odd)
           made  == {E(i) : i \in 1..Len(ns)}
           cnt2  == cnt + Len(ns)
<1>a. /\ Len(ns) \in 0..2 /\ DOMAIN ns = 1..Len(ns) /\ \A i \in 1..Len(ns) : ns[i] \in Names
      /\ \A i, j \in 1..Len(ns) : ns[i] = ns[j] => i = j
  BY NameListIs, Zenon
<1>1. /\ Len(ns) \in Nat /\ DOMAIN ns = 1..Len(ns) /\ \A i \in 1..Len(ns) : ns[i] \in Names
      /\ \A i, j \in 1..Len(ns) : ns[i] = ns[j] => i = j
  BY <1>a
<1>2. \A i \in 1..Len(ns) : /\ E(i) \in Decls /\ E(i).name = ns[i] /\ E(i).obj = cnt + i
                            /\ E(i).kind = kind /\ E(i).odd = odd
                            /\ Ordinary(E(i)) /\ cnt + i \in cnt + 1..cnt + Len(ns)
  <2>1. ASSUME NEW i \in 1..Len(ns)
        PROVE  /\ E(i) \in Decls /\ E(i).name = ns[i] /\ E(i).obj = cnt + i
               /\ E(i).kind = kind /\ E(i).odd = odd
               /\ Ordinary(E(i)) /\ cnt + i \in cnt + 1..cnt + Len(ns)
    <3>1. cnt + i \in Nat /\ cnt + i \in cnt + 1..cnt + Len(ns) /\ ns[i] \in Names
      BY <1>1
    <3>2. QED
      BY <3>1 DEF D, Decls, Ordinary
  <2>2. QED
    BY <2>1
<1>6. ds = made
  BY <1>1 DEF ObjectsOf
<1> HIDE DEF E
<1>3. ds \in SUBSET Decls
  BY <1>2, <1>6
<1>4. \A d, e \in ds : Same(d, e) \/ d.obj = e.obj => d = e
  <2>1. ASSUME NEW i \in 1..Len(ns), NEW j \in 1..Len(ns), Same(E(i), E(j)) \/ E(i).obj = E(j).obj
        PROVE  i = j
    <3>1. CASE Same(E(i), E(j))
      BY <1>1, <1>2, <3>1 DEF Same
    <3>2. CASE E(i).obj = E(j).obj
      <4>1. cnt + i = cnt + j
        BY <1>2, <3>2
      <4>2. QED
        BY <1>1, <4>1
    <3>3. QED
      BY <2>1, <3>1, <3>2
  <2>2. QED
    BY <1>6, <2>1
<1>5. \A d \in ds : /\ d.obj \in cnt + 1..cnt2 /\ Ordinary(d)
                    /\ \E y \in 1..Len(vs2) : vs2[y].obj = d.obj /\ vs2[y].name = d.name
  BY <1>2, <1>6 DEF Gets
<1>7. Pushes(cs, cs2, ds) /\ Lists(vs, vs2, cnt, cnt2)
  BY <1>3, PushIs DEF Gets
<1> HIDE DEF made, cnt2
<1>8. Local(cs2, vs2, cnt2)
  BY <1>4, <1>5, <1>7, LocalPushes
<1>9. /\ \A d \in ds : \E i \in 1..Len(ns) :
           d.name = ns[i] /\ d.kind = kind /\ d.obj = cnt + i /\ d.odd = odd
      /\ \A i \in 1..Len(ns) : \E d \in ds :
           d.name = ns[i] /\ d.kind = kind /\ d.obj = cnt + i /\ d.odd = odd
  BY <1>2, <1>6 DEF made
<1>10. \A d, e \in ds : Same(d, e) => d = e
  BY <1>4
<1>11. QED
  BY <1>3, <1>7, <1>8, <1>9, <1>10, Zenon DEF cnt2, Made

\* An empty scope, of the language and of the symbol table.
LEMMA LocalOpens ==
  ASSUME NEW cs \in Seq(SUBSET Decls), Len(cs) # 0, NEW vs \in Seq(Locals), NEW cnt \in Nat,
         Local(cs, vs, cnt)
  PROVE  /\ Pushes(cs, Append(cs, {}), {}) /\ Local(Append(cs, {}), vs, cnt)
<1>1. Pushes(cs, Append(cs, {}), {})
  BY PushIs
<1>2. Lists(vs, vs, cnt, cnt)
  BY ListsNone DEF Local
<1>3. QED
  BY <1>1, <1>2, LocalPushes

LEMMA EntersIs ==
  ASSUME NEW scs \in Seq(Seq(Symbols)), Len(scs) # 0, NEW T \in Seq(Symbols)
  PROVE  Enters(scs, Append(scs, T), T)
BY DEF Enters

LEMMA MatchOpens ==
  ASSUME NEW cs, NEW cs2, Pushes(cs, cs2, {}), NEW scs, NEW scs2, Enters(scs, scs2, << >>),
         Matching(scs, cs), Lang(Len(scs)) = Len(cs), Len(scs) > 2
  PROVE  Matching(scs2, cs2)
<1>1. Len(scs) \in Nat /\ Len(scs2) = Len(scs) + 1 /\ Len(cs2) = Len(cs) + 1
  BY DEF Pushes, Enters
<1>2. Lang(Len(scs)) = Len(scs) - 1 /\ Lang(Len(scs2)) = Len(scs)
  BY <1>1 DEF Lang
<1>3. Lang(Len(scs2)) = Len(cs2) /\ Len(scs2) # 2
  BY <1>1, <1>2
<1>4. /\ \A y \in 1..Len(<< >>) : OddTo(cs2, << >>[y].name, Len(cs2)) \/ Declared(<< >>[y], {})
      /\ \A d \in {} : d.odd \/ Tabled(d, << >>)
  OBVIOUS
<1>5. QED
  BY <1>3, <1>4, MatchPushes

\* A construct put inside: how deep things are then.
LEMMA ShapeOpens ==
  ASSUME Shape, ctx \in Seq(Contexts), fn \in {"in", "skipped"}, fn' = fn,
         NEW k \in {"block", "loop", "for", "switch"}, ctx' = Append(ctx, k),
         Len(cscopes) \in Nat, Len(cscopes') = Len(cscopes) + 1 + One(k = "for"),
         Len(scopes') = IF fn = "in" THEN Len(cscopes') + 1 ELSE 1,
         fn = "in" => /\ loop' = loop + One(k \in {"loop", "for", "switch"})
                      /\ sw' = sw + One(k = "switch"),
         fn # "in" => loop' = loop /\ sw' = sw
  PROVE  Shape' /\ ctx' \in Seq(Contexts)
<1>1. k \in Contexts /\ k # "func"
  BY DEF Contexts
<1>2. /\ ctx' \in Seq(Contexts) /\ Len(ctx') = Len(ctx) + 1 /\ Len(ctx) \in Nat /\ Len(ctx) # 0
      /\ ctx'[Len(ctx) + 1] = k /\ \A i \in 1..Len(ctx) : ctx'[i] = ctx[i]
  <2>1. Len(ctx) # 0
    BY DEF Shape
  <2>2. QED
    BY <1>1, <2>1
<1>3. \A ks : Times(ctx, ks) \in Nat /\ Times(ctx', ks) = Times(ctx, ks) + One(k \in ks)
  BY <1>1, TimesAppend
<1>4. One(k \in {"for"}) = One(k = "for") /\ One(k \in {"switch"}) = One(k = "switch")
      /\ One(k = "for") \in Nat
  BY DEF One
<1>5. Len(cscopes') = 1 + Len(ctx') + Times(ctx', {"for"})
  <2>1. /\ Times(ctx, {"for"}) \in Nat
        /\ Times(ctx', {"for"}) = Times(ctx, {"for"}) + One(k = "for")
    BY <1>3, <1>4, SMTT(30)
  <2>2. Len(cscopes) = 1 + Len(ctx) + Times(ctx, {"for"})
    BY DEF Shape
  <2>3. QED
    BY <1>2, <1>4, <2>1, <2>2
<1>6. loop' = (IF fn' = "in" THEN Times(ctx', {"loop", "for", "switch"}) ELSE 0)
  <2>1. Times(ctx', {"loop", "for", "switch"})
          = Times(ctx, {"loop", "for", "switch"}) + One(k \in {"loop", "for", "switch"})
    BY <1>3
  <2>2. loop = (IF fn = "in" THEN Times(ctx, {"loop", "for", "switch"}) ELSE 0)
    BY DEF Shape
  <2>3. QED
    BY <2>1, <2>2
<1>7. sw' = (IF fn' = "in" THEN Times(ctx', {"switch"}) ELSE 0)
  <2>1. Times(ctx', {"switch"}) = Times(ctx, {"switch"}) + One(k = "switch")
    BY <1>3, <1>4
  <2>2. sw = (IF fn = "in" THEN Times(ctx, {"switch"}) ELSE 0)
    BY DEF Shape
  <2>3. QED
    BY <2>1, <2>2
<1>8. ASSUME NEW i \in 1..Len(ctx') PROVE ctx'[i] = "func" <=> i = 1
  <2>1. CASE i \in 1..Len(ctx)
    BY <1>2, <2>1 DEF Shape
  <2>2. CASE i = Len(ctx) + 1
    BY <1>1, <1>2, <2>2
  <2>3. QED
    BY <1>2, <2>1, <2>2
<1>9. Len(scopes') = (IF fn' = "in" THEN Len(cscopes') + 1 ELSE 1)
  OBVIOUS
<1>10. fn' # "none" /\ ctx' # << >>
  BY <1>2
<1>11. Shape'
  BY <1>5, <1>6, <1>7, <1>8, <1>9, <1>10 DEF Shape
<1>12. QED
  BY <1>2, <1>11

\* A construct that opens.
LEMMA OpenNames ==
  ASSUME NamesInv, NEW k \in {"block", "loop", "switch"}, Open(k)
  PROVE  NamesOnly'
<1> DEFINE cs2  == Append(cscopes, {})
           scs2 == Append(scopes, << >>)
           K    == Len(cscopes)
<1>1. /\ fn # "none" /\ ctx' = Append(ctx, k) /\ cscopes' = cs2
      /\ fn' = fn /\ vars' = vars /\ count' = count
      /\ fn = "in" => /\ scopes' = scs2
                      /\ loop' = loop + One(k \in {"loop", "switch"})
                      /\ sw' = sw + One(k = "switch")
      /\ fn # "in" => scopes' = scopes /\ loop' = loop /\ sw' = sw
  BY DEF Open, sema, cg, PushScope
<1>2. /\ scopes \in Seq(Seq(Symbols)) /\ cscopes \in Seq(SUBSET Decls)
      /\ ctx \in Seq(Contexts) /\ fn \in {"in", "skipped"} /\ Shape
      /\ vars \in Seq(Locals) /\ count \in Nat
      /\ Len(scopes) # 0 /\ K \in Nat /\ K # 0 /\ 1 \in 1..K
      /\ fn = "in" => Len(scopes) > 2 /\ Len(scopes) = K + 1 /\ Lang(Len(scopes)) = K
      /\ fn = "skipped" => Len(scopes) = 1
      /\ Local(cscopes, vars, count) /\ Matching(scopes, cscopes)
  BY <1>1, InFunction, Zenon
<1> DEFINE here == vars
           cnt  == count
<1> HIDE DEF here, cnt
<1>3. Pushes(cscopes, cs2, {}) /\ Local(cs2, here, cnt)
  <2>1. here \in Seq(Locals) /\ cnt \in Nat /\ Local(cscopes, here, cnt)
    BY <1>2 DEF here, cnt
  <2>2. QED
    BY <1>2, <2>1, LocalOpens
<1> HIDE DEF cs2
<1>4. cs2 \in Seq(SUBSET Decls) /\ Len(cs2) = K + 1 /\ cs2[1] = cscopes[1]
  BY <1>2, <1>3 DEF Pushes
<1>5. /\ Matching(scopes', cs2) /\ scopes' \in Seq(Seq(Symbols))
      /\ Len(scopes') = IF fn = "in" THEN Len(scopes) + 1 ELSE 1
  <2>1. CASE fn = "in"
    <3>1. << >> \in Seq(Symbols)
      OBVIOUS
    <3>2. Enters(scopes, scs2, << >>)
      BY <1>2, <3>1, EntersIs
    <3> HIDE DEF scs2
    <3>3. Lang(Len(scopes)) = Len(cscopes) /\ Len(scopes) > 2 /\ Matching(scopes, cscopes)
      BY <1>2, <2>1
    <3>4. Matching(scs2, cs2)
      BY <1>3, <3>2, <3>3, MatchOpens
    <3>5. QED
      BY <1>1, <2>1, <3>2, <3>4 DEF Enters
  <2>2. CASE fn = "skipped"
    <3>1. Len(scopes) = 1 /\ Matching(scopes, cscopes)
      BY <1>2, <2>2
    <3>2. Matching(scopes, cs2)
      BY <1>4, <3>1, MatchSkips
    <3>3. QED
      BY <1>1, <1>2, <2>2, <3>1, <3>2
  <2>3. QED
    BY <1>2, <2>1, <2>2
<1>6. Shape' /\ ctx' \in Seq(Contexts)
  <2>1. k \in {"block", "loop", "for", "switch"} /\ One(k = "for") = 0
        /\ One(k \in {"loop", "for", "switch"}) = One(k \in {"loop", "switch"})
    BY DEF One
  <2>2. /\ Len(cscopes') = Len(cscopes) + 1 + One(k = "for")
        /\ Len(scopes') = IF fn = "in" THEN Len(cscopes') + 1 ELSE 1
    BY <1>1, <1>2, <1>4, <1>5, <2>1
  <2>3. /\ fn = "in" => /\ loop' = loop + One(k \in {"loop", "for", "switch"})
                        /\ sw' = sw + One(k = "switch")
        /\ fn # "in" => loop' = loop /\ sw' = sw
    BY <1>1, <2>1
  <2>4. QED
    BY <1>1, <1>2, <2>1, <2>2, <2>3, ShapeOpens
<1>7. NamesTyped'
  BY <1>1, <1>2, <1>4, <1>5, <1>6 DEF NamesTyped
<1>8. QED
  BY <1>1, <1>3, <1>5, <1>6, <1>7 DEF NamesOnly, here, cnt


\* The first symbol of a new scope.
LEMMA EntersOne ==
  ASSUME NEW scs \in Seq(Seq(Symbols)), Len(scs) # 0, NEW s \in Symbols
  PROVE  Enters(scs, Define(PushScope(scs), s), <<s>>)
<1> DEFINE inner == Append(scs, << >>)
           k     == Len(inner)
<1>1. /\ inner \in Seq(Seq(Symbols)) /\ k = Len(scs) + 1 /\ k \in 1..k /\ inner[k] = << >>
      /\ \A i \in 1..Len(scs) : inner[i] = scs[i] /\ i # k /\ i \in 1..k
      /\ Len(scs) \in Nat \ {0}
  OBVIOUS
<1> HIDE DEF inner, k
<1>2. ~Clash(inner, s.name, s.kind)
  BY <1>1 DEF Clash, Current, k
<1>3. Define(inner, s) = [inner EXCEPT ![k] = <<s>> \o << >>]
  BY <1>1, <1>2 DEF Define, k
<1>4. <<s>> \o << >> = <<s>> /\ <<s>> \in Seq(Symbols)
  OBVIOUS
<1>5. LET e == [inner EXCEPT ![k] = <<s>>] IN
      /\ e \in Seq(Seq(Symbols)) /\ Len(e) = k /\ e[k] = <<s>>
      /\ \A i \in 1..Len(scs) : e[i] = scs[i]
  BY <1>1, <1>4 DEF k
<1>6. PushScope(scs) = inner
  BY DEF PushScope, inner
<1>7. QED
  BY <1>1, <1>3, <1>4, <1>5, <1>6 DEF Enters

LEMMA AppendTwo ==
  ASSUME NEW c \in Seq(SUBSET Decls), NEW a \in SUBSET Decls, NEW b \in SUBSET Decls
  PROVE  c \o <<a, b>> = Append(Append(c, a), b)
<1> DEFINE S == SUBSET Decls
           l == c \o <<a, b>>
           r == Append(Append(c, a), b)
<1>1. l \in Seq(S) /\ r \in Seq(S) /\ Len(l) = Len(c) + 2 /\ Len(r) = Len(c) + 2 /\ Len(c) \in Nat
  OBVIOUS
<1>2. \A i \in 1..Len(c) + 2 : l[i] = r[i]
  OBVIOUS
<1> HIDE DEF l, r
<1>3. l = r
  BY <1>1, <1>2
<1>4. QED
  BY <1>3 DEF l, r

LEMMA ForNames ==
  ASSUME NamesInv, NEW ns \in NameLists, NEW type \in Types, OpenFor(ns, type)
  PROVE  NamesOnly'
<1> DEFINE odd  == Len(ns) > 1
           ds   == ObjectsOf(ns, "var", count, odd)
           cs1  == Append(cscopes, ds)
           cs2  == Append(cs1, {})
           here == [vars |-> vars, next |-> next]
           vs2  == AllocAll(here, ns, count, type).vars
           cnt2 == count + Len(ns)
           s    == [name |-> ns[1], kind |-> "var", obj |-> count + 1, tent |-> FALSE]
           mid  == IF Len(ns) = 1 THEN SemaVar(PushScope(scopes), ns[1], "auto", count + 1)
                   ELSE PushScope(scopes)
           scs2 == Append(mid, << >>)
           K    == Len(cscopes)
<1>1. /\ fn # "none" /\ ctx' = Append(ctx, "for") /\ cscopes' = cscopes \o <<ds, {}>>
      /\ fn' = fn /\ vars' = vs2 /\ count' = cnt2
      /\ fn = "in" => scopes' = scs2 /\ loop' = loop + 1
      /\ fn # "in" => scopes' = scopes /\ loop' = loop
      /\ sw' = sw
  BY DEF OpenFor, PushScope, ObjectsOf
<1>2. /\ scopes \in Seq(Seq(Symbols)) /\ cscopes \in Seq(SUBSET Decls)
      /\ ctx \in Seq(Contexts) /\ fn \in {"in", "skipped"} /\ Shape
      /\ vars \in Seq(Locals) /\ count \in Nat /\ next \in Nat /\ Sorted(vars, count)
      /\ Len(scopes) # 0 /\ K \in Nat /\ K # 0 /\ 1 \in 1..K
      /\ fn = "in" => Len(scopes) > 2 /\ Len(scopes) = K + 1 /\ Lang(Len(scopes)) = K
      /\ fn = "skipped" => Len(scopes) = 1
      /\ Local(cscopes, vars, count) /\ Matching(scopes, cscopes)
  BY <1>1, InFunction, Zenon
<1>3. /\ Len(ns) \in Nat /\ Len(ns) \in 0..2 /\ DOMAIN ns = 1..Len(ns) /\ cnt2 \in Nat
      /\ \A i \in 1..Len(ns) : ns[i] \in Names
      /\ \A i, j \in 1..Len(ns) : ns[i] = ns[j] => i = j
  <2>1. /\ Len(ns) \in 0..2 /\ DOMAIN ns = 1..Len(ns)
        /\ \A i \in 1..Len(ns) : ns[i] \in Names
        /\ \A i, j \in 1..Len(ns) : ns[i] = ns[j] => i = j
    BY NameListIs, Zenon
  <2>2. QED
    BY <1>2, <2>1, SMTT(30)
<1>4. Gets(vars, vs2, ns, count)
  <2>1. here.vars = vars /\ here.next = next
    OBVIOUS
  <2> HIDE DEF here
  <2>2. Gets(here.vars, AllocAll(here, ns, count, type).vars, ns, count)
    BY <1>2, <2>1, AllocAllLists
  <2>3. QED
    BY <2>1, <2>2
<1> HIDE DEF vs2
<1>5. vs2 \in Seq(Locals)
  BY <1>4 DEF Gets, Lists
<1>b. /\ Made(ds, ns, "var", count, odd)
      /\ Pushes(cscopes, cs1, ds) /\ Local(cs1, vs2, cnt2)
  <2>1. odd \in BOOLEAN /\ "var" \in {"var", "param"} /\ ds = ObjectsOf(ns, "var", count, odd)
        /\ cs1 = Append(cscopes, ds)
    BY <1>3
  <2>2. /\ cscopes \in Seq(SUBSET Decls) /\ Len(cscopes) # 0 /\ count \in Nat
        /\ Local(cscopes, vars, count)
    BY <1>2
  <2> HIDE DEF odd, ds, cs1
  <2>3. /\ Made(ds, ns, "var", count, odd)
        /\ Pushes(cscopes, cs1, ds) /\ Local(cs1, vs2, count + Len(ns))
    BY <1>4, <2>1, <2>2, LocalEnters
  <2>4. QED
    BY <2>3
<1> HIDE DEF ds, odd
<1>6. /\ ds \in SUBSET Decls /\ Pushes(cscopes, cs1, ds) /\ Local(cs1, vs2, cnt2)
      /\ \A d, e \in ds : Same(d, e) => d = e
  BY <1>b DEF Made
<1>7. \A d \in ds : \E i \in 1..Len(ns) :
        d.name = ns[i] /\ d.kind = "var" /\ d.obj = count + i /\ (d.odd <=> odd)
  BY <1>b DEF Made
<1>8. Len(ns) = 1 => \E d \in ds : d.name = ns[1] /\ d.kind = "var" /\ d.obj = count + 1
  <2>1. Len(ns) = 1 => 1 \in 1..Len(ns)
    OBVIOUS
  <2>2. QED
    BY <1>b, <2>1 DEF Made
<1>a. cscopes' = cs2
  <2>1. ds \in SUBSET Decls /\ {} \in SUBSET Decls
    BY <1>6
  <2>2. cscopes \o <<ds, {}>> = Append(Append(cscopes, ds), {})
    <3>1. cscopes \in Seq(SUBSET Decls)
      BY <1>2
    <3>2. QED
      BY <2>1, <3>1, AppendTwo, Zenon
  <2>3. QED
    BY <1>1, <2>2
<1> HIDE DEF cs1, cnt2
<1>9. cs1 \in Seq(SUBSET Decls) /\ Len(cs1) = K + 1 /\ cs1[1] = cscopes[1] /\ Len(cs1) # 0
  BY <1>2, <1>6 DEF Pushes
<1>10. Pushes(cs1, cs2, {}) /\ Local(cs2, vs2, cnt2)
  BY <1>3, <1>5, <1>6, <1>9, LocalOpens DEF cnt2
<1> HIDE DEF cs2
<1>11. cs2 \in Seq(SUBSET Decls) /\ Len(cs2) = K + 2 /\ cs2[1] = cscopes[1]
  BY <1>2, <1>9, <1>10 DEF Pushes
<1>12. /\ Matching(scopes', cs2) /\ scopes' \in Seq(Seq(Symbols))
       /\ Len(scopes') = IF fn = "in" THEN K + 3 ELSE 1
  <2>1. CASE fn = "in"
    <3>1. /\ Lang(Len(scopes)) = Len(cscopes) /\ Len(scopes) > 2 /\ Matching(scopes, cscopes)
          /\ Len(scopes) = K + 1 /\ Len(scopes) \in Nat
      BY <1>2, <2>1
    <3> HIDE DEF s
    <3>2. PICK T \in Seq(Symbols) :
             /\ Enters(scopes, mid, T)
             /\ Len(ns) = 1 => T = <<s>>
             /\ Len(ns) # 1 => T = << >>
      <4>1. CASE Len(ns) = 1
        <5>1. s \in Symbols
          BY <1>2, <1>3, <4>1 DEF Symbols, s
        <5>2. PushScope(scopes) \in Seq(Seq(Symbols)) /\ Len(PushScope(scopes)) > 1
          BY <1>2, <3>1 DEF PushScope
        <5>3. SemaVar(PushScope(scopes), ns[1], "auto", count + 1) = Define(PushScope(scopes), s)
          BY <5>2, SemaVarLocal DEF s
        <5>4. Enters(scopes, Define(PushScope(scopes), s), <<s>>) /\ <<s>> \in Seq(Symbols)
          BY <1>2, <5>1, EntersOne
        <5>5. QED
          BY <4>1, <5>3, <5>4
      <4>2. CASE Len(ns) # 1
        <5>1. << >> \in Seq(Symbols)
          OBVIOUS
        <5>2. Enters(scopes, PushScope(scopes), << >>)
          BY <1>2, <5>1, EntersIs DEF PushScope
        <5>3. QED
          BY <4>2, <5>1, <5>2
      <4>3. QED
        BY <4>1, <4>2
    <3> HIDE DEF mid
    <3>3. mid \in Seq(Seq(Symbols)) /\ Len(mid) = K + 2 /\ Len(mid) > 2 /\ Len(mid) # 0
      BY <3>1, <3>2 DEF Enters
    <3>4. Lang(Len(mid)) = Len(cs1) /\ Len(mid) # 2
      BY <1>2, <1>9, <3>3, SMTT(30) DEF Lang
    <3>5. \A y \in 1..Len(T) : OddTo(cs1, T[y].name, Len(cs1)) \/ Declared(T[y], ds)
      <4>1. ASSUME NEW y \in 1..Len(T) PROVE Declared(T[y], ds)
        <5>1. Len(ns) = 1 /\ T[y] = s
          <6>1. CASE Len(ns) = 1
            <7>1. T = <<s>> /\ Len(T) = 1
              BY <3>2, <6>1
            <7>2. QED
              BY <6>1, <7>1
          <6>2. CASE Len(ns) # 1
            BY <3>2, <6>2
          <6>3. QED
            BY <6>1, <6>2
        <5>2. PICK d \in ds : d.name = ns[1] /\ d.kind = "var" /\ d.obj = count + 1
          BY <1>8, <5>1
        <5>3. Same(T[y], d) /\ Alike(T[y], d)
          BY <5>1, <5>2 DEF Same, Alike, IsTag, s
        <5>4. \A e \in ds : Same(T[y], e) => e = d
          BY <1>6, <5>3, SameFacts
        <5>5. QED
          BY <5>2, <5>3, <5>4 DEF Declared
      <4>2. QED
        BY <4>1
    <3>6. \A d \in ds : d.odd \/ Tabled(d, T)
      <4>1. ASSUME NEW d \in ds, ~d.odd PROVE Tabled(d, T)
        <5>1. PICK i \in 1..Len(ns) :
                d.name = ns[i] /\ d.kind = "var" /\ d.obj = count + i /\ (d.odd <=> odd)
          BY <1>7
        <5>2. Len(ns) = 1 /\ i = 1
          BY <1>3, <4>1, <5>1 DEF odd
        <5>3. T = <<s>> /\ 1 \in 1..Len(T) /\ T[1] = s
          <6>1. T = <<s>>
            BY <3>2, <5>2
          <6>2. QED
            BY <6>1
        <5>4. Same(T[1], d)
          BY <5>1, <5>2, <5>3 DEF Same, IsTag, s
        <5>5. QED
          BY <5>3, <5>4 DEF Tabled
      <4>2. QED
        BY <4>1
    <3>7. Matching(mid, cs1)
      <4>1. Lang(Len(scopes)) = Len(cscopes) /\ Matching(scopes, cscopes)
        BY <3>1
      <4>2. Enters(scopes, mid, T) /\ Pushes(cscopes, cs1, ds)
        BY <1>6, <3>2
      <4>3. QED
        BY <3>4, <3>5, <3>6, <4>1, <4>2, MatchPushes
    <3>8. Enters(mid, scs2, << >>)
      <4>1. << >> \in Seq(Symbols)
        OBVIOUS
      <4>2. QED
        BY <3>3, <4>1, EntersIs
    <3> HIDE DEF scs2
    <3>9. Matching(scs2, cs2)
      BY <1>10, <3>3, <3>4, <3>7, <3>8, MatchOpens
    <3>10. QED
      BY <1>1, <1>2, <2>1, <3>3, <3>8, <3>9 DEF Enters
  <2>2. CASE fn = "skipped"
    <3>1. Len(scopes) = 1 /\ Matching(scopes, cscopes)
      BY <1>2, <2>2
    <3>2. Matching(scopes, cs2)
      BY <1>11, <3>1, MatchSkips
    <3>3. QED
      BY <1>1, <1>2, <2>2, <3>1, <3>2
  <2>3. QED
    BY <1>2, <2>1, <2>2
<1>13. Shape' /\ ctx' \in Seq(Contexts)
  <2> DEFINE k == "for"
  <2>1. /\ k \in {"block", "loop", "for", "switch"} /\ One(k = "for") = 1
        /\ One(k \in {"loop", "for", "switch"}) = 1 /\ One(k = "switch") = 0
    BY DEF One
  <2>2. ctx' = Append(ctx, k)
    BY <1>1
  <2> HIDE DEF k
  <2>3. /\ Len(cscopes') = Len(cscopes) + 1 + One(k = "for")
        /\ Len(scopes') = IF fn = "in" THEN Len(cscopes') + 1 ELSE 1
    BY <1>2, <1>a, <1>11, <1>12, <2>1
  <2>4. sw \in Nat
    <3>1. Times(ctx, {"switch"}) \in Nat
      BY <1>2, TimesSome
    <3>2. QED
      BY <1>2, <3>1 DEF Shape
  <2>5. /\ fn = "in" => /\ loop' = loop + One(k \in {"loop", "for", "switch"})
                        /\ sw' = sw + One(k = "switch")
        /\ fn # "in" => loop' = loop /\ sw' = sw
    BY <1>1, <2>1, <2>4
  <2>6. QED
    BY <1>1, <1>2, <2>1, <2>2, <2>3, <2>5, ShapeOpens
<1>14. NamesTyped'
  BY <1>1, <1>2, <1>a, <1>11, <1>12, <1>13 DEF NamesTyped
<1>15. QED
  BY <1>1, <1>a, <1>10, <1>12, <1>13, <1>14 DEF NamesOnly


LEMMA ListingNone ==
  ASSUME NEW d \in Decls, Ordinary(d), d.obj = 0,
         NEW vs, Len(vs) = 0, NEW cnt, NEW cnt2
  PROVE  Listing(1, d, vs, cnt, cnt2)
BY DEF Listing

\* The name of a function: nothing is called so yet, or sema leaves the table.
LEMMA FunctionMatches ==
  ASSUME NamesInv, fn = "none", NEW f \in Names,
         \A c \in CHere(f, FALSE) : c.kind = "func",
         NEW d, d = D(f, "func", 0, TRUE, FALSE), NEW cs1, cs1 = CDeclare(cscopes, d),
         NEW s, s = [name |-> f, kind |-> "func", obj |-> 0, tent |-> FALSE]
  PROVE  /\ d \in Decls /\ Declares(cscopes, cs1, d)
         /\ cs1 \in Seq(SUBSET Decls) /\ Len(cs1) = 1 /\ Local(cs1, << >>, count + 1)
         /\ Matching(scopes, cs1) /\ Matching(Define(scopes, s), cs1)
         /\ Define(scopes, s) \in Seq(Seq(Symbols)) /\ Len(Define(scopes, s)) = 1
<1>1. /\ scopes \in Seq(Seq(Symbols)) /\ cscopes \in Seq(SUBSET Decls)
      /\ vars \in Seq(Locals) /\ vars = << >> /\ count \in Nat /\ Sorted(vars, count)
      /\ Len(scopes) = 1 /\ Len(cscopes) = 1 /\ Len(scopes) # 0 /\ Len(cscopes) # 0
      /\ Local(cscopes, vars, count) /\ Matching(scopes, cscopes) /\ Outer(cscopes)
  BY InvFacts
<1>2. d \in Decls /\ Ordinary(d) /\ d.obj = 0 /\ d.name = f /\ ~IsTag(d) /\ d.kind = "func"
  BY DEF D, Decls, Ordinary, IsTag
<1>3. CHere(f, FALSE) = {c \in cscopes[1] : Same(c, d)}
  BY <1>1, <1>2 DEF CHere, CIn, Same, IsTag
<1>4. Declares(cscopes, cs1, d)
  BY <1>1, <1>2, CDeclareIs
<1>5. cs1 \in Seq(SUBSET Decls) /\ Len(cs1) = 1
  BY <1>1, <1>4 DEF Declares
<1>6. \A c \in cscopes[1] : Same(c, d) => Ordinary(c) /\ c.kind # "param"
  BY <1>3 DEF Ordinary
<1>7. Local(cs1, << >>, count + 1)
  <2>1. count + 1 \in Nat /\ count <= count + 1
    BY <1>1
  <2>2. Lists(vars, vars, count, count + 1)
    BY <1>1, <2>1, ListsNone
  <2>3. Listing(1, d, vars, count, count + 1)
    BY <1>1, <1>2, ListingNone
  <2>4. Listing(Len(cscopes), d, vars, count, count + 1) /\ Local(cscopes, vars, count)
    BY <1>1, <2>3
  <2>5. Local(cs1, vars, count + 1)
    BY <1>4, <2>2, <2>4, LocalDeclares
  <2>6. QED
    BY <1>1, <2>5
<1>8. Matching(scopes, cs1)
  <2>1. Touches(scopes, scopes, scopes[1]) /\ Others(scopes[1], scopes[1], d)
    BY <1>1, TouchesNot
  <2>2. \A y \in 1..Len(scopes[1]) :
          Same(scopes[1][y], d) => \/ Ordinary(scopes[1][y]) /\ scopes[1][y].obj = 0
                                   \/ \E x \in 1..Len(scopes[1]) : Twin(scopes[1][y], scopes[1][x])
    BY DEF Twin
  <2>3. QED
    BY <1>1, <1>2, <1>4, <1>6, <2>1, <2>2, MatchGlobal
<1>9. s \in Symbols /\ Same(s, d) /\ Ordinary(s) /\ s.obj = 0
  BY <1>2 DEF Symbols, Same, IsTag, Ordinary
<1>10. \E T : /\ Touches(scopes, Define(scopes, s), T)
              /\ \A a : Same(s, a) => Others(T, scopes[Len(scopes)], a) /\ Tabled(a, T)
              /\ \A y \in 1..Len(T) : T[y] = s \/ \E x \in 1..Len(scopes[Len(scopes)]) :
                                                    T[y] = scopes[Len(scopes)][x]
  BY <1>1, <1>9, DefineIs
<1> DEFINE scs1 == Define(scopes, s)
           S    == scopes[Len(scopes)]
<1> HIDE DEF S
<1>a. PICK T : /\ Touches(scopes, scs1, T)
               /\ \A a : Same(s, a) => Others(T, S, a) /\ Tabled(a, T)
               /\ \A y \in 1..Len(T) : T[y] = s \/ \E x \in 1..Len(S) : T[y] = S[x]
  BY <1>10, Zenon DEF S
<1>b. S = scopes[1]
  BY <1>1 DEF S
<1> HIDE DEF scs1
<1>11. /\ Touches(scopes, scs1, T)
       /\ \A a : Same(s, a) => Others(T, scopes[1], a)
       /\ \A y \in 1..Len(T) : T[y] = s \/ \E x \in 1..Len(scopes[1]) : T[y] = scopes[1][x]
  BY <1>a, <1>b
<1>12. scs1 \in Seq(Seq(Symbols)) /\ Len(scs1) = 1
  BY <1>1, <1>11 DEF Touches
<1>13. Touches(scopes, scs1, T) /\ Others(T, scopes[1], d)
  BY <1>9, <1>11
<1>14. Matching(scs1, cs1)
  <2>1. \A y \in 1..Len(T) :
          Same(T[y], d) => \/ Ordinary(T[y]) /\ T[y].obj = 0
                           \/ \E x \in 1..Len(scopes[1]) : Twin(T[y], scopes[1][x])
    BY <1>9, <1>11 DEF Twin
  <2>2. QED
    BY <1>1, <1>2, <1>4, <1>6, <1>13, <2>1, MatchGlobal
<1>15. QED
  BY <1>2, <1>4, <1>5, <1>7, <1>8, <1>12, <1>14 DEF scs1

\* The scope of the parameters and that of the body.
LEMMA ParamsMatched ==
  ASSUME NEW cs1 \in Seq(SUBSET Decls), Len(cs1) = 1,
         NEW scs1 \in Seq(Seq(Symbols)), Len(scs1) = 1, Matching(scs1, cs1),
         NEW ps \in NameLists, NEW id \in Nat, NEW ds, Made(ds, ps, "param", id, FALSE),
         NEW cs2, Pushes(cs1, cs2, ds)
  PROVE  LET scs2 == PushScope(Append(scs1, ParamSyms(ps, id))) IN
         Matching(scs2, cs2) /\ scs2 \in Seq(Seq(Symbols)) /\ Len(scs2) = 3
<1> DEFINE T    == ParamSyms(ps, id)
           mid  == Append(scs1, T)
           scs2 == Append(mid, << >>)
<1>1. /\ Len(ps) \in 0..2 /\ DOMAIN ps = 1..Len(ps)
      /\ \A i \in 1..Len(ps) : ps[i] \in Names
      /\ \A i, j \in 1..Len(ps) : ps[i] = ps[j] => i = j
  BY NameListIs, Zenon
<1>2. /\ \A d, e \in ds : Same(d, e) => d = e
      /\ \A d \in ds : \E i \in 1..Len(ps) :
           d.name = ps[i] /\ d.kind = "param" /\ d.obj = id + i
      /\ \A i \in 1..Len(ps) : \E d \in ds : d.name = ps[i] /\ d.kind = "param" /\ d.obj = id + i
  BY DEF Made
<1>3. T \in Seq(Symbols) /\ Len(T) = Len(ps)
  <2>1. \A i \in 1..Len(ps) :
          [name |-> ps[i], kind |-> "var", obj |-> id + i, tent |-> FALSE] \in Symbols
    BY <1>1 DEF Symbols
  <2>2. T = [i \in 1..Len(ps) |->
               [name |-> ps[i], kind |-> "var", obj |-> id + i, tent |-> FALSE]]
    BY <1>1 DEF ParamSyms
  <2>3. Len(ps) \in Nat
    BY <1>1
  <2>4. QED
    BY <2>1, <2>2, <2>3
<1>4. \A i \in 1..Len(ps) : T[i].name = ps[i] /\ T[i].kind = "var" /\ T[i].obj = id + i
  BY <1>1 DEF ParamSyms
<1> HIDE DEF T
<1>5. Enters(scs1, mid, T)
  <2>1. Len(scs1) # 0
    OBVIOUS
  <2>2. QED
    BY <1>3, <2>1, EntersIs
<1>6. ASSUME NEW i \in 1..Len(T), NEW d \in ds, d.name = T[i].name
      PROVE  Same(T[i], d) /\ Alike(T[i], d) /\ d.kind = "param"
  <2>1. PICK j \in 1..Len(ps) : d.name = ps[j] /\ d.kind = "param" /\ d.obj = id + j
    BY <1>2
  <2>2. j = i
    <3>1. i \in 1..Len(ps)
      BY <1>3
    <3>2. ps[i] = ps[j]
      BY <1>4, <1>6, <2>1, <3>1
    <3>3. QED
      BY <1>1, <2>1, <3>1, <3>2
  <2>3. QED
    BY <1>3, <1>4, <2>1, <2>2 DEF Same, Alike, IsTag
<1>7. \A i \in 1..Len(T) : Declared(T[i], ds) /\ ~IsTag(T[i]) /\ \E d \in ds : Same(T[i], d)
  <2>1. ASSUME NEW i \in 1..Len(T)
        PROVE  Declared(T[i], ds) /\ ~IsTag(T[i]) /\ \E d \in ds : Same(T[i], d)
    <3>0. i \in 1..Len(ps)
      BY <1>3
    <3>1. PICK d \in ds : d.name = T[i].name
      BY <1>2, <1>4, <3>0
    <3>2. Same(T[i], d)
      BY <1>6, <3>1
    <3>3. \A e \in ds : Same(T[i], e) => Alike(T[i], e)
      BY <1>6, SameFacts
    <3>4. QED
      BY <1>3, <1>4, <3>2, <3>3 DEF Declared, IsTag
  <2>2. QED
    BY <2>1
<1>8. \A d \in ds : d.kind = "param" /\ Tabled(d, T)
  <2>1. ASSUME NEW d \in ds PROVE d.kind = "param" /\ Tabled(d, T)
    <3>1. PICK j \in 1..Len(ps) : d.name = ps[j] /\ d.kind = "param" /\ d.obj = id + j
      BY <1>2
    <3>2. j \in 1..Len(T) /\ Same(T[j], d)
      BY <1>3, <1>4, <1>6, <3>1
    <3>3. QED
      BY <3>1, <3>2 DEF Tabled
  <2>2. QED
    BY <2>1
<1> HIDE DEF mid
<1>9. mid \in Seq(Seq(Symbols)) /\ Len(mid) = 2 /\ Len(mid) # 0
  BY <1>5 DEF Enters
<1>10. Len(cs2) = 2
  BY DEF Pushes
<1>11. Matching(mid, cs2)
  <2>1. Lang(Len(scs1)) = Len(cs1) /\ Lang(Len(mid)) = Len(cs2)
    BY <1>9, <1>10, LangFacts
  <2>2. \A i \in 1..Len(T) : OddTo(cs2, T[i].name, Len(cs2)) \/ Declared(T[i], ds)
    BY <1>7
  <2>3. \A d \in ds : d.odd \/ Tabled(d, T)
    BY <1>8
  <2>4. \A i \in 1..Len(T) :
          ~IsTag(T[i]) /\ (\E d \in ds : Same(T[i], d)) /\ \A d \in ds : d.kind = "param"
    BY <1>7, <1>8
  <2>5. QED
    BY <1>5, <2>1, <2>2, <2>3, <2>4, MatchPushes
<1>12. Enters(mid, scs2, << >>)
  <2>1. << >> \in Seq(Symbols)
    OBVIOUS
  <2>2. QED
    BY <1>9, <2>1, EntersIs
<1> HIDE DEF scs2
<1>13. Matching(scs2, cs2)
  BY <1>9, <1>11, <1>12, MatchBody
<1>14. scs2 \in Seq(Seq(Symbols)) /\ Len(scs2) = 3
  BY <1>9, <1>12 DEF Enters
<1>15. PushScope(Append(scs1, ParamSyms(ps, id))) = scs2
  BY DEF PushScope, scs2, mid, T
<1>16. QED
  BY <1>13, <1>14, <1>15


LEMMA BeginNames ==
  ASSUME NamesInv, NEW f \in Names, NEW ps \in NameLists, NEW type \in Types,
         BeginFunction(f, ps, type)
  PROVE  NamesOnly'
<1> DEFINE d    == D(f, "func", 0, TRUE, FALSE)
           cs1  == CDeclare(cscopes, d)
           ds   == ParamVars(ps, count + 1)
           cs2  == Append(cs1, ds)
           s    == [name |-> f, kind |-> "func", obj |-> 0, tent |-> FALSE]
           scs1 == Define(scopes, s)
           scs2 == PushScope(Append(scs1, ParamSyms(ps, count + 1)))
           here == [vars |-> << >>, next |-> 0]
           vs2  == AllocAll(here, ps, count + 1, type).vars
           id   == count + 1
<1>1. /\ fn = "none" /\ \A c \in CHere(f, FALSE) : c.kind = "func"
      /\ cscopes' = cs2 /\ vars' = vs2
      /\ \/ fn' = "in" /\ scopes' = scs2
         \/ fn' = "skipped" /\ scopes' = scopes
      /\ loop' = 0 /\ sw' = 0 /\ ctx' = <<"func">> /\ count' = count + 1 + Len(ps)
  BY DEF BeginFunction
<1>2. /\ scopes \in Seq(Seq(Symbols)) /\ count \in Nat /\ id \in Nat
      /\ Len(scopes) = 1 /\ Matching(scopes, cscopes)
  BY <1>1, InvFacts
<1>3. Len(ps) \in 0..2
  BY NameListIs, Zenon
<1>4. Gets(<< >>, vs2, ps, id)
  <2>1. here.vars = << >> /\ here.next = 0 /\ << >> \in Seq(Locals) /\ 0 \in Nat
    OBVIOUS
  <2>2. Sorted(<< >>, id)
    BY DEF Sorted
  <2> HIDE DEF here, id
  <2>3. here.vars \in Seq(Locals) /\ here.next \in Nat /\ Sorted(here.vars, id)
    BY <2>1, <2>2
  <2>4. Gets(here.vars, AllocAll(here, ps, id, type).vars, ps, id)
    BY <1>2, <2>3, AllocAllLists
  <2>5. vs2 = AllocAll(here, ps, id, type).vars
    BY DEF id
  <2> HIDE DEF vs2
  <2>6. QED
    BY <2>1, <2>4, <2>5
<1> HIDE DEF vs2
<1>5. vs2 \in Seq(Locals)
  BY <1>4 DEF Gets, Lists
<1> HIDE DEF d, s, cs1, scs1, id
<1>6. /\ Declares(cscopes, cs1, d)
      /\ cs1 \in Seq(SUBSET Decls) /\ Len(cs1) = 1 /\ Local(cs1, << >>, id)
      /\ Matching(scopes, cs1) /\ Matching(scs1, cs1)
      /\ scs1 \in Seq(Seq(Symbols)) /\ Len(scs1) = 1
  BY <1>1, FunctionMatches DEF d, s, cs1, scs1, id
<1>7. ds = ObjectsOf(ps, "param", id, FALSE) /\ cs2 = Append(cs1, ds)
  BY DEF ParamVars, ObjectsOf, id
<1> HIDE DEF ds, cs2
<1>8. /\ Made(ds, ps, "param", id, FALSE) /\ Pushes(cs1, cs2, ds) /\ Local(cs2, vs2, id + Len(ps))
  <2>1. "param" \in {"var", "param"} /\ FALSE \in BOOLEAN /\ Len(cs1) # 0
    BY <1>6
  <2>2. QED
    BY <1>2, <1>4, <1>6, <1>7, <2>1, LocalEnters
<1>9. cs2 \in Seq(SUBSET Decls) /\ Len(cs2) = 2 /\ cs2[1] = cs1[1]
  BY <1>6, <1>8 DEF Pushes
<1>10. Local(cs2, vs2, count')
  <2>1. count' = id + Len(ps)
    BY <1>1 DEF id
  <2>2. QED
    BY <1>8, <2>1
<1>11. /\ Matching(scopes', cs2) /\ scopes' \in Seq(Seq(Symbols))
       /\ Len(scopes') = IF fn' = "in" THEN Len(cs2) + 1 ELSE 1
  <2>1. CASE fn' = "in" /\ scopes' = scs2
    <3>1. Matching(scs2, cs2) /\ scs2 \in Seq(Seq(Symbols)) /\ Len(scs2) = 3
      BY <1>2, <1>6, <1>8, ParamsMatched DEF id
    <3>2. QED
      BY <1>9, <2>1, <3>1
  <2>2. CASE fn' = "skipped" /\ scopes' = scopes
    <3>1. Matching(scopes, cs2)
      BY <1>2, <1>6, <1>9, MatchSkips
    <3>2. QED
      BY <1>2, <2>2, <3>1
  <2>3. QED
    BY <1>1, <2>1, <2>2
<1>12. ctx' = <<"func">> /\ ctx' \in Seq(Contexts) /\ fn' \in {"in", "skipped"}
  BY <1>1 DEF Contexts
<1>13. \A ks : "func" \notin ks => Times(ctx', ks) = 0
  <2>1. ASSUME NEW ks, "func" \notin ks PROVE Times(ctx', ks) = 0
    <3>1. {i \in 1..Len(ctx') : ctx'[i] \in ks} = {}
      BY <1>12, <2>1
    <3>2. {i \in 1..Len(<< >>) : << >>[i] \in ks} = {}
      OBVIOUS
    <3>3. Times(ctx', ks) = Times(<< >>, ks)
      BY <3>1, <3>2 DEF Times
    <3>4. QED
      BY <3>3, TimesEmpty
  <2>2. QED
    BY <2>1
<1>14. Shape'
  <2>1. Times(ctx', {"for"}) = 0 /\ Times(ctx', {"loop", "for", "switch"}) = 0
        /\ Times(ctx', {"switch"}) = 0
    BY <1>13
  <2>2. Len(ctx') = 1 /\ ctx' # << >> /\ ctx'[1] = "func"
    BY <1>12
  <2>3. \A i \in 1..Len(ctx') : ctx'[i] = "func" <=> i = 1
    BY <2>2
  <2>4. Len(cscopes') = 2 /\ Len(cs2) = 2
    BY <1>1, <1>9
  <2>5. loop' = 0 /\ sw' = 0
    BY <1>1
  <2>6. QED
    BY <1>11, <1>12, <2>1, <2>2, <2>3, <2>4, <2>5 DEF Shape
<1>15. NamesTyped'
  BY <1>1, <1>9, <1>11, <1>12 DEF NamesTyped
<1>16. QED
  BY <1>1, <1>10, <1>11, <1>14, <1>15 DEF NamesOnly


\* The end of a construct: one scope goes, or two.
LEMMA PopOnce ==
  ASSUME NEW S, NEW x \in Seq(S), Len(x) > 1
  PROVE  LET y == PopScope(x) IN
         y \in Seq(S) /\ Len(y) = Len(x) - 1 /\ \A i \in 1..Len(y) : y[i] = x[i]
<1> DEFINE m == Len(x) - 1
<1>1. m \in 1..Len(x)
  OBVIOUS
<1> HIDE DEF m
<1>2. SubSeq(x, 1, m) \in Seq(S) /\ Len(SubSeq(x, 1, m)) = m
      /\ \A i \in 1..m : SubSeq(x, 1, m)[i] = x[i]
  BY <1>1
<1>3. QED
  BY <1>2 DEF PopScope, m

LEMMA PopTwice ==
  ASSUME NEW S, NEW x \in Seq(S), Len(x) > 2
  PROVE  LET y == PopScope(PopScope(x)) IN
         y \in Seq(S) /\ Len(y) = Len(x) - 2 /\ \A i \in 1..Len(y) : y[i] = x[i]
<1> DEFINE m == PopScope(x)
<1>1. Len(x) > 1
  OBVIOUS
<1>2. m \in Seq(S) /\ Len(m) = Len(x) - 1 /\ \A i \in 1..Len(m) : m[i] = x[i]
  BY <1>1, PopOnce
<1> HIDE DEF m
<1>3. Len(m) > 1
  BY <1>2
<1> DEFINE y == PopScope(m)
<1>4. y \in Seq(S) /\ Len(y) = Len(m) - 1 /\ \A i \in 1..Len(y) : y[i] = m[i]
  BY <1>2, <1>3, PopOnce
<1> HIDE DEF y
<1>5. \A i \in 1..Len(y) : y[i] = x[i]
  BY <1>2, <1>4
<1>6. Len(y) = Len(x) - 2
  BY <1>2, <1>4
<1>7. QED
  BY <1>4, <1>5, <1>6 DEF y, m

\* What is open when the innermost construct k has ended.
LEMMA ShapeCloses ==
  ASSUME Shape, ctx \in Seq(Contexts), ctx # << >>, fn \in {"in", "skipped"},
         NEW k, k = ctx[Len(ctx)], ctx' = SubSeq(ctx, 1, Len(ctx) - 1),
         Len(cscopes) \in Nat, Len(cscopes') = Len(cscopes) - 1 - One(k = "for"),
         fn' = IF k = "func" THEN "none" ELSE fn, k = "func" => vars' = << >>,
         Len(scopes') = IF fn' = "in" THEN Len(cscopes') + 1 ELSE 1,
         fn = "in" => /\ loop' = loop - One(k \in {"loop", "for", "switch"})
                      /\ sw' = sw - One(k = "switch"),
         fn # "in" => loop' = loop /\ sw' = sw
  PROVE  Shape' /\ ctx' \in Seq(Contexts)
<1>1. /\ ctx' \in Seq(Contexts) /\ Len(ctx') = Len(ctx) - 1
      /\ \A i \in 1..Len(ctx') : ctx'[i] = ctx[i]
  BY TimesFront
<1>2. \A ks : Times(ctx', ks) \in Nat /\ Times(ctx, ks) = Times(ctx', ks) + One(k \in ks)
  BY TimesFront
<1>3. One(k \in {"for"}) = One(k = "for") /\ One(k \in {"switch"}) = One(k = "switch")
      /\ \A b \in BOOLEAN : One(b) \in Nat
  BY DEF One
<1>4. Len(ctx) \in Nat \ {0} /\ Len(ctx') \in Nat /\ Len(ctx) \in 1..Len(ctx)
  BY <1>1
<1>5. k = "func" <=> Len(ctx) = 1
  BY <1>4 DEF Shape
<1>6. k = "func" <=> ctx' = << >>
  <2>1. \A f \in Seq(Contexts) : f = << >> <=> Len(f) = 0
    OBVIOUS
  <2>2. ctx' = << >> <=> Len(ctx') = 0
    BY <1>1, <2>1
  <2>3. QED
    BY <1>1, <1>4, <1>5, <2>2
<1>7. fn' = "none" <=> ctx' = << >>
  BY <1>6
<1>8. \A i \in 1..Len(ctx') : ctx'[i] = "func" <=> i = 1
  BY <1>1, <1>4 DEF Shape
<1>9. Len(cscopes') = 1 + Len(ctx') + Times(ctx', {"for"})
  <2>1. /\ Times(ctx', {"for"}) \in Nat /\ One(k = "for") \in Nat
        /\ Times(ctx, {"for"}) = Times(ctx', {"for"}) + One(k = "for")
    BY <1>2, <1>3
  <2>2. Len(cscopes) = 1 + Len(ctx) + Times(ctx, {"for"})
    BY DEF Shape
  <2>3. QED
    BY <1>1, <1>4, <2>1, <2>2
<1>10. k = "func" => /\ Times(ctx', {"loop", "for", "switch"}) = 0
                     /\ Times(ctx', {"switch"}) = 0
  BY <1>6, TimesEmpty
<1>11. loop' = (IF fn' = "in" THEN Times(ctx', {"loop", "for", "switch"}) ELSE 0)
  <2>1. /\ Times(ctx', {"loop", "for", "switch"}) \in Nat
        /\ Times(ctx, {"loop", "for", "switch"})
             = Times(ctx', {"loop", "for", "switch"}) + One(k \in {"loop", "for", "switch"})
        /\ One(k \in {"loop", "for", "switch"}) \in Nat
    <3>1. One(k \in {"loop", "for", "switch"}) \in Nat
      BY DEF One
    <3>2. QED
      BY <1>2, <3>1
  <2>2. loop = (IF fn = "in" THEN Times(ctx, {"loop", "for", "switch"}) ELSE 0)
    BY DEF Shape
  <2>3. QED
    BY <1>10, <2>1, <2>2
<1>12. sw' = (IF fn' = "in" THEN Times(ctx', {"switch"}) ELSE 0)
  <2>1. /\ Times(ctx', {"switch"}) \in Nat /\ One(k = "switch") \in Nat
        /\ Times(ctx, {"switch"}) = Times(ctx', {"switch"}) + One(k = "switch")
    BY <1>2, <1>3
  <2>2. sw = (IF fn = "in" THEN Times(ctx, {"switch"}) ELSE 0)
    BY DEF Shape
  <2>3. QED
    BY <1>10, <2>1, <2>2
<1>13. fn' = "none" => vars' = << >>
  OBVIOUS
<1>14. Shape'
  BY <1>7, <1>8, <1>9, <1>11, <1>12, <1>13 DEF Shape
<1>15. QED
  BY <1>1, <1>14

\* How many scopes there were before it ended.
LEMMA Closing ==
  ASSUME Shape, ctx \in Seq(Contexts), ctx # << >>
  PROVE  LET k == ctx[Len(ctx)] IN
         /\ Len(cscopes) - 1 - One(k = "for") \in Nat \ {0}
         /\ Len(cscopes) - 1 - One(k = "for") = 1 <=> k = "func"
<1> DEFINE k == ctx[Len(ctx)]
           f == SubSeq(ctx, 1, Len(ctx) - 1)
<1>1. Len(f) = Len(ctx) - 1 /\ Len(ctx) \in Nat \ {0} /\ Len(ctx) \in 1..Len(ctx)
  BY TimesFront
<1>2. Times(f, {"for"}) \in Nat /\ Times(ctx, {"for"}) = Times(f, {"for"}) + One(k \in {"for"})
  BY TimesFront
<1>3. Times(f, {"for"}) = 0 \/ Len(f) # 0
  <2>1. Len(f) = 0 => f = << >>
    BY <1>1, TimesFront
  <2>2. QED
    BY <2>1, TimesEmpty
<1>4. k = "func" <=> Len(ctx) = 1
  BY <1>1 DEF Shape
<1>5. Len(cscopes) = 1 + Len(ctx) + Times(ctx, {"for"})
  BY DEF Shape
<1> HIDE DEF f
<1>6. One(k \in {"for"}) = One(k = "for") /\ One(k = "for") \in Nat
  BY DEF One
<1> HIDE DEF k
<1>7. QED
  BY <1>1, <1>2, <1>3, <1>4, <1>5, <1>6, SMTT(30) DEF k


LEMMA CloseNames ==
  ASSUME NamesInv, Close
  PROVE  NamesOnly'
<1> DEFINE k    == ctx[Len(ctx)]
           K    == Len(cscopes)
           K2   == Len(cscopes) - 1 - One(k = "for")
           two  == PopScope(PopScope(cscopes))
           one  == PopScope(cscopes)
           stwo == PopScope(PopScope(scopes))
           sone == PopScope(scopes)
<1>1. /\ ctx # << >> /\ ctx' = SubSeq(ctx, 1, Len(ctx) - 1)
      /\ cscopes' = (IF k = "for" THEN two ELSE one)
      /\ fn = "in" => /\ scopes' = (IF k \in {"for", "func"} THEN stwo ELSE sone)
                      /\ loop' = loop - One(k \in {"loop", "for", "switch"})
                      /\ sw' = sw - One(k = "switch")
      /\ fn # "in" => scopes' = scopes /\ loop' = loop /\ sw' = sw
      /\ k = "func" => fn' = "none" /\ vars' = << >>
      /\ k # "func" => fn' = fn /\ vars' = vars
      /\ count' = count
  BY DEF Close, sema, cg
<1>2. fn # "none"
  BY <1>1, InvFacts
<1>3. /\ scopes \in Seq(Seq(Symbols)) /\ cscopes \in Seq(SUBSET Decls)
      /\ ctx \in Seq(Contexts) /\ fn \in {"in", "skipped"} /\ Shape
      /\ K \in Nat /\ Len(scopes) \in Nat
      /\ fn = "in" => Len(scopes) = K + 1
      /\ fn = "skipped" => Len(scopes) = 1
      /\ Local(cscopes, vars, count) /\ Matching(scopes, cscopes)
  BY <1>2, InFunction
<1>4. K2 \in Nat \ {0} /\ (K2 = 1 <=> k = "func")
  BY <1>1, <1>3, Closing
<1>5. (k = "for" => K2 = K - 2) /\ (k # "for" => K2 = K - 1)
  BY <1>3 DEF One
<1> HIDE DEF K2, k
<1>6. Pops(cscopes, cscopes') /\ Len(cscopes') = K2 /\ cscopes'[1] = cscopes[1]
  <2>1. CASE k = "for"
    <3>1. Len(cscopes) > 2
      BY <1>3, <1>4, <1>5, <2>1
    <3>2. two \in Seq(SUBSET Decls) /\ Len(two) = K - 2 /\ \A i \in 1..Len(two) : two[i] = cscopes[i]
      BY <1>3, <3>1, PopTwice
    <3>3. cscopes' = two
      BY <1>1, <2>1
    <3> HIDE DEF two
    <3>4. Len(two) = K2 /\ K2 \in 1..K /\ 1 \in 1..K2
      BY <1>3, <1>4, <1>5, <2>1, <3>2
    <3>5. Pops(cscopes, two) /\ Len(two) = K2 /\ two[1] = cscopes[1]
      BY <1>3, <3>2, <3>4 DEF Pops
    <3>6. QED
      BY <3>3, <3>5
  <2>2. CASE k # "for"
    <3>1. Len(cscopes) > 1
      BY <1>3, <1>4, <1>5, <2>2
    <3>2. one \in Seq(SUBSET Decls) /\ Len(one) = K - 1 /\ \A i \in 1..Len(one) : one[i] = cscopes[i]
      BY <1>3, <3>1, PopOnce
    <3>3. cscopes' = one
      BY <1>1, <2>2
    <3> HIDE DEF one
    <3>4. Len(one) = K2 /\ K2 \in 1..K /\ 1 \in 1..K2
      BY <1>3, <1>4, <1>5, <2>2, <3>2
    <3>5. Pops(cscopes, one) /\ Len(one) = K2 /\ one[1] = cscopes[1]
      BY <1>3, <3>2, <3>4 DEF Pops
    <3>6. QED
      BY <3>3, <3>5
  <2>3. QED
    BY <2>1, <2>2
<1> HIDE DEF two, one
<1>7. cscopes' \in Seq(SUBSET Decls)
  BY <1>6 DEF Pops
<1>8. Local(cscopes', vars', count')
  <2>1. Local(cscopes', vars, count) /\ (Len(cscopes') = 1 => Local(cscopes', << >>, count))
    BY <1>3, <1>6, LocalPops
  <2>2. CASE k = "func"
    BY <1>1, <1>4, <1>6, <2>1, <2>2
  <2>3. CASE k # "func"
    BY <1>1, <2>1, <2>3
  <2>4. QED
    BY <2>2, <2>3
<1>9. /\ Matching(scopes', cscopes') /\ scopes' \in Seq(Seq(Symbols))
      /\ Len(scopes') = IF fn' = "in" THEN K2 + 1 ELSE 1
  <2>1. CASE fn = "in"
    <3>1. /\ Leaves(scopes, scopes')
          /\ Len(scopes') = IF k \in {"for", "func"} THEN K - 1 ELSE K
      <4>1. CASE k \in {"for", "func"}
        <5>1. Len(scopes) > 2
          BY <1>3, <1>4, <1>5, <2>1
        <5>2. stwo \in Seq(Seq(Symbols)) /\ Len(stwo) = Len(scopes) - 2
              /\ \A i \in 1..Len(stwo) : stwo[i] = scopes[i]
          BY <1>3, <5>1, PopTwice
        <5>3. scopes' = stwo
          BY <1>1, <2>1, <4>1
        <5> HIDE DEF stwo
        <5>4. QED
          BY <1>3, <1>4, <1>5, <2>1, <4>1, <5>1, <5>2, <5>3, SMTT(30) DEF Leaves
      <4>2. CASE k \notin {"for", "func"}
        <5>1. Len(scopes) > 1
          BY <1>3, <1>4, <1>5, <2>1
        <5>2. sone \in Seq(Seq(Symbols)) /\ Len(sone) = Len(scopes) - 1
              /\ \A i \in 1..Len(sone) : sone[i] = scopes[i]
          BY <1>3, <5>1, PopOnce
        <5>3. scopes' = sone
          BY <1>1, <2>1, <4>2
        <5> HIDE DEF sone
        <5>4. QED
          BY <1>3, <1>4, <1>5, <2>1, <4>2, <5>1, <5>2, <5>3 DEF Leaves
      <4>3. QED
        BY <4>1, <4>2
    <3> HIDE DEF stwo, sone
    <3>2. Len(scopes') = IF fn' = "in" THEN K2 + 1 ELSE 1
      <4>1. CASE k = "func"
        BY <1>1, <1>3, <1>4, <1>5, <3>1, <4>1
      <4>2. CASE k # "func"
        BY <1>1, <1>3, <1>4, <1>5, <2>1, <3>1, <4>2
      <4>3. QED
        BY <4>1, <4>2
    <3>3. Lang(Len(scopes')) = Len(cscopes') /\ Len(scopes') # 2
      <4>1. CASE k = "func"
        BY <1>1, <1>4, <1>6, <3>2, <4>1 DEF Lang
      <4>2. CASE k # "func"
        BY <1>1, <1>4, <1>6, <2>1, <3>2, <4>2 DEF Lang
      <4>3. QED
        BY <4>1, <4>2
    <3>4. Matching(scopes', cscopes')
      BY <1>3, <1>6, <3>1, <3>3, MatchPops
    <3>5. QED
      BY <3>1, <3>2, <3>4 DEF Leaves
  <2>2. CASE fn = "skipped"
    <3>1. scopes' = scopes /\ Len(scopes) = 1 /\ fn' # "in"
      BY <1>1, <1>3, <2>2
    <3>2. Matching(scopes, cscopes')
      BY <1>3, <1>6, <3>1, MatchSkips
    <3>3. QED
      BY <1>3, <3>1, <3>2
  <2>3. QED
    BY <1>3, <2>1, <2>2
<1> HIDE DEF stwo, sone
<1>10. Shape' /\ ctx' \in Seq(Contexts)
  <2>1. Len(cscopes') = Len(cscopes) - 1 - One(k = "for") /\ k = ctx[Len(ctx)]
    BY <1>6 DEF K2, k
  <2>2. fn' = (IF k = "func" THEN "none" ELSE fn) /\ (k = "func" => vars' = << >>)
    BY <1>1
  <2>3. Len(scopes') = IF fn' = "in" THEN Len(cscopes') + 1 ELSE 1
    BY <1>6, <1>9
  <2>4. /\ fn = "in" => /\ loop' = loop - One(k \in {"loop", "for", "switch"})
                        /\ sw' = sw - One(k = "switch")
        /\ fn # "in" => loop' = loop /\ sw' = sw
    BY <1>1
  <2>5. QED
    BY <1>1, <1>3, <2>1, <2>2, <2>3, <2>4, ShapeCloses
<1>11. fn' \in {"none", "in", "skipped"}
  BY <1>1, <1>3
<1>12. NamesTyped'
  BY <1>7, <1>9, <1>10, <1>11 DEF NamesTyped
<1>13. QED
  BY <1>8, <1>9, <1>10, <1>12 DEF NamesOnly

LEMMA InitNames == Init => NamesInv
<1> SUFFICES ASSUME Init PROVE NamesInv
  OBVIOUS
<1>1. /\ scopes = << << >> >> /\ loop = 0 /\ sw = 0 /\ fn = "none" /\ vars = << >> /\ next = 0
      /\ cscopes = <<{}>> /\ ctx = << >> /\ count = 0
  BY DEF Init
<1>2. FrameInv
  BY InitFrame
<1>3. NamesTyped
  <2>1. << >> \in Seq(Symbols) /\ {} \in SUBSET Decls /\ << >> \in Seq(Contexts)
    OBVIOUS
  <2>2. << << >> >> \in Seq(Seq(Symbols)) /\ <<{}>> \in Seq(SUBSET Decls)
    BY <2>1
  <2>3. QED
    BY <1>1, <2>1, <2>2 DEF NamesTyped
<1>4. Shape
  <2>1. \A ks : Times(ctx, ks) = 0
    BY <1>1, TimesEmpty
  <2>2. Times(ctx, {"for"}) = 0
    BY <2>1
  <2>3. Len(scopes) = 1 /\ Len(cscopes) = 1 /\ Len(ctx) = 0
    BY <1>1
  <2>4. \A i \in 1..Len(ctx) : ctx[i] = "func" <=> i = 1
    BY <2>3
  <2>5. QED
    BY <1>1, <2>2, <2>3, <2>4 DEF Shape
<1>5. Len(cscopes) = 1 /\ cscopes[1] = {} /\ Len(vars) = 0 /\ Len(scopes) = 1 /\ Len(scopes[1]) = 0
  BY <1>1
<1>6. \A i \in 1..Len(cscopes) : cscopes[i] = {}
  BY <1>5
<1>7. Local(cscopes, vars, count)
  BY <1>5, <1>6 DEF Local, Single, Rising, Outer, Sorted, Listed, Owned
<1>8. Matching(scopes, cscopes)
  BY <1>5, <1>6 DEF Matching, SymsMatch, DeclsMatch, ParamsMatch, Lang
<1>9. QED
  BY <1>2, <1>3, <1>4, <1>7, <1>8 DEF NamesInv

LEMMA NextNames == NamesInv /\ [Next]_svars => NamesInv'
<1> SUFFICES ASSUME NamesInv, [Next]_svars PROVE NamesInv'
  OBVIOUS
<1>1. FrameInv'
  BY NextFrame DEF NamesInv
<1>2. NamesOnly'
  <2>1. CASE \E inner \in Inners, typedef \in BOOLEAN : DeclareTypeOnly(inner, typedef)
    BY <2>1, TypeOnlyNames
  <2>2. CASE \E n \in Names, st \in {"tent", "init", "extern", "proto"} : DeclareGlobal(n, st)
    BY <2>2, GlobalNames
  <2>3. CASE \E n \in Names, st \in {"auto", "static", "extern", "proto"}, type \in Types :
               DeclareLocal(n, st, type)
    BY <2>3, LocalNames
  <2>4. CASE \E n \in Names, inner \in Inners, type \in Types : DeclareWith(n, inner, type)
    BY <2>4, WithNames
  <2>5. CASE \E f \in Names, ps \in NameLists, type \in Types : BeginFunction(f, ps, type)
    BY <2>5, BeginNames
  <2>6. CASE \E k \in {"block", "loop", "switch"} : Open(k)
    BY <2>6, OpenNames
  <2>7. CASE \E ns \in NameLists, type \in Types : OpenFor(ns, type)
    BY <2>7, ForNames
  <2>8. CASE Close
    BY <2>8, CloseNames
  <2>9. CASE UNCHANGED svars
    <3>1. /\ scopes' = scopes /\ loop' = loop /\ sw' = sw /\ fn' = fn /\ vars' = vars
          /\ cscopes' = cscopes /\ ctx' = ctx /\ count' = count
      BY <2>9 DEF svars, sema, cg
    <3>2. NamesTyped' /\ Shape'
      BY <3>1 DEF NamesInv, NamesTyped, Shape
    <3>3. Local(cscopes', vars', count') /\ Matching(scopes', cscopes')
      BY <3>1 DEF NamesInv
    <3>4. QED
      BY <3>2, <3>3 DEF NamesOnly
  <2>10. QED
    BY <2>1, <2>2, <2>3, <2>4, <2>5, <2>6, <2>7, <2>8, <2>9 DEF Next
<1>3. QED
  BY <1>1, <1>2 DEF NamesInv, NamesOnly

(***************************************************************************)
(* The theorems.                                                           *)
(***************************************************************************)
\* Scope by scope, the symbol table (symtable_define, symtable_push_scope,
\* symtable_pop_scope) has what the language has declared, and the list of
\* locals (local_alloc) has every object of the function, the latest first.
THEOREM NamesInvariance == Spec => []NamesInv
<1>1. Init => NamesInv
  BY InitNames
<1>2. NamesInv /\ [Next]_svars => NamesInv'
  BY NextNames
<1>3. QED
  BY <1>1, <1>2, PTL DEF Spec

\* An identifier always compiles to the object it stands for: cg_expr asks
\* local_find, or takes the number that sema_expr has put in place of an
\* enumerator, and neither errs by what was declared before it; save for the
\* odd forms and after a block that declared the name again.
THEOREM UsesAlwaysReachTheirObject == Spec => []UsesReachTheirObject
<1>1. NamesInv => UsesReachTheirObject
  BY UsesFollow
<1>2. QED
  BY <1>1, NamesInvariance, PTL

\* symtable_lookup and symtable_lookup_tag always find the object that the
\* innermost declaration of the name has.
THEOREM NamesAlwaysAgree == Spec => []NamesAgree
<1>1. NamesInv => NamesAgree
  BY NamesFollow
<1>2. QED
  BY <1>1, NamesInvariance, PTL

\* process_var_decl and analyze_func_def never refuse a name that the scope
\* does not have, and in a block process_var_decl refuses every one it has,
\* save a parameter of the function and the odd forms.
THEOREM RefusesAlwaysOnlyRedeclaration == Spec => []RefusesOnlyRedeclaration
<1>1. NamesInv => RefusesOnlyRedeclaration
  BY RefusalsFollow
<1>2. QED
  BY <1>1, NamesInvariance, PTL

\* analyze_stmt: in_loop and in_switch are always what is open around the
\* statement, however deep it lies, and nothing of a function outlives it.
THEOREM JumpsAlwaysAccepted == Spec => []JumpsAccepted
<1>1. NamesInv => JumpsAccepted
  BY JumpsFollow
<1>2. QED
  BY <1>1, NamesInvariance, PTL


=============================================================================
