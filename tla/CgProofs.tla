------------------------------ MODULE CgProofs ------------------------------
(***************************************************************************)
(* Proofs about code generation, in two parts that share nothing but the   *)
(* lemmas.                                                                 *)
(*                                                                         *)
(* Of CgImage: sections, symbols and relocations, for any variables,       *)
(* functions and types and any number of declarations, local statics,      *)
(* literals and references.                                                *)
(*                                                                         *)
(* Of CgCall: where the arguments of a call are put and where the function *)
(* that is called looks for them, for any types and lists of arguments and *)
(* any number of argument registers.                                       *)
(***************************************************************************)
EXTENDS CgImage, CgCall, BasicLemmas, SequenceTheorems

Labels  == {Label(k, f, i) : k \in {"static", "literal"}, f \in Funcs, i \in 0..MaxInner}
Known   == Vars \cup Funcs \cup Labels
Places  == [sec : Sections, off : Nat, size : Nat, room : Nat]
Kinds   == {"extern", "func", "object", "bss", "rodata"}
Symbols == [name : Known, kind : Kinds, off : Nat, size : Nat, global : BOOLEAN]
Patches == [at : Nat, sym : Known]

TypeOK ==
  /\ func \in Funcs \cup {NoFunc}
  /\ size \in [Sections -> Nat]
  /\ syms \in Seq(Symbols) /\ relocs \in Seq(Patches)
  /\ given \in [decls : Nat, inner : Nat]
  /\ Vars \cup Funcs \subseteq DOMAIN homes /\ DOMAIN homes \subseteq Known
  /\ \A n \in DOMAIN homes : homes[n] \in SUBSET Places

\* The room set aside lies within its section, no two places overlap in one, and
\* no two relocations patch the same bytes.
Clear(a, m, b, n) == a + m <= b \/ b + n <= a
Beside(h, k) == h = k \/ h.sec # k.sec \/ Clear(h.off, h.room, k.off, k.room)

Bounded == \A n \in DOMAIN homes : \A h \in homes[n] : h.off + h.room <= size[h.sec]
Apart   == \A n, m \in DOMAIN homes : \A h \in homes[n], k \in homes[m] : Beside(h, k)
Patched ==
  /\ \A i \in 1..Len(relocs) : relocs[i].at + 4 <= size["text"]
  /\ \A i, j \in 1..Len(relocs) : i = j \/ Clear(relocs[i].at, 4, relocs[j].at, 4)

\* A symbol that is no static local's and defines something has the section and
\* offset of a place of its name; a name with a place has such a symbol.
SectionOf(kind) ==
  CASE kind = "func" -> "text" [] kind = "object" -> "data"
    [] kind = "bss" -> "bss"   [] kind = "rodata" -> "rodata"
AtHome(s, hs) == \E h \in hs : h.sec = SectionOf(s.kind) /\ h.off = s.off
Placed(s, H) ==
  /\ s.name \in DOMAIN H
  /\ s.kind = "extern" => s.global
  /\ s.kind # "extern" => H[s.name] # {}
  /\ s.kind = "extern" \/ IsStaticLocal(s.name) \/ AtHome(s, H[s.name])
Defines(s, n) == s.name = n /\ s.kind # "extern"
SymsPlaced == \A i \in 1..Len(syms) : Placed(syms[i], homes)
HomesNamed == \A n \in DOMAIN homes :
                homes[n] # {} => \E i \in 1..Len(syms) : Defines(syms[i], n)
RefsNamed  == \A i \in 1..Len(relocs) : \E j \in 1..Len(syms) : syms[j].name = relocs[i].sym

\* The inductive invariant.
IInv ==
  /\ TypeOK /\ Bounded /\ Apart /\ Patched
  /\ SymsPlaced /\ HomesNamed /\ RefsNamed

(***************************************************************************)
(* Steps.                                                                  *)
(***************************************************************************)
\* Nothing shrinks, and only n may come to have a place.
SizesGrow    == size' \in [Sections -> Nat] /\ \A s \in Sections : size'[s] >= size[s]
HomesGrow(n) ==
  /\ n \in DOMAIN homes'
  /\ \A m \in DOMAIN homes : m \in DOMAIN homes' /\ homes[m] \subseteq homes'[m]
  /\ \A m \in DOMAIN homes' : m # n => m \in DOMAIN homes /\ homes'[m] = homes[m]
HomesTyped ==
  /\ Vars \cup Funcs \subseteq DOMAIN homes' /\ DOMAIN homes' \subseteq Known
  /\ \A m \in DOMAIN homes' : homes'[m] \in SUBSET Places

\* p is behind what its section has, and within what it has then.
Fits(p) == p.off >= size[p.sec] /\ p.off + p.room <= size'[p.sec]

\* A symbol of that kind and offset says where p is.
Says(n, kind, off, p) == IsStaticLocal(n) \/ (p.sec = SectionOf(kind) /\ p.off = off)

\* A symbol of n defines what has a place, or is external and changes none.
SymFits(n, kind, off, global) ==
  IF kind = "extern" THEN global /\ homes' = homes
  ELSE /\ homes'[n] # {}
       /\ IsStaticLocal(n) \/ \E h \in homes'[n] : h.sec = SectionOf(kind) /\ h.off = off

\* Padding never goes back.
LEMMA UpIsUp ==
  ASSUME NEW off \in Nat, NEW align \in Nat \ {0}
  PROVE  Up(off, align) \in Nat /\ Up(off, align) >= off
<1>1. off % align \in 0..align - 1
  OBVIOUS
<1>2. align - (off % align) \in Nat
  BY <1>1
<1>3. (align - (off % align)) % align \in 0..align - 1
  BY <1>2
<1>4. QED
  BY <1>3 DEF Up

\* A place behind what its section has, with the section grown over it.
LEMMA HomeKeeps ==
  ASSUME TypeOK, Bounded, Apart, NEW n \in Known, NEW p \in Places, Home(n, p),
         SizesGrow, Fits(p)
  PROVE  /\ HomesTyped /\ HomesGrow(n) /\ p \in homes'[n]
         /\ Bounded' /\ Apart'
<1>1. /\ DOMAIN homes' = DOMAIN homes \cup {n}
      /\ \A m \in DOMAIN homes : m # n => homes'[m] = homes[m]
      /\ homes'[n] = (IF n \in DOMAIN homes THEN homes[n] ELSE {}) \cup {p}
  BY DEF Home
<1>2. \A m \in DOMAIN homes : m \in DOMAIN homes' /\ homes[m] \subseteq homes'[m]
  BY <1>1
<1>3. \A m \in DOMAIN homes' : m # n => m \in DOMAIN homes /\ homes'[m] = homes[m]
  BY <1>1
<1>4. \A m \in DOMAIN homes' : homes'[m] \in SUBSET Places
  BY <1>1 DEF TypeOK
<1>5. \A m \in DOMAIN homes' : \A h \in homes'[m] :
        h = p \/ (m \in DOMAIN homes /\ h \in homes[m])
  BY <1>1
<1>6. ASSUME NEW m \in DOMAIN homes, NEW h \in homes[m]
      PROVE  /\ h \in Places /\ h.off \in Nat /\ h.room \in Nat /\ h.sec \in Sections
             /\ h.off + h.room <= size[h.sec]
  <2>1. h \in Places /\ h.off + h.room <= size[h.sec]
    BY <1>6 DEF TypeOK, Bounded
  <2>2. QED
    BY <2>1 DEF Places
<1>7. /\ p.off \in Nat /\ p.room \in Nat /\ p.sec \in Sections
      /\ p.off >= size[p.sec] /\ p.off + p.room <= size'[p.sec]
  BY DEF Places, Fits
<1>8. \A s \in Sections : size[s] \in Nat /\ size'[s] \in Nat /\ size'[s] >= size[s]
  BY DEF TypeOK, SizesGrow
<1>9. Bounded'
  <2>1. ASSUME NEW m \in DOMAIN homes', NEW h \in homes'[m]
        PROVE  h.off + h.room <= size'[h.sec]
    <3>1. CASE h = p
      BY <1>7, <3>1
    <3>2. CASE m \in DOMAIN homes /\ h \in homes[m]
      <4>1. h.off + h.room <= size[h.sec] /\ h.sec \in Sections /\ h.off \in Nat /\ h.room \in Nat
        BY <1>6, <3>2
      <4>2. QED
        BY <1>8, <4>1
    <3>3. QED
      BY <1>5, <3>1, <3>2
  <2>2. QED
    BY <2>1 DEF Bounded
<1>10. Apart'
  <2>1. ASSUME NEW m \in DOMAIN homes, NEW h \in homes[m] PROVE Beside(h, p) /\ Beside(p, h)
    <3>1. /\ h.off \in Nat /\ h.room \in Nat /\ h.sec \in Sections
          /\ h.off + h.room <= size[h.sec]
      BY <1>6, <2>1
    <3>2. QED
      BY <1>7, <1>8, <3>1 DEF Beside, Clear
  <2>2. ASSUME NEW m \in DOMAIN homes', NEW h \in homes'[m],
               NEW q \in DOMAIN homes', NEW k \in homes'[q]
        PROVE  Beside(h, k)
    <3>1. CASE h = p /\ k = p
      BY <3>1 DEF Beside
    <3>2. CASE h = p /\ q \in DOMAIN homes /\ k \in homes[q]
      BY <2>1, <3>2
    <3>3. CASE k = p /\ m \in DOMAIN homes /\ h \in homes[m]
      BY <2>1, <3>3
    <3>4. CASE m \in DOMAIN homes /\ h \in homes[m] /\ q \in DOMAIN homes /\ k \in homes[q]
      BY <3>4 DEF Apart
    <3>5. QED
      BY <1>5, <3>1, <3>2, <3>3, <3>4
  <2>3. QED
    BY <2>2 DEF Apart
<1>11. QED
  BY <1>1, <1>2, <1>3, <1>4, <1>9, <1>10 DEF TypeOK, HomesTyped, HomesGrow

\* The relocations are those there were, but for one against n.
OnlyAdds(n) ==
  \A i \in 1..Len(relocs') :
    relocs'[i].sym = n \/ \E j \in 1..Len(relocs) : relocs'[i].sym = relocs[j].sym

\* A symbol in front of the others, at home or external, whatever places are
\* added besides; only its own name may have come to have one.
LEMMA SymKeeps ==
  ASSUME TypeOK, SymsPlaced, HomesNamed, RefsNamed,
         NEW n \in Known, NEW kind \in Kinds, NEW off \in Nat, NEW sz \in Nat,
         NEW global \in BOOLEAN, SymAdd(n, kind, off, sz, global),
         HomesGrow(n), SymFits(n, kind, off, global), OnlyAdds(n)
  PROVE  syms' \in Seq(Symbols) /\ SymsPlaced' /\ HomesNamed' /\ RefsNamed'
<1> DEFINE s == [name |-> n, kind |-> kind, off |-> off, size |-> sz, global |-> global]
<1>1. s \in Symbols /\ s.name = n /\ s.kind = kind /\ s.off = off /\ s.global = global
  BY DEF Symbols
<1>2. syms' = <<s>> \o syms
  BY DEF SymAdd
<1> HIDE DEF s
<1>3. syms \in Seq(Symbols)
  BY DEF TypeOK
<1>4. /\ syms' \in Seq(Symbols) /\ Len(syms') = Len(syms) + 1 /\ syms'[1] = s
      /\ Len(syms) \in Nat
      /\ \A i \in 2..Len(syms') : i - 1 \in 1..Len(syms) /\ syms'[i] = syms[i - 1]
      /\ \A i \in 1..Len(syms) : i + 1 \in 1..Len(syms') /\ syms'[i + 1] = syms[i]
      /\ 1 \in 1..Len(syms')
  BY <1>1, <1>2, <1>3
<1>5. SymsPlaced'
  <2>1. Placed(s, homes')
    BY <1>1 DEF Placed, AtHome, HomesGrow, SymFits
  <2>2. ASSUME NEW i \in 1..Len(syms) PROVE Placed(syms[i], homes')
    <3>1. Placed(syms[i], homes)
      BY DEF SymsPlaced
    <3>2. QED
      BY <3>1 DEF Placed, AtHome, HomesGrow
  <2>3. QED
    BY <1>4, <2>1, <2>2 DEF SymsPlaced
<1>6. HomesNamed'
  <2>1. ASSUME NEW m \in DOMAIN homes', homes'[m] # {}
        PROVE  \E i \in 1..Len(syms') : Defines(syms'[i], m)
    <3>1. CASE m = n /\ kind # "extern"
      BY <1>1, <1>4, <3>1 DEF Defines
    <3>2. CASE m # n \/ kind = "extern"
      <4>1. m \in DOMAIN homes /\ homes[m] # {}
        BY <2>1, <3>2 DEF HomesGrow, SymFits
      <4>2. PICK i \in 1..Len(syms) : Defines(syms[i], m)
        BY <4>1 DEF HomesNamed
      <4>3. QED
        BY <1>4, <4>2
    <3>3. QED
      BY <3>1, <3>2
  <2>2. QED
    BY <2>1 DEF HomesNamed
<1>7. RefsNamed'
  <2>1. ASSUME NEW i \in 1..Len(relocs')
        PROVE  \E j \in 1..Len(syms') : syms'[j].name = relocs'[i].sym
    <3>1. CASE relocs'[i].sym = n
      BY <1>1, <1>4, <3>1
    <3>2. CASE relocs'[i].sym # n
      <4>1. PICK j \in 1..Len(relocs) : relocs'[i].sym = relocs[j].sym
        BY <3>2 DEF OnlyAdds
      <4>2. PICK k \in 1..Len(syms) : syms[k].name = relocs[j].sym
        BY DEF RefsNamed
      <4>3. QED
        BY <1>4, <4>1, <4>2
    <3>3. QED
      BY <3>1, <3>2
  <2>2. QED
    BY <2>1 DEF RefsNamed
<1>8. QED
  BY <1>4, <1>5, <1>6, <1>7

\* A relocation of the four bytes that the code is about to grow by.
LEMMA RelocKeeps ==
  ASSUME TypeOK, Patched, NEW n \in Known, RelocAdd(n), size'["text"] = size["text"] + 4
  PROVE  relocs' \in Seq(Patches) /\ Patched' /\ OnlyAdds(n)
<1> DEFINE r == [at |-> size["text"], sym |-> n]
<1>1. size["text"] \in Nat
  BY DEF TypeOK, Sections
<1>2. r \in Patches /\ r.at = size["text"] /\ r.sym = n
  BY <1>1 DEF Patches
<1>3. relocs' = <<r>> \o relocs /\ relocs \in Seq(Patches)
  BY DEF RelocAdd, TypeOK
<1> HIDE DEF r
<1>4. /\ relocs' \in Seq(Patches) /\ Len(relocs') = Len(relocs) + 1 /\ relocs'[1] = r
      /\ Len(relocs) \in Nat
      /\ \A i \in 2..Len(relocs') : i - 1 \in 1..Len(relocs) /\ relocs'[i] = relocs[i - 1]
  BY <1>2, <1>3
<1>5. \A i \in 1..Len(relocs) : relocs[i].at \in Nat /\ relocs[i].at + 4 <= size["text"]
  <2>1. \A i \in 1..Len(relocs) : relocs[i] \in Patches
    BY <1>3
  <2>2. QED
    BY <2>1 DEF Patches, Patched
<1>6. \A i \in 1..Len(relocs') :
        \/ i = 1 /\ relocs'[i].at = size["text"] /\ relocs'[i].sym = n
        \/ i \in 2..Len(relocs') /\ relocs'[i].at \in Nat /\ relocs'[i].at + 4 <= size["text"]
  BY <1>2, <1>4, <1>5
<1>7. \A i \in 1..Len(relocs') : relocs'[i].at + 4 <= size'["text"]
  BY <1>1, <1>6
<1>8. ASSUME NEW i \in 1..Len(relocs'), NEW j \in 1..Len(relocs'), i # j
      PROVE  Clear(relocs'[i].at, 4, relocs'[j].at, 4)
  <2>1. CASE i = 1 \/ j = 1
    BY <1>1, <1>6, <1>8, <2>1 DEF Clear
  <2>2. CASE i # 1 /\ j # 1
    <3>1. i \in 2..Len(relocs') /\ j \in 2..Len(relocs') /\ i - 1 # j - 1
      BY <1>4, <1>8, <2>2
    <3>2. QED
      BY <1>4, <3>1 DEF Patched
  <2>3. QED
    BY <2>1, <2>2
<1>9. OnlyAdds(n)
  BY <1>4, <1>6 DEF OnlyAdds
<1>10. QED
  BY <1>4, <1>7, <1>8, <1>9 DEF Patched

\* Without a new relocation.
LEMMA PatchesStay ==
  ASSUME TypeOK, Patched, relocs' = relocs, size' \in [Sections -> Nat],
         size'["text"] >= size["text"], NEW n
  PROVE  relocs' \in Seq(Patches) /\ Patched' /\ OnlyAdds(n)
<1>1. size["text"] \in Nat /\ size'["text"] \in Nat /\ relocs \in Seq(Patches)
  BY DEF TypeOK, Sections
<1>2. \A i \in 1..Len(relocs) : relocs[i] \in Patches
  BY <1>1
<1>3. \A i \in 1..Len(relocs) : relocs[i].at \in Nat
  BY <1>2 DEF Patches
<1>4. \A i \in 1..Len(relocs) : relocs[i].at + 4 <= size'["text"]
  BY <1>1, <1>3 DEF Patched
<1>5. QED
  BY <1>1, <1>4 DEF Patched, OnlyAdds

\* A definition with its symbol: a place behind what its section has, and a
\* relocation at most.
LEMMA DefinitionKeeps ==
  ASSUME IInv, NEW n \in Known, NEW p \in Places, Home(n, p),
         NEW kind \in Kinds, kind # "extern", NEW off \in Nat, NEW sz \in Nat,
         NEW global \in BOOLEAN, SymAdd(n, kind, off, sz, global),
         Says(n, kind, off, p),
         SizesGrow, Fits(p), relocs' \in Seq(Patches), Patched', OnlyAdds(n),
         given' \in [decls : Nat, inner : Nat], func' \in Funcs \cup {NoFunc}
  PROVE  IInv'
<1>1. TypeOK /\ Bounded /\ Apart /\ SymsPlaced /\ HomesNamed /\ RefsNamed
  BY DEF IInv
<1>2. /\ HomesTyped /\ HomesGrow(n) /\ p \in homes'[n]
      /\ Bounded' /\ Apart'
  BY <1>1, HomeKeeps
<1>3. SymFits(n, kind, off, global)
  BY <1>2 DEF SymFits, Says
<1>4. syms' \in Seq(Symbols) /\ SymsPlaced' /\ HomesNamed' /\ RefsNamed'
  BY <1>1, <1>2, <1>3, SymKeeps
<1>5. TypeOK'
  BY <1>2, <1>4 DEF TypeOK, HomesTyped, SizesGrow
<1>6. QED
  BY <1>2, <1>4, <1>5 DEF IInv

LEMMA SizeFacts ==
  ASSUME TypeOK, NEW sec \in Sections, NEW k \in Nat, k >= size[sec],
         size' = [size EXCEPT ![sec] = k]
  PROVE  SizesGrow /\ size'[sec] = k /\ size'["text"] >= size["text"]
<1>1. size \in [Sections -> Nat]
  BY DEF TypeOK
<1>2. \A s \in Sections : size'[s] \in Nat /\ size'[s] >= size[s]
  BY <1>1
<1>3. size' \in [Sections -> Nat] /\ size'[sec] = k
  BY <1>1
<1>4. "text" \in Sections
  BY DEF Sections
<1>5. QED
  BY <1>2, <1>3, <1>4 DEF SizesGrow

\* data_add and gen_global.
LEMMA ReserveKeeps ==
  ASSUME IInv, NEW n \in Known, NEW sec \in {"data", "bss"}, NEW align \in Nat \ {0},
         NEW sz \in Nat, NEW z \in Nat,
         NEW kind \in {"object", "bss"}, NEW off \in Nat, NEW global \in BOOLEAN,
         Reserve(n, sec, align, sz, z, kind, off, global),
         IsStaticLocal(n) \/ (sec = SectionOf(kind) /\ off = NewOff(sec, align)),
         relocs' = relocs, given' \in [decls : Nat, inner : Nat], func' \in Funcs \cup {NoFunc}
  PROVE  IInv'
<1> DEFINE u == NewOff(sec, align)
           p == Place(sec, u, sz, z)
<1>1. sec \in Sections
  BY DEF Sections
<1>2. size[sec] \in Nat /\ TypeOK /\ Patched
  BY <1>1 DEF IInv, TypeOK
<1>3. u \in Nat /\ u >= size[sec]
  BY <1>1, <1>2, UpIsUp DEF NewOff
<1>4. /\ size' = [size EXCEPT ![sec] = u + z] /\ Home(n, p)
      /\ SymAdd(n, kind, off, z, global)
  BY DEF Reserve
<1>5. IsStaticLocal(n) \/ (sec = SectionOf(kind) /\ off = u)
  OBVIOUS
<1> HIDE DEF u
<1>6. p \in Places /\ p.sec = sec /\ p.off = u /\ p.room = z
  BY <1>1, <1>3 DEF Place, Places
<1> HIDE DEF p
<1>7. u + z \in Nat /\ u + z >= size[sec]
  BY <1>1, <1>2, <1>3
<1>8. SizesGrow /\ size'[sec] = u + z /\ size'["text"] >= size["text"]
  BY <1>1, <1>2, <1>4, <1>7, SizeFacts
<1>9. relocs' \in Seq(Patches) /\ Patched' /\ OnlyAdds(n)
  <2>1. size' \in [Sections -> Nat]
    BY <1>8 DEF SizesGrow
  <2>2. QED
    BY <1>2, <1>8, <2>1, PatchesStay
<1>10. Fits(p)
  BY <1>1, <1>3, <1>6, <1>7, <1>8 DEF Fits
<1>11. kind \in Kinds /\ kind # "extern"
  BY DEF Kinds
<1>12. Says(n, kind, off, p)
  BY <1>5, <1>6 DEF Says
<1>13. QED
  BY <1>1, <1>4, <1>6, <1>8, <1>9, <1>10, <1>11, <1>12, DefinitionKeeps

\* The sizes and alignments that storage is reserved by.
LEMMA RoomTypes ==
  ASSUME NEW type \in Types
  PROVE  /\ type.size \in Nat /\ GlobalRoom(type) \in Nat /\ StaticRoom(type) \in Nat
         /\ Align(type.parsed) \in Nat \ {0} /\ Align(type.resolved) \in Nat \ {0}
<1>1. /\ type.size \in Nat /\ type.parsed.size \in Nat /\ type.parsed.align \in Nat
      /\ type.resolved.size \in Nat /\ type.resolved.align \in Nat
  BY ImageAssumption
<1>2. QED
  BY <1>1 DEF GlobalRoom, StaticRoom, TySize, Align

LEMMA GlobalKeeps ==
  ASSUME IInv, NEW n \in Vars \cup Funcs, NEW form \in {"extern", "tentative", "init"},
         NEW type \in Types, NEW static \in BOOLEAN, GenGlobal(n, form, type, static)
  PROVE  IInv'
<1>1. /\ func' = func /\ relocs' = relocs /\ given' \in [decls : Nat, inner : Nat]
      /\ func' \in Funcs \cup {NoFunc} /\ n \in Known /\ (~static) \in BOOLEAN
  <2>1. func' = func /\ relocs' = relocs /\ given' = [given EXCEPT !.decls = @ + 1]
    BY DEF GenGlobal
  <2>2. given \in [decls : Nat, inner : Nat] /\ func \in Funcs \cup {NoFunc}
    BY DEF IInv, TypeOK
  <2>3. given' \in [decls : Nat, inner : Nat]
    <3> DEFINE g == given
    <3>1. g \in [decls : Nat, inner : Nat] /\ given' = [g EXCEPT !.decls = g.decls + 1]
      BY <2>1, <2>2
    <3> HIDE DEF g
    <3>2. QED
      BY <3>1
  <2>4. QED
    BY <2>1, <2>2, <2>3 DEF Known
<1>2. CASE form = "extern"
  <2>1. SymAdd(n, "extern", 0, 0, TRUE) /\ size' = size /\ homes' = homes
    BY <1>2 DEF GenGlobal
  <2>2. /\ TypeOK /\ Bounded /\ Apart /\ Patched /\ SymsPlaced /\ HomesNamed /\ RefsNamed
        /\ n \in DOMAIN homes
    BY DEF IInv, TypeOK
  <2>3. size \in [Sections -> Nat] /\ size["text"] \in Nat
    BY <2>2 DEF TypeOK, Sections
  <2>4. relocs' \in Seq(Patches) /\ Patched' /\ OnlyAdds(n)
    <3>1. size' \in [Sections -> Nat] /\ size'["text"] >= size["text"]
      BY <2>1, <2>3
    <3>2. QED
      BY <1>1, <2>2, <3>1, PatchesStay
  <2>5. syms' \in Seq(Symbols) /\ SymsPlaced' /\ HomesNamed' /\ RefsNamed'
    <3>1. "extern" \in Kinds /\ 0 \in Nat /\ TRUE \in BOOLEAN
      BY DEF Kinds
    <3>2. HomesGrow(n) /\ SymFits(n, "extern", 0, TRUE)
      BY <2>1, <2>2 DEF HomesGrow, SymFits
    <3>3. QED
      BY <1>1, <2>1, <2>2, <2>4, <3>1, <3>2, SymKeeps
  <2>6. TypeOK' /\ Bounded' /\ Apart'
    BY <1>1, <2>1, <2>2, <2>4, <2>5 DEF TypeOK, Bounded, Apart
  <2>7. QED
    BY <2>4, <2>5, <2>6 DEF IInv
<1> DEFINE align == Align(type.parsed)
           sz    == type.size
           z     == GlobalRoom(type)
<1>3. /\ align \in Nat \ {0} /\ sz \in Nat /\ z \in Nat
      /\ \A sec \in {"data", "bss"} : NewOff(sec, align) \in Nat
  <2>1. align \in Nat \ {0} /\ sz \in Nat /\ z \in Nat
    BY RoomTypes
  <2>2. \A sec \in {"data", "bss"} : size[sec] \in Nat
    BY DEF IInv, TypeOK, Sections
  <2> HIDE DEF align
  <2>3. QED
    BY <2>1, <2>2, UpIsUp DEF NewOff
<1>4. CASE form = "tentative"
  <2>1. Reserve(n, "bss", align, sz, z, "bss", NewOff("bss", align), ~static)
    BY <1>4 DEF GenGlobal
  <2>2. SectionOf("bss") = "bss" /\ NewOff("bss", align) \in Nat
    BY <1>3 DEF SectionOf
  <2> HIDE DEF align, sz, z
  <2>3. QED
    BY <1>1, <1>3, <2>1, <2>2, ReserveKeeps
<1>5. CASE form = "init"
  <2>1. Reserve(n, "data", align, sz, z, "object", NewOff("data", align), ~static)
    BY <1>5 DEF GenGlobal
  <2>2. SectionOf("object") = "data" /\ NewOff("data", align) \in Nat
    BY <1>3 DEF SectionOf
  <2> HIDE DEF align, sz, z
  <2>3. QED
    BY <1>1, <1>3, <2>1, <2>2, ReserveKeeps
<1>6. QED
  BY <1>2, <1>4, <1>5

LEMMA FunctionKeeps ==
  ASSUME IInv, NEW f \in Funcs, NEW static \in BOOLEAN, GenFunction(f, static)
  PROVE  IInv'
<1> DEFINE t == size["text"]
           p == Place("text", t, 1, 1)
<1>1. /\ func' = f /\ relocs' = relocs /\ given' = [given EXCEPT !.decls = @ + 1]
      /\ SymAdd(f, "func", t, 0, ~static) /\ Home(f, p)
      /\ size' = [size EXCEPT !["text"] = t + 1]
  BY DEF GenFunction
<1>2. TypeOK /\ Patched /\ t \in Nat /\ "text" \in Sections /\ f \in Known
  BY DEF IInv, TypeOK, Sections, Known
<1>3. p \in Places /\ p.sec = "text" /\ p.off = t /\ p.room = 1
  BY <1>2 DEF Place, Places
<1> HIDE DEF p
<1>4. given' \in [decls : Nat, inner : Nat]
  <2>1. given \in [decls : Nat, inner : Nat]
    BY DEF IInv, TypeOK
  <2>2. QED
    BY <1>1, <2>1
<1>5. SectionOf("func") = "text" /\ "func" \in Kinds /\ "func" # "extern"
      /\ (~static) \in BOOLEAN /\ func' \in Funcs \cup {NoFunc} /\ 0 \in Nat
  BY <1>1 DEF Kinds, SectionOf
<1>6. t = size["text"]
  OBVIOUS
<1> HIDE DEF t
<1>7. t + 1 \in Nat /\ t + 1 >= size["text"]
  BY <1>2, <1>6
<1>8. SizesGrow /\ size'["text"] = t + 1 /\ size'["text"] >= size["text"]
  BY <1>1, <1>2, <1>7, SizeFacts
<1>9. relocs' \in Seq(Patches) /\ Patched' /\ OnlyAdds(f)
  <2>1. size' \in [Sections -> Nat]
    BY <1>8 DEF SizesGrow
  <2>2. QED
    BY <1>1, <1>2, <1>8, <2>1, PatchesStay
<1>10. Fits(p) /\ Says(f, "func", t, p)
  BY <1>2, <1>3, <1>5, <1>6, <1>8 DEF Fits, Says
<1>11. QED
  BY <1>1, <1>2, <1>3, <1>4, <1>5, <1>8, <1>9, <1>10, DefinitionKeeps

\* A label belongs to nothing else, and tells a static local from a literal.
LEMMA LabelFacts ==
  ASSUME NEW kind \in {"static", "literal"}, NEW f \in Funcs, NEW i \in 0..MaxInner
  PROVE  /\ Label(kind, f, i) \in Known
         /\ IsStaticLocal(Label("static", f, i))
<1>1. Label(kind, f, i) \in Known
  BY DEF Known, Labels
<1>2. Label("static", f, i) \notin Vars \cup Funcs
  BY LabelsAssumption
<1>3. Label("static", f, i)[1] = "static"
  BY DEF Label
<1>4. QED
  BY <1>1, <1>2, <1>3 DEF IsStaticLocal

LEMMA StaticKeeps ==
  ASSUME IInv, NEW init \in BOOLEAN, NEW type \in Types, StaticLocal(init, type)
  PROVE  IInv'
<1> DEFINE n   == Label("static", func, given.inner)
           sec == IF init THEN "data" ELSE "bss"
<1>1. /\ func # NoFunc /\ given.inner < MaxInner /\ func' = func /\ relocs' = relocs
      /\ given' = [given EXCEPT !.inner = @ + 1]
      /\ Reserve(n, sec, Align(type.resolved), type.size, StaticRoom(type), "object", 0, FALSE)
  BY DEF StaticLocal
<1>2. given \in [decls : Nat, inner : Nat] /\ func \in Funcs \cup {NoFunc}
  BY DEF IInv, TypeOK
<1>3. func \in Funcs /\ given.inner \in 0..MaxInner
  BY <1>1, <1>2, LabelsAssumption
<1>4. given' \in [decls : Nat, inner : Nat]
  BY <1>1, <1>2
<1>5. n \in Known /\ IsStaticLocal(n)
  BY <1>3, LabelFacts
<1> HIDE DEF n
<1>6. sec \in {"data", "bss"} /\ "object" \in {"object", "bss"} /\ 0 \in Nat /\ FALSE \in BOOLEAN
  OBVIOUS
<1> HIDE DEF sec
<1>7. func' \in Funcs \cup {NoFunc}
  BY <1>1, <1>2
<1> DEFINE align == Align(type.resolved)
           sz    == type.size
           z     == StaticRoom(type)
<1>8. align \in Nat \ {0} /\ sz \in Nat /\ z \in Nat
  BY RoomTypes
<1>9. Reserve(n, sec, align, sz, z, "object", 0, FALSE)
  BY <1>1
<1> HIDE DEF align, sz, z
<1>10. QED
  BY <1>1, <1>4, <1>5, <1>6, <1>7, <1>8, <1>9, ReserveKeeps

LEMMA LiteralKeeps ==
  ASSUME IInv, NEW z \in {1, 8}, Literal(z)
  PROVE  IInv'
<1> DEFINE n == Label("literal", func, given.inner)
           r == size["rodata"]
           t == size["text"]
           p == Place("rodata", r, z, z)
<1>1. /\ func # NoFunc /\ given.inner < MaxInner /\ func' = func
      /\ RelocAdd(n) /\ SymAdd(n, "rodata", r, z, FALSE) /\ Home(n, p)
      /\ size' = [size EXCEPT !["rodata"] = r + z, !["text"] = t + 4]
      /\ given' = [given EXCEPT !.inner = @ + 1]
  BY DEF Literal
<1>2. /\ given \in [decls : Nat, inner : Nat] /\ func \in Funcs \cup {NoFunc}
      /\ size \in [Sections -> Nat] /\ TypeOK /\ Patched
  BY DEF IInv, TypeOK
<1>3. func \in Funcs /\ given.inner \in 0..MaxInner
  BY <1>1, <1>2, LabelsAssumption
<1>4. given' \in [decls : Nat, inner : Nat]
  BY <1>1, <1>2
<1>5. n \in Known
  BY <1>3, LabelFacts
<1> HIDE DEF n
<1>6. r \in Nat /\ t \in Nat /\ "rodata" \in Sections /\ "text" \in Sections
  BY <1>2 DEF Sections
<1>7. p \in Places /\ p.sec = "rodata" /\ p.off = r /\ p.room = z
  BY <1>6 DEF Place, Places
<1> HIDE DEF p
<1>8. size' \in [Sections -> Nat] /\ size'["rodata"] = r + z /\ size'["text"] = size["text"] + 4
  BY <1>1, <1>2, <1>6
<1>9. SizesGrow
  <2>1. ASSUME NEW s \in Sections PROVE size'[s] >= size[s]
    <3>1. size[s] \in Nat
      BY <1>2
    <3>2. CASE s = "rodata"
      BY <1>6, <1>8, <3>2
    <3>3. CASE s = "text"
      BY <1>6, <1>8, <3>3
    <3>4. CASE s # "rodata" /\ s # "text"
      <4>1. size'[s] = size[s]
        BY <1>1, <1>2, <3>4
      <4>2. QED
        BY <3>1, <4>1
    <3>5. QED
      BY <3>2, <3>3, <3>4
  <2>2. QED
    BY <1>8, <2>1 DEF SizesGrow
<1>10. relocs' \in Seq(Patches) /\ Patched' /\ OnlyAdds(n)
  BY <1>1, <1>2, <1>5, <1>8, RelocKeeps
<1>11. SectionOf("rodata") = "rodata" /\ "rodata" \in Kinds /\ "rodata" # "extern"
       /\ FALSE \in BOOLEAN /\ func' \in Funcs \cup {NoFunc} /\ z \in Nat
  BY <1>1, <1>2 DEF Kinds, SectionOf
<1>12. Fits(p) /\ Says(n, "rodata", r, p)
  BY <1>6, <1>7, <1>8, <1>11 DEF Fits, Says
<1> HIDE DEF r, t
<1>13. QED
  BY <1>1, <1>4, <1>5, <1>6, <1>7, <1>9, <1>10, <1>11, <1>12, DefinitionKeeps

LEMMA ReferKeeps ==
  ASSUME IInv, NEW n \in DOMAIN homes, Refer(n)
  PROVE  IInv'
<1>1. /\ \E s \in ToSet(syms) : s.name = n
      /\ RelocAdd(n) /\ size' = [size EXCEPT !["text"] = @ + 4]
      /\ func' = func /\ syms' = syms /\ homes' = homes /\ given' = given
  BY DEF Refer
<1>2. /\ TypeOK /\ Bounded /\ Apart /\ Patched /\ SymsPlaced /\ HomesNamed /\ RefsNamed
      /\ size \in [Sections -> Nat] /\ n \in Known /\ syms \in Seq(Symbols)
  BY DEF IInv, TypeOK
<1>3. "text" \in Sections /\ size["text"] \in Nat
  BY <1>2 DEF Sections
<1>4. size' \in [Sections -> Nat] /\ size'["text"] = size["text"] + 4
  BY <1>1, <1>2, <1>3
<1>5. relocs' \in Seq(Patches) /\ Patched' /\ OnlyAdds(n)
  BY <1>1, <1>2, <1>4, RelocKeeps
<1>6. RefsNamed'
  <2>1. \E j \in 1..Len(syms) : syms[j].name = n
    BY <1>1, <1>2 DEF ToSet
  <2>2. ASSUME NEW i \in 1..Len(relocs')
        PROVE  \E j \in 1..Len(syms) : syms[j].name = relocs'[i].sym
    BY <1>2, <1>5, <2>1 DEF OnlyAdds, RefsNamed
  <2>3. QED
    BY <1>1, <2>2 DEF RefsNamed
<1>7. Bounded'
  <2>1. \A s \in Sections : size[s] \in Nat /\ size'[s] \in Nat /\ size'[s] >= size[s]
    BY <1>1, <1>2, <1>3
  <2>2. ASSUME NEW m \in DOMAIN homes, NEW h \in homes[m]
        PROVE  h.off + h.room <= size'[h.sec]
    <3>1. h \in Places /\ h.off + h.room <= size[h.sec]
      BY <1>2 DEF TypeOK, Bounded
    <3>2. h.off \in Nat /\ h.room \in Nat /\ h.sec \in Sections
      BY <3>1 DEF Places
    <3>3. QED
      BY <2>1, <3>1, <3>2
  <2>3. QED
    BY <1>1, <2>2 DEF Bounded
<1>8. TypeOK' /\ Apart' /\ SymsPlaced' /\ HomesNamed'
  BY <1>1, <1>2, <1>4, <1>5 DEF TypeOK, Apart, SymsPlaced, HomesNamed
<1>9. QED
  BY <1>5, <1>6, <1>7, <1>8 DEF IInv

LEMMA InitIInv == Init => IInv
<1> SUFFICES ASSUME Init PROVE IInv
  OBVIOUS
<1>1. /\ func = NoFunc /\ size = [s \in Sections |-> 0] /\ syms = << >> /\ relocs = << >>
      /\ homes = [n \in Vars \cup Funcs |-> {}] /\ given = [decls |-> 0, inner |-> 0]
  BY DEF Init
<1>2. TypeOK
  <2>1. syms \in Seq(Symbols) /\ relocs \in Seq(Patches)
    BY <1>1
  <2>2. size \in [Sections -> Nat] /\ given \in [decls : Nat, inner : Nat]
    BY <1>1
  <2>3. QED
    BY <1>1, <2>1, <2>2 DEF TypeOK, Known
<1>3. Bounded /\ Apart /\ HomesNamed
  BY <1>1 DEF Bounded, Apart, HomesNamed
<1>4. Patched /\ SymsPlaced /\ RefsNamed
  BY <1>1 DEF Patched, SymsPlaced, RefsNamed
<1>5. QED
  BY <1>2, <1>3, <1>4 DEF IInv

LEMMA NextIInv == IInv /\ [Next]_ivars => IInv'
<1> SUFFICES ASSUME IInv, [Next]_ivars PROVE IInv'
  OBVIOUS
<1>1. ASSUME NEW n \in Vars \cup Funcs, NEW form \in {"extern", "tentative", "init"},
             NEW type \in Types, NEW static \in BOOLEAN, GenGlobal(n, form, type, static)
      PROVE  IInv'
  BY <1>1, GlobalKeeps
<1>2. ASSUME NEW f \in Funcs, NEW static \in BOOLEAN, GenFunction(f, static) PROVE IInv'
  BY <1>2, FunctionKeeps
<1>3. ASSUME NEW init \in BOOLEAN, NEW type \in Types, StaticLocal(init, type) PROVE IInv'
  BY <1>3, StaticKeeps
<1>4. ASSUME NEW z \in {1, 8}, Literal(z) PROVE IInv'
  BY <1>4, LiteralKeeps
<1>5. ASSUME NEW n \in DOMAIN homes, Refer(n) PROVE IInv'
  BY <1>5, ReferKeeps
<1>6. CASE StartCode \/ Finish \/ UNCHANGED ivars
  <2>1. /\ size' = size /\ syms' = syms /\ relocs' = relocs /\ homes' = homes
        /\ given' = given /\ func' \in Funcs \cup {NoFunc}
    BY <1>6 DEF StartCode, Finish, ivars, IInv, TypeOK
  <2>2. TypeOK' /\ Bounded' /\ Apart' /\ Patched'
    BY <2>1 DEF IInv, TypeOK, Bounded, Apart, Patched
  <2>3. SymsPlaced' /\ HomesNamed' /\ RefsNamed'
    BY <2>1 DEF IInv, SymsPlaced, HomesNamed, RefsNamed
  <2>4. QED
    BY <2>2, <2>3 DEF IInv
<1>7. QED
  BY <1>1, <1>2, <1>3, <1>4, <1>5, <1>6 DEF Next

\* The inductive invariant holds in every state.
THEOREM Invariance == Spec => []IInv
<1>1. QED
  BY InitIInv, NextIInv, PTL DEF Spec

(***************************************************************************)
(* Storage apart.                                                          *)
(***************************************************************************)
\* Each part of the file starts where the one before it ends, rounded up.
LEMMA Round16IsUp ==
  ASSUME NEW n \in Nat
  PROVE  Round16(n) \in Nat /\ Round16(n) >= n
BY DEF Round16

Following(f, i) == IF i = 1 THEN 64 ELSE f[i - 1] + Round16(FileParts[i - 1])

LEMMA FileOffIs == \A i \in 1..8 : FileOff[i] = Following(FileOff, i)
<1> DEFINE P(i) == Round16(FileParts[i])
           g2 == 64 + P(1)   g3 == g2 + P(2)   g4 == g3 + P(3)   g5 == g4 + P(4)
           g6 == g5 + P(5)   g7 == g6 + P(6)   g8 == g7 + P(7)
           g  == <<64, g2, g3, g4, g5, g6, g7, g8>>
<1>1. \A i \in 1..8 : g[i] = Following(g, i)
  <2> HIDE DEF g2, g3, g4, g5, g6, g7, g8
  <2>1. 1..8 = {1, 2, 3, 4, 5, 6, 7, 8}
    OBVIOUS
  <2>2. g[1] = Following(g, 1) /\ g[2] = Following(g, 2)
    BY DEF Following, g2
  <2>3. g[3] = Following(g, 3) /\ g[4] = Following(g, 4)
    BY DEF Following, g3, g4
  <2>4. g[5] = Following(g, 5) /\ g[6] = Following(g, 6)
    BY DEF Following, g5, g6
  <2>5. g[7] = Following(g, 7) /\ g[8] = Following(g, 8)
    BY DEF Following, g7, g8
  <2> HIDE DEF g
  <2>6. QED
    BY <2>1, <2>2, <2>3, <2>4, <2>5
<1> HIDE DEF g
<1> DEFINE h == [i \in 1..8 |-> g[i]]
<1>2. h = [i \in 1..8 |-> Following(h, i)]
  <2>1. \A i \in 1..8 : g[i] = Following(h, i)
    <3>1. ASSUME NEW i \in 1..8 PROVE g[i] = Following(h, i)
      <4>1. i = 1 \/ i - 1 \in 1..8
        OBVIOUS
      <4>2. i = 1 \/ h[i - 1] = g[i - 1]
        BY <4>1
      <4>3. QED
        BY <1>1, <4>2 DEF Following
    <3>2. QED
      BY <3>1
  <2>2. QED
    BY <2>1
<1> HIDE DEF h
<1>3. \E f : f = [i \in 1..8 |-> Following(f, i)]
  BY <1>2
<1>4. FileOff = CHOOSE f : f = [i \in 1..8 |-> Following(f, i)]
  BY DEF FileOff, Following
<1>5. FileOff = [i \in 1..8 |-> Following(FileOff, i)]
  BY <1>3, <1>4, Zenon
<1>6. QED
  BY <1>5, Zenon

LEMMA FileParted ==
  ASSUME TypeOK
  PROVE  \A i \in 1..7 : FileOff[i] + FileParts[i] <= FileOff[i + 1]
<1>1. /\ size["text"] \in Nat /\ size["rodata"] \in Nat /\ size["data"] \in Nat
      /\ Len(syms) \in Nat /\ Len(relocs) \in Nat
  BY DEF TypeOK, Sections
<1> DEFINE n == Len(syms) + 1
<1>2. n \in Nat /\ 24 * n \in Nat /\ 1 + 5 * n \in Nat /\ 24 * Len(relocs) \in Nat
  BY <1>1
<1>3. FileParts =
        <<size["text"], size["rodata"], size["data"], 24 * n, 1 + 5 * n, 64, 24 * Len(relocs)>>
  BY DEF FileParts
<1> HIDE DEF n
<1>4. FileParts \in [1..7 -> Nat]
  <2>1. FileParts \in Seq(Nat) /\ Len(FileParts) = 7
    BY <1>1, <1>2, <1>3
  <2>2. QED
    BY <2>1, LenProperties
<1>5. \A i \in 1..7 : Round16(FileParts[i]) \in Nat /\ Round16(FileParts[i]) >= FileParts[i]
  BY <1>4, Round16IsUp
<1>6. FileOff[1] = 64 /\ \A i \in 1..7 : FileOff[i + 1] = FileOff[i] + Round16(FileParts[i])
  <2>1. \A i \in 1..7 : i + 1 \in 1..8 /\ i + 1 # 1 /\ (i + 1) - 1 = i
    OBVIOUS
  <2>2. QED
    BY <2>1, FileOffIs DEF Following
<1>7. \A i \in 1..7 : FileOff[i] \in Nat
  <2>1. FileOff[1] \in Nat /\ FileOff[2] \in Nat /\ FileOff[3] \in Nat
    BY <1>5, <1>6
  <2>2. FileOff[4] \in Nat /\ FileOff[5] \in Nat
    BY <1>5, <1>6, <2>1
  <2>3. FileOff[6] \in Nat /\ FileOff[7] \in Nat
    BY <1>5, <1>6, <2>2
  <2>4. QED
    BY <2>1, <2>2, <2>3
<1>8. QED
  BY <1>4, <1>5, <1>6, <1>7

SizesBeside(h, k) == h = k \/ h.sec # k.sec \/ Clear(h.off, h.size, k.off, k.size)

\* Within their sections and beside each other there, objects are beside each
\* other in memory: .rodata, .data and .bss follow one another, .text is alone.
LEMMA MemoryParted ==
  ASSUME size \in [Sections -> Nat], NEW h \in Places, NEW k \in Places,
         h.off + h.size <= size[h.sec], k.off + k.size <= size[k.sec], SizesBeside(h, k), h # k,
         JitPlace(h.sec, 0).map = JitPlace(k.sec, 0).map
  PROVE  Clear(JitPlace(h.sec, h.off).off, h.size, JitPlace(k.sec, k.off).off, k.size)
<1>1. /\ h.sec \in Sections /\ h.off \in Nat /\ h.size \in Nat
      /\ k.sec \in Sections /\ k.off \in Nat /\ k.size \in Nat
  BY DEF Places
<1>2. /\ JitPlace(h.sec, h.off).off = JitBase(h.sec) + h.off
      /\ JitPlace(k.sec, k.off).off = JitBase(k.sec) + k.off
      /\ h.sec = "text" <=> k.sec = "text"
  BY DEF JitPlace
<1>3. /\ size["rodata"] \in Nat /\ size["data"] \in Nat /\ size["bss"] \in Nat
      /\ size["text"] \in Nat
  BY DEF Sections
<1>4. CASE h.sec = k.sec
  <2>1. Clear(h.off, h.size, k.off, k.size)
    BY <1>4 DEF SizesBeside
  <2>2. JitBase(h.sec) \in Nat /\ JitBase(k.sec) = JitBase(h.sec)
    BY <1>1, <1>3, <1>4 DEF JitBase, Sections
  <2>3. QED
    BY <1>1, <1>2, <2>1, <2>2 DEF Clear
<1>5. CASE h.sec = "rodata" /\ k.sec # "rodata"
  <2>1. JitBase(h.sec) = 0 /\ JitBase(k.sec) \in Nat /\ JitBase(k.sec) >= size["rodata"]
    BY <1>1, <1>2, <1>3, <1>5 DEF JitBase, Sections
  <2>2. QED
    BY <1>1, <1>2, <1>3, <1>5, <2>1 DEF Clear
<1>6. CASE k.sec = "rodata" /\ h.sec # "rodata"
  <2>1. JitBase(k.sec) = 0 /\ JitBase(h.sec) \in Nat /\ JitBase(h.sec) >= size["rodata"]
    BY <1>1, <1>2, <1>3, <1>6 DEF JitBase, Sections
  <2>2. QED
    BY <1>1, <1>2, <1>3, <1>6, <2>1 DEF Clear
<1>7. CASE h.sec = "data" /\ k.sec = "bss"
  BY <1>1, <1>2, <1>3, <1>7 DEF Clear, JitBase
<1>8. CASE h.sec = "bss" /\ k.sec = "data"
  BY <1>1, <1>2, <1>3, <1>8 DEF Clear, JitBase
<1>9. QED
  BY <1>1, <1>2, <1>4, <1>5, <1>6, <1>7, <1>8 DEF Sections

LEMMA ApartFollows == IInv => StorageApart
<1> SUFFICES ASSUME IInv PROVE StorageApart
  OBVIOUS
<1>1. TypeOK /\ Bounded /\ Apart /\ Patched
  BY DEF IInv
<1> DEFINE all    == UNION {homes[n] : n \in DOMAIN homes}
           places == {h \in all : ~Short(h)}
<1>2. \A h \in places : h \in Places /\ h.size <= h.room /\ h.off + h.size <= size[h.sec]
  <2>1. ASSUME NEW h \in places
        PROVE  h \in Places /\ h.size <= h.room /\ h.off + h.size <= size[h.sec]
    <3>1. h \in Places /\ h.off + h.room <= size[h.sec] /\ ~(h.room < h.size)
      BY <1>1 DEF TypeOK, Bounded, Short
    <3>2. h.off \in Nat /\ h.size \in Nat /\ h.room \in Nat /\ size[h.sec] \in Nat
      BY <1>1, <3>1 DEF TypeOK, Places
    <3>3. QED
      BY <3>1, <3>2
  <2>2. QED
    BY <2>1
<1>3. \A h, k \in places : SizesBeside(h, k)
  <2>1. ASSUME NEW h \in places, NEW k \in places PROVE SizesBeside(h, k)
    <3>1. Beside(h, k)
      BY <1>1 DEF Apart
    <3>2. /\ h.off \in Nat /\ h.size \in Nat /\ h.room \in Nat /\ h.size <= h.room
          /\ k.off \in Nat /\ k.size \in Nat /\ k.room \in Nat /\ k.size <= k.room
      BY <1>2 DEF Places
    <3>3. QED
      BY <3>1, <3>2 DEF Beside, SizesBeside, Clear
  <2>2. QED
    BY <2>1
<1> HIDE DEF places, all
<1>4. \A h, k \in places :
        h = k \/ JitPlace(h.sec, 0).map # JitPlace(k.sec, 0).map
              \/ Clear(JitPlace(h.sec, h.off).off, h.size, JitPlace(k.sec, k.off).off, k.size)
  BY <1>1, <1>2, <1>3, MemoryParted DEF TypeOK
<1>5. \A i, j \in DOMAIN relocs : i = j \/ Clear(relocs[i].at, 4, relocs[j].at, 4)
  <2>1. DOMAIN relocs = 1..Len(relocs)
    BY <1>1 DEF TypeOK
  <2>2. QED
    BY <1>1, <2>1 DEF Patched
<1>6. \A i \in 1..7 : FileOff[i] + FileParts[i] <= FileOff[i + 1]
  BY <1>1, FileParted
<1>7. QED
  BY <1>2, <1>4, <1>5, <1>6, Zenon DEF StorageApart, Clear, places, all

\* Objects never overlap, in their section or in memory, but for those known to
\* have too little room, no two relocations patch the same bytes, and the parts of
\* the object file follow one another: the padding of data_add and gen_global, the
\* code buffer and codegen_jit_run's and elf_write's layouts.
THEOREM StorageAlwaysApart == Spec => []StorageApart
<1>1. QED
  BY Invariance, ApartFollows, PTL

(***************************************************************************)
(* The two passes over the symbols.                                        *)
(***************************************************************************)
KeptStep(k, v, g, i) ==
  IF i = 0 THEN << >> ELSE IF v[i].global = g THEN Append(k[i - 1], v[i]) ELSE k[i - 1]
IsKept(k, v, g) == k = [i \in 0..Len(v) |-> KeptStep(k, v, g, i)]

\* w holds those among the first i of v that are global or not, and no other.
Holds(w, v, g, i) ==
  /\ \A j \in 1..i : v[j].global = g => \E p \in 1..Len(w) : w[p] = v[j]
  /\ \A p \in 1..Len(w) : \E j \in 1..i : v[j].global = g /\ w[p] = v[j]

\* The recursion has a solution: were n the least of the lengths up to which it
\* has none, the solution up to n - 1 could be continued.
LEMMA KeptExists ==
  ASSUME NEW S, NEW v \in Seq(S), NEW g
  PROVE  \E k : IsKept(k, v, g)
<1> DEFINE Solves(k, n) == \A i \in 0..n : k[i] = KeptStep(k, v, g, i)
           Stuck == {n \in Nat : ~ \E k : Solves(k, n)}
           m     == Min(Stuck)
<1>1. Stuck = {}
  <2>1. SUFFICES ASSUME Stuck # {} PROVE FALSE
    OBVIOUS
  <2>2. m \in Stuck /\ \A n \in 0..m - 1 : n \notin Stuck
    BY <2>1, LeastOf
  <2> HIDE DEF m
  <2>3. m \in Nat /\ ~ \E k : Solves(k, m)
    BY <2>2
  <2>4. m # 0
    <3>1. Solves([i \in {0} |-> << >>], 0)
      BY DEF KeptStep
    <3>2. QED
      BY <2>3, <3>1
  <2>5. PICK k : Solves(k, m - 1)
    BY <2>2, <2>3, <2>4, SMTT(30)
  <2> DEFINE h == [i \in 0..m |-> IF i < m THEN k[i] ELSE KeptStep(k, v, g, m)]
  <2>6. ASSUME NEW i \in 0..m PROVE h[i] = KeptStep(h, v, g, i)
    <3>1. i # 0 => i - 1 \in 0..m - 1 /\ h[i - 1] = k[i - 1]
      BY <2>3
    <3>2. h[i] = KeptStep(k, v, g, i)
      <4>1. CASE i < m
        <5>1. i \in 0..m - 1 /\ h[i] = k[i]
          BY <2>3, <4>1
        <5>2. QED
          BY <2>5, <5>1
      <4>2. CASE i = m
        BY <2>3, <4>2
      <4>3. QED
        BY <2>3, <4>1, <4>2
    <3> HIDE DEF h
    <3>3. QED
      BY <3>1, <3>2 DEF KeptStep
  <2> HIDE DEF h
  <2>7. Solves(h, m)
    BY <2>6
  <2>8. QED
    BY <2>3, <2>7
<1>2. Len(v) \in Nat
  OBVIOUS
<1>3. PICK k : Solves(k, Len(v))
  BY <1>1, <1>2
<1> DEFINE h == [i \in 0..Len(v) |-> k[i]]
<1>4. \A i \in 0..Len(v) : k[i] = KeptStep(h, v, g, i)
  <2>1. ASSUME NEW i \in 0..Len(v) PROVE k[i] = KeptStep(h, v, g, i)
    <3>1. i # 0 => i - 1 \in 0..Len(v)
      BY <1>2
    <3>2. i # 0 => h[i - 1] = k[i - 1]
      BY <3>1
    <3> HIDE DEF h
    <3>3. QED
      BY <1>3, <3>2 DEF KeptStep
  <2>2. QED
    BY <2>1
<1>5. h = [i \in 0..Len(v) |-> KeptStep(h, v, g, i)]
  BY <1>4
<1>6. QED
  BY <1>5 DEF IsKept

\* What it solves to.
LEMMA KeptHolds ==
  ASSUME NEW S, NEW v \in Seq(S), NEW g, NEW k, IsKept(k, v, g)
  PROVE  k[Len(v)] \in Seq(S) /\ Holds(k[Len(v)], v, g, Len(v))
<1> DEFINE Wrong == {i \in Nat : i \in 0..Len(v) /\ ~(k[i] \in Seq(S) /\ Holds(k[i], v, g, i))}
           m     == Min(Wrong)
<1>1. \A i \in 0..Len(v) : k[i] = KeptStep(k, v, g, i)
  BY Zenon DEF IsKept
<1>2. Wrong = {}
  <2>1. SUFFICES ASSUME Wrong # {} PROVE FALSE
    OBVIOUS
  <2>2. m \in Wrong /\ \A i \in 0..m - 1 : i \notin Wrong
    BY <2>1, LeastOf
  <2> HIDE DEF m
  <2>3. m \in 0..Len(v) /\ m \in Nat /\ ~(k[m] \in Seq(S) /\ Holds(k[m], v, g, m))
    BY <2>2
  <2>4. CASE m = 0
    <3>1. k[0] = << >>
      BY <1>1, <2>3, <2>4 DEF KeptStep
    <3>2. << >> \in Seq(S) /\ Holds(<< >>, v, g, 0)
      BY DEF Holds
    <3>3. QED
      BY <2>3, <2>4, <3>1, <3>2
  <2>5. CASE m # 0
    <3> DEFINE w == k[m - 1]
               s == v[m]
    <3>1. w \in Seq(S) /\ Holds(w, v, g, m - 1)
      BY <2>2, <2>3, <2>5
    <3>2. s \in S
      BY <2>3, <2>5
    <3>3. k[m] = IF s.global = g THEN Append(w, s) ELSE w
      BY <1>1, <2>3, <2>5 DEF KeptStep
    <3>4. CASE s.global = g
      <4> DEFINE u == Append(w, s)
      <4>1. /\ u \in Seq(S) /\ Len(u) = Len(w) + 1 /\ u[Len(u)] = s /\ Len(w) \in Nat
            /\ \A p \in 1..Len(w) : u[p] = w[p]
        BY <3>1, <3>2
      <4> HIDE DEF u, w
      <4>2. \A j \in 1..m : v[j].global = g => \E p \in 1..Len(u) : u[p] = v[j]
        <5>1. ASSUME NEW j \in 1..m, v[j].global = g
              PROVE  \E p \in 1..Len(u) : u[p] = v[j]
          <6>1. CASE j = m
            BY <4>1, <6>1
          <6>2. CASE j # m
            <7>1. j \in 1..m - 1
              BY <2>3, <6>2
            <7>2. PICK p \in 1..Len(w) : w[p] = v[j]
              BY <3>1, <5>1, <7>1 DEF Holds
            <7>3. QED
              BY <4>1, <7>2
          <6>3. QED
            BY <6>1, <6>2
        <5>2. QED
          BY <5>1
      <4>3. \A p \in 1..Len(u) : \E j \in 1..m : v[j].global = g /\ u[p] = v[j]
        <5>1. ASSUME NEW p \in 1..Len(u) PROVE \E j \in 1..m : v[j].global = g /\ u[p] = v[j]
          <6>1. CASE p = Len(u)
            BY <2>3, <2>5, <3>4, <4>1, <6>1
          <6>2. CASE p # Len(u)
            <7>1. p \in 1..Len(w)
              BY <4>1, <6>2
            <7>2. PICK j \in 1..m - 1 : v[j].global = g /\ w[p] = v[j]
              BY <3>1, <7>1 DEF Holds
            <7>3. QED
              BY <2>3, <4>1, <7>1, <7>2
          <6>3. QED
            BY <6>1, <6>2
        <5>2. QED
          BY <5>1
      <4>4. k[m] = u
        BY <3>3, <3>4 DEF u
      <4>5. QED
        BY <2>3, <4>1, <4>2, <4>3, <4>4 DEF Holds
    <3>5. CASE s.global # g
      <4>1. k[m] = w
        BY <3>3, <3>5
      <4>2. \A j \in 1..m : v[j].global = g => j \in 1..m - 1
        BY <2>3, <3>5
      <4>3. \A j \in 1..m - 1 : j \in 1..m
        BY <2>3
      <4> HIDE DEF w, s
      <4>4. Holds(w, v, g, m)
        BY <3>1, <4>2, <4>3 DEF Holds
      <4>5. QED
        BY <2>3, <3>1, <4>1, <4>4
    <3>6. QED
      BY <3>4, <3>5
  <2>6. QED
    BY <2>4, <2>5
<1>3. Len(v) \in Nat /\ Len(v) \in 0..Len(v)
  OBVIOUS
<1>4. QED
  BY <1>2, <1>3

LEMMA SymsKept ==
  ASSUME NEW S, syms \in Seq(S), NEW g
  PROVE  SymsWith(g) \in Seq(S) /\ Holds(SymsWith(g), syms, g, Len(syms))
<1> DEFINE K == CHOOSE k : IsKept(k, syms, g)
<1>1. SymsWith(g) = K[Len(syms)]
  BY DEF SymsWith, IsKept, KeptStep
<1>2. IsKept(K, syms, g)
  BY KeptExists, Zenon
<1> HIDE DEF K
<1>3. QED
  BY <1>1, <1>2, KeptHolds

(***************************************************************************)
(* References.                                                             *)
(***************************************************************************)
First(v, n) == SelectInSeq(v, LAMBDA s : Named(s, n))

LEMMA FirstNamed ==
  ASSUME NEW S, NEW v \in Seq(S), NEW n
  PROVE  IF \E i \in 1..Len(v) : v[i].name = n
         THEN First(v, n) \in 1..Len(v) /\ v[First(v, n)].name = n
         ELSE First(v, n) = 0
<1> DEFINE I == {i \in 1..Len(v) : v[i].name = n}
<1>1. First(v, n) = IF I # {} THEN Min(I) ELSE 0
  BY DEF First, SelectInSeq, Named
<1>2. I \in SUBSET Nat
  OBVIOUS
<1>3. I # {} => Min(I) \in I
  BY <1>2, LeastOf
<1>4. QED
  BY <1>1, <1>3

\* A reference is to a name that a symbol has.
LEMMA ReferencesNamed ==
  ASSUME IInv, NEW n \in References
  PROVE  n \in DOMAIN homes /\ \E j \in 1..Len(syms) : syms[j].name = n
<1>1. relocs \in Seq(Patches) /\ RefsNamed /\ SymsPlaced
  BY DEF IInv, TypeOK
<1>2. PICK i \in 1..Len(relocs) : relocs[i].sym = n
  BY <1>1 DEF References, ToSet
<1>3. PICK j \in 1..Len(syms) : syms[j].name = n
  BY <1>1, <1>2 DEF RefsNamed
<1>4. QED
  BY <1>1, <1>3 DEF SymsPlaced, Placed

LEMMA MemoryResolves == IInv => MemoryReferencesResolve
<1> SUFFICES ASSUME IInv, NEW n \in References, ~LostInMemory(n)
             PROVE  IF homes[n] = {} THEN JitAddress(n) = Library
                    ELSE \E h \in Meant(n) : JitAddress(n) = JitPlace(h.sec, h.off)
  BY DEF MemoryReferencesResolve
<1>1. syms \in Seq(Symbols) /\ SymsPlaced
  BY DEF IInv, TypeOK
<1>2. \E j \in 1..Len(syms) : syms[j].name = n
  BY ReferencesNamed
<1> DEFINE i == First(syms, n)
           s == syms[i]
<1>3. i \in 1..Len(syms) /\ s.name = n
  BY <1>1, <1>2, FirstNamed
<1>4. s \in Symbols /\ Placed(s, homes)
  BY <1>1, <1>3 DEF SymsPlaced
<1>5. /\ JitAddress(n) = (CASE s.kind = "func"   -> JitPlace("text", s.off)
                            [] s.kind = "object" -> JitPlace("data", s.off)
                            [] s.kind = "bss"    -> JitPlace("bss", s.off)
                            [] s.kind = "rodata" -> JitPlace("rodata", s.off)
                            [] s.kind = "extern" -> Library)
      /\ LostInMemory(n) <=> \/ IsStaticLocal(n)
                             \/ s.kind = "extern" /\ homes[n] # {}
                             \/ s.kind = "bss" /\ \E h \in homes[n] : h.sec = "data"
  BY DEF JitAddress, LostInMemory, First
<1> HIDE DEF s
<1>6. CASE s.kind = "extern"
  BY <1>5, <1>6
<1>7. CASE s.kind # "extern"
  <2>1. homes[n] # {}
    BY <1>3, <1>4, <1>7 DEF Placed
  <2>2. PICK h \in homes[n] : h.sec = SectionOf(s.kind) /\ h.off = s.off
    BY <1>3, <1>4, <1>5, <1>7 DEF Placed, AtHome
  <2>3. JitAddress(n) = JitPlace(SectionOf(s.kind), s.off)
    BY <1>4, <1>5, <1>7 DEF Symbols, Kinds, SectionOf
  <2>4. h \in Meant(n)
    <3>1. h.sec = "bss" => s.kind = "bss"
      BY <1>4, <1>7, <2>2 DEF Symbols, Kinds, SectionOf
    <3>2. QED
      BY <1>5, <2>2, <3>1 DEF Meant
  <2>5. QED
    BY <2>1, <2>2, <2>3, <2>4
<1>8. QED
  BY <1>6, <1>7

\* What the linker makes of a symbol that defines something.
Landing(s) == [sec |-> ElfSection(s), off |-> s.off]
LEMMA DefinitionResolves ==
  ASSUME IInv, NEW n, NEW k \in 1..Len(syms), Defines(syms[k], n), ~LostInFile(n)
  PROVE  /\ ElfSection(syms[k]) # "undef"
         /\ \E h \in Meant(n) : Landing(syms[k]) = [sec |-> h.sec, off |-> h.off]
<1> DEFINE s == syms[k]
<1>1. syms \in Seq(Symbols) /\ SymsPlaced
  BY DEF IInv, TypeOK
<1>2. s \in Symbols /\ Placed(s, homes)
  BY <1>1 DEF SymsPlaced
<1>3. s.name = n /\ s.kind # "extern" /\ s.kind \in Kinds
  BY <1>2 DEF Defines, Symbols
<1> HIDE DEF s
<1>4. PICK h \in homes[n] : h.sec = SectionOf(s.kind) /\ h.off = s.off
  BY <1>2, <1>3 DEF Placed, AtHome, LostInFile
<1>5. s.kind # "bss"
  BY <1>3, <1>4 DEF LostInFile, SectionOf
<1>6. ElfSection(s) = SectionOf(s.kind) /\ ElfSection(s) # "undef"
  BY <1>3, <1>5 DEF ElfSection, SectionOf, Kinds
<1>7. h \in Meant(n)
  BY <1>4 DEF Meant, LostInFile
<1>8. QED
  BY <1>4, <1>6, <1>7 DEF Landing, s

LEMMA FileResolves == IInv => FileReferencesResolve
<1> SUFFICES ASSUME IInv, NEW n \in References, ~LostInFile(n)
             PROVE  LET t == Linked(ElfIndex(n)) IN
                    IF homes[n] = {} THEN t = Library
                    ELSE \E h \in Meant(n) : t = [sec |-> h.sec, off |-> h.off]
  BY DEF FileReferencesResolve
<1>1. syms \in Seq(Symbols) /\ SymsPlaced /\ HomesNamed /\ Len(syms) \in Nat
  BY DEF IInv, TypeOK
<1>2. n \in DOMAIN homes
  BY ReferencesNamed
<1>3. PICK r \in 1..Len(syms) : syms[r].name = n
  BY ReferencesNamed
<1> DEFINE L == LocalSyms
           G == GlobalSyms
           i == First(L, n)
           j == First(G, n)
<1>4. /\ L \in Seq(Symbols) /\ Holds(L, syms, FALSE, Len(syms))
      /\ G \in Seq(Symbols) /\ Holds(G, syms, TRUE, Len(syms))
  BY <1>1, SymsKept DEF LocalSyms, GlobalSyms
<1>5. ElfIndex(n) = IF i # 0 THEN i ELSE IF j # 0 THEN FirstGlobal + j - 1 ELSE 0
  BY DEF ElfIndex, First
<1> DEFINE x == ElfIndex(n)
           s == ElfSyms[x]
           defs == {t \in ToSet(GlobalSyms) : t.name = n /\ ElfSection(t) # "undef"}
\* The symbol that a relocation is given, and where it is in the compiler's list.
<1>6. \E k \in 1..Len(syms) :
        /\ x # 0 /\ s = syms[k] /\ syms[k].name = n
        /\ syms[k].kind = "extern" =>
             \A q \in 1..Len(syms) : syms[q].name = n => syms[q].global = TRUE
  <2>1. /\ ElfSyms = L \o G /\ FirstGlobal = Len(L) + 1
        /\ Len(L) \in Nat /\ Len(G) \in Nat
    BY <1>4 DEF ElfSyms, FirstGlobal
  <2>2. /\ IF \E p \in 1..Len(L) : L[p].name = n
           THEN i \in 1..Len(L) /\ L[i].name = n ELSE i = 0
        /\ IF \E p \in 1..Len(G) : G[p].name = n
           THEN j \in 1..Len(G) /\ G[j].name = n ELSE j = 0
    BY <1>4, FirstNamed
  <2>3. \A q \in 1..Len(syms) : syms[q].global \in BOOLEAN
    <3>1. \A q \in 1..Len(syms) : syms[q] \in Symbols
      BY <1>1
    <3>2. QED
      BY <3>1 DEF Symbols
  <2> HIDE DEF L, G, i, j, x
  <2>4. CASE \E p \in 1..Len(L) : L[p].name = n
    <3>1. i \in 1..Len(L) /\ L[i].name = n
      BY <2>2, <2>4
    <3>2. x = i /\ i # 0
      BY <1>5, <2>1, <3>1 DEF x
    <3>3. ElfSyms[x] = L[i]
      BY <1>4, <2>1, <3>1, <3>2
    <3>4. PICK k \in 1..Len(syms) : syms[k].global = FALSE /\ L[i] = syms[k]
      BY <1>4, <3>1 DEF Holds
    <3>5. Placed(syms[k], homes)
      BY <1>1 DEF SymsPlaced
    <3>6. syms[k].kind # "extern"
      BY <3>4, <3>5 DEF Placed
    <3>7. QED
      BY <3>1, <3>2, <3>3, <3>4, <3>6
  <2>5. CASE ~ \E p \in 1..Len(L) : L[p].name = n
    <3>1. i = 0
      BY <2>2, <2>5
    <3>2. \A q \in 1..Len(syms) : syms[q].name = n => syms[q].global = TRUE
      <4>1. ASSUME NEW q \in 1..Len(syms), syms[q].name = n, syms[q].global = FALSE
            PROVE  FALSE
        <5>1. PICK p \in 1..Len(L) : L[p] = syms[q]
          BY <1>4, <4>1 DEF Holds
        <5>2. QED
          BY <2>5, <4>1, <5>1
      <4>2. QED
        BY <2>3, <4>1
    <3>3. \E p \in 1..Len(G) : G[p].name = n
      <4>1. PICK p \in 1..Len(G) : G[p] = syms[r]
        BY <1>3, <1>4, <3>2 DEF Holds
      <4>2. QED
        BY <1>3, <4>1
    <3>4. j \in 1..Len(G) /\ G[j].name = n
      BY <2>2, <3>3
    <3>5. x = Len(L) + j /\ x # 0
      BY <1>5, <2>1, <3>1, <3>4 DEF x
    <3>6. ElfSyms[x] = G[j]
      BY <1>4, <2>1, <3>4, <3>5
    <3>7. PICK k \in 1..Len(syms) : G[j] = syms[k]
      BY <1>4, <3>4 DEF Holds
    <3>8. QED
      BY <3>2, <3>4, <3>5, <3>6, <3>7
  <2>6. QED
    BY <2>4, <2>5
<1>7. PICK k \in 1..Len(syms) :
        /\ x # 0 /\ s = syms[k] /\ syms[k].name = n
        /\ syms[k].kind = "extern" =>
             \A q \in 1..Len(syms) : syms[q].name = n => syms[q].global = TRUE
  BY <1>6
<1>8. Linked(x) = IF ElfSection(s) # "undef" THEN Landing(s)
                  ELSE IF defs = {} THEN Library ELSE Landing(CHOOSE t \in defs : TRUE)
  BY <1>7 DEF Linked, Landing
\* The definitions among the globals.
<1>9. ASSUME NEW t \in defs
      PROVE  \E q \in 1..Len(syms) : t = syms[q] /\ Defines(syms[q], n)
  <2>1. PICK p \in 1..Len(G) : t = G[p]
    BY <1>4, <1>9 DEF ToSet
  <2>2. PICK q \in 1..Len(syms) : syms[q].global = TRUE /\ G[p] = syms[q]
    BY <1>4 DEF Holds
  <2>3. t.name = n /\ ElfSection(t) # "undef"
    BY <1>9
  <2>4. t.kind # "extern"
    BY <2>1, <2>2, <2>3 DEF ElfSection
  <2>5. QED
    BY <2>1, <2>2, <2>3, <2>4 DEF Defines
<1>10. CASE syms[k].kind # "extern"
  <2>1. Defines(syms[k], n)
    BY <1>7, <1>10 DEF Defines
  <2>2. /\ ElfSection(s) # "undef"
        /\ \E h \in Meant(n) : Landing(s) = [sec |-> h.sec, off |-> h.off]
    BY <1>7, <2>1, DefinitionResolves
  <2>3. QED
    BY <1>8, <2>2 DEF Meant
<1>11. CASE syms[k].kind = "extern"
  <2>1. \A q \in 1..Len(syms) : syms[q].name = n => syms[q].global = TRUE
    BY <1>7, <1>11
  <2>2. ElfSection(s) = "undef"
    BY <1>7, <1>11, <2>1 DEF ElfSection
  <2>3. CASE homes[n] = {}
    <3>1. ASSUME NEW t \in defs PROVE FALSE
      <4>1. PICK q \in 1..Len(syms) : t = syms[q] /\ Defines(syms[q], n)
        BY <1>9, <3>1
      <4>2. Placed(syms[q], homes)
        BY <1>1 DEF SymsPlaced
      <4>3. QED
        BY <2>3, <4>1, <4>2 DEF Placed, Defines
    <3>2. Linked(x) = Library
      BY <1>8, <2>2, <3>1
    <3>3. QED
      BY <2>3, <3>2
  <2>4. CASE homes[n] # {}
    <3>1. PICK q \in 1..Len(syms) : Defines(syms[q], n)
      BY <1>1, <1>2, <2>4 DEF HomesNamed
    <3>2. syms[q].name = n /\ ElfSection(syms[q]) # "undef" /\ syms[q].global = TRUE
      BY <2>1, <3>1, DefinitionResolves DEF Defines
    <3>3. PICK p \in 1..Len(G) : G[p] = syms[q]
      BY <1>4, <3>2 DEF Holds
    <3>4. G[p] \in ToSet(GlobalSyms)
      BY <1>4 DEF ToSet
    <3>5. defs # {}
      BY <3>2, <3>3, <3>4
    <3> DEFINE t == CHOOSE t \in defs : TRUE
    <3>6. t \in defs
      BY <3>5, Zenon
    <3>7. Linked(x) = Landing(t)
      BY <1>8, <2>2, <3>5
    <3> HIDE DEF t
    <3>8. PICK u \in 1..Len(syms) : t = syms[u] /\ Defines(syms[u], n)
      BY <1>9, <3>6
    <3>9. \E h \in Meant(n) : Landing(t) = [sec |-> h.sec, off |-> h.off]
      BY <3>8, DefinitionResolves
    <3>10. QED
      BY <2>4, <3>7, <3>9
  <2>5. QED
    BY <2>3, <2>4
<1>12. QED
  BY <1>10, <1>11

\* What a reference is patched with in memory is the address of its object, the one
\* with the initial value if the name has several places: codegen_jit_run's search
\* for the latest symbol of the name.  Excepted are static locals, and names whose
\* latest symbol is of an extern declaration after the definition or of a tentative
\* definition after one with an initializer.
THEOREM MemoryReferencesAlwaysResolve == Spec => []MemoryReferencesResolve
<1>1. QED
  BY Invariance, MemoryResolves, PTL

\* What a reference of the object file is linked to is the place of its object,
\* but for static locals and what has a place in .bss: the symbol table that
\* elf_write builds in two passes, and the index it gives a relocation.
THEOREM FileReferencesAlwaysResolve == Spec => []FileReferencesResolve
<1>1. QED
  BY Invariance, FileResolves, PTL


(***************************************************************************)
(* Passing parameters.                                                     *)
(*                                                                         *)
(* CallInv says what the two ends have agreed on at every step: the slots  *)
(* are those of the arguments dealt with, the words pushed and popped are  *)
(* theirs in the order of the slots, and the callee's counts of registers  *)
(* are the caller's for the same parameters.  Arrived and Spilled build    *)
(* the frame on it, parameter by parameter.                                *)
(***************************************************************************)
Slot  == [arg : Nat, chunk : {0, 1}, kind : {"int", "flt", "stk"}]
Words == [1..Word -> Nat \X Int]

\* The word that a slot of a call with arguments q is for.
WordFrom(q, x) ==
  [n \in 1..Word |-> IF x.chunk * Word + n <= q[x.arg].size
                     THEN <<x.arg, x.chunk * Word + n - 1>> ELSE <<0, 0>>]

\* w holds the words of l, from the top down; from the bottom up, and no other.
OnTop(w, q, l) ==
  /\ Len(l) <= Len(w)
  /\ \A j \in 1..Len(l) : w[Len(w) + 1 - j] = WordFrom(q, l[j])
Fills(w, q, l) ==
  /\ Len(w) = Len(l)
  /\ \A j \in 1..Len(l) : w[j] = WordFrom(q, l[j])

\* The slots in the order in which they end up on the stack, the top one first.
Layers(s) == (Of("int", s) \o Of("flt", s)) \o Of("stk", s)

CallTypes ==
  /\ sig \in Signatures /\ variadic \in BOOLEAN
  /\ phase \in {"classify", "push", "pop", "bind", "body"}
  /\ arg \in Nat \ {0} /\ ints \in Nat /\ flts \in Nat /\ next \in Nat
  /\ slots \in Seq(Slot) /\ todo \in Seq(Slot)
  /\ stack \in Seq(Words) /\ regs \in [{"int", "flt"} -> Seq(Words)]
  /\ place \in Seq(Int)
  /\ Deviations(sig, variadic) \subseteq Admit

Before == SlotsTo(sig)[arg - 1]

Classified ==
  IF phase = "classify"
  THEN /\ arg \in 1..Len(sig) + 1
       /\ slots = Before
       /\ ints = Count("int", slots) /\ flts = Count("flt", slots)
  ELSE slots = SlotsTo(sig)[Len(sig)]

Pushed ==
  phase = "push" =>
    LET l == Layers(slots)
        r == Len(todo)
    IN  /\ r <= Len(l)
        /\ \A j \in 1..r : todo[j] = l[r + 1 - j]
        /\ Len(l) - r <= Len(stack)
        /\ \A j \in r + 1..Len(l) : stack[Len(stack) + 1 + r - j] = WordFrom(sig, l[j])

NoneYet == phase \in {"classify", "push"} => regs["int"] = << >> /\ regs["flt"] = << >>

\* Of the slots i, f and s, those in t are still to be popped from the words w, the
\* others are in the registers x and y.
PopState(q, i, f, s, t, w, x, y) ==
  LET n == Len(x)
      m == Len(y)
  IN  /\ n <= Len(i) /\ m <= Len(f) /\ (m > 0 => n = Len(i))
      /\ Len(t) = (Len(i) - n) + (Len(f) - m)
      /\ \A j \in 1..Len(i) - n : t[j] = i[n + j]
      /\ \A j \in 1..Len(f) - m : t[(Len(i) - n) + j] = f[m + j]
      /\ \A j \in 1..n : x[j] = WordFrom(q, i[j])
      /\ \A j \in 1..m : y[j] = WordFrom(q, f[j])
      /\ Len(t) + Len(s) <= Len(w)
      /\ \A j \in 1..Len(t) : w[Len(w) + 1 - j] = WordFrom(q, t[j])
      /\ \A j \in 1..Len(s) : w[Len(w) + 1 - (Len(t) + j)] = WordFrom(q, s[j])

Popped ==
  phase = "pop" => PopState(sig, Of("int", slots), Of("flt", slots), Of("stk", slots),
                            todo, stack, regs["int"], regs["flt"])

Handed ==
  phase \in {"bind", "body"} =>
    /\ Fills(regs["int"], sig, Of("int", slots))
    /\ Fills(regs["flt"], sig, Of("flt", slots))
    /\ OnTop(stack, sig, Of("stk", slots))

\* The two ends agree on how many registers are taken.
AtMost(n, most) == IF n < most THEN n ELSE most
Counted ==
  IF phase \in {"bind", "body"}
  THEN /\ arg \in 1..Len(sig) + 1 /\ Len(place) = arg - 1
       /\ phase = "body" \/ variadic => arg = Len(sig) + 1
       /\ ~variadic => /\ Count("int", Before) = AtMost(ints, NInt)
                       /\ Count("flt", Before) = AtMost(flts, NFlt)
  ELSE place = << >> /\ next = 0

CallInv ==
  /\ CallTypes /\ Classified /\ Pushed /\ NoneYet /\ Popped /\ Handed /\ Counted

BaseKept == \A o \in 0..Word - 1 : o \in DOMAIN frame /\ frame[o] = <<0, o>>
FrameInv ==
  /\ BaseKept
  /\ phase = "body" => AlignUp(next, 2 * Word) + Word < OneByte

\* Unit n of parameter p is at offset o: in the frame f of m units, on the stack s.
InFrame(f, m, o, p, n) == o \in -m..-1 /\ o \in DOMAIN f /\ f[o] = <<p, n>>
OnStack(s, o, p, n) ==
  o >= 2 * Word /\ s[Len(s) - (o \div Word - 2)][(o % Word) + 1] = <<p, n>>
\* The parameters bound so far are in place.
Arrived ==
  phase \in {"bind", "body"} =>
    \A p \in 1..Len(place) : \A n \in 0..sig[p].size - 1 :
      InFrame(frame, next, place[p] + n, p, n) \/ OnStack(stack, place[p] + n, p, n)
\* The registers the callee counts beyond those there are: one for each slot on the
\* stack, of which one is a float's as soon as it has counted too many of those.
Spilled ==
  phase = "bind" /\ ~variadic =>
    LET b == Before IN
    /\ Count("stk", b) = (ints - Count("int", b)) + (flts - Count("flt", b))
    /\ flts > Count("flt", b) =>
         \E j \in 1..Len(b) : b[j].kind = "stk" /\ sig[b[j].arg].kind = "flt"
ArriveInv == Arrived /\ Spilled

(***************************************************************************)
(* Slots of a kind.                                                        *)
(***************************************************************************)
Picked(kind, x) == IF x.kind = kind THEN <<x>> ELSE << >>

LEMMA OfEmpty ==
  ASSUME NEW kind
  PROVE  Of(kind, << >>) = << >> /\ Count(kind, << >>) = 0
<1>1. [i \in DOMAIN << >> |-> IF << >>[i].kind = kind THEN << <<>>[i] >> ELSE << >>] = << >>
  OBVIOUS
<1>2. FlattenSeq(<< >>) = << >>
  BY DEF FlattenSeq
<1>3. Of(kind, << >>) = << >>
  BY <1>1, <1>2 DEF Of
<1>4. QED
  BY <1>3 DEF Count

LEMMA PickedType ==
  ASSUME NEW S, NEW x \in S, NEW kind
  PROVE  /\ Picked(kind, x) \in Seq({y \in S : y.kind = kind})
         /\ Picked(kind, x) \in Seq(S)
         /\ Len(Picked(kind, x)) = One(x.kind = kind)
<1>1. CASE x.kind = kind
  <2>1. x \in {y \in S : y.kind = kind}
    BY <1>1
  <2>2. \A K : x \in K => <<x>> \in Seq(K)
    OBVIOUS
  <2>3. Picked(kind, x) = <<x>>
    BY <1>1 DEF Picked
  <2>4. QED
    BY <1>1, <2>1, <2>2, <2>3 DEF One
<1>2. CASE x.kind # kind
  BY <1>2 DEF Picked, One
<1>3. QED
  BY <1>1, <1>2

\* One slot more.
LEMMA OfAppend ==
  ASSUME NEW S, NEW s \in Seq(S), NEW x \in S, NEW kind
  PROVE  /\ Of(kind, s) \in Seq({y \in S : y.kind = kind})
         /\ Of(kind, Append(s, x)) = Of(kind, s) \o Picked(kind, x)
<1> DEFINE K  == {y \in S : y.kind = kind}
           ps == [i \in DOMAIN s |-> IF s[i].kind = kind THEN <<s[i]>> ELSE << >>]
           t  == Append(s, x)
           pt == [i \in DOMAIN t |-> IF t[i].kind = kind THEN <<t[i]>> ELSE << >>]
           p  == Picked(kind, x)
<1>1. Of(kind, s) = FlattenSeq(ps) /\ Of(kind, t) = FlattenSeq(pt)
  BY DEF Of
<1>2. \A i \in DOMAIN s : s[i] \in S /\ (s[i].kind = kind => <<s[i]>> \in Seq(K)) /\ << >> \in Seq(K)
  OBVIOUS
<1>3. p \in Seq(K)
  BY PickedType
<1>4. Len(s) \in Nat /\ DOMAIN s = 1..Len(s)
  OBVIOUS
<1>5. ps \in Seq(Seq(K)) /\ Len(ps) = Len(s)
  <2>1. \A i \in 1..Len(s) : ps[i] \in Seq(K)
    BY <1>2, <1>4
  <2>2. ps \in [1..Len(s) -> Seq(K)]
    BY <1>4, <2>1
  <2>3. QED
    BY <1>4, <2>2
<1>6. /\ Len(t) = Len(s) + 1 /\ DOMAIN t = 1..Len(s) + 1 /\ t[Len(s) + 1] = x
      /\ \A i \in 1..Len(s) : t[i] = s[i]
  OBVIOUS
<1> HIDE DEF K, t, p
<1>7. pt = Append(ps, p)
  <2> DEFINE q == Append(ps, p)
  <2>1. /\ Len(q) = Len(s) + 1 /\ q[Len(s) + 1] = p
        /\ \A i \in 1..Len(s) : q[i] = ps[i]
        /\ q = [i \in 1..Len(s) + 1 |-> q[i]]
    BY <1>3, <1>5
  <2> HIDE DEF q
  <2>2. ASSUME NEW i \in 1..Len(s) + 1
        PROVE  (IF t[i].kind = kind THEN <<t[i]>> ELSE << >>) = q[i]
    <3>1. CASE i = Len(s) + 1
      <4>1. t[i] = x /\ q[i] = Picked(kind, x)
        BY <1>6, <2>1, <3>1 DEF p
      <4>2. QED
        BY <4>1 DEF Picked
    <3>2. CASE i # Len(s) + 1
      <4>1. i \in 1..Len(s)
        BY <1>4, <3>2
      <4>2. QED
        BY <1>4, <1>6, <2>1, <4>1
    <3>3. QED
      BY <3>1, <3>2
  <2>3. pt = [i \in 1..Len(s) + 1 |-> q[i]]
    BY <1>6, <2>2
  <2>4. QED
    BY <2>1, <2>3 DEF q
<1> HIDE DEF ps, pt
<1>8. /\ FlattenSeq(ps) \in Seq(K)
      /\ FlattenSeq(Append(ps, p)) = IF ps = << >> THEN p ELSE FlattenSeq(ps) \o p
  BY <1>3, <1>5, FlatAppend
<1>9. ps = << >> => FlattenSeq(ps) \o p = p
  <2>1. FlattenSeq(<< >>) = << >>
    BY DEF FlattenSeq
  <2>2. << >> \o p = p
    BY <1>3
  <2>3. QED
    BY <2>1, <2>2
<1>10. QED
  BY <1>1, <1>7, <1>8, <1>9 DEF K, t, p

\* What is picked is of the kind picked.
LEMMA OfType ==
  ASSUME NEW S, NEW s \in Seq(S), NEW kind
  PROVE  /\ Of(kind, s) \in Seq({y \in S : y.kind = kind})
         /\ Of(kind, s) \in Seq(S) /\ Count(kind, s) \in Nat /\ Count(kind, s) = Len(Of(kind, s))
         /\ \A i \in 1..Count(kind, s) : Of(kind, s)[i] \in S /\ Of(kind, s)[i].kind = kind
<1>1. Of(kind, s) \in Seq({y \in S : y.kind = kind})
  <2>1. CASE S = {}
    <3>1. s = << >>
      BY <2>1
    <3>2. << >> \in Seq({y \in S : y.kind = kind})
      OBVIOUS
    <3>3. QED
      BY <3>1, <3>2, OfEmpty
  <2>2. CASE S # {}
    <3>1. PICK x \in S : TRUE
      BY <2>2
    <3>2. QED
      BY <3>1, OfAppend
  <2>3. QED
    BY <2>1, <2>2
<1> DEFINE o == Of(kind, s)
<1> HIDE DEF o
<1>2. o \in Seq(S) /\ Len(o) \in Nat /\ \A i \in 1..Len(o) : o[i] \in S /\ o[i].kind = kind
  BY <1>1 DEF o
<1>3. QED
  BY <1>1, <1>2 DEF o, Count

\* Picking from two parts is picking from each.
LEMMA OfConcat ==
  ASSUME NEW S, NEW s \in Seq(S), NEW t \in Seq(S), NEW kind
  PROVE  /\ Of(kind, s \o t) = Of(kind, s) \o Of(kind, t)
         /\ Count(kind, s \o t) = Count(kind, s) + Count(kind, t)
<1> DEFINE Fails(u) == Of(kind, s \o u) # Of(kind, s) \o Of(kind, u)
           Bad == {n \in Nat : \E u \in Seq(S) : Len(u) = n /\ Fails(u)}
           m   == Min(Bad)
<1>1. ~Fails(t)
  <2>1. SUFFICES ASSUME Fails(t) PROVE FALSE
    OBVIOUS
  <2>2. Len(t) \in Bad
    BY <2>1
  <2>3. m \in Bad /\ \A k \in 0..m - 1 : k \notin Bad
    BY <2>2, LeastOf
  <2> HIDE DEF m
  <2>4. PICK u \in Seq(S) : Len(u) = m /\ Fails(u)
    BY <2>3
  <2>5. m \in Nat
    BY <2>3
  <2>6. CASE m = 0
    <3>1. u = << >> /\ s \o << >> = s
      BY <2>4, <2>6
    <3>2. Of(kind, s) \o << >> = Of(kind, s)
      BY OfType
    <3>3. QED
      BY <2>4, <3>1, <3>2, OfEmpty
  <2>7. CASE m # 0
    <3> DEFINE r == SubSeq(u, 1, m - 1)
               x == u[m]
    <3>1. r \in Seq(S) /\ Len(r) = m - 1 /\ x \in S /\ u = Append(r, x) /\ m - 1 \in 0..m - 1 /\ m - 1 \in Nat
      BY <2>4, <2>5, <2>7
    <3> HIDE DEF r, x
    <3>2. ~Fails(r)
      BY <2>3, <3>1
    <3>3. s \o u = Append(s \o r, x) /\ s \o r \in Seq(S)
      BY <3>1
    <3>4. /\ Of(kind, s \o u) = Of(kind, s \o r) \o Picked(kind, x)
          /\ Of(kind, u) = Of(kind, r) \o Picked(kind, x)
      <4>1. \A v \in Seq(S), z \in S : Of(kind, Append(v, z)) = Of(kind, v) \o Picked(kind, z)
        BY OfAppend, ZenonT(40)
      <4>2. QED
        BY <3>1, <3>3, <4>1
    <3>5. Picked(kind, x) \in Seq(S) /\ Of(kind, s) \in Seq(S) /\ Of(kind, r) \in Seq(S)
      <4>1. \A v \in Seq(S) : Of(kind, v) \in Seq(S)
        BY OfType
      <4>2. QED
        BY <3>1, <4>1, PickedType
    <3>6. (Of(kind, s) \o Of(kind, r)) \o Picked(kind, x) = Of(kind, s) \o (Of(kind, r) \o Picked(kind, x))
      BY <3>5, ConcatAssociative, SMTT(40)
    <3>7. QED
      BY <2>4, <3>2, <3>4, <3>6
  <2>8. QED
    BY <2>6, <2>7
<1>2. Of(kind, s) \in Seq(S) /\ Of(kind, t) \in Seq(S)
  BY OfType
<1>3. QED
  BY <1>1, <1>2 DEF Count

\* Of one or two slots.
LEMMA FewOf ==
  ASSUME NEW kind
  PROVE  \A x, y \in Slot : /\ Of(kind, <<x>>) = Picked(kind, x)
                            /\ Of(kind, <<x, y>>) = Picked(kind, x) \o Picked(kind, y)
<1>1. SUFFICES ASSUME NEW x \in Slot, NEW y \in Slot
               PROVE  /\ Of(kind, <<x>>) = Picked(kind, x)
                      /\ Of(kind, <<x, y>>) = Picked(kind, x) \o Picked(kind, y)
  OBVIOUS
<1>2. /\ << >> \in Seq(Slot) /\ <<x>> = Append(<< >>, x) /\ <<x>> \in Seq(Slot)
      /\ <<x, y>> = Append(<<x>>, y)
  OBVIOUS
<1>3. /\ Of(kind, <<x>>) = << >> \o Picked(kind, x)
      /\ Of(kind, <<x, y>>) = Of(kind, <<x>>) \o Picked(kind, y)
  <2>1. \A v \in Seq(Slot), z \in Slot : Of(kind, Append(v, z)) = Of(kind, v) \o Picked(kind, z)
    BY OfAppend, ZenonT(40)
  <2>2. QED
    BY <1>2, <2>1, OfEmpty
<1>4. << >> \o Picked(kind, x) = Picked(kind, x)
  BY PickedType
<1>5. QED
  BY <1>3, <1>4

\* How many of one or two slots are of a kind.
LEMMA CountFew ==
  ASSUME NEW kind
  PROVE  \A x, y \in Slot :
           /\ Count(kind, <<x>>) = IF x.kind = kind THEN 1 ELSE 0
           /\ Count(kind, <<x, y>>) = (IF x.kind = kind THEN 1 ELSE 0) + (IF y.kind = kind THEN 1 ELSE 0)
<1>1. SUFFICES ASSUME NEW x \in Slot, NEW y \in Slot
               PROVE  /\ Count(kind, <<x>>) = IF x.kind = kind THEN 1 ELSE 0
                      /\ Count(kind, <<x, y>>) = (IF x.kind = kind THEN 1 ELSE 0) + (IF y.kind = kind THEN 1 ELSE 0)
  OBVIOUS
<1> DEFINE p == Picked(kind, x)
           q == Picked(kind, y)
<1>2. /\ p \in Seq(Slot) /\ Len(p) = IF x.kind = kind THEN 1 ELSE 0
      /\ q \in Seq(Slot) /\ Len(q) = IF y.kind = kind THEN 1 ELSE 0
  BY DEF Picked
<1>3. Of(kind, <<x>>) = p /\ Of(kind, <<x, y>>) = p \o q
  BY FewOf
<1>4. Count(kind, <<x>>) = Len(Of(kind, <<x>>)) /\ Count(kind, <<x, y>>) = Len(Of(kind, <<x, y>>))
  BY DEF Count
<1> DEFINE one == <<x>>
           two == <<x, y>>
<1> HIDE DEF p, q, one, two
<1>5. Len(p \o q) = Len(p) + Len(q)
  BY <1>2, ConcatProperties, Zenon
<1>6. Count(kind, one) = Len(p) /\ Count(kind, two) = Len(p) + Len(q)
  BY <1>3, <1>4, <1>5 DEF one, two
<1>7. QED
  BY <1>2, <1>6 DEF one, two


(***************************************************************************)
(* The slots of an argument.                                               *)
(***************************************************************************)
LEMMA ClassesAre ==
  ASSUME NEW t \in ArgTypes
  PROVE  /\ Len(Classes(t)) \in {1, 2} /\ DOMAIN Classes(t) = 1..Len(Classes(t))
         /\ ~IsStruct(t) => Classes(t) = <<t.kind>> /\ t.kind \in {"int", "flt"}
         /\ Large(t) => Classes(t) = <<"stk">>
         /\ IsStruct(t) /\ ~Large(t) =>
              /\ Len(Classes(t)) = IF t.size > Word THEN 2 ELSE 1
              /\ \A c \in 1..Len(Classes(t)) : Classes(t)[c] \in {"int", "flt"}
<1>1. CASE Large(t)
  BY <1>1 DEF Classes, Large, IsStruct
<1>2. CASE ~Large(t) /\ ~IsStruct(t)
  BY <1>2, TypesAssumption DEF Classes, Large, IsStruct
<1>3. CASE ~Large(t) /\ IsStruct(t)
  <2> DEFINE n == IF t.size > Word THEN 2 ELSE 1
  <2>1. Classes(t) = [c \in 1..n |-> ChunkClass(t, c - 1)]
    BY <1>3 DEF Classes
  <2>2. n \in {1, 2}
    OBVIOUS
  <2> HIDE DEF n
  <2>3. Len(Classes(t)) = n /\ DOMAIN Classes(t) = 1..n
    BY <2>1, <2>2
  <2>4. \A c : ChunkClass(t, c) \in {"int", "flt"}
    BY DEF ChunkClass
  <2>5. \A c \in 1..n : Classes(t)[c] \in {"int", "flt"}
    BY <2>1, <2>4
  <2>6. QED
    BY <1>3, <2>2, <2>3, <2>5 DEF n
<1>4. QED
  BY <1>1, <1>2, <1>3

\* An argument goes to a register of its class or to the stack.
LEMMA KindsAre ==
  ASSUME NEW c \in {"int", "flt", "stk"}, NEW n \in Nat, NEW f \in Nat
  PROVE  /\ KindOf(c, n, f) \in {c, "stk"}
         /\ KindOf(c, n, f) = "int" <=> c = "int" /\ n < NInt
         /\ KindOf(c, n, f) = "flt" <=> c = "flt" /\ f < NFlt
  BY DEF KindOf

\* The slots of argument i when the first has kind k and the second, if any, kind l.
Made(i, t, k, l) ==
  LET x == [arg |-> i, chunk |-> 0, kind |-> k]
      y == [arg |-> i, chunk |-> 1, kind |-> l]
  IN  IF Len(Classes(t)) = 1 THEN <<x>> ELSE <<x, y>>

First1(t, n, f)  == KindOf(Classes(t)[1], n, f)
Second1(t, n, f) == KindOf(Classes(t)[2], n + One(First1(t, n, f) = "int"), f + One(First1(t, n, f) = "flt"))

\* SlotsOf makes a slot for each word.
LEMMA SlotsAre ==
  ASSUME NEW t \in ArgTypes, NEW i \in Nat, NEW n \in Nat, NEW f \in Nat
  PROVE  /\ SlotsOf(i, t, n, f) = Made(i, t, First1(t, n, f), Second1(t, n, f))
         /\ SlotsOf(i, t, n, f) \in Seq(Slot)
         /\ First1(t, n, f) \in {"int", "flt", "stk"}
         /\ Len(Classes(t)) = 2 => Second1(t, n, f) \in {"int", "flt", "stk"}
<1> DEFINE cs == Classes(t)
           k  == First1(t, n, f)
           l  == Second1(t, n, f)
           x  == [arg |-> i, chunk |-> 0, kind |-> k]
           y  == [arg |-> i, chunk |-> 1, kind |-> l]
           z  == SlotsOf(i, t, n, f)
<1>1. Len(cs) \in {1, 2} /\ DOMAIN cs = 1..Len(cs)
  BY ClassesAre
<1>2. \A c \in 1..Len(cs) : cs[c] \in {"int", "flt", "stk"}
  BY ClassesAre
<1>3. k \in {"int", "flt", "stk"}
  <2>1. cs[1] \in {"int", "flt", "stk"}
    BY <1>1, <1>2
  <2>2. QED
    BY <2>1, KindsAre DEF First1
<1>4. Len(cs) = 2 => l \in {"int", "flt", "stk"}
  <2>1. ASSUME Len(cs) = 2 PROVE l \in {"int", "flt", "stk"}
    <3>1. cs[2] \in {"int", "flt", "stk"}
      BY <1>1, <1>2, <2>1
    <3>2. n + One(k = "int") \in Nat /\ f + One(k = "flt") \in Nat
      BY DEF One
    <3>3. QED
      BY <3>1, <3>2, KindsAre DEF Second1
  <2>2. QED
    BY <2>1
<1>5. x \in Slot /\ (Len(cs) = 2 => y \in Slot)
  BY <1>3, <1>4 DEF Slot
<1>6. z = [c \in 1..Len(cs) |-> [arg |-> i, chunk |-> c - 1, kind |-> IF c = 1 THEN k ELSE l]]
  BY <1>1 DEF SlotsOf, First1, Second1
<1> HIDE DEF k, l, z
<1>7. CASE Len(cs) = 1
  <2>1. z = <<x>>
    BY <1>6, <1>7
  <2>2. QED
    BY <1>3, <1>5, <1>7, <2>1 DEF Made, z, k, l
<1>8. CASE Len(cs) = 2
  <2>1. z = <<x, y>>
    BY <1>6, <1>8
  <2>2. QED
    BY <1>3, <1>4, <1>5, <1>8, <2>1 DEF Made, z, k, l
<1>9. QED
  BY <1>1, <1>7, <1>8

(***************************************************************************)
(* The slots of the first arguments.                                       *)
(***************************************************************************)
SlotsStep(k, s, i) ==
  IF i = 0 THEN << >>
  ELSE k[i - 1] \o SlotsOf(i, s[i], Count("int", k[i - 1]), Count("flt", k[i - 1]))
IsSlots(k, s) == k = [i \in 0..Len(s) |-> SlotsStep(k, s, i)]

\* The recursion has a solution.
LEMMA SlotsExist ==
  ASSUME NEW s, Len(s) \in Nat
  PROVE  \E k : IsSlots(k, s)
<1> DEFINE Solves(k, n) == \A i \in 0..n : k[i] = SlotsStep(k, s, i)
           Stuck == {n \in Nat : ~ \E k : Solves(k, n)}
           m     == Min(Stuck)
<1>1. Stuck = {}
  <2>1. SUFFICES ASSUME Stuck # {} PROVE FALSE
    OBVIOUS
  <2>2. m \in Stuck /\ \A n \in 0..m - 1 : n \notin Stuck
    BY <2>1, LeastOf
  <2> HIDE DEF m
  <2>3. m \in Nat /\ ~ \E k : Solves(k, m)
    BY <2>2
  <2>4. m # 0
    <3>1. Solves([i \in {0} |-> << >>], 0)
      BY DEF SlotsStep
    <3>2. QED
      BY <2>3, <3>1
  <2>5. PICK k : Solves(k, m - 1)
    BY <2>2, <2>3, <2>4, SMTT(30)
  <2> DEFINE h == [i \in 0..m |-> IF i < m THEN k[i] ELSE SlotsStep(k, s, m)]
  <2>6. ASSUME NEW i \in 0..m PROVE h[i] = SlotsStep(h, s, i)
    <3>1. i # 0 => i - 1 \in 0..m - 1 /\ h[i - 1] = k[i - 1]
      BY <2>3
    <3>2. h[i] = SlotsStep(k, s, i)
      <4>1. CASE i < m
        <5>1. i \in 0..m - 1 /\ h[i] = k[i]
          BY <2>3, <4>1
        <5>2. QED
          BY <2>5, <5>1
      <4>2. CASE i = m
        BY <2>3, <4>2
      <4>3. QED
        BY <2>3, <4>1, <4>2
    <3> HIDE DEF h
    <3>3. QED
      BY <3>1, <3>2 DEF SlotsStep
  <2> HIDE DEF h
  <2>7. Solves(h, m)
    BY <2>6
  <2>8. QED
    BY <2>3, <2>7
<1>2. PICK k : Solves(k, Len(s))
  BY <1>1
<1> DEFINE h == [i \in 0..Len(s) |-> k[i]]
<1>3. ASSUME NEW i \in 0..Len(s) PROVE k[i] = SlotsStep(h, s, i)
  <2>1. i # 0 => h[i - 1] = k[i - 1]
    OBVIOUS
  <2> HIDE DEF h
  <2>2. QED
    BY <1>2, <2>1 DEF SlotsStep
<1>4. h = [i \in 0..Len(s) |-> SlotsStep(h, s, i)]
  BY <1>3
<1>5. QED
  BY <1>4 DEF IsSlots

\* SlotsTo is its own recursion.
LEMMA SlotsSolve ==
  ASSUME NEW s, Len(s) \in Nat
  PROVE  \A i \in 0..Len(s) : SlotsTo(s)[i] = SlotsStep(SlotsTo(s), s, i)
<1> DEFINE K == CHOOSE k : IsSlots(k, s)
<1>1. SlotsTo(s) = K
  BY DEF SlotsTo, IsSlots, SlotsStep
<1>2. IsSlots(K, s)
  BY SlotsExist, Zenon
<1> HIDE DEF K
<1>3. \A i \in 0..Len(s) : K[i] = SlotsStep(K, s, i)
  BY <1>2, Zenon DEF IsSlots
<1>4. QED
  BY <1>1, <1>3

\* Every argument adds its slots to those before it.
LEMMA SlotsType ==
  ASSUME NEW s \in Seq(ArgTypes), NEW i \in 0..Len(s)
  PROVE  /\ SlotsTo(s)[i] \in Seq(Slot)
         /\ SlotsTo(s)[0] = << >>
         /\ \A kind : Count(kind, SlotsTo(s)[i]) \in Nat
         /\ i > 0 => LET b == SlotsTo(s)[i - 1]
                     IN  /\ b \in Seq(Slot)
                         /\ SlotsTo(s)[i] = b \o SlotsOf(i, s[i], Count("int", b), Count("flt", b))
                         /\ SlotsOf(i, s[i], Count("int", b), Count("flt", b)) \in Seq(Slot)
<1> DEFINE K   == SlotsTo(s)
           Bad == {n \in Nat : n \in 0..Len(s) /\ K[n] \notin Seq(Slot)}
           m   == Min(Bad)
<1>1. Len(s) \in Nat /\ \A n \in 0..Len(s) : K[n] = SlotsStep(K, s, n)
  BY SlotsSolve
<1>2. K[0] = << >> /\ << >> \in Seq(Slot)
  BY <1>1 DEF SlotsStep
<1>3. ASSUME NEW n \in 1..Len(s)
      PROVE  K[n] = K[n - 1] \o SlotsOf(n, s[n], Count("int", K[n - 1]), Count("flt", K[n - 1]))
  <2>1. n \in 0..Len(s) /\ n # 0
    BY <1>1
  <2> HIDE DEF K
  <2>2. QED
    BY <1>1, <2>1, Zenon DEF SlotsStep
<1> HIDE DEF K
<1>4. ASSUME NEW n \in 1..Len(s), K[n - 1] \in Seq(Slot)
      PROVE  /\ SlotsOf(n, s[n], Count("int", K[n - 1]), Count("flt", K[n - 1])) \in Seq(Slot)
             /\ K[n] \in Seq(Slot)
  <2>1. Count("int", K[n - 1]) \in Nat /\ Count("flt", K[n - 1]) \in Nat
    BY <1>4, OfType
  <2>2. s[n] \in ArgTypes /\ n \in Nat
    BY <1>1
  <2>3. SlotsOf(n, s[n], Count("int", K[n - 1]), Count("flt", K[n - 1])) \in Seq(Slot)
    BY <2>1, <2>2, SlotsAre
  <2>4. K[n] \in Seq(Slot)
    <3> DEFINE x == SlotsOf(n, s[n], Count("int", K[n - 1]), Count("flt", K[n - 1]))
    <3>1. K[n] = K[n - 1] \o x
      BY <1>3
    <3> HIDE DEF x
    <3>2. x \in Seq(Slot) => K[n - 1] \o x \in Seq(Slot)
      BY <1>4
    <3>3. QED
      BY <2>3, <3>1, <3>2 DEF x
  <2>5. QED
    BY <2>3, <2>4
<1>5. Bad = {}
  <2>1. SUFFICES ASSUME Bad # {} PROVE FALSE
    OBVIOUS
  <2>2. m \in Bad /\ \A n \in 0..m - 1 : n \notin Bad
    BY <2>1, LeastOf
  <2> HIDE DEF m
  <2>3. m \in Nat /\ m \in 0..Len(s) /\ K[m] \notin Seq(Slot)
    BY <2>2
  <2>4. m # 0
    BY <1>2, <2>3
  <2>5. m \in 1..Len(s) /\ m - 1 \in 0..m - 1 /\ m - 1 \in Nat /\ m - 1 \in 0..Len(s)
    BY <1>1, <2>3, <2>4
  <2>6. K[m - 1] \in Seq(Slot)
    BY <2>2, <2>5
  <2>7. QED
    BY <1>4, <2>3, <2>5, <2>6
<1>6. K[i] \in Seq(Slot) /\ (i > 0 => i \in 1..Len(s) /\ i - 1 \in 0..Len(s) /\ K[i - 1] \in Seq(Slot))
  <2>1. \A n \in 0..Len(s) : n \in Nat /\ K[n] \in Seq(Slot)
    BY <1>1, <1>5
  <2>2. i > 0 => i \in 1..Len(s) /\ i - 1 \in 0..Len(s)
    BY <1>1
  <2>3. QED
    BY <2>1, <2>2
<1>7. \A kind : Count(kind, K[i]) \in Nat
  BY <1>6, OfType
<1>8. QED
  BY <1>2, <1>3, <1>4, <1>6, <1>7 DEF K

\* The slots of the first arguments come first.
LEMMA SlotsPrefix ==
  ASSUME NEW s \in Seq(ArgTypes), NEW a \in 0..Len(s)
  PROVE  \E r \in Seq(Slot) : SlotsTo(s)[Len(s)] = SlotsTo(s)[a] \o r
<1> DEFINE K     == SlotsTo(s)
           Grown(n) == \E r \in Seq(Slot) : K[n] = K[a] \o r
           Bad   == {n \in Nat : n \in a..Len(s) /\ ~Grown(n)}
           m     == Min(Bad)
<1>1. Len(s) \in Nat /\ a \in Nat /\ K[a] \in Seq(Slot) /\ << >> \in Seq(Slot)
  <2>1. K[a] \in Seq(Slot)
    BY SlotsType
  <2> HIDE DEF K
  <2>2. QED
    BY <2>1
<1>2. Grown(a)
  <2>1. K[a] \o << >> = K[a]
    BY <1>1
  <2>2. QED
    BY <1>1, <2>1
<1>3. ASSUME NEW n \in 1..Len(s), Grown(n - 1) PROVE Grown(n)
  <2>1. PICK r \in Seq(Slot) : K[n - 1] = K[a] \o r
    BY <1>3
  <2> DEFINE x == SlotsOf(n, s[n], Count("int", K[n - 1]), Count("flt", K[n - 1]))
  <2>2. n \in 0..Len(s) /\ n > 0
    BY <1>1
  <2>3. K[n] = K[n - 1] \o x /\ x \in Seq(Slot)
    BY <2>2, SlotsType
  <2> HIDE DEF x, K
  <2>4. (K[a] \o r) \o x = K[a] \o (r \o x) /\ r \o x \in Seq(Slot)
    <3> DEFINE u == K[a]
    <3>1. u \in Seq(Slot) /\ x \in Seq(Slot)
      BY <1>1, <2>3
    <3> HIDE DEF u
    <3>2. (u \o r) \o x = u \o (r \o x) /\ r \o x \in Seq(Slot)
      BY <3>1, ConcatAssociative, ConcatProperties, SMTT(40)
    <3>3. QED
      BY <3>2 DEF u
  <2>5. QED
    BY <2>1, <2>3, <2>4
<1> HIDE DEF Grown
<1>4. Bad = {}
  <2>1. SUFFICES ASSUME Bad # {} PROVE FALSE
    OBVIOUS
  <2>2. m \in Bad /\ \A n \in 0..m - 1 : n \notin Bad
    BY <2>1, LeastOf
  <2> HIDE DEF m
  <2>3. m \in Nat /\ m \in a..Len(s) /\ ~Grown(m)
    BY <2>2
  <2>4. m # a
    BY <1>2, <2>3
  <2>5. m \in 1..Len(s) /\ m - 1 \in 0..m - 1 /\ m - 1 \in Nat /\ m - 1 \in a..Len(s)
    BY <1>1, <2>3, <2>4
  <2>6. Grown(m - 1)
    BY <2>2, <2>5
  <2>7. QED
    BY <1>3, <2>3, <2>5, <2>6
<1>5. Grown(Len(s))
  BY <1>1, <1>4
<1>6. QED
  BY <1>5 DEF Grown


(***************************************************************************)
(* What the steps work on.                                                 *)
(***************************************************************************)
LEMMA SigFacts ==
  ASSUME CallTypes
  PROVE  /\ sig \in Seq(ArgTypes) /\ Len(sig) \in Nat /\ DOMAIN sig = 1..Len(sig)
         /\ \A i \in 1..Len(sig) : sig[i] \in ArgTypes
<1>1. sig \in Seq(ArgTypes)
  BY TypesAssumption DEF CallTypes
<1>2. QED
  BY <1>1

LEMMA WordFacts ==
  ASSUME NEW x \in Slot, NEW q
  PROVE  WordFrom(q, x) \in Words
<1>1. x.arg \in Nat /\ x.chunk \in Nat
  BY DEF Slot
<1>2. \A n \in 1..Word : x.chunk * Word + n - 1 \in Int
  BY <1>1 DEF Word
<1>3. QED
  BY <1>1, <1>2 DEF WordFrom, Words

\* Rounding up does not go down.
LEMMA UpTo ==
  ASSUME NEW n \in Nat, NEW a \in Nat \ {0}
  PROVE  AlignUp(n, a) \in Nat /\ AlignUp(n, a) >= n
<1> DEFINE x == n + a - 1
           d == x \div a
<1>1. x \in Nat /\ d \in Int /\ x % a \in 0..a - 1 /\ x = a * d + (x % a)
  BY SMT
<1>2. d * a = a * d /\ d * a \in Int
  BY <1>1, SMT
<1>3. d * a >= n
  BY <1>1, <1>2, SMT
<1>4. AlignUp(n, a) = d * a
  BY DEF AlignUp
<1>5. QED
  BY <1>2, <1>3, <1>4, SMT

Stacked(i, f, s) == (i \o f) \o s
Pushes(i, f, s)  == (Reverse(s) \o Reverse(f)) \o Reverse(i)

\* Pushed in the reverse order, the slots lie in the order they are popped in.
LEMMA LayersOf ==
  ASSUME NEW i \in Seq(Slot), NEW f \in Seq(Slot), NEW s \in Seq(Slot)
  PROVE  LET l == Stacked(i, f, s)
             u == Pushes(i, f, s)
         IN  /\ l \in Seq(Slot) /\ u \in Seq(Slot) /\ Len(u) = Len(l)
             /\ Len(l) = Len(i) + Len(f) + Len(s) /\ Len(l) \in Nat
             /\ \A j \in 1..Len(l) : u[j] = l[Len(l) + 1 - j]
             /\ \A j \in 1..Len(i) : l[j] = i[j]
             /\ \A j \in 1..Len(f) : l[Len(i) + j] = f[j]
             /\ \A j \in 1..Len(s) : l[Len(i) + Len(f) + j] = s[j]
<1> DEFINE ri == Reverse(i)
           rf == Reverse(f)
           rs == Reverse(s)
           l  == (i \o f) \o s
           u  == (rs \o rf) \o ri
<1>1. \A v \in Seq(Slot) : /\ Reverse(v) \in Seq(Slot) /\ Len(Reverse(v)) = Len(v)
                           /\ \A j \in 1..Len(v) : Reverse(v)[j] = v[(Len(v) - j) + 1]
  BY DEF Reverse
<1>2. /\ ri \in Seq(Slot) /\ rf \in Seq(Slot) /\ rs \in Seq(Slot)
      /\ Len(ri) = Len(i) /\ Len(rf) = Len(f) /\ Len(rs) = Len(s)
      /\ Len(i) \in Nat /\ Len(f) \in Nat /\ Len(s) \in Nat
  BY <1>1
<1>3. /\ \A j \in 1..Len(i) : ri[j] = i[(Len(i) - j) + 1]
      /\ \A j \in 1..Len(f) : rf[j] = f[(Len(f) - j) + 1]
      /\ \A j \in 1..Len(s) : rs[j] = s[(Len(s) - j) + 1]
  BY <1>1
<1> HIDE DEF ri, rf, rs
<1>4. /\ l \in Seq(Slot) /\ u \in Seq(Slot)
      /\ Len(l) = Len(i) + Len(f) + Len(s) /\ Len(u) = Len(i) + Len(f) + Len(s)
  <2> DEFINE v == i \o f
             w == rs \o rf
  <2>1. /\ v \in Seq(Slot) /\ Len(v) = Len(i) + Len(f)
        /\ w \in Seq(Slot) /\ Len(w) = Len(rs) + Len(rf)
    BY <1>2, ConcatProperties
  <2> HIDE DEF v, w
  <2>2. /\ v \o s \in Seq(Slot) /\ Len(v \o s) = Len(v) + Len(s)
        /\ w \o ri \in Seq(Slot) /\ Len(w \o ri) = Len(w) + Len(ri)
    BY <1>2, <2>1, ConcatProperties
  <2> USE DEF v, w
  <2>3. QED
    BY <1>2, <2>1, <2>2
<1>5. /\ \A j \in 1..Len(i) : l[j] = i[j]
      /\ \A j \in 1..Len(f) : l[Len(i) + j] = f[j]
      /\ \A j \in 1..Len(s) : l[Len(i) + Len(f) + j] = s[j]
  BY <1>2
<1>6. /\ \A j \in 1..Len(s) : u[j] = rs[j]
      /\ \A j \in 1..Len(f) : u[Len(s) + j] = rf[j]
      /\ \A j \in 1..Len(i) : u[Len(s) + Len(f) + j] = ri[j]
  BY <1>2
<1> HIDE DEF l, u
<1>7. ASSUME NEW j \in 1..Len(l) PROVE u[j] = l[Len(l) + 1 - j]
  <2>1. CASE j <= Len(s)
    <3> DEFINE k == (Len(s) - j) + 1
    <3>1. k \in 1..Len(s) /\ j \in 1..Len(s) /\ Len(l) + 1 - j = Len(i) + Len(f) + k
      BY <1>2, <1>4, <2>1
    <3>2. u[j] = rs[j] /\ rs[j] = s[k] /\ l[Len(i) + Len(f) + k] = s[k]
      BY <1>3, <1>5, <1>6, <3>1
    <3>3. QED
      BY <3>1, <3>2
  <2>2. CASE j > Len(s) /\ j <= Len(s) + Len(f)
    <3> DEFINE h == j - Len(s)
               k == (Len(f) - h) + 1
    <3>1. k \in 1..Len(f) /\ h \in 1..Len(f) /\ Len(l) + 1 - j = Len(i) + k /\ j = Len(s) + h
      BY <1>2, <1>4, <2>2
    <3>2. u[Len(s) + h] = rf[h] /\ rf[h] = f[k] /\ l[Len(i) + k] = f[k]
      BY <1>3, <1>5, <1>6, <3>1
    <3>3. QED
      BY <3>1, <3>2
  <2>3. CASE j > Len(s) + Len(f)
    <3> DEFINE h == j - (Len(s) + Len(f))
               k == (Len(i) - h) + 1
    <3>1. k \in 1..Len(i) /\ h \in 1..Len(i) /\ Len(l) + 1 - j = k /\ j = Len(s) + Len(f) + h
      BY <1>2, <1>4, <2>3
    <3>2. u[Len(s) + Len(f) + h] = ri[h] /\ ri[h] = i[k] /\ l[k] = i[k]
      BY <1>3, <1>5, <1>6, <3>1
    <3>3. QED
      BY <3>1, <3>2
  <2>4. QED
    BY <1>2, <1>4, <2>1, <2>2, <2>3
<1>8. QED
  BY <1>2, <1>4, <1>5, <1>7 DEF l, u, ri, rf, rs, Stacked, Pushes

\* The same of the slots of a call.
LEMMA OrderFacts ==
  ASSUME NEW s \in Seq(Slot)
  PROVE  /\ Of("int", s) \in Seq(Slot) /\ Of("flt", s) \in Seq(Slot) /\ Of("stk", s) \in Seq(Slot)
         /\ \A j \in 1..Len(Of("int", s)) : Of("int", s)[j].kind = "int"
         /\ \A j \in 1..Len(Of("flt", s)) : Of("flt", s)[j].kind = "flt"
         /\ PushOrder(s) \in Seq(Slot) /\ Len(PushOrder(s)) = Len(Layers(s)) /\ Len(Layers(s)) \in Nat
         /\ \A j \in 1..Len(Layers(s)) : PushOrder(s)[j] = Layers(s)[Len(Layers(s)) + 1 - j]
         /\ Layers(s) \in Seq(Slot) /\ PopOrder(s) \in Seq(Slot)
<1> DEFINE i == Of("int", s)
           f == Of("flt", s)
           t == Of("stk", s)
<1>1. /\ i \in Seq(Slot) /\ f \in Seq(Slot) /\ t \in Seq(Slot)
      /\ \A j \in 1..Len(i) : i[j].kind = "int"
      /\ \A j \in 1..Len(f) : f[j].kind = "flt"
  <2>1. \A k : /\ Of(k, s) \in Seq(Slot) /\ Count(k, s) = Len(Of(k, s))
               /\ \A j \in 1..Count(k, s) : Of(k, s)[j].kind = k
    BY OfType
  <2>2. QED
    BY <2>1
<1>2. /\ PushOrder(s) = (Reverse(t) \o Reverse(f)) \o Reverse(i)
      /\ PopOrder(s) = i \o f /\ Layers(s) = (i \o f) \o t
  BY DEF PushOrder, PopOrder, Layers
<1> HIDE DEF i, f, t
<1>3. i \o f \in Seq(Slot)
  BY <1>1
<1> DEFINE l == Stacked(i, f, t)
           u == Pushes(i, f, t)
<1>4. /\ l \in Seq(Slot) /\ u \in Seq(Slot) /\ Len(u) = Len(l) /\ Len(l) \in Nat
      /\ \A j \in 1..Len(l) : u[j] = l[Len(l) + 1 - j]
  BY <1>1, LayersOf
<1>5. PushOrder(s) = u /\ PopOrder(s) = i \o f /\ Layers(s) = l
  BY <1>2 DEF Stacked, Pushes
<1> HIDE DEF l, u
<1>6. QED
  BY <1>1, <1>3, <1>4, <1>5 DEF i, f, t


(***************************************************************************)
(* The caller's steps.                                                     *)
(***************************************************************************)
LEMMA ClassifyStep ==
  ASSUME CallInv, Classify
  PROVE  CallInv'
<1> DEFINE new == SlotsOf(arg, sig[arg], ints, flts)
<1>1. /\ phase = "classify" /\ phase' = "classify" /\ arg \in 1..Len(sig) /\ arg' = arg + 1
      /\ slots = Before /\ ints = Count("int", slots) /\ flts = Count("flt", slots)
      /\ sig' = sig /\ Len(sig) \in Nat /\ arg \in Nat
  BY SigFacts DEF CallInv, Classified, Classify
<1>2. SlotsTo(sig)[arg] = slots \o new /\ new \in Seq(Slot) /\ slots \in Seq(Slot)
  <2>1. arg \in 0..Len(sig) /\ arg > 0 /\ sig \in Seq(ArgTypes)
    BY <1>1, SigFacts DEF CallInv
  <2>2. QED
    BY <1>1, <2>1, SlotsType DEF Before
<1>3. slots' = slots \o new /\ ints' = ints + Count("int", new) /\ flts' = flts + Count("flt", new)
  BY DEF Classify
<1> HIDE DEF new
<1>4. ints' = Count("int", slots') /\ flts' = Count("flt", slots')
  BY <1>1, <1>2, <1>3, OfConcat
<1>5. slots' \in Seq(Slot) /\ ints' \in Nat /\ flts' \in Nat
  <2>1. slots' \in Seq(Slot)
    BY <1>2, <1>3
  <2>2. Count("int", slots') \in Nat /\ Count("flt", slots') \in Nat
    BY <2>1, OfType
  <2>3. QED
    BY <1>4, <2>1, <2>2
<1>6. Before' = SlotsTo(sig)[arg] /\ arg' \in 1..Len(sig) + 1 /\ arg' \in Nat \ {0}
  BY <1>1 DEF Before
<1>7. CallTypes'
  BY <1>1, <1>5, <1>6 DEF CallInv, CallTypes, Classify
<1>8. Classified'
  BY <1>1, <1>2, <1>3, <1>4, <1>6 DEF Classified
<1>9. Pushed' /\ Popped' /\ Handed'
  BY <1>1 DEF Pushed, Popped, Handed
<1>10. NoneYet' /\ Counted'
  BY <1>1 DEF CallInv, NoneYet, Counted, Classify
<1>11. QED
  BY <1>7, <1>8, <1>9, <1>10 DEF CallInv

LEMMA StartPushStep ==
  ASSUME CallInv, StartPush
  PROVE  CallInv'
<1>1. /\ phase = "classify" /\ phase' = "push" /\ arg = Len(sig) + 1 /\ sig' = sig /\ slots' = slots
      /\ todo' = PushOrder(slots) /\ slots \in Seq(Slot) /\ Len(sig) \in Nat
      /\ slots = SlotsTo(sig)[Len(sig)]
  <2>1. /\ phase = "classify" /\ phase' = "push" /\ arg > Len(sig) /\ sig' = sig /\ slots' = slots
        /\ todo' = PushOrder(slots)
    BY DEF StartPush
  <2>2. slots \in Seq(Slot) /\ Len(sig) \in Nat /\ arg \in Nat
    BY SigFacts DEF CallInv, CallTypes
  <2>3. slots = Before /\ arg \in 1..Len(sig) + 1
    BY <2>1 DEF CallInv, Classified
  <2>4. arg = Len(sig) + 1 /\ arg - 1 = Len(sig)
    BY <2>1, <2>2, <2>3
  <2>5. QED
    BY <2>1, <2>2, <2>3, <2>4 DEF Before
<1>2. stack' \in Seq(Words)
  <2>1. Pad \in Words
    BY DEF Pad, Words
  <2>2. QED
    BY <2>1 DEF StartPush
<1>3. CallTypes'
  BY <1>1, <1>2, OrderFacts DEF CallInv, CallTypes, StartPush
<1>4. Pushed'
  <2> DEFINE l == Layers(slots)
             p == PushOrder(slots)
             w == stack'
  <2>1. Len(p) = Len(l) /\ Len(l) \in Nat /\ \A j \in 1..Len(l) : p[j] = l[Len(l) + 1 - j]
    BY <1>1, OrderFacts
  <2>2. Len(stack') \in Nat
    BY <1>2
  <2>3. Layers(slots)' = l /\ todo' = p
    BY <1>1
  <2> HIDE DEF l, p
  <2>4. /\ Len(p) <= Len(l)
        /\ \A j \in 1..Len(p) : p[j] = l[Len(p) + 1 - j]
        /\ Len(l) - Len(p) <= Len(stack')
        /\ \A j \in Len(p) + 1..Len(l) : FALSE
    BY <2>1, <2>2
  <2>5. QED
    BY <2>3, <2>4 DEF Pushed
<1>5. Classified' /\ Popped' /\ Handed'
  BY <1>1 DEF Classified, Popped, Handed
<1>6. NoneYet' /\ Counted'
  BY <1>1 DEF CallInv, NoneYet, Counted, StartPush
<1>7. QED
  BY <1>3, <1>4, <1>5, <1>6 DEF CallInv

LEMMA PushSlotStep ==
  ASSUME CallInv, PushSlot
  PROVE  CallInv'
<1> DEFINE l == Layers(slots)
           r == Len(todo)
           x == Head(todo)
           w == WordFrom(sig, x)
<1>1. /\ phase = "push" /\ phase' = "push" /\ sig' = sig /\ slots' = slots /\ todo # << >>
      /\ stack' = Append(stack, WordOf(x.arg, x.chunk)) /\ todo' = Tail(todo)
      /\ todo \in Seq(Slot) /\ slots \in Seq(Slot) /\ stack \in Seq(Words)
  BY DEF CallInv, CallTypes, PushSlot
<1>2. x \in Slot /\ x = todo[1] /\ r \in Nat \ {0} /\ Tail(todo) \in Seq(Slot)
      /\ Len(Tail(todo)) = r - 1 /\ \A j \in 1..r - 1 : Tail(todo)[j] = todo[j + 1]
  BY <1>1
<1>3. stack' = Append(stack, w)
  <2>1. WordOf(x.arg, x.chunk) = w
    BY DEF WordOf, WordFrom
  <2>2. QED
    BY <1>1, <2>1
<1>4. w \in Words
  BY <1>2, WordFacts
<1>5. /\ r <= Len(l) /\ Len(l) \in Nat
      /\ \A j \in 1..r : todo[j] = l[r + 1 - j]
      /\ Len(l) - r <= Len(stack)
      /\ \A j \in r + 1..Len(l) : stack[Len(stack) + 1 + r - j] = WordFrom(sig, l[j])
  BY <1>1, OrderFacts DEF CallInv, Pushed
<1>6. x = l[r]
  <2>1. 1 \in 1..r /\ r + 1 - 1 = r
    BY <1>2
  <2>2. QED
    BY <1>2, <1>5, <2>1
<1> HIDE DEF l, r, w
<1>7. /\ Len(stack') = Len(stack) + 1 /\ stack'[Len(stack) + 1] = w /\ Len(stack) \in Nat
      /\ \A j \in 1..Len(stack) : stack'[j] = stack[j]
      /\ stack' \in Seq(Words)
  BY <1>1, <1>3, <1>4
<1>8. CallTypes'
  BY <1>1, <1>2, <1>7 DEF CallInv, CallTypes, PushSlot
<1>9. ASSUME NEW j \in r..Len(l)
      PROVE  stack'[Len(stack') + 1 + (r - 1) - j] = WordFrom(sig, l[j])
  <2>1. CASE j = r
    <3>1. Len(stack') + 1 + (r - 1) - j = Len(stack) + 1
      BY <1>2, <1>7, <2>1
    <3>2. QED
      BY <1>6, <1>7, <2>1, <3>1 DEF w
  <2>2. CASE j # r
    <3> DEFINE k == Len(stack) + 1 + r - j
    <3>1. j \in r + 1..Len(l) /\ k \in 1..Len(stack) /\ Len(stack') + 1 + (r - 1) - j = k
      BY <1>2, <1>5, <1>7, <2>2
    <3>2. stack[k] = WordFrom(sig, l[j])
      BY <1>5, <3>1
    <3> HIDE DEF k
    <3>3. QED
      BY <1>7, <3>1, <3>2
  <2>3. QED
    BY <2>1, <2>2
<1>10. Pushed'
  <2>1. Len(todo') = r - 1 /\ Layers(slots)' = l
    BY <1>1, <1>2 DEF l
  <2>2. \A j \in 1..r - 1 : todo'[j] = l[(r - 1) + 1 - j]
    <3>1. ASSUME NEW j \in 1..r - 1 PROVE todo'[j] = l[(r - 1) + 1 - j]
      <4>1. j + 1 \in 1..r /\ r + 1 - (j + 1) = (r - 1) + 1 - j
        BY <1>2
      <4>2. todo'[j] = todo[j + 1]
        BY <1>1, <1>2
      <4>3. QED
        BY <1>5, <4>1, <4>2
    <3>2. QED
      BY <3>1
  <2>3. r - 1 <= Len(l) /\ Len(l) - (r - 1) <= Len(stack') /\ (r - 1) + 1 = r
    <3> DEFINE n == Len(l)
               m == Len(stack)
               h == Len(stack')
    <3>1. r \in Nat /\ n \in Nat /\ m \in Nat /\ h = m + 1 /\ r <= n /\ n - r <= m
      BY <1>2, <1>5, <1>7
    <3> HIDE DEF n, m, h
    <3>2. r - 1 <= n /\ n - (r - 1) <= h /\ (r - 1) + 1 = r
      BY <3>1
    <3>3. QED
      BY <3>2 DEF n, h
  <2>4. \A j \in (r - 1) + 1..Len(l) : stack'[Len(stack') + 1 + (r - 1) - j] = WordFrom(sig, l[j])
    BY <1>9, <2>3
  <2>5. sig' = sig
    BY <1>1
  <2>6. QED
    BY <2>1, <2>2, <2>3, <2>4, <2>5, Zenon DEF Pushed
<1>11. Classified' /\ Popped' /\ Handed'
  BY <1>1 DEF CallInv, Classified, Popped, Handed
<1>12. NoneYet' /\ Counted'
  BY <1>1 DEF CallInv, NoneYet, Counted, PushSlot
<1>13. QED
  BY <1>8, <1>10, <1>11, <1>12 DEF CallInv

LEMMA StartPopStep ==
  ASSUME CallInv, StartPop
  PROVE  CallInv'
<1> DEFINE i == Of("int", slots)
           f == Of("flt", slots)
           s == Of("stk", slots)
           l == Layers(slots)
<1>1. /\ phase = "push" /\ phase' = "pop" /\ sig' = sig /\ slots' = slots /\ todo = << >>
      /\ todo' = i \o f /\ stack' = stack /\ regs' = regs
      /\ slots \in Seq(Slot) /\ stack \in Seq(Words)
  BY DEF CallInv, CallTypes, StartPop, PopOrder
<1>2. i \in Seq(Slot) /\ f \in Seq(Slot) /\ s \in Seq(Slot) /\ PopOrder(slots) \in Seq(Slot)
  BY <1>1, OrderFacts
<1>3. l = Stacked(i, f, s)
  BY DEF Layers, Stacked
<1>4. /\ Len(l) <= Len(stack) /\ Len(stack) \in Nat
      /\ \A j \in 1..Len(l) : stack[Len(stack) + 1 - j] = WordFrom(sig, l[j])
  <2>1. Len(todo) = 0 /\ Len(stack) \in Nat /\ Len(l) \in Nat
    BY <1>1, OrderFacts
  <2>2. /\ Len(l) - 0 <= Len(stack)
        /\ \A j \in 0 + 1..Len(l) : stack[Len(stack) + 1 + 0 - j] = WordFrom(sig, l[j])
    BY <1>1, <2>1 DEF CallInv, Pushed
  <2> HIDE DEF l
  <2>3. QED
    BY <2>1, <2>2
<1>5. regs["int"] = << >> /\ regs["flt"] = << >> /\ Len(<< >>) = 0
  BY <1>1 DEF CallInv, NoneYet
<1>6. CallTypes'
  BY <1>1, <1>2 DEF CallInv, CallTypes, StartPop
<1> HIDE DEF i, f, s, l
<1>7. /\ Len(l) = Len(i) + Len(f) + Len(s) /\ Len(i) \in Nat /\ Len(f) \in Nat /\ Len(s) \in Nat
      /\ \A j \in 1..Len(i) : l[j] = i[j]
      /\ \A j \in 1..Len(f) : l[Len(i) + j] = f[j]
      /\ \A j \in 1..Len(s) : l[Len(i) + Len(f) + j] = s[j]
  BY <1>2, <1>3, LayersOf
<1>8. /\ Len(todo') = Len(i) + Len(f)
      /\ \A j \in 1..Len(i) : todo'[j] = i[j]
      /\ \A j \in 1..Len(f) : todo'[Len(i) + j] = f[j]
  BY <1>1, <1>2
<1>9. \A j \in 1..Len(todo') : todo'[j] = l[j] /\ j \in 1..Len(l)
  <2>1. ASSUME NEW j \in 1..Len(todo') PROVE todo'[j] = l[j] /\ j \in 1..Len(l)
    <3>1. CASE j <= Len(i)
      BY <1>7, <1>8, <3>1
    <3>2. CASE j > Len(i)
      <4> DEFINE k == j - Len(i)
      <4>1. k \in 1..Len(f) /\ j = Len(i) + k
        BY <1>7, <1>8, <3>2
      <4>2. todo'[Len(i) + k] = f[k] /\ l[Len(i) + k] = f[k]
        BY <1>7, <1>8, <4>1
      <4>3. QED
        BY <1>7, <1>8, <4>1, <4>2
    <3>3. QED
      BY <1>7, <1>8, <3>1, <3>2
  <2>2. QED
    BY <2>1
<1>10. PopState(sig, i, f, s, todo', stack', << >>, << >>)
  <2>1. \A j \in 1..Len(todo') : stack'[Len(stack') + 1 - j] = WordFrom(sig', todo'[j])
    BY <1>1, <1>4, <1>9
  <2>2. ASSUME NEW j \in 1..Len(s)
        PROVE  stack'[Len(stack') + 1 - (Len(todo') + j)] = WordFrom(sig', s[j])
    <3>1. Len(i) + Len(f) + j \in 1..Len(l) /\ Len(todo') + j = Len(i) + Len(f) + j
      BY <1>7, <1>8
    <3>2. l[Len(i) + Len(f) + j] = s[j]
      BY <1>7
    <3>3. QED
      BY <1>1, <1>4, <3>1, <3>2
  <2>3. Len(todo') + Len(s) <= Len(stack') /\ Len(todo') = (Len(i) - 0) + (Len(f) - 0)
    BY <1>1, <1>4, <1>7, <1>8
  <2>4. Len(<< >>) = 0
    OBVIOUS
  <2>5. /\ \A j \in 1..Len(i) - 0 : todo'[j] = i[0 + j]
        /\ \A j \in 1..Len(f) - 0 : todo'[(Len(i) - 0) + j] = f[0 + j]
    BY <1>7, <1>8
  <2>6. QED
    BY <1>1, <1>7, <2>1, <2>2, <2>3, <2>4, <2>5 DEF PopState
<1>11. Popped'
  BY <1>1, <1>5, <1>10 DEF Popped, i, f, s
<1>12. Classified' /\ Pushed' /\ Handed'
  BY <1>1 DEF CallInv, Classified, Pushed, Handed
<1>13. NoneYet' /\ Counted'
  BY <1>1 DEF CallInv, NoneYet, Counted, StartPop
<1>14. QED
  BY <1>6, <1>11, <1>12, <1>13 DEF CallInv


\* The same when one more has been popped.
PoppedOne(q, i, f, s, t, w, x, y) ==
  LET r == Tail(t)
      v == SubSeq(w, 1, Len(w) - 1)
      l == w[Len(w)]
  IN  /\ Len(w) \in Nat /\ Len(w) > 0
      /\ \/ t[1].kind = "int" /\ PopState(q, i, f, s, r, v, Append(x, l), y)
         \/ t[1].kind = "flt" /\ PopState(q, i, f, s, r, v, x, Append(y, l))

\* Taking the top word off keeps PopState.
LEMMA PopOne ==
  ASSUME NEW q, NEW i \in Seq(Slot), NEW f \in Seq(Slot), NEW s \in Seq(Slot), NEW t \in Seq(Slot),
         NEW w \in Seq(Words), NEW x \in Seq(Words), NEW y \in Seq(Words),
         PopState(q, i, f, s, t, w, x, y), t # << >>,
         \A j \in 1..Len(i) : i[j].kind = "int",
         \A j \in 1..Len(f) : f[j].kind = "flt"
  PROVE  PoppedOne(q, i, f, s, t, w, x, y)
<1> DEFINE l == w[Len(w)]
           v == SubSeq(w, 1, Len(w) - 1)
           u == Tail(t)
           n == Len(x)
           m == Len(y)
           d == Len(w)
           r == Len(t)
           a == Len(i) - n
           b == Len(f) - m
           c == Len(s)
<1>1. /\ n <= Len(i) /\ m <= Len(f) /\ (m > 0 => n = Len(i))
      /\ r = a + b /\ r + c <= d
      /\ \A j \in 1..a : t[j] = i[n + j]
      /\ \A j \in 1..b : t[a + j] = f[m + j]
      /\ \A j \in 1..n : x[j] = WordFrom(q, i[j])
      /\ \A j \in 1..m : y[j] = WordFrom(q, f[j])
      /\ \A j \in 1..r : w[d + 1 - j] = WordFrom(q, t[j])
      /\ \A j \in 1..c : w[d + 1 - (r + j)] = WordFrom(q, s[j])
  BY DEF PopState
<1>2. /\ n \in Nat /\ m \in Nat /\ Len(i) \in Nat /\ Len(f) \in Nat /\ c \in Nat /\ d \in Nat
      /\ r \in Nat /\ r > 0 /\ Len(u) = r - 1 /\ \A j \in 1..r - 1 : u[j] = t[j + 1]
  OBVIOUS
<1>3. d > 0
  BY <1>1, <1>2
<1>4. l \in Words /\ Len(v) = d - 1 /\ \A j \in 1..d - 1 : v[j] = w[j]
  <2>1. l \in Words
    BY <1>3
  <2> DEFINE k == d - 1
  <2>2. k \in Nat /\ \A j \in 1..k : w[j] \in Words
    BY <1>2, <1>3
  <2> HIDE DEF k
  <2>3. /\ Len(SubSeq(w, 1, k)) = IF 1 <= k THEN k - 1 + 1 ELSE 0
        /\ \A j \in 1..k - 1 + 1 : SubSeq(w, 1, k)[j] = w[1 + j - 1]
    BY <2>2, SubSeqProperties
  <2>4. k - 1 + 1 = k /\ (IF 1 <= k THEN k - 1 + 1 ELSE 0) = k /\ \A j \in 1..k : 1 + j - 1 = j
    BY <2>2
  <2>5. Len(SubSeq(w, 1, k)) = k /\ \A j \in 1..k : SubSeq(w, 1, k)[j] = w[j]
    BY <2>3, <2>4
  <2>6. QED
    BY <2>1, <2>5 DEF k
<1>5. /\ Len(Append(x, l)) = n + 1 /\ Append(x, l)[n + 1] = l
      /\ \A j \in 1..n : Append(x, l)[j] = x[j]
      /\ Len(Append(y, l)) = m + 1 /\ Append(y, l)[m + 1] = l
      /\ \A j \in 1..m : Append(y, l)[j] = y[j]
  BY <1>4
<1> DEFINE xl == Append(x, l)
           yl == Append(y, l)
<1>6. /\ n \in Nat /\ m \in Nat /\ a \in Nat /\ b \in Nat /\ c \in Nat /\ d \in Nat /\ r \in Nat
      /\ Len(i) = n + a /\ Len(f) = m + b /\ r = a + b /\ r + c <= d /\ (m > 0 => a = 0)
      /\ r > 0 /\ Len(u) = r - 1 /\ Len(i) \in Nat /\ Len(f) \in Nat
  <2>1. n <= Len(i) /\ m <= Len(f) /\ (m > 0 => n = Len(i)) /\ r = a + b /\ r + c <= d
    BY <1>1
  <2>2. a \in Nat /\ b \in Nat /\ Len(i) = n + a /\ Len(f) = m + b
    BY <1>2, <2>1
  <2>3. QED
    BY <1>2, <2>1, <2>2
<1> HIDE DEF l, v, u, n, m, d, r, a, b, c, xl, yl
<1>7. l = WordFrom(q, t[1])
  <2>1. 1 \in 1..r /\ d + 1 - 1 = d
    BY <1>6
  <2>2. QED
    BY <1>1, <2>1 DEF l, d
<1>8. \A j \in 1..r - 1 : v[d - j] = WordFrom(q, u[j])
  <2>1. ASSUME NEW j \in 1..r - 1 PROVE v[d - j] = WordFrom(q, u[j])
    <3>1. j + 1 \in 1..r /\ d + 1 - (j + 1) = d - j /\ d - j \in 1..d - 1
      <4>1. d \in Nat /\ r \in Nat /\ c \in Nat /\ r + c <= d
        BY <1>6
      <4>2. QED
        BY <4>1
    <3>2. w[d + 1 - (j + 1)] = WordFrom(q, t[j + 1])
      BY <1>1, <3>1
    <3>3. v[d - j] = w[d - j] /\ u[j] = t[j + 1]
      BY <1>2, <1>4, <3>1
    <3>4. QED
      BY <3>1, <3>2, <3>3
  <2>2. QED
    BY <2>1
<1>9. \A j \in 1..c : v[d - ((r - 1) + j)] = WordFrom(q, s[j])
  <2>1. ASSUME NEW j \in 1..c PROVE v[d - ((r - 1) + j)] = WordFrom(q, s[j])
    <3>1. d + 1 - (r + j) = d - ((r - 1) + j) /\ d - ((r - 1) + j) \in 1..d - 1
      BY <1>6
    <3>2. w[d + 1 - (r + j)] = WordFrom(q, s[j])
      BY <1>1
    <3>3. v[d - ((r - 1) + j)] = w[d - ((r - 1) + j)]
      BY <1>4, <3>1
    <3>4. QED
      BY <3>1, <3>2, <3>3
  <2>2. QED
    BY <2>1
<1>10. /\ Len(u) + c <= Len(v)
       /\ \A j \in 1..Len(u) : v[Len(v) + 1 - j] = WordFrom(q, u[j])
       /\ \A j \in 1..c : v[Len(v) + 1 - (Len(u) + j)] = WordFrom(q, s[j])
  <2>1. Len(u) + c <= Len(v)
    BY <1>4, <1>6
  <2>2. \A j \in 1..r - 1 : Len(v) + 1 - j = d - j
    BY <1>2, <1>4
  <2>3. \A j \in 1..c : Len(v) + 1 - (Len(u) + j) = d - ((r - 1) + j)
    BY <1>2, <1>4
  <2>4. QED
    BY <1>2, <1>8, <1>9, <2>1, <2>2, <2>3
<1>11. CASE n < Len(i)
  <2>1. 1 \in 1..a /\ n + 1 \in 1..Len(i) /\ m = 0
    BY <1>1, <1>2, <1>6, <1>11
  <2>2. t[1] = i[n + 1] /\ t[1].kind = "int"
    BY <1>1, <2>1
  <2>3. \A j \in 1..n + 1 : xl[j] = WordFrom(q, i[j])
    <3>1. ASSUME NEW j \in 1..n + 1, j # n + 1 PROVE j \in 1..n
      BY <1>2, <3>1
    <3>2. QED
      BY <1>1, <1>5, <1>7, <2>2, <3>1 DEF xl
  <2>4. \A j \in 1..Len(i) - (n + 1) : u[j] = i[(n + 1) + j]
    <3>1. ASSUME NEW j \in 1..Len(i) - (n + 1) PROVE u[j] = i[(n + 1) + j]
      <4>1. j \in 1..r - 1 /\ j + 1 \in 1..a /\ n + (j + 1) = (n + 1) + j
        BY <1>1, <1>2, <1>6
      <4>2. QED
        BY <1>1, <1>2, <4>1
    <3>2. QED
      BY <3>1
  <2>5. \A j \in 1..b : u[(Len(i) - (n + 1)) + j] = f[m + j]
    <3>1. ASSUME NEW j \in 1..b PROVE u[(Len(i) - (n + 1)) + j] = f[m + j]
      <4> DEFINE k == (Len(i) - (n + 1)) + j
      <4>1. k \in 1..r - 1 /\ k + 1 = a + j
        BY <1>1, <1>2, <1>6, <2>1
      <4> HIDE DEF k
      <4>2. u[k] = t[a + j]
        BY <1>2, <4>1
      <4>3. QED
        BY <1>1, <4>2 DEF k
    <3>2. QED
      BY <3>1
  <2>6. Len(u) = (Len(i) - (n + 1)) + b /\ n + 1 <= Len(i) /\ (m > 0 => n + 1 = Len(i))
    BY <1>6, <2>1
  <2>7. Len(xl) = n + 1 /\ b = Len(f) - m
    <3>1. b = Len(f) - m
      BY <1>6
    <3>2. QED
      BY <1>5, <3>1 DEF xl
  <2>8. PopState(q, i, f, s, u, v, xl, y)
    BY <1>1, <1>10, <2>3, <2>4, <2>5, <2>6, <2>7 DEF PopState, m, c
  <2>9. PopState(q, i, f, s, Tail(t), SubSeq(w, 1, Len(w) - 1), Append(x, w[Len(w)]), y)
    BY <2>8 DEF l, v, u, xl, d
  <2>10. Len(w) \in Nat /\ Len(w) > 0
    BY <1>3, <1>6 DEF d
  <2>11. QED
    BY <2>2, <2>9, <2>10, Zenon DEF PoppedOne
<1>12. CASE n = Len(i)
  <2> DEFINE g == Len(f)
  <2> HIDE DEF g
  <2>0. /\ m \in Nat /\ a \in Nat /\ b \in Nat /\ r \in Nat /\ g \in Nat /\ n \in Nat
        /\ n = n + a /\ g = m + b /\ r = a + b /\ r > 0 /\ Len(u) = r - 1
    BY <1>6, <1>12 DEF g
  <2>1. a = 0 /\ 1 \in 1..b /\ a + 1 = 1 /\ m + 1 \in 1..Len(f)
    <3>1. a = 0 /\ 1 \in 1..b /\ a + 1 = 1 /\ m + 1 \in 1..g
      BY <2>0
    <3>2. QED
      BY <3>1 DEF g
  <2>2. t[1] = f[m + 1] /\ t[1].kind = "flt"
    BY <1>1, <2>1
  <2>3. \A j \in 1..m + 1 : yl[j] = WordFrom(q, f[j])
    <3>1. ASSUME NEW j \in 1..m + 1, j # m + 1 PROVE j \in 1..m
      BY <1>2, <3>1
    <3>2. QED
      BY <1>1, <1>5, <1>7, <2>2, <3>1 DEF yl
  <2>4. \A j \in 1..a : u[j] = i[n + j]
    BY <2>1
  <2>5. \A j \in 1..Len(f) - (m + 1) : u[a + j] = f[(m + 1) + j]
    <3>1. ASSUME NEW j \in 1..Len(f) - (m + 1) PROVE u[a + j] = f[(m + 1) + j]
      <4>1. a + j \in 1..r - 1 /\ j + 1 \in 1..b /\ (a + j) + 1 = a + (j + 1) /\ m + (j + 1) = (m + 1) + j
        BY <1>6, <2>1
      <4>2. u[a + j] = t[(a + j) + 1]
        BY <1>2, <4>1
      <4>3. t[a + (j + 1)] = f[m + (j + 1)]
        BY <1>1, <4>1
      <4>4. QED
        BY <4>1, <4>2, <4>3
    <3>2. QED
      BY <3>1
  <2>6. Len(u) = a + (Len(f) - (m + 1)) /\ m + 1 <= Len(f)
    <3>1. r - 1 = a + (g - (m + 1)) /\ m + 1 <= g
      BY <2>0
    <3>2. QED
      BY <2>0, <3>1 DEF g
  <2>7. Len(yl) = m + 1 /\ a = Len(i) - n
    <3>1. a = Len(i) - n
      BY <1>6
    <3>2. QED
      BY <1>5, <3>1 DEF yl
  <2>8. PopState(q, i, f, s, u, v, x, yl)
    BY <1>1, <1>10, <1>12, <2>3, <2>4, <2>5, <2>6, <2>7 DEF PopState, n, c
  <2>9. PopState(q, i, f, s, Tail(t), SubSeq(w, 1, Len(w) - 1), x, Append(y, w[Len(w)]))
    BY <2>8 DEF l, v, u, yl, d
  <2>10. Len(w) \in Nat /\ Len(w) > 0
    BY <1>3, <1>6 DEF d
  <2>11. QED
    BY <2>2, <2>9, <2>10, Zenon DEF PoppedOne
<1>13. QED
  BY <1>1, <1>2, <1>11, <1>12

LEMMA PopSlotStep ==
  ASSUME CallInv, PopSlot
  PROVE  CallInv'
<1> DEFINE i == Of("int", slots)
           f == Of("flt", slots)
           s == Of("stk", slots)
           x == regs["int"]
           y == regs["flt"]
           l == stack[Len(stack)]
           v == SubSeq(stack, 1, Len(stack) - 1)
<1>1. /\ phase = "pop" /\ phase' = "pop" /\ sig' = sig /\ slots' = slots /\ todo # << >>
      /\ todo' = Tail(todo) /\ stack' = Front(stack)
      /\ regs' = [regs EXCEPT ![Head(todo).kind] = Append(@, Last(stack))]
  BY DEF PopSlot
<1>2. /\ todo \in Seq(Slot) /\ slots \in Seq(Slot) /\ stack \in Seq(Words)
      /\ regs \in [{"int", "flt"} -> Seq(Words)] /\ x \in Seq(Words) /\ y \in Seq(Words)
  BY DEF CallInv, CallTypes
<1>3. /\ i \in Seq(Slot) /\ f \in Seq(Slot) /\ s \in Seq(Slot)
      /\ \A j \in 1..Len(i) : i[j].kind = "int"
      /\ \A j \in 1..Len(f) : f[j].kind = "flt"
  BY <1>2, OrderFacts
<1>4. PopState(sig, i, f, s, todo, stack, x, y)
  BY <1>1 DEF CallInv, Popped
<1>5. Head(todo) = todo[1] /\ Tail(todo) \in Seq(Slot) /\ Last(stack) = l /\ Front(stack) = v
  BY <1>1, <1>2 DEF Last, Front
<1> HIDE DEF i, f, s
<1>6. /\ Len(stack) \in Nat /\ Len(stack) > 0
      /\ \/ todo[1].kind = "int" /\ PopState(sig, i, f, s, Tail(todo), v, Append(x, l), y)
         \/ todo[1].kind = "flt" /\ PopState(sig, i, f, s, Tail(todo), v, x, Append(y, l))
  <2> DEFINE t == todo
             w == stack
             q == sig
  <2>1. t \in Seq(Slot) /\ t # << >> /\ w \in Seq(Words) /\ x \in Seq(Words) /\ y \in Seq(Words)
    BY <1>1, <1>2
  <2>2. PopState(q, i, f, s, t, w, x, y)
    BY <1>4
  <2> HIDE DEF t, w, q, x, y
  <2>3. PoppedOne(q, i, f, s, t, w, x, y)
    BY <1>3, <2>1, <2>2, PopOne
  <2>4. QED
    BY <2>3 DEF PoppedOne, t, w, q, x, y
<1>7. l \in Words /\ v \in Seq(Words)
  BY <1>2, <1>6
<1>8. PopState(sig, i, f, s, todo', stack', regs'["int"], regs'["flt"]) /\ regs' \in [{"int", "flt"} -> Seq(Words)]
  <2>1. CASE todo[1].kind = "int" /\ PopState(sig, i, f, s, Tail(todo), v, Append(x, l), y)
    <3>1. regs'["int"] = Append(x, l) /\ regs'["flt"] = y /\ regs' \in [{"int", "flt"} -> Seq(Words)]
      BY <1>1, <1>2, <1>5, <1>7, <2>1
    <3>2. QED
      BY <1>1, <1>5, <2>1, <3>1
  <2>2. CASE todo[1].kind = "flt" /\ PopState(sig, i, f, s, Tail(todo), v, x, Append(y, l))
    <3>1. regs' = [regs EXCEPT !["flt"] = Append(y, l)] /\ Append(y, l) \in Seq(Words)
      <4>1. Head(todo).kind = "flt" /\ Last(stack) = l
        BY <1>5, <2>2
      <4>2. regs' = [regs EXCEPT !["flt"] = Append(y, l)]
        BY <1>1, <4>1
      <4>3. QED
        BY <1>2, <1>7, <4>2
    <3>2. regs'["int"] = x /\ regs'["flt"] = Append(y, l) /\ regs' \in [{"int", "flt"} -> Seq(Words)]
      BY <1>2, <3>1
    <3>3. QED
      BY <1>1, <1>5, <2>2, <3>2
  <2>3. QED
    BY <1>6, <2>1, <2>2
<1>9. Popped'
  BY <1>1, <1>8 DEF Popped, i, f, s
<1>10. CallTypes'
  BY <1>1, <1>5, <1>7, <1>8 DEF CallInv, CallTypes, PopSlot
<1>11. Classified' /\ Pushed' /\ NoneYet' /\ Handed'
  BY <1>1 DEF CallInv, Classified, Pushed, NoneYet, Handed
<1>12. Counted'
  BY <1>1 DEF CallInv, Counted, PopSlot
<1>13. QED
  BY <1>9, <1>10, <1>11, <1>12 DEF CallInv

\* What is in the registers and on the stack when the callee starts.
LEMMA AllPopped ==
  ASSUME CallInv, phase = "pop", todo = << >>
  PROVE  /\ Fills(regs["int"], sig, Of("int", slots))
         /\ Fills(regs["flt"], sig, Of("flt", slots))
         /\ OnTop(stack, sig, Of("stk", slots))
<1> DEFINE i == Of("int", slots)
           f == Of("flt", slots)
           s == Of("stk", slots)
           x == regs["int"]
           y == regs["flt"]
<1>1. /\ slots \in Seq(Slot) /\ stack \in Seq(Words) /\ x \in Seq(Words) /\ y \in Seq(Words)
  BY DEF CallInv, CallTypes
<1>2. i \in Seq(Slot) /\ f \in Seq(Slot) /\ s \in Seq(Slot)
  BY <1>1, OrderFacts
<1>3. PopState(sig, i, f, s, todo, stack, x, y)
  BY DEF CallInv, Popped
<1> HIDE DEF i, f, s, x, y
<1>4. /\ Len(x) \in Nat /\ Len(y) \in Nat /\ Len(i) \in Nat /\ Len(f) \in Nat /\ Len(s) \in Nat
      /\ Len(stack) \in Nat /\ Len(todo) = 0
  BY <1>1, <1>2
<1>5. /\ Len(x) <= Len(i) /\ Len(y) <= Len(f)
      /\ Len(todo) = (Len(i) - Len(x)) + (Len(f) - Len(y))
      /\ \A j \in 1..Len(x) : x[j] = WordFrom(sig, i[j])
      /\ \A j \in 1..Len(y) : y[j] = WordFrom(sig, f[j])
      /\ Len(todo) + Len(s) <= Len(stack)
      /\ \A j \in 1..Len(s) : stack[Len(stack) + 1 - (Len(todo) + j)] = WordFrom(sig, s[j])
  BY <1>3 DEF PopState
<1>6. Len(x) = Len(i) /\ Len(y) = Len(f)
  BY <1>4, <1>5
<1>7. Fills(x, sig, i) /\ Fills(y, sig, f)
  BY <1>5, <1>6 DEF Fills
<1>8. \A j \in 1..Len(s) : Len(stack) + 1 - (Len(todo) + j) = Len(stack) + 1 - j
  BY <1>4
<1>9. OnTop(stack, sig, s)
  BY <1>4, <1>5, <1>8 DEF OnTop
<1>10. QED
  BY <1>7, <1>9 DEF i, f, s, x, y

LEMMA EnterStep ==
  ASSUME CallInv, Enter
  PROVE  CallInv'
<1>1. /\ phase = "pop" /\ phase' = "bind" /\ todo = << >> /\ sig' = sig /\ slots' = slots
      /\ stack' = stack /\ regs' = regs /\ ints' = 0 /\ flts' = 0 /\ variadic' = variadic
      /\ arg' = IF variadic THEN Len(sig) + 1 ELSE 1
  BY DEF Enter
<1>2. Handed'
  BY <1>1, AllPopped DEF Handed
<1>3. Len(sig) \in Nat /\ sig \in Seq(ArgTypes) /\ DOMAIN sig = 1..Len(sig) /\ variadic \in BOOLEAN
  BY SigFacts DEF CallInv, CallTypes
<1>4. place' = (IF variadic THEN [p \in 1..Len(sig) |-> -p * Word] ELSE << >>) /\ next' \in Nat
  BY <1>1, <1>3, NumbersAssumption DEF CallInv, Counted, CallTypes, Enter, Word
<1>5. place' \in Seq(Int) /\ Len(place') = arg' - 1 /\ arg' \in 1..Len(sig) + 1
  <2>1. CASE variadic
    <3>1. \A p \in 1..Len(sig) : -p * Word \in Int
      BY DEF Word
    <3>2. [p \in 1..Len(sig) |-> -p * Word] \in [1..Len(sig) -> Int]
      BY <3>1
    <3>3. QED
      BY <1>1, <1>3, <1>4, <2>1, <3>2
  <2>2. CASE ~variadic
    BY <1>1, <1>3, <1>4, <2>2
  <2>3. QED
    BY <2>1, <2>2
<1>6. ~variadic => /\ Count("int", Before') = AtMost(ints', NInt)
                   /\ Count("flt", Before') = AtMost(flts', NFlt)
  <2>1. ASSUME ~variadic PROVE Before' = << >>
    <3>1. Before' = SlotsTo(sig)[0]
      BY <1>1, <2>1 DEF Before
    <3>2. 0 \in 0..Len(sig)
      BY <1>3
    <3>3. QED
      BY <1>3, <3>1, <3>2, SlotsType
  <2>2. AtMost(0, NInt) = 0 /\ AtMost(0, NFlt) = 0
    BY NumbersAssumption DEF AtMost
  <2>3. QED
    BY <1>1, <2>1, <2>2, OfEmpty
<1>7. CallTypes'
  BY <1>1, <1>3, <1>4, <1>5 DEF CallInv, CallTypes, Enter
<1>8. Counted'
  BY <1>1, <1>3, <1>5, <1>6 DEF Counted
<1>9. Classified' /\ Pushed' /\ NoneYet' /\ Popped'
  BY <1>1 DEF CallInv, Classified, Pushed, NoneYet, Popped
<1>10. QED
  BY <1>2, <1>7, <1>8, <1>9 DEF CallInv


(***************************************************************************)
(* The callee's steps.                                                     *)
(***************************************************************************)
\* A register is found free from the number of those taken as from that of the
\* arguments that wanted one.
Taken(c, i, f, k) ==
  /\ KindOf(c, AtMost(i, NInt), AtMost(f, NFlt)) = k
  /\ k \in {"int", "flt", "stk"} /\ k \in {c, "stk"}
  /\ AtMost(i, NInt) \in Nat /\ AtMost(f, NFlt) \in Nat
  /\ AtMost(i + One(k = "int"), NInt) = AtMost(i, NInt) + One(k = "int")
  /\ AtMost(f + One(k = "flt"), NFlt) = AtMost(f, NFlt) + One(k = "flt")
  /\ k = "stk" => /\ AtMost(i + One(c = "int"), NInt) = AtMost(i, NInt)
                  /\ AtMost(f + One(c = "flt"), NFlt) = AtMost(f, NFlt)

\* The two ways to count agree after a word as before it.
LEMMA TakeOne ==
  ASSUME NEW c \in {"int", "flt", "stk"}, NEW i \in Nat, NEW f \in Nat
  PROVE  Taken(c, i, f, KindOf(c, i, f))
<1>1. NInt \in Nat \ {0} /\ NFlt \in Nat \ {0}
  BY NumbersAssumption
<1>2. CASE c = "int"
  BY <1>1, <1>2 DEF Taken, KindOf, AtMost, One
<1>3. CASE c = "flt"
  BY <1>1, <1>3 DEF Taken, KindOf, AtMost, One
<1>4. CASE c = "stk"
  BY <1>1, <1>4 DEF Taken, KindOf, AtMost, One
<1>5. QED
  BY <1>2, <1>3, <1>4

Second(t, n, f) == IF Len(Classes(t)) = 2 THEN Second1(t, n, f) ELSE "stk"

\* The slots that the caller has made of a parameter are the registers that the
\* callee takes it from.
SameSlots(a, t, b, new, k, l) ==
  /\ new = b \o Made(a, t, k, l)
  /\ \A kind \in {"int", "flt"} :
       Count(kind, new) = Count(kind, b) + One(k = kind) + One(l = kind)
  /\ Count("stk", new) = Count("stk", b) + One(k = "stk")
                         + (IF Len(Classes(t)) = 2 THEN One(l = "stk") ELSE 0)
  /\ AtMost(ints + One(k = "int") + One(l = "int"), NInt) = Count("int", new)
  /\ AtMost(flts + One(k = "flt") + One(l = "flt"), NFlt) = Count("flt", new)

\* What is known where a parameter is bound.
LEMMA BindFacts ==
  ASSUME CallInv, phase = "bind", arg <= Len(sig)
  PROVE  /\ ~variadic /\ arg \in 1..Len(sig) /\ Len(sig) \in Nat /\ sig[arg] \in ArgTypes
         /\ Before \in Seq(Slot) /\ SlotsTo(sig)[arg] \in Seq(Slot)
         /\ Count("int", Before) = AtMost(ints, NInt) /\ Count("flt", Before) = AtMost(flts, NFlt)
         /\ First1(sig[arg], ints, flts) \in {"int", "flt", "stk"}
         /\ Second(sig[arg], ints, flts) \in {"int", "flt", "stk"}
         /\ SameSlots(arg, sig[arg], Before, SlotsTo(sig)[arg],
                      First1(sig[arg], ints, flts), Second(sig[arg], ints, flts))
<1> DEFINE t   == sig[arg]
           b   == Before
           new == SlotsTo(sig)[arg]
           cs  == Classes(t)
           n   == AtMost(ints, NInt)
           m   == AtMost(flts, NFlt)
           k   == First1(t, ints, flts)
           l   == Second(t, ints, flts)
<1>1. /\ sig \in Seq(ArgTypes) /\ Len(sig) \in Nat /\ ints \in Nat /\ flts \in Nat
      /\ ~variadic /\ arg \in 1..Len(sig) /\ t \in ArgTypes
      /\ Count("int", b) = n /\ Count("flt", b) = m
  <2>1. sig \in Seq(ArgTypes) /\ Len(sig) \in Nat /\ ints \in Nat /\ flts \in Nat /\ arg \in Nat \ {0}
    BY SigFacts DEF CallInv, CallTypes
  <2>2. variadic => arg = Len(sig) + 1
    BY DEF CallInv, Counted
  <2>3. ~variadic /\ arg \in 1..Len(sig)
    BY <2>1, <2>2
  <2>4. Count("int", b) = n /\ Count("flt", b) = m
    BY <2>3 DEF CallInv, Counted
  <2>5. QED
    BY <2>1, <2>3, <2>4
<1>2. b \in Seq(Slot) /\ new \in Seq(Slot) /\ new = b \o SlotsOf(arg, t, n, m)
  <2>1. arg \in 0..Len(sig) /\ arg > 0
    BY <1>1
  <2>2. QED
    BY <1>1, <2>1, SlotsType DEF Before
<1> HIDE DEF t, b, new, n, m
<1>3. Len(cs) \in {1, 2} /\ cs[1] \in {"int", "flt", "stk"} /\ (Len(cs) = 2 => cs[2] \in {"int", "flt", "stk"})
  <2>1. Len(cs) \in {1, 2} /\ \A c \in 1..Len(cs) : cs[c] \in {"int", "flt", "stk"}
    BY <1>1, ClassesAre
  <2> HIDE DEF cs
  <2>2. 1 \in 1..Len(cs) /\ (Len(cs) = 2 => 2 \in 1..Len(cs))
    BY <2>1
  <2>3. QED
    BY <2>1, <2>2
<1>4. /\ First1(t, n, m) = k /\ k \in {"int", "flt", "stk"} /\ n \in Nat /\ m \in Nat
      /\ AtMost(ints + One(k = "int"), NInt) = n + One(k = "int")
      /\ AtMost(flts + One(k = "flt"), NFlt) = m + One(k = "flt")
  <2>1. Taken(cs[1], ints, flts, KindOf(cs[1], ints, flts))
    BY <1>1, <1>3, TakeOne
  <2>2. First1(t, n, m) = KindOf(cs[1], n, m) /\ k = KindOf(cs[1], ints, flts)
    BY DEF First1
  <2> HIDE DEF k, cs
  <2>3. QED
    BY <2>1, <2>2 DEF Taken, n, m
<1> HIDE DEF k
<1> DEFINE i1 == ints + One(k = "int")
           f1 == flts + One(k = "flt")
           l2 == KindOf(cs[2], i1, f1)
<1>5. i1 \in Nat /\ f1 \in Nat
  BY <1>1 DEF One
<1>6. CASE Len(cs) = 2
  <2> HIDE DEF i1, f1, cs
  <2>1. /\ KindOf(cs[2], AtMost(i1, NInt), AtMost(f1, NFlt)) = l2 /\ l2 \in {"int", "flt", "stk"}
        /\ AtMost(i1 + One(l2 = "int"), NInt) = AtMost(i1, NInt) + One(l2 = "int")
        /\ AtMost(f1 + One(l2 = "flt"), NFlt) = AtMost(f1, NFlt) + One(l2 = "flt")
    <3>1. Taken(cs[2], i1, f1, KindOf(cs[2], i1, f1))
      BY <1>3, <1>5, <1>6, TakeOne
    <3>2. QED
      BY <3>1 DEF Taken
  <2>2. l = l2 /\ Second1(t, n, m) = l2
    BY <1>4, <1>6, <2>1 DEF Second, Second1, i1, f1, k, cs
  <2>3. SlotsOf(arg, t, n, m) = Made(arg, t, k, l)
    <3>1. SlotsOf(arg, t, n, m) = Made(arg, t, First1(t, n, m), Second1(t, n, m))
      BY <1>1, <1>4, SlotsAre
    <3>2. QED
      BY <1>4, <2>2, <3>1
  <2> DEFINE x == [arg |-> arg, chunk |-> 0, kind |-> k]
             y == [arg |-> arg, chunk |-> 1, kind |-> l2]
  <2>4. x \in Slot /\ y \in Slot /\ <<x, y>> \in Seq(Slot)
    BY <1>1, <1>4, <2>1 DEF Slot
  <2>5. Made(arg, t, k, l) = <<x, y>>
    BY <1>6, <2>2 DEF Made, cs
  <2>6. x.kind = k /\ y.kind = l2
    OBVIOUS
  <2> HIDE DEF x, y, l2
  <2>7. ASSUME NEW kind \in {"int", "flt", "stk"}
        PROVE  Count(kind, new) = Count(kind, b) + One(k = kind) + One(l2 = kind)
    <3>1. Count(kind, b \o <<x, y>>) = Count(kind, b) + Count(kind, <<x, y>>)
      BY <1>2, <2>4, OfConcat
    <3>2. Count(kind, <<x, y>>) = One(k = kind) + One(l2 = kind)
      <4>1. Count(kind, <<x, y>>) = (IF x.kind = kind THEN 1 ELSE 0) + (IF y.kind = kind THEN 1 ELSE 0)
        BY <2>4, CountFew
      <4>2. QED
        BY <2>6, <4>1 DEF One
    <3>3. Count(kind, b) \in Nat /\ One(k = kind) \in Nat /\ One(l2 = kind) \in Nat
      BY <1>2, OfType DEF One
    <3>4. QED
      BY <1>2, <2>3, <2>5, <3>1, <3>2, <3>3
  <2>8. SameSlots(arg, t, b, new, k, l)
    <3>1. Count("stk", new) = Count("stk", b) + One(k = "stk") + (IF Len(Classes(t)) = 2 THEN One(l = "stk") ELSE 0)
      BY <1>6, <2>2, <2>7 DEF cs
    <3>2. QED
      BY <1>1, <1>2, <1>4, <2>1, <2>2, <2>3, <2>7, <3>1 DEF SameSlots, i1, f1
  <2>9. QED
    BY <1>1, <1>2, <1>4, <2>1, <2>2, <2>8 DEF t, b, new, n, m, k, l
<1>7. CASE Len(cs) = 1
  <2>1. l = "stk"
    BY <1>7 DEF Second
  <2> DEFINE x == [arg |-> arg, chunk |-> 0, kind |-> k]
  <2>2. x \in Slot /\ <<x>> \in Seq(Slot)
    BY <1>1, <1>4 DEF Slot
  <2>3. \A h : Made(arg, t, k, h) = <<x>>
    BY <1>7 DEF Made
  <2>4. SlotsOf(arg, t, n, m) = <<x>>
    <3>1. SlotsOf(arg, t, n, m) = Made(arg, t, First1(t, n, m), Second1(t, n, m))
      BY <1>1, <1>4, SlotsAre
    <3>2. QED
      BY <1>4, <2>3, <3>1
  <2>5. x.kind = k
    OBVIOUS
  <2> HIDE DEF x, l
  <2>6. ASSUME NEW kind \in {"int", "flt"}
        PROVE  Count(kind, new) = Count(kind, b) + One(k = kind) + One(l = kind)
    <3>1. Count(kind, b \o <<x>>) = Count(kind, b) + Count(kind, <<x>>)
      BY <1>2, <2>2, OfConcat
    <3>2. Count(kind, <<x>>) = One(k = kind)
      <4>1. Count(kind, <<x>>) = IF x.kind = kind THEN 1 ELSE 0
        BY <2>2, CountFew
      <4>2. QED
        BY <2>5, <4>1 DEF One
    <3>3. Count(kind, b) \in Nat /\ One(k = kind) \in Nat /\ One(l = kind) = 0
      BY <1>2, <2>1, OfType DEF One
    <3>4. QED
      BY <1>2, <2>4, <3>1, <3>2, <3>3
  <2>7. One(l = "int") = 0 /\ One(l = "flt") = 0
    BY <2>1 DEF One
  <2>8. SameSlots(arg, t, b, new, k, l)
    <3>1. /\ AtMost(i1 + One(l = "int"), NInt) = n + One(k = "int") + One(l = "int")
          /\ AtMost(f1 + One(l = "flt"), NFlt) = m + One(k = "flt") + One(l = "flt")
      <4>1. i1 + 0 = i1 /\ f1 + 0 = f1 /\ n + One(k = "int") + 0 = n + One(k = "int")
            /\ m + One(k = "flt") + 0 = m + One(k = "flt")
        BY <1>4, <1>5 DEF One
      <4>2. QED
        BY <1>4, <2>7, <4>1
    <3>2. Count("stk", new) = Count("stk", b) + One(k = "stk") + (IF Len(Classes(t)) = 2 THEN One(l = "stk") ELSE 0)
      <4>1. Count("stk", b \o <<x>>) = Count("stk", b) + Count("stk", <<x>>)
        BY <1>2, <2>2, OfConcat
      <4>2. Count("stk", <<x>>) = One(k = "stk")
        <5>1. Count("stk", <<x>>) = IF x.kind = "stk" THEN 1 ELSE 0
          BY <2>2, CountFew
        <5>2. QED
          BY <2>5, <5>1 DEF One
      <4>3. Count("stk", b) \in Nat /\ One(k = "stk") \in Nat
        BY <1>2, OfType DEF One
      <4>4. QED
        BY <1>2, <1>7, <2>4, <4>1, <4>2, <4>3
    <3>3. QED
      BY <1>1, <1>2, <2>3, <2>4, <2>6, <3>1, <3>2 DEF SameSlots
  <2>9. QED
    BY <1>1, <1>2, <1>4, <2>1, <2>8 DEF t, b, new, n, m, k, l
<1>8. QED
  BY <1>3, <1>6, <1>7

\* What every step that binds a parameter has to show.
LEMMA BoundStep ==
  ASSUME CallInv, phase = "bind", arg <= Len(sig), phase' = "bind",
         UNCHANGED <<sig, variadic, sides>>, arg' = arg + 1,
         NEW p \in Int, place' = Append(place, p),
         next' \in Nat, ints' \in Nat, flts' \in Nat,
         AtMost(ints', NInt) = Count("int", SlotsTo(sig)[arg]),
         AtMost(flts', NFlt) = Count("flt", SlotsTo(sig)[arg])
  PROVE  CallInv'
<1>1. ~variadic /\ arg \in 1..Len(sig) /\ Len(sig) \in Nat
  BY BindFacts
<1>2. Before' = SlotsTo(sig)[arg] /\ sig' = sig /\ variadic' = variadic
  BY <1>1 DEF Before
<1>3. /\ place \in Seq(Int) /\ Len(place) = arg - 1
  BY DEF CallInv, CallTypes, Counted
<1>4. place' \in Seq(Int) /\ Len(place') = Len(place) + 1
  BY <1>3
<1>5. CallTypes'
  BY <1>1, <1>4 DEF CallInv, CallTypes, sides
<1>6. Counted'
  BY <1>1, <1>2, <1>3, <1>4 DEF Counted
<1>7. Classified' /\ Handed'
  BY DEF CallInv, Classified, Handed, sides
<1>8. Pushed' /\ NoneYet' /\ Popped'
  BY DEF Pushed, NoneYet, Popped
<1>9. QED
  BY <1>5, <1>6, <1>7, <1>8 DEF CallInv


\* An object gets room of its own below the others.
LEMMA AllocFacts ==
  ASSUME NEW n \in Nat, NEW t \in ArgTypes
  PROVE  Alloc(n, t) \in Nat /\ Alloc(n, t) >= n + t.size
<1>1. t.size \in Nat /\ t.align \in Nat \ {0} /\ n + t.size \in Nat
  BY TypesAssumption
<1>2. QED
  BY <1>1, UpTo DEF Alloc

LEMMA CallNumbers ==
  ASSUME CallInv
  PROVE  next \in Nat /\ ints \in Nat /\ flts \in Nat /\ arg \in Nat \ {0}
  BY DEF CallInv, CallTypes

\* A scalar is one word of its own class.
LEMMA ScalarFacts ==
  ASSUME NEW t \in ArgTypes, t.kind # "struct", NEW n \in Nat, NEW f \in Nat
  PROVE  /\ t.kind \in {"int", "flt"} /\ t.size \in Nat /\ t.size > 0 /\ t.size <= Word
         /\ Len(Classes(t)) = 1 /\ ~Large(t)
         /\ First1(t, n, f) = KindOf(t.kind, n, f) /\ Second(t, n, f) = "stk"
<1>1. Classes(t) = <<t.kind>> /\ t.kind \in {"int", "flt"} /\ ~Large(t)
  BY ClassesAre DEF IsStruct, Large
<1>2. t.size \in Nat /\ t.size > 0 /\ t.size <= Word
  BY TypesAssumption DEF Word
<1>3. Len(Classes(t)) = 1 /\ Classes(t)[1] = t.kind
  BY <1>1
<1>4. QED
  BY <1>1, <1>2, <1>3 DEF First1, Second

LEMMA BindIntStep ==
  ASSUME CallInv, NEW t, BindInt(t)
  PROVE  CallInv'
<1>1. /\ phase = "bind" /\ phase' = "bind" /\ arg <= Len(sig) /\ t = sig[arg] /\ t.kind = "int"
      /\ ints < NInt /\ next' = Alloc(next, t) /\ place' = Append(place, -next')
      /\ ints' = ints + 1 /\ flts' = flts + 0 /\ arg' = arg + 1 /\ UNCHANGED <<sig, variadic, sides>>
  BY DEF BindInt, Binding, BindRegister, One
<1>2. /\ t \in ArgTypes /\ ints \in Nat /\ flts \in Nat /\ next \in Nat
      /\ SameSlots(arg, t, Before, SlotsTo(sig)[arg], First1(t, ints, flts), Second(t, ints, flts))
  BY <1>1, BindFacts, CallNumbers
<1>3. First1(t, ints, flts) = "int" /\ Second(t, ints, flts) = "stk"
  BY <1>1, <1>2, ScalarFacts, NumbersAssumption DEF KindOf
<1>4. /\ AtMost(ints', NInt) = Count("int", SlotsTo(sig)[arg])
      /\ AtMost(flts', NFlt) = Count("flt", SlotsTo(sig)[arg])
  BY <1>1, <1>2, <1>3 DEF SameSlots, One
<1>5. next' \in Nat /\ ints' \in Nat /\ flts' \in Nat
  <2>1. Alloc(next, t) \in Nat
    BY <1>2, AllocFacts
  <2>2. QED
    BY <1>1, <1>2, <2>1
<1>6. -next' \in Int
  BY <1>5
<1>7. QED
  BY <1>1, <1>4, <1>5, <1>6, BoundStep

LEMMA BindFltStep ==
  ASSUME CallInv, NEW t, BindFlt(t)
  PROVE  CallInv'
<1>1. /\ phase = "bind" /\ phase' = "bind" /\ arg <= Len(sig) /\ t = sig[arg] /\ t.kind = "flt"
      /\ flts < NFlt /\ next' = Alloc(next, t) /\ place' = Append(place, -next')
      /\ ints' = ints + 0 /\ flts' = flts + 1 /\ arg' = arg + 1 /\ UNCHANGED <<sig, variadic, sides>>
  BY DEF BindFlt, Binding, BindRegister, One
<1>2. /\ t \in ArgTypes /\ ints \in Nat /\ flts \in Nat /\ next \in Nat
      /\ SameSlots(arg, t, Before, SlotsTo(sig)[arg], First1(t, ints, flts), Second(t, ints, flts))
  BY <1>1, BindFacts, CallNumbers
<1>3. First1(t, ints, flts) = "flt" /\ Second(t, ints, flts) = "stk"
  BY <1>1, <1>2, ScalarFacts, NumbersAssumption DEF KindOf
<1>4. /\ AtMost(ints', NInt) = Count("int", SlotsTo(sig)[arg])
      /\ AtMost(flts', NFlt) = Count("flt", SlotsTo(sig)[arg])
  BY <1>1, <1>2, <1>3 DEF SameSlots, One
<1>5. next' \in Nat /\ ints' \in Nat /\ flts' \in Nat
  <2>1. Alloc(next, t) \in Nat
    BY <1>2, AllocFacts
  <2>2. QED
    BY <1>1, <1>2, <2>1
<1>6. -next' \in Int
  BY <1>5
<1>7. QED
  BY <1>1, <1>4, <1>5, <1>6, BoundStep

LEMMA BindStackStep ==
  ASSUME CallInv, NEW t, BindStack(t)
  PROVE  CallInv'
<1>1. /\ phase = "bind" /\ phase' = "bind" /\ arg <= Len(sig) /\ t = sig[arg]
      /\ (t.kind = "int" /\ ints >= NInt) \/ (t.kind = "flt" /\ flts >= NFlt)
      /\ place' = Append(place, (2 + StackIndex(t)) * Word) /\ next' = next
      /\ ints' = ints + One(t.kind = "int") /\ flts' = flts + One(t.kind = "flt")
      /\ arg' = arg + 1 /\ UNCHANGED <<sig, variadic, sides>>
  BY DEF BindStack, Binding
<1>2. /\ t \in ArgTypes /\ ints \in Nat /\ flts \in Nat /\ next \in Nat
      /\ Count("int", Before) = AtMost(ints, NInt) /\ Count("flt", Before) = AtMost(flts, NFlt)
      /\ SameSlots(arg, t, Before, SlotsTo(sig)[arg], First1(t, ints, flts), Second(t, ints, flts))
  BY <1>1, BindFacts, CallNumbers
<1>3. NInt \in Nat /\ NFlt \in Nat
  BY NumbersAssumption
<1>4. First1(t, ints, flts) = "stk" /\ Second(t, ints, flts) = "stk"
  <2>1. First1(t, ints, flts) = KindOf(t.kind, ints, flts) /\ Second(t, ints, flts) = "stk"
    BY <1>1, <1>2, ScalarFacts
  <2>2. KindOf(t.kind, ints, flts) = "stk"
    BY <1>1, <1>2, <1>3 DEF KindOf
  <2>3. QED
    BY <2>1, <2>2
<1>5. /\ Count("int", SlotsTo(sig)[arg]) = AtMost(ints, NInt)
      /\ Count("flt", SlotsTo(sig)[arg]) = AtMost(flts, NFlt)
  BY <1>2, <1>3, <1>4 DEF SameSlots, One, AtMost
<1>6. AtMost(ints', NInt) = AtMost(ints, NInt) /\ AtMost(flts', NFlt) = AtMost(flts, NFlt)
  BY <1>1, <1>2, <1>3 DEF AtMost, One
<1>7. next' \in Nat /\ ints' \in Nat /\ flts' \in Nat
  BY <1>1, <1>2 DEF One
<1>8. (2 + StackIndex(t)) * Word \in Int
  BY <1>2, <1>3 DEF StackIndex, Word
<1>9. QED
  BY <1>1, <1>5, <1>6, <1>7, <1>8, BoundStep

\* What binding a struct amounts to; a large one has no words in registers.
LEMMA StructBound ==
  ASSUME CallInv, NEW t, BindStruct(t)
  PROVE  LET k  == First1(t, ints, flts)
             l  == Second(t, ints, flts)
             i1 == ints + One(k = "int")
             f1 == flts + One(k = "flt")
             w1 == IF k = "stk" THEN Pad ELSE Reg(k, IF k = "int" THEN ints ELSE flts)
             w2 == IF l = "stk" THEN Pad ELSE Reg(l, IF l = "int" THEN i1 ELSE f1)
             h  == Write(frame, -next', w1, Word)
         IN  /\ phase = "bind" /\ phase' = "bind" /\ arg <= Len(sig) /\ t = sig[arg] /\ t.kind = "struct"
             /\ next' = Alloc(next, t) /\ place' = Append(place, -next')
             /\ arg' = arg + 1 /\ UNCHANGED <<sig, variadic, sides>>
             /\ ints' = i1 + One(l = "int") /\ flts' = f1 + One(l = "flt")
             /\ frame' = IF Large(t) THEN frame
                         ELSE IF Len(Classes(t)) = 2 THEN Write(h, -next' + Word, w2, Word) ELSE h
<1>1. /\ phase = "bind" /\ phase' = "bind" /\ arg <= Len(sig) /\ t = sig[arg] /\ t.kind = "struct"
      /\ next' = Alloc(next, t) /\ place' = Append(place, -next')
      /\ arg' = arg + 1 /\ UNCHANGED <<sig, variadic, sides>>
  BY DEF BindStruct, Binding, IsStruct
<1>2. t \in ArgTypes /\ ints \in Nat /\ flts \in Nat
  BY <1>1, BindFacts, CallNumbers
<1>3. CASE Large(t)
  <2>1. First1(t, ints, flts) = "stk" /\ Second(t, ints, flts) = "stk"
    BY <1>2, <1>3, ClassesAre DEF First1, Second, KindOf
  <2>2. ints' = ints /\ flts' = flts /\ frame' = frame
    BY <1>3 DEF BindStruct
  <2>3. QED
    BY <1>1, <1>2, <1>3, <2>1, <2>2 DEF One
<1>4. CASE ~Large(t)
  BY <1>1, <1>4 DEF BindStruct, First1, Second, Second1
<1>5. QED
  BY <1>3, <1>4

LEMMA BindStructStep ==
  ASSUME CallInv, NEW t, BindStruct(t)
  PROVE  CallInv'
<1> DEFINE k == First1(t, ints, flts)
           l == Second(t, ints, flts)
<1>1. /\ phase = "bind" /\ phase' = "bind" /\ arg <= Len(sig) /\ t = sig[arg]
      /\ next' = Alloc(next, t) /\ place' = Append(place, -next')
      /\ ints' = ints + One(k = "int") + One(l = "int") /\ flts' = flts + One(k = "flt") + One(l = "flt")
      /\ arg' = arg + 1 /\ UNCHANGED <<sig, variadic, sides>>
  BY StructBound
<1>2. /\ t \in ArgTypes /\ ints \in Nat /\ flts \in Nat /\ next \in Nat
      /\ SameSlots(arg, t, Before, SlotsTo(sig)[arg], k, l)
  BY <1>1, BindFacts, CallNumbers
<1> HIDE DEF k, l
<1>3. /\ AtMost(ints', NInt) = Count("int", SlotsTo(sig)[arg])
      /\ AtMost(flts', NFlt) = Count("flt", SlotsTo(sig)[arg])
  BY <1>1, <1>2 DEF SameSlots
<1>4. next' \in Nat /\ ints' \in Nat /\ flts' \in Nat
  <2>1. Alloc(next, t) \in Nat
    BY <1>2, AllocFacts
  <2>2. QED
    BY <1>1, <1>2, <2>1 DEF One
<1>5. -next' \in Int
  BY <1>4
<1>6. QED
  BY <1>1, <1>3, <1>4, <1>5, BoundStep

LEMMA BodyStep ==
  ASSUME CallInv, Body
  PROVE  CallInv'
<1>1. /\ phase = "bind" /\ phase' = "body" /\ arg > Len(sig) /\ arg' = arg /\ place' = place
      /\ UNCHANGED <<sig, variadic, ints, flts, sides>>
  BY DEF Body
<1>2. /\ arg \in 1..Len(sig) + 1 /\ Len(place) = arg - 1 /\ Len(sig) \in Nat
      /\ ~variadic => /\ Count("int", Before) = AtMost(ints, NInt)
                      /\ Count("flt", Before) = AtMost(flts, NFlt)
  BY <1>1, SigFacts DEF CallInv, Counted
<1>3. next' \in Nat
  <2>1. PICK n \in Locals : next' = AlignUp(next + n, Word)
    BY DEF Body
  <2>2. next + n \in Nat /\ Word \in Nat \ {0}
    BY NumbersAssumption, CallNumbers DEF Word
  <2>3. QED
    BY <2>1, <2>2, UpTo
<1>4. CallTypes'
  BY <1>1, <1>3 DEF CallInv, CallTypes, sides
<1>5. Counted'
  <2>1. Before' = Before /\ arg' = Len(sig) + 1
    BY <1>1, <1>2 DEF Before
  <2>2. QED
    BY <1>1, <1>2, <2>1 DEF Counted
<1>6. Classified' /\ Handed'
  BY <1>1 DEF CallInv, Classified, Handed, sides
<1>7. Pushed' /\ NoneYet' /\ Popped'
  BY <1>1 DEF Pushed, NoneYet, Popped
<1>8. QED
  BY <1>4, <1>5, <1>6, <1>7 DEF CallInv

LEMMA CallInvInit ==
  ASSUME CallInit
  PROVE  CallInv
<1>1. /\ sig \in Signatures /\ variadic \in BOOLEAN /\ Deviations(sig, variadic) \subseteq Admit
      /\ phase = "classify" /\ arg = 1 /\ ints = 0 /\ flts = 0 /\ slots = << >> /\ todo = << >>
      /\ stack = << >> /\ regs = [int |-> << >>, flt |-> << >>] /\ next = 0 /\ place = << >>
  BY DEF CallInit
<1>2. CallTypes
  <2>1. regs \in [{"int", "flt"} -> Seq(Words)]
    <3>1. \A e \in Seq(Words) : [int |-> e, flt |-> e] \in [{"int", "flt"} -> Seq(Words)]
      OBVIOUS
    <3>2. << >> \in Seq(Words)
      OBVIOUS
    <3>3. QED
      BY <1>1, <3>1, <3>2
  <2>2. QED
    BY <1>1, <2>1 DEF CallTypes
<1>3. Classified
  <2>1. sig \in Seq(ArgTypes) /\ Len(sig) \in Nat
    BY <1>2, SigFacts
  <2>2. 0 \in 0..Len(sig) /\ arg - 1 = 0
    BY <1>1, <2>1
  <2>3. Before = << >>
    <3>1. SlotsTo(sig)[0] = << >>
      BY <2>1, <2>2, SlotsType
    <3>2. QED
      BY <2>2, <3>1 DEF Before
  <2>4. QED
    BY <1>1, <2>1, <2>3, OfEmpty DEF Classified
<1>4. Pushed /\ Popped /\ Handed /\ NoneYet /\ Counted
  BY <1>1 DEF Pushed, Popped, Handed, NoneYet, Counted
<1>5. QED
  BY <1>2, <1>3, <1>4 DEF CallInv

LEMMA CallInvStep ==
  ASSUME CallInv, [CallNext]_callVars
  PROVE  CallInv'
<1>1. ASSUME Classify PROVE CallInv'
  BY <1>1, ClassifyStep
<1>2. ASSUME StartPush PROVE CallInv'
  BY <1>2, StartPushStep
<1>3. ASSUME PushSlot PROVE CallInv'
  BY <1>3, PushSlotStep
<1>4. ASSUME StartPop PROVE CallInv'
  BY <1>4, StartPopStep
<1>5. ASSUME PopSlot PROVE CallInv'
  BY <1>5, PopSlotStep
<1>6. ASSUME Enter PROVE CallInv'
  BY <1>6, EnterStep
<1>7. ASSUME Bind PROVE CallInv'
  BY <1>7, BindIntStep, BindFltStep, BindStackStep, BindStructStep DEF Bind
<1>8. ASSUME Body PROVE CallInv'
  BY <1>8, BodyStep
<1>9. ASSUME UNCHANGED callVars PROVE CallInv'
  BY <1>9 DEF callVars, sides, CallInv, CallTypes, Classified, Before, Pushed, NoneYet, Popped, Handed, Counted
<1>10. QED
  BY <1>1, <1>2, <1>3, <1>4, <1>5, <1>6, <1>7, <1>8, <1>9 DEF CallNext

\* Caller and callee agree: the words in the argument registers and on top of the
\* stack are those the slots say, and the callee has counted as many registers as
\* the caller has filled for the same parameters.
THEOREM CallAgreed == CallSpec => []CallInv
<1>1. CallInit => CallInv
  BY CallInvInit
<1>2. CallInv /\ [CallNext]_callVars => CallInv'
  BY CallInvStep
<1>3. QED
  BY <1>1, <1>2, PTL DEF CallSpec



(***************************************************************************)
(* The frame.                                                              *)
(***************************************************************************)
\* What the lack of a deviation means.
LEMMA Regular ==
  ASSUME NEW q, NEW v
  PROVE  LET all     == SlotsTo(q)[Len(q)]
             T(k)    == q[all[k].arg]
             Ints(k) == Count("int", SubSeq(all, 1, k - 1))
             D       == Deviations(q, v)
         IN  /\ "large" \notin D => \A k \in DOMAIN all : all[k].kind = "stk" => ~Large(T(k))
             /\ "spilled" \notin D =>
                  \A k \in DOMAIN all : all[k].kind = "stk" => ~IsStruct(T(k)) \/ Large(T(k))
             /\ "mixed" \notin D =>
                  \A j, k \in DOMAIN all :
                    all[j].kind = "stk" /\ all[k].kind = "stk" /\ j < k /\ T(j).kind = "flt" => ~(Ints(k) >= NInt)
             /\ "half" \notin D =>
                  \A k \in DOMAIN all : T(k).size % Word = 0 \/ (~IsStruct(T(k)) /\ all[k].kind # "flt")
             /\ "variadic" \notin D => ~v \/ \A k \in DOMAIN all : ~(k > NInt) /\ T(k).kind = "int"
<1> DEFINE all     == SlotsTo(q)[Len(q)]
           T(k)    == q[all[k].arg]
           Ints(k) == Count("int", SubSeq(all, 1, k - 1))
           stk     == {k \in DOMAIN all : all[k].kind = "stk"}
           L == \E k \in stk : Large(T(k))
           S == \E k \in stk : IsStruct(T(k)) /\ ~Large(T(k))
           M == \E j, k \in stk : j < k /\ T(j).kind = "flt" /\ Ints(k) >= NInt
           H == \E k \in DOMAIN all : /\ T(k).size % Word # 0
                                      /\ IsStruct(T(k)) \/ all[k].kind = "flt"
           V == v /\ \E k \in DOMAIN all : k > NInt \/ T(k).kind # "int"
<1>1. Deviations(q, v) = UNION {IF L THEN {"large"} ELSE {}, IF S THEN {"spilled"} ELSE {},
                                IF M THEN {"mixed"} ELSE {}, IF H THEN {"half"} ELSE {},
                                IF V THEN {"variadic"} ELSE {}}
  BY DEF Deviations
<1> HIDE DEF L, S, M, H, V
<1>2. /\ L => "large" \in Deviations(q, v)
      /\ S => "spilled" \in Deviations(q, v)
      /\ M => "mixed" \in Deviations(q, v)
      /\ H => "half" \in Deviations(q, v)
      /\ V => "variadic" \in Deviations(q, v)
  BY <1>1
<1> HIDE DEF all, T, Ints
<1>3. ~L => \A k \in DOMAIN all : all[k].kind = "stk" => ~Large(T(k))
  BY Zenon DEF L, stk
<1>4. ~S => \A k \in DOMAIN all : all[k].kind = "stk" => ~IsStruct(T(k)) \/ Large(T(k))
  BY Zenon DEF S, stk
<1>5. ~M => \A j, k \in DOMAIN all :
              all[j].kind = "stk" /\ all[k].kind = "stk" /\ j < k /\ T(j).kind = "flt" => ~(Ints(k) >= NInt)
  BY Zenon DEF M, stk
<1>6. ~H => \A k \in DOMAIN all : T(k).size % Word = 0 \/ (~IsStruct(T(k)) /\ all[k].kind # "flt")
  BY Zenon DEF H
<1>7. ~V => ~v \/ \A k \in DOMAIN all : ~(k > NInt) /\ T(k).kind = "int"
  BY Zenon DEF V
<1>8. QED
  BY <1>2, <1>3, <1>4, <1>5, <1>6, <1>7, Zenon DEF all, T, Ints

\* The first slot of the parameter that is dealt with, and its second if it has one.
SlotHere(all, b, t, k, l) ==
  /\ all \in Seq(Slot) /\ Len(b) \in Nat /\ Len(b) + 1 \in DOMAIN all
  /\ SubSeq(all, 1, Len(b)) = b /\ \A j \in 1..Len(b) : j \in DOMAIN all /\ all[j] = b[j]
  /\ all[Len(b) + 1] = [arg |-> arg, chunk |-> 0, kind |-> k]
  /\ Len(Classes(t)) = 2 => /\ Len(b) + 2 \in DOMAIN all
                            /\ all[Len(b) + 2] = [arg |-> arg, chunk |-> 1, kind |-> l]

\* Where the slots of the parameter are among all slots.
LEMMA SlotAt ==
  ASSUME CallInv, phase = "bind", arg <= Len(sig)
  PROVE  SlotHere(SlotsTo(sig)[Len(sig)], Before, sig[arg],
                  First1(sig[arg], ints, flts), Second(sig[arg], ints, flts))
<1> DEFINE t   == sig[arg]
           b   == Before
           k   == First1(t, ints, flts)
           l   == Second(t, ints, flts)
           x   == [arg |-> arg, chunk |-> 0, kind |-> k]
           y   == [arg |-> arg, chunk |-> 1, kind |-> l]
           now == SlotsTo(sig)[arg]
           all == SlotsTo(sig)[Len(sig)]
<1>1. /\ b \in Seq(Slot) /\ now = b \o Made(arg, t, k, l) /\ arg \in Nat /\ t \in ArgTypes
      /\ k \in {"int", "flt", "stk"} /\ l \in {"int", "flt", "stk"} /\ arg \in 0..Len(sig)
      /\ sig \in Seq(ArgTypes)
  <2>1. CallTypes
    BY DEF CallInv
  <2>2. QED
    BY <2>1, BindFacts, SigFacts DEF SameSlots
<1>2. PICK r \in Seq(Slot) : all = now \o r
  BY <1>1, SlotsPrefix
<1>3. x \in Slot /\ y \in Slot
  BY <1>1 DEF Slot
<1> DEFINE mk == Made(arg, t, k, l)
           m  == mk \o r
<1>4. mk = IF Len(Classes(t)) = 1 THEN <<x>> ELSE <<x, y>>
  BY DEF Made
<1>5. Len(Classes(t)) \in {1, 2}
  BY <1>1, ClassesAre
<1> HIDE DEF t, b, k, l, x, y, now, all, mk
<1>6. /\ mk \in Seq(Slot) /\ Len(mk) \in {1, 2} /\ mk[1] = x
      /\ Len(Classes(t)) = 2 => Len(mk) = 2 /\ mk[2] = y
  <2>1. /\ <<x>> \in Seq(Slot) /\ Len(<<x>>) = 1 /\ <<x>>[1] = x
        /\ <<x, y>> \in Seq(Slot) /\ Len(<<x, y>>) = 2 /\ <<x, y>>[1] = x /\ <<x, y>>[2] = y
    BY <1>3
  <2>2. CASE Len(Classes(t)) = 1
    <3>1. mk = <<x>>
      BY <1>4, <2>2
    <3>2. QED
      BY <2>1, <2>2, <3>1
  <2>3. CASE Len(Classes(t)) = 2
    <3>1. mk = <<x, y>>
      BY <1>4, <2>3
    <3>2. QED
      BY <2>1, <2>3, <3>1
  <2>4. QED
    BY <1>5, <2>2, <2>3
<1>7. /\ m \in Seq(Slot) /\ Len(m) = Len(mk) + Len(r) /\ \A j \in 1..Len(mk) : m[j] = mk[j]
  BY <1>2, <1>6
<1> HIDE DEF m
<1>8. all = b \o m /\ Len(m) \in Nat /\ Len(m) >= 1 /\ m[1] = x
      /\ (Len(Classes(t)) = 2 => Len(m) >= 2 /\ m[2] = y)
  <2>1. now = b \o mk
    BY <1>1 DEF mk
  <2>2. (b \o mk) \o r = b \o (mk \o r)
    <3>1. b \in Seq(Slot) /\ mk \in Seq(Slot) /\ r \in Seq(Slot)
      BY <1>1, <1>2, <1>6
    <3>2. QED
      BY <3>1, ConcatAssociative, SMTT(40)
  <2>3. Len(m) = Len(mk) + Len(r) /\ Len(r) \in Nat
    BY <1>2, <1>7
  <2>4. 1 \in 1..Len(mk) /\ (Len(Classes(t)) = 2 => 2 \in 1..Len(mk))
    BY <1>6
  <2>5. QED
    BY <1>2, <1>6, <1>7, <2>1, <2>2, <2>3, <2>4 DEF m
<1>9. /\ all \in Seq(Slot) /\ Len(all) = Len(b) + Len(m) /\ Len(b) \in Nat
      /\ \A j \in 1..Len(b) : all[j] = b[j]
      /\ \A j \in 1..Len(m) : all[Len(b) + j] = m[j]
  <2>1. /\ b \o m \in Seq(Slot) /\ Len(b \o m) = Len(b) + Len(m) /\ Len(b) \in Nat
        /\ \A j \in 1..Len(b) : (b \o m)[j] = b[j]
    <3>1. b \in Seq(Slot) /\ m \in Seq(Slot) /\ Len(b) \in Nat
      BY <1>1, <1>7
    <3>2. b \o m \in Seq(Slot) /\ Len(b \o m) = Len(b) + Len(m)
      BY <3>1, ConcatProperties
    <3>3. \A j \in 1..Len(b) : (b \o m)[j] = b[j]
      BY <3>1
    <3>4. QED
      BY <3>1, <3>2, <3>3
  <2>2. \A j \in 1..Len(m) : (b \o m)[Len(b) + j] = m[j]
    BY <1>1, <1>7
  <2>3. QED
    BY <1>8, <2>1, <2>2
<1>10. SubSeq(all, 1, Len(b)) = b
  <2> DEFINE c == SubSeq(all, 1, Len(b))
  <2>1. c \in Seq(Slot) /\ Len(c) = Len(b) /\ \A j \in 1..Len(b) : c[j] = b[j]
    <3> DEFINE d == Len(b)
    <3>1. d \in Nat /\ \A j \in 1..d : all[j] = b[j] /\ all[j] \in Slot
      BY <1>1, <1>8, <1>9
    <3> HIDE DEF d
    <3>2. /\ SubSeq(all, 1, d) \in Seq(Slot)
          /\ Len(SubSeq(all, 1, d)) = IF 1 <= d THEN d - 1 + 1 ELSE 0
          /\ \A j \in 1..d - 1 + 1 : SubSeq(all, 1, d)[j] = all[1 + j - 1]
      BY <3>1, SubSeqProperties
    <3>3. d - 1 + 1 = d /\ (IF 1 <= d THEN d - 1 + 1 ELSE 0) = d /\ \A j \in 1..d : 1 + j - 1 = j
      BY <3>1
    <3>4. QED
      BY <3>1, <3>2, <3>3 DEF d
  <2> HIDE DEF c
  <2>2. c = b
    BY <1>1, <2>1, SeqEqual
  <2>3. QED
    BY <2>2 DEF c
<1>11. SlotHere(all, b, t, k, l)
  <2>1. \A j \in 1..Len(b) : j \in DOMAIN all /\ all[j] = b[j]
    BY <1>8, <1>9
  <2>2. QED
    BY <1>8, <1>9, <1>10, <2>1 DEF SlotHere, x, y
<1>12. QED
  BY <1>11 DEF all, b, t, k, l


\* Writes below rbp.
LEMMA WriteBelow ==
  ASSUME NEW f, \A o \in 0..Word - 1 : o \in DOMAIN f /\ f[o] = <<0, o>>,
         NEW o \in Int, NEW w, NEW k \in Nat, o + k <= 0
  PROVE  \A x \in 0..Word - 1 : x \in DOMAIN Write(f, o, w, k) /\ Write(f, o, w, k)[x] = <<0, x>>
<1>1. \A x \in 0..Word - 1 : x \notin o..o + k - 1
  BY DEF Word
<1> DEFINE g == Write(f, o, w, k)
<1>2. /\ DOMAIN g = DOMAIN f \cup o..o + k - 1
      /\ \A x \in DOMAIN f : x \notin o..o + k - 1 => g[x] = f[x]
  BY DEF Write
<1> HIDE DEF g
<1>3. \A x \in 0..Word - 1 : x \in DOMAIN g /\ g[x] = <<0, x>>
  BY <1>1, <1>2
<1>4. QED
  BY <1>3 DEF g

\* A parameter whose size is odd is an integer in a register or on the stack.
LEMMA EvenSizes ==
  ASSUME CallInv, phase = "bind", arg <= Len(sig), "half" \notin Admit
  PROVE  sig[arg].size % Word = 0 \/ (~IsStruct(sig[arg]) /\ First1(sig[arg], ints, flts) # "flt")
<1> DEFINE all == SlotsTo(sig)[Len(sig)]
           k   == Len(Before) + 1
<1>1. "half" \notin Deviations(sig, variadic)
  BY DEF CallInv, CallTypes
<1>2. \A j \in DOMAIN all : sig[all[j].arg].size % Word = 0
                            \/ (~IsStruct(sig[all[j].arg]) /\ all[j].kind # "flt")
  BY <1>1, Regular
<1>3. k \in DOMAIN all /\ all[k].arg = arg /\ all[k].kind = First1(sig[arg], ints, flts)
  BY SlotAt DEF SlotHere
<1> HIDE DEF all, k
<1>4. QED
  BY <1>2, <1>3

\* No step writes above the frame.
LEMMA FrameStep ==
  ASSUME CallInv, FrameInv, "half" \notin Admit, "wide" \notin Admit, [CallNext]_callVars
  PROVE  FrameInv'
<1>1. BaseKept
  BY DEF FrameInv
<1>2. ASSUME Enter PROVE FrameInv'
  <2>1. phase' = "bind" /\ (variadic \/ frame' = frame)
    BY <1>2 DEF Enter
  <2>2. CASE variadic
    <3>1. /\ DOMAIN frame' = DOMAIN frame \cup -(NInt * Word)..-1
          /\ \A x \in DOMAIN frame' : x >= 0 => frame'[x] = frame[x]
      BY <1>2, <2>2 DEF Enter
    <3>2. \A o \in 0..Word - 1 : o >= 0
      BY DEF Word
    <3>3. QED
      BY <1>1, <2>1, <3>1, <3>2 DEF FrameInv, BaseKept
  <2>3. CASE ~variadic
    BY <1>1, <2>1, <2>3 DEF FrameInv, BaseKept
  <2>4. QED
    BY <2>2, <2>3
<1>3. ASSUME NEW t, BindInt(t) PROVE FrameInv'
  <2>1. /\ phase = "bind" /\ phase' = "bind" /\ arg <= Len(sig) /\ t = sig[arg] /\ next' = Alloc(next, t)
        /\ frame' = Write(frame, -next', Reg("int", ints), t.size)
    BY <1>3 DEF BindInt, Binding, BindRegister
  <2>2. t \in ArgTypes /\ next \in Nat
    BY <2>1, BindFacts, CallNumbers
  <2>3. t.size \in Nat /\ next' \in Nat /\ next' >= next + t.size
    <3>1. Alloc(next, t) \in Nat /\ Alloc(next, t) >= next + t.size /\ t.size \in Nat
      BY <2>2, AllocFacts, TypesAssumption
    <3>2. QED
      BY <2>1, <3>1
  <2>4. -next' \in Int /\ -next' + t.size <= 0
    <3> DEFINE m == next'
               z == t.size
    <3>1. m \in Nat /\ z \in Nat /\ m >= z
      BY <2>2, <2>3
    <3> HIDE DEF m, z
    <3>2. -m \in Int /\ -m + z <= 0
      BY <3>1
    <3>3. QED
      BY <3>2 DEF m, z
  <2>5. BaseKept'
    <3> DEFINE o == -next'
               z == t.size
    <3>1. frame' = Write(frame, o, Reg("int", ints), z) /\ o \in Int /\ z \in Nat /\ o + z <= 0
      BY <2>1, <2>3, <2>4
    <3> HIDE DEF o, z
    <3>2. QED
      BY <1>1, <3>1, WriteBelow DEF BaseKept
  <2>6. QED
    BY <2>1, <2>5 DEF FrameInv
<1>4. ASSUME NEW t, BindFlt(t) PROVE FrameInv'
  <2>1. /\ phase = "bind" /\ phase' = "bind" /\ arg <= Len(sig) /\ t = sig[arg] /\ next' = Alloc(next, t)
        /\ frame' = Write(frame, -next', Reg("flt", flts), Word) /\ t.kind = "flt" /\ flts < NFlt
    BY <1>4 DEF BindFlt, Binding, BindRegister
  <2>2. t \in ArgTypes /\ next \in Nat /\ ints \in Nat /\ flts \in Nat
    BY <2>1, BindFacts, CallNumbers
  <2>3. t.size \in Nat /\ t.size >= Word
    <3>1. First1(t, ints, flts) = "flt"
      <4>1. First1(t, ints, flts) = KindOf(t.kind, ints, flts)
        BY <2>1, <2>2, ScalarFacts
      <4>2. QED
        BY <2>1, <4>1 DEF KindOf
    <3>2. t.size % Word = 0
      BY <2>1, <3>1, EvenSizes
    <3>3. t.size \in Nat /\ t.size > 0
      BY <2>2, TypesAssumption
    <3>4. QED
      BY <3>2, <3>3 DEF Word
  <2>4. next' \in Nat /\ next' >= next + t.size
    <3>1. Alloc(next, t) \in Nat /\ Alloc(next, t) >= next + t.size
      BY <2>2, AllocFacts
    <3>2. QED
      BY <2>1, <3>1
  <2>5. -next' \in Int /\ Word \in Nat /\ -next' + Word <= 0
    <3> DEFINE z == t.size
               m == next'
    <3>1. z \in Nat /\ z >= Word /\ m \in Nat /\ m >= next + z
      BY <2>3, <2>4
    <3> HIDE DEF z, m
    <3>2. -m \in Int /\ Word \in Nat /\ -m + Word <= 0
      BY <2>2, <3>1 DEF Word
    <3>3. QED
      BY <3>2 DEF m
  <2>6. BaseKept'
    <3> DEFINE w == Reg("flt", flts)
               o == -next'
    <3>1. o \in Int /\ o + Word <= 0 /\ Word \in Nat /\ frame' = Write(frame, o, w, Word)
      BY <2>1, <2>5
    <3> HIDE DEF w, o
    <3>2. \A x \in 0..Word - 1 : x \in DOMAIN Write(frame, o, w, Word) /\ Write(frame, o, w, Word)[x] = <<0, x>>
      BY <1>1, <3>1, WriteBelow DEF BaseKept
    <3>3. QED
      BY <3>1, <3>2 DEF BaseKept
  <2>7. QED
    BY <2>1, <2>6 DEF FrameInv
<1>5. ASSUME NEW t, BindStruct(t) PROVE FrameInv'
  <2> DEFINE w1 == IF First1(t, ints, flts) = "stk" THEN Pad
                   ELSE Reg(First1(t, ints, flts), IF First1(t, ints, flts) = "int" THEN ints ELSE flts)
             h  == Write(frame, -next', w1, Word)
  <2>1. /\ phase = "bind" /\ phase' = "bind" /\ arg <= Len(sig) /\ t = sig[arg] /\ next' = Alloc(next, t)
        /\ t.kind = "struct"
        /\ frame' = frame \/ (frame' = h /\ ~Large(t) /\ Len(Classes(t)) # 2)
           \/ (~Large(t) /\ Len(Classes(t)) = 2 /\ \E w2 : frame' = Write(h, -next' + Word, w2, Word))
    BY <1>5, StructBound
  <2>2. t \in ArgTypes /\ next \in Nat
    BY <2>1, BindFacts, CallNumbers
  <2>3. t.size \in Nat /\ t.size >= Word /\ (~Large(t) /\ Len(Classes(t)) = 2 => t.size >= 2 * Word)
    <3>1. t.size % Word = 0
      BY <2>1, EvenSizes DEF IsStruct
    <3>2. t.size \in Nat /\ t.size > 0
      BY <2>2, TypesAssumption
    <3>3. ~Large(t) /\ Len(Classes(t)) = 2 => t.size > Word
      BY <2>1, <2>2, ClassesAre DEF IsStruct
    <3>4. QED
      BY <3>1, <3>2, <3>3 DEF Word
  <2>4. next' \in Nat /\ next' >= next + t.size
    <3>1. Alloc(next, t) \in Nat /\ Alloc(next, t) >= next + t.size
      BY <2>2, AllocFacts
    <3>2. QED
      BY <2>1, <3>1
  <2>5. /\ -next' \in Int /\ Word \in Nat /\ -next' + Word <= 0 /\ -next' + Word \in Int
        /\ ~Large(t) /\ Len(Classes(t)) = 2 => (-next' + Word) + Word <= 0
    <3> DEFINE z == t.size
               m == next'
               b == ~Large(t) /\ Len(Classes(t)) = 2
    <3>1. z \in Nat /\ z >= Word /\ (b => z >= 2 * Word) /\ m \in Nat /\ m >= next + z
      BY <2>3, <2>4
    <3> HIDE DEF z, m, b
    <3>2. /\ -m \in Int /\ Word \in Nat /\ -m + Word <= 0 /\ -m + Word \in Int
          /\ b => (-m + Word) + Word <= 0
      BY <2>2, <3>1 DEF Word
    <3>3. QED
      BY <3>2 DEF b, m
  <2> HIDE DEF w1
  <2>6. \A o \in 0..Word - 1 : o \in DOMAIN h /\ h[o] = <<0, o>>
    BY <1>1, <2>5, WriteBelow DEF BaseKept
  <2> HIDE DEF h
  <2>7. CASE ~Large(t) /\ Len(Classes(t)) = 2 /\ \E w2 : frame' = Write(h, -next' + Word, w2, Word)
    <3>1. PICK w2 : frame' = Write(h, -next' + Word, w2, Word)
      BY <2>7
    <3>2. BaseKept'
      BY <2>5, <2>6, <2>7, <3>1, WriteBelow DEF BaseKept
    <3>3. QED
      BY <2>1, <3>2 DEF FrameInv
  <2>8. CASE frame' = h \/ frame' = frame
    BY <1>1, <2>1, <2>6, <2>8 DEF FrameInv, BaseKept
  <2>9. QED
    BY <2>1, <2>7, <2>8
<1>6. ASSUME Body PROVE FrameInv'
  BY <1>1, <1>6 DEF Body, FrameInv, BaseKept
<1>7. ASSUME frame' = frame, phase' # "body" PROVE FrameInv'
  BY <1>1, <1>7 DEF FrameInv, BaseKept
<1>8. ASSUME Classify \/ StartPush \/ PushSlot \/ StartPop \/ PopSlot PROVE FrameInv'
  <2>1. frame' = frame /\ phase' # "body"
    BY <1>8 DEF Classify, StartPush, PushSlot, StartPop, PopSlot
  <2>2. QED
    BY <1>7, <2>1
<1>9. ASSUME NEW t, BindStack(t) PROVE FrameInv'
  BY <1>7, <1>9 DEF BindStack, Binding
<1>10. ASSUME UNCHANGED callVars PROVE FrameInv'
  BY <1>10 DEF callVars, FrameInv, BaseKept
<1>11. QED
  BY <1>2, <1>3, <1>4, <1>5, <1>6, <1>8, <1>9, <1>10 DEF CallNext, Bind

\* Saving the parameters leaves the caller's rbp alone, and the prologue reserves
\* at least the frame and the five registers below it, in whole 16 bytes: in any
\* call but with a part of a word that is stored as a whole, or a frame that one
\* byte cannot give the size of.
THEOREM FrameAlwaysHolds ==
  ASSUME "half" \notin Admit, "wide" \notin Admit
  PROVE  CallSpec => []FrameHolds
<1>1. CallInit => FrameInv
  BY DEF CallInit, FrameInv, BaseKept, Word
<1>2. CallInv /\ FrameInv /\ [CallNext]_callVars => FrameInv'
  BY FrameStep
<1>3. CallInv /\ FrameInv => FrameHolds
  <2>1. SUFFICES ASSUME CallInv, FrameInv PROVE FrameHolds
    OBVIOUS
  <2>2. \A o \in 0..Word - 1 : frame[o] = <<0, o>>
    BY <2>1 DEF FrameInv, BaseKept
  <2>3. ASSUME phase = "body" PROVE next <= Reserved(next) /\ Reserved(next) % 4 = 2
    <3> DEFINE d == (next + 2 * Word - 1) \div (2 * Word)
    <3>1. next \in Nat
      BY <2>1, CallNumbers
    <3>2. AlignUp(next, 2 * Word) = d * 4 /\ d \in Int
      BY <3>1 DEF AlignUp, Word
    <3>3. AlignUp(next, 2 * Word) >= next
      BY <3>1, UpTo DEF Word
    <3> HIDE DEF d
    <3>4. Reserved(next) = d * 4 + 2
      BY <2>1, <2>3, <3>2 DEF FrameInv, Reserved, Word
    <3>5. (d * 4 + 2) % 4 = 2
      BY <3>2
    <3>6. QED
      BY <3>1, <3>2, <3>3, <3>4, <3>5
  <2>4. QED
    BY <2>2, <2>3 DEF FrameHolds
<1>4. QED
  BY <1>1, <1>2, <1>3, CallAgreed, PTL DEF CallSpec



(***************************************************************************)
(* The parameters.                                                         *)
(***************************************************************************)
\* Among the slots of a kind, that of the parameter comes behind those before it.
LEMMA SlotWords ==
  ASSUME NEW q \in Seq(ArgTypes), NEW a \in 1..Len(q),
         NEW k \in {"int", "flt", "stk"}, NEW l \in {"int", "flt", "stk"},
         SlotsTo(q)[a] = SlotsTo(q)[a - 1] \o Made(a, q[a], k, l)
  PROVE  LET all == SlotsTo(q)[Len(q)]
             b   == SlotsTo(q)[a - 1]
             c   == Count(l, b) + (IF k = l THEN 1 ELSE 0)
         IN  /\ Count(k, b) \in Nat /\ Count(k, b) < Count(k, all)
             /\ Of(k, all)[Count(k, b) + 1] = [arg |-> a, chunk |-> 0, kind |-> k]
             /\ Len(Classes(q[a])) = 2 => /\ Count(l, b) \in Nat /\ c < Count(l, all)
                                          /\ Of(l, all)[c + 1] = [arg |-> a, chunk |-> 1, kind |-> l]
<1> DEFINE all == SlotsTo(q)[Len(q)]
           b   == SlotsTo(q)[a - 1]
           now == SlotsTo(q)[a]
           cs  == Classes(q[a])
           x   == [arg |-> a, chunk |-> 0, kind |-> k]
           y   == [arg |-> a, chunk |-> 1, kind |-> l]
           mk  == Made(a, q[a], k, l)
<1>1. a \in 0..Len(q) /\ a > 0 /\ a \in Nat /\ Len(q) \in Nat /\ q[a] \in ArgTypes
  OBVIOUS
<1>2. b \in Seq(Slot)
  BY <1>1, SlotsType
<1>3. PICK r \in Seq(Slot) : all = now \o r
  BY <1>1, SlotsPrefix
<1>4. x \in Slot /\ y \in Slot /\ x.kind = k /\ y.kind = l
  BY <1>1 DEF Slot
<1>5. Len(cs) \in {1, 2}
  BY <1>1, ClassesAre
<1>6. mk = IF Len(cs) = 1 THEN <<x>> ELSE <<x, y>>
  BY DEF Made
<1>7. now = b \o mk
  OBVIOUS
<1> HIDE DEF all, b, now, cs, x, y, mk
<1>8. mk \in Seq(Slot)
  BY <1>4, <1>6
<1> DEFINE P(kind) == IF kind = k THEN <<x>> ELSE << >>
           Q(kind) == IF Len(cs) = 2 /\ kind = l THEN <<y>> ELSE << >>
<1>9. ASSUME NEW kind \in {"int", "flt", "stk"}
      PROVE  /\ Of(kind, mk) = P(kind) \o Q(kind)
             /\ Of(kind, all) = (Of(kind, b) \o (P(kind) \o Q(kind))) \o Of(kind, r)
             /\ Of(kind, b) \in Seq(Slot) /\ Of(kind, r) \in Seq(Slot)
             /\ Count(kind, b) = Len(Of(kind, b)) /\ Count(kind, all) = Len(Of(kind, all))
  <2>1. Of(kind, mk) = P(kind) \o Q(kind)
    <3>1. Of(kind, <<x>>) = Picked(kind, x) /\ Of(kind, <<x, y>>) = Picked(kind, x) \o Picked(kind, y)
      BY <1>4, FewOf
    <3>2. Picked(kind, x) = P(kind) /\ Picked(kind, y) = IF kind = l THEN <<y>> ELSE << >>
      BY <1>4 DEF Picked
    <3>3. P(kind) \in Seq(Slot)
      BY <1>4
    <3> DEFINE p == P(kind)
               h == Q(kind)
    <3>4. /\ Len(cs) = 2 => Picked(kind, y) = h
          /\ Len(cs) = 1 => h = << >>
      <4>1. CASE Len(cs) = 2
        BY <3>2, <4>1
      <4>2. CASE Len(cs) = 1
        BY <4>2
      <4>3. QED
        BY <1>5, <4>1, <4>2
    <3> HIDE DEF p, h
    <3>5. p \o << >> = p
      BY <3>3 DEF p
    <3>6. Picked(kind, x) = p
      BY <3>2 DEF p
    <3>7. Of(kind, mk) = p \o h
      BY <1>5, <1>6, <3>1, <3>4, <3>5, <3>6
    <3>8. QED
      BY <3>7 DEF p, h
  <2>2. now \in Seq(Slot)
    BY <1>2, <1>7, <1>8
  <2>3. /\ Of(kind, all) = Of(kind, now) \o Of(kind, r)
        /\ Of(kind, now) = Of(kind, b) \o Of(kind, mk)
    <3>1. \A u, v \in Seq(Slot) : Of(kind, u \o v) = Of(kind, u) \o Of(kind, v)
      BY OfConcat
    <3>2. QED
      BY <1>2, <1>3, <1>7, <1>8, <2>2, <3>1
  <2>4. Of(kind, b) \in Seq(Slot) /\ Of(kind, r) \in Seq(Slot)
    BY <1>2, <1>3, OfType
  <2>5. QED
    BY <2>1, <2>3, <2>4 DEF Count
\* What stands in the middle.
<1>10. ASSUME NEW u \in Seq(Slot), NEW v \in Seq(Slot), NEW w \in Seq(Slot)
       PROVE  /\ Len((u \o v) \o w) >= Len(u) + Len(v) /\ Len(u) \in Nat /\ Len(v) \in Nat
              /\ \A j \in 1..Len(v) : ((u \o v) \o w)[Len(u) + j] = v[j]
  <2> DEFINE z == u \o v
  <2>1. z \in Seq(Slot) /\ Len(z) = Len(u) + Len(v) /\ Len(u) \in Nat /\ Len(v) \in Nat /\ Len(w) \in Nat
    BY ConcatProperties
  <2>2. \A j \in 1..Len(v) : z[Len(u) + j] = v[j]
    OBVIOUS
  <2> HIDE DEF z
  <2>3. Len(z \o w) = Len(z) + Len(w) /\ \A j \in 1..Len(z) : (z \o w)[j] = z[j]
    <3>1. z \in Seq(Slot)
      BY <2>1
    <3>2. Len(z \o w) = Len(z) + Len(w)
      BY <3>1, ConcatProperties
    <3>3. \A j \in 1..Len(z) : (z \o w)[j] = z[j]
      BY <3>1
    <3>4. QED
      BY <3>2, <3>3
  <2>4. \A j \in 1..Len(v) : Len(u) + j \in 1..Len(z)
    BY <2>1
  <2>5. QED
    BY <2>1, <2>2, <2>3, <2>4 DEF z
<1>11. ASSUME NEW kind \in {"int", "flt", "stk"}
       PROVE  /\ P(kind) \o Q(kind) \in Seq(Slot)
              /\ kind = k => /\ Len(P(kind) \o Q(kind)) >= 1
                             /\ (P(kind) \o Q(kind))[1] = x
              /\ Len(cs) = 2 /\ kind = l =>
                   /\ Len(P(kind) \o Q(kind)) = (IF k = l THEN 1 ELSE 0) + 1
                   /\ (P(kind) \o Q(kind))[(IF k = l THEN 1 ELSE 0) + 1] = y
  <2>1. << >> \in Seq(Slot) /\ <<x>> \in Seq(Slot) /\ <<y>> \in Seq(Slot)
    BY <1>4
  <2>2. P(kind) \in Seq(Slot) /\ Q(kind) \in Seq(Slot)
    BY <2>1
  <2>3. kind = k => Len(P(kind)) = 1 /\ P(kind)[1] = x
    OBVIOUS
  <2>4. kind # k => Len(P(kind)) = 0
    OBVIOUS
  <2>5. Len(cs) = 2 /\ kind = l => Len(Q(kind)) = 1 /\ Q(kind)[1] = y
    OBVIOUS
  <2> DEFINE p == P(kind)
             h == Q(kind)
  <2> HIDE DEF P, Q, p, h
  <2>6. p \in Seq(Slot) /\ h \in Seq(Slot)
    BY <2>2 DEF p, h
  <2>7. p \o h \in Seq(Slot) /\ Len(p \o h) = Len(p) + Len(h) /\ Len(p) \in Nat /\ Len(h) \in Nat
    BY <2>6, ConcatProperties
  <2>8. /\ \A j \in 1..Len(p) : (p \o h)[j] = p[j]
        /\ \A j \in 1..Len(h) : (p \o h)[Len(p) + j] = h[j]
    BY <2>6
  <2>9. kind = k => Len(p \o h) >= 1 /\ (p \o h)[1] = x
    <3>1. ASSUME kind = k PROVE Len(p \o h) >= 1 /\ (p \o h)[1] = x
      <4>1. Len(p) = 1 /\ p[1] = x
        BY <2>3, <3>1 DEF p
      <4>2. 1 \in 1..Len(p)
        BY <4>1
      <4>3. QED
        BY <2>7, <2>8, <4>1, <4>2
    <3>2. QED
      BY <3>1
  <2>10. ASSUME Len(cs) = 2, kind = l
         PROVE  /\ Len(p \o h) = (IF k = l THEN 1 ELSE 0) + 1
                /\ (p \o h)[(IF k = l THEN 1 ELSE 0) + 1] = y
    <3>1. Len(h) = 1 /\ h[1] = y
      BY <2>5, <2>10 DEF h
    <3>2. Len(p) = IF k = l THEN 1 ELSE 0
      BY <2>3, <2>4, <2>10 DEF p
    <3>3. 1 \in 1..Len(h)
      BY <3>1
    <3>4. (p \o h)[Len(p) + 1] = h[1]
      BY <2>8, <3>3
    <3>5. QED
      BY <2>7, <3>1, <3>2, <3>4
  <2>11. QED
    BY <2>7, <2>9, <2>10 DEF p, h
<1> DEFINE M(kind) == P(kind) \o Q(kind)
<1> HIDE DEF P, Q, M
<1>12. ASSUME NEW kind \in {"int", "flt", "stk"}
       PROVE  /\ Count(kind, b) \in Nat /\ Len(M(kind)) \in Nat
              /\ Count(kind, all) >= Count(kind, b) + Len(M(kind))
              /\ \A j \in 1..Len(M(kind)) : Of(kind, all)[Count(kind, b) + j] = M(kind)[j]
  <2> DEFINE u == Of(kind, b)
             v == M(kind)
             w == Of(kind, r)
  <2>1. u \in Seq(Slot) /\ v \in Seq(Slot) /\ w \in Seq(Slot)
    BY <1>9, <1>11 DEF M
  <2>2. Of(kind, all) = (u \o v) \o w /\ Count(kind, b) = Len(u) /\ Count(kind, all) = Len(Of(kind, all))
    BY <1>9 DEF M
  <2> HIDE DEF u, v, w
  <2>3. /\ Len((u \o v) \o w) >= Len(u) + Len(v) /\ Len(u) \in Nat /\ Len(v) \in Nat
        /\ \A j \in 1..Len(v) : ((u \o v) \o w)[Len(u) + j] = v[j]
    BY <1>10, <2>1
  <2>4. QED
    BY <2>2, <2>3 DEF v
<1>13. /\ Count(k, b) \in Nat /\ Count(k, b) < Count(k, all) /\ Of(k, all)[Count(k, b) + 1] = x
  <2>1. Len(M(k)) >= 1 /\ M(k)[1] = x
    BY <1>11 DEF M
  <2>2. Count(k, b) \in Nat /\ Len(M(k)) \in Nat /\ Count(k, all) >= Count(k, b) + Len(M(k))
    BY <1>12
  <2>3. 1 \in 1..Len(M(k))
    BY <2>1, <2>2
  <2>4. Of(k, all)[Count(k, b) + 1] = M(k)[1]
    BY <1>12, <2>3
  <2>5. Count(k, all) = Len(Of(k, all)) /\ Len(Of(k, all)) \in Nat
    BY <1>9 DEF Count
  <2>6. QED
    BY <2>1, <2>2, <2>4, <2>5
<1> DEFINE e == IF k = l THEN 1 ELSE 0
<1>14. ASSUME Len(cs) = 2
       PROVE  /\ Count(l, b) \in Nat /\ Count(l, b) + e < Count(l, all)
              /\ Of(l, all)[(Count(l, b) + e) + 1] = y
  <2>1. e \in Nat
    OBVIOUS
  <2>2. Len(M(l)) = e + 1 /\ M(l)[e + 1] = y
    BY <1>11, <1>14 DEF M
  <2> HIDE DEF e
  <2>3. Count(l, b) \in Nat /\ Len(M(l)) \in Nat /\ Count(l, all) >= Count(l, b) + Len(M(l))
    BY <1>12
  <2>4. e + 1 \in 1..Len(M(l)) /\ Count(l, b) + (e + 1) = (Count(l, b) + e) + 1
    BY <2>1, <2>2, <2>3
  <2>5. Of(l, all)[Count(l, b) + (e + 1)] = M(l)[e + 1]
    BY <1>12, <2>4
  <2>6. Count(l, all) \in Nat
    BY <1>9 DEF Count
  <2>7. QED
    BY <2>1, <2>2, <2>3, <2>4, <2>5, <2>6
<1>15. QED
  BY <1>13, <1>14 DEF all, b, cs, x, y


\* What is in an argument register.
LEMMA RegWord ==
  ASSUME CallInv, phase = "bind", NEW kind \in {"int", "flt"}, NEW j \in Nat,
         j < Count(kind, SlotsTo(sig)[Len(sig)])
  PROVE  Reg(kind, j) = WordFrom(sig, Of(kind, SlotsTo(sig)[Len(sig)])[j + 1])
<1> DEFINE all == SlotsTo(sig)[Len(sig)]
           o   == Of(kind, all)
           w   == regs[kind]
<1>1. slots = all
  BY DEF CallInv, Classified
<1>2. Fills(w, sig, o)
  BY <1>1 DEF CallInv, Handed
<1>3. Len(o) = Count(kind, all)
  BY DEF Count
<1>4. Len(o) \in Nat
  <2>1. slots \in Seq(Slot)
    BY DEF CallInv, CallTypes
  <2>2. Count(kind, slots) \in Nat
    BY <2>1, OfType
  <2>3. QED
    BY <1>1, <1>3, <2>2
<1>5. Reg(kind, j) = IF j < Len(w) THEN w[j + 1] ELSE Pad
  BY DEF Reg
<1> HIDE DEF all, o, w
<1>6. j < Len(o)
  BY <1>3 DEF all
<1>7. j + 1 \in 1..Len(o) /\ Len(w) = Len(o)
  BY <1>2, <1>4, <1>6 DEF Fills
<1>8. w[j + 1] = WordFrom(sig, o[j + 1])
  BY <1>2, <1>7 DEF Fills
<1>9. QED
  BY <1>5, <1>6, <1>7, <1>8 DEF o, all

\* The words of the parameter that is dealt with, where the callee looks for them.
HereWords(t, k, l) ==
  LET x == [arg |-> arg, chunk |-> 0, kind |-> k]
      y == [arg |-> arg, chunk |-> 1, kind |-> l]
  IN  /\ k = "int" => Reg("int", ints) = WordFrom(sig, x)
      /\ k = "flt" => Reg("flt", flts) = WordFrom(sig, x)
      /\ k = "stk" => /\ Count("stk", Before) \in Nat
                      /\ stack[Len(stack) - Count("stk", Before)] = WordFrom(sig, x)
      /\ Len(Classes(t)) = 2 /\ l = "int" => Reg("int", ints + One(k = "int")) = WordFrom(sig, y)
      /\ Len(Classes(t)) = 2 /\ l = "flt" => Reg("flt", flts + One(k = "flt")) = WordFrom(sig, y)

\* The words of the parameter are where the callee looks.
LEMMA WordsHere ==
  ASSUME CallInv, phase = "bind", arg <= Len(sig)
  PROVE  HereWords(sig[arg], First1(sig[arg], ints, flts), Second(sig[arg], ints, flts))
<1> DEFINE t   == sig[arg]
           b   == Before
           all == SlotsTo(sig)[Len(sig)]
           k   == First1(t, ints, flts)
           l   == Second(t, ints, flts)
           x   == [arg |-> arg, chunk |-> 0, kind |-> k]
           y   == [arg |-> arg, chunk |-> 1, kind |-> l]
           cs  == Classes(t)
<1>1. /\ sig \in Seq(ArgTypes) /\ arg \in 1..Len(sig) /\ t \in ArgTypes /\ ints \in Nat /\ flts \in Nat
      /\ k \in {"int", "flt", "stk"} /\ l \in {"int", "flt", "stk"}
      /\ Count("int", b) = AtMost(ints, NInt) /\ Count("flt", b) = AtMost(flts, NFlt)
      /\ SlotsTo(sig)[arg] = SlotsTo(sig)[arg - 1] \o Made(arg, sig[arg], k, l)
      /\ b = SlotsTo(sig)[arg - 1]
  <2>1. CallTypes
    BY DEF CallInv
  <2>2. QED
    BY <2>1, SigFacts, CallNumbers, BindFacts DEF SameSlots, Before
<1> HIDE DEF k, l
<1>2. LET c == Count(l, b) + (IF k = l THEN 1 ELSE 0)
      IN  /\ Count(k, b) \in Nat /\ Count(k, b) < Count(k, all) /\ Of(k, all)[Count(k, b) + 1] = x
          /\ Len(cs) = 2 => /\ Count(l, b) \in Nat /\ c < Count(l, all) /\ Of(l, all)[c + 1] = y
  BY <1>1, SlotWords
<1>3. /\ k = "int" => ints < NInt
      /\ k = "flt" => flts < NFlt
      /\ Len(cs) = 2 /\ l = "int" => ints + One(k = "int") < NInt
      /\ Len(cs) = 2 /\ l = "flt" => flts + One(k = "flt") < NFlt
  <2>1. k = KindOf(cs[1], ints, flts)
    BY DEF k, First1
  <2>2. Len(cs) = 2 => l = KindOf(cs[2], ints + One(k = "int"), flts + One(k = "flt"))
    BY DEF k, l, Second, Second1
  <2>3. Len(cs) \in {1, 2} /\ \A c \in 1..Len(cs) : cs[c] \in {"int", "flt", "stk"}
    BY <1>1, ClassesAre
  <2> HIDE DEF cs
  <2>4. cs[1] \in {"int", "flt", "stk"} /\ (Len(cs) = 2 => cs[2] \in {"int", "flt", "stk"})
    <3>1. 1 \in 1..Len(cs) /\ (Len(cs) = 2 => 2 \in 1..Len(cs))
      BY <2>3
    <3>2. QED
      BY <2>3, <3>1
  <2>5. ints + One(k = "int") \in Nat /\ flts + One(k = "flt") \in Nat
    BY <1>1 DEF One
  <2>6. QED
    BY <2>1, <2>2, <2>4 DEF KindOf
<1>4. NInt \in Nat /\ NFlt \in Nat
  BY NumbersAssumption
<1>5. /\ k = "int" => Count(k, b) = ints
      /\ k = "flt" => Count(k, b) = flts
      /\ Len(cs) = 2 /\ l = "int" => Count(l, b) + (IF k = l THEN 1 ELSE 0) = ints + One(k = "int")
      /\ Len(cs) = 2 /\ l = "flt" => Count(l, b) + (IF k = l THEN 1 ELSE 0) = flts + One(k = "flt")
  <2>1. /\ ints < NInt => Count("int", b) = ints
        /\ flts < NFlt => Count("flt", b) = flts
    BY <1>1 DEF AtMost
  <2>2. /\ ints + One(k = "int") < NInt => ints < NInt
        /\ flts + One(k = "flt") < NFlt => flts < NFlt
    BY <1>1, <1>4 DEF One
  <2>3. QED
    BY <1>3, <2>1, <2>2 DEF One
<1>6. k = "stk" => /\ Count("stk", b) \in Nat
                   /\ stack[Len(stack) - Count("stk", b)] = WordFrom(sig, x)
  <2>1. SUFFICES ASSUME k = "stk"
                 PROVE  /\ Count("stk", b) \in Nat
                        /\ stack[Len(stack) - Count("stk", b)] = WordFrom(sig, x)
    OBVIOUS
  <2> DEFINE o == Of("stk", all)
             c == Count("stk", b)
  <2>2. slots = all
    BY DEF CallInv, Classified
  <2>3. OnTop(stack, sig, o) /\ Count("stk", all) = Len(o) /\ stack \in Seq(Words)
    BY <2>2 DEF CallInv, CallTypes, Handed, Count
  <2>4. c \in Nat /\ c < Len(o) /\ o[c + 1] = x
    BY <1>2, <2>1, <2>3
  <2>5. Len(o) \in Nat
    <3>1. slots \in Seq(Slot)
      BY DEF CallInv, CallTypes
    <3>2. Count("stk", slots) \in Nat
      BY <3>1, OfType
    <3>3. QED
      BY <2>2, <2>3, <3>2
  <2> HIDE DEF o, c, x
  <2>6. c + 1 \in 1..Len(o) /\ Len(stack) + 1 - (c + 1) = Len(stack) - c
    BY <2>3, <2>4, <2>5
  <2>7. stack[Len(stack) + 1 - (c + 1)] = WordFrom(sig, o[c + 1])
    BY <2>3, <2>6 DEF OnTop
  <2>8. QED
    BY <2>4, <2>6, <2>7 DEF c
<1>7. ASSUME NEW kind \in {"int", "flt"}, k = kind
      PROVE  Reg(kind, Count(kind, b)) = WordFrom(sig, x)
  <2>1. Count(kind, b) \in Nat /\ Count(kind, b) < Count(kind, all) /\ Of(kind, all)[Count(kind, b) + 1] = x
    BY <1>2, <1>7
  <2>2. Reg(kind, Count(kind, b)) = WordFrom(sig, Of(kind, all)[Count(kind, b) + 1])
    BY <2>1, RegWord
  <2>3. QED
    BY <2>1, <2>2
<1>8. ASSUME NEW kind \in {"int", "flt"}, l = kind, Len(cs) = 2
      PROVE  Reg(kind, Count(kind, b) + (IF k = kind THEN 1 ELSE 0)) = WordFrom(sig, y)
  <2> DEFINE c == Count(kind, b) + (IF k = kind THEN 1 ELSE 0)
  <2>1. Count(kind, b) \in Nat /\ c < Count(kind, all) /\ Of(kind, all)[c + 1] = y
    BY <1>2, <1>8
  <2>2. c \in Nat
    BY <2>1
  <2> HIDE DEF c
  <2>3. Reg(kind, c) = WordFrom(sig, Of(kind, all)[c + 1])
    BY <2>1, <2>2, RegWord
  <2>4. QED
    BY <2>1, <2>3 DEF c
<1>9. k = "int" => Reg("int", ints) = WordFrom(sig, x)
  BY <1>5, <1>7
<1>10. k = "flt" => Reg("flt", flts) = WordFrom(sig, x)
  BY <1>5, <1>7
<1>11. Len(cs) = 2 /\ l = "int" => Reg("int", ints + One(k = "int")) = WordFrom(sig, y)
  BY <1>5, <1>8
<1>12. Len(cs) = 2 /\ l = "flt" => Reg("flt", flts + One(k = "flt")) = WordFrom(sig, y)
  BY <1>5, <1>8
<1>13. HereWords(t, k, l)
  BY <1>6, <1>9, <1>10, <1>11, <1>12 DEF HereWords
<1>14. QED
  BY <1>13 DEF k, l


\* What a call without deviations adds.
LEMMA Whole ==
  ASSUME CallInv, phase = "bind", arg <= Len(sig), Admit \subseteq {"wide"}
  PROVE  LET t == sig[arg]
             b == Before
             k == First1(t, ints, flts)
             l == Second(t, ints, flts)
         IN  /\ IsStruct(t) => k # "stk" /\ (Len(Classes(t)) = 2 => l # "stk") /\ ~Large(t)
             /\ t.size % Word = 0 \/ (~IsStruct(t) /\ k # "flt")
             /\ k = "stk" => \A j \in 1..Len(b) : b[j].kind = "stk" /\ sig[b[j].arg].kind = "flt"
                                                    => ~(Count("int", b) >= NInt)
<1> DEFINE t   == sig[arg]
           b   == Before
           k   == First1(t, ints, flts)
           l   == Second(t, ints, flts)
           all == SlotsTo(sig)[Len(sig)]
           h   == Len(b) + 1
<1>1. Deviations(sig, variadic) \subseteq {"wide"}
  BY DEF CallInv, CallTypes
<1>2. /\ \A j \in DOMAIN all : all[j].kind = "stk" => ~Large(sig[all[j].arg])
      /\ \A j \in DOMAIN all : all[j].kind = "stk" => ~IsStruct(sig[all[j].arg]) \/ Large(sig[all[j].arg])
      /\ \A i, j \in DOMAIN all :
           all[i].kind = "stk" /\ all[j].kind = "stk" /\ i < j /\ sig[all[i].arg].kind = "flt"
             => ~(Count("int", SubSeq(all, 1, j - 1)) >= NInt)
      /\ \A j \in DOMAIN all : sig[all[j].arg].size % Word = 0
                               \/ (~IsStruct(sig[all[j].arg]) /\ all[j].kind # "flt")
  <2>1. /\ "large" \notin Deviations(sig, variadic) /\ "spilled" \notin Deviations(sig, variadic)
        /\ "mixed" \notin Deviations(sig, variadic) /\ "half" \notin Deviations(sig, variadic)
    BY <1>1
  <2>2. QED
    BY <2>1, Regular, Zenon
<1>3. /\ h \in DOMAIN all /\ all[h].arg = arg /\ all[h].kind = k /\ Len(b) \in Nat
      /\ SubSeq(all, 1, Len(b)) = b
      /\ \A j \in 1..Len(b) : j \in DOMAIN all /\ all[j] = b[j]
      /\ Len(Classes(t)) = 2 => h + 1 \in DOMAIN all /\ all[h + 1].arg = arg /\ all[h + 1].kind = l
  <2>1. SlotHere(all, b, t, k, l)
    BY SlotAt
  <2> HIDE DEF all, b, t, k, l
  <2>2. (Len(b) + 1) + 1 = Len(b) + 2 /\ Len(b) \in Nat
    BY <2>1 DEF SlotHere
  <2>3. QED
    BY <2>1, <2>2 DEF SlotHere
<1>4. t \in ArgTypes
  BY BindFacts
<1> HIDE DEF all, b, k, l, h
<1>5. IsStruct(t) => k # "stk" /\ (Len(Classes(t)) = 2 => l # "stk")
  BY <1>2, <1>3
<1>6. Large(t) => k = "stk"
  BY <1>4, ClassesAre DEF k, First1, KindOf
<1>7. t.size % Word = 0 \/ (~IsStruct(t) /\ k # "flt")
  BY <1>2, <1>3
<1>8. ASSUME k = "stk", NEW j \in 1..Len(b), b[j].kind = "stk", sig[b[j].arg].kind = "flt"
      PROVE  ~(Count("int", b) >= NInt)
  <2>1. j \in DOMAIN all /\ all[j] = b[j] /\ j < h /\ h - 1 = Len(b)
    BY <1>3 DEF h
  <2>2. ~(Count("int", SubSeq(all, 1, h - 1)) >= NInt)
    BY <1>2, <1>3, <1>8, <2>1
  <2>3. QED
    BY <1>3, <2>1, <2>2
<1>9. QED
  BY <1>5, <1>6, <1>7, <1>8 DEF b, k, l, Large

\* Writing below the frame changes nothing in it.
LEMMA Kept ==
  ASSUME NEW f, NEW m \in Nat, NEW o \in Int, NEW k \in Nat, o + k <= -m, NEW w
  PROVE  \A x, p, n : InFrame(f, m, x, p, n) => InFrame(Write(f, o, w, k), m, x, p, n)
<1>1. SUFFICES ASSUME NEW x, NEW p, NEW n, InFrame(f, m, x, p, n)
               PROVE  InFrame(Write(f, o, w, k), m, x, p, n)
  OBVIOUS
<1>2. x \in -m..-1 /\ x \in DOMAIN f /\ f[x] = <<p, n>>
  BY <1>1 DEF InFrame
<1>3. x \notin o..o + k - 1
  BY <1>2
<1>4. x \in DOMAIN Write(f, o, w, k) /\ Write(f, o, w, k)[x] = f[x]
  BY <1>2, <1>3 DEF Write
<1>5. QED
  BY <1>2, <1>4 DEF InFrame

\* What is in a frame is in a larger one.
LEMMA Wider ==
  ASSUME NEW f, NEW m \in Nat, NEW h \in Nat, h >= m
  PROVE  \A x, p, n : InFrame(f, m, x, p, n) => InFrame(f, h, x, p, n)
<1>1. \A x \in -m..-1 : x \in -h..-1
  OBVIOUS
<1>2. QED
  BY <1>1 DEF InFrame

\* What is written in the frame is there.
LEMMA Put ==
  ASSUME NEW f, NEW m \in Nat, NEW o \in Int, NEW k \in Nat, -m <= o, o + k <= 0, NEW w,
         NEW p, NEW d, \A n \in 0..k - 1 : w[n + 1] = <<p, d + n>>
  PROVE  \A n \in 0..k - 1 : InFrame(Write(f, o, w, k), m, o + n, p, d + n)
<1>1. SUFFICES ASSUME NEW n \in 0..k - 1
               PROVE  InFrame(Write(f, o, w, k), m, o + n, p, d + n)
  OBVIOUS
<1> DEFINE x == o + n
<1>2. x \in -m..-1 /\ x \in o..o + k - 1 /\ x - o + 1 = n + 1
  OBVIOUS
<1> HIDE DEF x
<1>3. x \in DOMAIN Write(f, o, w, k) /\ Write(f, o, w, k)[x] = w[x - o + 1]
  BY <1>2 DEF Write
<1>4. InFrame(Write(f, o, w, k), m, x, p, d + n)
  BY <1>2, <1>3 DEF InFrame
<1>5. QED
  BY <1>4 DEF x

\* Unit n of a word of parameter p.
LEMMA UnitOf ==
  ASSUME NEW q, NEW p \in Nat, NEW c \in {0, 1}, NEW k, NEW n \in 0..Word - 1, q[p].size \in Nat,
         c * Word + n < q[p].size
  PROVE  WordFrom(q, [arg |-> p, chunk |-> c, kind |-> k])[n + 1] = <<p, c * Word + n>>
<1>1. n + 1 \in 1..Word /\ c * Word + (n + 1) <= q[p].size /\ c * Word + (n + 1) - 1 = c * Word + n
  BY DEF Word
<1>2. QED
  BY <1>1 DEF WordFrom

\* What a step that binds a parameter has to show of where it is.
LEMMA ArriveStep ==
  ASSUME CallInv, Arrived, phase = "bind", arg <= Len(sig), phase' = "bind",
         sig' = sig, stack' = stack,
         NEW o \in Int, place' = Append(place, o),
         \A x, p, n : InFrame(frame, next, x, p, n) => InFrame(frame', next', x, p, n),
         \A n \in 0..sig[arg].size - 1 :
           InFrame(frame', next', o + n, arg, n) \/ OnStack(stack, o + n, arg, n)
  PROVE  Arrived'
<1>1. /\ place \in Seq(Int) /\ Len(place) = arg - 1 /\ arg \in Nat /\ Len(place) \in Nat
  BY DEF CallInv, CallTypes, Counted
<1>2. Len(place') = Len(place) + 1 /\ place'[Len(place) + 1] = o /\ \A p \in 1..Len(place) : place'[p] = place[p]
  BY <1>1
<1>3. ASSUME NEW p \in 1..Len(place'), NEW n \in 0..sig[p].size - 1
      PROVE  InFrame(frame', next', place'[p] + n, p, n) \/ OnStack(stack, place'[p] + n, p, n)
  <2>1. CASE p = Len(place) + 1
    <3>1. p = arg /\ place'[p] = o
      BY <1>1, <1>2, <2>1
    <3>2. QED
      BY <3>1
  <2>2. CASE p # Len(place) + 1
    <3>1. p \in 1..Len(place) /\ place'[p] = place[p]
      BY <1>1, <1>2, <2>2
    <3>2. InFrame(frame, next, place[p] + n, p, n) \/ OnStack(stack, place[p] + n, p, n)
      BY <3>1 DEF Arrived
    <3>3. QED
      BY <3>1, <3>2
  <2>3. QED
    BY <2>1, <2>2
<1>4. QED
  BY <1>3 DEF Arrived


\* An integer from its register.
LEMMA IntArrives ==
  ASSUME CallInv, Arrived, NEW t, BindInt(t)
  PROVE  Arrived'
<1> DEFINE w == Reg("int", ints)
           z == t.size
           m == next'
<1>1. /\ phase = "bind" /\ phase' = "bind" /\ arg <= Len(sig) /\ t = sig[arg] /\ t.kind = "int" /\ ints < NInt
      /\ m = Alloc(next, t) /\ place' = Append(place, -m) /\ frame' = Write(frame, -m, w, z)
      /\ sig' = sig /\ stack' = stack
  BY DEF BindInt, Binding, BindRegister, sides
<1>2. /\ t \in ArgTypes /\ next \in Nat /\ ints \in Nat /\ flts \in Nat /\ arg \in Nat
      /\ HereWords(t, First1(t, ints, flts), Second(t, ints, flts))
  BY <1>1, BindFacts, CallNumbers, WordsHere
<1>3. m \in Nat /\ m >= next + z
  BY <1>1, <1>2, AllocFacts
<1>4. z \in Nat /\ z <= Word /\ First1(t, ints, flts) = KindOf(t.kind, ints, flts)
  BY <1>1, <1>2, ScalarFacts
<1>5. First1(t, ints, flts) = "int"
  BY <1>1, <1>4 DEF KindOf
<1>6. w = WordFrom(sig, [arg |-> arg, chunk |-> 0, kind |-> "int"])
  BY <1>2, <1>5 DEF HereWords
<1>7. \A n \in 0..z - 1 : w[n + 1] = <<arg, n>>
  <2>1. ASSUME NEW n \in 0..z - 1 PROVE w[n + 1] = <<arg, n>>
    <3>1. n \in 0..Word - 1 /\ 0 * Word + n = n /\ n < z
      BY <1>4 DEF Word
    <3>2. sig[arg].size \in Nat /\ 0 * Word + n < sig[arg].size /\ 0 \in {0, 1}
      BY <1>1, <1>4, <3>1
    <3>3. WordFrom(sig, [arg |-> arg, chunk |-> 0, kind |-> "int"])[n + 1] = <<arg, 0 * Word + n>>
      BY <1>2, <3>1, <3>2, UnitOf
    <3>4. QED
      BY <1>6, <3>1, <3>3
  <2>2. QED
    BY <2>1
<1> HIDE DEF w, z, m
<1>8. -m \in Int /\ -m + z <= -next /\ -m + z <= 0 /\ m >= next
  BY <1>2, <1>3, <1>4
<1>9. \A x, p, n : InFrame(frame, next, x, p, n) => InFrame(frame', m, x, p, n)
  <2>1. \A x, p, n : InFrame(frame, next, x, p, n) => InFrame(Write(frame, -m, w, z), next, x, p, n)
    BY <1>2, <1>4, <1>8, Kept
  <2> DEFINE g == Write(frame, -m, w, z)
  <2> HIDE DEF g
  <2>2. \A x, p, n : InFrame(g, next, x, p, n) => InFrame(g, m, x, p, n)
    BY <1>2, <1>3, <1>8, Wider
  <2>3. QED
    BY <1>1, <2>1, <2>2 DEF g
<1>10. \A n \in 0..z - 1 : InFrame(frame', m, -m + n, arg, n)
  <2> DEFINE o == -m
  <2>1. o \in Int /\ z \in Nat /\ -m <= o /\ o + z <= 0 /\ \A n \in 0..z - 1 : 0 + n = n
    BY <1>3, <1>4, <1>8
  <2> HIDE DEF o
  <2>2. \A n \in 0..z - 1 : w[n + 1] = <<arg, 0 + n>>
    BY <1>7, <2>1
  <2>3. \A n \in 0..z - 1 : InFrame(Write(frame, o, w, z), m, o + n, arg, 0 + n)
    BY <1>3, <2>1, <2>2, Put
  <2>4. QED
    BY <1>1, <2>1, <2>3 DEF o
<1>11. QED
  <2>1. \A n \in 0..sig[arg].size - 1 :
          InFrame(frame', next', -m + n, arg, n) \/ OnStack(stack, -m + n, arg, n)
    BY <1>1, <1>10 DEF z, m
  <2>2. \A x, p, n : InFrame(frame, next, x, p, n) => InFrame(frame', next', x, p, n)
    BY <1>9 DEF m
  <2>3. QED
    BY <1>1, <1>8, <2>1, <2>2, ArriveStep

\* A float from its register: the word is stored whole, and is all the float.
LEMMA FltArrives ==
  ASSUME CallInv, Arrived, NEW t, BindFlt(t), Admit \subseteq {"wide"}
  PROVE  Arrived'
<1> DEFINE w == Reg("flt", flts)
           z == t.size
           m == next'
<1>1. /\ phase = "bind" /\ phase' = "bind" /\ arg <= Len(sig) /\ t = sig[arg] /\ t.kind = "flt" /\ flts < NFlt
      /\ m = Alloc(next, t) /\ place' = Append(place, -m) /\ frame' = Write(frame, -m, w, Word)
      /\ sig' = sig /\ stack' = stack
  BY DEF BindFlt, Binding, BindRegister, sides
<1>2. /\ t \in ArgTypes /\ next \in Nat /\ ints \in Nat /\ flts \in Nat /\ arg \in Nat
      /\ HereWords(t, First1(t, ints, flts), Second(t, ints, flts))
  BY <1>1, BindFacts, CallNumbers, WordsHere
<1>3. m \in Nat /\ m >= next + z
  BY <1>1, <1>2, AllocFacts
<1>4. z \in Nat /\ z > 0 /\ z <= Word /\ First1(t, ints, flts) = KindOf(t.kind, ints, flts)
  BY <1>1, <1>2, ScalarFacts
<1>5. First1(t, ints, flts) = "flt"
  BY <1>1, <1>4 DEF KindOf
<1>6. w = WordFrom(sig, [arg |-> arg, chunk |-> 0, kind |-> "flt"])
  BY <1>2, <1>5 DEF HereWords
<1>7. z = Word
  <2>1. z % Word = 0
    BY <1>1, <1>5, Whole
  <2> HIDE DEF z
  <2>2. QED
    BY <1>4, <2>1 DEF Word
<1>8. \A n \in 0..Word - 1 : w[n + 1] = <<arg, n>>
  <2>1. ASSUME NEW n \in 0..Word - 1 PROVE w[n + 1] = <<arg, n>>
    <3>1. 0 * Word + n = n /\ n < Word
      BY DEF Word
    <3>2. sig[arg].size \in Nat /\ 0 * Word + n < sig[arg].size /\ 0 \in {0, 1}
      BY <1>1, <1>4, <1>7, <3>1
    <3>3. WordFrom(sig, [arg |-> arg, chunk |-> 0, kind |-> "flt"])[n + 1] = <<arg, 0 * Word + n>>
      BY <1>2, <3>2, UnitOf
    <3>4. QED
      BY <1>6, <3>1, <3>3
  <2>2. QED
    BY <2>1
<1> HIDE DEF w, z, m
<1>9. Word \in Nat /\ -m \in Int /\ -m + Word <= -next /\ -m + Word <= 0 /\ m >= next
  BY <1>2, <1>3, <1>7 DEF Word
<1>10. \A x, p, n : InFrame(frame, next, x, p, n) => InFrame(frame', m, x, p, n)
  <2> DEFINE g == Write(frame, -m, w, Word)
  <2>1. \A x, p, n : InFrame(frame, next, x, p, n) => InFrame(g, next, x, p, n)
    BY <1>2, <1>9, Kept
  <2> HIDE DEF g
  <2>2. \A x, p, n : InFrame(g, next, x, p, n) => InFrame(g, m, x, p, n)
    BY <1>2, <1>3, <1>9, Wider
  <2>3. QED
    BY <1>1, <2>1, <2>2 DEF g
<1>11. \A n \in 0..Word - 1 : InFrame(frame', m, -m + n, arg, n)
  <2> DEFINE o == -m
  <2>1. o \in Int /\ Word \in Nat /\ -m <= o /\ o + Word <= 0 /\ \A n \in 0..Word - 1 : 0 + n = n
    BY <1>3, <1>4, <1>9
  <2> HIDE DEF o
  <2>2. \A n \in 0..Word - 1 : w[n + 1] = <<arg, 0 + n>>
    BY <1>8, <2>1
  <2>3. \A n \in 0..Word - 1 : InFrame(Write(frame, o, w, Word), m, o + n, arg, 0 + n)
    BY <1>3, <2>1, <2>2, Put
  <2>4. QED
    BY <1>1, <2>1, <2>3 DEF o
<1>12. QED
  <2>1. \A n \in 0..sig[arg].size - 1 :
          InFrame(frame', next', -m + n, arg, n) \/ OnStack(stack, -m + n, arg, n)
    BY <1>1, <1>7, <1>11 DEF z, m
  <2>2. \A x, p, n : InFrame(frame, next, x, p, n) => InFrame(frame', next', x, p, n)
    BY <1>10 DEF m
  <2>3. QED
    BY <1>1, <1>9, <2>1, <2>2, ArriveStep


\* The index that the callee computes is the number of stack slots before.
LEMMA IndexIs ==
  ASSUME CallInv, Spilled, NEW t, BindStack(t), Admit \subseteq {"wide"}
  PROVE  StackIndex(t) = Count("stk", Before)
<1> DEFINE b == Before
           e == Count("int", b)
           f == Count("flt", b)
<1>1. /\ phase = "bind" /\ arg <= Len(sig) /\ t = sig[arg] /\ t.kind \in {"int", "flt"}
      /\ (t.kind = "int" /\ ints >= NInt) \/ (t.kind = "flt" /\ flts >= NFlt)
  BY DEF BindStack, Binding
<1>2. /\ t \in ArgTypes /\ ints \in Nat /\ flts \in Nat /\ ~variadic
      /\ e = AtMost(ints, NInt) /\ f = AtMost(flts, NFlt) /\ NInt \in Nat /\ NFlt \in Nat
  BY <1>1, BindFacts, CallNumbers, NumbersAssumption
<1>3. /\ Count("stk", b) = (ints - e) + (flts - f)
      /\ flts > f => \E j \in 1..Len(b) : b[j].kind = "stk" /\ sig[b[j].arg].kind = "flt"
  BY <1>1, <1>2 DEF Spilled
<1>4. First1(t, ints, flts) = "stk"
  <2>1. First1(t, ints, flts) = KindOf(t.kind, ints, flts)
    BY <1>1, <1>2, ScalarFacts
  <2>2. QED
    BY <1>1, <1>2, <2>1 DEF KindOf
<1>5. \A j \in 1..Len(b) : b[j].kind = "stk" /\ sig[b[j].arg].kind = "flt" => ~(e >= NInt)
  BY <1>1, <1>4, Whole
<1> HIDE DEF b, e, f
<1>6. CASE ints >= NInt
  <2>1. e = NInt
    BY <1>2, <1>6 DEF AtMost
  <2>2. ~(flts > f)
    BY <1>2, <1>3, <1>5, <2>1
  <2>3. flts = f
    BY <1>2, <2>2 DEF AtMost
  <2>4. QED
    BY <1>2, <1>3, <1>6, <2>1, <2>3 DEF StackIndex, b
<1>7. CASE ints < NInt
  <2>1. e = ints /\ flts >= NFlt /\ f = NFlt
    BY <1>1, <1>2, <1>7 DEF AtMost
  <2>2. QED
    BY <1>2, <1>3, <1>7, <2>1 DEF StackIndex, b
<1>8. QED
  BY <1>2, <1>6, <1>7

\* A scalar is where the caller pushed it.
LEMMA StackArrives ==
  ASSUME CallInv, Arrived, Spilled, NEW t, BindStack(t), Admit \subseteq {"wide"}
  PROVE  Arrived'
<1> DEFINE s == StackIndex(t)
           z == t.size
           o == (2 + s) * Word
<1>1. /\ phase = "bind" /\ phase' = "bind" /\ arg <= Len(sig) /\ t = sig[arg] /\ t.kind \in {"int", "flt"}
      /\ (t.kind = "int" /\ ints >= NInt) \/ (t.kind = "flt" /\ flts >= NFlt)
      /\ place' = Append(place, o) /\ frame' = frame /\ next' = next
      /\ sig' = sig /\ stack' = stack
  BY DEF BindStack, Binding, sides
<1>2. /\ t \in ArgTypes /\ ints \in Nat /\ flts \in Nat /\ arg \in Nat
      /\ HereWords(t, First1(t, ints, flts), Second(t, ints, flts)) /\ NInt \in Nat /\ NFlt \in Nat
  BY <1>1, BindFacts, CallNumbers, WordsHere, NumbersAssumption
<1>3. z \in Nat /\ z <= Word /\ First1(t, ints, flts) = KindOf(t.kind, ints, flts)
  <2>1. t \in ArgTypes /\ t.kind # "struct" /\ ints \in Nat /\ flts \in Nat
    BY <1>1, <1>2
  <2> HIDE DEF s, o
  <2>2. QED
    BY <2>1, ScalarFacts
<1>4. First1(t, ints, flts) = "stk"
  <2>1. (t.kind = "int" /\ ints >= NInt) \/ (t.kind = "flt" /\ flts >= NFlt)
    BY <1>1
  <2>2. KindOf(t.kind, ints, flts) = "stk"
    BY <1>2, <2>1 DEF KindOf
  <2>3. QED
    BY <1>3, <2>2
<1>5. s = Count("stk", Before)
  BY IndexIs
<1>6. s \in Nat /\ stack[Len(stack) - s] = WordFrom(sig, [arg |-> arg, chunk |-> 0, kind |-> "stk"])
  BY <1>2, <1>4, <1>5 DEF HereWords
<1> HIDE DEF s, z
<1>7. ASSUME NEW n \in 0..z - 1 PROVE OnStack(stack, o + n, arg, n)
  <2>1. n \in 0..Word - 1 /\ 0 * Word + n = n /\ n < z
    BY <1>3 DEF Word
  <2>2. sig[arg].size \in Nat /\ 0 * Word + n < sig[arg].size /\ 0 \in {0, 1}
    BY <1>1, <1>3, <2>1 DEF z
  <2>3. WordFrom(sig, [arg |-> arg, chunk |-> 0, kind |-> "stk"])[n + 1] = <<arg, 0 * Word + n>>
    BY <1>2, <2>1, <2>2, UnitOf
  <2>4. o + n >= 2 * Word /\ (o + n) \div Word - 2 = s /\ (o + n) % Word = n
    BY <1>6, <2>1 DEF Word
  <2>5. stack[Len(stack) - s][n + 1] = <<arg, n>>
    BY <1>6, <2>1, <2>3
  <2> HIDE DEF o
  <2>6. QED
    BY <2>4, <2>5 DEF OnStack
<1>8. o \in Int
  BY <1>6 DEF Word
<1>9. \A n \in 0..sig[arg].size - 1 :
        InFrame(frame', next', o + n, arg, n) \/ OnStack(stack, o + n, arg, n)
  BY <1>1, <1>7 DEF z
<1>10. \A x, p, n : InFrame(frame, next, x, p, n) => InFrame(frame', next', x, p, n)
  BY <1>1
<1> HIDE DEF o
<1>11. QED
  BY <1>1, <1>8, <1>9, <1>10, ArriveStep

\* A struct of one or two words from its registers.
LEMMA StructArrives ==
  ASSUME CallInv, Arrived, NEW t, BindStruct(t), Admit \subseteq {"wide"}
  PROVE  Arrived'
<1> DEFINE k  == First1(t, ints, flts)
           l  == Second(t, ints, flts)
           x  == [arg |-> arg, chunk |-> 0, kind |-> k]
           y  == [arg |-> arg, chunk |-> 1, kind |-> l]
           w1 == WordFrom(sig, x)
           w2 == WordFrom(sig, y)
           z  == t.size
           m  == next'
           h  == Write(frame, -m, w1, Word)
           g  == Write(h, -m + Word, w2, Word)
           two == Len(Classes(t)) = 2
<1>1. /\ phase = "bind" /\ phase' = "bind" /\ arg <= Len(sig) /\ t = sig[arg] /\ t.kind = "struct"
      /\ m = Alloc(next, t) /\ place' = Append(place, -m)
      /\ sig' = sig /\ stack' = stack
  BY StructBound DEF sides
<1>2. /\ t \in ArgTypes /\ next \in Nat /\ ints \in Nat /\ flts \in Nat /\ arg \in Nat
      /\ HereWords(t, k, l) /\ k \in {"int", "flt", "stk"} /\ l \in {"int", "flt", "stk"}
  BY <1>1, BindFacts, CallNumbers, WordsHere
<1>3. /\ k # "stk" /\ (two => l # "stk") /\ ~Large(t) /\ z % Word = 0
  BY <1>1, Whole DEF IsStruct
<1>4. frame' = IF two THEN g ELSE h
  <2> DEFINE v1 == IF k = "stk" THEN Pad ELSE Reg(k, IF k = "int" THEN ints ELSE flts)
             v2 == IF l = "stk" THEN Pad ELSE Reg(l, IF l = "int" THEN ints + One(k = "int") ELSE flts + One(k = "flt"))
             h0 == Write(frame, -m, v1, Word)
  <2>1. frame' = IF Large(t) THEN frame
                 ELSE IF two THEN Write(h0, -m + Word, v2, Word) ELSE h0
    BY StructBound
  <2>2. v1 = w1 /\ (two => v2 = w2)
    BY <1>2, <1>3 DEF HereWords
  <2> HIDE DEF v1, v2, w1, w2, m, two
  <2>3. QED
    BY <1>3, <2>1, <2>2
<1>5. m \in Nat /\ m >= next + z
  BY <1>1, <1>2, AllocFacts
<1>6. z \in Nat /\ z >= Word /\ (IF two THEN z = 2 * Word ELSE z = Word)
  <2>1. z \in Nat /\ z > 0
    BY <1>2, TypesAssumption
  <2>2. z <= 2 * Word
    BY <1>1, <1>3, <2>1 DEF Large, IsStruct, Word
  <2>3. two <=> z > Word
    <3>1. Len(Classes(t)) = IF t.size > Word THEN 2 ELSE 1
      BY <1>1, <1>2, <1>3, ClassesAre DEF IsStruct
    <3>2. QED
      BY <3>1
  <2> HIDE DEF z, two
  <2>4. QED
    BY <1>3, <2>1, <2>2, <2>3 DEF Word
<1>7. /\ \A n \in 0..Word - 1 : w1[n + 1] = <<arg, 0 + n>>
      /\ two => \A n \in 0..Word - 1 : w2[n + 1] = <<arg, Word + n>>
  <2>1. ASSUME NEW n \in 0..Word - 1 PROVE w1[n + 1] = <<arg, 0 + n>>
    <3>1. 0 * Word + n = 0 + n /\ 0 * Word + n < z /\ 0 \in {0, 1}
      BY <1>6 DEF Word
    <3>2. sig[arg].size = z
      BY <1>1
    <3> HIDE DEF z
    <3>3. w1[n + 1] = <<arg, 0 * Word + n>>
      BY <1>2, <1>6, <3>1, <3>2, UnitOf
    <3>4. QED
      BY <3>1, <3>3
  <2>2. ASSUME two, NEW n \in 0..Word - 1 PROVE w2[n + 1] = <<arg, Word + n>>
    <3>1. 1 * Word + n = Word + n /\ 1 * Word + n < z /\ 1 \in {0, 1}
      BY <1>6, <2>2 DEF Word
    <3>2. sig[arg].size = z
      BY <1>1
    <3> HIDE DEF z
    <3>3. w2[n + 1] = <<arg, 1 * Word + n>>
      BY <1>2, <1>6, <3>1, <3>2, UnitOf
    <3>4. QED
      BY <3>1, <3>3
  <2>3. QED
    BY <2>1, <2>2
<1> DEFINE o == -m
<1> HIDE DEF w1, w2, z, m, two, k, l, x, y, o
<1>8. /\ Word \in Nat /\ o \in Int /\ o + Word \in Int /\ -m <= o /\ -m <= o + Word
      /\ o + Word <= -next /\ o + Word <= 0 /\ m >= next
      /\ two => (o + Word) + Word <= -next /\ (o + Word) + Word <= 0
      /\ o + Word >= -m + Word
  BY <1>2, <1>5, <1>6 DEF Word, o
<1> DEFINE H == Write(frame, o, w1, Word)
           G == Write(H, o + Word, w2, Word)
<1>9. frame' = IF two THEN G ELSE H
  BY <1>4 DEF o
<1>10. /\ \A v, p, n : InFrame(frame, next, v, p, n) => InFrame(H, next, v, p, n)
       /\ \A n \in 0..Word - 1 : InFrame(H, m, o + n, arg, 0 + n)
  <2>1. \A v, p, n : InFrame(frame, next, v, p, n) => InFrame(H, next, v, p, n)
    BY <1>2, <1>8, Kept
  <2>2. \A n \in 0..Word - 1 : InFrame(H, m, o + n, arg, 0 + n)
    BY <1>5, <1>7, <1>8, Put
  <2>3. QED
    BY <2>1, <2>2
<1> HIDE DEF H
<1>11. ASSUME two
       PROVE  /\ \A v, p, n : InFrame(H, next, v, p, n) => InFrame(G, next, v, p, n)
              /\ \A n \in 0..Word - 1 : InFrame(G, m, o + n, arg, 0 + n)
              /\ \A n \in 0..Word - 1 : InFrame(G, m, (o + Word) + n, arg, Word + n)
  <2> DEFINE q == o + Word
  <2>1. q \in Int /\ q + Word <= -next /\ q + Word <= 0 /\ -m <= q /\ Word \in Nat
    BY <1>8, <1>11
  <2>2. \A n \in 0..Word - 1 : o + n \notin q..q + Word - 1
    BY <1>8 DEF Word
  <2> HIDE DEF q
  <2>3. \A v, p, n : InFrame(H, next, v, p, n) => InFrame(Write(H, q, w2, Word), next, v, p, n)
    BY <1>2, <2>1, Kept
  <2>4. \A n \in 0..Word - 1 : InFrame(Write(H, q, w2, Word), m, q + n, arg, Word + n)
    BY <1>5, <1>7, <1>11, <2>1, Put
  <2>5. ASSUME NEW n \in 0..Word - 1 PROVE InFrame(Write(H, q, w2, Word), m, o + n, arg, 0 + n)
    <3> DEFINE v == o + n
    <3>1. v \notin q..q + Word - 1 /\ InFrame(H, m, v, arg, 0 + n)
      BY <1>10, <2>2
    <3> HIDE DEF v
    <3>2. v \in DOMAIN H /\ v \in -m..-1 /\ H[v] = <<arg, 0 + n>>
      BY <3>1 DEF InFrame
    <3>3. v \in DOMAIN Write(H, q, w2, Word) /\ Write(H, q, w2, Word)[v] = H[v]
      BY <3>1, <3>2 DEF Write
    <3>4. InFrame(Write(H, q, w2, Word), m, v, arg, 0 + n)
      BY <3>2, <3>3 DEF InFrame
    <3>5. QED
      BY <3>4 DEF v
  <2>6. QED
    BY <2>3, <2>4, <2>5 DEF q
<1> HIDE DEF G
<1>12. \A v, p, n : InFrame(frame, next, v, p, n) => InFrame(frame', m, v, p, n)
  <2> DEFINE u == frame'
  <2>1. \A v, p, n : InFrame(frame, next, v, p, n) => InFrame(u, next, v, p, n)
    BY <1>9, <1>10, <1>11
  <2> HIDE DEF u
  <2>2. \A v, p, n : InFrame(u, next, v, p, n) => InFrame(u, m, v, p, n)
    BY <1>2, <1>5, <1>8, Wider
  <2>3. QED
    BY <2>1, <2>2 DEF u
<1>13. ASSUME NEW n \in 0..z - 1 PROVE InFrame(frame', m, o + n, arg, n)
  <2>1. CASE n < Word
    <3>1. n \in 0..Word - 1 /\ 0 + n = n
      BY <1>6, <2>1 DEF Word
    <3>2. InFrame(frame', m, o + n, arg, 0 + n)
      BY <1>9, <1>10, <1>11, <3>1
    <3>3. QED
      BY <3>1, <3>2
  <2>2. CASE n >= Word
    <3> DEFINE i == n - Word
    <3>1. two
      BY <1>6, <2>2 DEF Word
    <3>2. i \in 0..Word - 1 /\ Word + i = n /\ (o + Word) + i = o + n
      BY <1>6, <1>8, <2>2, <3>1 DEF Word
    <3> HIDE DEF i
    <3>3. InFrame(G, m, (o + Word) + i, arg, Word + i)
      BY <1>11, <3>1, <3>2
    <3>4. QED
      BY <1>9, <3>1, <3>2, <3>3
  <2>3. QED
    BY <1>6, <2>1, <2>2 DEF Word
<1>14. QED
  <2>1. \A n \in 0..sig[arg].size - 1 :
          InFrame(frame', next', o + n, arg, n) \/ OnStack(stack, o + n, arg, n)
    BY <1>1, <1>13 DEF z, m
  <2>2. \A v, p, n : InFrame(frame, next, v, p, n) => InFrame(frame', next', v, p, n)
    BY <1>12 DEF m
  <2>3. place' = Append(place, o)
    BY <1>1 DEF o, m
  <2>4. QED
    BY <1>1, <1>8, <2>1, <2>2, <2>3, ArriveStep


\* A variadic call without deviations: the i-th slot is that of the i-th argument,
\* and goes to the i-th integer register.
Plain(q, i) ==
  LET b == SlotsTo(q)[i]
  IN  i <= NInt /\ Len(b) = i /\ Count("int", b) = i

PlainStep(q, i) ==
  /\ i <= NInt /\ q[i].kind = "int"
  /\ SlotsTo(q)[i] = SlotsTo(q)[i - 1] \o Made(i, q[i], "int", "stk")

\* One argument more.
LEMMA PlainNext ==
  ASSUME NEW q \in Seq(ArgTypes), NEW i \in 1..Len(q), Plain(q, i - 1),
         \A k \in DOMAIN SlotsTo(q)[Len(q)] :
           ~(k > NInt) /\ q[SlotsTo(q)[Len(q)][k].arg].kind = "int"
  PROVE  Plain(q, i) /\ PlainStep(q, i)
<1> DEFINE all == SlotsTo(q)[Len(q)]
           b   == SlotsTo(q)[i - 1]
           now == SlotsTo(q)[i]
           t   == q[i]
           e   == Count("int", b)
           f   == Count("flt", b)
           k   == First1(t, e, f)
           l   == Second1(t, e, f)
           x   == [arg |-> i, chunk |-> 0, kind |-> k]
           mk  == Made(i, t, k, l)
<1>1. i \in Nat /\ i > 0 /\ i \in 0..Len(q) /\ t \in ArgTypes /\ Len(q) \in Nat /\ NInt \in Nat
  BY NumbersAssumption
<1>2. b \in Seq(Slot) /\ now = b \o SlotsOf(i, t, e, f) /\ SlotsOf(i, t, e, f) \in Seq(Slot)
  BY <1>1, SlotsType
<1>3. e \in Nat /\ f \in Nat
  BY <1>2, OfType
<1>4. SlotsOf(i, t, e, f) = mk
  <2> HIDE DEF t, e, f
  <2>1. SlotsOf(i, t, e, f) = Made(i, t, First1(t, e, f), Second1(t, e, f))
    BY <1>1, <1>3, SlotsAre
  <2>2. QED
    BY <2>1
<1>5. PICK r \in Seq(Slot) : all = now \o r
  BY <1>1, SlotsPrefix
<1>6. Len(mk) >= 1 /\ mk[1] = x
  <2>1. mk = <<x>> \/ \E y : mk = <<x, y>>
    BY DEF Made
  <2> HIDE DEF mk, x
  <2>2. QED
    BY <2>1
<1>7. Len(b) = i - 1 /\ e = i - 1
  BY DEF Plain
<1>8. i \in DOMAIN all /\ all[i] = x
  <2> HIDE DEF all, b, now, t, e, f, k, l, x, mk
  <2>1. now \in Seq(Slot) /\ mk \in Seq(Slot) /\ now = b \o mk
    BY <1>2, <1>4
  <2>2. Len(now) = Len(b) + Len(mk) /\ now[i] = x /\ i \in 1..Len(now)
    BY <1>1, <1>2, <1>6, <1>7, <2>1
  <2>3. all[i] = now[i] /\ i \in 1..Len(all)
    BY <1>5, <2>1, <2>2
  <2>4. all \in Seq(Slot)
    BY <1>5, <2>1
  <2>5. QED
    BY <2>2, <2>3, <2>4
<1>9. i <= NInt /\ t.kind = "int"
  <2>1. x.arg = i
    OBVIOUS
  <2> HIDE DEF all, x
  <2>2. ~(i > NInt) /\ q[all[i].arg].kind = "int"
    BY <1>8 DEF all
  <2>3. QED
    BY <1>1, <1>8, <2>1, <2>2
<1>10. k = "int" /\ Len(Classes(t)) = 1
  <2>1. Classes(t) = <<"int">>
    BY <1>1, <1>9, ClassesAre DEF IsStruct
  <2>2. e < NInt
    BY <1>1, <1>7, <1>9
  <2>3. QED
    BY <2>1, <2>2 DEF First1, KindOf
<1>11. now = b \o Made(i, t, "int", "stk") /\ now = b \o <<x>> /\ x \in Slot /\ x.kind = "int"
  BY <1>1, <1>2, <1>4, <1>10 DEF Made, Slot
<1> HIDE DEF b, now, x
<1>12. Len(now) = i /\ Count("int", now) = i
  <2>1. <<x>> \in Seq(Slot) /\ Len(<<x>>) = 1
    BY <1>11
  <2> DEFINE one == <<x>>
  <2>2. Count("int", now) = Count("int", b) + Count("int", one)
    <3>1. one \in Seq(Slot) /\ now = b \o one
      BY <1>11, <2>1
    <3> HIDE DEF one
    <3>2. Count("int", b \o one) = Count("int", b) + Count("int", one)
      BY <1>2, <3>1, OfConcat
    <3>3. QED
      BY <3>1, <3>2
  <2>3. Count("int", <<x>>) = 1
    BY <1>11, CountFew
  <2>4. Len(now) = Len(b) + 1
    BY <1>2, <1>11, <2>1
  <2>5. QED
    BY <1>1, <1>7, <2>2, <2>3, <2>4
<1>13. QED
  BY <1>9, <1>11, <1>12 DEF Plain, PlainStep, now, b

\* Every argument of such a call.
LEMMA AllPlain ==
  ASSUME NEW q \in Seq(ArgTypes),
         \A k \in DOMAIN SlotsTo(q)[Len(q)] :
           ~(k > NInt) /\ q[SlotsTo(q)[Len(q)][k].arg].kind = "int"
  PROVE  \A i \in 1..Len(q) : Plain(q, i - 1) /\ PlainStep(q, i)
<1> DEFINE Bad == {n \in Nat : n \in 0..Len(q) /\ ~Plain(q, n)}
           m   == Min(Bad)
<1>1. Len(q) \in Nat
  OBVIOUS
<1>2. Plain(q, 0)
  <2>1. 0 \in 0..Len(q)
    BY <1>1
  <2>2. SlotsTo(q)[0] = << >>
    BY <2>1, SlotsType
  <2>3. QED
    BY <2>2, OfEmpty, NumbersAssumption DEF Plain
<1>3. Bad = {}
  <2>1. SUFFICES ASSUME Bad # {} PROVE FALSE
    OBVIOUS
  <2>2. m \in Bad /\ \A n \in 0..m - 1 : n \notin Bad
    BY <2>1, LeastOf
  <2> HIDE DEF m
  <2>3. m \in 1..Len(q) /\ ~Plain(q, m) /\ m - 1 \in 0..m - 1 /\ m - 1 \in Nat /\ m - 1 \in 0..Len(q)
    <3>1. m \in Nat /\ m \in 0..Len(q) /\ ~Plain(q, m)
      BY <2>2
    <3>2. m # 0
      BY <1>2, <3>1
    <3>3. QED
      BY <1>1, <3>1, <3>2
  <2>4. Plain(q, m - 1)
    BY <2>2, <2>3
  <2>5. QED
    BY <2>3, <2>4, PlainNext
<1>4. ASSUME NEW i \in 1..Len(q) PROVE Plain(q, i - 1) /\ PlainStep(q, i)
  <2>1. i - 1 \in 0..Len(q) /\ i - 1 \in Nat
    BY <1>1
  <2>2. Plain(q, i - 1)
    BY <1>3, <2>1
  <2>3. QED
    BY <2>2, PlainNext
<1>5. QED
  BY <1>4


\* The register that a parameter of a variadic function comes in.
LEMMA PlainWord ==
  ASSUME CallInv, phase = "pop", todo = << >>, variadic, "variadic" \notin Admit, NEW p \in 1..Len(sig)
  PROVE  /\ p \in Nat /\ p <= NInt /\ sig[p].size \in Nat /\ sig[p].size <= Word
         /\ Reg("int", p - 1) = WordFrom(sig, [arg |-> p, chunk |-> 0, kind |-> "int"])
<1> DEFINE all == SlotsTo(sig)[Len(sig)]
           x   == [arg |-> p, chunk |-> 0, kind |-> "int"]
           w   == regs["int"]
           e   == Of("int", all)
<1>1. sig \in Seq(ArgTypes) /\ Len(sig) \in Nat /\ sig[p] \in ArgTypes /\ p \in Nat /\ p > 0
  BY SigFacts DEF CallInv
<1>2. \A k \in DOMAIN all : ~(k > NInt) /\ sig[all[k].arg].kind = "int"
  <2>1. "variadic" \notin Deviations(sig, variadic)
    BY DEF CallInv, CallTypes
  <2>2. QED
    BY <2>1, Regular, Zenon
<1>3. Plain(sig, p - 1) /\ PlainStep(sig, p)
  BY <1>1, <1>2, AllPlain
<1>4. p - 1 < Count("int", all) /\ e[p] = x
  <2> DEFINE b == SlotsTo(sig)[p - 1]
  <2>1. Count("int", b) = p - 1
    BY <1>3 DEF Plain
  <2>2. SlotsTo(sig)[p] = b \o Made(p, sig[p], "int", "stk")
    BY <1>3 DEF PlainStep
  <2>3. Count("int", b) < Count("int", all) /\ e[Count("int", b) + 1] = x
    BY <1>1, <2>2, SlotWords
  <2> HIDE DEF b, all, e, x
  <2>4. Count("int", b) + 1 = p
    BY <1>1, <2>1
  <2>5. QED
    BY <2>1, <2>3, <2>4
<1>5. slots = all /\ slots \in Seq(Slot)
  BY DEF CallInv, Classified, CallTypes
<1>6. Fills(w, sig, e)
  BY <1>5, AllPopped
<1>7. Len(e) = Count("int", all) /\ Len(e) \in Nat
  BY <1>5, OfType
<1>8. p \in 1..Len(e) /\ Len(w) = Len(e)
  <2> HIDE DEF all, e, w
  <2>1. QED
    BY <1>1, <1>4, <1>6, <1>7 DEF Fills
<1>9. w[p] = WordFrom(sig, x)
  <2> HIDE DEF all, e, w, x
  <2>1. QED
    BY <1>4, <1>6, <1>8 DEF Fills
<1>10. Reg("int", p - 1) = w[p]
  <2>1. Reg("int", p - 1) = IF p - 1 < Len(w) THEN w[p - 1 + 1] ELSE Pad
    BY DEF Reg
  <2> HIDE DEF w, e
  <2>2. p - 1 < Len(w) /\ p - 1 + 1 = p
    BY <1>1, <1>7, <1>8
  <2>3. QED
    BY <2>1, <2>2
<1>11. p <= NInt /\ sig[p].size \in Nat /\ sig[p].size <= Word
  <2>1. sig[p].kind # "struct" /\ p <= NInt
    BY <1>3 DEF PlainStep
  <2>2. QED
    BY <1>1, <2>1, TypesAssumption DEF Word
<1>12. QED
  BY <1>1, <1>9, <1>10, <1>11

\* A variadic function saves its named parameters with the registers.
LEMMA EnterArrives ==
  ASSUME CallInv, Enter, Admit \subseteq {"wide"}
  PROVE  Arrived'
<1>1. /\ phase = "pop" /\ todo = << >> /\ sig' = sig /\ variadic \in BOOLEAN
  BY DEF Enter, CallInv, CallTypes
<1>2. CASE ~variadic
  <2>1. place = << >> /\ place' = place
    BY <1>1, <1>2 DEF CallInv, Counted, Enter
  <2>2. \A p \in 1..Len(place') : FALSE
    BY <2>1
  <2>3. QED
    BY <2>2 DEF Arrived
<1>3. CASE variadic
  <2>1. /\ place' = [i \in DOMAIN sig |-> -i * Word] /\ next' = NInt * Word
        /\ frame' = [x \in DOMAIN frame \cup -(NInt * Word)..-1 |->
                       IF x >= 0 THEN frame[x]
                       ELSE LET k == (-x + Word - 1) \div Word
                            IN  Reg("int", k - 1)[x + k * Word + 1]]
    BY <1>3 DEF Enter
  <2>2. DOMAIN sig = 1..Len(sig) /\ Len(sig) \in Nat /\ NInt \in Nat
    BY SigFacts, NumbersAssumption DEF CallInv
  <2>3. Len(place') = Len(sig)
    BY <2>1, <2>2
  <2> DEFINE m == NInt * Word
  <2>4. ASSUME NEW p \in 1..Len(sig), NEW n \in 0..sig[p].size - 1
        PROVE  InFrame(frame', m, place'[p] + n, p, n)
    <3> DEFINE w == Reg("int", p - 1)
               o == -p * Word + n
    <3>1. /\ p \in Nat /\ p > 0 /\ p <= NInt /\ sig[p].size \in Nat /\ sig[p].size <= Word
          /\ w = WordFrom(sig, [arg |-> p, chunk |-> 0, kind |-> "int"])
      BY <1>1, <1>3, PlainWord
    <3>2. n \in 0..Word - 1 /\ 0 * Word + n = n /\ 0 * Word + n < sig[p].size /\ 0 \in {0, 1}
      BY <3>1 DEF Word
    <3>3. w[n + 1] = <<p, n>>
      <4>1. WordFrom(sig, [arg |-> p, chunk |-> 0, kind |-> "int"])[n + 1] = <<p, 0 * Word + n>>
        BY <3>1, <3>2, UnitOf
      <4>2. QED
        BY <3>1, <3>2, <4>1
    <3>4. place'[p] + n = o
      BY <2>1, <2>2
    <3>5. o \in -m..-1 /\ ~(o >= 0) /\ (-o + Word - 1) \div Word = p /\ o + p * Word + 1 = n + 1
      <4>1. n = 0 \/ n = 1
        BY <3>2 DEF Word
      <4>2. QED
        BY <2>2, <3>1, <4>1 DEF Word
    <3> HIDE DEF o, m, w
    <3>6. o \in DOMAIN frame' /\ frame'[o] = w[n + 1]
      <4>1. o \in DOMAIN frame'
        BY <2>1, <3>5 DEF m
      <4>2. frame'[o] = LET k == (-o + Word - 1) \div Word IN Reg("int", k - 1)[o + k * Word + 1]
        BY <2>1, <3>5, <4>1
      <4>3. QED
        BY <3>5, <4>1, <4>2 DEF w
    <3>7. InFrame(frame', m, o, p, n)
      BY <3>3, <3>5, <3>6 DEF InFrame
    <3>8. QED
      BY <3>4, <3>7
  <2>5. next' = m
    BY <2>1
  <2> HIDE DEF m
  <2>6. QED
    BY <1>1, <2>3, <2>4, <2>5 DEF Arrived
<1>4. QED
  BY <1>1, <1>2, <1>3

\* Locals only make the frame larger.
LEMMA BodyArrives ==
  ASSUME CallInv, Arrived, Body
  PROVE  Arrived'
<1>1. phase = "bind" /\ place' = place /\ frame' = frame /\ stack' = stack /\ sig' = sig
  BY DEF Body, sides
<1>2. PICK n \in Locals : next' = AlignUp(next + n, Word)
  BY DEF Body
<1>3. n \in Nat /\ next \in Nat
  BY NumbersAssumption, CallNumbers
<1>4. next' \in Nat /\ next' >= next
  <2>1. next + n \in Nat /\ Word \in Nat \ {0}
    BY <1>3 DEF Word
  <2>2. AlignUp(next + n, Word) \in Nat /\ AlignUp(next + n, Word) >= next + n
    BY <2>1, UpTo
  <2>3. QED
    BY <1>2, <1>3, <2>2
<1>5. \A x, p, i : InFrame(frame, next, x, p, i) => InFrame(frame', next', x, p, i)
  <2> DEFINE m == next'
  <2>1. m \in Nat /\ m >= next
    BY <1>4
  <2> HIDE DEF m
  <2>2. \A x, p, i : InFrame(frame, next, x, p, i) => InFrame(frame, m, x, p, i)
    BY <1>3, <2>1, Wider
  <2>3. QED
    BY <1>1, <2>2 DEF m
<1>6. \A p \in 1..Len(place) : \A i \in 0..sig[p].size - 1 :
        InFrame(frame, next, place[p] + i, p, i) \/ OnStack(stack, place[p] + i, p, i)
  BY <1>1 DEF Arrived
<1>7. \A p \in 1..Len(place') : \A i \in 0..sig'[p].size - 1 :
        InFrame(frame', next', place'[p] + i, p, i) \/ OnStack(stack', place'[p] + i, p, i)
  BY <1>1, <1>5, <1>6
<1>8. QED
  BY <1>7 DEF Arrived


\* The slots of the parameter come behind those before it.
LEMMA NewSlots ==
  ASSUME CallInv, phase = "bind", arg <= Len(sig)
  PROVE  LET b   == Before
             new == SlotsTo(sig)[arg]
         IN  /\ Len(b) \in Nat /\ Len(b) + 1 \in 1..Len(new)
             /\ \A j \in 1..Len(b) : j \in 1..Len(new) /\ new[j] = b[j]
             /\ new[Len(b) + 1] = [arg |-> arg, chunk |-> 0, kind |-> First1(sig[arg], ints, flts)]
             /\ \A kind \in {"int", "flt", "stk"} : Count(kind, b) \in Nat
<1> DEFINE b   == Before
           new == SlotsTo(sig)[arg]
           k   == First1(sig[arg], ints, flts)
           l   == Second(sig[arg], ints, flts)
           x   == [arg |-> arg, chunk |-> 0, kind |-> k]
           mk  == Made(arg, sig[arg], k, l)
<1>1. b \in Seq(Slot) /\ new \in Seq(Slot) /\ new = b \o mk /\ arg \in Nat
      /\ k \in {"int", "flt", "stk"} /\ l \in {"int", "flt", "stk"}
  BY BindFacts, CallNumbers DEF SameSlots
<1>2. mk \in Seq(Slot) /\ Len(mk) >= 1 /\ mk[1] = x
  <2> DEFINE y == [arg |-> arg, chunk |-> 1, kind |-> l]
  <2>1. x \in Slot /\ y \in Slot
    BY <1>1 DEF Slot
  <2>2. mk = <<x>> \/ mk = <<x, y>>
    BY DEF Made
  <2> HIDE DEF mk, x, y
  <2>3. /\ <<x>> \in Seq(Slot) /\ Len(<<x>>) = 1 /\ <<x>>[1] = x
        /\ <<x, y>> \in Seq(Slot) /\ Len(<<x, y>>) = 2 /\ <<x, y>>[1] = x
    BY <2>1
  <2>4. CASE mk = <<x>>
    BY <2>3, <2>4
  <2>5. CASE mk = <<x, y>>
    BY <2>3, <2>5
  <2>6. QED
    BY <2>2, <2>4, <2>5
<1>3. \A kind \in {"int", "flt", "stk"} : Count(kind, b) \in Nat
  BY <1>1, OfType
<1> HIDE DEF b, new, mk, x
<1>4. Len(b) \in Nat /\ Len(new) = Len(b) + Len(mk) /\ Len(mk) \in Nat /\ Len(new) \in Nat
  BY <1>1, <1>2
<1>5. /\ \A j \in 1..Len(b) : new[j] = b[j]
      /\ new[Len(b) + 1] = mk[1]
  BY <1>1, <1>2, <1>4
<1>6. \A j \in 1..Len(b) : j \in 1..Len(new)
  BY <1>4
<1>7. Len(b) + 1 \in 1..Len(new)
  BY <1>2, <1>4
<1>8. QED
  BY <1>2, <1>3, <1>4, <1>5, <1>6, <1>7 DEF b, new, x

\* What a step that takes a parameter from registers leaves behind.
LEMMA RegisterSpills ==
  ASSUME CallInv, Spilled, phase = "bind", arg <= Len(sig),
         phase' = "bind", sig' = sig, variadic' = variadic, arg' = arg + 1,
         First1(sig[arg], ints, flts) # "stk",
         Len(Classes(sig[arg])) = 2 => Second(sig[arg], ints, flts) # "stk",
         ints' = ints + One(First1(sig[arg], ints, flts) = "int") + One(Second(sig[arg], ints, flts) = "int"),
         flts' = flts + One(First1(sig[arg], ints, flts) = "flt") + One(Second(sig[arg], ints, flts) = "flt")
  PROVE  Spilled'
<1> DEFINE t   == sig[arg]
           b   == Before
           new == SlotsTo(sig)[arg]
           k   == First1(t, ints, flts)
           l   == Second(t, ints, flts)
           i   == ints'
           f   == flts'
<1>1. ~variadic /\ arg \in 1..Len(sig) /\ Len(sig) \in Nat /\ SameSlots(arg, t, b, new, k, l)
  BY BindFacts
<1>2. /\ Len(b) \in Nat /\ \A j \in 1..Len(b) : j \in 1..Len(new) /\ new[j] = b[j]
      /\ Count("int", b) \in Nat /\ Count("flt", b) \in Nat /\ Count("stk", b) \in Nat
  BY NewSlots
<1>3. ints \in Nat /\ flts \in Nat
  BY CallNumbers
<1>4. Before' = new
  BY <1>1 DEF Before
<1>5. /\ Count("stk", b) = (ints - Count("int", b)) + (flts - Count("flt", b))
      /\ flts > Count("flt", b) => \E j \in 1..Len(b) : b[j].kind = "stk" /\ sig[b[j].arg].kind = "flt"
  BY <1>1 DEF Spilled
<1>6. /\ One(k = "stk") = 0 /\ (Len(Classes(t)) = 2 => One(l = "stk") = 0)
      /\ One(k = "int") \in Nat /\ One(l = "int") \in Nat /\ One(k = "flt") \in Nat /\ One(l = "flt") \in Nat
  BY DEF One
<1> DEFINE ki == One(k = "int")
           li == One(l = "int")
           kf == One(k = "flt")
           lf == One(l = "flt")
<1>7. /\ Count("stk", new) = Count("stk", b)
      /\ Count("int", new) = Count("int", b) + ki + li
      /\ Count("flt", new) = Count("flt", b) + kf + lf
      /\ i = ints + ki + li /\ f = flts + kf + lf
      /\ ki \in Nat /\ li \in Nat /\ kf \in Nat /\ lf \in Nat
  <2>1. Count("stk", new) = Count("stk", b) + 0 + 0
    BY <1>1, <1>6 DEF SameSlots
  <2>2. Count("stk", new) = Count("stk", b)
    BY <1>2, <2>1
  <2>3. /\ Count("int", new) = Count("int", b) + ki + li
        /\ Count("flt", new) = Count("flt", b) + kf + lf
    BY <1>1 DEF SameSlots
  <2>4. i = ints + ki + li /\ f = flts + kf + lf
    OBVIOUS
  <2>5. QED
    BY <1>6, <2>2, <2>3, <2>4
<1> HIDE DEF t, b, new, k, l, i, f, ki, li, kf, lf
<1>8. Count("stk", new) = (i - Count("int", new)) + (f - Count("flt", new))
  <2>1. Count("stk", b) = (ints - Count("int", b)) + (flts - Count("flt", b))
    BY <1>5
  <2>2. Count("int", b) \in Nat /\ Count("flt", b) \in Nat
    BY <1>2
  <2> DEFINE x == Count("int", b)
             y == Count("flt", b)
  <2> HIDE DEF x, y
  <2>3. /\ ints \in Nat /\ flts \in Nat /\ x \in Nat /\ y \in Nat
        /\ ki \in Nat /\ li \in Nat /\ kf \in Nat /\ lf \in Nat
    BY <1>3, <1>7, <2>2 DEF x, y
  <2>4. /\ (ints + ki + li) - (x + ki + li) = ints - x
        /\ (flts + kf + lf) - (y + kf + lf) = flts - y
    BY <2>3
  <2>5. i - Count("int", new) = ints - x /\ f - Count("flt", new) = flts - y
    BY <1>7, <2>4 DEF x, y
  <2>6. QED
    BY <1>7, <2>1, <2>5 DEF x, y
<1>9. f > Count("flt", new) => \E j \in 1..Len(new) : new[j].kind = "stk" /\ sig[new[j].arg].kind = "flt"
  <2>1. f > Count("flt", new) => flts > Count("flt", b)
    BY <1>2, <1>3, <1>7
  <2>2. QED
    BY <1>2, <1>5, <2>1
<1>10. QED
  BY <1>4, <1>8, <1>9 DEF Spilled, i, f

\* What a step that finds a parameter on the stack leaves behind.
LEMMA StackSpills ==
  ASSUME CallInv, Spilled, NEW t, BindStack(t)
  PROVE  Spilled'
<1> DEFINE b   == Before
           new == SlotsTo(sig)[arg]
           k   == First1(t, ints, flts)
           l   == Second(t, ints, flts)
           i   == ints'
           f   == flts'
<1>1. /\ phase = "bind" /\ phase' = "bind" /\ arg <= Len(sig) /\ t = sig[arg]
      /\ (t.kind = "int" /\ ints >= NInt) \/ (t.kind = "flt" /\ flts >= NFlt)
      /\ i = ints + One(t.kind = "int") /\ f = flts + One(t.kind = "flt")
      /\ arg' = arg + 1 /\ sig' = sig /\ variadic' = variadic
  BY DEF BindStack, Binding, sides
<1>2. /\ ~variadic /\ arg \in 1..Len(sig) /\ Len(sig) \in Nat /\ SameSlots(arg, t, b, new, k, l)
      /\ t \in ArgTypes
  BY <1>1, BindFacts
<1>3. /\ Len(b) \in Nat /\ \A j \in 1..Len(b) : j \in 1..Len(new) /\ new[j] = b[j]
      /\ Count("int", b) \in Nat /\ Count("flt", b) \in Nat /\ Count("stk", b) \in Nat
      /\ Len(b) + 1 \in 1..Len(new) /\ new[Len(b) + 1] = [arg |-> arg, chunk |-> 0, kind |-> k]
  BY <1>1, NewSlots
<1>4. ints \in Nat /\ flts \in Nat /\ NInt \in Nat /\ NFlt \in Nat
  BY CallNumbers, NumbersAssumption
<1>5. Before' = new
  BY <1>1, <1>2 DEF Before
<1>6. /\ Count("stk", b) = (ints - Count("int", b)) + (flts - Count("flt", b))
      /\ flts > Count("flt", b) => \E j \in 1..Len(b) : b[j].kind = "stk" /\ sig[b[j].arg].kind = "flt"
  BY <1>1, <1>2 DEF Spilled
<1>7. k = "stk" /\ l = "stk" /\ Len(Classes(t)) = 1
  <2>1. k = KindOf(t.kind, ints, flts) /\ l = "stk" /\ Len(Classes(t)) = 1
    BY <1>1, <1>2, <1>4, ScalarFacts
  <2>2. KindOf(t.kind, ints, flts) = "stk"
    BY <1>1, <1>4 DEF KindOf
  <2>3. QED
    BY <2>1, <2>2
<1> HIDE DEF k, l
<1>8. /\ Count("stk", new) = Count("stk", b) + 1
      /\ Count("int", new) = Count("int", b) /\ Count("flt", new) = Count("flt", b)
  <2>1. One(k = "stk") = 1 /\ One(k = "int") = 0 /\ One(k = "flt") = 0 /\ One(l = "int") = 0 /\ One(l = "flt") = 0
    BY <1>7 DEF One
  <2>2. /\ Count("stk", new) = Count("stk", b) + 1 + 0
        /\ Count("int", new) = Count("int", b) + 0 + 0
        /\ Count("flt", new) = Count("flt", b) + 0 + 0
    BY <1>2, <1>7, <2>1 DEF SameSlots
  <2>3. QED
    BY <1>3, <2>2
<1>9. (t.kind = "int" /\ i = ints + 1 /\ f = flts) \/ (t.kind = "flt" /\ i = ints /\ f = flts + 1)
  BY <1>1, <1>4 DEF One
<1> HIDE DEF b, new, i, f
<1>10. Count("stk", new) = (i - Count("int", new)) + (f - Count("flt", new))
  <2> DEFINE x == Count("int", b)
             y == Count("flt", b)
  <2>1. x \in Nat /\ y \in Nat /\ ints \in Nat /\ flts \in Nat
    BY <1>3, <1>4
  <2>2. Count("stk", new) = (ints - x) + (flts - y) + 1
    BY <1>6, <1>8
  <2>3. Count("int", new) = x /\ Count("flt", new) = y
    BY <1>8
  <2> HIDE DEF x, y
  <2>4. (ints - x) + (flts - y) + 1 = (i - x) + (f - y)
    BY <1>9, <2>1
  <2>5. QED
    BY <2>2, <2>3, <2>4
<1>11. f > Count("flt", new) => \E j \in 1..Len(new) : new[j].kind = "stk" /\ sig[new[j].arg].kind = "flt"
  <2>1. CASE t.kind = "flt"
    <3> DEFINE h == Len(b) + 1
    <3>1. h \in 1..Len(new) /\ new[h].kind = "stk" /\ sig[new[h].arg].kind = "flt"
      BY <1>1, <1>3, <1>7, <2>1
    <3> HIDE DEF h
    <3>2. QED
      BY <3>1
  <2>2. CASE t.kind = "int"
    BY <1>3, <1>6, <1>8, <1>9, <2>2
  <2>3. QED
    BY <1>9, <2>1, <2>2
<1>12. QED
  BY <1>1, <1>5, <1>10, <1>11 DEF Spilled, i, f


\* Each way to bind a parameter keeps Spilled.
LEMMA BindSpills ==
  ASSUME CallInv, Spilled, Bind, Admit \subseteq {"wide"}
  PROVE  Spilled'
<1>1. ASSUME NEW t, BindInt(t) PROVE Spilled'
  <2>1. /\ phase = "bind" /\ phase' = "bind" /\ arg <= Len(sig) /\ t = sig[arg] /\ t.kind = "int"
        /\ ints < NInt /\ ints' = ints + 1 /\ flts' = flts + 0
        /\ arg' = arg + 1 /\ sig' = sig /\ variadic' = variadic
    BY <1>1 DEF BindInt, Binding, BindRegister, One
  <2>2. t \in ArgTypes /\ ints \in Nat /\ flts \in Nat
    BY <2>1, BindFacts, CallNumbers
  <2>3. First1(t, ints, flts) = "int" /\ Second(t, ints, flts) = "stk" /\ Len(Classes(t)) = 1
    BY <2>1, <2>2, ScalarFacts DEF KindOf
  <2>4. /\ ints' = ints + One(First1(t, ints, flts) = "int") + One(Second(t, ints, flts) = "int")
        /\ flts' = flts + One(First1(t, ints, flts) = "flt") + One(Second(t, ints, flts) = "flt")
    BY <2>1, <2>2, <2>3 DEF One
  <2>5. QED
    BY <2>1, <2>3, <2>4, RegisterSpills
<1>2. ASSUME NEW t, BindFlt(t) PROVE Spilled'
  <2>1. /\ phase = "bind" /\ phase' = "bind" /\ arg <= Len(sig) /\ t = sig[arg] /\ t.kind = "flt"
        /\ flts < NFlt /\ ints' = ints + 0 /\ flts' = flts + 1
        /\ arg' = arg + 1 /\ sig' = sig /\ variadic' = variadic
    BY <1>2 DEF BindFlt, Binding, BindRegister, One
  <2>2. t \in ArgTypes /\ ints \in Nat /\ flts \in Nat
    BY <2>1, BindFacts, CallNumbers
  <2>3. First1(t, ints, flts) = "flt" /\ Second(t, ints, flts) = "stk" /\ Len(Classes(t)) = 1
    BY <2>1, <2>2, ScalarFacts DEF KindOf
  <2>4. /\ ints' = ints + One(First1(t, ints, flts) = "int") + One(Second(t, ints, flts) = "int")
        /\ flts' = flts + One(First1(t, ints, flts) = "flt") + One(Second(t, ints, flts) = "flt")
    BY <2>1, <2>2, <2>3 DEF One
  <2>5. QED
    BY <2>1, <2>3, <2>4, RegisterSpills
<1>3. ASSUME NEW t, BindStack(t) PROVE Spilled'
  BY <1>3, StackSpills
<1>4. ASSUME NEW t, BindStruct(t) PROVE Spilled'
  <2>1. /\ phase = "bind" /\ phase' = "bind" /\ arg <= Len(sig) /\ t = sig[arg] /\ t.kind = "struct"
        /\ ints' = ints + One(First1(t, ints, flts) = "int") + One(Second(t, ints, flts) = "int")
        /\ flts' = flts + One(First1(t, ints, flts) = "flt") + One(Second(t, ints, flts) = "flt")
        /\ arg' = arg + 1 /\ sig' = sig /\ variadic' = variadic
    BY <1>4, StructBound
  <2>2. /\ First1(t, ints, flts) # "stk"
        /\ Len(Classes(t)) = 2 => Second(t, ints, flts) # "stk"
    BY <2>1, Whole DEF IsStruct
  <2>3. QED
    BY <2>1, <2>2, RegisterSpills
<1>5. QED
  BY <1>1, <1>2, <1>3, <1>4 DEF Bind

LEMMA EnterSpills ==
  ASSUME CallInv, Enter
  PROVE  Spilled'
<1>1. /\ sig' = sig /\ variadic' = variadic /\ ints' = 0 /\ flts' = 0
      /\ arg' = IF variadic THEN Len(sig) + 1 ELSE 1
  BY DEF Enter
<1>2. CASE variadic
  BY <1>1, <1>2 DEF Spilled
<1>3. CASE ~variadic
  <2>1. sig \in Seq(ArgTypes) /\ 0 \in 0..Len(sig)
    BY SigFacts DEF CallInv
  <2>2. Before' = SlotsTo(sig)[0]
    BY <1>1, <1>3 DEF Before
  <2>3. Before' = << >>
    BY <2>1, <2>2, SlotsType
  <2>4. Count("stk", Before') = 0 /\ Count("int", Before') = 0 /\ Count("flt", Before') = 0
    BY <2>3, OfEmpty
  <2>5. QED
    BY <1>1, <2>4 DEF Spilled
<1>4. variadic \in BOOLEAN
  BY DEF CallInv, CallTypes
<1>5. QED
  BY <1>2, <1>3, <1>4

LEMMA ArriveInvStep ==
  ASSUME CallInv, ArriveInv, Admit \subseteq {"wide"}, [CallNext]_callVars
  PROVE  ArriveInv'
<1>1. Arrived /\ Spilled
  BY DEF ArriveInv
<1>2. ASSUME Classify \/ StartPush \/ PushSlot \/ StartPop \/ PopSlot PROVE ArriveInv'
  <2>1. phase' \in {"classify", "push", "pop"}
    BY <1>2 DEF Classify, StartPush, PushSlot, StartPop, PopSlot
  <2>2. QED
    BY <2>1 DEF ArriveInv, Arrived, Spilled
<1>3. ASSUME Enter PROVE ArriveInv'
  BY <1>3, EnterArrives, EnterSpills DEF ArriveInv
<1>4. ASSUME Bind PROVE ArriveInv'
  <2>1. Arrived'
    BY <1>1, <1>4, IntArrives, FltArrives, StackArrives, StructArrives DEF Bind
  <2>2. QED
    BY <1>1, <1>4, <2>1, BindSpills DEF ArriveInv
<1>5. ASSUME Body PROVE ArriveInv'
  <2>1. phase' = "body"
    BY <1>5 DEF Body
  <2>2. QED
    BY <1>1, <1>5, <2>1, BodyArrives DEF ArriveInv, Spilled
<1>6. ASSUME UNCHANGED callVars PROVE ArriveInv'
  BY <1>1, <1>6 DEF callVars, sides, ArriveInv, Arrived, Spilled, Before
<1>7. QED
  BY <1>2, <1>3, <1>4, <1>5, <1>6 DEF CallNext

\* When the body starts, every unit of every parameter is where the body looks for
\* it: for all signatures, variadic or not, any number of registers and any
\* alignment, as long as none of the known deviations but a wide frame is let in.
THEOREM ParamsAlwaysArrive ==
  ASSUME Admit \subseteq {"wide"}
  PROVE  CallSpec => []ParamsArrive
<1>1. CallInit => ArriveInv
  BY DEF CallInit, ArriveInv, Arrived, Spilled
<1>2. CallInv /\ ArriveInv /\ [CallNext]_callVars => ArriveInv'
  BY ArriveInvStep
<1>3. CallInv /\ ArriveInv => ParamsArrive
  <2>1. SUFFICES ASSUME CallInv, Arrived, phase = "body", NEW i \in DOMAIN sig, NEW n \in 0..sig[i].size - 1
                 PROVE  At(place[i] + n) = <<i, n>>
    BY DEF ArriveInv, ParamsArrive
  <2>2. DOMAIN sig = 1..Len(sig) /\ Len(sig) \in Nat /\ Len(place) = Len(sig)
    <3>1. arg = Len(sig) + 1 /\ Len(place) = arg - 1
      BY <2>1 DEF CallInv, Counted
    <3>2. DOMAIN sig = 1..Len(sig) /\ Len(sig) \in Nat
      BY <2>1, SigFacts DEF CallInv
    <3>3. QED
      BY <3>1, <3>2
  <2> DEFINE o == place[i] + n
  <2>3. InFrame(frame, next, o, i, n) \/ OnStack(stack, o, i, n)
    BY <2>1, <2>2 DEF Arrived
  <2>4. next \in Nat
    BY <2>1, CallNumbers
  <2> HIDE DEF o
  <2>5. CASE InFrame(frame, next, o, i, n)
    <3>1. o \in -next..-1 /\ o \in DOMAIN frame /\ frame[o] = <<i, n>>
      BY <2>5 DEF InFrame
    <3>2. ~(o >= 2 * Word)
      BY <2>4, <3>1 DEF Word
    <3>3. QED
      BY <3>1, <3>2 DEF At, o
  <2>6. CASE OnStack(stack, o, i, n)
    BY <2>6 DEF OnStack, At, Above, o
  <2>7. QED
    BY <2>3, <2>5, <2>6
<1>4. QED
  BY <1>1, <1>2, <1>3, CallAgreed, PTL DEF CallSpec
=============================================================================
