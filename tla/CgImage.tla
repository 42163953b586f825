------------------------------ MODULE CgImage ------------------------------
(***************************************************************************)
(* From definitions to addresses: the sections, symbols and relocations    *)
(* that src/codegen.c collects in its two passes over a translation unit,  *)
(* what src/elf_writer.c writes of them for the linker, and what           *)
(* codegen_jit_run makes of them in memory.  Contents are left out; only   *)
(* where things are and what refers to them is kept.                       *)
(***************************************************************************)
EXTENDS Integers, SequencesExt

CONSTANTS
  Vars,       \* names of file-scope variables
  Funcs,      \* names of functions
  Types,      \* types of variables: the size C gives them, and what their Type says
              \* as parsed and after sema has resolved it, [size, parsed, resolved]
  MaxDecls,   \* bounds: declarations of file scope, definitions in functions,
  MaxInner,   \* and relocations
  MaxRelocs

ASSUME ImageAssumption ==
  \A t \in Types : /\ t.size \in Nat \ {0}
                   /\ t.parsed.size \in Nat /\ t.parsed.align \in Nat
                   /\ t.resolved.size \in Nat /\ t.resolved.align \in Nat

\* The labels of static locals and literals start with a dot, as no identifier does.
Label(kind, f, i) == <<kind, f, i>>
ASSUME LabelsAssumption ==
  /\ MaxInner \in Nat
  /\ \A kind \in {"static", "literal"}, f \in Funcs, i \in 0..MaxInner :
       Label(kind, f, i) \notin Vars \cup Funcs

VARIABLES
  pass,    \* "globals", "code", "done": the passes of codegen_gen
  func,    \* the function being generated
  size,    \* section -> its size
  syms,    \* cg->syms: [name, kind, off, size, global], the latest first
  relocs,  \* cg->relocs: [at, sym]
  homes,   \* name -> the places where storage was set aside for it
  given    \* declarations, and definitions in functions, so far

ivars == <<pass, func, size, syms, relocs, homes, given>>

NoFunc == "none"    \* between functions

Sections == {"text", "rodata", "data", "bss"}
\* room bytes are set aside for an object of a size.
Place(sec, off, sz, room) == [sec |-> sec, off |-> off, size |-> sz, room |-> room]

Init ==
  /\ pass = "globals" /\ func = NoFunc
  /\ size = [s \in Sections |-> 0]
  /\ syms = << >> /\ relocs = << >>
  /\ homes = [n \in Vars \cup Funcs |-> {}]
  /\ given = [decls |-> 0, inner |-> 0]

(***************************************************************************)
(* Code generation.                                                        *)
(***************************************************************************)
\* Mutant: the padding is taken off instead of added.
DownTo(off, align) == off - (off % align)

\* The padding of data_add and gen_global.
Up(off, align) == off + ((align - (off % align)) % align)

\* sym_add
SymAdd(n, kind, off, sz, global) ==
  syms' = <<[name |-> n, kind |-> kind, off |-> off, size |-> sz, global |-> global]>> \o syms

Home(n, place) ==
  homes' = [m \in DOMAIN homes \cup {n} |->
             IF m # n THEN homes[m]
             ELSE (IF n \in DOMAIN homes THEN homes[n] ELSE {}) \cup {place}]

\* ty_size: a type without a size has that of its kind.
TySize(t) == IF t.size > 0 THEN t.size ELSE IF t.kind = "array" THEN 0 ELSE 8
Align(t)  == IF t.align > 0 THEN t.align ELSE 4

\* The room for a variable of file scope, whose type is as it was parsed: a struct
\* named by its tag has no size there, nor has an array without a length; and for
\* a static local.
GlobalRoom(type) == TySize(type.parsed)
StaticRoom(type) == IF TySize(type.resolved) = 0 THEN 4 ELSE TySize(type.resolved)

\* data_add, and the same in gen_global: room behind what the section has, for an
\* object of that size.  The symbol gets the offset given.
NewOff(sec, align) == Up(size[sec], align)
Reserve(n, sec, align, sz, room, kind, symOff, global) ==
  /\ size' = [size EXCEPT ![sec] = NewOff(sec, align) + room]
  /\ Home(n, Place(sec, NewOff(sec, align), sz, room))
  /\ SymAdd(n, kind, symOff, room, global)

\* First pass, gen_global: an extern declaration and a prototype set nothing
\* aside.
GenGlobal(n, form, type, static) ==
  /\ pass = "globals" /\ given.decls < MaxDecls
  /\ form = "extern" => ~static
  /\ form = "init" => \A h \in homes[n] : h.sec # "data"
  /\ n \in Funcs => form = "extern"
  /\ \A s \in ToSet(syms) : s.name = n => s.global = ~static
  /\ CASE form = "extern"    -> SymAdd(n, "extern", 0, 0, TRUE) /\ UNCHANGED <<size, homes>>
       [] form = "tentative" ->
            Reserve(n, "bss", Align(type.parsed), type.size, GlobalRoom(type),
                    "bss", NewOff("bss", Align(type.parsed)), ~static)
       [] form = "init"      ->
            Reserve(n, "data", Align(type.parsed), type.size, GlobalRoom(type),
                    "object", NewOff("data", Align(type.parsed)), ~static)
  /\ given' = [given EXCEPT !.decls = @ + 1]
  /\ UNCHANGED <<pass, func, relocs>>

StartCode ==
  /\ pass = "globals"
  /\ pass' = "code"
  /\ UNCHANGED <<func, size, syms, relocs, homes, given>>

\* Second pass, gen_function.
GenFunction(f, static) ==
  /\ pass = "code" /\ given.decls < MaxDecls
  /\ homes[f] = {}
  /\ static => \A s \in ToSet(syms) : s.name # f
  /\ func' = f
  /\ SymAdd(f, "func", size["text"], 0, ~static)
  /\ Home(f, Place("text", size["text"], 1, 1))
  /\ size' = [size EXCEPT !["text"] = @ + 1]
  /\ given' = [given EXCEPT !.decls = @ + 1]
  /\ UNCHANGED <<pass, relocs>>

\* static_local_alloc: a name of its own, made unique by a counter; the offset
\* that data_add returns is dropped and the symbol is given 0.
StaticLocal(init, type) ==
  /\ func # NoFunc /\ given.inner < MaxInner
  /\ Reserve(Label("static", func, given.inner), IF init THEN "data" ELSE "bss",
             Align(type.resolved), type.size, StaticRoom(type), "object", 0, FALSE)
  /\ given' = [given EXCEPT !.inner = @ + 1]
  /\ UNCHANGED <<pass, func, relocs>>

\* reloc_add, with the four bytes it is to be patched into.
RelocAdd(n) ==
  /\ Len(relocs) < MaxRelocs
  /\ relocs' = <<[at |-> size["text"], sym |-> n]>> \o relocs

\* ND_STR_LIT and ND_FLOAT_LIT: n bytes of .rodata under a new label, without
\* alignment, and a reference to them.
Literal(n) ==
  LET label == Label("literal", func, given.inner) IN
  /\ func # NoFunc /\ given.inner < MaxInner
  /\ RelocAdd(label)
  /\ SymAdd(label, "rodata", size["rodata"], n, FALSE)
  /\ Home(label, Place("rodata", size["rodata"], n, n))
  /\ size' = [size EXCEPT !["rodata"] = @ + n, !["text"] = @ + 4]
  /\ given' = [given EXCEPT !.inner = @ + 1]
  /\ UNCHANGED <<pass, func>>

\* ND_VAR and ND_CALL of a name that is declared, and no static of another
\* function.
IsStaticLocal(n) == n \notin Vars \cup Funcs /\ n[1] = "static"
Referable(n)     == n \in Vars \cup Funcs \/ (IsStaticLocal(n) /\ n[2] = func)
Refer(n) ==
  /\ func # NoFunc /\ Referable(n)
  /\ \E s \in ToSet(syms) : s.name = n
  /\ RelocAdd(n)
  /\ size' = [size EXCEPT !["text"] = @ + 4]
  /\ UNCHANGED <<pass, func, syms, homes, given>>

Finish ==
  /\ pass = "code"
  /\ pass' = "done" /\ func' = NoFunc
  /\ UNCHANGED <<size, syms, relocs, homes, given>>

Next ==
  \/ \E n \in Vars \cup Funcs, form \in {"extern", "tentative", "init"}, type \in Types,
        static \in BOOLEAN : GenGlobal(n, form, type, static)
  \/ StartCode
  \/ \E f \in Funcs, static \in BOOLEAN : GenFunction(f, static)
  \/ \E init \in BOOLEAN, type \in Types : StaticLocal(init, type)
  \/ \E n \in {1, 8} : Literal(n)
  \/ \E n \in DOMAIN homes : Refer(n)
  \/ Finish

Spec == Init /\ [][Next]_ivars

(***************************************************************************)
(* The object file.                                                        *)
(***************************************************************************)
Named(s, n) == s.name = n

Library     == [sec |-> "library", off |-> 0]

\* The symbol table: one pass over the symbols for the local ones, then one for
\* the global ones, from sh_info on.
\* The null symbol comes before the first, at index 0.
SymsWith(global) ==
  LET kept[i \in 0..Len(syms)] ==
        IF i = 0 THEN << >>
        ELSE IF syms[i].global = global THEN Append(kept[i - 1], syms[i])
        ELSE kept[i - 1]
  IN  kept[Len(syms)]
LocalSyms   == SymsWith(FALSE)
GlobalSyms  == SymsWith(TRUE)
ElfSyms     == LocalSyms \o GlobalSyms
FirstGlobal == Len(LocalSyms) + 1

\* Mutant: the scan of the globals starts one symbol too early.
ElfIndexEarly(n) ==
  LET i == SelectInSeq(LocalSyms, LAMBDA s : Named(s, n))
      j == SelectInSeq(GlobalSyms, LAMBDA s : Named(s, n))
  IN  IF i # 0 THEN i ELSE IF j # 0 THEN FirstGlobal + j - 2 ELSE 0

\* The index a relocation is given.
ElfIndex(n) ==
  LET i == SelectInSeq(LocalSyms, LAMBDA s : Named(s, n))
      j == SelectInSeq(GlobalSyms, LAMBDA s : Named(s, n))
  IN  IF i # 0 THEN i ELSE IF j # 0 THEN FirstGlobal + j - 1 ELSE 0

\* st_shndx: there is no case for CGSYM_BSS.
ElfSection(s) ==
  CASE s.kind = "extern" /\ s.global -> "undef"
    [] s.kind = "func"               -> "text"
    [] s.kind = "rodata"             -> "rodata"
    [] OTHER                         -> "data"

\* The linker: an undefined symbol is the global one of its name, here or in a
\* library; the null symbol is nothing.
Linked(i) ==
  IF i = 0 THEN [sec |-> "null", off |-> 0]
  ELSE LET s    == ElfSyms[i]
           defs == {t \in ToSet(GlobalSyms) : t.name = s.name /\ ElfSection(t) # "undef"}
       IN  IF ElfSection(s) # "undef" THEN [sec |-> ElfSection(s), off |-> s.off]
           ELSE IF defs = {} THEN Library
           ELSE LET t == CHOOSE t \in defs : TRUE IN [sec |-> ElfSection(t), off |-> t.off]

\* Where the parts of the file start, each after the one before.
Round16(n) == ((n + 15) \div 16) * 16

FileParts ==
  LET n == Len(syms) + 1 IN
  <<size["text"], size["rodata"], size["data"], 24 * n, 1 + 5 * n, 64, 24 * Len(relocs)>>
FileOff[i \in 1..8] ==
  IF i = 1 THEN 64 ELSE FileOff[i - 1] + Round16(FileParts[i - 1])

(***************************************************************************)
(* codegen_jit_run: the code in one mapping; .rodata, .data and .bss side  *)
(* by side in another.                                                     *)
(***************************************************************************)
JitBase(sec) ==
  CASE sec = "text" -> 0
    [] sec = "rodata" -> 0
    [] sec = "data" -> size["rodata"]
    [] sec = "bss" -> size["rodata"] + size["data"]
JitPlace(sec, off) ==
  [map |-> IF sec = "text" THEN "code" ELSE "data", off |-> JitBase(sec) + off]

\* Mutant: .bss is taken to start where .data does.
JitAddressBssInData(n) ==
  LET s == syms[SelectInSeq(syms, LAMBDA t : Named(t, n))] IN
  CASE s.kind = "func"            -> JitPlace("text", s.off)
    [] s.kind \in {"object", "bss"} -> JitPlace("data", s.off)
    [] s.kind = "rodata"          -> JitPlace("rodata", s.off)
    [] s.kind = "extern"          -> Library

\* The latest symbol of the name; an external one is left to dlsym.
JitAddress(n) ==
  LET s == syms[SelectInSeq(syms, LAMBDA t : Named(t, n))] IN
  CASE s.kind = "func"   -> JitPlace("text", s.off)
    [] s.kind = "object" -> JitPlace("data", s.off)
    [] s.kind = "bss"    -> JitPlace("bss", s.off)
    [] s.kind = "rodata" -> JitPlace("rodata", s.off)
    [] s.kind = "extern" -> Library

(***************************************************************************)
(* Properties.                                                             *)
(***************************************************************************)
\* Where the object of a name is: a tentative definition beside one with an
\* initializer is no more than a declaration.
Meant(n) == {h \in homes[n] : h.sec # "bss" \/ \A k \in homes[n] : k.sec # "data"}

\* The names whose references are known to go astray (README, deviations):
\* a static local, whose symbol says offset 0; in the object file what has a
\* place in .bss, whose symbol says .data (of two definitions one has); in memory
\* a definition that an extern declaration follows, or a tentative definition one
\* with an initializer.
LostInFile(n)    == \/ IsStaticLocal(n)
                    \/ \E h \in homes[n] : h.sec = "bss"
LostInMemory(n)  == LET s == syms[SelectInSeq(syms, LAMBDA t : Named(t, n))] IN
                    \/ IsStaticLocal(n)
                    \/ s.kind = "extern" /\ homes[n] # {}
                    \/ s.kind = "bss" /\ \E h \in homes[n] : h.sec = "data"

References == {r.sym : r \in ToSet(relocs)}

\* What every other reference of the object file is linked to is where the
\* storage of its object is, or a library when the unit has none.
FileReferencesResolve ==
  pass = "done" =>
    \A n \in References :
      \/ LostInFile(n)
      \/ LET t == Linked(ElfIndex(n)) IN
         IF homes[n] = {} THEN t = Library
         ELSE \E h \in Meant(n) : t = [sec |-> h.sec, off |-> h.off]

\* The same of the addresses that the code run in memory is patched with.
MemoryReferencesResolve ==
  pass = "done" =>
    \A n \in References :
      \/ LostInMemory(n)
      \/ IF homes[n] = {} THEN JitAddress(n) = Library
         ELSE \E h \in Meant(n) : JitAddress(n) = JitPlace(h.sec, h.off)

\* The objects known to have too little room (README, deviations): a struct of
\* file scope named by its tag, an array without a length.
Short(h) == h.room < h.size

\* No two of the other objects overlap, each as large as C has it: storage in a
\* section, sections in memory, parts in the file; and no relocation patches what
\* another one does.
StorageApart ==
  LET places == {h \in UNION {homes[n] : n \in DOMAIN homes} : ~Short(h)}
      Clear(a, m, b, n) == a + m <= b \/ b + n <= a
  IN  /\ \A h \in places : h.off + h.size <= size[h.sec]
      /\ \A h, k \in places :
           h = k \/ JitPlace(h.sec, 0).map # JitPlace(k.sec, 0).map
                 \/ Clear(JitPlace(h.sec, h.off).off, h.size, JitPlace(k.sec, k.off).off, k.size)
      /\ \A i, j \in DOMAIN relocs : i = j \/ Clear(relocs[i].at, 4, relocs[j].at, 4)
      /\ \A i \in 1..7 : FileOff[i] + FileParts[i] <= FileOff[i + 1]
=============================================================================
