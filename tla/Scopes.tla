------------------------------- MODULE Scopes -------------------------------
(***************************************************************************)
(* Names and the objects they stand for.  Three parties follow the same    *)
(* declarations of one translation unit: the language, the semantic        *)
(* analysis with its symbol table (src/sema.c, src/symtable.c), and the    *)
(* code generator with its list of locals (src/codegen.c), which blocks do *)
(* not cut back.  The analysis runs to its end before the generator starts *)
(* and stops nothing when it reports an error (src/main.c); as neither     *)
(* reads what the other writes for later declarations, the model lets them *)
(* go through the declarations together.                                   *)
(*                                                                         *)
(* An object is a number, in the order of the declarations; 0 is what the  *)
(* linker finds under the name, that is the object of file scope.          *)
(***************************************************************************)
EXTENDS Integers, Sequences, FiniteSetsExt

CONSTANTS
  Names,      \* identifiers, of variables, functions, enumerators and tags
  Types,      \* types of locals: [size, align] as in the Type, size 0 for an array
              \* without a length, and the extent that C gives the object
  MaxDecls,   \* bound on the declarations of a translation unit
  MaxDepth    \* bound on the constructs open at once

ASSUME TypesAssumption ==
  \A t \in Types : t.size \in Nat /\ t.align \in Nat /\ t.extent \in Nat

VARIABLES
  scopes,   \* the symbol table: scope -> its symbols, the latest first
  loop, sw, \* in_loop and in_switch
  fn,       \* "none"; in a function: "in", or "skipped" when sema gave it up
  vars,     \* LocalCtx.vars, the latest first
  next,     \* -next_offset
  cscopes,  \* the language's scopes: scope -> its declarations
  ctx,      \* the constructs open: func, block, loop, for, switch
  count     \* declarations made

sema == <<scopes, loop, sw>>
cg   == <<vars, next>>
svars == <<sema, fn, cg, cscopes, ctx, count>>

None == [kind |-> "none", obj |-> 0]

\* The first element of s that satisfies P.
First(s, P(_)) ==
  IF \E i \in DOMAIN s : P(s[i])
  THEN s[CHOOSE i \in DOMAIN s : P(s[i]) /\ \A j \in 1..i - 1 : ~P(s[j])]
  ELSE None

(***************************************************************************)
(* The language.  A declaration is [name, kind, obj, full, odd]: full when *)
(* it defines, odd when it is of a form that the compiler loses (below).   *)
(***************************************************************************)
IsTag(d) == d.kind = "tag"

CIn(i, n, tag) == {d \in cscopes[i] : d.name = n /\ IsTag(d) = tag}
CHere(n, tag)  == CIn(Len(cscopes), n, tag)

\* The declarations a name may stand for; the innermost it does stand for.
CScopesOf(n, tag) == {i \in DOMAIN cscopes : CIn(i, n, tag) # {}}
CDecl(n, tag) ==
  IF CScopesOf(n, tag) = {} THEN None
  ELSE CHOOSE d \in CIn(Max(CScopesOf(n, tag)), n, tag) : TRUE
CSees(n) == CDecl(n, FALSE)
CTag(n)  == CDecl(n, TRUE)

\* May n be declared here, as what?
CAllows(n, kind, st) ==
  LET here == CHere(n, kind = "tag") IN
  \/ here = {}
  \/ /\ Len(cscopes) = 1
     /\ \A d \in here : d.kind = kind /\ ~(d.full /\ st = "init")
  \/ /\ st \in {"extern", "proto"}
     /\ \A d \in here : d.kind = kind /\ d.obj = 0

\* A second declaration of an object or function adds to the first.
CDeclare(scs, d) ==
  LET k   == Len(scs)
      old == {e \in scs[k] : e.name = d.name /\ IsTag(e) = IsTag(d)}
  IN  [scs EXCEPT ![k] = (@ \ old) \cup
         {[d EXCEPT !.full = @ \/ (\E e \in old : e.full), !.odd = @ \/ (\E e \in old : e.odd)]}]

(***************************************************************************)
(* The symbol table.  A symbol is [name, kind, obj, tent].  Buckets are    *)
(* left out: only symbols of one name are ever compared.                   *)
(***************************************************************************)
Current(scs) == scs[Len(scs)]

\* symtable_lookup_current does not ask for the name space ...
LookupCurrent(scs, n) == First(Current(scs), LAMBDA s : s.name = n)

\* Mutant: they do not either.
LookupInMixed(scs, n, tag) ==
  LET Here(i) == First(scs[i], LAMBDA s : s.name = n)
      found   == {i \in DOMAIN scs : Here(i) # None}
  IN  IF found = {} THEN None ELSE Here(Max(found))

\* ... symtable_lookup and symtable_lookup_tag do.
LookupIn(scs, n, tag) ==
  LET Here(i) == First(scs[i], LAMBDA s : s.name = n /\ IsTag(s) = tag)
      found   == {i \in DOMAIN scs : Here(i) # None}
  IN  IF found = {} THEN None ELSE Here(Max(found))

Lookup(scs, n)    == LookupIn(scs, n, FALSE)
LookupTag(scs, n) == LookupIn(scs, n, TRUE)

\* symtable_define: a clash is printed, counted nowhere, and nothing is defined.
Clash(scs, n, kind) ==
  \E i \in DOMAIN Current(scs) :
    Current(scs)[i].name = n /\ IsTag(Current(scs)[i]) = (kind = "tag")
Define(scs, s) ==
  IF Clash(scs, s.name, s.kind) THEN scs ELSE [scs EXCEPT ![Len(scs)] = <<s>> \o @]

PushScope(scs) == Append(scs, << >>)
PopScope(scs)  == SubSeq(scs, 1, Len(scs) - 1)

\* What resolve_type does about an enumerator or a tag that a specifier
\* declares: either is defined unless the name is already visible as such.
Resolve(scs, inner, id) ==
  LET seen == LookupIn(scs, inner.name, IsTag(inner)) IN
  IF seen.kind = inner.kind THEN scs
  ELSE Define(scs, [name |-> inner.name, kind |-> inner.kind, obj |-> id, tent |-> FALSE])

\* process_var_decl: what becomes of a declaration of a variable, or of a
\* prototype, which the parser hands on as one.
Tentative(st) == st \in {"tent", "proto"}

\* Mutant: the name is looked for in the scopes around as well.
VarVerdictAnywhere(scs, n, st) ==
  IF Lookup(scs, n).kind = "var" THEN "counted" ELSE "defined"

VarVerdict(scs, n, st) ==
  LET old == LookupCurrent(scs, n) IN
  CASE old.kind = "var" -> IF Len(scs) = 1 /\ old.tent THEN "merged" ELSE "counted"
    [] OTHER            -> IF Clash(scs, n, "var") THEN "printed" ELSE "defined"

SemaVar(scs, n, st, id) ==
  LET here    == Len(scs)
      old     == LookupCurrent(scs, n)
      verdict == VarVerdict(scs, n, st)
      merged  == [i \in DOMAIN scs[here] |->
                   IF scs[here][i] = old THEN [old EXCEPT !.tent = @ /\ st # "init"]
                   ELSE scs[here][i]]
  IN  CASE verdict = "defined" ->
             Define(scs, [name |-> n, kind |-> "var", obj |-> id,
                          tent |-> here = 1 /\ Tentative(st)])
        [] verdict = "merged" -> [scs EXCEPT ![here] = merged]
        [] OTHER -> scs

\* analyze_func_def gives up, the body unseen, when the name stands for
\* anything, be it a prototype or a tag.
FuncAccepted(scs, f) == LookupCurrent(scs, f) = None

(***************************************************************************)
(* The locals of the code generator.                                       *)
(***************************************************************************)
\* Mutant: what the comment in local_alloc warns of, division towards zero.
Trunc(k, a) == (k \div a) * a

Ceil(k, a) == ((k + a - 1) \div a) * a

\* local_alloc, counted from the frame downwards.
Slot(below, type) ==
  LET size  == IF type.size <= 0 THEN 8 ELSE type.size
      align == IF type.align <= 0 THEN 8 ELSE type.align
  IN  [off |-> IF align > 1 THEN Ceil(below + size, align) ELSE below + size,
       size |-> size, align |-> align, extent |-> type.extent]

AutoVar(n, id, slot)  == [name |-> n, obj |-> id, static |-> FALSE, slot |-> slot]
StaticVar(n, id)      == [name |-> n, obj |-> id, static |-> TRUE,
                          slot |-> [off |-> 0, size |-> 0, align |-> 1, extent |-> 0]]

\* local_find, and what an identifier compiles to: sema has made a literal of
\* an enumerator it knows; a name without a local is a symbol of the linker.
\* Mutant: the first declared is found.
LocalFindOldest(n) ==
  LET is == {i \in DOMAIN vars : vars[i].name = n}
  IN  IF is = {} THEN None ELSE vars[Max(is)]

LocalFind(n) == First(vars, LAMBDA v : v.name = n)

CgSees(n) ==
  LET s == Lookup(scopes, n) IN
  IF fn = "in" /\ s.kind = "enum" THEN s.obj ELSE LocalFind(n).obj

(***************************************************************************)
(* Declarations.                                                           *)
(***************************************************************************)
Init ==
  /\ scopes = << << >> >> /\ loop = 0 /\ sw = 0
  /\ fn = "none"
  /\ vars = << >> /\ next = 0
  /\ cscopes = <<{}>>
  /\ ctx = << >>
  /\ count = 0

D(n, kind, id, full, odd) ==
  [name |-> n, kind |-> kind, obj |-> id, full |-> full, odd |-> odd]

\* A specifier declares an enumerator or a tag; a second one of a name that
\* is visible from outside as the same is lost on resolve_type.
Inners      == [kind : {"enum", "tag"}, name : Names]
Hides(inner) == CDecl(inner.name, IsTag(inner)).kind = inner.kind

\* struct S {...}; or enum {A}; or a typedef of one, with no variable.  Of
\* these only the first two at file scope are passed on by the parser.
DeclareTypeOnly(inner, typedef) ==
  /\ count < MaxDecls
  /\ CAllows(inner.name, inner.kind, "auto") /\ CHere(inner.name, IsTag(inner)) = {}
  /\ cscopes' = CDeclare(cscopes, D(inner.name, inner.kind, count + 1, TRUE,
                                    Hides(inner) \/ typedef \/ fn # "none"))
  /\ scopes' = IF fn = "none" /\ ~typedef THEN Resolve(scopes, inner, count + 1) ELSE scopes
  /\ count' = count + 1
  /\ UNCHANGED <<loop, sw, fn, cg, ctx>>

\* A variable of file scope, or a prototype.
DeclareGlobal(n, st) ==
  LET kind == IF st = "proto" THEN "func" ELSE "var" IN
  /\ fn = "none" /\ count < MaxDecls
  /\ CAllows(n, kind, st)
  /\ cscopes' = CDeclare(cscopes, D(n, kind, 0, st = "init", FALSE))
  /\ scopes' = SemaVar(scopes, n, st, 0)
  /\ count' = count + 1
  /\ UNCHANGED <<loop, sw, fn, cg, ctx>>

\* A variable of a block, or a prototype.  The parser drops extern and hands a
\* prototype on as a variable, so that an automatic variable is made of either.
DeclareLocal(n, st, type) ==
  LET kind   == IF st = "proto" THEN "func" ELSE "var"
      linked == st \in {"extern", "proto"}
  IN
  /\ fn # "none" /\ count < MaxDecls
  /\ CAllows(n, kind, st)
  /\ linked => CDecl(n, FALSE).kind \in {"none", kind}
  /\ LET id   == count + 1
         slot == Slot(next, type)
     IN  /\ cscopes' = CDeclare(cscopes, D(n, kind, IF linked THEN 0 ELSE id, TRUE, linked))
         /\ scopes' = IF fn = "in" THEN SemaVar(scopes, n, st, id) ELSE scopes
         /\ IF st = "static"
            THEN vars' = <<StaticVar(n, id)>> \o vars /\ next' = next
            ELSE vars' = <<AutoVar(n, id, slot)>> \o vars /\ next' = slot.off
         /\ count' = id
  /\ UNCHANGED <<loop, sw, fn, ctx>>

\* The same with a specifier that declares, as in enum {A} n;
DeclareWith(n, inner, type) ==
  /\ fn # "none" /\ count + 1 < MaxDecls
  /\ inner.name # n /\ CHere(inner.name, IsTag(inner)) = {} /\ CHere(n, FALSE) = {}
  /\ LET id   == count + 1
         slot == Slot(next, type)
     IN  /\ cscopes' = CDeclare(CDeclare(cscopes,
                         D(inner.name, inner.kind, id, TRUE, Hides(inner))),
                         D(n, "var", id + 1, TRUE, FALSE))
         /\ scopes' = IF fn = "in" THEN SemaVar(Resolve(scopes, inner, id), n, "auto", id + 1)
                      ELSE scopes
         /\ vars' = <<AutoVar(n, id + 1, slot)>> \o vars
         /\ next' = slot.off
         /\ count' = id + 1
  /\ UNCHANGED <<loop, sw, fn, ctx>>

(***************************************************************************)
(* Functions, blocks and loops.                                            *)
(***************************************************************************)
\* The parameters ps get objects after id; sema opens one scope for them and
\* one for the body, the language a single one.
ParamVars(ps, id) == {D(ps[i], "param", id + i, TRUE, FALSE) : i \in DOMAIN ps}
ParamSyms(ps, id) ==
  [i \in DOMAIN ps |-> [name |-> ps[i], kind |-> "var", obj |-> id + i, tent |-> FALSE]]

\* local_alloc for n, then for each of the at most two variables ns.
Alloc(local, n, id, type) ==
  LET slot == Slot(local.next, type) IN
  [vars |-> <<AutoVar(n, id, slot)>> \o local.vars, next |-> slot.off]
AllocAll(local, ns, id, type) ==
  CASE Len(ns) = 0 -> local
    [] Len(ns) = 1 -> Alloc(local, ns[1], id + 1, type)
    [] Len(ns) = 2 -> Alloc(Alloc(local, ns[1], id + 1, type), ns[2], id + 2, type)

BeginFunction(f, ps, type) ==
  /\ fn = "none" /\ count + Len(ps) < MaxDecls
  /\ \A d \in CHere(f, FALSE) : d.kind = "func" /\ ~d.full
  /\ LET declared == CDeclare(cscopes, D(f, "func", 0, TRUE, FALSE))
         local    == AllocAll([vars |-> << >>, next |-> 0], ps, count + 1, type)
     IN  /\ cscopes' = Append(declared, ParamVars(ps, count + 1))
         /\ vars' = local.vars /\ next' = local.next
  /\ IF FuncAccepted(scopes, f)
     THEN /\ fn' = "in"
          /\ LET defined == Define(scopes, [name |-> f, kind |-> "func", obj |-> 0, tent |-> FALSE])
             IN  scopes' = PushScope(Append(defined, ParamSyms(ps, count + 1)))
     ELSE fn' = "skipped" /\ scopes' = scopes
  /\ loop' = 0 /\ sw' = 0
  /\ ctx' = <<"func">>
  /\ count' = count + 1 + Len(ps)

One(b) == IF b THEN 1 ELSE 0

\* A block, or a loop or switch whose body is a block.
Open(k) ==
  /\ fn # "none" /\ Len(ctx) < MaxDepth
  /\ ctx' = Append(ctx, k)
  /\ cscopes' = Append(cscopes, {})
  /\ IF fn = "in"
     THEN /\ scopes' = PushScope(scopes)
          /\ loop' = loop + One(k \in {"loop", "switch"})
          /\ sw' = sw + One(k = "switch")
     ELSE UNCHANGED sema
  /\ UNCHANGED <<fn, cg, count>>

\* for (int ns[1], ...; ...; ...) with a block.  Two declarators arrive as a
\* block of their own, whose scope sema pops before the condition.
OpenFor(ns, type) ==
  /\ fn # "none" /\ Len(ctx) < MaxDepth /\ count + Len(ns) <= MaxDecls
  /\ ctx' = Append(ctx, "for")
  /\ cscopes' = cscopes \o
       <<{D(ns[i], "var", count + i, TRUE, Len(ns) > 1) : i \in DOMAIN ns}, {}>>
  /\ IF fn = "in"
     THEN /\ LET inner == PushScope(scopes) IN
             scopes' = PushScope(IF Len(ns) = 1 THEN SemaVar(inner, ns[1], "auto", count + 1)
                                 ELSE inner)
          /\ loop' = loop + 1
     ELSE UNCHANGED <<scopes, loop>>
  /\ LET local == AllocAll([vars |-> vars, next |-> next], ns, count, type)
     IN  vars' = local.vars /\ next' = local.next
  /\ count' = count + Len(ns)
  /\ UNCHANGED <<sw, fn>>

Close ==
  /\ ctx # << >>
  /\ LET k == ctx[Len(ctx)] IN
     /\ ctx' = SubSeq(ctx, 1, Len(ctx) - 1)
     /\ cscopes' = IF k = "for" THEN PopScope(PopScope(cscopes)) ELSE PopScope(cscopes)
     /\ IF fn = "in"
        THEN /\ scopes' = IF k \in {"for", "func"} THEN PopScope(PopScope(scopes))
                          ELSE PopScope(scopes)
             /\ loop' = loop - One(k \in {"loop", "for", "switch"})
             /\ sw' = sw - One(k = "switch")
        ELSE UNCHANGED sema
     /\ IF k = "func" THEN fn' = "none" /\ vars' = << >> /\ next' = 0
                      ELSE UNCHANGED <<fn, cg>>
  /\ UNCHANGED count

\* The names of the parameters, or of the first clause of a for.
NameLists == {<< >>} \cup {<<n>> : n \in Names} \cup
             {p \in Names \X Names : p[1] # p[2]}

Next ==
  \/ \E inner \in Inners, typedef \in BOOLEAN : DeclareTypeOnly(inner, typedef)
  \/ \E n \in Names, st \in {"tent", "init", "extern", "proto"} : DeclareGlobal(n, st)
  \/ \E n \in Names, st \in {"auto", "static", "extern", "proto"}, type \in Types :
       DeclareLocal(n, st, type)
  \/ \E n \in Names, inner \in Inners, type \in Types : DeclareWith(n, inner, type)
  \/ \E f \in Names, ps \in NameLists, type \in Types : BeginFunction(f, ps, type)
  \/ \E k \in {"block", "loop", "switch"} : Open(k)
  \/ \E ns \in NameLists, type \in Types : OpenFor(ns, type)
  \/ Close

Spec == Init /\ [][Next]_svars

(***************************************************************************)
(* Properties.                                                             *)
(***************************************************************************)
Living == {d.obj : d \in UNION {cscopes[i] : i \in DOMAIN cscopes}}

\* A visible declaration of n is of a form the compiler loses.
Odd(n) == \E i \in DOMAIN cscopes : \E d \in cscopes[i] : d.name = n /\ d.odd

\* The variable of this function declared last under the name n is out of scope.
Stale(n) == LocalFind(n) # None /\ LocalFind(n).obj \notin Living

(***************************************************************************)
(* An identifier compiles to the object the language says it stands for,   *)
(* whatever was declared, hidden and closed before; save for the odd       *)
(* forms, after a block that declared the name again, and for enumerators  *)
(* in a function sema gave up.                                             *)
(***************************************************************************)
UsesReachTheirObject ==
  fn # "none" =>
    \A n \in Names :
      \/ CSees(n) = None \/ Odd(n)
      \/ IF CSees(n).kind = "enum" THEN fn = "skipped" ELSE Stale(n)
      \/ CgSees(n) = CSees(n).obj

\* The symbol table agrees with the language about every name, tag or not.
NamesAgree ==
  fn # "skipped" =>
    \A n \in Names, tag \in BOOLEAN :
      Odd(n) \/ LookupIn(scopes, n, tag).obj = CDecl(n, tag).obj

\* In a block a declaration is refused exactly when the language refuses it,
\* save that a body may redeclare a parameter; at file scope a name that was
\* never declared is accepted.
RefusesOnlyRedeclaration ==
  /\ fn = "in" =>
       \A n \in Names :
         \/ Odd(n) \/ \E d \in CHere(n, FALSE) : d.kind = "param"
         \/ VarVerdict(scopes, n, "auto") = "defined" <=> CAllows(n, "var", "auto")
  /\ fn = "none" =>
       \A n \in Names : 
         CHere(n, FALSE) \cup CHere(n, TRUE) = {} =>
           FuncAccepted(scopes, n) /\ VarVerdict(scopes, n, "init") = "defined"

\* analyze_stmt: where the jump statements and labels are accepted.
BreakAccepted    == loop > 0 \/ sw > 0
ContinueAccepted == loop > 0

\* Mutant: in_loop, which a switch increments too, is asked instead.
CaseAcceptedInLoop == loop > 0

CaseAccepted == sw > 0

\* They are where the language has them, save that sema lets continue pass in
\* any switch; and nothing of one function is left for the next.
JumpsAccepted ==
  LET Within(ks) == \E i \in DOMAIN ctx : ctx[i] \in ks IN
  /\ fn # "skipped" =>
       /\ BreakAccepted <=> Within({"loop", "for", "switch"})
       /\ CaseAccepted <=> Within({"switch"})
       /\ Within({"loop", "for"}) => ContinueAccepted
       /\ ContinueAccepted => Within({"loop", "for", "switch"})
  /\ fn = "none" => Len(scopes) = 1 /\ vars = << >>

\* A slot known to be too small: an array without a length gets 8 bytes, and its
\* initializer writes all of it.
Short(slot) == slot.size < slot.extent

\* The locals of a function, living or not, lie apart and aligned in the frame,
\* each as large as C has it: no other than one with a short slot reaches into one
\* declared before it.
LocalsApart ==
  \A i \in DOMAIN vars :
    vars[i].static \/
      LET s == vars[i].slot IN
      /\ s.off <= next /\ s.off % s.align = 0
      /\ \A j \in DOMAIN vars :
           j < i /\ ~vars[j].static /\ ~Short(vars[j].slot) =>
             s.off <= vars[j].slot.off - vars[j].slot.extent
=============================================================================
