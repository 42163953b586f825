------------------------------- MODULE CgStmt -------------------------------
(***************************************************************************)
(* The code that gen_stmt and gen_function (src/codegen.c) emit for the    *)
(* statements of a program, with the labels and jumps of the encoder       *)
(* (src/x86_encode.c), executed side by side with what the statements mean *)
(* (CStmt): both evaluate the next expression together, with the same      *)
(* outcome.                                                                *)
(*                                                                         *)
(* An instruction is the code of one expression (its value comes out in    *)
(* rax), a jump taken when rax is in a set of values, a label, or ret.     *)
(* A label is a tuple: <<prefix, counter>> from cg_make_label, the name in *)
(* the source for the user's own, which is put in the same form.           *)
(***************************************************************************)
EXTENDS CStmt, CgLabels

CONSTANTS
  Programs,   \* the programs to compile
  Admit       \* which of the three known deviations to let in

VARIABLES
  code,   \* e->buf
  pc,     \* the instruction the processor is at
  rax     \* the value evaluated last

vars == <<prog, pos, code, pc, rax>>

(***************************************************************************)
(* Emission.  g holds the code so far and cg->label_count (CgLabels), and  *)
(* in idx sw->case_idx of the innermost switch.                            *)
(***************************************************************************)
Eval(x)    == <<[i |-> "eval", at |-> x]>>
Jump(S, l) == <<[i |-> "jump", when |-> S, to |-> l]>>
Jmp(l)     == Jump(Vals, l)
Jz(l)      == Jump({0}, l)
Jnz(l)     == Jump(Vals \ {0}, l)
Je(v, l)   == Jump({v}, l)
Ret        == <<[i |-> "ret"]>>

\* ctx->loop_stack and ctx->switch_stack, innermost first.
EnterLoop(c, break, cont) ==
  [c EXCEPT !.loops = <<[break |-> break, cont |-> cont]>> \o @]

\* How many statements p has directly inside.
Kids(p) == Cardinality({q \in DOMAIN prog : q # << >> /\ Front(q) = p})

RECURSIVE Gen(_, _, _)

GenSeq(g, p, c) ==
  LET f[i \in Nat] == IF i = 0 THEN g ELSE Gen(f[i - 1], Kid(p, i), c)
  IN  f[Kids(p)]

GenReturn(g, p, c) ==
  Emit(g, (IF Arg(p) THEN Eval(Enter(p)) ELSE << >>) \o Jmp(c.ret))

\* Mutant: the then part falls into the else part.
GenIfFallsInto(g, p, c) ==
  LET els  == <<"if_else", g.count>>
      end  == <<"if_end", g.count + 1>>
      cond == Emit(Fresh(g, 2), Eval(Enter(p)) \o Jz(IF HasKid(p, 2) THEN els ELSE end))
      then == Gen(cond, Kid(p, 1), c)
  IN  Emit(IF HasKid(p, 2) THEN Gen(Emit(then, Label(els)), Kid(p, 2), c)
           ELSE then, Label(end))

GenIf(g, p, c) ==
  LET els  == <<"if_else", g.count>>
      end  == <<"if_end", g.count + 1>>
      cond == Emit(Fresh(g, 2), Eval(Enter(p)) \o Jz(IF HasKid(p, 2) THEN els ELSE end))
      then == Gen(cond, Kid(p, 1), c)
  IN  Emit(IF HasKid(p, 2) THEN Gen(Emit(then, Jmp(end) \o Label(els)), Kid(p, 2), c)
           ELSE then, Label(end))

GenWhile(g, p, c) ==
  LET cond == <<"while_cond", g.count>>
      end  == <<"while_end", g.count + 1>>
      head == Emit(Fresh(g, 2), Label(cond) \o Eval(Test(p)) \o Jz(end))
  IN  Emit(Gen(head, Kid(p, 1), EnterLoop(c, end, cond)), Jmp(cond) \o Label(end))

GenDo(g, p, c) ==
  LET body == <<"do_body", g.count>>
      cond == <<"do_cond", g.count + 1>>
      end  == <<"do_end", g.count + 2>>
  IN  Emit(Gen(Emit(Fresh(g, 3), Label(body)), Kid(p, 1), EnterLoop(c, end, cond)),
           Label(cond) \o Eval(Test(p)) \o Jnz(body) \o Label(end))

Clause(x) == IF Evaluates(x) THEN Eval(x) ELSE << >>

\* Mutant: without a condition the third clause is left out as well.
GenForNoStep(g, p, c) ==
  LET cond == <<"for_cond", g.count>>
      step == <<"for_step", g.count + 1>>
      end  == <<"for_end", g.count + 2>>
      exit == IF Evaluates(Test(p)) THEN Eval(Test(p)) \o Jz(end) ELSE << >>
      head == Emit(Fresh(g, 3), Clause(First(p)) \o Label(cond) \o exit)
  IN  Emit(Gen(head, Kid(p, 1), EnterLoop(c, end, step)),
           Label(step) \o (IF exit = << >> THEN << >> ELSE Clause(Third(p)))
             \o Jmp(cond) \o Label(end))

GenFor(g, p, c) ==
  LET cond == <<"for_cond", g.count>>
      step == <<"for_step", g.count + 1>>
      end  == <<"for_end", g.count + 2>>
      exit == IF Evaluates(Test(p)) THEN Eval(Test(p)) \o Jz(end) ELSE << >>
      head == Emit(Fresh(g, 3), Clause(First(p)) \o Label(cond) \o exit)
  IN  Emit(Gen(head, Kid(p, 1), EnterLoop(c, end, step)),
           Label(step) \o Clause(Third(p)) \o Jmp(cond) \o Label(end))

\* A break leaves the innermost loop; only outside all loops, a switch.
GenBreak(g, c) ==
  IF c.loops # << >> THEN Emit(g, Jmp(c.loops[1].break))
  ELSE IF c.switches # << >> THEN Emit(g, Jmp(c.switches[1].end))
  ELSE g

GenContinue(g, c) == IF c.loops # << >> THEN Emit(g, Jmp(c.loops[1].cont)) ELSE g

\* The elements of a switch's body that pass 1 sees.
Scanned(p, op) ==
  LET b == Kid(p, 1)
  IN  IF Op(b) = "seq" THEN {i \in 1..Kids(b) : Op(Kid(b, i)) = op} ELSE {}

\* Labels and dispatch first, in the order of the body, then the body.
GenSwitch(g, p, c) ==
  LET cases  == SetToSortSeq(Scanned(p, "case"), <)
      ndef   == Cardinality(Scanned(p, "default"))
      end    == <<"sw_end", g.count>>
      dflt   == <<"sw_def", g.count + ndef>>
      lbl(i) == <<"case", g.count + ndef + i>>
      tests  == FlattenSeq([i \in DOMAIN cases |-> Je(Arg(Kid(Kid(p, 1), cases[i])), lbl(i))])
      sw     == [end |-> end, dflt |-> IF ndef > 0 THEN <<dflt>> ELSE << >>,
                 cases |-> [i \in DOMAIN cases |-> lbl(i)]]
      head   == Emit(Fresh(g, 1 + ndef + Len(cases)),
                     Eval(Enter(p)) \o tests \o Jmp(IF ndef > 0 THEN dflt ELSE end))
      body   == Gen([head EXCEPT !.idx = 0], Kid(p, 1),
                    [c EXCEPT !.switches = <<sw>> \o @])
  IN  Emit([body EXCEPT !.idx = g.idx], Label(end))

\* The next label of the innermost switch, whatever the case's value.
GenCase(g, p, c) ==
  LET some == c.switches # << >> /\ g.idx < Len(c.switches[1].cases)
  IN  Gen(IF some THEN Emit([g EXCEPT !.idx = @ + 1], Label(c.switches[1].cases[g.idx + 1]))
          ELSE g, Kid(p, 1), c)

GenDefault(g, p, c) ==
  LET some == c.switches # << >> /\ c.switches[1].dflt # << >>
  IN  Gen(IF some THEN Emit(g, Label(c.switches[1].dflt[1])) ELSE g, Kid(p, 1), c)

\* gen_stmt.
Gen(g, p, c) ==
  CASE Op(p) = "null"     -> g
    [] Op(p) = "expr"     -> Emit(g, Eval(Enter(p)))
    [] Op(p) = "seq"      -> GenSeq(g, p, c)
    [] Op(p) = "return"   -> GenReturn(g, p, c)
    [] Op(p) = "if"       -> GenIf(g, p, c)
    [] Op(p) = "while"    -> GenWhile(g, p, c)
    [] Op(p) = "do"       -> GenDo(g, p, c)
    [] Op(p) = "for"      -> GenFor(g, p, c)
    [] Op(p) = "break"    -> GenBreak(g, c)
    [] Op(p) = "continue" -> GenContinue(g, c)
    [] Op(p) = "switch"   -> GenSwitch(g, p, c)
    [] Op(p) = "case"     -> GenCase(g, p, c)
    [] Op(p) = "default"  -> GenDefault(g, p, c)
    [] Op(p) = "goto"     -> Emit(g, Jmp(Arg(p)))
    [] Op(p) = "label"    -> Gen(Emit(g, Label(Arg(p))), Kid(p, 1), c)

Entry(f)    == <<"function", f>>

\* Mutant: one return label for all functions.
RetLabelShared(f) == <<"ret", 0>>

RetLabel(f) == <<"ret", f>>

\* gen_function: ctx starts empty for every function.
GenFunction(g, f) ==
  Emit(Gen(Emit(g, Label(Entry(f))), <<f>>,
           [loops |-> << >>, switches |-> << >>, ret |-> RetLabel(f)]),
       Label(RetLabel(f)) \o Ret)

\* codegen_gen.
Compile ==
  LET f[n \in Nat] == IF n = 0 THEN [code |-> << >>, count |-> 0, idx |-> 0]
                      ELSE GenFunction(f[n - 1], n)
  IN  f[Kids(<< >>)].code

(***************************************************************************)
(* Resolution and execution.                                               *)
(***************************************************************************)
Defs(l)   == DefsIn(code, l)
Target(n) == TargetIn(code, n)

Visible(n) == code[n].i \in {"eval", "ret"}

Advance(n) == IF code[n].i = "jump" /\ rax \in code[n].when THEN Target(n) ELSE n + 1

(***************************************************************************)
(* Where the code generator is known not to do what the statements say.    *)
(***************************************************************************)
\* A break that belongs to a switch, with a loop further out.
BreaksPlain ==
  \A p \in DOMAIN prog :
    p # << >> /\ Op(p) = "break" /\ Inside(p, Loops) =>
      Op(Innermost(p, Loops \cup {"switch"})) \in Loops

\* A case or default that is not an element of its switch's compound: inside
\* another label (case 1: case 2:), inside a block, or all of the body.
LabelsDirect ==
  \A p \in DOMAIN prog :
    p # << >> /\ Op(p) \in {"case", "default"} =>
      Op(Front(p)) = "seq" /\ Front(p) = Kid(Innermost(p, {"switch"}), 1)

\* A label of the user's with the name of another function's, or of a generated one.
NamesDistinct ==
  \A p, q \in {r \in DOMAIN prog : Op(r) = "label"} :
    Len(Arg(p)) = 1 /\ (Arg(p) = Arg(q) => p = q)

Handled ==
  /\ "break" \in Admit \/ BreaksPlain
  /\ "case"  \in Admit \/ LabelsDirect
  /\ "label" \in Admit \/ NamesDistinct

Init ==
  /\ prog \in Programs
  /\ Legal
  /\ Handled
  /\ code = Compile
  /\ rax = 0
  /\ \E f \in 1..Kids(<< >>) :
       /\ pos = Enter(<<f>>)
       /\ pc \in Defs(Entry(f))

\* Jumps, labels and the places between two expressions.
Move ==
  /\ Silent(pos) \/ ~Visible(pc)
  /\ pos' = IF Silent(pos) THEN Onward(pos, 0) ELSE pos
  /\ pc'  = IF Visible(pc) THEN pc ELSE Advance(pc)
  /\ UNCHANGED <<prog, code, rax>>

\* The next expression, evaluated to v.
Evaluate(v) ==
  /\ Evaluates(pos)
  /\ code[pc].i = "eval"
  /\ pos' = Onward(pos, v)
  /\ pc'  = pc + 1
  /\ rax' = v
  /\ UNCHANGED <<prog, code>>

Next == Move \/ \E v \in Vals : Evaluate(v)

\* The processor goes on from one instruction to the next.
Spec == Init /\ [][Next]_vars /\ WF_vars(Move)

(***************************************************************************)
(* Properties.                                                             *)
(***************************************************************************)
\* The compiled code evaluates the expressions the statements say, in their
\* order, and returns when they are done: whatever break, continue, goto, case
\* label or empty clause comes in between.
InStep ==
  ~Silent(pos) /\ Visible(pc) =>
    IF pos = Done THEN code[pc].i = "ret" ELSE code[pc] = Eval(pos)[1]

\* Neither runs on in silence while the other has something to evaluate: the
\* code loops for ever without evaluating anything only if the program does.
KeepsPace == (~Silent(pos) ~> Visible(pc)) /\ (Visible(pc) ~> ~Silent(pos))

\* Every jump is resolved, to a label of the function it is in.
JumpsStay ==
  \A n \in DOMAIN code : code[n].i = "jump" =>
    /\ Defs(code[n].to) # {}
    /\ \A m \in n..Target(n) \cup Target(n)..n : code[m].i = "ret" => m = n
=============================================================================
