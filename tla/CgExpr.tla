------------------------------- MODULE CgExpr -------------------------------
(***************************************************************************)
(* The code that gen_expr, gen_lvalue, gen_assign and gen_compound_assign  *)
(* (src/codegen.c) emit for an expression, run on the registers, the stack *)
(* and the memory it uses, and held against what the expression means      *)
(* (CExpr).  One step is one instruction.                                  *)
(*                                                                         *)
(* A function that is called gets the argument registers and the stack,    *)
(* and leaves anything it likes in the registers it need not preserve.     *)
(***************************************************************************)
EXTENDS CExpr, CgLabels

CONSTANTS
  Trees,      \* the expressions to compile
  Memories,   \* the contents the cells may start with
  Junk,       \* what a called function may leave in a register
  Admit       \* which of the known deviations to let in

VARIABLES
  want,    \* [tree, meaning]: what is compiled, and what it means
  code,    \* e->buf
  pc,      \* the instruction the processor is at
  regs,    \* general registers
  flags,   \* the two numbers whose comparison the flags hold
  stack,   \* the words pushed by this expression, the latest last
  mem,     \* the cells
  calls    \* the calls made

vars == <<want, code, pc, regs, flags, stack, mem, calls>>

ArgRegs == <<"rdi", "rsi", "rdx", "rcx", "r8", "r9">>
Clobbered == Range(ArgRegs) \cup {"r10"}
Regs    == Clobbered \cup {"rax", "rbp"}

(***************************************************************************)
(* Instructions.                                                           *)
(***************************************************************************)
MovI(d, v)       == <<[i |-> "movi", d |-> d, v |-> v]>>
Mov(d, s)        == <<[i |-> "mov", d |-> d, s |-> s]>>
Lea(x)           == <<[i |-> "movi", d |-> "rax", v |-> Frame[x].at]>>
LoadFrom(base, disp, sz, signed) ==
  <<[i |-> "load", base |-> base, disp |-> disp, sz |-> sz, signed |-> signed]>>
Store(sz)        == <<[i |-> "store", sz |-> sz]>>
Push(r)          == <<[i |-> "push", s |-> r]>>
Pop(r)           == <<[i |-> "pop", d |-> r]>>
Alu(op, d, s)    == <<[i |-> "alu", op |-> op, d |-> d, s |-> s]>>
AluI(op, d, v)   == <<[i |-> "alui", op |-> op, d |-> d, v |-> v]>>
Cqo              == <<[i |-> "cqo"]>>
Idiv(r)          == <<[i |-> "idiv", s |-> r]>>
Cmp(a, b)        == <<[i |-> "cmp", a |-> a, b |-> b]>>
Test             == <<[i |-> "test"]>>
SetCc(cc, r)     == <<[i |-> "setcc", cc |-> cc, d |-> r]>>
Ext(s, sz, signed) == <<[i |-> "ext", s |-> s, sz |-> sz, signed |-> signed]>>
Jump(on, l)      == <<[i |-> "jump", on |-> on, to |-> l]>>
CallTo(f, n)     == <<[i |-> "call", f |-> f, n |-> n]>>
CallRax(n)       == <<[i |-> "callr", n |-> n]>>
Rsp(words)       == <<[i |-> "rsp", words |-> words]>>

\* Sizes a register can be loaded with; of the rest the address is taken.
Loadable(t) == Size[t] \in {1, 2, 4, 8}

LoadLocal(x) ==
  LET t == Frame[x].ty
  IN  IF Loadable(t) THEN LoadFrom("rbp", Frame[x].at, Size[t], ~Unsigned(t)) ELSE Lea(x)

LoadPtr(t) ==
  IF Loadable(t) THEN LoadFrom("rcx", 0, Size[t], Size[t] = 4 \/ ~Unsigned(t))
  ELSE Mov("rax", "rcx")

StorePtr(t) == Store(Size[t])

(***************************************************************************)
(* Generation.                                                             *)
(***************************************************************************)
RECURSIVE Gen(_, _)
RECURSIVE GenPlace(_, _)

GenVar(g, n) ==
  Emit(g, IF Frame[n.arg].local THEN LoadLocal(n.arg)
          ELSE Lea(n.arg) \o Mov("rcx", "rax") \o LoadPtr(n.ty))

\* Scaling by the size of what a pointer points to.
Scale(t) ==
  IF Decay(t) \in Pointer THEN AluI("mul", "rax", Size[Base[Decay(t)]]) ELSE << >>

GenIndex(g, n) ==
  LET a == n.kids[1]
      b == IF a.ty \in Pointer THEN Gen(g, a) ELSE GenPlace(g, a)
      i == Gen(Emit(b, Push("rax")), n.kids[2])
  IN  Emit(i, Pop("rcx") \o AluI("mul", "rax", Size[n.ty]) \o Alu("add", "rax", "rcx"))

Offset(f) == IF Fields[f].off = 0 THEN << >> ELSE AluI("add", "rax", Fields[f].off)

\* gen_lvalue.
GenPlace(g, n) ==
  CASE n.op = "var"    -> Emit(g, Lea(n.arg))
    [] n.op = "deref"  -> Gen(g, n.kids[1])
    [] n.op = "index"  -> GenIndex(g, n)
    [] n.op = "member" -> Emit(GenPlace(g, n.kids[1]), Offset(n.arg))
    [] n.op = "arrow"  -> Emit(Gen(g, n.kids[1]), Offset(n.arg))

\* The address of n to rcx, with rax kept on the stack meanwhile.
GenStore(g, n, t) ==
  Emit(GenPlace(Emit(g, Push("rax")), n), Mov("rcx", "rax") \o Pop("rax") \o StorePtr(t))

\* Mutant: the value is kept in a register the place may use.
GenAssignInRcx(g, n) ==
  LET r == Emit(Gen(g, n.kids[2]), Mov("r10", "rax"))
  IN  Emit(GenPlace(r, n.kids[1]), Mov("rcx", "rax") \o Mov("rax", "r10") \o StorePtr(n.kids[1].ty))

GenAssign(g, n) == GenStore(Gen(g, n.kids[2]), n.kids[1], n.kids[1].ty)

\* rcx := rcx op rax, with the quotient in rax as well; the remainder is not.
Combine(op, t) ==
  LET swap == Mov("r10", "rax") \o Mov("rax", "rcx")
      wise == IF op \in {"add", "sub"} THEN Scale(t) ELSE << >>
  IN  CASE op = "shl" -> swap \o Mov("rcx", "r10") \o Alu("shl", "rax", "rcx")
        [] op = "shr" -> swap \o Mov("rcx", "r10") \o Alu("sar", "rax", "rcx")
        [] op \in {"div", "mod"} -> swap \o Cqo \o Idiv("r10")
        [] OTHER      -> wise \o Alu(op, "rcx", "rax") \o Mov("rax", "rcx")

GenCompound(g, n) ==
  LET lhs == n.kids[1]
      old == Emit(GenPlace(g, lhs),
                  Push("rax") \o Mov("rcx", "rax") \o LoadPtr(lhs.ty) \o Push("rax"))
      new == Emit(Gen(old, n.kids[2]), Pop("rcx") \o Combine(n.arg, lhs.ty) \o Pop("rcx"))
  IN  GenStore(new, lhs, lhs.ty)

GenStep(g, n) ==
  LET k    == n.kids[1]
      by   == IF n.op \in {"preinc", "postinc"} THEN 1 ELSE -1
      old  == Emit(GenPlace(g, k), Mov("rcx", "rax") \o LoadPtr(n.ty))
      inc  == AluI("add", "rax", by)
  IN  CASE n.op = "preinc" ->
             Emit(GenPlace(Emit(old, inc \o Push("rax") \o Push("rcx")), k),
                  Mov("rcx", "rax") \o Pop("r10") \o Pop("rax") \o StorePtr(n.ty))
        [] n.op = "predec" -> GenStore(Emit(old, inc), k, n.ty)
        [] OTHER -> Emit(GenStore(Emit(old, Push("rax") \o inc), k, n.ty), Pop("rax"))

\* The condition code of a comparison.
CondCode(op, t) ==
  IF op \in {"eq", "ne"} \/ ~Unsigned(t) THEN <<op, "signed">> ELSE <<op, "unsigned">>

\* What follows the operands: the left one pushed, the right one in rax.
Finish(op, t, u) ==
  LET both == Mov("rcx", "rax") \o Pop("rax")
  IN  CASE op = "add" -> Pop("rcx") \o Scale(t) \o Alu("add", "rax", "rcx")
        [] op = "sub" -> Pop("rcx") \o Alu("sub", "rcx", "rax") \o Mov("rax", "rcx")
             \o (IF Decay(t) \in Pointer /\ Decay(u) \in Pointer
                 THEN MovI("rcx", Size[Base[Decay(t)]]) \o Cqo \o Idiv("rcx") ELSE << >>)
        [] op \in {"mul", "and", "or", "xor"} -> Pop("rcx") \o Alu(op, "rax", "rcx")
        [] op = "div" -> both \o Cqo \o Idiv("rcx")
        [] op = "mod" -> both \o Cqo \o Idiv("rcx") \o Mov("rax", "rdx")
        [] op = "shl" -> both \o Alu("shl", "rax", "rcx")
        [] op = "shr" -> both \o Alu(IF Unsigned(t) THEN "shr" ELSE "sar", "rax", "rcx")
        [] op \in Relations ->
             Pop("rcx") \o Cmp("rcx", "rax") \o SetCc(CondCode(op, t), "rcx") \o Ext("rcx", 1, FALSE)

GenBinary(g, n) ==
  LET l == Emit(Gen(g, n.kids[1]), Push("rax"))
  IN  Emit(Gen(l, n.kids[2]), Finish(n.op, n.kids[1].ty, n.kids[2].ty))

GenLogic(g, n) ==
  LET out  == <<n.op, g.count>>
      end  == <<n.op, g.count + 1>>
      on   == IF n.op = "land" THEN "z" ELSE "nz"
      one  == Emit(Gen(Fresh(g, 2), n.kids[1]), Test \o Jump(on, out))
      both == Emit(Gen(one, n.kids[2]), Test \o Jump(on, out))
      v    == IF n.op = "land" THEN 1 ELSE 0
  IN  Emit(both, MovI("rax", v) \o Jump("always", end) \o Label(out)
                   \o MovI("rax", 1 - v) \o Label(end))

GenCond(g, n) ==
  LET els  == <<"cond_else", g.count>>
      end  == <<"cond_end", g.count + 1>>
      c    == Emit(Gen(Fresh(g, 2), n.kids[1]), Test \o Jump("z", els))
      then == Emit(Gen(c, n.kids[2]), Jump("always", end) \o Label(els))
  IN  Emit(Gen(then, n.kids[3]), Label(end))

\* Clears rax between the test and setz.
NotCode == Test \o Alu("xor", "rax", "rax") \o SetCc(<<"eq", "signed">>, "rax")

CastCode(t) == IF Size[t] = 8 THEN << >> ELSE Ext("rax", Size[t], ~Unsigned(t))

Min2(a, b) == IF a < b THEN a ELSE b

Cleanup(m) == IF m > 6 THEN Rsp(-(m - 6 + (m % 2))) ELSE << >>

\* Mutant: the pad of the stack arguments is forgotten.
PadNever(m) == << >>

\* Mutant: padded when the words on the stack are even already.
PadWhenEven(m) == IF m > 6 /\ m % 2 = 0 THEN Rsp(1) ELSE << >>

Pad(m) == IF m > 6 /\ m % 2 # 0 THEN Rsp(1) ELSE << >>

\* ND_CALL with integer arguments: all pushed, from the last, then as many popped
\* as there are argument registers.
GenCall(g, n) ==
  LET m     == Len(n.kids)
      f[k \in 0..m] == IF k = 0 THEN Emit(g, Pad(m))
                       ELSE Emit(Gen(f[k - 1], n.kids[m + 1 - k]), Push("rax"))
      pops  == FlattenSeq([k \in 1..Min2(6, m) |-> Pop(ArgRegs[k])])
      to    == IF n.arg \in DOMAIN Frame THEN LoadLocal(n.arg) \o CallRax(m) ELSE CallTo(n.arg, m)
  IN  Emit(f[m], pops \o MovI("rax", 0) \o to \o Cleanup(m))

\* gen_expr.
Gen(g, n) ==
  CASE n.op = "lit"      -> Emit(g, MovI("rax", n.arg))
    [] n.op = "var"      -> GenVar(g, n)
    [] n.op = "assign"   -> GenAssign(g, n)
    [] n.op = "compound" -> GenCompound(g, n)
    [] n.op \in Steps    -> GenStep(g, n)
    [] n.op \in Arithmetic \cup Shifts \cup Relations -> GenBinary(g, n)
    [] n.op \in {"land", "lor"} -> GenLogic(g, n)
    [] n.op = "cond"     -> GenCond(g, n)
    [] n.op = "comma"    -> Gen(Gen(g, n.kids[1]), n.kids[2])
    [] n.op = "neg"      -> Emit(Gen(g, n.kids[1]), Alu("neg", "rax", "rax"))
    [] n.op = "bitnot"   -> Emit(Gen(g, n.kids[1]), Alu("not", "rax", "rax"))
    [] n.op = "not"      -> Emit(Gen(g, n.kids[1]), NotCode)
    [] n.op = "cast"     -> Emit(Gen(g, n.kids[1]), CastCode(n.ty))
    [] n.op = "addr"     -> GenPlace(g, n.kids[1])
    [] n.op \in {"deref", "index", "member", "arrow"} ->
         Emit(GenPlace(g, n), Mov("rcx", "rax") \o LoadPtr(n.ty))
    [] n.op = "call"     -> GenCall(g, n)

(***************************************************************************)
(* Execution.                                                              *)
(***************************************************************************)
Handled(t, memory) == Meaning(t, memory).odd \subseteq Admit

Init ==
  /\ \E t \in Trees, memory \in Memories :
       /\ Handled(t, memory)
       /\ want = [tree |-> t, meaning |-> Meaning(t, memory)]
       /\ mem = memory
  /\ code = Gen([code |-> << >>, count |-> 0], want.tree).code
  /\ pc = 1
  /\ regs = [r \in Regs |-> 0]
  /\ flags = <<0, 0>>
  /\ stack = << >>
  /\ calls = << >>

At(i) == pc \in DOMAIN code /\ code[pc].i = i
Cur   == code[pc]
Step1 == pc' = pc + 1 /\ UNCHANGED <<want, code>>

Into(r, v) == regs' = [regs EXCEPT ![r] = v]

\* Moves, constants, addresses, sign and zero extension.
Transfer ==
  /\ \/ At("movi") /\ Into(Cur.d, Cur.v)
     \/ At("mov") /\ Into(Cur.d, regs[Cur.s])
     \/ At("ext") /\ Into("rax", Extend(regs[Cur.s], ByteBits * Cur.sz, Cur.signed))
     \/ At("cqo") /\ Into("rdx", IF regs["rax"] < 0 THEN -1 ELSE 0)
  /\ Step1 /\ UNCHANGED <<flags, stack, mem, calls>>

Skip == At("label") /\ Step1 /\ UNCHANGED <<regs, flags, stack, mem, calls>>

\* An access is to an object, with its size; any other is a fault.
Accesses(a) == a \in DOMAIN Cells /\ Size[Cells[a]] = Cur.sz

MemLoad ==
  /\ At("load")
  /\ LET a == regs[Cur.base] + Cur.disp
     IN  Accesses(a) /\ Into("rax", Extend(mem[a], ByteBits * Cur.sz, Cur.signed))
  /\ Step1 /\ UNCHANGED <<flags, stack, mem, calls>>

MemStore ==
  /\ At("store")
  /\ Accesses(regs["rcx"])
  /\ mem' = [mem EXCEPT ![regs["rcx"]] = Wrap(regs["rax"], ByteBits * Cur.sz)]
  /\ Step1 /\ UNCHANGED <<regs, flags, stack, calls>>

PushWord ==
  /\ At("push")
  /\ stack' = Append(stack, regs[Cur.s])
  /\ Step1 /\ UNCHANGED <<regs, flags, mem, calls>>

PopWord ==
  /\ At("pop") /\ stack # << >>
  /\ Into(Cur.d, Last(stack))
  /\ stack' = Front(stack)
  /\ Step1 /\ UNCHANGED <<flags, mem, calls>>

MoveRsp ==
  /\ At("rsp") /\ Len(stack) + Cur.words >= 0
  /\ stack' = IF Cur.words < 0 THEN SubSeq(stack, 1, Len(stack) + Cur.words)
              ELSE stack \o [k \in 1..Cur.words |-> 0]
  /\ Step1 /\ UNCHANGED <<regs, flags, mem, calls>>

\* A shift counts with the low bits of rcx; shr takes its operand as unsigned.
AluResult(op, x, y) ==
  Word(CASE op = "shl" -> x * 2 ^ (y % Bits("long"))
         [] op = "sar" -> x \div 2 ^ (y % Bits("long"))
         [] op = "shr" -> Wrap(x, Bits("long")) \div 2 ^ (y % Bits("long"))
         [] op = "neg" -> -x
         [] op = "not" -> -x - 1
         [] OTHER      -> Exact(op, x, y))

Arith ==
  /\ At("alu") \/ At("alui")
  /\ LET v == AluResult(Cur.op, regs[Cur.d], IF At("alu") THEN regs[Cur.s] ELSE Cur.v)
     IN  /\ Into(Cur.d, v)
         /\ flags' = IF Cur.op = "not" THEN flags ELSE <<v, 0>>
  /\ Step1 /\ UNCHANGED <<stack, mem, calls>>

\* Faults unless rdx extends rax.
Divide ==
  /\ At("idiv")
  /\ regs[Cur.s] # 0
  /\ regs["rdx"] = (IF regs["rax"] < 0 THEN -1 ELSE 0)
  /\ LET q == Quot(regs["rax"], regs[Cur.s])
     IN  regs' = [regs EXCEPT !["rax"] = q, !["rdx"] = regs["rax"] - q * regs[Cur.s]]
  /\ Step1 /\ UNCHANGED <<flags, stack, mem, calls>>

Compare ==
  /\ \/ At("cmp") /\ flags' = <<regs[Cur.a], regs[Cur.b]>>
     \/ At("test") /\ flags' = <<regs["rax"], 0>>
  /\ Step1 /\ UNCHANGED <<regs, stack, mem, calls>>

\* Only the low byte of the register is written.
SetByte ==
  /\ At("setcc")
  /\ LET side(k) == IF Cur.cc[2] = "signed" THEN flags[k] ELSE Wrap(flags[k], Bits("long"))
         r       == regs[Cur.d]
     IN  Into(Cur.d, r - Wrap(r, ByteBits) + Truth(Holds(Cur.cc[1], side(1), side(2))))
  /\ Step1 /\ UNCHANGED <<flags, stack, mem, calls>>

Taken == CASE Cur.on = "z"  -> flags[1] = flags[2]
           [] Cur.on = "nz" -> flags[1] # flags[2]
           [] OTHER         -> TRUE

TakeJump ==
  /\ At("jump")
  /\ pc' = IF Taken THEN TargetIn(code, pc) ELSE pc + 1
  /\ UNCHANGED <<want, code, regs, flags, stack, mem, calls>>

\* What a function finds as its k-th of n arguments.
Argument(k) == IF k <= 6 THEN regs[ArgRegs[k]] ELSE stack[Len(stack) - (k - 7)]

\* A function that returns int leaves the upper half of rax as it likes.
Answers(f) ==
  LET v == 2 - (Len(calls) + 1)
  IN  IF f = "g" THEN {v, Extend(v, Bits("int"), FALSE)} ELSE {v}

CallFunction ==
  /\ At("call") \/ At("callr")
  /\ Len(stack) >= Cur.n - 6
  /\ LET f == IF At("call") THEN Cur.f ELSE regs["rax"]
     IN  /\ calls' = Append(calls, [to |-> f, args |-> [k \in 1..Cur.n |-> Argument(k)]])
         /\ \E v \in Answers(IF At("call") THEN Cur.f ELSE "f"), j \in Junk :
              regs' = [r \in Regs |-> IF r = "rax" THEN v ELSE IF r \in Clobbered THEN j ELSE regs[r]]
  /\ Step1 /\ UNCHANGED <<flags, stack, mem>>

Next ==
  \/ Transfer \/ Skip \/ MemLoad \/ MemStore \/ PushWord \/ PopWord \/ MoveRsp
  \/ Arith \/ Divide \/ Compare \/ SetByte \/ TakeJump \/ CallFunction

\* The processor goes on as long as it can.
Spec == Init /\ [][Next]_vars /\ WF_vars(Next)

(***************************************************************************)
(* Properties.                                                             *)
(***************************************************************************)
\* The value, the memory and the calls, with their arguments, are in the end what
\* the expression means, and nothing is left on the stack: whatever the operands
\* are, and whatever the functions called meanwhile do to the registers.
ComputesMeaning ==
  pc = Len(code) + 1 =>
    /\ regs["rax"] = want.meaning.v
    /\ mem = want.meaning.mem
    /\ calls = want.meaning.calls
    /\ stack = << >>

\* The code comes to its end: no pop from an empty stack, no access to anything
\* but an object with its own size, no division that faults, no jump astray.
Finishes == <>(pc = Len(code) + 1)

RECURSIVE Calling(_)
Calling(n) == n.op = "call" \/ \E i \in DOMAIN n.kids : Calling(n.kids[i])

\* No call of n is made while an operand waits on the stack: each is in what is
\* evaluated first.
RECURSIVE Plain(_)
Plain(n) ==
  \A i \in DOMAIN n.kids : Calling(n.kids[i]) =>
    /\ Plain(n.kids[i])
    /\ n.op \in Arithmetic \cup Shifts \cup Relations \cup {"index"} => i = 1
    /\ n.op = "assign" => i = 2
    /\ n.op \notin {"compound"} \cup Steps
    /\ n.op = "call" => i = Len(n.kids) /\ i <= 6

\* rsp is on a 16-byte boundary at every such call, with stack arguments or not.
CallsAligned ==
  (At("call") \/ At("callr")) /\ Plain(want.tree) => Len(stack) % 2 = 0
=============================================================================
