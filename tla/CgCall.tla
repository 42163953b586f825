------------------------------- MODULE CgCall -------------------------------
(***************************************************************************)
(* Passing parameters: how ND_CALL in gen_expr (src/codegen.c) distributes *)
(* the arguments over registers and stack, and how the prologue that       *)
(* gen_function emits finds them again and lays out the frame.  The two    *)
(* ends count registers separately; nothing but these counts connects them.*)
(*                                                                         *)
(* Memory is counted in units of four bytes, two to a word of the stack or *)
(* a register.  What a unit holds is a tag: <<i, n>> is unit n of argument *)
(* i, <<0, n>> is of no argument.                                          *)
(***************************************************************************)
EXTENDS Integers, SequencesExt

CONSTANTS
  NInt,         \* NARG_REGS, 6 in the code
  NFlt,         \* SSE registers for arguments, 8 in the code
  ArgTypes,     \* the types of arguments
  Signatures,   \* the argument lists
  Locals,       \* units of local variables the body may have
  Admit         \* which of the known deviations to let in

ASSUME NumbersAssumption ==
  /\ NInt \in Nat \ {0} /\ NFlt \in Nat \ {0}
  /\ Locals \subseteq Nat

\* A scalar fits a word; C has no empty types.
ASSUME TypesAssumption ==
  /\ Signatures \subseteq Seq(ArgTypes)
  /\ \A t \in ArgTypes :
       /\ t.kind \in {"int", "flt", "struct"}
       /\ t.size \in Nat \ {0} /\ t.align \in Nat \ {0}
       /\ t.kind # "struct" => t.size <= 2

VARIABLES
  sig,        \* the types of the arguments, those of the parameters as well
  variadic,   \* func_ty->is_variadic
  phase,      \* classify, push, pop, bind, body
  arg,        \* the argument, later the parameter, dealt with next
  ints, flts, \* int_count and flt_count, later int_pi and flt_pi
  slots,      \* slots: [arg, chunk, kind] in the order of the arguments
  todo,       \* slots still to be pushed or popped
  stack,      \* the words pushed, the latest last
  regs,       \* [int, flt]: the words in the argument registers, in their order
  next,       \* -locals.next_offset
  place,      \* parameter -> its offset from rbp
  frame       \* offset from rbp -> tag, of the units written and those of the saved rbp

sides    == <<slots, todo, stack, regs>>
callVars == <<sig, variadic, phase, arg, ints, flts, sides, next, place, frame>>

(***************************************************************************)
(* Types: kind, size and align in units; a struct has members [off, size,  *)
(* flt].                                                                   *)
(***************************************************************************)
Word        == 2
IsStruct(t) == t.kind = "struct"
Large(t)    == IsStruct(t) /\ t.size > 2 * Word

\* classify_struct_chunk, of a struct that is not large.
ChunkClass(t, c) ==
  LET in == {m \in t.members : m.off < (c + 1) * Word /\ m.off + m.size > c * Word}
  IN  IF in # {} /\ \A m \in in : m.flt THEN "flt" ELSE "int"

\* The class of each word of an argument; of a large struct one word is passed.
Classes(t) ==
  IF Large(t) THEN <<"stk">>
  ELSE IF ~IsStruct(t) THEN <<t.kind>>
  ELSE [c \in 1..(IF t.size > Word THEN 2 ELSE 1) |-> ChunkClass(t, c - 1)]

\* Word c of argument i, as it is loaded.
WordOf(i, c) ==
  [n \in 1..Word |-> IF c * Word + n <= sig[i].size THEN <<i, c * Word + n - 1>> ELSE <<0, 0>>]

Pad == [n \in 1..Word |-> <<0, 0>>]

(***************************************************************************)
(* The caller.                                                             *)
(***************************************************************************)
\* Where a word goes that finds i integer and f SSE registers taken.
KindOf(class, i, f) ==
  CASE class = "int" -> IF i < NInt THEN "int" ELSE "stk"
    [] class = "flt" -> IF f < NFlt THEN "flt" ELSE "stk"
    [] class = "stk" -> "stk"

One(b) == IF b THEN 1 ELSE 0

\* The slots of argument i, of type t, that finds n integer and f SSE registers taken.
SlotsOf(i, t, n, f) ==
  LET cs  == Classes(t)
      one == KindOf(cs[1], n, f)
  IN  [c \in DOMAIN cs |->
         [arg |-> i, chunk |-> c - 1,
          kind |-> IF c = 1 THEN one
                   ELSE KindOf(cs[2], n + One(one = "int"), f + One(one = "flt"))]]

Of(kind, s) == FlattenSeq([i \in DOMAIN s |-> IF s[i].kind = kind THEN <<s[i]>> ELSE << >>])
Count(kind, s) == Len(Of(kind, s))

\* The slots in the order they are pushed in, and in the order they are popped in.
PushOrder(s) == Reverse(Of("stk", s)) \o Reverse(Of("flt", s)) \o Reverse(Of("int", s))

\* Mutant: the SSE registers are popped first.
PopOrderFloats(s) == Of("flt", s) \o Of("int", s)

PopOrder(s) == Of("int", s) \o Of("flt", s)

(***************************************************************************)
(* What is known not to work.                                              *)
(***************************************************************************)
\* The slots of the first i arguments, of types s.
SlotsTo(s) ==
  LET f[i \in 0..Len(s)] ==
        IF i = 0 THEN << >>
        ELSE LET before == f[i - 1]
             IN  before \o SlotsOf(i, s[i], Count("int", before), Count("flt", before))
  IN  f

\* The loop over the arguments stops at 62 slots: what is beyond is not passed.
ASSUME SlotsAssumption ==
  \A s \in Signatures : Len(SlotsTo(s)[Len(s)]) <= 62

\* "large" and "spilled" structs are not looked for on the stack; "mixed": a stack
\* parameter behind a float one is looked for too high; "half": the second half of
\* the word stored hits what lies above; "variadic": only the integer registers are
\* saved.
Deviations(s, v) ==
  LET all         == SlotsTo(s)[Len(s)]
      T(k)        == s[all[k].arg]
      stk         == {k \in DOMAIN all : all[k].kind = "stk"}
      Ints(k)     == Count("int", SubSeq(all, 1, k - 1))
      When(b, d)  == IF b THEN {d} ELSE {}
  IN  UNION {
        When(\E k \in stk : Large(T(k)), "large"),
        When(\E k \in stk : IsStruct(T(k)) /\ ~Large(T(k)), "spilled"),
        When(\E j, k \in stk : j < k /\ T(j).kind = "flt" /\ Ints(k) >= NInt, "mixed"),
        When(\E k \in DOMAIN all : /\ T(k).size % Word # 0
                                   /\ IsStruct(T(k)) \/ all[k].kind = "flt", "half"),
        When(v /\ \E k \in DOMAIN all : k > NInt \/ T(k).kind # "int", "variadic")}

CallInit ==
  /\ sig \in Signatures
  /\ variadic \in BOOLEAN
  /\ Deviations(sig, variadic) \subseteq Admit
  /\ phase = "classify"
  /\ arg = 1 /\ ints = 0 /\ flts = 0
  /\ slots = << >> /\ todo = << >> /\ stack = << >>
  /\ regs = [int |-> << >>, flt |-> << >>]
  /\ next = 0
  /\ place = << >>
  /\ frame = [o \in 0..Word - 1 |-> <<0, o>>]

Classify ==
  /\ phase = "classify" /\ arg <= Len(sig)
  /\ LET new == SlotsOf(arg, sig[arg], ints, flts)
     IN  /\ slots' = slots \o new
         /\ ints' = ints + Count("int", new)
         /\ flts' = flts + Count("flt", new)
  /\ arg' = arg + 1
  /\ UNCHANGED <<sig, variadic, phase, todo, stack, regs, next, place, frame>>

\* The pad makes the stack arguments an even number of words.
StartPush ==
  /\ phase = "classify" /\ arg > Len(sig)
  /\ phase' = "push"
  /\ todo' = PushOrder(slots)
  /\ stack' = IF Count("stk", slots) % 2 # 0 THEN <<Pad>> ELSE << >>
  /\ UNCHANGED <<sig, variadic, arg, ints, flts, slots, regs, next, place, frame>>

PushSlot ==
  /\ phase = "push" /\ todo # << >>
  /\ stack' = Append(stack, WordOf(Head(todo).arg, Head(todo).chunk))
  /\ todo' = Tail(todo)
  /\ UNCHANGED <<sig, variadic, phase, arg, ints, flts, slots, regs, next, place, frame>>

StartPop ==
  /\ phase = "push" /\ todo = << >>
  /\ phase' = "pop"
  /\ todo' = PopOrder(slots)
  /\ UNCHANGED <<sig, variadic, arg, ints, flts, slots, stack, regs, next, place, frame>>

PopSlot ==
  /\ phase = "pop" /\ todo # << >>
  /\ regs' = [regs EXCEPT ![Head(todo).kind] = Append(@, Last(stack))]
  /\ stack' = Front(stack)
  /\ todo' = Tail(todo)
  /\ UNCHANGED <<sig, variadic, phase, arg, ints, flts, slots, next, place, frame>>

(***************************************************************************)
(* The callee.                                                             *)
(***************************************************************************)
\* local_alloc: where an object of type t goes when next units are taken.
AlignUp(n, a) == ((n + a - 1) \div a) * a

Alloc(n, t)   == AlignUp(n + t.size, t.align)

\* f with the first k units of word w at offset o.
Write(f, o, w, k) ==
  [x \in DOMAIN f \cup o..o + k - 1 |-> IF x \in o..o + k - 1 THEN w[x - o + 1] ELSE f[x]]

\* The k-th argument register of a kind, k counting from 0.
Reg(kind, k) == IF k < Len(regs[kind]) THEN regs[kind][k + 1] ELSE Pad

\* The call.  A variadic function saves all the integer registers, the k-th at
\* -8k, where its named parameters are taken to be and va_arg finds the others.
Enter ==
  /\ phase = "pop" /\ todo = << >>
  /\ phase' = "bind"
  /\ arg' = IF variadic THEN Len(sig) + 1 ELSE 1
  /\ ints' = 0 /\ flts' = 0
  /\ IF variadic
     THEN /\ frame' = [x \in DOMAIN frame \cup -(NInt * Word)..-1 |->
                         IF x >= 0 THEN frame[x]
                         ELSE LET k == (-x + Word - 1) \div Word
                              IN  Reg("int", k - 1)[x + k * Word + 1]]
          /\ place' = [i \in DOMAIN sig |-> -i * Word]
          /\ next' = NInt * Word
     ELSE UNCHANGED <<frame, place, next>>
  /\ UNCHANGED <<sig, variadic, slots, todo, stack, regs>>

\* 128 bytes: what an immediate operand of one byte cannot hold.
OneByte == 32

Binding(t) == phase = "bind" /\ arg <= Len(sig) /\ sig[arg] = t

\* A parameter in a register is copied to the frame: an integer with its size, an
\* SSE register as a whole.
BindRegister(t, kind, k, units) ==
  /\ next' = Alloc(next, t)
  /\ place' = Append(place, -next')
  /\ frame' = Write(frame, -next', Reg(kind, k), units)
  /\ ints' = ints + One(kind = "int")
  /\ flts' = flts + One(kind = "flt")

BindInt(t) ==
  /\ Binding(t) /\ t.kind = "int" /\ ints < NInt
  /\ BindRegister(t, "int", ints, t.size)
  /\ arg' = arg + 1
  /\ UNCHANGED <<sig, variadic, phase, sides>>

BindFlt(t) ==
  /\ Binding(t) /\ t.kind = "flt" /\ flts < NFlt
  /\ BindRegister(t, "flt", flts, Word)
  /\ arg' = arg + 1
  /\ UNCHANGED <<sig, variadic, phase, sides>>

\* stack_idx, of a parameter for which there is no register.
StackIndex(t) == IF ints >= NInt THEN ints - NInt ELSE IF flts >= NFlt THEN flts - NFlt ELSE 0

BindStack(t) ==
  /\ Binding(t)
  /\ (t.kind = "int" /\ ints >= NInt) \/ (t.kind = "flt" /\ flts >= NFlt)
  /\ place' = Append(place, (2 + StackIndex(t)) * Word)
  /\ ints' = ints + One(t.kind = "int")
  /\ flts' = flts + One(t.kind = "flt")
  /\ arg' = arg + 1
  /\ UNCHANGED <<sig, variadic, phase, sides, next, frame>>

\* Each word of a struct from its register, or nothing where there is none left.
BindStruct(t) ==
  /\ Binding(t) /\ IsStruct(t)
  /\ next' = Alloc(next, t)
  /\ place' = Append(place, -next')
  /\ IF Large(t) THEN UNCHANGED <<frame, ints, flts>>
     ELSE LET cs  == Classes(t)
              k1  == KindOf(cs[1], ints, flts)
              i1  == ints + One(k1 = "int")
              f1  == flts + One(k1 = "flt")
              w1  == IF k1 = "stk" THEN Pad ELSE Reg(k1, IF k1 = "int" THEN ints ELSE flts)
              k2  == IF Len(cs) = 2 THEN KindOf(cs[2], i1, f1) ELSE "stk"
              w2  == IF k2 = "stk" THEN Pad ELSE Reg(k2, IF k2 = "int" THEN i1 ELSE f1)
              one == Write(frame, -next', w1, Word)
          IN  /\ frame' = IF Len(cs) = 2 THEN Write(one, -next' + Word, w2, Word) ELSE one
              /\ ints' = i1 + One(k2 = "int")
              /\ flts' = f1 + One(k2 = "flt")
  /\ arg' = arg + 1
  /\ UNCHANGED <<sig, variadic, phase, sides>>

Bind == \E i \in DOMAIN sig :
          BindInt(sig[i]) \/ BindFlt(sig[i]) \/ BindStack(sig[i]) \/ BindStruct(sig[i])

\* The body allocates its local variables on.
Body ==
  /\ phase = "bind" /\ arg > Len(sig)
  /\ \E n \in Locals : next' = AlignUp(next + n, Word)
  /\ "wide" \in Admit \/ AlignUp(next', 2 * Word) + Word < OneByte
  /\ phase' = "body"
  /\ UNCHANGED <<sig, variadic, arg, ints, flts, sides, place, frame>>

CallNext ==
  \/ Classify \/ StartPush \/ PushSlot \/ StartPop \/ PopSlot \/ Enter \/ Bind \/ Body

CallSpec == CallInit /\ [][CallNext]_callVars

\* Mutant: the space is not made up for the five registers saved below it.
ReservedPlain(n) == AlignUp(n, 2 * Word)

\* What the prologue takes from rsp for n units of locals: patched afterwards, if it
\* fits the one byte there is.
Reserved(n) ==
  LET r == AlignUp(n, 2 * Word) + Word
  IN  IF r < OneByte THEN r ELSE 0

(***************************************************************************)
(* Properties.                                                             *)
(***************************************************************************)
\* Unit n above rbp: saved rbp and return address, then what the caller pushed.
Above(n) == stack[Len(stack) - (n \div Word - 2)][(n % Word) + 1]
At(o)    == IF o >= 2 * Word THEN Above(o) ELSE IF o \in DOMAIN frame THEN frame[o] ELSE <<0, o>>

\* When the body starts, every parameter is where the body looks for it, whole,
\* however the arguments were distributed, and no other has been written over it.
ParamsArrive ==
  phase = "body" =>
    \A i \in DOMAIN sig : \A n \in 0..sig[i].size - 1 : At(place[i] + n) = <<i, n>>

\* Saving the parameters leaves the caller's rbp alone, and the locals are all above
\* the registers saved below them, with rsp on a 16-byte boundary.
FrameHolds ==
  /\ \A o \in 0..Word - 1 : frame[o] = <<0, o>>
  /\ phase = "body" => next <= Reserved(next) /\ Reserved(next) % 4 = 2
=============================================================================
