------------------------------- MODULE VmExec -------------------------------
(***************************************************************************)
(* Calls, closures and exceptions of the bytecode interpreter: the value   *)
(* stack, the frame stack, the try stack and the list of open upvalues of  *)
(* vm/src/vm_exec.c and vm/src/vm_closure.c.                               *)
(*                                                                         *)
(* A step is one instruction.  The bytecode is not fixed: any instruction  *)
(* may come next that a compiler could have put there.  What is expected   *)
(* of a compiler is in three definitions: Floor (operands do not eat into  *)
(* locals or into what a handler will restore), Temporary (a slot captured *)
(* by a closure is a variable, closed with CLOSE_UPVAL rather than popped) *)
(* and the block structure of try (TryEnd, and Leave unless ReturnInTry).  *)
(*                                                                         *)
(* Slots are numbered from 0 as in vm->value_stack, so slot s is           *)
(* stack[s + 1].  A closure captures at most one variable.                 *)
(***************************************************************************)
EXTENDS Integers, Sequences, SequencesExt

CONSTANTS
  StackMax,      \* bound of the model on the value stack, which the code never checks
  FrameMax,      \* FRAME_MAX
  TryMax,        \* TRY_MAX
  UpvalMax,      \* bound of the model: upvalues created in one run
  LocalMax,      \* bound of the model: max_locals of a function
  CaptureInTry,  \* may a variable declared inside a try block be captured?
  ReturnInTry    \* may a function return inside a try block?

ASSUME ExecAssumption ==
  /\ {StackMax, FrameMax, TryMax, UpvalMax, LocalMax} \subseteq Nat
  /\ FrameMax > 0
  /\ CaptureInTry \in BOOLEAN /\ ReturnInTry \in BOOLEAN

VARIABLES
  status,   \* "idle", "running", "stopped" (HALT or a runtime error)
  stack,    \* vm->value_stack up to vm->stack_top
  frames,   \* vm->frame_stack: [base, up, locals]
  tries,    \* vm->try_stack: [depth, height, up]
  upvals,   \* upvals[u]: [loc, closed], loc = Self once closed
  open,     \* vm->open_upvalues, head first
  shadow    \* shadow[u]: value of the variable u stands for (history)

vars == <<status, stack, frames, tries, upvals, open, shadow>>

Self   == -1
Nil    == 0
Datum  == 1        \* any other value: a number, a native, a closure that captures nothing
Gone   == 2        \* what a slot above the top reads as: not a variable's value
Closure(u) == 10 + u                \* a closure that captured upvalue u
Upvals   == 1..Len(upvals)
Closures == {Closure(u) : u \in 1..UpvalMax}
Value    == {Nil, Datum} \cup Closures

\* The upvalue of callee v, 0 when it has none.
UpvalOf(v) == IF v \in Closures THEN v - 10 ELSE 0

Top      == Len(stack)              \* vm->stack_top
Frame    == frames[Len(frames)]
Running  == status = "running"
At(s)    == stack[s + 1]
Peek(n)  == stack[Top - n]
Captured(s) == \E i \in 1..Len(open) : upvals[open[i]].loc = s

\* The try blocks the running function is in.
OwnTries == {i \in 1..Len(tries) : tries[i].depth = Len(frames)}

\* The lowest slot an operand of the running function may be in.
Floor ==
  LET locals == Frame.base + Frame.locals
  IN  IF OwnTries = {} THEN locals ELSE tries[Len(tries)].height

\* The n topmost slots hold operands, not variables.
Temporary(n) ==
  /\ Top - n >= Floor
  /\ \A s \in Top - n..Top - 1 : ~Captured(s)

Init ==
  /\ status = "idle"
  /\ stack  = << >>
  /\ frames = << >>
  /\ tries  = << >>
  /\ upvals = << >>
  /\ open   = << >>
  /\ shadow = << >>

(***************************************************************************)
(* Upvalues (vm_closure.c).                                                *)
(***************************************************************************)
Location(u) == upvals[u].loc

\* *upval->location.
Read(u) ==
  IF Location(u) = Self THEN upvals[u].closed
  ELSE IF Location(u) < Top THEN At(Location(u))
  ELSE Gone

\* Mutant: the slot itself is left open.
ClosesAbove(n, s) ==
  /\ \A i \in 1..n : Location(open[i]) > s
  /\ n < Len(open) => Location(open[n + 1]) <= s

\* vm_close_upvals(slot s) takes n upvalues off the list: it stops at the first
\* one of a lower slot.
Closes(n, s) ==
  /\ \A i \in 1..n : Location(open[i]) >= s
  /\ n < Len(open) => Location(open[n + 1]) < s

CloseFrom(s) ==
  \E n \in 0..Len(open) :
    /\ Closes(n, s)
    /\ upvals' = [u \in Upvals |->
                    IF \E i \in 1..n : open[i] = u THEN [loc |-> Self, closed |-> Read(u)]
                    ELSE upvals[u]]
    /\ open' = SubSeq(open, n + 1, Len(open))
    /\ UNCHANGED shadow

KeepUpvals == UNCHANGED <<upvals, open, shadow>>

\* Mutant: an upvalue of a slot below the newest one is entered at the head.
PassesNone(n, s) == n = 0

\* The search of vm_capture_upval for slot s passes n open upvalues.
Passes(n, s) ==
  /\ \A i \in 1..n : Location(open[i]) > s
  /\ n < Len(open) => Location(open[n + 1]) <= s

\* A new open upvalue of slot s, behind the first n of the list.
NewUpval(n, s) ==
  LET u == Len(upvals) + 1
  IN  /\ Len(upvals) < UpvalMax
      /\ upvals' = Append(upvals, [loc |-> s, closed |-> Nil])
      /\ open'   = InsertAt(open, n + 1, u)
      /\ shadow' = Append(shadow, At(s))
      /\ stack'  = Append(stack, Closure(u))

\* vm_capture_upval and the push of the closure that captures slot s: the upvalue
\* of the slot is shared if there is one.
Capture(s) ==
  \E n \in 0..Len(open) :
    /\ Passes(n, s)
    /\ IF n < Len(open) /\ Location(open[n + 1]) = s
       THEN stack' = Append(stack, Closure(open[n + 1])) /\ KeepUpvals
       ELSE NewUpval(n, s)

(***************************************************************************)
(* Loads, stores, operands.                                                *)
(***************************************************************************)
Push(v) ==
  /\ Running
  /\ Top < StackMax
  /\ stack' = Append(stack, v)
  /\ KeepUpvals /\ UNCHANGED <<status, frames, tries>>

\* LOAD_CONST, LOAD_NIL, LOAD_GLOBAL, ...
LoadConst == Push(Datum)

LoadLocal == \E i \in 0..Frame.locals - 1 : Push(At(Frame.base + i))

LoadUpval == Frame.up # 0 /\ Push(Read(Frame.up))

\* STORE_LOCAL leaves its operand on the stack.
StoreLocal(i) ==
  /\ Running
  /\ i < Frame.locals
  /\ Top > Floor
  /\ LET s == Frame.base + i
     IN  /\ stack'  = [stack EXCEPT ![s + 1] = Peek(0)]
         /\ shadow' = [u \in Upvals |-> IF Location(u) = s THEN Peek(0) ELSE shadow[u]]
  /\ UNCHANGED <<status, frames, tries, upvals, open>>

StoreUpval ==
  /\ Running
  /\ Frame.up # 0
  /\ Top > Floor
  /\ IF Location(Frame.up) = Self
     THEN /\ upvals' = [upvals EXCEPT ![Frame.up].closed = Peek(0)]
          /\ UNCHANGED stack
     ELSE /\ stack' = [stack EXCEPT ![Location(Frame.up) + 1] = Peek(0)]
          /\ UNCHANGED upvals
  /\ shadow' = [shadow EXCEPT ![Frame.up] = Peek(0)]
  /\ UNCHANGED <<status, frames, tries, open>>

Pop ==
  /\ Running
  /\ Temporary(1)
  /\ stack' = Front(stack)
  /\ KeepUpvals /\ UNCHANGED <<status, frames, tries>>

\* The end of the scope of the variable on top of the stack.
CloseUpval ==
  /\ Running
  /\ Top > Floor
  /\ CloseFrom(Top - 1)
  /\ stack' = Front(stack)
  /\ UNCHANGED <<status, frames, tries>>

(***************************************************************************)
(* Closures.                                                               *)
(***************************************************************************)
\* A variable: a local, or an operand slot that a block declared.
Variable(s) ==
  /\ s \in Frame.base..Top - 1
  /\ \/ s < Frame.base + Frame.locals
     \/ CaptureInTry
     \/ \A i \in OwnTries : s < tries[i].height

MakeClosure ==
  /\ Running
  /\ Top < StackMax
  /\ \/ stack' = Append(stack, Datum) /\ KeepUpvals
     \/ Frame.up # 0 /\ stack' = Append(stack, Closure(Frame.up)) /\ KeepUpvals
     \/ \E s \in 0..Top - 1 : Variable(s) /\ Capture(s)
  /\ UNCHANGED <<status, frames, tries>>

(***************************************************************************)
(* Calls.                                                                  *)
(***************************************************************************)
\* A runtime error: vm_run returns and leaves everything as it is.
Stop ==
  /\ status' = "stopped"
  /\ UNCHANGED <<stack, frames, tries>> /\ KeepUpvals

\* vm_run on an idle VM: the first frame, its locals set to nil.
Run(n) ==
  /\ status = "idle"
  /\ Top + n <= StackMax
  /\ status' = "running"
  /\ frames' = <<[base |-> Top, up |-> 0, locals |-> n]>>
  /\ stack'  = stack \o [i \in 1..n |-> Nil]
  /\ UNCHANGED tries /\ KeepUpvals

\* Mutant: the slots of the new frame start at the callee.
EnterAtCallee(callee, nargs, extra) ==
  /\ frames' = Append(frames, [base |-> Top - nargs - 1, up |-> UpvalOf(callee),
                               locals |-> nargs + extra])
  /\ stack'  = stack \o [i \in 1..extra |-> Nil]
  /\ UNCHANGED <<status, tries>> /\ KeepUpvals

\* A frame for the closure callee, whose slots are the arguments and the locals
\* reserved after them.
Enter(callee, nargs, extra) ==
  /\ frames' = Append(frames, [base |-> Top - nargs, up |-> UpvalOf(callee),
                               locals |-> nargs + extra])
  /\ stack'  = stack \o [i \in 1..extra |-> Nil]
  /\ UNCHANGED <<status, tries>> /\ KeepUpvals

\* CALL of a closure: the callee lies below its arguments.
Call(nargs, extra) ==
  /\ Running
  /\ Temporary(nargs + 1)
  /\ Peek(nargs) # Nil
  /\ Top + extra <= StackMax
  /\ IF Len(frames) < FrameMax THEN Enter(Peek(nargs), nargs, extra) ELSE Stop

\* CALL_METHOD of a closure.  It does not check the frame stack: it is given
\* bytecode that does not overflow it.
CallMethod(nargs, extra) ==
  /\ Running
  /\ Temporary(nargs + 1)
  /\ Peek(nargs) # Nil
  /\ Top + extra <= StackMax
  /\ Len(frames) < FrameMax
  /\ Enter(Peek(nargs), nargs, extra)

\* CALL of a native: no frame, the result replaces callee and arguments.
CallNative(nargs) ==
  /\ Running
  /\ Temporary(nargs + 1)
  /\ Peek(nargs) = Datum
  /\ stack' = Append(SubSeq(stack, 1, Top - nargs - 1), Datum)
  /\ KeepUpvals /\ UNCHANGED <<status, frames, tries>>

\* A call of something that is not callable, or with a wrong number of arguments.
CallError(nargs) ==
  /\ Running
  /\ Temporary(nargs + 1)
  /\ Stop

\* The frame goes, the captured variables of the function are closed, and its
\* result takes the place of callee and arguments.  The function's try blocks stay
\* on the try stack.
Leave(result) ==
  /\ ReturnInTry \/ OwnTries = {}
  /\ CloseFrom(Frame.base)
  /\ frames' = Front(frames)
  /\ IF Len(frames) = 1
     THEN stack' = <<result>> /\ status' = "idle"
     ELSE stack' = Append(SubSeq(stack, 1, Frame.base - 1), result) /\ UNCHANGED status
  /\ UNCHANGED tries

Return    == Running /\ Top > Floor /\ Leave(Peek(0))
ReturnNil == Running /\ Leave(Nil)

(***************************************************************************)
(* Exceptions.                                                             *)
(***************************************************************************)
\* Mutant: the handler is taken to be in the calling function.
TryBeginOuter ==
  /\ Running
  /\ Len(tries) < TryMax
  /\ tries' = Append(tries, [depth |-> Len(frames) - 1, height |-> Top,
                             up |-> Frame.up])
  /\ KeepUpvals /\ UNCHANGED <<status, stack, frames>>

TryBegin ==
  /\ Running
  /\ IF Len(tries) < TryMax
     THEN /\ tries' = Append(tries, [depth |-> Len(frames), height |-> Top,
                                     up |-> Frame.up])
          /\ KeepUpvals /\ UNCHANGED <<status, stack, frames>>
     ELSE Stop

TryEnd ==
  /\ Running
  /\ OwnTries # {}
  /\ tries' = Front(tries)
  /\ KeepUpvals /\ UNCHANGED <<status, stack, frames>>

\* THROW and RETHROW: the innermost handler's function runs again, on the stack
\* it had at TRY_BEGIN with the exception on top.  The variables of the functions
\* in between are closed.  The VM stops if the try has neither catch nor finally.
\* (That t is of a function still running is HandlersInContext.)
Unwind(t, exc) ==
  /\ tries'  = Front(tries)
  /\ frames' = SubSeq(frames, 1, t.depth)
  /\ stack'  = Append(SubSeq(stack, 1, t.height), exc)
  /\ IF t.depth < Len(frames) THEN CloseFrom(frames[t.depth + 1].base) ELSE KeepUpvals
  /\ status' \in {"running", "stopped"}

Throw ==
  /\ Running
  /\ Temporary(1)
  /\ IF tries = << >>
     THEN /\ stack' = Front(stack)
          /\ status' = "stopped"
          /\ UNCHANGED <<frames, tries>> /\ KeepUpvals
     ELSE Unwind(Last(tries), Peek(0))

Halt == Running /\ Stop

Next ==
  \/ \E n \in 0..LocalMax : Run(n)
  \/ LoadConst
  \/ Running /\ LoadLocal
  \/ Running /\ LoadUpval
  \/ \E i \in 0..LocalMax : StoreLocal(i)
  \/ StoreUpval
  \/ Pop
  \/ CloseUpval
  \/ MakeClosure
  \/ \E nargs \in 0..LocalMax : \E extra \in 0..LocalMax - nargs :
       Call(nargs, extra) \/ CallMethod(nargs, extra)
  \/ \E nargs \in 0..LocalMax : CallNative(nargs) \/ CallError(nargs)
  \/ Return
  \/ ReturnNil
  \/ TryBegin
  \/ TryEnd
  \/ Throw
  \/ Halt

Spec == Init /\ [][Next]_vars

(***************************************************************************)
(* Properties.                                                             *)
(***************************************************************************)
\* vm_closure.c: a captured variable lives on, with the value last assigned to it
\* in any way, when its function has returned, its block has ended or an
\* exception has discarded both.
CapturesHold == \A u \in Upvals : Read(u) = shadow[u]

\* vm.h and vm_closure.c: the open upvalues are sorted by slot, one per slot (two
\* closures that capture a variable share it), and none is of a slot that is
\* gone.
OpenListSorted ==
  /\ \A u \in Upvals : Location(u) # Self <=> \E i \in 1..Len(open) : open[i] = u
  /\ \A i, j \in 1..Len(open) : i < j => Location(open[i]) > Location(open[j])
  /\ \A i \in 1..Len(open) : Location(open[i]) < Top

\* The stack layout RETURN relies on: the slot below a frame holds the closure
\* that is running in it, and belongs to the operands of the caller.
CalleeBelowFrame ==
  status = "running" =>
    \A k \in 2..Len(frames) :
      /\ frames[k].base - 1 >= frames[k - 1].base + frames[k - 1].locals
      /\ At(frames[k].base - 1) # Nil
      /\ UpvalOf(At(frames[k].base - 1)) = frames[k].up

\* A handler that THROW may jump to belongs to a function that is still running,
\* the one that TRY_BEGIN was executed in, and unwinding to it cuts neither into
\* that function's locals nor above what is on the stack.
HandlersInContext ==
  status = "running" =>
    \A i \in 1..Len(tries) :
      LET t == tries[i] IN
      /\ t.depth \in 1..Len(frames)
      /\ t.up = frames[t.depth].up
      /\ t.height >= frames[t.depth].base + frames[t.depth].locals
      /\ t.height <= IF t.depth = Len(frames) THEN Top ELSE frames[t.depth + 1].base - 1
      /\ i > 1 => tries[i - 1].depth <= t.depth /\ tries[i - 1].height <= t.height
=============================================================================
