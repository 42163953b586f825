--------------------------- MODULE VmMakeClosure ---------------------------
(***************************************************************************)
(* OP_MAKE_CLOSURE (vm/src/vm_exec.c) over the collector of VmGc.  The     *)
(* instruction allocates the closure, then captures its variables one by   *)
(* one, each capture allocating an upvalue, and pushes the closure only at *)
(* the end.  Between the two the closure is in a C local, which mark_roots *)
(* does not see, and every allocation may collect.                         *)
(***************************************************************************)
EXTENDS VmGc

VARIABLES
  making,   \* the closure held by the C local cl, None outside the instruction
  left      \* variables still to capture

makeVars == <<making, left>>
mcVars   == <<vars, makeVars>>

MCInit == Init /\ making = None /\ left = 0

\* The rest of the VM runs between two instructions; an allocation of its own
\* finishes before one starts.
Other ==
  /\ making = None /\ left = 0
  /\ Next
  /\ UNCHANGED makeVars

\* vm_alloc_closure: charge it and collect if the threshold is passed.
AllocClosure(f) ==
  /\ making = None /\ left = 0
  /\ shape[f].room > 0
  /\ \E s \in AnyShape : s.kind = "closure" /\ GcAlloc(f, s)
  /\ left' = shape[f].room
  /\ UNCHANGED making

\* It is linked, and held by cl alone.
LinkClosure ==
  /\ left > 0 /\ making = None
  /\ Settle
  /\ last'   = last + 1
  /\ heap'   = heap \cup {last + 1}
  /\ func'   = [func EXCEPT ![last + 1] = pend]
  /\ making' = last + 1
  /\ UNCHANGED <<refs, roots, left>>

\* vm_capture_upval finds an open upvalue of the variable (it is a root), or the
\* enclosing closure hands its own over: cl->upvalues[i] = u.
CaptureShared(u) ==
  /\ phase = "run" /\ making # None /\ left > 0
  /\ u \in roots
  /\ shape[u].kind = "plain"
  /\ refs' = [refs EXCEPT ![making] = @ \cup {u}]
  /\ left' = left - 1
  /\ UNCHANGED <<heap, last, func, roots, gcVars, making>>

\* There is none: vm_alloc_upval, which may collect.
AllocUpval ==
  /\ making # None /\ left > 0
  /\ GcAlloc(None, Plain)
  /\ UNCHANGED makeVars

\* The upvalue enters vm->open_upvalues, a root, and the closure.
LinkUpval ==
  /\ making # None
  /\ Settle
  /\ last'  = last + 1
  /\ heap'  = heap \cup {last + 1}
  /\ roots' = roots \cup {last + 1}
  /\ refs'  = [refs EXCEPT ![making] = @ \cup {last + 1}]
  /\ left'  = left - 1
  /\ UNCHANGED <<func, making>>

\* PUSH(val_obj(cl)).
PushClosure ==
  /\ phase = "run" /\ making # None /\ left = 0
  /\ roots'  = roots \cup {making}
  /\ making' = None
  /\ UNCHANGED <<heap, last, refs, func, gcVars, left>>

\* A collection started inside the instruction.
Collecting ==
  /\ left > 0
  /\ \/ \E o \in Obj : Scan(o) \/ Keep(o) \/ Free(o)
     \/ EndMark
     \/ EndSweep
  /\ UNCHANGED makeVars

MCNext ==
  \/ Other
  \/ \E f \in FuncArg \ {None} : AllocClosure(f)
  \/ LinkClosure
  \/ \E u \in roots : CaptureShared(u)
  \/ AllocUpval
  \/ LinkUpval
  \/ PushClosure
  \/ Collecting

MCSpec == MCInit /\ [][MCNext]_mcVars

\* vm_value.h: an object with a header is freed by the collector when it is no
\* longer in use.  The closure an instruction is filling in is in use: while
\* OP_MAKE_CLOSURE holds it, and when it pushes it, it is allocated.
ClosureKept == making # None => making \in heap
=============================================================================
