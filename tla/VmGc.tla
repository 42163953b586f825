-------------------------------- MODULE VmGc --------------------------------
(***************************************************************************)
(* The mark-and-sweep collector of vm/src/vm_gc.c with the allocators that *)
(* trigger it.  One step is one iteration of trace_references or of sweep, *)
(* so the states between two iterations are visible; the mutator runs only *)
(* in phase "run", because collection happens inside one C call.           *)
(*                                                                         *)
(* gray_stack is a set (the order of its pops is left open).  Sizes are in *)
(* units: one for the header of an object, one for an element.  What is    *)
(* never charged (code, constants and names) has none.                     *)
(***************************************************************************)
EXTENDS ObjGraph

CONSTANTS
  MinThreshold,   \* 1024 * 1024 in the code, in units
  MaxBytes,       \* bound of the model on bytes
  Shapes          \* bound of the model: what the o-th object of a run may be

ASSUME ThresholdAssumption == MinThreshold \in Nat /\ MaxBytes \in Nat

(***************************************************************************)
(* An object has the kinds that the accounting tells apart, and room: the  *)
(* length of a string, the cap of an array, the upval_count of a function  *)
(* and the cap of a map, the latter in eights.  The rest is plain.         *)
(***************************************************************************)
Kinds == {"plain", "string", "array", "func", "closure", "map"}
Shape == [kind : Kinds, room : Nat]
Plain == [kind |-> "plain", room |-> 0]

ASSUME ShapesAssumption == Shapes \in [Obj -> SUBSET Shape]

VARIABLES
  phase,    \* "run", "mark", "sweep", "link": where vm_gc / gc_alloc stand
  marked,   \* objects with obj->marked
  gray,     \* objects on vm->gray_stack
  cur,      \* sweep has visited the objects numbered cur and above
  pend,     \* func field of the object being allocated, Idle when none is
  due,      \* its shape
  shape,    \* the shapes of the objects
  bytes,    \* vm->bytes_allocated
  limit     \* vm->next_gc_threshold

shapeVars == <<pend, due, shape>>
gcVars == <<phase, marked, gray, cur, shapeVars, bytes, limit>>
vars   == <<graphVars, gcVars>>

Idle   == -1
Phases == {"run", "mark", "sweep", "link"}

Init ==
  /\ GraphInit
  /\ phase  = "run"
  /\ marked = {}
  /\ gray   = {}
  /\ cur    = 1
  /\ pend   = Idle
  /\ due    = Plain
  /\ shape  = [o \in Obj |-> Plain]
  /\ bytes  = 0
  /\ limit  = MinThreshold

(***************************************************************************)
(* Mark.  vm_mark_object skips null and marked objects.                    *)
(***************************************************************************)
Mark(S) ==
  /\ marked' = marked \cup S
  /\ gray'   = gray \cup (S \ marked)

\* Mutant: mark_roots forgets the closures of the frames.
StartGcNoFrames ==
  /\ phase' = "mark"
  /\ Mark({o \in roots : func[o] = None})
  /\ UNCHANGED cur

\* vm_gc entered: mark_roots.
StartGc ==
  /\ phase' = "mark"
  /\ Mark(roots)
  /\ UNCHANGED cur

\* Mutant: a closure's function is not marked.
BlackenUpvalues(o) == refs[o]

\* Mutant: vm_mark_object without its null check.
BlackenNull(o) == refs[o] \cup {func[o]}

\* What vm_blacken_object hands to vm_mark_object, nulls skipped.
Blacken(o) == (refs[o] \cup {func[o]}) \ {None}

\* Mutant: what is marked is not put on the gray stack.
ScanNoPush(o) ==
  /\ phase = "mark"
  /\ o \in gray
  /\ marked' = marked \cup Blacken(o)
  /\ gray'   = gray \ {o}
  /\ UNCHANGED <<graphVars, phase, cur, shapeVars, bytes, limit>>

\* Mutant: the gray stack is read and not popped.
ScanNoPop(o) ==
  /\ phase = "mark"
  /\ o \in gray
  /\ marked' = marked \cup Blacken(o)
  /\ gray'   = gray \cup (Blacken(o) \ marked)
  /\ UNCHANGED <<graphVars, phase, cur, shapeVars, bytes, limit>>

\* One iteration of trace_references: pop o and blacken it.
Scan(o) ==
  /\ phase = "mark"
  /\ o \in gray
  /\ marked' = marked \cup Blacken(o)
  /\ gray'   = (gray \ {o}) \cup (Blacken(o) \ marked)
  /\ UNCHANGED <<graphVars, phase, cur, shapeVars, bytes, limit>>

\* gray_stack is empty: sweep starts at the head of vm->all_objects.
EndMark ==
  /\ phase = "mark"
  /\ gray = {}
  /\ phase' = "sweep"
  /\ cur'   = last + 1
  /\ UNCHANGED <<graphVars, marked, gray, shapeVars, bytes, limit>>

(***************************************************************************)
(* Sweep.                                                                  *)
(***************************************************************************)
\* *link: the next object of the list sweep has not visited.
AtLink(o) == o \in heap /\ o < cur /\ \A p \in heap : p < cur => p <= o

\* Mutant: the mark is not reset.
KeepMarked(o) ==
  /\ phase = "sweep"
  /\ AtLink(o)
  /\ o \in marked
  /\ cur' = o
  /\ UNCHANGED <<graphVars, phase, marked, gray, shapeVars, bytes, limit>>

\* A marked object stays and is reset for the next collection.
Keep(o) ==
  /\ phase = "sweep"
  /\ AtLink(o)
  /\ o \in marked
  /\ marked' = marked \ {o}
  /\ cur'    = o
  /\ UNCHANGED <<graphVars, phase, gray, shapeVars, bytes, limit>>

\* What sweep takes off the count for an object, from its fields as they are then;
\* of a closure from its function's.  The entries of a map stay on the count.
Refund(o) ==
  1 + CASE shape[o].kind \in {"string", "array"} -> shape[o].room
        [] shape[o].kind = "closure"             -> shape[func[o]].room
        [] OTHER                                 -> 0

\* Mutant: a closure takes its function with it.
FreeOwned(o) ==
  /\ phase = "sweep"
  /\ AtLink(o)
  /\ o \notin marked
  /\ heap'  = heap \ {o, func[o]}
  /\ bytes' = bytes - Refund(o)
  /\ cur'   = o
  /\ UNCHANGED <<last, refs, func, roots, phase, marked, gray, shapeVars, limit>>

\* An unmarked object is unlinked and freed.
Free(o) ==
  /\ phase = "sweep"
  /\ AtLink(o)
  /\ o \notin marked
  /\ heap'  = heap \ {o}
  /\ bytes' = bytes - Refund(o)
  /\ cur'   = o
  /\ UNCHANGED <<last, refs, func, roots, phase, marked, gray, shapeVars, limit>>

\* End of the list; vm_gc sets the next threshold and returns to gc_alloc, or
\* to the host when it called vm_gc itself.
EndSweep ==
  /\ phase = "sweep"
  /\ \A o \in heap : o >= cur
  /\ limit' = IF 2 * bytes < MinThreshold THEN MinThreshold ELSE 2 * bytes
  /\ phase' = IF pend = Idle THEN "run" ELSE "link"
  /\ UNCHANGED <<graphVars, marked, gray, cur, shapeVars, bytes>>

(***************************************************************************)
(* Allocation.                                                             *)
(***************************************************************************)
\* An allocation of shape s begins; f is the function of a closure.
Begin(f, s) ==
  /\ phase = "run"
  /\ last < MaxObj
  /\ bytes < MaxBytes
  /\ s \in Shapes[last + 1]
  /\ IF s.kind = "closure" THEN f # None /\ shape[f].kind = "func" ELSE f = None
  /\ pend' = f
  /\ due'  = s
  /\ UNCHANGED shape

\* The size handed to gc_alloc: the characters of a string are part of it.
Prepaid(s) == 1 + IF s.kind = "string" THEN s.room ELSE 0

\* gc_alloc: the new object is charged, then garbage is collected if the total
\* passed the threshold, then the object is allocated.
GcAlloc(f, s) ==
  /\ Begin(f, s)
  /\ s.kind # "map"
  /\ bytes' = bytes + Prepaid(s)
  /\ IF bytes' > limit THEN StartGc
                       ELSE phase' = "link" /\ UNCHANGED <<marked, gray, cur>>
  /\ UNCHANGED <<graphVars, limit>>

\* vm_alloc_native, vm_alloc_map and vm_alloc_external charge the object and
\* never collect.  A map starts without entries.
AllocUnchecked(s) ==
  /\ Begin(None, s)
  /\ s.kind \in {"plain", "map"} /\ s.room = 0
  /\ bytes' = bytes + Prepaid(s)
  /\ phase' = "link"
  /\ UNCHANGED <<graphVars, marked, gray, cur, limit>>

\* Mutant: vm_alloc_closure does not charge the array of upvalues.
PostpaidElements(f, s) == IF s.kind = "array" THEN s.room ELSE 0

\* What the allocator charges for the elements once the object is linked.
Postpaid(f, s) ==
  CASE s.kind = "array"   -> s.room
    [] s.kind = "closure" -> shape[f].room
    [] OTHER              -> 0

\* The object is linked and its elements are charged.
Settle ==
  /\ phase = "link"
  /\ phase' = "run"
  /\ shape' = [shape EXCEPT ![last + 1] = due]
  /\ bytes' = bytes + Postpaid(pend, due)
  /\ pend'  = Idle
  /\ due'   = Plain
  /\ UNCHANGED <<marked, gray, cur, limit>>

\* obj_link, and the caller pushing the object.
Link == Settle /\ New(pend)

\* vm_map_set doubles the arrays of a map.  It stores the new cap before it takes
\* the difference, so that half of the new arrays is charged; sweep gives none of
\* it back.
GrowMap(o) ==
  /\ phase = "run"
  /\ o \in roots /\ shape[o].kind = "map"
  /\ bytes < MaxBytes
  /\ LET nc == IF shape[o].room = 0 THEN 1 ELSE 2 * shape[o].room
     IN  /\ shape' = [shape EXCEPT ![o].room = nc]
         /\ bytes' = bytes + nc
  /\ UNCHANGED <<graphVars, phase, marked, gray, cur, pend, due, limit>>

\* The host calls vm_gc.
HostGc ==
  /\ phase = "run"
  /\ StartGc
  /\ UNCHANGED <<graphVars, shapeVars, bytes, limit>>

Instr == phase = "run" /\ Mutate /\ UNCHANGED gcVars

GcStep ==
  \/ \E o \in Obj : Scan(o) \/ Keep(o) \/ Free(o)
  \/ EndMark
  \/ EndSweep
  \/ Link

AnyShape == UNION {Shapes[o] : o \in Obj}

Next ==
  \/ Instr
  \/ \E s \in AnyShape :
       AllocUnchecked(s) \/ \E f \in FuncArg : GcAlloc(f, s)
  \/ \E o \in roots : GrowMap(o)
  \/ HostGc
  \/ GcStep

\* vm_gc and gc_alloc are straight C code: once entered they run on.
Spec == Init /\ [][Next]_vars /\ WF_vars(GcStep)

(***************************************************************************)
(* Properties.                                                             *)
(***************************************************************************)
TypeOK ==
  /\ GraphTypeOK
  /\ phase  \in Phases
  /\ marked \subseteq Obj
  /\ gray   \subseteq Obj
  /\ cur    \in 1..(MaxObj + 1)
  /\ pend   \in Obj \cup {None, Idle}
  /\ due    \in Shape
  /\ shape  \in [Obj -> Shape]
  /\ bytes  \in Int
  /\ limit  \in Int

\* Memory safety: everything the VM can reach from its roots is allocated, also
\* in the middle of a collection.
NoDangling == Live \subseteq heap

\* While marking, no root is white, and no finished (black) object points to an
\* unvisited (white) one.
TriColor ==
  phase = "mark" =>
    /\ roots \subseteq marked
    /\ gray \subseteq marked
    /\ \A o \in marked \ gray : Kids(o) \subseteq marked

\* Sweeping a dead closure reads cl->func->upval_count.  The function may be
\* garbage of the same collection: it must not have been freed before.
SweepReadsLiveFunc ==
  phase = "sweep" =>
    \A o \in heap : AtLink(o) /\ o \notin marked /\ func[o] # None => func[o] \in heap

\* Between collections no mark is left over from the last one.
MarksReset == phase \in {"run", "link"} => marked = {} /\ gray = {}

\* The sum of the amounts a[1], a[2] and so on.
Total(a) ==
  LET upto[n \in 0..MaxObj] == IF n = 0 THEN 0 ELSE upto[n - 1] + a[n]
  IN  upto[MaxObj]

\* What sweep would give back of each object, if it met it now.
Refunds == [o \in Obj |-> IF o \in heap THEN Refund(o) ELSE 0]

\* Sweep recomputes what an object was charged from fields of the object and of
\* its function, long after the charges, which are made in two places.  At any
\* time, also in the middle of a collection, bytes_allocated covers all of what
\* would be given back, and the charge under way: the unsigned count never wraps
\* around.
RefundsCovered ==
  bytes >= Total(Refunds) + IF pend = Idle THEN 0 ELSE Prepaid(due)

\* A collection, with the allocation that started it, comes to an end.
CollectionEnds == (phase # "run") ~> (phase = "run")

\* The collector implements GcAbstract.  Garbage is gone, abstractly, when
\* marking ends: from then on the unmarked objects sweep has yet to visit do
\* not count.
Survivors ==
  IF phase = "sweep" THEN {o \in heap : o \in marked \/ o >= cur} ELSE heap

Abs == INSTANCE GcAbstract WITH heap <- Survivors

ImplementsAbstract == Abs!Spec
=============================================================================
