------------------------------ MODULE ObjGraph ------------------------------
(***************************************************************************)
(* The object graph of the bytecode VM (vm/include/vm_value.h): the heap   *)
(* objects linked on vm->all_objects, the pointers between them, the       *)
(* pointers the VM holds into them, and what an instruction may do to the  *)
(* three between two collections.  Both the abstract collector             *)
(* (GcAbstract) and the mark-and-sweep one (VmGc) are built over it.       *)
(*                                                                         *)
(* Objects are numbered in the order they are linked.  obj_link puts a new *)
(* object at the head of vm->all_objects, so the list visits the members   *)
(* of heap from the highest number down; it needs no state of its own.     *)
(***************************************************************************)
EXTENDS Integers

CONSTANT MaxObj   \* bound of the model: objects allocated in one run

ASSUME MaxObjAssumption == MaxObj \in Nat \ {0}

VARIABLES
  heap,   \* objects on vm->all_objects
  last,   \* number of objects linked so far
  refs,   \* refs[o]: elements, constants, upvalues, methods, fields, keys, values
  func,   \* func[o]: cl->func when o is a closure, None otherwise
  roots   \* value stack, frame closures, open upvalues, globals, built-in classes

graphVars == <<heap, last, refs, func, roots>>

Obj  == 1..MaxObj
None == 0

\* The objects that o points to.
Kids(o) == refs[o] \cup ({func[o]} \ {None})

Closed(S) == \A o \in S : Kids(o) \subseteq S

\* The objects the VM can still get at: the least set that holds the roots and
\* is closed under following pointers.
Live == {o \in Obj : \A S \in SUBSET Obj : roots \subseteq S /\ Closed(S) => o \in S}

GraphInit ==
  /\ heap  = {}
  /\ last  = 0
  /\ refs  = [o \in Obj |-> {}]
  /\ func  = [o \in Obj |-> None]
  /\ roots = {}

GraphTypeOK ==
  /\ last  \in 0..MaxObj
  /\ heap  \subseteq 1..last
  /\ refs  \in [Obj -> SUBSET Obj]
  /\ func  \in [Obj -> Obj \cup {None}]
  /\ roots \subseteq Obj

(***************************************************************************)
(* What instructions do to the graph.                                      *)
(***************************************************************************)
\* A pointer inside an object the VM holds is pushed: LOAD_CONST, LOAD_UPVAL,
\* ARRAY_GET, vm_map_get.
Load(o, p) ==
  /\ o \in roots
  /\ p \in Kids(o)
  /\ roots' = roots \cup {p}
  /\ UNCHANGED <<heap, last, refs, func>>

\* The last root holding o goes: POP, RETURN, a global or a local overwritten.
Drop(o) ==
  /\ o \in roots
  /\ roots' = roots \ {o}
  /\ UNCHANGED <<heap, last, refs, func>>

\* A held pointer is stored in a held object: MAKE_ARRAY, ARRAY_SET,
\* STORE_UPVAL, add_constant, vm_map_set.
Store(o, p) ==
  /\ o \in roots
  /\ p \in roots
  /\ refs' = [refs EXCEPT ![o] = @ \cup {p}]
  /\ UNCHANGED <<heap, last, func, roots>>

\* The same instructions overwrite the last pointer from o to p.
Overwrite(o, p) ==
  /\ o \in roots
  /\ p \in refs[o]
  /\ refs' = [refs EXCEPT ![o] = @ \ {p}]
  /\ UNCHANGED <<heap, last, func, roots>>

\* A new object is linked and handed to a caller that roots it at once; f is
\* the function of a closure, None for every other kind.
New(f) ==
  /\ last < MaxObj
  /\ last'  = last + 1
  /\ heap'  = heap \cup {last + 1}
  /\ func'  = [func EXCEPT ![last + 1] = f]
  /\ roots' = roots \cup {last + 1}
  /\ UNCHANGED refs

\* vm_alloc_closure is given a function the VM can reach (a constant of the
\* running closure), every other allocator none.
FuncArg == {None} \cup {f \in Live : func[f] = None}

Mutate ==
  \/ \E o, p \in Obj : Load(o, p) \/ Store(o, p) \/ Overwrite(o, p)
  \/ \E o \in Obj : Drop(o)
=============================================================================
