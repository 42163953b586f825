----------------------------- MODULE VmGcProofs -----------------------------
(***************************************************************************)
(* Proofs about the collector, for every MaxObj and every threshold: its   *)
(* type invariant, the safety invariants that TLC checks on a small heap,  *)
(* and the refinement of GcAbstract.                                       *)
(***************************************************************************)
EXTENDS VmGc, BasicLemmas

-----------------------------------------------------------------------------
(***************************************************************************)
(* Live is the least closed set around the roots.                          *)
(***************************************************************************)
\* Pointers lead to objects: what vm_blacken_object marks is in the heap's range.
LEMMA KidsType == GraphTypeOK => \A o \in Obj : Kids(o) \subseteq Obj
  BY DEF GraphTypeOK, Kids, Obj, None

\* vm_blacken_object follows every pointer of the object.
LEMMA BlackenKids == GraphTypeOK => \A o \in Obj : Blacken(o) = Kids(o)
  BY DEF GraphTypeOK, Blacken, Kids, Obj, None

\* Every object the VM holds directly is live.
LEMMA LiveRoots == GraphTypeOK => roots \subseteq Live
  BY DEF GraphTypeOK, Live

\* What a live object points to is live.
LEMMA LiveClosed == GraphTypeOK => Closed(Live)
<1> SUFFICES ASSUME GraphTypeOK, NEW o \in Live, NEW p \in Kids(o)
             PROVE  p \in Live
  BY DEF Closed
<1>1. o \in Obj /\ p \in Obj
  BY KidsType DEF Live
<1>2. ASSUME NEW S \in SUBSET Obj, roots \subseteq S, Closed(S)
      PROVE  p \in S
  <2>1. o \in S
    BY <1>2 DEF Live
  <2>2. QED
    BY <1>2, <2>1 DEF Closed
<1>3. QED
  BY <1>1, <1>2 DEF Live

\* Any closed set of objects around the roots holds everything live.
LEMMA LiveLeast ==
  ASSUME NEW S \in SUBSET Obj, roots \subseteq S, Closed(S)
  PROVE  Live \subseteq S
  BY DEF Live

\* Reachability depends on the pointers and the roots only.
LEMMA LiveStable ==
  ASSUME UNCHANGED <<refs, func, roots>>
  PROVE  Live' = Live
  BY DEF Live, Closed, Kids

-----------------------------------------------------------------------------
(***************************************************************************)
(* The inductive invariant.                                                *)
(***************************************************************************)
\* Nothing points out of the set of objects that are there to stay.
HeapInv == roots \subseteq Survivors /\ Closed(Survivors)

\* Memory that has not been allocated holds no pointer.
FreshInv == \A o \in Obj : o > last => refs[o] = {} /\ func[o] = None

\* A closure's function was linked before it, hence is swept after it.
FuncInv ==
  \A o \in heap :
    /\ func[o] # None => func[o] < o
    /\ phase = "sweep" /\ func[o] # None /\ func[o] < cur => func[o] \in heap

\* The function of the closure being allocated stays reachable.
PendInv ==
  /\ phase = "run" => pend = Idle
  /\ phase = "link" => pend # Idle
  /\ pend \in {Idle, None} \cup {f \in Live : func[f] = None}

\* Marking has reached only live objects, and has the tri-colour property.
MarkInv == phase = "mark" => TriColor /\ marked \subseteq Live

\* The marks ahead of the sweep are on allocated objects; none is left behind.
SweepInv ==
  phase = "sweep" => gray = {} /\ marked \subseteq {o \in heap : o < cur}

\* Closures are the objects with a function, which is one; what has not been
\* allocated has no shape yet.
ShapeInv ==
  /\ \A o \in heap : shape[o].kind = "closure" <=> func[o] # None
  /\ \A o \in heap : func[o] # None => shape[func[o]].kind = "func"
  /\ pend # Idle => (due.kind = "closure" <=> pend # None)
  /\ pend \notin {Idle, None} => shape[pend].kind = "func"
  /\ \A o \in Obj : o > last => shape[o] = Plain

Typed == TypeOK /\ ShapeInv

IInv ==
  /\ Typed
  /\ HeapInv
  /\ FreshInv
  /\ FuncInv
  /\ PendInv
  /\ MarkInv
  /\ SweepInv
  /\ MarksReset

-----------------------------------------------------------------------------
(***************************************************************************)
(* Type correctness needs two facts of the invariant: obj_link is entered  *)
(* with the fields of an object at hand (PendInv), and what is read of a   *)
(* closure's function is a function's (ShapeInv).                          *)
(***************************************************************************)
LEMMA InitTypeOK == Init => TypeOK
  BY MaxObjAssumption, ThresholdAssumption
  DEF Init, TypeOK, GraphInit, GraphTypeOK, Phases, Obj, None, Idle, Plain, Shape, Kinds

LEMMA MutateType == GraphTypeOK /\ Mutate => GraphTypeOK'
<1> SUFFICES ASSUME GraphTypeOK, Mutate PROVE GraphTypeOK'
  OBVIOUS
<1> USE DEF GraphTypeOK
<1>1. ASSUME NEW o \in Obj, NEW p \in Obj, Load(o, p) PROVE GraphTypeOK'
  BY <1>1 DEF Load
<1>2. ASSUME NEW o \in Obj, NEW p \in Obj, Store(o, p) PROVE GraphTypeOK'
  BY <1>2 DEF Store
<1>3. ASSUME NEW o \in Obj, NEW p \in Obj, Overwrite(o, p) PROVE GraphTypeOK'
  BY <1>3 DEF Overwrite
<1>4. ASSUME NEW o \in Obj, Drop(o) PROVE GraphTypeOK'
  BY <1>4 DEF Drop
<1>5. QED
  BY <1>1, <1>2, <1>3, <1>4 DEF Mutate

LEMMA NewType ==
  ASSUME NEW f \in Obj \cup {None}, GraphTypeOK, New(f)
  PROVE  GraphTypeOK'
<1>1. last + 1 \in Obj /\ last' = last + 1 /\ last' \in 0..MaxObj
  BY MaxObjAssumption DEF GraphTypeOK, New, Obj
<1>2. heap' \subseteq 1..last'
  BY <1>1 DEF GraphTypeOK, New
<1>3. QED
  BY <1>1, <1>2 DEF GraphTypeOK, New

\* What sweep and the allocators take for sizes are numbers.
LEMMA AmountTypes ==
  ASSUME Typed
  PROVE  /\ \A o \in heap : o \in Obj /\ Refund(o) \in Int
         /\ \A s \in Shape : Prepaid(s) \in Int
         /\ pend # Idle => Postpaid(pend, due) \in Int
<1> USE DEF Typed, TypeOK, GraphTypeOK, ShapeInv, Shape, Kinds
<1>1. ASSUME NEW o \in heap PROVE o \in Obj /\ Refund(o) \in Int
  <2>1. o \in Obj
    BY MaxObjAssumption DEF Obj
  <2>2. shape[o].room \in Int
    BY <2>1
  <2>3. shape[o].kind = "closure" => func[o] \in Obj
    BY <2>1
  <2>4. shape[o].kind = "closure" => shape[func[o]].room \in Int
    BY <2>3
  <2>5. QED
    BY <2>1, <2>2, <2>4 DEF Refund
<1>2. \A s \in Shape : Prepaid(s) \in Int
  BY DEF Prepaid
<1>3. ASSUME pend # Idle PROVE Postpaid(pend, due) \in Int
  <2>1. due.kind = "closure" => shape[pend].room \in Int
    BY <1>3
  <2>2. QED
    BY <2>1 DEF Postpaid
<1>4. QED
  BY <1>1, <1>2, <1>3

\* What an allocation has at hand when it begins.
LEMMA BeginShape ==
  ASSUME TypeOK, NEW f \in FuncArg, NEW s, Begin(f, s)
  PROVE  /\ f \in Obj \cup {None} /\ f # Idle /\ s \in Shape /\ pend' = f /\ due' = s
         /\ s.kind = "closure" <=> f # None
         /\ f # None => shape[f].kind = "func"
<1>1. last + 1 \in Obj
  BY MaxObjAssumption DEF Begin, TypeOK, GraphTypeOK, Obj
<1>2. s \in Shape
  BY <1>1, ShapesAssumption DEF Begin
<1>3. QED
  BY <1>2 DEF Begin, FuncArg, Live, Obj, None, Idle

LEMMA NextTyped == Typed /\ PendInv /\ [Next]_vars => Typed'
<1> SUFFICES ASSUME Typed, PendInv, [Next]_vars PROVE Typed'
  OBVIOUS
<1> USE DEF Typed, TypeOK, Phases
<1>0. \A o \in Obj : Blacken(o) \subseteq Obj
  BY KidsType, BlackenKids
<1>1. CASE Instr
  <2>1. TypeOK' /\ UNCHANGED <<shape, pend, due>>
    BY <1>1, MutateType DEF Instr, gcVars, shapeVars
  <2>2. UNCHANGED <<heap, last, func>>
    BY <1>1 DEF Instr, Mutate, Load, Store, Overwrite, Drop
  <2>3. QED
    BY <2>1, <2>2 DEF ShapeInv
<1>2. ASSUME NEW s \in AnyShape, NEW f \in FuncArg, GcAlloc(f, s) PROVE Typed'
  <2>1. Begin(f, s) /\ UNCHANGED <<heap, last, refs, func, roots, shape, limit>>
    BY <1>2 DEF GcAlloc, Begin, graphVars
  <2>2. bytes' \in Int
    BY <1>2, <2>1, BeginShape, AmountTypes DEF GcAlloc
  <2>3. TypeOK'
    BY <1>2, <2>1, <2>2, BeginShape DEF GcAlloc, StartGc, Mark, GraphTypeOK
  <2>4. ShapeInv'
    BY <2>1, BeginShape DEF ShapeInv
  <2>5. QED
    BY <2>3, <2>4
<1>3. ASSUME NEW s \in AnyShape, AllocUnchecked(s) PROVE Typed'
  <2>1. Begin(None, s) /\ UNCHANGED <<heap, last, refs, func, roots, shape, limit>>
    BY <1>3 DEF AllocUnchecked, Begin, graphVars
  <2>2. None \in FuncArg
    BY DEF FuncArg
  <2>3. bytes' \in Int
    BY <1>3, <2>1, <2>2, BeginShape, AmountTypes DEF AllocUnchecked
  <2>4. TypeOK'
    BY <1>3, <2>1, <2>2, <2>3, BeginShape DEF AllocUnchecked, GraphTypeOK
  <2>5. ShapeInv'
    BY <2>1, <2>2, BeginShape DEF ShapeInv
  <2>6. QED
    BY <2>4, <2>5
<1>4. ASSUME NEW o \in roots, GrowMap(o) PROVE Typed'
  <2> DEFINE nc == IF shape[o].room = 0 THEN 1 ELSE 2 * shape[o].room
  <2>1. /\ o \in Obj /\ shape[o].kind = "map" /\ shape[o] \in Shape /\ nc \in Nat
        /\ shape' = [shape EXCEPT ![o].room = nc] /\ bytes' = bytes + nc
        /\ UNCHANGED <<heap, last, refs, func, roots, phase, marked, gray, cur, pend, due, limit>>
    BY <1>4 DEF GrowMap, graphVars, GraphTypeOK, Shape
  <2> HIDE DEF nc
  <2>2. /\ shape' \in [Obj -> Shape]
        /\ \A p \in Obj : shape'[p].kind = shape[p].kind /\ (p # o => shape'[p] = shape[p])
    BY <2>1 DEF Shape
  <2>3. TypeOK'
    BY <2>1, <2>2 DEF GraphTypeOK
  <2>4. shape[o] # Plain
    BY <2>1 DEF Plain
  <2>5. heap \subseteq Obj
    BY MaxObjAssumption DEF GraphTypeOK, Obj
  <2>6. ShapeInv'
    BY <2>1, <2>2, <2>4, <2>5 DEF ShapeInv, GraphTypeOK
  <2>7. QED
    BY <2>3, <2>6
<1>5. CASE HostGc
  BY <1>5 DEF HostGc, StartGc, Mark, graphVars, GraphTypeOK, shapeVars, ShapeInv
<1>6. ASSUME NEW o \in Obj, Scan(o) PROVE Typed'
  BY <1>0, <1>6 DEF Scan, graphVars, GraphTypeOK, shapeVars, ShapeInv
<1>7. ASSUME NEW o \in Obj, Keep(o) PROVE Typed'
  BY <1>7, MaxObjAssumption DEF Keep, graphVars, GraphTypeOK, Obj, shapeVars, ShapeInv
<1>8. ASSUME NEW o \in Obj, Free(o) PROVE Typed'
  <2>1. bytes' \in Int
    BY <1>8, AmountTypes DEF Free, AtLink
  <2>2. TypeOK'
    BY <1>8, <2>1, MaxObjAssumption DEF Free, GraphTypeOK, Obj, shapeVars
  <2>3. ShapeInv'
    BY <1>8 DEF Free, shapeVars, ShapeInv
  <2>4. QED
    BY <2>2, <2>3
<1>9. CASE EndMark
  BY <1>9, MaxObjAssumption DEF EndMark, graphVars, GraphTypeOK, shapeVars, ShapeInv
<1>10. CASE EndSweep
  BY <1>10, ThresholdAssumption DEF EndSweep, graphVars, GraphTypeOK, shapeVars, ShapeInv
<1>11. CASE Link
  <2> DEFINE n == last + 1
  <2>1. pend \in Obj \cup {None} /\ pend # Idle
    BY <1>11 DEF Link, Settle, PendInv
  <2>2. GraphTypeOK' /\ n \in Obj
    BY <1>11, <2>1, NewType DEF Link, New, GraphTypeOK, Obj
  <2>3. /\ shape' = [shape EXCEPT ![n] = due] /\ bytes' \in Int
        /\ pend' = Idle /\ due' = Plain /\ phase' = "run"
        /\ UNCHANGED <<marked, gray, cur, limit>>
    BY <1>11, <2>1, AmountTypes DEF Link, Settle
  <2>4. TypeOK'
    BY <2>2, <2>3 DEF Shape, Kinds, Plain
  <2>5. /\ func' = [func EXCEPT ![n] = pend] /\ heap' = heap \cup {n} /\ last' = n
        /\ \A o \in heap : o \in Obj /\ o # n
    BY <1>11, MaxObjAssumption DEF Link, New, GraphTypeOK, Obj
  <2>6. shape[n] = Plain /\ \A o \in Obj : shape[o].kind = "func" => o # n
    BY <2>2 DEF ShapeInv, Plain, GraphTypeOK, Obj
  <2>7. \A o \in heap' : /\ shape'[o].kind = "closure" <=> func'[o] # None
                         /\ func'[o] # None => shape'[func'[o]].kind = "func"
    <3>1. CASE pend = None
      BY <2>1, <2>2, <2>3, <2>5, <2>6, <3>1 DEF ShapeInv, GraphTypeOK
    <3>2. CASE pend # None
      BY <2>1, <2>2, <2>3, <2>5, <2>6, <3>2 DEF ShapeInv, GraphTypeOK
    <3>3. QED
      BY <3>1, <3>2
  <2>8. \A o \in Obj : o > last' => shape'[o] = Plain
    BY <2>2, <2>3, <2>5 DEF ShapeInv, GraphTypeOK, Obj
  <2>9. ShapeInv'
    BY <2>3, <2>7, <2>8 DEF ShapeInv
  <2>10. QED
    BY <2>4, <2>9
<1>12. CASE UNCHANGED vars
  BY <1>12 DEF vars, graphVars, gcVars, GraphTypeOK, shapeVars, ShapeInv
<1>13. QED
  BY <1>1, <1>2, <1>3, <1>4, <1>5, <1>6, <1>7, <1>8, <1>9, <1>10, <1>11, <1>12
  DEF Next, GcStep

-----------------------------------------------------------------------------
(***************************************************************************)
(* The inductive invariant, one lemma per action of the collector and one  *)
(* for all the steps of the running program.                               *)
(***************************************************************************)
LEMMA InitIInv == Init => IInv
<1> SUFFICES ASSUME Init PROVE IInv
  OBVIOUS
<1>1. TypeOK
  BY InitTypeOK
<1>2. HeapInv
  BY DEF Init, GraphInit, HeapInv, Survivors, Closed
<1>3. FreshInv /\ FuncInv /\ PendInv /\ MarkInv /\ SweepInv /\ MarksReset
  BY DEF Init, GraphInit, FreshInv, FuncInv, PendInv, MarkInv, SweepInv,
         MarksReset, Idle
<1>4. ShapeInv
  BY DEF Init, GraphInit, ShapeInv, Plain, Idle
<1>5. QED
  BY <1>1, <1>2, <1>3, <1>4 DEF IInv, Typed

LEMMA InstrIInv == IInv /\ Typed' /\ Instr => IInv'
<1> SUFFICES ASSUME IInv, Typed', Instr PROVE IInv'
  OBVIOUS
<1> USE DEF IInv, Typed, TypeOK
<1>0. /\ phase = "run" /\ pend = Idle
      /\ UNCHANGED <<phase, marked, gray, cur, pend, bytes, limit>>
      /\ Survivors = heap /\ Survivors' = heap'
  BY DEF Instr, gcVars, shapeVars, PendInv, Survivors
<1>1. UNCHANGED <<heap, last, func>>
  BY DEF Instr, Mutate, Load, Store, Overwrite, Drop
<1>2. HeapInv'
  <2>1. ASSUME NEW o \in Obj, NEW p \in Obj, Load(o, p) PROVE HeapInv'
    BY <1>0, <2>1 DEF Load, HeapInv, Closed, Kids
  <2>2. ASSUME NEW o \in Obj, NEW p \in Obj, Store(o, p) PROVE HeapInv'
    BY <1>0, <2>2 DEF Store, HeapInv, Closed, Kids, GraphTypeOK
  <2>3. ASSUME NEW o \in Obj, NEW p \in Obj, Overwrite(o, p) PROVE HeapInv'
    BY <1>0, <2>3 DEF Overwrite, HeapInv, Closed, Kids, GraphTypeOK
  <2>4. ASSUME NEW o \in Obj, Drop(o) PROVE HeapInv'
    BY <1>0, <2>4 DEF Drop, HeapInv, Closed, Kids
  <2>5. QED
    BY <2>1, <2>2, <2>3, <2>4 DEF Instr, Mutate
<1>3. FreshInv'
  <2>1. ASSUME NEW o \in Obj, o > last PROVE refs'[o] = {}
    <3>1. o \notin roots
      BY <1>0, <2>1 DEF HeapInv, GraphTypeOK, Obj
    <3>2. refs'[o] = refs[o]
      BY <3>1 DEF Instr, Mutate, Load, Store, Overwrite, Drop, GraphTypeOK
    <3>3. QED
      BY <2>1, <3>2 DEF FreshInv
  <2>2. QED
    BY <1>1, <2>1 DEF FreshInv
<1>4. FuncInv' /\ PendInv' /\ MarkInv' /\ SweepInv' /\ MarksReset'
  BY <1>0, <1>1 DEF FuncInv, PendInv, MarkInv, SweepInv, MarksReset
<1>5. QED
  BY <1>2, <1>3, <1>4

\* Everything live is going to stay: the reason why no step frees it.
LEMMA LiveSurvives == TypeOK /\ HeapInv => Live \subseteq Survivors
<1> SUFFICES ASSUME TypeOK, HeapInv PROVE Live \subseteq Survivors
  OBVIOUS
<1>1. Survivors \subseteq heap /\ heap \subseteq Obj
  BY MaxObjAssumption DEF Survivors, TypeOK, GraphTypeOK, Obj
<1>2. QED
  BY <1>1, LiveLeast DEF HeapInv

\* A collection starts, from gc_alloc or from the host, with the roots gray.
LEMMA StartMark ==
  ASSUME IInv, phase = "run", StartGc, UNCHANGED graphVars
  PROVE  MarkInv' /\ SweepInv' /\ MarksReset'
<1> USE DEF IInv, Typed, TypeOK
<1>1. phase' = "mark" /\ marked' = roots /\ gray' = roots
  BY DEF StartGc, Mark, MarksReset
<1>2. roots \subseteq Live /\ Live' = Live
  BY LiveRoots, LiveStable DEF graphVars
<1>3. TriColor'
  BY <1>1 DEF TriColor, graphVars
<1>4. QED
  BY <1>1, <1>2, <1>3 DEF MarkInv, SweepInv, MarksReset

LEMMA GcAllocIInv ==
  ASSUME IInv, Typed', NEW f \in FuncArg, NEW s, GcAlloc(f, s)
  PROVE  IInv'
<1> USE DEF IInv, Typed, TypeOK
<1>1. /\ phase = "run" /\ phase' \in {"mark", "link"} /\ pend' = f
      /\ UNCHANGED graphVars
  BY DEF GcAlloc, Begin, StartGc
<1>2. HeapInv' /\ FreshInv' /\ FuncInv'
  BY <1>1 DEF HeapInv, FreshInv, FuncInv, Survivors, Closed, Kids, graphVars
<1>3. PendInv'
  <2>1. Live' = Live
    BY <1>1, LiveStable DEF graphVars
  <2>2. f # Idle
    BY MaxObjAssumption DEF FuncArg, Live, Obj, None, Idle
  <2>3. QED
    BY <1>1, <2>1, <2>2 DEF PendInv, FuncArg, graphVars
<1>4. MarkInv' /\ SweepInv' /\ MarksReset'
  <2>1. CASE StartGc
    BY <1>1, <2>1, StartMark
  <2>2. CASE phase' = "link" /\ UNCHANGED <<marked, gray, cur>>
    BY <1>1, <2>2 DEF MarkInv, SweepInv, MarksReset
  <2>3. QED
    BY <2>1, <2>2 DEF GcAlloc
<1>5. QED
  BY <1>2, <1>3, <1>4

LEMMA AllocUncheckedIInv ==
  ASSUME IInv, Typed', NEW s, AllocUnchecked(s)
  PROVE  IInv'
<1> USE DEF IInv, Typed, TypeOK
<1>1. HeapInv' /\ FreshInv' /\ FuncInv'
  BY DEF AllocUnchecked, Begin, HeapInv, FreshInv, FuncInv, Survivors, Closed, Kids, graphVars
<1>2. PendInv' /\ MarkInv' /\ SweepInv' /\ MarksReset'
  BY DEF AllocUnchecked, Begin, PendInv, MarkInv, SweepInv, MarksReset, None, Idle
<1>3. QED
  BY <1>1, <1>2

LEMMA HostGcIInv == IInv /\ Typed' /\ HostGc => IInv'
<1> SUFFICES ASSUME IInv, Typed', HostGc PROVE IInv'
  OBVIOUS
<1> USE DEF IInv, Typed, TypeOK
<1>1. phase = "run" /\ phase' = "mark" /\ pend' = Idle /\ UNCHANGED graphVars
  BY DEF HostGc, StartGc, shapeVars, PendInv
<1>2. HeapInv' /\ FreshInv' /\ FuncInv' /\ PendInv'
  BY <1>1
  DEF HeapInv, FreshInv, FuncInv, PendInv, Survivors, Closed, Kids, graphVars
<1>3. MarkInv' /\ SweepInv' /\ MarksReset'
  BY <1>1, StartMark DEF HostGc
<1>4. QED
  BY <1>2, <1>3

LEMMA ScanIInv ==
  ASSUME IInv, Typed', NEW o \in Obj, Scan(o)
  PROVE  IInv'
<1> USE DEF IInv, Typed, TypeOK
<1>1. /\ phase = "mark" /\ phase' = "mark" /\ o \in gray
      /\ marked' = marked \cup Kids(o)
      /\ gray'   = (gray \ {o}) \cup (Kids(o) \ marked)
      /\ UNCHANGED <<heap, last, refs, func, roots, cur, pend>>
      /\ Live' = Live
  BY LiveStable, BlackenKids DEF Scan, graphVars, shapeVars
<1>2. HeapInv' /\ FreshInv' /\ FuncInv' /\ PendInv' /\ SweepInv' /\ MarksReset'
  BY <1>1
  DEF HeapInv, FreshInv, FuncInv, PendInv, SweepInv, MarksReset, Survivors, Closed, Kids
<1>3. TriColor'
  BY <1>1 DEF MarkInv, TriColor, Kids
<1>4. marked' \subseteq Live
  <2>1. o \in Live
    BY <1>1 DEF MarkInv, TriColor
  <2>2. Kids(o) \subseteq Live
    BY <2>1, LiveClosed DEF Closed
  <2>3. QED
    BY <1>1, <2>2 DEF MarkInv
<1>5. QED
  BY <1>1, <1>2, <1>3, <1>4 DEF MarkInv

\* Marking is complete: the marked objects are closed and hold the roots.
LEMMA MarkingDone ==
  ASSUME IInv, phase = "mark", gray = {}
  PROVE  /\ roots \subseteq marked
         /\ Closed(marked)
         /\ marked = Live
         /\ marked \subseteq heap
<1> USE DEF IInv, Typed, TypeOK
<1>1. roots \subseteq marked /\ Closed(marked) /\ marked \subseteq Live
  BY DEF MarkInv, TriColor, Closed
<1>2. Live \subseteq marked
  BY <1>1, LiveLeast
<1>3. Live \subseteq heap
  BY LiveSurvives DEF Survivors
<1>4. QED
  BY <1>1, <1>2, <1>3

LEMMA EndMarkIInv == IInv /\ Typed' /\ EndMark => IInv'
<1> SUFFICES ASSUME IInv, Typed', EndMark PROVE IInv'
  OBVIOUS
<1> USE DEF IInv, Typed, TypeOK
<1>1. /\ phase = "mark" /\ phase' = "sweep" /\ gray = {} /\ cur' = last + 1
      /\ UNCHANGED <<heap, last, refs, func, roots, marked, gray, pend>>
      /\ Live' = Live
  BY LiveStable DEF EndMark, graphVars, shapeVars
<1>2. \A o \in heap : o < cur' /\ ~(o >= cur')
  BY <1>1 DEF GraphTypeOK
<1>3. Survivors' = marked
  <2>1. marked \subseteq heap
    BY <1>1, MarkingDone
  <2>2. Survivors' = {o \in heap : o \in marked \/ o >= cur'}
    BY <1>1 DEF Survivors
  <2>3. QED
    BY <1>2, <2>1, <2>2
<1>4. HeapInv'
  BY <1>1, <1>3, MarkingDone DEF HeapInv, Closed, Kids
<1>5. FuncInv'
  <2>1. ASSUME NEW o \in heap, func[o] # None PROVE func[o] \in heap
    BY <1>1, <2>1 DEF HeapInv, Survivors, Closed, Kids
  <2>2. QED
    BY <1>1, <2>1 DEF FuncInv
<1>6. SweepInv'
  BY <1>1, <1>2, MarkingDone DEF SweepInv
<1>7. FreshInv' /\ PendInv' /\ MarkInv' /\ MarksReset'
  BY <1>1 DEF FreshInv, PendInv, MarkInv, MarksReset
<1>8. QED
  BY <1>4, <1>5, <1>6, <1>7

\* The sweep moves from cur to the next object of the list: nothing allocated
\* lies strictly between them.
LEMMA SweepSplit ==
  ASSUME IInv, NEW o \in Obj, AtLink(o), NEW p \in heap
  PROVE  p >= o <=> p = o \/ p >= cur
  BY DEF AtLink, IInv, Typed, TypeOK, GraphTypeOK, Obj

LEMMA KeepIInv ==
  ASSUME IInv, Typed', NEW o \in Obj, Keep(o)
  PROVE  IInv' /\ Survivors' = Survivors
<1> USE DEF IInv, Typed, TypeOK
<1>1. /\ phase = "sweep" /\ phase' = "sweep" /\ AtLink(o) /\ o \in marked
      /\ marked' = marked \ {o} /\ cur' = o
      /\ UNCHANGED <<heap, last, refs, func, roots, gray, pend>>
      /\ Live' = Live
  BY LiveStable DEF Keep, graphVars, shapeVars
<1>2. Survivors' = Survivors
  <2>1. Survivors' = {p \in heap : p \in marked \ {o} \/ p >= o}
    BY <1>1 DEF Survivors
  <2>2. Survivors = {p \in heap : p \in marked \/ p >= cur}
    BY <1>1 DEF Survivors
  <2>3. QED
    BY <1>1, <2>1, <2>2, SweepSplit
<1>3. HeapInv'
  BY <1>1, <1>2 DEF HeapInv, Closed, Kids
<1>4. FuncInv'
  <2>1. ASSUME NEW p \in heap, func[p] # None, func[p] < o
        PROVE  func[p] \in heap
    <3>1. func[p] \in Int /\ o < cur
      BY <1>1, <2>1, MaxObjAssumption DEF GraphTypeOK, Obj, AtLink, None
    <3>2. func[p] < cur
      BY <2>1, <3>1 DEF Obj
    <3>3. QED
      BY <1>1, <2>1, <3>2 DEF FuncInv
  <2>2. QED
    BY <1>1, <2>1 DEF FuncInv
<1>5. SweepInv'
  BY <1>1, SweepSplit DEF SweepInv, GraphTypeOK, Obj
<1>6. FreshInv' /\ PendInv' /\ MarkInv' /\ MarksReset'
  BY <1>1 DEF FreshInv, PendInv, MarkInv, MarksReset
<1>7. QED
  BY <1>2, <1>3, <1>4, <1>5, <1>6

LEMMA FreeIInv ==
  ASSUME IInv, Typed', NEW o \in Obj, Free(o)
  PROVE  IInv' /\ Survivors' = Survivors
<1> USE DEF IInv, Typed, TypeOK
<1>1. /\ phase = "sweep" /\ phase' = "sweep" /\ AtLink(o) /\ o \notin marked
      /\ heap' = heap \ {o} /\ cur' = o
      /\ UNCHANGED <<last, refs, func, roots, marked, gray, pend>>
      /\ Live' = Live
  BY LiveStable DEF Free, shapeVars
<1>2. Survivors' = Survivors
  <2>1. Survivors' = {p \in heap \ {o} : p \in marked \/ p >= o}
    BY <1>1 DEF Survivors
  <2>2. Survivors = {p \in heap : p \in marked \/ p >= cur}
    BY <1>1 DEF Survivors
  <2>3. ~(o >= cur)
    BY <1>1 DEF AtLink, Obj
  <2>4. QED
    BY <1>1, <2>1, <2>2, <2>3, SweepSplit
<1>3. HeapInv'
  BY <1>1, <1>2 DEF HeapInv, Closed, Kids
<1>4. FuncInv'
  <2>1. ASSUME NEW p \in heap, func[p] # None, func[p] < o
        PROVE  func[p] \in heap \ {o}
    <3>1. func[p] \in Int /\ o \in Int /\ o < cur
      BY <1>1, <2>1, MaxObjAssumption DEF GraphTypeOK, Obj, AtLink, None
    <3>2. func[p] < cur /\ func[p] # o
      BY <2>1, <3>1
    <3>3. QED
      BY <1>1, <2>1, <3>2 DEF FuncInv
  <2>2. QED
    BY <1>1, <2>1 DEF FuncInv
<1>5. SweepInv'
  BY <1>1, SweepSplit DEF SweepInv, GraphTypeOK, Obj
<1>6. FreshInv' /\ PendInv' /\ MarkInv' /\ MarksReset'
  BY <1>1 DEF FreshInv, PendInv, MarkInv, MarksReset
<1>7. QED
  BY <1>2, <1>3, <1>4, <1>5, <1>6

LEMMA EndSweepIInv ==
  ASSUME IInv, Typed', EndSweep
  PROVE  IInv' /\ Survivors' = Survivors
<1> USE DEF IInv, Typed, TypeOK
<1>1. /\ phase = "sweep"
      /\ phase' = IF pend = Idle THEN "run" ELSE "link"
      /\ UNCHANGED <<heap, last, refs, func, roots, marked, gray, cur, pend>>
      /\ Live' = Live
  BY LiveStable DEF EndSweep, graphVars, shapeVars
<1>2. \A o \in heap : o >= cur /\ ~(o < cur)
  BY DEF EndSweep, GraphTypeOK
<1>3. Survivors = heap /\ Survivors' = heap
  BY <1>1, <1>2 DEF Survivors
<1>4. HeapInv' /\ FreshInv' /\ FuncInv' /\ PendInv'
  BY <1>1, <1>3 DEF HeapInv, FreshInv, FuncInv, PendInv, Closed, Kids
<1>5. MarkInv' /\ SweepInv' /\ MarksReset'
  BY <1>1, <1>2 DEF MarkInv, SweepInv, MarksReset
<1>6. QED
  BY <1>3, <1>4, <1>5

LEMMA LinkIInv == IInv /\ Typed' /\ Link => IInv'
<1> SUFFICES ASSUME IInv, Typed', Link PROVE IInv'
  OBVIOUS
<1> USE DEF IInv, Typed, TypeOK
<1> DEFINE n == last + 1
<1>1. /\ phase = "link" /\ phase' = "run" /\ pend # Idle /\ pend' = Idle
      /\ UNCHANGED <<marked, gray, cur, refs>>
      /\ last' = n /\ heap' = heap \cup {n} /\ roots' = roots \cup {n}
      /\ func' = [func EXCEPT ![n] = pend]
  BY DEF Link, Settle, New, PendInv
<1>2. n \in Obj /\ n > last /\ \A o \in heap : o \in Obj /\ o < n
  BY MaxObjAssumption DEF Link, New, GraphTypeOK, Obj
<1>3. pend \in heap \cup {None}
  <2>1. Live \subseteq heap
    BY <1>1, LiveSurvives DEF Survivors
  <2>2. QED
    BY <1>1, <2>1 DEF PendInv
<1>4. refs[n] = {} /\ func'[n] = pend /\ \A o \in Obj \ {n} : func'[o] = func[o]
  BY <1>1, <1>2 DEF FreshInv, GraphTypeOK
<1>5. HeapInv'
  <2>1. roots \subseteq heap /\ Closed(heap) /\ Survivors' = heap'
    BY <1>1 DEF HeapInv, Survivors
  <2>2. \A o \in heap : Kids(o)' = Kids(o)
    BY <1>1, <1>2, <1>4 DEF Kids
  <2>3. \A o \in Obj : o = n => Kids(o)' \subseteq heap
    BY <1>1, <1>3, <1>4 DEF Kids
  <2>4. QED
    BY <1>1, <1>2, <2>1, <2>2, <2>3 DEF HeapInv, Closed
<1>6. FreshInv'
  BY <1>1, <1>2, <1>4 DEF FreshInv, GraphTypeOK, Obj
<1>7. FuncInv'
  BY <1>1, <1>2, <1>3, <1>4 DEF FuncInv
<1>8. PendInv' /\ MarkInv' /\ SweepInv' /\ MarksReset'
  BY <1>1 DEF PendInv, MarkInv, SweepInv, MarksReset
<1>9. QED
  BY <1>5, <1>6, <1>7, <1>8

LEMMA NextIInv == IInv /\ [Next]_vars => IInv'
<1> SUFFICES ASSUME IInv, [Next]_vars PROVE IInv'
  OBVIOUS
<1>0. Typed'
  BY NextTyped DEF IInv
<1>1. CASE Instr
  BY <1>0, <1>1, InstrIInv
<1>2. ASSUME NEW s \in AnyShape, NEW f \in FuncArg, GcAlloc(f, s) PROVE IInv'
  BY <1>0, <1>2, GcAllocIInv
<1>3. ASSUME NEW s \in AnyShape, AllocUnchecked(s) PROVE IInv'
  BY <1>0, <1>3, AllocUncheckedIInv
<1>4. ASSUME NEW o \in roots, GrowMap(o) PROVE IInv'
  BY <1>0, <1>4
  DEF GrowMap, IInv, HeapInv, FreshInv, FuncInv, PendInv, MarkInv, SweepInv,
      MarksReset, Survivors, Closed, Kids, Live, graphVars
<1>5. CASE HostGc
  BY <1>0, <1>5, HostGcIInv
<1>6. ASSUME NEW o \in Obj, Scan(o) \/ Keep(o) \/ Free(o) PROVE IInv'
  BY <1>0, <1>6, ScanIInv, KeepIInv, FreeIInv
<1>7. CASE EndMark
  BY <1>0, <1>7, EndMarkIInv
<1>8. CASE EndSweep
  BY <1>0, <1>8, EndSweepIInv
<1>9. CASE Link
  BY <1>0, <1>9, LinkIInv
<1>10. CASE UNCHANGED vars
  BY <1>0, <1>10
  DEF vars, graphVars, gcVars, shapeVars, IInv, HeapInv, FreshInv, FuncInv, PendInv,
      MarkInv, SweepInv, MarksReset, Survivors, Closed, Kids, Live, TriColor
<1>11. QED
  BY <1>1, <1>2, <1>3, <1>4, <1>5, <1>6, <1>7, <1>8, <1>9, <1>10 DEF Next, GcStep

\* The invariant holds in every reachable state.
THEOREM Invariance == Spec => []IInv
<1>1. Init => IInv
  BY InitIInv
<1>2. IInv /\ [Next]_vars => IInv'
  BY NextIInv
<1>3. QED
  BY <1>1, <1>2, PTL DEF Spec

-----------------------------------------------------------------------------
(***************************************************************************)
(* The theorems.                                                           *)
(***************************************************************************)
\* The collector's state keeps its type.
THEOREM TypeCorrect == Spec => []TypeOK
<1>1. IInv => TypeOK
  BY DEF IInv, Typed
<1>2. QED
  BY <1>1, Invariance, PTL

\* vm_gc never frees what the VM can reach, at any point of a collection.
THEOREM MemorySafe == Spec => []NoDangling
<1>1. IInv => NoDangling
  BY LiveSurvives DEF IInv, Typed, NoDangling, Survivors
<1>2. QED
  BY <1>1, Invariance, PTL

\* trace_references keeps the tri-colour property that makes marking complete.
THEOREM MarkingSound == Spec => []TriColor
<1>1. IInv => TriColor
  BY DEF IInv, MarkInv, TriColor
<1>2. QED
  BY <1>1, Invariance, PTL

\* The closure case of sweep reads a function that has not been freed yet: the
\* list is in reverse allocation order and a closure is younger than its function.
THEOREM SweepOrderSafe == Spec => []SweepReadsLiveFunc
<1>1. IInv => SweepReadsLiveFunc
  <2> SUFFICES ASSUME IInv, phase = "sweep", NEW o \in heap, AtLink(o), func[o] # None
               PROVE  func[o] \in heap
    BY DEF SweepReadsLiveFunc
  <2>1. func[o] < o /\ o < cur
    BY DEF IInv, FuncInv, AtLink
  <2>2. func[o] \in Int /\ o \in Int /\ cur \in Int
    BY MaxObjAssumption DEF IInv, Typed, TypeOK, GraphTypeOK, Obj, None
  <2>3. func[o] < cur
    BY <2>1, <2>2
  <2>4. QED
    BY <2>3 DEF IInv, FuncInv
<1>2. QED
  BY <1>1, Invariance, PTL

\* A collection leaves no mark behind that would keep garbage in the next one.
THEOREM NoStaleMarks == Spec => []MarksReset
<1>1. IInv => MarksReset
  BY DEF IInv
<1>2. QED
  BY <1>1, Invariance, PTL

-----------------------------------------------------------------------------
(***************************************************************************)
(* The count and what sweep would give back.                               *)
(***************************************************************************)
Amounts == [Obj -> Int]
IsSum(t, a) == t = [n \in 0..MaxObj |-> IF n = 0 THEN 0 ELSE t[n - 1] + a[n]]
Adds(t, a, m) == \A n \in 0..m : t[n] = IF n = 0 THEN 0 ELSE t[n - 1] + a[n]

\* Whatever the amounts are, they can be added up from the first to the last: no
\* number is the least for which there is no sum.
LEMMA SumExists ==
  ASSUME NEW a \in Amounts
  PROVE  \E t \in [0..MaxObj -> Int] : IsSum(t, a)
<1> DEFINE Stuck == {m \in Nat : m <= MaxObj /\ ~ \E t \in [0..m -> Int] : Adds(t, a, m)}
           m     == Min(Stuck)
<1>1. Stuck = {}
  <2>1. SUFFICES ASSUME Stuck # {} PROVE FALSE
    OBVIOUS
  <2>2. m \in Stuck /\ \A k \in 0..m - 1 : k \notin Stuck
    BY <2>1, LeastOf
  <2> HIDE DEF m
  <2>3. CASE m = 0
    <3>1. [n \in 0..0 |-> 0] \in [0..0 -> Int] /\ Adds([n \in 0..0 |-> 0], a, 0)
      BY DEF Adds
    <3>2. QED
      BY <2>2, <2>3, <3>1
  <2>4. CASE m # 0
    <3>1. m \in Nat /\ m - 1 \in Nat /\ m - 1 \in 0..m - 1 /\ m <= MaxObj /\ m \in Obj
      BY <2>2, <2>4, MaxObjAssumption DEF Obj
    <3>2. PICK t \in [0..m - 1 -> Int] : Adds(t, a, m - 1)
      BY <2>2, <3>1, MaxObjAssumption
    <3> DEFINE u == [n \in 0..m |-> IF n = m THEN t[m - 1] + a[m] ELSE t[n]]
    <3>3. a[m] \in Int /\ t[m - 1] \in Int
      BY <3>1 DEF Amounts
    <3>4. u \in [0..m -> Int] /\ u[m] = t[m - 1] + a[m] /\ \A n \in 0..m - 1 : u[n] = t[n]
      BY <3>1, <3>3
    <3> HIDE DEF u
    <3>5. Adds(u, a, m)
      <4>1. ASSUME NEW n \in 0..m, n # m
            PROVE  u[n] = IF n = 0 THEN 0 ELSE u[n - 1] + a[n]
        <5>1. n \in 0..m - 1 /\ (n # 0 => n - 1 \in 0..m - 1)
          BY <3>1, <4>1
        <5>2. QED
          BY <3>2, <3>4, <5>1 DEF Adds
      <4>2. u[m] = u[m - 1] + a[m]
        BY <3>1, <3>4
      <4>3. QED
        BY <2>4, <4>1, <4>2 DEF Adds
    <3>6. QED
      BY <2>2, <3>4, <3>5
  <2>5. QED
    BY <2>3, <2>4
<1>2. PICK t \in [0..MaxObj -> Int] : Adds(t, a, MaxObj)
  BY <1>1, MaxObjAssumption
<1>3. t = [n \in 0..MaxObj |-> t[n]]
  OBVIOUS
<1>4. IsSum(t, a)
  BY <1>2, <1>3 DEF IsSum, Adds
<1>5. QED
  BY <1>4

\* So the total is the last of such sums.
LEMMA TotalIsSum ==
  ASSUME NEW a \in Amounts
  PROVE  \E t : /\ \A n \in 0..MaxObj : t[n] = IF n = 0 THEN 0 ELSE t[n - 1] + a[n]
                /\ \A n \in 0..MaxObj : t[n] \in Int
                /\ Total(a) = t[MaxObj]
<1> DEFINE t == CHOOSE t : IsSum(t, a)
<1>1. Total(a) = t[MaxObj]
  BY DEF Total, IsSum
<1>2. IsSum(t, a)
  BY SumExists
<1> HIDE DEF t
<1>3. \A n \in 0..MaxObj : t[n] = IF n = 0 THEN 0 ELSE t[n - 1] + a[n]
  BY <1>2, Zenon DEF IsSum
<1>4. \A n \in 0..MaxObj : t[n] \in Int
  <2> DEFINE Bad == {n \in Nat : n <= MaxObj /\ t[n] \notin Int}
             m   == Min(Bad)
  <2>1. SUFFICES ASSUME Bad # {} PROVE FALSE
    BY MaxObjAssumption
  <2>2. m \in Bad /\ \A k \in 0..m - 1 : k \notin Bad
    BY <2>1, LeastOf
  <2> HIDE DEF m
  <2>3. m # 0 => t[m - 1] \in Int /\ a[m] \in Int
    BY <2>2, MaxObjAssumption DEF Amounts, Obj
  <2>4. QED
    BY <1>3, <2>2, <2>3, MaxObjAssumption
<1>5. QED
  BY <1>1, <1>3, <1>4

\* Changing one amount changes the total by as much.
LEMMA TotalChange ==
  ASSUME NEW a \in Amounts, NEW b \in Amounts, NEW k \in Obj,
         \A o \in Obj \ {k} : b[o] = a[o]
  PROVE  Total(a) \in Int /\ Total(b) = Total(a) + b[k] - a[k]
<1>1. PICK t : /\ \A n \in 0..MaxObj : t[n] = IF n = 0 THEN 0 ELSE t[n - 1] + a[n]
               /\ \A n \in 0..MaxObj : t[n] \in Int
               /\ Total(a) = t[MaxObj]
  BY TotalIsSum
<1>2. PICK u : /\ \A n \in 0..MaxObj : u[n] = IF n = 0 THEN 0 ELSE u[n - 1] + b[n]
               /\ \A n \in 0..MaxObj : u[n] \in Int
               /\ Total(b) = u[MaxObj]
  BY TotalIsSum
<1> DEFINE Change(n) == IF n < k THEN 0 ELSE b[k] - a[k]
           Bad == {n \in Nat : n <= MaxObj /\ u[n] # t[n] + Change(n)}
           m   == Min(Bad)
<1>3. Bad = {}
  <2>1. SUFFICES ASSUME Bad # {} PROVE FALSE
    OBVIOUS
  <2>2. m \in Bad /\ \A i \in 0..m - 1 : i \notin Bad
    BY <2>1, LeastOf
  <2> HIDE DEF m
  <2>3. k \in Int /\ k > 0 /\ k <= MaxObj /\ MaxObj \in Nat /\ a[k] \in Int /\ b[k] \in Int
    BY MaxObjAssumption DEF Amounts, Obj
  <2>4. CASE m = 0
    BY <1>1, <1>2, <2>2, <2>3, <2>4
  <2>5. CASE m # 0
    <3>1. m \in Nat /\ m <= MaxObj /\ m - 1 \in 0..m - 1 /\ m \in 0..MaxObj /\ m - 1 \in 0..MaxObj
      BY <2>2, <2>3, <2>5
    <3>2. u[m - 1] = t[m - 1] + Change(m - 1)
      BY <2>2, <3>1
    <3>3. u[m] = u[m - 1] + b[m] /\ t[m] = t[m - 1] + a[m] /\ t[m - 1] \in Int
      BY <1>1, <1>2, <2>5, <3>1
    <3>4. a[m] \in Int /\ b[m] \in Int /\ (m # k => b[m] = a[m])
      BY <2>5, <3>1 DEF Amounts, Obj
    <3>5. Change(m) = Change(m - 1) + b[m] - a[m]
      BY <2>3, <3>1, <3>4
    <3>6. Change(m - 1) \in Int
      BY <2>3
    <3>7. QED
      BY <2>2, <3>2, <3>3, <3>4, <3>5, <3>6
  <2>6. QED
    BY <2>4, <2>5
<1>4. u[MaxObj] = t[MaxObj] + b[k] - a[k]
  <2>1. MaxObj \in Nat /\ ~(MaxObj < k) /\ t[MaxObj] \in Int /\ a[k] \in Int /\ b[k] \in Int
    BY <1>1, MaxObjAssumption DEF Amounts, Obj
  <2>2. u[MaxObj] = t[MaxObj] + Change(MaxObj)
    BY <1>3, <2>1
  <2>3. QED
    BY <2>1, <2>2
<1>5. QED
  BY <1>1, <1>2, <1>4, MaxObjAssumption

\* Without objects there is nothing to give back.
LEMMA TotalZero ==
  ASSUME NEW a \in Amounts, \A o \in Obj : a[o] = 0
  PROVE  Total(a) = 0
<1>1. PICK t : /\ \A n \in 0..MaxObj : t[n] = IF n = 0 THEN 0 ELSE t[n - 1] + a[n]
               /\ Total(a) = t[MaxObj]
  BY TotalIsSum
<1> DEFINE Bad == {n \in Nat : n <= MaxObj /\ t[n] # 0}
           m   == Min(Bad)
<1>2. SUFFICES ASSUME Bad # {} PROVE FALSE
  BY <1>1, MaxObjAssumption
<1>3. m \in Bad /\ \A k \in 0..m - 1 : k \notin Bad
  BY <1>2, LeastOf
<1> HIDE DEF m
<1>4. m # 0 => t[m - 1] = 0 /\ a[m] = 0
  BY <1>3, MaxObjAssumption DEF Obj
<1>5. QED
  BY <1>1, <1>3, <1>4, MaxObjAssumption

RefundsTyped == Refunds \in Amounts

LEMMA RefundsType == Typed => RefundsTyped
  BY AmountTypes DEF Refunds, Amounts, RefundsTyped

LEMMA NextRefundsType == Typed' => RefundsTyped'
  BY RefundsType, PTL

\* One step changes the count by no less than the refunds of the objects there
\* are and the charge of the object under way.
LEMMA NextRefunds == IInv /\ RefundsCovered /\ [Next]_vars => RefundsCovered'
<1> SUFFICES ASSUME IInv, RefundsCovered, [Next]_vars PROVE RefundsCovered'
  OBVIOUS
<1> DEFINE way == IF pend = Idle THEN 0 ELSE Prepaid(due)
           sum == Total(Refunds)
<1>1. Typed /\ Typed' /\ PendInv
  BY NextTyped DEF IInv
<1>2. Refunds \in Amounts /\ Refunds' \in Amounts
  BY <1>1, RefundsType, NextRefundsType DEF RefundsTyped
<1>3. sum \in Int /\ bytes \in Int /\ bytes' \in Int /\ way \in Int
  <2>1. 1 \in Obj /\ due \in Shape
    BY <1>1, MaxObjAssumption DEF Obj, Typed, TypeOK
  <2>2. QED
    BY <1>1, <1>2, <2>1, TotalChange, AmountTypes DEF Typed, TypeOK
<1>4. bytes >= sum + way
  BY DEF RefundsCovered
<1>5. RefundsCovered' <=> bytes' >= Total(Refunds') + way'
  BY DEF RefundsCovered, Total
<1>6. heap \subseteq Obj
  BY <1>1, MaxObjAssumption DEF Typed, TypeOK, GraphTypeOK, Obj
<1> HIDE DEF sum, way
<1>7. ASSUME Refunds' = Refunds, pend' = pend, due' = due, bytes' >= bytes
      PROVE  RefundsCovered'
  <2>1. way' = way /\ Total(Refunds') = sum
    BY <1>7 DEF way, sum, Prepaid
  <2>2. QED
    BY <1>3, <1>4, <1>5, <1>7, <2>1
<1>8. ASSUME UNCHANGED <<heap, func, shape>> PROVE Refunds' = Refunds
  BY <1>8 DEF Refunds, Refund
<1>9. CASE Instr
  <2>1. UNCHANGED <<heap, func, shape, pend, due, bytes>>
    BY <1>9 DEF Instr, gcVars, shapeVars, Mutate, Load, Store, Overwrite, Drop
  <2>2. QED
    BY <1>3, <1>7, <1>8, <2>1
<1>10. ASSUME NEW s, NEW f, s \in AnyShape, GcAlloc(f, s) \/ (f = None /\ AllocUnchecked(s)), f \in FuncArg
       PROVE  RefundsCovered'
  <2>1. /\ Begin(f, s) /\ bytes' = bytes + Prepaid(s) /\ UNCHANGED <<heap, func, shape>>
    BY <1>10 DEF GcAlloc, AllocUnchecked, Begin, graphVars
  <2>2. pend = Idle /\ pend' # Idle /\ due' = s /\ s \in Shape
    BY <1>1, <1>10, <2>1, BeginShape DEF Begin, PendInv, Typed
  <2>3. way = 0 /\ way' = Prepaid(s) /\ Prepaid(s) \in Int
    BY <1>1, <2>2, AmountTypes DEF way, Prepaid
  <2>4. Total(Refunds') = sum
    BY <1>8, <2>1 DEF sum
  <2>5. QED
    BY <1>3, <1>4, <1>5, <2>1, <2>3, <2>4
<1>11. ASSUME NEW o \in roots, GrowMap(o) PROVE RefundsCovered'
  <2> DEFINE nc == IF shape[o].room = 0 THEN 1 ELSE 2 * shape[o].room
  <2>1. /\ o \in Obj /\ shape[o].kind = "map" /\ shape[o] \in Shape /\ nc \in Nat
        /\ shape' = [shape EXCEPT ![o].room = nc] /\ bytes' = bytes + nc
        /\ UNCHANGED <<heap, func, pend, due>>
    BY <1>1, <1>11 DEF GrowMap, graphVars, Typed, TypeOK, GraphTypeOK, Shape
  <2> HIDE DEF nc
  <2>2. /\ \A p \in Obj : shape'[p].kind = shape[p].kind
        /\ \A p \in Obj : shape[p].kind # "map" => shape'[p] = shape[p]
    BY <1>1, <2>1 DEF Typed, TypeOK, Shape
  <2>3. ASSUME NEW p \in heap PROVE Refund(p)' = Refund(p)
    <3>1. p \in Obj /\ func'[p] = func[p]
      BY <1>6, <2>1
    <3>2. CASE shape[p].kind = "closure"
      <4>1. func[p] \in Obj /\ shape[func[p]].kind = "func"
        BY <1>1, <2>3, <3>1, <3>2 DEF Typed, TypeOK, GraphTypeOK, ShapeInv
      <4>2. shape'[func[p]] = shape[func[p]] /\ shape'[p].kind = "closure"
        BY <2>2, <3>1, <3>2, <4>1
      <4>3. QED
        BY <3>1, <3>2, <4>2 DEF Refund
    <3>3. CASE shape[p].kind # "closure"
      BY <2>2, <3>1, <3>3 DEF Refund
    <3>4. QED
      BY <3>2, <3>3
  <2>4. Refunds' = Refunds
    BY <2>1, <2>3 DEF Refunds
  <2>5. QED
    BY <1>3, <1>7, <2>1, <2>4
<1>12. CASE HostGc \/ EndMark \/ EndSweep \/ UNCHANGED vars
  BY <1>3, <1>7, <1>8, <1>12 DEF HostGc, EndMark, EndSweep, vars, graphVars, gcVars, shapeVars
<1>13. ASSUME NEW o \in Obj, Scan(o) \/ Keep(o) PROVE RefundsCovered'
  BY <1>3, <1>7, <1>8, <1>13 DEF Scan, Keep, graphVars, shapeVars
<1>14. ASSUME NEW o \in Obj, Free(o) PROVE RefundsCovered'
  <2>1. /\ o \in heap /\ heap' = heap \ {o} /\ bytes' = bytes - Refund(o)
        /\ UNCHANGED <<func, shape, pend, due>>
    BY <1>14 DEF Free, AtLink, shapeVars
  <2>2. Refunds[o] = Refund(o) /\ Refunds'[o] = 0 /\ \A p \in Obj \ {o} : Refunds'[p] = Refunds[p]
    BY <2>1 DEF Refunds, Refund
  <2>3. Total(Refunds') = sum + 0 - Refund(o)
    BY <1>2, <2>2, TotalChange DEF sum
  <2>4. way' = way
    BY <2>1 DEF way, Prepaid
  <2>5. Refund(o) \in Int
    BY <1>1, <2>1, AmountTypes
  <2>6. QED
    BY <1>3, <1>4, <1>5, <2>1, <2>3, <2>4, <2>5
<1>15. CASE Link
  <2>0. PICK n : n = last + 1
    OBVIOUS
  <2>1. /\ pend # Idle /\ pend' = Idle /\ bytes' = bytes + Postpaid(pend, due)
        /\ n \in Obj /\ n \notin heap /\ heap' = heap \cup {n}
        /\ func' = [func EXCEPT ![n] = pend] /\ shape' = [shape EXCEPT ![n] = due]
        /\ shape[n] = Plain
    BY <1>1, <1>15, <2>0, MaxObjAssumption
    DEF Link, Settle, New, PendInv, Typed, TypeOK, GraphTypeOK, ShapeInv, Obj
  <2>2. way = Prepaid(due) /\ way' = 0
    BY <2>1 DEF way
  <2>3. /\ shape'[n] = due /\ func'[n] = pend /\ due \in Shape
        /\ \A p \in Obj \ {n} : shape'[p] = shape[p] /\ func'[p] = func[p]
        /\ \A p \in Obj : shape[p].kind = "func" => shape'[p] = shape[p]
    BY <1>1, <2>1 DEF Typed, TypeOK, GraphTypeOK, Plain
  <2>4. Refund(n)' = Prepaid(due) + Postpaid(pend, due)
    <3>1. CASE due.kind = "closure"
      <4>1. pend \in Obj /\ shape[pend].kind = "func"
        BY <1>1, <2>1, <3>1 DEF Typed, TypeOK, ShapeInv
      <4>2. shape'[pend] = shape[pend] /\ shape[pend].room \in Int
        BY <1>1, <2>3, <4>1 DEF Typed, TypeOK, Shape
      <4>3. Refund(n)' = 1 + shape[pend].room
        BY <2>3, <3>1, <4>2 DEF Refund
      <4>4. Prepaid(due) = 1 /\ Postpaid(pend, due) = shape[pend].room
        BY <3>1, <4>2 DEF Prepaid, Postpaid
      <4>5. QED
        BY <4>3, <4>4
    <3>2. CASE due.kind # "closure"
      <4>1. Refund(n)' = 1 + IF due.kind \in {"string", "array"} THEN due.room ELSE 0
        BY <2>3, <3>2 DEF Refund
      <4>2. due.room \in Int
        BY <2>3 DEF Shape
      <4>3. QED
        BY <3>2, <4>1, <4>2 DEF Prepaid, Postpaid
    <3>3. QED
      BY <3>1, <3>2
  <2>5. ASSUME NEW p \in heap PROVE Refund(p)' = Refund(p)
    <3>1. p \in Obj \ {n}
      BY <1>6, <2>1
    <3>2. CASE shape[p].kind = "closure"
      <4>1. func[p] \in Obj /\ shape[func[p]].kind = "func"
        BY <1>1, <2>5, <3>1, <3>2 DEF Typed, TypeOK, GraphTypeOK, ShapeInv
      <4>2. shape'[func'[p]] = shape[func[p]]
        BY <2>3, <3>1, <4>1
      <4>3. QED
        BY <2>3, <3>1, <3>2, <4>2 DEF Refund
    <3>3. CASE shape[p].kind # "closure"
      BY <2>3, <3>1, <3>3 DEF Refund
    <3>4. QED
      BY <3>2, <3>3
  <2>6. Refunds[n] = 0 /\ Refunds'[n] = Refund(n)' /\ \A p \in Obj \ {n} : Refunds'[p] = Refunds[p]
    BY <2>1, <2>5 DEF Refunds
  <2>7. Total(Refunds') = sum + (Prepaid(due) + Postpaid(pend, due)) - 0
    BY <1>2, <2>1, <2>4, <2>6, TotalChange DEF sum
  <2>8. Prepaid(due) \in Int /\ Postpaid(pend, due) \in Int
    BY <1>1, <2>1, <2>3, AmountTypes
  <2>9. QED
    BY <1>3, <1>4, <1>5, <2>1, <2>2, <2>7, <2>8
<1>16. QED
  BY <1>9, <1>10, <1>11, <1>12, <1>13, <1>14, <1>15 DEF Next, GcStep, FuncArg

\* Sweep takes off the count what it recomputes from the object's fields and from
\* those of its function, when it meets the object.  That never is more than the
\* charges that were made for it, by gc_alloc before it was allocated and by its
\* allocator after it was linked: the unsigned count does not wrap around.
THEOREM RefundsAlwaysCovered == Spec => []RefundsCovered
<1>1. Init => RefundsCovered
  <2>1. SUFFICES ASSUME Init PROVE RefundsCovered
    OBVIOUS
  <2>2. heap = {} /\ bytes = 0 /\ pend = Idle /\ Typed
    BY <2>1, InitIInv DEF Init, GraphInit, IInv
  <2>3. Refunds \in Amounts /\ \A o \in Obj : Refunds[o] = 0
    BY <2>2, RefundsType DEF Refunds, RefundsTyped
  <2>4. QED
    BY <2>2, <2>3, TotalZero DEF RefundsCovered
<1>2. IInv /\ RefundsCovered /\ [Next]_vars => RefundsCovered'
  BY NextRefunds
<1>3. QED
  BY <1>1, <1>2, Invariance, PTL DEF Spec

-----------------------------------------------------------------------------
(***************************************************************************)
(* Refinement of GcAbstract: marking's end is the abstract collection, the *)
(* steps of mark and sweep are invisible, the rest maps to itself.         *)
(***************************************************************************)
LEMMA AbsInit == Init => Abs!GraphInit
  BY DEF Init, GraphInit, Abs!GraphInit, Survivors, Obj, None, Abs!Obj, Abs!None

LEMMA AbsInstr == IInv /\ Instr => Abs!Mutate
<1> SUFFICES ASSUME IInv, Instr PROVE Abs!Mutate
  OBVIOUS
<1>1. Survivors = heap /\ Survivors' = heap' /\ heap' = heap
  BY DEF Instr, gcVars, Survivors, Mutate, Load, Store, Overwrite, Drop
<1>2. QED
  BY <1>1
  DEF Instr, Mutate, Load, Store, Overwrite, Drop, Kids, Obj, None, Abs!Mutate,
      Abs!Load, Abs!Store, Abs!Overwrite, Abs!Drop, Abs!Kids, Abs!Obj, Abs!None

LEMMA AbsLink == IInv /\ Link => \E f \in Abs!FuncArg : Abs!New(f)
<1> SUFFICES ASSUME IInv, Link PROVE \E f \in Abs!FuncArg : Abs!New(f)
  OBVIOUS
<1>1. Survivors = heap /\ Survivors' = heap'
  BY DEF Link, Settle, Survivors
<1>2. Abs!New(pend)
  BY <1>1 DEF Link, New, Abs!New
<1>3. pend \in FuncArg
  BY DEF Link, Settle, FuncArg, IInv, PendInv
<1>4. FuncArg = Abs!FuncArg
  BY DEF FuncArg, Live, Closed, Kids, Obj, None, Abs!FuncArg, Abs!Live,
         Abs!Closed, Abs!Kids, Abs!Obj, Abs!None
<1>5. QED
  BY <1>2, <1>3, <1>4

LEMMA AbsCollect == IInv /\ EndMark => Abs!Collect
<1> SUFFICES ASSUME IInv, EndMark PROVE Abs!Collect
  OBVIOUS
<1>1. marked = Live /\ marked \subseteq heap
  BY MarkingDone DEF EndMark
<1>2. \A o \in heap : ~(o >= last + 1)
  BY DEF IInv, Typed, TypeOK, GraphTypeOK
<1>3. Survivors' = {o \in heap : o \in marked \/ o >= last + 1}
  BY DEF EndMark, Survivors, graphVars
<1>4. Survivors' = Live
  BY <1>1, <1>2, <1>3
<1>5. Live = Abs!Live
  BY DEF Live, Closed, Kids, Obj, None, Abs!Live, Abs!Closed, Abs!Kids,
         Abs!Obj, Abs!None
<1>6. QED
  BY <1>4, <1>5 DEF EndMark, graphVars, Abs!Collect

LEMMA AbsNext == IInv /\ [Next]_vars => [Abs!Next]_Abs!graphVars
<1> SUFFICES ASSUME IInv, [Next]_vars PROVE [Abs!Next]_Abs!graphVars
  OBVIOUS
<1>0. Typed'
  BY NextTyped DEF IInv
<1> USE DEF Abs!graphVars
<1>1. CASE Instr
  BY <1>1, AbsInstr DEF Abs!Next
<1>2. ASSUME NEW s \in AnyShape, NEW f \in FuncArg, GcAlloc(f, s) PROVE UNCHANGED Abs!graphVars
  BY <1>2 DEF GcAlloc, Begin, StartGc, Survivors, graphVars
<1>3. ASSUME NEW s \in AnyShape, AllocUnchecked(s) PROVE UNCHANGED Abs!graphVars
  BY <1>3 DEF AllocUnchecked, Begin, Survivors, graphVars
<1>12. ASSUME NEW o \in roots, GrowMap(o) PROVE UNCHANGED Abs!graphVars
  BY <1>12 DEF GrowMap, Survivors, graphVars
<1>13. CASE HostGc
  BY <1>13 DEF HostGc, StartGc, Survivors, graphVars
<1>4. ASSUME NEW o \in Obj, Scan(o) PROVE UNCHANGED Abs!graphVars
  BY <1>4 DEF Scan, Survivors, graphVars
<1>5. ASSUME NEW o \in Obj, Keep(o) PROVE UNCHANGED Abs!graphVars
  BY <1>0, <1>5, KeepIInv DEF Keep, graphVars
<1>6. ASSUME NEW o \in Obj, Free(o) PROVE UNCHANGED Abs!graphVars
  BY <1>0, <1>6, FreeIInv DEF Free
<1>7. CASE EndMark
  BY <1>7, AbsCollect DEF Abs!Next
<1>8. CASE EndSweep
  BY <1>0, <1>8, EndSweepIInv DEF EndSweep, graphVars
<1>9. CASE Link
  BY <1>9, AbsLink DEF Abs!Next
<1>10. CASE UNCHANGED vars
  BY <1>10 DEF vars, graphVars, gcVars, Survivors
<1>11. QED
  BY <1>1, <1>2, <1>3, <1>4, <1>5, <1>6, <1>7, <1>8, <1>9, <1>10, <1>12, <1>13
  DEF Next, GcStep

\* vm_gc with its allocators does what GcAbstract promises: all garbage goes,
\* at once as far as the program can tell, and nothing else changes.
THEOREM Refinement == Spec => ImplementsAbstract
<1>1. Init => Abs!GraphInit
  BY AbsInit
<1>2. IInv /\ [Next]_vars => [Abs!Next]_Abs!graphVars
  BY AbsNext
<1>3. QED
  BY <1>1, <1>2, Invariance, PTL DEF Spec, ImplementsAbstract, Abs!Spec
=============================================================================
