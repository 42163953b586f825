-------------------------- MODULE MCVmMakeClosure --------------------------
(* A bounded instance of VmMakeClosure. *)
EXTENDS VmMakeClosure

\* A function with one variable to capture, then its closures and upvalues.
MCShapes ==
  [o \in Obj |-> IF o = 1 THEN {[kind |-> "func", room |-> 1]}
                 ELSE {[kind |-> "closure", room |-> 0], Plain}]
=============================================================================
