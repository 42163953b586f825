----------------------------- MODULE GcAbstract -----------------------------
(***************************************************************************)
(* What the collector of the VM promises, whatever its algorithm: between  *)
(* two instructions all garbage may disappear at once, and nothing the VM  *)
(* can still reach is touched.                                             *)
(***************************************************************************)
EXTENDS ObjGraph

Collect ==
  /\ heap' = Live
  /\ UNCHANGED <<last, refs, func, roots>>

Next ==
  \/ Mutate
  \/ \E f \in FuncArg : New(f)
  \/ Collect

Spec == GraphInit /\ [][Next]_graphVars
=============================================================================
