----------------------------- MODULE MCCgImage -----------------------------
(* A bounded instance of CgImage. *)
EXTENDS CgImage, TLC

CONSTANTS x, y, f, g

MCVars   == {x, y}
MCFuncs  == {f, g}
\* char; struct S, named by its tag, of three longs; int[] with three elements.
Of(kind, sz, align) == [kind |-> kind, size |-> sz, align |-> align]
MCTypes  ==
  {[size |-> 1,  parsed |-> Of("scalar", 1, 1), resolved |-> Of("scalar", 1, 1)],
   [size |-> 24, parsed |-> Of("struct", 0, 1), resolved |-> Of("struct", 24, 8)],
   [size |-> 12, parsed |-> Of("array", 0, 4),  resolved |-> Of("array", 0, 4)]}
Symmetry == Permutations(MCVars) \cup Permutations(MCFuncs)
=============================================================================
