------------------------------ MODULE MCScopes ------------------------------
(* A bounded instance of Scopes. *)
EXTENDS Scopes, TLC

\* char; long; int[] with three elements.
MCTypes == {[size |-> 1, align |-> 1, extent |-> 1], [size |-> 8, align |-> 8, extent |-> 8],
            [size |-> 0, align |-> 4, extent |-> 12]}
Symmetry == Permutations(Names)
=============================================================================
