------------------------------- MODULE MCVmSai -------------------------------
(***************************************************************************)
(* VmSai on one site of each family.                                       *)
(***************************************************************************)
EXTENDS VmSai

MCSites    == {"s1", "s2", "s3", "s4"}
MCFamily   == [s \in MCSites |-> CASE s = "s1" -> "add"
                                   [] s = "s2" -> "sub"
                                   [] s = "s3" -> "less"
                                   [] s = "s4" -> "equal"]

\* 1 and 1.0 are equal numbers of two kinds, 0.5 lies between 0 and 1.
MCOperands == {[k |-> "int", n |-> 0], [k |-> "int", n |-> 2],
               [k |-> "float", n |-> 1], [k |-> "float", n |-> 2],
               [k |-> "nil", n |-> 0]}
=============================================================================
