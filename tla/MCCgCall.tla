------------------------------ MODULE MCCgCall ------------------------------
(***************************************************************************)
(* CgCall with two integer and two SSE registers, on the argument lists of *)
(* up to five words of every class, structs among them.                    *)
(***************************************************************************)
EXTENDS CgCall

Scalar(k, s) == [kind |-> k, size |-> s, align |-> s, members |-> {}]
Struct(s, a, ms) == [kind |-> "struct", size |-> s, align |-> a, members |-> ms]
M(o, s, f)   == [off |-> o, size |-> s, flt |-> f]

I4 == Scalar("int", 1)
I8 == Scalar("int", 2)
F8 == Scalar("flt", 2)
F4 == Scalar("flt", 1)

MCTypes ==
  {I4, I8, F8, F4,
   Struct(2, 1, {M(0, 1, FALSE), M(1, 1, TRUE)}),
   Struct(4, 2, {M(0, 2, FALSE), M(2, 2, FALSE)}),
   Struct(4, 2, {M(0, 2, TRUE), M(2, 1, FALSE)}),
   Struct(4, 2, {M(0, 2, FALSE), M(2, 1, TRUE), M(3, 1, TRUE)}),
   Struct(3, 1, {M(0, 1, FALSE), M(1, 1, FALSE), M(2, 1, FALSE)}),
   Struct(6, 2, {M(0, 2, FALSE), M(2, 2, FALSE), M(4, 2, FALSE)})}

Lists(S, n) == UNION {[1..m -> S] : m \in 0..n}

MCSignatures == Lists(MCTypes, 4) \cup Lists({I4, I8, F8}, 6)
MCLocals == {0, 1, 3, 22}
=============================================================================
