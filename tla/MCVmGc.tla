------------------------------- MODULE MCVmGc -------------------------------
(* A bounded instance of VmGc. *)
EXTENDS VmGc

Of(kind, n) == [kind |-> kind, room |-> n]
Closure     == Of("closure", 0)

\* A function and its closures; the elements of these and of an array are charged
\* afterwards, those of a string at once, those of a map as it grows.
MCShapes ==
  [o \in Obj |-> CASE o = 1 -> {Of("func", 1)}
                   [] o = 2 -> {Of("string", 1), Of("array", 1), Closure}
                   [] OTHER -> {Of("map", 0), Closure}]
=============================================================================
