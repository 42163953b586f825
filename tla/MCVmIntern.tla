----------------------------- MODULE MCVmIntern -----------------------------
(***************************************************************************)
(* VmIntern on three contents.  "a" and "b" collide at every table size,   *)
(* "c" hashes to the last slot of the smallest table, so that its probe    *)
(* sequence wraps around.                                                  *)
(***************************************************************************)
EXTENDS VmIntern

MCContents == {"a", "b", "c"}
MCHash     == [c \in MCContents |-> IF c = "c" THEN 7 ELSE 0]
=============================================================================
