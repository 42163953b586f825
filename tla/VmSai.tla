------------------------------- MODULE VmSai -------------------------------
(***************************************************************************)
(* The specializing interpreter of vm/src/vm_exec.c.  A generic opcode     *)
(* counts its executions; once the counter of its code position is down to *)
(* zero and the operands at hand are of one type, it overwrites itself     *)
(* with an opcode for that type.  The specialized opcode checks the types  *)
(* and, when they do not fit, restores the generic opcode and computes     *)
(* that result with an expression of its own.                              *)
(*                                                                         *)
(* The opcodes fall into four families that differ in what they specialize *)
(* to: ADD (int or float), SUB and MUL (int), LT LE GT GE (int), EQ (int). *)
(* spec_counters is allocated on first use with every entry at the         *)
(* threshold, so the model starts with it.                                 *)
(***************************************************************************)
EXTENDS Integers, FiniteSets

CONSTANTS
  Sites,      \* positions of specializable opcodes in a function's code
  Family,     \* the family of the opcode compiled at a site
  Operands,   \* values: [k |-> kind, n |-> number], n in halves
  Threshold,  \* SPEC_THRESHOLD, 16 in the code
  MaxStat     \* bound of the model on vm->stats.specializations

Kinds    == {"int", "float", "bool", "nil"}
Families == {"add", "sub", "less", "equal"}
Values   == [k : Kinds, n : Int]

ASSUME SaiAssumption ==
  /\ IsFiniteSet(Sites)
  /\ Family \in [Sites -> Families]
  /\ Operands \subseteq Values
  /\ Threshold \in Nat \ {0}
  /\ MaxStat \in Nat

VARIABLES
  code,      \* code[s]: "generic", or the operand type it is specialized to
  counters,  \* fn->spec_counters
  stats,     \* vm->stats: [spec, despec]
  runs,      \* generic executions of s since it was last generic (history)
  last       \* the last instruction: site, opcode, operands, result (history)

vars == <<code, counters, stats, runs, last>>

Ops == {"generic", "int", "float"}

(***************************************************************************)
(* What an opcode computes.                                                *)
(***************************************************************************)
Nil     == [k |-> "nil", n |-> 0]
Bool(b) == [k |-> "bool", n |-> IF b THEN 2 ELSE 0]

IsNumber(v)    == v.k \in {"int", "float"}
Both(k, a, b)  == a.k = k /\ b.k = k
Mixed(a, b)    == IsNumber(a) /\ IsNumber(b) /\ a.k # b.k

\* The result on two numbers, of kind k when it is a number.
Compute(f, k, a, b) ==
  CASE f = "add"   -> [k |-> k, n |-> a.n + b.n]
    [] f = "sub"   -> [k |-> k, n |-> a.n - b.n]
    [] f = "less"  -> Bool(a.n < b.n)
    [] f = "equal" -> Bool(a = b)

\* arith_add, arith_sub, arith_mul, the comparisons and val_equal: an int meets
\* a float as a float, anything else is a type error.
Generic(f, a, b) ==
  IF IsNumber(a) /\ IsNumber(b)
  THEN Compute(f, IF Both("int", a, b) THEN "int" ELSE "float", a, b)
  ELSE CASE f \in {"add", "sub"} -> Nil
         [] f = "less"  -> Bool(FALSE)
         [] f = "equal" -> Bool(a = b)

\* Mutant: arithmetic falls back the way the comparisons do.
FallbackNoMixed(f, a, b) ==
  IF f # "equal" /\ ~Both("float", a, b)
  THEN IF f = "less" THEN Bool(FALSE) ELSE Nil
  ELSE Generic(f, a, b)

\* What a specialized opcode pushes when its guard fails: the comparisons know
\* only two floats.
Fallback(f, a, b) ==
  IF f = "less" /\ ~Both("float", a, b) THEN Bool(FALSE) ELSE Generic(f, a, b)

\* What a site specializes to on operands a and b.
Target(f, a, b) ==
  IF Both("int", a, b) THEN "int"
  ELSE IF f = "add" /\ Both("float", a, b) THEN "float"
  ELSE "generic"

(***************************************************************************)
(* Execution.                                                              *)
(***************************************************************************)
Init ==
  /\ code     = [s \in Sites |-> "generic"]
  /\ counters = [s \in Sites |-> Threshold]
  /\ stats    = [spec |-> 0, despec |-> 0]
  /\ runs     = [s \in Sites |-> 0]
  /\ last     = [f |-> "equal", op |-> "generic", a |-> Nil, b |-> Nil,
                 out |-> Bool(TRUE)]

Record(s, a, b, out) ==
  last' = [f |-> Family[s], op |-> code[s], a |-> a, b |-> b, out |-> out]

\* SAI_COUNTDOWN.
Countdown(s) == IF counters[s] > 0 THEN counters[s] - 1 ELSE 0

\* A generic opcode: count down, specialize if it is time, compute.
ExecGeneric(s, a, b) ==
  LET op == IF Countdown(s) = 0 THEN Target(Family[s], a, b) ELSE "generic"
  IN  /\ code[s] = "generic"
      /\ counters' = [counters EXCEPT ![s] = Countdown(s)]
      /\ code'     = [code EXCEPT ![s] = op]
      /\ op # "generic" => stats.spec < MaxStat
      /\ stats'    = IF op = "generic" THEN stats ELSE [stats EXCEPT !.spec = @ + 1]
      /\ runs'     = [runs EXCEPT ![s] = IF @ < Threshold THEN @ + 1 ELSE @]
      /\ Record(s, a, b, Generic(Family[s], a, b))

\* A specialized opcode whose guard holds.
ExecFast(s, a, b) ==
  /\ code[s] # "generic"
  /\ Both(code[s], a, b)
  /\ Record(s, a, b, Compute(Family[s], code[s], a, b))
  /\ UNCHANGED <<code, counters, stats, runs>>

\* Mutant: the opcode is restored, its counter is not.
GuardFailNoReset(s, a, b) ==
  /\ code[s] # "generic"
  /\ ~Both(code[s], a, b)
  /\ code'  = [code EXCEPT ![s] = "generic"]
  /\ stats' = [stats EXCEPT !.despec = @ + 1]
  /\ runs'  = [runs EXCEPT ![s] = 0]
  /\ Record(s, a, b, Fallback(Family[s], a, b))
  /\ UNCHANGED counters

\* A specialized opcode whose guard fails: SAI_GUARD_FAIL.
GuardFail(s, a, b) ==
  /\ code[s] # "generic"
  /\ ~Both(code[s], a, b)
  /\ code'     = [code EXCEPT ![s] = "generic"]
  /\ counters' = [counters EXCEPT ![s] = Threshold]
  /\ stats'    = [stats EXCEPT !.despec = @ + 1]
  /\ runs'     = [runs EXCEPT ![s] = 0]
  /\ Record(s, a, b, Fallback(Family[s], a, b))

Exec(s, a, b) == ExecGeneric(s, a, b) \/ ExecFast(s, a, b) \/ GuardFail(s, a, b)

Next == \E s \in Sites, a, b \in Operands : Exec(s, a, b)

Spec == Init /\ [][Next]_vars

(***************************************************************************)
(* Properties.                                                             *)
(***************************************************************************)
TypeOK ==
  /\ code     \in [Sites -> Ops]
  /\ counters \in [Sites -> 0..Threshold]
  /\ stats    \in [spec : Nat, despec : Nat]
  /\ runs     \in [Sites -> 0..Threshold]
  /\ last     \in [f : Families, op : Ops, a : Values, b : Values, out : Values]

\* Specialization must not be visible: an instruction pushes what its generic
\* opcode would push, whatever the code has turned into.
Transparent == last.out = Generic(last.f, last.a, last.b)

\* The one case in which it is visible: the guard of a specialized comparison
\* fails on an int and a float.
KnownMiss ==
  last.f = "less" /\ last.op # "generic" /\ Mixed(last.a, last.b)

TransparentElsewhere == Transparent \/ KnownMiss

\* A site does not flip back and forth: it is specialized only after Threshold
\* generic executions since it last was generic, however its operands vary.
Hysteresis ==
  \A s \in Sites :
    /\ code[s] # "generic" => runs[s] = Threshold
    /\ counters[s] = Threshold - runs[s]

\* The statistics add up: every specialization is undone at most once, and the
\* sites specialized now are those not undone.
StatsBalance ==
  stats.spec - stats.despec = Cardinality({s \in Sites : code[s] # "generic"})
=============================================================================
