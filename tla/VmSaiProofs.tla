----------------------------- MODULE VmSaiProofs -----------------------------
(***************************************************************************)
(* Proofs about the specializing interpreter, for any set of sites, any    *)
(* operands and any threshold.                                             *)
(***************************************************************************)
EXTENDS VmSai, FiniteSetTheorems, TLAPS

\* Every operator that computes a result returns a value.
LEMMA ComputeType ==
  ASSUME NEW f \in Families, NEW k \in {"int", "float"}, NEW a \in Values, NEW b \in Values
  PROVE  Compute(f, k, a, b) \in Values
<1>1. a.n \in Int /\ b.n \in Int
  BY DEF Values
<1>2. CASE f = "add"
  BY <1>1, <1>2 DEF Compute, Values, Kinds
<1>3. CASE f = "sub"
  BY <1>1, <1>3 DEF Compute, Values, Kinds
<1>4. CASE f = "less"
  BY <1>4 DEF Compute, Bool, Values, Kinds
<1>5. CASE f = "equal"
  BY <1>5 DEF Compute, Bool, Values, Kinds
<1>6. QED
  BY <1>2, <1>3, <1>4, <1>5 DEF Families

LEMMA GenericType ==
  ASSUME NEW f \in Families, NEW a \in Values, NEW b \in Values
  PROVE  Generic(f, a, b) \in Values /\ Fallback(f, a, b) \in Values
<1>1. Generic(f, a, b) \in Values
  <2>1. CASE IsNumber(a) /\ IsNumber(b)
    BY <2>1, ComputeType DEF Generic
  <2>2. CASE ~(IsNumber(a) /\ IsNumber(b))
    BY <2>2 DEF Generic, Nil, Bool, Values, Kinds, Families
  <2>3. QED
    BY <2>1, <2>2
<1>2. QED
  BY <1>1 DEF Fallback, Bool, Values, Kinds

\* A specialized opcode whose guard holds computes what the generic one would.
LEMMA FastIsGeneric ==
  ASSUME NEW f \in Families, NEW k \in {"int", "float"},
         NEW a \in Values, NEW b \in Values, Both(k, a, b)
  PROVE  Compute(f, k, a, b) = Generic(f, a, b)
  BY DEF Both, Generic, IsNumber

\* So does one whose guard fails, but for a comparison of an int with a float.
LEMMA FallbackIsGeneric ==
  ASSUME NEW f \in Families, NEW a \in Values, NEW b \in Values,
         NEW k \in {"int", "float"}, ~Both(k, a, b), f = "less" => k = "int"
  PROVE  Fallback(f, a, b) = Generic(f, a, b) \/ (f = "less" /\ Mixed(a, b))
<1>1. CASE f # "less" \/ Both("float", a, b)
  BY <1>1 DEF Fallback
<1>2. CASE f = "less" /\ ~Both("float", a, b) /\ ~(IsNumber(a) /\ IsNumber(b))
  BY <1>2 DEF Fallback, Generic
<1>3. CASE f = "less" /\ ~Both("float", a, b) /\ IsNumber(a) /\ IsNumber(b)
  BY <1>3 DEF Mixed, IsNumber, Both
<1>4. QED
  BY <1>1, <1>2, <1>3

-----------------------------------------------------------------------------
\* Only ADD has an opcode for floats.
FloatOnlyAdd == \A s \in Sites : code[s] = "float" => Family[s] = "add"

IInv ==
  /\ TypeOK
  /\ FloatOnlyAdd
  /\ TransparentElsewhere
  /\ Hysteresis
  /\ StatsBalance

LEMMA InitIInv == Init => IInv
<1> SUFFICES ASSUME Init PROVE IInv
  OBVIOUS
<1> USE SaiAssumption
<1>1. TypeOK
  BY DEF Init, TypeOK, Ops, Families, Values, Kinds, Nil, Bool
<1>2. FloatOnlyAdd /\ Hysteresis
  BY DEF Init, FloatOnlyAdd, Hysteresis
<1>3. TransparentElsewhere
  BY DEF Init, TransparentElsewhere, Transparent, Generic, IsNumber, Nil
<1>4. StatsBalance
  <2>1. {s \in Sites : code[s] # "generic"} = {}
    BY DEF Init
  <2>2. QED
    BY <2>1, FS_EmptySet DEF Init, StatsBalance
<1>5. QED
  BY <1>1, <1>2, <1>3, <1>4 DEF IInv

\* Counting the specialized sites.
LEMMA OneMore ==
  ASSUME NEW c \in [Sites -> Ops], NEW s \in Sites, NEW op \in Ops
  PROVE  LET before == {t \in Sites : c[t] # "generic"}
             after  == {t \in Sites : [c EXCEPT ![s] = op][t] # "generic"}
         IN  /\ Cardinality(before) \in Nat
             /\ c[s] = "generic" /\ op # "generic"
                  => Cardinality(after) = Cardinality(before) + 1
             /\ c[s] # "generic" /\ op = "generic"
                  => Cardinality(after) = Cardinality(before) - 1
             /\ c[s] = "generic" /\ op = "generic" => after = before
<1> DEFINE before == {t \in Sites : c[t] # "generic"}
           after  == {t \in Sites : [c EXCEPT ![s] = op][t] # "generic"}
<1>1. IsFiniteSet(before) /\ Cardinality(before) \in Nat
  <2>1. IsFiniteSet(before)
    BY SaiAssumption, FS_Subset
  <2>2. QED
    BY <2>1, FS_CardinalityType
<1>2. ASSUME c[s] = "generic", op # "generic"
      PROVE  Cardinality(after) = Cardinality(before) + 1
  <2>1. after = before \cup {s} /\ s \notin before
    BY <1>2
  <2>2. QED
    BY <1>1, <2>1, FS_AddElement
<1>3. ASSUME c[s] # "generic", op = "generic"
      PROVE  Cardinality(after) = Cardinality(before) - 1
  <2>1. after = before \ {s} /\ s \in before
    BY <1>3
  <2>2. QED
    BY <1>1, <2>1, FS_RemoveElement, SMTT(30)
<1>4. ASSUME c[s] = "generic", op = "generic" PROVE after = before
  BY <1>4
<1>5. QED
  BY <1>1, <1>2, <1>3, <1>4

LEMMA ExecGenericIInv ==
  ASSUME IInv, NEW s \in Sites, NEW a \in Operands, NEW b \in Operands,
         ExecGeneric(s, a, b)
  PROVE  IInv'
<1> USE SaiAssumption DEF IInv
<1> DEFINE op == IF Countdown(s) = 0 THEN Target(Family[s], a, b) ELSE "generic"
<1>1. op \in Ops /\ Countdown(s) \in 0..Threshold /\ Family[s] \in Families
      /\ a \in Values /\ b \in Values
  BY DEF TypeOK, Target, Ops, Countdown
<1>2. TypeOK'
  <2>1. last' \in [f : Families, op : Ops, a : Values, b : Values, out : Values]
    BY <1>1, GenericType DEF ExecGeneric, Record, TypeOK
  <2>2. code' \in [Sites -> Ops] /\ counters' \in [Sites -> 0..Threshold]
    BY <1>1 DEF ExecGeneric, TypeOK
  <2>3. stats' \in [spec : Nat, despec : Nat]
    BY DEF ExecGeneric, TypeOK
  <2>4. runs' \in [Sites -> 0..Threshold]
    BY DEF ExecGeneric, TypeOK
  <2>5. QED
    BY <2>1, <2>2, <2>3, <2>4 DEF TypeOK
<1>3. FloatOnlyAdd'
  BY DEF ExecGeneric, FloatOnlyAdd, TypeOK, Target
<1>4. TransparentElsewhere'
  BY DEF ExecGeneric, Record, TransparentElsewhere, Transparent
<1>5. Hysteresis'
  <2>1. ASSUME NEW t \in Sites, t # s
        PROVE  /\ code'[t] = code[t] /\ counters'[t] = counters[t]
               /\ runs'[t] = runs[t]
    BY <2>1 DEF ExecGeneric, TypeOK
  <2>2. counters'[s] = Countdown(s) /\ code'[s] = op
    BY DEF ExecGeneric, TypeOK
  <2>3. runs'[s] = IF runs[s] < Threshold THEN runs[s] + 1 ELSE runs[s]
    BY DEF ExecGeneric, TypeOK
  <2>4. counters[s] = Threshold - runs[s] /\ runs[s] \in 0..Threshold
    BY DEF Hysteresis, TypeOK
  <2>5. counters'[s] = Threshold - runs'[s]
    BY <2>2, <2>3, <2>4 DEF Countdown
  <2>6. code'[s] # "generic" => runs'[s] = Threshold
    BY <1>1, <2>2, <2>3, <2>4 DEF Countdown
  <2>7. QED
    BY <2>1, <2>5, <2>6 DEF Hysteresis
<1>6. StatsBalance'
  <2>1. code[s] = "generic" /\ code' = [code EXCEPT ![s] = op]
    BY DEF ExecGeneric
  <2>2. CASE op = "generic"
    <3>1. code' = code /\ stats' = stats
      BY <2>1, <2>2 DEF ExecGeneric, TypeOK
    <3>2. QED
      BY <3>1 DEF StatsBalance
  <2>3. CASE op # "generic"
    <3>1. stats'.spec = stats.spec + 1 /\ stats'.despec = stats.despec
      BY <2>3 DEF ExecGeneric, TypeOK
    <3>2. stats.spec \in Nat /\ stats.despec \in Nat
      BY DEF TypeOK
    <3>3. QED
      BY <1>1, <2>1, <2>3, <3>1, <3>2, OneMore DEF StatsBalance, TypeOK
  <2>4. QED
    BY <2>2, <2>3
<1>7. QED
  BY <1>2, <1>3, <1>4, <1>5, <1>6

LEMMA ExecFastIInv ==
  ASSUME IInv, NEW s \in Sites, NEW a \in Operands, NEW b \in Operands,
         ExecFast(s, a, b)
  PROVE  IInv'
<1> USE SaiAssumption DEF IInv
<1>1. code[s] \in {"int", "float"} /\ Family[s] \in Families
      /\ a \in Values /\ b \in Values
  BY DEF ExecFast, TypeOK, Ops
<1>2. last'.out = Generic(last'.f, last'.a, last'.b)
  BY <1>1, FastIsGeneric DEF ExecFast, Record
<1>3. TypeOK'
  BY <1>1, ComputeType DEF ExecFast, Record, TypeOK
<1>4. FloatOnlyAdd' /\ Hysteresis' /\ StatsBalance'
  BY DEF ExecFast, FloatOnlyAdd, Hysteresis, StatsBalance
<1>5. QED
  BY <1>2, <1>3, <1>4 DEF TransparentElsewhere, Transparent

LEMMA GuardFailIInv ==
  ASSUME IInv, NEW s \in Sites, NEW a \in Operands, NEW b \in Operands,
         GuardFail(s, a, b)
  PROVE  IInv'
<1> USE SaiAssumption DEF IInv
<1>1. code[s] \in {"int", "float"} /\ Family[s] \in Families
      /\ a \in Values /\ b \in Values
  BY DEF GuardFail, TypeOK, Ops
<1>2. TypeOK'
  <2>1. last' \in [f : Families, op : Ops, a : Values, b : Values, out : Values]
    BY <1>1, GenericType DEF GuardFail, Record, TypeOK
  <2>2. QED
    BY <2>1 DEF GuardFail, TypeOK, Ops
<1>3. TransparentElsewhere'
  <2>1. Family[s] = "less" => code[s] = "int"
    BY <1>1 DEF FloatOnlyAdd
  <2>2. \/ Fallback(Family[s], a, b) = Generic(Family[s], a, b)
        \/ Family[s] = "less" /\ Mixed(a, b)
    BY <1>1, <2>1, FallbackIsGeneric DEF GuardFail
  <2>3. QED
    BY <1>1, <2>2
    DEF GuardFail, Record, TransparentElsewhere, Transparent, KnownMiss
<1>4. FloatOnlyAdd' /\ Hysteresis'
  BY DEF GuardFail, FloatOnlyAdd, Hysteresis, TypeOK
<1>5. StatsBalance'
  <2>1. code[s] # "generic" /\ code' = [code EXCEPT ![s] = "generic"]
    BY DEF GuardFail
  <2>2. stats'.spec = stats.spec /\ stats'.despec = stats.despec + 1
    BY DEF GuardFail, TypeOK
  <2>3. stats.spec \in Nat /\ stats.despec \in Nat
    BY DEF TypeOK
  <2>4. QED
    BY <2>1, <2>2, <2>3, OneMore DEF StatsBalance, TypeOK, Ops
<1>6. QED
  BY <1>2, <1>3, <1>4, <1>5

\* The invariant holds in every reachable state.
THEOREM Invariance == Spec => []IInv
<1>1. Init => IInv
  BY InitIInv
<1>2. IInv /\ [Next]_vars => IInv'
  <2> SUFFICES ASSUME IInv, [Next]_vars PROVE IInv'
    OBVIOUS
  <2>1. ASSUME NEW s \in Sites, NEW a \in Operands, NEW b \in Operands, Exec(s, a, b)
        PROVE  IInv'
    BY <2>1, ExecGenericIInv, ExecFastIInv, GuardFailIInv DEF Exec
  <2>2. CASE UNCHANGED vars
    BY <2>2 DEF vars, IInv, TypeOK, FloatOnlyAdd, TransparentElsewhere, Transparent,
                KnownMiss, Hysteresis, StatsBalance
  <2>3. QED
    BY <2>1, <2>2 DEF Next
<1>3. QED
  BY <1>1, <1>2, PTL DEF Spec

\* Code, counters and the value pushed stay within their types.
THEOREM TypeCorrect == Spec => []TypeOK
<1>1. IInv => TypeOK
  BY DEF IInv
<1>2. QED
  BY <1>1, Invariance, PTL

\* Specialization never changes the result of an instruction, except when a
\* specialized comparison meets an int and a float.
THEOREM Transparency == Spec => []TransparentElsewhere
<1>1. IInv => TransparentElsewhere
  BY DEF IInv
<1>2. QED
  BY <1>1, Invariance, PTL

\* A site specializes only after Threshold generic executions in a row.
THEOREM NoThrashing == Spec => []Hysteresis
<1>1. IInv => Hysteresis
  BY DEF IInv
<1>2. QED
  BY <1>1, Invariance, PTL

\* vm->stats counts exactly the sites that are specialized.
THEOREM StatsExact == Spec => []StatsBalance
<1>1. IInv => StatsBalance
  BY DEF IInv
<1>2. QED
  BY <1>1, Invariance, PTL
=============================================================================
