----------------------------- MODULE MCPreproc -----------------------------
(* A bounded instance of Preproc over the expansion and the evaluator of      *)
(* PpText, and the comparison of these with C's meaning under every macro     *)
(* table the directives build.                                                *)
EXTENDS Preproc, CMacro

A == <<"A">>
B == <<"B">>
F == <<"F">>
x == <<"x">>
va == <<"__VA_ARGS__">>
one == <<"1">>
oneB == <<"1", "B">>
open == <<"(">>
close == <<")">>
comma == <<",">>

ObjectLike(body) == [fn |-> FALSE, params |-> <<>>, variadic |-> FALSE, body |-> body]
Function(body) == [fn |-> TRUE, params |-> <<x>>, variadic |-> FALSE, body |-> body]
Variadic(body) == [fn |-> TRUE, params |-> <<>>, variadic |-> TRUE, body |-> body]

MCDefinitions ==
  {<<A, ObjectLike(b)>> : b \in {<<one>>, <<B>>, <<F, open, B, close>>}} \cup
  {<<B, ObjectLike(<<A, B>>)>>} \cup
  {<<F, Function(b)>> : b \in {<<x, A, x>>, <<<<"#">>, x>>, <<x, <<"##">>, B>>}} \cup
  {<<F, Variadic(<<va, one>>)>>}

MCConditions == {Id(A), Def(B)}
MCNames == {A}
MCTexts == {<<A>>}
MCHeaders == {"h"}

ConditionOf(e, tab) == EvalCondition(Written(e), tab) # 0

-----------------------------------------------------------------------------
(* Lines of up to four tokens and some longer calls, conditions with two operators of any two   *)
(* levels in either grouping.                                                 *)
ProbeTexts ==
  UNION {[1..n -> {A, B, F, one, open, close, comma}] : n \in 1..4} \cup
  {<<F, open, open, one, comma, a, close, close, b>> : a \in {A, B, one}, b \in {A, comma}} \cup
  {<<F, open, F, open, one, close, close, a>> : a \in {A, B}} \cup
  {<<F, open, oneB, close, a>> : a \in {A, oneB}}

OneOfEachLevel == {"||", "&&", "|", "^", "&", "==", "<", ">>", "-", "/"}
Operands == {<<Num(7), Num(2), Id(A)>>, <<Id(B), Num(9), Num(2)>>, <<Num(0), Def(F), Num(3)>>}
ProbeConditions ==
  UNION {{Bin(p, Bin(q, o[1], o[2]), o[3]), Bin(p, o[1], Bin(q, o[2], o[3])),
          Bin(p, Un("-", o[1]), Un("~", Bin(q, o[2], o[3]))),
          Sel(Bin(p, o[1], o[2]), o[3], Sel(o[1], Bin(q, o[2], o[3]), Un("!", o[3])))}
         : p \in OneOfEachLevel, q \in OneOfEachLevel, o \in Operands}

OnlyDefinitions == Len(readers) = 1 /\ cond = <<>> /\ flat = <<>> /\ text["h"] = <<>> /\ legal

(* Expansion ends and gives C's replacement, for every tame text: nested and  *)
(* mutually recursive names, names left alone because they are being          *)
(* replaced, calls, their argument lists, strings and pastes (expand_text,    *)
(* collect_args, subst_params).                                               *)
TextAsC == OnlyDefinitions =>
  \A t \in ProbeTexts : TameText(t, macros) => ExpandLine(t, macros) = CText(t, macros)

(* The evaluator of #if gives a condition the value C's grammar gives it:     *)
(* precedence, grouping to the left, the operands of ?: and of defined (the   *)
(* eval_ functions).                                                          *)
ConditionsAsC == OnlyDefinitions =>
  \A e \in ProbeConditions :
    TameCondition(e, macros) => EvalCondition(Written(e), macros) = CValue(e, macros)

=============================================================================
