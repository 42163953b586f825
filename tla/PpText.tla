------------------------------- MODULE PpText -------------------------------
(* Macro expansion and the evaluator of #if as the preprocessor computes      *)
(* them (preprocessor.c: collect_args, subst_params, expand_text, the eval_   *)
(* functions and pp_eval_if).  Text is a sequence of tokens, a token is the   *)
(* sequence of the atoms it is spelled with: the name A is <<"A">>, what ##   *)
(* makes of A and B is <<"A", "B">>, the string #A is <<"\"", "A", "\"">>.    *)
(* A number may go on with a name: 1B is <<"1", "B">>.  White space, comments *)
(* and literals are left out; without white space it cannot be seen that what *)
(* replaces a macro may join the text beside it, as -A does with A = -1.      *)
(*                                                                            *)
(* A macro table maps the defined names to definitions                        *)
(*   [fn, params, variadic, body].                                            *)
EXTENDS Integers, SequencesExt

Digits == <<"0", "1", "2", "3", "4", "5", "6", "7", "8", "9">>
Punctuation == {"(", ")", ",", "#", "##", "!", "-", "~", "*", "/", "%", "+", "<<", ">>", "<",
                "<=", ">", ">=", "==", "!=", "&", "^", "|", "&&", "||", "?", ":"}

IsNumber(t) == t[1] \in ToSet(Digits)
IsName(t) == t[1] \notin ToSet(Digits) \cup Punctuation \cup {"\""}
IsWord(t) == IsNumber(t) \/ IsName(t)

(* The digits a token begins with, and what is left of it: the scanners take  *)
(* a name to begin at any letter, one inside a number included.               *)
Stem(t) == LET k == SelectInSeq(t, LAMBDA c : c \notin ToSet(Digits))
           IN IF k = 0 THEN t ELSE SubSeq(t, 1, k - 1)
Suffix(t) == SubSeq(t, Len(Stem(t)) + 1, Len(t))

(* The token at the head of a text, or an empty one at its end. *)
HeadOf(ts) == IF ts = <<>> THEN <<"">> ELSE Head(ts)
TailOf(ts) == IF ts = <<>> THEN <<>> ELSE Tail(ts)
(* The text after t, where t is optional. *)
Match(t, ts) == IF HeadOf(ts) = t THEN Tail(ts) ELSE ts

-----------------------------------------------------------------------------
(* collect_args: the arguments of a call, from the text after its "(".  A     *)
(* list left open takes the rest of the line and loses its last argument.     *)

RECURSIVE CollectFrom(_, _, _, _), CollectFlat(_, _, _, _)

(* Mutant of CollectFrom: parentheses in an argument do not count. *)
CollectFlat(ts, depth, arg, args) ==
  IF ts = <<>> THEN [args |-> args, rest |-> <<>>]
  ELSE CASE ts[1] = <<")">> -> [args |-> Append(args, arg), rest |-> Tail(ts)]
         [] ts[1] = <<",">> -> CollectFlat(Tail(ts), 0, <<>>, Append(args, arg))
         [] OTHER -> CollectFlat(Tail(ts), depth, Append(arg, ts[1]), args)

CollectFrom(ts, depth, arg, args) ==
  IF ts = <<>> THEN [args |-> args, rest |-> <<>>]
  ELSE CASE ts[1] = <<")">> /\ depth = 0 ->
              [args |-> Append(args, arg), rest |-> Tail(ts)]
         [] ts[1] = <<",">> /\ depth = 0 ->
              CollectFrom(Tail(ts), 0, <<>>, Append(args, arg))
         [] OTHER ->
              CollectFrom(Tail(ts),
                          depth + (CASE ts[1] = <<"(">> -> 1
                                     [] ts[1] = <<")">> -> -1
                                     [] OTHER -> 0),
                          Append(arg, ts[1]), args)

CollectArgs(ts) == IF HeadOf(ts) = <<")">> THEN [args |-> <<>>, rest |-> Tail(ts)]
                   ELSE CollectFrom(ts, 0, <<>>, <<>>)

(* subst_params.  ## only removes itself and the blanks before and after it,  *)
(* so whatever text comes next abuts whatever came before ("glue").           *)

Stringified(arg) == <<"\"">> \o FlattenSeq(arg) \o <<"\"">>

Abut(out, ts) == IF out = <<>> \/ ts = <<>> THEN out \o ts
                 ELSE IF IsWord(Last(out)) /\ IsWord(ts[1])
                 THEN Front(out) \o <<Last(out) \o ts[1]>> \o Tail(ts)
                 ELSE out \o ts

(* What comes behind the digits of a number. *)
Behind(stem, ts) == IF stem = <<>> THEN ts ELSE Abut(<<stem>>, ts)

(* What one name of the body becomes: __VA_ARGS__, the argument of a          *)
(* parameter, or the name itself - a parameter without an argument included.  *)
Replacement(name, d, args) ==
  LET i == SelectInSeq(d.params, LAMBDA p : p = name)
  IN CASE d.variadic /\ name = <<"__VA_ARGS__">> ->
            FlattenSeq([k \in 1..(Len(args) - Len(d.params)) |->
                          (IF k > 1 THEN <<<<",">>>> ELSE <<>>) \o args[Len(d.params) + k]])
       [] i \in 1..Len(args) -> args[i]
       [] OTHER -> <<name>>

StringOf(name, d, args) ==
  LET i == SelectInSeq(d.params, LAMBDA p : p = name)
  IN CASE i \in 1..Len(args) -> <<Stringified(args[i])>>
       [] d.variadic /\ name = <<"__VA_ARGS__">> -> <<Stringified(<<>>)>>
       [] OTHER -> <<<<"#">>, name>>

RECURSIVE SubstFrom(_, _, _, _, _)
SubstFrom(body, d, args, out, glue) ==
  LET put(ts) == IF glue THEN Abut(out, ts) ELSE out \o ts
      name == Suffix(body[1])
  IN CASE body = <<>> -> out
       [] HeadOf(body) = <<"##">> -> SubstFrom(Tail(body), d, args, out, TRUE)
       [] HeadOf(body) = <<"#">> ->
            SubstFrom(TailOf(Tail(body)), d, args, put(StringOf(HeadOf(Tail(body)), d, args)), FALSE)
       [] OTHER ->
            SubstFrom(Tail(body), d, args,
                      put(IF name # <<>> /\ IsName(name)
                          THEN Behind(Stem(body[1]), Replacement(name, d, args))
                          ELSE <<body[1]>>),
                      FALSE)

Subst(d, args) == SubstFrom(d.body, d, args, <<>>, FALSE)

(* expand_text: left to right; what replaces a macro is scanned by itself,    *)
(* with that macro's name hidden, and never together with the text after it.  *)
RECURSIVE ExpandText(_, _, _)
ExpandText(ts, macros, hide) ==
  LET name == Suffix(Head(ts))
      put(expanded) == Behind(Stem(Head(ts)), expanded)
      after == Tail(ts)
  IN CASE ts = <<>> -> <<>>
       [] ts # <<>> /\ (name \notin DOMAIN macros \/ name \in hide) ->
            <<Head(ts)>> \o ExpandText(after, macros, hide)
       [] ts # <<>> /\ name \in DOMAIN macros \ hide ->
            LET d == macros[name]
                call == CollectArgs(Tail(after))
            IN CASE ~d.fn -> put(ExpandText(d.body, macros, hide \cup {name}))
                               \o ExpandText(after, macros, hide)
                 [] d.fn /\ HeadOf(after) # <<"(">> ->
                      <<Head(ts)>> \o ExpandText(after, macros, hide)
                 [] d.fn /\ HeadOf(after) = <<"(">> ->
                      put(ExpandText(Subst(d, call.args), macros, hide \cup {name}))
                        \o ExpandText(call.rest, macros, hide)

ExpandLine(ts, macros) == ExpandText(ts, macros, {})

-----------------------------------------------------------------------------
(* The evaluator of #if: recursive descent over the expanded text.  A result  *)
(* is the value and the text that is left; what is left at the end is ignored *)

NumberOf(t) == FoldLeft(LAMBDA v, c : 10 * v + SelectInSeq(Digits, LAMBDA x : x = c) - 1, 0, t)

Truth(b) == IF b THEN 1 ELSE 0
Magnitude(n) == IF n < 0 THEN -n ELSE n
Quotient(a, b) == LET q == Magnitude(a) \div Magnitude(b)
                  IN IF (a < 0) = (b < 0) THEN q ELSE -q
(* The operators on bits, for operands of either sign (~v is -v - 1). *)
RECURSIVE Bits(_, _, _)
Bits(op(_, _), a, b) ==
  IF a \in {0, -1} /\ b \in {0, -1} THEN -op(-a, -b)
  ELSE 2 * Bits(op, a \div 2, b \div 2) + op(a % 2, b % 2)
BothBits(x, y) == x * y
EitherBit(x, y) == x + y - x * y
OneBit(x, y) == (x + y) % 2

Apply(op, a, b) ==
  CASE op = "*" -> a * b
    [] op = "/" -> IF b = 0 THEN 0 ELSE Quotient(a, b)
    [] op = "%" -> IF b = 0 THEN 0 ELSE a - b * Quotient(a, b)
    [] op = "+" -> a + b
    [] op = "-" -> a - b
    [] op = "<<" -> a * 2 ^ (b % 64)      \* the count as x86-64 takes it
    [] op = ">>" -> IF b % 64 > 30 THEN (IF a < 0 THEN -1 ELSE 0) ELSE a \div 2 ^ (b % 64)
    [] op = "<" -> Truth(a < b)
    [] op = "<=" -> Truth(a <= b)
    [] op = ">" -> Truth(a > b)
    [] op = ">=" -> Truth(a >= b)
    [] op = "==" -> Truth(a = b)
    [] op = "!=" -> Truth(a # b)
    [] op = "&" -> Bits(BothBits, a, b)
    [] op = "^" -> Bits(OneBit, a, b)
    [] op = "|" -> Bits(EitherBit, a, b)
    [] op = "&&" -> Truth(a # 0 /\ b # 0)
    [] op = "||" -> Truth(a # 0 \/ b # 0)

(* Mutant of Levels: & binds tighter than ==. *)
LevelsSwapped == <<{"||"}, {"&&"}, {"|"}, {"^"}, {"==", "!="}, {"&"}, {"<", "<=", ">", ">="},
                   {"<<", ">>"}, {"+", "-"}, {"*", "/", "%"}>>

(* eval_or down to eval_mul: one level of binary operators each. *)
Levels == <<{"||"}, {"&&"}, {"|"}, {"^"}, {"&"}, {"==", "!="}, {"<", "<=", ">", ">="},
            {"<<", ">>"}, {"+", "-"}, {"*", "/", "%"}>>

(* Eval reads an operand of level k: level 0 is ?:, the levels beyond the     *)
(* binary operators are the primary expressions.                              *)
RECURSIVE Eval(_, _, _), EvalRest(_, _, _)

(* eval_ternary and eval_expr. *)
EvalTernary(ts, macros) ==
  LET c == Eval(1, ts, macros)
      t == Eval(0, Tail(c.rest), macros)
      f == Eval(0, Match(<<":">>, t.rest), macros)
  IN IF HeadOf(c.rest) = <<"?">>
     THEN [v |-> IF c.v # 0 THEN t.v ELSE f.v, rest |-> f.rest]
     ELSE c

(* The loop of a level: as long as one of its operators follows. *)
EvalRest(k, left, macros) ==
  LET op == HeadOf(left.rest)[1]
      right == Eval(k + 1, Tail(left.rest), macros)
  IN IF op \in Levels[k]
     THEN EvalRest(k, [v |-> Apply(op, left.v, right.v), rest |-> right.rest], macros)
     ELSE left

(* eval_defined: the text has been expanded before, the operand of defined    *)
(* with it.                                                                   *)
EvalDefined(ts, macros) ==
  LET paren == HeadOf(ts) = <<"(">>
      from == IF paren THEN Tail(ts) ELSE ts
      read == IsName(HeadOf(from)) \/ IsNumber(HeadOf(from))
      name == IF read THEN HeadOf(from) ELSE <<"">>
      left == IF read THEN TailOf(from) ELSE from
  IN [v |-> Truth(name \in DOMAIN macros),
      rest |-> IF paren THEN Match(<<")">>, left) ELSE left]

Negated(op, v) == CASE op = "!" -> Truth(v = 0) [] op = "-" -> -v [] op = "~" -> -v - 1

EvalPrimary(ts, macros) ==
  LET t == HeadOf(ts)
      inner == Eval(0, Tail(ts), macros)
      operand == Eval(Len(Levels) + 1, Tail(ts), macros)
      body == IF t \in DOMAIN macros THEN macros[t].body ELSE <<>>
  IN CASE t = <<"(">> -> [inner EXCEPT !.rest = Match(<<")">>, @)]
       [] t[1] \in {"!", "-", "~"} -> [operand EXCEPT !.v = Negated(t[1], @)]
       [] t = <<"defined">> -> EvalDefined(Tail(ts), macros)
       [] IsNumber(t) ->
            [v |-> NumberOf(Stem(t)),
             rest |-> (IF Suffix(t) = <<>> THEN <<>> ELSE <<Suffix(t)>>) \o Tail(ts)]
       [] ts # <<>> /\ IsName(t) /\ t # <<"defined">> ->
            [v |-> IF body # <<>> /\ IsNumber(HeadOf(body)) THEN NumberOf(Stem(body[1])) ELSE 0,
             rest |-> Tail(ts)]
       [] OTHER -> [v |-> 0, rest |-> ts]

Eval(k, ts, macros) ==
  CASE k = 0 -> EvalTernary(ts, macros)
    [] k \in DOMAIN Levels -> EvalRest(k, Eval(k + 1, ts, macros), macros)
    [] OTHER -> EvalPrimary(ts, macros)

(* pp_eval_if. *)
EvalCondition(ts, macros) == Eval(0, ExpandLine(ts, macros), macros).v

=============================================================================
