------------------------------- MODULE CMacro -------------------------------
(* What the C standard makes of a text and of a condition under a macro       *)
(* table: the reference PpText is compared with.                              *)
(*                                                                            *)
(* Replacement follows the algorithm the standard's authors gave with it:     *)
(* every token carries the set of the macros it came from, an argument is     *)
(* replaced completely before it is put in for a parameter (except next to #  *)
(* or ##), and what replaces a macro is scanned again together with the text  *)
(* that follows.                                                              *)
EXTENDS PpText

Marked(ts, hs) == [i \in 1..Len(ts) |-> [tok |-> ts[i], hs |-> hs]]
Unmarked(mts) == [i \in 1..Len(mts) |-> mts[i].tok]
TokAt(mts, i) == IF i \in 1..Len(mts) THEN mts[i].tok ELSE <<"">>

(* The nesting depth just before position i of a text that follows a "(". *)
DepthAt(mts, i) == LET opened == Cardinality({j \in 1..(i - 1) : mts[j].tok = <<"(">>})
                       closed == Cardinality({j \in 1..(i - 1) : mts[j].tok = <<")">>})
                   IN opened - closed

(* The position of the ")" that ends an argument list, 0 when it is open. *)
CloseOf(mts) == SelectInSeq([i \in 1..Len(mts) |-> mts[i].tok = <<")">> /\ DepthAt(mts, i) = 0],
                            LAMBDA b : b)

(* The arguments between the parentheses: one at least, unless the macro has  *)
(* no parameter.                                                              *)
Actuals(mts, close, d) ==
  LET commas == {i \in 1..(close - 1) : mts[i].tok = <<",">> /\ DepthAt(mts, i) = 0}
      cuts == SetToSortSeq({0, close} \cup commas, LAMBDA x, y : x < y)
  IN IF close = 1 /\ d.params = <<>> THEN <<>>
     ELSE [k \in 1..(Len(cuts) - 1) |-> SubSeq(mts, cuts[k] + 1, cuts[k + 1] - 1)]

RECURSIVE CScan(_, _), CPutIn(_, _, _, _)

(* The marked text a parameter (or __VA_ARGS__) stands for, unexpanded. *)
ActualOf(name, d, args) ==
  LET i == SelectInSeq(d.params, LAMBDA p : p = name)
  IN IF i # 0 THEN args[i]
     ELSE FlattenSeq([k \in 1..(Len(args) - Len(d.params)) |->
                        (IF k > 1 THEN Marked(<<<<",">>>>, {}) ELSE <<>>) \o args[Len(d.params) + k]])

IsParam(t, d) == t \in ToSet(d.params) \/ (d.variadic /\ t = <<"__VA_ARGS__">>)

(* The body with the arguments put in.  The operands of ## are pasted, an     *)
(* empty one leaves the other as it is.                                       *)
CPaste(a, b) == IF a = <<>> \/ b = <<>> THEN a \o b
                ELSE Front(a) \o <<[tok |-> Last(a).tok \o b[1].tok, hs |-> {}]>> \o Tail(b)

COperand(body, d, args) ==   \* of # or ##: the length read and the text
  IF body[1] = <<"#">>
  THEN [n |-> 2, ts |-> Marked(<<Stringified(Unmarked(ActualOf(body[2], d, args)))>>, {})]
  ELSE [n |-> 1, ts |-> IF IsParam(body[1], d) THEN ActualOf(body[1], d, args)
                        ELSE Marked(<<body[1]>>, {})]

CPutIn(body, d, args, macros) ==
  LET first == COperand(body, d, args)
      more == SubSeq(body, first.n + 1, Len(body))
      pasted[k \in 1..Len(body)] ==   \* the chain of operands of ## from the k-th token on
        LET o == COperand(SubSeq(body, k, Len(body)), d, args)
        IN IF k + o.n + 1 <= Len(body) /\ body[k + o.n] = <<"##">>
           THEN LET next == pasted[k + o.n + 1]
                IN [ts |-> CPaste(o.ts, next.ts), end |-> next.end]
           ELSE [ts |-> o.ts, end |-> k + o.n]
  IN CASE body = <<>> -> <<>>
       [] body # <<>> /\ HeadOf(more) = <<"##">> ->
            pasted[1].ts \o CPutIn(SubSeq(body, pasted[1].end, Len(body)), d, args, macros)
       [] body # <<>> /\ HeadOf(more) # <<"##">> ->
            (IF first.n = 1 /\ IsParam(body[1], d) THEN CScan(first.ts, macros) ELSE first.ts)
              \o CPutIn(more, d, args, macros)

CScan(mts, macros) ==
  LET name == Head(mts).tok
      hs == Head(mts).hs
      d == macros[name]
      after == SubSeq(mts, 3, Len(mts))
      close == CloseOf(after)
      hidden(ts, h) == [i \in 1..Len(ts) |-> [ts[i] EXCEPT !.hs = @ \cup h]]
  IN CASE mts = <<>> -> <<>>
       [] mts # <<>> /\ (name \notin DOMAIN macros \/ name \in hs) ->
            <<Head(mts)>> \o CScan(Tail(mts), macros)
       [] mts # <<>> /\ name \in DOMAIN macros \ hs ->
            CASE ~d.fn -> CScan(Marked(d.body, hs \cup {name}) \o Tail(mts), macros)
              [] d.fn /\ (TokAt(mts, 2) # <<"(">> \/ close = 0) ->
                   <<Head(mts)>> \o CScan(Tail(mts), macros)
              [] d.fn /\ TokAt(mts, 2) = <<"(">> /\ close # 0 ->
                   CScan(hidden(CPutIn(d.body, d, Actuals(after, close, d), macros),
                                (hs \cap after[close].hs) \cup {name})
                           \o SubSeq(after, close + 1, Len(after)), macros)

CText(ts, macros) == Unmarked(CScan(Marked(ts, {}), macros))

(* Texts the comparison is made for.  In the text and in every definition a   *)
(* function-like name is called, with as many arguments as parameters, none   *)
(* empty; the arguments name no macro when the called definition pastes,      *)
(* makes a string or calls another, and none that leads back to the called    *)
(* one otherwise.  (C replaces arguments before it puts them in; expand_text  *)
(* puts them in first and hides the called name from them.)  Only words are   *)
(* pasted, and no number, pasted or not, goes on with a macro's name, which C *)
(* leaves alone.                                                              *)
Mentions(ts, macros) == ToSet(ts) \cap DOMAIN macros
FunctionLike(macros) == {n \in DOMAIN macros : macros[n].fn}

NumbersPlain(ts, macros) ==
  \A i \in DOMAIN ts : IsNumber(ts[i]) => Suffix(ts[i]) \notin DOMAIN macros

RECURSIVE Reach(_, _)
Reach(ns, macros) == LET more == ns \cup UNION {Mentions(macros[n].body, macros) : n \in ns}
                     IN IF more = ns THEN ns ELSE Reach(more, macros)

TameCall(ts, i, macros) ==
  LET d == macros[ts[i]]
      after == Marked(SubSeq(ts, i + 2, Len(ts)), {})
      close == CloseOf(after)
      args == Actuals(after, close, d)
      texts == [k \in DOMAIN args |-> Unmarked(args[k])]
      mentioned == UNION {Mentions(texts[k], macros) : k \in DOMAIN args}
      busy == ToSet(d.body) \cap ({<<"#">>, <<"##">>} \cup FunctionLike(macros)) # {}
  IN /\ HeadOf(SubSeq(ts, i + 1, Len(ts))) = <<"(">> /\ close # 0
     /\ IF d.variadic THEN Len(args) > Len(d.params) ELSE Len(args) = Len(d.params)
     /\ <<>> \notin ToSet(args)
     /\ <<"##">> \in ToSet(d.body) => \A k \in DOMAIN texts : IsWord(texts[k][1]) /\ IsWord(Last(texts[k]))
     /\ NumbersPlain(Subst(d, texts), macros)
     /\ IF busy THEN mentioned = {} ELSE ts[i] \notin Reach(mentioned, macros)

TameText(ts, macros) ==
  \A t \in {ts} \cup {macros[n].body : n \in DOMAIN macros} :
    /\ NumbersPlain(t, macros)
    /\ \A i \in DOMAIN t : t[i] \in FunctionLike(macros) => TameCall(t, i, macros)

-----------------------------------------------------------------------------
(* A condition as a tree, the text it is written as, and its value.           *)

Num(n) == [k |-> "num", n |-> n]
Id(x) == [k |-> "name", x |-> x]
Def(x) == [k |-> "defined", x |-> x]
Un(op, a) == [k |-> "un", op |-> op, a |-> a]
Bin(op, a, b) == [k |-> "bin", op |-> op, a |-> a, b |-> b]
Sel(c, a, b) == [k |-> "sel", c |-> c, a |-> a, b |-> b]

(* C's precedence of the binary operators, from low to high. *)
Rank(op) == CASE op = "||" -> 1 [] op = "&&" -> 2 [] op = "|" -> 3 [] op = "^" -> 4
              [] op = "&" -> 5 [] op \in {"==", "!="} -> 6
              [] op \in {"<", "<=", ">", ">="} -> 7 [] op \in {"<<", ">>"} -> 8
              [] op \in {"+", "-"} -> 9 [] op \in {"*", "/", "%"} -> 10

RankOf(e) == CASE e.k = "sel" -> 0 [] e.k = "bin" -> Rank(e.op) [] OTHER -> 11

(* Written with no more parentheses than C requires. *)
RECURSIVE Written(_)
Written(e) ==
  LET in(x, rank) == IF RankOf(x) < rank THEN <<<<"(">>>> \o Written(x) \o <<<<")">>>>
                     ELSE Written(x)
  IN CASE e.k = "num" -> <<<<Digits[e.n + 1]>>>>
       [] e.k = "name" -> <<e.x>>
       [] e.k = "defined" -> <<<<"defined">>, <<"(">>, e.x, <<")">>>>
       [] e.k = "un" -> <<<<e.op>>>> \o in(e.a, 11)
       [] e.k = "bin" -> in(e.a, Rank(e.op)) \o <<<<e.op>>>> \o in(e.b, Rank(e.op) + 1)
       [] e.k = "sel" -> in(e.c, 1) \o <<<<"?">>>> \o Written(e.a) \o <<<<":">>>> \o in(e.b, 0)

(* Its value.  A name that is left after replacement counts as 0; an operator *)
(* whose result C leaves undefined has the value None, a number no condition  *)
(* reaches.                                                                   *)
None == 10 ^ 6
TextValue(ts) == CASE Len(ts) = 1 /\ IsNumber(ts[1]) -> NumberOf(ts[1])
                   [] Len(ts) = 1 /\ IsName(ts[1]) -> 0
                   [] OTHER -> None

RECURSIVE CValue(_, _)
CValue(e, macros) ==
  LET a == CValue(e.a, macros)
      b == CValue(e.b, macros)
      c == CValue(e.c, macros)
  IN CASE e.k = "num" -> e.n
       [] e.k = "name" -> TextValue(CText(<<e.x>>, macros))
       [] e.k = "defined" -> Truth(e.x \in DOMAIN macros)
       [] e.k = "un" -> IF a = None THEN None ELSE Negated(e.op, a)
       [] e.k = "bin" /\ e.op = "&&" ->
            CASE a = None -> None [] a = 0 -> 0 [] b = None -> None [] OTHER -> Truth(b # 0)
       [] e.k = "bin" /\ e.op = "||" ->
            CASE a = None -> None [] a \notin {None, 0} -> 1 [] b = None -> None [] OTHER -> Truth(b # 0)
       [] e.k = "bin" /\ e.op \notin {"&&", "||"} ->
            IF a = None \/ b = None \/ (e.op \in {"/", "%"} /\ b = 0)
               \/ (e.op \in {"<<", ">>"} /\ b \notin 0..63) THEN None
            ELSE Apply(e.op, a, b)
       [] e.k = "sel" -> CASE c = None -> None [] c = 0 -> b [] OTHER -> a

CondHolds(e, macros) == CValue(e, macros) \notin {0, None}

(* Conditions the comparison is made for: C gives them a value, every name    *)
(* stands for one name or number, not for a function-like macro whose body    *)
(* starts with a number, and the operand of defined is no object-like macro   *)
(* (expanded before defined is looked at, such an operand is lost).           *)
RECURSIVE Leaves(_)
Leaves(e) == CASE e.k = "un" -> Leaves(e.a)
               [] e.k = "bin" -> Leaves(e.a) \cup Leaves(e.b)
               [] e.k = "sel" -> Leaves(e.c) \cup Leaves(e.a) \cup Leaves(e.b)
               [] OTHER -> {e}

TameName(ts, macros) ==   \* ts is what C makes of the name
  /\ TextValue(ts) # None
  /\ ts[1] \in DOMAIN macros => \/ macros[ts[1]].body = <<>>
                               \/ ~IsNumber(macros[ts[1]].body[1])

TameCondition(e, macros) ==
  /\ CValue(e, macros) # None
  /\ \A leaf \in Leaves(e) :
       CASE leaf.k = "name" -> TameName(CText(<<leaf.x>>, macros), macros)
         [] leaf.k = "defined" -> leaf.x \in DOMAIN macros => macros[leaf.x].fn
         [] OTHER -> TRUE

=============================================================================
