------------------------------- MODULE Parser -------------------------------
(* The recursive-descent parser (parser.c) as functions from tokens to trees, *)
(* one operator per parse function.  A token is a string; a tree is a tuple   *)
(* that starts with its kind.  td is the typedef table the parser sees: a     *)
(* function from the typedef names in scope to their types.  Every operator   *)
(* returns [n, rest, bad]: what it built, the tokens left, and whether an     *)
(* error was reported.  As expect() does, a wrong token is consumed.          *)
(*                                                                            *)
(* Types are <<kind>>, <<"ptr", t>>, <<"array", t, length>>,                  *)
(* <<"func", result, parameters, variadic>>, <<"struct" or "union", tag,      *)
(* members>> and <<"enum", tag, enumerators>>.  Qualifiers are dropped.       *)
EXTENDS Integers, SequencesExt, Functions

Ints == <<"0", "1", "2", "3", "4", "5", "6", "7", "8", "9">>
IntValue(t) == SelectInSeq(Ints, LAMBDA x : x = t) - 1
IsInt(t) == t \in ToSet(Ints)
Strings == {"\"s\""}
Chars == {"'c'"}

StorageWords == {"typedef", "extern", "static", "register", "auto"}
Qualifiers == {"const", "volatile", "restrict", "_Atomic"}
FunctionWords == {"inline", "_Noreturn"}
BasicWords == {"void", "char", "short", "int", "long", "float", "double", "signed", "unsigned", "_Bool"}
TagWords == {"struct", "union", "enum"}
StatementWords == {"if", "else", "while", "do", "for", "switch", "case", "default", "break",
                   "continue", "return", "goto", "sizeof", "_Alignof"}
AssignOps == {"=", "+=", "-=", "*=", "/=", "%=", "&=", "|=", "^=", "<<=", ">>="}
PunctuatorsOnly == {"(", ")", "[", "]", "{", "}", ";", ":", ",", "?", ".", "->", "...", "++", "--",
                    "!", "~", "*", "/", "%", "+", "-", "<<", ">>", "<", "<=", ">", ">=", "==", "!=",
                    "&", "^", "|", "&&", "||"}

IsIdent(t) == t \notin ToSet(Ints) \cup Strings \cup Chars \cup StorageWords \cup Qualifiers
                 \cup FunctionWords \cup BasicWords \cup TagWords \cup StatementWords \cup AssignOps
                 \cup PunctuatorsOnly \cup {""}

(* peek_tok ("" at the end of the input); expect and match. *)
Peek(ts) == IF ts = <<>> THEN "" ELSE ts[1]
Rest(ts) == IF ts = <<>> THEN <<>> ELSE Tail(ts)
Made(n, ts) == [n |-> n, rest |-> ts, bad |-> FALSE]
Expect(k, r) == [r EXCEPT !.rest = Rest(@), !.bad = @ \/ Peek(r.rest) # k]
ExpectIdent(r) == [r EXCEPT !.rest = Rest(@), !.bad = @ \/ ~IsIdent(Peek(r.rest))]
Match(k, ts) == IF Peek(ts) = k THEN Tail(ts) ELSE ts
(* The result of f on what r leaves, built into a tree with r's. *)
Then(r, s, n) == [n |-> n, rest |-> s.rest, bad |-> r.bad \/ s.bad]

-----------------------------------------------------------------------------
(* is_type_start. *)
StartsType(ts, td) == \/ Peek(ts) \in BasicWords \cup Qualifiers \cup TagWords \cup StorageWords \cup {"inline"}
                      \/ Peek(ts) \in DOMAIN td

(* The last part of parse_declaration_specifiers: the words seen make a type. *)
Combined(words) ==
  LET has(w) == w \in ToSet(words)
      longs == Len(SelectSeq(words, LAMBDA w : w = "long"))
      sign(t) == IF has("unsigned") THEN <<"unsigned " \o t>> ELSE <<t>>
  IN CASE has("void") -> <<"void">>
       [] has("_Bool") -> <<"_Bool">>
       [] has("float") -> <<"float">>
       [] has("double") -> IF longs >= 1 THEN <<"long double">> ELSE <<"double">>
       [] has("char") -> IF has("unsigned") THEN <<"unsigned char">>
                         ELSE IF has("signed") THEN <<"signed char">> ELSE <<"char">>
       [] has("short") -> sign("short")
       [] longs >= 2 -> sign("long long")
       [] longs = 1 -> sign("long")
       [] OTHER -> sign("int")

(* Parse(rule, ts, td) reads what the rule names: the rule of the grammar and *)
(* what it is told of the tokens before, if anything.  The lists of a rule    *)
(* are read by operators of their own.                                        *)
RECURSIVE Parse(_, _, _), PMembers(_, _, _), PMemberNames(_, _, _, _), PEnumerators(_, _, _),
          PPointers(_, _), PParameters(_, _, _), PArguments(_, _, _), PPostfix(_, _),
          PLoop(_, _, _), PCommas(_, _)

(* parse_declaration_specifiers: n is [ty, storage].  A struct, union, enum   *)
(* or typedef name ends the list.                                             *)
PSpecifiers(ts, td) ==
  LET isWord(t) == t \in StorageWords \cup Qualifiers \cup FunctionWords \cup BasicWords
      n == SelectInSeq(ts \o <<"">>, LAMBDA t : ~isWord(t)) - 1
      words == SubSeq(ts, 1, n)
      next == SubSeq(ts, n + 1, Len(ts))
      basic == ToSet(words) \cap BasicWords # {}
      made(ty) == [ty |-> ty, storage |-> ToSet(words) \cap StorageWords]
      tag == IF IsIdent(Peek(Rest(next))) THEN Peek(Rest(next)) ELSE ""
      body == IF tag = "" THEN Rest(next) ELSE Rest(Rest(next))
      inside == IF Peek(next) = "enum" THEN PEnumerators(Tail(body), -1, <<>>)
                ELSE PMembers(Tail(body), td, <<>>)
  IN CASE Peek(next) \in TagWords /\ Peek(body) # "{" ->
            Made(made(<<Peek(next), tag, <<>>>>), body)
       [] Peek(next) \in TagWords /\ Peek(body) = "{" ->
            Expect("}", [inside EXCEPT !.n = made(<<Peek(next), tag, @>>)])
       [] Peek(next) \in DOMAIN td /\ ~basic -> Made(made(td[Peek(next)]), Tail(next))
       [] OTHER -> Made(made(Combined(words)), next)

(* The bodies of parse_struct_or_union and parse_enum. *)
PMembers(ts, td, members) ==
  IF Peek(ts) \in {"}", ""} THEN Made(members, ts)
  ELSE LET base == Parse(<<"specifiers">>, ts, td)
           names == PMemberNames(base.rest, base.n.ty, td, members)
           ended == Expect(";", names)
           more == PMembers(ended.rest, td, ended.n)
       IN [more EXCEPT !.bad = @ \/ base.bad \/ ended.bad]

PMemberNames(ts, base, td, members) ==
  LET d == Parse(<<"declarator", base>>, ts, td)
      with == Append(members, <<d.n.name, d.n.ty>>)
  IN IF Peek(d.rest) = "," /\ Peek(Tail(d.rest)) \notin {";", "}"}
     THEN LET more == PMemberNames(Tail(d.rest), base, td, with) IN [more EXCEPT !.bad = @ \/ d.bad]
     ELSE [n |-> with, rest |-> Match(",", d.rest), bad |-> d.bad]

(* The value of an enumerator is a literal, a negated one, or the one before  *)
(* plus one; whatever else stands after "=" is skipped one token wide.        *)
PEnumerators(ts, before, list) ==
  IF Peek(ts) \in {"}", ""} THEN Made(list, ts)
  ELSE LET given == Peek(Rest(ts)) = "="
           t == Peek(Rest(Rest(ts)))
           u == Peek(Rest(Rest(Rest(ts))))
           value == CASE given /\ IsInt(t) -> IntValue(t)
                      [] given /\ t = "-" /\ IsInt(u) -> -IntValue(u)
                      [] OTHER -> before + 1
           after == IF ~given THEN Rest(ts)
                    ELSE SubSeq(ts, IF t = "-" THEN 5 ELSE 4, Len(ts))
           with == Append(list, <<ts[1], value>>)
           more == PEnumerators(Rest(after), value, with)
           wrong == ~IsIdent(ts[1])
       IN IF Peek(after) = "," THEN [more EXCEPT !.bad = @ \/ wrong]
          ELSE [n |-> with, rest |-> after, bad |-> wrong]

-----------------------------------------------------------------------------
(* Declarators. *)

(* parse_pointer_prefix. *)
PPointers(ts, base) ==
  IF Peek(ts) # "*" THEN Made(base, ts)
  ELSE LET skip == SelectInSeq(Tail(ts) \o <<"">>,
                               LAMBDA t : t \notin {"const", "volatile", "restrict"})
       IN PPointers(SubSeq(ts, skip + 1, Len(ts)), <<"ptr", base>>)

Hole == <<"hole">>

(* Mutant of Reconnect: only the outermost derivation is reconnected. *)
ReconnectFirst(inner, ty) == CASE inner = Hole -> ty
                               [] inner[1] \in {"ptr", "array", "func"} /\ inner[2] = Hole -> [inner EXCEPT ![2] = ty]
                               [] OTHER -> inner

(* What an array or a function made of the hole itself has taken from it, its *)
(* size or its return_ty, stays that of the int that holds the place.         *)
OfInt(made, ty) == IF made[1] = "ptr" \/ ty = <<"int">> THEN made ELSE Append(made, "of int")

RECURSIVE Reconnect(_, _)
Reconnect(inner, ty) ==
  CASE inner = Hole -> ty
    [] inner[1] \in {"ptr", "array", "func"} ->
         LET made == [inner EXCEPT ![2] = Reconnect(@, ty)]
         IN IF inner[2] = Hole THEN OfInt(made, ty) ELSE made
    [] OTHER -> inner

(* parse_declarator: n is [name, ty]. *)
PDeclarator(ts, base, td) ==
  LET p == PPointers(ts, base)
      inner == Expect(")", Parse(<<"declarator", Hole>>, Tail(p.rest), td))
      named == IsIdent(Peek(p.rest))
  IN IF Peek(p.rest) = "("
     THEN LET s == Parse(<<"suffix", p.n>>, inner.rest, td)
          IN Then(inner, s, [name |-> inner.n.name, ty |-> Reconnect(inner.n.ty, s.n)])
     ELSE LET s == Parse(<<"suffix", p.n>>, IF named THEN Tail(p.rest) ELSE p.rest, td)
          IN [s EXCEPT !.n = [name |-> IF named THEN p.rest[1] ELSE "", ty |-> @]]

(* parse_declarator_suffix: each suffix is put around what was read so far.   *)
(* The token after a leading void has been looked at: unless it is ")" the    *)
(* attempt to go back loses both.                                             *)
PSuffix(ts, ty, td) ==
  LET t == Peek(Rest(ts))
      len == CASE t = "]" -> Made("", Rest(ts))
               [] IsInt(t) -> Made(t, Tail(Rest(ts)))
               [] t = "*" -> Made("", Tail(Rest(ts)))
               [] OTHER -> LET e == Parse(<<"assignment">>, Rest(ts), td)
                           IN [e EXCEPT !.n = IF @[1] = "int" THEN @[2] ELSE ""]
      closed == Expect("]", len)
      array == Parse(<<"suffix", <<"array", ty, closed.n>>>>, closed.rest, td)
      after == SubSeq(ts, 3, Len(ts))
      params == CASE t = ")" -> Made(<<<<>>, FALSE>>, Rest(ts))
                  [] t = "void" /\ Peek(after) = ")" -> Made(<<<<>>, FALSE>>, after)
                  [] t = "void" /\ Peek(after) # ")" -> PParameters(Rest(after), td, <<>>)
                  [] OTHER -> PParameters(Rest(ts), td, <<>>)
      ended == Expect(")", params)
      func == Parse(<<"suffix", <<"func", ty, ended.n[1], ended.n[2]>>>>, ended.rest, td)
  IN CASE Peek(ts) = "[" -> [array EXCEPT !.bad = @ \/ closed.bad]
       [] Peek(ts) = "(" -> [func EXCEPT !.bad = @ \/ ended.bad]
       [] OTHER -> Made(ty, ts)

PParameters(ts, td, params) ==
  IF Peek(ts) = "..." THEN Made(<<params, TRUE>>, Tail(ts))
  ELSE LET base == Parse(<<"specifiers">>, ts, td)
           d == Parse(<<"declarator", base.n.ty>>, base.rest, td)
           with == Append(params, <<d.n.name, d.n.ty>>)
           more == PParameters(Tail(d.rest), td, with)
       IN IF Peek(d.rest) = "," THEN [more EXCEPT !.bad = @ \/ base.bad \/ d.bad]
          ELSE [n |-> <<with, FALSE>>, rest |-> d.rest, bad |-> base.bad \/ d.bad]

(* parser_parse_type_name. *)
PTypeName(ts, td) == LET base == Parse(<<"specifiers">>, ts, td)
                         d == Parse(<<"declarator", base.n.ty>>, base.rest, td)
                     IN Then(base, d, d.n.ty)

-----------------------------------------------------------------------------
(* Expressions. *)

PPrimary(ts, td) ==
  LET t == Peek(ts)
      inner == Expect(")", Parse(<<"expression">>, Rest(ts), td))
      strings == SelectInSeq(ts \o <<"">>, LAMBDA s : s \notin Strings) - 1
  IN CASE IsInt(t) \/ t \in Chars -> Made(<<"int", t>>, Tail(ts))
       [] t \in Strings -> Made(<<"str", strings>>, SubSeq(ts, strings + 1, Len(ts)))
       [] IsIdent(t) -> Made(IF t = "NULL" THEN <<"int", "0">> ELSE <<"var", t>>, Tail(ts))
       [] t = "(" -> inner
       [] OTHER -> [n |-> <<"int", "0">>, rest |-> Rest(ts), bad |-> TRUE]

PArguments(ts, td, args) ==
  LET a == Parse(<<"assignment">>, ts, td)
      more == PArguments(Tail(a.rest), td, Append(args, a.n))
  IN IF Peek(a.rest) = "," THEN [more EXCEPT !.bad = @ \/ a.bad]
     ELSE [a EXCEPT !.n = Append(args, @)]

(* apply_postfix_ops. *)
PPostfix(r, td) ==
  LET t == Peek(r.rest)
      after == Rest(r.rest)
      args == Expect(")", IF Peek(after) = ")" THEN Made(<<>>, after) ELSE PArguments(after, td, <<>>))
      idx == Expect("]", Parse(<<"expression">>, after, td))
      member == ExpectIdent(Made(<<"member", t, r.n, Peek(after)>>, after))
  IN CASE t = "(" -> PPostfix(Then(r, args, <<"call", r.n, args.n>>), td)
       [] t = "[" -> PPostfix(Then(r, idx, <<"index", r.n, idx.n>>), td)
       [] t \in {".", "->"} -> PPostfix(Then(r, member, member.n), td)
       [] t \in {"++", "--"} -> PPostfix([r EXCEPT !.n = <<"post", t, @>>, !.rest = after], td)
       [] OTHER -> r

(* parse_unary. *)
PUnary(ts, td) ==
  LET t == Peek(ts)
      after == Rest(ts)
      made(op, r) == [r EXCEPT !.n = <<"un", op, @>>]
      type == Expect(")", PTypeName(Rest(after), td))
      grouped == PPostfix(Expect(")", Parse(<<"expression">>, Rest(after), td)), td)
  IN CASE t \in {"++", "--"} -> made(t, Parse(<<"unary">>, after, td))
       [] t \in {"&", "*", "-", "~", "!"} -> made(t, Parse(<<"cast">>, after, td))
       [] t = "+" -> Parse(<<"cast">>, after, td)
       [] t = "sizeof" ->
            IF Peek(after) # "(" THEN made("sizeof", Parse(<<"unary">>, after, td))
            ELSE IF StartsType(Rest(after), td) THEN [type EXCEPT !.n = <<"sizeof type", @>>]
            ELSE made("sizeof", grouped)
       [] t = "_Alignof" -> [type EXCEPT !.n = <<"alignof", @>>, !.bad = @ \/ Peek(after) # "("]
       [] OTHER -> PPostfix(PPrimary(ts, td), td)

(* parse_cast. *)
PCast(ts, td) ==
  LET type == PTypeName(Rest(ts), td)
      after == Rest(type.rest)
      operand == IF Peek(after) = "{" THEN Parse(<<"unary">>, after, td) ELSE Parse(<<"cast">>, after, td)
  IN CASE Peek(ts) = "(" /\ StartsType(Rest(ts), td) /\ Peek(type.rest) = ")" ->
            Then(type, operand, <<"cast", type.n, operand.n>>)
       [] Peek(ts) = "(" /\ StartsType(Rest(ts), td) /\ Peek(type.rest) # ")" ->
            [Parse(<<"unary">>, type.rest, td) EXCEPT !.bad = TRUE]
       [] Peek(ts) = "(" /\ ~StartsType(Rest(ts), td) ->
            PPostfix(Expect(")", Parse(<<"expression">>, Rest(ts), td)), td)
       [] OTHER -> Parse(<<"unary">>, ts, td)

(* Mutant of Levels: equality binds tighter than the relations. *)
LevelsSwapped == <<{"||"}, {"&&"}, {"|"}, {"^"}, {"&"}, {"<", "<=", ">", ">="}, {"==", "!="},
                   {"<<", ">>"}, {"+", "-"}, {"*", "/", "%"}>>

(* parse_logor down to parse_mul: operands on one level, grouped to the left. *)
Levels == <<{"||"}, {"&&"}, {"|"}, {"^"}, {"&"}, {"==", "!="}, {"<", "<=", ">", ">="},
            {"<<", ">>"}, {"+", "-"}, {"*", "/", "%"}>>

PLevel(k, ts, td) == IF k > Len(Levels) THEN Parse(<<"cast">>, ts, td)
                     ELSE PLoop(k, Parse(<<"level", k + 1>>, ts, td), td)
PLoop(k, left, td) ==
  LET op == Peek(left.rest)
      right == Parse(<<"level", k + 1>>, Tail(left.rest), td)
  IN IF op \in Levels[k] THEN PLoop(k, Then(left, right, <<"bin", op, left.n, right.n>>), td)
     ELSE left

PConditional(ts, td) ==
  LET c == Parse(<<"level", 1>>, ts, td)
      t == Expect(":", Parse(<<"expression">>, Tail(c.rest), td))
      f == Parse(<<"conditional">>, t.rest, td)
  IN IF Peek(c.rest) = "?"
     THEN [n |-> <<"cond", c.n, t.n, f.n>>, rest |-> f.rest, bad |-> c.bad \/ t.bad \/ f.bad]
     ELSE c

PAssign(ts, td) ==
  LET l == Parse(<<"conditional">>, ts, td)
      r == Parse(<<"assignment">>, Tail(l.rest), td)
  IN IF Peek(l.rest) \in AssignOps THEN Then(l, r, <<"assign", Peek(l.rest), l.n, r.n>>) ELSE l

PExpr(ts, td) == PCommas(Parse(<<"assignment">>, ts, td), td)
PCommas(left, td) ==
  LET right == Parse(<<"assignment">>, Tail(left.rest), td)
  IN IF Peek(left.rest) = "," THEN PCommas(Then(left, right, <<"comma", left.n, right.n>>), td)
     ELSE left

(* The parse function of each rule. *)
Parse(rule, ts, td) ==
  CASE rule[1] = "expression" -> PExpr(ts, td)
    [] rule[1] = "assignment" -> PAssign(ts, td)
    [] rule[1] = "conditional" -> PConditional(ts, td)
    [] rule[1] = "level" -> PLevel(rule[2], ts, td)
    [] rule[1] = "cast" -> PCast(ts, td)
    [] rule[1] = "unary" -> PUnary(ts, td)
    [] rule[1] = "postfix" -> PPostfix(Made(rule[2], ts), td)
    [] rule[1] = "specifiers" -> PSpecifiers(ts, td)
    [] rule[1] = "declarator" -> PDeclarator(ts, rule[2], td)
    [] rule[1] = "suffix" -> PSuffix(ts, rule[2], td)

=============================================================================
