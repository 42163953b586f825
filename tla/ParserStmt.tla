----------------------------- MODULE ParserStmt -----------------------------
(* Statements and declarations (parser.c: parse_stmt, parse_compound_stmt,    *)
(* parse_initializer, parse_local_decl, parse_external_decl), as functions in *)
(* the manner of Parser.  A result that can register typedef names also has   *)
(* defs, the table of the names registered.                                   *)
EXTENDS Parser

(* Read(rule, ts, td) reads what a rule of this module or of Parser names. *)
RECURSIVE Read(_, _, _), PItems(_, _, _), PInitItems(_, _, _), PDeclarators(_, _, _, _, _),
          PFlat(_, _), PGlobals(_, _, _, _, _)

WithDefs(r, defs) == [n |-> r.n, rest |-> r.rest, bad |-> r.bad, defs |-> defs]
NoDefs == <<>>

PInitializer(ts, td) ==
  IF Peek(ts) = "{" THEN LET items == Expect("}", PInitItems(Tail(ts), td, <<>>))
                         IN [items EXCEPT !.n = <<"list", @>>]
  ELSE Read(<<"assignment">>, ts, td)

PInitItems(ts, td, items) ==
  IF Peek(ts) \in {"}", ""} THEN Made(items, ts)
  ELSE LET i == Read(<<"initializer">>, ts, td)
           with == Append(items, i.n)
           more == PInitItems(Tail(i.rest), td, with)
       IN IF Peek(i.rest) = "," THEN [more EXCEPT !.bad = @ \/ i.bad] ELSE [i EXCEPT !.n = with]

(* parse_local_decl: the list of nodes it makes.  Two or more are wrapped in  *)
(* a compound that the enclosing block takes apart again.                     *)
PDeclarators(ts, base, td, nodes, defs) ==
  LET d == Read(<<"declarator", base.ty>>, ts, defs @@ td)
      isType == "typedef" \in base.storage
      init == IF Peek(d.rest) = "=" /\ ~isType THEN Read(<<"initializer">>, Tail(d.rest), defs @@ td)
              ELSE Made(<<"none">>, d.rest)
      node == IF isType THEN <<"typedef", d.n.name, d.n.ty>>
              ELSE <<"decl", d.n.name, d.n.ty, "static" \in base.storage, init.n>>
      defs2 == IF isType /\ d.n.name # "" THEN (d.n.name :> d.n.ty) @@ defs ELSE defs
      more == PDeclarators(Tail(init.rest), base, td, Append(nodes, node), defs2)
      bad == d.bad \/ init.bad
  IN IF Peek(init.rest) = "," THEN [more EXCEPT !.bad = @ \/ bad]
     ELSE WithDefs([n |-> Append(nodes, node), rest |-> init.rest, bad |-> bad], defs2)

PLocalDecl(ts, td) ==
  LET base == Read(<<"specifiers">>, ts, td)
      all == Expect(";", PDeclarators(base.rest, base.n, td, <<>>, NoDefs))
  IN IF Peek(base.rest) = ";"
     THEN WithDefs([base EXCEPT !.n = <<<<"null">>>>, !.rest = Tail(@)], NoDefs)
     ELSE [all EXCEPT !.bad = @ \/ base.bad]

-----------------------------------------------------------------------------
(* The loop of parse_stmt for an expression statement that starts with an     *)
(* identifier: every binary operator takes a cast expression, in the order    *)
(* written; an assignment or a conditional ends the statement.                *)
PFlat(left, td) ==
  LET op == Peek(left.rest)
      after == Rest(left.rest)
      assigned == Read(<<"assignment">>, after, td)
      operand == Read(<<"cast">>, after, td)
      t == Expect(":", Read(<<"expression">>, after, td))
      f == Read(<<"conditional">>, t.rest, td)
  IN CASE op \in AssignOps -> Then(left, assigned, <<"assign", op, left.n, assigned.n>>)
       [] op \in UNION ToSet(Levels) -> PFlat(Then(left, operand, <<"bin", op, left.n, operand.n>>), td)
       [] op = "?" -> [n |-> <<"cond", left.n, t.n, f.n>>, rest |-> f.rest, bad |-> left.bad \/ t.bad \/ f.bad]
       [] op = "," -> PFlat(Then(left, assigned, <<"comma", left.n, assigned.n>>), td)
       [] OTHER -> left

(* parse_compound_stmt from behind its "{": declarations and statements up to *)
(* the "}", in a scope of their own.                                          *)
PItems(ts, td, items) ==
  IF Peek(ts) \in {"}", ""} THEN Expect("}", Made(<<"block", items>>, ts))
  ELSE LET item == IF StartsType(ts, td) THEN Read(<<"local declaration">>, ts, td)
                   ELSE LET s == Read(<<"statement">>, ts, td) IN WithDefs([s EXCEPT !.n = <<@>>], NoDefs)
           more == PItems(item.rest, item.defs @@ td, items \o item.n)
       IN [more EXCEPT !.bad = @ \/ item.bad]

(* ( expression ), as if, while, do and switch have it. *)
PGroup(ts, td) == LET e == Expect(")", Read(<<"expression">>, Rest(ts), td))
                  IN [e EXCEPT !.bad = @ \/ Peek(ts) # "("]

(* A clause of for that may be missing: nothing before the token that ends it. *)
PClause(end, ts, td) == Expect(end, IF Peek(ts) = end THEN Made(<<"none">>, ts)
                                    ELSE Read(<<"expression">>, ts, td))

PFor(ts, td) ==
  LET decl == Read(<<"local declaration">>, Rest(ts), td)
      expr == Expect(";", Read(<<"expression">>, Rest(ts), td))
      init == CASE Peek(Rest(ts)) = ";" -> WithDefs(Made(<<"none">>, Tail(Rest(ts))), NoDefs)
                [] Peek(Rest(ts)) # ";" /\ StartsType(Rest(ts), td) ->
                     [decl EXCEPT !.n = IF Len(@) = 1 THEN @[1] ELSE <<"block", @>>]
                [] OTHER -> WithDefs([expr EXCEPT !.n = <<"expr", @>>], NoDefs)
      inner == init.defs @@ td
      cond == PClause(";", init.rest, inner)
      step == PClause(")", cond.rest, inner)
      body == Read(<<"statement">>, step.rest, inner)
  IN [n |-> <<"for", init.n, cond.n, step.n, body.n>>, rest |-> body.rest,
      bad |-> Peek(ts) # "(" \/ init.bad \/ cond.bad \/ step.bad \/ body.bad]

PIf(ts, td) ==
  LET c == Read(<<"group">>, ts, td)
      then == Read(<<"statement">>, c.rest, td)
      else == IF Peek(then.rest) = "else" THEN Read(<<"statement">>, Tail(then.rest), td)
              ELSE Made(<<"none">>, then.rest)
  IN [n |-> <<"if", c.n, then.n, else.n>>, rest |-> else.rest, bad |-> c.bad \/ then.bad \/ else.bad]

PLoopStmt(kind, ts, td) == LET c == Read(<<"group">>, ts, td)
                               body == Read(<<"statement">>, c.rest, td)
                           IN Then(c, body, <<kind, c.n, body.n>>)

PDo(ts, td) ==
  LET body == Expect("while", Read(<<"statement">>, ts, td))
      c == Expect(";", Read(<<"group">>, body.rest, td))
  IN Then(body, c, <<"do", body.n, c.n>>)

(* A case takes one token: a literal, or anything else as the value 0. *)
PCase(ts, td) ==
  LET value == IF IsInt(Peek(ts)) \/ Peek(ts) \in Chars THEN Peek(ts) ELSE "0"
      label == Expect(":", Made(value, Rest(ts)))
      body == Read(<<"statement">>, label.rest, td)
  IN Then(label, body, <<"case", value, body.n>>)

(* A statement that starts with an identifier: a label or an expression. *)
PIdentStmt(ts, td) ==
  LET after == Tail(ts)
      body == Read(<<"statement">>, Tail(after), td)
      e == Expect(";", PFlat(Read(<<"postfix", <<"var", ts[1]>>>>, after, td), td))
  IN IF Peek(after) = ":" THEN [body EXCEPT !.n = <<"label", ts[1], @>>]
     ELSE [e EXCEPT !.n = <<"expr", @>>]

PStmt(ts, td) ==
  LET t == Peek(ts)
      after == Rest(ts)
      value == Expect(";", Read(<<"expression">>, after, td))
      label == Expect(":", Made("default", after))
      labelled == Read(<<"statement">>, label.rest, td)
      expr == Expect(";", Read(<<"expression">>, ts, td))
  IN CASE t = "{" -> Read(<<"block">>, after, td)
       [] t = "if" -> PIf(after, td)
       [] t \in {"while", "switch"} -> PLoopStmt(t, after, td)
       [] t = "do" -> PDo(after, td)
       [] t = "for" -> PFor(after, td)
       [] t = "case" -> PCase(after, td)
       [] t = "default" -> Then(label, labelled, <<"default", labelled.n>>)
       [] t \in {"break", "continue"} -> Expect(";", Made(<<t>>, after))
       [] t = "return" -> IF Peek(after) = ";" THEN Made(<<"return", <<"none">>>>, Tail(after))
                          ELSE [value EXCEPT !.n = <<"return", @>>]
       [] t = "goto" -> Expect(";", ExpectIdent(Made(<<"goto", Peek(after)>>, after)))
       [] t = ";" -> Made(<<"null">>, after)
       [] IsIdent(t) -> PIdentStmt(ts, td)
       [] OTHER -> [expr EXCEPT !.n = <<"expr", @>>]

-----------------------------------------------------------------------------
(* parse_external_decl, its result flattened as parser_parse does. *)

PGlobals(ts, base, td, nodes, first) ==
  LET init == IF Peek(first.rest) = "=" THEN Read(<<"initializer">>, Tail(first.rest), td)
              ELSE Made(<<"none">>, first.rest)
      node == <<"global", first.n.name, first.n.ty, base.storage \cap {"static", "extern"}, init.n>>
      next == Read(<<"declarator", base.ty>>, Tail(init.rest), td)
      more == PGlobals(next.rest, base, td, Append(nodes, node), next)
      bad == first.bad \/ init.bad
  IN IF Peek(init.rest) = "," THEN [more EXCEPT !.bad = @ \/ bad]
     ELSE [n |-> Append(nodes, node), rest |-> init.rest, bad |-> bad]

(* A parameter without a name is given one. *)
ParamNames(params) == [i \in DOMAIN params |->
                         IF params[i][1] = "" THEN <<<<".p", i - 1>>, params[i][2]>> ELSE params[i]]

PExternal(ts, td) ==
  LET base == Read(<<"specifiers">>, ts, td)
      d == Read(<<"declarator", base.n.ty>>, base.rest, td)
      types == PDeclarators(base.rest, base.n, td, <<>>, NoDefs)
      body == Read(<<"block">>, Rest(d.rest), td)
      tagged == base.n.ty[1] \in {"struct", "union", "enum"}
  IN CASE Peek(base.rest) = ";" ->
            WithDefs([base EXCEPT !.n = <<IF tagged THEN <<"tag", base.n.ty>> ELSE <<"null">>>>,
                                  !.rest = Tail(@)], NoDefs)
       [] Peek(base.rest) # ";" /\ "typedef" \in base.n.storage ->
            Expect(";", [types EXCEPT !.n = <<@[1]>>, !.bad = @ \/ base.bad])
       [] Peek(base.rest) # ";" /\ d.n.ty[1] = "func" /\ Peek(d.rest) = "{" ->
            WithDefs([body EXCEPT !.n = <<<<"function", d.n.name, d.n.ty[2], ParamNames(d.n.ty[3]), @>>>>,
                                  !.bad = @ \/ base.bad \/ d.bad], NoDefs)
       [] OTHER -> WithDefs(Expect(";", PGlobals(d.rest, base.n, td, <<>>, d)), NoDefs)

(* The parse function of each rule. *)
Read(rule, ts, td) ==
  CASE rule[1] = "statement" -> PStmt(ts, td)
    [] rule[1] = "block" -> PItems(ts, td, <<>>)
    [] rule[1] = "group" -> PGroup(ts, td)
    [] rule[1] = "initializer" -> PInitializer(ts, td)
    [] rule[1] = "local declaration" -> PLocalDecl(ts, td)
    [] rule[1] = "external declaration" -> PExternal(ts, td)
    [] OTHER -> Parse(rule, ts, td)

=============================================================================
