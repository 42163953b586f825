------------------------------ MODULE MCCgStmt ------------------------------
(***************************************************************************)
(* CgStmt on every program of a small depth: two functions, the first with *)
(* two levels of statements around a leaf, the second always the same.     *)
(* CgStmt takes those of them that are legal and that it admits.           *)
(***************************************************************************)
EXTENDS CgStmt

\* A statement with what is inside it, to be spread out by path.
Node(op, arg, kids) == [op |-> op, arg |-> arg, kids |-> kids]

No   == <<"none">>
L    == <<"L">>
Expr == Node("expr", No, << >>)
Goto == Node("goto", L, << >>)

Leaf ==
  {Node(op, No, << >>) : op \in {"null", "expr", "break", "continue"}}
    \cup {Node("return", TRUE, << >>), Node("return", FALSE, << >>),
          Goto}

Seqn(kids)   == Node("seq", No, kids)
If(kids)     == Node("if", No, kids)
For(S, s)    == Node("for", S, <<s>>)
Case(v, s)   == Node("case", v, <<s>>)
Default(s)   == Node("default", No, <<s>>)
Switch(kids) == Node("switch", No, <<Seqn(kids)>>)

\* The statements that hold s.
Holding(s) ==
  {If(<<s>>), If(<<s, Expr>>), If(<<Expr, s>>)}
    \cup {Node(op, No, <<Seqn(<<s, Expr>>)>>) : op \in {"while", "do"}}
    \cup {For(S, s) : S \in {{}, {"step"}, {"init", "test", "step"}}}
    \cup {Switch(<<Case(1, s), Expr, Default(Expr)>>),
          Switch(<<Case(2, Expr), Case(1, s), Expr>>),
          Switch(<<Default(s), Case(1, Expr)>>),
          Switch(<<Case(1, Case(2, s)), Expr, Default(Expr)>>)}

Outer == UNION {Holding(s) : s \in Leaf}
Two   == UNION {Holding(s) : s \in Outer}

\* What else is in the function, with the label before, after or inside.
Body == {Seqn(<<Node("label", L, <<Expr>>), s, Expr>>) : s \in Two \cup Outer \cup Leaf}
          \cup {Seqn(<<s, Expr, Node("label", L, <<s>>)>>) : s \in Outer \cup Leaf}
          \cup {Seqn(<<If(<<Goto>>), s, Expr>>) : s \in Holding(Node("label", L, <<Expr>>))}

\* The second function, with a label of its own.
Other(l) ==
  Seqn(<<Node("label", l, <<Expr>>), If(<<Node("goto", l, << >>)>>),
         Node("return", FALSE, << >>)>>)

RECURSIVE Paths(_)
Paths(t) == {<< >>} \cup UNION {{<<i>> \o q : q \in Paths(t.kids[i])} : i \in DOMAIN t.kids}

Spread(t) ==
  [p \in Paths(t) |->
     LET n == FoldLeft(LAMBDA u, i : u.kids[i], t, p) IN [op |-> n.op, arg |-> n.arg]]

Unit(b, l) == Spread(Node("unit", No, <<b, Other(l)>>))

All == {Unit(b, <<"M">>) : b \in Body} \cup {Unit(Seqn(<<Node("label", L, <<Expr>>), If(<<Goto>>)>>), L)}

MCVals == 0..2
=============================================================================
