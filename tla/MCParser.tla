------------------------------ MODULE MCParser ------------------------------
(* A bounded instance of ParserRun: every pair of operators in every operand  *)
(* position, statements nested twice, types of up to three derivations.       *)
EXTENDS ParserRun

V(x) == <<"var", x>>
Leaf == V("a")

(* One operator on e as one of its operands. *)
Around(e) ==
  UNION {{<<"bin", op, e, V("b")>>, <<"bin", op, V("c"), e>>} :
           op \in {"||", "&&", "|", "^", "&", "==", "<=", "<<", "-", "%"}} \cup
  {<<"un", op, e>> : op \in {"*", "&", "-", "!", "++", "sizeof"}} \cup
  {<<"cast", <<"ptr", <<"char">>>>, e>>, <<"post", "--", e>>, <<"index", e, V("b")>>, <<"index", V("c"), e>>,
   <<"member", ".", e, "m">>, <<"member", "->", e, "m">>, <<"call", e, <<>>>>,
   <<"call", V("f"), <<V("b"), e>>>>, <<"comma", e, V("b")>>, <<"comma", V("c"), e>>,
   <<"assign", "=", V("c"), e>>, <<"assign", "+=", e, V("b")>>,
   <<"cond", e, V("b"), V("c")>>, <<"cond", V("b"), e, V("c")>>, <<"cond", V("b"), V("c"), e>>}

MCExpressions == LET one == Around(Leaf) IN
  one \cup UNION {Around(e) : e \in one} \cup
  {<<"sizeof type", <<"ptr", <<"func", <<"int">>, <<>>, FALSE>>>>>>, <<"alignof", <<"long">>>>, <<"str", 2>>, <<"int", "7">>}

(* Statements around a statement. *)
E1 == <<"expr", <<"post", "++", Leaf>>>>
StmtsAround(s) ==
  {<<"block", <<s, E1>>>>, <<"while", Leaf, s>>, <<"do", s, Leaf>>, <<"switch", Leaf, s>>,
   <<"case", "2", s>>, <<"default", s>>, <<"label", "l", s>>, <<"if", Leaf, s, <<"none">>>>,
   <<"for", <<"none">>, <<"none">>, <<"none">>, s>>,
   <<"for", <<"decl", "i", <<"int">>, FALSE, <<"int", "0">>>>, Leaf, <<"post", "++", V("i")>>, s>>,
   <<"if", Leaf, E1, s>>} \cup
  (IF EndsOpen(s) THEN {} ELSE {<<"if", Leaf, s, E1>>})

Simple == {E1, <<"null">>, <<"break">>, <<"continue">>, <<"return", <<"none">>>>, <<"goto", "l">>, <<"block", <<>>>>,
           <<"block", <<<<"typedef", "U", <<"int">>>>, <<"expr", <<"cast", <<"int">>, Leaf>>>>,
                        <<"decl", "v", <<"array", <<"int">>, "2">>, TRUE,
                          <<"list", <<<<"int", "1">>, <<"list", <<<<"int", "2">>>>>>>>>>>>>>>>}
MCStatements == LET one == UNION {StmtsAround(s) : s \in Simple}
                IN Simple \cup one \cup UNION {StmtsAround(s) : s \in one}

Derived(ty) ==
  {<<"ptr", ty>>} \cup
  (IF ty[1] = "func" THEN {} ELSE {<<"array", ty, "2">>, <<"array", ty, "">>}) \cup
  (IF ty[1] \in {"func", "array"} THEN {}
   ELSE {<<"func", ty, <<>>, FALSE>>, <<"func", ty, <<<<"p", <<"int">>>>, <<"q", <<"ptr", ty>>>>>>, TRUE>>})
MCDeclared == LET base == {<<"int">>, <<"void">>, <<"struct", "S", <<>>>>}
                  one == UNION {Derived(t) : t \in base}
                  two == UNION {Derived(t) : t \in one}
              IN base \cup one \cup two \cup UNION {Derived(t) : t \in two}

(* The words of C's table in every order, const or register among them. *)
MCSpecified ==
  UNION {{<<w \o <<"x">>, <<e[2]>>>> : w \in UNION {SetToSeqs(e[1] \cup q) : q \in {{}, {"const"}, {"register"}}}}
         : e \in SpecifierTable} \cup
  {<<<<"enum", "E", "{", "A", ",", "B", "=", "-", "3", ",", "C", "}", "x">>,
     <<"enum", "E", <<<<"A", 0>>, <<"B", -3>>, <<"C", -2>>>>>>>>,
   <<<<"struct", "S", "{", "int", "*", "m", ",", "n", ";", "char", "c", "[", "3", "]", ";", "}", "x">>,
     <<"struct", "S", <<<<"m", <<"ptr", <<"int">>>>>>, <<"n", <<"int">>>>, <<"c", <<"array", <<"char">>, "3">>>>>>>>>>}

MCNames == {"S", "T"}
=============================================================================
