------------------------------ MODULE CSyntax ------------------------------
(* How C writes the trees Parser builds: with the parentheses its grammar     *)
(* requires and no others, declarations the way the declared name is used.    *)
(* A parser that is right reads what is written here back as the same tree.   *)
EXTENDS Parser

(* C's table of type specifiers, in any order: the words and the type. *)
SpecifierTable ==
  {<<{"void"}, "void">>, <<{"_Bool"}, "_Bool">>, <<{"float"}, "float">>, <<{"double"}, "double">>,
   <<{"long", "double"}, "long double">>, <<{"char"}, "char">>, <<{"signed", "char"}, "signed char">>,
   <<{"unsigned", "char"}, "unsigned char">>} \cup
  {<<s \cup w \cup i, t>> : i \in {{}, {"int"}}, s \in {{}, {"signed"}},
     <<w, t>> \in {<<{"short"}, "short">>, <<{"long"}, "long">>}} \cup
  {<<{"unsigned"} \cup w \cup i, t>> : i \in {{}, {"int"}},
     <<w, t>> \in {<<{"short"}, "unsigned short">>, <<{"long"}, "unsigned long">>, <<{}, "unsigned int">>}} \cup
  {<<w, "int">> : w \in {{"int"}, {"signed"}, {"signed", "int"}}}

(* One way to write a type specifier: what C's table has for it, the tag, or  *)
(* the type itself when it is a typedef name's.                               *)
SpecifierOf(ty) ==
  IF ty[1] \in TagWords THEN <<ty[1], ty[2]>>
  ELSE SetToSeq(CHOOSE w \in {e[1] : e \in {e \in SpecifierTable : e[2] = ty[1]}} : TRUE)

Commas(parts) == FlattenSeq([i \in DOMAIN parts |-> (IF i > 1 THEN <<",">> ELSE <<>>) \o parts[i]])

(* The declaration of d with type ty, inside out: pointers before, arrays and *)
(* parameters behind; in parentheses where C needs them, or everywhere.       *)
RECURSIVE SpellWith(_, _, _)
SpellWith(ty, d, everywhere) ==
  LET list == IF ty[3] = <<>> THEN <<"void">>
              ELSE Commas([i \in DOMAIN ty[3] |-> SpellWith(ty[3][i][2], <<ty[3][i][1]>>, everywhere)])
      with == CASE ty[1] = "ptr" -> <<"*">> \o d
                [] ty[1] = "array" -> d \o <<"[">> \o (IF ty[3] = "" THEN <<>> ELSE <<ty[3]>>) \o <<"]">>
                [] ty[1] = "func" -> d \o <<"(">> \o list \o (IF ty[4] THEN <<",", "...">> ELSE <<>>) \o <<")">>
  IN IF ty[1] \notin {"ptr", "array", "func"} THEN SpecifierOf(ty) \o d
     ELSE SpellWith(ty[2],
                    IF everywhere \/ (ty[1] = "ptr" /\ ty[2][1] \in {"array", "func"})
                    THEN <<"(">> \o with \o <<")">> ELSE with, everywhere)
Spell(ty, d) == SpellWith(ty, d, FALSE)

(* Declarations the comparison is made for: no array of arrays and no         *)
(* function whose first parameter is made from void (parse_declarator_suffix  *)
(* nests the dimensions the other way round, and loses a token behind void).  *)
RECURSIVE BaseOf(_), TameType(_)
BaseOf(ty) == IF ty[1] \in {"ptr", "array", "func"} THEN BaseOf(ty[2]) ELSE ty
TameType(ty) ==
  /\ ty[1] = "array" => ty[2][1] # "array"
  /\ ty[1] = "func" => /\ \A i \in DOMAIN ty[3] : TameType(ty[3][i][2])
                       /\ ty[3] # <<>> => BaseOf(ty[3][1][2]) # <<"void">>
  /\ ty[1] \in {"ptr", "array", "func"} => TameType(ty[2])

(* Those that may stand in parentheses: arrays and functions are of int, as   *)
(* the placeholder is that parse_declarator reads them with.                  *)
RECURSIVE TameGroups(_)
TameGroups(ty) ==
  /\ ty[1] \in {"array", "func"} => ty[2] = <<"int">>
  /\ ty[1] = "func" => \A i \in DOMAIN ty[3] : TameGroups(ty[3][i][2])
  /\ ty[1] = "ptr" => TameGroups(ty[2])

-----------------------------------------------------------------------------
(* Expressions.  C's grammar, as the rank of each form. *)

BinaryRank(op) == CASE op = "||" -> 3 [] op = "&&" -> 4 [] op = "|" -> 5 [] op = "^" -> 6
                    [] op = "&" -> 7 [] op \in {"==", "!="} -> 8
                    [] op \in {"<", "<=", ">", ">="} -> 9 [] op \in {"<<", ">>"} -> 10
                    [] op \in {"+", "-"} -> 11 [] op \in {"*", "/", "%"} -> 12
RankOf(e) == CASE e[1] = "comma" -> 0 [] e[1] = "assign" -> 1 [] e[1] = "cond" -> 2
               [] e[1] = "bin" -> BinaryRank(e[2]) [] e[1] = "cast" -> 13
               [] e[1] \in {"un", "sizeof type", "alignof"} -> 14
               [] e[1] \in {"call", "index", "member", "post"} -> 15
               [] OTHER -> 16

RECURSIVE Written(_)
Written(e) ==
  LET at(x, rank) == IF RankOf(x) < rank THEN <<"(">> \o Written(x) \o <<")">> ELSE Written(x)
  IN CASE e[1] \in {"int", "var"} -> <<e[2]>>
       [] e[1] = "str" -> [i \in 1..e[2] |-> "\"s\""]
       [] e[1] = "comma" -> at(e[2], 0) \o <<",">> \o at(e[3], 1)
       [] e[1] = "assign" -> at(e[3], 14) \o <<e[2]>> \o at(e[4], 1)
       [] e[1] = "cond" -> at(e[2], 3) \o <<"?">> \o at(e[3], 0) \o <<":">> \o at(e[4], 2)
       [] e[1] = "bin" -> at(e[3], RankOf(e)) \o <<e[2]>> \o at(e[4], RankOf(e) + 1)
       [] e[1] = "cast" -> <<"(">> \o Spell(e[2], <<>>) \o <<")">> \o at(e[3], 13)
       [] e[1] = "un" -> <<e[2]>> \o at(e[3], IF e[2] \in {"++", "--", "sizeof"} THEN 14 ELSE 13)
       [] e[1] = "sizeof type" -> <<"sizeof", "(">> \o Spell(e[2], <<>>) \o <<")">>
       [] e[1] = "alignof" -> <<"_Alignof", "(">> \o Spell(e[2], <<>>) \o <<")">>
       [] e[1] = "call" -> at(e[2], 15) \o <<"(">> \o Commas([i \in DOMAIN e[3] |-> at(e[3][i], 1)]) \o <<")">>
       [] e[1] = "index" -> at(e[2], 15) \o <<"[">> \o Written(e[3]) \o <<"]">>
       [] e[1] = "member" -> at(e[3], 15) \o <<e[2], e[4]>>
       [] e[1] = "post" -> at(e[3], 15) \o <<e[2]>>

(* Expression statements the comparison is made for: one that starts with an  *)
(* identifier must come out the same when its operators are taken in the      *)
(* order written, and have nothing behind an assignment or a conditional.     *)
RECURSIVE InOrder(_)
InOrder(e) ==
  CASE e[1] = "bin" -> InOrder(e[3]) /\ (RankOf(e[4]) >= 13 \/ RankOf(e[4]) <= RankOf(e))
    [] e[1] = "cond" -> InOrder(e[2])
    [] e[1] = "comma" -> InOrder(e[2]) /\ e[2][1] \notin {"assign", "cond"}
    [] e[1] = "assign" -> RankOf(e[3]) >= 15
    [] OTHER -> TRUE
TameStatement(e) == IsIdent(Written(e)[1]) => InOrder(e)

-----------------------------------------------------------------------------
(* Statements. *)

(* An if without else at the end of a statement takes the next else. *)
RECURSIVE EndsOpen(_), WrittenStmt(_)
EndsOpen(s) == CASE s[1] = "if" -> s[4] = <<"none">> \/ EndsOpen(s[4])
                 [] s[1] \in {"while", "switch", "case", "label"} -> EndsOpen(s[3])
                 [] s[1] = "for" -> EndsOpen(s[5])
                 [] s[1] = "default" -> EndsOpen(s[2])
                 [] OTHER -> FALSE

Optional(e) == IF e = <<"none">> THEN <<>> ELSE Written(e)

RECURSIVE WrittenInit(_)
WrittenInit(e) == IF e[1] = "list" THEN <<"{">> \o Commas([i \in DOMAIN e[2] |-> WrittenInit(e[2][i])]) \o <<"}">>
                  ELSE Written(e)

WrittenStmt(s) ==
  CASE s[1] = "expr" -> Written(s[2]) \o <<";">>
    [] s[1] = "null" -> <<";">>
    [] s[1] = "block" -> <<"{">> \o FlattenSeq([i \in DOMAIN s[2] |-> WrittenStmt(s[2][i])]) \o <<"}">>
    [] s[1] = "if" -> <<"if", "(">> \o Written(s[2]) \o <<")">> \o WrittenStmt(s[3])
                        \o (IF s[4] = <<"none">> THEN <<>> ELSE <<"else">> \o WrittenStmt(s[4]))
    [] s[1] \in {"while", "switch"} -> <<s[1], "(">> \o Written(s[2]) \o <<")">> \o WrittenStmt(s[3])
    [] s[1] = "do" -> <<"do">> \o WrittenStmt(s[2]) \o <<"while", "(">> \o Written(s[3]) \o <<")", ";">>
    [] s[1] = "for" -> <<"for", "(">> \o (IF s[2] = <<"none">> THEN <<";">> ELSE WrittenStmt(s[2]))
                         \o Optional(s[3]) \o <<";">> \o Optional(s[4]) \o <<")">> \o WrittenStmt(s[5])
    [] s[1] = "case" -> <<"case", s[2], ":">> \o WrittenStmt(s[3])
    [] s[1] = "default" -> <<"default", ":">> \o WrittenStmt(s[2])
    [] s[1] = "label" -> <<s[2], ":">> \o WrittenStmt(s[3])
    [] s[1] \in {"break", "continue"} -> <<s[1], ";">>
    [] s[1] = "return" -> <<"return">> \o Optional(s[2]) \o <<";">>
    [] s[1] = "goto" -> <<"goto", s[2], ";">>
    [] s[1] = "decl" -> (IF s[4] THEN <<"static">> ELSE <<>>) \o Spell(s[3], <<s[2]>>)
                          \o (IF s[5] = <<"none">> THEN <<>> ELSE <<"=">> \o WrittenInit(s[5])) \o <<";">>
    [] s[1] = "typedef" -> <<"typedef">> \o Spell(s[3], <<s[2]>>) \o <<";">>

=============================================================================
