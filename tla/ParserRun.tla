----------------------------- MODULE ParserRun -----------------------------
(* The parser reading a translation unit item by item: the typedef scopes it  *)
(* keeps (scope_push, scope_pop, typedef_register, typedef_lookup) and the    *)
(* tree it builds of each item, beside what C makes of the same names and     *)
(* tokens.                                                                    *)
EXTENDS ParserStmt, CSyntax, FiniteSets

CONSTANTS
  Names,       \* identifiers declared as typedef names or as objects
  Expressions, \* expression trees read
  Statements,  \* statement trees read
  Declared,    \* types declared
  Specified,   \* declarations written from C's table: <<tokens, type>>
  MaxDepth     \* bound: scopes open at a time

ASSUME DepthAssumption == MaxDepth \in Nat

VARIABLES
  scopes,   \* p->scope, innermost last: typedef name -> type
  names,    \* C: in each scope, name -> <<"type", type>> or <<"object">>
  last      \* the item read last: [of, got, want, bad]

vars == <<scopes, names, last>>

Nothing == [of |-> "nothing", got |-> <<>>, want |-> <<>>, bad |-> FALSE]

(* typedef_lookup: the first entry found, from the innermost scope outwards. *)
Entry(n) == LET i == SelectLastInSeq(scopes, LAMBDA s : n \in DOMAIN s) IN scopes[i][n]
Table == [n \in UNION {DOMAIN scopes[i] : i \in DOMAIN scopes} |-> Entry(n)]

(* typedef_register. *)
Registered(defs) == [scopes EXCEPT ![Len(scopes)] = defs @@ @]

(* Mutant of Popped: a scope's typedefs stay behind. *)
PoppedLate(k) ==
  LET rest == SubSeq(scopes, 1, Len(scopes) - k)
      ended == SubSeq(scopes, Len(scopes) - k + 1, Len(scopes))
  IN Append(Front(rest), FoldLeft(LAMBDA a, b : b @@ a, Last(rest), ended))

(* scope_push and scope_pop, k times. *)
Pushed(k) == scopes \o [i \in 1..k |-> <<>>]
Popped(k) == SubSeq(scopes, 1, Len(scopes) - k)

-----------------------------------------------------------------------------
(* C: what a name is, and the typedef names in scope. *)

Bound(n) == \E i \in DOMAIN names : n \in DOMAIN names[i]
Meaning(n) == LET i == SelectLastInSeq(names, LAMBDA s : n \in DOMAIN s) IN names[i][n]
TypeNames == [n \in {m \in Names : Bound(m) /\ Meaning(m)[1] = "type"} |-> Meaning(n)[2]]

(* No object has been declared over a typedef name of an outer scope (the     *)
(* parser does not note ordinary declarations).                               *)
NothingHidden ==
  \A i, j \in DOMAIN names : \A n \in DOMAIN names[i] \cap DOMAIN names[j] :
    i < j => ~(names[i][n][1] = "type" /\ names[j][n][1] = "object")

Here == names[Len(names)]
Declares(n, m) == names' = [names EXCEPT ![Len(names)] = (n :> m) @@ @]

-----------------------------------------------------------------------------

AtFile == Len(scopes) = 1

(* One declaration item, read by parse_external_decl or parse_local_decl. *)
ReadDecl(ts) == Read(<<IF AtFile THEN "external declaration" ELSE "local declaration">>, ts, Table)

Typedef(n, ty) ==
  /\ n \notin DOMAIN Here
  /\ LET r == ReadDecl(<<"typedef">> \o Spell(ty, <<n>>) \o <<";">>)
     IN /\ scopes' = Registered(r.defs)
        /\ last' = [of |-> "decl", got |-> r.n, want |-> <<<<"typedef", n, ty>>>>, bad |-> r.bad]
  /\ Declares(n, <<"type", ty>>)

Object(n) ==
  /\ n \notin DOMAIN Here
  /\ LET r == ReadDecl(<<"int", n, ";">>) IN scopes' = Registered(r.defs)
  /\ Declares(n, <<"object">>)
  /\ last' = Nothing

(* A function body: a scope for the function and one for its block, the       *)
(* parameters in neither.  C has one for both.                                *)
BeginFunction(n) ==
  /\ AtFile
  /\ scopes' = Pushed(2)
  /\ names' = Append(names, n :> <<"object">>)
  /\ last' = Nothing
EndFunction ==
  /\ Len(scopes) = 3
  /\ scopes' = Popped(2)
  /\ names' = Front(names)
  /\ last' = Nothing

(* A block, or a for statement up to its closing: one scope each. *)
Open ==
  /\ ~AtFile
  /\ Len(scopes) < MaxDepth
  /\ scopes' = Pushed(1)
  /\ names' = Append(names, <<>>)
  /\ last' = Nothing
Close ==
  /\ Len(scopes) > 3
  /\ scopes' = Popped(1)
  /\ names' = Front(names)
  /\ last' = Nothing

-----------------------------------------------------------------------------
(* An item that reads one way or the other: n * m; and (n) - m; and           *)
(* sizeof(n); and n(m);                                                       *)
IsType(n) == n \in DOMAIN TypeNames

Ambiguous(n, m) ==
  LET vn == <<"var", n>>
      vm == <<"var", m>>
      ty == TypeNames[n]
      expr(e) == <<"expr", e>>
      decl(t) == <<"decl", m, t, FALSE, <<"none">>>>
  IN {[ts |-> <<n, "*", m, ";">>,
       want |-> IF IsType(n) THEN decl(<<"ptr", ty>>) ELSE expr(<<"bin", "*", vn, vm>>)],
      [ts |-> <<"(", n, ")", "-", m, ";">>,
       want |-> expr(IF IsType(n) THEN <<"cast", ty, <<"un", "-", vm>>>> ELSE <<"bin", "-", vn, vm>>)],
      [ts |-> <<"sizeof", "(", n, ")", ";">>,
       want |-> expr(IF IsType(n) THEN <<"sizeof type", ty>> ELSE <<"un", "sizeof", vn>>)],
      [ts |-> <<n, "(", m, ")", ";">>,
       want |-> IF IsType(n) THEN decl(ty) ELSE expr(<<"call", vn, <<vm>>>>)]}

(* The items up to the end of a block, each read as parse_compound_stmt does. *)
ReadItem(ts) == Read(<<"block">>, ts \o <<"}">>, Table)

ReadAmbiguous(n, m) ==
  /\ ~AtFile
  /\ Bound(n)
  /\ n # m
  /\ \E item \in Ambiguous(n, m) :
       LET r == ReadItem(item.ts)
       IN last' = [of |-> "name", got |-> r.n, want |-> <<"block", <<item.want>>>>, bad |-> r.bad]
  /\ UNCHANGED <<scopes, names>>

(* Trees are read alone, in the block of a first function (a bound). *)
Fresh == Len(scopes) = 3 /\ names[1] = <<>> /\ DOMAIN names[2] = {CHOOSE n \in Names : TRUE}

ReadTree(s) ==
  /\ Fresh /\ last = Nothing
  /\ LET r == ReadItem(WrittenStmt(s))
     IN last' = [of |-> "tree", got |-> r.n, want |-> <<"block", <<s>>>>, bad |-> r.bad]
  /\ UNCHANGED <<scopes, names>>

ReadDeclaration(ts, ty, x) ==
  /\ AtFile /\ names[1] = <<>> /\ last = Nothing
  /\ LET r == ReadDecl(ts \o <<";">>)
     IN last' = [of |-> "decl", got |-> r.n, want |-> <<<<"global", x, ty, {}, <<"none">>>>>>, bad |-> r.bad]
  /\ UNCHANGED <<scopes, names>>

-----------------------------------------------------------------------------
Init == scopes = <<<<>>>> /\ names = <<<<>>>> /\ last = Nothing

DeclareType == \E n \in Names, ty \in {<<"int">>, <<"ptr", <<"char">>>>} : Typedef(n, ty)
DeclareObject == \E n \in Names : Object(n)
EnterFunction == \E n \in Names : BeginFunction(n)
ReadName == \E n, m \in Names : ReadAmbiguous(n, m)
ReadExpression == \E e \in Expressions : ReadTree(<<"return", e>>)
ReadExprStmt == \E e \in {e \in Expressions : TameStatement(e)} : ReadTree(<<"expr", e>>)
ReadStatement == \E s \in Statements : ReadTree(s)
ReadDeclarator ==
  \E ty \in {ty \in Declared : TameType(ty)}, grouped \in BOOLEAN :
    /\ grouped => TameGroups(ty)
    /\ ReadDeclaration(SpellWith(ty, <<"x">>, grouped), ty, "x")
ReadSpecifiers == \E s \in Specified : ReadDeclaration(s[1], s[2], "x")

Next == \/ DeclareType \/ DeclareObject \/ EnterFunction \/ EndFunction \/ Open \/ Close
        \/ ReadName \/ ReadExpression \/ ReadExprStmt \/ ReadStatement \/ ReadDeclarator \/ ReadSpecifiers

Spec == Init /\ [][Next]_vars

AsWanted == last.got = last.want /\ ~last.bad

(* An expression or a statement is read back as the tree it was written from: *)
(* the precedence and grouping of every operator, casts against parentheses,  *)
(* else with the nearest if, the clauses of for, labels and initializers (the *)
(* parse functions).                                                          *)
TreesAsC == last.of = "tree" => AsWanted

(* A declared name gets the type C gives it: the specifiers in any order, and *)
(* declarators read from the name outwards (parse_declaration_specifiers,     *)
(* parse_declarator and its reconnection of grouped declarators).             *)
TypesAsC == last.of = "decl" => AsWanted

(* As long as no object hides a typedef name, the parser knows the typedef    *)
(* names C has in scope, with their types, and reads what depends on it the   *)
(* way C does: a declaration or a product, a cast or a difference             *)
(* (typedef_lookup, is_type_start).                                           *)
NamesAsC == NothingHidden => /\ Table = TypeNames
                             /\ last.of = "name" => AsWanted

=============================================================================
