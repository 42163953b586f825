CONSTANTS
  Names <- MCNames
  Expressions <- MCExpressions
  Statements <- MCStatements
  Declared <- MCDeclared
  Specified <- MCSpecified
  MaxDepth = 4
SPECIFICATION Spec
INVARIANTS
  TreesAsC
  TypesAsC
  NamesAsC
