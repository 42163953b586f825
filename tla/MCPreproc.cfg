CONSTANTS
  Names <- MCNames
  Definitions <- MCDefinitions
  Conditions <- MCConditions
  Texts <- MCTexts
  Headers <- MCHeaders
  IncludeLimit = 0
  MaxLines = 5
  MaxTexts = 2
  Expand <- ExpandLine
  EvalIf <- ConditionOf
  Holds <- CondHolds
  Covered <- TameCondition
SPECIFICATION Spec
CHECK_DEADLOCK FALSE
INVARIANTS
  GroupsAsC
  OutputAsC
  TextAsC
  ConditionsAsC
