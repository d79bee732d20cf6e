\* Two shards, two tests, two artifacts; one or two records wrong.
CONSTANTS
  a = a
  b = b
  small = small
  large = large
  NoBody = NoBody
  Shards = {1, 2}
  Artifacts = {1, 2}
  Bodies = {small, large}
  SizeOf <- MCSizeOf
  PerFile = 2
  Budget = 3
  Names = {a, b}
  MaxCases = 2
  Suites <- MCSuites
SPECIFICATION Spec
INVARIANTS
  TypeOK
  VerdictIsExplained
  BudgetIsConserved
  InventoryIsValid
CHECK_DEADLOCK FALSE
