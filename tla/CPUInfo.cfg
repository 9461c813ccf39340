CONSTANTS
  LCores = {0, 1, 2}
  Ids = {0, 1}
  MaxCores = 3
SPECIFICATION Spec
INVARIANTS
  TypeOK
  CoreQueriesExact
  IDQueriesExact
