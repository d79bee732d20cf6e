\* Two suites share two permits, and any download may stall.  (No symmetry: it
\* would not be sound for the liveness property.)
CONSTANTS
  Suites = {sql, shell}
  Shards = 2
  Plan = 1
  Serial = 1
  Junits = 1
  Window = 1
  Concurrency = 2
  MaxBad = 2
SPECIFICATION FairSpec
INVARIANTS
  TypeOK
  SuitesAreIndependent
  LedgerTellsTheTruth
PROPERTIES
  EverySuiteEnds
