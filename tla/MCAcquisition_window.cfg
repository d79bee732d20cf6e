\* One suite, three shards, two of them in flight; the JUnit files of a shard
\* are downloaded side by side.
CONSTANTS
  Suites = {sql}
  Shards = 3
  Plan = 2
  Serial = 1
  Junits = 2
  Window = 2
  Concurrency = 2
  MaxBad = 3
SPECIFICATION Spec
INVARIANTS
  PermitsConserved
  ErrorIsDeterministic
