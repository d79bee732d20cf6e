\* A refused collection leaves a summary for the old attempt.
CONSTANTS
  sql = sql
  r1 = r1
  Commands = {c1, c2}
  Suites = {sql}
  Runs = {r1}
  RunOf <- SqlRun
  MaxAttempt = 2
  Modes = {"commit"}
  Explicit = TRUE
SPECIFICATION Spec
SYMMETRY Symmetry
INVARIANTS
  OldAttemptIsItsOwn
CHECK_DEADLOCK FALSE
