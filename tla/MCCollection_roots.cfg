\* Two overlapping commands: `collect` for a pull request, or `collect-commit` that
\* follows the commit or asks for an attempt.
CONSTANTS
  sql = sql
  r1 = r1
  Commands = {c1, c2}
  Suites = {sql}
  Runs = {r1}
  RunOf <- SqlRun
  MaxAttempt = 3
  Modes = {"pr", "commit"}
  Explicit = TRUE
SPECIFICATION Spec
SYMMETRY Symmetry
INVARIANTS
  TypeOK
  ManifestSelectsPublished
  NoResultMeansInterrupted
  ManifestOfTheHead
  EvidenceIsNeverOlder
  ManifestNamesItsAttempt
  ManifestSelectsCompleted
CHECK_DEADLOCK FALSE
