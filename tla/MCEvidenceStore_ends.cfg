\* Two collectors at once, of one mandatory file and, with --include-binaries, an
\* artifact listing, until they end.
CONSTANTS
  Collectors = {c1, c2}
  Mandatory = {m1}
  Optional = {a1}
  Contents = {v1, v2}
  RunVersions = {r1}
  Inventories = {i1}
  JobLogs = {}
  LoggedBase = b1
  Configured = {None}
  Rerun = FALSE
  Overlapping = TRUE
  None = None
SPECIFICATION FairSpec
INVARIANTS
  OneAnswer
PROPERTIES
  EveryCollectorEnds
  ImplementsPublishOnce
CHECK_DEADLOCK FALSE
