\* Binaries are asked for after the suite was published without them.
CONSTANTS
  Collectors = {c1, c2}
  Mandatory = {m1}
  Optional = {a1}
  Contents = {v1, v2}
  RunVersions = {r1}
  Inventories = {i1}
  JobLogs = {}
  LoggedBase = b1
  Configured = {None}
  Rerun = FALSE
  Overlapping = FALSE
  None = None
SPECIFICATION Spec
INVARIANTS
  IndexConflictIsContradiction
CHECK_DEADLOCK FALSE
