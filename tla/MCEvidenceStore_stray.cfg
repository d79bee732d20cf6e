\* Two collectors at once: what the index says of the other one's temporary file.
CONSTANTS
  Collectors = {c1, c2}
  Mandatory = {m1}
  Optional = {}
  Contents = {v1, v2}
  RunVersions = {r1}
  Inventories = {i1}
  JobLogs = {}
  LoggedBase = b1
  Configured = {None}
  Rerun = FALSE
  Overlapping = TRUE
  None = None
SPECIFICATION Spec
INVARIANTS
  PublishedStaysReusable
CHECK_DEADLOCK FALSE
