\* Three collectors one after the other, any of them possibly killed, each
\* with an artifact base set or without, while the run record may change.
CONSTANTS
  Collectors = {c1, c2, c3}
  Mandatory = {m1}
  Optional = {}
  Contents = {v1, v2}
  RunVersions = {r1, r2}
  Inventories = {i1}
  JobLogs = {j1}
  LoggedBase = b1
  Configured = {None, b2}
  Rerun = FALSE
  Overlapping = FALSE
  None = None
SPECIFICATION Spec
SYMMETRY Symmetry
INVARIANTS
  PublishedStaysReusable
  CutPublicationResumes
CHECK_DEADLOCK FALSE
