\* Two collectors of one suite execution at the same time.
CONSTANTS
  Collectors = {c1, c2}
  Mandatory = {m1, m2}
  Optional = {}
  Contents = {v1, v2}
  RunVersions = {r1}
  Inventories = {i1, i2}
  JobLogs = {}
  LoggedBase = b1
  Configured = {None, b2}
  Rerun = TRUE
  Overlapping = TRUE
  None = None
SPECIFICATION Spec
SYMMETRY Symmetry
INVARIANTS
  TypeOK
  ReceiptCoversText
  OrphanReceiptIsExplained
  PublicationSeam
  FailuresAgree
PROPERTIES
  EvidenceIsImmutable
CHECK_DEADLOCK FALSE
