\* One command of any kind, two suites, two runs.
CONSTANTS
  sql = sql
  medium = medium
  Suites = {sql, medium}
  Reporters <- MCReporters
  Kinds = {"collect", "collect-commit", "collect-base"}
  p1 = p1
  p2 = p2
  fork = fork
  left = left
  right = right
  Pairs = {p1, p2}
  MergeBases <- MCMergeBases
  Unresolved = Unresolved
  Timeout = 4
  PollInterval = 2
  LookTime = 1
  MaxTime = 6
  MaxReportTime = 2
SPECIFICATION FairSpec
INVARIANTS
  TypeOK
  TerminalInTimeIsSeen
  ReceiptExplainsBase
  NewestRunIsFollowed
  TerminalByItsOwnRun
PROPERTIES
  WaitingEnds
CHECK_DEADLOCK FALSE
