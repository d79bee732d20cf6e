\* A chain of reruns, the first of which may be re-run.
CONSTANTS
  r1 = r1
  r2 = r2
  r3 = r3
  NoRun = NoRun
  Collectors = {c1, c2}
  Runs = {r1, r2, r3}
  SourceOf <- Chain
  Uploads <- MCUploads
  Restarted = {r1}
  MaxAttempt = 2
  MaxTime = 2
  MaxLineage = 2
SPECIFICATION Spec
SYMMETRY Symmetry
INVARIANTS
  TypeOK
  StandsOnItsBasis
  VerdictRestsOnSource
  SourceEvidenceIsPinned
  PublishedRerunStays
  LineageIsBounded
CHECK_DEADLOCK FALSE
