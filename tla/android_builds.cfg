SPECIFICATION FairSpec
CONSTANTS
  Clicks = {c1, c2}
  Queries = {q1}
  NoOne = NoOne
  HttpFails = {c1}
  SsmFails = {c1}
  Killed = {c2}
  ClaimAge = 1
  RestartAge = 2
  StealAge = 2
  MaxTime = 3
CHECK_DEADLOCK FALSE
INVARIANTS
  OverlapOnlyByRobbery
  FilesOfRunningBuild
PROPERTIES
  BuildSettles
