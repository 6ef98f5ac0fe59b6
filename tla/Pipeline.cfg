CONSTANTS
  N = 5
  Deps <- MCDeps
  Optional = {4}
  Always = {5}
  Retries <- MCRetries
  Skippable = {4}
  Review = 1
  Deploy = 2
  Infer = 3
  Teardown = 4
  Report = 5
  Required = {1, 2, 3}
  FromStages = {0, 2, 3}
  UntilStages = {0, 2}
  PeopleDeploy = TRUE
SPECIFICATION PSpec
INVARIANT TeardownHolds
INVARIANT VerdictIsEarned
CHECK_DEADLOCK FALSE
