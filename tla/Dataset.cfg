CONSTANTS
  ready = ready
  bare = bare
  mined = mined
  Generated = {ready, bare}
  Mined = {mined}
  Unmocked = {bare}
  MaxExamples = 2
  MaxRuns = 3
  MaxCommands = 1
SPECIFICATION Spec
INVARIANT DecisionStands
INVARIANT PublishedOnce
INVARIANT PublishedIsThere
PROPERTY NothingApprovesItself
CHECK_DEADLOCK FALSE
