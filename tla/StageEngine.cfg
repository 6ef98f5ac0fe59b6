CONSTANTS
  N = 4
  Deps <- MCDeps
  Optional = {2}
  Always = {4}
  Retries <- MCRetries
  Skippable = {2}
SPECIFICATION Spec
INVARIANT NoStaleResult
INVARIANT DurableWhileRunning
PROPERTY ResumeKeepsComplete
PROPERTY RunEnds
PROPERTY ImplementsLedger
CHECK_DEADLOCK FALSE
