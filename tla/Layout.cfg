CONSTANTS
  OlderStates <- MCOlderStates
  MaxRuns = 2
SPECIFICATION Spec
INVARIANT RulesAreTheAuthored
INVARIANT ReadersAgree
PROPERTY CompactKeepsView
PROPERTY OnlyCopiesAreLost
CHECK_DEADLOCK FALSE
