CONSTANTS
  first = first
  second = second
  x = x
  y = y
  Commands <- MCCommands
  Contents <- MCContents
  Given = given
  Strategies = {healthy, degraded}
  Default = healthy
  MaxTurns = 2
  None = None
  MaxCommands = 4
SPECIFICATION Spec
INVARIANT ReferencesResolve
INVARIANT DecisionStandsAlone
SYMMETRY Alike
CHECK_DEADLOCK FALSE
