CONSTANTS
  one = one
  two = two
  Tabs <- MCTabs
  here = here
  there = there
  Names <- MCNames
  Notes = {7}
  MaxWrites = 3
  MaxActs = 3
SPECIFICATION Spec
INVARIANT StampMeansSeen
INVARIANT FormIsAsLeft
INVARIANT JobRunsWhereRecorded
SYMMETRY Alike
CHECK_DEADLOCK FALSE
