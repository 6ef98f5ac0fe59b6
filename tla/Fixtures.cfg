SPECIFICATION FixturesSpec
CONSTANTS
  PartConforms <- MCPartConforms
  PartExample <- MCPartExample
  Tools = {"search"}
  Catalogs <- MCCatalogs
  Values <- MCValues
  Facts = {"x", "y"}
  Mockings <- MCMockings
  MaxRules = 1
INVARIANT ToolStaysAnswerable
INVARIANT GeneratedConforms
INVARIANT EdgeIsExercised
CHECK_DEADLOCK FALSE
