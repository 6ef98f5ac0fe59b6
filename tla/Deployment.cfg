CONSTANTS
  stage = stage
  person = person
  Actor <- TwoActors
  Target = {"local", "named", "forward"}
  MaxSpawns = 3
SPECIFICATION DeploySpec
INVARIANT NoLostAgent
INVARIANT DownMeansDown
INVARIANT UpMeansUp
SYMMETRY Callers
CHECK_DEADLOCK FALSE
