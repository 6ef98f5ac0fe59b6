CONSTANTS
  c1 = c1
  c2 = c2
  Client <- TwoClients
  MaxJobs = 2
SPECIFICATION JobsSpec
INVARIANT OnePipeline
INVARIANT RunningIsRecorded
PROPERTY RefusalEnds
CHECK_DEADLOCK FALSE
