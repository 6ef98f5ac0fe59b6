SPECIFICATION Spec
CONSTANTS
  Setups <- MCSetups
  ToolCalls <- MCToolCalls
  Phrases = {"p"}
  Replies <- MCReplies
  Verdicts = {0, 360000}
  Attempts = 2
INVARIANT SameAsSequential
INVARIANT OrderedSubset
INVARIANT ReasonsExplain
INVARIANT BlameIsRight
CHECK_DEADLOCK FALSE
