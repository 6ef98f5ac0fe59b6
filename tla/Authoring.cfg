SPECIFICATION Spec
CONSTANTS
  Configs <- MCConfigs
  SearchNames = {"look"}
  MapAnswers <- MCMapAnswers
  Texts = {t1, t2}
  BatchSize = 2
  MaxReply = 2
  MaxRetries = 1
INVARIANT PlanIsSound
INVARIANT SizeIsThePlans
INVARIANT GapsAgree
SYMMETRY Alike
CHECK_DEADLOCK FALSE
