SPECIFICATION Spec
CONSTANTS
  Files <- TwoFiles
  Tokens = {"SOL", "USDC"}
  Slippages = {10, 50}
  Ranges = {"30d", "all"}
  Month = "30d"
  All = "all"
  Short = {"30d"}
  Longer = "all"
  MaxRows = 5
  Kept = 5
  MaxActs = 4
  MaxVaults = 2
  MaxLogged = 7
INVARIANTS AdvisorsTypeOK AnswersMatch FeedFollowsLog
PROPERTIES WaitingEnds
CHECK_DEADLOCK FALSE
