SPECIFICATION FairSpec
CONSTANTS
  None = None e1 = e1 e2 = e2
  NFolders = 2
  Episodes = {e1}
  MaxRefreshes = 3
  MaxChanges = 3
INVARIANTS LatestShown OneAtATime AttentionNotified
PROPERTIES BarSettles NoRespam
CHECK_DEADLOCK FALSE
