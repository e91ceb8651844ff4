CONSTANTS
  Tabs = {t1}
  Users = {ann, bob}
  Staff = {ann}
  Background = {b1}
  MaxTokens = 3
  MaxAttempts = 2
  None = None
SPECIFICATION FairSpec
INVARIANTS  ReplayOnlyAfterLoss 
PROPERTIES LoadingEnds
CHECK_DEADLOCK FALSE
