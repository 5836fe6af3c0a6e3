SPECIFICATION FairSpec
CONSTANTS
  c1 = c1  c2 = c2
  Users = {u1}
  Slots = {e1}
  Codes = {c1}
  CodeGrant <- JustCoins
  Counts = {1}
  Deliveries = {1}
  ImageCost = 5
  InitialQuota = 5
  InitialConcurrency = 1
  ManagedUsers = {u1}
  ManagedCodes = {c1}
  AdminQuotas = {2}
  AdminLimits = {0}
  CheckinEnabled = TRUE
  DailyReward = 1
  BonusEvery = 2
  BonusReward = 3
  StaleAfter = 1
  Throttle = 1
  MaxTime = 4
  None = None
INVARIANTS RowsExplained
PROPERTIES AbandonedAreRecovered
