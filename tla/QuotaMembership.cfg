SPECIFICATION Spec
CONSTANTS
  c1 = c1  c2 = c2
  Users = {u1}
  Slots = {e1, e2}
  Codes = {c1, c2}
  CodeGrant <- TwoPlans
  Counts = {1, 2}
  Deliveries = {0, 1, 3}
  ImageCost = 5
  InitialQuota = 10
  InitialConcurrency = 2
  ManagedUsers = {}
  ManagedCodes = {}
  AdminQuotas = {}
  AdminLimits = {}
  CheckinEnabled = FALSE
  DailyReward = 1
  BonusEvery = 0
  BonusReward = 0
  StaleAfter = 1
  Throttle = 1
  MaxTime = 3
  None = None
INVARIANTS CoinsAreExact
SYMMETRY SlotSymmetry
