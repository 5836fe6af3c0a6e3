SPECIFICATION Spec
CONSTANTS
  c1 = c1  c2 = c2
  Users = {u1, u2}
  Slots = {e1, e2, e3}
  Codes = {c1, c2}
  CodeGrant <- CoinsAndSlot
  Counts = {1}
  Deliveries = {0, 1}
  ImageCost = 5
  InitialQuota = 5
  InitialConcurrency = 1
  ManagedUsers = {u1}
  ManagedCodes = {}
  AdminQuotas <- TypedBalances
  AdminLimits = {}
  CheckinEnabled = FALSE
  DailyReward = 1
  BonusEvery = 0
  BonusReward = 0
  StaleAfter = 1
  Throttle = 1
  MaxTime = 1
  None = None
INVARIANTS TypeOK ActiveMatchesReserved OwnersExist
PROPERTIES HonoursContract DoneOnce
SYMMETRY SlotSymmetry
