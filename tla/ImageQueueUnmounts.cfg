SPECIFICATION FairSpec
CONSTANTS
  MaxConvs = 2
  MaxListed = 1
  MaxTurns = 2
  Images = {1, 2}
  Singles = {1, 2}
  Workers = {1, 2}
  Loops = {l1, l2}
  MaxMounts = 2
  Hazards = {"leave"}
  MaxEvents = 3
  None = None
PROPERTY UnmountsKeepTurnsAlive
CHECK_DEADLOCK FALSE
