SPECIFICATION ImageSpec
CONSTANTS
  MaxConvs = 2
  MaxListed = 1
  MaxTurns = 2
  Images = {1, 2}
  Singles = {1}
  Workers = {1, 2}
  Loops = {l1, l2}
  MaxMounts = 2
  Hazards = {"leave", "hasty", "delete", "clear", "signout", "logout", "failure", "reload"}
  MaxEvents = 3
  None = None
  Counts = {1, 2, 3}
  RoundImages = {1, 2}
  MaxProgress = 2
INVARIANTS ImagesTypeOK RunsAreSingle StoreIsTrue SettledUnlessCutOff ChargesDelivered
PROPERTIES OutcomesStay ImagesEnd
CHECK_DEADLOCK FALSE
