SPECIFICATION Spec
CONSTANTS
  Tabs = {t1, t2}
  Framed = {t1}
  MaxKeys = 2
  MaxEvents = 2
  MaxTroubles = 1
  None = None
PROPERTIES CleanupSparesOthers ShowsWhatIsStored TabsComeToRest
CHECK_DEADLOCK FALSE
