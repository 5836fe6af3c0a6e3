SPECIFICATION FairSpec
CONSTANTS
  Tokens = {t1, t2}
  Requests = {r1}
  Images = 2
  Settings <- AllOrNothing
  Watcher = watcher
  Admins = {admin}
  MaxQuota = 1
  AdminStatuses = {"disabled"}
  None = None
INVARIANTS TypeOK NoLimitedKept
PROPERTIES GoneStaysGone PoolRecovers
