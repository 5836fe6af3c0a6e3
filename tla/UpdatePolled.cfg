SPECIFICATION JobsSpec
CONSTANTS
  Admins = {a1, a2}
  Pollers = {p1}
  Jobs = {j1, j2, j3}
  Deployments = {"binary"}
  MayDie = {}
  JobStale = 9
  OrphanStale = 9
  CreateGrace = 9
  MaxTime = 0
  NoId = NoId
INVARIANT AtMostOneActive
