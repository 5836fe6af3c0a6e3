SPECIFICATION FairJobsSpec
CONSTANTS
  Admins = {a1}
  Pollers = {p1}
  Jobs = {j1, j2}
  Deployments = {"binary", "docker"}
  MayDie = {"service", "helper"}
  JobStale = 1
  OrphanStale = 1
  CreateGrace = 1
  MaxTime = 1
  NoId = NoId
PROPERTIES OrphansEnd
