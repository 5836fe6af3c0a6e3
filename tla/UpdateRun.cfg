SPECIFICATION RunSpec
CONSTANTS
  Admins = {a1, a2}
  Pollers = {p1}
  Jobs = {j1, j2}
  Deployments = {"binary", "docker"}
  MayDie = {"service", "helper"}
  JobStale = 2
  OrphanStale = 2
  CreateGrace = 1
  MaxTime = 1
  NoId = NoId
  Threads = {a1, a2}
  Releases = {r0, r1, r2}
  First = r0
  FailAt = {"moving", "clearing", "linkingCurrent", "linkingPrevious", "swappingPrevious", "swappingCurrent",
            "rbClearing", "rbLinking", "rbSwapping", "rbLinkingBack", "rbSwappingBack"}
  OneUpdate = FALSE
  MayCrash = TRUE
  None = None
INVARIANTS RunTypeOK AdmitsOneActive LinksStayRunnable
PROPERTIES UpdateCanBeUndone StoreAdmitsOneUpdate
SYMMETRY RunSymmetry
