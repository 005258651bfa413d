\* Liveness: one Bambu device, three revisions, two permits, no symmetry.
SPECIFICATION Spec
CONSTANTS
  b1 = b1 b2 = b2 m1 = m1 t1 = t1 t2 = t2 r1 = r1 r2 = r2
  None = None
  Devices = {b1}
  Moonraker = {}
  Ftps = {b1}
  Connections <- OneConnection
  Tasks = {t1, t2}
  Watcher = Watcher
  Requests = {}
  JobIds = {1, 2, 3, 4}
  QueueCapacity = 3
  ChangeCapacity = 1
  MaxFetches = 2
  MaxRevision = 3
  MaxReports = 0
PROPERTIES LoadingEnds RevisionsReachTheCache
CHECK_DEADLOCK FALSE
