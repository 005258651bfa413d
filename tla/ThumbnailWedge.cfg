\* A queue of one job and no web request: a worker's failure to enqueue races the watcher.
SPECIFICATION Spec
CONSTANTS
  b1 = b1 b2 = b2 m1 = m1 t1 = t1 t2 = t2 r1 = r1 r2 = r2
  None = None
  Devices = {b1, b2}
  Moonraker = {}
  Ftps = {}
  Connections <- TwoConnections
  Tasks = {t1}
  Watcher = Watcher
  Requests = {}
  JobIds = {1, 2, 3, 4}
  QueueCapacity = 1
  ChangeCapacity = 1
  MaxFetches = 1
  MaxRevision = 3
  MaxReports = 0
PROPERTY LoadingEnds
CHECK_DEADLOCK FALSE
