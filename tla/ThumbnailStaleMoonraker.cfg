\* The comment on older reports, read for a Moonraker device.
SPECIFICATION Spec
CONSTANTS
  b1 = b1 b2 = b2 m1 = m1 t1 = t1 t2 = t2 r1 = r1 r2 = r2
  None = None
  Devices = {m1}
  Moonraker = {m1}
  Ftps = {}
  Connections <- OneConnection
  Tasks = {t1}
  Watcher = Watcher
  Requests = {r1}
  JobIds = {1, 2, 3, 4}
  QueueCapacity = 3
  ChangeCapacity = 1
  MaxFetches = 2
  MaxRevision = 0
  MaxReports = 2
INVARIANT MoonrakerCacheIsCurrent
