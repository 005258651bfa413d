\* One Moonraker device: every snapshot has the same order.
INIT Init
NEXT Next
CONSTANTS
  b1 = b1 b2 = b2 m1 = m1 t1 = t1 t2 = t2 r1 = r1 r2 = r2
  None = None
  Devices = {m1}
  Moonraker = {m1}
  Ftps = {}
  Connections <- OneConnection
  Tasks = {t1, t2}
  Watcher = Watcher
  Requests = {r1}
  JobIds = {1, 2, 3, 4, 5, 6}
  QueueCapacity = 6
  ChangeCapacity = 1
  MaxFetches = 1
  MaxRevision = 0
  MaxReports = 3
SYMMETRY Symmetry
INVARIANT ActiveJobIsCarried
