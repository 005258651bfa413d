\* One Bambu device that changes task, two overlapping web requests, a queue of one job.
INIT Init
NEXT Next
CONSTANTS
  b1 = b1 b2 = b2 m1 = m1 t1 = t1 t2 = t2 r1 = r1 r2 = r2
  None = None
  Devices = {b1}
  Moonraker = {}
  Ftps = {b1}
  Connections <- OneConnection
  Tasks = {t1, t2}
  Watcher = Watcher
  Requests = {r1, r2}
  JobIds = {1, 2, 3, 4, 5, 6}
  QueueCapacity = 1
  ChangeCapacity = 1
  MaxFetches = 1
  MaxRevision = 3
  MaxReports = 0
SYMMETRY Symmetry
INVARIANTS TypeOK LoadingHasItsJob CacheShowsLatest ServedIsFresh WatcherIsUpToDate
PROPERTIES FetchStartsFromLatest ImplementsCache
