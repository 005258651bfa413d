\* The page, whose early returns pass over a picture that it has taken out of the slot.
SPECIFICATION ServicesSpec
CONSTANTS
  None = None  Torn = Torn  Partial = Partial
  Tasks = {watcher, broker}  Monitor = watcher
  Workers = {w1, w2}  Streams = {s1}
  QueueCapacity = 1  ChangeCapacity = 1  MaxVersion = 2  MaxPanics = 1
  MaxClock = 5  MaxLosses = 2  SameInstant = FALSE
  Files = {f1, f2}  Parts = 2  Minute = 1  MaxElapsed = 2  MaxPrints = 2
  MaxUnread = 1  MaxFailures = 1
  a = a  b = b  c = c  Configurations <- MCConfigurations  Concurrency = 2
  Pairers = {p1, p2}  Logins = {l1}  h1 = h1  Hosts <- MCHosts  HostOf <- MCHostOf  MaxRuns = 2
  Archives <- MCArchives  Jobs <- MCJobs  Listings <- MCListings  Previews <- MCPreviews
  MaxFetches = 2
  Selected = b  Reports <- MCReports  MaxRequests = 3
PROPERTY NewKeyIsTried
CHECK_DEADLOCK FALSE
