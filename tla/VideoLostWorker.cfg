\* A viewer who comes while the worker is leaving.
SPECIFICATION Spec
CONSTANTS
  b1 = b1 m1 = m1 v1 = v1 v2 = v2 w1 = w1 w2 = w2 e1 = e1 e2 = e2
  None = None
  Unattended = Unattended
  Devices = {m1}
  Moonraker = {m1}
  Endpoints <- OneEndpoint
  Viewers = {v1}
  Workers = {w1, w2}
  QueueCapacity = 1
  MaxPanics = 0
  MaxMoves = 0
PROPERTY EveryViewerHasAWorker
CHECK_DEADLOCK FALSE
