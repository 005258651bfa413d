\* Liveness: one Bambu device with two endpoints, one viewer, no symmetry.
SPECIFICATION Spec
CONSTANTS
  b1 = b1 m1 = m1 v1 = v1 v2 = v2 w1 = w1 w2 = w2 e1 = e1 e2 = e2
  None = None
  Unattended = Unattended
  Devices = {b1}
  Moonraker = {}
  Endpoints <- TwoEndpoints
  Viewers = {v1}
  Workers = {w1, w2}
  QueueCapacity = 1
  MaxPanics = 1
  MaxMoves = 1
PROPERTIES DeadWorkerIsReplaced ViewersGetFrames
CHECK_DEADLOCK FALSE
