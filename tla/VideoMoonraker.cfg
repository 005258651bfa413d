\* One Moonraker device, two viewers, a lifecycle queue of one worker.
SPECIFICATION Spec
CONSTANTS
  b1 = b1 m1 = m1 v1 = v1 v2 = v2 w1 = w1 w2 = w2 e1 = e1 e2 = e2
  None = None
  Unattended = Unattended
  Devices = {m1}
  Moonraker = {m1}
  Endpoints <- OneEndpoint
  Viewers = {v1, v2}
  Workers = {w1, w2}
  QueueCapacity = 1
  MaxPanics = 1
  MaxMoves = 0
INVARIANTS TypeOK OneWorkerPerDevice ArmedCameraHasItsWorker StopsOwnCamera
PROPERTIES UnwatchedWorkerEnds WatchedCameraIsRearmed
CHECK_DEADLOCK FALSE
