\* The cloud's broker with two devices, whose requests just fit, and a Moonraker printer.
SPECIFICATION Spec
CONSTANTS
  cloud = cloud lan = lan b1 = b1 b2 = b2 b3 = b3 m1 = m1
  Targets = {cloud, lan}
  DeviceIds <- TwoBrokers
  Moonraker = {m1}
  RequestCapacity = 4
  None = None
INVARIANTS TypeOK NothingOldIsShown StoreFollowsRuntime
PROPERTIES ImplementsPromise LostBrokerIsNoticed AttemptsGoOn ShutdownEnds
CHECK_DEADLOCK FALSE
