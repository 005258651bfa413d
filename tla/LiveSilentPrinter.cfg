\* A Moonraker printer that loses its power.
SPECIFICATION Spec
CONSTANTS
  cloud = cloud lan = lan b1 = b1 b2 = b2 b3 = b3 m1 = m1
  Targets = {cloud}
  DeviceIds <- OneBroker
  Moonraker = {m1}
  RequestCapacity = 4
  None = None
PROPERTIES LostPrinterIsNoticed
CHECK_DEADLOCK FALSE
