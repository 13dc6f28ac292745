SPECIFICATION MainFairSpec
CONSTANTS
  Client = {c1, c2}
  Device = {d1}
  Request = {r1, r2}
  Path = {p1}
  Event = {}
  Version = {}
  None = None
INVARIANTS ArmedOnce
PROPERTIES ExitsWithoutDevices ConfigEndsOrExits
CHECK_DEADLOCK FALSE
