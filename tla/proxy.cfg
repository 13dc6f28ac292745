SPECIFICATION ProxySpec
CONSTANTS
  Client = {c1, c2}
  Device = {d1, d2}
  Request = {r1, r2}
  Path = {p1}
  Event = {e1}
  Version = {v2}
  None = None
SYMMETRY Symmetry
INVARIANTS ProxyTypeOK OneDevicePerPort OpenedOnce ServedByTracked BusyIsConfiguring SubscribedInModem VersionKnown
CHECK_DEADLOCK FALSE
