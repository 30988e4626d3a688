CONSTANTS
  c1 = c1
  c2 = c2
  d1 = d1
  d2 = d2
  Client = {c1, c2}
  Device = {d1, d2}
  Provider = {"DoT", "DHCP", "Custom"}
  None = None
  Settle = 2
  MaxDelay = 3
  Recheck = 2
  Interval = 5
  Nap = 3
  MaxRechecks = 1
  QueueSize = 1
  Setting <- MCSetting
SPECIFICATION FairSpec
INVARIANTS TypeOK ReadInTime
PROPERTIES PendingHolds ReportSettles DaemonReturns
CHECK_DEADLOCK FALSE
