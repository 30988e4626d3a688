CONSTANTS
  c1 = c1
  c2 = c2
  a = a
  b = b
  Caller = {c1, c2}
  None = None
  Torn = Torn
  Pid <- MCPid
  Reserved = {2}
  Address <- MCAddress
  MaxBorn = 3
  Grace = 1
  MaxConn = 3
  Setting <- StuckMarker
SPECIFICATION Spec
INVARIANTS ResumeSettles
