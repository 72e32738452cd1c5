SPECIFICATION Spec
CONSTANTS
  c1 = c1
  c2 = c2
  c3 = c3
  c4 = c4
  p1 = p1
  p2 = p2
  p3 = p3
  Pid <- MCPid
  Conn <- MCConn
  PidOf <- MCPidOf
  IpOf <- MCIpOf
  Exempt <- MCExempt
  MaxConnections = 2
  MaxPerIp = 2
  MaxCid = 4101
INVARIANTS
  StationReachable
  OnlyCurrentCidsResolve
  IpAccounting
  GlobalCapHolds
PROPERTIES
  ImplementsPresence
