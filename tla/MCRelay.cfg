SPECIFICATION MCSpec
CONSTANTS
  h = h
  a = a
  b = b
  Key <- MCKey
  Req = {r1, r2}
  PortStart = 27100
  PortEnd = 27102
  Foreign = {27100}
  p1 = p1
  p2 = p2
  p3 = p3
  c1 = c1
  c2 = c2
  Pid <- MCPid
  Cid <- MCCid
  PidOfCid <- MCPidOfCid
  MaxClients = 1
  MaxPairs = 2
  ClientTtl = 1
  PairTtl = 2
  DedupeTtl = 0
  MaxNow = 3
  a1 = a1
  a2 = a2
  b1 = b1
  x1 = x1
  ipA = ipA
  ipB = ipB
  ipX = ipX
  Addr <- MCAddr
  IpOfAddr <- MCIpOfAddr
  Expected = {ipA, ipB}
  Strict = TRUE
  PendingMax = 2
  MaxArrivals = 3
INVARIANTS
  PortsAccounted
  LinkLossless
  PairStaysPrivate
PROPERTIES
  FailsOnlyWhenExhausted
  RequestsEnd
  QuietRelaysClose
  MarksOutliveEviction
  LearnsFailure
  ImplementsRelayKeys
