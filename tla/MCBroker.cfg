SPECIFICATION BrokerSpec
CONSTANTS
  d1 = d1
  d2 = d2
  p1 = p1
  p2 = p2
  c1 = c1
  c2 = c2
  None = None
  Device <- MCDevice
  Peer <- MCPeer
  CallId <- MCCall
  MaxCalls = 1
  MaxConnections = 1
SYMMETRY Symmetry
INVARIANTS NothingLeftBehind NoConnectionBeside
PROPERTIES OpenPeerIsKept ImplementsRemoteCalls
