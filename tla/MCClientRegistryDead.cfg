SPECIFICATION Spec
CONSTANTS
  Conn = {c1}
  Proxy <- MCProxy
  NumClients = 2
  Configured <- NoneConfigured
  Update = {u1}
  MinClients = 2
  Wrap = 8
  CountMod = 8
  MaxQueue = 2
  NULL = NULL
CHECK_DEADLOCK FALSE
INVARIANT ActiveMappingIsLive
