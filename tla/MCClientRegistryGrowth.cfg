SPECIFICATION Spec
CONSTANTS
  Conn = {c1, c2}
  Proxy <- MCProxy
  NumClients = 2
  Configured <- NoneConfigured
  Update = {u1, u2}
  MinClients = 1
  Wrap = 8
  CountMod = 8
  MaxQueue = 2
  NULL = NULL
CHECK_DEADLOCK FALSE
INVARIANT CountsReferences
