SPECIFICATION Spec
CONSTANTS
  Conn = {c1, c2, c3}
  Proxy <- MCProxy
  NumClients = 2
  Configured <- MCConfigured
  Update = {u1}
  MinClients = 2
  Wrap = 8
  CountMod = 8
  MaxQueue = 2
  NULL = NULL
SYMMETRY Symm
CHECK_DEADLOCK FALSE
INVARIANTS
  TypeOK
  CountsReferences
  ClientsCompact
  MarkedIfUnreferenced
  
  
PROPERTY MappingKept
