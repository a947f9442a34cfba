SPECIFICATION Spec
CONSTANTS
  NoKey = NoKey
  None = None
  Update <- MCUpdate
  Client = {c1}
  Key <- MCKey
  Path <- MCPath
  Blocks <- MCBlocks
  Signed <- MCSigned
  ECDSA = 1
  CounterMod = 4
  MaxCount <- MCMaxCount
  MaxRequests = 1
CHECK_DEADLOCK FALSE
INVARIANTS
  TypeOK
  RegisteredUnderAll
  
  
  
