SPECIFICATION Spec
CONSTANTS
  Roa = {r1, r2}
  MaxSerial = 2
  MaxSession = 3
  MaxLosses = 1
  MaxRestarts = 1
  MaxBuffer = 1
CHECK_DEADLOCK FALSE
INVARIANTS
  TypeOK
  

  
  
