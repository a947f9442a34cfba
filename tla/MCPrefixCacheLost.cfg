SPECIFICATION Spec
CONSTANTS
  Prefix <- SmallPrefix
  BitLen <- SmallBitLen
  Anc <- SmallAnc
  AS <- MCAS
  Reserved <- MCReserved
  Roa <- SmallRoa
  Update <- SmallUpdate
  UpdPrefix <- SmallUpdPrefix
  UpdAS <- SmallUpdAS
  MaxCount = 2
  Mod = 8
CHECK_DEADLOCK FALSE
INVARIANT MatchedIsValid
