SPECIFICATION Spec
CONSTANTS
  Prefix <- MCPrefix
  BitLen <- MCBitLen
  Anc <- MCAnc
  AS <- MCAS
  Reserved <- MCReserved
  Roa <- MCRoa
  Update <- MCUpdate
  UpdPrefix <- MCUpdPrefix
  UpdAS <- MCUpdAS
  MaxCount = 1
  Mod = 8
CHECK_DEADLOCK FALSE
INVARIANT PrefixOfKnownNodeExists
