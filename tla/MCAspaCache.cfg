SPECIFICATION Spec
CONSTANTS
  NoObject = NoObject
  Freed = Freed
  None = None
  Update = {u1, u2}
  PathOf <- MCPathOf
  TypeOf <- MCTypeOf
  Stream = {"DOWNSTREAM"}
  Object <- MCObject
  Default = {"UNDEFINED", "INVALID", "DONOTUSE"}
  AFI = 1
  MaxTime = 2
  MaxChanges = 1
  MaxRequests = 2
SYMMETRY UpdatesAlike
CHECK_DEADLOCK FALSE
INVARIANTS
  TypeOK
  HopsDecide
  PathsCurrent
  UpdatesFollowPath
  ToldStored
