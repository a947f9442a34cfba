SPECIFICATION Spec
CONSTANTS
  None = None
  Peer = {1, 2}
  UidOf <- MCUidOf
  Rank <- MCRank
  Outcome <- MCOutcome
  Ignored = {"INVALID"}
  LocalPref <- MCLocalPref
  PreferValid = TRUE
  MaxUpdates = 3
  MaxEvents = 2
  MaxChanges = 4
CHECK_DEADLOCK FALSE
INVARIANTS
  ReplacedGetsNewUpdateID
