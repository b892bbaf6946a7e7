SPECIFICATION Spec
CONSTANTS
  explore = explore
  fast = fast
  ask = ask
  big = big
  again = again
  Hot = {explore}
  Warm = {fast}
  Role = {"explore", "fast"}
  Serves <- MCServes
  Call = {ask}
  Batch = {big, again}
  RoleOf <- MCRoleOf
  Size <- MCSize
  Threshold = 1
  Slots = 2
  WarmTimeout = 1
INVARIANTS
  TypeOK
  SlotsAreExact
  WarmIsWatched
PROPERTIES
  EveryClientReturns
CHECK_DEADLOCK FALSE
