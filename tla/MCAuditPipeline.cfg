SPECIFICATION FairAuditSpec
CONSTANTS
  None = None
  Users = {u1}
  Permissions = {update, delete}
  ReadPermissions = {}
  DeletePermissions = {delete}
  Window = 2
  Span = 2
  HourAt <- MCHourAt
  Threshold = 2
  MaxTime = 3
  MaxChecks = 3
  MaxFaults = 1
CHECK_DEADLOCK FALSE
INVARIANTS
  AuditTypeOK
  NoDuplicateLogs
  RapidDenialsMarked
  MarkedForCause
  MarkedForDeniedChecks
  NoCheckLost
PROPERTIES
  ChecksLogged
