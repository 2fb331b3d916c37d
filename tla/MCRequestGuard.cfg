SPECIFICATION Spec
CONSTANTS
  sales = sales
  None = None
  Users = {admin}
  Permissions <- MCPermissions
  ReadPermissions = {}
  DeletePermissions <- MCDelete
  Departments = {sales}
  Environments <- MCEnvironments
  FirstAccounts <- MCAccounts
  Lists <- MCLists
  HourAt <- MCHourAt
  DayAt <- MCDayAt
  Handlers = {h1, h2}
  Window = 2
  Span = 3
  Threshold = 1
  MaxTime = 1
  MaxChecks = 2
  MaxFaults = 1
SYMMETRY HandlerSymmetry
CHECK_DEADLOCK FALSE
INVARIANTS
  GuardTypeOK
PROPERTIES
  AccountChangesAudited
