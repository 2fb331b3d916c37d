CONSTANTS
  first = first
  standalone = standalone
  request = request
  read = read
  export = export
  super = super
  None = None
  Runs <- MCRuns
  MayRun <- MCMayRun
  ServicePerms <- MCServicePerms
  StandalonePerms <- MCStandalonePerms
  CreatedPerm = read
  StandaloneRoles <- MCStandaloneRoles
  SuperAdmin = super
  MaxFaults = 1
SPECIFICATION FairSpec
INVARIANTS TypeOK SeriallyUnique FailsForCause DoneMeansSeeded
PROPERTIES EveryRunEnds
CHECK_DEADLOCK FALSE
