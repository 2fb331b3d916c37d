SPECIFICATION Spec
CONSTANTS
  alice = alice
  manager = manager
  None = None
  Users = {alice}
  Roles = {manager}
  Permissions = {approve}
  Handlers = {h1, h2}
  RemoteCache = FALSE
  Seeded <- SeededNobody
  CacheTtl = 2
  MaxFaults = 0
INVARIANTS
  StaleOnlyOutOfIndex
