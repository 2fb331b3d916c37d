SPECIFICATION Spec
CONSTANTS
  alice = alice
  manager = manager
  None = None
  Users = {alice, bob}
  Roles = {manager}
  Permissions = {approve}
  Handlers = {h1, h2}
  RemoteCache = FALSE
  Seeded <- SeededNobody
  CacheTtl = 1
  MaxFaults = 0
INVARIANTS
  CacheExact
  IndexExact
SYMMETRY HandlerSymmetry
