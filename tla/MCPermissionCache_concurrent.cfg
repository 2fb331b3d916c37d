SPECIFICATION FairSpec
CONSTANTS
  alice = alice
  manager = manager
  None = None
  Users = {alice}
  Roles = {manager}
  Permissions = {approve, read}
  Handlers = {h1, h2}
  RemoteCache = TRUE
  Seeded <- SeededAlice
  CacheTtl = 1
  MaxFaults = 1
INVARIANTS
  TypeOK
PROPERTIES
  NoResurrection
  LostPermissionLeaves
