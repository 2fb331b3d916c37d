SPECIFICATION Spec
CONSTANTS
  carol = carol
  mgr = mgr
  demo = demo
  temp = temp
  perm = perm
  None = None
  Users = {carol, mgr}
  Resources = {demo}
  Requests = {temp, perm}
  Handlers = {h1, h2}
  Requester <- MCRequester
  Resource <- MCResource
  PermanentRequests <- MCPermanent
  Seconds <- MCSeconds2
  MaxFaults = 1
SYMMETRY HandlerSymmetry
INVARIANTS
  TypeOK
  SeparationOfDuty
  GrantProvenance
  NoEarlyExpiry
  ExpiryScheduled
  KeyLifetime
  ExpiryNotLost
PROPERTIES
  ImplementsLease
