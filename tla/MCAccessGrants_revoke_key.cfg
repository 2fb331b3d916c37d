SPECIFICATION Spec
CONSTANTS
  carol = carol
  mgr = mgr
  demo = demo
  temp = temp
  perm = perm
  None = None
  Users = {carol, mgr}
  Resources = {demo}
  Requests = {perm}
  Handlers = {h1, h2}
  Requester <- MCRequester
  Resource <- MCResource
  PermanentRequests <- MCPermanent
  Seconds <- MCSeconds
  MaxFaults = 0
INVARIANTS
  RevokeClearsKey
