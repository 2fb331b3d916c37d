SPECIFICATION Spec
CONSTANTS
  carol = carol
  mgr = mgr
  demo = demo
  temp = temp
  perm = perm
  None = None
  Users = {carol, mgr}
  Resources = {demo}
  Requests = {temp}
  Handlers = {h1}
  Requester <- MCRequester
  Resource <- MCResource
  PermanentRequests <- MCPermanent
  Seconds <- MCSeconds
  MaxFaults = 0
PROPERTIES
  RevokedNotExpired
