SPECIFICATION FairSpec
CONSTANTS
  carol = carol
  mgr = mgr
  demo = demo
  temp = temp
  perm = perm
  None = None
  Users = {carol, mgr}
  Resources = {demo}
  Requests = {temp}
  Handlers = {h1, h2}
  Requester <- MCRequester
  Resource <- MCResource
  PermanentRequests <- MCPermanent
  Seconds <- MCSeconds2
  MaxFaults = 1
PROPERTIES
  TemporalKeyDies
  TemporalGrantEndsWithoutFault
  ExpiryAuditedWithoutFault
