CONSTANTS
  ann = ann
  bob = bob
  req = req
  None = None
  Users <- MCUsers
  Requests <- MCRequests
  Owner <- MCOwner
  Filters <- MCFilters
  Calls = {1, 2}
  Submits = {s1}
  MaxFaults = 1
  MaxReloads = 0
SPECIFICATION Spec
INVARIANTS TypeOK ReviewsOfOthersOnly ListFitsFilter
PROPERTIES SpinnerEnds
CHECK_DEADLOCK FALSE
