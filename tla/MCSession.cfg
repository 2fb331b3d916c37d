CONSTANTS
  ann = ann
  bob = bob
  None = None
  Users <- MCUsers
  Submits = {s1, s2}
  MaxFaults = 2
  MaxReloads = 1
SPECIFICATION SessionSpec
INVARIANTS SessionTypeOK ShownUserOwnsSession
PROPERTIES LoadingEnds
CHECK_DEADLOCK FALSE
