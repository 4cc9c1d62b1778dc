CONSTANTS
  Clients = {"c1", "c2"}
  Known <- MCKnown
  Unreadable = {"broken"}
  Requests <- MCRequests
SPECIFICATION Spec
CHECK_DEADLOCK FALSE
INVARIANT LocalAgreesWithRemote
PROPERTY ServiceSpec
PROPERTY EveryoneIsServed
