CONSTANTS
  o1 = o1
  o2 = o2
  o3 = o3
  n1 = n1
  n2 = n2
  n3 = n3
  OldParties <- MCOld
  NewParties <- MCNew
SPECIFICATION Spec
INVARIANT ResharingAccounting
PROPERTY ReshareRefinement
PROPERTY EndSendsReceived
\* The test function returns once router = "done".
CHECK_DEADLOCK FALSE
