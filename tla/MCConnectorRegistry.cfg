\* Every endpoint; two ids of one name, two handlers in flight.
CONSTANTS
  c1 = c1
  c2 = c2
  r1 = r1
  r2 = r2
  t1 = t1
  t2 = t2
  n1 = n1
  Connectors <- MCConnectors
  Tenants <- MCTenants
  OwnerOf <- MCOwnerOf
  NameOf <- MCNameOf
  Requests <- MCTwoRequests
  MaxVersion = 4
SYMMETRY MCSymmetry
SPECIFICATION Spec
INVARIANTS
  TypeOK
  LiveIsFullyAudited
  EnabledWasValidated
  RevocationIsFinal
  TrailIsHistory
PROPERTIES
  LiveVersionNeverRegresses
  FollowsTable
