SPECIFICATION Spec
CONSTANTS
  o1 = o1
  o2 = o2
  r1 = r1
  r2 = r2
  None = None
  NoRow = NoRow
  Orgs <- TwoOrgs
  Names = {"a"}
  Requests <- TwoRequests
  Initial <- MCInitial
  SeedOrg = o1
  WorkerOrg = o1
  WorkerSite <- MCSite
  Allowed <- MCAllowed
  MaxNumber = 3
  MaxCalls = 3
  MaxIncidents = 1
SYMMETRY Symmetry
INVARIANT TenantsMeetInSharedIds
INVARIANT ZonesFollowCameras
 
