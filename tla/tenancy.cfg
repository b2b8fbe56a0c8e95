SPECIFICATION Spec
CONSTANTS
  o1 = o1
  o2 = o2
  u1 = u1
  u2 = u2
  u3 = u3
  u4 = u4
  e1 = e1
  e2 = e2
  e3 = e3
  Orgs = {o1, o2}
  Users = {u1, u2, u3, u4}
  Emails = {e1, e2, e3}
  Invites = {i1, i2}
  Roles = {"org_owner", "org_admin", "auditor_viewer"}
  Requests = {r1, r2}
  None = None
  Founded = {o1}
  Account <- MCAccount
  Membership <- MCMembership
  MaxResends = 1
  MaxCalls = 3
CHECK_DEADLOCK FALSE
SYMMETRY Symmetry
INVARIANT TypeOK
INVARIANT FoundersBelong
INVARIANT InvitesAdmitOnce
PROPERTY LastOwnerLeaves
