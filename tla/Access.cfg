SPECIFICATION Spec
CONSTANTS
  p1 = p1
  p2 = p2
  c1 = c1
  c2 = c2
  v1 = v1
  None = None
  Tenants = {"fashion"}
  Users = {"ana", "ben", "cy", "dan"}
  Signers = {"cy"}
  Admins = {"ben"}
  Roles = {"OWNER", "ADMIN"}
  Staff <- MCStaff
  Visitors <- MCVisitors
  Clients <- MCClients
  Founders <- MCFounders
  Kinds <- MCKinds
  Mixes <- MCMixes
  MaxIds = 5
INVARIANTS AloneStoreHasOwner SerialTokenIsSingleUse
PROPERTIES RevokedIsFinal SuspensionTakesHold
CHECK_DEADLOCK FALSE
