SPECIFICATION Spec
CONSTANTS
  o = o w = w t = t z = z
  d = d
  k = k
  m1 = m1 m2 = m2
  r1 = r1 r2 = r2 r3 = r3 r4 = r4
  None = None
  Users = {o, w, t, z}
  AgencyAccounts = {o, w}
  Admins = {d, t}
  SuperAdmins = {d}
  Owners = {o, w}
  Campaigns = {k}
  Ratings = {1, 2, 3, 4}
  Requests <- MCRequests
  Loads <- MCLoads
  Script <- MCScript
  AtOnce <- MCAtOnce
  AgenciesBefore <- MCAgenciesBefore
  AssetsBefore <- MCAssetsBefore
  CreatorOf <- MCCreatorOf
INVARIANTS
  TypeOK
  OwnerStays
PROPERTIES
  ApprovalIsFinal
  ReputationIsAverage
  InviteIsSpentOnce
  UploadedIsStored
  OnlyOrphansAreDeleted
