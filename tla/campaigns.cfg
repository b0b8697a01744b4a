SPECIFICATION Spec
CONSTANTS
  c1 = c1 c2 = c2
  r1 = r1 r2 = r2 r3 = r3 r4 = r4 r5 = r5
  None = None
  CampaignIds = {c1, c2}
  Requests = {r1, r2, r3, r4, r5}
  Loads <- MCLoads
  Script <- MCScript
  AtOnce <- MCAtOnce
  MayEnd <- MCMayEnd
  Before <- MCBefore
  Goals = {1, 3}
  MaxRaised = 4
INVARIANTS
  IInv
  MilestoneSentOnce
PROPERTIES
  RefusalTakesBadge
  StatusFollowsLifecycle
