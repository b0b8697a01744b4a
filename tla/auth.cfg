SPECIFICATION Spec
CONSTANTS
  e = e f = f m = m
  p1 = p1 p2 = p2
  i1 = i1
  r1 = r1 r2 = r2 r3 = r3 r4 = r4 r5 = r5
  None = None
  Emails = {e, f, m}
  Passwords = {p1, p2}
  Identities = {i1}
  LockoutThreshold = 2
  Requests = {r1, r2, r3, r4, r5}
  Loads <- MCLoads
  Script <- MCScript
  AtOnce <- MCAtOnce
  AccountsBefore <- MCAccountsBefore
  FactorsBefore <- MCFactorsBefore
INVARIANTS
  TypeOK
  SessionsEnd
  LinkedAccountsAreTravelers
PROPERTIES
  CodesWorkOnce
  RotatedOnce
  SessionsHaveALifecycle
