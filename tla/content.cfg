SPECIFICATION Spec
CONSTANTS
  a = a b = b d = d
  t1 = t1 t2 = t2
  r1 = r1 r2 = r2 r3 = r3 r4 = r4
  None = None
  Requests = {r1, r2, r3, r4}
  Users = {a, b, d}
  Moderators = {b, d}
  Tokens = {t1, t2}
  Loads <- MCLoads
  Script <- MCScript
  AtOnce <- MCAtOnce
  DevicesBefore <- MCDevicesBefore
INVARIANTS
  TypeOK
PROPERTIES
  DevicesAreKept
  PushedOnce
  OneReportPerReader
