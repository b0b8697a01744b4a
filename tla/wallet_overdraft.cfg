SPECIFICATION Spec
CONSTANTS
  u1 = u1 u2 = u2 u3 = u3
  c1 = c1
  k1 = k1 k2 = k2 k3 = k3
  r1 = r1 r2 = r2 r3 = r3 r4 = r4 r5 = r5 r6 = r6 r7 = r7
  None = None
  Users = {u1, u2, u3}
  Campaigns = {c1}
  Creator <- MCCreator
  Keys = {k1, k2, k3}
  Amounts = {1, 2, 3}
  Fee <- MCFee
  Threshold = 3
  Requests = {r1, r2, r3, r4, r5, r6, r7}
  Scripts <- TwoPayments
INVARIANT NoOverdraft
