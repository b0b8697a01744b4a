SPECIFICATION Spec
CONSTANTS
  a = a b = b c = c
  c1 = c1 c2 = c2
  t1 = t1
  e1 = e1 e2 = e2 e3 = e3 e4 = e4
  d1 = d1 d2 = d2
  None = None
  Users = {a, b, c}
  Owners = {a}
  Campaigns = {c1, c2}
  Transactions = {t1}
  Events = {e1, e2, e3, e4}
  Deliveries = {d1, d2}
  Worlds <- Calm
INVARIANT AppliedOnce
