SPECIFICATION Spec
CONSTANTS
  Users = {u1}
  Sessions = {s1, s2}
  Resets = {k1}
  Txs = {t1, t2}
  None = None
INVARIANT ResetEndsSessions
