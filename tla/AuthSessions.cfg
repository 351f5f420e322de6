SPECIFICATION Spec
CONSTANTS
  Users = {u1}
  Sessions = {s1, s2, s3}
  Resets = {k1, k2}
  Txs = {t1, t2}
  None = None
SYMMETRY Symmetry
INVARIANT TypeOK
INVARIANT ChainHasOneLiveSession
INVARIANT BanEndsChains
INVARIANT ResetTokenWorksOnce
