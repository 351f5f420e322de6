SPECIFICATION MCSpec
CONSTANTS
  Users = {u1, u2, u3}
  Addresses = {a1, a2, a3}
  MaxTokens = 2
  MaxReports = 2
  Txs = {t1, t2}
  None = None
  MaxEach = 2
  MaxRequests = 3
  limit = 2
  window = 2
  Checks = {c1, c2}
  MaxTime = 7
  MaxOver = 2
SYMMETRY Symmetry
CONSTRAINT FewRequests
INVARIANT TypeOK
INVARIANT VerifiedIsProved
INVARIANT ActsAddUp
INVARIANT OneOpenReport
INVARIANT AdmissionsBounded
INVARIANT CountersExpire
PROPERTY ModeratorsBanUsers
