SPECIFICATION Spec
CONSTANTS
  Media = {m1, m2}
  Posts = {p1}
  Messages = {g1, g2}
  Slots = {avatar}
  Quotas = {1, 2}
  Txs = {t1, t2}
INVARIANT TypeOK
INVARIANT QuotaHolds
INVARIANT LinkedIsAvailable
INVARIANT AttachedHasOnePlace
PROPERTY StoreSpec
PROPERTY UploadsGo
