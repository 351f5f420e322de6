SPECIFICATION Spec
CONSTANTS
  Users = {u1, u2}
  Convs = {c1, c2}
  Msgs = {m1}
  Keys = {k1}
  Txs = {t1, t2}
  None = None
  MaxTroubles = 1
  MaxRows = 2
SYMMETRY Symmetry
CONSTRAINT FewTroubles
CONSTRAINT FewRows
INVARIANT TypeOK
INVARIANT OneDirectPerPair
INVARIANT GroupKeepsAdmin
INVARIANT MarkerNamesMessage
PROPERTY DeletedStaysDeleted
PROPERTY BlocksHold
PROPERTY KeysStayInside
