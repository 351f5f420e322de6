SPECIFICATION Spec
CONSTANTS
  Users = {u1, u2}
  Posts = {p1}
  Comments = {c1, c2}
  Txs = {t1, t2}
SYMMETRY Symmetry
INVARIANT TypeOK
INVARIANT CounterLedger
INVARIANT ReactionsNeverUndercounted
INVARIANT SomeRequestProceeds
PROPERTY AtomicSpec
