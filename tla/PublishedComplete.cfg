SPECIFICATION Spec
CONSTANTS
  Cats = {a, b}
  Seeded = {a}
  Reqs = {r1}
  Posts = {p1}
  Txs = {t1, t2}
  None = None
INVARIANT PublishedIsComplete
