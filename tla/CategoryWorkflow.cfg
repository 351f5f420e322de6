SPECIFICATION Spec
CONSTANTS
  Cats = {a, b}
  Seeded = {a}
  Reqs = {r1, r2, r3}
  Posts = {p1}
  Txs = {t1, t2}
  None = None
SYMMETRY Symmetry
INVARIANT TypeOK
INVARIANT PendingCategoryHasRequest
INVARIANT OneRequestPerNewName
PROPERTY DecisionsAreFinal
PROPERTY ApprovedStaysApproved
