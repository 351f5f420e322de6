SPECIFICATION MCSpec
CONSTANTS
  Users = {u1, u2}
  Addresses = {a1, a2}
  MaxTokens = 1
  MaxReports = 1
  Txs = {t1, t2}
  None = None
  MaxEach = 2
  MaxRequests = 3
  limit = 1
  window = 1
  Checks = {c1}
  MaxTime = 1
  MaxOver = 1
CONSTRAINT FewRequests
PROPERTY ReportDecidedOnce
