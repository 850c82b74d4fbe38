\* Requests overlap across sessions, one at a time on each session.
CONSTANTS
  None = None
  ann = ann
  ann2 = ann2
  bea = bea
  cyd = cyd
  doc1 = doc1
  doc2 = doc2
  br = br
  ve = ve
  Wallets = {w1}
  Countries = {br}
  HighRisk = {}
  Phones = {None}
  Devices = {d1}
  Seeds = {ann, bea}
  FaceOf <- MCFaceOf
  Twins <- MCTwins
  Documents = {doc1, doc2}
  Passports <- RenewedPassports
  MatchScores = {100}
  Sessions = {s1, s2}
  Nonces = {n1, n2}
  Requests = {r1, r2}
  MaxAttempts = 2
  MaxDecisions = 2
  OverlapSessions = FALSE
SPECIFICATION Spec
SYMMETRY Interchangeable
CHECK_DEADLOCK FALSE
INVARIANTS HashUnique ReviewMatchesSession AttemptsCounted ApprovedIsEvidenced ColumnsAgree
PROPERTIES ApprovedForever ImplementsLifecycle
