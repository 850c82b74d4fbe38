CONSTANTS
  None = None
  ann = ann
  ann2 = ann2
  bea = bea
  cyd = cyd
  doc1 = doc1
  doc2 = doc2
  br = br
  ve = ve
  Wallets = {w1}
  Countries = {br}
  HighRisk = {}
  Phones = {None}
  Devices = {d1}
  Seeds = {ann}
  FaceOf <- MCFaceOf
  Twins <- MCTwins
  Documents = {doc1, doc2}
  Passports <- OnePassport
  MatchScores = {100}
  Sessions = {s1}
  Nonces = {n1, n2}
  Requests = {r1, r2}
  MaxAttempts = 2
  MaxDecisions = 3
  OverlapSessions = TRUE
SPECIFICATION Spec
SYMMETRY Interchangeable
CHECK_DEADLOCK FALSE
PROPERTIES ApprovedForever
