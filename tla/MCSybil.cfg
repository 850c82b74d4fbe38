\* One request at a time: the dedup gate.
CONSTANTS
  None = None
  ann = ann
  ann2 = ann2
  bea = bea
  cyd = cyd
  doc1 = doc1
  doc2 = doc2
  br = br
  ve = ve
  Wallets = {w1, w2}
  Countries = {br, ve}
  HighRisk = {ve}
  Phones = {p1}
  Devices = {d1}
  Seeds = {ann, cyd}
  FaceOf <- MCFaceOf
  Twins <- MCTwins
  Documents = {doc1, doc2}
  Passports <- FamilyPassports
  MatchScores = {60, 100}
  Sessions = {s1, s2}
  Nonces = {n1, n2}
  Requests = {r1}
  MaxAttempts = 1
  MaxDecisions = 1
  OverlapSessions = TRUE
SPECIFICATION Spec
SYMMETRY Interchangeable
CHECK_DEADLOCK FALSE
INVARIANTS HighRiskIsReviewed
PROPERTIES AutoApprovalIsUnique
