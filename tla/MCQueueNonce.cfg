\* The worker is a process of its own, as it is deployed.
CONSTANTS
  None = None
  Web = {api}
  Workers = {worker}
  Modes = {"inline", "arq"}
  Submissions = {m1, m2}
  Nonces = {n1}
  MaxAttempts = 3
  MaxTries = 2
SPECIFICATION Spec
SYMMETRY Interchangeable
CHECK_DEADLOCK FALSE
PROPERTIES OpenNonceCounts
