\* One worker in the API's process, as the tests have it, and one of its own.
CONSTANTS
  None = None
  Web = {api}
  Workers = {api, worker}
  Modes = {"inline", "arq"}
  Submissions = {m1, m2}
  Nonces = {n1}
  MaxAttempts = 3
  MaxTries = 2
SPECIFICATION FairSpec
CHECK_DEADLOCK FALSE
INVARIANTS TypeOK OwnMarkFirst NonceCountsOnce
PROPERTIES DecisionSticks ProcessingEnds
