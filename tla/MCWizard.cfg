\* The API queues the biometrics.
CONSTANTS
  None = None
  Identities = {i1}
  Keys = {k1}
  Amounts = {10}
  Limit = 20
  Requests = {r1}
  Replicas = {p1}
  Disks = {d1}
  DiskOf <- MCDiskOf
  KeyIds = {kid1}
  Hashes = {h1}
  Jtis = {j1}
  Ttl = 1
  EndOfTime = 1
  NoKey = NoKey
  Threads = {t1}
  Quota = 1
  Window = 1
  LastSecond = 1
  Documents <- MCDocuments
  Misreads <- MCMisreads
  Unread = Unread
  MaxReads = 3
  Frames <- AllFrames
  MaxFrames = 3
  Requested <- RequestedActions
  LivenessMinScore = 70
  Uploads = {u1, u2}
  Sweepers = {worker, cronjob}
  Readers = {match}
  Retention = 1
  MaxTime = 3
  MaxFailures = 1
  NoRow = NoRow
  Processes = {api, api2}
  People = {h1, h2, h3}
  EmbeddingOf <- MCEmbeddingOf
  Queries <- MCQueries
  DimOf <- MCDimOf
  Cosine <- MCCosine
  Empty = Empty
  h1 = h1
  h2 = h2
  h3 = h3
  Visits = {v1, v2}
  Budget = 2
  Dispatches = {"arq"}
  Nil = Nil
  Hosts = {web1, web2}
  Refs = {img}
  DataKeys = {dk1, dk2}
  EnvKey = EnvKey
  Missing = Missing
  Torn = Torn
  Parts <- WizardPart
SPECIFICATION ServicesSpec
CHECK_DEADLOCK FALSE
INVARIANTS TerminalIsSettled
