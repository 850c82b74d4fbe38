\* Debits overlap; two replicas on one disk; two threads at the limiter; every slip in
\* a passport's line; every clip of three frames; two uploads under two sweeps of
\* which one fails; two processes that enrol three people; an applicant with two visits;
\* two processes that share a directory of blobs.
CONSTANTS
  None = None
  Identities = {i1, i2}
  Keys = {k1, k2, k3}
  Amounts = {14, 20}
  Limit = 20
  Requests = {r1, r2}
  Replicas = {p1, p2}
  Disks = {d1}
  DiskOf <- MCDiskOf
  KeyIds = {kid1, kid2}
  Hashes = {h1}
  Jtis = {j1, j2}
  Ttl = 1
  EndOfTime = 1
  NoKey = NoKey
  Threads = {t1, t2}
  Quota = 2
  Window = 2
  LastSecond = 5
  Documents <- MCDocuments
  Misreads <- MCMisreads
  Unread = Unread
  MaxReads = 3
  Frames <- AllFrames
  MaxFrames = 3
  Requested <- RequestedActions
  LivenessMinScore = 70
  Uploads = {u1, u2}
  Sweepers = {worker, cronjob}
  Readers = {match}
  Retention = 1
  MaxTime = 3
  MaxFailures = 1
  NoRow = NoRow
  Processes = {api, api2}
  People = {h1, h2, h3}
  EmbeddingOf <- MCEmbeddingOf
  Queries <- MCQueries
  DimOf <- MCDimOf
  Cosine <- MCCosine
  Empty = Empty
  h1 = h1
  h2 = h2
  h3 = h3
  Visits = {v1, v2}
  Budget = 2
  Dispatches = {"inline", "arq"}
  Nil = Nil
  Hosts = {web1, web2}
  Refs = {img}
  DataKeys = {dk1, dk2}
  EnvKey = EnvKey
  Missing = Missing
  Torn = Torn
  Parts <- AllParts
SPECIFICATION ServicesSpec
CHECK_DEADLOCK FALSE
INVARIANTS TypeOK KeyDebitedOnce OverspendBounded
INVARIANTS LiveTokensVerify QuotaHolds
INVARIANTS PrintedIsRead WrongCharacterIsRejected SwappedCharactersAreRejected ReadIsTheDocument RebuiltInPlace
INVARIANTS PerformedIsLive LiveIsPerformed GuidedIsLive
INVARIANTS LostOnlyExpired TombstoneMeansGone VectorsMatchRecords SearchIsSound
INVARIANTS InlineTerminalIsSettled BlobsDecrypt
PROPERTIES RowsSwept ChallengeIsFresh WizardEnds
