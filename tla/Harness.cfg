SPECIFICATION FairSpec
CONSTANTS
  c1 = c1
  c2 = c2
  w1 = w1
  w2 = w2
  s1 = s1
  s2 = s2
  s3 = s3
  d1 = d1
  v1 = v1
  None = None
  Damaged = Damaged
  Clients = {c1}
  Workers = {w1}
  Types = {"rag_reindex", "rag_reindex_incremental", "rag_verify_index"}
  MaxAttempts = 2
  MaxRequests = 2
  MaxDeaths = 1
  Slots = {s1, s2}
  Docs = {d1}
  Versions = {v1}
  Dims = {2}
  Inodes = {1, 2, 3, 4}
  MaxEdits = 0
  MaxModels = 0
  MaxKills = 1
INVARIANTS RunnersAreRunningJobs NoMoreRunnersThanWorkers SucceededIsInstalled
PROPERTIES ImplementsQueue QueuedSettlesOrOrphans
