CONSTANTS
  Manifests <- ImageNames
  Chunks <- ChunkNames
  ChunksOf <- ImageChunks
  InitLive = "m1"
  InitBucket <- BothWhole
  BatchSize = 1
  Uploaders = {"u1"}
  ImageOf <- UploadImage
  Starts = {"r1"}
  Sweepers = {"s1", "s2"}
  Sessions = {"k1"}
  MaxBatches = 1
  Restarts = 0
  Events = {"lapse", "reap", "crash"}
  Scenarios = {"s1"}
  Revisions = {"r1", "r2"}
  BuildIds = {"b1", "b2"}
  Images = {"i0", "i1", "i2", "i3"}
  Runs = {"q1"}
  Ops = {"o1", "o2"}
  Expected <- OneExpected
  Outputs <- RebuildOutputs
  FirstLive <- OneFirst
  Kinds = {"ingest", "candidate", "live", "promote", "rollback", "die"}
  MaxOps = 4
  Nil = Nil
  None = None
SPECIFICATION SuiteSpec
INVARIANTS
  RegistryWhole
  RetentionKept
PROPERTIES
  ReaderUnchanged
  ReleasesKept
\* The budgets of the instances run out: a behaviour may stop.
CHECK_DEADLOCK FALSE
