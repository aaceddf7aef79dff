SPECIFICATION Spec
CONSTANTS
  ChunkRecs = 2
  Bundles <- BundlesAll
  RtConfigs <- RtAll
  MaxRecs = 4
  MaxSparse = 2
INVARIANTS TypeOK RoundTrip KilledPrefix CrashLeadUp
