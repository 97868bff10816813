SPECIFICATION FairSpec
CONSTANTS
  NMetric = 3
  Type <- Types
  Values <- OneTwo
  MaxUpdate = 3
INVARIANTS TypeOK Conserved HandOff SnapshotReports
PROPERTIES CountersGrow UpdatesGetCounted
