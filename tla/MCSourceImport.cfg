SPECIFICATION FairSpec
CONSTANTS
  Snapshots <- MCSnapshots
  Dirs <- MCDirs
  Files <- MCFiles
  NoHash = NoHash
  NoParent = NoParent
  Importers = {i1, i2}
  ForeignCodes = {"w"}
  SchemaVersion = 3
INVARIANTS
  RecordsDecided
  ResultTruthful
PROPERTIES
  ImplementsCanonicalLoad
  RunsEnd
