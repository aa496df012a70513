SPECIFICATION Spec
CONSTANTS
  Snapshots <- MCSnapshots
  Dirs <- MCDirs
  Files <- MCFiles
  NoHash = NoHash
  NoParent = NoParent
  Importers = {i1}
  ForeignCodes = {"w"}
  SchemaVersion = 3
INVARIANT RerunIsNoOp
