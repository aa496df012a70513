SPECIFICATION Spec
CONSTANTS
  Module <- MCModule
  Modules = {"place", "search"}
  Platforms = {"apperror", "database"}
  Pure <- MCPure
  External <- MCExternal
  Std <- MCStd
  Files <- MCFiles
  MaxImports = 3
INVARIANTS
  ModulesMeetInContracts
  CoreStaysPure
CHECK_DEADLOCK FALSE
