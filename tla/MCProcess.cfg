SPECIFICATION Spec
CONSTANTS
  Durations <- MCDurations
  Numbers <- MCNumbers
  Int32s <- MCInt32s
  Levels <- MCLevels
  Lists <- MCLists
  URLs <- MCURLs
  Addresses = {":8080"}
  Ports = {"1", "5432", "8080"}
  Hosts = {"db"}
  Groups = {"g"}
  IDs = {"r", "t"}
  MaxLoggers = 6
  Environments <- MCEnvironments
INVARIANTS
  ReadsOnlyItsSettings
  AcceptedStarts
  RecordsCarryOwnPath
CHECK_DEADLOCK FALSE
