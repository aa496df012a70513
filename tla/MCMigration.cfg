SPECIFICATION Spec
CONSTANTS
  Migrators = {m1, m2}
  Probes = {p1}
  NoOne = NoOne
SYMMETRY Perms
INVARIANTS
  LedgerMatchesSchema
  LegacyAdoptedOnDemand
  NoCycleAfterUpgrade
  SuccessMeansCurrent
  ReadyMeansUsable
