SPECIFICATION Spec
CONSTANTS
  Nodes = {n1, n2, n3}
  None = None
  Txns = {t1, t2, t3}
  MaxRows = 3
  MaxOld = 2
SYMMETRY Perms
INVARIANTS
  ForestKept
  ViewsAcyclic
PROPERTY NoLostParent
CHECK_DEADLOCK FALSE
