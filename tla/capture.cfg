SPECIFICATION Spec
CONSTANTS
  Threads = {t1, t2}
  Writers = {w1, w2}
  MaxInstances = 2
  MaxHandles = 2
  MaxCalls = 2
  MaxDepth = 2
  MaxUses = 3
  NULL = NULL
SYMMETRY Symmetry
INVARIANTS
  FaultsHaveCauses
  OverlapIsFatal
  HandlesCanBeClosed
CHECK_DEADLOCK FALSE
