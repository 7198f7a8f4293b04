CONSTANTS
  k1 = k1
  k2 = k2
  k3 = k3
  Targets = {"yt"}
  Backup = {"yt"}
  PerSession = {}
  Keys = {1}
  BadKeys = {}
  Tasks = {k1, k2, k3}
  Ops = {"start", "stop", "patch", "cycle", "set", "delete"}
  Faults = {}
  MaxOpenRows = 2
SYMMETRY TaskSymmetry
SPECIFICATION Spec
INVARIANTS TypeOK LockDiscipline RunMovesLegal NoOrphanSecrets
PROPERTY RefinesRunState
