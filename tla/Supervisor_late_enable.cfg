CONSTANTS
  k1 = k1
  k2 = k2
  k3 = k3
  Targets = {"yt"}
  Backup = {}
  PerSession = {}
  Keys = {1}
  BadKeys = {}
  Tasks = {k1, k2, k3}
  Ops = {"start", "stop", "patch"}
  Faults = {}
  MaxOpenRows = 1
SPECIFICATION Spec
INVARIANT NoWorkersOffline
