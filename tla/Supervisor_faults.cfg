CONSTANTS
  k1 = k1
  k2 = k2
  k3 = k3
  Targets = {"vk"}
  Backup = {}
  PerSession = {"vk"}
  Keys = {1}
  BadKeys = {}
  Tasks = {k1, k2}
  Ops = {"start", "stop", "patch", "cycle", "delete"}
  Faults = {"db", "decrypt", "stop", "crash"}
  MaxOpenRows = 2
SPECIFICATION FairSpec
PROPERTIES EveryCallReturns TransientsEnd
INVARIANT SessionTracksRun
