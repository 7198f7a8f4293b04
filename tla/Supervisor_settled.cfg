CONSTANTS
  k1 = k1
  k2 = k2
  k3 = k3
  Targets = {"yt", "vk"}
  Backup = {"yt"}
  PerSession = {"vk"}
  Keys = {1, 2}
  BadKeys = {2}
  Tasks = {k1, k2, k3}
  Ops = {"start", "stop", "clear", "create"}
  Faults = {}
  MaxOpenRows = 1
SYMMETRY TaskSymmetry
SPECIFICATION Spec
INVARIANTS NoWorkersOffline SingleUseKeys IndexMatchesWorkers WorkersMatchTargets
