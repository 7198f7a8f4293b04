CONSTANTS
  k1 = k1
  k2 = k2
  k3 = k3
  Targets = {"yt", "vk"}
  Backup = {}
  PerSession = {"vk"}
  Keys = {1}
  BadKeys = {}
  Tasks = {k1, k2}
  Ops = {"start", "stop", "delete"}
  Faults = {}
  MaxOpenRows = 1
SPECIFICATION Spec
INVARIANT SingleUseKeys
