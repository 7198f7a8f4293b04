CONSTANTS
  Clients = {"browser"}
  Roles = {"primary"}
  RoleStates = {"running"}
  FirstRun = "armed"
  Moves = {"obs_publish_began", "obs_publish_ended"}
  BusCapacity = 2
  QueueCapacity = 1
  MaxDrops = 1
SPECIFICATION FairSpec
INVARIANTS TypeOK TruthOrDrop
PROPERTIES RefinesRunFeed LiveIsShown DeadEnds DropCuts
