CONSTANTS
  Passes = {"p", "q"}
  FirstPass = "p"
  Targets = {"t", "u"}
  Setters = {"set"}
  Rotators = {"rot", "rut"}
  MaxSalts = 3
  MaxCrashes = 1
SPECIFICATION Spec
INVARIANTS TypeOK KeysMatchDisk OneKeyOpensAll TornIsRecoverable OverlapOnlyByWindow
PROPERTY ReadyForGood
