SPECIFICATION Spec
CONSTANTS
  Nightlies = {n1}
  Manuals = {}
  Rollbacks = {r1}
  Unit = unit
  Free = free
  Absent = absent
  Configs = {c1}
  Keep = 1
  MaxClock = 0
  MaxWorld = 1
  Events <- FaultEvents
INVARIANTS ReplacedDataKept NeverSwapUnderContainers SavingOffAccountedFor
