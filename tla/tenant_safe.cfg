SPECIFICATION Spec
CONSTANTS
  Commits = {1, 2}
  None = None
  Mixed = Mixed
  PendingLimit = 0
  MaxBoots = 1
  Events <- SafeEvents
INVARIANTS OnlyPassedRuns DeployedIsLive PostedOnce
