SPECIFICATION Spec
CONSTANTS
  Commits = {1, 2}
  None = None
  Mixed = Mixed
  PendingLimit = 0
  MaxBoots = 0
  Events <- UndoEvents
INVARIANTS DeployedIsLive
