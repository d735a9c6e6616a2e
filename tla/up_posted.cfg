SPECIFICATION Spec
CONSTANTS
  Commits = {1}
  None = None
  Mixed = Mixed
  PendingLimit = 0
  MaxBoots = 0
  Events <- TermEvents
INVARIANTS OnlyTenantFailuresPosted
