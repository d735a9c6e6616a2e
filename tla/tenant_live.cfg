SPECIFICATION FairSpec
CONSTANTS
  Commits = {1, 2}
  None = None
  Mixed = Mixed
  PendingLimit = 0
  MaxBoots = 1
  Events <- LiveEvents
INVARIANTS OnlyTenantFailuresPosted
PROPERTIES FailureIsPosted CommitsSettle
