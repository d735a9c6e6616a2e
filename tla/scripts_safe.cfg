SPECIFICATION MCSpec
CONSTANTS
  Scripts = {"update", "report", "compose", "issues"}
  m = m
  n = n
  a = a
  b = b
  c = c
  d = d
  e = e
  bad = bad
  Nixpkgs = "nixpkgs"
  Follows = Follows
  Missing = Missing
  WellFormed <- Formats
  Own <- Owns
  Inputs = {"nixpkgs", "comin", "compat"}
  Commits = {m, n, a, b, c, d, e}
  Cooling = {"comin", "compat"}
  Repo <- Repos
  Before <- Order
  Gone = Gone
  First <- Heads
  Cooldown = 1
  LogPage = 2
  MaxDay = 2
  MaxPushes = 2
  FirstLock <- AtFirst
  Handed <- SomeLocks
  Events <- AllEvents
  Plans <- TwoPlans
  Titles <- TwoPhases
  Labels = {"ci"}
  Other = Other
  PageSize = 2
  MaxIssues = 3
  MaxEdits = 1
  MaxRuns = 2
  Number <- TwoNumbers
  Manifests <- SomeManifests
  FileSets <- SomeFiles
  Systems <- SomeSystems
  Attempts = 3
  BuildLimit = 18
  ScanLimit = 20
  JobLimit = 120
INVARIANTS TypeOK CheckedMoves TableIsOfTheLock HonestLockAccepted ReportIsRight ExitTells IssuesFiled
PROPERTIES MergesMoveForward MonthlyNotDropped EditsKept
CHECK_DEADLOCK FALSE
