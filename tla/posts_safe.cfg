SPECIFICATION MCSpec
CONSTANTS
  Posters = {"watch", "notify", "online", "relay", "hooks"}
  Cooldown = 2
  None = None
  MaxTime = 2
  MaxBacks = 1
  MaxDeaths = 4
  MaxCuts = 1
  MaxFailures = 3
  EarlyShutdown = FALSE
  Groups = {"one", "two"}
  Alerts <- TwoAndOne
  SendTimeout = 1
  Deadline = 3
  Interval = 4
  MaxTurns = 3
  Threads = {1, 2}
  Systems = {"a", "kernel"}
  Parts <- SomeParts
  Installed = "a"
  Tries = 2
  MaxBuilds = 3
  MaxIncidents = 1
INVARIANTS NeverSilent CrashLoopPosts HeldRight BootsTold AnsweredInTime DiscordAgrees OutcomesPaired RebootWaits
PROPERTIES UpdatesAnnounced
