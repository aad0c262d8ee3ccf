SPECIFICATION FairSpec
CONSTANTS
  Events = {"stopped", "restarted", "removed", "started"}
  Whens = {"now", "gracefully", "convenient"}
  Settings <- MCAll
  InitSettings <- MCStarted
  MayUnload = TRUE
  MaxRequests = 3
  MaxReloads = 1
  MaxLosses = 2
INVARIANT MonitorJoined
PROPERTIES UnloadEnds GracefulKeepsCalls RequestHonoured LostReconnects
CHECK_DEADLOCK FALSE
