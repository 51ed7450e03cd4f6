SPECIFICATION MayaSpec
CONSTANTS
  Assets = {"hero", "prop"}
  TasksOf <- MCTasksOf
  FirstFiles <- MCFirstFiles
  None = None
  Gone = Gone
  MaxVersion = 2
  MaxActs = 5
INVARIANTS
  NameFree
  SettledListShows
  HostFollows
PROPERTIES
  SceneInSession
  ReinstallKeeps
CHECK_DEADLOCK FALSE
