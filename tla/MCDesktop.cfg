SPECIFICATION FairSpec
INVARIANTS TypeOK PagesTruthful
PROPERTIES  JobsEnd
CHECK_DEADLOCK FALSE
CONSTANTS
  Procs = {"p1", "p2", "p3"}
  DesktopSystems = {"linux", "windows"}
  MaxTries = 1
  MaxRevisions = 3
  MaxRequests = 2
  SavedConfigs <- SavedLists
  Answers <- AnswerLists
  MaxAddresses = 2
  Concurrency = 2
  MaxRuns = 2
  Capacity = 2
  Kept = 1
  MaxWrites = 3
  MaxClicks = 3
  MaxCalls = 2
  ThemeJobs = {"j1", "j2"}
  Sources <- ThemeSources
  BuiltinBase = "default"
  CuratedBases = {"ayu"}
  KeyOf <- ThemeKey
  MaxFiles = 2
  Keys = {"k1"}
  MaxVersions = 2
  MaxDownloads = 2
  RelayFaults = {"stall", "write", "sync", "read", "dies"}
  PanelSystems = {"linux", "windows"}
  MaxJobs = 5
  PasswordJobs = {"j1", "j2"}
  Passwords = {"p1", "p2"}
  NoPassword = "none"
  TraySystems = {"linux", "windows"}
  MaxCommands = 3
  MaxNotices = 2
