SPECIFICATION Spec
CONSTANTS
  r0 = r0
  r1 = r1
  Routes <- TwoRoutes
  Configs <- EveryConfig
  Settings <- CrashOnly
PROPERTIES ServiceStartsClean
