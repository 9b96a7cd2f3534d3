SPECIFICATION FairSpec
CONSTANTS
  r0 = r0
  r1 = r1
  Routes <- TwoRoutes
  Configs <- EveryConfig
  Settings <- EverySetting
INVARIANTS Recoverable NothingForgotten
PROPERTIES JournalClearedLast AllOrNothing CallsEnd
