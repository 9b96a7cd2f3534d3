SPECIFICATION FairSpec
CONSTANTS
  w0 = w0
  w1 = w1
  NoTun = NoTun
  Tuns <- OneTun
  Faults <- AllFaults
INVARIANTS
  LinksJournaled
PROPERTIES
  CommandAnswered
