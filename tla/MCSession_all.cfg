SPECIFICATION FairSpec
CONSTANTS
  c0 = c0
  c1 = c1
  s0 = s0
  s1 = s1
  s2 = s2
  NoConfig = NoConfig
  NoSlot = NoSlot
  Configs <- OneConfig
  Slots <- TwoSlots
  MaxRequests = 2
  Features <- AllFeatures
INVARIANTS
  TypeOK
  BusyIsOwned
PROPERTIES
  StartsAuthorized
  BusyEnds
