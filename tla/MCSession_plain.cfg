SPECIFICATION Spec
CONSTANTS
  c0 = c0
  c1 = c1
  s0 = s0
  s1 = s1
  s2 = s2
  NoConfig = NoConfig
  NoSlot = NoSlot
  Configs <- TwoConfigs
  Slots <- ThreeSlots
  MaxRequests = 4
  Features <- PlainFeatures
SYMMETRY SlotSymmetry
INVARIANTS
  OneCallAtATime
  UiFollowsService
PROPERTIES
  SamplesOfTunnel
