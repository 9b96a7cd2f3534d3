SPECIFICATION Spec
CONSTANTS
  w0 = w0
  w1 = w1
  NoTun = NoTun
  Tuns <- TwoTuns
  Faults <- AllFaults
INVARIANTS
  TypeOK
  DevicesHeldOnce
  CacheIsIdle
  NetStateOwned
  KernelSessionJournaled
  NoSilentDowngrade
  GuardCoversNegotiation
PROPERTIES
  OtherLinksKept
  StartEndsUnguarded
