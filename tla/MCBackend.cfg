SPECIFICATION FairSpec
INVARIANTS TypeOK NetworkSound CallersToldTruth
PROPERTIES FailuresUndone CallsEnd
CHECK_DEADLOCK FALSE
CONSTANTS
  Addresses = {"a0", "a1"}
  Endpoints = {"e0"}
  Routes = {"r0", "r1"}
  Plans <- WindowsPlans
  FaultSets <- WindowsFaults
  Platforms = {"linux", "windows"}
  Clients <- ServiceClients
  ServicePlatforms = {"systemd", "linux", "windows"}
  ServiceFaults <- ServiceFaultSets
  MaxExits = 1
  Systems = {"linux", "windows"}
  InstallFaults <- InstallFaultSets
  Transports = {"linux", "windows"}
  MaxFrame = 3
  FrameLengths = {1, 2, 3}
  FirewallSettings <- FirewallCases
  DnsSettings <- DnsCases
  Connections = {"c0", "c1"}
  MaxVerify = 2
