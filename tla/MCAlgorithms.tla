----------------------------- MODULE MCAlgorithms -----------------------------
(*****************************************************************************)
(* The algorithms of the program on small inputs for TLC: the route planner  *)
(* with the rules and routes it leaves and the map it shows, the prefixes of *)
(* the calculator, the reading of a configuration, the counting of traffic,  *)
(* and the arguments of the service.  A behaviour runs one of them, and they *)
(* take turns with the variables.                                            *)
(*****************************************************************************)
EXTENDS Integers, Sequences

VARIABLES
  part,   \* the machine of this behaviour
          \* the variables of that machine, in the order it declares them
  v1, v2, v3, v4, v5, v6, v7, v8, v9, v10, v11

all == <<part, v1, v2, v3, v4, v5, v6, v7, v8, v9, v10, v11>>

(* Routes: two bits of address; tables beside the usual ones, marks of the   *)
(* engine and of others, rules and routes of other programs.                 *)
V4(a, l) == [fam |-> 4, addr |-> a, len |-> l]
V6(a, l) == [fam |-> 6, addr |-> a, len |-> l]
At(f, a) == [kind |-> "ip", fam |-> f, addr |-> a]
Named(n) == [kind |-> "name", name |-> n]
Nowhere == [kind |-> "none"]
Peer(allowed, endpoint) == [allowed |-> allowed, endpoint |-> endpoint]
Table(kind, id) == [kind |-> kind, id |-> id]
Server == [fam |-> 4, addr |-> 2]
FullTunnel == <<Peer({V4(0, 0), V6(0, 0)}, At(4, 2))>>
TwoPeers == <<Peer({V6(0, 0)}, At(6, 1)), Peer({V4(2, 1)}, At(4, 0))>>
RouteConfigs ==
  [table : {Table("unset", 0), Table("auto", 0), Table("off", 0), Table("id", 5), Table("id", 300)},
   fwmark : {{}, {7}}, dns : {{}, {Server}},
   peers : {FullTunnel, TwoPeers, <<Peer({V4(0, 0), V6(2, 1)}, Named("vpn"))>>,
            <<Peer({V4(0, 0)}, Named("six"))>>,
            <<Peer({V4(3, 2), V6(0, 1)}, At(4, 0)), Peer({V4(3, 2)}, Nowhere)>>,
            <<Peer({V4(2, 1)}, At(4, 0))>>, <<Peer({}, Nowhere)>>}]
SelectedConfigs ==
  [table : {Table("unset", 0), Table("off", 0)}, fwmark : {{}}, dns : {{Server}},
   peers : {FullTunnel, TwoPeers}]
ForeignRule(family, priority, marks) ==
  [family |-> family, priority |-> priority, fwmark |-> marks, invert |-> FALSE,
   suppress |-> {}, header |-> 9, attr |-> {}]
ForeignRules ==
  {ForeignRule(4, 9999, {3}), ForeignRule(4, 10001, {3}), ForeignRule(6, 10002, {})}
ForeignRoute(p, dev) == [fam |-> p.fam, addr |-> p.addr, len |-> p.len, table |-> 254, dev |-> dev]
ForeignRoutes ==
  {ForeignRoute(V4(0, 0), "uplink"), ForeignRoute(V6(0, 0), "uplink"),
   ForeignRoute(V4(2, 1), "lan"), ForeignRoute(V4(0, 0), "oldtun")}

(* Prefixes: three bits; lists of canonical prefixes and of others, hosts    *)
(* next to each other, duplicates.                                           *)
Canonical == <<V4(7, 3), V4(0, 3), V4(3, 3), V4(2, 3), V4(6, 2), V4(0, 2),
               V4(4, 2), V4(2, 2), V4(4, 1), V4(0, 1), V4(0, 0)>>
HostsDown == [k \in 1..8 |-> V4(8 - k, 3)]
Picked(list, n) == {[i \in 1..n |-> list[f[i]]] :
                      f \in {g \in [1..n -> DOMAIN list] : \A i \in 1..(n - 1) : g[i] < g[i + 1]}}
IncludeLists ==
  Picked(Canonical, 3) \cup {HostsDown} \cup {SubSeq(HostsDown, 1, 6), SubSeq(HostsDown, 2, 8)}
    \cup UNION {[1..n -> [fam : {4}, addr : {3, 5}, len : 0..3]] : n \in 0..2}
    \cup [1..2 -> [fam : {6}, addr : {0, 3, 4}, len : {0, 1, 3}]]
ExcludeLists ==
  {<<>>, <<V4(2, 3)>>, <<V4(5, 2), V6(4, 3)>>, <<V4(7, 3), V4(1, 3)>>}

AllOwners == [group : {"none", "staff"}, user : {"none", "alice"}, uid : {"none", "1000"}]
Arguments == {"install", "remove", "--source", "--socket-group", "--allowed-uid", "None", "7"}

RM == INSTANCE RouteMap WITH
  Width <- 2, Configs <- RouteConfigs,
  RouteSystems <- {"linux", "windows", "other"},
  Preset <- {[fam |-> 4, addr |-> 1], [fam |-> 6, addr |-> 2]},
  Resolve <- [n \in {"vpn", "six"} |->
                {[fam |-> 6, addr |-> 3]} \cup IF n = "vpn" THEN {[fam |-> 4, addr |-> 1]} ELSE {}],
  OtherRules <- ForeignRules, OtherRoutes <- ForeignRoutes, MaxStarts <- 2,
  Shown <- SelectedConfigs, system <- v1, config <- v2, plan <- v3,
  stage <- v4, rules <- v5, routes <- v6, swept <- v7, refused <- v8,
  starts <- v9
PX == INSTANCE Prefixes WITH
  Bits <- 3, Includes <- IncludeLists, Excludes <- ExcludeLists,
  Limits <- {2, 9}, include <- v1, exclude <- v2, limit <- v3, step <- v4,
  todo <- v5, current <- v6, pending <- v7, remaining <- v8
CF == INSTANCE ConfigFile WITH
  InterfaceOnce <- {"PrivateKey", "FwMark"}, InterfaceMany <- {"Address"},
  PeerOnce <- {"PublicKey", "Endpoint"}, PeerMany <- {"AllowedIPs"},
  MaxLines <- 7, text <- v1, section <- v2, interface <- v3, seen <- v4,
  current <- v5, peers <- v6, result <- v7, device <- v8
TR == INSTANCE Traffic WITH
  Configs <- {"a", "b"}, LastHour <- 5, HoursOfDay <- 2, Month <- 1,
  KeptDays <- 2, KeptHours <- 3, TrendDays <- 2, MaxRanked <- 1,
  MaxBytes <- 3, hour <- v1, live <- v2, tunnel <- v3, counter <- v4,
  last <- v5, store <- v6, saved <- v7, age <- v8, moved <- v9, fresh <- v10,
  truth <- v11
CL == INSTANCE CommandLine WITH
  Modes <- {"service", "manage", "windows"}, Words <- Arguments,
  Letters <- {"x", " ", "\"", "\\"}, Owners <- AllOwners, MaxWords <- 5,
  MaxLetters <- 6, mode <- v1, words <- v2, letters <- v3

-----------------------------------------------------------------------------
(* The variables from one on that a machine does not use: they are 0 and     *)
(* stay so, as the choice of the machine does.                               *)
Same12 == UNCHANGED part
Zero10 == v10 = 0 /\ v11 = 0
Same10 == UNCHANGED <<v10, v11>> /\ Same12
Zero9 == v9 = 0 /\ Zero10
Same9 == UNCHANGED <<v9>> /\ Same10
Zero4 == v4 = 0 /\ v5 = 0 /\ v6 = 0 /\ v7 = 0 /\ v8 = 0 /\ Zero9
Same4 == UNCHANGED <<v4, v5, v6, v7, v8>> /\ Same9

Init ==
  \/ part = "routes" /\ RM!Init /\ Zero10
  \/ part = "prefixes" /\ PX!Init /\ Zero9
  \/ part = "text" /\ CF!Init /\ Zero9
  \/ part = "traffic" /\ TR!Init
  \/ part = "arguments" /\ CL!Init /\ Zero4

RouteMapStep == part = "routes" /\ RM!Next /\ Same10
PrefixesStep == part = "prefixes" /\ PX!Next /\ Same9
ConfigFileStep == part = "text" /\ CF!Next /\ Same9
TrafficStep == part = "traffic" /\ TR!Next /\ Same12
CommandLineStep == part = "arguments" /\ CL!Next /\ Same4

Next ==
  \/ RouteMapStep \/ PrefixesStep \/ ConfigFileStep \/ TrafficStep
  \/ CommandLineStep

Spec == Init /\ [][Next]_all

-----------------------------------------------------------------------------
(* Every machine's variables have their types.                               *)
TypeOK ==
  CASE part = "routes"    -> RM!TypeOK
    [] part = "prefixes"  -> PX!TypeOK
    [] part = "text"      -> CF!TypeOK
    [] part = "traffic"   -> TR!TypeOK
    [] part = "arguments" -> CL!TypeOK

(* Once a plan is applied each packet takes the way it promises: what the    *)
(* tunnel carries enters it, what the engine sends does not, the servers of  *)
(* the plan are reached through it (core/route_plan/normalize.rs with        *)
(* platform/linux/network/policy.rs and platform/windows/routes).            *)
PacketsDelivered == part = "routes" => RM!LinuxDelivery /\ RM!WindowsDelivery

(* A start meets nothing an earlier session, or its crash, has left, and a   *)
(* stop or a repair takes back its own rules and routes and no other program's *)
(* (platform/linux/network/policy.rs, recovery.rs).                          *)
RoutesLeftClean == [][part = "routes" => RM!StartsFreely /\ RM!LeavesNothing]_all

(* What the route map tells of a destination, of the items of a plan and of  *)
(* its warnings is so for the plan it is shown for (ui/view/route_map).      *)
ReportsTrue == part = "routes" => RM!ExplainTrue /\ RM!ReportTrue /\ RM!CacheTrue

(* Each algorithm gives exactly what its input means: the addresses asked for *)
(* without those taken out (tools/cidr.rs); the blocks of a configuration    *)
(* (config/parser.rs); the bytes of each day and of the ranking (traffic.rs); *)
(* the arguments as they were written and quoted, the owner as it was given  *)
(* (platform/windows_service_manager.rs, linux_service).                     *)
InputsExact ==
  /\ part = "prefixes" => PX!ExclusionExact
  /\ part = "text" => CF!ParsesExactly
  /\ part = "traffic" => TR!OverviewExact
  /\ part = "arguments" => CL!ArgumentsExact /\ CL!OwnersReadBack /\ CL!QuotingExact
=============================================================================
