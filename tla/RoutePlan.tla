----------------------------- MODULE RoutePlan -----------------------------
(***************************************************************************)
(* What a configuration means for the routing of the machine: the plan of  *)
(* core/route_plan, the rules and routes the Linux pipeline derives from   *)
(* it, the messages cleanup and startup repair delete them with, and the   *)
(* kernel's answer to "where does this packet go".  LinuxNet and           *)
(* WindowsNet have the order of the steps and their failures; this module  *)
(* has their contents.                                                     *)
(*                                                                         *)
(* An address is a number below 2^Width in one of the two families.  An    *)
(* Option<T> of the code is a set with at most one element.  The order of  *)
(* routes and rules inside a plan is abstracted: it shows in reports only. *)
(***************************************************************************)
EXTENDS Naturals, Sequences, FiniteSets

CONSTANTS
    Width,          \* bits of an address
    Configs,        \* the parsed configurations: [table, fwmark, dns, peers]
    RouteSystems,   \* the values of RoutePlanPlatform that are explored
    Preset,         \* the servers of the chosen DNS preset
    Resolve,        \* what the resolver says of each host name
    OtherRules,     \* policy rules of other programs
    OtherRoutes,    \* routes of the machine and of other programs
    MaxStarts       \* bound: tunnels started by one process

VARIABLES
    system,         \* RoutePlanPlatform::current()
    config,         \* the configuration of the start in progress
    plan,           \* RoutePlan::build of it
    stage,          \* how far the start has come, see TypeOK
    rules,          \* the policy rules of the kernel, as it reports them
    routes,         \* the routes of the kernel
    swept,          \* CLEANUP_POLICY_RULES_STATE is DONE
    refused,        \* the kernel has refused to delete one of our rules
    starts          \* bound

vars == <<system, config, plan, stage, rules, routes, swept, refused, starts>>

Families == {4, 6}
DefaultFwmark == 21079
DefaultPolicyTable == 200
MainTable == 254

IsDefault(p) == p.addr = 0 /\ p.len = 0
Covers(p, d) == p.fam = d.fam /\ p.addr \div 2^(Width - p.len) = d.addr \div 2^(Width - p.len)
Host(d) == [fam |-> d.fam, addr |-> d.addr, len |-> Width]
Destinations == [fam : Families, addr : 0..(2^Width - 1)]

(***************************************************************************)
(* The plan                                                                *)
(***************************************************************************)
CollectAllowed(peers) == UNION {peers[i].allowed : i \in DOMAIN peers}
FullTunnel(allowed) == {p.fam : p \in {q \in allowed : IsDefault(q)}}

\* apply_dns_selection
SelectDns(mode, servers) ==
    CASE mode = "follow" -> servers
      [] mode = "system" -> {}
      [] mode = "override" -> Preset
      [] mode = "fill" ->
            servers \union {s \in Preset : \A t \in servers : t.fam # s.fam}

\* a mutant: no default mark
NormalizeBare(c, mode) == [c EXCEPT !.dns = SelectDns(mode, @)]
\* normalize_config_for_runtime
Normalize(c, mode) ==
    [c EXCEPT !.dns = SelectDns(mode, @),
              !.fwmark = IF @ = {} /\ FullTunnel(CollectAllowed(c.peers)) # {}
                         THEN {DefaultFwmark} ELSE @]

RequestedTable(table) == IF table.kind = "id" THEN {table.id} ELSE {}

LinuxPolicyTable(os, table, full) ==
    IF os # "linux" \/ table.kind = "off" \/ full = {} THEN {}
    ELSE IF table.kind = "id" THEN {table.id} ELSE {DefaultPolicyTable}

LinuxRouteTable(os, table, full, fam) ==
    IF LinuxPolicyTable(os, table, full) # {} /\ fam \in full
    THEN LinuxPolicyTable(os, table, full) ELSE RequestedTable(table)

\* a mutant: only the families that are full go to the table
RouteOpsMain(os, c, allowed, full) ==
    IF c.table.kind = "off" THEN {}
    ELSE {[route |-> p, kind |-> "allowed", table |-> RequestedTable(c.table)] : p \in allowed}
RouteOps(os, c, allowed, full) ==
    IF c.table.kind = "off" THEN {}
    ELSE {[route |-> p, kind |-> "allowed",
           table |-> CASE os = "linux" -> LinuxRouteTable(os, c.table, full, p.fam)
                       [] os = "windows" -> {}
                       [] os = "other" -> RequestedTable(c.table)] : p \in allowed}
         \union
         {[route |-> Host(s), kind |-> "dns", table |-> {}] :
            s \in {t \in c.dns : os = "windows" /\ t.fam \in full}}


PolicyRuleOps(c, full, table) ==
    {[family |-> f, table |-> t, fwmark |-> m] : f \in full, t \in table, m \in c.fwmark}

\* a mutant: only addresses are bypassed
BypassAddresses(os, c, full) ==
    {c.peers[i].endpoint : i \in
        {j \in DOMAIN c.peers :
            /\ os = "windows" /\ c.table.kind # "off"
            /\ c.peers[j].endpoint.kind = "ip" /\ c.peers[j].endpoint.fam \in full}}
BypassOps(os, c, full) ==
    {c.peers[i].endpoint : i \in
        {j \in DOMAIN c.peers :
            /\ os = "windows" /\ c.table.kind # "off" /\ full # {}
            /\ \/ c.peers[j].endpoint.kind = "ip" /\ c.peers[j].endpoint.fam \in full
               \/ c.peers[j].endpoint.kind = "name"}}

\* RoutePlan::build
Build(os, c) ==
    LET allowed == CollectAllowed(c.peers)
        full == FullTunnel(allowed)
        table == LinuxPolicyTable(os, c.table, full)
    IN  [full |-> full, policyTable |-> table,
         routeOps |-> RouteOps(os, c, allowed, full),
         ruleOps |-> PolicyRuleOps(c, full, table),
         metricOps |-> IF os = "windows" /\ c.table.kind # "off" THEN full ELSE {},
         bypassOps |-> BypassOps(os, c, full)]

NoPlan == [full |-> {}, policyTable |-> {}, routeOps |-> {}, ruleOps |-> {},
           metricOps |-> {}, bypassOps |-> {}]

\* resolve_policy_state: {} is "no policy routing"
PolicyState(c, p) ==
    {[table |-> t, fwmark |-> m, families |-> p.full] : t \in p.policyTable, m \in c.fwmark}

(***************************************************************************)
(* The rules: their messages, and how they are recognised                  *)
(***************************************************************************)
\* a mutant: the table is cut to the header's byte
BaseRuleByte(fam, priority, table) ==
    [family |-> fam, priority |-> priority, fwmark |-> {}, invert |-> FALSE, suppress |-> {},
     header |-> table % 256, attr |-> {}]
BaseRule(fam, priority, table) ==
    [family |-> fam, priority |-> priority, fwmark |-> {}, invert |-> FALSE, suppress |-> {},
     header |-> IF table > 255 THEN MainTable ELSE table,
     attr |-> IF table > 255 THEN {table} ELSE {}]

FwmarkRule(fam, m) == [BaseRule(fam, 10000, MainTable) EXCEPT !.fwmark = {m}]
\* a mutant: the rule is not inverted
TunnelRulePlain(fam, m, table) == [BaseRule(fam, 10001, table) EXCEPT !.fwmark = {m}]
TunnelRule(fam, m, table) == [BaseRule(fam, 10001, table) EXCEPT !.fwmark = {m}, !.invert = TRUE]
SuppressRule(fam) == [BaseRule(fam, 10002, MainTable) EXCEPT !.suppress = {0}]

\* apply_policy_rules_family
AppliedRules(fam, m, table) == {FwmarkRule(fam, m), TunnelRule(fam, m, table), SuppressRule(fam)}

\* a mutant: the table's width is forgotten in the second copy
SnapshotRulesByte(s) ==
    {IF r.priority = 10001 THEN [r EXCEPT !.header = s.table % 256, !.attr = {}] ELSE r :
        r \in UNION {AppliedRules(f, s.fwmark, s.table) : f \in s.families}}
\* recovery/netlink_match.rs writes the same three messages a second time
SnapshotRules(s) ==
    UNION {{[family |-> f, priority |-> 10000, fwmark |-> {s.fwmark}, invert |-> FALSE,
             suppress |-> {}, header |-> MainTable, attr |-> {}],
            [family |-> f, priority |-> 10001, fwmark |-> {s.fwmark}, invert |-> TRUE,
             suppress |-> {}, attr |-> IF s.table > 255 THEN {s.table} ELSE {},
             header |-> IF s.table > 255 THEN MainTable ELSE s.table],
            [family |-> f, priority |-> 10002, fwmark |-> {}, invert |-> FALSE,
             suppress |-> {0}, header |-> MainTable, attr |-> {}]} : f \in s.families}

\* what the kernel reports of a rule: the table as an attribute, no zero mark
Reported(r) ==
    LET table == IF r.attr = {} THEN r.header ELSE CHOOSE t \in r.attr : TRUE
    IN  [r EXCEPT !.attr = {table}, !.fwmark = @ \ {0},
                  !.header = IF table > 255 THEN 252 ELSE table]

RuleTable(r) == IF r.attr = {} THEN r.header ELSE CHOOSE t \in r.attr : TRUE

\* a mutant: the table of the header is compared
IsExactByHeader(r, s) ==
    \/ r.priority = 10000 /\ r.header = MainTable /\ r.fwmark = {s.fwmark} /\ ~r.invert
    \/ r.priority = 10001 /\ r.header = s.table /\ r.fwmark = {s.fwmark} /\ r.invert
    \/ r.priority = 10002 /\ r.header = MainTable /\ r.suppress = {0}
IsExactPolicyRule(r, s) ==
    \/ /\ r.priority = 10000 /\ RuleTable(r) = MainTable
       /\ r.fwmark = {s.fwmark} /\ ~r.invert /\ r.suppress = {}
    \/ /\ r.priority = 10001 /\ RuleTable(r) = s.table
       /\ r.fwmark = {s.fwmark} /\ r.invert /\ r.suppress = {}
    \/ /\ r.priority = 10002 /\ RuleTable(r) = MainTable
       /\ r.fwmark = {} /\ ~r.invert /\ r.suppress = {0}

\* a mutant: the priority alone decides
HasPriority(r) == r.priority \in 10000..10002
\* is_managed_policy_rule_signature
HasSignature(r) ==
    \/ /\ r.priority = 10000 /\ RuleTable(r) = MainTable
       /\ r.fwmark # {} /\ ~r.invert /\ r.suppress = {}
    \/ r.priority = 10001 /\ r.fwmark # {} /\ r.invert /\ r.suppress = {}
    \/ /\ r.priority = 10002 /\ RuleTable(r) = MainTable
       /\ r.fwmark = {} /\ ~r.invert /\ r.suppress = {0}

(***************************************************************************)
(* The routes: what is added, and what the deletions match                 *)
(***************************************************************************)
TableOf(t) == IF t = {} THEN MainTable ELSE CHOOSE x \in t : TRUE
Installed(op) ==
    [fam |-> op.route.fam, addr |-> op.route.addr, len |-> op.route.len,
     table |-> TableOf(op.table), dev |-> "tun"]
\* the bypass routes of Windows follow the way out the machine had before
Bypassed(e) ==
    {[fam |-> d.fam, addr |-> d.addr, len |-> Width, table |-> MainTable, dev |-> "uplink"] :
        d \in IF e.kind = "ip" THEN {[fam |-> e.fam, addr |-> e.addr]} ELSE Resolve[e.name]}

\* delete_route: destination, table and interface
DeletedOnStop(r, ops) == \E op \in ops : r = Installed(op)
\* cleanup_route_snapshot: destination and table, whatever the interface.  The code deletes
\* at most two such routes; the instances have at most two.
DeletedByRepair(r, ops) == \E op \in ops : [r EXCEPT !.dev = "tun"] = Installed(op)

\* apply_bypass_routes: of what a name resolves to, the addresses of a full family
BypassRoutes(p) == {r \in UNION {Bypassed(e) : e \in p.bypassOps} : r.fam \in p.full}

AllowedOps(p) == {op \in p.routeOps : op.kind = "allowed"}

(***************************************************************************)
(* Where a packet goes (the kernel)                                        *)
(***************************************************************************)
Longest(S) == {r \in S : \A q \in S : q.len <= r.len}
Matches(r, d, m) ==
    /\ r.family = d.fam
    /\ r.fwmark = {} \/ ((r.fwmark = {m}) # r.invert)
InTable(t, d) == {r \in routes : r.table = t /\ Covers(r, d)}
Answer(r, d) == {q \in Longest(InTable(RuleTable(r), d)) : \A s \in r.suppress : q.len > s}
Ordinary(fam) == [BaseRule(fam, 32766, MainTable) EXCEPT !.attr = {MainTable}]
\* the first rule whose table has an answer decides; a zero mark in a rule matches everything
Out(d, m) ==
    LET answering == {r \in rules \union {Ordinary(d.fam)} : Matches(r, d, m) /\ Answer(r, d) # {}}
        first == {r \in answering : \A q \in answering : r.priority <= q.priority}
    IN  UNION {{q.dev : q \in Answer(r, d)} : r \in first}
\* Windows: the longest prefix, then the lowest metric, which is the tunnel's in a full family
OutWindows(d) ==
    LET devs == {r.dev : r \in Longest(InTable(MainTable, d))}
    IN  IF d.fam \in plan.metricOps /\ "tun" \in devs THEN {"tun"} ELSE devs

(***************************************************************************)
(* The steps                                                               *)
(***************************************************************************)
Init ==
    /\ system \in RouteSystems
    /\ config \in Configs
    /\ plan = NoPlan
    /\ stage = "idle"
    /\ rules = {Reported(r) : r \in OtherRules}
    /\ routes = OtherRoutes
    /\ swept = FALSE /\ refused = FALSE /\ starts = 0

\* EngineState::start parses and normalises the configuration
Start(c, mode) ==
    /\ stage = "idle" /\ starts < MaxStarts
    /\ config' = Normalize(c, mode)
    /\ plan' = Build(system, config')
    /\ stage' = "planned"
    /\ starts' = starts + 1
    /\ UNCHANGED <<system, rules, routes, swept, refused>>

\* build_apply_plan: a full tunnel without a mark is refused (MissingFwmark)
Refuse ==
    /\ stage = "planned" /\ system = "linux"
    /\ config.table.kind # "off" /\ plan.full # {} /\ config.fwmark = {}
    /\ stage' = "refused"
    /\ UNCHANGED <<system, config, plan, rules, routes, swept, refused, starts>>

\* cleanup_policy_rules_once with the policy of this start
SweptRules(s) == IF swept THEN rules ELSE {r \in rules : ~IsExactPolicyRule(r, s)}

\* apply_policy_stage
ApplyRules ==
    /\ stage = "planned" /\ system = "linux"
    /\ config.fwmark # {} \/ plan.full = {} \/ config.table.kind = "off"
    /\ LET states == PolicyState(config, plan)
           added == UNION {{Reported(r) : r \in AppliedRules(op.family, op.fwmark, op.table)} :
                                op \in plan.ruleOps}
           before == IF states = {} THEN rules ELSE SweptRules(CHOOSE s \in states : TRUE)
       IN  /\ swept' = (swept \/ states # {})
           /\ IF added \intersect before = {}
              THEN rules' = before \union added /\ stage' = "ruled"
              ELSE rules' = before /\ stage' = "exists"    \* EEXIST: the start fails
    /\ UNCHANGED <<system, config, plan, routes, refused, starts>>

\* apply_route_stage; on Windows the stages of the bypass routes, the routes and the metrics
ApplyRoutes ==
    /\ \/ stage = "ruled"
       \/ stage = "planned" /\ system = "windows"
    /\ routes' = routes \union {Installed(op) : op \in plan.routeOps}
                        \union BypassRoutes(plan)
    /\ stage' = "applied"
    /\ UNCHANGED <<system, config, plan, rules, swept, refused, starts>>

\* cleanup_network_config: errors of single deletions are logged, so a rule may stay
Stop(kept) ==
    /\ stage \in {"applied", "exists"}
    /\ kept \subseteq rules \intersect UNION {{Reported(r) : r \in SnapshotRules(s)} :
                                                 s \in PolicyState(config, plan)}
    /\ routes' = {r \in routes \ BypassRoutes(plan) : ~DeletedOnStop(r, plan.routeOps)}
    /\ rules' = kept \union (rules \ UNION {{Reported(r) : r \in SnapshotRules(s)} :
                                               s \in PolicyState(config, plan)})
    /\ refused' = (refused \/ kept # {})
    /\ stage' = "idle"
    /\ plan' = NoPlan
    /\ UNCHANGED <<system, config, swept, starts>>

\* the Linux service dies; a userspace link goes with it, a kernel link stays
Crash(linkStays) ==
    /\ system = "linux" /\ stage \in {"ruled", "applied"}
    /\ routes' = IF linkStays THEN routes ELSE {r \in routes : r.dev # "tun"}
    /\ stage' = IF linkStays THEN "crashed" ELSE "crashed without link"
    /\ swept' = FALSE
    /\ UNCHANGED <<system, config, plan, rules, refused, starts>>

\* attempt_startup_repair: from the journal's snapshots, or without any
Repair ==
    /\ stage \in {"crashed", "crashed without link"}
    /\ IF AllowedOps(plan) # {} \/ PolicyState(config, plan) # {}
       THEN /\ routes' = {r \in routes : ~DeletedByRepair(r, AllowedOps(plan))}
            /\ rules' = rules \ UNION {{Reported(r) : r \in SnapshotRules(s)} :
                                          s \in PolicyState(config, plan)}
            /\ UNCHANGED swept
       ELSE /\ routes' = {r \in routes : ~( /\ stage = "crashed" /\ r.len = 0
                                            /\ r.table = MainTable /\ r.dev = "oldtun")}
            /\ rules' = {r \in rules : ~HasSignature(r)}
            /\ swept' = TRUE
    /\ stage' = "idle"
    /\ plan' = NoPlan
    /\ UNCHANGED <<system, config, refused, starts>>

\* the service is restarted between two tunnels
Restart ==
    /\ stage = "idle" /\ swept
    /\ swept' = FALSE
    /\ UNCHANGED <<system, config, plan, stage, rules, routes, refused, starts>>

DnsModes == {"follow", "system", "fill", "override"}

Next ==
    \/ \E c \in Configs, mode \in DnsModes : Start(c, mode)
    \/ Refuse \/ ApplyRules \/ ApplyRoutes
    \/ \E kept \in SUBSET rules : Cardinality(kept) <= 1 /\ Stop(kept)
    \/ \E stays \in BOOLEAN : Crash(stays)
    \/ Repair \/ Restart

Spec == Init /\ [][Next]_vars

----------------------------------------------------------------------------
(***************************************************************************)
(* Properties                                                              *)
(***************************************************************************)
TypeOK ==
    /\ system \in RouteSystems
    /\ config.fwmark \subseteq Nat
    /\ plan.full \subseteq Families
    /\ stage \in {"idle", "planned", "refused", "ruled", "exists", "applied",
                  "crashed", "crashed without link"}
    /\ \A r \in rules : r.family \in Families /\ Cardinality(r.attr) = 1
    /\ \A r \in routes : r.fam \in Families /\ r.len \in 0..Width
    /\ swept \in BOOLEAN /\ refused \in BOOLEAN /\ starts \in 0..MaxStarts

Allowed == CollectAllowed(config.peers)
Elsewhere(d) == {r \in routes : r.dev # "tun" /\ r.table = MainTable /\ Covers(r, d)}
EndpointAddresses ==
    UNION {Bypassed(config.peers[i].endpoint) :
             i \in {j \in DOMAIN config.peers : config.peers[j].endpoint.kind # "none"}}

(* Linux, once the rules and routes are in place.  In a full family        *)
(* everything the programs of the machine send goes into the tunnel, even  *)
(* to the local network, and nothing the engine sends (it carries the      *)
(* mark) ever does; in another family a packet enters the tunnel only if   *)
(* an AllowedIPs prefix covers it, and does so when no longer route of the *)
(* machine does and the tunnel uses the main table.                        *)
LinuxDelivery ==
    stage = "applied" /\ system = "linux" /\ config.table.kind # "off" =>
        \A d \in Destinations :
            IF d.fam \in plan.full
            THEN /\ Out(d, 0) = {"tun"}
                 /\ \A m \in config.fwmark : "tun" \notin Out(d, m)
            ELSE LET covering == {p \in Allowed : Covers(p, d)} IN
                 /\ "tun" \in Out(d, 0) => covering # {}
                 /\ (/\ config.table.kind # "id" /\ covering # {}
                     /\ \A r \in Elsewhere(d) : \E p \in covering : r.len <= p.len)
                       => "tun" \in Out(d, 0)

(* Windows has no marks: the engine's packets are kept out of a full       *)
(* tunnel by the bypass routes of the endpoints, and the DNS servers are   *)
(* kept in it by host routes even when the local network covers them.      *)
WindowsDelivery ==
    stage = "applied" /\ system = "windows" /\ config.table.kind # "off" =>
        \A d \in Destinations : d.fam \in plan.full =>
            LET endpoint == \E r \in EndpointAddresses : Covers(r, d)
                server == d \in config.dns
            IN  /\ endpoint /\ ~server => "tun" \notin OutWindows(d)
                /\ server => OutWindows(d) = {"tun"}
                /\ (~endpoint /\ \A r \in Elsewhere(d) : r.len = 0) => OutWindows(d) = {"tun"}

(* A full tunnel is never refused for want of a mark, and a start meets    *)
(* one of its own rules only when an earlier stop of the process failed to *)
(* delete it and the sweep had already run.                                *)
StartsFreely ==
    stage' # "refused" /\ (stage' = "exists" /\ stage # "exists" => refused /\ swept)

(* After a stop or a repair no rule with the signature of the policy       *)
(* routing is left (unless the kernel refused its deletion) and no route   *)
(* of the tunnel; every rule and route of another program is still there,  *)
(* except a route to a destination of the tunnel in the same table, which  *)
(* a repair deletes too, and a default route through another TUN link.     *)
LeavesNothing ==
    stage # "idle" /\ stage' = "idle" =>
        /\ ~refused' => \A r \in rules' : ~HasSignature(r)
        /\ \A r \in routes' : r.dev # "tun"
        /\ {Reported(r) : r \in OtherRules} \subseteq rules'
        /\ \A r \in routes \ routes' :
              \/ r.dev \in {"tun", "oldtun"}
              \/ r.dev = "uplink" /\ system = "windows"
              \/ \E p \in Allowed : p.fam = r.fam /\ p.addr = r.addr /\ p.len = r.len

=============================================================================
