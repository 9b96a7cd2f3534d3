------------------------------ MODULE RouteMap ------------------------------
(***************************************************************************)
(* The route map page (ui/features/route_map): the inventory it builds     *)
(* from the plan of the selected configuration, the report of the last     *)
(* start laid over it, the explanation of an address, and the key under    *)
(* which the plan is cached.  RoutePlan has the plan and the kernel that   *)
(* the page talks about; the page keeps no state the kernel depends on, so *)
(* this module only adds definitions over RoutePlan's.                     *)
(*                                                                         *)
(* Texts are left out: an item is its group, identifier, the prefix it     *)
(* stands for (a set with at most one element) and its fixed status; a     *)
(* line of the log is what it mentions and whether it tells of a failure.  *)
(***************************************************************************)
EXTENDS RoutePlan, SequencesExt

CONSTANT Shown      \* configurations that are selected while another one runs

Groups == {"full", "split", "bypass", "dns", "policy", "warnings"}
\* the order of the groups on the page
GroupRank == [full |-> 1, split |-> 2, bypass |-> 3, dns |-> 4, policy |-> 5, warnings |-> 6]

Off(c) == c.table.kind = "off"
SkippedWhenOff(c) == IF Off(c) THEN {"Skipped"} ELSE {}

\* build_allowed_route_items: the first peer that names a prefix has it
AllowedItems(c) ==
    {[group |-> IF IsDefault(p) THEN "full" ELSE "split", id |-> <<"allowed", p>>,
      target |-> {p}, static |-> SkippedWhenOff(c)] : p \in CollectAllowed(c.peers)}

EndpointItem(e) ==
    IF e.kind = "ip"
    THEN [group |-> "bypass", id |-> <<"bypass", e>>, target |-> {Host(e)}, static |-> {}]
    ELSE [group |-> "bypass", id |-> <<"bypass", e>>, target |-> {}, static |-> {"Warning"}]
\* a mutant: the endpoint's family is not looked at
BypassItemsAnyFamily(os, c, p) ==
    {EndpointItem(c.peers[i].endpoint) : i \in
        {j \in DOMAIN c.peers : os = "windows" /\ p.full # {} /\ c.peers[j].endpoint.kind # "none"}}
\* build_endpoint_bypass_items goes through the peers itself, also for Table = off
BypassItems(os, c, p) ==
    {EndpointItem(c.peers[i].endpoint) : i \in
        {j \in DOMAIN c.peers :
            /\ os = "windows" /\ p.full # {}
            /\ LET e == c.peers[j].endpoint
               IN  e.kind = "name" \/ (e.kind = "ip" /\ e.fam \in p.full)}}

DnsItems(os, c, p) ==
    {[group |-> "dns", id |-> <<"dns", op.route>>, target |-> {op.route}, static |-> {}] :
        op \in {o \in p.routeOps : os = "windows" /\ ~Off(c) /\ o.kind = "dns"}}

PolicyItems(os, c, p) ==
    {[group |-> "policy", id |-> <<"policy", f>>, target |-> {}, static |-> SkippedWhenOff(c)] :
        f \in CASE os = "linux" -> {op.family : op \in p.ruleOps}
                [] os = "windows" -> IF p.full = {} THEN {} ELSE p.metricOps
                [] os = "other" -> {}}

\* build_warning_items; it is given the normalised configuration
WarningIds(os, c, p, killSwitch) ==
    {w \in {"no-peers", "table-off", "no-dns", "kill-switch-disabled", "fwmark"} :
        CASE w = "no-peers" -> c.peers = <<>>
          [] w = "table-off" -> Off(c) /\ CollectAllowed(c.peers) # {}
          [] w = "no-dns" -> p.full # {} /\ c.dns = {}
          [] w = "kill-switch-disabled" -> p.full # {} /\ ~killSwitch
          [] w = "fwmark" -> os = "linux" /\ p.full # {} /\ c.fwmark = {}}
WarningItems(os, c, p, killSwitch) ==
    {[group |-> "warnings", id |-> <<"warning", w>>, target |-> {}, static |-> {"Warning"}] :
        w \in WarningIds(os, c, p, killSwitch)}

\* build_inventory_groups
Items(os, c, p, killSwitch) ==
    AllowedItems(c) \union BypassItems(os, c, p) \union DnsItems(os, c, p)
        \union PolicyItems(os, c, p) \union WarningItems(os, c, p, killSwitch)

(***************************************************************************)
(* The explanation of an address (build_plan_explain)                      *)
(***************************************************************************)
\* a mutant: the first of the longest prefixes instead of the last
BestFirst(matching) ==
    {i \in matching : \A j \in matching : \A x \in i.target, y \in j.target :
        y.len < x.len \/ (y.len = x.len /\ GroupRank[i.group] <= GroupRank[j.group])}
\* a mutant: the first match of the list
BestListed(matching) ==
    {i \in matching : \A j \in matching : GroupRank[i.group] <= GroupRank[j.group]}
\* max_by_key keeps the last of the longest prefixes, in the order of the page
Best(matching) ==
    {i \in matching : \A j \in matching : \A x \in i.target, y \in j.target :
        y.len < x.len \/ (y.len = x.len /\ GroupRank[j.group] <= GroupRank[i.group])}
Explain(items, d) == Best({i \in items : \E x \in i.target : Covers(x, d)})

(***************************************************************************)
(* The report of a start and its overlay                                   *)
(***************************************************************************)
\* a mutant: the identifier of a route leaves its length out
RouteIdAddress(op) == <<op.kind, [op.route EXCEPT !.len = 0]>>
\* RoutePlan::route_item_id
RouteId(op) == <<op.kind, op.route>>

\* What the stages of a start that went through push, by identifier
\* apply_policy_stage; on Windows the metrics stage
PolicyEntries(p) ==
    {[id |-> <<"policy", f>>, status |-> "Applied"] :
        f \in {op.family : op \in p.ruleOps} \union p.metricOps}
\* apply_route_stage, apply_route_entries
RouteEntries(p) == {[id |-> RouteId(op), status |-> "Applied"] : op \in p.routeOps}
\* apply_bypass_routes: a name may have no address of a full family
BypassEntries(p) ==
    {[id |-> <<"bypass", e>>,
      status |-> IF Bypassed(e) \intersect BypassRoutes(p) # {} THEN "Applied" ELSE "Skipped"] :
        e \in p.bypassOps}
ReportOf(p) == PolicyEntries(p) \union RouteEntries(p) \union BypassEntries(p)

\* An event pattern is a text that a line of the log may contain.  The routes have
\* their prefix among them, so items of two configurations share patterns.
EventPatterns(item) ==
    IF item.group = "warnings" THEN {}
    ELSE {<<"own", item.id>>} \union {<<"prefix", x>> : x \in item.target}
\* a line: the patterns it contains, and whether it tells of a failure
Mentions(line, item) == line.contains \intersect EventPatterns(item) # {}
\* status_from_events; the log is the set of the last lines that begin with [net]
StatusFromEvents(log, item) ==
    LET matching == {line \in log : Mentions(line, item)} IN
    IF matching = {} THEN "Planned"
    ELSE IF \E line \in matching : line.failed THEN "Failed" ELSE "Applied"

\* a mutant: the lines of the log come before the report
StatusEventsFirst(item, report, log) ==
    IF \E line \in log : Mentions(line, item) THEN StatusFromEvents(log, item)
    ELSE IF \E e \in report : e.id = item.id
    THEN (CHOOSE e \in report : e.id = item.id).status
    ELSE IF item.static # {} THEN CHOOSE s \in item.static : TRUE ELSE "Planned"
\* overlay_evidence: the report, then the fixed status, then the lines of the log
Status(item, report, log) ==
    IF \E e \in report : e.id = item.id
    THEN (CHOOSE e \in report : e.id = item.id).status
    ELSE IF item.static # {} THEN CHOOSE s \in item.static : TRUE
    ELSE StatusFromEvents(log, item)

(***************************************************************************)
(* The cache of the plan                                                   *)
(***************************************************************************)
Preferences == [mode : DnsModes, killSwitch : BOOLEAN]

\* the fields of the configuration, one after the other and with nothing in between
PeerFields(peer) == <<peer.endpoint>> \o SetToSeq(peer.allowed)
Fields(c) == <<c.table, c.fwmark>> \o SetToSeq(c.dns)
                 \o FlattenSeq([i \in DOMAIN c.peers |-> PeerFields(c.peers[i])])

\* a mutant: the DNS preference is not part of the key
KeyWithoutDns(c, prefs) == [killSwitch |-> prefs.killSwitch, fields |-> Fields(c)]
\* plan_cache_key
PlanKey(c, prefs) == [prefs |-> prefs, fields |-> Fields(c)]

\* build_effective_route_plan
Page(os, c, prefs) ==
    LET n == Normalize(c, prefs.mode) IN Items(os, n, Build(os, n), prefs.killSwitch)

----------------------------------------------------------------------------
(***************************************************************************)
(* Properties                                                              *)
(***************************************************************************)
Way(d) == IF system = "windows" THEN OutWindows(d) ELSE Out(d, 0)
Routed == stage = "applied" /\ ~Off(config) /\ system # "other"
ResolvedNames ==
    UNION {IF e.kind = "name" THEN Resolve[e.name] ELSE {} :
             e \in {config.peers[i].endpoint : i \in DOMAIN config.peers}}

(* The explanation of an address agrees with what the kernel does with a   *)
(* packet to it: no match and "endpoint bypass" stay out of the tunnel, a  *)
(* prefix or a DNS route goes into it.  Exceptions the page cannot know:   *)
(* a longer route of the machine, an endpoint given as a name, and, on     *)
(* Linux, a table of the user's that no rule leads to.                     *)
ExplainTrue ==
    Routed =>
        LET items == Items(system, config, plan, TRUE) IN
        \A d \in Destinations \ (IF system = "windows" THEN ResolvedNames ELSE {}) :
            LET found == Explain(items, d) IN
            /\ (\A i \in found : i.group = "bypass") => "tun" \notin Way(d)
            /\ (\E i \in found : i.group # "bypass") =>
                  \/ "tun" \in Way(d)
                  \/ system = "linux" /\ config.table.kind = "id" /\ d.fam \notin plan.full
                  \/ \E r \in Elsewhere(d) \intersect OtherRoutes, i \in found :
                        \E x \in i.target : r.len > x.len

\* A status depends on whether some line mentions the item and whether one that does
\* tells of a failure, so these logs give every outcome for every item.
LogsAbout(items) ==
    {{}} \union {{[contains |-> UNION {EventPatterns(i) : i \in items}, failed |-> f]} : f \in BOOLEAN}

(* While a tunnel is up the page of its configuration shows every route,   *)
(* rule and bypass of the plan as applied, whatever the log holds: the     *)
(* report is asked first.  What the page of any other configuration shows  *)
(* as applied really is a route of the machine, unless a line of the log   *)
(* is all that says so; such a line may be of an earlier tunnel            *)
(* (overlay_evidence).                                                     *)
ReportTrue ==
    Routed =>
        LET report == ReportOf(plan)
            own == Items(system, config, plan, TRUE)
        IN
        /\ \A i \in own, log \in LogsAbout(own) :
              i.static = {} => Status(i, report, log) = "Applied"
        /\ \A c \in Shown, mode \in DnsModes :
              LET items == Page(system, c, [mode |-> mode, killSwitch |-> TRUE]) IN
              \A i \in items, log \in LogsAbout(items) :
                 (/\ Status(i, report, log) = "Applied"
                  /\ (\E e \in report : e.id = i.id) \/ (\A line \in log : ~Mentions(line, i)))
                 => \A x \in i.target : \E r \in routes :
                        /\ r.fam = x.fam /\ r.addr = x.addr /\ r.len = x.len
                        /\ r.dev = IF i.group = "bypass" THEN "uplink" ELSE "tun"

(* A plan found in the cache is the plan of the current preferences.       *)
CacheTrue ==
    starts = 0 =>
        \A p, q \in Preferences : \A c \in Shown :
            PlanKey(config, p) = PlanKey(c, q) => Page(system, config, p) = Page(system, c, q)
=============================================================================
