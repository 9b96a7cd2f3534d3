------------------------------ MODULE LinuxNet ------------------------------
(***************************************************************************)
(* The Linux network configuration pipeline (src/src/platform/linux/       *)
(* network): apply_network_config, the rollback of a failed apply,          *)
(* cleanup_network_config, the recovery journal, and the repair a restarted *)
(* service makes from it.  One step per change of the system or of the      *)
(* journal, so that a crash can come between any two.                       *)
(*                                                                         *)
(* The caller (Engine) serialises apply and cleanup, brings the device up   *)
(* before an apply and takes it down after a cleanup.                       *)
(***************************************************************************)
EXTENDS Naturals, Sequences

CONSTANTS Routes,    \* the routes a plan may hold
          Configs,   \* the configurations requested, a subset of AllConfigs
          Settings   \* what may happen, and the DNS backends there are, together

AllFaults == {"crash",       \* the process dies at any point
              "journal",     \* writing or removing a journal file fails
              "link",        \* apply: device lookup, MTU, up or an address fails
              "route",       \* a rule or a route cannot be added
              "kill",        \* the kill switch cannot be installed
              "dns",         \* a DNS backend fails
              "deletion",    \* deleting an address, a route or a rule fails
              "killRemoval", \* removing the kill switch fails
              "dnsRevert",   \* reverting the DNS fails
              "lookup",      \* cleanup: the device lookup fails
              "linkLost"}    \* somebody deletes the device of a live tunnel

Families == {"v4", "v6"}
Backends == {"resolved", "resolvconf", "networkManager", "resolvConfFile"}

(* A kill switch needs a full tunnel: without a policy it is not applied.   *)
Plans == [routes: SUBSET Routes, policy: SUBSET Families, kill: BOOLEAN, dns: BOOLEAN]
AllConfigs == {c \in Plans : c.kill => c.policy # {}}

(* A route is none of the other changes an apply makes.                     *)
ASSUME RoutesAssumption == Routes \cap (Families \cup {"kill", "dns"}) = {}
ASSUME ConfigsAssumption == Configs \subseteq AllConfigs
ASSUME SettingsAssumption ==
  \A s \in Settings : s.faults \subseteq AllFaults /\ s.dnsOrder \in Seq(Backends)

VARIABLES
  faults,      \* the failures this behaviour may have
  dnsOrder,    \* the DNS backends the process found, in the order tried
  pc,
  cfg,         \* the configuration being applied, in effect or rolled back
  kill, dns,   \* AppliedNetworkState.kill_switch and .dns; the rest is cfg's
  done,        \* rules and routes this apply has installed
  tried,       \* how many DNS backends apply_dns has tried
  clear,       \* cleanup: clear_journal
  cleanOk,     \* cleanup: no error so far
  swept,       \* cleanup_policy_rules_once has run in this process
  journal,     \* recovery.json
  link,        \* the tunnel device exists
  addr,        \* it carries the interface addresses
  routes, rules, killFw,   \* installed routes, policy rules, kill switch
  resolver     \* what each DNS backend is configured with

callVars == <<cfg, kill, dns, done, tried>>
cleanVars == <<clear, cleanOk>>
linkVars == <<link, addr, routes>>
systemVars == <<linkVars, rules, killFw, resolver>>
setting == <<faults, dnsOrder>>
vars == <<setting, pc, callVars, cleanVars, swept, journal, systemVars>>

-----------------------------------------------------------------------------
NoDns == [backend |-> "none", original |-> "user"]
NoJournal == [phase |-> "none", routes |-> {}, policy |-> {}, kill |-> FALSE,
              dns |-> NoDns]
NoCfg == [routes |-> {}, policy |-> {}, kill |-> FALSE, dns |-> FALSE]

(* A resolver holds the user's settings, the tunnel's, or, for the file     *)
(* that is truncated before it is written, nothing.                         *)
Resolver == {"user", "tunnel", "lost"}
DnsStates == [backend: Backends \cup {"none"}, original: Resolver]
Journals == [phase: {"none", "Applying", "Running"}, routes: SUBSET Routes,
             policy: SUBSET Families, kill: BOOLEAN, dns: DnsStates]

ApplySteps == {"aJournal", "aLookup", "aLink", "aSweep", "aRules", "aRoutes",
               "aKill", "aKillJournal", "aDns", "aRunning"}
CleanupSteps == {"bJournal", "cLink", "cDns", "cRules", "cKill", "cClear"}
RepairSteps == {"down", "rNet", "rKill", "rDns", "rClear"}
Steps == {"idle", "running"} \cup ApplySteps \cup CleanupSteps \cup RepairSteps

(* What the applying and running journals say.  The first one already       *)
(* names every route and rule of the plan, and none ever names a DNS state  *)
(* before the last.                                                         *)
JournalSwapped(phase, k, d) ==             \* mutant: fields swapped
  [phase |-> phase, routes |-> cfg.policy, policy |-> cfg.routes, kill |-> k,
   dns |-> d]
JournalWithoutDns(phase, k, d) ==          \* mutant: no DNS state
  [phase |-> phase, routes |-> cfg.routes, policy |-> cfg.policy, kill |-> k,
   dns |-> NoDns]
JournalInstalled(phase, k, d) ==           \* mutant: names what is installed already
  [phase |-> phase, routes |-> routes, policy |-> rules, kill |-> k, dns |-> d]
JournalOf(phase, k, d) ==
  [phase |-> phase, routes |-> cfg.routes, policy |-> cfg.policy, kill |-> k,
   dns |-> d]

(* The report is written first, then the journal; a failed atomic write may *)
(* still have put the new file in place.                                    *)
Persist(j, ok) ==
  \/ ok /\ journal' = j
  \/ ~ok /\ "journal" \in faults /\ journal' \in {journal, j}

(* Deleting the device takes its addresses, its routes and its per-link DNS *)
(* settings along.                                                          *)
DropLink ==
  /\ link' = FALSE /\ addr' = FALSE /\ routes' = {}
  /\ resolver' = [resolver EXCEPT !["resolved"] = "user"]

Return == pc' = "idle" /\ cfg' = NoCfg /\ kill' = FALSE /\ dns' = NoDns
            /\ done' = {} /\ tried' = 0

-----------------------------------------------------------------------------
(* apply_network_config.  A refusal before the first journal (no fwmark, no *)
(* netlink handle) changes nothing and is not a step.                       *)

AfterKill == IF cfg.dns THEN "aDns" ELSE "aRunning"
AfterRoutesNoDns == IF cfg.kill THEN "aKill" ELSE "aRunning"   \* mutant
AfterRoutes == IF cfg.kill THEN "aKill" ELSE AfterKill
AfterRules == IF cfg.routes = {} THEN AfterRoutes ELSE "aRoutes"

Begin(c) ==
  /\ pc = "idle" /\ link
  /\ pc' = "aJournal" /\ cfg' = c
  /\ UNCHANGED <<setting, kill, dns, done, tried, cleanVars, swept, journal, systemVars>>

WriteFirstJournal ==
  /\ pc = "aJournal"
  /\ \/ /\ Persist(JournalOf("Applying", FALSE, NoDns), TRUE)
        /\ pc' = "aLookup" /\ UNCHANGED callVars
     \/ Persist(JournalOf("Applying", FALSE, NoDns), FALSE) /\ Return
  /\ UNCHANGED <<setting, cleanVars, swept, systemVars>>

(* The two early returns below are `?`: they do not go through abort_apply. *)
LookupLink ==
  /\ pc = "aLookup"
  /\ \/ link /\ pc' = "aLink" /\ UNCHANGED callVars
     \/ "link" \in faults /\ Return
  /\ UNCHANGED <<setting, cleanVars, swept, journal, systemVars>>

(* An address that is already there is an error of the kernel.              *)
ConfigureLink ==
  /\ pc = "aLink"
  /\ \/ /\ ~addr /\ addr' = TRUE
        /\ pc' = IF cfg.policy = {} THEN AfterRules ELSE "aSweep"
        /\ UNCHANGED callVars
     \/ /\ addr \/ "link" \in faults
        /\ addr' \in {addr, TRUE}
        /\ Return
  /\ UNCHANGED <<setting, cleanVars, swept, journal, link, routes, rules, killFw, resolver>>

(* cleanup_policy_rules_once: the first full tunnel of a process removes    *)
(* leftover rules; an error is logged and another apply tries again.        *)
SweepRules ==
  /\ pc = "aSweep"
  /\ pc' = "aRules"
  /\ \/ ~swept /\ swept' = TRUE /\ rules' = {}
     \/ /\ swept \/ "deletion" \in faults
        /\ UNCHANGED <<swept, rules>>
  /\ UNCHANGED <<setting, callVars, cleanVars, journal, linkVars, killFw, resolver>>

(* After every rule and every route the journal is written again.           *)
AddRule ==
  /\ pc = "aRules"
  /\ \E f \in cfg.policy \ done :
       \/ /\ f \notin rules
          /\ rules' = rules \cup {f}
          /\ done' = done \cup {f}
          /\ \E ok \in BOOLEAN :
               /\ Persist(JournalOf("Applying", FALSE, NoDns), ok)
               /\ pc' = IF ~ok THEN "bJournal"
                        ELSE IF cfg.policy \subseteq done' THEN AfterRules ELSE "aRules"
       \/ /\ f \in rules \/ "route" \in faults
          /\ rules' \in {rules, rules \cup {f}}
          /\ pc' = "bJournal"
          /\ UNCHANGED <<done, journal>>
  /\ UNCHANGED <<setting, cfg, kill, dns, tried, cleanVars, swept, linkVars, killFw, resolver>>

AddRoute ==
  /\ pc = "aRoutes"
  /\ \E r \in cfg.routes \ done :
       \/ /\ r \notin routes
          /\ routes' = routes \cup {r}
          /\ done' = done \cup {r}
          /\ \E ok \in BOOLEAN :
               /\ Persist(JournalOf("Applying", FALSE, NoDns), ok)
               /\ pc' = IF ~ok THEN "bJournal"
                        ELSE IF cfg.routes \subseteq done' THEN AfterRoutes ELSE "aRoutes"
       \/ /\ r \in routes \/ "route" \in faults
          /\ pc' = "bJournal"
          /\ UNCHANGED <<done, journal, routes>>
  /\ UNCHANGED <<setting, cfg, kill, dns, tried, cleanVars, swept, link, addr, rules, killFw,
                 resolver>>

(* A failure can leave rules: iptables installs them one by one, and a      *)
(* failed nft apply flushes the table.                                      *)
InstallKillUnrecorded ==                   \* mutant: the state does not say so
  /\ pc = "aKill"
  /\ killFw' = TRUE /\ pc' = "aKillJournal"
  /\ UNCHANGED <<setting, callVars, cleanVars, swept, journal, linkVars, rules, resolver>>
InstallKill ==
  /\ pc = "aKill"
  /\ \/ killFw' = TRUE /\ kill' = TRUE /\ pc' = "aKillJournal"
     \/ "kill" \in faults /\ killFw' \in BOOLEAN /\ pc' = "bJournal" /\ UNCHANGED kill
  /\ UNCHANGED <<setting, cfg, dns, done, tried, cleanVars, swept, journal, linkVars, rules,
                 resolver>>

JournalKill ==
  /\ pc = "aKillJournal"
  /\ \E ok \in BOOLEAN :
       /\ Persist(JournalOf("Applying", kill, NoDns), ok)
       /\ pc' = IF ok THEN AfterKill ELSE "bJournal"
  /\ UNCHANGED <<setting, callVars, cleanVars, swept, systemVars>>

(* A DNS backend that fails may leave what it did: resolvectl and           *)
(* resolvconf are not reverted, the other two try to restore what they read.*)
Residue(b) == {resolver[b], "tunnel"} \cup (IF b = "resolvConfFile" THEN {"lost"} ELSE {})

StartOver == tried' = (tried + 1) % Len(dnsOrder)              \* mutant
NextBackend == tried' = tried + 1

(* apply_dns tries the backends in order.                                   *)
TryDns ==
  /\ pc = "aDns"
  /\ IF tried = Len(dnsOrder)
       THEN pc' = "bJournal" /\ UNCHANGED <<dns, tried, resolver>>
       ELSE LET b == dnsOrder[tried + 1] IN
         \/ /\ resolver' = [resolver EXCEPT ![b] = "tunnel"]
            /\ dns' = [backend |-> b,
                       original |-> IF b \in {"networkManager", "resolvConfFile"}
                                      THEN resolver[b] ELSE "user"]
            /\ pc' = "aRunning"
            /\ UNCHANGED tried
         \/ /\ "dns" \in faults
            /\ \E left \in Residue(b) : resolver' = [resolver EXCEPT ![b] = left]
            /\ NextBackend
            /\ UNCHANGED <<pc, dns>>
  /\ UNCHANGED <<setting, cfg, kill, done, cleanVars, swept, journal, linkVars, rules, killFw>>

JournalRunning ==
  /\ pc = "aRunning"
  /\ \E ok \in BOOLEAN :
       /\ Persist(JournalOf("Running", kill, dns), ok)
       /\ pc' = IF ok THEN "running" ELSE "bJournal"
  /\ UNCHANGED <<setting, callVars, cleanVars, swept, systemVars>>

(* abort_apply writes the applying journal again, best effort, and cleans   *)
(* up without clearing it.                                                  *)
AbortWithoutCleanup ==                     \* mutant: nothing is rolled back
  /\ pc = "bJournal"
  /\ Return
  /\ UNCHANGED <<setting, cleanVars, swept, journal, systemVars>>
AbortApply ==
  /\ pc = "bJournal"
  /\ \E ok \in BOOLEAN : Persist(JournalOf("Applying", kill, NoDns), ok)
  /\ clear' = FALSE /\ cleanOk' = TRUE
  /\ pc' = "cLink"
  /\ UNCHANGED <<setting, callVars, swept, systemVars>>

-----------------------------------------------------------------------------
(* cleanup_network_config_impl.                                             *)

Stop ==
  /\ pc = "running"
  /\ clear' = TRUE /\ cleanOk' = TRUE
  /\ pc' = "cLink"
  /\ UNCHANGED <<setting, callVars, swept, journal, systemVars>>

(* Without the device the link-dependent part, DNS and rules included, is   *)
(* skipped and counts as done; without a netlink handle it is an error.     *)
CleanLink ==
  /\ pc = "cLink"
  /\ \/ /\ "deletion" \in faults
        /\ cleanOk' = FALSE /\ pc' = "cKill"
        /\ UNCHANGED <<addr, routes>>
     \/ /\ ~link \/ "lookup" \in faults
        /\ pc' = "cKill"
        /\ UNCHANGED <<cleanOk, addr, routes>>
     \/ /\ link
        /\ \/ addr' = FALSE /\ routes' = routes \ cfg.routes
           \/ /\ "deletion" \in faults
              /\ addr' \in {addr, FALSE}
              /\ \E kept \in SUBSET cfg.routes : routes' = routes \ (cfg.routes \ kept)
        /\ pc' = "cDns"
        /\ UNCHANGED cleanOk
  /\ UNCHANGED <<setting, callVars, clear, swept, journal, link, rules, killFw, resolver>>

(* cleanup_dns, with its result: NetworkManager swallows its errors, and a  *)
(* failed write leaves the file truncated.                                  *)
RevertNothing(d, ok) == ok /\ UNCHANGED resolver               \* mutant
Revert(d, ok) ==
  \/ ok /\ resolver' = [resolver EXCEPT ![d.backend] = d.original]
  \/ /\ "dnsRevert" \in faults
     /\ ok = (d.backend = "networkManager")
     /\ \/ UNCHANGED resolver
        \/ /\ d.backend = "resolvConfFile"
           /\ resolver' = [resolver EXCEPT !["resolvConfFile"] = "lost"]

CleanDns ==
  /\ pc = "cDns"
  /\ IF dns = NoDns THEN UNCHANGED <<cleanOk, resolver>>
     ELSE \E ok \in BOOLEAN : Revert(dns, ok) /\ cleanOk' = (cleanOk /\ ok)
  /\ pc' = "cRules"
  /\ UNCHANGED <<setting, callVars, clear, swept, journal, linkVars, rules, killFw>>

CleanRules ==
  /\ pc = "cRules"
  /\ \/ rules' = rules \ cfg.policy
     \/ /\ "deletion" \in faults
        /\ \E kept \in SUBSET cfg.policy : rules' = rules \ (cfg.policy \ kept)
  /\ pc' = "cKill"
  /\ UNCHANGED <<setting, callVars, cleanVars, swept, journal, linkVars, killFw, resolver>>

CleanKill ==
  /\ pc = "cKill"
  /\ \/ ~kill /\ UNCHANGED <<cleanOk, killFw>>
     \/ kill /\ killFw' = FALSE /\ UNCHANGED cleanOk
     \/ kill /\ "killRemoval" \in faults /\ cleanOk' = FALSE /\ UNCHANGED killFw
  /\ pc' = "cClear"
  /\ UNCHANGED <<setting, callVars, clear, swept, journal, linkVars, rules, resolver>>

CleanJournal ==
  /\ pc = "cClear"
  /\ \/ clear /\ cleanOk /\ journal' = NoJournal
     \/ /\ ~clear \/ ~cleanOk \/ "journal" \in faults
        /\ UNCHANGED journal
  /\ Return
  /\ UNCHANGED <<setting, cleanVars, swept, systemVars>>

-----------------------------------------------------------------------------
(* A crash, and attempt_startup_repair_with_backend in the next process.    *)

(* A GotaTun device dies with the process, a kernel link stays.             *)
Crash ==
  /\ "crash" \in faults /\ pc # "down"
  /\ pc' = "down"
  /\ cfg' = NoCfg /\ kill' = FALSE /\ dns' = NoDns /\ done' = {} /\ tried' = 0
  /\ swept' = FALSE
  /\ DropLink \/ UNCHANGED <<linkVars, resolver>>
  /\ UNCHANGED <<setting, cleanVars, journal, rules, killFw>>

LoadJournal ==
  /\ pc = "down"
  /\ pc' = IF journal = NoJournal THEN "idle" ELSE "rNet"
  /\ UNCHANGED <<setting, callVars, cleanVars, swept, journal, systemVars>>

OnlyPolicyNeedsCleanup == journal.policy # {}                  \* mutant
NeedsExactCleanup ==
  journal.routes # {} \/ journal.policy # {} \/ journal.kill

(* Errors of the netlink part are ignored, a missing handle is not.         *)
RepairNet ==
  /\ pc = "rNet"
  /\ \/ /\ NeedsExactCleanup
        /\ routes' = routes \ journal.routes
        /\ rules' = rules \ journal.policy
        /\ pc' = "rKill"
        /\ UNCHANGED swept
     \/ /\ ~NeedsExactCleanup
        /\ rules' = {} /\ swept' = TRUE
        /\ pc' = "rKill"
        /\ UNCHANGED routes
     \/ /\ "deletion" \in faults
        /\ \E kept \in SUBSET journal.routes :
             routes' = routes \ (journal.routes \ kept)
        /\ \E kept \in SUBSET journal.policy :
             rules' = rules \ (journal.policy \ kept)
        /\ pc' \in {"rKill", "down"}
        /\ UNCHANGED swept
  /\ UNCHANGED <<setting, callVars, cleanVars, journal, link, addr, killFw, resolver>>

RepairKill ==
  /\ pc = "rKill"
  /\ \/ ~journal.kill /\ pc' = "rDns" /\ UNCHANGED killFw
     \/ journal.kill /\ killFw' = FALSE /\ pc' = "rDns"
     \/ journal.kill /\ "killRemoval" \in faults /\ pc' = "down" /\ UNCHANGED killFw
  /\ UNCHANGED <<setting, callVars, cleanVars, swept, journal, linkVars, rules, resolver>>

RepairDns ==
  /\ pc = "rDns"
  /\ IF journal.dns = NoDns THEN pc' = "rClear" /\ UNCHANGED resolver
     ELSE \E ok \in BOOLEAN :
            Revert(journal.dns, ok) /\ pc' = (IF ok THEN "rClear" ELSE "down")
  /\ UNCHANGED <<setting, callVars, cleanVars, swept, journal, linkVars, rules, killFw>>

RepairAgain ==                             \* mutant: repairs for ever
  /\ pc = "rClear"
  /\ pc' = "rNet"
  /\ UNCHANGED <<setting, callVars, cleanVars, swept, journal, systemVars>>
RepairClear ==
  /\ pc = "rClear"
  /\ \/ journal' = NoJournal /\ pc' = "idle"
     \/ "journal" \in faults /\ pc' = "down" /\ UNCHANGED journal
  /\ UNCHANGED <<setting, callVars, cleanVars, swept, systemVars>>

-----------------------------------------------------------------------------
(* The device, which Engine brings up before an apply and takes down, or    *)
(* caches as it is, afterwards.                                             *)

LinkUp ==
  /\ pc = "idle" /\ ~link
  /\ link' = TRUE
  /\ UNCHANGED <<setting, pc, callVars, cleanVars, swept, journal, addr, routes, rules, killFw,
                 resolver>>

LinkDown ==
  /\ pc = "idle" \/ (pc = "running" /\ "linkLost" \in faults)
  /\ link /\ DropLink
  /\ UNCHANGED <<setting, pc, callVars, cleanVars, swept, journal, rules, killFw>>

Init ==
  /\ \E s \in Settings : faults = s.faults /\ dnsOrder = s.dnsOrder
  /\ pc = "idle" /\ cfg = NoCfg /\ kill = FALSE /\ dns = NoDns
  /\ done = {} /\ tried = 0 /\ clear = FALSE /\ cleanOk = TRUE /\ swept = FALSE
  /\ journal = NoJournal
  /\ link = FALSE /\ addr = FALSE /\ routes = {} /\ rules = {} /\ killFw = FALSE
  /\ resolver = [b \in Backends |-> "user"]

Apply == \/ WriteFirstJournal \/ LookupLink \/ ConfigureLink \/ SweepRules
         \/ AddRule \/ AddRoute \/ InstallKill \/ JournalKill \/ TryDns
         \/ JournalRunning \/ AbortApply
Cleanup == \/ CleanLink \/ CleanDns \/ CleanRules \/ CleanKill \/ CleanJournal
Repair == LoadJournal \/ RepairNet \/ RepairKill \/ RepairDns \/ RepairClear

Next == \/ \E c \in Configs : Begin(c)
        \/ Apply \/ Stop \/ Cleanup \/ Repair \/ Crash \/ LinkUp \/ LinkDown

Spec == Init /\ [][Next]_vars
FairSpec == Spec /\ WF_vars(Apply) /\ WF_vars(Cleanup) /\ WF_vars(Repair)

-----------------------------------------------------------------------------
(* Properties.                                                              *)

(* Every variable keeps the type of its Rust counterpart or of what it      *)
(* stands for in the system.                                                *)
TypeOK ==
  /\ pc \in Steps
  /\ cfg \in Plans
  /\ kill \in BOOLEAN /\ dns \in DnsStates
  /\ done \subseteq Routes \cup Families /\ tried \in 0..Len(dnsOrder)
  /\ clear \in BOOLEAN /\ cleanOk \in BOOLEAN /\ swept \in BOOLEAN
  /\ journal \in Journals
  /\ link \in BOOLEAN /\ addr \in BOOLEAN
  /\ routes \subseteq Routes /\ rules \subseteq Families
  /\ killFw \in BOOLEAN /\ resolver \in [Backends -> Resolver]

(* Failures that an apply rolls back completely, and failures of an apply   *)
(* while the cleanup works.                                                 *)
RolledBack == {"route", "journal"}
ApplyFaults == {"crash", "journal", "link", "route", "kill", "dns"}

(* recovery.rs:4 for routes and rules: what is installed is in the journal, *)
(* at every moment, so a crash at any point can be repaired.                *)
RoutesAndRulesJournaled == routes \subseteq journal.routes /\ rules \subseteq journal.policy

(* A tunnel reported as applied has all that was asked for in effect, and   *)
(* the journal names all of it, the user's own DNS settings included.       *)
RunningIsRecoverable ==
  pc = "running" =>
    /\ routes = cfg.routes /\ rules = cfg.policy /\ (cfg.kill => killFw)
    /\ cfg.dns => resolver[dns.backend] = "tunnel"
    /\ cfg.dns <=> dns # NoDns
    /\ journal = [phase |-> "Running", routes |-> cfg.routes, policy |-> cfg.policy,
                   kill |-> cfg.kill, dns |-> dns]

(* Whatever step of an apply fails, or crashes: the journal of the moment    *)
(* names what the repair has to undo.                                       *)
Recoverable ==
  faults \subseteq ApplyFaults => RoutesAndRulesJournaled /\ RunningIsRecoverable

(* The kill switch always has an owner that will remove it: the state of    *)
(* the session, or the journal.                                             *)
KillSwitchOwned == killFw => kill \/ journal.kill

(* As long as the system does not use the user's DNS settings, somebody     *)
(* remembers them.  With reverts that fail it does not hold: the next start  *)
(* overwrites the journal that a stop has kept (recovery.rs:5).             *)
UserDnsRemembered ==
  \A b \in {"networkManager", "resolvConfFile"} :
    resolver[b] # "user" =>
      \E d \in {dns, journal.dns} : d.backend = b /\ d.original = "user"

(* An apply never meets the addresses of an earlier one on its device (the  *)
(* kernel would refuse to add them again).                                  *)
FreshLink == pc = "aLink" => ~addr

(* A change of the system that outlives a step is known to the session or   *)
(* to the journal, and none reaches the next apply; what they keep has the  *)
(* types of recovery/snapshot.rs, whatever fails.                           *)
NothingForgotten ==
  /\ TypeOK
  /\ faults \subseteq RolledBack => KillSwitchOwned /\ UserDnsRemembered /\ FreshLink

Restored(rs, ru, kf, re) ==
  rs = {} /\ ru = {} /\ ~kf /\ re = [b \in Backends |-> "user"]

(* What a journal names is no longer in effect, in the next state.          *)
UndoneNext(j) ==
  /\ routes' \cap j.routes = {} /\ rules' \cap j.policy = {}
  /\ j.kill => ~killFw'
  /\ j.dns # NoDns => resolver'[j.dns.backend] = j.dns.original

(* The journal is removed last, when nothing it names is left.              *)
JournalClearedLast ==
  [][faults \subseteq ApplyFaults /\ journal # NoJournal /\ journal' = NoJournal
       => UndoneNext(journal)]_vars

(* recovery.rs:3-6, network.rs:14: a service that starts serving after a     *)
(* crash starts from the user's settings, whatever was changed before it.    *)
ServiceStartsClean ==
  [][pc' = "idle" /\ pc \in RepairSteps =>
       Restored(routes', rules', killFw', resolver')]_vars

(* The contract, with the phase of a call and the changes in effect.        *)
Phase == CASE pc = "idle" -> "off"
           [] pc \in ApplySteps -> "applying"
           [] pc = "running" -> "on"
           [] pc \in CleanupSteps -> "undoing"
           [] pc \in RepairSteps -> "down"
WantedRouting == cfg.routes \cup cfg.policy
WantedRest == {e \in {"kill", "dns"} : cfg[e]}
RestInEffect == (IF killFw THEN {"kill"} ELSE {})
  \cup (IF \E b \in Backends : resolver[b] # "user" THEN {"dns"} ELSE {})
AllWanted == WantedRouting \cup WantedRest
AllInEffect == routes \cup rules \cup RestInEffect

Contract == INSTANCE NetContract WITH
  Effects <- Routes \cup Families \cup {"kill", "dns"},
  phase <- Phase, wanted <- AllWanted, effects <- AllInEffect

RoutingContract == INSTANCE NetContract WITH
  Effects <- Routes \cup Families, phase <- Phase,
  wanted <- WantedRouting, effects <- routes \cup rules

(* All or nothing: without crashes, the pipeline implements NetContract for  *)
(* everything it changes; a failed apply rolls back all of it                *)
(* (network.rs:18).  For routes and rules it does so wherever a crash hits:  *)
(* a service that serves again starts from none.                            *)
AllOrNothing ==
  /\ Contract!Init /\ RoutingContract!Init
  /\ [][/\ faults \subseteq RolledBack =>
             [Contract!Next]_<<Phase, AllWanted, AllInEffect>>
        /\ faults \subseteq ApplyFaults =>
             [RoutingContract!Next]_<<Phase, WantedRouting, routes \cup rules>>]_vars

(* An apply and a cleanup come to an end, whichever backends fail; and      *)
(* unless the process keeps dying, its repair ends and it serves again.     *)
CallsEnd ==
  /\ pc \in ApplySteps \cup CleanupSteps ~> pc \in {"idle", "running", "down"}
  /\ faults \subseteq ApplyFaults =>
       []<><<Crash>>_vars \/ (pc \in RepairSteps ~> pc = "idle")
=============================================================================
