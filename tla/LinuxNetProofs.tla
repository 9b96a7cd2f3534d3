--------------------------- MODULE LinuxNetProofs ---------------------------
(***************************************************************************)
(* What LinuxNet promises, for every set of routes, every set of           *)
(* configurations and every setting: its types, that whatever is installed *)
(* can be undone from the journal, that no change of a failed apply is      *)
(* forgotten, that the journal is removed last, and that the pipeline       *)
(* implements NetContract.                                                 *)
(*                                                                         *)
(* The inductive invariant IInv says what the position of a call implies   *)
(* about the journal and the system; its parts are kept by one lemma each.  *)
(***************************************************************************)
EXTENDS LinuxNet, TLAPS

-----------------------------------------------------------------------------
(* The inductive invariant.                                                 *)

(* abort_apply and what it and a stop share: CleanupSteps without the write  *)
(* of the journal.                                                          *)
Cleaning == CleanupSteps \ {"bJournal"}
InCall == ApplySteps \cup {"running"} \cup CleanupSteps
BeforeRules == {"aJournal", "aLookup", "aLink", "aSweep"}
AfterAll == {"aRunning", "running"}

SettingTypes == faults \subseteq AllFaults /\ dnsOrder \in Seq(Backends)
KnownDns(d) == d = NoDns \/ d.backend \in Backends

(* The state of a call: nothing outside of one, and as far as it has come.   *)
CallProgress ==
  /\ pc \notin InCall => cfg = NoCfg /\ ~kill /\ dns = NoDns /\ done = {} /\ tried = 0
  /\ pc \in BeforeRules => done = {} /\ tried = 0
  /\ pc \in BeforeRules \cup {"aRules", "aRoutes", "aKill"} => ~kill
  /\ pc \in ApplySteps \ {"aRunning"} => dns = NoDns
  /\ pc \in {"aKill", "aKillJournal"} => cfg.kill
  /\ pc = "aKillJournal" => kill
  /\ pc = "aDns" => cfg.dns
  /\ pc \in {"aDns"} \cup AfterAll => kill = cfg.kill
  /\ pc \in AfterAll => (cfg.dns <=> dns # NoDns)
  /\ KnownDns(dns)

(* What the journal says during a call and a repair.                        *)
JournalNames ==
  /\ pc \in InCall \ {"aJournal"} =>
       journal.routes = cfg.routes /\ journal.policy = cfg.policy
  /\ pc = "running" \/ (pc \in Cleaning /\ clear) =>
       journal = JournalOf("Running", kill, dns)
  /\ KnownDns(journal.dns)

(* Routes and rules, while cleanups work.                                   *)
Routing ==
  /\ RoutesAndRulesJournaled
  /\ pc \in InCall => link
  /\ pc \in {"idle"} \cup BeforeRules \cup {"cKill", "cClear", "rKill", "rDns", "rClear"} =>
       routes = {} /\ rules = {}
  /\ pc \in {"aRules", "cDns", "cRules"} => routes = {}
  /\ pc \in {"aRules", "aRoutes"} => done = routes \cup rules
  /\ pc = "aRoutes" => rules = cfg.policy
  /\ pc \in {"aKill", "aKillJournal", "aDns"} \cup AfterAll =>
       routes = cfg.routes /\ rules = cfg.policy

(* Kill switch and DNS, while cleanups work: in effect when a tunnel is      *)
(* reported, and undone before the journal that names them is removed.       *)
Undoing ==
  /\ pc \in {"aKillJournal", "aDns"} \cup AfterAll => (cfg.kill => killFw)
  /\ pc \in AfterAll /\ cfg.dns => resolver[dns.backend] = "tunnel"
  /\ pc = "cClear" => (kill => ~killFw)
  /\ pc \in {"cRules", "cKill", "cClear"} /\ dns # NoDns =>
       resolver[dns.backend] = dns.original
  /\ pc \in {"rDns", "rClear"} => (journal.kill => ~killFw)
  /\ pc = "rClear" /\ journal.dns # NoDns =>
       resolver[journal.dns.backend] = journal.dns.original

(* Nothing but the call's own state is in effect, while a failed apply is    *)
(* rolled back completely.                                                  *)
OwnedByCall ==
  /\ pc \notin RepairSteps
  /\ killFw => kill
  /\ dns.original = "user"
  /\ \A b \in Backends : resolver[b] # "user" => dns.backend = b
  /\ pc \in {"idle", "aJournal", "aLookup", "aLink", "cDns", "cRules", "cKill", "cClear"} =>
       ~addr
  /\ pc = "cClear" => ~killFw
  /\ pc \in {"cRules", "cKill", "cClear"} => \A b \in Backends : resolver[b] = "user"

IInv ==
  /\ TypeOK /\ SettingTypes
  /\ CallProgress
  /\ JournalNames
  /\ faults \subseteq ApplyFaults => Routing /\ Undoing
  /\ faults \subseteq RolledBack => OwnedByCall

-----------------------------------------------------------------------------
(* Facts used in several places.                                            *)

USE ConfigsAssumption, SettingsAssumption

(* What nothing and nobody's records are, and what a journal is.             *)
LEMMA RecordTypes ==
  /\ NoDns \in DnsStates /\ NoCfg \in Plans /\ NoJournal \in Journals
  /\ \A phase \in {"Applying", "Running"}, k \in BOOLEAN, d \in DnsStates :
       cfg \in Plans => JournalOf(phase, k, d) \in Journals
  /\ \A b \in Backends, o \in Resolver : [backend |-> b, original |-> o] \in DnsStates
BY DEF NoDns, NoCfg, NoJournal, DnsStates, Plans, Journals, JournalOf, Resolver

(* The fields of the records a state holds.                                 *)
LEMMA FieldTypes ==
  ASSUME TypeOK, SettingTypes
  PROVE  /\ cfg.routes \subseteq Routes /\ cfg.policy \subseteq Families
         /\ cfg.kill \in BOOLEAN /\ cfg.dns \in BOOLEAN
         /\ journal.routes \subseteq Routes /\ journal.policy \subseteq Families
         /\ journal.kill \in BOOLEAN /\ journal.dns \in DnsStates
         /\ dns.original \in Resolver /\ journal.dns.original \in Resolver
         /\ dns.backend \in Backends \cup {"none"}
         /\ journal.dns.backend \in Backends \cup {"none"}
         /\ kill \in BOOLEAN /\ clear \in BOOLEAN /\ cleanOk \in BOOLEAN
         /\ Len(dnsOrder) \in Nat
         /\ \A i \in 1..Len(dnsOrder) : dnsOrder[i] \in Backends
BY DEF TypeOK, SettingTypes, Plans, Journals, DnsStates

(* Every value of Configs is a plan.                                        *)
LEMMA ConfigTypes ==
  ASSUME NEW c \in Configs
  PROVE  /\ c \in Plans /\ (c.kill => c.policy # {})
         /\ c.routes \subseteq Routes /\ c.policy \subseteq Families
BY DEF AllConfigs, Plans

(* apply_dns has another backend until it has tried them all.               *)
LEMMA AnotherBackend ==
  ASSUME TypeOK, SettingTypes, tried # Len(dnsOrder)
  PROVE  /\ dnsOrder[tried + 1] \in Backends
         /\ tried + 1 \in 0..Len(dnsOrder)
<1>1. tried \in 0..Len(dnsOrder) /\ Len(dnsOrder) \in Nat
  BY FieldTypes DEF TypeOK
<1>. QED
  BY <1>1, FieldTypes

(* TypeOK, in three parts.                                                  *)
CallTypes ==
  /\ cfg \in Plans /\ kill \in BOOLEAN /\ dns \in DnsStates
  /\ done \subseteq Routes \cup Families /\ tried \in 0..Len(dnsOrder)
RecordedTypes ==
  /\ pc \in Steps
  /\ clear \in BOOLEAN /\ cleanOk \in BOOLEAN /\ swept \in BOOLEAN
  /\ journal \in Journals
SystemTypes ==
  /\ link \in BOOLEAN /\ addr \in BOOLEAN
  /\ routes \subseteq Routes /\ rules \subseteq Families
  /\ killFw \in BOOLEAN /\ resolver \in [Backends -> Resolver]

(* A call that is over leaves typed variables.                              *)
LEMMA ReturnTypes ==
  ASSUME TypeOK, SettingTypes, dnsOrder' = dnsOrder, cfg' = NoCfg, kill' = FALSE,
         dns' = NoDns, done' = {}, tried' = 0
  PROVE  CallTypes'
<1>1. cfg' \in Plans /\ dns' \in DnsStates
  BY RecordTypes
<1>2. kill' \in BOOLEAN /\ done' \subseteq Routes \cup Families
  OBVIOUS
<1>3. tried' \in 0..Len(dnsOrder')
  BY FieldTypes
<1>. QED
  BY <1>1, <1>2, <1>3 DEF CallTypes

-----------------------------------------------------------------------------
(* Each part of the invariant is kept by every step.                        *)

(* The types.  The records of a call, what it records and the system are    *)
(* typed one after the other where a step changes all three.                *)
LEMMA TypeStep ==
  ASSUME TypeOK, SettingTypes, [Next]_vars
  PROVE  TypeOK'
<1>1. ASSUME NEW c \in Configs, Begin(c)
      PROVE  TypeOK'
  BY <1>1, RecordTypes, FieldTypes, ConfigTypes DEF Begin, setting, cleanVars,
        systemVars, linkVars, TypeOK, Resolver, CallTypes, RecordedTypes, Steps,
        ApplySteps, CleanupSteps, RepairSteps, SystemTypes
<1>2. CASE WriteFirstJournal
  <2>1. CallTypes'
    BY <1>2, RecordTypes, FieldTypes, ReturnTypes DEF WriteFirstJournal, Persist,
          callVars, Return, setting, cleanVars, systemVars, linkVars, TypeOK,
          Resolver, CallTypes
  <2>2. RecordedTypes'
    BY <1>2, RecordTypes, FieldTypes DEF WriteFirstJournal, Persist, callVars,
          Return, setting, cleanVars, systemVars, linkVars, TypeOK, Resolver,
          RecordedTypes, Steps, ApplySteps, CleanupSteps, RepairSteps
  <2>3. SystemTypes'
    BY <1>2, RecordTypes, FieldTypes DEF WriteFirstJournal, Persist, callVars,
          Return, setting, cleanVars, systemVars, linkVars, TypeOK, Resolver,
          SystemTypes
  <2>. QED
    BY <2>1, <2>2, <2>3 DEF TypeOK, CallTypes, RecordedTypes, SystemTypes
<1>3. CASE LookupLink
  <2>1. CallTypes'
    BY <1>3, RecordTypes, FieldTypes, ReturnTypes DEF LookupLink, callVars, Return,
          setting, cleanVars, systemVars, linkVars, TypeOK, Resolver, CallTypes
  <2>2. RecordedTypes'
    BY <1>3, RecordTypes, FieldTypes DEF LookupLink, callVars, Return, setting,
          cleanVars, systemVars, linkVars, TypeOK, Resolver, RecordedTypes, Steps,
          ApplySteps, CleanupSteps, RepairSteps
  <2>3. SystemTypes'
    BY <1>3, RecordTypes, FieldTypes DEF LookupLink, callVars, Return, setting,
          cleanVars, systemVars, linkVars, TypeOK, Resolver, SystemTypes
  <2>. QED
    BY <2>1, <2>2, <2>3 DEF TypeOK, CallTypes, RecordedTypes, SystemTypes
<1>4. CASE ConfigureLink
  <2>1. CallTypes'
    BY <1>4, RecordTypes, FieldTypes, ReturnTypes DEF ConfigureLink, AfterRules,
          callVars, Return, setting, cleanVars, AfterRoutes, AfterKill, TypeOK,
          Resolver, CallTypes
  <2>2. RecordedTypes'
    BY <1>4, RecordTypes, FieldTypes DEF ConfigureLink, AfterRules, callVars,
          Return, setting, cleanVars, AfterRoutes, AfterKill, TypeOK, Resolver,
          RecordedTypes, Steps, ApplySteps, CleanupSteps, RepairSteps
  <2>3. SystemTypes'
    BY <1>4, RecordTypes, FieldTypes DEF ConfigureLink, AfterRules, callVars,
          Return, setting, cleanVars, AfterRoutes, AfterKill, TypeOK, Resolver,
          SystemTypes
  <2>. QED
    BY <2>1, <2>2, <2>3 DEF TypeOK, CallTypes, RecordedTypes, SystemTypes
<1>5. CASE SweepRules
  BY <1>5, RecordTypes, FieldTypes DEF SweepRules, setting, callVars, cleanVars,
        linkVars, TypeOK, Resolver, CallTypes, RecordedTypes, Steps, ApplySteps,
        CleanupSteps, RepairSteps, SystemTypes
<1>6. CASE AddRule
  <2>1. CallTypes'
    BY <1>6, FieldTypes DEF AddRule, Persist, AfterRules, AfterRoutes, AfterKill,
          setting, cleanVars, linkVars, TypeOK, CallTypes
  <2>2. RecordedTypes'
    BY <1>6, RecordTypes, FieldTypes DEF AddRule, Persist, AfterRules, AfterRoutes,
          AfterKill, setting, cleanVars, linkVars, TypeOK, RecordedTypes, Steps,
          ApplySteps, CleanupSteps, RepairSteps
  <2>3. SystemTypes'
    BY <1>6, FieldTypes DEF AddRule, Persist, AfterRules, AfterRoutes, AfterKill,
          setting, cleanVars, linkVars, TypeOK, SystemTypes
  <2>. QED
    BY <2>1, <2>2, <2>3 DEF TypeOK, CallTypes, RecordedTypes, SystemTypes
<1>7. CASE AddRoute
  <2>1. CallTypes'
    BY <1>7, FieldTypes DEF AddRoute, Persist, AfterRoutes, AfterKill, setting,
          cleanVars, TypeOK, CallTypes
  <2>2. RecordedTypes'
    BY <1>7, RecordTypes, FieldTypes DEF AddRoute, Persist, AfterRoutes, AfterKill,
          setting, cleanVars, TypeOK, RecordedTypes, Steps, ApplySteps,
          CleanupSteps, RepairSteps
  <2>3. SystemTypes'
    BY <1>7, FieldTypes DEF AddRoute, Persist, AfterRoutes, AfterKill, setting,
          cleanVars, TypeOK, SystemTypes
  <2>. QED
    BY <2>1, <2>2, <2>3 DEF TypeOK, CallTypes, RecordedTypes, SystemTypes
<1>8. CASE InstallKill
  BY <1>8, RecordTypes, FieldTypes DEF InstallKill, setting, cleanVars, linkVars,
        TypeOK, Resolver, CallTypes, RecordedTypes, Steps, ApplySteps, CleanupSteps,
        RepairSteps, SystemTypes
<1>9. CASE JournalKill
  BY <1>9, RecordTypes, FieldTypes DEF JournalKill, Persist, AfterKill, setting,
        callVars, cleanVars, systemVars, linkVars, TypeOK, Resolver, CallTypes,
        RecordedTypes, Steps, ApplySteps, CleanupSteps, RepairSteps, SystemTypes
<1>10. CASE TryDns
  <2>1. RecordedTypes' /\ (/\ link \in BOOLEAN /\ addr \in BOOLEAN
                           /\ routes \subseteq Routes /\ rules \subseteq Families
                           /\ killFw \in BOOLEAN)'
    BY <1>10 DEF TryDns, TypeOK, RecordedTypes, setting, cleanVars, linkVars, Steps,
               ApplySteps, CleanupSteps, RepairSteps
  <2>2. cfg' \in Plans /\ kill' \in BOOLEAN /\ done' \subseteq Routes \cup Families
    BY <1>10 DEF TryDns, TypeOK
  <2>. DEFINE b == dnsOrder[tried + 1]
  <2>3. CASE tried = Len(dnsOrder)
    BY <1>10, <2>1, <2>2, <2>3
      DEF TryDns, TypeOK, CallTypes, RecordedTypes, setting
  <2>4. ASSUME tried # Len(dnsOrder), dns'.original \in Resolver,
               resolver' = [resolver EXCEPT ![b] = "tunnel"],
               dns' = [backend |-> b, original |-> dns'.original], UNCHANGED tried
        PROVE  TypeOK'
    <3>1. b \in Backends /\ dns' \in DnsStates
      BY <2>4, AnotherBackend, RecordTypes
    <3>. QED
      BY <1>10, <2>1, <2>2, <2>4, <3>1
        DEF TryDns, TypeOK, RecordedTypes, setting, Resolver
  <2>5. ASSUME tried # Len(dnsOrder), UNCHANGED dns, NextBackend,
               NEW left \in Residue(b), resolver' = [resolver EXCEPT ![b] = left]
        PROVE  TypeOK'
    <3>1. b \in Backends /\ left \in Resolver
      BY <2>5, AnotherBackend DEF Residue, TypeOK, Resolver
    <3>2. tried' \in 0..Len(dnsOrder')
      BY <1>10, <2>5, AnotherBackend DEF TryDns, NextBackend, setting
    <3>. QED
      BY <1>10, <2>1, <2>2, <2>5, <3>1, <3>2 DEF TryDns, TypeOK, RecordedTypes
  <2>6. resolver[b] \in Resolver \/ tried = Len(dnsOrder)
    BY AnotherBackend DEF TypeOK
  <2>. QED
    BY <1>10, <2>3, <2>4, <2>5, <2>6 DEF TryDns, Resolver
<1>11. CASE JournalRunning
  BY <1>11, RecordTypes, FieldTypes DEF JournalRunning, Persist, setting, callVars,
        cleanVars, systemVars, linkVars, TypeOK, Resolver, CallTypes, RecordedTypes,
        Steps, ApplySteps, CleanupSteps, RepairSteps, SystemTypes
<1>12. CASE AbortApply
  BY <1>12, RecordTypes, FieldTypes DEF AbortApply, Persist, setting, callVars,
        systemVars, linkVars, TypeOK, Resolver, CallTypes, RecordedTypes, Steps,
        ApplySteps, CleanupSteps, RepairSteps, SystemTypes
<1>13. CASE Stop
  BY <1>13, RecordTypes, FieldTypes DEF Stop, setting, callVars, systemVars,
        linkVars, TypeOK, Resolver, CallTypes, RecordedTypes, Steps, ApplySteps,
        CleanupSteps, RepairSteps, SystemTypes
<1>14. CASE CleanLink
  <2>1. CallTypes'
    BY <1>14, FieldTypes DEF CleanLink, setting, callVars, TypeOK, CallTypes
  <2>2. RecordedTypes'
    BY <1>14, RecordTypes, FieldTypes DEF CleanLink, setting, callVars, TypeOK,
          RecordedTypes, Steps, ApplySteps, CleanupSteps, RepairSteps
  <2>3. SystemTypes'
    BY <1>14, FieldTypes DEF CleanLink, setting, callVars, TypeOK, SystemTypes
  <2>. QED
    BY <2>1, <2>2, <2>3 DEF TypeOK, CallTypes, RecordedTypes, SystemTypes
<1>15. CASE CleanDns
  BY <1>15, RecordTypes, FieldTypes DEF CleanDns, Revert, setting, callVars,
        linkVars, TypeOK, Resolver, CallTypes, RecordedTypes, Steps, ApplySteps,
        CleanupSteps, RepairSteps, SystemTypes
<1>16. CASE CleanRules
  BY <1>16, RecordTypes, FieldTypes DEF CleanRules, setting, callVars, cleanVars,
        linkVars, TypeOK, Resolver, CallTypes, RecordedTypes, Steps, ApplySteps,
        CleanupSteps, RepairSteps, SystemTypes
<1>17. CASE CleanKill
  BY <1>17, RecordTypes, FieldTypes DEF CleanKill, setting, callVars, linkVars,
        TypeOK, Resolver, CallTypes, RecordedTypes, Steps, ApplySteps, CleanupSteps,
        RepairSteps, SystemTypes
<1>18. CASE CleanJournal
  <2>1. CallTypes'
    BY <1>18, RecordTypes, FieldTypes, ReturnTypes DEF CleanJournal, Return,
          setting, cleanVars, systemVars, linkVars, TypeOK, Resolver, CallTypes
  <2>2. RecordedTypes'
    BY <1>18, RecordTypes, FieldTypes DEF CleanJournal, Return, setting, cleanVars,
          systemVars, linkVars, TypeOK, Resolver, RecordedTypes, Steps, ApplySteps,
          CleanupSteps, RepairSteps
  <2>3. SystemTypes'
    BY <1>18, RecordTypes, FieldTypes DEF CleanJournal, Return, setting, cleanVars,
          systemVars, linkVars, TypeOK, Resolver, SystemTypes
  <2>. QED
    BY <2>1, <2>2, <2>3 DEF TypeOK, CallTypes, RecordedTypes, SystemTypes
<1>19. CASE LoadJournal
  BY <1>19, RecordTypes, FieldTypes DEF LoadJournal, setting, callVars, cleanVars,
        systemVars, linkVars, TypeOK, Resolver, CallTypes, RecordedTypes, Steps,
        ApplySteps, CleanupSteps, RepairSteps, SystemTypes
<1>20. CASE RepairNet
  <2>1. CallTypes'
    BY <1>20, FieldTypes DEF RepairNet, NeedsExactCleanup, setting, callVars,
          cleanVars, TypeOK, CallTypes
  <2>2. RecordedTypes'
    BY <1>20, RecordTypes, FieldTypes DEF RepairNet, NeedsExactCleanup, setting,
          callVars, cleanVars, TypeOK, RecordedTypes, Steps, ApplySteps,
          CleanupSteps, RepairSteps
  <2>3. SystemTypes'
    BY <1>20, FieldTypes DEF RepairNet, NeedsExactCleanup, setting, callVars,
          cleanVars, TypeOK, SystemTypes
  <2>. QED
    BY <2>1, <2>2, <2>3 DEF TypeOK, CallTypes, RecordedTypes, SystemTypes
<1>21. CASE RepairKill
  <2>1. CallTypes'
    BY <1>21, FieldTypes DEF RepairKill, setting, callVars, cleanVars, linkVars,
          TypeOK, CallTypes
  <2>2. RecordedTypes'
    BY <1>21, RecordTypes, FieldTypes DEF RepairKill, setting, callVars, cleanVars,
          linkVars, TypeOK, RecordedTypes, Steps, ApplySteps, CleanupSteps,
          RepairSteps
  <2>3. SystemTypes'
    BY <1>21, FieldTypes DEF RepairKill, setting, callVars, cleanVars, linkVars,
          TypeOK, SystemTypes
  <2>. QED
    BY <2>1, <2>2, <2>3 DEF TypeOK, CallTypes, RecordedTypes, SystemTypes
<1>22. CASE RepairDns
  BY <1>22, RecordTypes, FieldTypes DEF RepairDns, Revert, setting, callVars,
        cleanVars, linkVars, TypeOK, Resolver, CallTypes, RecordedTypes, Steps,
        ApplySteps, CleanupSteps, RepairSteps, SystemTypes
<1>23. CASE RepairClear
  BY <1>23, RecordTypes, FieldTypes DEF RepairClear, setting, callVars, cleanVars,
        systemVars, linkVars, TypeOK, Resolver, CallTypes, RecordedTypes, Steps,
        ApplySteps, CleanupSteps, RepairSteps, SystemTypes
<1>24. CASE Crash
  <2>1. CallTypes'
    BY <1>24, RecordTypes, FieldTypes, ReturnTypes DEF Crash, DropLink, linkVars,
          setting, cleanVars, TypeOK, Resolver, CallTypes
  <2>2. RecordedTypes'
    BY <1>24, RecordTypes, FieldTypes DEF Crash, DropLink, linkVars, setting,
          cleanVars, TypeOK, Resolver, RecordedTypes, Steps, ApplySteps,
          CleanupSteps, RepairSteps
  <2>3. SystemTypes'
    BY <1>24, RecordTypes, FieldTypes DEF Crash, DropLink, linkVars, setting,
          cleanVars, TypeOK, Resolver, SystemTypes
  <2>. QED
    BY <2>1, <2>2, <2>3 DEF TypeOK, CallTypes, RecordedTypes, SystemTypes
<1>25. CASE LinkUp
  BY <1>25, RecordTypes, FieldTypes DEF LinkUp, setting, callVars, cleanVars,
        TypeOK, Resolver, CallTypes, RecordedTypes, Steps, ApplySteps, CleanupSteps,
        RepairSteps, SystemTypes
<1>26. CASE LinkDown
  BY <1>26, RecordTypes, FieldTypes DEF LinkDown, DropLink, setting, callVars,
        cleanVars, TypeOK, Resolver, CallTypes, RecordedTypes, Steps, ApplySteps,
        CleanupSteps, RepairSteps, SystemTypes
<1>27. CASE UNCHANGED vars
  BY <1>27 DEF vars, callVars, cleanVars, linkVars, systemVars, setting, TypeOK,
        Resolver, CallTypes, RecordedTypes, Steps, ApplySteps, CleanupSteps,
        RepairSteps, SystemTypes
<1>. QED
  BY <1>1, <1>2, <1>3, <1>4, <1>5, <1>6, <1>7, <1>8, <1>9, <1>10, <1>11, <1>12,
     <1>13, <1>14, <1>15, <1>16, <1>17, <1>18, <1>19, <1>20, <1>21, <1>22, <1>23,
     <1>24, <1>25, <1>26, <1>27
    DEF Next, Apply, Cleanup, Repair

(* As far as a call has come.                                               *)
LEMMA CallStep ==
  ASSUME TypeOK, SettingTypes, CallProgress, [Next]_vars
  PROVE  CallProgress'
<1>1. ASSUME NEW c \in Configs, Begin(c)
      PROVE  CallProgress'
  BY <1>1, RecordTypes, FieldTypes, ConfigTypes DEF Begin, setting, cleanVars,
        systemVars, linkVars, CallProgress, KnownDns, InCall, BeforeRules, AfterAll,
        Steps, ApplySteps, CleanupSteps, RepairSteps
<1>2. CASE WriteFirstJournal
  BY <1>2, RecordTypes, FieldTypes DEF WriteFirstJournal, Persist, JournalOf, NoDns,
        callVars, Return, setting, cleanVars, systemVars, NoCfg, linkVars,
        CallProgress, KnownDns, InCall, BeforeRules, AfterAll, Steps, ApplySteps,
        CleanupSteps, RepairSteps
<1>3. CASE LookupLink
  BY <1>3, RecordTypes, FieldTypes DEF LookupLink, callVars, Return, setting,
        cleanVars, systemVars, NoCfg, NoDns, linkVars, CallProgress, KnownDns,
        InCall, BeforeRules, AfterAll, Steps, ApplySteps, CleanupSteps, RepairSteps
<1>4. CASE ConfigureLink
  <2>1. CASE Return
    BY <1>4, <2>1, RecordTypes
      DEF Return, CallProgress, KnownDns, InCall, BeforeRules, AfterAll, ApplySteps,
          CleanupSteps
  <2>2. CASE UNCHANGED callVars /\ pc' = IF cfg.policy = {} THEN AfterRules ELSE "aSweep"
    <3>1. ~kill /\ dns = NoDns /\ done = {} /\ tried = 0
      BY <1>4 DEF ConfigureLink, CallProgress, BeforeRules, ApplySteps
    <3>2. pc' \in {"aSweep", "aRoutes", "aKill", "aDns", "aRunning"}
      BY <2>2 DEF AfterRules, AfterRoutes, AfterKill
    <3>3. pc' \in {"aKill"} => cfg.kill
      BY <2>2, <3>2 DEF AfterRules, AfterRoutes, AfterKill
    <3>4. pc' \in {"aDns", "aRunning"} => ~cfg.kill /\ (pc' = "aDns" <=> cfg.dns)
      BY <2>2, <3>2 DEF AfterRules, AfterRoutes, AfterKill
    <3>. QED
      BY <2>2, <3>1, <3>2, <3>3, <3>4, FieldTypes
        DEF callVars, CallProgress, KnownDns, InCall, BeforeRules, AfterAll, ApplySteps,
            CleanupSteps
  <2>. QED
    BY <1>4, <2>1, <2>2 DEF ConfigureLink
<1>5. CASE SweepRules
  BY <1>5, RecordTypes, FieldTypes DEF SweepRules, setting, callVars, cleanVars,
        linkVars, CallProgress, KnownDns, InCall, BeforeRules, AfterAll, Steps,
        ApplySteps, CleanupSteps, RepairSteps
<1>6. CASE AddRule
  BY <1>6, RecordTypes, FieldTypes DEF AddRule, Persist, JournalOf, NoDns,
        AfterRules, setting, cleanVars, linkVars, AfterRoutes, AfterKill,
        CallProgress, KnownDns, InCall, BeforeRules, AfterAll, Steps, ApplySteps,
        CleanupSteps, RepairSteps
<1>7. CASE AddRoute
  BY <1>7, RecordTypes, FieldTypes DEF AddRoute, Persist, JournalOf, NoDns,
        AfterRoutes, setting, cleanVars, AfterKill, CallProgress, KnownDns, InCall,
        BeforeRules, AfterAll, Steps, ApplySteps, CleanupSteps, RepairSteps
<1>8. CASE InstallKill
  BY <1>8, RecordTypes, FieldTypes DEF InstallKill, setting, cleanVars, linkVars,
        CallProgress, KnownDns, InCall, BeforeRules, AfterAll, Steps, ApplySteps,
        CleanupSteps, RepairSteps
<1>9. CASE JournalKill
  BY <1>9, RecordTypes, FieldTypes DEF JournalKill, Persist, JournalOf, NoDns,
        AfterKill, setting, callVars, cleanVars, systemVars, linkVars, CallProgress,
        KnownDns, InCall, BeforeRules, AfterAll, Steps, ApplySteps, CleanupSteps,
        RepairSteps
<1>10. CASE TryDns
  <2>1. pc = "aDns" /\ dns = NoDns /\ cfg.dns /\ kill = cfg.kill /\ UNCHANGED <<cfg, kill>>
    BY <1>10 DEF TryDns, CallProgress, ApplySteps
  <2>2. CASE pc' = "aRunning" /\ dns' # NoDns /\ dns'.backend \in Backends
    BY <2>1, <2>2
      DEF CallProgress, KnownDns, InCall, BeforeRules, AfterAll, ApplySteps, CleanupSteps
  <2>3. CASE pc' \in {"aDns", "bJournal"} /\ UNCHANGED dns
    BY <2>1, <2>3
      DEF CallProgress, KnownDns, InCall, BeforeRules, AfterAll, ApplySteps, CleanupSteps
  <2>. QED
    BY <1>10, <2>1, <2>2, <2>3, AnotherBackend DEF TryDns, NoDns, Backends
<1>11. CASE JournalRunning
  BY <1>11, RecordTypes, FieldTypes DEF JournalRunning, Persist, JournalOf, setting,
        callVars, cleanVars, systemVars, linkVars, CallProgress, KnownDns, InCall,
        BeforeRules, AfterAll, Steps, ApplySteps, CleanupSteps, RepairSteps
<1>12. CASE AbortApply
  BY <1>12, RecordTypes, FieldTypes DEF AbortApply, Persist, JournalOf, NoDns,
        setting, callVars, systemVars, linkVars, CallProgress, KnownDns, InCall,
        BeforeRules, AfterAll, Steps, ApplySteps, CleanupSteps, RepairSteps
<1>13. CASE Stop
  BY <1>13, RecordTypes, FieldTypes DEF Stop, setting, callVars, systemVars,
        linkVars, CallProgress, KnownDns, InCall, BeforeRules, AfterAll, Steps,
        ApplySteps, CleanupSteps, RepairSteps
<1>14. CASE CleanLink
  BY <1>14, RecordTypes, FieldTypes DEF CleanLink, setting, callVars, CallProgress,
        KnownDns, InCall, BeforeRules, AfterAll, Steps, ApplySteps, CleanupSteps,
        RepairSteps
<1>15. CASE CleanDns
  BY <1>15, RecordTypes, FieldTypes DEF CleanDns, NoDns, Revert, setting, callVars,
        linkVars, CallProgress, KnownDns, InCall, BeforeRules, AfterAll, Steps,
        ApplySteps, CleanupSteps, RepairSteps
<1>16. CASE CleanRules
  BY <1>16, RecordTypes, FieldTypes DEF CleanRules, setting, callVars, cleanVars,
        linkVars, CallProgress, KnownDns, InCall, BeforeRules, AfterAll, Steps,
        ApplySteps, CleanupSteps, RepairSteps
<1>17. CASE CleanKill
  BY <1>17, RecordTypes, FieldTypes DEF CleanKill, setting, callVars, linkVars,
        CallProgress, KnownDns, InCall, BeforeRules, AfterAll, Steps, ApplySteps,
        CleanupSteps, RepairSteps
<1>18. CASE CleanJournal
  BY <1>18, RecordTypes, FieldTypes DEF CleanJournal, NoJournal, Return, setting,
        cleanVars, systemVars, NoDns, NoCfg, linkVars, CallProgress, KnownDns,
        InCall, BeforeRules, AfterAll, Steps, ApplySteps, CleanupSteps, RepairSteps
<1>19. CASE LoadJournal
  BY <1>19, RecordTypes, FieldTypes DEF LoadJournal, NoJournal, setting, callVars,
        cleanVars, systemVars, NoDns, linkVars, CallProgress, KnownDns, InCall,
        BeforeRules, AfterAll, Steps, ApplySteps, CleanupSteps, RepairSteps
<1>20. CASE RepairNet
  BY <1>20, RecordTypes, FieldTypes DEF RepairNet, NeedsExactCleanup, setting,
        callVars, cleanVars, CallProgress, KnownDns, InCall, BeforeRules, AfterAll,
        Steps, ApplySteps, CleanupSteps, RepairSteps
<1>21. CASE RepairKill
  BY <1>21, RecordTypes, FieldTypes DEF RepairKill, setting, callVars, cleanVars,
        linkVars, CallProgress, KnownDns, InCall, BeforeRules, AfterAll, Steps,
        ApplySteps, CleanupSteps, RepairSteps
<1>22. CASE RepairDns
  BY <1>22, RecordTypes, FieldTypes DEF RepairDns, NoDns, Revert, setting, callVars,
        cleanVars, linkVars, CallProgress, KnownDns, InCall, BeforeRules, AfterAll,
        Steps, ApplySteps, CleanupSteps, RepairSteps
<1>23. CASE RepairClear
  BY <1>23, RecordTypes, FieldTypes DEF RepairClear, NoJournal, setting, callVars,
        cleanVars, systemVars, NoDns, linkVars, CallProgress, KnownDns, InCall,
        BeforeRules, AfterAll, Steps, ApplySteps, CleanupSteps, RepairSteps
<1>24. CASE Crash
  BY <1>24, RecordTypes, FieldTypes DEF Crash, NoCfg, NoDns, DropLink, linkVars,
        setting, cleanVars, CallProgress, KnownDns, InCall, BeforeRules, AfterAll,
        Steps, ApplySteps, CleanupSteps, RepairSteps
<1>25. CASE LinkUp
  BY <1>25, RecordTypes, FieldTypes DEF LinkUp, setting, callVars, cleanVars,
        CallProgress, KnownDns, InCall, BeforeRules, AfterAll, Steps, ApplySteps,
        CleanupSteps, RepairSteps
<1>26. CASE LinkDown
  BY <1>26, RecordTypes, FieldTypes DEF LinkDown, DropLink, setting, callVars,
        cleanVars, CallProgress, KnownDns, InCall, BeforeRules, AfterAll, Steps,
        ApplySteps, CleanupSteps, RepairSteps
<1>27. CASE UNCHANGED vars
  BY <1>27 DEF vars, callVars, cleanVars, linkVars, systemVars, setting,
        CallProgress, KnownDns, InCall, BeforeRules, AfterAll, Steps, ApplySteps,
        CleanupSteps, RepairSteps
<1>. QED
  BY <1>1, <1>2, <1>3, <1>4, <1>5, <1>6, <1>7, <1>8, <1>9, <1>10, <1>11, <1>12,
     <1>13, <1>14, <1>15, <1>16, <1>17, <1>18, <1>19, <1>20, <1>21, <1>22, <1>23,
     <1>24, <1>25, <1>26, <1>27
    DEF Next, Apply, Cleanup, Repair

(* What the journal says.                                                   *)
LEMMA JournalStep ==
  ASSUME TypeOK, SettingTypes, CallProgress, JournalNames, [Next]_vars
  PROVE  JournalNames'
<1>1. ASSUME NEW c \in Configs, Begin(c)
      PROVE  JournalNames'
  BY <1>1, RecordTypes, FieldTypes, ConfigTypes DEF Begin, setting, cleanVars,
        systemVars, linkVars, JournalOf, CallProgress, JournalNames, KnownDns,
        InCall, BeforeRules, AfterAll, Cleaning, Steps, ApplySteps, CleanupSteps,
        RepairSteps
<1>2. CASE WriteFirstJournal
  BY <1>2, RecordTypes, FieldTypes DEF WriteFirstJournal, Persist, NoDns, callVars,
        Return, setting, cleanVars, systemVars, NoCfg, linkVars, JournalOf,
        CallProgress, JournalNames, KnownDns, InCall, BeforeRules, AfterAll,
        Cleaning, Steps, ApplySteps, CleanupSteps, RepairSteps
<1>3. CASE LookupLink
  BY <1>3, RecordTypes, FieldTypes DEF LookupLink, callVars, Return, setting,
        cleanVars, systemVars, NoCfg, NoDns, linkVars, JournalOf, CallProgress,
        JournalNames, KnownDns, InCall, BeforeRules, AfterAll, Cleaning, Steps,
        ApplySteps, CleanupSteps, RepairSteps
<1>4. CASE ConfigureLink
  BY <1>4, RecordTypes, FieldTypes DEF ConfigureLink, AfterRules, callVars, Return,
        setting, cleanVars, AfterRoutes, NoCfg, NoDns, AfterKill, JournalOf,
        CallProgress, JournalNames, KnownDns, InCall, BeforeRules, AfterAll,
        Cleaning, Steps, ApplySteps, CleanupSteps, RepairSteps
<1>5. CASE SweepRules
  BY <1>5, RecordTypes, FieldTypes DEF SweepRules, setting, callVars, cleanVars,
        linkVars, JournalOf, CallProgress, JournalNames, KnownDns, InCall,
        BeforeRules, AfterAll, Cleaning, Steps, ApplySteps, CleanupSteps,
        RepairSteps
<1>6. CASE AddRule
  BY <1>6, RecordTypes, FieldTypes DEF AddRule, Persist, NoDns, AfterRules, setting,
        cleanVars, linkVars, AfterRoutes, AfterKill, JournalOf, CallProgress,
        JournalNames, KnownDns, InCall, BeforeRules, AfterAll, Cleaning, Steps,
        ApplySteps, CleanupSteps, RepairSteps
<1>7. CASE AddRoute
  BY <1>7, RecordTypes, FieldTypes DEF AddRoute, Persist, NoDns, AfterRoutes,
        setting, cleanVars, AfterKill, JournalOf, CallProgress, JournalNames,
        KnownDns, InCall, BeforeRules, AfterAll, Cleaning, Steps, ApplySteps,
        CleanupSteps, RepairSteps
<1>8. CASE InstallKill
  BY <1>8, RecordTypes, FieldTypes DEF InstallKill, setting, cleanVars, linkVars,
        JournalOf, CallProgress, JournalNames, KnownDns, InCall, BeforeRules,
        AfterAll, Cleaning, Steps, ApplySteps, CleanupSteps, RepairSteps
<1>9. CASE JournalKill
  <2>1. pc' \in {"bJournal", "aDns", "aRunning"} /\ UNCHANGED callVars
    BY <1>9 DEF JournalKill, AfterKill
  <2>2. journal' \in {journal, JournalOf("Applying", kill, NoDns)}
    BY <1>9 DEF JournalKill, Persist
  <2>3. journal.routes = cfg.routes /\ journal.policy = cfg.policy
    BY <1>9 DEF JournalKill, JournalNames, InCall, ApplySteps
  <2>. QED
    BY <2>1, <2>2, <2>3
      DEF JournalNames, JournalOf, KnownDns, callVars, Cleaning, CleanupSteps
<1>10. CASE TryDns
  BY <1>10, RecordTypes, FieldTypes, AnotherBackend DEF TryDns, Residue,
        NextBackend, setting, cleanVars, linkVars, JournalOf, CallProgress,
        JournalNames, KnownDns, InCall, BeforeRules, AfterAll, Cleaning, Steps,
        ApplySteps, CleanupSteps, RepairSteps
<1>11. CASE JournalRunning
  BY <1>11, RecordTypes, FieldTypes DEF JournalRunning, Persist, setting, callVars,
        cleanVars, systemVars, linkVars, JournalOf, CallProgress, JournalNames,
        KnownDns, InCall, BeforeRules, AfterAll, Cleaning, Steps, ApplySteps,
        CleanupSteps, RepairSteps
<1>12. CASE AbortApply
  BY <1>12, RecordTypes, FieldTypes DEF AbortApply, Persist, NoDns, setting,
        callVars, systemVars, linkVars, JournalOf, CallProgress, JournalNames,
        KnownDns, InCall, BeforeRules, AfterAll, Cleaning, Steps, ApplySteps,
        CleanupSteps, RepairSteps
<1>13. CASE Stop
  BY <1>13, RecordTypes, FieldTypes DEF Stop, setting, callVars, systemVars,
        linkVars, JournalOf, CallProgress, JournalNames, KnownDns, InCall,
        BeforeRules, AfterAll, Cleaning, Steps, ApplySteps, CleanupSteps,
        RepairSteps
<1>14. CASE CleanLink
  BY <1>14, RecordTypes, FieldTypes DEF CleanLink, setting, callVars, JournalOf,
        CallProgress, JournalNames, KnownDns, InCall, BeforeRules, AfterAll,
        Cleaning, Steps, ApplySteps, CleanupSteps, RepairSteps
<1>15. CASE CleanDns
  BY <1>15, RecordTypes, FieldTypes DEF CleanDns, NoDns, Revert, setting, callVars,
        linkVars, JournalOf, CallProgress, JournalNames, KnownDns, InCall,
        BeforeRules, AfterAll, Cleaning, Steps, ApplySteps, CleanupSteps,
        RepairSteps
<1>16. CASE CleanRules
  BY <1>16, RecordTypes, FieldTypes DEF CleanRules, setting, callVars, cleanVars,
        linkVars, JournalOf, CallProgress, JournalNames, KnownDns, InCall,
        BeforeRules, AfterAll, Cleaning, Steps, ApplySteps, CleanupSteps,
        RepairSteps
<1>17. CASE CleanKill
  BY <1>17, RecordTypes, FieldTypes DEF CleanKill, setting, callVars, linkVars,
        JournalOf, CallProgress, JournalNames, KnownDns, InCall, BeforeRules,
        AfterAll, Cleaning, Steps, ApplySteps, CleanupSteps, RepairSteps
<1>18. CASE CleanJournal
  BY <1>18, RecordTypes, FieldTypes DEF CleanJournal, NoJournal, Return, setting,
        cleanVars, systemVars, NoDns, NoCfg, linkVars, JournalOf, CallProgress,
        JournalNames, KnownDns, InCall, BeforeRules, AfterAll, Cleaning, Steps,
        ApplySteps, CleanupSteps, RepairSteps
<1>19. CASE LoadJournal
  BY <1>19, RecordTypes, FieldTypes DEF LoadJournal, NoJournal, setting, callVars,
        cleanVars, systemVars, NoDns, linkVars, JournalOf, CallProgress,
        JournalNames, KnownDns, InCall, BeforeRules, AfterAll, Cleaning, Steps,
        ApplySteps, CleanupSteps, RepairSteps
<1>20. CASE RepairNet
  BY <1>20, RecordTypes, FieldTypes DEF RepairNet, NeedsExactCleanup, setting,
        callVars, cleanVars, JournalOf, CallProgress, JournalNames, KnownDns,
        InCall, BeforeRules, AfterAll, Cleaning, Steps, ApplySteps, CleanupSteps,
        RepairSteps
<1>21. CASE RepairKill
  BY <1>21, RecordTypes, FieldTypes DEF RepairKill, setting, callVars, cleanVars,
        linkVars, JournalOf, CallProgress, JournalNames, KnownDns, InCall,
        BeforeRules, AfterAll, Cleaning, Steps, ApplySteps, CleanupSteps,
        RepairSteps
<1>22. CASE RepairDns
  BY <1>22, RecordTypes, FieldTypes DEF RepairDns, NoDns, Revert, setting, callVars,
        cleanVars, linkVars, JournalOf, CallProgress, JournalNames, KnownDns,
        InCall, BeforeRules, AfterAll, Cleaning, Steps, ApplySteps, CleanupSteps,
        RepairSteps
<1>23. CASE RepairClear
  BY <1>23, RecordTypes, FieldTypes DEF RepairClear, NoJournal, setting, callVars,
        cleanVars, systemVars, NoDns, linkVars, JournalOf, CallProgress,
        JournalNames, KnownDns, InCall, BeforeRules, AfterAll, Cleaning, Steps,
        ApplySteps, CleanupSteps, RepairSteps
<1>24. CASE Crash
  BY <1>24, RecordTypes, FieldTypes DEF Crash, NoCfg, NoDns, DropLink, linkVars,
        setting, cleanVars, JournalOf, CallProgress, JournalNames, KnownDns, InCall,
        BeforeRules, AfterAll, Cleaning, Steps, ApplySteps, CleanupSteps,
        RepairSteps
<1>25. CASE LinkUp
  BY <1>25, RecordTypes, FieldTypes DEF LinkUp, setting, callVars, cleanVars,
        JournalOf, CallProgress, JournalNames, KnownDns, InCall, BeforeRules,
        AfterAll, Cleaning, Steps, ApplySteps, CleanupSteps, RepairSteps
<1>26. CASE LinkDown
  BY <1>26, RecordTypes, FieldTypes DEF LinkDown, DropLink, setting, callVars,
        cleanVars, JournalOf, CallProgress, JournalNames, KnownDns, InCall,
        BeforeRules, AfterAll, Cleaning, Steps, ApplySteps, CleanupSteps,
        RepairSteps
<1>27. CASE UNCHANGED vars
  BY <1>27 DEF vars, callVars, cleanVars, linkVars, systemVars, setting, JournalOf,
        CallProgress, JournalNames, KnownDns, InCall, BeforeRules, AfterAll,
        Cleaning, Steps, ApplySteps, CleanupSteps, RepairSteps
<1>. QED
  BY <1>1, <1>2, <1>3, <1>4, <1>5, <1>6, <1>7, <1>8, <1>9, <1>10, <1>11, <1>12,
     <1>13, <1>14, <1>15, <1>16, <1>17, <1>18, <1>19, <1>20, <1>21, <1>22, <1>23,
     <1>24, <1>25, <1>26, <1>27
    DEF Next, Apply, Cleanup, Repair

(* Routes and rules, while cleanups work: an apply installs what its journal *)
(* names already, and a cleanup removes all of it.                          *)
LEMMA RoutingStep ==
  ASSUME faults \subseteq ApplyFaults, TypeOK, SettingTypes, CallProgress,
         JournalNames, Routing, [Next]_vars
  PROVE  Routing'
<1>1. ASSUME NEW c \in Configs, Begin(c)
      PROVE  Routing'
  BY <1>1, RecordTypes, FieldTypes, ConfigTypes DEF Begin, setting, cleanVars,
        systemVars, linkVars, CallProgress, JournalNames, InCall, BeforeRules,
        AfterAll, Cleaning, Routing, RoutesAndRulesJournaled, ApplyFaults, Steps,
        ApplySteps, CleanupSteps, RepairSteps
<1>2. CASE WriteFirstJournal
  BY <1>2, RecordTypes, FieldTypes DEF WriteFirstJournal, Persist, JournalOf, NoDns,
        callVars, Return, setting, cleanVars, systemVars, NoCfg, linkVars,
        CallProgress, JournalNames, InCall, BeforeRules, AfterAll, Cleaning,
        Routing, RoutesAndRulesJournaled, ApplyFaults, Steps, ApplySteps,
        CleanupSteps, RepairSteps
<1>3. CASE LookupLink
  BY <1>3, RecordTypes, FieldTypes DEF LookupLink, callVars, Return, setting,
        cleanVars, systemVars, NoCfg, NoDns, linkVars, CallProgress, JournalNames,
        InCall, BeforeRules, AfterAll, Cleaning, Routing, RoutesAndRulesJournaled,
        ApplyFaults, Steps, ApplySteps, CleanupSteps, RepairSteps
<1>4. CASE ConfigureLink
  BY <1>4, RecordTypes, FieldTypes DEF ConfigureLink, AfterRules, callVars, Return,
        setting, cleanVars, AfterRoutes, NoCfg, NoDns, AfterKill, CallProgress,
        JournalNames, InCall, BeforeRules, AfterAll, Cleaning, Routing,
        RoutesAndRulesJournaled, ApplyFaults, Steps, ApplySteps, CleanupSteps,
        RepairSteps
<1>5. CASE SweepRules
  BY <1>5, RecordTypes, FieldTypes DEF SweepRules, setting, callVars, cleanVars,
        linkVars, CallProgress, JournalNames, InCall, BeforeRules, AfterAll,
        Cleaning, Routing, RoutesAndRulesJournaled, ApplyFaults, Steps, ApplySteps,
        CleanupSteps, RepairSteps
<1>6. CASE AddRule
  <2>1. pc = "aRules" /\ link /\ routes = {} /\ done = rules
        /\ journal.routes = cfg.routes /\ journal.policy = cfg.policy
    BY <1>6 DEF AddRule, Routing, JournalNames, InCall, ApplySteps
  <2>2. UNCHANGED <<cfg, link, routes>>
    BY <1>6 DEF AddRule, linkVars
  <2>3. journal'.routes = cfg.routes /\ journal'.policy = cfg.policy
    BY <1>6, <2>1 DEF AddRule, Persist, JournalOf
  <2>4. rules' \subseteq cfg.policy
    BY <1>6, <2>1 DEF AddRule, Routing, RoutesAndRulesJournaled
  <2>5. \/ pc' = "bJournal"
        \/ pc' = "aRules" /\ done' = rules'
        \/ pc' = AfterRules /\ done' = rules' /\ cfg.policy \subseteq rules'
    BY <1>6, <2>1 DEF AddRule
  <2>6. pc' = AfterRules =>
          \/ pc' = "aRoutes"
          \/ pc' \in {"aKill", "aDns", "aRunning"} /\ cfg.routes = {}
    BY DEF AfterRules, AfterRoutes, AfterKill
  <2>. QED
    BY <2>1, <2>2, <2>3, <2>4, <2>5, <2>6
      DEF Routing, RoutesAndRulesJournaled, BeforeRules, AfterAll, InCall, ApplySteps,
          CleanupSteps
<1>7. CASE AddRoute
  <2>1. pc = "aRoutes" /\ link /\ rules = cfg.policy /\ done = routes \cup rules
        /\ journal.routes = cfg.routes /\ journal.policy = cfg.policy
    BY <1>7 DEF AddRoute, Routing, JournalNames, InCall, ApplySteps
  <2>2. UNCHANGED <<cfg, link, rules>>
    BY <1>7 DEF AddRoute
  <2>3. journal'.routes = cfg.routes /\ journal'.policy = cfg.policy
    BY <1>7, <2>1 DEF AddRoute, Persist, JournalOf
  <2>4. routes' \subseteq cfg.routes /\ rules \cap cfg.routes = {}
    BY <1>7, <2>1, FieldTypes, RoutesAssumption
      DEF AddRoute, Routing, RoutesAndRulesJournaled
  <2>5. \/ pc' = "bJournal"
        \/ pc' = "aRoutes" /\ done' = routes' \cup rules'
        \/ pc' = AfterRoutes /\ cfg.routes \subseteq routes' \cup rules'
    BY <1>7, <2>1 DEF AddRoute
  <2>6. AfterRoutes \in {"aKill", "aDns", "aRunning"}
    BY DEF AfterRoutes, AfterKill
  <2>. QED
    BY <2>1, <2>2, <2>3, <2>4, <2>5, <2>6
      DEF Routing, RoutesAndRulesJournaled, BeforeRules, AfterAll
<1>8. CASE InstallKill
  BY <1>8, RecordTypes, FieldTypes DEF InstallKill, setting, cleanVars, linkVars,
        CallProgress, JournalNames, InCall, BeforeRules, AfterAll, Cleaning,
        Routing, RoutesAndRulesJournaled, ApplyFaults, Steps, ApplySteps,
        CleanupSteps, RepairSteps
<1>9. CASE JournalKill
  <2>1. pc' \in {"bJournal", "aDns", "aRunning"} /\ UNCHANGED <<cfg, linkVars, rules>>
    BY <1>9 DEF JournalKill, AfterKill, callVars, systemVars
  <2>2. journal'.routes = journal.routes /\ journal'.policy = journal.policy
    BY <1>9 DEF JournalKill, Persist, JournalOf, JournalNames, InCall, ApplySteps
  <2>3. link /\ routes = cfg.routes /\ rules = cfg.policy
    BY <1>9 DEF JournalKill, Routing, InCall, ApplySteps
  <2>. QED
    BY <2>1, <2>2, <2>3
      DEF Routing, RoutesAndRulesJournaled, linkVars, BeforeRules, AfterAll
<1>10. CASE TryDns
  BY <1>10, RecordTypes, FieldTypes, AnotherBackend DEF TryDns, Residue,
        NextBackend, setting, cleanVars, linkVars, CallProgress, JournalNames,
        InCall, BeforeRules, AfterAll, Cleaning, Routing, RoutesAndRulesJournaled,
        ApplyFaults, Steps, ApplySteps, CleanupSteps, RepairSteps
<1>11. CASE JournalRunning
  BY <1>11, RecordTypes, FieldTypes DEF JournalRunning, Persist, JournalOf, setting,
        callVars, cleanVars, systemVars, linkVars, CallProgress, JournalNames,
        InCall, BeforeRules, AfterAll, Cleaning, Routing, RoutesAndRulesJournaled,
        ApplyFaults, Steps, ApplySteps, CleanupSteps, RepairSteps
<1>12. CASE AbortApply
  BY <1>12, RecordTypes, FieldTypes DEF AbortApply, Persist, JournalOf, NoDns,
        setting, callVars, systemVars, linkVars, CallProgress, JournalNames, InCall,
        BeforeRules, AfterAll, Cleaning, Routing, RoutesAndRulesJournaled,
        ApplyFaults, Steps, ApplySteps, CleanupSteps, RepairSteps
<1>13. CASE Stop
  BY <1>13, RecordTypes, FieldTypes DEF Stop, setting, callVars, systemVars,
        linkVars, CallProgress, JournalNames, InCall, BeforeRules, AfterAll,
        Cleaning, Routing, RoutesAndRulesJournaled, ApplyFaults, Steps, ApplySteps,
        CleanupSteps, RepairSteps
<1>14. CASE CleanLink
  BY <1>14, RecordTypes, FieldTypes DEF CleanLink, setting, callVars, CallProgress,
        JournalNames, InCall, BeforeRules, AfterAll, Cleaning, Routing,
        RoutesAndRulesJournaled, ApplyFaults, Steps, ApplySteps, CleanupSteps,
        RepairSteps
<1>15. CASE CleanDns
  BY <1>15, RecordTypes, FieldTypes DEF CleanDns, NoDns, Revert, setting, callVars,
        linkVars, CallProgress, JournalNames, InCall, BeforeRules, AfterAll,
        Cleaning, Routing, RoutesAndRulesJournaled, ApplyFaults, Steps, ApplySteps,
        CleanupSteps, RepairSteps
<1>16. CASE CleanRules
  BY <1>16, RecordTypes, FieldTypes DEF CleanRules, setting, callVars, cleanVars,
        linkVars, CallProgress, JournalNames, InCall, BeforeRules, AfterAll,
        Cleaning, Routing, RoutesAndRulesJournaled, ApplyFaults, Steps, ApplySteps,
        CleanupSteps, RepairSteps
<1>17. CASE CleanKill
  BY <1>17, RecordTypes, FieldTypes DEF CleanKill, setting, callVars, linkVars,
        CallProgress, JournalNames, InCall, BeforeRules, AfterAll, Cleaning,
        Routing, RoutesAndRulesJournaled, ApplyFaults, Steps, ApplySteps,
        CleanupSteps, RepairSteps
<1>18. CASE CleanJournal
  BY <1>18, RecordTypes, FieldTypes DEF CleanJournal, NoJournal, Return, setting,
        cleanVars, systemVars, NoDns, NoCfg, linkVars, CallProgress, JournalNames,
        InCall, BeforeRules, AfterAll, Cleaning, Routing, RoutesAndRulesJournaled,
        ApplyFaults, Steps, ApplySteps, CleanupSteps, RepairSteps
<1>19. CASE LoadJournal
  BY <1>19, RecordTypes, FieldTypes DEF LoadJournal, NoJournal, setting, callVars,
        cleanVars, systemVars, NoDns, linkVars, CallProgress, JournalNames, InCall,
        BeforeRules, AfterAll, Cleaning, Routing, RoutesAndRulesJournaled,
        ApplyFaults, Steps, ApplySteps, CleanupSteps, RepairSteps
<1>20. CASE RepairNet
  BY <1>20, RecordTypes, FieldTypes DEF RepairNet, NeedsExactCleanup, setting,
        callVars, cleanVars, CallProgress, JournalNames, InCall, BeforeRules,
        AfterAll, Cleaning, Routing, RoutesAndRulesJournaled, ApplyFaults, Steps,
        ApplySteps, CleanupSteps, RepairSteps
<1>21. CASE RepairKill
  BY <1>21, RecordTypes, FieldTypes DEF RepairKill, setting, callVars, cleanVars,
        linkVars, CallProgress, JournalNames, InCall, BeforeRules, AfterAll,
        Cleaning, Routing, RoutesAndRulesJournaled, ApplyFaults, Steps, ApplySteps,
        CleanupSteps, RepairSteps
<1>22. CASE RepairDns
  BY <1>22, RecordTypes, FieldTypes DEF RepairDns, NoDns, Revert, setting, callVars,
        cleanVars, linkVars, CallProgress, JournalNames, InCall, BeforeRules,
        AfterAll, Cleaning, Routing, RoutesAndRulesJournaled, ApplyFaults, Steps,
        ApplySteps, CleanupSteps, RepairSteps
<1>23. CASE RepairClear
  BY <1>23, RecordTypes, FieldTypes DEF RepairClear, NoJournal, setting, callVars,
        cleanVars, systemVars, NoDns, linkVars, CallProgress, JournalNames, InCall,
        BeforeRules, AfterAll, Cleaning, Routing, RoutesAndRulesJournaled,
        ApplyFaults, Steps, ApplySteps, CleanupSteps, RepairSteps
<1>24. CASE Crash
  BY <1>24, RecordTypes, FieldTypes DEF Crash, NoCfg, NoDns, DropLink, linkVars,
        setting, cleanVars, CallProgress, JournalNames, InCall, BeforeRules,
        AfterAll, Cleaning, Routing, RoutesAndRulesJournaled, ApplyFaults, Steps,
        ApplySteps, CleanupSteps, RepairSteps
<1>25. CASE LinkUp
  BY <1>25, RecordTypes, FieldTypes DEF LinkUp, setting, callVars, cleanVars,
        CallProgress, JournalNames, InCall, BeforeRules, AfterAll, Cleaning,
        Routing, RoutesAndRulesJournaled, ApplyFaults, Steps, ApplySteps,
        CleanupSteps, RepairSteps
<1>26. CASE LinkDown
  BY <1>26, RecordTypes, FieldTypes DEF LinkDown, DropLink, setting, callVars,
        cleanVars, CallProgress, JournalNames, InCall, BeforeRules, AfterAll,
        Cleaning, Routing, RoutesAndRulesJournaled, ApplyFaults, Steps, ApplySteps,
        CleanupSteps, RepairSteps
<1>27. CASE UNCHANGED vars
  BY <1>27 DEF vars, callVars, cleanVars, linkVars, systemVars, setting,
        CallProgress, JournalNames, InCall, BeforeRules, AfterAll, Cleaning,
        Routing, RoutesAndRulesJournaled, ApplyFaults, Steps, ApplySteps,
        CleanupSteps, RepairSteps
<1>. QED
  BY <1>1, <1>2, <1>3, <1>4, <1>5, <1>6, <1>7, <1>8, <1>9, <1>10, <1>11, <1>12,
     <1>13, <1>14, <1>15, <1>16, <1>17, <1>18, <1>19, <1>20, <1>21, <1>22, <1>23,
     <1>24, <1>25, <1>26, <1>27
    DEF Next, Apply, Cleanup, Repair

(* Kill switch and DNS, while cleanups work.                                *)
LEMMA UndoingStep ==
  ASSUME faults \subseteq ApplyFaults, TypeOK, SettingTypes, CallProgress,
         JournalNames, Routing, Undoing, [Next]_vars
  PROVE  Undoing'
<1>1. ASSUME NEW c \in Configs, Begin(c)
      PROVE  Undoing'
  BY <1>1, RecordTypes, FieldTypes, ConfigTypes DEF Begin, setting, cleanVars,
        systemVars, linkVars, TypeOK, CallProgress, JournalNames, KnownDns, InCall,
        BeforeRules, AfterAll, Cleaning, Routing, Undoing, ApplyFaults, Steps,
        ApplySteps, CleanupSteps, RepairSteps
<1>2. CASE WriteFirstJournal
  BY <1>2, RecordTypes, FieldTypes DEF WriteFirstJournal, Persist, JournalOf, NoDns,
        callVars, Return, setting, cleanVars, systemVars, NoCfg, linkVars, TypeOK,
        CallProgress, JournalNames, KnownDns, InCall, BeforeRules, AfterAll,
        Cleaning, Routing, Undoing, ApplyFaults, Steps, ApplySteps, CleanupSteps,
        RepairSteps
<1>3. CASE LookupLink
  BY <1>3, RecordTypes, FieldTypes DEF LookupLink, callVars, Return, setting,
        cleanVars, systemVars, NoCfg, NoDns, linkVars, TypeOK, CallProgress,
        JournalNames, KnownDns, InCall, BeforeRules, AfterAll, Cleaning, Routing,
        Undoing, ApplyFaults, Steps, ApplySteps, CleanupSteps, RepairSteps
<1>4. CASE ConfigureLink
  BY <1>4, RecordTypes, FieldTypes DEF ConfigureLink, AfterRules, callVars, Return,
        setting, cleanVars, AfterRoutes, NoCfg, NoDns, AfterKill, TypeOK,
        CallProgress, JournalNames, KnownDns, InCall, BeforeRules, AfterAll,
        Cleaning, Routing, Undoing, ApplyFaults, Steps, ApplySteps, CleanupSteps,
        RepairSteps
<1>5. CASE SweepRules
  BY <1>5, RecordTypes, FieldTypes DEF SweepRules, setting, callVars, cleanVars,
        linkVars, TypeOK, CallProgress, JournalNames, KnownDns, InCall, BeforeRules,
        AfterAll, Cleaning, Routing, Undoing, ApplyFaults, Steps, ApplySteps,
        CleanupSteps, RepairSteps
<1>6. CASE AddRule
  BY <1>6, RecordTypes, FieldTypes DEF AddRule, Persist, JournalOf, NoDns,
        AfterRules, setting, cleanVars, linkVars, AfterRoutes, AfterKill, TypeOK,
        CallProgress, JournalNames, KnownDns, InCall, BeforeRules, AfterAll,
        Cleaning, Routing, Undoing, ApplyFaults, Steps, ApplySteps, CleanupSteps,
        RepairSteps
<1>7. CASE AddRoute
  BY <1>7, RecordTypes, FieldTypes DEF AddRoute, Persist, JournalOf, NoDns,
        AfterRoutes, setting, cleanVars, AfterKill, TypeOK, CallProgress,
        JournalNames, KnownDns, InCall, BeforeRules, AfterAll, Cleaning, Routing,
        Undoing, ApplyFaults, Steps, ApplySteps, CleanupSteps, RepairSteps
<1>8. CASE InstallKill
  BY <1>8, RecordTypes, FieldTypes DEF InstallKill, setting, cleanVars, linkVars,
        TypeOK, CallProgress, JournalNames, KnownDns, InCall, BeforeRules, AfterAll,
        Cleaning, Routing, Undoing, ApplyFaults, Steps, ApplySteps, CleanupSteps,
        RepairSteps
<1>9. CASE JournalKill
  BY <1>9, RecordTypes, FieldTypes DEF JournalKill, Persist, JournalOf, NoDns,
        AfterKill, setting, callVars, cleanVars, systemVars, linkVars, TypeOK,
        CallProgress, JournalNames, KnownDns, InCall, BeforeRules, AfterAll,
        Cleaning, Routing, Undoing, ApplyFaults, Steps, ApplySteps, CleanupSteps,
        RepairSteps
<1>10. CASE TryDns
  BY <1>10, RecordTypes, FieldTypes, AnotherBackend DEF TryDns, Residue,
        NextBackend, setting, cleanVars, linkVars, TypeOK, CallProgress,
        JournalNames, KnownDns, InCall, BeforeRules, AfterAll, Cleaning, Routing,
        Undoing, ApplyFaults, Steps, ApplySteps, CleanupSteps, RepairSteps
<1>11. CASE JournalRunning
  BY <1>11, RecordTypes, FieldTypes DEF JournalRunning, Persist, JournalOf, setting,
        callVars, cleanVars, systemVars, linkVars, TypeOK, CallProgress,
        JournalNames, KnownDns, InCall, BeforeRules, AfterAll, Cleaning, Routing,
        Undoing, ApplyFaults, Steps, ApplySteps, CleanupSteps, RepairSteps
<1>12. CASE AbortApply
  BY <1>12, RecordTypes, FieldTypes DEF AbortApply, Persist, JournalOf, NoDns,
        setting, callVars, systemVars, linkVars, TypeOK, CallProgress, JournalNames,
        KnownDns, InCall, BeforeRules, AfterAll, Cleaning, Routing, Undoing,
        ApplyFaults, Steps, ApplySteps, CleanupSteps, RepairSteps
<1>13. CASE Stop
  BY <1>13, RecordTypes, FieldTypes DEF Stop, setting, callVars, systemVars,
        linkVars, TypeOK, CallProgress, JournalNames, KnownDns, InCall, BeforeRules,
        AfterAll, Cleaning, Routing, Undoing, ApplyFaults, Steps, ApplySteps,
        CleanupSteps, RepairSteps
<1>14. CASE CleanLink
  BY <1>14, RecordTypes, FieldTypes DEF CleanLink, setting, callVars, TypeOK,
        CallProgress, JournalNames, KnownDns, InCall, BeforeRules, AfterAll,
        Cleaning, Routing, Undoing, ApplyFaults, Steps, ApplySteps, CleanupSteps,
        RepairSteps
<1>15. CASE CleanDns
  BY <1>15, RecordTypes, FieldTypes DEF CleanDns, NoDns, Revert, setting, callVars,
        linkVars, TypeOK, CallProgress, JournalNames, KnownDns, InCall, BeforeRules,
        AfterAll, Cleaning, Routing, Undoing, ApplyFaults, Steps, ApplySteps,
        CleanupSteps, RepairSteps
<1>16. CASE CleanRules
  BY <1>16, RecordTypes, FieldTypes DEF CleanRules, setting, callVars, cleanVars,
        linkVars, TypeOK, CallProgress, JournalNames, KnownDns, InCall, BeforeRules,
        AfterAll, Cleaning, Routing, Undoing, ApplyFaults, Steps, ApplySteps,
        CleanupSteps, RepairSteps
<1>17. CASE CleanKill
  BY <1>17, RecordTypes, FieldTypes DEF CleanKill, setting, callVars, linkVars,
        TypeOK, CallProgress, JournalNames, KnownDns, InCall, BeforeRules, AfterAll,
        Cleaning, Routing, Undoing, ApplyFaults, Steps, ApplySteps, CleanupSteps,
        RepairSteps
<1>18. CASE CleanJournal
  BY <1>18, RecordTypes, FieldTypes DEF CleanJournal, NoJournal, Return, setting,
        cleanVars, systemVars, NoDns, NoCfg, linkVars, TypeOK, CallProgress,
        JournalNames, KnownDns, InCall, BeforeRules, AfterAll, Cleaning, Routing,
        Undoing, ApplyFaults, Steps, ApplySteps, CleanupSteps, RepairSteps
<1>19. CASE LoadJournal
  BY <1>19, RecordTypes, FieldTypes DEF LoadJournal, NoJournal, setting, callVars,
        cleanVars, systemVars, NoDns, linkVars, TypeOK, CallProgress, JournalNames,
        KnownDns, InCall, BeforeRules, AfterAll, Cleaning, Routing, Undoing,
        ApplyFaults, Steps, ApplySteps, CleanupSteps, RepairSteps
<1>20. CASE RepairNet
  BY <1>20, RecordTypes, FieldTypes DEF RepairNet, NeedsExactCleanup, setting,
        callVars, cleanVars, TypeOK, CallProgress, JournalNames, KnownDns, InCall,
        BeforeRules, AfterAll, Cleaning, Routing, Undoing, ApplyFaults, Steps,
        ApplySteps, CleanupSteps, RepairSteps
<1>21. CASE RepairKill
  BY <1>21, RecordTypes, FieldTypes DEF RepairKill, setting, callVars, cleanVars,
        linkVars, TypeOK, CallProgress, JournalNames, KnownDns, InCall, BeforeRules,
        AfterAll, Cleaning, Routing, Undoing, ApplyFaults, Steps, ApplySteps,
        CleanupSteps, RepairSteps
<1>22. CASE RepairDns
  BY <1>22, RecordTypes, FieldTypes DEF RepairDns, NoDns, Revert, setting, callVars,
        cleanVars, linkVars, TypeOK, CallProgress, JournalNames, KnownDns, InCall,
        BeforeRules, AfterAll, Cleaning, Routing, Undoing, ApplyFaults, Steps,
        ApplySteps, CleanupSteps, RepairSteps
<1>23. CASE RepairClear
  BY <1>23, RecordTypes, FieldTypes DEF RepairClear, NoJournal, setting, callVars,
        cleanVars, systemVars, NoDns, linkVars, TypeOK, CallProgress, JournalNames,
        KnownDns, InCall, BeforeRules, AfterAll, Cleaning, Routing, Undoing,
        ApplyFaults, Steps, ApplySteps, CleanupSteps, RepairSteps
<1>24. CASE Crash
  BY <1>24, RecordTypes, FieldTypes DEF Crash, NoCfg, NoDns, DropLink, linkVars,
        setting, cleanVars, TypeOK, CallProgress, JournalNames, KnownDns, InCall,
        BeforeRules, AfterAll, Cleaning, Routing, Undoing, ApplyFaults, Steps,
        ApplySteps, CleanupSteps, RepairSteps
<1>25. CASE LinkUp
  BY <1>25, RecordTypes, FieldTypes DEF LinkUp, setting, callVars, cleanVars,
        TypeOK, CallProgress, JournalNames, KnownDns, InCall, BeforeRules, AfterAll,
        Cleaning, Routing, Undoing, ApplyFaults, Steps, ApplySteps, CleanupSteps,
        RepairSteps
<1>26. CASE LinkDown
  BY <1>26, RecordTypes, FieldTypes DEF LinkDown, DropLink, setting, callVars,
        cleanVars, TypeOK, CallProgress, JournalNames, KnownDns, InCall,
        BeforeRules, AfterAll, Cleaning, Routing, Undoing, ApplyFaults, Steps,
        ApplySteps, CleanupSteps, RepairSteps
<1>27. CASE UNCHANGED vars
  BY <1>27 DEF vars, callVars, cleanVars, linkVars, systemVars, setting, TypeOK,
        CallProgress, JournalNames, KnownDns, InCall, BeforeRules, AfterAll,
        Cleaning, Routing, Undoing, ApplyFaults, Steps, ApplySteps, CleanupSteps,
        RepairSteps
<1>. QED
  BY <1>1, <1>2, <1>3, <1>4, <1>5, <1>6, <1>7, <1>8, <1>9, <1>10, <1>11, <1>12,
     <1>13, <1>14, <1>15, <1>16, <1>17, <1>18, <1>19, <1>20, <1>21, <1>22, <1>23,
     <1>24, <1>25, <1>26, <1>27
    DEF Next, Apply, Cleanup, Repair

(* The state of the call owns every change, while all steps roll back.       *)
LEMMA OwnedStep ==
  ASSUME faults \subseteq RolledBack, TypeOK, SettingTypes, CallProgress,
         JournalNames, Routing, OwnedByCall, [Next]_vars
  PROVE  OwnedByCall'
<1>1. ASSUME NEW c \in Configs, Begin(c)
      PROVE  OwnedByCall'
  BY <1>1, RecordTypes, FieldTypes, ConfigTypes DEF Begin, setting, cleanVars,
        systemVars, linkVars, TypeOK, CallProgress, KnownDns, InCall, BeforeRules,
        AfterAll, Routing, OwnedByCall, RolledBack, Steps, ApplySteps, CleanupSteps,
        RepairSteps
<1>2. CASE WriteFirstJournal
  BY <1>2, RecordTypes, FieldTypes DEF WriteFirstJournal, Persist, JournalOf, NoDns,
        callVars, Return, setting, cleanVars, systemVars, NoCfg, linkVars, TypeOK,
        CallProgress, KnownDns, InCall, BeforeRules, AfterAll, Routing, OwnedByCall,
        RolledBack, Steps, ApplySteps, CleanupSteps, RepairSteps
<1>3. CASE LookupLink
  BY <1>3, RecordTypes, FieldTypes DEF LookupLink, callVars, Return, setting,
        cleanVars, systemVars, NoCfg, NoDns, linkVars, TypeOK, CallProgress,
        KnownDns, InCall, BeforeRules, AfterAll, Routing, OwnedByCall, RolledBack,
        Steps, ApplySteps, CleanupSteps, RepairSteps
<1>4. CASE ConfigureLink
  BY <1>4, RecordTypes, FieldTypes DEF ConfigureLink, AfterRules, callVars, Return,
        setting, cleanVars, AfterRoutes, NoCfg, NoDns, AfterKill, TypeOK,
        CallProgress, KnownDns, InCall, BeforeRules, AfterAll, Routing, OwnedByCall,
        RolledBack, Steps, ApplySteps, CleanupSteps, RepairSteps
<1>5. CASE SweepRules
  BY <1>5, RecordTypes, FieldTypes DEF SweepRules, setting, callVars, cleanVars,
        linkVars, TypeOK, CallProgress, KnownDns, InCall, BeforeRules, AfterAll,
        Routing, OwnedByCall, RolledBack, Steps, ApplySteps, CleanupSteps,
        RepairSteps
<1>6. CASE AddRule
  BY <1>6, RecordTypes, FieldTypes DEF AddRule, Persist, JournalOf, NoDns,
        AfterRules, setting, cleanVars, linkVars, AfterRoutes, AfterKill, TypeOK,
        CallProgress, KnownDns, InCall, BeforeRules, AfterAll, Routing, OwnedByCall,
        RolledBack, Steps, ApplySteps, CleanupSteps, RepairSteps
<1>7. CASE AddRoute
  BY <1>7, RecordTypes, FieldTypes DEF AddRoute, Persist, JournalOf, NoDns,
        AfterRoutes, setting, cleanVars, AfterKill, TypeOK, CallProgress, KnownDns,
        InCall, BeforeRules, AfterAll, Routing, OwnedByCall, RolledBack, Steps,
        ApplySteps, CleanupSteps, RepairSteps
<1>8. CASE InstallKill
  BY <1>8, RecordTypes, FieldTypes DEF InstallKill, setting, cleanVars, linkVars,
        TypeOK, CallProgress, KnownDns, InCall, BeforeRules, AfterAll, Routing,
        OwnedByCall, RolledBack, Steps, ApplySteps, CleanupSteps, RepairSteps
<1>9. CASE JournalKill
  BY <1>9, RecordTypes, FieldTypes DEF JournalKill, Persist, JournalOf, NoDns,
        AfterKill, setting, callVars, cleanVars, systemVars, linkVars, TypeOK,
        CallProgress, KnownDns, InCall, BeforeRules, AfterAll, Routing, OwnedByCall,
        RolledBack, Steps, ApplySteps, CleanupSteps, RepairSteps
<1>10. CASE TryDns
  <2>. DEFINE b == dnsOrder[tried + 1]
  <2>1. dns.backend = "none" /\ dns.original = "user"
        /\ pc = "aDns" /\ pc' \in {"aDns", "aRunning", "bJournal"}
    BY <1>10 DEF TryDns, CallProgress, ApplySteps, NoDns
  <2>2. \A o \in Backends : resolver[o] = "user"
    BY <2>1 DEF OwnedByCall, Backends
  <2>3. UNCHANGED <<kill, killFw, addr>> /\ (killFw => kill)
    BY <1>10 DEF TryDns, linkVars, OwnedByCall
  <2>4. CASE UNCHANGED <<dns, resolver>>
    BY <2>1, <2>2, <2>3, <2>4 DEF OwnedByCall, RepairSteps
  <2>5. CASE /\ b \in Backends /\ resolver' = [resolver EXCEPT ![b] = "tunnel"]
             /\ dns' = [backend |-> b, original |-> "user"]
    <3>1. \A o \in Backends : resolver'[o] # "user" => o = b
      BY <2>2, <2>5 DEF TypeOK
    <3>. QED
      BY <2>1, <2>3, <2>5, <3>1 DEF OwnedByCall, RepairSteps
  <2>. QED
    BY <1>10, <2>2, <2>4, <2>5, AnotherBackend DEF TryDns, RolledBack
<1>11. CASE JournalRunning
  BY <1>11, RecordTypes, FieldTypes DEF JournalRunning, Persist, JournalOf, setting,
        callVars, cleanVars, systemVars, linkVars, TypeOK, CallProgress, KnownDns,
        InCall, BeforeRules, AfterAll, Routing, OwnedByCall, RolledBack, Steps,
        ApplySteps, CleanupSteps, RepairSteps
<1>12. CASE AbortApply
  BY <1>12, RecordTypes, FieldTypes DEF AbortApply, Persist, JournalOf, NoDns,
        setting, callVars, systemVars, linkVars, TypeOK, CallProgress, KnownDns,
        InCall, BeforeRules, AfterAll, Routing, OwnedByCall, RolledBack, Steps,
        ApplySteps, CleanupSteps, RepairSteps
<1>13. CASE Stop
  BY <1>13, RecordTypes, FieldTypes DEF Stop, setting, callVars, systemVars,
        linkVars, TypeOK, CallProgress, KnownDns, InCall, BeforeRules, AfterAll,
        Routing, OwnedByCall, RolledBack, Steps, ApplySteps, CleanupSteps,
        RepairSteps
<1>14. CASE CleanLink
  BY <1>14, RecordTypes, FieldTypes DEF CleanLink, setting, callVars, TypeOK,
        CallProgress, KnownDns, InCall, BeforeRules, AfterAll, Routing, OwnedByCall,
        RolledBack, Steps, ApplySteps, CleanupSteps, RepairSteps
<1>15. CASE CleanDns
  <2>1. pc = "cDns" /\ pc' = "cRules" /\ UNCHANGED <<kill, killFw, dns, addr>>
    BY <1>15 DEF CleanDns, callVars, linkVars
  <2>2. \A b \in Backends : resolver'[b] = "user"
    <3>1. CASE dns = NoDns
      BY <1>15, <3>1 DEF CleanDns, OwnedByCall, NoDns, Backends
    <3>2. CASE dns # NoDns
      <4>1. resolver' = [resolver EXCEPT ![dns.backend] = "user"]
        BY <1>15, <3>2 DEF CleanDns, Revert, OwnedByCall, RolledBack
      <4>2. dns.backend \in Backends
        BY <3>2 DEF CallProgress, KnownDns
      <4>. QED
        BY <4>1, <4>2 DEF OwnedByCall, TypeOK
    <3>. QED
      BY <3>1, <3>2
  <2>. QED
    BY <2>1, <2>2 DEF OwnedByCall, RepairSteps
<1>16. CASE CleanRules
  BY <1>16, RecordTypes, FieldTypes DEF CleanRules, setting, callVars, cleanVars,
        linkVars, TypeOK, CallProgress, KnownDns, InCall, BeforeRules, AfterAll,
        Routing, OwnedByCall, RolledBack, Steps, ApplySteps, CleanupSteps,
        RepairSteps
<1>17. CASE CleanKill
  BY <1>17, RecordTypes, FieldTypes DEF CleanKill, setting, callVars, linkVars,
        TypeOK, CallProgress, KnownDns, InCall, BeforeRules, AfterAll, Routing,
        OwnedByCall, RolledBack, Steps, ApplySteps, CleanupSteps, RepairSteps
<1>18. CASE CleanJournal
  BY <1>18, RecordTypes, FieldTypes DEF CleanJournal, NoJournal, Return, setting,
        cleanVars, systemVars, NoDns, NoCfg, linkVars, TypeOK, CallProgress,
        KnownDns, InCall, BeforeRules, AfterAll, Routing, OwnedByCall, RolledBack,
        Steps, ApplySteps, CleanupSteps, RepairSteps
<1>19. CASE LoadJournal
  BY <1>19, RecordTypes, FieldTypes DEF LoadJournal, NoJournal, setting, callVars,
        cleanVars, systemVars, NoDns, linkVars, TypeOK, CallProgress, KnownDns,
        InCall, BeforeRules, AfterAll, Routing, OwnedByCall, RolledBack, Steps,
        ApplySteps, CleanupSteps, RepairSteps
<1>20. CASE RepairNet
  BY <1>20, RecordTypes, FieldTypes DEF RepairNet, NeedsExactCleanup, setting,
        callVars, cleanVars, TypeOK, CallProgress, KnownDns, InCall, BeforeRules,
        AfterAll, Routing, OwnedByCall, RolledBack, Steps, ApplySteps, CleanupSteps,
        RepairSteps
<1>21. CASE RepairKill
  BY <1>21, RecordTypes, FieldTypes DEF RepairKill, setting, callVars, cleanVars,
        linkVars, TypeOK, CallProgress, KnownDns, InCall, BeforeRules, AfterAll,
        Routing, OwnedByCall, RolledBack, Steps, ApplySteps, CleanupSteps,
        RepairSteps
<1>22. CASE RepairDns
  BY <1>22, RecordTypes, FieldTypes DEF RepairDns, NoDns, Revert, setting, callVars,
        cleanVars, linkVars, TypeOK, CallProgress, KnownDns, InCall, BeforeRules,
        AfterAll, Routing, OwnedByCall, RolledBack, Steps, ApplySteps, CleanupSteps,
        RepairSteps
<1>23. CASE RepairClear
  BY <1>23, RecordTypes, FieldTypes DEF RepairClear, NoJournal, setting, callVars,
        cleanVars, systemVars, NoDns, linkVars, TypeOK, CallProgress, KnownDns,
        InCall, BeforeRules, AfterAll, Routing, OwnedByCall, RolledBack, Steps,
        ApplySteps, CleanupSteps, RepairSteps
<1>24. CASE Crash
  BY <1>24, RecordTypes, FieldTypes DEF Crash, NoCfg, NoDns, DropLink, linkVars,
        setting, cleanVars, TypeOK, CallProgress, KnownDns, InCall, BeforeRules,
        AfterAll, Routing, OwnedByCall, RolledBack, Steps, ApplySteps, CleanupSteps,
        RepairSteps
<1>25. CASE LinkUp
  BY <1>25, RecordTypes, FieldTypes DEF LinkUp, setting, callVars, cleanVars,
        TypeOK, CallProgress, KnownDns, InCall, BeforeRules, AfterAll, Routing,
        OwnedByCall, RolledBack, Steps, ApplySteps, CleanupSteps, RepairSteps
<1>26. CASE LinkDown
  BY <1>26, RecordTypes, FieldTypes DEF LinkDown, DropLink, setting, callVars,
        cleanVars, TypeOK, CallProgress, KnownDns, InCall, BeforeRules, AfterAll,
        Routing, OwnedByCall, RolledBack, Steps, ApplySteps, CleanupSteps,
        RepairSteps
<1>27. CASE UNCHANGED vars
  BY <1>27 DEF vars, callVars, cleanVars, linkVars, systemVars, setting, TypeOK,
        CallProgress, KnownDns, InCall, BeforeRules, AfterAll, Routing, OwnedByCall,
        RolledBack, Steps, ApplySteps, CleanupSteps, RepairSteps
<1>. QED
  BY <1>1, <1>2, <1>3, <1>4, <1>5, <1>6, <1>7, <1>8, <1>9, <1>10, <1>11, <1>12,
     <1>13, <1>14, <1>15, <1>16, <1>17, <1>18, <1>19, <1>20, <1>21, <1>22, <1>23,
     <1>24, <1>25, <1>26, <1>27
    DEF Next, Apply, Cleanup, Repair

-----------------------------------------------------------------------------
(* The invariant.                                                           *)

(* The failures and the backends of a behaviour never change.               *)
LEMMA SettingKept ==
  ASSUME [Next]_vars
  PROVE  UNCHANGED setting
BY DEF Next, Apply, Cleanup, Repair, Begin, WriteFirstJournal, LookupLink, ConfigureLink,
       SweepRules, AddRule, AddRoute, InstallKill, JournalKill, TryDns, JournalRunning,
       AbortApply, Stop, CleanLink, CleanDns, CleanRules, CleanKill, CleanJournal,
       LoadJournal, RepairNet, RepairKill, RepairDns, RepairClear, Crash, LinkUp, LinkDown,
       vars, setting

(* The initial states.                                                      *)
LEMMA InitInv == Init => IInv
<1>. SUFFICES ASSUME Init PROVE IInv
  OBVIOUS
<1>1. SettingTypes
  BY DEF Init, SettingTypes
<1>2. TypeOK
  <2>1. tried \in 0..Len(dnsOrder)
    BY <1>1 DEF Init, SettingTypes
  <2>. QED
    BY <2>1, RecordTypes DEF Init, TypeOK, Steps, Resolver
<1>3. CallProgress
  BY DEF Init, CallProgress, KnownDns, InCall, BeforeRules, AfterAll, ApplySteps,
         CleanupSteps
<1>4. JournalNames
  BY DEF Init, JournalNames, KnownDns, InCall, Cleaning, ApplySteps, CleanupSteps,
         NoJournal
<1>5. Routing
  BY DEF Init, Routing, RoutesAndRulesJournaled, BeforeRules, InCall, AfterAll,
         ApplySteps, CleanupSteps
<1>6. Undoing
  BY DEF Init, Undoing, AfterAll
<1>7. OwnedByCall
  BY DEF Init, OwnedByCall, RepairSteps, NoDns
<1>. QED
  BY <1>1, <1>2, <1>3, <1>4, <1>5, <1>6, <1>7 DEF IInv

(* Every step keeps all of it.                                              *)
LEMMA StepInv == IInv /\ [Next]_vars => IInv'
<1>. SUFFICES ASSUME IInv, [Next]_vars PROVE IInv'
  OBVIOUS
<1>1. SettingTypes' /\ faults' = faults
  BY SettingKept DEF IInv, SettingTypes, setting
<1>2. TypeOK' /\ CallProgress' /\ JournalNames'
  BY TypeStep, CallStep, JournalStep DEF IInv
<1>3. faults \subseteq ApplyFaults => Routing' /\ Undoing'
  BY RoutingStep, UndoingStep DEF IInv
<1>4. faults \subseteq RolledBack => OwnedByCall'
  BY OwnedStep DEF IInv, RolledBack, ApplyFaults
<1>5. ApplyFaults' = ApplyFaults /\ RolledBack' = RolledBack
  BY DEF ApplyFaults, RolledBack
<1>. QED
  BY <1>1, <1>2, <1>3, <1>4, <1>5 DEF IInv

(* So it always holds.                                                      *)
LEMMA Invariance == Spec => []IInv
<1>. QED
  BY InitInv, StepInv, PTL DEF Spec

-----------------------------------------------------------------------------
(* What follows.                                                            *)

(* Every variable keeps its type, whatever fails.                           *)
THEOREM TypeCorrect == Spec => []TypeOK
<1>1. IInv => TypeOK
  BY DEF IInv
<1>. QED
  BY <1>1, Invariance, PTL

(* A crash at any point of an apply, and any failure of one, leaves a        *)
(* journal that names what is installed; and a tunnel reported as applied    *)
(* is in effect entirely, with a journal that names all of it.              *)
THEOREM CrashRecoverable == Spec => []Recoverable
<1>1. IInv => Recoverable
  <2>. SUFFICES ASSUME IInv, faults \subseteq ApplyFaults
                PROVE  RoutesAndRulesJournaled /\ RunningIsRecoverable
    BY DEF Recoverable
  <2>1. Routing /\ Undoing /\ CallProgress /\ JournalNames
    BY DEF IInv
  <2>2. RoutesAndRulesJournaled
    BY <2>1 DEF Routing
  <2>3. pc = "running" => routes = cfg.routes /\ rules = cfg.policy
    BY <2>1 DEF Routing, AfterAll
  <2>4. pc = "running" => kill = cfg.kill /\ (cfg.dns <=> dns # NoDns)
    BY <2>1 DEF CallProgress, AfterAll
  <2>5. pc = "running" => /\ cfg.kill => killFw
                          /\ cfg.dns => resolver[dns.backend] = "tunnel"
    BY <2>1 DEF Undoing, AfterAll
  <2>6. pc = "running" => journal = JournalOf("Running", kill, dns)
    BY <2>1 DEF JournalNames
  <2>. QED
    BY <2>2, <2>3, <2>4, <2>5, <2>6 DEF RunningIsRecoverable, JournalOf
<1>. QED
  BY <1>1, Invariance, PTL

(* As long as only additions and journal writes fail, every change of the    *)
(* system has an owner, and none reaches the next apply.                    *)
THEOREM ChangesOwned == Spec => []NothingForgotten
<1>1. IInv => NothingForgotten
  <2>. SUFFICES ASSUME IInv, faults \subseteq RolledBack
                PROVE  KillSwitchOwned /\ UserDnsRemembered /\ FreshLink
    BY DEF IInv, NothingForgotten
  <2>1. OwnedByCall
    BY DEF IInv
  <2>. QED
    BY <2>1
      DEF OwnedByCall, KillSwitchOwned, UserDnsRemembered, FreshLink, Backends
<1>. QED
  BY <1>1, Invariance, PTL

(* What the journal names is undone when a cleanup or a repair removes it.   *)
LEMMA ClearingStep ==
  ASSUME IInv, [Next]_vars, faults \subseteq ApplyFaults, journal # NoJournal,
         journal' = NoJournal
  PROVE  UndoneNext(journal)
<1>1. \A k \in BOOLEAN, d \in DnsStates, phase \in {"Applying", "Running"} :
        JournalOf(phase, k, d) # NoJournal
  BY DEF JournalOf, NoJournal
<1>2. NoDns \in DnsStates /\ kill \in BOOLEAN /\ dns \in DnsStates
  BY RecordTypes DEF IInv, TypeOK
<1>3. \/ CleanJournal /\ clear
      \/ RepairClear
  BY <1>1, <1>2 
    DEF Next, Apply, Cleanup, Repair, Begin, WriteFirstJournal, LookupLink,
       ConfigureLink, SweepRules, AddRule, AddRoute, InstallKill, JournalKill, TryDns,
       JournalRunning, AbortApply, Stop, CleanLink, CleanDns, CleanRules, CleanKill,
       CleanJournal, LoadJournal, RepairNet, RepairKill, RepairDns, RepairClear, Crash,
       LinkUp, LinkDown, Persist, vars
<1>4. CASE CleanJournal /\ clear
  <2>1. pc = "cClear" /\ UNCHANGED systemVars
    BY <1>4 DEF CleanJournal
  <2>2. journal = JournalOf("Running", kill, dns)
    BY <1>4, <2>1 DEF IInv, JournalNames, Cleaning, CleanupSteps
  <2>3. routes = {} /\ rules = {} /\ (kill => ~killFw)
        /\ (dns # NoDns => resolver[dns.backend] = dns.original)
    BY <2>1 DEF IInv, Routing, Undoing
  <2>. QED
    BY <2>1, <2>2, <2>3 DEF UndoneNext, JournalOf, systemVars, linkVars
<1>5. CASE RepairClear
  <2>1. pc = "rClear" /\ UNCHANGED systemVars
    BY <1>5 DEF RepairClear
  <2>2. routes = {} /\ rules = {} /\ (journal.kill => ~killFw)
        /\ (journal.dns # NoDns =>
              resolver[journal.dns.backend] = journal.dns.original)
    BY <2>1 DEF IInv, Routing, Undoing
  <2>. QED
    BY <2>1, <2>2 DEF UndoneNext, systemVars, linkVars
<1>. QED
  BY <1>3, <1>4, <1>5

(* The journal is the last thing a cleanup and a repair remove.             *)
THEOREM JournalLast == Spec => JournalClearedLast
<1>1. IInv /\ [Next]_vars =>
        [faults \subseteq ApplyFaults /\ journal # NoJournal /\ journal' = NoJournal
           => UndoneNext(journal)]_vars
  BY ClearingStep
<1>. QED
  BY <1>1, Invariance, PTL DEF Spec, JournalClearedLast

-----------------------------------------------------------------------------
(* LinuxNet implements NetContract, step by step.                           *)

(* The phase of a call, before and after a step.                            *)
LEMMA Phases ==
  /\ pc = "idle" => Phase = "off"
  /\ pc \in ApplySteps => Phase = "applying"
  /\ pc = "running" => Phase = "on"
  /\ pc \in CleanupSteps => Phase = "undoing"
  /\ pc \in RepairSteps => Phase = "down"
  /\ pc' = "idle" => Phase' = "off"
  /\ pc' \in ApplySteps => Phase' = "applying"
  /\ pc' = "running" => Phase' = "on"
  /\ pc' \in CleanupSteps => Phase' = "undoing"
  /\ pc' \in RepairSteps => Phase' = "down"
BY DEF Phase, ApplySteps, CleanupSteps, RepairSteps

(* The steps the contract allows for routes and rules, and for everything.  *)
RoutingMoves ==
  RoutingContract!Next \/ UNCHANGED <<Phase, WantedRouting, routes \cup rules>>
EverythingMoves == Contract!Next \/ UNCHANGED <<Phase, AllWanted, AllInEffect>>

(* Routes and rules: an addition installs, or withdraws with the addition   *)
(* half made; a deletion, the repair included, removes.                     *)
LEMMA RoutingRefines ==
  ASSUME faults \subseteq ApplyFaults, TypeOK, SettingTypes, CallProgress,
         JournalNames, Routing, [Next]_vars
  PROVE  RoutingMoves
<1>1. ASSUME NEW c \in Configs, Begin(c)
      PROVE  RoutingMoves
  BY <1>1, Phases, FieldTypes, ConfigTypes DEF Begin, setting, cleanVars,
        systemVars, linkVars, CallProgress, JournalNames, InCall, BeforeRules,
        AfterAll, Routing, ApplyFaults, RoutingMoves, WantedRouting, Steps,
        ApplySteps, CleanupSteps, RepairSteps, RoutingContract!Next,
        RoutingContract!Begin
<1>2. CASE WriteFirstJournal
  BY <1>2, Phases, FieldTypes DEF WriteFirstJournal, Persist, JournalOf, NoDns,
        callVars, Return, setting, cleanVars, systemVars, NoCfg, linkVars,
        CallProgress, JournalNames, InCall, BeforeRules, AfterAll, Routing,
        ApplyFaults, RoutingMoves, WantedRouting, Steps, ApplySteps, CleanupSteps,
        RepairSteps, RoutingContract!Next, RoutingContract!Finish
<1>3. CASE LookupLink
  BY <1>3, Phases, FieldTypes DEF LookupLink, callVars, Return, setting, cleanVars,
        systemVars, NoCfg, NoDns, linkVars, CallProgress, JournalNames, InCall,
        BeforeRules, AfterAll, Routing, ApplyFaults, RoutingMoves, WantedRouting,
        Steps, ApplySteps, CleanupSteps, RepairSteps, RoutingContract!Next,
        RoutingContract!Finish
<1>4. CASE ConfigureLink
  <2>1. pc = "aLink" /\ routes = {} /\ rules = {} /\ UNCHANGED <<routes, rules>>
    BY <1>4 DEF ConfigureLink, Routing, BeforeRules
  <2>2. CASE Return
    BY <2>1, <2>2, Phases
      DEF Return, NoCfg, RoutingMoves, WantedRouting, ApplySteps, RoutingContract!Next,
          RoutingContract!Finish
  <2>3. CASE UNCHANGED callVars /\ pc' \in ApplySteps
    BY <2>1, <2>3, Phases DEF callVars, RoutingMoves, WantedRouting, ApplySteps
  <2>4. AfterRules \in ApplySteps /\ "aSweep" \in ApplySteps
    BY DEF AfterRules, AfterRoutes, AfterKill, ApplySteps
  <2>. QED
    BY <1>4, <2>2, <2>3, <2>4 DEF ConfigureLink
<1>5. CASE SweepRules
  BY <1>5, Phases, FieldTypes DEF SweepRules, setting, callVars, cleanVars,
        linkVars, CallProgress, JournalNames, InCall, BeforeRules, AfterAll,
        Routing, ApplyFaults, RoutingMoves, WantedRouting, Steps, ApplySteps,
        CleanupSteps, RepairSteps
<1>6. CASE AddRule
  BY <1>6, Phases, FieldTypes DEF AddRule, Persist, JournalOf, NoDns, AfterRules,
        setting, cleanVars, linkVars, AfterRoutes, AfterKill, CallProgress,
        JournalNames, InCall, BeforeRules, AfterAll, Routing, ApplyFaults,
        RoutingMoves, WantedRouting, Steps, ApplySteps, CleanupSteps, RepairSteps,
        RoutingContract!Next, RoutingContract!Install, RoutingContract!Withdraw
<1>7. CASE AddRoute
  BY <1>7, Phases, FieldTypes DEF AddRoute, Persist, JournalOf, NoDns, AfterRoutes,
        setting, cleanVars, AfterKill, CallProgress, JournalNames, InCall,
        BeforeRules, AfterAll, Routing, ApplyFaults, RoutingMoves, WantedRouting,
        Steps, ApplySteps, CleanupSteps, RepairSteps, RoutingContract!Next,
        RoutingContract!Install, RoutingContract!Withdraw
<1>8. CASE InstallKill
  BY <1>8, Phases, FieldTypes DEF InstallKill, setting, cleanVars, linkVars,
        CallProgress, JournalNames, InCall, BeforeRules, AfterAll, Routing,
        ApplyFaults, RoutingMoves, WantedRouting, Steps, ApplySteps, CleanupSteps,
        RepairSteps, RoutingContract!Next, RoutingContract!Withdraw
<1>9. CASE JournalKill
  BY <1>9, Phases, FieldTypes DEF JournalKill, Persist, JournalOf, NoDns, AfterKill,
        setting, callVars, cleanVars, systemVars, linkVars, CallProgress,
        JournalNames, InCall, BeforeRules, AfterAll, Routing, ApplyFaults,
        RoutingMoves, WantedRouting, Steps, ApplySteps, CleanupSteps, RepairSteps,
        RoutingContract!Next, RoutingContract!Withdraw
<1>10. CASE TryDns
  BY <1>10, Phases, FieldTypes DEF TryDns, Residue, NextBackend, setting, cleanVars,
        linkVars, CallProgress, JournalNames, InCall, BeforeRules, AfterAll,
        Routing, ApplyFaults, RoutingMoves, WantedRouting, Steps, ApplySteps,
        CleanupSteps, RepairSteps, RoutingContract!Next, RoutingContract!Withdraw
<1>11. CASE JournalRunning
  BY <1>11, Phases, FieldTypes DEF JournalRunning, Persist, JournalOf, setting,
        callVars, cleanVars, systemVars, linkVars, CallProgress, JournalNames,
        InCall, BeforeRules, AfterAll, Routing, ApplyFaults, RoutingMoves,
        WantedRouting, Steps, ApplySteps, CleanupSteps, RepairSteps,
        RoutingContract!Next, RoutingContract!Commit, RoutingContract!Withdraw
<1>12. CASE AbortApply
  BY <1>12, Phases, FieldTypes DEF AbortApply, Persist, JournalOf, NoDns, setting,
        callVars, systemVars, linkVars, CallProgress, JournalNames, InCall,
        BeforeRules, AfterAll, Routing, ApplyFaults, RoutingMoves, WantedRouting,
        Steps, ApplySteps, CleanupSteps, RepairSteps
<1>13. CASE Stop
  BY <1>13, Phases, FieldTypes DEF Stop, setting, callVars, systemVars, linkVars,
        CallProgress, JournalNames, InCall, BeforeRules, AfterAll, Routing,
        ApplyFaults, RoutingMoves, WantedRouting, Steps, ApplySteps, CleanupSteps,
        RepairSteps, RoutingContract!Next, RoutingContract!Withdraw
<1>14. CASE CleanLink
  BY <1>14, Phases, FieldTypes DEF CleanLink, setting, callVars, CallProgress,
        JournalNames, InCall, BeforeRules, AfterAll, Routing, ApplyFaults,
        RoutingMoves, WantedRouting, Steps, ApplySteps, CleanupSteps, RepairSteps,
        RoutingContract!Next, RoutingContract!Remove
<1>15. CASE CleanDns
  BY <1>15, Phases, FieldTypes DEF CleanDns, NoDns, Revert, setting, callVars,
        linkVars, CallProgress, JournalNames, InCall, BeforeRules, AfterAll,
        Routing, ApplyFaults, RoutingMoves, WantedRouting, Steps, ApplySteps,
        CleanupSteps, RepairSteps, RoutingContract!Next, RoutingContract!Remove
<1>16. CASE CleanRules
  BY <1>16, Phases, FieldTypes DEF CleanRules, setting, callVars, cleanVars,
        linkVars, CallProgress, JournalNames, InCall, BeforeRules, AfterAll,
        Routing, ApplyFaults, RoutingMoves, WantedRouting, Steps, ApplySteps,
        CleanupSteps, RepairSteps, RoutingContract!Next, RoutingContract!Remove
<1>17. CASE CleanKill
  BY <1>17, Phases, FieldTypes DEF CleanKill, setting, callVars, linkVars,
        CallProgress, JournalNames, InCall, BeforeRules, AfterAll, Routing,
        ApplyFaults, RoutingMoves, WantedRouting, Steps, ApplySteps, CleanupSteps,
        RepairSteps, RoutingContract!Next, RoutingContract!Remove
<1>18. CASE CleanJournal
  BY <1>18, Phases, FieldTypes DEF CleanJournal, NoJournal, Return, setting,
        cleanVars, systemVars, NoDns, NoCfg, linkVars, CallProgress, JournalNames,
        InCall, BeforeRules, AfterAll, Routing, ApplyFaults, RoutingMoves,
        WantedRouting, Steps, ApplySteps, CleanupSteps, RepairSteps,
        RoutingContract!Next, RoutingContract!Finish
<1>19. CASE LoadJournal
  <2>1. pc = "down" /\ cfg = NoCfg /\ UNCHANGED <<cfg, routes, rules>>
    BY <1>19 DEF LoadJournal, callVars, systemVars, linkVars, CallProgress, InCall,
               ApplySteps, CleanupSteps
  <2>2. CASE journal = NoJournal /\ pc' = "idle"
    <3>1. routes \cup rules = {}
      BY <2>2 DEF Routing, RoutesAndRulesJournaled, NoJournal
    <3>. QED
      BY <2>1, <2>2, <3>1, Phases
        DEF RoutingMoves, WantedRouting, NoCfg, RepairSteps, RoutingContract!Next,
            RoutingContract!Finish
  <2>3. CASE pc' = "rNet"
    BY <2>1, <2>3, Phases DEF RoutingMoves, WantedRouting, RepairSteps
  <2>. QED
    BY <1>19, <2>2, <2>3 DEF LoadJournal
<1>20. CASE RepairNet
  BY <1>20, Phases, FieldTypes DEF RepairNet, NeedsExactCleanup, setting, callVars,
        cleanVars, CallProgress, JournalNames, InCall, BeforeRules, AfterAll,
        Routing, ApplyFaults, RoutingMoves, WantedRouting, Steps, ApplySteps,
        CleanupSteps, RepairSteps, RoutingContract!Next, RoutingContract!Remove
<1>21. CASE RepairKill
  BY <1>21, Phases, FieldTypes DEF RepairKill, setting, callVars, cleanVars,
        linkVars, CallProgress, JournalNames, InCall, BeforeRules, AfterAll,
        Routing, ApplyFaults, RoutingMoves, WantedRouting, Steps, ApplySteps,
        CleanupSteps, RepairSteps
<1>22. CASE RepairDns
  BY <1>22, Phases, FieldTypes DEF RepairDns, NoDns, Revert, setting, callVars,
        cleanVars, linkVars, CallProgress, JournalNames, InCall, BeforeRules,
        AfterAll, Routing, ApplyFaults, RoutingMoves, WantedRouting, Steps,
        ApplySteps, CleanupSteps, RepairSteps
<1>23. CASE RepairClear
  BY <1>23, Phases, FieldTypes DEF RepairClear, NoJournal, setting, callVars,
        cleanVars, systemVars, NoDns, linkVars, CallProgress, JournalNames, InCall,
        BeforeRules, AfterAll, Routing, ApplyFaults, RoutingMoves, WantedRouting,
        Steps, ApplySteps, CleanupSteps, RepairSteps, RoutingContract!Next,
        RoutingContract!Finish, NoCfg
<1>24. CASE Crash
  BY <1>24, Phases, FieldTypes DEF Crash, NoCfg, NoDns, DropLink, linkVars, setting,
        cleanVars, CallProgress, JournalNames, InCall, BeforeRules, AfterAll,
        Routing, ApplyFaults, RoutingMoves, WantedRouting, Steps, ApplySteps,
        CleanupSteps, RepairSteps, RoutingContract!Next, RoutingContract!Crash,
        RoutingContract!Remove
<1>25. CASE LinkUp
  BY <1>25, Phases, FieldTypes DEF LinkUp, setting, callVars, cleanVars,
        CallProgress, JournalNames, InCall, BeforeRules, AfterAll, Routing,
        ApplyFaults, RoutingMoves, WantedRouting, Steps, ApplySteps, CleanupSteps,
        RepairSteps
<1>26. CASE LinkDown
  BY <1>26, Phases, FieldTypes DEF LinkDown, DropLink, setting, callVars, cleanVars,
        CallProgress, JournalNames, InCall, BeforeRules, AfterAll, Routing,
        ApplyFaults, RoutingMoves, WantedRouting, Steps, ApplySteps, CleanupSteps,
        RepairSteps
<1>27. CASE UNCHANGED vars
  BY <1>27 DEF vars, callVars, cleanVars, linkVars, systemVars, setting,
        CallProgress, JournalNames, InCall, BeforeRules, AfterAll, Routing,
        ApplyFaults, RoutingMoves, WantedRouting, Steps, ApplySteps, CleanupSteps,
        RepairSteps, Phase
<1>. QED
  BY <1>1, <1>2, <1>3, <1>4, <1>5, <1>6, <1>7, <1>8, <1>9, <1>10, <1>11, <1>12,
     <1>13, <1>14, <1>15, <1>16, <1>17, <1>18, <1>19, <1>20, <1>21, <1>22, <1>23,
     <1>24, <1>25, <1>26, <1>27
    DEF Next, Apply, Cleanup, Repair

(* Kill switch and DNS too, as long as every failure is rolled back.         *)
LEMMA EverythingRefines ==
  ASSUME faults \subseteq RolledBack, TypeOK, SettingTypes, CallProgress,
         JournalNames, Routing, Undoing, OwnedByCall, [Next]_vars
  PROVE  EverythingMoves
<1>1. ASSUME NEW c \in Configs, Begin(c)
      PROVE  EverythingMoves
  BY <1>1, Phases, FieldTypes, ConfigTypes DEF Begin, setting, cleanVars,
        systemVars, linkVars, CallProgress, JournalNames, KnownDns, InCall,
        BeforeRules, AfterAll, Routing, Undoing, OwnedByCall, RolledBack,
        EverythingMoves, WantedRouting, WantedRest, AllWanted, AllInEffect,
        RestInEffect, Steps, ApplySteps, CleanupSteps, RepairSteps, Contract!Next,
        Contract!Begin
<1>2. CASE WriteFirstJournal
  <2>1. /\ pc = "aJournal" /\ routes = {} /\ rules = {} /\ ~killFw
        /\ \A b \in Backends : resolver[b] = "user"
        /\ UNCHANGED <<routes, rules, killFw, resolver>>
    BY <1>2
      DEF WriteFirstJournal, systemVars, linkVars, CallProgress, Routing, OwnedByCall,
          BeforeRules, ApplySteps, NoDns, Backends
  <2>2. AllInEffect = {} /\ AllInEffect' = AllInEffect
    BY <2>1 DEF AllInEffect, RestInEffect
  <2>3. CASE Return
    <3>1. AllWanted' = {}
      BY <2>3 DEF Return, NoCfg, AllWanted, WantedRouting, WantedRest
    <3>. QED
      BY <2>1, <2>2, <2>3, <3>1, Phases
        DEF Return, EverythingMoves, ApplySteps, Contract!Next, Contract!Finish
  <2>4. CASE pc' = "aLookup" /\ UNCHANGED callVars
    BY <2>1, <2>2, <2>4, Phases
      DEF EverythingMoves, ApplySteps, callVars, AllWanted, WantedRouting, WantedRest
  <2>. QED
    BY <1>2, <2>3, <2>4 DEF WriteFirstJournal
<1>3. CASE LookupLink
  BY <1>3, Phases, FieldTypes DEF LookupLink, callVars, Return, setting, cleanVars,
        systemVars, NoCfg, NoDns, linkVars, CallProgress, JournalNames, KnownDns,
        InCall, BeforeRules, AfterAll, Routing, Undoing, OwnedByCall, RolledBack,
        EverythingMoves, WantedRouting, WantedRest, AllWanted, AllInEffect,
        RestInEffect, Steps, ApplySteps, CleanupSteps, RepairSteps, Contract!Next,
        Contract!Finish
<1>4. CASE ConfigureLink
  BY <1>4, Phases, FieldTypes DEF ConfigureLink, AfterRules, callVars, Return,
        setting, cleanVars, AfterRoutes, NoCfg, NoDns, AfterKill, CallProgress,
        JournalNames, KnownDns, InCall, BeforeRules, AfterAll, Routing, Undoing,
        OwnedByCall, RolledBack, EverythingMoves, WantedRouting, WantedRest,
        AllWanted, AllInEffect, RestInEffect, Steps, ApplySteps, CleanupSteps,
        RepairSteps, Contract!Next, Contract!Finish
<1>5. CASE SweepRules
  BY <1>5, Phases, FieldTypes DEF SweepRules, setting, callVars, cleanVars,
        linkVars, CallProgress, JournalNames, KnownDns, InCall, BeforeRules,
        AfterAll, Routing, Undoing, OwnedByCall, RolledBack, EverythingMoves,
        WantedRouting, WantedRest, AllWanted, AllInEffect, RestInEffect, Steps,
        ApplySteps, CleanupSteps, RepairSteps
<1>6. CASE AddRule
  BY <1>6, Phases, FieldTypes DEF AddRule, Persist, JournalOf, NoDns, AfterRules,
        setting, cleanVars, linkVars, AfterRoutes, AfterKill, CallProgress,
        JournalNames, KnownDns, InCall, BeforeRules, AfterAll, Routing, Undoing,
        OwnedByCall, RolledBack, EverythingMoves, WantedRouting, WantedRest,
        AllWanted, AllInEffect, RestInEffect, Steps, ApplySteps, CleanupSteps,
        RepairSteps, Contract!Next, Contract!Install, Contract!Withdraw
<1>7. CASE AddRoute
  BY <1>7, Phases, FieldTypes DEF AddRoute, Persist, JournalOf, NoDns, AfterRoutes,
        setting, cleanVars, AfterKill, CallProgress, JournalNames, KnownDns, InCall,
        BeforeRules, AfterAll, Routing, Undoing, OwnedByCall, RolledBack,
        EverythingMoves, WantedRouting, WantedRest, AllWanted, AllInEffect,
        RestInEffect, Steps, ApplySteps, CleanupSteps, RepairSteps, Contract!Next,
        Contract!Install, Contract!Withdraw
<1>8. CASE InstallKill
  BY <1>8, Phases, FieldTypes DEF InstallKill, setting, cleanVars, linkVars,
        CallProgress, JournalNames, KnownDns, InCall, BeforeRules, AfterAll,
        Routing, Undoing, OwnedByCall, RolledBack, EverythingMoves, WantedRouting,
        WantedRest, AllWanted, AllInEffect, RestInEffect, Steps, ApplySteps,
        CleanupSteps, RepairSteps, Contract!Next, Contract!Withdraw,
        Contract!Install
<1>9. CASE JournalKill
  BY <1>9, Phases, FieldTypes DEF JournalKill, Persist, JournalOf, NoDns, AfterKill,
        setting, callVars, cleanVars, systemVars, linkVars, CallProgress,
        JournalNames, KnownDns, InCall, BeforeRules, AfterAll, Routing, Undoing,
        OwnedByCall, RolledBack, EverythingMoves, WantedRouting, WantedRest,
        AllWanted, AllInEffect, RestInEffect, Steps, ApplySteps, CleanupSteps,
        RepairSteps, Contract!Next, Contract!Withdraw
<1>10. CASE TryDns
  <2>1. /\ pc = "aDns" /\ cfg.dns /\ UNCHANGED <<cfg, routes, rules, killFw>>
        /\ \A b \in Backends : resolver[b] = "user"
    BY <1>10 DEF TryDns, linkVars, CallProgress, OwnedByCall, ApplySteps, NoDns, Backends
  <2>2. UNCHANGED AllWanted /\ "dns" \in AllWanted
    BY <2>1 DEF AllWanted, WantedRouting, WantedRest
  <2>3. CASE pc' = "bJournal" /\ UNCHANGED resolver
    BY <2>1, <2>2, <2>3, Phases
      DEF EverythingMoves, AllInEffect, RestInEffect, ApplySteps, CleanupSteps,
          Contract!Next, Contract!Withdraw
  <2>4. ASSUME NEW b \in Backends, resolver' = [resolver EXCEPT ![b] = "tunnel"],
               pc' = "aRunning"
        PROVE  EverythingMoves
    <3>1. resolver'[b] = "tunnel"
      BY <2>4 DEF TypeOK
    <3>2. AllInEffect' = AllInEffect \cup {"dns"}
      BY <2>1, <3>1 DEF AllInEffect, RestInEffect
    <3>3. "dns" \notin AllInEffect
      BY <2>1, RoutesAssumption DEF AllInEffect, RestInEffect, TypeOK, Families
    <3>. QED
      BY <2>1, <2>2, <2>4, <3>2, <3>3, Phases
        DEF EverythingMoves, ApplySteps, Contract!Next, Contract!Install
  <2>. QED
    BY <1>10, <2>3, <2>4, AnotherBackend DEF TryDns, RolledBack
<1>11. CASE JournalRunning
  <2>1. pc = "aRunning" /\ UNCHANGED <<cfg, routes, rules, killFw, resolver>>
    BY <1>11 DEF JournalRunning, callVars, systemVars, linkVars
  <2>2. UNCHANGED <<AllWanted, AllInEffect>>
    BY <2>1 DEF AllWanted, WantedRouting, WantedRest, AllInEffect, RestInEffect
  <2>3. routes = cfg.routes /\ rules = cfg.policy /\ (killFw <=> cfg.kill)
    BY <2>1 DEF Routing, CallProgress, Undoing, OwnedByCall, AfterAll
  <2>4. (\E b \in Backends : resolver[b] # "user") <=> cfg.dns
    <3>1. CASE cfg.dns
      BY <2>1, <3>1
        DEF CallProgress, KnownDns, Undoing, AfterAll
    <3>2. CASE ~cfg.dns
      BY <2>1, <3>2, FieldTypes
        DEF CallProgress, OwnedByCall, AfterAll, NoDns, Backends
    <3>. QED
      BY <3>1, <3>2
  <2>5. AllInEffect = AllWanted
    BY <2>3, <2>4, FieldTypes
      DEF AllWanted, WantedRouting, WantedRest, AllInEffect, RestInEffect
  <2>6. pc' \in {"running", "bJournal"}
    BY <1>11 DEF JournalRunning
  <2>. QED
    BY <2>1, <2>2, <2>5, <2>6, Phases
      DEF EverythingMoves, ApplySteps, CleanupSteps, Contract!Next, Contract!Commit,
          Contract!Withdraw
<1>12. CASE AbortApply
  BY <1>12, Phases, FieldTypes DEF AbortApply, Persist, JournalOf, NoDns, setting,
        callVars, systemVars, linkVars, CallProgress, JournalNames, KnownDns,
        InCall, BeforeRules, AfterAll, Routing, Undoing, OwnedByCall, RolledBack,
        EverythingMoves, WantedRouting, WantedRest, AllWanted, AllInEffect,
        RestInEffect, Steps, ApplySteps, CleanupSteps, RepairSteps
<1>13. CASE Stop
  BY <1>13, Phases, FieldTypes DEF Stop, setting, callVars, systemVars, linkVars,
        CallProgress, JournalNames, KnownDns, InCall, BeforeRules, AfterAll,
        Routing, Undoing, OwnedByCall, RolledBack, EverythingMoves, WantedRouting,
        WantedRest, AllWanted, AllInEffect, RestInEffect, Steps, ApplySteps,
        CleanupSteps, RepairSteps, Contract!Next, Contract!Withdraw
<1>14. CASE CleanLink
  BY <1>14, Phases, FieldTypes DEF CleanLink, setting, callVars, CallProgress,
        JournalNames, KnownDns, InCall, BeforeRules, AfterAll, Routing, Undoing,
        OwnedByCall, RolledBack, EverythingMoves, WantedRouting, WantedRest,
        AllWanted, AllInEffect, RestInEffect, Steps, ApplySteps, CleanupSteps,
        RepairSteps, Contract!Next, Contract!Remove
<1>15. CASE CleanDns
  <2>1. pc = "cDns" /\ pc' = "cRules" /\ UNCHANGED <<cfg, routes, rules, killFw>>
    BY <1>15 DEF CleanDns, callVars, linkVars
  <2>2. \A b \in Backends : resolver'[b] # "user" => resolver[b] # "user"
    <3>1. CASE dns = NoDns
      BY <1>15, <3>1 DEF CleanDns
    <3>2. CASE dns # NoDns
      <4>1. resolver' = [resolver EXCEPT ![dns.backend] = "user"]
        BY <1>15, <3>2 DEF CleanDns, Revert, OwnedByCall, RolledBack
      <4>. QED
        BY <4>1 DEF TypeOK
    <3>. QED
      BY <3>1, <3>2
  <2>3. AllInEffect' \subseteq AllInEffect /\ UNCHANGED AllWanted
    BY <2>1, <2>2 DEF AllInEffect, RestInEffect, AllWanted, WantedRouting, WantedRest
  <2>. QED
    BY <2>1, <2>3, Phases
      DEF EverythingMoves, CleanupSteps, Contract!Next, Contract!Remove
<1>16. CASE CleanRules
  BY <1>16, Phases, FieldTypes DEF CleanRules, setting, callVars, cleanVars,
        linkVars, CallProgress, JournalNames, KnownDns, InCall, BeforeRules,
        AfterAll, Routing, Undoing, OwnedByCall, RolledBack, EverythingMoves,
        WantedRouting, WantedRest, AllWanted, AllInEffect, RestInEffect, Steps,
        ApplySteps, CleanupSteps, RepairSteps, Contract!Next, Contract!Remove
<1>17. CASE CleanKill
  BY <1>17, Phases, FieldTypes DEF CleanKill, setting, callVars, linkVars,
        CallProgress, JournalNames, KnownDns, InCall, BeforeRules, AfterAll,
        Routing, Undoing, OwnedByCall, RolledBack, EverythingMoves, WantedRouting,
        WantedRest, AllWanted, AllInEffect, RestInEffect, Steps, ApplySteps,
        CleanupSteps, RepairSteps, Contract!Next, Contract!Remove
<1>18. CASE CleanJournal
  BY <1>18, Phases, FieldTypes DEF CleanJournal, NoJournal, Return, setting,
        cleanVars, systemVars, NoDns, NoCfg, linkVars, CallProgress, JournalNames,
        KnownDns, InCall, BeforeRules, AfterAll, Routing, Undoing, OwnedByCall,
        RolledBack, EverythingMoves, WantedRouting, WantedRest, AllWanted,
        AllInEffect, RestInEffect, Steps, ApplySteps, CleanupSteps, RepairSteps,
        Contract!Next, Contract!Finish
<1>19. CASE LoadJournal
  BY <1>19, Phases, FieldTypes DEF LoadJournal, NoJournal, setting, callVars,
        cleanVars, systemVars, NoDns, linkVars, CallProgress, JournalNames,
        KnownDns, InCall, BeforeRules, AfterAll, Routing, Undoing, OwnedByCall,
        RolledBack, EverythingMoves, WantedRouting, WantedRest, AllWanted,
        AllInEffect, RestInEffect, Steps, ApplySteps, CleanupSteps, RepairSteps,
        Contract!Next, Contract!Finish, NoCfg
<1>20. CASE RepairNet
  BY <1>20, Phases, FieldTypes DEF RepairNet, NeedsExactCleanup, setting, callVars,
        cleanVars, CallProgress, JournalNames, KnownDns, InCall, BeforeRules,
        AfterAll, Routing, Undoing, OwnedByCall, RolledBack, EverythingMoves,
        WantedRouting, WantedRest, AllWanted, AllInEffect, RestInEffect, Steps,
        ApplySteps, CleanupSteps, RepairSteps, Contract!Next, Contract!Remove
<1>21. CASE RepairKill
  BY <1>21, Phases, FieldTypes DEF RepairKill, setting, callVars, cleanVars,
        linkVars, CallProgress, JournalNames, KnownDns, InCall, BeforeRules,
        AfterAll, Routing, Undoing, OwnedByCall, RolledBack, EverythingMoves,
        WantedRouting, WantedRest, AllWanted, AllInEffect, RestInEffect, Steps,
        ApplySteps, CleanupSteps, RepairSteps
<1>22. CASE RepairDns
  BY <1>22, Phases, FieldTypes DEF RepairDns, NoDns, Revert, setting, callVars,
        cleanVars, linkVars, CallProgress, JournalNames, KnownDns, InCall,
        BeforeRules, AfterAll, Routing, Undoing, OwnedByCall, RolledBack,
        EverythingMoves, WantedRouting, WantedRest, AllWanted, AllInEffect,
        RestInEffect, Steps, ApplySteps, CleanupSteps, RepairSteps
<1>23. CASE RepairClear
  BY <1>23, Phases, FieldTypes DEF RepairClear, NoJournal, setting, callVars,
        cleanVars, systemVars, NoDns, linkVars, CallProgress, JournalNames,
        KnownDns, InCall, BeforeRules, AfterAll, Routing, Undoing, OwnedByCall,
        RolledBack, EverythingMoves, WantedRouting, WantedRest, AllWanted,
        AllInEffect, RestInEffect, Steps, ApplySteps, CleanupSteps, RepairSteps,
        Contract!Next, Contract!Finish, NoCfg
<1>24. CASE Crash
  BY <1>24, Phases, FieldTypes DEF Crash, NoCfg, NoDns, DropLink, linkVars, setting,
        cleanVars, CallProgress, JournalNames, KnownDns, InCall, BeforeRules,
        AfterAll, Routing, Undoing, OwnedByCall, RolledBack, EverythingMoves,
        WantedRouting, WantedRest, AllWanted, AllInEffect, RestInEffect, Steps,
        ApplySteps, CleanupSteps, RepairSteps, Contract!Next, Contract!Crash,
        Contract!Remove
<1>25. CASE LinkUp
  BY <1>25, Phases, FieldTypes DEF LinkUp, setting, callVars, cleanVars,
        CallProgress, JournalNames, KnownDns, InCall, BeforeRules, AfterAll,
        Routing, Undoing, OwnedByCall, RolledBack, EverythingMoves, WantedRouting,
        WantedRest, AllWanted, AllInEffect, RestInEffect, Steps, ApplySteps,
        CleanupSteps, RepairSteps
<1>26. CASE LinkDown
  <2>1. pc = "idle" /\ routes = {} /\ routes' = {} /\ UNCHANGED <<pc, cfg, rules, killFw>>
    BY <1>26 DEF LinkDown, DropLink, callVars, RolledBack, Routing
  <2>2. \A b \in Backends : resolver[b] = "user" /\ resolver'[b] = "user"
    BY <1>26, <2>1
      DEF LinkDown, DropLink, CallProgress, InCall, ApplySteps, CleanupSteps,
          OwnedByCall, NoDns, Backends, TypeOK
  <2>3. UNCHANGED <<AllInEffect, AllWanted>>
    BY <2>1, <2>2 DEF AllInEffect, RestInEffect, AllWanted, WantedRouting, WantedRest
  <2>. QED
    BY <2>1, <2>3, Phases DEF EverythingMoves
<1>27. CASE UNCHANGED vars
  BY <1>27 DEF vars, callVars, cleanVars, linkVars, systemVars, setting,
        CallProgress, JournalNames, KnownDns, InCall, BeforeRules, AfterAll,
        Routing, Undoing, OwnedByCall, RolledBack, EverythingMoves, WantedRouting,
        WantedRest, AllWanted, AllInEffect, RestInEffect, Steps, ApplySteps,
        CleanupSteps, RepairSteps, Phase
<1>. QED
  BY <1>1, <1>2, <1>3, <1>4, <1>5, <1>6, <1>7, <1>8, <1>9, <1>10, <1>11, <1>12,
     <1>13, <1>14, <1>15, <1>16, <1>17, <1>18, <1>19, <1>20, <1>21, <1>22, <1>23,
     <1>24, <1>25, <1>26, <1>27
    DEF Next, Apply, Cleanup, Repair

(* All or nothing: whatever fails of the steps that are rolled back, a      *)
(* configuration is in effect entirely or not at all; and so are its routes *)
(* and rules wherever an apply fails or the process dies.                   *)
THEOREM PipelineRefinesContract == Spec => AllOrNothing
<1>1. Init => Contract!Init /\ RoutingContract!Init
  <2>. SUFFICES ASSUME Init PROVE Contract!Init /\ RoutingContract!Init
    OBVIOUS
  <2>1. Phase = "off" /\ WantedRouting = {} /\ AllWanted = {}
    BY Phases DEF Init, WantedRouting, WantedRest, AllWanted, NoCfg
  <2>2. routes \cup rules = {} /\ AllInEffect = {}
    BY DEF Init, AllInEffect, RestInEffect
  <2>. QED
    BY <2>1, <2>2 DEF Contract!Init, RoutingContract!Init
<1>2. IInv /\ [Next]_vars =>
        [/\ faults \subseteq RolledBack =>
              [Contract!Next]_<<Phase, AllWanted, AllInEffect>>
         /\ faults \subseteq ApplyFaults =>
              [RoutingContract!Next]_<<Phase, WantedRouting, routes \cup rules>>]_vars
  <2>. SUFFICES ASSUME IInv, [Next]_vars
                PROVE  /\ faults \subseteq RolledBack =>
                            [Contract!Next]_<<Phase, AllWanted, AllInEffect>>
                       /\ faults \subseteq ApplyFaults =>
                            [RoutingContract!Next]_<<Phase, WantedRouting,
                                                     routes \cup rules>>
    OBVIOUS
  <2>1. ASSUME faults \subseteq ApplyFaults
        PROVE  RoutingMoves
    BY <2>1, RoutingRefines DEF IInv
  <2>2. ASSUME faults \subseteq RolledBack
        PROVE  EverythingMoves
    <3>1. faults \subseteq ApplyFaults
      BY <2>2 DEF RolledBack, ApplyFaults
    <3>. QED
      BY <2>2, <3>1, EverythingRefines DEF IInv
  <2>. QED
    BY <2>1, <2>2 DEF RoutingMoves, EverythingMoves
<1>. QED
  BY <1>1, <1>2, Invariance, PTL DEF Spec, AllOrNothing

=============================================================================
