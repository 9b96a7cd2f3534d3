----------------------------- MODULE WindowsNet -----------------------------
(***************************************************************************)
(* The Windows network pipeline (src/src/platform/windows): the staged      *)
(* apply_network_config, its two ways to abort, cleanup_network_config, the *)
(* recovery journal that is written after every change, and the repair the  *)
(* service makes from it when it starts.                                    *)
(*                                                                         *)
(* A change to the system is an item; a stage of the apply is a set of      *)
(* items.  A change and the journal that names it are two steps, so that a  *)
(* crash can come between them.  The caller (Engine) serialises apply and   *)
(* cleanup and owns the adapter.                                            *)
(***************************************************************************)
EXTENDS Naturals, Sequences, FiniteSets

CONSTANTS Addresses,   \* interface addresses
          Endpoints,   \* resolved peer endpoints of a full tunnel: bypass routes
          Routes,      \* allowed-IP and DNS host routes
          Plans,       \* the plans requested, each a set of items
          FaultSets    \* what may go wrong: one member holds for a behaviour

AllFaults == {"crash",      \* the process dies at any point
              "journal",    \* reading, writing or removing the journal fails
              "lookup",     \* the adapter is not found, stale addresses stay
              "address", "metric", "bypass", "route", "dns", "nrpt", "guard",
                            \* a change of that stage fails and leaves nothing
              "residue",    \* a failed DNS or NRPT change leaves something
              "nothing",    \* an endpoint has no other route, nobody another DNS server
              "deletion"}   \* undoing a change fails

Metrics == {"metric4", "metric6"}
Items == Addresses \cup Metrics \cup Endpoints \cup Routes \cup {"dns", "nrpt", "guard"}

(* An item of the adapter goes with it; the others are system-wide.         *)
OnAdapter == Addresses \cup Metrics \cup Routes \cup {"dns"}

(* A plan that guards DNS has an NRPT rule, and one that has such a rule sets *)
(* DNS servers.                                                             *)
PlansSound ==
  \A p \in Plans : p \subseteq Items /\ ("guard" \in p => "nrpt" \in p)
                     /\ ("nrpt" \in p => "dns" \in p)

VARIABLES
  faults,     \* the member of FaultSets this behaviour runs under
  pc,
  plan,       \* the plan being applied, in effect or rolled back
  done,       \* items applied or skipped
  held,       \* AppliedNetworkState, consumed by the cleanup
  memory,     \* RecoveryGuard.journal
  journal,    \* windows-recovery.json
  adapter,    \* the tunnel adapter exists
  inEffect    \* items the system is configured with

callVars == <<plan, done, held, memory>>
vars == <<faults, pc, callVars, journal, adapter, inEffect>>

NoJournal == [phase |-> "none", items |-> {}]
Journals == [phase: {"Applying", "Running", "Stopping"}, items: SUBSET Items]

ApplySteps == {"aLookup", "aBegin", "aStale", "aStages", "aRecord", "aFailed"}
CleanupSteps == {"cMark", "cUndo", "cClear"}
RepairSteps == {"down", "rUndo", "rDns", "rNrpt", "rGuard", "rClear"}
Steps == {"idle", "running"} \cup ApplySteps \cup CleanupSteps \cup RepairSteps

-----------------------------------------------------------------------------
(* The stages, in the order of apply_network_config and of the cleanup.     *)
Stages == <<Addresses, Metrics, Endpoints, Routes, {"dns"}, {"nrpt"}, {"guard"}>>
UndoStages == <<Endpoints, Routes, Addresses, Metrics, {"dns"}, {"nrpt"}, {"guard"}>>

(* The members of S in the earliest stage that has any.                     *)
Earliest(S, stages) ==
  {i \in S : \E k \in DOMAIN stages :
               i \in stages[k] /\ \A j \in 1..k-1 : S \cap stages[j] = {}}

(* A failed atomic write may still have put the new file in place.          *)
Persist(j, ok) ==
  \/ ok /\ journal' = j
  \/ ~ok /\ "journal" \in faults /\ journal' \in {journal, j}

Return == pc' = "idle" /\ plan' = {} /\ done' = {} /\ held' = {} /\ memory' = NoJournal

-----------------------------------------------------------------------------
(* apply_network_config.                                                    *)

Begin(p) ==
  /\ pc = "idle" /\ adapter
  /\ pc' = "aLookup" /\ plan' = p
  /\ UNCHANGED <<faults, done, held, memory, journal, adapter, inEffect>>

(* find_adapter_with_retry: the adapter may not be visible as long as it is   *)
(* looked for.                                                              *)
AdapterFound(found) == IF found THEN adapter ELSE "lookup" \in faults

LookupAdapter ==
  /\ pc = "aLookup"
  /\ \/ AdapterFound(TRUE) /\ pc' = "aBegin" /\ UNCHANGED callVars
     \/ AdapterFound(FALSE) /\ Return
  /\ UNCHANGED <<faults, journal, adapter, inEffect>>

(* RecoveryGuard::begin overwrites whatever journal there is.               *)
NewJournal == [phase |-> "Applying", items |-> {}]

BeginRecovery ==
  /\ pc = "aBegin"
  /\ memory' = NewJournal
  /\ \/ Persist(memory', TRUE) /\ pc' = "aStale"
     \/ Persist(memory', FALSE) /\ pc' = "aFailed"
  /\ UNCHANGED <<faults, plan, done, held, adapter, inEffect>>

(* apply_stage_failed: the call ends without a cleanup.                     *)
FailWithoutCleanup ==
  /\ pc = "aFailed"
  /\ Return
  /\ UNCHANGED <<faults, journal, adapter, inEffect>>

LeaveStale ==                              \* mutant: other addresses stay
  /\ pc = "aStale" /\ pc' = "aStages"
  /\ UNCHANGED <<faults, callVars, journal, adapter, inEffect>>
CleanupStaleAddresses ==
  /\ pc = "aStale"
  /\ \/ pc' = "aStages" /\ inEffect' = inEffect \ (Addresses \ plan)
     \/ /\ "lookup" \in faults
        /\ pc' = "aFailed"
        /\ \E kept \in SUBSET (Addresses \ plan) :
             inEffect' = inEffect \ ((Addresses \ plan) \ kept)
  /\ UNCHANGED <<faults, callVars, journal, adapter>>

Turn(i) == pc = "aStages" /\ i \in Earliest(plan \ done, Stages)

(* A change is made, passed over, or fails (apply_stage_failed_with_cleanup) *)
(* and leaves the system in one of the states given.  What the system has    *)
(* already counts as made (is_already_exists).                              *)
Made(i) ==
  /\ inEffect' = inEffect \cup {i} /\ held' = held \cup {i} /\ done' = done \cup {i}
  /\ memory' = [memory EXCEPT !.items = @ \cup {i}]
  /\ pc' = "aRecord" /\ UNCHANGED plan

PassedOver(i) ==
  /\ done' = done \cup {i}
  /\ UNCHANGED <<pc, plan, held, memory, inEffect>>

FailsOnly(outcomes) ==                     \* mutant: no cleanup
  pc' = "aFailed" /\ inEffect' \in outcomes /\ UNCHANGED callVars
Fails(outcomes) ==
  pc' = "cMark" /\ inEffect' \in outcomes /\ UNCHANGED callVars

ApplyAddress(i) ==
  /\ Turn(i) /\ i \in Addresses
  /\ Made(i) \/ ("address" \in faults /\ Fails({inEffect}))
  /\ UNCHANGED <<faults, journal, adapter>>

ApplyInterfaceMetric(i) ==
  /\ Turn(i) /\ i \in Metrics
  /\ Made(i) \/ ("metric" \in faults /\ Fails({inEffect}))
  /\ UNCHANGED <<faults, journal, adapter>>

(* An endpoint without a route outside the tunnel gets none.                *)
ApplyBypassRoute(i) ==
  /\ Turn(i) /\ i \in Endpoints
  /\ \/ Made(i)
     \/ "nothing" \in faults /\ PassedOver(i)
     \/ "bypass" \in faults /\ Fails({inEffect})
  /\ UNCHANGED <<faults, journal, adapter>>

ApplyRouteEntry(i) ==
  /\ Turn(i) /\ i \in Routes
  /\ Made(i) \/ ("route" \in faults /\ Fails({inEffect}))
  /\ UNCHANGED <<faults, journal, adapter>>

(* apply_dns sets and verifies one family after the other; when the second   *)
(* fails, the first is taken back, best effort.                             *)
AfterFailedDns ==
  {inEffect} \cup (IF "residue" \in faults THEN {inEffect \cup {"dns"}} ELSE {})
ApplyDns ==
  /\ Turn("dns")
  /\ Made("dns") \/ ("dns" \in faults /\ Fails(AfterFailedDns))
  /\ UNCHANGED <<faults, journal, adapter>>

(* The rules of the tag are removed and one is added; the command may report  *)
(* a failure, or no name, although it added the rule.                       *)
AfterFailedNrpt ==
  {inEffect \ {"nrpt"}} \cup (IF "residue" \in faults THEN {inEffect \cup {"nrpt"}} ELSE {})
ApplyNrptGuard ==
  /\ Turn("nrpt")
  /\ Made("nrpt") \/ ("nrpt" \in faults /\ Fails(AfterFailedNrpt))
  /\ UNCHANGED <<faults, journal, adapter>>

(* The filters are one transaction; a host without another DNS server needs  *)
(* none.                                                                    *)
ApplyDnsGuard ==
  /\ Turn("guard")
  /\ \/ Made("guard")
     \/ "nothing" \in faults /\ PassedOver("guard")
     \/ "guard" \in faults /\ Fails({inEffect})
  /\ UNCHANGED <<faults, journal, adapter>>

(* record_*: an error cleans up, except after an address.                   *)
LastApplied == held \ journal.items

RecordNothing ==                           \* mutant: the journal is not written
  /\ pc = "aRecord" /\ pc' = "aStages"
  /\ UNCHANGED <<faults, callVars, journal, adapter, inEffect>>
RecordOrFail ==                            \* mutant: no error cleans up
  /\ pc = "aRecord"
  /\ \/ Persist(memory, TRUE) /\ pc' = "aStages"
     \/ Persist(memory, FALSE) /\ pc' = "aFailed"
  /\ UNCHANGED <<faults, callVars, adapter, inEffect>>
Record ==
  /\ pc = "aRecord"
  /\ \/ Persist(memory, TRUE) /\ pc' = "aStages"
     \/ /\ Persist(memory, FALSE)
        /\ pc' = IF LastApplied \subseteq Addresses THEN "aFailed" ELSE "cMark"
  /\ UNCHANGED <<faults, callVars, adapter, inEffect>>

MarkRunning ==
  /\ pc = "aStages" /\ plan \subseteq done
  /\ memory' = [memory EXCEPT !.phase = "Running"]
  /\ \/ Persist(memory', TRUE) /\ pc' = "running"
     \/ Persist(memory', FALSE) /\ pc' = "cMark"
  /\ UNCHANGED <<faults, plan, done, held, adapter, inEffect>>

-----------------------------------------------------------------------------
(* cleanup_network_config.  Its caller ignores the error after a failed     *)
(* apply.                                                                   *)

Stop ==
  /\ pc = "running" /\ pc' = "cMark"
  /\ UNCHANGED <<faults, callVars, journal, adapter, inEffect>>

MarkStopping ==
  /\ pc = "cMark" /\ pc' = "cUndo"
  /\ memory' = [memory EXCEPT !.phase = "Stopping"]
  /\ \E ok \in BOOLEAN : Persist(memory', ok)
  /\ UNCHANGED <<faults, plan, done, held, adapter, inEffect>>

(* Every error of an undo is logged and forgotten.                          *)
UndoItem ==
  /\ pc = "cUndo"
  /\ \E i \in Earliest(held, UndoStages) :
       /\ held' = held \ {i}
       /\ \/ inEffect' = inEffect \ {i}
          \/ "deletion" \in faults /\ UNCHANGED inEffect
  /\ UNCHANGED <<faults, pc, plan, done, memory, journal, adapter>>

UndoDone ==
  /\ pc = "cUndo" /\ held = {} /\ pc' = "cClear"
  /\ UNCHANGED <<faults, callVars, journal, adapter, inEffect>>

ClearJournal ==
  /\ pc = "cClear"
  /\ journal' = NoJournal \/ ("journal" \in faults /\ UNCHANGED journal)
  /\ Return
  /\ UNCHANGED <<faults, adapter, inEffect>>

-----------------------------------------------------------------------------
(* A crash, and attempt_startup_repair in the next process.                 *)

(* The WFP session of the DNS guard is dynamic: it ends with the process.   *)
(* The adapter may go as well.                                              *)
Crash ==
  /\ "crash" \in faults /\ pc # "down"
  /\ pc' = "down"
  /\ plan' = {} /\ done' = {} /\ held' = {} /\ memory' = NoJournal
  /\ adapter' \in {adapter, FALSE}
  /\ inEffect' = inEffect \ ({"guard"} \cup (IF adapter' THEN {} ELSE OnAdapter))
  /\ UNCHANGED <<faults, journal>>

(* cleanup_stale_nrpt_rules removes every rule with the prefix of r-wg.     *)
StaleRulesStay == UNCHANGED inEffect                            \* mutant
SweepStaleRules ==
  \/ inEffect' = inEffect \ {"nrpt"}
  \/ "deletion" \in faults /\ UNCHANGED inEffect

LoadJournal ==
  /\ pc = "down"
  /\ SweepStaleRules
  /\ \/ pc' = IF journal = NoJournal THEN "idle" ELSE "rUndo"
     \/ "journal" \in faults /\ pc' = "down"
  /\ UNCHANGED <<faults, callVars, journal, adapter>>

(* Bypass routes, routes, addresses and metrics: errors are ignored.        *)
RepairBestEffort ==
  /\ pc = "rUndo" /\ pc' = "rDns"
  /\ \E kept \in SUBSET (journal.items \ {"dns", "nrpt", "guard"}) :
       /\ kept # {} => "deletion" \in faults
       /\ inEffect' = inEffect \ (journal.items \ (kept \cup {"dns", "nrpt", "guard"}))
  /\ UNCHANGED <<faults, callVars, journal, adapter>>

(* The other three end the start of the service when they fail.             *)
RepairOr(here, i, next) ==
  /\ pc = here
  /\ \/ i \notin journal.items /\ pc' = next /\ UNCHANGED inEffect
     \/ i \in journal.items /\ pc' = next /\ inEffect' = inEffect \ {i}
     \/ /\ i \in journal.items /\ "deletion" \in faults
        /\ pc' = "down" /\ UNCHANGED inEffect
  /\ UNCHANGED <<faults, callVars, journal, adapter>>

RepairDns == RepairOr("rDns", "dns", "rNrpt")
RepairNrpt == RepairOr("rNrpt", "nrpt", "rGuard")
RepairGuard == RepairOr("rGuard", "guard", "rClear")

RepairAgain ==                             \* mutant: repairs for ever
  /\ pc = "rClear" /\ pc' = "rUndo"
  /\ UNCHANGED <<faults, callVars, journal, adapter, inEffect>>
RepairClear ==
  /\ pc = "rClear"
  /\ \/ journal' = NoJournal /\ pc' = "idle"
     \/ "journal" \in faults /\ pc' = "down" /\ UNCHANGED journal
  /\ UNCHANGED <<faults, callVars, adapter, inEffect>>

-----------------------------------------------------------------------------
(* The adapter, which Engine creates before an apply and drops, or keeps    *)
(* for the next session, afterwards.                                        *)

AdapterUp ==
  /\ pc = "idle" /\ ~adapter /\ adapter' = TRUE
  /\ UNCHANGED <<faults, pc, callVars, journal, inEffect>>

AdapterDown ==
  /\ pc = "idle" /\ adapter /\ adapter' = FALSE
  /\ inEffect' = inEffect \ OnAdapter
  /\ UNCHANGED <<faults, pc, callVars, journal>>

Init ==
  /\ faults \in FaultSets
  /\ pc = "idle" /\ plan = {} /\ done = {} /\ held = {}
  /\ memory = NoJournal /\ journal = NoJournal
  /\ adapter = FALSE /\ inEffect = {}

Apply == \/ LookupAdapter \/ BeginRecovery \/ FailWithoutCleanup \/ CleanupStaleAddresses
         \/ \E i \in Addresses : ApplyAddress(i)
         \/ \E i \in Metrics : ApplyInterfaceMetric(i)
         \/ \E i \in Endpoints : ApplyBypassRoute(i)
         \/ \E i \in Routes : ApplyRouteEntry(i)
         \/ ApplyDns \/ ApplyNrptGuard \/ ApplyDnsGuard
         \/ Record \/ MarkRunning
Cleanup == MarkStopping \/ UndoItem \/ UndoDone \/ ClearJournal
Repair == LoadJournal \/ RepairBestEffort \/ RepairDns \/ RepairNrpt \/ RepairGuard
            \/ RepairClear

Next == \/ \E p \in Plans : Begin(p)
        \/ Apply \/ Stop \/ Cleanup \/ Repair \/ Crash \/ AdapterUp \/ AdapterDown

Spec == Init /\ [][Next]_vars
FairSpec == Spec /\ WF_vars(Apply) /\ WF_vars(Cleanup) /\ WF_vars(Repair)

-----------------------------------------------------------------------------
(* Properties.                                                              *)

(* Every variable has the type of its Rust counterpart; what is held is     *)
(* what the journal in memory names.                                        *)
TypeOK ==
  /\ PlansSound /\ faults \in FaultSets /\ faults \subseteq AllFaults /\ pc \in Steps
  /\ plan \subseteq Items /\ done \subseteq plan /\ held \subseteq memory.items
  /\ memory \in Journals \cup {NoJournal} /\ journal \in Journals \cup {NoJournal}
  /\ adapter \in BOOLEAN /\ inEffect \subseteq Items

(* A tunnel reported as applied has exactly its plan in effect, whatever an *)
(* earlier apply left on the adapter it reuses (cleanup_stale_addresses),   *)
(* and the running journal names all of it.                                 *)
RunningIsExact ==
  pc = "running" /\ faults \cap {"crash", "deletion", "residue"} = {} =>
    /\ inEffect = held
    /\ plan \ held \subseteq Endpoints \cup {"guard"}
    /\ journal = [phase |-> "Running", items |-> held]

(* recovery.rs: every change is recorded before the next is made, so a       *)
(* crash during an apply loses sight of one change at most.                 *)
JournalLagsByOne ==
  pc \in ApplySteps \cup {"running"} =>
    \A i, j \in held \ journal.items : i = j /\ pc \in {"aRecord", "aFailed"}

(* Whichever stage fails, and whichever journal cannot be written, no        *)
(* bypass route, NRPT rule or DNS filter outlives the call.                 *)
OutsideRestored ==
  pc = "idle" /\ faults \cap {"crash", "deletion", "residue"} = {} =>
    inEffect \subseteq OnAdapter

(* A service that starts serving after a crash has undone what the journal  *)
(* named, and no NRPT rule or DNS filter of r-wg is left even if the        *)
(* process died before it could name it.                                    *)
RepairSweeps ==
  pc' = "idle" /\ pc \in RepairSteps /\ "deletion" \notin faults =>
    inEffect' \cap (journal.items \cup {"nrpt", "guard"}) = {}

Phase == CASE pc = "idle" -> "off"
           [] pc \in ApplySteps -> "applying"
           [] pc = "running" -> "on"
           [] pc \in CleanupSteps -> "undoing"
           [] pc \in RepairSteps -> "down"

Contract == INSTANCE NetContract WITH
  Effects <- Items, phase <- Phase, wanted <- plan, effects <- inEffect

(* All or nothing, the contract of the Linux pipeline: with failures of any  *)
(* one change a configuration is in effect entirely or not at all.          *)
RolledBack == {"lookup", "address", "metric", "bypass", "route", "dns", "nrpt", "guard"}
AllOrNothing == faults \subseteq RolledBack => [Contract!Next]_<<Phase, plan, inEffect>>

(* An apply, a cleanup and each attempt to repair end: Calling ~> ~Calling,  *)
(* and likewise Repairing; an attempt that fails ends the service.          *)
Calling == pc \in ApplySteps \cup CleanupSteps
Repairing == pc \in RepairSteps \ {"down"}
=============================================================================
