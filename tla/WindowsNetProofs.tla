--------------------------- MODULE WindowsNetProofs ---------------------------
(***************************************************************************)
(* Proofs about the Windows network pipeline: its types, what a call and     *)
(* its journal have reached at each step, what a running tunnel, a failed    *)
(* call and a repair leave on the system, and the contract it shares with    *)
(* the Linux pipeline.                                                      *)
(*                                                                         *)
(* The inductive invariant says where a call is (what is done, held and      *)
(* named by the journal in memory), how far the file lags behind, and, for   *)
(* the faults each promise allows, what the system may hold at each step.    *)
(***************************************************************************)
EXTENDS Backend, TLAPS

(* The variables of Backend by the names WindowsNet has for them.            *)
faults == v1
pc == v2
plan == v3
done == v4
adapter == v5
memory == v6
held == v7
journal == v8
inEffect == v9

USE DEF faults, pc, plan, done, adapter, memory, held, journal, inEffect

(* The plans are ones the program can request, the faults known ones, and an *)
(* address of the interface is none of the items that may be passed over.    *)
Requested ==
  /\ WN!PlansSound /\ \A f \in FaultSets : f \subseteq WN!AllFaults
  /\ Addresses \cap (Endpoints \cup {"guard"}) = {}

-----------------------------------------------------------------------------
(* Where a call is.  Only an endpoint or the guard can be passed over, and   *)
(* nothing is done before the addresses.                                    *)
AddressesFirst == done \subseteq Addresses \/ plan \cap Addresses \subseteq done

CallProgress ==
  /\ pc \in {"idle"} \cup WN!RepairSteps => plan = {} /\ memory = WN!NoJournal
  /\ pc \in {"idle", "aLookup", "aBegin", "aStale"} \cup WN!RepairSteps =>
       done = {} /\ held = {}
  /\ pc \in {"aStale", "aStages", "aRecord", "aFailed", "running"} => memory.items = held
  /\ pc \in {"aStale", "aStages", "aRecord", "aFailed", "running", "cMark", "cUndo"} =>
       memory \in WN!Journals
  /\ pc \in {"aStages", "aRecord"} => AddressesFirst
  /\ pc = "running" => plan \subseteq done
  /\ held \subseteq done
  /\ pc \in WN!ApplySteps \cup {"running"} => done \ held \subseteq Endpoints \cup {"guard"}

(* The file names what the memory does, but for the change made last.        *)
OneLess(i) == held \ journal.items = {i} /\ (i \in Addresses => done \subseteq Addresses)

JournalFollows ==
  /\ pc \in {"aStale", "aStages"} => journal.items = held
  /\ pc = "aRecord" => \E i \in held : OneLess(i)
  /\ pc = "aFailed" => \A i, j \in held \ journal.items : i = j
  /\ pc = "running" => journal = [phase |-> "Running", items |-> held]

(* What is in effect while nothing dies, stays or cannot be undone: beyond    *)
(* what is held, addresses of an apply that ended without a cleanup.         *)
NothingStays == faults \cap {"crash", "deletion", "residue"} = {}

SystemKnown ==
  NothingStays =>
    /\ pc \notin WN!RepairSteps
    /\ pc \in {"idle", "aLookup", "aBegin", "aStale", "aFailed", "cClear"} =>
         inEffect \subseteq Addresses
    /\ pc \in {"aStages", "aRecord"} =>
         held \subseteq inEffect /\ inEffect \subseteq held \cup (plan \cap Addresses)
    /\ pc = "running" => inEffect = held
    /\ pc \in {"cMark", "cUndo"} => inEffect \subseteq held \cup Addresses

(* And while every failure is one of a change: nothing but what is held.     *)
OnlyHeld ==
  faults \subseteq WN!RolledBack =>
    /\ pc \notin WN!RepairSteps
    /\ pc \in {"idle", "aLookup", "aBegin", "aStale", "aFailed", "cClear"} => inEffect = {}
    /\ pc \in {"aStages", "aRecord", "running"} => inEffect = held /\ done = held
    /\ pc \in {"cMark", "cUndo"} => inEffect \subseteq held

(* How far a repair has come while what it removes can be removed.           *)
RepairProgress ==
  "deletion" \notin faults =>
    /\ pc \in WN!RepairSteps => "guard" \notin inEffect
    /\ pc \in WN!RepairSteps \ {"down"} => "nrpt" \notin inEffect
    /\ pc = "rDns" => inEffect \cap journal.items \subseteq {"dns"}
    /\ pc \in {"rNrpt", "rGuard", "rClear"} => inEffect \cap journal.items = {}

IInv == WN!TypeOK /\ CallProgress /\ JournalFollows /\ SystemKnown /\ OnlyHeld /\ RepairProgress
-----------------------------------------------------------------------------
(* Lemmas about records, stages and the undoing of stages.                   *)

LEMMA RecordTypes ==
  /\ WN!NewJournal \in WN!Journals /\ WN!NewJournal.items = {} /\ WN!NoJournal.items = {}
  /\ WN!NoJournal \notin WN!Journals
  /\ \A m \in WN!Journals :
       /\ m.items \subseteq WN!Items
       /\ m.phase \in {"Applying", "Running", "Stopping"}
BY DEF WN!NewJournal, WN!Journals, WN!NoJournal

LEMMA MemoryMade ==
  ASSUME NEW i \in WN!Items, memory \in WN!Journals, WN!Made(i)
  PROVE  memory' \in WN!Journals /\ memory'.items = memory.items \cup {i}
BY DEF WN!Journals, WN!Made

LEMMA MemoryMarked ==
  ASSUME NEW p \in {"Applying", "Running", "Stopping"}, memory \in WN!Journals,
         memory' = [memory EXCEPT !.phase = p]
  PROVE  /\ memory' \in WN!Journals /\ memory'.items = memory.items
         /\ memory' = [phase |-> p, items |-> memory.items]
BY DEF WN!Journals

(* The next item to apply is planned and not done, and the addresses come    *)
(* before anything else.                                                    *)
LEMMA TurnFacts ==
  ASSUME NEW i, WN!Turn(i)
  PROVE  /\ pc = "aStages" /\ i \in plan /\ i \notin done
         /\ i \notin Addresses => plan \cap Addresses \subseteq done
<1>1. PICK k \in DOMAIN WN!Stages : /\ i \in WN!Stages[k]
                                 /\ \A j \in 1..k-1 : (plan \ done) \cap WN!Stages[j] = {}
  BY DEF WN!Turn, WN!Earliest
<1>2. k \in 1..7 /\ WN!Stages[1] = Addresses
  BY DEF WN!Stages
<1>3. ASSUME i \notin Addresses PROVE plan \cap Addresses \subseteq done
  <2>1. k # 1
    BY <1>1, <1>2, <1>3
  <2>2. 1 \in 1..k-1
    BY <1>2, <2>1
  <2>. QED
    BY <1>1, <1>2, <2>2
<1>. QED
  BY <1>3 DEF WN!Turn, WN!Earliest

LEMMA UndoFacts == WN!Earliest(held, WN!UndoStages) \subseteq held
BY DEF WN!Earliest

LEMMA PlanItems ==
  ASSUME Requested, NEW p \in Plans
  PROVE  p \subseteq WN!Items
BY DEF Requested, WN!PlansSound

(* What a step of a stage does: the change is made, passed over, or it fails  *)
(* and the call turns back, whatever it leaves.                              *)
Stage == \/ \E i \in Addresses : WN!ApplyAddress(i)
         \/ \E i \in WN!Metrics : WN!ApplyInterfaceMetric(i)
         \/ \E i \in Endpoints : WN!ApplyBypassRoute(i)
         \/ \E i \in Routes : WN!ApplyRouteEntry(i)
         \/ WN!ApplyDns \/ WN!ApplyNrptGuard \/ WN!ApplyDnsGuard

LEMMA StageFacts ==
  ASSUME WN!TypeOK, CallProgress, Stage
  PROVE  /\ pc = "aStages" /\ UNCHANGED <<faults, journal, adapter>>
         /\ \E i \in plan \ done :
              /\ i \in WN!Items /\ (i \notin Addresses => plan \cap Addresses \subseteq done)
              /\ \/ WN!Made(i) /\ memory' \in WN!Journals /\ memory'.items = held' 
                 \/ WN!PassedOver(i) /\ i \in Endpoints \cup {"guard"}
                 \/ /\ pc' = "cMark" /\ UNCHANGED WN!callVars
                    /\ inEffect' \subseteq WN!Items
                    /\ NothingStays => inEffect' \subseteq inEffect
<1>1. PICK i : /\ WN!Turn(i)
               /\ \/ WN!Made(i)
                  \/ WN!PassedOver(i) /\ i \in Endpoints \cup {"guard"}
                  \/ /\ pc' = "cMark" /\ UNCHANGED WN!callVars
                     /\ inEffect' \subseteq inEffect \cup {"dns", "nrpt"}
                     /\ NothingStays => inEffect' \subseteq inEffect
               /\ UNCHANGED <<faults, journal, adapter>>
  BY DEF Stage, WN!ApplyAddress, WN!ApplyInterfaceMetric, WN!ApplyBypassRoute,
         WN!ApplyRouteEntry, WN!ApplyDns, WN!ApplyNrptGuard, WN!ApplyDnsGuard, WN!Fails,
         WN!AfterFailedDns, WN!AfterFailedNrpt, NothingStays
<1>2. /\ pc = "aStages" /\ i \in plan \ done /\ i \in WN!Items
      /\ i \notin Addresses => plan \cap Addresses \subseteq done
      /\ inEffect \cup {"dns", "nrpt"} \subseteq WN!Items
  BY <1>1, TurnFacts DEF WN!TypeOK, WN!Items
<1>3. ASSUME WN!Made(i)
      PROVE  memory' \in WN!Journals /\ memory'.items = held'
  BY <1>2, <1>3, MemoryMade DEF CallProgress, WN!ApplySteps, WN!Made
<1>. QED
  BY <1>1, <1>2, <1>3

-----------------------------------------------------------------------------
(* Each part of the invariant, step by step.                                *)

(* Types: a change adds a planned item to what is held and to the memory.      *)
LEMMA TypeStep ==
  ASSUME Requested, WN!TypeOK, CallProgress, [WN!Next]_(WN!vars)
  PROVE  WN!TypeOK'
<1>1. ASSUME NEW p \in Plans, WN!Begin(p)
      PROVE  WN!TypeOK'
  BY <1>1, RecordTypes, PlanItems
    DEF WN!Begin, WN!callVars, WN!TypeOK, CallProgress, WN!Steps, WN!ApplySteps, WN!CleanupSteps,
        WN!RepairSteps
<1>2. CASE WN!LookupAdapter
  BY <1>2, RecordTypes
    DEF WN!LookupAdapter, WN!AdapterFound, WN!Return, WN!callVars, WN!TypeOK, CallProgress,
        WN!Steps, WN!ApplySteps, WN!CleanupSteps, WN!RepairSteps
<1>3. CASE WN!BeginRecovery
  BY <1>3, RecordTypes
    DEF WN!BeginRecovery, WN!Persist, WN!NewJournal, WN!callVars, WN!TypeOK, CallProgress, WN!Steps,
        WN!ApplySteps, WN!CleanupSteps, WN!RepairSteps
<1>4. CASE WN!FailWithoutCleanup
  BY <1>4, RecordTypes
    DEF WN!FailWithoutCleanup, WN!Return, WN!callVars, WN!TypeOK, CallProgress, WN!Steps,
        WN!ApplySteps, WN!CleanupSteps, WN!RepairSteps
<1>5. CASE WN!CleanupStaleAddresses
  BY <1>5, RecordTypes
    DEF WN!CleanupStaleAddresses, WN!callVars, WN!TypeOK, CallProgress, WN!Steps, WN!ApplySteps,
        WN!CleanupSteps, WN!RepairSteps
<1>6. CASE Stage
  BY <1>6, StageFacts
    DEF WN!Made, WN!PassedOver, WN!callVars, WN!TypeOK, CallProgress, WN!Steps, WN!ApplySteps,
        WN!CleanupSteps, WN!RepairSteps
<1>7. CASE WN!Record
  BY <1>7, RecordTypes
    DEF WN!Record, WN!Persist, WN!LastApplied, WN!callVars, WN!TypeOK, CallProgress, WN!Steps,
        WN!ApplySteps, WN!CleanupSteps, WN!RepairSteps
<1>8. CASE WN!MarkRunning
  BY <1>8, RecordTypes, MemoryMarked
    DEF WN!MarkRunning, WN!Persist, WN!callVars, WN!TypeOK, CallProgress, WN!Steps, WN!ApplySteps,
        WN!CleanupSteps, WN!RepairSteps
<1>9. CASE WN!Stop
  BY <1>9
    DEF WN!Stop, WN!callVars, WN!TypeOK, CallProgress, WN!Steps, WN!ApplySteps, WN!CleanupSteps,
        WN!RepairSteps
<1>10. CASE WN!MarkStopping
  BY <1>10, MemoryMarked
    DEF WN!MarkStopping, WN!Persist, WN!callVars, WN!TypeOK, CallProgress, WN!Steps, WN!ApplySteps,
        WN!CleanupSteps, WN!RepairSteps
<1>11. CASE WN!UndoItem
  BY <1>11, UndoFacts
    DEF WN!UndoItem, WN!callVars, WN!TypeOK, CallProgress, WN!Steps, WN!ApplySteps, WN!CleanupSteps,
        WN!RepairSteps
<1>12. CASE WN!UndoDone
  BY <1>12
    DEF WN!UndoDone, WN!callVars, WN!TypeOK, CallProgress, WN!Steps, WN!ApplySteps, WN!CleanupSteps,
        WN!RepairSteps
<1>13. CASE WN!ClearJournal
  BY <1>13, RecordTypes
    DEF WN!ClearJournal, WN!Return, WN!callVars, WN!TypeOK, CallProgress, WN!Steps, WN!ApplySteps,
        WN!CleanupSteps, WN!RepairSteps
<1>14. CASE WN!LoadJournal
  BY <1>14, RecordTypes
    DEF WN!LoadJournal, WN!SweepStaleRules, WN!callVars, WN!TypeOK, CallProgress, WN!Steps,
        WN!ApplySteps, WN!CleanupSteps, WN!RepairSteps
<1>15. CASE WN!RepairBestEffort
  BY <1>15
    DEF WN!RepairBestEffort, WN!callVars, WN!TypeOK, CallProgress, WN!Steps, WN!ApplySteps,
        WN!CleanupSteps, WN!RepairSteps
<1>16. CASE WN!RepairDns
  BY <1>16
    DEF WN!RepairDns, WN!RepairOr, WN!callVars, WN!TypeOK, CallProgress, WN!Steps, WN!ApplySteps,
        WN!CleanupSteps, WN!RepairSteps
<1>17. CASE WN!RepairNrpt
  BY <1>17
    DEF WN!RepairNrpt, WN!RepairOr, WN!callVars, WN!TypeOK, CallProgress, WN!Steps, WN!ApplySteps,
        WN!CleanupSteps, WN!RepairSteps
<1>18. CASE WN!RepairGuard
  BY <1>18
    DEF WN!RepairGuard, WN!RepairOr, WN!callVars, WN!TypeOK, CallProgress, WN!Steps, WN!ApplySteps,
        WN!CleanupSteps, WN!RepairSteps
<1>19. CASE WN!RepairClear
  BY <1>19, RecordTypes
    DEF WN!RepairClear, WN!callVars, WN!TypeOK, CallProgress, WN!Steps, WN!ApplySteps,
        WN!CleanupSteps, WN!RepairSteps
<1>20. CASE WN!Crash
  BY <1>20, RecordTypes
    DEF WN!Crash, WN!OnAdapter, WN!callVars, WN!TypeOK, CallProgress, WN!Steps, WN!ApplySteps,
        WN!CleanupSteps, WN!RepairSteps
<1>21. CASE WN!AdapterUp
  BY <1>21
    DEF WN!AdapterUp, WN!callVars, WN!TypeOK, CallProgress, WN!Steps, WN!ApplySteps,
        WN!CleanupSteps, WN!RepairSteps
<1>22. CASE WN!AdapterDown
  BY <1>22
    DEF WN!AdapterDown, WN!OnAdapter, WN!callVars, WN!TypeOK, CallProgress, WN!Steps, WN!ApplySteps,
        WN!CleanupSteps, WN!RepairSteps
<1>23. CASE UNCHANGED WN!vars
  BY <1>23
    DEF WN!vars, WN!callVars, WN!TypeOK, CallProgress, WN!Steps, WN!ApplySteps, WN!CleanupSteps,
        WN!RepairSteps
<1>. QED
  BY <1>1, <1>2, <1>3, <1>4, <1>5, <1>6, <1>7, <1>8, <1>9, <1>10, <1>11, <1>12, <1>13,
      <1>14, <1>15, <1>16, <1>17, <1>18, <1>19, <1>20, <1>21, <1>22, <1>23
    DEF WN!Next, WN!Apply, WN!Cleanup, WN!Repair, Stage

(* Where a call is.                                                         *)
LEMMA CallStep ==
  ASSUME WN!TypeOK, CallProgress, [WN!Next]_(WN!vars)
  PROVE  CallProgress'
<1>1. ASSUME NEW p \in Plans, WN!Begin(p)
      PROVE  CallProgress'
  BY <1>1, RecordTypes, PlanItems
    DEF WN!Begin, WN!callVars, WN!TypeOK, CallProgress, AddressesFirst, WN!Steps, WN!ApplySteps,
        WN!CleanupSteps, WN!RepairSteps
<1>2. CASE WN!LookupAdapter
  BY <1>2, RecordTypes
    DEF WN!LookupAdapter, WN!AdapterFound, WN!Return, WN!callVars, WN!TypeOK, CallProgress,
        AddressesFirst, WN!Steps, WN!ApplySteps, WN!CleanupSteps, WN!RepairSteps
<1>3. CASE WN!BeginRecovery
  BY <1>3, RecordTypes
    DEF WN!BeginRecovery, WN!Persist, WN!NewJournal, WN!callVars, WN!TypeOK, CallProgress,
        AddressesFirst, WN!Steps, WN!ApplySteps, WN!CleanupSteps, WN!RepairSteps
<1>4. CASE WN!FailWithoutCleanup
  BY <1>4, RecordTypes
    DEF WN!FailWithoutCleanup, WN!Return, WN!callVars, WN!TypeOK, CallProgress, AddressesFirst,
        WN!Steps, WN!ApplySteps, WN!CleanupSteps, WN!RepairSteps
<1>5. CASE WN!CleanupStaleAddresses
  BY <1>5, RecordTypes
    DEF WN!CleanupStaleAddresses, WN!callVars, WN!TypeOK, CallProgress, AddressesFirst, WN!Steps,
        WN!ApplySteps, WN!CleanupSteps, WN!RepairSteps
<1>6. CASE Stage
  BY <1>6, StageFacts
    DEF WN!Made, WN!PassedOver, WN!callVars, WN!TypeOK, CallProgress, AddressesFirst, WN!Steps,
        WN!ApplySteps, WN!CleanupSteps, WN!RepairSteps
<1>7. CASE WN!Record
  BY <1>7, RecordTypes
    DEF WN!Record, WN!Persist, WN!LastApplied, WN!callVars, WN!TypeOK, CallProgress,
        AddressesFirst, WN!Steps, WN!ApplySteps, WN!CleanupSteps, WN!RepairSteps
<1>8. CASE WN!MarkRunning
  BY <1>8, RecordTypes, MemoryMarked
    DEF WN!MarkRunning, WN!Persist, WN!callVars, WN!TypeOK, CallProgress, AddressesFirst, WN!Steps,
        WN!ApplySteps, WN!CleanupSteps, WN!RepairSteps
<1>9. CASE WN!Stop
  BY <1>9
    DEF WN!Stop, WN!callVars, WN!TypeOK, CallProgress, AddressesFirst, WN!Steps, WN!ApplySteps,
        WN!CleanupSteps, WN!RepairSteps
<1>10. CASE WN!MarkStopping
  BY <1>10, MemoryMarked
    DEF WN!MarkStopping, WN!Persist, WN!callVars, WN!TypeOK, CallProgress, AddressesFirst, WN!Steps,
        WN!ApplySteps, WN!CleanupSteps, WN!RepairSteps
<1>11. CASE WN!UndoItem
  BY <1>11, UndoFacts
    DEF WN!UndoItem, WN!callVars, WN!TypeOK, CallProgress, AddressesFirst, WN!Steps, WN!ApplySteps,
        WN!CleanupSteps, WN!RepairSteps
<1>12. CASE WN!UndoDone
  BY <1>12
    DEF WN!UndoDone, WN!callVars, WN!TypeOK, CallProgress, AddressesFirst, WN!Steps, WN!ApplySteps,
        WN!CleanupSteps, WN!RepairSteps
<1>13. CASE WN!ClearJournal
  BY <1>13, RecordTypes
    DEF WN!ClearJournal, WN!Return, WN!callVars, WN!TypeOK, CallProgress, AddressesFirst, WN!Steps,
        WN!ApplySteps, WN!CleanupSteps, WN!RepairSteps
<1>14. CASE WN!LoadJournal
  BY <1>14, RecordTypes
    DEF WN!LoadJournal, WN!SweepStaleRules, WN!callVars, WN!TypeOK, CallProgress, AddressesFirst,
        WN!Steps, WN!ApplySteps, WN!CleanupSteps, WN!RepairSteps
<1>15. CASE WN!RepairBestEffort
  BY <1>15
    DEF WN!RepairBestEffort, WN!callVars, WN!TypeOK, CallProgress, AddressesFirst, WN!Steps,
        WN!ApplySteps, WN!CleanupSteps, WN!RepairSteps
<1>16. CASE WN!RepairDns
  BY <1>16
    DEF WN!RepairDns, WN!RepairOr, WN!callVars, WN!TypeOK, CallProgress, AddressesFirst, WN!Steps,
        WN!ApplySteps, WN!CleanupSteps, WN!RepairSteps
<1>17. CASE WN!RepairNrpt
  BY <1>17
    DEF WN!RepairNrpt, WN!RepairOr, WN!callVars, WN!TypeOK, CallProgress, AddressesFirst, WN!Steps,
        WN!ApplySteps, WN!CleanupSteps, WN!RepairSteps
<1>18. CASE WN!RepairGuard
  BY <1>18
    DEF WN!RepairGuard, WN!RepairOr, WN!callVars, WN!TypeOK, CallProgress, AddressesFirst, WN!Steps,
        WN!ApplySteps, WN!CleanupSteps, WN!RepairSteps
<1>19. CASE WN!RepairClear
  BY <1>19, RecordTypes
    DEF WN!RepairClear, WN!callVars, WN!TypeOK, CallProgress, AddressesFirst, WN!Steps,
        WN!ApplySteps, WN!CleanupSteps, WN!RepairSteps
<1>20. CASE WN!Crash
  BY <1>20, RecordTypes
    DEF WN!Crash, WN!OnAdapter, WN!callVars, WN!TypeOK, CallProgress, AddressesFirst, WN!Steps,
        WN!ApplySteps, WN!CleanupSteps, WN!RepairSteps
<1>21. CASE WN!AdapterUp
  BY <1>21
    DEF WN!AdapterUp, WN!callVars, WN!TypeOK, CallProgress, AddressesFirst, WN!Steps, WN!ApplySteps,
        WN!CleanupSteps, WN!RepairSteps
<1>22. CASE WN!AdapterDown
  BY <1>22
    DEF WN!AdapterDown, WN!OnAdapter, WN!callVars, WN!TypeOK, CallProgress, AddressesFirst,
        WN!Steps, WN!ApplySteps, WN!CleanupSteps, WN!RepairSteps
<1>23. CASE UNCHANGED WN!vars
  BY <1>23
    DEF WN!vars, WN!callVars, WN!TypeOK, CallProgress, AddressesFirst, WN!Steps, WN!ApplySteps,
        WN!CleanupSteps, WN!RepairSteps
<1>. QED
  BY <1>1, <1>2, <1>3, <1>4, <1>5, <1>6, <1>7, <1>8, <1>9, <1>10, <1>11, <1>12, <1>13,
      <1>14, <1>15, <1>16, <1>17, <1>18, <1>19, <1>20, <1>21, <1>22, <1>23
    DEF WN!Next, WN!Apply, WN!Cleanup, WN!Repair, Stage

(* The file follows the memory, one change behind.                           *)
LEMMA JournalStep ==
  ASSUME WN!TypeOK, CallProgress, JournalFollows, [WN!Next]_(WN!vars)
  PROVE  JournalFollows'
<1>1. ASSUME NEW p \in Plans, WN!Begin(p)
      PROVE  JournalFollows'
  BY <1>1, RecordTypes, PlanItems
    DEF WN!Begin, WN!callVars, WN!TypeOK, CallProgress, AddressesFirst, JournalFollows, OneLess,
        WN!Steps, WN!ApplySteps, WN!CleanupSteps, WN!RepairSteps
<1>2. CASE WN!LookupAdapter
  BY <1>2, RecordTypes
    DEF WN!LookupAdapter, WN!AdapterFound, WN!Return, WN!callVars, WN!TypeOK, CallProgress,
        AddressesFirst, JournalFollows, OneLess, WN!Steps, WN!ApplySteps, WN!CleanupSteps,
        WN!RepairSteps
<1>3. CASE WN!BeginRecovery
  BY <1>3, RecordTypes
    DEF WN!BeginRecovery, WN!Persist, WN!NewJournal, WN!callVars, WN!TypeOK, CallProgress,
        AddressesFirst, JournalFollows, OneLess, WN!Steps, WN!ApplySteps, WN!CleanupSteps,
        WN!RepairSteps
<1>4. CASE WN!FailWithoutCleanup
  BY <1>4, RecordTypes
    DEF WN!FailWithoutCleanup, WN!Return, WN!callVars, WN!TypeOK, CallProgress, AddressesFirst,
        JournalFollows, OneLess, WN!Steps, WN!ApplySteps, WN!CleanupSteps, WN!RepairSteps
<1>5. CASE WN!CleanupStaleAddresses
  BY <1>5, RecordTypes
    DEF WN!CleanupStaleAddresses, WN!callVars, WN!TypeOK, CallProgress, AddressesFirst,
        JournalFollows, OneLess, WN!Steps, WN!ApplySteps, WN!CleanupSteps, WN!RepairSteps
<1>6. CASE Stage
  BY <1>6, StageFacts
    DEF WN!Made, WN!PassedOver, WN!callVars, WN!TypeOK, CallProgress, AddressesFirst,
        JournalFollows, OneLess, WN!Steps, WN!ApplySteps, WN!CleanupSteps, WN!RepairSteps
<1>7. CASE WN!Record
  BY <1>7, RecordTypes
    DEF WN!Record, WN!Persist, WN!LastApplied, WN!callVars, WN!TypeOK, CallProgress, AddressesFirst,
        JournalFollows, OneLess, WN!Steps, WN!ApplySteps, WN!CleanupSteps, WN!RepairSteps
<1>8. CASE WN!MarkRunning
  BY <1>8, RecordTypes, MemoryMarked
    DEF WN!MarkRunning, WN!Persist, WN!callVars, WN!TypeOK, CallProgress, AddressesFirst,
        JournalFollows, OneLess, WN!Steps, WN!ApplySteps, WN!CleanupSteps, WN!RepairSteps
<1>9. CASE WN!Stop
  BY <1>9
    DEF WN!Stop, WN!callVars, WN!TypeOK, CallProgress, AddressesFirst, JournalFollows, OneLess,
        WN!Steps, WN!ApplySteps, WN!CleanupSteps, WN!RepairSteps
<1>10. CASE WN!MarkStopping
  BY <1>10, MemoryMarked
    DEF WN!MarkStopping, WN!Persist, WN!callVars, WN!TypeOK, CallProgress, AddressesFirst,
        JournalFollows, OneLess, WN!Steps, WN!ApplySteps, WN!CleanupSteps, WN!RepairSteps
<1>11. CASE WN!UndoItem
  BY <1>11, UndoFacts
    DEF WN!UndoItem, WN!callVars, WN!TypeOK, CallProgress, AddressesFirst, JournalFollows, OneLess,
        WN!Steps, WN!ApplySteps, WN!CleanupSteps, WN!RepairSteps
<1>12. CASE WN!UndoDone
  BY <1>12
    DEF WN!UndoDone, WN!callVars, WN!TypeOK, CallProgress, AddressesFirst, JournalFollows, OneLess,
        WN!Steps, WN!ApplySteps, WN!CleanupSteps, WN!RepairSteps
<1>13. CASE WN!ClearJournal
  BY <1>13, RecordTypes
    DEF WN!ClearJournal, WN!Return, WN!callVars, WN!TypeOK, CallProgress, AddressesFirst,
        JournalFollows, OneLess, WN!Steps, WN!ApplySteps, WN!CleanupSteps, WN!RepairSteps
<1>14. CASE WN!LoadJournal
  BY <1>14, RecordTypes
    DEF WN!LoadJournal, WN!SweepStaleRules, WN!callVars, WN!TypeOK, CallProgress, AddressesFirst,
        JournalFollows, OneLess, WN!Steps, WN!ApplySteps, WN!CleanupSteps, WN!RepairSteps
<1>15. CASE WN!RepairBestEffort
  BY <1>15
    DEF WN!RepairBestEffort, WN!callVars, WN!TypeOK, CallProgress, AddressesFirst, JournalFollows,
        OneLess, WN!Steps, WN!ApplySteps, WN!CleanupSteps, WN!RepairSteps
<1>16. CASE WN!RepairDns
  BY <1>16
    DEF WN!RepairDns, WN!RepairOr, WN!callVars, WN!TypeOK, CallProgress, AddressesFirst,
        JournalFollows, OneLess, WN!Steps, WN!ApplySteps, WN!CleanupSteps, WN!RepairSteps
<1>17. CASE WN!RepairNrpt
  BY <1>17
    DEF WN!RepairNrpt, WN!RepairOr, WN!callVars, WN!TypeOK, CallProgress, AddressesFirst,
        JournalFollows, OneLess, WN!Steps, WN!ApplySteps, WN!CleanupSteps, WN!RepairSteps
<1>18. CASE WN!RepairGuard
  BY <1>18
    DEF WN!RepairGuard, WN!RepairOr, WN!callVars, WN!TypeOK, CallProgress, AddressesFirst,
        JournalFollows, OneLess, WN!Steps, WN!ApplySteps, WN!CleanupSteps, WN!RepairSteps
<1>19. CASE WN!RepairClear
  BY <1>19, RecordTypes
    DEF WN!RepairClear, WN!callVars, WN!TypeOK, CallProgress, AddressesFirst, JournalFollows,
        OneLess, WN!Steps, WN!ApplySteps, WN!CleanupSteps, WN!RepairSteps
<1>20. CASE WN!Crash
  BY <1>20, RecordTypes
    DEF WN!Crash, WN!OnAdapter, WN!callVars, WN!TypeOK, CallProgress, AddressesFirst,
        JournalFollows, OneLess, WN!Steps, WN!ApplySteps, WN!CleanupSteps, WN!RepairSteps
<1>21. CASE WN!AdapterUp
  BY <1>21
    DEF WN!AdapterUp, WN!callVars, WN!TypeOK, CallProgress, AddressesFirst, JournalFollows, OneLess,
        WN!Steps, WN!ApplySteps, WN!CleanupSteps, WN!RepairSteps
<1>22. CASE WN!AdapterDown
  BY <1>22
    DEF WN!AdapterDown, WN!OnAdapter, WN!callVars, WN!TypeOK, CallProgress, AddressesFirst,
        JournalFollows, OneLess, WN!Steps, WN!ApplySteps, WN!CleanupSteps, WN!RepairSteps
<1>23. CASE UNCHANGED WN!vars
  BY <1>23
    DEF WN!vars, WN!callVars, WN!TypeOK, CallProgress, AddressesFirst, JournalFollows, OneLess,
        WN!Steps, WN!ApplySteps, WN!CleanupSteps, WN!RepairSteps
<1>. QED
  BY <1>1, <1>2, <1>3, <1>4, <1>5, <1>6, <1>7, <1>8, <1>9, <1>10, <1>11, <1>12, <1>13,
      <1>14, <1>15, <1>16, <1>17, <1>18, <1>19, <1>20, <1>21, <1>22, <1>23
    DEF WN!Next, WN!Apply, WN!Cleanup, WN!Repair, Stage

(* What is in effect at each step of a call.                                *)
LEMMA SystemStep ==
  ASSUME Requested, WN!TypeOK, CallProgress, JournalFollows, SystemKnown, [WN!Next]_(WN!vars)
  PROVE  SystemKnown'
<1>1. ASSUME NEW p \in Plans, WN!Begin(p)
      PROVE  SystemKnown'
  BY <1>1, RecordTypes, PlanItems
    DEF WN!Begin, WN!callVars, WN!TypeOK, CallProgress, AddressesFirst, JournalFollows, OneLess,
        SystemKnown, NothingStays, Requested, WN!Steps, WN!ApplySteps, WN!CleanupSteps,
        WN!RepairSteps
<1>2. CASE WN!LookupAdapter
  BY <1>2, RecordTypes
    DEF WN!LookupAdapter, WN!AdapterFound, WN!Return, WN!callVars, WN!TypeOK, CallProgress,
        AddressesFirst, JournalFollows, OneLess, SystemKnown, NothingStays, Requested, WN!Steps,
        WN!ApplySteps, WN!CleanupSteps, WN!RepairSteps
<1>3. CASE WN!BeginRecovery
  BY <1>3, RecordTypes
    DEF WN!BeginRecovery, WN!Persist, WN!NewJournal, WN!callVars, WN!TypeOK, CallProgress,
        AddressesFirst, JournalFollows, OneLess, SystemKnown, NothingStays, Requested, WN!Steps,
        WN!ApplySteps, WN!CleanupSteps, WN!RepairSteps
<1>4. CASE WN!FailWithoutCleanup
  BY <1>4, RecordTypes
    DEF WN!FailWithoutCleanup, WN!Return, WN!callVars, WN!TypeOK, CallProgress, AddressesFirst,
        JournalFollows, OneLess, SystemKnown, NothingStays, Requested, WN!Steps, WN!ApplySteps,
        WN!CleanupSteps, WN!RepairSteps
<1>5. CASE WN!CleanupStaleAddresses
  BY <1>5, RecordTypes
    DEF WN!CleanupStaleAddresses, WN!callVars, WN!TypeOK, CallProgress, AddressesFirst,
        JournalFollows, OneLess, SystemKnown, NothingStays, Requested, WN!Steps, WN!ApplySteps,
        WN!CleanupSteps, WN!RepairSteps
<1>6. CASE Stage
  BY <1>6, StageFacts
    DEF WN!Made, WN!PassedOver, WN!callVars, WN!TypeOK, CallProgress, AddressesFirst,
        JournalFollows, OneLess, SystemKnown, NothingStays, Requested, WN!Steps, WN!ApplySteps,
        WN!CleanupSteps, WN!RepairSteps
<1>7. CASE WN!Record
  BY <1>7, RecordTypes
    DEF WN!Record, WN!Persist, WN!LastApplied, WN!callVars, WN!TypeOK, CallProgress, AddressesFirst,
        JournalFollows, OneLess, SystemKnown, NothingStays, Requested, WN!Steps, WN!ApplySteps,
        WN!CleanupSteps, WN!RepairSteps
<1>8. CASE WN!MarkRunning
  <2>1. /\ pc = "aStages" /\ plan \subseteq done /\ pc' \in {"running", "cMark"}
        /\ UNCHANGED <<faults, plan, done, held, inEffect>>
    BY <1>8 DEF WN!MarkRunning, WN!Persist
  <2>2. done \ held \subseteq Endpoints \cup {"guard"} /\ pc \notin WN!RepairSteps
    BY <2>1 DEF CallProgress, WN!ApplySteps, WN!RepairSteps
  <2>3. NothingStays => (held \subseteq inEffect /\ inEffect \subseteq held \cup (plan \cap Addresses))
    BY <2>1 DEF SystemKnown
  <2>4. plan \cap Addresses \subseteq held
    BY <2>1, <2>2 DEF Requested
  <2>. QED
    BY <2>1, <2>3, <2>4 DEF SystemKnown, NothingStays, WN!RepairSteps
<1>9. CASE WN!Stop
  BY <1>9
    DEF WN!Stop, WN!callVars, WN!TypeOK, CallProgress, AddressesFirst, JournalFollows, OneLess,
        SystemKnown, NothingStays, Requested, WN!Steps, WN!ApplySteps, WN!CleanupSteps,
        WN!RepairSteps
<1>10. CASE WN!MarkStopping
  BY <1>10, MemoryMarked
    DEF WN!MarkStopping, WN!Persist, WN!callVars, WN!TypeOK, CallProgress, AddressesFirst,
        JournalFollows, OneLess, SystemKnown, NothingStays, Requested, WN!Steps, WN!ApplySteps,
        WN!CleanupSteps, WN!RepairSteps
<1>11. CASE WN!UndoItem
  BY <1>11, UndoFacts
    DEF WN!UndoItem, WN!callVars, WN!TypeOK, CallProgress, AddressesFirst, JournalFollows,
        OneLess, SystemKnown, NothingStays, Requested, WN!Steps, WN!ApplySteps, WN!CleanupSteps,
        WN!RepairSteps
<1>12. CASE WN!UndoDone
  BY <1>12
    DEF WN!UndoDone, WN!callVars, WN!TypeOK, CallProgress, AddressesFirst, JournalFollows,
        OneLess, SystemKnown, NothingStays, Requested, WN!Steps, WN!ApplySteps, WN!CleanupSteps,
        WN!RepairSteps
<1>13. CASE WN!ClearJournal
  BY <1>13, RecordTypes
    DEF WN!ClearJournal, WN!Return, WN!callVars, WN!TypeOK, CallProgress, AddressesFirst,
        JournalFollows, OneLess, SystemKnown, NothingStays, Requested, WN!Steps, WN!ApplySteps,
        WN!CleanupSteps, WN!RepairSteps
<1>14. CASE WN!LoadJournal
  BY <1>14, RecordTypes
    DEF WN!LoadJournal, WN!SweepStaleRules, WN!callVars, WN!TypeOK, CallProgress, AddressesFirst,
        JournalFollows, OneLess, SystemKnown, NothingStays, Requested, WN!Steps, WN!ApplySteps,
        WN!CleanupSteps, WN!RepairSteps
<1>15. CASE WN!RepairBestEffort
  BY <1>15
    DEF WN!RepairBestEffort, WN!callVars, WN!TypeOK, CallProgress, AddressesFirst, JournalFollows,
        OneLess, SystemKnown, NothingStays, Requested, WN!Steps, WN!ApplySteps, WN!CleanupSteps,
        WN!RepairSteps
<1>16. CASE WN!RepairDns
  BY <1>16
    DEF WN!RepairDns, WN!RepairOr, WN!callVars, WN!TypeOK, CallProgress, AddressesFirst,
        JournalFollows, OneLess, SystemKnown, NothingStays, Requested, WN!Steps, WN!ApplySteps,
        WN!CleanupSteps, WN!RepairSteps
<1>17. CASE WN!RepairNrpt
  BY <1>17
    DEF WN!RepairNrpt, WN!RepairOr, WN!callVars, WN!TypeOK, CallProgress, AddressesFirst,
        JournalFollows, OneLess, SystemKnown, NothingStays, Requested, WN!Steps, WN!ApplySteps,
        WN!CleanupSteps, WN!RepairSteps
<1>18. CASE WN!RepairGuard
  BY <1>18
    DEF WN!RepairGuard, WN!RepairOr, WN!callVars, WN!TypeOK, CallProgress, AddressesFirst,
        JournalFollows, OneLess, SystemKnown, NothingStays, Requested, WN!Steps, WN!ApplySteps,
        WN!CleanupSteps, WN!RepairSteps
<1>19. CASE WN!RepairClear
  BY <1>19, RecordTypes
    DEF WN!RepairClear, WN!callVars, WN!TypeOK, CallProgress, AddressesFirst, JournalFollows,
        OneLess, SystemKnown, NothingStays, Requested, WN!Steps, WN!ApplySteps, WN!CleanupSteps,
        WN!RepairSteps
<1>20. CASE WN!Crash
  BY <1>20, RecordTypes
    DEF WN!Crash, WN!OnAdapter, WN!callVars, WN!TypeOK, CallProgress, AddressesFirst,
        JournalFollows, OneLess, SystemKnown, NothingStays, Requested, WN!Steps, WN!ApplySteps,
        WN!CleanupSteps, WN!RepairSteps
<1>21. CASE WN!AdapterUp
  BY <1>21
    DEF WN!AdapterUp, WN!callVars, WN!TypeOK, CallProgress, AddressesFirst, JournalFollows,
        OneLess, SystemKnown, NothingStays, Requested, WN!Steps, WN!ApplySteps, WN!CleanupSteps,
        WN!RepairSteps
<1>22. CASE WN!AdapterDown
  BY <1>22
    DEF WN!AdapterDown, WN!OnAdapter, WN!callVars, WN!TypeOK, CallProgress, AddressesFirst,
        JournalFollows, OneLess, SystemKnown, NothingStays, Requested, WN!Steps, WN!ApplySteps,
        WN!CleanupSteps, WN!RepairSteps
<1>23. CASE UNCHANGED WN!vars
  BY <1>23
    DEF WN!vars, WN!callVars, WN!TypeOK, CallProgress, AddressesFirst, JournalFollows, OneLess,
        SystemKnown, NothingStays, Requested, WN!Steps, WN!ApplySteps, WN!CleanupSteps,
        WN!RepairSteps
<1>. QED
  BY <1>1, <1>2, <1>3, <1>4, <1>5, <1>6, <1>7, <1>8, <1>9, <1>10, <1>11, <1>12, <1>13,
      <1>14, <1>15, <1>16, <1>17, <1>18, <1>19, <1>20, <1>21, <1>22, <1>23
    DEF WN!Next, WN!Apply, WN!Cleanup, WN!Repair, Stage

(* With failures of changes only, nothing but what is held.                 *)
LEMMA HeldStep ==
  ASSUME WN!TypeOK, CallProgress, OnlyHeld, [WN!Next]_(WN!vars)
  PROVE  OnlyHeld'
<1>1. ASSUME NEW p \in Plans, WN!Begin(p)
      PROVE  OnlyHeld'
  BY <1>1, RecordTypes, PlanItems
    DEF WN!Begin, WN!callVars, WN!TypeOK, CallProgress, OnlyHeld, WN!RolledBack, WN!Steps,
        WN!ApplySteps, WN!CleanupSteps, WN!RepairSteps
<1>2. CASE WN!LookupAdapter
  BY <1>2, RecordTypes
    DEF WN!LookupAdapter, WN!AdapterFound, WN!Return, WN!callVars, WN!TypeOK, CallProgress,
        OnlyHeld, WN!RolledBack, WN!Steps, WN!ApplySteps, WN!CleanupSteps, WN!RepairSteps
<1>3. CASE WN!BeginRecovery
  BY <1>3, RecordTypes
    DEF WN!BeginRecovery, WN!Persist, WN!NewJournal, WN!callVars, WN!TypeOK, CallProgress, OnlyHeld,
        WN!RolledBack, WN!Steps, WN!ApplySteps, WN!CleanupSteps, WN!RepairSteps
<1>4. CASE WN!FailWithoutCleanup
  BY <1>4, RecordTypes
    DEF WN!FailWithoutCleanup, WN!Return, WN!callVars, WN!TypeOK, CallProgress, OnlyHeld,
        WN!RolledBack, WN!Steps, WN!ApplySteps, WN!CleanupSteps, WN!RepairSteps
<1>5. CASE WN!CleanupStaleAddresses
  BY <1>5, RecordTypes
    DEF WN!CleanupStaleAddresses, WN!callVars, WN!TypeOK, CallProgress, OnlyHeld, WN!RolledBack,
        WN!Steps, WN!ApplySteps, WN!CleanupSteps, WN!RepairSteps
<1>6. ASSUME NEW i \in Addresses, WN!ApplyAddress(i)
      PROVE  OnlyHeld'
  BY <1>6, TurnFacts
    DEF WN!ApplyAddress, WN!Made, WN!Fails, WN!callVars, WN!TypeOK, CallProgress, OnlyHeld,
        WN!RolledBack, WN!Steps, WN!ApplySteps, WN!CleanupSteps, WN!RepairSteps
<1>7. ASSUME NEW i \in WN!Metrics, WN!ApplyInterfaceMetric(i)
      PROVE  OnlyHeld'
  BY <1>7, TurnFacts
    DEF WN!ApplyInterfaceMetric, WN!Made, WN!Fails, WN!callVars, WN!TypeOK, CallProgress, OnlyHeld,
        WN!RolledBack, WN!Steps, WN!ApplySteps, WN!CleanupSteps, WN!RepairSteps
<1>8. ASSUME NEW i \in Endpoints, WN!ApplyBypassRoute(i)
      PROVE  OnlyHeld'
  BY <1>8, TurnFacts
    DEF WN!ApplyBypassRoute, WN!Made, WN!PassedOver, WN!Fails, WN!callVars, WN!TypeOK,
        CallProgress, OnlyHeld, WN!RolledBack, WN!Steps, WN!ApplySteps, WN!CleanupSteps,
        WN!RepairSteps
<1>9. ASSUME NEW i \in Routes, WN!ApplyRouteEntry(i)
      PROVE  OnlyHeld'
  BY <1>9, TurnFacts
    DEF WN!ApplyRouteEntry, WN!Made, WN!Fails, WN!callVars, WN!TypeOK, CallProgress, OnlyHeld,
        WN!RolledBack, WN!Steps, WN!ApplySteps, WN!CleanupSteps, WN!RepairSteps
<1>10. CASE WN!ApplyDns
  BY <1>10, TurnFacts
    DEF WN!ApplyDns, WN!Made, WN!Fails, WN!AfterFailedDns, WN!callVars, WN!TypeOK, CallProgress,
        OnlyHeld, WN!RolledBack, WN!Steps, WN!ApplySteps, WN!CleanupSteps, WN!RepairSteps
<1>11. CASE WN!ApplyNrptGuard
  BY <1>11, TurnFacts
    DEF WN!ApplyNrptGuard, WN!Made, WN!Fails, WN!AfterFailedNrpt, WN!callVars, WN!TypeOK,
        CallProgress, OnlyHeld, WN!RolledBack, WN!Steps, WN!ApplySteps, WN!CleanupSteps,
        WN!RepairSteps
<1>12. CASE WN!ApplyDnsGuard
  BY <1>12, TurnFacts
    DEF WN!ApplyDnsGuard, WN!Made, WN!PassedOver, WN!Fails, WN!callVars, WN!TypeOK, CallProgress,
        OnlyHeld, WN!RolledBack, WN!Steps, WN!ApplySteps, WN!CleanupSteps, WN!RepairSteps
<1>13. CASE WN!Record
  BY <1>13, RecordTypes
    DEF WN!Record, WN!Persist, WN!LastApplied, WN!callVars, WN!TypeOK, CallProgress, OnlyHeld,
        WN!RolledBack, WN!Steps, WN!ApplySteps, WN!CleanupSteps, WN!RepairSteps
<1>14. CASE WN!MarkRunning
  BY <1>14, RecordTypes, MemoryMarked
    DEF WN!MarkRunning, WN!Persist, WN!callVars, WN!TypeOK, CallProgress, OnlyHeld,
        WN!RolledBack, WN!Steps, WN!ApplySteps, WN!CleanupSteps, WN!RepairSteps
<1>15. CASE WN!Stop
  BY <1>15
    DEF WN!Stop, WN!callVars, WN!TypeOK, CallProgress, OnlyHeld, WN!RolledBack, WN!Steps,
        WN!ApplySteps, WN!CleanupSteps, WN!RepairSteps
<1>16. CASE WN!MarkStopping
  BY <1>16, MemoryMarked
    DEF WN!MarkStopping, WN!Persist, WN!callVars, WN!TypeOK, CallProgress, OnlyHeld,
        WN!RolledBack, WN!Steps, WN!ApplySteps, WN!CleanupSteps, WN!RepairSteps
<1>17. CASE WN!UndoItem
  BY <1>17, UndoFacts
    DEF WN!UndoItem, WN!callVars, WN!TypeOK, CallProgress, OnlyHeld, WN!RolledBack, WN!Steps,
        WN!ApplySteps, WN!CleanupSteps, WN!RepairSteps
<1>18. CASE WN!UndoDone
  BY <1>18
    DEF WN!UndoDone, WN!callVars, WN!TypeOK, CallProgress, OnlyHeld, WN!RolledBack, WN!Steps,
        WN!ApplySteps, WN!CleanupSteps, WN!RepairSteps
<1>19. CASE WN!ClearJournal
  BY <1>19, RecordTypes
    DEF WN!ClearJournal, WN!Return, WN!callVars, WN!TypeOK, CallProgress, OnlyHeld,
        WN!RolledBack, WN!Steps, WN!ApplySteps, WN!CleanupSteps, WN!RepairSteps
<1>20. CASE WN!LoadJournal
  BY <1>20, RecordTypes
    DEF WN!LoadJournal, WN!SweepStaleRules, WN!callVars, WN!TypeOK, CallProgress, OnlyHeld,
        WN!RolledBack, WN!Steps, WN!ApplySteps, WN!CleanupSteps, WN!RepairSteps
<1>21. CASE WN!RepairBestEffort
  BY <1>21
    DEF WN!RepairBestEffort, WN!callVars, WN!TypeOK, CallProgress, OnlyHeld, WN!RolledBack,
        WN!Steps, WN!ApplySteps, WN!CleanupSteps, WN!RepairSteps
<1>22. CASE WN!RepairDns
  BY <1>22
    DEF WN!RepairDns, WN!RepairOr, WN!callVars, WN!TypeOK, CallProgress, OnlyHeld, WN!RolledBack,
        WN!Steps, WN!ApplySteps, WN!CleanupSteps, WN!RepairSteps
<1>23. CASE WN!RepairNrpt
  BY <1>23
    DEF WN!RepairNrpt, WN!RepairOr, WN!callVars, WN!TypeOK, CallProgress, OnlyHeld,
        WN!RolledBack, WN!Steps, WN!ApplySteps, WN!CleanupSteps, WN!RepairSteps
<1>24. CASE WN!RepairGuard
  BY <1>24
    DEF WN!RepairGuard, WN!RepairOr, WN!callVars, WN!TypeOK, CallProgress, OnlyHeld,
        WN!RolledBack, WN!Steps, WN!ApplySteps, WN!CleanupSteps, WN!RepairSteps
<1>25. CASE WN!RepairClear
  BY <1>25, RecordTypes
    DEF WN!RepairClear, WN!callVars, WN!TypeOK, CallProgress, OnlyHeld, WN!RolledBack, WN!Steps,
        WN!ApplySteps, WN!CleanupSteps, WN!RepairSteps
<1>26. CASE WN!Crash
  BY <1>26, RecordTypes
    DEF WN!Crash, WN!OnAdapter, WN!callVars, WN!TypeOK, CallProgress, OnlyHeld, WN!RolledBack,
        WN!Steps, WN!ApplySteps, WN!CleanupSteps, WN!RepairSteps
<1>27. CASE WN!AdapterUp
  BY <1>27
    DEF WN!AdapterUp, WN!callVars, WN!TypeOK, CallProgress, OnlyHeld, WN!RolledBack, WN!Steps,
        WN!ApplySteps, WN!CleanupSteps, WN!RepairSteps
<1>28. CASE WN!AdapterDown
  BY <1>28
    DEF WN!AdapterDown, WN!OnAdapter, WN!callVars, WN!TypeOK, CallProgress, OnlyHeld,
        WN!RolledBack, WN!Steps, WN!ApplySteps, WN!CleanupSteps, WN!RepairSteps
<1>29. CASE UNCHANGED WN!vars
  BY <1>29
    DEF WN!vars, WN!callVars, WN!TypeOK, CallProgress, OnlyHeld, WN!RolledBack, WN!Steps,
        WN!ApplySteps, WN!CleanupSteps, WN!RepairSteps
<1>. QED
  BY <1>1, <1>2, <1>3, <1>4, <1>5, <1>6, <1>7, <1>8, <1>9, <1>10, <1>11, <1>12, <1>13,
      <1>14, <1>15, <1>16, <1>17, <1>18, <1>19, <1>20, <1>21, <1>22, <1>23, <1>24, <1>25,
      <1>26, <1>27, <1>28, <1>29
    DEF WN!Next, WN!Apply, WN!Cleanup, WN!Repair

(* A repair removes what the journal names, kind after kind.                *)
LEMMA RepairStep ==
  ASSUME WN!TypeOK, RepairProgress, [WN!Next]_(WN!vars)
  PROVE  RepairProgress'
<1>1. ASSUME NEW p \in Plans, WN!Begin(p)
      PROVE  RepairProgress'
  BY <1>1, RecordTypes
    DEF WN!Begin, WN!callVars, WN!TypeOK, RepairProgress, WN!Steps, WN!ApplySteps, WN!CleanupSteps,
        WN!RepairSteps
<1>2. CASE WN!LookupAdapter
  BY <1>2, RecordTypes
    DEF WN!LookupAdapter, WN!AdapterFound, WN!Return, WN!callVars, WN!TypeOK, RepairProgress,
        WN!Steps, WN!ApplySteps, WN!CleanupSteps, WN!RepairSteps
<1>3. CASE WN!BeginRecovery
  BY <1>3, RecordTypes
    DEF WN!BeginRecovery, WN!Persist, WN!NewJournal, WN!callVars, WN!TypeOK, RepairProgress,
        WN!Steps, WN!ApplySteps, WN!CleanupSteps, WN!RepairSteps
<1>4. CASE WN!FailWithoutCleanup
  BY <1>4, RecordTypes
    DEF WN!FailWithoutCleanup, WN!Return, WN!callVars, WN!TypeOK, RepairProgress, WN!Steps,
        WN!ApplySteps, WN!CleanupSteps, WN!RepairSteps
<1>5. CASE WN!CleanupStaleAddresses
  BY <1>5, RecordTypes
    DEF WN!CleanupStaleAddresses, WN!callVars, WN!TypeOK, RepairProgress, WN!Steps, WN!ApplySteps,
        WN!CleanupSteps, WN!RepairSteps
<1>6. ASSUME NEW i \in Addresses, WN!ApplyAddress(i)
      PROVE  RepairProgress'
  BY <1>6, TurnFacts
    DEF WN!ApplyAddress, WN!Made, WN!Fails, WN!callVars, WN!TypeOK, RepairProgress, WN!Steps,
        WN!ApplySteps, WN!CleanupSteps, WN!RepairSteps
<1>7. ASSUME NEW i \in WN!Metrics, WN!ApplyInterfaceMetric(i)
      PROVE  RepairProgress'
  BY <1>7, TurnFacts
    DEF WN!ApplyInterfaceMetric, WN!Made, WN!Fails, WN!callVars, WN!TypeOK, RepairProgress,
        WN!Steps, WN!ApplySteps, WN!CleanupSteps, WN!RepairSteps
<1>8. ASSUME NEW i \in Endpoints, WN!ApplyBypassRoute(i)
      PROVE  RepairProgress'
  BY <1>8, TurnFacts
    DEF WN!ApplyBypassRoute, WN!Made, WN!PassedOver, WN!Fails, WN!callVars, WN!TypeOK,
        RepairProgress, WN!Steps, WN!ApplySteps, WN!CleanupSteps, WN!RepairSteps
<1>9. ASSUME NEW i \in Routes, WN!ApplyRouteEntry(i)
      PROVE  RepairProgress'
  BY <1>9, TurnFacts
    DEF WN!ApplyRouteEntry, WN!Made, WN!Fails, WN!callVars, WN!TypeOK, RepairProgress, WN!Steps,
        WN!ApplySteps, WN!CleanupSteps, WN!RepairSteps
<1>10. CASE WN!ApplyDns
  BY <1>10, TurnFacts
    DEF WN!ApplyDns, WN!Made, WN!Fails, WN!AfterFailedDns, WN!callVars, WN!TypeOK,
        RepairProgress, WN!Steps, WN!ApplySteps, WN!CleanupSteps, WN!RepairSteps
<1>11. CASE WN!ApplyNrptGuard
  BY <1>11, TurnFacts
    DEF WN!ApplyNrptGuard, WN!Made, WN!Fails, WN!AfterFailedNrpt, WN!callVars, WN!TypeOK,
        RepairProgress, WN!Steps, WN!ApplySteps, WN!CleanupSteps, WN!RepairSteps
<1>12. CASE WN!ApplyDnsGuard
  BY <1>12, TurnFacts
    DEF WN!ApplyDnsGuard, WN!Made, WN!PassedOver, WN!Fails, WN!callVars, WN!TypeOK,
        RepairProgress, WN!Steps, WN!ApplySteps, WN!CleanupSteps, WN!RepairSteps
<1>13. CASE WN!Record
  BY <1>13, RecordTypes
    DEF WN!Record, WN!Persist, WN!LastApplied, WN!callVars, WN!TypeOK, RepairProgress, WN!Steps,
        WN!ApplySteps, WN!CleanupSteps, WN!RepairSteps
<1>14. CASE WN!MarkRunning
  BY <1>14, RecordTypes, MemoryMarked
    DEF WN!MarkRunning, WN!Persist, WN!callVars, WN!TypeOK, RepairProgress, WN!Steps, WN!ApplySteps,
        WN!CleanupSteps, WN!RepairSteps
<1>15. CASE WN!Stop
  BY <1>15
    DEF WN!Stop, WN!callVars, WN!TypeOK, RepairProgress, WN!Steps, WN!ApplySteps,
        WN!CleanupSteps, WN!RepairSteps
<1>16. CASE WN!MarkStopping
  BY <1>16, MemoryMarked
    DEF WN!MarkStopping, WN!Persist, WN!callVars, WN!TypeOK, RepairProgress, WN!Steps,
        WN!ApplySteps, WN!CleanupSteps, WN!RepairSteps
<1>17. CASE WN!UndoItem
  BY <1>17
    DEF WN!UndoItem, WN!callVars, WN!TypeOK, RepairProgress, WN!Steps, WN!ApplySteps,
        WN!CleanupSteps, WN!RepairSteps
<1>18. CASE WN!UndoDone
  BY <1>18
    DEF WN!UndoDone, WN!callVars, WN!TypeOK, RepairProgress, WN!Steps, WN!ApplySteps,
        WN!CleanupSteps, WN!RepairSteps
<1>19. CASE WN!ClearJournal
  BY <1>19, RecordTypes
    DEF WN!ClearJournal, WN!Return, WN!callVars, WN!TypeOK, RepairProgress, WN!Steps, WN!ApplySteps,
        WN!CleanupSteps, WN!RepairSteps
<1>20. CASE WN!LoadJournal
  BY <1>20, RecordTypes
    DEF WN!LoadJournal, WN!SweepStaleRules, WN!callVars, WN!TypeOK, RepairProgress, WN!Steps,
        WN!ApplySteps, WN!CleanupSteps, WN!RepairSteps
<1>21. CASE WN!RepairBestEffort
  BY <1>21
    DEF WN!RepairBestEffort, WN!callVars, WN!TypeOK, RepairProgress, WN!Steps, WN!ApplySteps,
        WN!CleanupSteps, WN!RepairSteps
<1>22. CASE WN!RepairDns
  BY <1>22
    DEF WN!RepairDns, WN!RepairOr, WN!callVars, WN!TypeOK, RepairProgress, WN!Steps, WN!ApplySteps,
        WN!CleanupSteps, WN!RepairSteps
<1>23. CASE WN!RepairNrpt
  BY <1>23
    DEF WN!RepairNrpt, WN!RepairOr, WN!callVars, WN!TypeOK, RepairProgress, WN!Steps, WN!ApplySteps,
        WN!CleanupSteps, WN!RepairSteps
<1>24. CASE WN!RepairGuard
  BY <1>24
    DEF WN!RepairGuard, WN!RepairOr, WN!callVars, WN!TypeOK, RepairProgress, WN!Steps,
        WN!ApplySteps, WN!CleanupSteps, WN!RepairSteps
<1>25. CASE WN!RepairClear
  BY <1>25, RecordTypes
    DEF WN!RepairClear, WN!callVars, WN!TypeOK, RepairProgress, WN!Steps, WN!ApplySteps,
        WN!CleanupSteps, WN!RepairSteps
<1>26. CASE WN!Crash
  BY <1>26, RecordTypes
    DEF WN!Crash, WN!OnAdapter, WN!callVars, WN!TypeOK, RepairProgress, WN!Steps, WN!ApplySteps,
        WN!CleanupSteps, WN!RepairSteps
<1>27. CASE WN!AdapterUp
  BY <1>27
    DEF WN!AdapterUp, WN!callVars, WN!TypeOK, RepairProgress, WN!Steps, WN!ApplySteps,
        WN!CleanupSteps, WN!RepairSteps
<1>28. CASE WN!AdapterDown
  BY <1>28
    DEF WN!AdapterDown, WN!OnAdapter, WN!callVars, WN!TypeOK, RepairProgress, WN!Steps,
        WN!ApplySteps, WN!CleanupSteps, WN!RepairSteps
<1>29. CASE UNCHANGED WN!vars
  BY <1>29
    DEF WN!vars, WN!callVars, WN!TypeOK, RepairProgress, WN!Steps, WN!ApplySteps,
        WN!CleanupSteps, WN!RepairSteps
<1>. QED
  BY <1>1, <1>2, <1>3, <1>4, <1>5, <1>6, <1>7, <1>8, <1>9, <1>10, <1>11, <1>12, <1>13,
      <1>14, <1>15, <1>16, <1>17, <1>18, <1>19, <1>20, <1>21, <1>22, <1>23, <1>24, <1>25,
      <1>26, <1>27, <1>28, <1>29
    DEF WN!Next, WN!Apply, WN!Cleanup, WN!Repair

-----------------------------------------------------------------------------
(* The invariant, and the theorems that follow from it.                      *)

LEMMA InitInv == Requested /\ WN!Init => IInv
<1>. SUFFICES ASSUME Requested, WN!Init PROVE IInv
  OBVIOUS
<1>. QED
  BY DEF Requested, WN!Init, IInv, WN!TypeOK, CallProgress, JournalFollows, SystemKnown,
         OnlyHeld, RepairProgress, WN!Steps, WN!ApplySteps, WN!CleanupSteps, WN!RepairSteps

LEMMA StepInv == Requested /\ IInv /\ [WN!Next]_(WN!vars) => IInv'
BY TypeStep, CallStep, JournalStep, SystemStep, HeldStep, RepairStep DEF IInv

LEMMA Invariance ==
  ASSUME Requested
  PROVE  WN!Spec => []IInv
<1>1. WN!Init => IInv
  BY InitInv
<1>2. IInv /\ [WN!Next]_(WN!vars) => IInv'
  BY StepInv
<1>. QED
  BY <1>1, <1>2, PTL DEF WN!Spec

(* Types are kept by every step.                                            *)
THEOREM TypeCorrect ==
  ASSUME Requested
  PROVE  WN!Spec => []WN!TypeOK
<1>1. IInv => WN!TypeOK
  BY DEF IInv
<1>. QED
  BY <1>1, Invariance, PTL

LEMMA RunningExact == ASSUME IInv PROVE WN!RunningIsExact
BY DEF IInv, WN!RunningIsExact, CallProgress, JournalFollows, SystemKnown, NothingStays

(* A tunnel reported as applied has exactly what is held in effect, all of   *)
(* its plan but what nothing was needed for, and the journal names it:       *)
(* cleanup_stale_addresses removes what an apply that ended without a        *)
(* cleanup left on the adapter.                                             *)
THEOREM AppliedExactly ==
  ASSUME Requested
  PROVE  WN!Spec => []WN!RunningIsExact
<1>1. IInv => WN!RunningIsExact
  BY RunningExact
<1>. QED
  BY <1>1, Invariance, PTL

LEMMA JournalClose == ASSUME IInv PROVE WN!JournalLagsByOne
BY DEF IInv, WN!JournalLagsByOne, CallProgress, JournalFollows, OneLess, WN!ApplySteps,
       WN!RepairSteps

(* Whatever fails, and whenever the process dies, the journal in the file is *)
(* at most one change behind the system.                                    *)
THEOREM JournalFollowsApply ==
  ASSUME Requested
  PROVE  WN!Spec => []WN!JournalLagsByOne
<1>1. IInv => WN!JournalLagsByOne
  BY JournalClose
<1>. QED
  BY <1>1, Invariance, PTL

LEMMA OutsideKept == ASSUME IInv PROVE WN!OutsideRestored
BY DEF IInv, WN!OutsideRestored, SystemKnown, NothingStays, WN!OnAdapter

(* Whichever stage or journal write fails, no call that ends leaves a bypass *)
(* route, an NRPT rule or a DNS filter.                                     *)
THEOREM OutsideAdapterRestored ==
  ASSUME Requested
  PROVE  WN!Spec => []WN!OutsideRestored
<1>1. IInv => WN!OutsideRestored
  BY OutsideKept
<1>. QED
  BY <1>1, Invariance, PTL

LEMMA RepairSweeping ==
  ASSUME IInv, [WN!Next]_(WN!vars), pc' = "idle", pc \in WN!RepairSteps, "deletion" \notin faults
  PROVE  inEffect' \cap (journal.items \cup {"nrpt", "guard"}) = {}
<1>1. "guard" \notin inEffect /\ (pc # "down" => "nrpt" \notin inEffect)
  BY DEF IInv, RepairProgress, WN!RepairSteps
<1>2. CASE WN!LoadJournal
  BY <1>1, <1>2, RecordTypes DEF WN!LoadJournal, WN!SweepStaleRules
<1>3. CASE WN!RepairClear
  BY <1>1, <1>3 DEF WN!RepairClear, IInv, RepairProgress
<1>. QED
  BY <1>2, <1>3
    DEF WN!Next, WN!Apply, WN!Begin, WN!LookupAdapter, WN!BeginRecovery, WN!FailWithoutCleanup,
        WN!CleanupStaleAddresses, WN!ApplyAddress, WN!ApplyInterfaceMetric, WN!ApplyBypassRoute,
        WN!ApplyRouteEntry, WN!ApplyDns, WN!ApplyNrptGuard, WN!ApplyDnsGuard, WN!Turn, WN!Record,
        WN!MarkRunning, WN!Stop, WN!Cleanup, WN!MarkStopping, WN!UndoItem, WN!UndoDone,
        WN!ClearJournal, WN!Repair, WN!RepairBestEffort, WN!RepairDns, WN!RepairNrpt,
        WN!RepairGuard, WN!RepairOr, WN!Crash, WN!AdapterUp, WN!AdapterDown, WN!RepairSteps,
        WN!vars

(* A repair that ends has removed what the journal named and every NRPT rule *)
(* and DNS filter, named or not.                                            *)
THEOREM RepairComplete ==
  ASSUME Requested
  PROVE  WN!Spec => [][WN!RepairSweeps]_(WN!vars)
<1>1. IInv /\ [WN!Next]_(WN!vars) => [WN!RepairSweeps]_(WN!vars)
  BY RepairSweeping DEF WN!RepairSweeps
<1>. QED
  BY <1>1, Invariance, PTL DEF WN!Spec

-----------------------------------------------------------------------------
(* The contract.                                                            *)

LEMMA Phases ==
  /\ pc = "idle" => WN!Phase = "off"
  /\ pc \in WN!ApplySteps => WN!Phase = "applying"
  /\ pc = "running" => WN!Phase = "on"
  /\ pc \in WN!CleanupSteps => WN!Phase = "undoing"
  /\ pc \in WN!RepairSteps => WN!Phase = "down"
  /\ pc' = "idle" => WN!Phase' = "off"
  /\ pc' \in WN!ApplySteps => WN!Phase' = "applying"
  /\ pc' = "running" => WN!Phase' = "on"
  /\ pc' \in WN!CleanupSteps => WN!Phase' = "undoing"
  /\ pc' \in WN!RepairSteps => WN!Phase' = "down"
BY DEF WN!Phase, WN!ApplySteps, WN!CleanupSteps, WN!RepairSteps

Moves == WN!Contract!Next \/ UNCHANGED <<WN!Phase, plan, inEffect>>

(* Every step of the pipeline is one of the contract, or changes nothing of it. *)
LEMMA ContractStep ==
  ASSUME Requested, faults \subseteq WN!RolledBack, WN!TypeOK, CallProgress, OnlyHeld,
         [WN!Next]_(WN!vars)
  PROVE  Moves
<1>1. ASSUME NEW p \in Plans, WN!Begin(p)
      PROVE  Moves
  BY <1>1, Phases, PlanItems
    DEF WN!Begin, WN!callVars, WN!TypeOK, CallProgress, OnlyHeld, WN!RolledBack, Moves, WN!Steps,
        WN!ApplySteps, WN!CleanupSteps, WN!RepairSteps, WN!Contract!Next, WN!Contract!Begin
<1>2. CASE WN!LookupAdapter
  BY <1>2, Phases
    DEF WN!LookupAdapter, WN!AdapterFound, WN!Return, WN!callVars, WN!TypeOK, CallProgress,
        OnlyHeld, WN!RolledBack, Moves, WN!Steps, WN!ApplySteps, WN!CleanupSteps, WN!RepairSteps,
        WN!Contract!Next, WN!Contract!Finish
<1>3. CASE WN!BeginRecovery
  BY <1>3, Phases
    DEF WN!BeginRecovery, WN!Persist, WN!NewJournal, WN!callVars, WN!TypeOK, CallProgress, OnlyHeld,
        WN!RolledBack, Moves, WN!Steps, WN!ApplySteps, WN!CleanupSteps, WN!RepairSteps
<1>4. CASE WN!FailWithoutCleanup
  BY <1>4, Phases
    DEF WN!FailWithoutCleanup, WN!Return, WN!callVars, WN!TypeOK, CallProgress, OnlyHeld,
        WN!RolledBack, Moves, WN!Steps, WN!ApplySteps, WN!CleanupSteps, WN!RepairSteps,
        WN!Contract!Next, WN!Contract!Finish
<1>5. CASE WN!CleanupStaleAddresses
  BY <1>5, Phases
    DEF WN!CleanupStaleAddresses, WN!callVars, WN!TypeOK, CallProgress, OnlyHeld, WN!RolledBack,
        Moves, WN!Steps, WN!ApplySteps, WN!CleanupSteps, WN!RepairSteps
<1>6. ASSUME NEW i \in Addresses, WN!ApplyAddress(i)
      PROVE  Moves
  BY <1>6, Phases, TurnFacts
    DEF WN!ApplyAddress, WN!Made, WN!Fails, WN!callVars, WN!TypeOK, CallProgress, OnlyHeld,
        WN!RolledBack, Moves, WN!Steps, WN!ApplySteps, WN!CleanupSteps, WN!RepairSteps,
        WN!Contract!Next, WN!Contract!Install, WN!Contract!Withdraw
<1>7. ASSUME NEW i \in WN!Metrics, WN!ApplyInterfaceMetric(i)
      PROVE  Moves
  BY <1>7, Phases, TurnFacts
    DEF WN!ApplyInterfaceMetric, WN!Made, WN!Fails, WN!callVars, WN!TypeOK, CallProgress,
        OnlyHeld, WN!RolledBack, Moves, WN!Steps, WN!ApplySteps, WN!CleanupSteps, WN!RepairSteps,
        WN!Contract!Next, WN!Contract!Install, WN!Contract!Withdraw
<1>8. ASSUME NEW i \in Endpoints, WN!ApplyBypassRoute(i)
      PROVE  Moves
  BY <1>8, Phases, TurnFacts
    DEF WN!ApplyBypassRoute, WN!Made, WN!PassedOver, WN!Fails, WN!callVars, WN!TypeOK,
        CallProgress, OnlyHeld, WN!RolledBack, Moves, WN!Steps, WN!ApplySteps, WN!CleanupSteps,
        WN!RepairSteps, WN!Contract!Next, WN!Contract!Install, WN!Contract!Withdraw
<1>9. ASSUME NEW i \in Routes, WN!ApplyRouteEntry(i)
      PROVE  Moves
  BY <1>9, Phases, TurnFacts
    DEF WN!ApplyRouteEntry, WN!Made, WN!Fails, WN!callVars, WN!TypeOK, CallProgress, OnlyHeld,
        WN!RolledBack, Moves, WN!Steps, WN!ApplySteps, WN!CleanupSteps, WN!RepairSteps,
        WN!Contract!Next, WN!Contract!Install, WN!Contract!Withdraw
<1>10. CASE WN!ApplyDns
  BY <1>10, Phases, TurnFacts
    DEF WN!ApplyDns, WN!Made, WN!Fails, WN!AfterFailedDns, WN!callVars, WN!TypeOK, CallProgress,
        OnlyHeld, WN!RolledBack, Moves, WN!Steps, WN!ApplySteps, WN!CleanupSteps, WN!RepairSteps,
        WN!Contract!Next, WN!Contract!Install, WN!Contract!Withdraw
<1>11. CASE WN!ApplyNrptGuard
  BY <1>11, Phases, TurnFacts
    DEF WN!ApplyNrptGuard, WN!Made, WN!Fails, WN!AfterFailedNrpt, WN!callVars, WN!TypeOK,
        CallProgress, OnlyHeld, WN!RolledBack, Moves, WN!Steps, WN!ApplySteps, WN!CleanupSteps,
        WN!RepairSteps, WN!Contract!Next, WN!Contract!Install, WN!Contract!Withdraw
<1>12. CASE WN!ApplyDnsGuard
  BY <1>12, Phases, TurnFacts
    DEF WN!ApplyDnsGuard, WN!Made, WN!PassedOver, WN!Fails, WN!callVars, WN!TypeOK, CallProgress,
        OnlyHeld, WN!RolledBack, Moves, WN!Steps, WN!ApplySteps, WN!CleanupSteps, WN!RepairSteps,
        WN!Contract!Next, WN!Contract!Install, WN!Contract!Withdraw
<1>13. CASE WN!Record
  BY <1>13, Phases
    DEF WN!Record, WN!Persist, WN!LastApplied, WN!callVars, WN!TypeOK, CallProgress, OnlyHeld,
        WN!RolledBack, Moves, WN!Steps, WN!ApplySteps, WN!CleanupSteps, WN!RepairSteps,
        WN!Contract!Next, WN!Contract!Withdraw
<1>14. CASE WN!MarkRunning
  BY <1>14, Phases, MemoryMarked
    DEF WN!MarkRunning, WN!Persist, WN!callVars, WN!TypeOK, CallProgress, OnlyHeld,
        WN!RolledBack, Moves, WN!Steps, WN!ApplySteps, WN!CleanupSteps, WN!RepairSteps,
        WN!Contract!Next, WN!Contract!Commit, WN!Contract!Withdraw
<1>15. CASE WN!Stop
  BY <1>15, Phases
    DEF WN!Stop, WN!callVars, WN!TypeOK, CallProgress, OnlyHeld, WN!RolledBack, Moves, WN!Steps,
        WN!ApplySteps, WN!CleanupSteps, WN!RepairSteps, WN!Contract!Next, WN!Contract!Withdraw
<1>16. CASE WN!MarkStopping
  BY <1>16, Phases, MemoryMarked
    DEF WN!MarkStopping, WN!Persist, WN!callVars, WN!TypeOK, CallProgress, OnlyHeld,
        WN!RolledBack, Moves, WN!Steps, WN!ApplySteps, WN!CleanupSteps, WN!RepairSteps
<1>17. CASE WN!UndoItem
  BY <1>17, Phases, UndoFacts
    DEF WN!UndoItem, WN!callVars, WN!TypeOK, CallProgress, OnlyHeld, WN!RolledBack, Moves, WN!Steps,
        WN!ApplySteps, WN!CleanupSteps, WN!RepairSteps, WN!Contract!Next, WN!Contract!Remove
<1>18. CASE WN!UndoDone
  BY <1>18, Phases
    DEF WN!UndoDone, WN!callVars, WN!TypeOK, CallProgress, OnlyHeld, WN!RolledBack, Moves, WN!Steps,
        WN!ApplySteps, WN!CleanupSteps, WN!RepairSteps
<1>19. CASE WN!ClearJournal
  BY <1>19, Phases
    DEF WN!ClearJournal, WN!Return, WN!callVars, WN!TypeOK, CallProgress, OnlyHeld,
        WN!RolledBack, Moves, WN!Steps, WN!ApplySteps, WN!CleanupSteps, WN!RepairSteps,
        WN!Contract!Next, WN!Contract!Finish
<1>20. CASE WN!LoadJournal
  BY <1>20, Phases
    DEF WN!LoadJournal, WN!SweepStaleRules, WN!callVars, WN!TypeOK, CallProgress, OnlyHeld,
        WN!RolledBack, Moves, WN!Steps, WN!ApplySteps, WN!CleanupSteps, WN!RepairSteps
<1>21. CASE WN!RepairBestEffort
  BY <1>21, Phases
    DEF WN!RepairBestEffort, WN!callVars, WN!TypeOK, CallProgress, OnlyHeld, WN!RolledBack, Moves,
        WN!Steps, WN!ApplySteps, WN!CleanupSteps, WN!RepairSteps
<1>22. CASE WN!RepairDns
  BY <1>22, Phases
    DEF WN!RepairDns, WN!RepairOr, WN!callVars, WN!TypeOK, CallProgress, OnlyHeld, WN!RolledBack,
        Moves, WN!Steps, WN!ApplySteps, WN!CleanupSteps, WN!RepairSteps
<1>23. CASE WN!RepairNrpt
  BY <1>23, Phases
    DEF WN!RepairNrpt, WN!RepairOr, WN!callVars, WN!TypeOK, CallProgress, OnlyHeld,
        WN!RolledBack, Moves, WN!Steps, WN!ApplySteps, WN!CleanupSteps, WN!RepairSteps
<1>24. CASE WN!RepairGuard
  BY <1>24, Phases
    DEF WN!RepairGuard, WN!RepairOr, WN!callVars, WN!TypeOK, CallProgress, OnlyHeld,
        WN!RolledBack, Moves, WN!Steps, WN!ApplySteps, WN!CleanupSteps, WN!RepairSteps
<1>25. CASE WN!RepairClear
  BY <1>25, Phases
    DEF WN!RepairClear, WN!callVars, WN!TypeOK, CallProgress, OnlyHeld, WN!RolledBack, Moves,
        WN!Steps, WN!ApplySteps, WN!CleanupSteps, WN!RepairSteps
<1>26. CASE WN!Crash
  BY <1>26, Phases
    DEF WN!Crash, WN!OnAdapter, WN!callVars, WN!TypeOK, CallProgress, OnlyHeld, WN!RolledBack,
        Moves, WN!Steps, WN!ApplySteps, WN!CleanupSteps, WN!RepairSteps
<1>27. CASE WN!AdapterUp
  BY <1>27, Phases
    DEF WN!AdapterUp, WN!callVars, WN!TypeOK, CallProgress, OnlyHeld, WN!RolledBack, Moves,
        WN!Steps, WN!ApplySteps, WN!CleanupSteps, WN!RepairSteps
<1>28. CASE WN!AdapterDown
  BY <1>28, Phases
    DEF WN!AdapterDown, WN!OnAdapter, WN!callVars, WN!TypeOK, CallProgress, OnlyHeld,
        WN!RolledBack, Moves, WN!Steps, WN!ApplySteps, WN!CleanupSteps, WN!RepairSteps
<1>29. CASE UNCHANGED WN!vars
  BY <1>29, Phases
    DEF WN!vars, WN!callVars, WN!TypeOK, CallProgress, OnlyHeld, WN!RolledBack, Moves, WN!Steps,
        WN!ApplySteps, WN!CleanupSteps, WN!RepairSteps, WN!Contract!Next, WN!Phase
<1>. QED
  BY <1>1, <1>2, <1>3, <1>4, <1>5, <1>6, <1>7, <1>8, <1>9, <1>10, <1>11, <1>12, <1>13,
      <1>14, <1>15, <1>16, <1>17, <1>18, <1>19, <1>20, <1>21, <1>22, <1>23, <1>24, <1>25,
      <1>26, <1>27, <1>28, <1>29
    DEF WN!Next, WN!Apply, WN!Cleanup, WN!Repair

(* All or nothing: with failures of any one change, a configuration is in    *)
(* effect entirely or not at all, as the contract of the Linux pipeline has  *)
(* it.                                                                      *)
THEOREM PipelineRefinesContract ==
  ASSUME Requested
  PROVE  WN!Spec => WN!Contract!Init /\ [][WN!AllOrNothing]_(WN!vars)
<1>1. WN!Init => WN!Contract!Init
  BY Phases DEF WN!Init, WN!Contract!Init
<1>2. IInv /\ [WN!Next]_(WN!vars) => [WN!AllOrNothing]_(WN!vars)
  BY ContractStep DEF IInv, WN!AllOrNothing, Moves
<1>. QED
  BY <1>1, <1>2, Invariance, PTL DEF WN!Spec

=============================================================================
