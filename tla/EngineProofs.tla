---------------------------- MODULE EngineProofs ----------------------------
(***************************************************************************)
(* What Engine promises, for every set of tunnel names and every set of    *)
(* faults.  The inductive invariant IInv says what the worker's position    *)
(* implies about its state; each conjunct has a lemma with a step per       *)
(* action, and the safety invariants follow.                                *)
(***************************************************************************)
EXTENDS Engine, TLAPS

-----------------------------------------------------------------------------
(* The inductive invariant.                                                 *)

SlotSteps == {"uConfigure", "uNet", "uUpgrade", "uDone", "uUnwindNet",
              "uUnwindSlot"}
AppliedSteps == {"uUpgrade", "uDone", "uUnwindNet", "kMark", "kUpgrade",
                 "kUnguard", "kDone", "kUnwindGuard", "kUnwindNet"}

(* A start, a repair and a worker that has ended have no session; a channel *)
(* that closes closes between commands; the slot is the request's.          *)
WorkerControl ==
  /\ pc \in StartSteps \cup RepairSteps \cup {"exited"} =>
       ~running /\ active = NoBackend
  /\ pc \in {"idle"} \cup StartSteps \cup RepairSteps => ~closing
  /\ pc \in StopSteps => running
  /\ pc \in SlotSteps => slot.tun = req.tun
  /\ active.kind # "none" => active.tun \in Tuns

(* A start uses the cached device up before it touches any other.           *)
Cache ==
  /\ cached # NoTun => pc \in {"idle", "resolve", "uTake", "kPrepare", "cShutdown"}
  /\ CacheIsIdle

(* Where the recorded network state may be while it is not None.            *)
NetOwned ==
  /\ netState # NoTun =>
       \/ running /\ active.tun = netState /\ pc \in {"idle", "sNet"}
       \/ pc \in AppliedSteps /\ req.tun = netState
  /\ AppliedIsOwned

GuardUp ==
  /\ pc = "kGuardJournal" => guardFw
  /\ GuardCoversNegotiation

(* The flags before the negotiation and after it, and the device's key.     *)
Fresh == ~quantumActive /\ ~daitaActive /\ ~ephemeralKeyActive
Protected ==
  /\ quantumActive = req.quantum
  /\ daitaActive = req.daita
  /\ ephemeralKeyActive = (req.quantum \/ req.daita)
ProtectedDevice(d, plain, ephemeral) ==
  d = (IF req.quantum \/ req.daita THEN ephemeral ELSE plain)

(* The session's protection, from the request to the running tunnel.        *)
Protection ==
  /\ pc \in KernelSteps => ~req.daita
  /\ pc = "kUpgrade" => req.quantum
  /\ pc = "uUpgrade" => req.quantum \/ req.daita
  /\ pc \in {"resolve", "uTake", "uConfigure", "uNet", "uUpgrade", "kPrepare",
             "kJournal", "kCreate", "kRecord", "kConfigure", "kGuard",
             "kGuardJournal", "kNet", "kMark", "kUpgrade"} => Fresh
  /\ pc \in {"uNet", "uUpgrade"} => dev[req.tun] = "tunPeers"
  /\ pc \in {"kRecord", "kConfigure", "kGuard", "kGuardJournal", "kNet", "kMark",
             "kUpgrade"} => dev[req.tun] = "kernel"
  /\ pc = "uDone" =>
       Protected /\ ProtectedDevice(dev[req.tun], "tunPeers", "tunEphemeral")
  /\ pc \in {"kUnguard", "kDone"} =>
       Protected /\ ProtectedDevice(dev[req.tun], "kernel", "kernelEphemeral")
  /\ running /\ active.kind # "none" =>
       /\ Protected
       /\ active.tun = req.tun
       /\ \/ active.kind = "userspace"
             /\ ProtectedDevice(dev[req.tun], "tunPeers", "tunEphemeral")
          \/ active.kind = "kernel" /\ ~req.daita
             /\ ProtectedDevice(dev[req.tun], "kernel", "kernelEphemeral")

(* A slot is held between the steps of a start only; a device of a slot or  *)
(* of a running backend exists, and every device has such a place.          *)
Held ==
  /\ slot.tun # NoTun => pc \in SlotSteps /\ dev[slot.tun] \in Gotatun
  /\ active.kind = "userspace" => dev[active.tun] \in Gotatun
  /\ \A t \in Tuns :
       dev[t] \in Gotatun => cached = t \/ active = Userspace(t) \/ slot.tun = t

(* A kernel start ends with its guard removed.                              *)
GuardDown == pc = "kDone" /\ req.quantum => ~guardFw /\ ~gjournal

IInv == /\ TypeOK
        /\ WorkerControl
        /\ Cache
        /\ NetOwned
        /\ KernelSessionJournaled
        /\ GuardUp
        /\ Protection
        /\ Held
        /\ GuardDown

-----------------------------------------------------------------------------
(* Facts used in several places.                                            *)

USE TunsAssumption

(* The three kinds of data plane record.                                    *)
LEMMA ActiveKinds ==
  ASSUME TypeOK
  PROVE  /\ active.kind \in {"none", "userspace", "kernel"}
         /\ active.tun \in MaybeTun
         /\ active.kind = "none" => active = NoBackend
<1>1. CASE active = NoBackend
  BY <1>1 DEF NoBackend, MaybeTun
<1>2. ASSUME NEW t \in MaybeTun, active = Userspace(t)
      PROVE  active.kind = "userspace" /\ active.tun \in MaybeTun
  BY <1>2 DEF Userspace
<1>3. ASSUME NEW t \in MaybeTun, active = LinuxKernel(t)
      PROVE  active.kind = "kernel" /\ active.tun \in MaybeTun
  BY <1>3 DEF LinuxKernel
<1>. QED
  BY <1>1, <1>2, <1>3 DEF TypeOK, DataTypes

(* shutdown_active_backend leaves a stopped engine, whatever was running    *)
(* and whether or not the link could be deleted.                            *)
LEMMA ShutdownEffect ==
  ASSUME TypeOK, ShutdownActiveBackend
  PROVE  /\ active' = NoBackend /\ ~running' /\ netState' = NoTun
         /\ report' = "none"
         /\ dev' \in [Tuns -> Devices] /\ kjournal' \in MaybeTun
<1>1. active' = NoBackend /\ netState' = NoTun /\ report' = "none"
  BY DEF ShutdownActiveBackend
<1>2. ~running'
  BY DEF ShutdownActiveBackend
<1>3. dev \in [Tuns -> Devices] /\ kjournal \in MaybeTun
  BY DEF TypeOK, DataTypes
<1>4. CASE active.kind = "none"
  BY <1>1, <1>2, <1>3, <1>4 DEF ShutdownActiveBackend
<1>5. CASE active.kind = "userspace"
  BY <1>1, <1>2, <1>3, <1>5 DEF ShutdownActiveBackend, Devices
<1>6. CASE active.kind = "kernel"
  BY <1>1, <1>2, <1>3, <1>6
    DEF ShutdownActiveBackend, DropLinkBestEffort, DeleteLink, ClearKernelJournal,
        Devices, MaybeTun
<1>. QED
  BY <1>4, <1>5, <1>6, ActiveKinds

(* The records of the three places, by their fields.                        *)
LEMMA PlaceForms ==
  /\ NoBackend.kind = "none" /\ NoSlot.tun = NoTun
  /\ \A t : /\ Userspace(t).kind = "userspace" /\ Userspace(t).tun = t
            /\ LinuxKernel(t).kind = "kernel" /\ LinuxKernel(t).tun = t
  /\ TypeOK => \/ active = NoBackend
               \/ active = Userspace(active.tun)
               \/ active = LinuxKernel(active.tun)
<1>1. NoBackend.kind = "none" /\ NoSlot.tun = NoTun
  BY DEF NoBackend, NoSlot
<1>2. \A t : /\ Userspace(t).kind = "userspace" /\ Userspace(t).tun = t
             /\ LinuxKernel(t).kind = "kernel" /\ LinuxKernel(t).tun = t
  BY DEF Userspace, LinuxKernel
<1>3. TypeOK => \/ active = NoBackend
                \/ active = Userspace(active.tun)
                \/ active = LinuxKernel(active.tun)
  BY <1>2 DEF TypeOK, DataTypes
<1>. QED
  BY <1>1, <1>2, <1>3

(* Deleting a link leaves every GotaTun device alone.                       *)
LEMMA DeletionSparesGotatun ==
  ASSUME TypeOK, NEW t \in Tuns, NEW ok \in BOOLEAN, DeleteLink(t, ok)
  PROVE  \A u \in Tuns : dev'[u] \in Gotatun <=> dev[u] \in Gotatun
BY DEF DeleteLink, IsWireGuardLink, KernelLinks, Gotatun, TypeOK, DataTypes

LEMMA DropSparesGotatun ==
  ASSUME TypeOK, NEW t \in Tuns, DropLinkBestEffort(t)
  PROVE  \A u \in Tuns : dev'[u] \in Gotatun <=> dev[u] \in Gotatun
BY DeletionSparesGotatun DEF DropLinkBestEffort

(* The places that hold no device where a handler does not use it.          *)
LEMMA EmptyPlaces ==
  ASSUME TypeOK, WorkerControl, Cache, Held
  PROVE  /\ pc \notin SlotSteps => slot.tun = NoTun
         /\ pc \in StartSteps \cup RepairSteps \cup {"exited"} => active = NoBackend
         /\ pc \notin {"idle", "resolve", "uTake", "kPrepare", "cShutdown"} => cached = NoTun
         /\ cached # NoTun => cached \in Tuns /\ dev[cached] = "tunClear"
         /\ active.kind # "none" => active.tun \in Tuns
         /\ req.tun \in Tuns /\ dev \in [Tuns -> Devices]
         /\ active.kind # "none" => cached = NoTun
BY DEF Held, WorkerControl, Cache, CacheIsIdle, TypeOK, DataTypes, MaybeTun, Requests

(* Nothing moves between the places, and no device comes or goes.           *)
LEMMA HeldInPlace ==
  ASSUME Held, \A u \in Tuns : dev'[u] \in Gotatun <=> dev[u] \in Gotatun,
         UNCHANGED <<cached, active, slot>>, slot.tun = NoTun,
         active.kind = "userspace" => active.tun \in Tuns
  PROVE  Held'
BY DEF Held, Gotatun

-----------------------------------------------------------------------------
(* The initial states.                                                      *)

LEMMA InitInv == Init => IInv
<1>. SUFFICES ASSUME Init PROVE IInv
  OBVIOUS
<1>1. FlagTypes
  BY DEF Init, FlagTypes
<1>2. slot \in [tun: MaybeTun, createdNew: BOOLEAN]
  BY DEF Init, NoSlot, MaybeTun
<1>3. active \in {NoBackend} \cup {Userspace(t) : t \in MaybeTun}
                    \cup {LinuxKernel(t) : t \in MaybeTun}
  BY DEF Init
<1>4. DataTypes
  BY <1>2, <1>3 DEF Init, DataTypes, Steps, Replies, MaybeTun, Devices
<1>5. WorkerControl
  BY DEF Init, WorkerControl, StopSteps, SlotSteps, NoBackend
<1>6. Cache /\ NetOwned
  BY DEF Init, Cache, CacheIsIdle, NetOwned, AppliedIsOwned
<1>7. KernelSessionJournaled /\ GuardUp
  BY DEF Init, KernelSessionJournaled, KernelSteps, NoBackend, GuardUp,
     GuardCoversNegotiation
<1>8. Protection
  BY DEF Init, Protection, KernelSteps
<1>9. Held /\ GuardDown
  BY PlaceForms DEF Init, Held, GuardDown, Gotatun, Foreign
<1>. QED
  BY <1>1, <1>4, <1>5, <1>6, <1>7, <1>8, <1>9 DEF IInv, TypeOK

-----------------------------------------------------------------------------
(* Every step preserves every part.                                         *)

(* A step leaves flags flags: a sub-result is never mistaken for one.       *)
LEMMA FlagTypesStep ==
  ASSUME TypeOK, [Next]_vars
  PROVE  FlagTypes'
<1>1. ASSUME NEW r \in Requests, StartBegin(r)
      PROVE  FlagTypes'
  BY <1>1
    DEF StartBegin, ResetFlags, ShutdownActiveBackend, DropLinkBestEffort,
        DeleteLink, ClearKernelJournal, localVars, guardVars, TypeOK, FlagTypes,
        DataTypes, Requests
<1>2. CASE StartRejected
  BY <1>2
    DEF StartRejected, stateVars, flagVars, localVars, osVars, guardVars, TypeOK,
        FlagTypes
<1>3. CASE StopRejected
  BY <1>3
    DEF StopRejected, stateVars, flagVars, localVars, osVars, guardVars, TypeOK,
        FlagTypes
<1>4. CASE StopBegin
  BY <1>4
    DEF StopBegin, stateVars, flagVars, localVars, osVars, guardVars, TypeOK,
        FlagTypes
<1>5. CASE CloseChannel
  BY <1>5
    DEF CloseChannel, stateVars, flagVars, localVars, osVars, guardVars, TypeOK,
        FlagTypes
<1>6. CASE StartResolved
  BY <1>6
    DEF StartResolved, stateVars, flagVars, localVars, osVars, guardVars, TypeOK,
        FlagTypes
<1>7. CASE StartRefused
  <2>1. lastDaitaFailure' \in BOOLEAN
    BY <1>7 DEF StartRefused, TypeOK, FlagTypes
  <2>2. UNCHANGED <<closing, running, quantumActive, daitaActive, ephemeralKeyActive,
                    lastQuantumFailure, guard, cleanupOk, guardFw, gjournal>>
    BY <1>7 DEF StartRefused, localVars, osVars, guardVars
  <2>. QED
    BY <2>1, <2>2 DEF TypeOK, FlagTypes
<1>8. CASE UserspaceTake
  BY <1>8 DEF UserspaceTake, flagVars, guardVars, TypeOK, FlagTypes
<1>9. CASE UserspaceDropOther
  BY <1>9
    DEF UserspaceDropOther, commandVars, flagVars, localVars, guardVars, TypeOK,
        FlagTypes
<1>10. CASE UserspaceConfigure
  BY <1>10
    DEF UserspaceConfigure, stateVars, flagVars, localVars, guardVars, TypeOK,
        FlagTypes
<1>11. CASE UserspaceNet
  BY <1>11 DEF UserspaceNet, flagVars, localVars, guardVars, TypeOK, FlagTypes
<1>12. CASE UserspaceUpgrade
  BY <1>12
    DEF UserspaceUpgrade, localVars, guardVars, TypeOK, FlagTypes, DataTypes,
        Requests
<1>13. CASE UserspaceDone
  BY <1>13 DEF UserspaceDone, flagVars, osVars, guardVars, TypeOK, FlagTypes
<1>14. CASE UserspaceUnwindNet
  BY <1>14 DEF UserspaceUnwindNet, flagVars, localVars, guardVars, TypeOK, FlagTypes
<1>15. CASE UserspaceUnwindSlot
  BY <1>15 DEF UserspaceUnwindSlot, flagVars, guardVars, TypeOK, FlagTypes
<1>16. CASE KernelPrepare
  BY <1>16 DEF KernelPrepare, flagVars, localVars, guardVars, TypeOK, FlagTypes
<1>17. CASE KernelJournalLink
  BY <1>17
    DEF KernelJournalLink, stateVars, flagVars, localVars, guardVars, TypeOK,
        FlagTypes
<1>18. CASE KernelCreateLink
  BY <1>18
    DEF KernelCreateLink, stateVars, flagVars, localVars, guardVars, TypeOK,
        FlagTypes
<1>19. CASE KernelRecordLink
  BY <1>19
    DEF KernelRecordLink, stateVars, flagVars, localVars, guardVars, TypeOK,
        FlagTypes
<1>20. CASE KernelConfigure
  BY <1>20
    DEF KernelConfigure, stateVars, flagVars, localVars, guardVars, TypeOK,
        FlagTypes
<1>21. CASE GuardInstall
  BY <1>21
    DEF GuardInstall, stateVars, flagVars, localVars, TypeOK, FlagTypes, DataTypes,
        Requests
<1>22. CASE GuardJournal
  <2>1. guard' \in BOOLEAN
    BY <1>22 DEF GuardJournal, localVars, TypeOK, FlagTypes
  <2>2. guardFw' \in BOOLEAN
    BY <1>22 DEF GuardJournal, guardVars, TypeOK, FlagTypes
  <2>3. gjournal' \in BOOLEAN
    BY <1>22 DEF GuardJournal, guardVars, TypeOK, FlagTypes
  <2>4. UNCHANGED <<closing, running, flagVars, cleanupOk>>
    BY <1>22 DEF GuardJournal, stateVars, localVars
  <2>. QED
    BY <2>1, <2>2, <2>3, <2>4 DEF flagVars, TypeOK, FlagTypes
<1>23. CASE KernelNet
  BY <1>23 DEF KernelNet, flagVars, localVars, guardVars, TypeOK, FlagTypes
<1>24. CASE KernelMark
  BY <1>24
    DEF KernelMark, stateVars, flagVars, localVars, guardVars, TypeOK, FlagTypes
<1>25. CASE KernelUpgrade
  BY <1>25
    DEF KernelUpgrade, localVars, guardVars, TypeOK, FlagTypes, DataTypes, Requests
<1>26. CASE KernelUnguard
  <2>1. guard' \in BOOLEAN
    BY <1>26 DEF KernelUnguard, localVars, TypeOK, FlagTypes
  <2>2. guardFw' \in BOOLEAN
    BY <1>26 DEF KernelUnguard, CleanupGuard, guardVars, TypeOK, FlagTypes
  <2>3. gjournal' \in BOOLEAN
    BY <1>26 DEF KernelUnguard, CleanupGuard, guardVars, TypeOK, FlagTypes
  <2>4. UNCHANGED <<closing, running, flagVars, cleanupOk>>
    BY <1>26 DEF KernelUnguard, stateVars, localVars
  <2>. QED
    BY <2>1, <2>2, <2>3, <2>4 DEF flagVars, TypeOK, FlagTypes
<1>27. CASE KernelDone
  BY <1>27 DEF KernelDone, flagVars, localVars, osVars, guardVars, TypeOK, FlagTypes
<1>28. CASE KernelUnwindGuard
  <2>1. guard' \in BOOLEAN
    BY <1>28 DEF KernelUnwindGuard, localVars, TypeOK, FlagTypes
  <2>2. guardFw' \in BOOLEAN
    BY <1>28 DEF KernelUnwindGuard, CleanupGuard, guardVars, TypeOK, FlagTypes
  <2>3. gjournal' \in BOOLEAN
    BY <1>28 DEF KernelUnwindGuard, CleanupGuard, guardVars, TypeOK, FlagTypes
  <2>4. UNCHANGED <<closing, running, flagVars, cleanupOk>>
    BY <1>28 DEF KernelUnwindGuard, stateVars, localVars
  <2>. QED
    BY <2>1, <2>2, <2>3, <2>4 DEF flagVars, TypeOK, FlagTypes
<1>29. CASE KernelUnwindNet
  BY <1>29 DEF KernelUnwindNet, flagVars, localVars, guardVars, TypeOK, FlagTypes
<1>30. CASE KernelUnwindLink
  BY <1>30
    DEF KernelUnwindLink, stateVars, flagVars, localVars, guardVars, TypeOK,
        FlagTypes
<1>31. CASE StopNet
  BY <1>31
    DEF StopNet, CleanupNetwork, flagVars, guardVars, TypeOK, FlagTypes, DataTypes,
        Requests
<1>32. CASE StopBackend
  <2>1. running' \in BOOLEAN
    BY <1>32 DEF StopBackend, TypeOK, FlagTypes
  <2>2. ResetFlags \/ UNCHANGED flagVars
    BY <1>32 DEF StopBackend
  <2>3. UNCHANGED <<closing, guard, cleanupOk, guardFw, gjournal>>
    BY <1>32 DEF StopBackend, localVars, guardVars
  <2>. QED
    BY <2>1, <2>2, <2>3 DEF ResetFlags, flagVars, TypeOK, FlagTypes
<1>33. CASE WorkerExit
  BY <1>33
    DEF WorkerExit, ShutdownActiveBackend, ResetFlags, DropLinkBestEffort,
        DeleteLink, ClearKernelJournal, flagVars, localVars, guardVars, TypeOK,
        FlagTypes, DataTypes, Requests
<1>34. CASE ProcessExit
  BY <1>34
    DEF ProcessExit, ProcessGone, ResetFlags, guardVars, TypeOK, FlagTypes,
        DataTypes, Requests
<1>35. CASE Restart
  BY <1>35
    DEF Restart, stateVars, flagVars, localVars, osVars, guardVars, TypeOK,
        FlagTypes
<1>36. CASE RepairNet
  BY <1>36
    DEF RepairNet, stateVars, flagVars, localVars, guardVars, TypeOK, FlagTypes
<1>37. CASE RepairGuard
  <2>1. guard' \in BOOLEAN
    BY <1>37 DEF RepairGuard, localVars, TypeOK, FlagTypes
  <2>2. guardFw' \in BOOLEAN
    BY <1>37 DEF RepairGuard, CleanupGuard, guardVars, localVars, TypeOK, FlagTypes
  <2>3. gjournal' \in BOOLEAN
    BY <1>37 DEF RepairGuard, CleanupGuard, guardVars, localVars, TypeOK, FlagTypes
  <2>4. UNCHANGED <<closing, running, flagVars, cleanupOk>>
    BY <1>37 DEF RepairGuard, stateVars, localVars
  <2>. QED
    BY <2>1, <2>2, <2>3, <2>4 DEF flagVars, TypeOK, FlagTypes
<1>38. CASE RepairKernel
  BY <1>38 DEF RepairKernel, flagVars, localVars, guardVars, TypeOK, FlagTypes
<1>39. CASE StartPanics
  BY <1>39
    DEF StartPanics, ResetFlags, CleanupNetwork, Answer, guardVars, TypeOK,
        FlagTypes, DataTypes, Requests
<1>40. CASE Crash
  BY <1>40
    DEF Crash, ProcessGone, ResetFlags, guardVars, TypeOK, FlagTypes, DataTypes,
        Requests
<1>41. CASE UNCHANGED vars
  BY <1>41
    DEF vars, commandVars, flagVars, stateVars, localVars, guardVars, osVars,
        TypeOK, FlagTypes
<1>. QED
  BY <1>1, <1>2, <1>3, <1>4, <1>5, <1>6, <1>7, <1>8, <1>9, <1>10, <1>11, <1>12,
     <1>13, <1>14, <1>15, <1>16, <1>17, <1>18, <1>19, <1>20, <1>21, <1>22, <1>23,
     <1>24, <1>25, <1>26, <1>27, <1>28, <1>29, <1>30, <1>31, <1>32, <1>33, <1>34,
     <1>35, <1>36, <1>37, <1>38, <1>39, <1>40, <1>41
    DEF Next, Commands, Worker, UserspaceStart, KernelStart, Service

(* Every other variable keeps its type; what the devices and journals hold  *)
(* comes from the request or from the slot.                                 *)
LEMMA DataTypesStep ==
  ASSUME TypeOK, [Next]_vars
  PROVE  DataTypes'
<1>1. ASSUME NEW r \in Requests, StartBegin(r)
      PROVE  DataTypes'
  <2>1. CASE active.kind # "none"
    BY <1>1, <2>1, ShutdownEffect
      DEF StartBegin, localVars, TypeOK, DataTypes, Steps, StartSteps, MaybeTun
  <2>2. CASE active.kind = "none"
    BY <1>1, <2>2 DEF StartBegin, localVars, TypeOK, DataTypes, Steps, StartSteps
  <2>. QED
    BY <1>1, <2>1, <2>2
<1>2. CASE StartRejected
  BY <1>2
    DEF StartRejected, stateVars, localVars, osVars, TypeOK, DataTypes, Replies
<1>3. CASE StopRejected
  BY <1>3 DEF StopRejected, stateVars, localVars, osVars, TypeOK, DataTypes, Replies
<1>4. CASE StopBegin
  BY <1>4
    DEF StopBegin, stateVars, localVars, osVars, TypeOK, DataTypes, Steps, StopSteps
<1>5. CASE CloseChannel
  BY <1>5
    DEF CloseChannel, stateVars, localVars, osVars, TypeOK, DataTypes, Steps,
        StopSteps
<1>6. CASE StartResolved
  BY <1>6
    DEF StartResolved, stateVars, localVars, osVars, TypeOK, DataTypes, Steps,
        StartSteps, UserspaceSteps, KernelSteps
<1>7. CASE StartRefused
  BY <1>7
    DEF StartRefused, Answer, localVars, osVars, TypeOK, DataTypes, Steps, Replies
<1>8. CASE UserspaceTake
  <2>1. req.tun \in Tuns
    BY <1>8 DEF TypeOK, DataTypes, Requests
  <2>2. pc' \in Steps /\ reply' \in Replies
    BY <1>8
      DEF UserspaceTake, Answer, TypeOK, DataTypes, Steps, StartSteps,
          UserspaceSteps, Replies
  <2>3. slot' \in [tun: MaybeTun, createdNew: BOOLEAN]
    <3>1. CASE slot' = slot
      BY <1>8, <3>1 DEF TypeOK, DataTypes
    <3>2. CASE slot' = [tun |-> req.tun, createdNew |-> FALSE]
      BY <1>8, <3>2, <2>1 DEF MaybeTun
    <3>3. CASE slot' = [tun |-> req.tun, createdNew |-> TRUE]
      BY <1>8, <3>3, <2>1 DEF MaybeTun
    <3>. QED
      BY <1>8, <3>1, <3>2, <3>3 DEF UserspaceTake
  <2>4. cached' \in MaybeTun
    BY <1>8 DEF UserspaceTake, MaybeTun
  <2>5. dev' \in [Tuns -> Devices]
    BY <1>8 DEF UserspaceTake, TypeOK, DataTypes, Devices, Gotatun
  <2>. QED
    BY <1>8, <2>2, <2>3, <2>4, <2>5 DEF UserspaceTake, TypeOK, DataTypes
<1>9. CASE UserspaceDropOther
  BY <1>9
    DEF UserspaceDropOther, commandVars, localVars, TypeOK, DataTypes, MaybeTun,
        Devices
<1>10. CASE UserspaceConfigure
  BY <1>10
    DEF UserspaceConfigure, stateVars, localVars, TypeOK, DataTypes, Steps, Devices,
        Gotatun, StartSteps, UserspaceSteps
<1>11. CASE UserspaceNet
  BY <1>11
    DEF UserspaceNet, ApplyNetwork, localVars, TypeOK, DataTypes, Requests, Steps,
        MaybeTun, StartSteps, UserspaceSteps
<1>12. CASE UserspaceUpgrade
  BY <1>12
    DEF UserspaceUpgrade, localVars, TypeOK, DataTypes, Steps, Devices, Gotatun,
        StartSteps, UserspaceSteps
<1>13. CASE UserspaceDone
  <2>1. pc' \in Steps /\ reply' \in Replies
    BY <1>13 DEF UserspaceDone, Answer, Steps, Replies
  <2>2. slot' \in [tun: MaybeTun, createdNew: BOOLEAN]
    BY <1>13 DEF UserspaceDone, NoSlot, MaybeTun
  <2>3. slot.tun \in MaybeTun
    BY <1>13 DEF TypeOK, DataTypes
  <2>4. active' \in {NoBackend} \cup {Userspace(t) : t \in MaybeTun}
                      \cup {LinuxKernel(t) : t \in MaybeTun}
    BY <1>13, <2>3 DEF UserspaceDone
  <2>. QED
    BY <1>13, <2>1, <2>2, <2>4 DEF UserspaceDone, osVars, TypeOK, DataTypes
<1>14. CASE UserspaceUnwindNet
  BY <1>14
    DEF UserspaceUnwindNet, TakeNetState, CleanupNetwork, localVars, TypeOK,
        DataTypes, Steps, MaybeTun, StartSteps, UserspaceSteps
<1>15. CASE UserspaceUnwindSlot
  BY <1>15
    DEF UserspaceUnwindSlot, Answer, TypeOK, DataTypes, Steps, Replies, MaybeTun,
        NoSlot, Devices, Gotatun, ClearPeers
<1>16. CASE KernelPrepare
  BY <1>16
    DEF KernelPrepare, DeleteLink, ClearKernelJournal, KernelFailed, Answer,
        localVars, TypeOK, DataTypes, Steps, Replies, MaybeTun, Devices, StartSteps,
        UserspaceSteps, KernelSteps
<1>17. CASE KernelJournalLink
  BY <1>17
    DEF KernelJournalLink, WriteKernelJournal, Answer, stateVars, localVars, TypeOK,
        DataTypes, Requests, Steps, Replies, MaybeTun, StartSteps, KernelSteps
<1>18. CASE KernelCreateLink
  BY <1>18
    DEF KernelCreateLink, ClearKernelJournal, KernelFailed, Answer, stateVars,
        localVars, TypeOK, DataTypes, Steps, Replies, MaybeTun, Devices,
        KernelLinks, StartSteps, UserspaceSteps, KernelSteps
<1>19. CASE KernelRecordLink
  BY <1>19
    DEF KernelRecordLink, WriteKernelJournal, Answer, stateVars, localVars, TypeOK,
        DataTypes, Requests, Steps, Replies, MaybeTun, StartSteps, KernelSteps
<1>20. CASE KernelConfigure
  BY <1>20
    DEF KernelConfigure, DropLinkBestEffort, DeleteLink, ClearKernelJournal,
        KernelFailed, Answer, stateVars, localVars, TypeOK, DataTypes, Steps,
        Replies, MaybeTun, Devices, StartSteps, UserspaceSteps, KernelSteps
<1>21. CASE GuardInstall
  BY <1>21
    DEF GuardInstall, stateVars, localVars, TypeOK, DataTypes, Steps, StartSteps,
        KernelSteps
<1>22. CASE GuardJournal
  <2>1. pc' \in Steps
    BY <1>22 DEF GuardJournal, Steps, StartSteps, KernelSteps
  <2>2. UNCHANGED <<req, reply, cached, active, netState, report, slot, dev, sysnet,
                    kjournal>>
    BY <1>22 DEF GuardJournal, stateVars
  <2>. QED
    BY <1>22, <2>1, <2>2 DEF TypeOK, DataTypes
<1>23. CASE KernelNet
  BY <1>23
    DEF KernelNet, ApplyNetwork, localVars, TypeOK, DataTypes, Requests, Steps,
        MaybeTun, StartSteps, KernelSteps
<1>24. CASE KernelMark
  BY <1>24
    DEF KernelMark, WriteKernelJournal, stateVars, localVars, TypeOK, DataTypes,
        Requests, Steps, MaybeTun, StartSteps, KernelSteps
<1>25. CASE KernelUpgrade
  BY <1>25
    DEF KernelUpgrade, localVars, TypeOK, DataTypes, Steps, Devices, KernelLinks,
        StartSteps, KernelSteps
<1>26. CASE KernelUnguard
  BY <1>26
    DEF KernelUnguard, CleanupGuard, stateVars, TypeOK, DataTypes, Steps,
        StartSteps, KernelSteps
<1>27. CASE KernelDone
  BY <1>27
    DEF KernelDone, Answer, localVars, osVars, TypeOK, DataTypes, Requests, Steps,
        Replies, MaybeTun
<1>28. CASE KernelUnwindGuard
  BY <1>28
    DEF KernelUnwindGuard, stateVars, TypeOK, DataTypes, Steps, StartSteps,
        KernelSteps
<1>29. CASE KernelUnwindNet
  BY <1>29
    DEF KernelUnwindNet, TakeNetState, CleanupNetwork, localVars, TypeOK, DataTypes,
        Steps, MaybeTun, StartSteps, KernelSteps
<1>30. CASE KernelUnwindLink
  BY <1>30
    DEF KernelUnwindLink, DropLinkBestEffort, DeleteLink, ClearKernelJournal,
        Answer, stateVars, localVars, TypeOK, DataTypes, Steps, Replies, MaybeTun,
        Devices
<1>31. CASE StopNet
  BY <1>31
    DEF StopNet, CleanupNetwork, TypeOK, DataTypes, Steps, MaybeTun, StopSteps
<1>32. CASE StopBackend
  BY <1>32
    DEF StopBackend, Answer, StopActiveBackend, DeleteLink, ClearKernelJournal,
        localVars, TypeOK, DataTypes, Steps, Replies, MaybeTun, Devices, Gotatun,
        NoBackend, Userspace, LinuxKernel, ClearPeers
<1>33. CASE WorkerExit
  <2>1. CASE active.kind # "none"
    BY <1>33, <2>1, ShutdownEffect
      DEF WorkerExit, localVars, TypeOK, DataTypes, MaybeTun
  <2>2. CASE active.kind = "none"
    BY <1>33, <2>2
      DEF WorkerExit, localVars, TypeOK, DataTypes, MaybeTun, Steps, Devices
  <2>. QED
    BY <1>33, <2>1, <2>2
<1>34. CASE ProcessExit
  BY <1>34
    DEF ProcessExit, ProcessGone, TypeOK, DataTypes, Steps, MaybeTun, NoSlot,
        Devices, RepairSteps
<1>35. CASE Restart
  BY <1>35
    DEF Restart, stateVars, localVars, osVars, TypeOK, DataTypes, Steps, RepairSteps
<1>36. CASE RepairNet
  BY <1>36
    DEF RepairNet, CleanupNetwork, stateVars, localVars, TypeOK, DataTypes, Steps,
        RepairSteps
<1>37. CASE RepairGuard
  BY <1>37
    DEF RepairGuard, CleanupGuard, stateVars, localVars, TypeOK, DataTypes, Steps,
        RepairSteps
<1>38. CASE RepairKernel
  BY <1>38
    DEF RepairKernel, DeleteLink, ClearKernelJournal, localVars, TypeOK, DataTypes,
        Steps, MaybeTun, Devices, RepairSteps
<1>39. CASE StartPanics
  BY <1>39
    DEF StartPanics, CleanupNetwork, Answer, TypeOK, DataTypes, Steps, Replies,
        MaybeTun, NoSlot, Devices
<1>40. CASE Crash
  BY <1>40
    DEF Crash, ProcessGone, TypeOK, DataTypes, Steps, MaybeTun, NoSlot, Devices,
        RepairSteps
<1>41. CASE UNCHANGED vars
  BY <1>41 DEF vars, commandVars, stateVars, localVars, osVars, TypeOK, DataTypes
<1>. QED
  BY <1>1, <1>2, <1>3, <1>4, <1>5, <1>6, <1>7, <1>8, <1>9, <1>10, <1>11, <1>12,
     <1>13, <1>14, <1>15, <1>16, <1>17, <1>18, <1>19, <1>20, <1>21, <1>22, <1>23,
     <1>24, <1>25, <1>26, <1>27, <1>28, <1>29, <1>30, <1>31, <1>32, <1>33, <1>34,
     <1>35, <1>36, <1>37, <1>38, <1>39, <1>40, <1>41
    DEF Next, Commands, Worker, UserspaceStart, KernelStart, Service

(* Which steps have a session, and whose the slot is: a session appears     *)
(* only with the last step of a start and goes with the stop.               *)
LEMMA WorkerControlStep ==
  ASSUME TypeOK, WorkerControl, [Next]_vars
  PROVE  WorkerControl'
<1>1. ASSUME NEW r \in Requests, StartBegin(r)
      PROVE  WorkerControl'
  <2>1. pc' = "resolve" /\ ~closing'
    BY <1>1 DEF StartBegin, WorkerControl
  <2>2. CASE active.kind # "none"
    BY <1>1, <2>1, <2>2, ShutdownEffect
      DEF StartBegin, WorkerControl, StopSteps, SlotSteps, NoBackend
  <2>3. CASE active.kind = "none"
    BY <1>1, <2>1, <2>3, ActiveKinds
      DEF StartBegin, WorkerControl, StopSteps, SlotSteps
  <2>. QED
    BY <1>1, <2>2, <2>3
<1>2. CASE StartRejected
  BY <1>2 DEF StartRejected, stateVars, WorkerControl, SlotSteps
<1>3. CASE StopRejected
  BY <1>3 DEF StopRejected, stateVars, WorkerControl, SlotSteps
<1>4. CASE StopBegin
  BY <1>4
    DEF StopBegin, stateVars, WorkerControl, SlotSteps, StartSteps, UserspaceSteps,
        KernelSteps, RepairSteps
<1>5. CASE CloseChannel
  BY <1>5
    DEF CloseChannel, stateVars, WorkerControl, SlotSteps, StartSteps,
        UserspaceSteps, KernelSteps, StopSteps, RepairSteps
<1>6. CASE StartResolved
  BY <1>6
    DEF StartResolved, stateVars, WorkerControl, SlotSteps, StartSteps, StopSteps
<1>7. CASE StartRefused
  BY <1>7 DEF StartRefused, Answer, WorkerControl, SlotSteps, StartSteps, StopSteps
<1>8. CASE UserspaceTake
  BY <1>8
    DEF UserspaceTake, Answer, WorkerControl, SlotSteps, StartSteps, UserspaceSteps,
        StopSteps
<1>9. CASE UserspaceDropOther
  BY <1>9 DEF UserspaceDropOther, commandVars, WorkerControl, SlotSteps
<1>10. CASE UserspaceConfigure
  BY <1>10
    DEF UserspaceConfigure, stateVars, localVars, WorkerControl, SlotSteps,
        StartSteps, UserspaceSteps, StopSteps
<1>11. CASE UserspaceNet
  BY <1>11
    DEF UserspaceNet, ApplyNetwork, localVars, WorkerControl, SlotSteps, StartSteps,
        UserspaceSteps, StopSteps
<1>12. CASE UserspaceUpgrade
  BY <1>12
    DEF UserspaceUpgrade, localVars, WorkerControl, SlotSteps, StartSteps,
        UserspaceSteps, StopSteps
<1>13. CASE UserspaceDone
  <2>1. slot.tun \in Tuns /\ ~closing
    BY <1>13
      DEF UserspaceDone, WorkerControl, SlotSteps, StartSteps, UserspaceSteps,
          TypeOK, DataTypes, Requests
  <2>2. pc' = "idle" /\ ~closing'
    BY <1>13, <2>1 DEF UserspaceDone, Answer
  <2>3. active'.tun \in Tuns
    BY <1>13, <2>1 DEF UserspaceDone, Userspace
  <2>. QED
    BY <1>13, <2>2, <2>3
      DEF WorkerControl, StartSteps, UserspaceSteps, KernelSteps, RepairSteps,
          StopSteps, SlotSteps
<1>14. CASE UserspaceUnwindNet
  BY <1>14
    DEF UserspaceUnwindNet, TakeNetState, localVars, WorkerControl, SlotSteps,
        StartSteps, UserspaceSteps, StopSteps
<1>15. CASE UserspaceUnwindSlot
  BY <1>15
    DEF UserspaceUnwindSlot, Answer, WorkerControl, SlotSteps, StartSteps,
        UserspaceSteps, StopSteps
<1>16. CASE KernelPrepare
  BY <1>16
    DEF KernelPrepare, DeleteLink, ClearKernelJournal, KernelFailed, Answer,
        WorkerControl, SlotSteps, StartSteps, KernelSteps, StopSteps
<1>17. CASE KernelJournalLink
  BY <1>17
    DEF KernelJournalLink, WriteKernelJournal, Answer, stateVars, WorkerControl,
        SlotSteps, StartSteps, KernelSteps, StopSteps
<1>18. CASE KernelCreateLink
  BY <1>18
    DEF KernelCreateLink, KernelFailed, Answer, stateVars, WorkerControl, SlotSteps,
        StartSteps, KernelSteps, StopSteps
<1>19. CASE KernelRecordLink
  BY <1>19
    DEF KernelRecordLink, WriteKernelJournal, Answer, stateVars, WorkerControl,
        SlotSteps, StartSteps, KernelSteps, StopSteps
<1>20. CASE KernelConfigure
  BY <1>20
    DEF KernelConfigure, KernelFailed, Answer, stateVars, WorkerControl, SlotSteps,
        StartSteps, KernelSteps, StopSteps
<1>21. CASE GuardInstall
  BY <1>21
    DEF GuardInstall, stateVars, WorkerControl, SlotSteps, StartSteps, KernelSteps,
        StopSteps
<1>22. CASE GuardJournal
  BY <1>22
    DEF GuardJournal, stateVars, flagVars, WorkerControl, SlotSteps, StartSteps,
        UserspaceSteps, KernelSteps, StopSteps, RepairSteps, NoBackend
<1>23. CASE KernelNet
  BY <1>23
    DEF KernelNet, ApplyNetwork, WorkerControl, SlotSteps, StartSteps, KernelSteps,
        StopSteps
<1>24. CASE KernelMark
  BY <1>24
    DEF KernelMark, WriteKernelJournal, stateVars, WorkerControl, SlotSteps,
        StartSteps, KernelSteps, StopSteps
<1>25. CASE KernelUpgrade
  BY <1>25
    DEF KernelUpgrade, WorkerControl, SlotSteps, StartSteps, KernelSteps, StopSteps
<1>26. CASE KernelUnguard
  BY <1>26
    DEF KernelUnguard, CleanupGuard, stateVars, WorkerControl, SlotSteps,
        StartSteps, KernelSteps, StopSteps
<1>27. CASE KernelDone
  <2>1. req.tun \in Tuns /\ ~closing
    BY <1>27
      DEF KernelDone, WorkerControl, StartSteps, KernelSteps, TypeOK, DataTypes,
          Requests
  <2>2. pc' = "idle" /\ ~closing'
    BY <1>27, <2>1 DEF KernelDone, Answer
  <2>3. active'.tun \in Tuns
    BY <1>27, <2>1 DEF KernelDone, LinuxKernel
  <2>. QED
    BY <1>27, <2>2, <2>3
      DEF WorkerControl, StartSteps, UserspaceSteps, KernelSteps, RepairSteps,
          StopSteps, SlotSteps
<1>28. CASE KernelUnwindGuard
  BY <1>28
    DEF KernelUnwindGuard, stateVars, WorkerControl, SlotSteps, StartSteps,
        KernelSteps, StopSteps
<1>29. CASE KernelUnwindNet
  BY <1>29
    DEF KernelUnwindNet, TakeNetState, WorkerControl, SlotSteps, StartSteps,
        KernelSteps, StopSteps
<1>30. CASE KernelUnwindLink
  BY <1>30
    DEF KernelUnwindLink, Answer, stateVars, WorkerControl, SlotSteps, StartSteps,
        KernelSteps, StopSteps
<1>31. CASE StopNet
  BY <1>31
    DEF StopNet, WorkerControl, SlotSteps, StartSteps, UserspaceSteps, KernelSteps,
        StopSteps, RepairSteps
<1>32. CASE StopBackend
  BY <1>32
    DEF StopBackend, Answer, StopActiveBackend, DeleteLink, WorkerControl,
        SlotSteps, StartSteps, UserspaceSteps, KernelSteps, StopSteps, RepairSteps,
        NoBackend
<1>33. CASE WorkerExit
  <2>1. CASE active.kind # "none"
    BY <1>33, <2>1, ShutdownEffect
      DEF WorkerExit, WorkerControl, StopSteps, SlotSteps, NoBackend
  <2>2. CASE active.kind = "none"
    BY <1>33, <2>2, ActiveKinds
      DEF WorkerExit, WorkerControl, StartSteps, UserspaceSteps, KernelSteps,
          RepairSteps, StopSteps, SlotSteps
  <2>. QED
    BY <1>33, <2>1, <2>2
<1>34. CASE ProcessExit
  BY <1>34 DEF ProcessExit, ProcessGone, WorkerControl, SlotSteps, StopSteps
<1>35. CASE Restart
  BY <1>35 DEF Restart, stateVars, WorkerControl, SlotSteps, StopSteps, RepairSteps
<1>36. CASE RepairNet
  BY <1>36
    DEF RepairNet, CleanupNetwork, stateVars, WorkerControl, SlotSteps, StopSteps,
        RepairSteps
<1>37. CASE RepairGuard
  BY <1>37
    DEF RepairGuard, CleanupGuard, stateVars, WorkerControl, SlotSteps, StopSteps,
        RepairSteps
<1>38. CASE RepairKernel
  <2>1. UNCHANGED <<closing, running, active, slot, req>>
    BY <1>38 DEF RepairKernel, localVars
  <2>2. ~closing /\ ~running /\ active = NoBackend
    BY <1>38 DEF RepairKernel, WorkerControl, RepairSteps
  <2>3. pc' \in {"idle", "down"}
    BY <1>38 DEF RepairKernel
  <2>. QED
    BY <1>38, <2>1, <2>2, <2>3 DEF WorkerControl, StopSteps, SlotSteps
<1>39. CASE StartPanics
  BY <1>39 DEF StartPanics, Answer, WorkerControl, SlotSteps, StopSteps
<1>40. CASE Crash
  BY <1>40 DEF Crash, ProcessGone, WorkerControl, SlotSteps, StopSteps, NoBackend
<1>41. CASE UNCHANGED vars
  BY <1>41 DEF vars, commandVars, stateVars, localVars, WorkerControl
<1>. QED
  BY <1>1, <1>2, <1>3, <1>4, <1>5, <1>6, <1>7, <1>8, <1>9, <1>10, <1>11, <1>12,
     <1>13, <1>14, <1>15, <1>16, <1>17, <1>18, <1>19, <1>20, <1>21, <1>22, <1>23,
     <1>24, <1>25, <1>26, <1>27, <1>28, <1>29, <1>30, <1>31, <1>32, <1>33, <1>34,
     <1>35, <1>36, <1>37, <1>38, <1>39, <1>40, <1>41
    DEF Next, Commands, Worker, UserspaceStart, KernelStart, Service

(* A device enters the cache when its start or its session ends, without    *)
(* peers, and leaves it before another device is touched.                   *)
LEMMA CacheStep ==
  ASSUME TypeOK, WorkerControl, Cache, [Next]_vars
  PROVE  Cache'
<1>1. ASSUME NEW r \in Requests, StartBegin(r)
      PROVE  Cache'
  BY <1>1
    DEF StartBegin, ResetFlags, ShutdownActiveBackend, DropLinkBestEffort,
        DeleteLink, ClearKernelJournal, localVars, guardVars, TypeOK, DataTypes,
        Requests, Cache, CacheIsIdle, WorkerControl, SlotSteps, StartSteps,
        UserspaceSteps, KernelSteps, StopSteps, RepairSteps, NoBackend, Userspace,
        LinuxKernel
<1>2. CASE StartRejected
  BY <1>2 DEF StartRejected, stateVars, Cache, CacheIsIdle
<1>3. CASE StopRejected
  BY <1>3 DEF StopRejected, stateVars, osVars, Cache, CacheIsIdle
<1>4. CASE StopBegin
  BY <1>4 DEF StopBegin, stateVars, Cache, CacheIsIdle
<1>5. CASE CloseChannel
  BY <1>5 DEF CloseChannel, stateVars, osVars, Cache, CacheIsIdle
<1>6. CASE StartResolved
  BY <1>6 DEF StartResolved, stateVars, osVars, Cache, CacheIsIdle
<1>7. CASE StartRefused
  BY <1>7 DEF StartRefused, Answer, osVars, Cache, CacheIsIdle
<1>8. CASE UserspaceTake
  BY <1>8 DEF UserspaceTake, Cache, CacheIsIdle
<1>9. CASE UserspaceDropOther
  BY <1>9 DEF UserspaceDropOther, Cache, CacheIsIdle
<1>10. CASE UserspaceConfigure
  BY <1>10 DEF UserspaceConfigure, stateVars, Cache, CacheIsIdle
<1>11. CASE UserspaceNet
  BY <1>11 DEF UserspaceNet, Cache, CacheIsIdle
<1>12. CASE UserspaceUpgrade
  BY <1>12 DEF UserspaceUpgrade, Cache, CacheIsIdle
<1>13. CASE UserspaceDone
  BY <1>13 DEF UserspaceDone, Cache, CacheIsIdle
<1>14. CASE UserspaceUnwindNet
  BY <1>14 DEF UserspaceUnwindNet, Cache, CacheIsIdle
<1>15. CASE UserspaceUnwindSlot
  BY <1>15
    DEF UserspaceUnwindSlot, Answer, TypeOK, DataTypes, Requests, Cache,
        CacheIsIdle, WorkerControl, SlotSteps, StartSteps, UserspaceSteps,
        NoBackend, ClearPeers
<1>16. CASE KernelPrepare
  BY <1>16
    DEF KernelPrepare, DeleteLink, ClearKernelJournal, KernelFailed, Cache,
        CacheIsIdle
<1>17. CASE KernelJournalLink
  BY <1>17 DEF KernelJournalLink, stateVars, Cache, CacheIsIdle
<1>18. CASE KernelCreateLink
  BY <1>18 DEF KernelCreateLink, stateVars, Cache, CacheIsIdle
<1>19. CASE KernelRecordLink
  BY <1>19 DEF KernelRecordLink, stateVars, Cache, CacheIsIdle
<1>20. CASE KernelConfigure
  BY <1>20 DEF KernelConfigure, stateVars, Cache, CacheIsIdle
<1>21. CASE GuardInstall
  BY <1>21 DEF GuardInstall, stateVars, Cache, CacheIsIdle
<1>22. CASE GuardJournal
  BY <1>22 DEF GuardJournal, stateVars, Cache, CacheIsIdle
<1>23. CASE KernelNet
  BY <1>23 DEF KernelNet, Cache, CacheIsIdle
<1>24. CASE KernelMark
  BY <1>24 DEF KernelMark, stateVars, Cache, CacheIsIdle
<1>25. CASE KernelUpgrade
  BY <1>25 DEF KernelUpgrade, Cache, CacheIsIdle
<1>26. CASE KernelUnguard
  BY <1>26 DEF KernelUnguard, stateVars, Cache, CacheIsIdle
<1>27. CASE KernelDone
  BY <1>27 DEF KernelDone, Cache, CacheIsIdle
<1>28. CASE KernelUnwindGuard
  BY <1>28 DEF KernelUnwindGuard, stateVars, Cache, CacheIsIdle
<1>29. CASE KernelUnwindNet
  BY <1>29 DEF KernelUnwindNet, Cache, CacheIsIdle
<1>30. CASE KernelUnwindLink
  BY <1>30 DEF KernelUnwindLink, stateVars, Cache, CacheIsIdle
<1>31. CASE StopNet
  BY <1>31 DEF StopNet, Cache, CacheIsIdle
<1>32. CASE StopBackend
  <2>1. cached = NoTun
    BY <1>32 DEF StopBackend, Cache
  <2>2. CASE cached' = NoTun
    BY <1>32, <2>2 DEF Cache, CacheIsIdle
  <2>3. CASE cached' # NoTun
    <3>1. /\ active.tun \in Tuns /\ active' = NoBackend /\ cached' = active.tun
          /\ dev' = [dev EXCEPT ![active.tun] = "tunClear"]
      BY <1>32, <2>1, <2>3
        DEF StopBackend, StopActiveBackend, WorkerControl, ClearPeers
    <3>2. ~running' /\ pc' \in {"idle", "cShutdown"}
      BY <1>32, <2>1, <2>3 DEF StopBackend, StopActiveBackend, Answer, ClearPeers
    <3>3. dev'[cached'] = "tunClear"
      BY <1>32, <3>1 DEF TypeOK, DataTypes
    <3>. QED
      BY <1>32, <3>1, <3>2, <3>3 DEF Cache, CacheIsIdle, NoBackend
  <2>. QED
    BY <1>32, <2>2, <2>3
<1>33. CASE WorkerExit
  BY <1>33
    DEF WorkerExit, ShutdownActiveBackend, ResetFlags, DropLinkBestEffort,
        DeleteLink, ClearKernelJournal, flagVars, localVars, guardVars, TypeOK,
        DataTypes, Requests, Cache, CacheIsIdle, WorkerControl, SlotSteps,
        StartSteps, UserspaceSteps, KernelSteps, StopSteps, RepairSteps, NoBackend,
        Userspace, LinuxKernel
<1>34. CASE ProcessExit
  BY <1>34 DEF ProcessExit, ProcessGone, Cache, CacheIsIdle
<1>35. CASE Restart
  BY <1>35 DEF Restart, stateVars, Cache, CacheIsIdle
<1>36. CASE RepairNet
  BY <1>36 DEF RepairNet, stateVars, Cache, CacheIsIdle
<1>37. CASE RepairGuard
  BY <1>37 DEF RepairGuard, stateVars, Cache, CacheIsIdle
<1>38. CASE RepairKernel
  BY <1>38 DEF RepairKernel, Cache, CacheIsIdle
<1>39. CASE StartPanics
  BY <1>39 DEF StartPanics, Cache, CacheIsIdle
<1>40. CASE Crash
  BY <1>40 DEF Crash, ProcessGone, Cache, CacheIsIdle
<1>41. CASE UNCHANGED vars
  BY <1>41 DEF vars, commandVars, stateVars, osVars, Cache, CacheIsIdle
<1>. QED
  BY <1>1, <1>2, <1>3, <1>4, <1>5, <1>6, <1>7, <1>8, <1>9, <1>10, <1>11, <1>12,
     <1>13, <1>14, <1>15, <1>16, <1>17, <1>18, <1>19, <1>20, <1>21, <1>22, <1>23,
     <1>24, <1>25, <1>26, <1>27, <1>28, <1>29, <1>30, <1>31, <1>32, <1>33, <1>34,
     <1>35, <1>36, <1>37, <1>38, <1>39, <1>40, <1>41
    DEF Next, Commands, Worker, UserspaceStart, KernelStart, Service

(* The network state moves between the start, the session and the cleanup;  *)
(* none of them drops it while its configuration is in effect.              *)
LEMMA NetOwnedStep ==
  ASSUME TypeOK, WorkerControl, NetOwned, [Next]_vars
  PROVE  NetOwned'
<1>1. ASSUME NEW r \in Requests, StartBegin(r)
      PROVE  NetOwned'
  BY <1>1
    DEF StartBegin, ResetFlags, ShutdownActiveBackend, DropLinkBestEffort,
        DeleteLink, ClearKernelJournal, localVars, guardVars, WorkerControl,
        NetOwned, AppliedIsOwned, TypeOK, DataTypes, Requests, SlotSteps,
        AppliedSteps, StartSteps, UserspaceSteps, KernelSteps, StopSteps,
        RepairSteps, NoBackend, Userspace, LinuxKernel
<1>2. CASE StartRejected
  BY <1>2 DEF StartRejected, stateVars, osVars, NetOwned, AppliedIsOwned
<1>3. CASE StopRejected
  BY <1>3 DEF StopRejected, stateVars, osVars, NetOwned, AppliedIsOwned
<1>4. CASE StopBegin
  BY <1>4 DEF StopBegin, stateVars, osVars, NetOwned, AppliedIsOwned, AppliedSteps
<1>5. CASE CloseChannel
  BY <1>5
    DEF CloseChannel, stateVars, osVars, NetOwned, AppliedIsOwned, AppliedSteps
<1>6. CASE StartResolved
  BY <1>6
    DEF StartResolved, stateVars, osVars, NetOwned, AppliedIsOwned, AppliedSteps
<1>7. CASE StartRefused
  BY <1>7 DEF StartRefused, osVars, NetOwned, AppliedIsOwned, AppliedSteps
<1>8. CASE UserspaceTake
  BY <1>8 DEF UserspaceTake, NetOwned, AppliedIsOwned, AppliedSteps
<1>9. CASE UserspaceDropOther
  BY <1>9 DEF UserspaceDropOther, commandVars, NetOwned, AppliedIsOwned
<1>10. CASE UserspaceConfigure
  BY <1>10 DEF UserspaceConfigure, stateVars, NetOwned, AppliedIsOwned, AppliedSteps
<1>11. CASE UserspaceNet
  BY <1>11
    DEF UserspaceNet, ApplyNetwork, NetOwned, AppliedIsOwned, TypeOK, DataTypes,
        Requests, AppliedSteps
<1>12. CASE UserspaceUpgrade
  BY <1>12 DEF UserspaceUpgrade, NetOwned, AppliedIsOwned, AppliedSteps
<1>13. CASE UserspaceDone
  <2>1. slot.tun = req.tun /\ ~closing
    BY <1>13 DEF UserspaceDone, WorkerControl, SlotSteps, StartSteps, UserspaceSteps
  <2>2. netState # NoTun => netState = req.tun
    BY <1>13 DEF UserspaceDone, NetOwned
  <2>3. active'.tun = req.tun
    BY <1>13, <2>1 DEF UserspaceDone, Userspace
  <2>4. pc' = "idle"
    BY <1>13, <2>1 DEF UserspaceDone, Answer
  <2>. QED
    BY <1>13, <2>2, <2>3, <2>4 DEF NetOwned, AppliedIsOwned, UserspaceDone, osVars
<1>14. CASE UserspaceUnwindNet
  BY <1>14
    DEF UserspaceUnwindNet, TakeNetState, CleanupNetwork, NetOwned, AppliedIsOwned
<1>15. CASE UserspaceUnwindSlot
  BY <1>15 DEF UserspaceUnwindSlot, NetOwned, AppliedIsOwned, AppliedSteps
<1>16. CASE KernelPrepare
  BY <1>16 DEF KernelPrepare, NetOwned, AppliedIsOwned, AppliedSteps
<1>17. CASE KernelJournalLink
  BY <1>17 DEF KernelJournalLink, stateVars, NetOwned, AppliedIsOwned, AppliedSteps
<1>18. CASE KernelCreateLink
  BY <1>18 DEF KernelCreateLink, stateVars, NetOwned, AppliedIsOwned, AppliedSteps
<1>19. CASE KernelRecordLink
  BY <1>19 DEF KernelRecordLink, stateVars, NetOwned, AppliedIsOwned, AppliedSteps
<1>20. CASE KernelConfigure
  BY <1>20 DEF KernelConfigure, stateVars, NetOwned, AppliedIsOwned, AppliedSteps
<1>21. CASE GuardInstall
  BY <1>21 DEF GuardInstall, stateVars, NetOwned, AppliedIsOwned, AppliedSteps
<1>22. CASE GuardJournal
  BY <1>22 DEF GuardJournal, stateVars, NetOwned, AppliedIsOwned, AppliedSteps
<1>23. CASE KernelNet
  BY <1>23
    DEF KernelNet, ApplyNetwork, NetOwned, AppliedIsOwned, TypeOK, DataTypes,
        Requests, AppliedSteps
<1>24. CASE KernelMark
  BY <1>24
    DEF KernelMark, WriteKernelJournal, stateVars, NetOwned, AppliedIsOwned,
        AppliedSteps
<1>25. CASE KernelUpgrade
  BY <1>25 DEF KernelUpgrade, NetOwned, AppliedIsOwned, AppliedSteps
<1>26. CASE KernelUnguard
  BY <1>26
    DEF KernelUnguard, CleanupGuard, stateVars, NetOwned, AppliedIsOwned,
        AppliedSteps
<1>27. CASE KernelDone
  <2>1. ~closing
    BY <1>27 DEF KernelDone, WorkerControl, StartSteps, KernelSteps
  <2>2. netState # NoTun => netState = req.tun
    BY <1>27 DEF KernelDone, NetOwned
  <2>3. active'.tun = req.tun
    BY <1>27 DEF KernelDone, LinuxKernel
  <2>4. pc' = "idle"
    BY <1>27, <2>1 DEF KernelDone, Answer
  <2>. QED
    BY <1>27, <2>2, <2>3, <2>4 DEF NetOwned, AppliedIsOwned, KernelDone, osVars
<1>28. CASE KernelUnwindGuard
  BY <1>28 DEF KernelUnwindGuard, stateVars, NetOwned, AppliedIsOwned, AppliedSteps
<1>29. CASE KernelUnwindNet
  BY <1>29
    DEF KernelUnwindNet, TakeNetState, CleanupNetwork, NetOwned, AppliedIsOwned
<1>30. CASE KernelUnwindLink
  BY <1>30 DEF KernelUnwindLink, stateVars, NetOwned, AppliedIsOwned, AppliedSteps
<1>31. CASE StopNet
  BY <1>31 DEF StopNet, CleanupNetwork, NetOwned, AppliedIsOwned
<1>32. CASE StopBackend
  BY <1>32 DEF StopBackend, NetOwned, AppliedIsOwned, AppliedSteps
<1>33. CASE WorkerExit
  BY <1>33
    DEF WorkerExit, ShutdownActiveBackend, ResetFlags, DropLinkBestEffort,
        DeleteLink, ClearKernelJournal, flagVars, localVars, guardVars,
        WorkerControl, NetOwned, AppliedIsOwned, TypeOK, DataTypes, Requests,
        SlotSteps, AppliedSteps, StartSteps, UserspaceSteps, KernelSteps, StopSteps,
        RepairSteps, NoBackend, Userspace, LinuxKernel
<1>34. CASE ProcessExit
  BY <1>34 DEF ProcessExit, ProcessGone, NetOwned, AppliedIsOwned
<1>35. CASE Restart
  BY <1>35 DEF Restart, stateVars, NetOwned, AppliedIsOwned, AppliedSteps
<1>36. CASE RepairNet
  BY <1>36
    DEF RepairNet, CleanupNetwork, stateVars, NetOwned, AppliedIsOwned, AppliedSteps
<1>37. CASE RepairGuard
  BY <1>37 DEF RepairGuard, stateVars, NetOwned, AppliedIsOwned, AppliedSteps
<1>38. CASE RepairKernel
  BY <1>38 DEF RepairKernel, NetOwned, AppliedIsOwned, AppliedSteps
<1>39. CASE StartPanics
  BY <1>39
    DEF StartPanics, CleanupNetwork, NetOwned, AppliedIsOwned, StartSteps,
        UserspaceSteps, KernelSteps
<1>40. CASE Crash
  BY <1>40 DEF Crash, ProcessGone, NetOwned, AppliedIsOwned
<1>41. CASE UNCHANGED vars
  BY <1>41 DEF vars, commandVars, stateVars, osVars, NetOwned, AppliedIsOwned
<1>. QED
  BY <1>1, <1>2, <1>3, <1>4, <1>5, <1>6, <1>7, <1>8, <1>9, <1>10, <1>11, <1>12,
     <1>13, <1>14, <1>15, <1>16, <1>17, <1>18, <1>19, <1>20, <1>21, <1>22, <1>23,
     <1>24, <1>25, <1>26, <1>27, <1>28, <1>29, <1>30, <1>31, <1>32, <1>33, <1>34,
     <1>35, <1>36, <1>37, <1>38, <1>39, <1>40, <1>41
    DEF Next, Commands, Worker, UserspaceStart, KernelStart, Service

(* The journal is written before the link is made, and no step clears it    *)
(* while the link is the session's.                                         *)
LEMMA JournalStep ==
  ASSUME TypeOK, WorkerControl, KernelSessionJournaled, [Next]_vars
  PROVE  KernelSessionJournaled'
<1>1. ASSUME NEW r \in Requests, StartBegin(r)
      PROVE  KernelSessionJournaled'
  <2>1. active'.kind # "kernel"
    <3>1. CASE active.kind # "none"
      BY <1>1, <3>1, ShutdownEffect DEF StartBegin, NoBackend
    <3>2. CASE active.kind = "none"
      BY <1>1, <3>2 DEF StartBegin
    <3>. QED
      BY <1>1, <3>1, <3>2
  <2>2. pc' = "resolve"
    BY <1>1 DEF StartBegin
  <2>. QED
    BY <1>1, <2>1, <2>2 DEF KernelSessionJournaled, KernelSteps
<1>2. CASE StartRejected
  BY <1>2 DEF StartRejected, stateVars, osVars, KernelSessionJournaled
<1>3. CASE StopRejected
  BY <1>3 DEF StopRejected, stateVars, osVars, KernelSessionJournaled
<1>4. CASE StopBegin
  BY <1>4 DEF StopBegin, stateVars, osVars, KernelSessionJournaled, KernelSteps
<1>5. CASE CloseChannel
  BY <1>5 DEF CloseChannel, stateVars, osVars, KernelSessionJournaled, KernelSteps
<1>6. CASE StartResolved
  BY <1>6 DEF StartResolved, stateVars, osVars, KernelSessionJournaled, KernelSteps
<1>7. CASE StartRefused
  BY <1>7 DEF StartRefused, Answer, osVars, KernelSessionJournaled, KernelSteps
<1>8. CASE UserspaceTake
  BY <1>8 DEF UserspaceTake, Answer, KernelSessionJournaled, KernelSteps
<1>9. CASE UserspaceDropOther
  BY <1>9 DEF UserspaceDropOther, commandVars, KernelSessionJournaled
<1>10. CASE UserspaceConfigure
  BY <1>10 DEF UserspaceConfigure, stateVars, KernelSessionJournaled, KernelSteps
<1>11. CASE UserspaceNet
  BY <1>11 DEF UserspaceNet, ApplyNetwork, KernelSessionJournaled, KernelSteps
<1>12. CASE UserspaceUpgrade
  BY <1>12 DEF UserspaceUpgrade, KernelSessionJournaled, KernelSteps
<1>13. CASE UserspaceDone
  BY <1>13 DEF UserspaceDone, Answer, KernelSessionJournaled, KernelSteps, Userspace
<1>14. CASE UserspaceUnwindNet
  BY <1>14 DEF UserspaceUnwindNet, TakeNetState, KernelSessionJournaled, KernelSteps
<1>15. CASE UserspaceUnwindSlot
  BY <1>15 DEF UserspaceUnwindSlot, Answer, KernelSessionJournaled, KernelSteps
<1>16. CASE KernelPrepare
  BY <1>16
    DEF KernelPrepare, DeleteLink, ClearKernelJournal, KernelFailed, WorkerControl,
        KernelSessionJournaled, StartSteps, KernelSteps, NoBackend
<1>17. CASE KernelJournalLink
  BY <1>17
    DEF KernelJournalLink, WriteKernelJournal, Answer, stateVars, WorkerControl,
        KernelSessionJournaled, StartSteps, KernelSteps, NoBackend
<1>18. CASE KernelCreateLink
  BY <1>18
    DEF KernelCreateLink, KernelFailed, Answer, stateVars, WorkerControl,
        KernelSessionJournaled, StartSteps, KernelSteps, NoBackend
<1>19. CASE KernelRecordLink
  BY <1>19
    DEF KernelRecordLink, WriteKernelJournal, stateVars, KernelSessionJournaled,
        KernelSteps
<1>20. CASE KernelConfigure
  BY <1>20
    DEF KernelConfigure, KernelFailed, Answer, stateVars, WorkerControl,
        KernelSessionJournaled, StartSteps, KernelSteps, NoBackend
<1>21. CASE GuardInstall
  BY <1>21 DEF GuardInstall, stateVars, KernelSessionJournaled, KernelSteps
<1>22. CASE GuardJournal
  BY <1>22 DEF GuardJournal, stateVars, KernelSessionJournaled, KernelSteps
<1>23. CASE KernelNet
  BY <1>23 DEF KernelNet, KernelSessionJournaled, KernelSteps
<1>24. CASE KernelMark
  BY <1>24
    DEF KernelMark, WriteKernelJournal, stateVars, KernelSessionJournaled,
        KernelSteps
<1>25. CASE KernelUpgrade
  BY <1>25 DEF KernelUpgrade, KernelSessionJournaled, KernelSteps
<1>26. CASE KernelUnguard
  BY <1>26 DEF KernelUnguard, stateVars, KernelSessionJournaled, KernelSteps
<1>27. CASE KernelDone
  BY <1>27 DEF KernelDone, osVars, KernelSessionJournaled, KernelSteps, LinuxKernel
<1>28. CASE KernelUnwindGuard
  BY <1>28 DEF KernelUnwindGuard, stateVars, KernelSessionJournaled, KernelSteps
<1>29. CASE KernelUnwindNet
  BY <1>29 DEF KernelUnwindNet, TakeNetState, KernelSessionJournaled
<1>30. CASE KernelUnwindLink
  BY <1>30
    DEF KernelUnwindLink, Answer, stateVars, WorkerControl, KernelSessionJournaled,
        StartSteps, KernelSteps, NoBackend
<1>31. CASE StopNet
  BY <1>31 DEF StopNet, KernelSessionJournaled, KernelSteps
<1>32. CASE StopBackend
  BY <1>32
    DEF StopBackend, Answer, StopActiveBackend, DeleteLink, KernelSessionJournaled,
        KernelSteps, NoBackend
<1>33. CASE WorkerExit
  <2>1. CASE active.kind # "none"
    <3>1. active' = NoBackend /\ pc' = "cShutdown"
      BY <1>33, <2>1, ShutdownEffect DEF WorkerExit
    <3>. QED
      BY <3>1 DEF KernelSessionJournaled, KernelSteps, NoBackend
  <2>2. CASE active.kind = "none"
    BY <1>33, <2>2 DEF WorkerExit, KernelSessionJournaled, KernelSteps
  <2>. QED
    BY <1>33, <2>1, <2>2
<1>34. CASE ProcessExit
  BY <1>34
    DEF ProcessExit, ProcessGone, WorkerControl, KernelSessionJournaled, KernelSteps
<1>35. CASE Restart
  BY <1>35 DEF Restart, stateVars, osVars, KernelSessionJournaled, KernelSteps
<1>36. CASE RepairNet
  BY <1>36
    DEF RepairNet, CleanupNetwork, stateVars, KernelSessionJournaled, KernelSteps
<1>37. CASE RepairGuard
  BY <1>37
    DEF RepairGuard, CleanupGuard, stateVars, KernelSessionJournaled, KernelSteps
<1>38. CASE RepairKernel
  BY <1>38
    DEF RepairKernel, DeleteLink, WorkerControl, KernelSessionJournaled,
        KernelSteps, RepairSteps, NoBackend
<1>39. CASE StartPanics
  BY <1>39 DEF StartPanics, Answer, KernelSessionJournaled, KernelSteps
<1>40. CASE Crash
  BY <1>40 DEF Crash, ProcessGone, KernelSessionJournaled, KernelSteps, NoBackend
<1>41. CASE UNCHANGED vars
  BY <1>41 DEF vars, commandVars, stateVars, osVars, KernelSessionJournaled
<1>. QED
  BY <1>1, <1>2, <1>3, <1>4, <1>5, <1>6, <1>7, <1>8, <1>9, <1>10, <1>11, <1>12,
     <1>13, <1>14, <1>15, <1>16, <1>17, <1>18, <1>19, <1>20, <1>21, <1>22, <1>23,
     <1>24, <1>25, <1>26, <1>27, <1>28, <1>29, <1>30, <1>31, <1>32, <1>33, <1>34,
     <1>35, <1>36, <1>37, <1>38, <1>39, <1>40, <1>41
    DEF Next, Commands, Worker, UserspaceStart, KernelStart, Service

(* The guard is up from before the routes until after the negotiation.      *)
LEMMA GuardStep ==
  ASSUME GuardUp, [Next]_vars
  PROVE  GuardUp'
<1>1. ASSUME NEW r \in Requests, StartBegin(r)
      PROVE  GuardUp'
  BY <1>1 DEF StartBegin, GuardUp, GuardCoversNegotiation
<1>2. CASE StartRejected
  BY <1>2 DEF StartRejected, GuardUp, GuardCoversNegotiation
<1>3. CASE StopRejected
  BY <1>3 DEF StopRejected, GuardUp, GuardCoversNegotiation
<1>4. CASE StopBegin
  BY <1>4 DEF StopBegin, GuardUp, GuardCoversNegotiation
<1>5. CASE CloseChannel
  BY <1>5 DEF CloseChannel, GuardUp, GuardCoversNegotiation
<1>6. CASE StartResolved
  BY <1>6 DEF StartResolved, GuardUp, GuardCoversNegotiation
<1>7. CASE StartRefused
  BY <1>7 DEF StartRefused, Answer, GuardUp, GuardCoversNegotiation
<1>8. CASE UserspaceTake
  BY <1>8 DEF UserspaceTake, Answer, GuardUp, GuardCoversNegotiation
<1>9. CASE UserspaceDropOther
  BY <1>9 DEF UserspaceDropOther, commandVars, GuardUp, GuardCoversNegotiation
<1>10. CASE UserspaceConfigure
  BY <1>10 DEF UserspaceConfigure, GuardUp, GuardCoversNegotiation
<1>11. CASE UserspaceNet
  BY <1>11 DEF UserspaceNet, ApplyNetwork, GuardUp, GuardCoversNegotiation
<1>12. CASE UserspaceUpgrade
  BY <1>12 DEF UserspaceUpgrade, GuardUp, GuardCoversNegotiation
<1>13. CASE UserspaceDone
  BY <1>13 DEF UserspaceDone, Answer, GuardUp, GuardCoversNegotiation
<1>14. CASE UserspaceUnwindNet
  BY <1>14 DEF UserspaceUnwindNet, TakeNetState, GuardUp, GuardCoversNegotiation
<1>15. CASE UserspaceUnwindSlot
  BY <1>15 DEF UserspaceUnwindSlot, Answer, GuardUp, GuardCoversNegotiation
<1>16. CASE KernelPrepare
  BY <1>16
    DEF KernelPrepare, DeleteLink, ClearKernelJournal, KernelFailed, Answer,
        GuardUp, GuardCoversNegotiation
<1>17. CASE KernelJournalLink
  BY <1>17
    DEF KernelJournalLink, WriteKernelJournal, Answer, GuardUp,
        GuardCoversNegotiation
<1>18. CASE KernelCreateLink
  BY <1>18
    DEF KernelCreateLink, KernelFailed, Answer, GuardUp, GuardCoversNegotiation
<1>19. CASE KernelRecordLink
  BY <1>19
    DEF KernelRecordLink, WriteKernelJournal, Answer, GuardUp,
        GuardCoversNegotiation
<1>20. CASE KernelConfigure
  BY <1>20
    DEF KernelConfigure, KernelFailed, Answer, GuardUp, GuardCoversNegotiation
<1>21. CASE GuardInstall
  BY <1>21 DEF GuardInstall, GuardUp, GuardCoversNegotiation
<1>22. CASE GuardJournal
  BY <1>22 DEF GuardJournal, stateVars, flagVars, GuardUp, GuardCoversNegotiation
<1>23. CASE KernelNet
  BY <1>23
    DEF KernelNet, ApplyNetwork, localVars, guardVars, GuardUp,
        GuardCoversNegotiation
<1>24. CASE KernelMark
  BY <1>24
    DEF KernelMark, WriteKernelJournal, localVars, guardVars, GuardUp,
        GuardCoversNegotiation
<1>25. CASE KernelUpgrade
  BY <1>25 DEF KernelUpgrade, GuardUp, GuardCoversNegotiation
<1>26. CASE KernelUnguard
  BY <1>26 DEF KernelUnguard, CleanupGuard, GuardUp, GuardCoversNegotiation
<1>27. CASE KernelDone
  BY <1>27 DEF KernelDone, Answer, GuardUp, GuardCoversNegotiation
<1>28. CASE KernelUnwindGuard
  BY <1>28 DEF KernelUnwindGuard, GuardUp, GuardCoversNegotiation
<1>29. CASE KernelUnwindNet
  BY <1>29 DEF KernelUnwindNet, TakeNetState, GuardUp, GuardCoversNegotiation
<1>30. CASE KernelUnwindLink
  BY <1>30 DEF KernelUnwindLink, Answer, GuardUp, GuardCoversNegotiation
<1>31. CASE StopNet
  BY <1>31 DEF StopNet, GuardUp, GuardCoversNegotiation
<1>32. CASE StopBackend
  BY <1>32 DEF StopBackend, Answer, GuardUp, GuardCoversNegotiation
<1>33. CASE WorkerExit
  BY <1>33
    DEF WorkerExit, ShutdownActiveBackend, ResetFlags, DropLinkBestEffort,
        DeleteLink, ClearKernelJournal, flagVars, localVars, guardVars, GuardUp,
        GuardCoversNegotiation
<1>34. CASE ProcessExit
  BY <1>34 DEF ProcessExit, ProcessGone, GuardUp, GuardCoversNegotiation
<1>35. CASE Restart
  BY <1>35 DEF Restart, GuardUp, GuardCoversNegotiation
<1>36. CASE RepairNet
  BY <1>36 DEF RepairNet, CleanupNetwork, GuardUp, GuardCoversNegotiation
<1>37. CASE RepairGuard
  BY <1>37 DEF RepairGuard, CleanupGuard, GuardUp, GuardCoversNegotiation
<1>38. CASE RepairKernel
  BY <1>38 DEF RepairKernel, DeleteLink, GuardUp, GuardCoversNegotiation
<1>39. CASE StartPanics
  BY <1>39 DEF StartPanics, Answer, GuardUp, GuardCoversNegotiation
<1>40. CASE Crash
  BY <1>40 DEF Crash, ProcessGone, GuardUp, GuardCoversNegotiation
<1>41. CASE UNCHANGED vars
  BY <1>41
    DEF vars, commandVars, localVars, guardVars, osVars, GuardUp,
        GuardCoversNegotiation
<1>. QED
  BY <1>1, <1>2, <1>3, <1>4, <1>5, <1>6, <1>7, <1>8, <1>9, <1>10, <1>11, <1>12,
     <1>13, <1>14, <1>15, <1>16, <1>17, <1>18, <1>19, <1>20, <1>21, <1>22, <1>23,
     <1>24, <1>25, <1>26, <1>27, <1>28, <1>29, <1>30, <1>31, <1>32, <1>33, <1>34,
     <1>35, <1>36, <1>37, <1>38, <1>39, <1>40, <1>41
    DEF Next, Commands, Worker, UserspaceStart, KernelStart, Service

(* The flags and the key, step by step along a start: clear before the      *)
(* negotiation, as requested after it, and carried over into the session.   *)
LEMMA ProtectionStep ==
  ASSUME TypeOK, WorkerControl, Cache, Protection, [Next]_vars
  PROVE  Protection'
<1>1. ASSUME NEW r \in Requests, StartBegin(r)
      PROVE  Protection'
  BY <1>1
    DEF StartBegin, ResetFlags, ShutdownActiveBackend, DropLinkBestEffort,
        DeleteLink, ClearKernelJournal, localVars, guardVars, WorkerControl, Cache,
        CacheIsIdle, Protection, Protected, Fresh, ProtectedDevice, TypeOK,
        FlagTypes, DataTypes, Requests, Devices, KernelLinks, SlotSteps, StartSteps,
        UserspaceSteps, KernelSteps, StopSteps, RepairSteps, NoBackend, Userspace,
        LinuxKernel
<1>2. CASE StartRejected
  BY <1>2
    DEF StartRejected, stateVars, flagVars, osVars, Protection, Protected,
        ProtectedDevice
<1>3. CASE StopRejected
  BY <1>3 DEF StopRejected, stateVars, Protection
<1>4. CASE StopBegin
  BY <1>4
    DEF StopBegin, stateVars, flagVars, osVars, Protection, Protected,
        ProtectedDevice, KernelSteps
<1>5. CASE CloseChannel
  BY <1>5
    DEF CloseChannel, stateVars, flagVars, osVars, Protection, Protected,
        ProtectedDevice, KernelSteps
<1>6. CASE StartResolved
  BY <1>6
    DEF StartResolved, stateVars, flagVars, WorkerControl, Protection, Fresh,
        StartSteps, KernelSteps
<1>7. CASE StartRefused
  BY <1>7
    DEF StartRefused, Answer, WorkerControl, Protection, StartSteps, KernelSteps
<1>8. CASE UserspaceTake
  BY <1>8
    DEF UserspaceTake, Answer, flagVars, Protection, Protected, Fresh,
        ProtectedDevice, KernelSteps, NameFree
<1>9. CASE UserspaceDropOther
  BY <1>9
    DEF UserspaceDropOther, commandVars, flagVars, Protection, Protected, Fresh,
        ProtectedDevice
<1>10. CASE UserspaceConfigure
  BY <1>10
    DEF UserspaceConfigure, stateVars, flagVars, WorkerControl, Protection, Fresh,
        TypeOK, DataTypes, Requests, SlotSteps, StartSteps, UserspaceSteps,
        KernelSteps
<1>11. CASE UserspaceNet
  BY <1>11
    DEF UserspaceNet, ApplyNetwork, flagVars, Protection, Protected, Fresh,
        ProtectedDevice, TypeOK, FlagTypes, DataTypes, Requests, KernelSteps
<1>12. CASE UserspaceUpgrade
  BY <1>12
    DEF UserspaceUpgrade, localVars, guardVars, WorkerControl, Cache, CacheIsIdle,
        Protection, Protected, Fresh, ProtectedDevice, TypeOK, FlagTypes, DataTypes,
        Requests, Devices, KernelLinks, SlotSteps, StartSteps, UserspaceSteps,
        KernelSteps, StopSteps, RepairSteps, NoBackend, Userspace, LinuxKernel
<1>13. CASE UserspaceDone
  BY <1>13
    DEF UserspaceDone, Answer, flagVars, osVars, WorkerControl, Protection,
        Protected, ProtectedDevice, SlotSteps, KernelSteps, Userspace
<1>14. CASE UserspaceUnwindNet
  BY <1>14
    DEF UserspaceUnwindNet, TakeNetState, flagVars, Protection, Protected,
        ProtectedDevice, KernelSteps
<1>15. CASE UserspaceUnwindSlot
  BY <1>15
    DEF UserspaceUnwindSlot, Answer, WorkerControl, Protection, StartSteps,
        UserspaceSteps, KernelSteps
<1>16. CASE KernelPrepare
  BY <1>16
    DEF KernelPrepare, DeleteLink, ClearKernelJournal, KernelFailed, Answer,
        flagVars, WorkerControl, Protection, Fresh, StartSteps, KernelSteps
<1>17. CASE KernelJournalLink
  BY <1>17
    DEF KernelJournalLink, WriteKernelJournal, Answer, stateVars, flagVars,
        Protection, Protected, Fresh, ProtectedDevice, KernelSteps
<1>18. CASE KernelCreateLink
  BY <1>18
    DEF KernelCreateLink, KernelFailed, Answer, stateVars, flagVars, WorkerControl,
        Protection, Fresh, TypeOK, DataTypes, Requests, StartSteps, KernelSteps
<1>19. CASE KernelRecordLink
  BY <1>19
    DEF KernelRecordLink, WriteKernelJournal, Answer, stateVars, flagVars,
        Protection, Protected, Fresh, ProtectedDevice, KernelSteps
<1>20. CASE KernelConfigure
  BY <1>20
    DEF KernelConfigure, KernelFailed, Answer, stateVars, flagVars, WorkerControl,
        Protection, Fresh, StartSteps, KernelSteps
<1>21. CASE GuardInstall
  BY <1>21
    DEF GuardInstall, stateVars, flagVars, Protection, Protected, Fresh,
        ProtectedDevice, KernelSteps
<1>22. CASE GuardJournal
  BY <1>22
    DEF GuardJournal, stateVars, flagVars, WorkerControl, Cache, CacheIsIdle,
        Protection, Protected, Fresh, ProtectedDevice, TypeOK, FlagTypes, DataTypes,
        Requests, Devices, KernelLinks, SlotSteps, StartSteps, UserspaceSteps,
        KernelSteps, StopSteps, RepairSteps, NoBackend, Userspace, LinuxKernel
<1>23. CASE KernelNet
  BY <1>23
    DEF KernelNet, ApplyNetwork, flagVars, Protection, Protected, Fresh,
        ProtectedDevice, KernelSteps
<1>24. CASE KernelMark
  BY <1>24
    DEF KernelMark, WriteKernelJournal, stateVars, flagVars, Protection, Protected,
        Fresh, ProtectedDevice, TypeOK, FlagTypes, DataTypes, Requests, KernelSteps
<1>25. CASE KernelUpgrade
  BY <1>25
    DEF KernelUpgrade, localVars, guardVars, WorkerControl, Cache, CacheIsIdle,
        Protection, Protected, Fresh, ProtectedDevice, TypeOK, FlagTypes, DataTypes,
        Requests, Devices, KernelLinks, SlotSteps, StartSteps, UserspaceSteps,
        KernelSteps, StopSteps, RepairSteps, NoBackend, Userspace, LinuxKernel
<1>26. CASE KernelUnguard
  BY <1>26
    DEF KernelUnguard, CleanupGuard, stateVars, flagVars, Protection, Protected,
        ProtectedDevice, KernelSteps
<1>27. CASE KernelDone
  BY <1>27
    DEF KernelDone, Answer, flagVars, osVars, Protection, Protected,
        ProtectedDevice, KernelSteps, LinuxKernel
<1>28. CASE KernelUnwindGuard
  BY <1>28
    DEF KernelUnwindGuard, stateVars, WorkerControl, Protection, StartSteps,
        KernelSteps
<1>29. CASE KernelUnwindNet
  BY <1>29
    DEF KernelUnwindNet, TakeNetState, flagVars, Protection, Protected,
        ProtectedDevice, KernelSteps
<1>30. CASE KernelUnwindLink
  BY <1>30
    DEF KernelUnwindLink, Answer, stateVars, WorkerControl, Protection, StartSteps,
        KernelSteps
<1>31. CASE StopNet
  BY <1>31
    DEF StopNet, flagVars, Protection, Protected, ProtectedDevice, KernelSteps
<1>32. CASE StopBackend
  <2>1. pc' \in {"idle", "cShutdown"} /\ req' = req
    BY <1>32 DEF StopBackend, Answer
  <2>2. CASE ~running'
    BY <1>32, <2>1, <2>2 DEF Protection, KernelSteps
  <2>3. CASE active'.kind = "none"
    BY <1>32, <2>1, <2>3 DEF Protection, KernelSteps
  <2>4. CASE running' /\ active'.kind # "none"
    <3>1. UNCHANGED <<running, quantumActive, daitaActive, ephemeralKeyActive>>
      BY <1>32, <2>4 DEF StopBackend, flagVars
    <3>2. UNCHANGED <<active, dev>>
      BY <1>32, <2>4 DEF StopBackend, StopActiveBackend, DeleteLink, NoBackend
    <3>. QED
      BY <1>32, <2>1, <2>4, <3>1, <3>2
        DEF Protection, KernelSteps, Protected, ProtectedDevice
  <2>. QED
    BY <1>32, <2>2, <2>3, <2>4
<1>33. CASE WorkerExit
  <2>1. CASE active.kind # "none"
    <3>1. active' = NoBackend /\ pc' = "cShutdown"
      BY <1>33, <2>1, ShutdownEffect DEF WorkerExit
    <3>. QED
      BY <3>1 DEF Protection, KernelSteps, NoBackend
  <2>2. CASE active.kind = "none"
    BY <1>33, <2>2 DEF WorkerExit, Protection, KernelSteps
  <2>. QED
    BY <1>33, <2>1, <2>2
<1>34. CASE ProcessExit
  BY <1>34 DEF ProcessExit, ProcessGone, Protection, KernelSteps
<1>35. CASE Restart
  BY <1>35
    DEF Restart, stateVars, WorkerControl, Protection, KernelSteps, RepairSteps
<1>36. CASE RepairNet
  BY <1>36
    DEF RepairNet, CleanupNetwork, stateVars, flagVars, Protection, Protected,
        ProtectedDevice, KernelSteps
<1>37. CASE RepairGuard
  BY <1>37
    DEF RepairGuard, CleanupGuard, stateVars, WorkerControl, Protection,
        KernelSteps, RepairSteps
<1>38. CASE RepairKernel
  BY <1>38
    DEF RepairKernel, DeleteLink, WorkerControl, Protection, KernelSteps,
        RepairSteps
<1>39. CASE StartPanics
  BY <1>39 DEF StartPanics, Answer, Protection, KernelSteps
<1>40. CASE Crash
  BY <1>40 DEF Crash, ProcessGone, Protection, KernelSteps
<1>41. CASE UNCHANGED vars
  BY <1>41
    DEF vars, commandVars, flagVars, stateVars, osVars, Protection, Protected,
        Fresh, ProtectedDevice
<1>. QED
  BY <1>1, <1>2, <1>3, <1>4, <1>5, <1>6, <1>7, <1>8, <1>9, <1>10, <1>11, <1>12,
     <1>13, <1>14, <1>15, <1>16, <1>17, <1>18, <1>19, <1>20, <1>21, <1>22, <1>23,
     <1>24, <1>25, <1>26, <1>27, <1>28, <1>29, <1>30, <1>31, <1>32, <1>33, <1>34,
     <1>35, <1>36, <1>37, <1>38, <1>39, <1>40, <1>41
    DEF Next, Commands, Worker, UserspaceStart, KernelStart, Service

(* Devices move between the places only with the step that makes, takes,    *)
(* keeps or stops one.                                                      *)
LEMMA HeldStep ==
  ASSUME TypeOK, WorkerControl, Cache, Protection, Held, [Next]_vars
  PROVE  Held'
<1>1. ASSUME NEW r \in Requests, StartBegin(r)
      PROVE  Held'
  <2>1. pc = "idle" /\ slot.tun = NoTun /\ UNCHANGED <<slot, cached>>
    BY <1>1, EmptyPlaces DEF StartBegin, localVars, SlotSteps
  <2>2. CASE active.kind = "none"
    BY <1>1, <2>1, <2>2, HeldInPlace DEF StartBegin
  <2>3. CASE active.kind = "kernel" /\ ShutdownActiveBackend
    <3>1. DropLinkBestEffort(active.tun) /\ active' = NoBackend
      BY <2>3 DEF ShutdownActiveBackend
    <3>2. \A u \in Tuns : dev'[u] \in Gotatun <=> dev[u] \in Gotatun
      BY <2>3, <3>1, DropSparesGotatun, EmptyPlaces
    <3>. QED
      BY <2>1, <2>3, <3>1, <3>2, PlaceForms DEF Held, Gotatun
  <2>4. CASE active.kind = "userspace" /\ ShutdownActiveBackend
    <3>1. active' = NoBackend /\ dev' = [dev EXCEPT ![active.tun] = "absent"]
      BY <2>4 DEF ShutdownActiveBackend
    <3>. QED
      BY <2>1, <2>4, <3>1, PlaceForms, EmptyPlaces DEF Held, Gotatun
  <2>. QED
    BY <1>1, <2>2, <2>3, <2>4, ActiveKinds DEF StartBegin
<1>2. CASE StartRejected
  BY <1>2, ActiveKinds DEF StartRejected, stateVars, localVars, osVars, flagVars,
        guardVars, WorkerControl, Cache, CacheIsIdle, Held, Gotatun, SlotSteps,
        StartSteps, UserspaceSteps, KernelSteps, StopSteps, RepairSteps, TypeOK,
        DataTypes, Requests
<1>3. CASE StopRejected
  BY <1>3, ActiveKinds DEF StopRejected, stateVars, localVars, osVars, flagVars,
        guardVars, WorkerControl, Cache, CacheIsIdle, Held, Gotatun, SlotSteps,
        StartSteps, UserspaceSteps, KernelSteps, StopSteps, RepairSteps, TypeOK,
        DataTypes, Requests
<1>4. CASE StopBegin
  BY <1>4, ActiveKinds DEF StopBegin, stateVars, localVars, osVars, flagVars,
        guardVars, WorkerControl, Cache, CacheIsIdle, Held, Gotatun, SlotSteps,
        StartSteps, UserspaceSteps, KernelSteps, StopSteps, RepairSteps, TypeOK,
        DataTypes, Requests
<1>5. CASE CloseChannel
  BY <1>5, ActiveKinds DEF CloseChannel, stateVars, localVars, osVars, flagVars,
        guardVars, WorkerControl, Cache, CacheIsIdle, Held, Gotatun, SlotSteps,
        StartSteps, UserspaceSteps, KernelSteps, StopSteps, RepairSteps, TypeOK,
        DataTypes, Requests
<1>6. CASE StartResolved
  BY <1>6, ActiveKinds DEF StartResolved, stateVars, localVars, osVars, flagVars,
        guardVars, WorkerControl, Cache, CacheIsIdle, Held, Gotatun, SlotSteps,
        StartSteps, UserspaceSteps, KernelSteps, StopSteps, RepairSteps, TypeOK,
        DataTypes, Requests
<1>7. CASE StartRefused
  BY <1>7, ActiveKinds DEF StartRefused, Answer, localVars, osVars, guardVars,
        WorkerControl, Cache, CacheIsIdle, Held, Gotatun, SlotSteps, StartSteps,
        UserspaceSteps, KernelSteps, StopSteps, RepairSteps, TypeOK, DataTypes,
        Requests
<1>8. CASE UserspaceTake
  BY <1>8, ActiveKinds DEF UserspaceTake, NameFree, Answer, flagVars, guardVars,
        WorkerControl, Cache, CacheIsIdle, Held, Gotatun, SlotSteps, StartSteps,
        UserspaceSteps, KernelSteps, StopSteps, RepairSteps, TypeOK, DataTypes,
        Requests
<1>9. CASE UserspaceDropOther
  BY <1>9, ActiveKinds DEF UserspaceDropOther, commandVars, flagVars, localVars,
        guardVars, WorkerControl, Cache, CacheIsIdle, Held, Gotatun, SlotSteps,
        StartSteps, UserspaceSteps, KernelSteps, StopSteps, RepairSteps, TypeOK,
        DataTypes, Requests
<1>10. CASE UserspaceConfigure
  BY <1>10, ActiveKinds DEF UserspaceConfigure, stateVars, localVars, guardVars,
        flagVars, WorkerControl, Cache, CacheIsIdle, Held, Gotatun, SlotSteps,
        StartSteps, UserspaceSteps, KernelSteps, StopSteps, RepairSteps, TypeOK,
        DataTypes, Requests
<1>11. CASE UserspaceNet
  BY <1>11, ActiveKinds DEF UserspaceNet, ApplyNetwork, flagVars, localVars,
        guardVars, WorkerControl, Cache, CacheIsIdle, Held, Gotatun, SlotSteps,
        StartSteps, UserspaceSteps, KernelSteps, StopSteps, RepairSteps, TypeOK,
        DataTypes, Requests
<1>12. CASE UserspaceUpgrade
  BY <1>12, ActiveKinds DEF UserspaceUpgrade, localVars, guardVars, WorkerControl,
        Cache, CacheIsIdle, Held, Gotatun, SlotSteps, StartSteps, UserspaceSteps,
        KernelSteps, StopSteps, RepairSteps, TypeOK, DataTypes, Requests
<1>13. CASE UserspaceDone
  <2>1. pc = "uDone" /\ cached = NoTun /\ active = NoBackend /\ slot.tun \in Tuns
    BY <1>13, EmptyPlaces
      DEF UserspaceDone, StartSteps, UserspaceSteps, WorkerControl, SlotSteps
  <2>2. active' = Userspace(slot.tun) /\ slot' = NoSlot /\ UNCHANGED <<dev, cached>>
    BY <1>13 DEF UserspaceDone, osVars
  <2>3. dev[slot.tun] \in Gotatun
    BY <2>1, TunsAssumption DEF Held
  <2>. QED
    BY <2>1, <2>2, <2>3, PlaceForms DEF Held, Gotatun
<1>14. CASE UserspaceUnwindNet
  BY <1>14, ActiveKinds DEF UserspaceUnwindNet, TakeNetState, flagVars, localVars,
        guardVars, CleanupNetwork, WorkerControl, Cache, CacheIsIdle, Held, Gotatun,
        SlotSteps, StartSteps, UserspaceSteps, KernelSteps, StopSteps, RepairSteps,
        TypeOK, DataTypes, Requests
<1>15. CASE UserspaceUnwindSlot
  <2>1. pc = "uUnwindSlot" /\ cached = NoTun /\ active = NoBackend /\ slot.tun \in Tuns
        /\ dev \in [Tuns -> Devices]
    BY <1>15, EmptyPlaces
      DEF UserspaceUnwindSlot, StartSteps, UserspaceSteps, WorkerControl, SlotSteps
  <2>2. slot' = NoSlot /\ UNCHANGED active
    BY <1>15 DEF UserspaceUnwindSlot
  <2>3. \A u \in Tuns \ {slot.tun} : dev[u] \notin Gotatun
    BY <2>1, PlaceForms DEF Held
  <2>4. CASE dev' = [dev EXCEPT ![slot.tun] = "absent"]
    BY <2>1, <2>2, <2>3, <2>4, PlaceForms DEF Held, Gotatun
  <2>5. CASE dev' = [dev EXCEPT ![slot.tun] = "tunClear"] /\ cached' = slot.tun
    BY <2>1, <2>2, <2>3, <2>5, PlaceForms DEF Held, Gotatun
  <2>. QED
    BY <1>15, <2>4, <2>5 DEF UserspaceUnwindSlot, ClearPeers
<1>16. CASE KernelPrepare
  <2>1. pc = "kPrepare" /\ slot.tun = NoTun /\ active = NoBackend
        /\ UNCHANGED <<slot, active>>
    BY <1>16, EmptyPlaces
      DEF KernelPrepare, localVars, StartSteps, KernelSteps, SlotSteps
  <2>2. CASE cached # NoTun
    <3>1. cached' = NoTun /\ dev' = [dev EXCEPT ![cached] = "absent"]
      BY <1>16, <2>2 DEF KernelPrepare
    <3>. QED
      BY <2>1, <2>2, <3>1, EmptyPlaces, PlaceForms DEF Held, Gotatun
  <2>3. CASE cached = NoTun
    <3>1. UNCHANGED cached
      BY <1>16, <2>3 DEF KernelPrepare
    <3>2. UNCHANGED dev \/ \E ok \in BOOLEAN : DeleteLink(req.tun, ok)
      BY <1>16, <2>3 DEF KernelPrepare
    <3>3. \A u \in Tuns : dev'[u] \in Gotatun <=> dev[u] \in Gotatun
      BY <3>2, DeletionSparesGotatun, EmptyPlaces
    <3>. QED
      BY <2>1, <3>1, <3>3, HeldInPlace, PlaceForms
  <2>. QED
    BY <2>2, <2>3
<1>17. CASE KernelJournalLink
  BY <1>17, ActiveKinds DEF KernelJournalLink, WriteKernelJournal, Answer,
        stateVars, localVars, guardVars, flagVars, WorkerControl, Cache,
        CacheIsIdle, Held, Gotatun, SlotSteps, StartSteps, UserspaceSteps,
        KernelSteps, StopSteps, RepairSteps, TypeOK, DataTypes, Requests
<1>18. CASE KernelCreateLink
  BY <1>18, ActiveKinds DEF KernelCreateLink, NameFree, ClearKernelJournal,
        KernelFailed, stateVars, localVars, guardVars, Answer, flagVars,
        WorkerControl, Cache, CacheIsIdle, Held, Gotatun, SlotSteps, StartSteps,
        UserspaceSteps, KernelSteps, StopSteps, RepairSteps, TypeOK, DataTypes,
        Requests
<1>19. CASE KernelRecordLink
  BY <1>19, ActiveKinds DEF KernelRecordLink, WriteKernelJournal, Answer, stateVars,
        localVars, guardVars, flagVars, WorkerControl, Cache, CacheIsIdle, Held,
        Gotatun, SlotSteps, StartSteps, UserspaceSteps, KernelSteps, StopSteps,
        RepairSteps, TypeOK, DataTypes, Requests
<1>20. CASE KernelConfigure
  <2>1. slot.tun = NoTun /\ active = NoBackend /\ UNCHANGED <<cached, active, slot>>
    BY <1>20, EmptyPlaces
      DEF KernelConfigure, stateVars, localVars, StartSteps, KernelSteps, SlotSteps
  <2>2. UNCHANGED dev \/ DropLinkBestEffort(req.tun)
    BY <1>20 DEF KernelConfigure
  <2>3. \A u \in Tuns : dev'[u] \in Gotatun <=> dev[u] \in Gotatun
    BY <2>2, DropSparesGotatun, EmptyPlaces
  <2>. QED
    BY <2>1, <2>3, HeldInPlace, PlaceForms
<1>21. CASE GuardInstall
  BY <1>21, ActiveKinds DEF GuardInstall, stateVars, localVars, flagVars,
        WorkerControl, Cache, CacheIsIdle, Held, Gotatun, SlotSteps, StartSteps,
        UserspaceSteps, KernelSteps, StopSteps, RepairSteps, TypeOK, DataTypes,
        Requests
<1>22. CASE GuardJournal
  BY <1>22, ActiveKinds DEF GuardJournal, stateVars, flagVars, WorkerControl, Cache,
        CacheIsIdle, Held, Gotatun, SlotSteps, StartSteps, UserspaceSteps,
        KernelSteps, StopSteps, RepairSteps, TypeOK, DataTypes, Requests
<1>23. CASE KernelNet
  BY <1>23, ActiveKinds DEF KernelNet, ApplyNetwork, flagVars, localVars, guardVars,
        WorkerControl, Cache, CacheIsIdle, Held, Gotatun, SlotSteps, StartSteps,
        UserspaceSteps, KernelSteps, StopSteps, RepairSteps, TypeOK, DataTypes,
        Requests
<1>24. CASE KernelMark
  BY <1>24, ActiveKinds DEF KernelMark, WriteKernelJournal, stateVars, localVars,
        guardVars, flagVars, WorkerControl, Cache, CacheIsIdle, Held, Gotatun,
        SlotSteps, StartSteps, UserspaceSteps, KernelSteps, StopSteps, RepairSteps,
        TypeOK, DataTypes, Requests
<1>25. CASE KernelUpgrade
  <2>1. slot.tun = NoTun /\ active = NoBackend /\ UNCHANGED <<cached, active, slot>>
    BY <1>25, EmptyPlaces
      DEF KernelUpgrade, localVars, StartSteps, KernelSteps, SlotSteps
  <2>2. dev[req.tun] = "kernel"
    BY <1>25 DEF KernelUpgrade, Protection
  <2>3. \E d \in KernelLinks : dev' = [dev EXCEPT ![req.tun] = d]
    BY <1>25 DEF KernelUpgrade, KernelLinks
  <2>4. \A u \in Tuns : dev'[u] \in Gotatun <=> dev[u] \in Gotatun
    BY <2>2, <2>3, EmptyPlaces DEF KernelLinks, Gotatun
  <2>. QED
    BY <2>1, <2>4, HeldInPlace, PlaceForms
<1>26. CASE KernelUnguard
  BY <1>26, ActiveKinds DEF KernelUnguard, CleanupGuard, stateVars, guardVars,
        flagVars, WorkerControl, Cache, CacheIsIdle, Held, Gotatun, SlotSteps,
        StartSteps, UserspaceSteps, KernelSteps, StopSteps, RepairSteps, TypeOK,
        DataTypes, Requests
<1>27. CASE KernelDone
  <2>1. slot.tun = NoTun /\ active = NoBackend /\ UNCHANGED <<cached, slot, dev>>
    BY <1>27, EmptyPlaces
      DEF KernelDone, localVars, osVars, StartSteps, KernelSteps, SlotSteps
  <2>2. active' = LinuxKernel(req.tun)
    BY <1>27 DEF KernelDone
  <2>. QED
    BY <2>1, <2>2, PlaceForms DEF Held, Gotatun
<1>28. CASE KernelUnwindGuard
  BY <1>28, ActiveKinds DEF KernelUnwindGuard, CleanupGuard, guardVars, stateVars,
        flagVars, WorkerControl, Cache, CacheIsIdle, Held, Gotatun, SlotSteps,
        StartSteps, UserspaceSteps, KernelSteps, StopSteps, RepairSteps, TypeOK,
        DataTypes, Requests
<1>29. CASE KernelUnwindNet
  BY <1>29, ActiveKinds DEF KernelUnwindNet, TakeNetState, flagVars, localVars,
        guardVars, CleanupNetwork, WorkerControl, Cache, CacheIsIdle, Held, Gotatun,
        SlotSteps, StartSteps, UserspaceSteps, KernelSteps, StopSteps, RepairSteps,
        TypeOK, DataTypes, Requests
<1>30. CASE KernelUnwindLink
  <2>1. slot.tun = NoTun /\ active = NoBackend /\ UNCHANGED <<cached, active, slot>>
    BY <1>30, EmptyPlaces
      DEF KernelUnwindLink, stateVars, localVars, StartSteps, KernelSteps, SlotSteps
  <2>2. UNCHANGED dev \/ DropLinkBestEffort(req.tun)
    BY <1>30 DEF KernelUnwindLink
  <2>3. \A u \in Tuns : dev'[u] \in Gotatun <=> dev[u] \in Gotatun
    BY <2>2, DropSparesGotatun, EmptyPlaces
  <2>. QED
    BY <2>1, <2>3, HeldInPlace, PlaceForms
<1>31. CASE StopNet
  BY <1>31, ActiveKinds DEF StopNet, CleanupNetwork, flagVars, guardVars,
        WorkerControl, Cache, CacheIsIdle, Held, Gotatun, SlotSteps, StartSteps,
        UserspaceSteps, KernelSteps, StopSteps, RepairSteps, TypeOK, DataTypes,
        Requests
<1>32. CASE StopBackend
  <2>1. pc = "sBackend" /\ slot.tun = NoTun /\ UNCHANGED slot /\ cached = NoTun
    BY <1>32, EmptyPlaces DEF StopBackend, localVars, SlotSteps
  <2>2. PICK ok \in BOOLEAN : StopActiveBackend(ok)
    BY <1>32 DEF StopBackend
  <2>3. CASE active.kind = "none"
    BY <2>1, <2>2, <2>3, HeldInPlace DEF StopActiveBackend
  <2>4. CASE active.kind = "userspace"
    <3>1. active' = NoBackend /\ active.tun \in Tuns /\ dev \in [Tuns -> Devices]
      BY <2>2, <2>4, EmptyPlaces DEF StopActiveBackend
    <3>2. \/ dev' = [dev EXCEPT ![active.tun] = "absent"] /\ UNCHANGED cached
          \/ dev' = [dev EXCEPT ![active.tun] = "tunClear"] /\ cached' = active.tun
      BY <2>2, <2>4 DEF StopActiveBackend, ClearPeers
    <3>3. \A u \in Tuns \ {active.tun} : dev[u] \notin Gotatun
      BY <2>1, PlaceForms DEF Held
    <3>. QED
      BY <2>1, <3>1, <3>2, <3>3, PlaceForms DEF Held, Gotatun
  <2>5. CASE active.kind = "kernel"
    <3>1. UNCHANGED cached /\ active' \in {active, NoBackend}
          /\ \E done \in BOOLEAN : DeleteLink(active.tun, done)
      BY <2>2, <2>5 DEF StopActiveBackend
    <3>2. \A u \in Tuns : dev'[u] \in Gotatun <=> dev[u] \in Gotatun
      BY <2>5, <3>1, DeletionSparesGotatun, EmptyPlaces
    <3>3. \A u \in Tuns : dev[u] \notin Gotatun
      BY <2>1, <2>5, PlaceForms DEF Held
    <3>. QED
      BY <2>1, <2>5, <3>1, <3>2, <3>3, PlaceForms DEF Held, Gotatun
  <2>. QED
    BY <2>3, <2>4, <2>5, ActiveKinds
<1>33. CASE WorkerExit
  <2>1. pc = "cShutdown" /\ slot.tun = NoTun /\ UNCHANGED slot
    BY <1>33, EmptyPlaces DEF WorkerExit, localVars, SlotSteps
  <2>2. CASE active.kind = "none"
    <3>1. cached' = NoTun /\ UNCHANGED active
          /\ dev' = [t \in Tuns |-> IF t = cached THEN "absent" ELSE dev[t]]
      BY <1>33, <2>2 DEF WorkerExit
    <3>. QED
      BY <2>1, <2>2, <3>1, PlaceForms DEF Held, Gotatun
  <2>3. CASE active.kind # "none"
    <3>1. ShutdownActiveBackend /\ UNCHANGED cached /\ active' = NoBackend
          /\ active.tun \in Tuns /\ cached = NoTun /\ dev \in [Tuns -> Devices]
      BY <1>33, <2>3, EmptyPlaces DEF WorkerExit, ShutdownActiveBackend
    <3>2. \A u \in Tuns \ {active.tun} : dev[u] \notin Gotatun
      BY <2>1, <3>1, PlaceForms DEF Held
    <3>3. CASE active.kind = "userspace"
      <4>1. dev' = [dev EXCEPT ![active.tun] = "absent"]
        BY <3>1, <3>3 DEF ShutdownActiveBackend
      <4>. QED
        BY <2>1, <3>1, <3>2, <4>1, PlaceForms DEF Held, Gotatun
    <3>4. CASE active.kind = "kernel"
      <4>1. \A u \in Tuns : dev'[u] \in Gotatun <=> dev[u] \in Gotatun
        BY <3>1, <3>4, DropSparesGotatun DEF ShutdownActiveBackend
      <4>2. \A u \in Tuns : dev[u] \notin Gotatun
        BY <2>1, <3>1, <3>4, PlaceForms DEF Held
      <4>. QED
        BY <2>1, <3>1, <4>1, <4>2, PlaceForms DEF Held, Gotatun
    <3>. QED
      BY <2>3, <3>3, <3>4, ActiveKinds
  <2>. QED
    BY <2>2, <2>3
<1>34. CASE ProcessExit
  BY <1>34, ActiveKinds DEF ProcessExit, ProcessGone, NoBackend, ResetFlags, NoSlot,
        guardVars, WorkerControl, Cache, CacheIsIdle, Held, Gotatun, SlotSteps,
        StartSteps, UserspaceSteps, KernelSteps, StopSteps, RepairSteps, TypeOK,
        DataTypes, Requests
<1>35. CASE Restart
  BY <1>35, ActiveKinds DEF Restart, stateVars, localVars, osVars, flagVars,
        guardVars, WorkerControl, Cache, CacheIsIdle, Held, Gotatun, SlotSteps,
        StartSteps, UserspaceSteps, KernelSteps, StopSteps, RepairSteps, TypeOK,
        DataTypes, Requests
<1>36. CASE RepairNet
  BY <1>36, ActiveKinds DEF RepairNet, CleanupNetwork, stateVars, localVars,
        guardVars, flagVars, WorkerControl, Cache, CacheIsIdle, Held, Gotatun,
        SlotSteps, StartSteps, UserspaceSteps, KernelSteps, StopSteps, RepairSteps,
        TypeOK, DataTypes, Requests
<1>37. CASE RepairGuard
  BY <1>37, ActiveKinds DEF RepairGuard, CleanupGuard, stateVars, localVars,
        guardVars, flagVars, WorkerControl, Cache, CacheIsIdle, Held, Gotatun,
        SlotSteps, StartSteps, UserspaceSteps, KernelSteps, StopSteps, RepairSteps,
        TypeOK, DataTypes, Requests
<1>38. CASE RepairKernel
  <2>1. slot.tun = NoTun /\ active = NoBackend /\ UNCHANGED <<cached, active, slot>>
    BY <1>38, EmptyPlaces DEF RepairKernel, localVars, RepairSteps, SlotSteps
  <2>2. \/ UNCHANGED dev
        \/ kjournal \in Tuns /\ \E ok \in BOOLEAN : DeleteLink(kjournal, ok)
    BY <1>38 DEF RepairKernel, TypeOK, DataTypes, MaybeTun
  <2>3. \A u \in Tuns : dev'[u] \in Gotatun <=> dev[u] \in Gotatun
    BY <2>2, DeletionSparesGotatun
  <2>. QED
    BY <2>1, <2>3, HeldInPlace, PlaceForms
<1>39. CASE StartPanics
  <2>1. active = NoBackend /\ UNCHANGED active /\ slot' = NoSlot /\ cached' = NoTun
    BY <1>39, EmptyPlaces DEF StartPanics
  <2>2. dev' = [t \in Tuns |-> IF t = slot.tun \/ t = cached THEN "absent" ELSE dev[t]]
    BY <1>39 DEF StartPanics
  <2>. QED
    BY <2>1, <2>2, PlaceForms DEF Held, Gotatun
<1>40. CASE Crash
  BY <1>40, ActiveKinds DEF Crash, ProcessGone, NoBackend, ResetFlags, NoSlot,
        guardVars, WorkerControl, Cache, CacheIsIdle, Held, Gotatun, SlotSteps,
        StartSteps, UserspaceSteps, KernelSteps, StopSteps, RepairSteps, TypeOK,
        DataTypes, Requests
<1>41. CASE UNCHANGED vars
  BY <1>41 DEF vars, commandVars, flagVars, stateVars, localVars, guardVars, osVars,
        WorkerControl, Cache, CacheIsIdle, Held, Gotatun, SlotSteps, StartSteps,
        UserspaceSteps, KernelSteps, StopSteps, RepairSteps, TypeOK, DataTypes,
        Requests
<1>. QED
  BY <1>1, <1>2, <1>3, <1>4, <1>5, <1>6, <1>7, <1>8, <1>9, <1>10, <1>11, <1>12,
     <1>13, <1>14, <1>15, <1>16, <1>17, <1>18, <1>19, <1>20, <1>21, <1>22, <1>23,
     <1>24, <1>25, <1>26, <1>27, <1>28, <1>29, <1>30, <1>31, <1>32, <1>33, <1>34,
     <1>35, <1>36, <1>37, <1>38, <1>39, <1>40, <1>41
    DEF Next, Commands, Worker, UserspaceStart, KernelStart, Service

(* The only way to the end of a post-quantum kernel start removes the guard. *)
LEMMA GuardDownStep ==
  ASSUME TypeOK, GuardDown, [Next]_vars
  PROVE  GuardDown'
<1>1. ASSUME NEW r \in Requests, StartBegin(r)
      PROVE  GuardDown'
  BY <1>1 DEF StartBegin, ShutdownActiveBackend, ResetFlags, localVars, guardVars,
        NoBackend, DropLinkBestEffort, DeleteLink, ClearKernelJournal,
        IsWireGuardLink, GuardDown
<1>2. CASE StartRejected
  BY <1>2 DEF StartRejected, stateVars, localVars, osVars, flagVars, guardVars,
        GuardDown
<1>3. CASE StopRejected
  BY <1>3 DEF StopRejected, stateVars, localVars, osVars, flagVars, guardVars,
        GuardDown
<1>4. CASE StopBegin
  BY <1>4 DEF StopBegin, stateVars, localVars, osVars, flagVars, guardVars,
        GuardDown
<1>5. CASE CloseChannel
  BY <1>5 DEF CloseChannel, stateVars, localVars, osVars, flagVars, guardVars,
        GuardDown
<1>6. CASE StartResolved
  BY <1>6 DEF StartResolved, stateVars, localVars, osVars, flagVars, guardVars,
        GuardDown
<1>7. CASE StartRefused
  BY <1>7 DEF StartRefused, Answer, localVars, osVars, guardVars, GuardDown
<1>8. CASE UserspaceTake
  BY <1>8 DEF UserspaceTake, NameFree, Answer, flagVars, guardVars, GuardDown
<1>9. CASE UserspaceDropOther
  BY <1>9 DEF UserspaceDropOther, commandVars, flagVars, localVars, guardVars,
        GuardDown
<1>10. CASE UserspaceConfigure
  BY <1>10 DEF UserspaceConfigure, stateVars, localVars, guardVars, flagVars,
        GuardDown
<1>11. CASE UserspaceNet
  BY <1>11 DEF UserspaceNet, ApplyNetwork, flagVars, localVars, guardVars, GuardDown
<1>12. CASE UserspaceUpgrade
  BY <1>12 DEF UserspaceUpgrade, localVars, guardVars, GuardDown
<1>13. CASE UserspaceDone
  BY <1>13 DEF UserspaceDone, Userspace, NoSlot, Answer, flagVars, osVars,
        guardVars, GuardDown
<1>14. CASE UserspaceUnwindNet
  BY <1>14 DEF UserspaceUnwindNet, TakeNetState, flagVars, localVars, guardVars,
        CleanupNetwork, GuardDown
<1>15. CASE UserspaceUnwindSlot
  BY <1>15 DEF UserspaceUnwindSlot, ClearPeers, NoSlot, Answer, flagVars, guardVars,
        GuardDown
<1>16. CASE KernelPrepare
  BY <1>16 DEF KernelPrepare, DeleteLink, ClearKernelJournal, KernelFailed,
        flagVars, localVars, guardVars, IsWireGuardLink, Answer, GuardDown
<1>17. CASE KernelJournalLink
  BY <1>17 DEF KernelJournalLink, WriteKernelJournal, Answer, stateVars, localVars,
        guardVars, flagVars, GuardDown
<1>18. CASE KernelCreateLink
  BY <1>18 DEF KernelCreateLink, NameFree, ClearKernelJournal, KernelFailed,
        stateVars, localVars, guardVars, Answer, flagVars, GuardDown
<1>19. CASE KernelRecordLink
  BY <1>19 DEF KernelRecordLink, WriteKernelJournal, Answer, stateVars, localVars,
        guardVars, flagVars, GuardDown
<1>20. CASE KernelConfigure
  BY <1>20 DEF KernelConfigure, DropLinkBestEffort, KernelFailed, stateVars,
        localVars, guardVars, DeleteLink, ClearKernelJournal, Answer, flagVars,
        IsWireGuardLink, GuardDown
<1>21. CASE GuardInstall
  BY <1>21 DEF GuardInstall, stateVars, localVars, flagVars, GuardDown
<1>22. CASE GuardJournal
  BY <1>22 DEF GuardJournal, stateVars, flagVars, GuardDown
<1>23. CASE KernelNet
  BY <1>23 DEF KernelNet, ApplyNetwork, flagVars, localVars, guardVars, GuardDown
<1>24. CASE KernelMark
  BY <1>24 DEF KernelMark, WriteKernelJournal, stateVars, localVars, guardVars,
        flagVars, GuardDown
<1>25. CASE KernelUpgrade
  BY <1>25 DEF KernelUpgrade, localVars, guardVars, GuardDown
<1>26. CASE KernelUnguard
  BY <1>26 DEF KernelUnguard, CleanupGuard, stateVars, guardVars, flagVars,
        GuardDown
<1>27. CASE KernelDone
  BY <1>27 DEF KernelDone, LinuxKernel, Answer, flagVars, localVars, osVars,
        guardVars, GuardDown
<1>28. CASE KernelUnwindGuard
  BY <1>28 DEF KernelUnwindGuard, CleanupGuard, guardVars, stateVars, flagVars,
        GuardDown
<1>29. CASE KernelUnwindNet
  BY <1>29 DEF KernelUnwindNet, TakeNetState, flagVars, localVars, guardVars,
        CleanupNetwork, GuardDown
<1>30. CASE KernelUnwindLink
  BY <1>30 DEF KernelUnwindLink, DropLinkBestEffort, Answer, stateVars, localVars,
        guardVars, DeleteLink, ClearKernelJournal, flagVars, IsWireGuardLink,
        GuardDown
<1>31. CASE StopNet
  BY <1>31 DEF StopNet, CleanupNetwork, flagVars, guardVars, GuardDown
<1>32. CASE StopBackend
  BY <1>32 DEF StopBackend, StopActiveBackend, ResetFlags, flagVars, Answer,
        localVars, guardVars, NoBackend, ClearPeers, DeleteLink, ClearKernelJournal,
        IsWireGuardLink, GuardDown
<1>33. CASE WorkerExit
  BY <1>33 DEF WorkerExit, ShutdownActiveBackend, ResetFlags, localVars, guardVars,
        NoBackend, DropLinkBestEffort, DeleteLink, ClearKernelJournal,
        IsWireGuardLink, GuardDown
<1>34. CASE ProcessExit
  BY <1>34 DEF ProcessExit, ProcessGone, NoBackend, ResetFlags, NoSlot, guardVars,
        GuardDown
<1>35. CASE Restart
  BY <1>35 DEF Restart, stateVars, localVars, osVars, flagVars, guardVars, GuardDown
<1>36. CASE RepairNet
  BY <1>36 DEF RepairNet, CleanupNetwork, stateVars, localVars, guardVars, flagVars,
        GuardDown
<1>37. CASE RepairGuard
  BY <1>37 DEF RepairGuard, CleanupGuard, stateVars, localVars, guardVars, flagVars,
        GuardDown
<1>38. CASE RepairKernel
  BY <1>38 DEF RepairKernel, DeleteLink, ClearKernelJournal, flagVars, localVars,
        guardVars, IsWireGuardLink, GuardDown
<1>39. CASE StartPanics
  BY <1>39 DEF StartPanics, NoSlot, CleanupNetwork, ResetFlags, Answer, guardVars,
        GuardDown
<1>40. CASE Crash
  BY <1>40 DEF Crash, ProcessGone, NoBackend, ResetFlags, NoSlot, guardVars,
        GuardDown
<1>41. CASE UNCHANGED vars
  BY <1>41 DEF vars, commandVars, flagVars, stateVars, localVars, guardVars, osVars,
        GuardDown
<1>. QED
  BY <1>1, <1>2, <1>3, <1>4, <1>5, <1>6, <1>7, <1>8, <1>9, <1>10, <1>11, <1>12,
     <1>13, <1>14, <1>15, <1>16, <1>17, <1>18, <1>19, <1>20, <1>21, <1>22, <1>23,
     <1>24, <1>25, <1>26, <1>27, <1>28, <1>29, <1>30, <1>31, <1>32, <1>33, <1>34,
     <1>35, <1>36, <1>37, <1>38, <1>39, <1>40, <1>41
    DEF Next, Commands, Worker, UserspaceStart, KernelStart, Service

LEMMA StepInv == IInv /\ [Next]_vars => IInv'
<1>. SUFFICES ASSUME IInv, [Next]_vars PROVE IInv'
  OBVIOUS
<1>1. TypeOK'
  BY FlagTypesStep, DataTypesStep DEF IInv, TypeOK
<1>2. WorkerControl' /\ Cache' /\ NetOwned'
  BY WorkerControlStep, CacheStep, NetOwnedStep DEF IInv
<1>3. KernelSessionJournaled' /\ GuardUp' /\ Protection'
  BY JournalStep, GuardStep, ProtectionStep DEF IInv
<1>4. Held' /\ GuardDown'
  BY HeldStep, GuardDownStep DEF IInv
<1>. QED
  BY <1>1, <1>2, <1>3, <1>4 DEF IInv

LEMMA Invariance == Spec => []IInv
  BY InitInv, StepInv, PTL DEF Spec

-----------------------------------------------------------------------------
(* The theorems.                                                            *)

(* Every variable of the engine, and of the system state it manages, keeps  *)
(* its type through starts, stops, fallbacks, panics, crashes and repairs.  *)
THEOREM TypeCorrect == Spec => []TypeOK
<1>1. IInv => TypeOK
  BY DEF IInv
<1>. QED
  BY <1>1, Invariance, PTL

(* A network configuration in effect always has an owner that rolls it      *)
(* back: engine state, or the repair that precedes serving.                 *)
THEOREM NetworkNeverForgotten == Spec => []AppliedIsOwned
<1>1. IInv => AppliedIsOwned
  BY DEF IInv, NetOwned
<1>. QED
  BY <1>1, Invariance, PTL

(* The recorded network state is that of the session, starting or running,  *)
(* and shutdown_active_backend never has one to drop.                       *)
THEOREM NetworkStateOfSession == Spec => []NetStateOfSession
<1>1. IInv => NetStateOfSession
  BY DEF IInv, NetOwned, NetStateOfSession, WorkerControl, AppliedSteps, StartSteps,
     UserspaceSteps, KernelSteps, NoBackend
<1>. QED
  BY <1>1, Invariance, PTL

(* Both of them: a network configuration in effect is always owned by the    *)
(* session it belongs to, or waits for the repair.                          *)
THEOREM NetworkOwned == Spec => []NetStateOwned
<1>1. AppliedIsOwned /\ NetStateOfSession => NetStateOwned
  BY DEF NetStateOwned
<1>. QED
  BY <1>1, NetworkNeverForgotten, NetworkStateOfSession, PTL

(* The journal that a restarted service repairs from names the link of any  *)
(* kernel session, starting or running.                                     *)
THEOREM KernelLinkRecoverable == Spec => []KernelSessionJournaled
<1>1. IInv => KernelSessionJournaled
  BY DEF IInv
<1>. QED
  BY <1>1, Invariance, PTL

(* A cached GotaTun device belongs to no session and has no peers.          *)
THEOREM CachedDeviceIdle == Spec => []CacheIsIdle
<1>1. IInv => CacheIsIdle
  BY DEF IInv, Cache
<1>. QED
  BY <1>1, Invariance, PTL

(* Traffic is guarded from the moment a post-quantum kernel session's       *)
(* routes may be in place until its ephemeral key is.                       *)
THEOREM NegotiationGuarded == Spec => []GuardCoversNegotiation
<1>1. IInv => GuardCoversNegotiation
  BY DEF IInv, GuardUp
<1>. QED
  BY <1>1, Invariance, PTL

(* No tunnel runs with less protection than its request asked for.          *)
THEOREM ProtectionKept == Spec => []NoSilentDowngrade
<1>1. IInv => NoSilentDowngrade
  <2>. SUFFICES ASSUME IInv, running, active.kind # "none"
                PROVE  /\ req.quantum => quantumActive
                       /\ req.daita => daitaActive /\ active.kind = "userspace"
                       /\ ephemeralKeyActive
                            <=> dev[active.tun] \in {"tunEphemeral", "kernelEphemeral"}
                       /\ ephemeralKeyActive <=> req.quantum \/ req.daita
    BY DEF NoSilentDowngrade
  <2>1. /\ quantumActive = req.quantum
        /\ daitaActive = req.daita
        /\ ephemeralKeyActive = (req.quantum \/ req.daita)
    BY DEF IInv, Protection, Protected
  <2>2. req.daita => active.kind = "userspace"
    BY DEF IInv, Protection
  <2>3. dev[active.tun] \in {"tunEphemeral", "kernelEphemeral"}
          <=> req.quantum \/ req.daita
    BY DEF IInv, Protection, ProtectedDevice
  <2>. QED
    BY <2>1, <2>2, <2>3
<1>. QED
  BY <1>1, Invariance, PTL

(* Every GotaTun device is held by one of the cache, the running backend    *)
(* and the slot of a start, and each of them holds a device that exists.    *)
THEOREM DevicesNeverLeaked == Spec => []DevicesHeldOnce
<1>1. IInv => DevicesHeldOnce
  <2>. SUFFICES ASSUME IInv, NEW t \in Tuns
                PROVE  IF dev[t] \in Gotatun THEN \E h \in Holders(t) : Holders(t) = {h}
                                             ELSE Holders(t) = {}
    BY DEF DevicesHeldOnce
  <2>. USE DEF IInv
  <2>1. "cached" \in Holders(t) =>
          dev[t] \in Gotatun /\ slot.tun # t /\ active # Userspace(t)
    BY EmptyPlaces, PlaceForms
      DEF Holders, Gotatun, SlotSteps
  <2>2. "active" \in Holders(t) => dev[t] \in Gotatun /\ slot.tun # t
    BY EmptyPlaces, PlaceForms
      DEF Holders, Held, SlotSteps, StartSteps, UserspaceSteps
  <2>3. "slot" \in Holders(t) => dev[t] \in Gotatun
    BY DEF Holders, Held
  <2>4. dev[t] \in Gotatun => Holders(t) # {}
    BY DEF Holders, Held
  <2>5. \A g, h \in Holders(t) : g = h
    BY <2>1, <2>2 DEF Holders
  <2>6. Holders(t) \subseteq {"cached", "active", "slot"}
    BY DEF Holders
  <2>. QED
    BY <2>1, <2>2, <2>3, <2>4, <2>5, <2>6
<1>. QED
  BY <1>1, Invariance, PTL

(* Only the last step of a start sets running.                              *)
LEMMA RunningStarts ==
  ASSUME IInv, [Next]_vars, ~running, running'
  PROVE  UserspaceDone \/ KernelDone
BY DEF Next, Commands, Worker, UserspaceStart, KernelStart, Service, IInv, WorkerControl,
       StartBegin, ShutdownActiveBackend, StartRejected, StopRejected, StopBegin, CloseChannel, StartResolved,
       StartRefused, UserspaceTake, UserspaceDropOther, UserspaceConfigure,
       UserspaceNet, UserspaceUpgrade, UserspaceUnwindNet, UserspaceUnwindSlot,
       KernelPrepare, KernelJournalLink, KernelCreateLink, KernelRecordLink,
       KernelConfigure, GuardInstall, GuardJournal, KernelNet, KernelMark,
       KernelUpgrade, KernelUnguard, KernelUnwindGuard, KernelUnwindNet,
       KernelUnwindLink, StopNet, StopBackend, WorkerExit, ProcessExit, ProcessGone,
       Restart, RepairNet, RepairGuard, RepairKernel, StartPanics, Crash, stateVars,
       vars

(* A start that reports success on the kernel data plane leaves no guard    *)
(* behind, neither its own nor one of an earlier attempt.                   *)
THEOREM StartsEndUnguarded == Spec => StartEndsUnguarded
<1>1. IInv /\ [Next]_vars =>
        [~running /\ running' /\ active'.kind = "kernel" /\ req.quantum =>
           ~guardFw' /\ ~gjournal']_vars
  <2>. SUFFICES ASSUME IInv, [Next]_vars, ~running, running', active'.kind = "kernel",
                       req.quantum
                PROVE  ~guardFw' /\ ~gjournal'
    OBVIOUS
  <2>1. CASE UserspaceDone
    BY <2>1, PlaceForms DEF UserspaceDone
  <2>2. CASE KernelDone
    BY <2>2 DEF KernelDone, osVars, guardVars, IInv, GuardDown
  <2>. QED
    BY <2>1, <2>2, RunningStarts
<1>. QED
  BY <1>1, Invariance, PTL DEF Spec, StartEndsUnguarded

-----------------------------------------------------------------------------
(* Kernel links and their journal.                                          *)

(* The setting in which no kernel link can be forgotten: a single name, or  *)
(* links and journals that can be removed and no panic.                     *)
OneName == \A s, t \in Tuns : s = t
LinksRemovable == Faults \cap {"link", "journal", "panic"} = {}

(* Every kernel link is journaled; none is left when a start journals and   *)
(* creates its own; and where links are removable, each belongs to the      *)
(* running session, to the start in progress, or to the repair.             *)
LinkSteps == {"kRecord", "kConfigure", "kGuard", "kGuardJournal", "kNet", "kMark",
              "kUpgrade", "kUnguard", "kDone", "kUnwindGuard", "kUnwindNet",
              "kUnwindLink"}
LinksOwned ==
  /\ LinksJournaled
  /\ pc \in {"kJournal", "kCreate"} => \A t \in Tuns : dev[t] \notin KernelLinks
  /\ pc = "kUnwindLink" => kjournal = req.tun
  /\ LinksRemovable => \A t \in Tuns : dev[t] \in KernelLinks =>
       active = LinuxKernel(t) \/ pc \in RepairSteps \/ (req.tun = t /\ pc \in LinkSteps)

(* A link named by the journal is dropped, or stays and is still named.     *)
LEMMA LinkDropped ==
  ASSUME TypeOK, LinksJournaled, NEW t \in Tuns, kjournal = t, DropLinkBestEffort(t)
  PROVE  /\ LinksJournaled'
         /\ LinksRemovable => \A u \in Tuns : dev'[u] \notin KernelLinks
<1>1. CASE DeleteLink(t, TRUE)
  <2>1. \A u \in Tuns : dev'[u] \notin KernelLinks
    BY <1>1 DEF DeleteLink, LinksJournaled, KernelLinks, TypeOK, DataTypes
  <2>. QED
    BY <2>1 DEF LinksJournaled, KernelLinks
<1>2. CASE DeleteLink(t, FALSE) /\ UNCHANGED kjournal
  <2>1. UNCHANGED dev
    BY <1>2 DEF DeleteLink
  <2>2. LinksRemovable => dev[t] \notin KernelLinks
    BY <1>2 DEF DeleteLink, LinksRemovable, IsWireGuardLink
  <2>. QED
    BY <1>2, <2>1, <2>2 DEF LinksJournaled, KernelLinks
<1>. QED
  BY <1>1, <1>2 DEF DropLinkBestEffort

(* No step forgets a link it leaves.                                        *)
LEMMA LinksOwnedStep ==
  ASSUME OneName \/ LinksRemovable, TypeOK, WorkerControl, Cache,
         KernelSessionJournaled, Protection, Held, LinksOwned, [Next]_vars
  PROVE  LinksOwned'
<1>1. ASSUME NEW r \in Requests, StartBegin(r)
      PROVE  LinksOwned'
  <2>1. pc = "idle" /\ pc' = "resolve"
    BY <1>1 DEF StartBegin
  <2>2. LinksRemovable => \A t \in Tuns : dev[t] \in KernelLinks => active = LinuxKernel(t)
    BY <2>1 DEF LinksOwned, RepairSteps, LinkSteps
  <2>3. CASE active.kind = "none"
    <3>1. UNCHANGED <<dev, kjournal>>
      BY <1>1, <2>3 DEF StartBegin
    <3>. QED
      BY <2>1, <2>2, <2>3, <3>1, PlaceForms
        DEF LinksOwned, LinksJournaled, KernelLinks
  <2>4. CASE active.kind = "userspace" /\ ShutdownActiveBackend
    <3>1. dev' = [dev EXCEPT ![active.tun] = "absent"] /\ UNCHANGED kjournal
      BY <2>4 DEF ShutdownActiveBackend
    <3>. QED
      BY <2>1, <2>2, <2>4, <3>1, PlaceForms, EmptyPlaces
        DEF LinksOwned, LinksJournaled, KernelLinks
  <2>5. CASE active.kind = "kernel" /\ ShutdownActiveBackend
    <3>1. DropLinkBestEffort(active.tun) /\ kjournal = active.tun /\ active.tun \in Tuns
      BY <2>5, EmptyPlaces DEF ShutdownActiveBackend, KernelSessionJournaled
    <3>2. LinksJournaled' /\ (LinksRemovable => \A u \in Tuns : dev'[u] \notin KernelLinks)
      BY <3>1, LinkDropped DEF LinksOwned
    <3>. QED
      BY <2>1, <3>2 DEF LinksOwned, LinksRemovable, KernelLinks
  <2>. QED
    BY <1>1, <2>3, <2>4, <2>5, ActiveKinds DEF StartBegin
<1>2. CASE StartRejected
  BY <1>2, ActiveKinds, PlaceForms, EmptyPlaces DEF StartRejected, stateVars,
        localVars, osVars, flagVars, guardVars, LinksOwned, LinksJournaled,
        LinksRemovable, LinkSteps, RepairSteps, KernelLinks, Gotatun, SlotSteps,
        StartSteps, UserspaceSteps, KernelSteps
<1>3. CASE StopRejected
  BY <1>3, ActiveKinds, PlaceForms, EmptyPlaces DEF StopRejected, stateVars,
        localVars, osVars, flagVars, guardVars, LinksOwned, LinksJournaled,
        LinksRemovable, LinkSteps, RepairSteps, KernelLinks, Gotatun, SlotSteps,
        StartSteps, UserspaceSteps, KernelSteps
<1>4. CASE StopBegin
  BY <1>4, ActiveKinds, PlaceForms, EmptyPlaces DEF StopBegin, stateVars, localVars,
        osVars, flagVars, guardVars, LinksOwned, LinksJournaled, LinksRemovable,
        LinkSteps, RepairSteps, KernelLinks, Gotatun, SlotSteps, StartSteps,
        UserspaceSteps, KernelSteps
<1>5. CASE CloseChannel
  BY <1>5, ActiveKinds, PlaceForms, EmptyPlaces DEF CloseChannel, stateVars,
        localVars, osVars, flagVars, guardVars, LinksOwned, LinksJournaled,
        LinksRemovable, LinkSteps, RepairSteps, KernelLinks, Gotatun, SlotSteps,
        StartSteps, UserspaceSteps, KernelSteps
<1>6. CASE StartResolved
  BY <1>6, ActiveKinds, PlaceForms, EmptyPlaces DEF StartResolved, stateVars,
        localVars, osVars, flagVars, guardVars, LinksOwned, LinksJournaled,
        LinksRemovable, LinkSteps, RepairSteps, KernelLinks, Gotatun, SlotSteps,
        StartSteps, UserspaceSteps, KernelSteps
<1>7. CASE StartRefused
  BY <1>7, ActiveKinds, PlaceForms, EmptyPlaces DEF StartRefused, Answer, localVars,
        osVars, guardVars, LinksOwned, LinksJournaled, LinksRemovable, LinkSteps,
        RepairSteps, KernelLinks, Gotatun, SlotSteps, StartSteps, UserspaceSteps,
        KernelSteps
<1>8. CASE UserspaceTake
  BY <1>8, ActiveKinds, PlaceForms, EmptyPlaces DEF UserspaceTake, NameFree, Answer,
        flagVars, guardVars, LinksOwned, LinksJournaled, LinksRemovable, LinkSteps,
        RepairSteps, KernelLinks, Gotatun, SlotSteps, StartSteps, UserspaceSteps,
        KernelSteps
<1>9. CASE UserspaceDropOther
  BY <1>9, ActiveKinds, PlaceForms, EmptyPlaces DEF UserspaceDropOther, commandVars,
        flagVars, localVars, guardVars, LinksOwned, LinksJournaled, LinksRemovable,
        LinkSteps, RepairSteps, KernelLinks, Gotatun, SlotSteps, StartSteps,
        UserspaceSteps, KernelSteps
<1>10. CASE UserspaceConfigure
  BY <1>10, ActiveKinds, PlaceForms, EmptyPlaces DEF UserspaceConfigure, stateVars,
        localVars, guardVars, flagVars, LinksOwned, LinksJournaled, LinksRemovable,
        LinkSteps, RepairSteps, KernelLinks, Gotatun, SlotSteps, StartSteps,
        UserspaceSteps, KernelSteps
<1>11. CASE UserspaceNet
  BY <1>11, ActiveKinds, PlaceForms, EmptyPlaces DEF UserspaceNet, ApplyNetwork,
        flagVars, localVars, guardVars, LinksOwned, LinksJournaled, LinksRemovable,
        LinkSteps, RepairSteps, KernelLinks, Gotatun, SlotSteps, StartSteps,
        UserspaceSteps, KernelSteps
<1>12. CASE UserspaceUpgrade
  BY <1>12, ActiveKinds, PlaceForms, EmptyPlaces DEF UserspaceUpgrade, localVars,
        guardVars, LinksOwned, LinksJournaled, LinksRemovable, LinkSteps,
        RepairSteps, KernelLinks, Gotatun, SlotSteps, StartSteps, UserspaceSteps,
        KernelSteps
<1>13. CASE UserspaceDone
  BY <1>13, ActiveKinds, PlaceForms, EmptyPlaces DEF UserspaceDone, Answer,
        flagVars, osVars, guardVars, LinksOwned, LinksJournaled, LinksRemovable,
        LinkSteps, RepairSteps, KernelLinks, Gotatun, SlotSteps, StartSteps,
        UserspaceSteps, KernelSteps
<1>14. CASE UserspaceUnwindNet
  BY <1>14, ActiveKinds, PlaceForms, EmptyPlaces DEF UserspaceUnwindNet,
        TakeNetState, flagVars, localVars, guardVars, CleanupNetwork, LinksOwned,
        LinksJournaled, LinksRemovable, LinkSteps, RepairSteps, KernelLinks,
        Gotatun, SlotSteps, StartSteps, UserspaceSteps, KernelSteps
<1>15. CASE UserspaceUnwindSlot
  BY <1>15, ActiveKinds, PlaceForms, EmptyPlaces DEF UserspaceUnwindSlot,
        ClearPeers, Answer, flagVars, guardVars, LinksOwned, LinksJournaled,
        LinksRemovable, LinkSteps, RepairSteps, KernelLinks, Gotatun, SlotSteps,
        StartSteps, UserspaceSteps, KernelSteps
<1>16. CASE KernelPrepare
  <2>1. pc = "kPrepare" /\ active = NoBackend /\ UNCHANGED <<active, req>>
    BY <1>16, EmptyPlaces DEF KernelPrepare, StartSteps, KernelSteps
  <2>2. LinksRemovable => \A t \in Tuns : dev[t] \notin KernelLinks
    BY <2>1, PlaceForms DEF LinksOwned, RepairSteps, LinkSteps
  <2>3. CASE cached # NoTun
    <3>1. pc' = pc /\ UNCHANGED kjournal /\ dev' = [dev EXCEPT ![cached] = "absent"]
      BY <1>16, <2>3 DEF KernelPrepare
    <3>. QED
      BY <2>1, <2>2, <2>3, <3>1, EmptyPlaces DEF LinksOwned, LinksJournaled, KernelLinks
  <2>4. CASE cached = NoTun /\ kjournal # req.tun
    <3>1. pc' = "kJournal" /\ UNCHANGED <<dev, kjournal>>
      BY <1>16, <2>4 DEF KernelPrepare
    <3>2. \A t \in Tuns : dev[t] \notin KernelLinks
      BY <2>2, <2>4, EmptyPlaces DEF LinksOwned, LinksJournaled, OneName
    <3>. QED
      BY <3>1, <3>2 DEF LinksOwned, LinksJournaled, KernelLinks
  <2>5. CASE cached = NoTun /\ kjournal = req.tun
    <3>1. pc' \in {"kJournal", "uTake", "idle", "cShutdown"}
      BY <1>16, <2>5 DEF KernelPrepare, KernelFailed, Answer
    <3>2. CASE DeleteLink(req.tun, TRUE)
      <4>1. \A t \in Tuns : dev'[t] \notin KernelLinks
        BY <2>5, <3>2, EmptyPlaces
          DEF DeleteLink, LinksOwned, LinksJournaled, KernelLinks
      <4>. QED
        BY <3>1, <4>1 DEF LinksOwned, LinksJournaled, KernelLinks, LinksRemovable
    <3>3. CASE DeleteLink(req.tun, FALSE) /\ UNCHANGED kjournal /\ pc' # "kJournal"
      BY <2>1, <2>2, <3>1, <3>3
        DEF DeleteLink, LinksOwned, LinksJournaled, KernelLinks, LinksRemovable
    <3>. QED
      BY <1>16, <2>5, <3>2, <3>3 DEF KernelPrepare, KernelFailed, Answer
  <2>. QED
    BY <2>3, <2>4, <2>5
<1>17. CASE KernelJournalLink
  BY <1>17, ActiveKinds, PlaceForms, EmptyPlaces DEF KernelJournalLink,
        WriteKernelJournal, Answer, stateVars, localVars, guardVars, flagVars,
        LinksOwned, LinksJournaled, LinksRemovable, LinkSteps, RepairSteps,
        KernelLinks, Gotatun, SlotSteps, StartSteps, UserspaceSteps, KernelSteps
<1>18. CASE KernelCreateLink
  <2>1. pc = "kCreate" /\ kjournal = req.tun /\ UNCHANGED req
        /\ \A t \in Tuns : dev[t] \notin KernelLinks
    BY <1>18 DEF KernelCreateLink, KernelSessionJournaled, KernelSteps, LinksOwned
  <2>2. CASE dev' = [dev EXCEPT ![req.tun] = "kernel"] /\ pc' = "kRecord" /\ UNCHANGED kjournal
    BY <2>1, <2>2, EmptyPlaces DEF LinksOwned, LinksJournaled, LinkSteps, KernelLinks
  <2>3. CASE UNCHANGED dev /\ pc' \in {"uTake", "idle", "cShutdown"}
    BY <2>1, <2>3 DEF LinksOwned, LinksJournaled, KernelLinks
  <2>. QED
    BY <1>18, <2>2, <2>3 DEF KernelCreateLink, KernelFailed, Answer
<1>19. CASE KernelRecordLink
  <2>1. /\ kjournal = req.tun /\ UNCHANGED <<req, active, dev, kjournal>>
        /\ pc \in LinkSteps /\ pc \notin RepairSteps
    BY <1>19
      DEF KernelRecordLink, WriteKernelJournal, KernelSessionJournaled, KernelSteps, stateVars,
          LinkSteps, RepairSteps
  <2>2. pc' \in {"kConfigure", "idle", "cShutdown"}
    BY <1>19 DEF KernelRecordLink, Answer
  <2>3. LinksRemovable => pc' \in LinkSteps
    BY <1>19 DEF KernelRecordLink, WriteKernelJournal, LinksRemovable, LinkSteps
  <2>. QED
    BY <2>1, <2>2, <2>3 DEF LinksOwned, LinksJournaled, KernelLinks, LinksRemovable
<1>20. CASE KernelConfigure
  <2>1. kjournal = req.tun /\ UNCHANGED <<req, active>> /\ pc \in LinkSteps
        /\ pc \notin RepairSteps
    BY <1>20
      DEF KernelConfigure, KernelSessionJournaled, KernelSteps, stateVars, LinksOwned, LinkSteps,
          RepairSteps
  <2>2. CASE DropLinkBestEffort(req.tun)
             /\ pc' \in {"uTake", "idle", "cShutdown"}
    <3>1. LinksJournaled' /\ (LinksRemovable => \A u \in Tuns : dev'[u] \notin KernelLinks)
      BY <2>1, <2>2, LinkDropped, EmptyPlaces DEF LinksOwned
    <3>. QED
      BY <2>2, <3>1 DEF LinksOwned, LinksRemovable, KernelLinks
  <2>3. CASE UNCHANGED <<dev, kjournal>> /\ pc' \in {"kGuard", "kNet"}
    BY <2>1, <2>3 DEF LinksOwned, LinksJournaled, KernelLinks, LinkSteps, LinksRemovable
  <2>. QED
    BY <1>20, <2>2, <2>3 DEF KernelConfigure, KernelFailed, Answer
<1>21. CASE GuardInstall
  BY <1>21, ActiveKinds, PlaceForms, EmptyPlaces DEF GuardInstall, stateVars,
        localVars, flagVars, LinksOwned, LinksJournaled, LinksRemovable, LinkSteps,
        RepairSteps, KernelLinks, Gotatun, SlotSteps, StartSteps, UserspaceSteps,
        KernelSteps, KernelSessionJournaled
<1>22. CASE GuardJournal
  BY <1>22, ActiveKinds, PlaceForms, EmptyPlaces DEF GuardJournal, stateVars,
        flagVars, LinksOwned, LinksJournaled, LinksRemovable, LinkSteps,
        RepairSteps, KernelLinks, Gotatun, SlotSteps, StartSteps, UserspaceSteps,
        KernelSteps, KernelSessionJournaled
<1>23. CASE KernelNet
  BY <1>23, ActiveKinds, PlaceForms, EmptyPlaces DEF KernelNet, ApplyNetwork,
        flagVars, localVars, guardVars, LinksOwned, LinksJournaled, LinksRemovable,
        LinkSteps, RepairSteps, KernelLinks, Gotatun, SlotSteps, StartSteps,
        UserspaceSteps, KernelSteps
<1>24. CASE KernelMark
  <2>1. /\ kjournal = req.tun /\ UNCHANGED <<req, active, dev, kjournal>>
        /\ pc \in LinkSteps /\ pc \notin RepairSteps
    BY <1>24
      DEF KernelMark, WriteKernelJournal, KernelSessionJournaled, KernelSteps, stateVars,
          LinkSteps, RepairSteps
  <2>2. pc' \in {"kUpgrade", "kDone", "kUnwindGuard"}
    BY <1>24 DEF KernelMark, Answer
  <2>3. LinksRemovable => pc' \in LinkSteps
    BY <1>24 DEF KernelMark, WriteKernelJournal, LinksRemovable, LinkSteps
  <2>. QED
    BY <2>1, <2>2, <2>3 DEF LinksOwned, LinksJournaled, KernelLinks, LinksRemovable
<1>25. CASE KernelUpgrade
  <2>1. kjournal = req.tun /\ pc = "kUpgrade" /\ pc' \in {"kUnguard", "kUnwindGuard"}
        /\ UNCHANGED <<req, active, kjournal>>
    BY <1>25 DEF KernelUpgrade, KernelSessionJournaled, KernelSteps
  <2>2. \E d \in KernelLinks : dev' = [dev EXCEPT ![req.tun] = d]
    BY <1>25 DEF KernelUpgrade, KernelLinks
  <2>. QED
    BY <2>1, <2>2, EmptyPlaces
      DEF LinksOwned, LinksJournaled, LinkSteps, LinksRemovable, RepairSteps, KernelLinks
<1>26. CASE KernelUnguard
  BY <1>26, ActiveKinds, PlaceForms, EmptyPlaces DEF KernelUnguard, CleanupGuard,
        stateVars, guardVars, flagVars, LinksOwned, LinksJournaled, LinksRemovable,
        LinkSteps, RepairSteps, KernelLinks, Gotatun, SlotSteps, StartSteps,
        UserspaceSteps, KernelSteps
<1>27. CASE KernelDone
  BY <1>27, ActiveKinds, PlaceForms, EmptyPlaces DEF KernelDone, Answer, flagVars,
        localVars, osVars, guardVars, LinksOwned, LinksJournaled, LinksRemovable,
        LinkSteps, RepairSteps, KernelLinks, Gotatun, SlotSteps, StartSteps,
        UserspaceSteps, KernelSteps
<1>28. CASE KernelUnwindGuard
  BY <1>28, ActiveKinds, PlaceForms, EmptyPlaces DEF KernelUnwindGuard,
        CleanupGuard, guardVars, stateVars, flagVars, LinksOwned, LinksJournaled,
        LinksRemovable, LinkSteps, RepairSteps, KernelLinks, Gotatun, SlotSteps,
        StartSteps, UserspaceSteps, KernelSteps
<1>29. CASE KernelUnwindNet
  BY <1>29, ActiveKinds, PlaceForms, EmptyPlaces DEF KernelUnwindNet, TakeNetState,
        flagVars, localVars, guardVars, CleanupNetwork, LinksOwned, LinksJournaled,
        LinksRemovable, LinkSteps, RepairSteps, KernelLinks, Gotatun, SlotSteps,
        StartSteps, UserspaceSteps, KernelSteps, KernelSessionJournaled
<1>30. CASE KernelUnwindLink
  <2>1. kjournal = req.tun /\ UNCHANGED <<req, active>> /\ pc \in LinkSteps
        /\ pc \notin RepairSteps
    BY <1>30
      DEF KernelUnwindLink, KernelSessionJournaled, KernelSteps, stateVars, LinksOwned, LinkSteps,
          RepairSteps
  <2>2. CASE DropLinkBestEffort(req.tun)
             /\ pc' \in {"uTake", "idle", "cShutdown"}
    <3>1. LinksJournaled' /\ (LinksRemovable => \A u \in Tuns : dev'[u] \notin KernelLinks)
      BY <2>1, <2>2, LinkDropped, EmptyPlaces DEF LinksOwned
    <3>. QED
      BY <2>2, <3>1 DEF LinksOwned, LinksRemovable, KernelLinks
  <2>3. CASE UNCHANGED <<dev, kjournal>> /\ pc' \in {"kGuard", "kNet"}
    BY <2>1, <2>3 DEF LinksOwned, LinksJournaled, KernelLinks, LinkSteps, LinksRemovable
  <2>. QED
    BY <1>30, <2>2, <2>3 DEF KernelUnwindLink, KernelFailed, Answer
<1>31. CASE StopNet
  BY <1>31, ActiveKinds, PlaceForms, EmptyPlaces DEF StopNet, CleanupNetwork,
        flagVars, guardVars, LinksOwned, LinksJournaled, LinksRemovable, LinkSteps,
        RepairSteps, KernelLinks, Gotatun, SlotSteps, StartSteps, UserspaceSteps,
        KernelSteps
<1>32. CASE StopBackend
  <2>1. pc = "sBackend" /\ pc' \in {"idle", "cShutdown"} /\ UNCHANGED req
    BY <1>32 DEF StopBackend, Answer
  <2>2. PICK ok \in BOOLEAN : StopActiveBackend(ok)
    BY <1>32 DEF StopBackend
  <2>3. LinksRemovable => \A t \in Tuns : dev[t] \in KernelLinks => active = LinuxKernel(t)
    BY <2>1 DEF LinksOwned, RepairSteps, LinkSteps
  <2>4. CASE active.kind = "none"
    BY <2>1, <2>2, <2>3, <2>4
      DEF StopActiveBackend, LinksOwned, LinksJournaled, KernelLinks, LinksRemovable
  <2>5. CASE active.kind = "userspace"
    <3>1. UNCHANGED kjournal
          /\ \E d \in {"absent", "tunClear"} : dev' = [dev EXCEPT ![active.tun] = d]
      BY <2>2, <2>5 DEF StopActiveBackend, ClearPeers
    <3>. QED
      BY <2>1, <2>3, <2>5, <3>1, PlaceForms, EmptyPlaces
        DEF LinksOwned, LinksJournaled, KernelLinks, LinksRemovable
  <2>6. CASE active.kind = "kernel"
    <3>1. kjournal = active.tun /\ active.tun \in Tuns
      BY <2>6, EmptyPlaces DEF KernelSessionJournaled
    <3>2. CASE DeleteLink(active.tun, TRUE)
      <4>1. \A t \in Tuns : dev'[t] \notin KernelLinks
        BY <3>1, <3>2 DEF DeleteLink, LinksOwned, LinksJournaled, KernelLinks, TypeOK,
                          DataTypes
      <4>. QED
        BY <2>1, <4>1 DEF LinksOwned, LinksJournaled, KernelLinks, LinksRemovable
    <3>3. CASE DeleteLink(active.tun, FALSE) /\ UNCHANGED <<active, kjournal>>
      BY <2>1, <2>3, <3>3
        DEF DeleteLink, LinksOwned, LinksJournaled, KernelLinks, LinksRemovable
    <3>. QED
      BY <2>2, <2>6, <3>2, <3>3 DEF StopActiveBackend
  <2>. QED
    BY <2>4, <2>5, <2>6, ActiveKinds
<1>33. CASE WorkerExit
  <2>1. pc = "cShutdown" /\ pc' \in {"cShutdown", "exited"}
    BY <1>33 DEF WorkerExit
  <2>2. LinksRemovable => \A t \in Tuns : dev[t] \in KernelLinks => active = LinuxKernel(t)
    BY <2>1 DEF LinksOwned, RepairSteps, LinkSteps
  <2>3. CASE active.kind = "none"
    <3>1. UNCHANGED kjournal
          /\ dev' = [t \in Tuns |-> IF t = cached THEN "absent" ELSE dev[t]]
      BY <1>33, <2>3 DEF WorkerExit
    <3>. QED
      BY <2>1, <2>2, <2>3, <3>1, PlaceForms
        DEF LinksOwned, LinksJournaled, KernelLinks, LinksRemovable
  <2>4. CASE active.kind = "userspace" /\ ShutdownActiveBackend
    <3>1. dev' = [dev EXCEPT ![active.tun] = "absent"] /\ UNCHANGED kjournal
      BY <2>4 DEF ShutdownActiveBackend
    <3>. QED
      BY <2>1, <2>2, <2>4, <3>1, PlaceForms, EmptyPlaces
        DEF LinksOwned, LinksJournaled, KernelLinks, LinksRemovable
  <2>5. CASE active.kind = "kernel" /\ ShutdownActiveBackend
    <3>1. DropLinkBestEffort(active.tun) /\ kjournal = active.tun /\ active.tun \in Tuns
      BY <2>5, EmptyPlaces DEF ShutdownActiveBackend, KernelSessionJournaled
    <3>2. LinksJournaled' /\ (LinksRemovable => \A u \in Tuns : dev'[u] \notin KernelLinks)
      BY <3>1, LinkDropped DEF LinksOwned
    <3>. QED
      BY <2>1, <3>2 DEF LinksOwned, LinksRemovable, KernelLinks
  <2>. QED
    BY <1>33, <2>3, <2>4, <2>5, ActiveKinds DEF WorkerExit
<1>34. CASE ProcessExit
  BY <1>34, ActiveKinds, PlaceForms, EmptyPlaces DEF ProcessExit, ProcessGone,
        ResetFlags, guardVars, LinksOwned, LinksJournaled, LinksRemovable,
        LinkSteps, RepairSteps, KernelLinks, Gotatun, SlotSteps, StartSteps,
        UserspaceSteps, KernelSteps
<1>35. CASE Restart
  BY <1>35, ActiveKinds, PlaceForms, EmptyPlaces DEF Restart, stateVars, localVars,
        osVars, flagVars, guardVars, LinksOwned, LinksJournaled, LinksRemovable,
        LinkSteps, RepairSteps, KernelLinks, Gotatun, SlotSteps, StartSteps,
        UserspaceSteps, KernelSteps
<1>36. CASE RepairNet
  BY <1>36, ActiveKinds, PlaceForms, EmptyPlaces DEF RepairNet, CleanupNetwork,
        stateVars, localVars, guardVars, flagVars, LinksOwned, LinksJournaled,
        LinksRemovable, LinkSteps, RepairSteps, KernelLinks, Gotatun, SlotSteps,
        StartSteps, UserspaceSteps, KernelSteps
<1>37. CASE RepairGuard
  BY <1>37, ActiveKinds, PlaceForms, EmptyPlaces DEF RepairGuard, CleanupGuard,
        stateVars, localVars, guardVars, flagVars, LinksOwned, LinksJournaled,
        LinksRemovable, LinkSteps, RepairSteps, KernelLinks, Gotatun, SlotSteps,
        StartSteps, UserspaceSteps, KernelSteps
<1>38. CASE RepairKernel
  BY <1>38, ActiveKinds, PlaceForms, EmptyPlaces DEF RepairKernel, DeleteLink,
        ClearKernelJournal, flagVars, localVars, guardVars, IsWireGuardLink,
        LinksOwned, LinksJournaled, LinksRemovable, LinkSteps, RepairSteps,
        KernelLinks, Gotatun, SlotSteps, StartSteps, UserspaceSteps, KernelSteps
<1>39. CASE StartPanics
  BY <1>39, ActiveKinds, PlaceForms, EmptyPlaces DEF StartPanics, CleanupNetwork,
        ResetFlags, Answer, guardVars, LinksOwned, LinksJournaled, LinksRemovable,
        LinkSteps, RepairSteps, KernelLinks, Gotatun, SlotSteps, StartSteps,
        UserspaceSteps, KernelSteps
<1>40. CASE Crash
  BY <1>40, ActiveKinds, PlaceForms, EmptyPlaces DEF Crash, ProcessGone, ResetFlags,
        guardVars, LinksOwned, LinksJournaled, LinksRemovable, LinkSteps,
        RepairSteps, KernelLinks, Gotatun, SlotSteps, StartSteps, UserspaceSteps,
        KernelSteps
<1>41. CASE UNCHANGED vars
  BY <1>41 DEF vars, commandVars, flagVars, stateVars, localVars, guardVars, osVars,
        LinksOwned, LinksJournaled, LinksRemovable, LinkSteps, RepairSteps,
        KernelLinks, Gotatun, SlotSteps, StartSteps, UserspaceSteps, KernelSteps
<1>. QED
  BY <1>1, <1>2, <1>3, <1>4, <1>5, <1>6, <1>7, <1>8, <1>9, <1>10, <1>11, <1>12,
     <1>13, <1>14, <1>15, <1>16, <1>17, <1>18, <1>19, <1>20, <1>21, <1>22, <1>23,
     <1>24, <1>25, <1>26, <1>27, <1>28, <1>29, <1>30, <1>31, <1>32, <1>33, <1>34,
     <1>35, <1>36, <1>37, <1>38, <1>39, <1>40, <1>41
    DEF Next, Commands, Worker, UserspaceStart, KernelStart, Service

(* Every kernel link r-wg made stays named by the journal until it is        *)
(* deleted, for one tunnel name whatever fails, and for any number of them   *)
(* where links and journals can be removed and nothing panics.              *)
THEOREM LinksNeverForgotten ==
  ASSUME OneName \/ LinksRemovable
  PROVE  Spec => []LinksJournaled
<1>1. Init => LinksOwned
  BY InitInv DEF IInv, Init, LinksOwned, LinksJournaled, KernelLinks, Foreign
<1>2. IInv /\ LinksOwned /\ [Next]_vars => LinksOwned'
  BY LinksOwnedStep DEF IInv
<1>3. LinksOwned => LinksJournaled
  BY DEF LinksOwned
<1>. QED
  BY <1>1, <1>2, <1>3, Invariance, PTL DEF Spec

-----------------------------------------------------------------------------
(* Links of others.                                                         *)

(* Deleting a link, with its outcome, spares it; so does the shutdown of    *)
(* the backend, which has a device of its own.                              *)
LEMMA DeletionSparesOthers ==
  ASSUME TypeOK, NEW t \in Tuns, dev[t] = "foreignOther", NEW u \in Tuns,
         NEW ok \in BOOLEAN, DeleteLink(u, ok)
  PROVE  dev'[t] = "foreignOther"
BY DEF DeleteLink, IsWireGuardLink, KernelLinks, TypeOK, DataTypes

LEMMA ShutdownSparesOthers ==
  ASSUME IInv, NEW t \in Tuns, dev[t] = "foreignOther", ShutdownActiveBackend
  PROVE  dev'[t] = "foreignOther"
<1>1. CASE active.kind = "none"
  BY <1>1 DEF ShutdownActiveBackend
<1>2. CASE active.kind = "userspace"
  <2>1. active.tun # t /\ dev \in [Tuns -> Devices]
    BY <1>2, EmptyPlaces DEF IInv, Held, Gotatun
  <2>. QED
    BY <1>2, <2>1 DEF ShutdownActiveBackend
<1>3. CASE active.kind = "kernel"
  <2>1. active.tun \in Tuns
    BY <1>3, EmptyPlaces DEF IInv
  <2>. QED
    BY <1>3, <2>1, DeletionSparesOthers
      DEF ShutdownActiveBackend, DropLinkBestEffort, IInv
<1>. QED
  BY <1>1, <1>2, <1>3, ActiveKinds DEF IInv

(* No step touches a link that is not WireGuard: a handler changes only the  *)
(* device it holds, a free name, or what delete_kernel_device accepts.      *)
LEMMA OtherLinkStep ==
  ASSUME IInv, NEW t \in Tuns, dev[t] = "foreignOther", [Next]_vars
  PROVE  dev'[t] = "foreignOther"
<1>1. ASSUME NEW r \in Requests, StartBegin(r)
      PROVE  dev'[t] = "foreignOther"
  BY <1>1, ShutdownSparesOthers DEF StartBegin
<1>2. CASE StartRejected
  BY <1>2, EmptyPlaces DEF StartRejected, stateVars, localVars, osVars, flagVars,
        guardVars, IInv, WorkerControl, Held, SlotSteps, Protection, Gotatun
<1>3. CASE StopRejected
  BY <1>3, EmptyPlaces DEF StopRejected, stateVars, localVars, osVars, flagVars,
        guardVars, IInv, WorkerControl, Held, SlotSteps, Protection, Gotatun
<1>4. CASE StopBegin
  BY <1>4, EmptyPlaces DEF StopBegin, stateVars, localVars, osVars, flagVars,
        guardVars, IInv, WorkerControl, Held, SlotSteps, Protection, Gotatun
<1>5. CASE CloseChannel
  BY <1>5, EmptyPlaces DEF CloseChannel, stateVars, localVars, osVars, flagVars,
        guardVars, IInv, WorkerControl, Held, SlotSteps, Protection, Gotatun
<1>6. CASE StartResolved
  BY <1>6, EmptyPlaces DEF StartResolved, stateVars, localVars, osVars, flagVars,
        guardVars, IInv, WorkerControl, Held, SlotSteps, Protection, Gotatun
<1>7. CASE StartRefused
  BY <1>7, EmptyPlaces DEF StartRefused, Answer, localVars, osVars, guardVars, IInv,
        WorkerControl, Held, SlotSteps, Protection, Gotatun
<1>8. CASE UserspaceTake
  BY <1>8, EmptyPlaces DEF UserspaceTake, NameFree, Answer, flagVars, guardVars,
        IInv, WorkerControl, Held, SlotSteps, Protection, Gotatun
<1>9. CASE UserspaceDropOther
  BY <1>9, EmptyPlaces DEF UserspaceDropOther, commandVars, flagVars, localVars,
        guardVars, IInv, WorkerControl, Held, SlotSteps, Protection, Gotatun
<1>10. CASE UserspaceConfigure
  BY <1>10, EmptyPlaces DEF UserspaceConfigure, stateVars, localVars, guardVars,
        flagVars, IInv, WorkerControl, Held, SlotSteps, Protection, Gotatun
<1>11. CASE UserspaceNet
  BY <1>11, EmptyPlaces DEF UserspaceNet, ApplyNetwork, flagVars, localVars,
        guardVars, IInv, WorkerControl, Held, SlotSteps, Protection, Gotatun
<1>12. CASE UserspaceUpgrade
  BY <1>12, EmptyPlaces DEF UserspaceUpgrade, localVars, guardVars, IInv,
        WorkerControl, Held, SlotSteps, Protection, Gotatun
<1>13. CASE UserspaceDone
  BY <1>13, EmptyPlaces DEF UserspaceDone, Answer, flagVars, osVars, guardVars,
        IInv, WorkerControl, Held, SlotSteps, Protection, Gotatun
<1>14. CASE UserspaceUnwindNet
  BY <1>14, EmptyPlaces DEF UserspaceUnwindNet, TakeNetState, flagVars, localVars,
        guardVars, CleanupNetwork, IInv, WorkerControl, Held, SlotSteps, Protection,
        Gotatun
<1>15. CASE UserspaceUnwindSlot
  BY <1>15, EmptyPlaces DEF UserspaceUnwindSlot, ClearPeers, Answer, flagVars,
        guardVars, IInv, WorkerControl, Held, SlotSteps, Protection, Gotatun
<1>16. CASE KernelPrepare
  <2>1. cached # NoTun => cached # t
    BY EmptyPlaces DEF IInv
  <2>2. \/ UNCHANGED dev
        \/ cached # NoTun /\ dev' = [dev EXCEPT ![cached] = "absent"]
        \/ \E ok \in BOOLEAN : DeleteLink(req.tun, ok)
    BY <1>16 DEF KernelPrepare
  <2>. QED
    BY <2>1, <2>2, DeletionSparesOthers, EmptyPlaces DEF IInv
<1>17. CASE KernelJournalLink
  BY <1>17, EmptyPlaces DEF KernelJournalLink, WriteKernelJournal, Answer,
        stateVars, localVars, guardVars, flagVars, IInv, WorkerControl, Held,
        SlotSteps, Protection, Gotatun
<1>18. CASE KernelCreateLink
  BY <1>18, EmptyPlaces DEF KernelCreateLink, NameFree, ClearKernelJournal,
        KernelFailed, stateVars, localVars, guardVars, Answer, flagVars, IInv,
        WorkerControl, Held, SlotSteps, Protection, Gotatun
<1>19. CASE KernelRecordLink
  BY <1>19, EmptyPlaces DEF KernelRecordLink, WriteKernelJournal, Answer, stateVars,
        localVars, guardVars, flagVars, IInv, WorkerControl, Held, SlotSteps,
        Protection, Gotatun
<1>20. CASE KernelConfigure
  BY <1>20, EmptyPlaces DEF KernelConfigure, DropLinkBestEffort, KernelFailed,
        stateVars, localVars, guardVars, DeleteLink, ClearKernelJournal, Answer,
        flagVars, IsWireGuardLink, IInv, WorkerControl, Held, SlotSteps, Protection,
        Gotatun
<1>21. CASE GuardInstall
  BY <1>21, EmptyPlaces DEF GuardInstall, stateVars, localVars, flagVars, IInv,
        WorkerControl, Held, SlotSteps, Protection, Gotatun
<1>22. CASE GuardJournal
  BY <1>22, EmptyPlaces DEF GuardJournal, stateVars, flagVars, IInv, WorkerControl,
        Held, SlotSteps, Protection, Gotatun
<1>23. CASE KernelNet
  BY <1>23, EmptyPlaces DEF KernelNet, ApplyNetwork, flagVars, localVars, guardVars,
        IInv, WorkerControl, Held, SlotSteps, Protection, Gotatun
<1>24. CASE KernelMark
  BY <1>24, EmptyPlaces DEF KernelMark, WriteKernelJournal, stateVars, localVars,
        guardVars, flagVars, IInv, WorkerControl, Held, SlotSteps, Protection,
        Gotatun
<1>25. CASE KernelUpgrade
  BY <1>25, EmptyPlaces DEF KernelUpgrade, localVars, guardVars, IInv,
        WorkerControl, Held, SlotSteps, Protection, Gotatun
<1>26. CASE KernelUnguard
  BY <1>26, EmptyPlaces DEF KernelUnguard, CleanupGuard, stateVars, guardVars,
        flagVars, IInv, WorkerControl, Held, SlotSteps, Protection, Gotatun
<1>27. CASE KernelDone
  BY <1>27, EmptyPlaces DEF KernelDone, Answer, flagVars, localVars, osVars,
        guardVars, IInv, WorkerControl, Held, SlotSteps, Protection, Gotatun
<1>28. CASE KernelUnwindGuard
  BY <1>28, EmptyPlaces DEF KernelUnwindGuard, CleanupGuard, guardVars, stateVars,
        flagVars, IInv, WorkerControl, Held, SlotSteps, Protection, Gotatun
<1>29. CASE KernelUnwindNet
  BY <1>29, EmptyPlaces DEF KernelUnwindNet, TakeNetState, flagVars, localVars,
        guardVars, CleanupNetwork, IInv, WorkerControl, Held, SlotSteps, Protection,
        Gotatun
<1>30. CASE KernelUnwindLink
  BY <1>30, DeletionSparesOthers, EmptyPlaces DEF KernelUnwindLink, DropLinkBestEffort, IInv
<1>31. CASE StopNet
  BY <1>31, EmptyPlaces DEF StopNet, CleanupNetwork, flagVars, guardVars, IInv,
        WorkerControl, Held, SlotSteps, Protection, Gotatun
<1>32. CASE StopBackend
  <2>1. PICK ok \in BOOLEAN : StopActiveBackend(ok)
    BY <1>32 DEF StopBackend
  <2>2. CASE active.kind = "none"
    BY <2>1, <2>2 DEF StopActiveBackend
  <2>3. CASE active.kind = "userspace"
    <3>1. active.tun # t /\ dev \in [Tuns -> Devices]
      BY <2>3, EmptyPlaces DEF IInv, Held, Gotatun
    <3>. QED
      BY <2>1, <2>3, <3>1 DEF StopActiveBackend, ClearPeers
  <2>4. CASE active.kind = "kernel"
    <3>1. active.tun \in Tuns /\ \E done \in BOOLEAN : DeleteLink(active.tun, done)
      BY <2>1, <2>4, EmptyPlaces DEF StopActiveBackend, IInv
    <3>. QED
      BY <3>1, DeletionSparesOthers DEF IInv
  <2>. QED
    BY <2>2, <2>3, <2>4, ActiveKinds DEF IInv
<1>33. CASE WorkerExit
  <2>1. CASE active.kind = "none"
    <3>1. cached # t
      BY EmptyPlaces, TunsAssumption DEF IInv
    <3>. QED
      BY <1>33, <2>1, <3>1 DEF WorkerExit
  <2>2. CASE active.kind # "none"
    BY <1>33, <2>2, ShutdownSparesOthers DEF WorkerExit
  <2>. QED
    BY <2>1, <2>2
<1>34. CASE ProcessExit
  BY <1>34, EmptyPlaces DEF ProcessExit, ProcessGone, ResetFlags, guardVars, IInv,
        WorkerControl, Held, SlotSteps, Protection, Gotatun
<1>35. CASE Restart
  BY <1>35, EmptyPlaces DEF Restart, stateVars, localVars, osVars, flagVars,
        guardVars, IInv, WorkerControl, Held, SlotSteps, Protection, Gotatun
<1>36. CASE RepairNet
  BY <1>36, EmptyPlaces DEF RepairNet, CleanupNetwork, stateVars, localVars,
        guardVars, flagVars, IInv, WorkerControl, Held, SlotSteps, Protection,
        Gotatun
<1>37. CASE RepairGuard
  BY <1>37, EmptyPlaces DEF RepairGuard, CleanupGuard, stateVars, localVars,
        guardVars, flagVars, IInv, WorkerControl, Held, SlotSteps, Protection,
        Gotatun
<1>38. CASE RepairKernel
  <2>1. \/ UNCHANGED dev
        \/ kjournal \in Tuns /\ \E ok \in BOOLEAN : DeleteLink(kjournal, ok)
    BY <1>38 DEF RepairKernel, IInv, TypeOK, DataTypes, MaybeTun
  <2>. QED
    BY <2>1, DeletionSparesOthers DEF IInv
<1>39. CASE StartPanics
  BY <1>39, EmptyPlaces DEF StartPanics, CleanupNetwork, ResetFlags, Answer,
        guardVars, IInv, WorkerControl, Held, SlotSteps, Protection, Gotatun
<1>40. CASE Crash
  BY <1>40, EmptyPlaces DEF Crash, ProcessGone, ResetFlags, guardVars, IInv,
        WorkerControl, Held, SlotSteps, Protection, Gotatun
<1>41. CASE UNCHANGED vars
  BY <1>41 DEF vars, commandVars, flagVars, stateVars, localVars, guardVars, osVars,
        IInv, WorkerControl, Held, SlotSteps, Protection, Gotatun
<1>. QED
  BY <1>1, <1>2, <1>3, <1>4, <1>5, <1>6, <1>7, <1>8, <1>9, <1>10, <1>11, <1>12,
     <1>13, <1>14, <1>15, <1>16, <1>17, <1>18, <1>19, <1>20, <1>21, <1>22, <1>23,
     <1>24, <1>25, <1>26, <1>27, <1>28, <1>29, <1>30, <1>31, <1>32, <1>33, <1>34,
     <1>35, <1>36, <1>37, <1>38, <1>39, <1>40, <1>41
    DEF Next, Commands, Worker, UserspaceStart, KernelStart, Service

(* A link of somebody else that is not WireGuard stays as it is, whatever    *)
(* name a request gives and whatever fails.                                 *)
THEOREM OthersUntouched == Spec => OtherLinksKept
<1>1. IInv /\ [Next]_vars =>
        [\A t \in Tuns : dev[t] = "foreignOther" => dev'[t] = "foreignOther"]_vars
  BY OtherLinkStep
<1>. QED
  BY <1>1, Invariance, PTL DEF Spec, OtherLinksKept

=============================================================================
