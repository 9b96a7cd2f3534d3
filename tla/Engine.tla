------------------------------- MODULE Engine -------------------------------
(***************************************************************************)
(* The privileged engine worker (src/src/backend/wg/engine): one task that *)
(* serves Start and Stop commands one after the other over `EngineState`,  *)
(* the GotaTun (userspace) and Linux kernel data planes, the journal of    *)
(* the kernel link, the quantum negotiation guard, and the system network  *)
(* configuration, whose pipeline is a component of its own (LinuxNet) and  *)
(* appears here by its result.                                             *)
(*                                                                         *)
(* A handler is a sequence of steps, one per change that survives the      *)
(* process or that a panic or a crash can separate from the next.          *)
(* Everything the environment may do wrong is named in Faults.             *)
(***************************************************************************)
EXTENDS Naturals

CONSTANTS Tuns,      \* tunnel (network device) names used by the requests
          NoTun,     \* Option::None for a tunnel name
          Faults     \* the failures the environment may inject

AllFaults == {"crash",      \* the process dies at any point (SIGKILL, power)
              "panic",      \* a panic inside the start handler
              "config",     \* the configuration does not parse or validate
              "noKernel",   \* the kernel has no WireGuard support
              "device",     \* creating or configuring a data plane fails
              "link",       \* deleting a kernel link fails
              "journal",    \* writing or removing a journal file fails
              "guard",      \* the firewall refuses a guard rule
              "apply",      \* applying the network configuration fails
              "cleanup",    \* rolling the network configuration back fails
              "ephemeral"}  \* the ephemeral peer negotiation fails

ASSUME TunsAssumption == NoTun \notin Tuns
ASSUME FaultsAssumption == Faults \subseteq AllFaults

VARIABLES
  pc,             \* the step of the worker
  closing,        \* the command channel is closed: the worker winds down
  req,            \* the StartRequest being served, kept until the next one
  reply,          \* the outcome of the last command
  \* ---- EngineState (state.rs) ----
  cached,         \* cached_userspace_device: its tunnel name
  active,         \* active_backend
  netState,       \* net_state: the tunnel name it belongs to
  report,         \* route_apply_report
  running,
  quantumActive, daitaActive, ephemeralKeyActive,
  lastQuantumFailure, lastDaitaFailure,
  \* ---- locals of the handlers ----
  slot,           \* start_userspace_gotatun: the slot and created_new
  guard,          \* start_linux_kernel: quantum_guard is Some
  cleanupOk,      \* stop: cleanup_result is Ok
  \* ---- the operating system ----
  dev,            \* the network device behind each name
  sysnet,         \* addresses, routes, rules, DNS and kill switch
  kjournal,       \* kernel-backend.json: the tunnel it names
  guardFw,        \* the quantum guard's firewall rules are installed
  gjournal        \* the guard's journal exists

commandVars == <<pc, closing, req, reply>>
flagVars == <<quantumActive, daitaActive, ephemeralKeyActive,
              lastQuantumFailure, lastDaitaFailure>>
stateVars == <<cached, active, netState, report, running, flagVars>>
localVars == <<slot, guard, cleanupOk>>
guardVars == <<guardFw, gjournal>>
osVars == <<dev, sysnet, kjournal, guardVars>>
vars == <<commandVars, stateVars, localVars, osVars>>

-----------------------------------------------------------------------------
(* Data.                                                                    *)

Preferences == {"auto", "kernel", "userspace"}
Requests == [tun: Tuns, pref: Preferences, quantum: BOOLEAN, daita: BOOLEAN]

MaybeTun == Tuns \cup {NoTun}
NoBackend == [kind |-> "none", tun |-> NoTun]
Userspace(t) == [kind |-> "userspace", tun |-> t]
LinuxKernel(t) == [kind |-> "kernel", tun |-> t]
NoSlot == [tun |-> NoTun, createdNew |-> FALSE]

(* What can sit behind a device name.  A GotaTun device is "clear" without  *)
(* peers, "peers" with the configured ones, "ephemeral" after an upgrade.   *)
Gotatun == {"tunClear", "tunPeers", "tunEphemeral"}
KernelLinks == {"kernel", "kernelEphemeral"}
Foreign == {"foreignWireGuard", "foreignOther"}
Devices == {"absent"} \cup Gotatun \cup KernelLinks \cup Foreign
AnyLink(d) == d # "absent"                              \* mutant: kind unchecked
IsWireGuardLink(d) == d \in KernelLinks \cup {"foreignWireGuard"}

UserspaceSteps == {"uTake", "uConfigure", "uNet", "uUpgrade", "uDone",
                   "uUnwindNet", "uUnwindSlot"}
KernelSteps == {"kPrepare", "kJournal", "kCreate", "kRecord", "kConfigure",
                "kGuard", "kGuardJournal", "kNet", "kMark", "kUpgrade",
                "kUnguard", "kDone", "kUnwindGuard", "kUnwindNet",
                "kUnwindLink"}
StartSteps == {"resolve"} \cup UserspaceSteps \cup KernelSteps
StopSteps == {"sNet", "sBackend"}
RepairSteps == {"down", "rNet", "rGuard", "rKernel"}
Steps == {"idle", "cShutdown", "exited"}
           \cup StartSteps \cup StopSteps \cup RepairSteps

(* The replies the worker sends, and "none" before the first.               *)
Replies == {"none", "ok", "AlreadyRunning", "NotRunning", "error"}

-----------------------------------------------------------------------------
(* Effects shared by the handlers.                                          *)

ResetFlags ==
  /\ quantumActive' = FALSE
  /\ daitaActive' = FALSE
  /\ ephemeralKeyActive' = FALSE
  /\ lastQuantumFailure' = FALSE
  /\ lastDaitaFailure' = FALSE

(* A device can be created only under a name the system does not use yet.   *)
NameFree(t) == dev[t] = "absent"

(* clear_userspace_device_peers; the mutant keeps the session's peers.      *)
KeepPeers(t) == UNCHANGED dev
ClearPeers(t) == dev' = [dev EXCEPT ![t] = "tunClear"]

(* delete_kernel_device: an absent link is fine, a link that is not         *)
(* WireGuard is refused, and the only ownership check is the link's kind.   *)
DeleteLink(t, ok) ==
  \/ /\ ok
     /\ dev[t] = "absent" \/ IsWireGuardLink(dev[t])
     /\ dev' = [dev EXCEPT ![t] = "absent"]
  \/ /\ ~ok
     /\ "link" \in Faults \/ ~(dev[t] = "absent" \/ IsWireGuardLink(dev[t]))
     /\ UNCHANGED dev

ClearKernelJournal(ok) ==
  \/ ok /\ kjournal' = NoTun
  \/ ~ok /\ "journal" \in Faults /\ UNCHANGED kjournal

(* A failed atomic write may still have renamed the new file into place     *)
(* (the directory sync comes after the rename).                             *)
SkipKernelJournal(t, ok) ==                             \* mutant: not written
  UNCHANGED kjournal /\ (ok \/ "journal" \in Faults)
WriteKernelJournal(t, ok) ==
  \/ ok /\ kjournal' = t
  \/ ~ok /\ "journal" \in Faults /\ kjournal' \in {kjournal, t}

(* if delete_kernel_device(t).is_ok() { let _ = clear_kernel_..journal(); } *)
ForgetLink(t) ==                                        \* mutant: not deleted
  UNCHANGED dev /\ \E cleared \in BOOLEAN : ClearKernelJournal(cleared)
DropLinkBestEffort(t) ==
  \/ DeleteLink(t, TRUE) /\ \E cleared \in BOOLEAN : ClearKernelJournal(cleared)
  \/ DeleteLink(t, FALSE) /\ UNCHANGED kjournal

(* QuantumNegotiationGuardState::cleanup: the firewall, then the journal.   *)
CleanupGuard(ok) ==
  \/ ok /\ guardFw' = FALSE /\ gjournal' = FALSE
  \/ ~ok /\ "guard" \in Faults /\ UNCHANGED guardVars
  \/ ~ok /\ "journal" \in Faults /\ guardFw' = FALSE /\ UNCHANGED gjournal

(* platform::cleanup_network_config, by its effect (see LinuxNet): one that *)
(* does not find the device skips the rest and still succeeds.              *)
CleanupNetwork(ok) ==
  \/ ok /\ sysnet' = "clean"
  \/ "cleanup" \in Faults /\ sysnet' = "residue"

(* shutdown_active_backend: best effort, and the network state is dropped   *)
(* without a rollback.                                                      *)
ShutdownActiveBackend ==
  /\ active' = NoBackend
  /\ CASE active.kind = "none" -> UNCHANGED <<dev, kjournal>>
       [] active.kind = "userspace" ->
            /\ dev' = [dev EXCEPT ![active.tun] = "absent"]
            /\ UNCHANGED kjournal
       [] active.kind = "kernel" -> DropLinkBestEffort(active.tun)
  /\ running' = FALSE
  /\ ResetFlags
  /\ netState' = NoTun
  /\ report' = "none"

AnswerThenClose(r) == pc' = (IF closing THEN "closed" ELSE "idle") /\ reply' = r  \* mutant
Answer(r) == pc' = (IF closing THEN "cShutdown" ELSE "idle") /\ reply' = r

-----------------------------------------------------------------------------
(* Commands.                                                                *)

StartRejected ==
  /\ pc = "idle" /\ running
  /\ reply' = "AlreadyRunning"
  /\ UNCHANGED <<pc, closing, req, stateVars, localVars, osVars>>

(* start: the report and the flags are reset, and a data plane that an      *)
(* earlier stop could not delete is shut down first.                        *)
StartBegin(r) ==
  /\ pc = "idle" /\ ~running
  /\ pc' = "resolve"
  /\ req' = r
  /\ IF active.kind # "none"
       THEN ShutdownActiveBackend
       ELSE /\ ResetFlags
            /\ report' = "none"
            /\ UNCHANGED <<active, netState, running, dev, kjournal>>
  /\ UNCHANGED <<closing, reply, cached, localVars, sysnet, guardVars>>

(* resolve_backend, parse_config and the DAITA validation.                  *)
StartResolved ==
  /\ pc = "resolve"
  /\ ~(req.daita /\ req.pref = "kernel")
  /\ pc' = IF req.daita \/ req.pref = "userspace" THEN "uTake" ELSE "kPrepare"
  /\ UNCHANGED <<closing, req, reply, stateVars, localVars, osVars>>

StartRefused ==
  /\ pc = "resolve"
  /\ \/ req.daita /\ req.pref = "kernel" /\ UNCHANGED lastDaitaFailure
     \/ "config" \in Faults /\ UNCHANGED lastDaitaFailure
     \/ /\ "config" \in Faults /\ req.daita /\ req.pref # "kernel"
        /\ lastDaitaFailure' = TRUE
  /\ Answer("error")
  /\ UNCHANGED <<closing, req, cached, active, netState, report, running,
                 quantumActive, daitaActive, ephemeralKeyActive,
                 lastQuantumFailure, localVars, osVars>>

-----------------------------------------------------------------------------
(* start_userspace_gotatun.  The active backend is empty here: `start` shut *)
(* it down.                                                                 *)

UserspaceTake ==
  /\ pc = "uTake"
  /\ cached \in {NoTun, req.tun}
  /\ \/ /\ cached = req.tun
        /\ slot' = [tun |-> req.tun, createdNew |-> FALSE]
        /\ cached' = NoTun
        /\ pc' = "uConfigure"
        /\ UNCHANGED <<reply, dev>>
     \/ /\ cached = NoTun /\ NameFree(req.tun)
        /\ slot' = [tun |-> req.tun, createdNew |-> TRUE]
        /\ dev' = [dev EXCEPT ![req.tun] = "tunClear"]
        /\ pc' = "uConfigure"
        /\ UNCHANGED <<reply, cached>>
     \/ /\ cached = NoTun
        /\ ~NameFree(req.tun) \/ "device" \in Faults
        /\ Answer("error")
        /\ UNCHANGED <<cached, slot, dev>>
  /\ UNCHANGED <<closing, req, active, netState, report, running, flagVars,
                 guard, cleanupOk, sysnet, kjournal, guardVars>>

(* A cached device of another name is stopped first.                        *)
UserspaceDropOther ==
  /\ pc = "uTake"
  /\ cached \notin {NoTun, req.tun}
  /\ dev' = [dev EXCEPT ![cached] = "absent"]
  /\ cached' = NoTun
  /\ UNCHANGED <<commandVars, active, netState, report, running, flagVars,
                 localVars, sysnet, kjournal, guardVars>>

UserspaceConfigure ==
  /\ pc = "uConfigure"
  /\ \/ /\ dev' = [dev EXCEPT ![slot.tun] = "tunPeers"]
        /\ pc' = "uNet"
     \/ /\ "device" \in Faults
        /\ \E d \in {"tunClear", "tunPeers"} : dev' = [dev EXCEPT ![slot.tun] = d]
        /\ pc' = "uUnwindSlot"
  /\ UNCHANGED <<closing, req, reply, stateVars, localVars, sysnet, kjournal,
                 guardVars>>

(* apply_network_config: on success the state to roll back is recorded; a   *)
(* failed apply rolls itself back, as far as it can.                        *)
ApplyNetwork(next, unwind) ==
  \/ /\ sysnet' = "applied"
     /\ netState' = req.tun
     /\ report' = "applied"
     /\ pc' = next
  \/ /\ "apply" \in Faults
     /\ sysnet' \in {"clean", "residue"}
     /\ report' = "failed"
     /\ pc' = unwind
     /\ UNCHANGED netState

UserspaceNetQuantumOnly ==                              \* mutant: DAITA forgotten
  /\ pc = "uNet"
  /\ ApplyNetwork(IF req.quantum THEN "uUpgrade" ELSE "uDone", "uUnwindSlot")
  /\ UNCHANGED <<closing, req, reply, cached, active, running, flagVars,
                 localVars, dev, kjournal, guardVars>>

UserspaceNet ==
  /\ pc = "uNet"
  /\ ApplyNetwork(IF req.quantum \/ req.daita THEN "uUpgrade" ELSE "uDone",
                  "uUnwindSlot")
  /\ UNCHANGED <<closing, req, reply, cached, active, running, flagVars,
                 localVars, dev, kjournal, guardVars>>

UserspaceUpgrade ==
  /\ pc = "uUpgrade"
  /\ \/ /\ quantumActive' = req.quantum
        /\ daitaActive' = req.daita
        /\ ephemeralKeyActive' = TRUE
        /\ lastQuantumFailure' = FALSE
        /\ lastDaitaFailure' = FALSE
        /\ dev' = [dev EXCEPT ![slot.tun] = "tunEphemeral"]
        /\ pc' = "uDone"
     \/ /\ "ephemeral" \in Faults
        /\ lastQuantumFailure' = (lastQuantumFailure \/ req.quantum)
        /\ lastDaitaFailure' = (lastDaitaFailure \/ req.daita)
        /\ \E d \in {"tunPeers", "tunEphemeral"} :
             dev' = [dev EXCEPT ![slot.tun] = d]
        /\ pc' = "uUnwindNet"
        /\ UNCHANGED <<quantumActive, daitaActive, ephemeralKeyActive>>
  /\ UNCHANGED <<closing, req, reply, cached, active, netState, report, running,
                 localVars, sysnet, kjournal, guardVars>>

UserspaceDoneSlotKept ==                                \* mutant: held twice
  /\ pc = "uDone"
  /\ active' = Userspace(slot.tun)
  /\ running' = TRUE
  /\ Answer("ok")
  /\ UNCHANGED <<closing, req, cached, netState, report, flagVars, localVars,
                 osVars>>

UserspaceDone ==
  /\ pc = "uDone"
  /\ active' = Userspace(slot.tun)
  /\ running' = TRUE
  /\ slot' = NoSlot
  /\ Answer("ok")
  /\ UNCHANGED <<closing, req, cached, netState, report, flagVars, guard,
                 cleanupOk, osVars>>

(* cleanup_active_network_state takes the state and rolls it back; without  *)
(* one it does nothing.                                                     *)
DropNetState(next) ==                                   \* mutant: no rollback
  netState' = NoTun /\ UNCHANGED sysnet /\ pc' = next
PeekNetState(next) ==                                   \* mutant: not taken
  /\ IF netState = NoTun THEN UNCHANGED sysnet
     ELSE \E ok \in BOOLEAN : CleanupNetwork(ok)
  /\ UNCHANGED netState /\ pc' = next
TakeNetState(next) ==
  /\ netState' = NoTun
  /\ IF netState = NoTun THEN UNCHANGED sysnet
     ELSE \E ok \in BOOLEAN : CleanupNetwork(ok)
  /\ pc' = next

UserspaceUnwindNet ==
  /\ pc = "uUnwindNet"
  /\ TakeNetState("uUnwindSlot")
  /\ UNCHANGED <<closing, req, reply, cached, active, report, running, flagVars,
                 localVars, dev, kjournal, guardVars>>

(* recover_userspace_slot_after_start_failure: a new device is stopped, a   *)
(* reused one is cleared and cached again, or stopped if that fails.        *)
UserspaceUnwindSlot ==
  /\ pc = "uUnwindSlot"
  /\ \/ /\ slot.createdNew \/ "device" \in Faults
        /\ dev' = [dev EXCEPT ![slot.tun] = "absent"]
        /\ UNCHANGED cached
     \/ /\ ~slot.createdNew
        /\ ClearPeers(slot.tun)
        /\ cached' = slot.tun
  /\ slot' = NoSlot
  /\ Answer("error")
  /\ UNCHANGED <<closing, req, active, netState, report, running, flagVars,
                 guard, cleanupOk, sysnet, kjournal, guardVars>>

-----------------------------------------------------------------------------
(* start_linux_kernel.  An error of start_kernel_device either falls back   *)
(* to GotaTun (preference Auto, kernel support missing) or ends the start.  *)

RetryKernel(unavailable) ==                             \* mutant: no fallback
  IF req.pref = "auto" /\ unavailable
    THEN pc' = "kPrepare" /\ UNCHANGED reply
    ELSE Answer("error")
KernelFailed(unavailable) ==
  IF req.pref = "auto" /\ unavailable
    THEN pc' = "uTake" /\ UNCHANGED reply
    ELSE Answer("error")

(* Shut the cached device down, then drop a link that the journal still     *)
(* names from an earlier attempt: cleanup_journaled_link_before_create.     *)
KernelPrepare ==
  /\ pc = "kPrepare"
  /\ IF cached # NoTun
       THEN /\ dev' = [dev EXCEPT ![cached] = "absent"]
            /\ cached' = NoTun
            /\ UNCHANGED <<pc, reply, kjournal>>
       ELSE /\ UNCHANGED cached
            /\ \/ /\ kjournal # req.tun
                  /\ pc' = "kJournal"
                  /\ UNCHANGED <<reply, dev, kjournal>>
               \/ /\ kjournal = req.tun
                  /\ DeleteLink(req.tun, TRUE)
                  /\ ClearKernelJournal(TRUE)
                  /\ pc' = "kJournal"
                  /\ UNCHANGED reply
               \/ /\ kjournal = req.tun
                  /\ DeleteLink(req.tun, TRUE)
                  /\ ClearKernelJournal(FALSE)
                  /\ KernelFailed(FALSE)
               \/ /\ kjournal = req.tun
                  /\ DeleteLink(req.tun, FALSE)
                  /\ \E unavailable \in BOOLEAN : KernelFailed(unavailable)
                  /\ UNCHANGED kjournal
  /\ UNCHANGED <<closing, req, active, netState, report, running, flagVars,
                 localVars, sysnet, guardVars>>

(* write_kernel_backend_journal(CreatingLink), before the link exists.      *)
KernelJournalLink ==
  /\ pc = "kJournal"
  /\ \/ WriteKernelJournal(req.tun, TRUE) /\ pc' = "kCreate" /\ UNCHANGED reply
     \/ WriteKernelJournal(req.tun, FALSE) /\ Answer("error")
  /\ UNCHANGED <<closing, req, stateVars, localVars, dev, sysnet, guardVars>>

(* create_wireguard_link: a device of that name is a conflict.  On any      *)
(* error the journal is removed again, best effort.                         *)
KernelCreateLink ==
  /\ pc = "kCreate"
  /\ \/ /\ NameFree(req.tun)
        /\ dev' = [dev EXCEPT ![req.tun] = "kernel"]
        /\ pc' = "kRecord"
        /\ UNCHANGED <<reply, kjournal>>
     \/ /\ UNCHANGED dev
        /\ \E cleared \in BOOLEAN : ClearKernelJournal(cleared)
        /\ \/ ~NameFree(req.tun) /\ KernelFailed(FALSE)
           \/ "noKernel" \in Faults /\ KernelFailed(TRUE)
           \/ "device" \in Faults /\ KernelFailed(FALSE)
  /\ UNCHANGED <<closing, req, stateVars, localVars, sysnet, guardVars>>

(* write_kernel_backend_journal(LinkCreated): on error the link stays, for  *)
(* the journal still names it.                                              *)
KernelRecordLink ==
  /\ pc = "kRecord"
  /\ \/ WriteKernelJournal(req.tun, TRUE) /\ pc' = "kConfigure" /\ UNCHANGED reply
     \/ WriteKernelJournal(req.tun, FALSE) /\ Answer("error")
  /\ UNCHANGED <<closing, req, stateVars, localVars, dev, sysnet, guardVars>>

KernelConfigure ==
  /\ pc = "kConfigure"
  /\ \/ /\ pc' = IF req.quantum THEN "kGuard" ELSE "kNet"
        /\ UNCHANGED <<reply, dev, kjournal>>
     \/ /\ DropLinkBestEffort(req.tun)
        /\ \/ "device" \in Faults /\ KernelFailed(FALSE)
           \/ "noKernel" \in Faults /\ KernelFailed(TRUE)
  /\ UNCHANGED <<closing, req, stateVars, localVars, sysnet, guardVars>>

(* apply_quantum_negotiation_guard installs the rules, then journals them.  *)
GuardErrorIgnored ==                                    \* mutant: goes on
  /\ pc = "kGuard"
  /\ pc' = "kGuardJournal"
  /\ \/ guardFw' = TRUE
     \/ "guard" \in Faults /\ guardFw' \in BOOLEAN
  /\ UNCHANGED <<closing, req, reply, stateVars, localVars, dev, sysnet,
                 kjournal, gjournal>>
GuardInstall ==
  /\ pc = "kGuard"
  /\ \/ guardFw' = TRUE /\ pc' = "kGuardJournal"
     \/ "guard" \in Faults /\ guardFw' \in BOOLEAN /\ pc' = "kUnwindLink"
  /\ UNCHANGED <<closing, req, reply, stateVars, localVars, dev, sysnet,
                 kjournal, gjournal>>

GuardJournal ==
  /\ pc = "kGuardJournal"
  /\ \/ /\ gjournal' = TRUE
        /\ guard' = TRUE
        /\ pc' = "kNet"
        /\ UNCHANGED guardFw
     \/ /\ "journal" \in Faults
        /\ gjournal' \in {gjournal, TRUE}
        /\ guardFw' \in (IF "guard" \in Faults THEN {FALSE, guardFw} ELSE {FALSE})
        /\ pc' = "kUnwindLink"
        /\ UNCHANGED guard
  /\ UNCHANGED <<closing, req, reply, stateVars, slot, cleanupOk, dev, sysnet,
                 kjournal>>

KernelNet ==
  /\ pc = "kNet"
  /\ ApplyNetwork("kMark", "kUnwindGuard")
  /\ UNCHANGED <<closing, req, reply, cached, active, running, flagVars,
                 localVars, dev, kjournal, guardVars>>

KernelMark ==
  /\ pc = "kMark"
  /\ \/ /\ WriteKernelJournal(req.tun, TRUE)
        /\ pc' = IF req.quantum THEN "kUpgrade" ELSE "kDone"
     \/ WriteKernelJournal(req.tun, FALSE) /\ pc' = "kUnwindGuard"
  /\ UNCHANGED <<closing, req, reply, stateVars, localVars, dev, sysnet,
                 guardVars>>

(* upgrade_kernel_ephemeral; a DAITA request never reaches the kernel.      *)
KernelUpgrade ==
  /\ pc = "kUpgrade"
  /\ \/ /\ quantumActive' = TRUE
        /\ daitaActive' = FALSE
        /\ ephemeralKeyActive' = TRUE
        /\ lastQuantumFailure' = FALSE
        /\ lastDaitaFailure' = FALSE
        /\ dev' = [dev EXCEPT ![req.tun] = "kernelEphemeral"]
        /\ pc' = "kUnguard"
     \/ /\ "ephemeral" \in Faults
        /\ lastQuantumFailure' = TRUE
        /\ \E d \in KernelLinks : dev' = [dev EXCEPT ![req.tun] = d]
        /\ pc' = "kUnwindGuard"
        /\ UNCHANGED <<quantumActive, daitaActive, ephemeralKeyActive,
                       lastDaitaFailure>>
  /\ UNCHANGED <<closing, req, reply, cached, active, netState, report, running,
                 localVars, sysnet, kjournal, guardVars>>

KernelUnguardOrNot ==                                   \* mutant: goes on
  /\ pc = "kUnguard"
  /\ guard' = FALSE
  /\ \E ok \in BOOLEAN : CleanupGuard(ok)
  /\ pc' = "kDone"
  /\ UNCHANGED <<closing, req, reply, stateVars, slot, cleanupOk, dev, sysnet,
                 kjournal>>
KernelUnguard ==
  /\ pc = "kUnguard"
  /\ guard' = FALSE
  /\ \/ CleanupGuard(TRUE) /\ pc' = "kDone"
     \/ CleanupGuard(FALSE) /\ pc' = "kUnwindNet"
  /\ UNCHANGED <<closing, req, reply, stateVars, slot, cleanupOk, dev, sysnet,
                 kjournal>>

KernelDone ==
  /\ pc = "kDone"
  /\ active' = LinuxKernel(req.tun)
  /\ running' = TRUE
  /\ Answer("ok")
  /\ UNCHANGED <<closing, req, cached, netState, report, flagVars, localVars,
                 osVars>>

(* A failed kernel start: the guard goes first, then the network            *)
(* configuration, then the link.  Errors of the unwinding are ignored.      *)
KernelUnwindGuard ==
  /\ pc = "kUnwindGuard"
  /\ guard' = FALSE
  /\ IF guard THEN \E ok \in BOOLEAN : CleanupGuard(ok) ELSE UNCHANGED guardVars
  /\ pc' = "kUnwindNet"
  /\ UNCHANGED <<closing, req, reply, stateVars, slot, cleanupOk, dev, sysnet,
                 kjournal>>

KernelUnwindNet ==
  /\ pc = "kUnwindNet"
  /\ TakeNetState("kUnwindLink")
  /\ UNCHANGED <<closing, req, reply, cached, active, report, running, flagVars,
                 localVars, dev, kjournal, guardVars>>

KernelUnwindLink ==
  /\ pc = "kUnwindLink"
  /\ DropLinkBestEffort(req.tun)
  /\ Answer("error")
  /\ UNCHANGED <<closing, req, stateVars, localVars, sysnet, guardVars>>

-----------------------------------------------------------------------------
(* stop.                                                                    *)

StopRejected ==
  /\ pc = "idle" /\ ~running
  /\ reply' = "NotRunning"
  /\ UNCHANGED <<pc, closing, req, stateVars, localVars, osVars>>

StopBegin ==
  /\ pc = "idle" /\ running
  /\ pc' = "sNet"
  /\ UNCHANGED <<closing, req, reply, stateVars, localVars, osVars>>

(* The network state is taken: a retry of a failed stop has none.           *)
StopNet ==
  /\ pc = "sNet"
  /\ netState' = NoTun
  /\ IF netState = NoTun THEN cleanupOk' = TRUE /\ UNCHANGED sysnet
     ELSE \E ok \in BOOLEAN : CleanupNetwork(ok) /\ cleanupOk' = ok
  /\ pc' = "sBackend"
  /\ UNCHANGED <<closing, req, reply, cached, active, report, running, flagVars,
                 slot, guard, dev, kjournal, guardVars>>

(* stop_active_backend, with its result.                                    *)
StopActiveBackend(ok) ==
  \/ /\ ok /\ active.kind = "none"
     /\ UNCHANGED <<cached, active, dev, kjournal>>
  \/ /\ ok /\ active.kind = "userspace" /\ ephemeralKeyActive
     /\ dev' = [dev EXCEPT ![active.tun] = "absent"]
     /\ active' = NoBackend
     /\ UNCHANGED <<cached, kjournal>>
  \/ /\ ok /\ active.kind = "userspace" /\ ~ephemeralKeyActive
     /\ ClearPeers(active.tun)
     /\ cached' = active.tun
     /\ active' = NoBackend
     /\ UNCHANGED kjournal
  \/ /\ ~ok /\ active.kind = "userspace" /\ ~ephemeralKeyActive
     /\ "device" \in Faults
     /\ dev' = [dev EXCEPT ![active.tun] = "absent"]
     /\ active' = NoBackend
     /\ UNCHANGED <<cached, kjournal>>
  \/ /\ ~ok /\ active.kind = "kernel"
     /\ DeleteLink(active.tun, FALSE)
     /\ UNCHANGED <<cached, active, kjournal>>
  \/ /\ active.kind = "kernel"
     /\ DeleteLink(active.tun, TRUE)
     /\ ClearKernelJournal(ok)
     /\ active' = NoBackend
     /\ UNCHANGED cached

(* When both the rollback and the data plane fail, `running` stays set.     *)
StopBackend ==
  /\ pc = "sBackend"
  /\ \E ok \in BOOLEAN :
       /\ StopActiveBackend(ok)
       /\ IF ok \/ cleanupOk
            THEN running' = FALSE /\ report' = "none" /\ ResetFlags
            ELSE UNCHANGED <<running, report, flagVars>>
       /\ Answer(IF ok /\ cleanupOk THEN "ok" ELSE "error")
  /\ UNCHANGED <<closing, req, netState, localVars, sysnet, guardVars>>

-----------------------------------------------------------------------------
(* The worker's end, a panic in a start, a crash and the service's restart. *)

(* The channel closes: the loop ends with a stop, then releases the rest.   *)
CloseChannel ==
  /\ pc = "idle" /\ ~closing
  /\ closing' = TRUE
  /\ pc' = IF running THEN "sNet" ELSE "cShutdown"
  /\ UNCHANGED <<req, reply, stateVars, localVars, osVars>>

WorkerExit ==
  /\ pc = "cShutdown"
  /\ IF active.kind # "none"
       THEN ShutdownActiveBackend /\ UNCHANGED <<pc, cached>>
       ELSE /\ dev' = [t \in Tuns |-> IF t = cached THEN "absent" ELSE dev[t]]
            /\ cached' = NoTun
            /\ running' = FALSE /\ ResetFlags
            /\ netState' = NoTun /\ report' = "none"
            /\ pc' = "exited"
            /\ UNCHANGED <<active, kjournal>>
  /\ UNCHANGED <<closing, req, reply, localVars, sysnet, guardVars>>

(* A panic inside `start` drops the handler's locals: a GotaTun slot closes *)
(* its device, a kernel link and the guard stay.  recover_after_worker_     *)
(* panic then rolls the recorded network state back, shuts down the active  *)
(* backend (none during a start) and the cached device, and keeps the report.*)
StartPanics ==
  /\ "panic" \in Faults
  /\ pc \in StartSteps
  /\ dev' = [t \in Tuns |-> IF t = slot.tun \/ t = cached THEN "absent" ELSE dev[t]]
  /\ slot' = NoSlot
  /\ guard' = FALSE
  /\ cached' = NoTun
  /\ IF netState = NoTun
       THEN IF pc \in {"uNet", "kNet"} THEN sysnet' \in {sysnet, "residue"}
                                       ELSE UNCHANGED sysnet
       ELSE \E ok \in BOOLEAN : CleanupNetwork(ok)
  /\ netState' = NoTun
  /\ running' = FALSE
  /\ ResetFlags
  /\ Answer("error")
  /\ UNCHANGED <<closing, req, active, report, cleanupOk, kjournal, guardVars>>

(* The process dies.  GotaTun devices go with it; links, rules, journals    *)
(* and the network configuration stay.                                      *)
ProcessGone ==
  /\ pc' = "down"
  /\ closing' = FALSE
  /\ cached' = NoTun /\ active' = NoBackend /\ netState' = NoTun
  /\ report' = "none" /\ running' = FALSE
  /\ ResetFlags
  /\ slot' = NoSlot /\ guard' = FALSE /\ cleanupOk' = TRUE
  /\ dev' = [t \in Tuns |-> IF dev[t] \in Gotatun THEN "absent" ELSE dev[t]]
  /\ UNCHANGED <<req, reply, kjournal, guardVars>>

Crash ==
  /\ "crash" \in Faults
  /\ pc # "down"
  /\ ProcessGone
  /\ IF pc \in {"uNet", "kNet"} THEN sysnet' \in {sysnet, "residue"}
                                ELSE UNCHANGED sysnet

ProcessExit == pc = "exited" /\ ProcessGone /\ UNCHANGED sysnet

Restart ==
  /\ pc = "down"
  /\ pc' = "rNet"
  /\ UNCHANGED <<closing, req, reply, stateVars, localVars, osVars>>

(* run_service repairs before it serves: the network configuration, the     *)
(* guard, the kernel link.  An error ends the service.                      *)
RepairNet ==
  /\ pc = "rNet"
  /\ \/ CleanupNetwork(TRUE) /\ pc' = "rGuard"
     \/ "cleanup" \in Faults /\ sysnet' \in {sysnet, "residue"} /\ pc' = "down"
  /\ UNCHANGED <<closing, req, reply, stateVars, localVars, dev, kjournal,
                 guardVars>>

RepairGuard ==
  /\ pc = "rGuard"
  /\ \/ CleanupGuard(TRUE) /\ pc' = "rKernel"
     \/ CleanupGuard(FALSE) /\ pc' = "down"
  /\ UNCHANGED <<closing, req, reply, stateVars, localVars, dev, sysnet, kjournal>>

RepairKernel ==
  /\ pc = "rKernel"
  /\ \/ kjournal = NoTun /\ pc' = "idle" /\ UNCHANGED <<dev, kjournal>>
     \/ /\ kjournal # NoTun
        /\ \/ DeleteLink(kjournal, FALSE) /\ pc' = "down" /\ UNCHANGED kjournal
           \/ /\ DeleteLink(kjournal, TRUE)
              /\ \E ok \in BOOLEAN :
                   ClearKernelJournal(ok) /\ pc' = IF ok THEN "idle" ELSE "down"
  /\ report' \in {"none", "applied", "failed"}  \* load_persisted_apply_report
  /\ UNCHANGED <<closing, req, reply, cached, active, netState, running, flagVars,
                 localVars, sysnet, guardVars>>

-----------------------------------------------------------------------------
Init ==
  /\ pc = "idle" /\ closing = FALSE
  /\ req \in Requests /\ reply = "none"
  /\ cached = NoTun /\ active = NoBackend /\ netState = NoTun
  /\ report = "none" /\ running = FALSE
  /\ quantumActive = FALSE /\ daitaActive = FALSE /\ ephemeralKeyActive = FALSE
  /\ lastQuantumFailure = FALSE /\ lastDaitaFailure = FALSE
  /\ slot = NoSlot /\ guard = FALSE /\ cleanupOk = TRUE
  /\ dev \in [Tuns -> {"absent"} \cup Foreign]
  /\ sysnet = "clean" /\ kjournal = NoTun
  /\ guardFw = FALSE /\ gjournal = FALSE

Commands == (\E r \in Requests : StartBegin(r)) \/ StartRejected
              \/ StopRejected \/ StopBegin \/ CloseChannel

UserspaceStart ==
  \/ UserspaceTake \/ UserspaceDropOther \/ UserspaceConfigure \/ UserspaceNet
  \/ UserspaceUpgrade \/ UserspaceDone \/ UserspaceUnwindNet
  \/ UserspaceUnwindSlot

KernelStart ==
  \/ KernelPrepare \/ KernelJournalLink \/ KernelCreateLink \/ KernelRecordLink
  \/ KernelConfigure \/ GuardInstall \/ GuardJournal \/ KernelNet \/ KernelMark
  \/ KernelUpgrade \/ KernelUnguard \/ KernelDone \/ KernelUnwindGuard
  \/ KernelUnwindNet \/ KernelUnwindLink

Worker == StartResolved \/ StartRefused \/ UserspaceStart \/ KernelStart
            \/ StopNet \/ StopBackend \/ WorkerExit
Service == ProcessExit \/ Restart \/ RepairNet \/ RepairGuard \/ RepairKernel

Next == Commands \/ Worker \/ Service \/ StartPanics \/ Crash

Spec == Init /\ [][Next]_vars
FairSpec == Spec /\ WF_vars(Worker) /\ WF_vars(Service)

-----------------------------------------------------------------------------
(* Properties.                                                              *)

(* The two halves of the type invariant: truth values, and the rest.        *)
FlagTypes ==
  /\ closing \in BOOLEAN /\ running \in BOOLEAN
  /\ quantumActive \in BOOLEAN /\ daitaActive \in BOOLEAN
  /\ ephemeralKeyActive \in BOOLEAN
  /\ lastQuantumFailure \in BOOLEAN /\ lastDaitaFailure \in BOOLEAN
  /\ guard \in BOOLEAN /\ cleanupOk \in BOOLEAN
  /\ guardFw \in BOOLEAN /\ gjournal \in BOOLEAN

DataTypes ==
  /\ pc \in Steps
  /\ req \in Requests /\ reply \in Replies
  /\ cached \in MaybeTun /\ netState \in MaybeTun
  /\ active \in {NoBackend} \cup {Userspace(t) : t \in MaybeTun}
                \cup {LinuxKernel(t) : t \in MaybeTun}
  /\ report \in {"none", "applied", "failed"}
  /\ slot \in [tun: MaybeTun, createdNew: BOOLEAN]
  /\ dev \in [Tuns -> Devices]
  /\ sysnet \in {"clean", "applied", "residue"}
  /\ kjournal \in MaybeTun

(* Every variable stays in the type state.rs and the files give it, and a   *)
(* data plane is recorded together with its tunnel name.                    *)
TypeOK == FlagTypes /\ DataTypes

(* The three places that hold a GotaTun device: the cache, the running      *)
(* backend, the slot of a start in progress.                                *)
Holders(t) ==
  {h \in {"cached", "active", "slot"} :
     \/ h = "cached" /\ cached = t
     \/ h = "active" /\ active = Userspace(t)
     \/ h = "slot" /\ slot.tun = t}

(* Every GotaTun device is held by exactly one place and every place holds  *)
(* a live device, on every path of start, stop, panic and crash: none is    *)
(* leaked with its name taken, none is reachable twice (mod.rs, the slots). *)
DevicesHeldOnce ==
  \A t \in Tuns : IF dev[t] \in Gotatun THEN \E h \in Holders(t) : Holders(t) = {h}
                                       ELSE Holders(t) = {}

(* state.rs:15-16: a GotaTun device is cached only while nothing runs, and  *)
(* it carries no peers of the session that used it.                         *)
CacheIsIdle ==
  cached # NoTun => ~running /\ active.kind = "none" /\ dev[cached] = "tunClear"

(* A network configuration in effect always has an owner that will roll it  *)
(* back: the engine's net_state, or, once the process is gone, the repair   *)
(* that precedes serving.  No start, stop or shutdown forgets one.          *)
AppliedIsOwned ==
  sysnet = "applied" => netState # NoTun \/ pc \in {"down", "rNet"}

(* The recorded network state belongs to the device of the session: the     *)
(* running backend's, or the one the start in progress is bringing up; a    *)
(* stopped engine holds none, so shutdown_active_backend, which drops it    *)
(* without a rollback, never has one to drop.                               *)
NetStateOfSession ==
  netState # NoTun =>
    \/ running /\ active.tun = netState
    \/ pc \in StartSteps /\ active.kind = "none" /\ req.tun = netState

(* Both: what is applied has an owner, and the owner is the session it       *)
(* belongs to, on every path of start, stop, panic and crash.               *)
NetStateOwned == AppliedIsOwned /\ NetStateOfSession

(* The link of a kernel session, starting or running, is named by the       *)
(* journal that the next service start repairs from.                        *)
KernelSessionJournaled ==
  /\ active.kind = "kernel" => kjournal = active.tun
  /\ pc \in KernelSteps \ {"kPrepare", "kJournal", "kUnwindLink"} =>
       kjournal = req.tun

(* A session that asked for post-quantum or DAITA protection and is running *)
(* on a data plane runs on the negotiated ephemeral key, and the flag that  *)
(* decides whether stop may cache the device agrees with the device.        *)
NoSilentDowngrade ==
  running /\ active.kind # "none" =>
    /\ req.quantum => quantumActive
    /\ req.daita => daitaActive /\ active.kind = "userspace"
    /\ ephemeralKeyActive <=> dev[active.tun] \in {"tunEphemeral", "kernelEphemeral"}
    /\ ephemeralKeyActive <=> req.quantum \/ req.daita

(* While a post-quantum session on the kernel data plane has its routes     *)
(* applied but not yet its ephemeral key, the guard keeps traffic off it.   *)
GuardCoversNegotiation ==
  pc \in {"kNet", "kMark", "kUpgrade"} /\ req.quantum => guardFw /\ guard

(* A link of that name that is not WireGuard is never touched               *)
(* (delete_kernel_device refuses it), whatever fails.                       *)
OtherLinksKept ==
  [][\A t \in Tuns : dev[t] = "foreignOther" => dev'[t] = "foreignOther"]_vars

(* Every link r-wg made and has not deleted is still named by the journal.  *)
(* With two names this needs deletions that work: a failed deletion of one  *)
(* link followed by a start under the other name overwrites the journal.    *)
LinksJournaled == \A t \in Tuns : dev[t] \in KernelLinks => kjournal = t

(* The guard lets only the negotiation through: a post-quantum kernel start  *)
(* never reports success with its guard, or the guard of an earlier attempt  *)
(* that a panic left, still in effect or in the journal (start_pipeline.rs:  *)
(* 417, the failed removal ends the start).                                 *)
StartEndsUnguarded ==
  [][~running /\ running' /\ active'.kind = "kernel" /\ req.quantum =>
       ~guardFw' /\ ~gjournal']_vars

(* Every start and stop ends, whatever fails on its way and however often   *)
(* it falls back or unwinds: the next command is served, or the process     *)
(* winds down.                                                              *)
CommandAnswered == pc \in StartSteps \cup StopSteps ~> pc \in {"idle", "exited", "down"}
=============================================================================
