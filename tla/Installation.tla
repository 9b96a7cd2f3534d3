----------------------------- MODULE Installation -----------------------------
(***************************************************************************)
(* Installing, repairing and removing the privileged service                 *)
(* (src/src/backend/wg/linux_service/{manage,fs_ops,render,systemd}.rs,      *)
(* windows_service_manager.rs), while clients go on using it.  Version 1 is  *)
(* the installed one, version 2 the one whose UI asks for the change.        *)
(*                                                                         *)
(* systemd and the service control manager are external: a socket that is    *)
(* stopped or restarted takes the service that requires it along, a service  *)
(* that is asked to stop ends its tunnel, one that starts repairs what an    *)
(* earlier one left.                                                        *)
(***************************************************************************)
EXTENDS Naturals, Sequences, FiniteSets

CONSTANTS Systems,         \* of {"linux", "windows"}
          InstallFaults    \* sets of {"command", "file", "stop", "slow"}

VARIABLES
  setup,       \* [os, action, faults, sameProtocol] of this behaviour
  steps,       \* what the manager has left to do
  manager,     \* its result
  told,        \* what manage_privileged_service told the UI
  binary,      \* version of the installed binary, 0 if none
  units,       \* unit files, or the registration with the service manager
  owner,       \* the user the units let in
  listening,   \* the socket can be connected to
  process,     \* version of the running service, 0 if none
  tunnel       \* the system's network is changed for a tunnel

vars == <<setup, steps, manager, told, binary, units, owner, listening, process, tunnel>>
installed == <<binary, units, owner>>
live == <<listening, process, tunnel>>

Actions == {"install", "repair", "remove"}
Linux == setup.os = "linux"
Fault(f) == f \in setup.faults
UnitFiles == IF Linux THEN {"service", "socket", "startupRepair"} ELSE {"registration"}

Plan(os, action) ==
  CASE os = "linux" /\ action = "install" -> <<"binary", "units", "enable", "socketDir", "socket">>
    [] os = "linux" /\ action = "repair" ->
         <<"auth", "binary", "units", "enable", "graceful", "socketDir", "socket">>
    [] os = "linux" /\ action = "remove" -> <<"graceful", "disable", "stop", "files", "binaryFile">>
    [] os = "windows" /\ action = "install" -> <<"binary", "register", "start", "confirm">>
    [] os = "windows" /\ action = "repair" ->
         <<"unregister", "binary", "register", "start", "confirm">>
    [] os = "windows" /\ action = "remove" -> <<"unregister", "binaryFile">>

-----------------------------------------------------------------------------
(* The steps of the manager: one is done, or it fails and the rest is not.   *)
At(s) == steps # <<>> /\ Head(steps) = s /\ manager = "none"
Done == steps' = Tail(steps) /\ manager' = IF Len(steps) = 1 THEN "ok" ELSE "none"
Failed == steps' = <<>> /\ manager' = "error"
Static == UNCHANGED <<setup, told>>

(* load_existing_install_auth_mode: the units of the installation are read   *)
(* for the user they let in, and written for the same one.                  *)
ReadAuth ==
  /\ At("auth") /\ Static /\ UNCHANGED <<installed, live>>
  /\ Done \/ (Fault("file") /\ Failed)

AskingUser == "asking"
AskedUser == AskingUser                \* mutant: the units are not read

KeptUser == IF setup.action = "repair" /\ {"service", "socket"} \subseteq units THEN owner ELSE AskingUser

(* install_binary: on Linux a copy renamed into place; Windows cannot        *)
(* overwrite the program of a running service.                              *)
InstallBinary ==
  /\ At("binary") /\ Static /\ UNCHANGED <<units, owner, live>>
  /\ \/ (Linux \/ process = 0) /\ binary' = 2 /\ Done
     \/ (Fault("file") \/ (~Linux /\ process # 0)) /\ Failed /\ UNCHANGED binary

(* Three files one after the other.                                         *)
WriteUnits ==
  /\ At("units") /\ Static /\ UNCHANGED <<binary, live>>
  /\ \/ Done /\ units' = UnitFiles /\ owner' = KeptUser
     \/ /\ Fault("file") /\ Failed
        /\ \/ UNCHANGED <<units, owner>>
           \/ units' = units \cup {"service"} /\ UNCHANGED owner
           \/ units' = units \cup {"service", "socket"} /\ owner' = KeptUser

Enable ==
  /\ At("enable") /\ Static /\ UNCHANGED <<installed, live>>
  /\ Done \/ (Fault("command") /\ Failed)

(* graceful_stop_active_backend: a stop through the socket, which fails if   *)
(* the tunnel cannot be stopped.                                            *)
GracefulStop ==
  /\ At("graceful") /\ Static /\ UNCHANGED <<installed, listening, process>>
  /\ \/ (process = 0 \/ ~tunnel) /\ Done /\ UNCHANGED tunnel
     \/ process # 0 /\ tunnel' = FALSE /\ Done
     \/ process # 0 /\ tunnel /\ Fault("stop") /\ Failed /\ UNCHANGED tunnel

RemoveSocketDir ==
  /\ At("socketDir") /\ Static /\ UNCHANGED <<installed, process, tunnel>>
  /\ listening' = FALSE
  /\ Done \/ (Fault("file") /\ Failed)

(* A process told to stop ends its tunnel if it can.                        *)
EndService == process' = 0 /\ (tunnel' = FALSE \/ (Fault("stop") /\ tunnel' = tunnel))

(* systemctl start or restart of the socket.  The restart takes the running  *)
(* service along, which comes back as the binary installed.                 *)
StartSocket ==
  /\ At("socket") /\ Static /\ UNCHANGED installed
  /\ \/ /\ Done /\ listening' = TRUE
        /\ IF setup.action = "repair" /\ process # 0
           THEN process' = binary /\ tunnel' = FALSE
           ELSE UNCHANGED <<process, tunnel>>
     \/ Fault("command") /\ Failed /\ UNCHANGED live

DisableOnly ==                         \* mutant: disable without --now
  /\ At("disable") /\ Static /\ Done /\ UNCHANGED <<installed, live>>

(* remove_installation ignores what systemctl says.                         *)
Disable ==
  /\ At("disable") /\ Static /\ Done /\ UNCHANGED installed
  /\ \/ listening' = FALSE /\ EndService
     \/ Fault("command") /\ UNCHANGED live

StopService ==
  /\ At("stop") /\ Static /\ Done /\ UNCHANGED <<installed, listening>>
  /\ \/ EndService
     \/ Fault("command") /\ UNCHANGED <<process, tunnel>>

RemoveUnits ==
  /\ At("files") /\ Static /\ UNCHANGED <<binary, owner, live>>
  /\ \/ Done /\ units' = {}
     \/ Fault("file") /\ Failed /\ units' \in {units, units \ {"service"}, units \ {"service", "socket"}}

RemoveBinary ==
  /\ At("binaryFile") /\ Static /\ UNCHANGED <<units, owner, live>>
  /\ \/ (Linux \/ process = 0) /\ binary' = 0 /\ Done
     \/ (Fault("file") \/ (~Linux /\ process # 0)) /\ Failed /\ UNCHANGED binary

(* remove_service_registration: stop, wait 15 seconds, delete; its errors    *)
(* are ignored.  The service may need longer than that.                     *)
Unregister ==
  /\ At("unregister") /\ Static /\ Done /\ UNCHANGED <<binary, owner, listening>>
  /\ \/ EndService /\ units' = {}
     \/ Fault("slow") /\ units' = {} /\ UNCHANGED <<process, tunnel>>
     \/ Fault("command") /\ UNCHANGED <<units, process, tunnel>>

(* open_service with reconfigure_service, or create_service.                *)
Register ==
  /\ At("register") /\ Static /\ UNCHANGED <<binary, owner, live>>
  /\ \/ Done /\ units' = UnitFiles
     \/ Fault("command") /\ Failed /\ UNCHANGED units

(* start_service leaves a running service alone.                            *)
StartService ==
  /\ At("start") /\ Static /\ UNCHANGED <<installed, listening>>
  /\ \/ process # 0 /\ Done /\ UNCHANGED <<process, tunnel>>
     \/ process = 0 /\ process' = binary /\ tunnel' = FALSE /\ Done
     \/ Fault("command") /\ Failed /\ UNCHANGED <<process, tunnel>>

-----------------------------------------------------------------------------
(* wait_for_manager_result: what the probe says now, without knowing whether *)
(* the manager has done anything yet.                                       *)
Probe ==
  IF units = {} THEN "NotInstalled"
  ELSE IF process = 0 THEN "Installed"
  ELSE IF process = 2 \/ setup.sameProtocol THEN "Running"
  ELSE "VersionMismatch"

Verdict(action, status) ==
  CASE status = "VersionMismatch" -> "error"
    [] action = "remove" /\ status = "NotInstalled" -> "ok"
    [] action # "remove" /\ status \in {"Running", "Installed"} -> "ok"
    [] OTHER -> "none"

Confirm ==
  /\ At("confirm") /\ Static /\ UNCHANGED <<installed, live>>
  /\ IF Verdict("install", Probe) = "ok" THEN Done ELSE Failed

(* The UI hears the exit code of pkexec; on Windows it polls for 12 seconds. *)
TellUi ==
  /\ told = "none"
  /\ \/ Linux /\ manager # "none" /\ told' = manager
     \/ ~Linux /\ Verdict(setup.action, Probe) # "none" /\ told' = Verdict(setup.action, Probe)
     \/ ~Linux /\ Verdict(setup.action, Probe) = "none" /\ manager # "none" /\ told' = "error"
  /\ UNCHANGED <<setup, steps, manager, installed, live>>

(* Another client: the socket activates the service, the service starts a    *)
(* tunnel or stops it.                                                      *)
ClientStarts ==
  /\ IF Linux THEN listening /\ binary # 0 /\ "service" \in units ELSE process # 0
  /\ ~tunnel \/ process = 0
  /\ process' = IF process = 0 THEN binary ELSE process
  /\ tunnel' = TRUE
  /\ UNCHANGED <<setup, steps, manager, told, installed, listening>>

Init ==
  /\ setup \in [os: Systems, action: Actions, faults: InstallFaults, sameProtocol: BOOLEAN]
  /\ steps = Plan(setup.os, setup.action) /\ manager = "none" /\ told = "none"
  /\ \/ /\ binary = 0 /\ units = {} /\ owner = "nobody"
        /\ listening = FALSE /\ process = 0 /\ tunnel = FALSE
     \/ /\ binary = 1 /\ units = UnitFiles /\ owner = "installer" /\ listening = Linux
        /\ process \in {0, 1} /\ tunnel \in {FALSE, process = 1}

LinuxStep == \/ ReadAuth \/ InstallBinary \/ WriteUnits \/ Enable \/ GracefulStop
             \/ RemoveSocketDir \/ StartSocket \/ Disable \/ StopService
             \/ RemoveUnits \/ RemoveBinary
WindowsStep == Unregister \/ Register \/ StartService \/ Confirm
Next == LinuxStep \/ WindowsStep \/ TellUi \/ ClientStarts
Spec == Init /\ [][Next]_vars

-----------------------------------------------------------------------------
(* Properties.                                                              *)

TypeOK ==
  /\ setup \in [os: Systems, action: Actions, faults: InstallFaults, sameProtocol: BOOLEAN]
  /\ manager \in {"none", "ok", "error"} /\ told \in {"none", "ok", "error"}
  /\ binary \in 0..2 /\ process \in 0..2 /\ units \subseteq UnitFiles
  /\ owner \in {"nobody", "installer", AskingUser}
  /\ listening \in BOOLEAN /\ tunnel \in BOOLEAN

(* A manager that reports success has done what it was asked to do: after a  *)
(* repair no process of the old version serves; after a removal there is no  *)
(* process, nothing installed, and no tunnel that nobody could stop any      *)
(* more, although clients used the service in between.                      *)
ManagerKeepsItsWord ==
  manager = "ok" /\ setup.faults = {} =>
    /\ setup.action = "repair" => process # 1 /\ binary = 2
    /\ setup.action = "remove" => process = 0 /\ ~tunnel /\ binary = 0 /\ units = {}

(* A Linux repair keeps the user the installation was made for.             *)
OwnerKept ==
  Linux /\ setup.action = "repair" /\ {"service", "socket"} \subseteq units => owner' = owner

(* diagnostics.rs: a version mismatch is cured by a repair; so a repair is    *)
(* reported as failed only when it has failed.                              *)
RepairAnswersForItself ==
  setup.action = "repair" /\ told = "error" => manager = "error"
=============================================================================
