------------------------------- MODULE Backend -------------------------------
(*****************************************************************************)
(* The machines of the privileged side: the Windows pipeline, the negotiation,*)
(* the service and its clients, its installation, the exchange of frames, the *)
(* Linux firewall and the Linux DNS backends.  They share no state (Engine    *)
(* composes what they promise), so a behaviour is one of one machine, and the *)
(* machines take turns with the variables.                                   *)
(*****************************************************************************)
EXTENDS Naturals, FiniteSets

CONSTANTS
  Addresses, Endpoints, Routes, Plans, FaultSets,       \* of WindowsNet
  Platforms,                                            \* of Negotiation
  Clients, ServicePlatforms, ServiceFaults, MaxExits,   \* of Service
  Systems, InstallFaults,                               \* of Installation
  Transports, MaxFrame, FrameLengths,                   \* of Ipc
  FirewallSettings,                                     \* of Firewall
  DnsSettings, Connections, MaxVerify                   \* of Dns

VARIABLES
  part,   \* the machine of this behaviour
          \* the variables of that machine
  v1, v2, v3, v4, v5, v6, v7, v8, v9, v10, v11, v12, v13, v14, v15

all == <<part, v1, v2, v3, v4, v5, v6, v7, v8, v9, v10, v11, v12, v13, v14, v15>>

WN == INSTANCE WindowsNet WITH
  faults <- v1, pc <- v2, plan <- v3, done <- v4, adapter <- v5, memory <- v6,
  held <- v7, journal <- v8, inEffect <- v9
NG == INSTANCE Negotiation WITH
  negotiating <- v1, platform <- v2, request <- v3, attempt <- v4, mtu <- v5,
  sent <- v6, answers <- v7, registered <- v8, result <- v9, device <- v10,
  elapsed <- v11, client <- v12
SV == INSTANCE Service WITH
  system <- v1, service <- v2, exits <- v3, stopRequested <- v4, instance <- v5,
  backlog <- v6, threads <- v7, channel <- v8, working <- v9, running <- v10,
  call <- v11, outcome <- v12
IS == INSTANCE Installation WITH
  setup <- v1, steps <- v2, manager <- v3, told <- v4, binary <- v5,
  units <- v6, owner <- v7, listening <- v8, process <- v9, tunnel <- v10
IP == INSTANCE Ipc WITH
  setting <- v1, exchange <- v2, request <- v3, executed <- v4, trouble <- v5
FW == INSTANCE Firewall WITH
  setting <- v1, pc <- v2, at <- v3, table <- v4, chain <- v5, jump <- v6,
  held <- v7, journal <- v8
DN == INSTANCE Dns WITH
  setting <- v1, pc <- v2, order <- v3, tried <- v4, profile <- v5,
  active <- v6, announced <- v7, file <- v8, link <- v9, entry <- v10,
  todo <- v11, touched <- v12, tries <- v13, again <- v14, state <- v15

(* What the program can be asked for, and what can fail: plans a request can *)
(* have, addresses that are no endpoints, clients that are not the service's *)
(* own thread, rules for some family, backends and families there are.       *)
ASSUME ConstantsAssumption ==
  /\ WN!PlansSound /\ \A f \in FaultSets : f \subseteq WN!AllFaults
  /\ Addresses \cap (Endpoints \cup {"guard"}) = {}
  /\ {SV!None, SV!Service} \cap Clients = {} /\ MaxExits \in Nat
  /\ Systems \subseteq {"linux", "windows"}
  /\ MaxFrame \in Nat /\ FrameLengths \subseteq Nat
  /\ \A s \in FirewallSettings :
       s.what \in {"kill", "guard"} /\ s.families \subseteq {"v4", "v6"} /\ s.families # {}
  /\ \A s \in DnsSettings :
       /\ s.probed \subseteq {"resolved", "resolvconf", "networkManager", "file"}
       /\ s.tunnel \subseteq DN!Families
  /\ IsFiniteSet(Connections) /\ MaxVerify \in Nat \ {0}

-----------------------------------------------------------------------------
(* The variables from one on that a machine does not use: they are 0 and     *)
(* stay so, as the choice of the machine does.                               *)
Same16 == UNCHANGED part
Zero13 == v13 = 0 /\ v14 = 0 /\ v15 = 0
Same13 == UNCHANGED <<v13, v14, v15>> /\ Same16
Zero11 == v11 = 0 /\ v12 = 0 /\ Zero13
Same11 == UNCHANGED <<v11, v12>> /\ Same13
Zero10 == v10 = 0 /\ Zero11
Same10 == UNCHANGED <<v10>> /\ Same11
Zero9 == v9 = 0 /\ Zero10
Same9 == UNCHANGED <<v9>> /\ Same10
Zero6 == v6 = 0 /\ v7 = 0 /\ v8 = 0 /\ Zero9
Same6 == UNCHANGED <<v6, v7, v8>> /\ Same9

Init ==
  \/ part = "windows" /\ WN!Init /\ Zero10
  \/ part = "negotiation" /\ NG!Init /\ Zero13
  \/ part = "service" /\ SV!Init /\ Zero13
  \/ part = "installation" /\ IS!Init /\ Zero11
  \/ part = "ipc" /\ IP!Init /\ Zero6
  \/ part = "firewall" /\ FW!Init /\ Zero9
  \/ part = "dns" /\ DN!Init

WindowsNetTurn == part = "windows" /\ WN!Next /\ Same10
NegotiationTurn == part = "negotiation" /\ NG!Next /\ Same13
ServiceTurn == part = "service" /\ SV!Next /\ Same13
InstallationTurn == part = "installation" /\ IS!Next /\ Same11
IpcTurn == part = "ipc" /\ IP!Next /\ Same6
FirewallTurn == part = "firewall" /\ FW!Next /\ Same9
DnsTurn == part = "dns" /\ DN!Next /\ Same16

Next ==
  \/ WindowsNetTurn \/ NegotiationTurn \/ ServiceTurn \/ InstallationTurn
  \/ IpcTurn \/ FirewallTurn \/ DnsTurn

Spec == Init /\ [][Next]_all

-----------------------------------------------------------------------------
(* Every machine's variables have their types.                               *)
TypeOK ==
  CASE part = "windows"      -> WN!TypeOK
    [] part = "negotiation"  -> NG!TypeOK
    [] part = "service"      -> SV!TypeOK
    [] part = "installation" -> IS!TypeOK
    [] part = "ipc"          -> IP!TypeOK
    [] part = "firewall"     -> FW!TypeOK
    [] part = "dns"          -> DN!TypeOK

(* What the system is left with.  Windows: a tunnel that runs has exactly its *)
(* plan in effect, the journal lags by one change at most, nothing outside the *)
(* adapter outlives a call (windows/apply_pipeline.rs, recovery.rs).  Linux: *)
(* no half built chain stops more than the finished one, what is reported    *)
(* stops everything it is for, nothing stays (killswitch.rs); and the user's *)
(* servers come back while nothing that reads or restores them fails (dns).  *)
NetworkSound ==
  /\ part = "windows" => WN!RunningIsExact /\ WN!JournalLagsByOne /\ WN!OutsideRestored
  /\ part = "firewall" => FW!FirewallSound
  /\ part = "dns" => DN!Restores

(* What a caller is told is so.  A tunnel in effect was reported to whoever  *)
(* asked for it (ipc_client.rs); a manager that reports success has done it  *)
(* (linux_service/manage.rs); an upgrade that succeeded left both ends with  *)
(* one secret (ephemeral.rs); the answers of the exchange are the engine's.  *)
CallersToldTruth ==
  /\ part = "service" => SV!NoUnreportedTunnel
  /\ part = "installation" => IS!ManagerKeepsItsWord
  /\ part = "negotiation" => NG!BothEndsAgree
  /\ part = "ipc" => IP!AnswersTrue /\ IP!FramesBounded

(* Whatever fails is undone before it is reported: the changes of a failed   *)
(* Windows apply and, after a crash, of its journal; the lowered MTU; a start *)
(* nobody waits for any more; a repair keeps the owner; and a DNS backend    *)
(* that leaves another server in resolv.conf is not reported as success.     *)
FailuresUndone ==
  [][/\ part = "windows" => WN!RepairSweeps /\ WN!AllOrNothing
     /\ part = "negotiation" => NG!MtuRestored
     /\ part = "ipc" => IP!TimedOutStartUndone
     /\ part = "installation" => IS!OwnerKept
     /\ part = "dns" => DN!NoForeignServer]_all
=============================================================================
