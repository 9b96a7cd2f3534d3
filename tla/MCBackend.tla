------------------------------ MODULE MCBackend ------------------------------
(*****************************************************************************)
(* The privileged side for TLC: the values of its constants, the fairness of *)
(* each machine and what it makes sure of.                                   *)
(*****************************************************************************)
EXTENDS Backend

(* Windows: a split and a full plan; stage, journal and other faults, crashes. *)
WindowsPlans == {{"a1", "r0"}, {"a0", "metric4", "e0", "r1", "dns", "nrpt", "guard"}}
StageFaults == {"lookup", "address", "metric", "bypass", "route", "dns", "nrpt", "guard"}
WindowsFaults ==
  {StageFaults, {"journal", "nothing"}, {"crash"}, {"crash", "journal", "deletion", "residue"}}

ServiceClients == {"alice", "bob"}
ServiceFaultSets == {{"crash"}, {"version"}, {"slowThread", "stop"}}
InstallFaultSets == {{}, {"command"}, {"file"}, {"stop", "slow"}}

FirewallCases ==
  [what : {"kill", "guard"}, families : {{"v4"}, {"v6"}, {"v4", "v6"}},
   programs : {{"nft"}, {"nft", "iptables", "ip6tables"}, {"iptables", "ip6tables"}, {"iptables"}},
   faults : {{}, {"build"}, {"build", "undo"}, {"crash"}, {"journal", "undo", "build", "crash"}}]

DnsCases ==
  [probed : {{"networkManager"}, {"resolved", "networkManager"}, {"resolvconf"}, {}},
   manager : {"networkManager", "file", "resolved"}, tunnel : {{"v4"}, {"v4", "v6"}},
   rdnss : {"none", "flaky", "sticky"},
   faults : {{"command", "modify", "overwrite"}, {"read", "reapply", "write", "restore", "command"}}]

-----------------------------------------------------------------------------
(* Each machine has the fairness its own module states.  A behaviour is one of *)
(* one machine, so one fair action of each can share a condition.            *)
FirstFair ==
  \/ part = "windows" /\ WN!Apply /\ Same10
  \/ part = "negotiation" /\ NG!Upgrade /\ Same13
  \/ part = "service" /\ SV!Work /\ Same13
SecondFair ==
  \/ part = "windows" /\ WN!Cleanup /\ Same10
  \/ part = "service" /\ SV!Accept /\ Same13
ThirdFair ==
  \/ part = "windows" /\ WN!Repair /\ Same10
  \/ part = "service" /\ SV!CreateInstance /\ Same13
FourthFair ==
  \/ part = "service" /\ SV!LeaveLoop /\ Same13
FifthFair ==
  \/ part = "service" /\ SV!GivesUp("alice") /\ Same13
SixthFair ==
  \/ part = "service" /\ SV!GivesUp("bob") /\ Same13
FairSpec ==
  /\ Spec /\ WF_all(FirstFair) /\ WF_all(SecondFair) /\ WF_all(ThirdFair)
  /\ WF_all(FourthFair) /\ WF_all(FifthFair) /\ WF_all(SixthFair)

-----------------------------------------------------------------------------
(* Calls, repairs, upgrades and shutdowns end, whatever fails: nobody waits  *)
(* for ever for a pipeline, a relay or a service that went away.  The clients *)
(* are alike, one stands for both.                                           *)
Calling ==
  \/ part = "windows" /\ WN!Calling
  \/ part = "negotiation" /\ NG!Upgrading
  \/ part = "service" /\ SV!Calling("alice")
Ending ==
  \/ part = "windows" /\ WN!Repairing
  \/ part = "service" /\ SV!ShuttingDown
CallsEnd == (Calling ~> ~Calling) /\ (Ending ~> ~Ending)
=============================================================================
