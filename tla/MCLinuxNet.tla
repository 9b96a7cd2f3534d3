----------------------------- MODULE MCLinuxNet -----------------------------
(* Instances of LinuxNet for TLC. *)
EXTENDS LinuxNet
CONSTANTS r0, r1

TwoRoutes == {r0, r1}
Split == [routes |-> {r0}, policy |-> {}, kill |-> FALSE, dns |-> FALSE]
SplitDns == [Split EXCEPT !.dns = TRUE]
Full == [routes |-> TwoRoutes, policy |-> Families, kill |-> FALSE, dns |-> FALSE]
FullKill == [Full EXCEPT !.kill = TRUE]
FullAll == [FullKill EXCEPT !.dns = TRUE]

EveryConfig == {Split, SplitDns, Full, FullKill, FullAll}

ResolvedFirst == <<"resolved", "resolvConfFile">>
FileOnly == <<"resolvConfFile">>

(* What an apply rolls back, an apply that may fail or crash anywhere, and  *)
(* every fault at once.                                                     *)
EverySetting == {[faults |-> RolledBack, dnsOrder |-> FileOnly],
                 [faults |-> ApplyFaults, dnsOrder |-> ResolvedFirst],
                 [faults |-> AllFaults, dnsOrder |-> ResolvedFirst]}
CrashOnly == {[faults |-> {"crash"}, dnsOrder |-> FileOnly]}
=============================================================================
