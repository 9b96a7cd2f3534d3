---------------------------------- MODULE Dns ----------------------------------
(***************************************************************************)
(* The DNS backends of the Linux pipeline (platform/linux/network/dns):      *)
(* which are tried, in which order, what each does to the system command by  *)
(* command, how the result is verified in resolv.conf, and how it is undone.  *)
(* LinuxNet has a backend's outcome as one step.                             *)
(*                                                                         *)
(* Servers are known by their family and by whose they are: the user's, the  *)
(* tunnel's, or announced by a router (RDNSS).                              *)
(***************************************************************************)
EXTENDS SequencesExt

CONSTANTS DnsSettings,   \* see the operators below
          Connections,   \* the active connections of NetworkManager
          MaxVerify      \* reads of resolv.conf before a verification fails (5)

VARIABLES
  setting,    \* probed: backends found; manager: who writes resolv.conf;
              \* tunnel: families of the tunnel's servers; rdnss; faults
  pc,
  order,      \* DNS_BACKEND_ORDER_CACHE, or <<>>
  tried,      \* backends this apply has tried
  profile,    \* per connection, whose servers it is configured with
  active,     \* per connection, whose servers its device uses
  announced,  \* a server announced by a router is still in use
  file,       \* the servers in resolv.conf; {} when it was truncated
  link, entry,  \* the tunnel's settings in systemd-resolved, in resolvconf
  todo, touched, \* NetworkManager: connections to do, and done with what was saved
  tries, again,  \* the verification, and whether it is the one after a reconnect
  state       \* DnsState: the backend and what it saved

nmVars == <<profile, active, announced>>
callVars == <<tried, todo, touched, tries, again>>
vars == <<setting, pc, order, callVars, nmVars, file, link, entry, state>>

Families == {"v4", "v6"}
Owners == {"user", "tunnel"}
DnsStates ==
  [backend : {"none", "resolved", "resolvconf", "networkManager", "file"},
   connections : Seq([connection : Connections, profile : Owners]),
   original : SUBSET [family : Families, owner : Owners \cup {"router"}]]
NoState == [backend |-> "none", connections |-> <<>>, original |-> {}]
Faulty(f) == f \in setting.faults

Servers(owner) ==
  [family : IF owner = "tunnel" THEN setting.tunnel ELSE Families, owner : {owner}]

(* What the manager of resolv.conf writes into it.                          *)
FromNm == (UNION {Servers(active[c]) : c \in Connections})
            \cup (IF announced THEN [family : {"v6"}, owner : {"router"}] ELSE {})
Managed == setting.manager # "file"

(* dns_backend_order_from_probes: the file only where it is not a link, and  *)
(* the backend that manages resolv.conf first.                              *)
Probed == (setting.probed \ {"file"}) \cup (IF Managed THEN {} ELSE {"file"})
Preferred == setting.manager      \* detect_preferred_backend: by what resolv.conf says
InOrder(backends) ==
  LET If(b) == IF b \in backends THEN <<b>> ELSE <<>>
  IN If("resolved") \o If("resolvconf") \o If("networkManager") \o If("file")
Order == IF Preferred \in Probed THEN <<Preferred>> \o InOrder(Probed \ {Preferred})
         ELSE InOrder(Probed)

(* mutant: one server of the tunnel is enough.                              *)
VerifiedIfPresent(content) == \E s \in content : s.owner = "tunnel"
(* verify_resolv_conf_servers: in each family, some of the expected servers  *)
(* and no other.                                                            *)
Verified(content) ==
  \A f \in Families :
    LET found == {s \in content : s.family = f}
    IN IF f \in setting.tunnel THEN found # {} /\ \A s \in found : s.owner = "tunnel"
                               ELSE found = {}

-----------------------------------------------------------------------------
(* apply_dns.                                                               *)

Begin ==
  /\ pc = "idle" /\ state = NoState
  /\ order' = IF order = <<>> THEN Order ELSE order
  /\ tried' = 0 /\ pc' = "try"
  /\ UNCHANGED <<setting, todo, touched, tries, again, nmVars, file, link, entry, state>>

First == [resolved |-> "resolvedDns", resolvconf |-> "resolvconf",
          networkManager |-> "nmList", file |-> "fileRead"]

Try ==
  /\ pc = "try"
  /\ IF tried = Len(order) THEN pc' = "failed" /\ tried' = tried
     ELSE pc' = First[order[tried + 1]] /\ tried' = tried + 1
  /\ UNCHANGED <<setting, order, todo, touched, tries, again, nmVars, file, link, entry, state>>

Done(s) == pc' = "on" /\ state' = s

(* resolvectl dns, then resolvectl domain; a failure reverts nothing.       *)
ResolvedDns ==
  /\ pc = "resolvedDns"
  /\ \/ link' = "tunnel" /\ pc' = "resolvedDomain"
     \/ Faulty("command") /\ pc' = "try" /\ UNCHANGED link
  /\ UNCHANGED <<setting, order, callVars, nmVars, file, entry, state>>
ResolvedDomain ==
  /\ pc = "resolvedDomain"
  /\ \/ Done([NoState EXCEPT !.backend = "resolved"])
     \/ Faulty("command") /\ pc' = "try" /\ UNCHANGED state
  /\ UNCHANGED <<setting, order, callVars, nmVars, file, link, entry>>

Resolvconf ==
  /\ pc = "resolvconf"
  /\ \/ entry' = "tunnel" /\ Done([NoState EXCEPT !.backend = "resolvconf"])
     \/ Faulty("command") /\ pc' = "try" /\ UNCHANGED <<entry, state>>
  /\ UNCHANGED <<setting, order, callVars, nmVars, file, link>>

(* nmcli_active_connections: none is an error.                              *)
NmList ==
  /\ pc = "nmList"
  /\ \/ Connections # {} /\ todo' \in SetToSeqs(Connections) /\ pc' = "nmRead"
     \/ (Connections = {} \/ Faulty("command")) /\ pc' = "try" /\ todo' = <<>>
  /\ touched' = <<>> /\ tries' = 0 /\ again' = FALSE
  /\ UNCHANGED <<setting, order, tried, nmVars, file, link, entry, state>>

(* read_nm_connection_state leaves with `?`: what was done to other           *)
(* connections stays.                                                       *)
NmRead ==
  /\ pc = "nmRead"
  /\ \/ pc' = "nmModify"
     \/ Faulty("read") /\ pc' = "try"
  /\ UNCHANGED <<setting, order, callVars, nmVars, file, link, entry, state>>

(* apply_nm_connection changes the profile and applies it to the device;     *)
(* when it fails, the connections before it are restored.                   *)
NmModify ==
  /\ pc = "nmModify"
  /\ LET c == Head(todo)
         saved == [connection |-> c, profile |-> profile[c]]
     IN \/ /\ profile' = [profile EXCEPT ![c] = "tunnel"]
           /\ active' = [active EXCEPT ![c] = "tunnel"]
           /\ touched' = Append(touched, saved) /\ todo' = Tail(todo)
           /\ pc' = IF Len(todo) = 1 THEN "nmVerify" ELSE "nmRead"
        \/ /\ Faulty("modify") /\ pc' = "nmUndo"
           /\ UNCHANGED <<profile, active, touched, todo>>
        \/ /\ Faulty("reapply") /\ pc' = "nmUndo"
           /\ profile' = [profile EXCEPT ![c] = "tunnel"]
           /\ UNCHANGED <<active, touched, todo>>
  /\ UNCHANGED <<setting, order, tried, tries, again, announced, file, link, entry, state>>

(* NetworkManager writes resolv.conf in its own time.                       *)
Settle ==
  /\ setting.manager = "networkManager" /\ file # FromNm
  /\ file' = FromNm
  /\ UNCHANGED <<setting, pc, order, callVars, nmVars, link, entry, state>>

(* wait_for_resolv_conf_servers; a file that cannot be read ends it.        *)
NmVerify ==
  /\ pc = "nmVerify"
  /\ \/ /\ Verified(file) /\ tries' = tries
        /\ Done([NoState EXCEPT !.backend = "networkManager", !.connections = touched])
     \/ /\ ~Verified(file) /\ tries' = tries + 1 /\ UNCHANGED state
        /\ pc' = IF tries' < MaxVerify THEN pc ELSE IF again THEN "nmUndo" ELSE "nmReconnect"
     \/ /\ Faulty("read") /\ pc' = "nmUndo" /\ UNCHANGED <<tries, state>>
  /\ UNCHANGED <<setting, order, tried, todo, touched, again, nmVars, file, link, entry>>

(* Down and up again drops what routers announced; a connection that was     *)
(* taken down may stay down.                                                *)
NmReconnect ==
  /\ pc = "nmReconnect"
  /\ \/ /\ active' = profile /\ announced' \in (IF setting.rdnss = "sticky" THEN {announced} ELSE {FALSE})
        /\ pc' = "nmVerify" /\ again' = TRUE /\ tries' = 0
     \/ Faulty("command") /\ pc' = "nmUndo" /\ UNCHANGED <<active, announced, again, tries>>
  /\ UNCHANGED <<setting, order, tried, todo, touched, profile, file, link, entry, state>>

(* restore_nm_connection for what is in touched; an error is logged and the  *)
(* next one restored.                                                       *)
Restored(saved) ==
  IF Faulty("restore")
    THEN {p \in [Connections -> Owners] :
            \A c \in Connections :
              p[c] = profile[c] \/ \E k \in DOMAIN saved :
                                     saved[k] = [connection |-> c, profile |-> p[c]]}
    ELSE {[c \in Connections |->
             IF \E k \in DOMAIN saved : saved[k].connection = c
               THEN saved[CHOOSE k \in DOMAIN saved : saved[k].connection = c].profile
               ELSE profile[c]]}
RestoreNothing(saved) ==                            \* mutant
  UNCHANGED <<profile, active, announced>>
Restore(saved) ==
  /\ profile' \in Restored(saved)
  /\ active' = [c \in Connections |-> IF profile'[c] # profile[c] THEN profile'[c] ELSE active[c]]
  /\ announced' = (setting.rdnss # "none")

NmUndo ==
  /\ pc = "nmUndo" /\ pc' = "try"
  /\ Restore(touched)
  /\ UNCHANGED <<setting, order, callVars, file, link, entry, state>>

(* apply_resolv_conf_file: refused for a link; truncated, written, verified. *)
FileRead ==
  /\ pc = "fileRead"
  /\ \/ Managed /\ pc' = "try" /\ UNCHANGED todo
     \/ ~Managed /\ todo' = <<file>> /\ pc' = "fileWrite"
     \/ ~Managed /\ Faulty("read") /\ pc' = "try" /\ UNCHANGED todo
  /\ UNCHANGED <<setting, order, tried, touched, tries, again, nmVars, file, link, entry, state>>
FileWrite ==
  /\ pc = "fileWrite"
  /\ \/ file' = Servers("tunnel") /\ pc' = "fileVerify"
     \/ Faulty("write") /\ file' \in {file, {}} /\ pc' = "try"
  /\ UNCHANGED <<setting, order, callVars, nmVars, link, entry, state>>
FileVerify ==
  /\ pc = "fileVerify"
  /\ \/ /\ Verified(file) /\ Done([NoState EXCEPT !.backend = "file", !.original = Head(todo)])
        /\ UNCHANGED file
     \/ /\ ~Verified(file) \/ Faulty("read")
        /\ \/ file' = Head(todo)
           \/ Faulty("restore") /\ file' \in {file, {}}
        /\ pc' = "try" /\ UNCHANGED state
  /\ UNCHANGED <<setting, order, callVars, nmVars, link, entry>>

(* Another program rewrites a plain resolv.conf between the write and the    *)
(* check.                                                                   *)
Overwrite ==
  /\ pc = "fileVerify" /\ Faulty("overwrite") /\ file # Servers("user")
  /\ file' = Servers("user")
  /\ UNCHANGED <<setting, pc, order, callVars, nmVars, link, entry, state>>

Failed ==
  /\ pc = "failed" /\ pc' = "idle"
  /\ UNCHANGED <<setting, order, callVars, nmVars, file, link, entry, state>>

(* cleanup_dns with the state of the backend that succeeded; NetworkManager's *)
(* errors are logged only.                                                  *)
Cleanup ==
  /\ pc = "on" /\ pc' = "idle" /\ state' = NoState
  /\ IF state.backend = "networkManager" THEN Restore(state.connections) ELSE UNCHANGED nmVars
  /\ \/ /\ link' = IF state.backend = "resolved" THEN "user" ELSE link
        /\ entry' = IF state.backend = "resolvconf" THEN "user" ELSE entry
        /\ file' = IF state.backend = "file" THEN state.original ELSE file
     \/ Faulty("restore") /\ UNCHANGED <<link, entry>>
        /\ file' \in (IF state.backend = "file" THEN {file, {}} ELSE {file})
  /\ UNCHANGED <<setting, order, callVars>>

(* The device goes after a session, or after a failed start, and its        *)
(* per-link settings with it.                                               *)
DeviceGone ==
  /\ pc = "idle" /\ link # "user" /\ link' = "user"
  /\ UNCHANGED <<setting, pc, order, callVars, nmVars, file, entry, state>>

Init ==
  /\ setting \in DnsSettings
  /\ pc = "idle" /\ order = <<>> /\ tried = 0 /\ todo = <<>> /\ touched = <<>>
  /\ tries = 0 /\ again = FALSE /\ state = NoState
  /\ profile = [c \in Connections |-> "user"] /\ active = profile
  /\ announced = (setting.rdnss # "none")
  /\ file = IF setting.manager = "networkManager" THEN FromNm ELSE Servers("user")
  /\ link = "user" /\ entry = "user"

Call ==
  \/ Begin \/ Try \/ ResolvedDns \/ ResolvedDomain \/ Resolvconf
  \/ NmList \/ NmRead \/ NmModify \/ NmVerify \/ NmReconnect \/ NmUndo
  \/ FileRead \/ FileWrite \/ FileVerify \/ Failed

Next == Call \/ Settle \/ Overwrite \/ Cleanup \/ DeviceGone

Spec == Init /\ [][Next]_vars

-----------------------------------------------------------------------------
(* Properties.                                                              *)

TypeOK ==
  /\ setting \in DnsSettings /\ tried \in 0..4 /\ Len(order) <= 4
  /\ profile \in [Connections -> Owners] /\ active \in [Connections -> Owners]
  /\ announced \in BOOLEAN /\ link \in Owners /\ entry \in Owners
  /\ tries \in 0..MaxVerify /\ again \in BOOLEAN
  /\ state \in DnsStates

(* dns/mod.rs:6, no leak through a server that is not the tunnel's: when a   *)
(* backend whose servers end up in resolv.conf reports success, resolv.conf  *)
(* names the tunnel's servers, of all families it has, and no other.        *)
NoForeignServer ==
  pc # "on" /\ pc' = "on" /\ state'.backend \in {"networkManager", "file"} =>
    Verified(file') /\ \A s \in file' : s.owner = "tunnel"

(* types.rs:16, the original state is restored after a failure or a stop:    *)
(* between two sessions every connection, and the plain file, are the user's. *)
(* It does not hold: a connection whose changed profile cannot be applied to  *)
(* its device is not among those that are restored.                          *)
UserSettingsBack ==
  pc = "idle" =>
    /\ \A c \in Connections : profile[c] = "user"
    /\ ~Managed => file = Servers("user")

(* The same, as long as reading a connection, or applying a changed profile   *)
(* to its device, does not fail.                                            *)
Restores ==
  setting.faults \cap {"read", "reapply", "write", "restore"} = {} => UserSettingsBack
=============================================================================
