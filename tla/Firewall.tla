------------------------------- MODULE Firewall -------------------------------
(***************************************************************************)
(* The firewall rules of r-wg on Linux (platform/linux/network/             *)
(* killswitch.rs): the kill switch of a full tunnel and the guard around a   *)
(* post-quantum negotiation, each with nftables or, when nft is missing or   *)
(* fails, with a chain in iptables and ip6tables.  LinuxNet and Engine have   *)
(* both as one step with its outcomes; here every command is a step, and     *)
(* what a packet meets between two commands can be asked.                    *)
(*                                                                         *)
(* nft applies a script as a whole; iptables changes one rule at a time.     *)
(***************************************************************************)
EXTENDS Naturals, Sequences

CONSTANT FirewallSettings   \* what is installed, which families, which programs exist

FirewallFaults == {"build",    \* a command that adds something fails
                   "undo",     \* a command that removes something fails
                   "journal",  \* writing or removing quantum-guard.json fails
                   "crash"}

VARIABLES
  setting,   \* what: "kill" or "guard"; families; programs; faults
  pc,
  at,        \* the chain being built: its program and how many commands are done
  table,     \* the nftables table is in effect
  chain,     \* per program, the rules of r-wg's chain, or NoChain
  jump,      \* per program, OUTPUT jumps to the chain
  held,      \* KillSwitchState or QuantumNegotiationGuardState, by its backend
  journal    \* quantum-guard.json, by its backend

rules == <<table, chain, jump>>
vars == <<setting, pc, at, rules, held, journal>>

Tables == {"iptables", "ip6tables"}
FamilyOf(p) == IF p = "iptables" THEN "v4" ELSE "v6"
NoChain == <<"none">>
Backends == {"none", "nft", "iptables"}    \* "none" where nothing is held
NoWhere == [program |-> "none", done |-> 0]

(* A packet leaves through an interface; r-wg marks its own; and some go to  *)
(* the service the negotiation talks to (10.64.0.1:1337, IPv4).             *)
Packets == [family : {"v4", "v6"}, via : {"lo", "tun", "other"}, marked : BOOLEAN,
            config : BOOLEAN]

Matches(rule, p) ==
  CASE rule = "returnLo" -> p.via = "lo"
    [] rule = "returnTun" -> p.via = "tun"
    [] rule = "returnMarked" -> p.marked
    [] rule = "returnConfig" -> p.via = "tun" /\ p.config /\ p.family = "v4"
    [] rule = "rejectTun" -> p.via = "tun"
    [] rule = "reject" -> TRUE

(* What the finished rules stop.                                            *)
Stops(p) ==
  IF setting.what = "kill"
    THEN p.via = "other" /\ ~p.marked /\ p.family \in setting.families
    ELSE p.via = "tun" /\ ~(p.config /\ p.family = "v4")

(* mutant: the chain rejects before it returns what is marked.              *)
CommandsRejectEarly(p) == <<"new", "returnLo", "returnTun", "reject", "returnMarked", "jump">>

(* apply_iptables_family_inner, apply_quantum_iptables_v4 and _v6: the chain *)
(* is made, filled, and only then jumped to.                                *)
Commands(p) ==
  IF setting.what = "kill"
    THEN <<"new", "returnLo", "returnTun", "returnMarked", "reject", "jump">>
  ELSE IF p = "iptables" THEN <<"new", "returnConfig", "rejectTun", "jump">>
  ELSE <<"new", "rejectTun", "jump">>

(* The iptables programs a call needs, in order: the guard needs IPv4.      *)
Needed ==
  IF "v4" \in setting.families \/ setting.what = "guard"
    THEN IF "v6" \in setting.families THEN <<"iptables", "ip6tables">> ELSE <<"iptables">>
    ELSE <<"ip6tables">>
FirstFamily == IF Needed[1] \in setting.programs THEN "clear" ELSE "failed"

Faulty(f) == f \in setting.faults

(* cleanup_iptables_family: delete the jump, flush, delete the chain; what  *)
(* is missing is no error, any other error ends it.                         *)
Wipe(p, ok) ==
  \/ ok /\ jump' = [jump EXCEPT ![p] = FALSE] /\ chain' = [chain EXCEPT ![p] = NoChain]
  \/ /\ ~ok /\ Faulty("undo")
     /\ \/ UNCHANGED <<jump, chain>>
        \/ /\ jump' = [jump EXCEPT ![p] = FALSE]
           /\ chain' \in {chain, [chain EXCEPT ![p] = IF @ = NoChain THEN @ ELSE <<>>]}

(* delete table inet r_wg_killswitch or r_wg_quantum_start.                 *)
DropTable(ok) ==
  \/ ok /\ table' = FALSE
  \/ ~ok /\ Faulty("undo") /\ UNCHANGED table

-----------------------------------------------------------------------------
(* apply_kill_switch and apply_quantum_negotiation_guard.                   *)

Begin ==
  /\ pc = "idle" /\ held = "none"
  /\ pc' = IF "nft" \in setting.programs THEN "nftClear" ELSE FirstFamily
  /\ at' = [program |-> Needed[1], done |-> 0]
  /\ UNCHANGED <<setting, rules, held, journal>>

(* apply_nftables drops the table first and ignores the result.             *)
NftClear ==
  /\ pc = "nftClear" /\ pc' = "nftLoad"
  /\ \E ok \in BOOLEAN : DropTable(ok)
  /\ UNCHANGED <<setting, at, chain, jump, held, journal>>

NftLoad ==
  /\ pc = "nftLoad"
  /\ \/ table' = TRUE /\ held' = "nft" /\ pc' = "installed"
     \/ Faulty("build") /\ pc' = "nftUndo" /\ UNCHANGED <<table, held>>
  /\ UNCHANGED <<setting, at, chain, jump, journal>>

NftUndo ==
  /\ pc = "nftUndo" /\ pc' = FirstFamily
  /\ \E ok \in BOOLEAN : DropTable(ok)
  /\ UNCHANGED <<setting, at, chain, jump, held, journal>>

(* apply_iptables_family cleans up first and ignores the result.            *)
ClearChain ==
  /\ pc = "clear" /\ pc' = "build"
  /\ \E ok \in BOOLEAN : Wipe(at.program, ok)
  /\ UNCHANGED <<setting, at, table, held, journal>>

Command(p, c) ==
  CASE c = "new" -> chain[p] = NoChain /\ chain' = [chain EXCEPT ![p] = <<>>] /\ UNCHANGED jump
    [] c = "jump" -> jump' = [jump EXCEPT ![p] = TRUE] /\ UNCHANGED chain
    [] OTHER -> chain' = [chain EXCEPT ![p] = Append(@, c)] /\ UNCHANGED jump

(* mutant: without ip6tables, the IPv4 rules are called enough.              *)
AfterFamilyV4(p) ==
  IF p = Needed[Len(Needed)] \/ "ip6tables" \notin setting.programs
    THEN pc' = "installed" /\ held' = "iptables" /\ at' = NoWhere
    ELSE pc' = "clear" /\ held' = held /\ at' = [program |-> "ip6tables", done |-> 0]

(* The chain of program p is complete: the next one, if it exists, or done.  *)
AfterFamily(p) ==
  IF p = Needed[Len(Needed)]
    THEN pc' = "installed" /\ held' = "iptables" /\ at' = NoWhere
    ELSE /\ held' = held
         /\ IF "ip6tables" \in setting.programs
              THEN pc' = "clear" /\ at' = [program |-> "ip6tables", done |-> 0]
              ELSE pc' = "undoFirst" /\ at' = NoWhere

BuildChain ==
  /\ pc = "build"
  /\ LET p == at.program
         cs == Commands(p)
     IN \/ /\ Command(p, cs[at.done + 1])
           /\ IF at.done + 1 = Len(cs) THEN AfterFamily(p)
              ELSE pc' = pc /\ held' = held /\ at' = [at EXCEPT !.done = @ + 1]
        \/ /\ Faulty("build") \/ (at.done = 0 /\ chain[p] # NoChain)
           /\ pc' = "undo" /\ UNCHANGED <<at, held, chain, jump>>
  /\ UNCHANGED <<setting, table, journal>>

UndoChain ==
  /\ pc = "undo"
  /\ \E ok \in BOOLEAN : Wipe(at.program, ok)
  /\ pc' = IF at.program = "ip6tables" /\ Len(Needed) = 2 THEN "undoFirst" ELSE "failed"
  /\ at' = NoWhere
  /\ UNCHANGED <<setting, table, held, journal>>

(* ip6tables failed or is missing: the IPv4 chain is taken away again.      *)
UndoFirst ==
  /\ pc = "undoFirst" /\ pc' = "failed"
  /\ \E ok \in BOOLEAN : Wipe("iptables", ok)
  /\ UNCHANGED <<setting, at, table, held, journal>>

(* The guard is written to its journal once it is in effect.                *)
Installed ==
  /\ pc = "installed"
  /\ at' = NoWhere
  /\ IF setting.what = "kill" THEN pc' = "on" /\ UNCHANGED journal
     ELSE \/ journal' = held /\ pc' = "on"
          \/ Faulty("journal") /\ journal' \in {journal, held} /\ pc' = "guardUndo"
  /\ UNCHANGED <<setting, rules, held>>

Failed ==
  /\ pc = "failed" /\ pc' = "idle" /\ at' = NoWhere
  /\ UNCHANGED <<setting, rules, held, journal>>

-----------------------------------------------------------------------------
(* KillSwitchState::cleanup and QuantumNegotiationGuardState::cleanup.      *)

Remove ==
  /\ pc = "on" /\ pc' = "remove"
  /\ UNCHANGED <<setting, at, rules, held, journal>>

(* cleanup_iptables: the programs in turn, until one fails.                 *)
WipeAll(ok) ==
  IF Len(Needed) = 1 THEN Wipe(Needed[1], ok)
  ELSE \/ ok /\ jump' = [p \in Tables |-> FALSE] /\ chain' = [p \in Tables |-> NoChain]
       \/ Wipe("iptables", FALSE) /\ ~ok
       \/ /\ ~ok /\ Faulty("undo")
          /\ jump' = [jump EXCEPT !["iptables"] = FALSE]
          /\ chain' = [chain EXCEPT !["iptables"] = NoChain]

RemoveBackend(backend, ok) ==
  IF backend = "nft" THEN DropTable(ok) /\ UNCHANGED <<chain, jump>>
                     ELSE WipeAll(ok) /\ UNCHANGED table

ClearGuardJournal(ok) ==
  \/ ok /\ journal' = "none"
  \/ ~ok /\ Faulty("journal") /\ UNCHANGED journal

RemoveRules ==
  /\ pc \in {"remove", "guardUndo"}
  /\ \E ok \in BOOLEAN :
       /\ RemoveBackend(held, ok)
       /\ IF pc = "remove" /\ ok /\ setting.what = "guard"
            THEN \E cleared \in BOOLEAN : ClearGuardJournal(cleared)
            ELSE UNCHANGED journal
  /\ held' = "none" /\ pc' = "failed"
  /\ UNCHANGED <<setting, at>>

-----------------------------------------------------------------------------
(* The service dies; the next one runs cleanup_stale_quantum_negotiation_    *)
(* guard before it serves, and is restarted when that fails.                *)

Crash ==
  /\ Faulty("crash") /\ setting.what = "guard" /\ pc # "down"
  /\ pc' = "down" /\ at' = NoWhere /\ held' = "none"
  /\ UNCHANGED <<setting, rules, journal>>

(* mutant: without a journal there is nothing to clean. *)
SweepJournaled(ok) ==
  IF journal = "none" THEN ok /\ UNCHANGED rules ELSE RemoveBackend(journal, ok)
(* With a journal its backend alone is removed; without one, whatever there  *)
(* may be (cleanup_quantum_firewall_best_effort): a failure is reported      *)
(* after everything has been tried.                                         *)
Sweep(ok) ==
  IF journal # "none" THEN RemoveBackend(journal, ok)
  ELSE \/ /\ ok /\ table' = FALSE
          /\ chain' = [p \in Tables |-> IF p \in setting.programs THEN NoChain ELSE chain[p]]
          /\ jump' = [p \in Tables |-> jump[p] /\ p \notin setting.programs]
       \/ ~ok /\ Faulty("undo") /\ UNCHANGED rules

Repair ==
  /\ pc = "down"
  /\ \E ok \in BOOLEAN :
       /\ Sweep(ok)
       /\ \/ ok /\ ClearGuardJournal(TRUE) /\ pc' = "idle"
          \/ ok /\ ClearGuardJournal(FALSE) /\ pc' = "down"
          \/ ~ok /\ pc' = "down" /\ UNCHANGED journal
  /\ UNCHANGED <<setting, at, held>>

Init ==
  /\ setting \in FirewallSettings
  /\ pc = "idle" /\ at = NoWhere /\ held = "none" /\ journal = "none"
  /\ table = FALSE /\ chain = [p \in Tables |-> NoChain] /\ jump = [p \in Tables |-> FALSE]

Next ==
  \/ Begin \/ NftClear \/ NftLoad \/ NftUndo
  \/ ClearChain \/ BuildChain \/ UndoChain \/ UndoFirst \/ Installed \/ Failed
  \/ Remove \/ RemoveRules \/ Crash \/ Repair

Spec == Init /\ [][Next]_vars

-----------------------------------------------------------------------------
(* Properties.                                                              *)

TypeOK ==
  /\ setting \in FirewallSettings
  /\ pc \in {"idle", "nftClear", "nftLoad", "nftUndo", "clear", "build", "undo", "undoFirst",
             "installed", "failed", "on", "remove", "guardUndo", "down"}
  /\ at \in [program : Tables \cup {"none"}, done : 0..6]
  /\ table \in BOOLEAN /\ jump \in [Tables -> BOOLEAN]
  /\ chain \in [Tables -> Seq({"none", "returnLo", "returnTun", "returnMarked",
                               "returnConfig", "rejectTun", "reject"})]
  /\ held \in Backends /\ journal \in Backends

(* What a packet meets now: the table, and the chains OUTPUT jumps to, whose *)
(* first matching rule decides.                                             *)
ChainStops(p) ==
  \E t \in Tables :
    /\ FamilyOf(t) = p.family /\ jump[t]
    /\ \E k \in DOMAIN chain[t] :
         /\ chain[t][k] \in {"reject", "rejectTun"} /\ Matches(chain[t][k], p)
         /\ \A j \in 1..(k - 1) : ~Matches(chain[t][j], p)
Stopped(p) == (table /\ Stops(p)) \/ ChainStops(p)

(* At no moment, half built, half removed or left by a crash, do the rules   *)
(* stop a packet the finished ones let pass: the service's own encrypted     *)
(* packets and the negotiation go on while the chain is being made.         *)
NeverTooMuch == \A p \in Packets : Stopped(p) => Stops(p)

(* Rules that were reported as in effect stop everything they are for, in    *)
(* every address family asked for, whichever program installed them.        *)
Required(p) == Stops(p) /\ (p.family \in setting.families \/ p.family = "v4")
ReportedIsInEffect ==
  pc = "on" => \A p \in Packets : Required(p) => Stopped(p)

(* A call that failed, a removal and a repair leave no packet stopped and no *)
(* chain behind, as long as the commands that remove something work.        *)
NothingLeft ==
  pc = "idle" /\ setting.faults \cap {"undo", "journal"} = {} =>
    /\ \A p \in Packets : ~Stopped(p)
    /\ chain = [p \in Tables |-> NoChain]

FirewallSound == NeverTooMuch /\ ReportedIsInEffect /\ NothingLeft
=============================================================================
