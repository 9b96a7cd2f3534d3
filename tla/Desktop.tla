------------------------------- MODULE Desktop -------------------------------
(*****************************************************************************)
(* The machines of the desktop program beside its session and its library:   *)
(* the single instance, the tools page, the tests of reachability, the logs   *)
(* page, the themes, the relay list, the panel of the service, the connection *)
(* password, the tray.  They share no state, so a behaviour is one of one     *)
(* machine, and the machines take turns with the variables.                  *)
(*****************************************************************************)
EXTENDS Naturals, Sequences, FiniteSets

CONSTANTS
  Procs, DesktopSystems, MaxTries,                             \* of SingleInstance
  MaxRevisions, MaxRequests,                                   \* of ActiveConfig
  SavedConfigs, Answers, MaxAddresses, Concurrency, MaxRuns,   \* of Reachability
  Capacity, Kept, MaxWrites, MaxClicks, MaxCalls,              \* of Logs
  ThemeJobs, Sources, BuiltinBase, CuratedBases, KeyOf, MaxFiles,  \* of Themes
  Keys, MaxVersions, MaxDownloads, RelayFaults,                \* of Relays
  PanelSystems, MaxJobs,                                       \* of BackendPanel
  PasswordJobs, Passwords, NoPassword,                         \* of ConnectPassword
  TraySystems, MaxCommands, MaxNotices                         \* of Tray

VARIABLES
  part,   \* the machine of this behaviour
          \* the variables of that machine
  v1, v2, v3, v4, v5, v6, v7, v8, v9, v10, v11, v12

all == <<part, v1, v2, v3, v4, v5, v6, v7, v8, v9, v10, v11, v12>>

SI == INSTANCE SingleInstance WITH
  desktop <- v1, at <- v2, tries <- v3, lockFile <- v4, files <- v5,
  opened <- v6, holder <- v7, socket <- v8, attached <- v9, pending <- v10,
  shown <- v11, promised <- v12
AC == INSTANCE ActiveConfig WITH
  texts <- v1, active <- v2, onPage <- v3, snapshot <- v4, refresh <- v5,
  generation <- v6, cancellable <- v7, parses <- v8, cidr <- v9, asked <- v10,
  cidrGen <- v11, computing <- v12
RC == INSTANCE Reachability WITH
  saved <- v1, up <- v2, runs <- v3, single <- v4, probe <- v5, audit <- v6,
  task <- v7, progress <- v8, pollers <- v9, cancelled <- v10, shown <- v11,
  cancelling <- v12
LG == INSTANCE Logs WITH
  ring <- v1, written <- v2, clicks <- v3, calls <- v4, page <- v5,
  loops <- v6, poll <- v7, sync <- v8, lines <- v9, clears <- v10
TH == INSTANCE Themes WITH
  themeFiles <- v1, job <- v2, preference <- v3, raced <- v4,
  savedTheme <- v5, applied <- v6
RL == INSTANCE Relays WITH
  MaxClicks <- MaxDownloads, listing <- v1, published <- v2, cacheFile <- v3,
  lock <- v4, jobs <- v5, resources <- v6, validation <- v7, deaths <- v8
BP == INSTANCE BackendPanel WITH
  panelSystem <- v1, helper <- v2, tunnelOn <- v3, panel <- v4,
  lastProblem <- v5, panelJobs <- v6, begun <- v7, removeDialog <- v8,
  since <- v9, overlap <- v10
CP == INSTANCE ConnectPassword WITH
  store <- v1, job <- v2, required <- v3, raced <- v4
TR == INSTANCE Tray WITH
  traySystem <- v1, trayThread <- v2, icon <- v3, enabled <- v4,
  commands <- v5, sent <- v6, window <- v7, stops <- v8, notices <- v9,
  balloon <- v10, copy <- v11, clipboard <- v12

-----------------------------------------------------------------------------
(* What the constants are: bounds are numbers, processes and themes have names. *)
In(s) == {s[i] : i \in DOMAIN s}
Addrs == UNION {In(s) : s \in Answers}
Kinds == {"unreadable", "invalid", "noEndpoint", "one", "two"}
ThemeBases ==
  {BuiltinBase, "Custom"} \cup CuratedBases
    \cup UNION {{s.themes[i].base : i \in DOMAIN s.themes} : s \in Sources}
Looks == [base : ThemeBases, mode : {"Light", "Dark"}]

ProcsNamed == IsFiniteSet(Procs) /\ SI!Nobody \notin Procs /\ MaxTries \in Nat
PageLimits == MaxRevisions \in Nat /\ MaxRequests \in Nat
ReachBounded ==
  /\ MaxRuns \in Nat /\ MaxAddresses \in Nat /\ Concurrency \in Nat
  /\ \A s \in Answers : s \in Seq(Addrs)
  /\ \A a \in Addrs : a.family \in {"v4", "v6"}
  /\ SavedConfigs \subseteq Seq(Kinds)
LogsBounded ==
  /\ Capacity \in Nat /\ Kept \in Nat /\ MaxWrites \in Nat /\ MaxClicks \in Nat
  /\ MaxCalls \in Nat
ThemesBounded ==
  /\ MaxFiles \in Nat \ {0} /\ IsFiniteSet(CuratedBases) /\ BuiltinBase \notin CuratedBases
  /\ \A s \in Sources : s.themes \in Seq(Looks)
RelaysBounded ==
  MaxVersions \in Nat \ {0} /\ MaxDownloads \in Nat /\ IsFiniteSet(Keys) /\ Keys # {}
PanelBounded == MaxJobs \in Nat \ {0}
NoneIsNone == NoPassword \notin Passwords
TrayBounded == MaxCommands \in Nat /\ MaxNotices \in Nat

ASSUME ConstantsAssumption ==
  /\ ProcsNamed /\ PageLimits /\ ReachBounded /\ LogsBounded /\ ThemesBounded
  /\ RelaysBounded /\ PanelBounded /\ NoneIsNone /\ TrayBounded

-----------------------------------------------------------------------------
(* The variables from one on that a machine does not use: they are 0 and     *)
(* stay so, as the choice of the machine does.                               *)
Same13 == UNCHANGED part
Zero11 == v11 = 0 /\ v12 = 0
Same11 == UNCHANGED <<v11, v12>> /\ Same13
Zero9 == v9 = 0 /\ v10 = 0 /\ Zero11
Same9 == UNCHANGED <<v9, v10>> /\ Same11
Zero7 == v7 = 0 /\ v8 = 0 /\ Zero9
Same7 == UNCHANGED <<v7, v8>> /\ Same9
Zero5 == v5 = 0 /\ v6 = 0 /\ Zero7
Same5 == UNCHANGED <<v5, v6>> /\ Same7

Init ==
  \/ part = "single" /\ SI!Init
  \/ part = "tools" /\ AC!Init
  \/ part = "reach" /\ RC!Init
  \/ part = "logs" /\ LG!LogsInit /\ Zero11
  \/ part = "themes" /\ TH!Init /\ Zero7
  \/ part = "relays" /\ RL!Init /\ Zero9
  \/ part = "panel" /\ BP!Init /\ Zero11
  \/ part = "password" /\ CP!Init /\ Zero5
  \/ part = "tray" /\ TR!Init

SingleInstanceStep == part = "single" /\ SI!Next /\ Same13
ActiveConfigStep == part = "tools" /\ AC!Next /\ Same13
ReachabilityStep == part = "reach" /\ RC!Next /\ Same13
LogsStep == part = "logs" /\ LG!Next /\ Same11
ThemesStep == part = "themes" /\ TH!Next /\ Same7
RelaysStep == part = "relays" /\ RL!Next /\ Same9
BackendPanelStep == part = "panel" /\ BP!Next /\ Same11
ConnectPasswordStep == part = "password" /\ CP!Next /\ Same5
TrayStep == part = "tray" /\ TR!Next /\ Same13

Next ==
  \/ SingleInstanceStep \/ ActiveConfigStep \/ ReachabilityStep \/ LogsStep
  \/ ThemesStep \/ RelaysStep \/ BackendPanelStep \/ ConnectPasswordStep \/ TrayStep

Spec == Init /\ [][Next]_all

-----------------------------------------------------------------------------
(* Every machine's variables have their types.                               *)
TypeOK ==
  CASE part = "single" -> SI!TypeOK
    [] part = "tools" -> AC!TypeOK
    [] part = "reach" -> RC!TypeOK
    [] part = "logs" -> LG!TypeOK
    [] part = "themes" -> TH!TypeOK
    [] part = "relays" -> RL!TypeOK
    [] part = "panel" -> BP!TypeOK
    [] part = "password" -> CP!TypeOK
    [] part = "tray" -> TR!TypeOK

(* One process at most is the primary one, and who left for it is shown      *)
(* (single_instance); what a page shows is of what it is about now, whichever *)
(* order the answers come in: the tools page and the calculator              *)
(* (ui/features/tools), the verdicts and the audit (tools/reachability), the *)
(* lines of the log (log.rs), the names of the themes, the relay list, the   *)
(* panel of the service (ui/features/backend_admin), the dialogs of the       *)
(* connection password (ui/features/session/password_gate.rs); what hides     *)
(* behind the tray can be had back, a copied notice is the one seen (ui/tray).*)
PagesTruthful ==
  /\ part = "single" => SI!SinglePrimary /\ SI!ActivationKept
  /\ part = "tools" => AC!SnapshotTruthful /\ AC!AnswersLastRequest
  /\ part = "reach" => RC!VerdictTrue /\ RC!AuditReports
  /\ part = "logs" => LG!BufferSound
  /\ part = "themes" => TH!NamesDistinct
  /\ part = "relays" => RL!CacheServesStarts
  /\ part = "panel" => BP!PanelTruthful
  /\ part = "password" => CP!AsksForStored /\ CP!RequiredIsStored
  /\ part = "tray" => TR!HiddenBehindIcon /\ TR!CopiesWhatWasSeen

(* Late answers take nothing back: cleared lines stay off the page, the relay *)
(* list and its cache never get older, imports replace no file of the user,  *)
(* the palette changes only to what was asked for, and on Linux the program   *)
(* does not end on a tunnel that was not asked to stop.                      *)
NothingTakenBack ==
  [][/\ part = "logs" => LG!ClearedStaysOff
     /\ part = "relays" => RL!NeverOlder
     /\ part = "themes" => TH!FilesKept /\ TH!PreferenceKept
     /\ part = "tray" => TR!LeavesStopped]_all
=============================================================================
