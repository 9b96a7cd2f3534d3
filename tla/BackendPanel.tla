----------------------------- MODULE BackendPanel -----------------------------
(***************************************************************************)
(* The backend panel of the advanced page (src/src/ui/state/backend.rs,      *)
(* features/backend_admin, view/advanced/backend.rs): probes and the install,*)
(* repair, startup repair and remove actions, each in the background, with   *)
(* the buttons gated by what the panel shows.  What the service manager does *)
(* is module Installation; here only the status it leaves matters.          *)
(***************************************************************************)
EXTENDS Naturals, FiniteSets

CONSTANTS PanelSystems,   \* subset of {"linux", "windows"}
          MaxJobs         \* probes and actions

VARIABLES
  panelSystem,   \* the operating system
  helper,        \* what a probe of the service finds now
  tunnelOn,      \* the UI has a running tunnel
  panel,         \* health of the BackendDiagnostic
  lastProblem,   \* backend_last_error: "none", "probe" or "action"
  panelJobs,     \* the jobs in flight: [id, kind, at, found]
  begun,         \* jobs begun
  removeDialog,  \* the confirmation of Remove is open
  since,         \* statuses the helper had since an action last ended
  overlap        \* a startup repair began while another job was in flight

vars == <<panelSystem, helper, tunnelOn, panel, lastProblem, panelJobs, begun, removeDialog,
          since, overlap>>

Statuses == {"Running", "Installed", "NotInstalled", "AccessDenied", "VersionMismatch",
             "Unreachable"}
Actions == {"Install", "Repair", "StartupRepair", "Remove"}
Healths == Statuses \cup {"Unknown", "Checking"} \cup Actions   \* an action: Working
Present == Statuses \ {"NotInstalled"}

IsBusy == panel = "Checking" \/ panel \in Actions

\* allows_action; the button of the startup repair does not ask it
Allows(action) ==
  CASE action = "Install"                -> panel = "NotInstalled"
    [] action \in {"Repair", "Remove"}   -> panel \in Present
    [] OTHER                             -> ~IsBusy

\* what set_backend_diagnostic does to the last error
ProblemAfter(health) ==
  CASE health \in {"AccessDenied", "VersionMismatch", "Unreachable"} -> "probe"
    [] health \in {"Running", "Installed", "NotInstalled"} -> "none"
    [] OTHER -> lastProblem

Job(kind) == [id |-> begun + 1, kind |-> kind, at |-> "running", found |-> "none"]

\* a job, and the panel with it
Begin(kind, others) ==
  /\ begun < MaxJobs
  /\ begun' = begun + 1
  /\ panelJobs' = others \cup {Job(kind)}
  /\ panel' = IF kind = "Probe" THEN "Checking" ELSE kind

Init ==
  /\ panelSystem \in PanelSystems
  /\ helper \in Statuses
  /\ tunnelOn \in BOOLEAN
  /\ begun = 1
  /\ panel = "Checking"
  /\ panelJobs = {[id |-> 1, kind |-> "Probe", at |-> "running", found |-> "none"]}
  /\ lastProblem = "none"
  /\ removeDialog = FALSE
  /\ since = {helper}
  /\ overlap = FALSE

-----------------------------------------------------------------------------
(* The buttons.  A dialog is modal: nothing else is pressed while it is open. *)
Refresh ==
  /\ ~removeDialog /\ ~IsBusy
  /\ Begin("Probe", panelJobs)
  /\ UNCHANGED <<panelSystem, helper, tunnelOn, lastProblem, removeDialog, since, overlap>>

PressUngated(action) ==                    \* mutant: the buttons are never disabled
  /\ ~removeDialog /\ action \in {"Install", "Repair"}
  /\ Begin(action, panelJobs)
  /\ UNCHANGED <<panelSystem, helper, tunnelOn, lastProblem, removeDialog, since, overlap>>

Press(action) ==
  /\ ~removeDialog /\ action \in {"Install", "Repair"}
  /\ Allows(action) /\ ~IsBusy
  /\ Begin(action, panelJobs)
  /\ UNCHANGED <<panelSystem, helper, tunnelOn, lastProblem, removeDialog, since, overlap>>

(* Linux only; disabled while a tunnel runs and while a startup repair is     *)
(* what the panel shows, but not during another action or a probe.           *)
PressStartupRepair ==
  /\ panelSystem = "linux" /\ ~removeDialog
  /\ ~tunnelOn /\ panel # "StartupRepair"
  /\ Begin("StartupRepair", panelJobs)
  /\ overlap' = (overlap \/ panelJobs # {})
  /\ UNCHANGED <<panelSystem, helper, tunnelOn, lastProblem, removeDialog, since>>

OpenRemove ==
  /\ ~removeDialog /\ Allows("Remove") /\ ~IsBusy
  /\ removeDialog' = TRUE
  /\ UNCHANGED <<panelSystem, helper, tunnelOn, panel, lastProblem, panelJobs, begun, since,
                 overlap>>

CloseRemove(confirmed) ==
  /\ removeDialog
  /\ removeDialog' = FALSE
  /\ IF confirmed THEN Begin("Remove", panelJobs)
     ELSE UNCHANGED <<begun, panelJobs, panel>>
  /\ UNCHANGED <<panelSystem, helper, tunnelOn, lastProblem, since, overlap>>

-----------------------------------------------------------------------------
(* The background: probe_privileged_service, manage_privileged_service.  An   *)
(* action that fails may have done part of it; pkexec may be refused.        *)
ProbeLooks(j) ==
  /\ j.kind = "Probe" /\ j.at = "running"
  /\ panelJobs' = (panelJobs \ {j}) \cup {[j EXCEPT !.at = "done", !.found = helper]}
  /\ UNCHANGED <<panelSystem, helper, tunnelOn, panel, lastProblem, begun, removeDialog, since,
                 overlap>>

Outcome(kind) ==
  CASE kind \in {"Install", "Repair"} -> {"Running", "Installed"}
    [] kind = "Remove"                -> {"NotInstalled"}
    [] OTHER                          -> {helper}

ActionRuns(j) ==
  /\ j.kind # "Probe" /\ j.at = "running"
  /\ \E ok \in BOOLEAN, status \in Statuses :
       /\ ok => status \in Outcome(j.kind)
       /\ j.kind = "StartupRepair" => status = helper
       /\ helper' = status
       /\ panelJobs' = (panelJobs \ {j})
            \cup {[j EXCEPT !.at = "done", !.found = IF ok THEN "ok" ELSE "failed"]}
  /\ since' = {helper'}
  /\ UNCHANGED <<panelSystem, tunnelOn, panel, lastProblem, begun, removeDialog, overlap>>

\* the answer of a probe, whatever the panel shows by now
ProbeEnds(j) ==
  /\ j.kind = "Probe" /\ j.at = "done"
  /\ panel' = j.found
  /\ lastProblem' = ProblemAfter(j.found)
  /\ panelJobs' = panelJobs \ {j}
  /\ UNCHANGED <<panelSystem, helper, tunnelOn, begun, removeDialog, since, overlap>>

ActionEndsSilently(j) ==                   \* mutant: the panel is not refreshed
  /\ j.kind # "Probe" /\ j.at = "done"
  /\ panelJobs' = panelJobs \ {j}
  /\ panel' = IF j.found = "ok" THEN panel ELSE "Unreachable"
  /\ lastProblem' = IF j.found = "ok" THEN lastProblem ELSE "action"
  /\ UNCHANGED <<panelSystem, helper, tunnelOn, begun, removeDialog, since, overlap>>

ActionEndsAssuming(j) ==                   \* mutant: the panel shows what was asked for
  /\ j.kind # "Probe" /\ j.at = "done"
  /\ panelJobs' = panelJobs \ {j}
  /\ panel' = IF j.kind = "Remove" THEN "NotInstalled" ELSE "Running"
  /\ lastProblem' = IF j.found = "ok" THEN lastProblem ELSE "action"
  /\ UNCHANGED <<panelSystem, helper, tunnelOn, begun, removeDialog, since, overlap>>

\* the end of an action, with the error if it failed, and a probe
ActionEnds(j) ==
  /\ j.kind # "Probe" /\ j.at = "done"
  /\ Begin("Probe", panelJobs \ {j})
  /\ lastProblem' = IF j.found = "ok" THEN lastProblem ELSE "action"
  /\ UNCHANGED <<panelSystem, helper, tunnelOn, removeDialog, since, overlap>>

\* the service or the tunnel changes without the panel
HelperChanges ==
  /\ \/ helper = "Running" /\ helper' = "Installed"
     \/ helper = "Installed" /\ helper' = "Running"
  /\ since' = since \cup {helper'}
  /\ UNCHANGED <<panelSystem, tunnelOn, panel, lastProblem, panelJobs, begun, removeDialog,
                 overlap>>

TunnelChanges ==
  /\ tunnelOn' = ~tunnelOn
  /\ UNCHANGED <<panelSystem, helper, panel, lastProblem, panelJobs, begun, removeDialog, since,
                 overlap>>

JobStep == \E j \in panelJobs : ProbeLooks(j) \/ ActionRuns(j) \/ ProbeEnds(j) \/ ActionEnds(j)

Next ==
  \/ Refresh \/ PressStartupRepair \/ OpenRemove
  \/ \E action \in Actions : Press(action)
  \/ \E confirmed \in BOOLEAN : CloseRemove(confirmed)
  \/ \E j \in panelJobs : ProbeLooks(j) \/ ActionRuns(j) \/ ProbeEnds(j) \/ ActionEnds(j)
  \/ HelperChanges \/ TunnelChanges

Spec == Init /\ [][Next]_vars
FairSpec == Spec /\ WF_vars(JobStep)

-----------------------------------------------------------------------------
TypeOK ==
  /\ panelSystem \in PanelSystems
  /\ helper \in Statuses
  /\ {tunnelOn, removeDialog, overlap} \subseteq BOOLEAN
  /\ panel \in Healths
  /\ lastProblem \in {"none", "probe", "action"}
  /\ begun \in 0..MaxJobs
  /\ panelJobs \subseteq [id : 1..MaxJobs, kind : Actions \cup {"Probe"}, at : {"running", "done"},
                          found : Statuses \cup {"none", "ok", "failed"}]
  /\ since \subseteq Statuses

(* As long as no startup repair was started into another job, one job runs at *)
(* a time, the panel is busy exactly while one does, and a panel that is not  *)
(* shows a status the service has had since the last action ended: the next   *)
(* action is chosen by what the last one left (refresh_privileged_backend_    *)
(* status, run_privileged_backend_action).                                   *)
PanelTruthful ==
  ~overlap =>
    /\ Cardinality(panelJobs) <= 1
    /\ IsBusy <=> panelJobs # {}
    /\ ~IsBusy => panel \in since

(* The panel does not stay busy: after every action a probe has the last word *)
(* (run_privileged_backend_action), and the buttons come back:               *)
(* Unsettled ~> ~Unsettled.                                                 *)
Unsettled == IsBusy /\ begun < MaxJobs - 1
===============================================================================
