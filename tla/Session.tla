------------------------------- MODULE Session -------------------------------
(***************************************************************************)
(* The tunnel session of the GUI process on Linux: the toggle decision      *)
(* (application/tunnel_session.rs), the controller that carries it out, the *)
(* password dialog, save-and-restart, quitting and the statistics loop      *)
(* (ui/features/session), and their calls to the privileged service over    *)
(* IPC (backend/wg/ipc_client.rs, linux_service), which end with a reply, a *)
(* timeout or an error while the service goes on.                           *)
(*                                                                         *)
(* The UI thread runs one update at a time; an update is one action.  What  *)
(* is spawned in it is a task that waits and then runs the next update.     *)
(* Engine has the service's side in detail; here a start or a stop is one   *)
(* step of the worker.                                                      *)
(***************************************************************************)
EXTENDS Naturals, Sequences, FiniteSets

CONSTANTS Configs, NoConfig,
          Slots, NoSlot,   \* bounds the number of concurrent tasks
          MaxRequests,     \* bounds the requests waiting in the service
          Features         \* what the user and the environment may do in a run

AllFeatures == {"password",      \* the connection password may be required
                "saveRestart",   \* save and restart
                "quit",          \* quit from the tray, or close the window
                "startFails", "stopFails",
                "startTimeout",  \* a start takes longer than SERVICE_IO_TIMEOUT
                "callTimeout",   \* so does any other call
                "serviceDies"}

ASSUME ConfigsAssumption == NoConfig \notin Configs
ASSUME SlotsAssumption == NoSlot \notin Slots
ASSUME MaxRequestsAssumption == MaxRequests \in Nat \ {0}
ASSUME FeaturesAssumption == Features \subseteq AllFeatures

VARIABLES
  busy, running, runningId,   \* RuntimeState
  pending,                    \* RuntimeState.pending_start
  required,                   \* ui_prefs.require_connect_password
  exited,                     \* the GUI process has ended
  task,                       \* what each slot is doing
  channel,                    \* requests the service has accepted, oldest first
  tunnel                      \* the configuration the service runs

runtimeVars == <<busy, running, runningId>>
serviceVars == <<channel, tunnel>>
vars == <<runtimeVars, pending, required, exited, task, serviceVars>>

NoPending == [config |-> NoConfig, authorized |-> FALSE]

(* A task: `current` says that a statistics loop is of the current           *)
(* stats_generation; `sample` is what its last call saw; `was` is the        *)
(* was_running of request_shutdown_stop.                                     *)
Idle == [kind |-> "none", step |-> "none", config |-> NoConfig, result |-> "none",
         current |-> FALSE, sample |-> NoConfig, was |-> FALSE]
StartTask(c) == [Idle EXCEPT !.kind = "start", !.step = "prepare", !.config = c]
StopTask == [Idle EXCEPT !.kind = "stop", !.step = "send"]
PollTaskBefore == [Idle EXCEPT !.kind = "poll", !.step = "wait"]   \* mutant: the old generation
PollTask == [Idle EXCEPT !.kind = "poll", !.step = "wait", !.current = TRUE]
UnlockTask(action, c) == [Idle EXCEPT !.kind = action, !.step = "read", !.config = c]
UnlockKinds == {"unlockStart", "unlockQueue", "unlockRestart"}
QuitKinds == {"quitTray", "quitWindow"}
CallKinds == {"start", "stop", "poll"} \cup QuitKinds

TasksOf(kinds) == {t \in Slots : task[t].kind \in kinds}
Free(t) == task[t].kind = "none"

Init ==
  /\ busy = FALSE /\ running = FALSE /\ runningId = NoConfig
  /\ pending = NoPending
  /\ required \in (IF "password" \in Features THEN BOOLEAN ELSE {FALSE})
  /\ exited = FALSE
  /\ task = [t \in Slots |-> Idle]
  /\ channel = <<>> /\ tunnel = NoConfig

-----------------------------------------------------------------------------
(* Decisions of the UI thread; slot t is free, or its task is ending.       *)

(* stats_generation + 1: no statistics loop is current any more.            *)
OutdateNothing(ts) == ts                                          \* mutant
Outdate(ts) == [s \in Slots |-> [ts[s] EXCEPT !.current = FALSE]]

Put(t, k) == task' = [task EXCEPT ![t] = k]

(* start_config_by_id and start_with_config: not without authorisation, and  *)
(* not if the configuration has gone or a permission is missing.             *)
MayAlwaysStart(authorized) == TRUE                                \* mutant
MayStart(authorized) == required => authorized
StartConfig(t, c, authorized) ==
  \/ MayStart(authorized) /\ busy' = TRUE /\ Put(t, StartTask(c))
  \/ Put(t, Idle) /\ UNCHANGED busy

Target(selected) == IF selected # NoConfig THEN selected ELSE runningId

(* decide_toggle while busy; without a window nobody can be asked for the    *)
(* password.                                                                *)
QueueAlways(t, selected, queued, window) ==    \* mutant: running is not asked
  /\ Put(t, Idle)
  /\ pending' = [config |-> Target(selected), authorized |-> FALSE]
QueueStart(t, selected, queued, window) ==
  LET c == Target(selected)
      queues == running /\ c # NoConfig
  IN \/ /\ queues /\ ~required
        /\ Put(t, Idle) /\ pending' = [config |-> c, authorized |-> FALSE]
     \/ /\ queues /\ required /\ window
        /\ Put(t, UnlockTask("unlockQueue", c)) /\ pending' = queued
     \/ /\ ~queues \/ (required /\ ~window)
        /\ Put(t, Idle) /\ pending' = queued

StopRunning(t, queued) ==
  /\ busy' = TRUE
  /\ task' = [Outdate(task) EXCEPT ![t] = StopTask]
  /\ pending' = queued

(* A draft that is unsaved or has changes blocks the start.                 *)
StartSelected(t, selected, queued, window) ==
  /\ pending' = queued
  /\ \/ Put(t, Idle) /\ UNCHANGED busy
     \/ /\ selected # NoConfig /\ required /\ window
        /\ Put(t, UnlockTask("unlockStart", selected))
        /\ UNCHANGED busy
     \/ /\ selected # NoConfig /\ ~required
        /\ StartConfig(t, selected, FALSE)

(* handle_start_stop, after `queued` has been put into pending_start.        *)
StartStopWhileBusy(t, selected, queued, window) ==   \* mutant: busy is not asked
  /\ IF running THEN StopRunning(t, queued)
     ELSE StartSelected(t, selected, queued, window)
  /\ UNCHANGED <<running, runningId>>
StartStop(t, selected, queued, window) ==
  /\ IF busy THEN QueueStart(t, selected, queued, window) /\ UNCHANGED busy
     ELSE IF running THEN StopRunning(t, queued)
     ELSE StartSelected(t, selected, queued, window)
  /\ UNCHANGED <<running, runningId>>

-----------------------------------------------------------------------------
(* What the user does.                                                      *)

Selections == Configs \cup {NoConfig}

(* The top bar's button and the shortcut.                                   *)
Toggle(t) ==
  /\ ~exited /\ Free(t)
  /\ \E selected \in Selections : StartStop(t, selected, pending, TRUE)
  /\ UNCHANGED <<required, exited, serviceVars>>

TrayStart(t) ==
  /\ ~exited /\ Free(t) /\ ~running /\ ~busy
  /\ \E selected \in Selections : StartStop(t, selected, pending, FALSE)
  /\ UNCHANGED <<required, exited, serviceVars>>

TrayStop(t) ==
  /\ ~exited /\ Free(t) /\ running /\ ~busy
  /\ \E selected \in Selections : StartStop(t, selected, pending, FALSE)
  /\ UNCHANGED <<required, exited, serviceVars>>

SetRequired ==
  /\ ~exited /\ "password" \in Features
  /\ required' = ~required
  /\ UNCHANGED <<runtimeVars, pending, exited, task, serviceVars>>

(* Offered for the running configuration; the file is written first.        *)
SaveAndRestart(t) ==
  /\ ~exited /\ "saveRestart" \in Features /\ Free(t)
  /\ TasksOf({"save"}) = {} /\ running /\ runningId # NoConfig
  /\ Put(t, [Idle EXCEPT !.kind = "save", !.step = "write"])
  /\ UNCHANGED <<runtimeVars, pending, required, exited, serviceVars>>

(* PendingDraftAction::RestartTunnel: what to start is queued, then the      *)
(* toggle is pressed.                                                       *)
Saved(t) ==
  /\ task[t].kind = "save"
  /\ \/ Put(t, Idle) /\ UNCHANGED <<runtimeVars, pending>>
     \/ \E selected \in Selections :
          /\ Target(selected) # NoConfig
          /\ IF required
               THEN /\ Put(t, UnlockTask("unlockRestart", Target(selected)))
                    /\ UNCHANGED <<runtimeVars, pending>>
               ELSE StartStop(t, selected,
                              [config |-> Target(selected), authorized |-> FALSE], TRUE)
  /\ UNCHANGED <<required, exited, serviceVars>>

(* The credential store is read, then the dialog opens.                     *)
CredentialsRead(t) ==
  /\ task[t].kind \in UnlockKinds /\ task[t].step = "read"
  /\ \/ Put(t, Idle) \/ Put(t, [task[t] EXCEPT !.step = "dialog"])
  /\ UNCHANGED <<runtimeVars, pending, required, exited, serviceVars>>

CancelUnlock(t) ==
  /\ task[t].kind \in UnlockKinds /\ task[t].step = "dialog"
  /\ Put(t, Idle)
  /\ UNCHANGED <<runtimeVars, pending, required, exited, serviceVars>>

(* The right password: what was decided when the dialog was asked for is     *)
(* done now.                                                                *)
Unlock(t) ==
  LET granted == [config |-> task[t].config, authorized |-> TRUE] IN
  /\ task[t].step = "dialog"
  /\ \/ /\ task[t].kind = "unlockStart"
        /\ StartConfig(t, task[t].config, TRUE)
        /\ UNCHANGED <<running, runningId, pending>>
     \/ /\ task[t].kind = "unlockQueue"
        /\ Put(t, Idle) /\ pending' = granted
        /\ UNCHANGED runtimeVars
     \/ /\ task[t].kind = "unlockRestart"
        /\ \E selected \in Selections : StartStop(t, selected, granted, TRUE)
  /\ UNCHANGED <<required, exited, serviceVars>>

(* request_quit and on_window_should_close: each only once at a time.       *)
Quit(t, kind) ==
  /\ ~exited /\ "quit" \in Features /\ Free(t) /\ TasksOf({kind}) = {}
  /\ busy' = (busy \/ running)
  /\ Put(t, [Idle EXCEPT !.kind = kind, !.step = "send", !.was = running])
  /\ UNCHANGED <<running, runningId, pending, required, exited, serviceVars>>

-----------------------------------------------------------------------------
(* Calls to the service.                                                    *)

(* The delay after a stop, and the configuration's text.                    *)
PreparedStaysBusy(t) ==                    \* mutant: a failed read keeps busy
  /\ task[t].kind = "start" /\ task[t].step = "prepare"
  /\ \/ Put(t, [task[t] EXCEPT !.step = "send"]) \/ Put(t, Idle)
  /\ UNCHANGED <<runtimeVars, pending, required, exited, serviceVars>>
Prepared(t) ==
  /\ task[t].kind = "start" /\ task[t].step = "prepare"
  /\ \/ Put(t, [task[t] EXCEPT !.step = "send"]) /\ UNCHANGED busy
     \/ Put(t, Idle) /\ busy' = FALSE
  /\ UNCHANGED <<running, runningId, pending, required, exited, serviceVars>>

Request(op, c, t) == [op |-> op, config |-> c, from |-> t]
Op(kind) == CASE kind = "start" -> "start"
              [] kind = "poll" -> "stats"
              [] OTHER -> "stop"
Answered(t, result) == [task[t] EXCEPT !.step = "answered", !.result = result]

(* Each call has a connection and a thread of its own in the service, which  *)
(* puts the command into the engine's channel.                              *)
Send(t) ==
  /\ task[t].step = "send" /\ Len(channel) < MaxRequests
  /\ channel' = Append(channel, Request(Op(task[t].kind), task[t].config, t))
  /\ Put(t, [task[t] EXCEPT !.step = "call"])
  /\ UNCHANGED <<runtimeVars, pending, required, exited, tunnel>>

(* The caller gives up; its request stays.                                  *)
AbandonToNobody(t) == [i \in DOMAIN channel |->  \* mutant: not a slot
  IF channel[i].from = t THEN [channel[i] EXCEPT !.from = NoConfig] ELSE channel[i]]
Abandon(t) == [i \in DOMAIN channel |->
  IF channel[i].from = t THEN [channel[i] EXCEPT !.from = NoSlot] ELSE channel[i]]

(* attempt_start_cleanup: a start that timed out sends a stop behind it.     *)
StartTimeoutOnly(t) ==                     \* mutant: no compensation
  /\ "startTimeout" \in Features
  /\ task[t].kind = "start" /\ task[t].step = "call"
  /\ channel' = Abandon(t)
  /\ Put(t, Answered(t, "error"))
  /\ UNCHANGED <<runtimeVars, pending, required, exited, tunnel>>
StartTimeout(t) ==
  /\ "startTimeout" \in Features
  /\ task[t].kind = "start" /\ task[t].step = "call" /\ Len(channel) < MaxRequests
  /\ channel' = Append(Abandon(t), Request("stop", NoConfig, t))
  /\ Put(t, [task[t] EXCEPT !.step = "cleanup"])
  /\ UNCHANGED <<runtimeVars, pending, required, exited, tunnel>>

CallTimeout(t) ==
  /\ \/ /\ "callTimeout" \in Features
        /\ task[t].kind # "start" /\ task[t].step = "call"
     \/ "startTimeout" \in Features /\ task[t].step = "cleanup"
  /\ channel' = Abandon(t)
  /\ Put(t, Answered(t, "error"))
  /\ UNCHANGED <<runtimeVars, pending, required, exited, tunnel>>

(* The reply; that of a compensating stop is ignored, the start has failed. *)
ReplyToCalls(t, result, seen) ==           \* mutant: a compensating stop gets none
  IF t = NoSlot \/ task[t].step = "cleanup" THEN UNCHANGED task
  ELSE Put(t, [Answered(t, result) EXCEPT !.sample = seen])
Reply(t, result, seen) ==
  IF t = NoSlot THEN UNCHANGED task
  ELSE Put(t, [Answered(t, IF task[t].step = "cleanup" THEN "error" ELSE result)
                 EXCEPT !.sample = seen])

(* The worker serves the oldest request.                                    *)
Serve ==
  /\ channel # <<>>
  /\ LET r == Head(channel) IN
     \/ /\ r.op = "start" /\ tunnel = NoConfig
        /\ tunnel' = r.config /\ Reply(r.from, "ok", NoConfig)
     \/ /\ r.op = "start"
        /\ tunnel # NoConfig \/ "startFails" \in Features
        /\ Reply(r.from, "error", NoConfig) /\ UNCHANGED tunnel
     \/ /\ r.op = "stop" /\ tunnel = NoConfig
        /\ Reply(r.from, "notRunning", NoConfig) /\ UNCHANGED tunnel
     \/ /\ r.op = "stop" /\ tunnel # NoConfig
        /\ tunnel' = NoConfig /\ Reply(r.from, "ok", NoConfig)
     \/ /\ r.op = "stop" /\ tunnel # NoConfig /\ "stopFails" \in Features
        /\ tunnel' \in {tunnel, NoConfig} /\ Reply(r.from, "error", NoConfig)
     \/ /\ r.op = "stats"
        /\ Reply(r.from, IF tunnel = NoConfig THEN "notRunning" ELSE "ok", tunnel)
        /\ UNCHANGED tunnel
  /\ channel' = Tail(channel)
  /\ UNCHANGED <<runtimeVars, pending, required, exited>>

(* The service ends and systemd starts it again; its callers get an error.  *)
ServiceDies ==
  /\ "serviceDies" \in Features
  /\ channel' = <<>> /\ tunnel' = NoConfig
  /\ task' = [t \in Slots |-> IF task[t].step \in {"call", "cleanup"}
                              THEN Answered(t, "error") ELSE task[t]]
  /\ UNCHANGED <<runtimeVars, pending, required, exited>>

-----------------------------------------------------------------------------
(* Updates of the UI thread when a call has ended.                          *)

Done(t, kinds) == task[t].kind \in kinds /\ task[t].step = "answered"

StartDone(t) ==
  /\ Done(t, {"start"})
  /\ busy' = FALSE
  /\ IF task[t].result = "ok"
       THEN /\ running' = TRUE /\ runningId' = task[t].config
            /\ task' = [Outdate(task) EXCEPT ![t] = PollTask]
       ELSE Put(t, Idle) /\ UNCHANGED <<running, runningId>>
  /\ UNCHANGED <<pending, required, exited, serviceVars>>

(* On Linux an answer NotRunning is a failure like any other.               *)
StopDone(t) ==
  /\ Done(t, {"stop"})
  /\ pending' = NoPending
  /\ \/ /\ task[t].result = "ok"
        /\ running' = FALSE /\ runningId' = NoConfig
        /\ IF pending = NoPending THEN busy' = FALSE /\ Put(t, Idle)
           ELSE \/ /\ MayStart(pending.authorized)
                   /\ busy' = TRUE /\ Put(t, StartTask(pending.config))
                \/ busy' = FALSE /\ Put(t, Idle)
     \/ /\ task[t].result # "ok"
        /\ busy' = FALSE /\ Put(t, Idle)
        /\ UNCHANGED <<running, runningId>>
  /\ UNCHANGED <<required, exited, serviceVars>>

(* request_shutdown_stop: NotRunning will do, and the process ends; its      *)
(* requests that the service has accepted stay.                             *)
QuitDone(t) ==
  /\ Done(t, QuitKinds)
  /\ IF task[t].result \in {"ok", "notRunning"}
       THEN /\ exited' = TRUE
            /\ busy' = FALSE /\ running' = FALSE /\ runningId' = NoConfig
            /\ pending' = NoPending
            /\ task' = [s \in Slots |-> Idle]
            /\ channel' = [i \in DOMAIN channel |-> [channel[i] EXCEPT !.from = NoSlot]]
       ELSE /\ busy' = FALSE /\ pending' = NoPending /\ Put(t, Idle)
            /\ UNCHANGED <<running, runningId, exited, channel>>
  /\ UNCHANGED <<required, tunnel>>

(* The GUI is opened again; it does not ask the service what runs.          *)
Relaunch ==
  /\ exited /\ exited' = FALSE
  /\ UNCHANGED <<runtimeVars, pending, required, task, serviceVars>>

LoopGoesOn(t) == running /\ task[t].current

(* The statistics loop waits, asks, and applies the sample.                 *)
PollAsks(t) ==
  /\ task[t].kind = "poll" /\ task[t].step = "wait"
  /\ Put(t, IF LoopGoesOn(t) THEN [task[t] EXCEPT !.step = "send"] ELSE Idle)
  /\ UNCHANGED <<runtimeVars, pending, required, exited, serviceVars>>

PollDone(t) ==
  /\ Done(t, {"poll"})
  /\ Put(t, IF LoopGoesOn(t) THEN PollTask ELSE Idle)
  /\ UNCHANGED <<runtimeVars, pending, required, exited, serviceVars>>

TaskSteps(t) ==
  \/ Prepared(t) \/ StartDone(t) \/ StopDone(t) \/ QuitDone(t)
  \/ PollAsks(t) \/ PollDone(t)

UserSteps(t) ==
  \/ Toggle(t) \/ TrayStart(t) \/ TrayStop(t) \/ SaveAndRestart(t)
  \/ CancelUnlock(t) \/ Unlock(t) \/ \E kind \in QuitKinds : Quit(t, kind)

Next ==
  \/ \E t \in Slots :
       \/ UserSteps(t) \/ TaskSteps(t) \/ Send(t)
       \/ Saved(t) \/ CredentialsRead(t) \/ StartTimeout(t) \/ CallTimeout(t)
  \/ SetRequired \/ Serve \/ ServiceDies \/ Relaunch

Spec == Init /\ [][Next]_vars

(* The runtime of the GUI polls a task that is ready; the worker serves what *)
(* it has accepted; a thread that waits for the channel gets its turn.       *)
Fairness ==
  /\ WF_vars(Serve)
  /\ \A t \in Slots : WF_vars(TaskSteps(t)) /\ SF_vars(Send(t))

FairSpec == Spec /\ Fairness

-----------------------------------------------------------------------------
(* Properties.                                                              *)

Kinds == {"none", "save"} \cup CallKinds \cup UnlockKinds
TaskTypes == [kind: Kinds,
              step: {"none", "prepare", "send", "call", "cleanup", "answered", "wait",
                     "read", "dialog", "write"},
              config: Selections, result: {"none", "ok", "error", "notRunning"},
              current: BOOLEAN, sample: Selections, was: BOOLEAN]

(* Every variable stays in its type.                                        *)
TypeOK ==
  /\ busy \in BOOLEAN /\ running \in BOOLEAN /\ runningId \in Selections
  /\ pending \in [config: Selections, authorized: BOOLEAN]
  /\ required \in BOOLEAN /\ exited \in BOOLEAN
  /\ task \in [Slots -> TaskTypes]
  /\ channel \in Seq([op: {"start", "stop", "stats"}, config: Selections,
                      from: Slots \cup {NoSlot}])
  /\ tunnel \in Selections

(* The UI never says it is busy when nothing is on its way that will say     *)
(* otherwise (runtime.rs:17: an asynchronous flow is running).               *)
BusyIsOwned == busy => TasksOf({"start", "stop"} \cup QuitKinds) # {}

(* tunnel_session.rs:278: while a start or a stop is in flight nothing else  *)
(* is begun.                                                                *)
OneCallAtATime == \A s, t \in TasksOf({"start", "stop"}) : s = t

(* runtime.rs:19: a pending start is one recorded while a stop is in flight. *)
PendingWhileStopping == pending # NoPending => TasksOf({"stop"} \cup QuitKinds) # {}

(* When everything has settled, the UI shows what the service runs, also     *)
(* after a start that timed out and was compensated.                        *)
Settled ==
  /\ TasksOf({"start", "stop"} \cup QuitKinds) = {}
  /\ \A i \in DOMAIN channel : channel[i].op = "stats"
UiAgrees == Settled => tunnel = (IF running THEN runningId ELSE NoConfig)

(* A tunnel that is shown and left alone is polled, by one loop.            *)
LiveLoops == {t \in TasksOf({"poll"}) : task[t].current}
RunningIsPolled ==
  running /\ TasksOf({"stop"}) = {} => Cardinality(LiveLoops) = 1

(* The three together: what the UI shows, keeps for later and polls follows  *)
(* the calls it has in flight and the tunnel the service runs.              *)
UiFollowsService == PendingWhileStopping /\ UiAgrees /\ RunningIsPolled

(* A sample that is applied comes from the tunnel that is shown.            *)
SamplesOfTunnel ==
  [][\A t \in Slots :
       PollDone(t) /\ task[t].result = "ok" /\ LoopGoesOn(t) =>
         task[t].sample = runningId]_vars

(* While the password is required no start begins without it, whichever way  *)
(* it is asked for: button, tray, restart or a start that was queued.        *)
StartsAuthorized ==
  [][\A t \in Slots :
       required /\ task'[t].kind = "start" /\ task[t].kind # "start" =>
         \/ task[t].kind = "unlockStart" /\ task[t].step = "dialog"
         \/ task[t].kind = "stop" /\ pending.authorized]_vars

(* The UI does not stay busy.                                               *)
BusyEnds == busy ~> ~busy
=============================================================================
