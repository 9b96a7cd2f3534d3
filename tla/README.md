# r-wg in TLA+

r-wg is a desktop WireGuard client. A GUI process talks to a privileged service
over a local socket or pipe; the service owns the data plane (GotaTun in user
space, or the Linux kernel's WireGuard) and the system's network configuration.
What is hard in it is not the happy path: it is what is left behind when one step
of many fails, panics, is retried, or when the process dies between a change to
the system and the record of that change; and what the GUI shows when answers
come back late. This directory models that code, and the algorithms between the
two (routes, prefixes, configurations), checks it with TLC, and proves with TLAPS
what the engine, the network pipelines, the privileged side with its firewall, DNS,
negotiation and installation, the session, the library and the background machines of
the desktop program promise, for every value of the constants.

Paths below are relative to `src/`, the root of the repository's own tree; the
Rust code is under `src/src/`.

## Inventory

| Part | State | Operations | What is hard | What makes it correct | Module |
|---|---|---|---|---|---|
| Engine worker (`backend/wg/engine`) | `EngineState`: cached and active data plane, network state, `running`, protection flags | start, stop; panic recovery; end of the channel | a start has up to fifteen failing steps and three unwindings; a stop may fail twice; a crash anywhere | nothing leaked or used twice, nothing applied forgotten, no session weaker than asked | `Engine` |
| Kernel data plane (`backend/wg/linux_kernel.rs`) | the link, `kernel-backend.json` | create, configure, mark, delete, repair | journal before link; a link of the user with the same name | a link made is journaled until deleted; other links are kept | `Engine` |
| Firewall (`platform/linux/network/killswitch.rs`) | nftables table, or chains and jumps; the guard's journal | kill switch and guard: install, remove, sweep | iptables changes one rule at a time; two programs; rules and journal can part | half a chain never stops more than the whole one; what is reported stops all it is for | `Firewall` |
| Negotiation (`backend/wg/ephemeral.rs`) | the MTU meanwhile | upgrade a tunnel | retries with a growing window; late answers | device and relay use one secret; the MTU goes back | `Negotiation` |
| Linux network pipeline (`platform/linux/network`) | addresses, routes, rules, kill switch, DNS; `recovery.json` | apply, abort, cleanup, startup repair | one journal write per change; errors that do or do not roll back | all or nothing; a crash can be repaired; the user's settings come back | `LinuxNet` |
| Linux DNS (`network/dns`) | NetworkManager profiles, `resolv.conf`, link settings | select, apply, verify, revert | four backends, each of several commands; servers a router announces | no foreign server under a success; the user's servers come back | `Dns` |
| Windows pipeline (`platform/windows`) | addresses, metrics, routes, DNS, NRPT, firewall; journal | apply, two aborts, cleanup, repair | the journal follows each change | what runs is exactly the plan; the journal lags by one change at most | `WindowsNet` |
| Service (`linux_service/server.rs`, `windows_service_host.rs`, `ipc_server.rs`) | backlog, client threads, channel, exit flags | accept, serve, shut down, serve again | clients that time out and compensate; several clients; SIGTERM or a control meanwhile | a tunnel in effect was reported to who asked; calls and shutdowns end | `Service` |
| IPC (`ipc.rs`, `ipc_client.rs`) | one connection | a call: protocol check, frame out, frame in | frames in pieces, limits, refused access, other versions | the answer is the engine's; a timed-out start is undone | `Ipc` |
| Installation (`linux_service/manage.rs`, `windows_service_manager.rs`) | binary, units or registration, owner | install, repair, remove | a step fails; the service and clients run on | success means it is done; a repair keeps the owner | `Installation`, `CommandLine` |
| Session (`application/tunnel_session.rs`, `ui/features/session`) | selection, busy, pending start, password dialog, polling generation | toggle, tray, restart, quit | late answers; stale dialogs | the UI agrees with the service | `Session` |
| Connection password (`session/password_gate.rs`, `view/advanced/preferences.rs`) | the stored password, the requirement, a dialog and a background job each | require, set, change, remove, ask | the store is read before a dialog and written behind it | a dialog compares with what is stored; what is required is there | `ConnectPassword` |
| Configuration library (`application/config_library.rs`, `ui/features/configs`) | list, selection, editor, a file each | select, new, paste, save, rename, delete, import, export | updates between the steps of a task | ids and names unique; list, files and editor agree | `Library` |
| Persistence (`ui/actions/persistence.rs`, `storage`) | `state.json`, queued revision, one writer | queue, write, load | changes during a write; an error after the rename | the writer rests on the newest library | `Library` |
| Parser (`core/config`) | the blocks read so far | read a line, finish | order of blocks, keys that may come once | a block is what its lines say | `ConfigFile` |
| Route planner (`core/route_plan`, `network/policy.rs`) | rules and routes of the kernel | plan, apply, clean up, repair | policy routing: mark, table, priority; own rules and others' | a packet goes where the plan says; nothing of ours stays, nothing of others goes | `RoutePlan` |
| Route map (`ui/features/route_map`) | a cached plan | inventory, evidence, explanation | report of an earlier start; tie-breaking; cache key | what it says is what the kernel does | `RouteMap` |
| Tools (`backend/wg/tools`, `ui/features/tools`) | jobs and their generations | CIDR exclusion, reachability test and audit, active configuration | cancelling; answers to an earlier request; merging prefixes | exact difference; verdicts and snapshot of the last request | `Prefixes`, `Reachability`, `ActiveConfig` |
| Relay inventory (`relay_inventory.rs`, `daita_resources`) | a cache file, a lock | check, download, validate a start | downloads that queue, stall, die | the cache never gets older | `Relays` |
| Log (`log.rs`, `ui/actions/logs.rs`) | a bounded buffer; the page's polling | write, snapshot, clear, poll | a buffer without a lock; clears during a sync | no line twice, no cleared line back | `Logs` |
| Traffic history (`ui/state/traffic.rs`) | buckets by day and hour | sample, prune, save, restore | midnight, restarts, deleted configurations | sums are what was moved | `Traffic` |
| Themes (`ui/features/themes`) | theme files, the chosen palette | import, delete, choose, restore | two jobs on one directory | no file replaced, no palette changed unasked | `Themes` |
| Service panel (`ui/features/backend_admin`) | health shown, jobs | probe, install, repair, remove | probes and actions in any order | it shows a status the helper had | `BackendPanel` |
| Single instance (`ui/single_instance`) | lock file and socket, or mutex and pipe | start, activate, end | stale socket; a lock file removed under a starter | one primary; activations are kept | `SingleInstance` |
| Tray (`ui/tray`) | the platform's thread and icon, commands sent, the last notification | register, click, hide, show, quit, notify, copy | an icon that comes late or never; a copy beside a notification | a hidden window can be had back; what is copied was seen; no end on a running tunnel | `Tray` |
| Views, application update | none that a protocol depends on | draw, press, ask a web server | nothing concurrent of their own | | not modelled |

How they interact: the UI sends a command over IPC; the service passes it to the
engine's channel (bounded, 16); the worker serves one command at a time, calls
the data plane, then the network pipeline, and answers. Journals on disk are the
only state that outlives the service; it repairs from them before it accepts a
command (`linux_service/server.rs:49-56`). A module describes what it is about
step by step and the parts it calls by their outcomes: `Engine` has an apply, a
negotiation and the guard as one step each, whose inside is `LinuxNet` or
`WindowsNet`, `Negotiation`, `Firewall`; `LinuxNet` has a DNS backend as one step,
whose inside is `Dns`, and routes and rules as values, whose contents are in
`RoutePlan`; `Session` has the service as a queue, whose inside is `Service`, `Ipc`
and `Engine`. That the outcomes of a step cover what its inside can do was the
reading these modules were written with; it is not a theorem.

## Modules

### Engine

`Engine.tla` is the worker. Its variables are the fields of `EngineState`, the
locals of the two start functions that decide how a failure is unwound (`slot`,
`guard`, `cleanupOk`), and what lasts in the operating system: the device behind
each name (`dev`), the network configuration by its effect (`sysnet`), the
kernel journal, the guard and its journal. `pc` is the step of the worker; a
step ends where a failure, a panic or a crash can separate two changes.

| Code | Actions |
|---|---|
| `start`, `resolve_backend` | StartRejected, StartBegin, StartResolved, StartRefused |
| `start_userspace_gotatun` and its helpers | UserspaceTake, UserspaceDropOther, UserspaceConfigure, UserspaceNet, UserspaceUpgrade, UserspaceDone, UserspaceUnwindNet, UserspaceUnwindSlot |
| `start_linux_kernel`, `linux_kernel.rs` | KernelPrepare, KernelJournalLink, KernelCreateLink, KernelRecordLink, KernelConfigure, GuardInstall, GuardJournal, KernelNet, KernelMark, KernelUpgrade, KernelUnguard, KernelDone, KernelUnwindGuard, KernelUnwindNet, KernelUnwindLink |
| `stop`, `stop_active_backend` | StopRejected, StopBegin, StopNet, StopBackend |
| end of `run`, `catch_start_panic` | CloseChannel, WorkerExit, StartPanics |
| the process, `run_service` | Crash, ProcessExit, Restart, RepairNet, RepairGuard, RepairKernel |

### The network pipelines

`LinuxNet.tla` is the Linux pipeline: `apply_network_config` stage by stage, with
the journal written after each rule and route; `abort_apply`;
`cleanup_network_config_impl`; a crash; and
`attempt_startup_repair_with_backend`. `kill` and `dns` are the optional fields of
`AppliedNetworkState`; the rest of that state is the configuration `cfg`. The
device is brought up before an apply and taken down, or cached, after a cleanup
by its caller (LinkUp, LinkDown); one that is deleted takes its addresses, routes
and per-link DNS along, which is how the kernel and systemd-resolved behave.

`WindowsNet.tla` is the Windows one. A change to the system is an *item*
(an address, a metric, a bypass route, a route, DNS, NRPT, the DNS guard); a stage
is a set of items; a change and the journal that names it are two steps. Its two
aborts, the cleanup and the repair undo items in the code's order.

`NetContract.tla` is what a pipeline promises: a configuration is in effect
entirely or not at all. Both implement it under a refinement mapping (`Contract`)
for the failures an apply is built to roll back; the Linux one does for routes
and rules whatever an apply or a crash does (`RoutingContract`).

`Dns.tla` has the four DNS backends command by command (NetworkManager connection
by connection), the order they are tried in, the verification of `resolv.conf`
with its retries, and the revert. Servers are known by family and owner: the
user's, the tunnel's, or announced by a router.

`Firewall.tla` has the kill switch and the guard rule by rule, with nftables (a
script takes effect as a whole) and iptables (one command at a time, one program
per family). `Stopped` says which packets the rules in effect stop; the properties
compare it, between any two commands, with what the finished rules stop.

`Negotiation.tla` is `negotiate_tunnel_upgrade`: up to four attempts, each with
keys, a connection and a window of its own. The relay is external: it serves the
requests in the order sent, also those whose sender has given up, and may lose or
refuse any. A registration is known by the attempt it answers.

### The service

`Service.tla` has the clients, the connections not accepted yet, a thread per
client, the engine's channel, the worker's command and the process with its
shutdown. On Linux a client waits thirty seconds and sends a stop after a start
that did not come back; on Windows it waits for ever, and the loop is woken by a
connection of the service itself (`poke_server`).

`Ipc.tla` is one call: the connection, the protocol check, a frame each way in
pieces, the limit, the answer made of what came back, and the compensating stop.
`executed` records what the engine did, which the answer is compared with.

`Installation.tla` runs install, repair and remove as the sequence of steps the
manager has left, beside the service and its clients. `CommandLine.tla` has the
parsers of the command lines, the quoting of the elevated start on Windows
(against the rules Windows splits by, external) and the unit an owner is written
into and read back from.

### The desktop program

`Session.tla` is the GUI's side of the tunnel. An update of the UI thread is one
action, because gpui runs one at a time; what it spawns is a *task*, a record in a
slot that waits (for a delay, a file, the credential store, a dialog, an answer)
and then runs the next update. The rest of the state is `RuntimeState` (`busy`,
`running`, `runningId`, `pending`), the password preference, the requests the
service has accepted (`channel`) and the tunnel it runs (`tunnel`).

| Code | Definitions |
|---|---|
| `tunnel_session.rs` decide_toggle, decide_busy_toggle and the handling in `controller.rs` | QueueStart, StopRunning, StartSelected, StartConfig, StartStop |
| button, shortcut, tray (`ui/app.rs`, `ui/tray`) | Toggle, TrayStart, TrayStop |
| `password_gate.rs` | CredentialsRead, CancelUnlock, Unlock, SetRequired |
| save and restart (`configs/dialogs.rs`, `configs/storage.rs`) | SaveAndRestart, Saved |
| start and stop tasks, their completion (`controller.rs`) | Prepared, Send, StartDone, StopDone |
| `request_quit`, closing the window, `request_shutdown_stop` (`ui/app.rs`, `lifecycle.rs`) | Quit, QuitDone, Relaunch |
| `polling.rs`, `stats_generation` | PollAsks, PollDone, Outdate |
| `ipc_client.rs` and the compensating stop of `linux_service/client.rs` | StartTimeout, CallTimeout |
| the service (`linux_service/server.rs`, the engine's channel) | Serve, ServiceDies |

Abstractions of `Session`: which configuration is selected and whether the draft
is dirty are free inputs of every update that reads them; a statistics loop's
generation is one bit, whether it is the current one, which is all the code
compares; what a sample holds is the configuration it was taken from; a start or
a stop is one step of the service.

`Library.tla` is the list of configurations and its files. `configs`, `nextId`,
`selected` and `pending` are the fields of `ConfigsState`, `SelectionState` and the
workspace; `editor` is the operation shown, `loading_config_id` and the draft's
`source_id`; `files` holds the texts on disk and `stored` what `state.json` says;
`queued` and `writer` are `PersistenceState` and the loop of `persist_state_async`.

| Code | Definitions |
|---|---|
| `controller.rs`, `draft.rs`, `dialogs.rs` | Select, Discard, NewDraft, Paste, Actions, AfterSave |
| `load_config_into_inputs` | Show, LoadRead, LoadDone |
| `save_draft`, `insert_or_update_config`, `plan_save_target` | SaveClick, SaveRefused, SaveWrite, SaveDone, SaveFailed |
| `handle_rename_click`, `delete_configs_internal`, `plan_post_delete_selection`, `delete_files` | Rename, Delete, SelectedAfter, Remove |
| `handle_import_click`, `start_import_from_paths` | ImportClick, ImportCancel, ImportStart, ImportBegin, ImportWrite, ImportDone |
| `handle_export_click`, `handle_copy_click` | Export, ExportFolder, ExportCache, ExportDone, Copy, CopyDone |
| `persist_state_async`, `PersistenceState` | Persist, WriterTake, WriterWrite, WriterDone |
| `start_load_persisted_state`, `restore_configs` | LoadState, LoadStateFailed; Restart is the end of the process |

Abstractions of `Library`: names and texts are values, and what the user has typed
is chosen when it is used; a text cached by path is a field of the list's entry;
whether the draft is dirty only decides if a dialog is shown, so both ways are
open; which configuration `state.json` selects is free; an import has fewer files
than one batch (200) and ends in any order; nobody acts before the start-up load
has ended. `write_atomic` is its outcomes: done, failed with the old file in place,
or failed with the new one (an error after the rename, `storage/atomic.rs:68`).

The other modules of the desktop follow the same form, updates and jobs with a
generation: `ActiveConfig` (the tools page's snapshot and calculator; an identity of
the active configuration is a number, each change a new one), `Reachability` (a
single test address by address; the audit with its poller and cancel handle),
`Relays` (the page's calls, the download's task and lock, the cache, the start that
reads it), `Logs` (a line is the number it was written as), `Themes` (a name is a
base, a mode and a number; the light palette stands for both), `BackendPanel` (the
health shown against the statuses the helper had), `SingleInstance` (processes from
their start to their end, on both systems), `ConnectPassword` (the dialogs against the
credential store; `Session` has the same prompt from the side of the start it guards).

`Tray.tla` is the icon, the window it hides and the notifications, on both systems.

| Code | Definitions |
|---|---|
| `spawn_tray_thread`, `LinuxTray::init` | Spawn, Wait, Register |
| `run_tray`, `WM_DESTROY` | CreateTrayWindow, AddIcon, DestroyTray |
| the icon, its menu, the bridge of a second process | ClickIcon, ClickMenu, Activate |
| `start_command_loop`, `focus_main_window`, `request_quit` | Show, Toggle, Quit, Stopped |
| `on_window_should_close` | Close |
| `notify_system`, `copy_latest_notification` | Notify, ShowBalloon, AskCopy, WriteClipboard |

On Linux registering may succeed after the two seconds the UI waits for it, and the UI
then does not hide its window although there is an icon. On Windows `enabled` only says
that the thread was started; the icon may fail, which is why `HiddenBehindIcon` is
about Linux. `app.quit()` may end the process before `WM_DESTROY` has taken the icon away.

### Compositions

A machine of the privileged side or of the desktop program shares no state with the
others of its side. `Backend.tla` and `Desktop.tla` are each the sum of theirs: a
behaviour is one of one machine (`part`), and the machines take turns with the
variables (`v1`, `v2`, ...), which each of them reads under its own names through
INSTANCE ... WITH. Both modules state what their constants have to be
(`ConstantsAssumption`), as far as the code justifies it, and the properties of the
side as one formula each. `MCBackend` and `MCDesktop` add the values for TLC, the
fairness of each machine and the liveness properties; that they extend the module is
also what makes TLC evaluate the assumption. `Places.tla` has what a filter that keeps
the order leaves of a list; `Library` and the proofs about log, themes and audit use it.

### Algorithms

`RoutePlan.tla` has the plan of a configuration on each system, the rules and
routes derived from it, the messages that delete them, and a start, a stop, a
crash and a repair as actions; the kernel's decision for a packet is external and
written after Linux's rule lookup. `RouteMap.tla` adds the page over it: the report's
entries stage by stage, with a bypass skipped for an endpoint whose name has no address
of a full family, and the status of an item from the report, from what is fixed, or from
the last `[net]` lines of the log, in this order. Which lines there are is left open (a
set of lines that mention the item, or none; of failures, or not). In the built program
the log the page reads is that of its own process (`evidence_model.rs:233`, a buffer per
process, `log.rs:482`), to which the service does not write; `ReportTrue` does not use
that. Addresses are numbers of `Width` bits in two families. `Prefixes.tla` computes an exclusion
one excluded prefix per step and compares with the set of addresses. `ConfigFile.tla`
reads a file line by line; the value of a key is the number of its line, so that a
value in the wrong place shows. `Traffic.tla` moves bytes, samples them, prunes,
saves, restores, and compares the overview's sums with what was moved.

## Runs

Every failure of the environment is a member of a set of faults (in `Session` and
`Library` what the user may do, too: features). Where a run has several settings,
a behaviour begins with one of them and keeps it, and a property that the code
keeps only without some failure names that condition in its own definition; the
difference is listed under "What the code does not promise".

| Run | Checks | Bounds |
|---|---|---|
| `engine_two` | the type invariant, `DevicesHeldOnce`, `CacheIsIdle`, `NetStateOwned`, `KernelSessionJournaled`, `NoSilentDowngrade`, `GuardCoversNegotiation`, `OtherLinksKept`, `StartEndsUnguarded` | two names, 24 requests, all eleven faults |
| `engine_one` | `LinksJournaled`, `CommandAnswered` | one name (the journal holds one), all eleven faults |
| `net` | `Recoverable`, `NothingForgotten` (with the types), `JournalClearedLast`, the contract `AllOrNothing`, `CallsEnd` | two routes, five configurations, two DNS backends; three settings: what an apply rolls back, an apply that fails or crashes anywhere, every fault |
| `net_killdns` | refutes `ServiceStartsClean` | crashes only |
| `session_plain` | `OneCallAtATime`, `UiFollowsService`, `SamplesOfTunnel` | starts fail and time out; two configurations, three tasks, four requests |
| `session_all` | the type invariant, `BusyIsOwned`, `StartsAuthorized`, `BusyEnds` | every feature and failure; one configuration, two tasks, two requests |
| `library` | `LibraryAgrees` (with the types), `RestsWritten`, `BusyEnds` | two ids, names, texts and tasks without features; one of each with each group of features |
| `library_ids` | refutes `NewFilesAreNew` | an id may be in use when it is taken |
| `backend` | types; `NetworkSound`, `CallersToldTruth`, `FailuresUndone`, `CallsEnd` | see below |
| `algorithms` | types; `PacketsDelivered`, `RoutesLeftClean`, `ReportsTrue`, `InputsExact` | see below |
| `desktop` | types; `PagesTruthful`, `NothingTakenBack`, `JobsEnd` | see below |
| `logs_clear` | refutes `SyncsWhileOpen` | as `Logs` in `desktop` |

What the grouped properties consist of:

| Property | Conjuncts |
|---|---|
| `NetworkSound` | Windows: `RunningIsExact`, `JournalLagsByOne`, `OutsideRestored`; firewall: `FirewallSound` (no half-built chain stops more than the finished one, what is reported stops all it is for, nothing stays); DNS: `Restores` |
| `CallersToldTruth` | service: `NoUnreportedTunnel`; installation: `ManagerKeepsItsWord`; negotiation: `BothEndsAgree`; IPC: `AnswersTrue`, `FramesBounded` |
| `FailuresUndone` | Windows: `RepairSweeps`, the contract `AllOrNothing`; negotiation: `MtuRestored`; IPC: `TimedOutStartUndone`; installation: `OwnerKept`; DNS: `NoForeignServer` |
| `CallsEnd` (backend) | Windows applies, cleanups and repairs, upgrades, clients' calls and the service's shutdown end |
| `PacketsDelivered` | `LinuxDelivery`, `WindowsDelivery` |
| `RoutesLeftClean` | `StartsFreely`, `LeavesNothing` |
| `ReportsTrue` | `ExplainTrue`, `ReportTrue`, `CacheTrue` |
| `InputsExact` | `ExclusionExact`; `ParsesExactly`; `OverviewExact`; `ArgumentsExact`, `OwnersReadBack`, `QuotingExact` |
| `PagesTruthful` | `SinglePrimary`, `ActivationKept`; `SnapshotTruthful`, `AnswersLastRequest`; `VerdictTrue`, `AuditReports`; `BufferSound`; `NamesDistinct`; `CacheServesStarts`; `PanelTruthful`; `AsksForStored`, `RequiredIsStored`; `HiddenBehindIcon`, `CopiesWhatWasSeen` |
| `NothingTakenBack` | `ClearedStaysOff`; `NeverOlder`; `FilesKept`, `PreferenceKept`; `LeavesStopped` |
| `JobsEnd` | starts of a process, the tools page, calculations, tests and audits, log syncs, the relay page, the panel, a hidden window that is asked for |

Why the bounds are enough. *Engine*: the worker serves one command at a time and
its decisions compare at most two names (the request's with the cached device's,
the active one's or the journal's), so a second name gives every outcome of the
comparison; histories are unbounded. *Linux pipeline*: it treats every route alike and
their order is free in the model, so two routes give "none, some, all installed";
the two address families give the same for rules; five configurations cover a
split and a full tunnel, with and without kill switch and DNS; two DNS backends
give a first that fails and a last. *Session*: the two actors that meet are a call
and a statistics loop, a third task is the toggle pressed meanwhile: three slots,
two where dialogs and quitting add to the states; slots are interchangeable
(`SlotSymmetry`, in the run without liveness). `MaxRequests` is four where every task
can have a request waiting and an abandoned one behind it (the code's bound is 16).
*Library*: a conflict has two parties, two configurations, two names one of which is
taken, an old and a new text, two tasks that end in either order; `nextId` stops at
`MaxId` + 1, restarts and deletions are unbounded.

*Backend*. Windows: a split plan and a full one with every kind of item, two items
where a stage has several, four fault sets (errors of stages, of the journal,
crashes, crashes with failing deletions). Service: two clients, three platforms, one
end of the process, faults in three sets; a session reaches from one client's call
to the other's. Installation: both systems, every action, four fault sets. IPC:
frames of one to three units with a limit of three, so that a frame may be cut, fit
exactly or be too long. Firewall: both kinds, every set of families and of programs
that matters, five fault sets. DNS: four sets of backends, three owners of
`resolv.conf`, two connections, two reads in a verification (five in the code), since
the second one is the only one that meets a change. The negotiation has no bound but
the code's four attempts.

*Algorithms*. Two bits of address and two families: a prefix with a sibling, a parent
and a default; tables unset, automatic, off, below and above 255; marks; seven lists of
peers, one of them with an endpoint whose name has no address of the full family; rules and routes of other programs around the program's own priorities and
default routes. Two starts in one process, because the sweep runs once. Three bits for
the calculator, lists of up to eight prefixes that merge over three levels. Seven
lines hold two peers with a repeated key. Five hours of two a day give two midnights.
Five words, six letters: a flag, its value and a repetition; a backslash run before
and after a quote.

*Desktop*. Three processes; three identities and two requests (the one at work, the
one that comes, the one after); two runs with two probes at a time over lists with
every kind of entry; a buffer of two and three lines written, so that it overflows;
three clicks; two theme jobs, and sources with two themes whose names differ in letters the
key forgets; two lists and two downloads; five panel jobs; two jobs and
two passwords, an old and a new one; three tray commands, so that one waits while one is
obeyed and one is sent, and two notifications, a newer one beside the one clicked.

Fairness. `Worker` and `Service` are weakly fair in `Engine`, the three procedures
in the two pipelines, the upgrade in `Negotiation`: they run in tasks or threads
whose next step is always ready, and
systemd restarts a service that ended (`Restart=on-failure`). In `Service` the
worker, the accept loop and its exit, and a Linux client's time-out are. Commands,
crashes and panics are never fair. Since each choice between success and failure of
a step stays free, liveness is shown for every pattern of failures; only the ends of
a repair exclude processes that crash for ever. External commands are taken to return:
those of `network/dns/command.rs:42` and `killswitch.rs:692` have no time-out, so that one
that hangs would keep an apply, and with it the service's worker, for ever. In the GUI modules, the executor's
tasks, timers, the tray's command loop and the drawing of a shown page are weakly fair; in `Session` sending
is strongly fair, because senders that wait for room in a bounded channel are served
in turn. The user is never fair, and neither is the end of a process. In `Relays` the
service's answers and the client's time-out are fair; a download may stall for ever.
In the composed runs processes, and clients, are alike, so that liveness is stated for
one of them.

## What the code does not promise

Three runs expect a violation and each is a finding in `PROJECT.json`:

* `net_killdns`: kill switch and DNS are changed before the journal can undo them.
* `library_ids`: saving as new reads `next_config_id` without moving it, so the
  next new configuration of the same process gets the same id and overwrites the
  file of the first.
* `logs_clear`: clearing the log during a sync leaves `sync_in_flight` set, and the
  page syncs no more until it is left.

Found while modelling, and the reason why a property names fewer faults:

*Engine and Linux pipeline.* A failing deletion followed by a start under another name
overwrites the kernel journal (`LinksJournaled`); a crash before the link is created
leaves a journal that names a link of the user; a crash or panic during a negotiation
leaves the guard until the next service start; a stop whose DNS revert failed keeps the
journal, but the next start overwrites it and takes the last tunnel's servers for the
user's (`UserDnsRemembered`, against `recovery.rs:5`); a stop that does not find the device removes the
journal without restoring DNS and rules; the error path of `configure_link` leaves
with the address and the journal in place; when rollback and device both fail in one
stop, `running` stays set without a data plane. When a negotiation fails the guard goes
before the routes do.

*Firewall and DNS.* After three failures (nft's script, the fallback, the removal) the
guard's journal may name the other backend. NetworkManager's cleanup logs a failed
modification and succeeds. When one connection cannot be read, those before it do not get
their servers back (`network_manager.rs:30`), and one that was modified but cannot be
applied to its device keeps the tunnel's, since `touched` does not have it yet
(`network_manager.rs:31`, against `dns/types.rs:16`); `UserSettingsBack` fails, and
`Restores` excludes failing reads, reapplies and restores. `resolv.conf` is truncated and
then written; a crash in between leaves it empty.

*Windows.* A bypass route that was there before is taken over and deleted at the end;
a cleanup removes the journal though a deletion failed; a crash between a bypass route
and its record leaves that route.

*Negotiation and installation.* A relay that answers late or refuses on a slow network
may exceed the client's thirty seconds (`WeakLinksServed`); a repair may return before
the new process answers (`RepairAnswersForItself`). Both are stated in their modules and
not promised.

*Service and IPC.* A client's compensating stop may end a session another client
started meanwhile, when a thread is slow (`slowThread`). ECONNRESET and the Windows
errors 231 and 233 count as a missing service, so that a stop may be answered
`NotRunning` and a status `Stopped` while a tunnel runs; after a crash a kernel link
outlives such an answer. A start request that is too long is a dropped connection.
Pipe I/O on Windows has no time-out. In the command lines an owner `root` is read back
as none, an empty argument vanishes, and `ExecStart` paths with spaces are unquoted.

*Single instance.* A clean end removes the lock file; a process that had opened it locks a
file without a name, another creates one, and when neither finds a listener before the
other binds both become primary (`OneUi` fails, against `main.rs:73`). `SinglePrimary` is
stated for the first lock file.

*Session.* On Linux a stop answered `NotRunning` counts as a failure, so that after a
restart of the service the UI goes on showing a tunnel that is not there; a failed
stop leaves a running tunnel without a statistics loop; quitting and confirmed dialogs
do not ask `busy`, so two calls can be in flight; save and restart queues a start
before it presses the toggle, and when the tunnel stopped while the file was written
that start fires after a later, unrelated stop. `OneCallAtATime` and
`UiFollowsService` are checked without these.

*Library*, with feature `whileBusy`: the proxies page deletes during a save, whose file
may then be removed after the configuration came back; a deletion shows the editor
free while it still loads the next configuration, and the end of that load clears the
busy state of whatever was begun meanwhile; a paste during a load forgets it without
ending the busy state; a cancelled file dialog clears another operation's. Without it:
an action kept for after a save survives a save that is refused or fails; a load that
fails leaves the draft with its former source; a `state.json` that cannot be read gives
an empty library, which the next change writes over it; a save whose write fails after
the rename leaves the file newer than the list.

*Routes.* A mark written `0x0` or `00` is `Some(0)`; a default route that is not
canonical, or split in two halves, does not make a full tunnel; a full tunnel carries
the traffic to the local network; a table given by number with one default family
leaves the other family's routes unused; the startup repair deletes by destination and
table without the interface, a stateless one also other tunnels' default routes; a DNS
server that is also an endpoint is bypassed on Windows; rules with another mark stay.
`PacketsDelivered` and `RoutesLeftClean` name these. On the map, CIDR queries are not
explained though the page offers them; a bypass is shown as planned under
`Table = off`; the mark's warning never appears; what only a line of the log
says is applied may be of an earlier tunnel or a failed start, and `ReportTrue` excepts
the other configurations' items of which that is so; a repair leaves the persisted report; the signature
of the inventory tree leaves out the explained match.

*Small algorithms.* The calculator may report too many results while it is still to merge
them. A first sample is a baseline only, the bytes since the last sample are lost at a
stop and up to a minute at quit; the clock is taken to be monotone. `FwMark = off` does
not count as an earlier `FwMark`, and two peers may have one key.

*Desktop.* A log snapshot may put older lines after newer ones, and a snapshot during a
clear may bring lines back. Importing a theme file called `r-wg-curated` is undone at
the next start, overlapping imports may overwrite each other, and a missing file at the
start changes the saved palette. `sanitize_key` gives names that differ in case, spaces
or signs only, or are outside ASCII, one key (`catalog.rs:326`): of two such themes of
one file a choice, or the next start, may take the other, so `PreferenceKept` promises
one of those that are alike (`Alike`); themes of other files never come in. In a relay list `features.daita: false` counts as
capable; an error of the directory's sync is reported although the cache was replaced; a
client that times out leaves its download running. The startup-repair button asks
nothing (`ui/state/backend.rs:221`), a late probe then enables the other buttons; the
error of an action is erased by the probe after it.

## Proofs

A theorem holds for every value of the constants under the assumptions its module
names. None of the properties below is inductive as it stands: each machine has an
invariant that says, for every step of it, what holds *there*, with one lemma for each
part and one step for each action, and the theorems follow from it.

`BackendProofs` and `DesktopProofs` prove about machines that `Backend` and `Desktop`
hold as instances. They name the shared variables as the machines do (`ring == v1`, ...)
and expand those names everywhere, so that a lemma about a machine reads as it would in
its own module. A theorem about one machine is of that machine's `Spec`
(`LG!Spec => ...`) under the part of `ConstantsAssumption` it needs; one about a side is
of the `Spec` the run checks, under `ConstantsAssumption`, and names the run's property.

### Engine (`EngineProofs`)

For every set of names and every set of faults (`TunsAssumption`: the "no name" value
is not a name; `FaultsAssumption`):

| Theorem | Property |
|---|---|
| `TypeCorrect` | `TypeOK` |
| `NetworkOwned` (from `NetworkNeverForgotten`, `NetworkStateOfSession`) | `NetStateOwned` |
| `KernelLinkRecoverable` | `KernelSessionJournaled` |
| `CachedDeviceIdle` | `CacheIsIdle` |
| `NegotiationGuarded` | `GuardCoversNegotiation` |
| `ProtectionKept` | `NoSilentDowngrade` |
| `DevicesNeverLeaked` | `DevicesHeldOnce` |
| `StartsEndUnguarded` | `StartEndsUnguarded` (an action property) |
| `LinksNeverForgotten` | `LinksJournaled`, for one name, or where links and journals can be removed and nothing panics |
| `OthersUntouched` | `OtherLinksKept` (an action property) |

That a running session is protected follows only if the flags were clear when its
negotiation began, if a kernel session never carries a DAITA request, and if the steps
after the negotiation leave key and flags alone. The invariant `IInv` has
`WorkerControl` (which steps have a session, whose the slot is), `Cache` (where a device
can be cached), `NetOwned` (where the network state may be), `KernelSessionJournaled`,
`GuardUp`, and `Protection` (flags and key along the way from request to tunnel);
`ShutdownEffect` says once what `shutdown_active_backend` leaves, for the four places
that call it. Three more invariants rest on it: `Held` (which of cache, backend and slot
has the device at each step), `GuardDown` (at which steps no guard is in effect) and
`LinksOwned` (the journal names every link, or the step has it). The last one shows why
`LinksJournaled` is checked with one name: with two, a deletion or a journal write that
fails, or a panic, leaves a link and its journal, and a start under the other name
writes over the journal.

### Network pipelines (`LinuxNetProofs`, `WindowsNetProofs`)

Linux, for every finite or infinite set of routes, all configurations and all settings
(`ConfigsAssumption`, `SettingsAssumption`, `RoutesAssumption`):

| Theorem | Property |
|---|---|
| `TypeCorrect`, `CrashRecoverable` | `TypeOK`, `Recoverable` |
| `ChangesOwned` | `NothingForgotten` |
| `JournalLast` | `JournalClearedLast` (an action property) |
| `PipelineRefinesContract` | `AllOrNothing`: the pipeline implements `NetContract` under `Contract` and `RoutingContract` |

`IInv` has the state of a call (`CallProgress`), what the journal names then
(`JournalNames`), and for the faults each promise allows what is in effect: `Routing`,
`Undoing`, and `OwnedByCall`, by which a failed apply that is rolled back leaves
nothing. The refinement is shown action by action: a step of an apply before its last
one, and of a cleanup after its first, stutters.

Windows, for all plans the program can request (`Requested`: a DNS guard comes
with NRPT and this with DNS, the faults are known ones, an address is neither an
endpoint's route nor the guard):

| Theorem | Property |
|---|---|
| `TypeCorrect`, `AppliedExactly`, `JournalFollowsApply`, `OutsideAdapterRestored` | `TypeOK`, `RunningIsExact`, `JournalLagsByOne`, `OutsideRestored` |
| `RepairComplete` | `RepairSweeps` (an action property) |
| `PipelineRefinesContract` | `AllOrNothing` |

### Session (`SessionProofs`)

For every set of configurations, slots and features (the assumptions of `Session` on its
constants):

| Theorem | Property |
|---|---|
| `TypeCorrect` | `TypeOK` |
| `NeverStuckBusy` | `BusyIsOwned` |
| `PasswordGate` | `StartsAuthorized` (an action property) |
| `OneCall` | `OneCallAtATime`, for features without password, save-and-restart and quitting |
| `UiFollows` | `UiFollowsService`, for those where also no stop fails, no call times out but a start's, and the service does not die (`ServedSession`) |
| `SamplesTrue` | `SamplesOfTunnel`, for the same |

`BusyIsOwned` is inductive together with the types: a step either leaves every
task's kind as it was (`OwnedByKinds`), or puts one task into one slot
(`OwnedByPut`), and the toggle only ever uses a slot that owns nothing
(`OwnedByToggle`). The gate follows from the toggle beginning no start while the
password is required (`GateByToggle`), which leaves the dialog and the
authorised pending start. `OneCall` needs more: that a call in flight implies
busy, and that what is starting does not run already, since a start may be queued
whenever something runs (`PlainInv`).

That the UI follows is a matter of the channel. A start that timed out is still in it, or
served, behind its caller's back; what saves the UI is that its stop comes behind it
(`Cleared`) and that the next start of the UI comes behind that (`AwaitedLast`), so that
whoever is answered last is told what runs (`CallsEndTrue`). `ShownRuns` and `LoopsTrue`
say the same of what is shown and polled. With a stop that fails, a call without an
answer or a service that dies the theorem would be false (see "What the code does not promise"), hence the hypothesis.

### Library (`LibraryProofs`, `PlacesProofs`)

For every number of configurations and tasks, all names and texts, all settings:

| Theorem | Property |
|---|---|
| `NoChangeLost` | `RestsWritten` (an action property) |
| `TypesHold` | `TypeOK` |
| `LibrarySound` | `LibraryAgrees`, whose conjuncts name the settings they are for |

The writer's invariant is small: what is being written is the library, or a change is
queued. `LibraryAgrees` rests on `Mode`: at most one task acts on the editor, and the
editor knows it (`SaveRuns`, `LoadRuns`, `ImportRuns`, `Resting`), while any number of
others remove files that no configuration has and no task is about to write
(`RemovesApart`). That is why the pages' question whether the editor is busy matters, and
where it is not asked (feature `whileBusy`) it fails. Lists are reasoned about by place:
the n-th place kept (`Nth`) exists and no two are the same (`NthPlace`), so that a
deletion keeps every other entry, in order, once (`KeptSeq`). No step of that is an
induction; `Least` (a set of numbers has a smallest) takes its place.

### Privileged side (`BackendProofs`, `WindowsNetProofs`)

The whole side, for every value the constants may have (`ConstantsAssumption` of `Backend`):

| Theorem | Property of run `backend` |
|---|---|
| `BackendTyped` | `TypeOK` |
| `NetworkAlwaysSound` | `NetworkSound` |
| `CallersAlwaysToldTruth` | `CallersToldTruth` |
| `FailuresAlwaysUndone` | `FailuresUndone` (an action property with the contract of the Windows pipeline) |

They rest on `BackendInv`, which holds the invariant of whichever machine the behaviour
is of; a step is one of that machine, and what is not of it stays as it was. The types
alone needed two facts that no other theorem had: the service's own poke is in the
backlog once at most and only while a stop is asked for, which bounds the ends of the
process (`StopAsked`, `OnePoke`), and the backends DNS has tried are those of its order
up to a place.

By machine:

| Theorem | Property | For |
|---|---|---|
| `BothEndsAlwaysAgree`, `MtuAlwaysRestored` | `BothEndsAgree`, `MtuRestored` (an action property) of `Negotiation` | all requests, and whatever the relay loses, refuses or answers late |
| `FirewallAlwaysSound` | `FirewallSound` of `Firewall` | all rules of the kill switch or the guard, for one family or both, by any set of programs (`SettingsSound`) |
| `DnsNeverForeign`, `DnsAlwaysRestores` | `NoForeignServer` (an action property), `Restores` of `Dns` | all orders of the four backends, finitely many connections (`DnsSound`) |
| `TunnelsReported` | `NoUnreportedTunnel` of `Service` | any clients, none called "none" or "service" (`ClientsNamed`), any number of ends of the process |
| `ManagerAlwaysKeepsItsWord`, `OwnerAlwaysKept`, `LinuxAlwaysHearsManager` | `ManagerKeepsItsWord`, `OwnerKept` (an action property) of `Installation`; the UI on Linux hears the manager's result | both systems, all faults (`SystemsKnown`) |
| `AnswersAlwaysTrue`, `FramesAlwaysBounded`, `TimedOutStartsUndone` | `AnswersTrue`, `FramesBounded`, `TimedOutStartUndone` (an action property) of `Ipc` | frames of any length and any limit (`FramesKnown`) |

Requests go out one attempt after the other, so an answer that comes late is of an earlier
registration, and the device takes only its own (`SentInTurn`, `Answered`). Of the rules,
a chain is jumped to only when it is full (`JumpsFull`, `Building`), what is reported is
there for every family (`Reported`), and what is left behind at each step is of the program
that is then asked to remove it (`Tidy`); `ChainsDecide` says what the chains jumped to
stop. For DNS, whatever no longer has the user's profile is on the list of what is to be
brought back, with the profile it had (`Restorable`).

That no tunnel runs that nobody was told of is, as for the session, a matter of order: a
start its client gave up is followed by the client's undo. The invariant says so of every
stretch of the way from the client to the worker, the backlog, the threads, the channel and
what is being executed (`StartsUndone`), that a start is on one of them only (`StartsOnce`),
and that an end of the process on Linux leaves neither. A thread that is overtaken or a stop
that fails refutes it, which is why the property excepts them (`InOrder`).

What a manager has left to do is always an end of its plan (`RestOfPlan`), and the number
of steps left says which files, units and processes are there (`LinuxRepair`,
`WindowsRepair`, `LinuxRemoval`, `WindowsRemoval`), whatever clients do between the steps.
Of a call, what the engine has carried out is fixed by what the caller waits for: nothing
while it asks for the protocol or its command has no answer yet, the command with just the
answer that comes back, a stop once a start timed out (`Fresh`, `Asking`, `Commanding`, `TakingBack`).

### Desktop program (`DesktopProofs`)

All of it, for every value the constants may have (`ConstantsAssumption` of `Desktop`):

| Theorem | Property of run `desktop` |
|---|---|
| `DesktopTyped` | `TypeOK` |
| `PagesAlwaysTruthful` | `PagesTruthful` |
| `NothingEverTakenBack` | `NothingTakenBack` (an action property) |

The same construction as on the privileged side: `DesktopInv` holds the invariant of the
machine the behaviour is of. For the reader who looks for one machine:

| Theorem | Property | For |
|---|---|---|
| `InstanceTypesHold`, `OnePrimary`, `ActivationsShown` | `TypeOK`, `SinglePrimary`, `ActivationKept` of `SingleInstance` | finitely many processes, none called nobody, any number of tries (`ProcsNamed`) |
| `PageTruthful`, `CalculatorAnswers` | `SnapshotTruthful`, `AnswersLastRequest` of `ActiveConfig` | any number of changes and requests (`PageLimits`) |
| `CacheAlwaysServes`, `NeverAnOlderList` | `CacheServesStarts`, `NeverOlder` (an action property) of `Relays` | any number of lists and downloads, finitely many relay keys (`RelaysBounded`) |
| `PasswordAsked` | `AsksForStored`, `RequiredIsStored` of `ConnectPassword` | any number of jobs; "none" is no password |
| `HiddenCanReturn`, `CopiedIsSeen` | `HiddenBehindIcon`, `CopiesWhatWasSeen` of `Tray` | any number of commands and notifications |

The other machines' parts are in the three theorems only. The invariants:

* `InstanceInv`: a lock file is removed by a process at its end, which bounds the files by
  the processes (`FilesCounted`); whoever is on the way to be primary holds the lock of the
  file it has open (`LocksHeld`).
* `PageInv`: the page waits only while a parse of what it waits for runs, and a parse is
  of what its number stands for.
* `ReachInv`: a verdict follows from two counts, of attempts and of connections, which say
  whether none or all of the hosts tried accept (`CountsTell`); the order of the addresses
  is deduplication, a stable partition and a cut, each described by places. An audit's
  counters at config `k` are the sizes of two sets of places, `EndsTo(k)` and
  `IssuesTo(k)`, whose growth by one is one step (`Counts`); so the report at the end
  counts every endpoint and every unusable config once.
* `LogInv`: a line is in the buffer or out with one call, never twice (`LinesApart`);
  below the capacity and before a clear none is missing (`NoneLost`); a sync of the
  page's present generation was asked for after the last clear (`CallFits`). The
  buffer's length is the number of its lines because a list without repetition is a
  bijection from its places.
* `ThemesInv`: the inventory of a job that is alone has every name of the directory
  (`Knows`), and a name a job gives is not in its inventory. That such a name exists is a
  pigeonhole: of the numbers from 2 to the size of the inventory plus two one is free, and
  `Least` gives the first. `FilesKept` and `NamesDistinct` except jobs that overlap, as the code
  does. `PreferenceKept` needs no assumption on the keys: what a key finds in a file has
  that key (`KeyTells`), and so has what was asked for.
* `RelayInv`: one download is past `REFRESH_LOCK`, and what it holds is not older than the
  cache (`OneFetches`); the page waits for one call, whose answer is not older than what
  the page shows (`OneCall`).
* `PanelInv`: unless a startup repair ran into another job, the panel has one job at most,
  and none when it is not busy (`OneJob`).
* `PasswordInv`: unless `raced`, a task that may write or remove runs alone (`Alone`), and
  only it changes the store.
* `TrayInv`: on Linux the UI believes in a tray only once it is registered
  (`TrayTrusted`); a text is kept before its balloon shows it, so what is kept is never
  older than what is seen (`NoticesKept`).

### Only model-checked

Liveness, which with ENABLED is beyond the prover: `CommandAnswered`, `CallsEnd`,
`BusyEnds`, `JobsEnd`. What the algorithms of `MCAlgorithms` compute (`RoutePlan`,
`RouteMap`, `Prefixes`, `ConfigFile`, `Traffic`, `CommandLine`): code and reference
definition are folds over lists and sums over sets, so that comparing them for every input
is an induction over data. The library's induction theorems take an operator as a parameter, which no
installed prover can instantiate; where a proof needed an induction over numbers, `Least`
of `PlacesProofs` gives a smallest counterexample instead.

## Not modelled

The cryptography, the contents of packets and of netlink and D-Bus messages; the syntax
of single values; statistics and status requests, which change nothing; the steps
inside `write_atomic` and the preferences other than theme and traffic; JSON defaults;
the bounded race of two address families in `endpoint_family`; texts, layout,
and the version check of the application update. They are listed as
components, with their reason, in `PROJECT.json`. Branches the code keeps for states it
cannot be in (as the file backend of `Dns` over a managed `resolv.conf`) are modelled
with the guard that makes them unreachable.

## Plan

Every component with a protocol or an algorithm of its own has a module now. Next:

1. Theorems on `Traffic` (sums by day and hour over any number of samples) and on the
   cache of `RouteMap`, which need inductions over data, or sums stated by places
   as `EndsTo` states the audit's.
2. `LinuxDelivery` of `RoutePlan`, whose decision for a packet is a matter of the rules'
   priorities and not of their number.
3. That the outcomes `Engine` allows an apply, a negotiation and the guard are those
   of `LinuxNet`, `Negotiation` and `Firewall`, as refinements.
4. The steps inside `write_atomic`, with a crash between them.
