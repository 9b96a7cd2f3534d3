----------------------------- MODULE Reachability -----------------------------
(***************************************************************************)
(* The reachability page of the tools                                       *)
(* (src/src/ui/features/tools/{reachability_actions,audit}.rs): a single test *)
(* of one target (src/src/backend/wg/tools/reachability.rs), and the audit,  *)
(* which loads every saved config and probes the endpoints it finds, with a  *)
(* poller that copies its progress to the page until it ends or is           *)
(* cancelled.                                                               *)
(***************************************************************************)
EXTENDS Naturals, Sequences, FiniteSets, Places, SequencesExt

CONSTANTS SavedConfigs,  \* sequences of {"unreadable", "invalid", "noEndpoint", "one", "two"}
          Answers,       \* address lists a name may resolve to: <<[family, host], ...>>
          MaxAddresses,  \* max_addresses, smaller
          Concurrency,   \* REACHABILITY_BATCH_CONCURRENCY, smaller
          MaxRuns        \* tests and audits a user starts

VARIABLES
  saved,       \* the saved configs of this behaviour
  up,          \* hosts that accept a connection
  runs,        \* tests and audits started so far
  single,      \* [state, verdict, request, tried, kept]
  probe,       \* the task of the test: [at, left, tried, connected]
  audit,       \* [state, gen, rows]
  task,        \* the task of the audit
  progress,    \* the progress the task and the pollers share, by generation
  shown,       \* audit_progress, a copy of it
  pollers,     \* generations whose poller sleeps
  cancelled,   \* the cancel handle of the audit is set
  cancelling   \* audit_cancelling

vars == <<saved, up, runs, single, probe, audit, task, progress, shown, pollers,
          cancelled, cancelling>>
world == <<saved, up>>
singleTest == <<single, probe>>
batch == <<audit, task, progress, shown, pollers, cancelled, cancelling>>

Preferences == {"system", "v4", "v6"}
NoProbe == [at |-> "none"]
NoTask == [at |-> "none"]
NoProgress == [gen |-> 0]
JobStates == {"Idle", "Running", "Ready", "Failed"}
Progress == [gen : 1..MaxRuns, processed : Nat, endpoints : Nat, completed : Nat,
             phase : {"LoadingConfigs", "ProbingEndpoints", "Finalizing", "Completed"}]
EndpointsOf(kind) == CASE kind = "one" -> 1 [] kind = "two" -> 2 [] OTHER -> 0
AllEndpoints == Cardinality(UNION {{i} \X (1..EndpointsOf(saved[i])) : i \in DOMAIN saved})
Issues == Cardinality({i \in DOMAIN saved : EndpointsOf(saved[i]) = 0})

-----------------------------------------------------------------------------
(* order_addresses: without repetitions, the preferred family first, and no  *)
(* more than the limit.                                                     *)
Deduplicated(addrs) ==
  KeptAt(addrs, {i \in DOMAIN addrs : \A k \in 1..(i - 1) : addrs[k] # addrs[i]})

Preferred(addrs, preference) ==
  LET own == {i \in DOMAIN addrs : addrs[i].family = preference}
  IN IF preference = "system" THEN addrs
     ELSE KeptAt(addrs, own) \o KeptAt(addrs, DOMAIN addrs \ own)

Truncated(addrs) ==
  SubSeq(addrs, 1, IF Len(addrs) < MaxAddresses THEN Len(addrs) ELSE MaxAddresses)

OrderTruncated(addrs, preference) ==       \* mutant: the limit before the order
  Preferred(Truncated(Deduplicated(addrs)), preference)

OrderAddresses(addrs, preference) == Truncated(Preferred(Deduplicated(addrs), preference))

(* normalize_request: a target is nothing, a host, or a host with a port,    *)
(* which comes before the port of the form; a tcp test needs one of them.    *)
Targets == {"none", "host", "endpoint"}
NormalizeRequest(target, override, tcp) ==
  IF target = "none" \/ (tcp /\ target = "host" /\ ~override) THEN "invalid" ELSE "resolve"

(* run_reachability.                                                        *)
Free == single.state # "Running" /\ audit.state # "Running"

RunTest ==
  /\ Free /\ runs < MaxRuns /\ runs' = runs + 1
  /\ \E target \in Targets, tcp \in BOOLEAN, override \in BOOLEAN, stop \in BOOLEAN, p \in Preferences :
        /\ single' = [state |-> "Running", verdict |-> "none",
                      request |-> [tcp |-> tcp, stop |-> stop, prefer |-> p],
                      tried |-> <<>>, kept |-> <<>>]
        /\ probe' = [at |-> NormalizeRequest(target, override, tcp),
                     left |-> <<>>, tried |-> <<>>, connected |-> 0]
  /\ UNCHANGED <<world, batch>>

(* A name that does not resolve, or not in time, is a failed test; without   *)
(* connecting every address is one that was resolved.                        *)
Resolve ==
  /\ probe.at = "resolve"
  /\ \E addrs \in Answers \cup {<<>>} :
        LET kept == OrderAddresses(addrs, single.request.prefer)
        IN /\ probe' = [probe EXCEPT !.left = kept,
                          !.at = IF kept = <<>> THEN "Failed"
                                 ELSE IF single.request.tcp THEN "connect" ELSE "Resolved"]
           /\ single' = [single EXCEPT !.kept = kept]
  /\ UNCHANGED <<world, runs, batch>>

StopsAlways(connected) == TRUE             \* mutant: the first attempt is the last

Stops(connected) == connected > 0 /\ single.request.stop

(* Each address in its turn; a connection that is refused, fails or times    *)
(* out goes on to the next.                                                 *)
Connect ==
  /\ probe.at = "connect" /\ probe.left # <<>>
  /\ LET a == Head(probe.left)
         connected == probe.connected + (IF a.host \in up THEN 1 ELSE 0)
     IN probe' = [probe EXCEPT !.tried = Append(@, a), !.connected = connected,
                    !.left = IF Stops(connected) THEN <<>> ELSE Tail(@)]
  /\ UNCHANGED <<world, runs, single, batch>>

Verdict(tried, connected) ==
  IF connected = 0 THEN "Failed"
  ELSE IF connected = Len(tried) THEN "Reachable" ELSE "PartiallyReachable"

TestEnds ==
  /\ \/ probe.at = "connect" /\ probe.left = <<>>
     \/ probe.at \in {"Failed", "Resolved", "invalid"}
  /\ single' = [single EXCEPT
                  !.state = IF probe.at = "invalid" THEN "Failed" ELSE "Ready",
                  !.verdict = CASE probe.at = "connect" -> Verdict(probe.tried, probe.connected)
                                [] probe.at = "invalid" -> "none"
                                [] OTHER                -> probe.at,
                  !.tried = probe.tried]
  /\ probe' = NoProbe
  /\ UNCHANGED <<world, runs, batch>>

-----------------------------------------------------------------------------
(* run_reachability_audit.                                                  *)
RunAudit ==
  /\ Free /\ saved # <<>> /\ runs < MaxRuns /\ runs' = runs + 1
  /\ LET gen == audit.gen + 1
         start == [gen |-> gen, phase |-> "LoadingConfigs", processed |-> 0,
                   endpoints |-> 0, completed |-> 0]
     IN /\ audit' = [state |-> "Running", gen |-> gen, rows |-> 0]
        /\ progress' = [progress EXCEPT ![gen] = start] /\ shown' = start
        /\ pollers' = pollers \cup {gen}
  /\ task' = [at |-> "load", todo |-> saved, jobs |-> 0, running |-> 0, rows |-> 0]
  /\ cancelled' = FALSE /\ cancelling' = FALSE
  /\ UNCHANGED <<world, singleTest>>

CancelAuditAtOnce ==                       \* mutant: idle while the task still runs
  /\ audit.state = "Running" /\ ~cancelling
  /\ cancelled' = TRUE /\ cancelling' = TRUE /\ audit' = [audit EXCEPT !.state = "Idle"]
  /\ UNCHANGED <<world, runs, singleTest, task, progress, shown, pollers>>

CancelAudit ==
  /\ audit.state = "Running" /\ ~cancelling
  /\ cancelled' = TRUE /\ cancelling' = TRUE
  /\ UNCHANGED <<world, runs, singleTest, audit, task, progress, shown, pollers>>

Current == progress[audit.gen]
Tell(update) == progress' = [progress EXCEPT ![audit.gen] = update]
OfTask == UNCHANGED <<world, runs, singleTest, audit, shown, pollers, cancelled, cancelling>>

TaskFails == task' = [task EXCEPT !.at = "failed"]      \* no runtime for the task
TaskCancelled == task' = [task EXCEPT !.at = "cancelled"]

LoadEndpointsOnly ==                       \* mutant: a config that cannot be probed has no row
  /\ task.at = "load" /\ task.todo # <<>> /\ ~cancelled /\ OfTask
  /\ LET n == EndpointsOf(Head(task.todo))
     IN /\ task' = [task EXCEPT !.todo = Tail(@), !.jobs = @ + n]
        /\ Tell([Current EXCEPT !.processed = @ + 1, !.endpoints = @ + n])

LoadConfig ==
  /\ task.at = "load" /\ task.todo # <<>> /\ ~cancelled /\ OfTask
  /\ LET n == EndpointsOf(Head(task.todo))
     IN /\ task' = [task EXCEPT !.todo = Tail(@), !.jobs = @ + n,
                      !.rows = IF n = 0 THEN @ + 1 ELSE @]
        /\ Tell([Current EXCEPT !.processed = @ + 1, !.endpoints = @ + n])

LoadStopped ==
  /\ task.at = "load" /\ OfTask /\ UNCHANGED progress
  /\ \/ task.todo = saved /\ TaskFails
     \/ task.todo # <<>> /\ cancelled /\ TaskCancelled

LoadDone ==
  /\ task.at = "load" /\ task.todo = <<>> /\ OfTask
  /\ task' = [task EXCEPT !.at = "probe"]
  /\ Tell([Current EXCEPT !.phase = "ProbingEndpoints", !.endpoints = task.jobs])

(* buffer_unordered polls so many probes at a time; the first one that finds *)
(* the audit cancelled ends try_collect, and the others are dropped.         *)
StartProbe ==
  /\ task.at = "probe" /\ task.jobs > 0 /\ task.running < Concurrency /\ OfTask
  /\ IF cancelled
     THEN TaskCancelled /\ Tell([Current EXCEPT !.completed = @ + 1])
     ELSE /\ task' = [task EXCEPT !.jobs = @ - 1, !.running = @ + 1]
          /\ UNCHANGED progress

(* A probe that ends when the audit is cancelled may still give its row.     *)
ProbeEnds ==
  /\ task.at = "probe" /\ task.running > 0 /\ OfTask
  /\ Tell([Current EXCEPT !.completed = @ + 1])
  /\ \/ task' = [task EXCEPT !.running = @ - 1, !.rows = @ + 1]
     \/ cancelled /\ TaskCancelled

ProbesDone ==
  /\ task.at = "probe" /\ task.jobs = 0 /\ task.running = 0 /\ OfTask
  /\ task' = [task EXCEPT !.at = "sort"]
  /\ Tell([Current EXCEPT !.phase = "Finalizing"])

SortRows ==
  /\ task.at = "sort" /\ OfTask
  /\ task' = [task EXCEPT !.at = "done"]
  /\ Tell([Current EXCEPT !.phase = "Completed"])

AuditStep ==
  \/ LoadConfig \/ LoadStopped \/ LoadDone
  \/ StartProbe \/ ProbeEnds \/ ProbesDone \/ SortRows

AuditEndsQuietly ==                        \* mutant: the poller is left to show the end
  /\ task.at \in {"done", "failed", "cancelled"} /\ task' = NoTask
  /\ audit' = [audit EXCEPT !.rows = IF task.at = "done" THEN task.rows ELSE 0,
                 !.state = CASE task.at = "done"   -> "Ready"
                             [] task.at = "failed" -> "Failed"
                             [] OTHER              -> "Idle"]
  /\ cancelling' = FALSE
  /\ UNCHANGED <<world, runs, singleTest, progress, shown, pollers, cancelled>>

AuditEndsUncancelled ==                    \* mutant: a cancelled audit is left as it is
  /\ task.at \in {"done", "failed"} /\ task' = NoTask
  /\ audit' = [audit EXCEPT !.rows = IF task.at = "done" THEN task.rows ELSE 0,
                 !.state = IF task.at = "done" THEN "Ready" ELSE "Failed"]
  /\ shown' = Current /\ cancelling' = FALSE
  /\ UNCHANGED <<world, runs, singleTest, progress, pollers, cancelled>>

AuditEnds ==
  /\ task.at \in {"done", "failed", "cancelled"} /\ task' = NoTask
  /\ audit' = [audit EXCEPT !.rows = IF task.at = "done" THEN task.rows ELSE 0,
                 !.state = CASE task.at = "done"   -> "Ready"
                             [] task.at = "failed" -> "Failed"
                             [] OTHER              -> "Idle"]
  /\ shown' = IF task.at = "cancelled" THEN NoProgress ELSE Current
  /\ cancelling' = FALSE
  /\ UNCHANGED <<world, runs, singleTest, progress, pollers, cancelled>>

PollWhileRunning(gen) ==                   \* mutant: the generation is not compared
  /\ gen \in pollers
  /\ IF audit.state = "Running"
     THEN shown' = progress[gen] /\ UNCHANGED pollers
     ELSE pollers' = pollers \ {gen} /\ UNCHANGED shown
  /\ UNCHANGED <<world, runs, singleTest, audit, task, progress, cancelled, cancelling>>

(* spawn_audit_progress_poller.                                             *)
Poll(gen) ==
  /\ gen \in pollers
  /\ IF audit.state = "Running" /\ audit.gen = gen
     THEN shown' = progress[gen] /\ UNCHANGED pollers
     ELSE pollers' = pollers \ {gen} /\ UNCHANGED shown
  /\ UNCHANGED <<world, runs, singleTest, audit, task, progress, cancelled, cancelling>>

-----------------------------------------------------------------------------
Init ==
  /\ saved \in SavedConfigs /\ runs = 0
  /\ up \in SUBSET UNION {{a.host : a \in ToSet(s)} : s \in Answers}
  /\ single = [state |-> "Idle", verdict |-> "none", tried |-> <<>>, kept |-> <<>>,
               request |-> [tcp |-> FALSE, stop |-> TRUE, prefer |-> "v4"]]
  /\ probe = NoProbe
  /\ audit = [state |-> "Idle", gen |-> 0, rows |-> 0] /\ task = NoTask
  /\ progress = [g \in 1..MaxRuns |-> NoProgress] /\ shown = NoProgress
  /\ pollers = {} /\ cancelled = FALSE /\ cancelling = FALSE

TestStep == Resolve \/ Connect \/ TestEnds

Next ==
  \/ RunTest \/ TestStep
  \/ RunAudit \/ CancelAudit \/ AuditStep \/ AuditEnds
  \/ \E gen \in pollers : Poll(gen)

(* The executors run their tasks and every probe has a timeout.              *)
Fairness == WF_vars(TestStep) /\ WF_vars(AuditStep) /\ WF_vars(AuditEnds)

Spec == Init /\ [][Next]_vars /\ Fairness

-----------------------------------------------------------------------------
TypeOK ==
  /\ single.state \in JobStates
  /\ single.verdict \in {"none", "Resolved", "Reachable", "PartiallyReachable", "Failed"}
  /\ (probe # NoProbe) = (single.state = "Running")
  /\ audit.state \in JobStates /\ audit.gen \in 0..MaxRuns
  /\ (task # NoTask) = (audit.state = "Running")
  /\ progress \in [1..MaxRuns -> Progress \cup {NoProgress}]
  /\ shown \in Progress \cup {NoProgress}
  /\ pollers \subseteq 1..audit.gen /\ cancelled \in BOOLEAN /\ cancelling \in BOOLEAN

(* The verdict of a test is true of the network: it failed exactly when none *)
(* of the addresses that were to be tried accepts a connection, and it is    *)
(* full exactly when every one tried does.  The limit on addresses never     *)
(* leaves out one of the preferred family for one of the other.              *)
VerdictTrue ==
  (single.state = "Ready" /\ single.request.tcp) =>
     LET Hosts(s) == {a.host : a \in ToSet(s)}
     IN /\ (single.verdict = "Failed") = (Hosts(single.kept) \cap up = {})
        /\ (single.verdict = "Reachable") = (single.tried # <<>> /\ Hosts(single.tried) \subseteq up)
        /\ \A addrs \in Answers, p \in Preferences :
             LET kept == ToSet(OrderAddresses(addrs, p))
             IN (\E a \in ToSet(addrs) \ kept : a.family = p) => \A a \in kept : a.family = p

(* A report that is shown is of all the saved configs, a row each at least,  *)
(* with the progress at its end; while an audit runs the progress on the     *)
(* page is its own, whatever poller of an earlier one is still asleep; and   *)
(* "cancelling" is over when the audit is.                                  *)
AuditReports ==
  /\ audit.state = "Ready" =>
       /\ audit.rows = Issues + AllEndpoints
       /\ shown = [gen |-> audit.gen, phase |-> "Completed", processed |-> Len(saved),
                   endpoints |-> AllEndpoints, completed |-> AllEndpoints]
  /\ audit.state = "Running" => shown.gen = audit.gen
  /\ audit.state = "Idle" => shown = NoProgress
  /\ cancelling => audit.state = "Running"

(* Tests and audits end, those the user cancels included: no combination of  *)
(* answers leaves the page with its buttons refused for good:                *)
(* Unfinished ~> ~Unfinished.                                               *)
Unfinished == ~Free

=============================================================================
