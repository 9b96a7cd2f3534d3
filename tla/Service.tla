------------------------------- MODULE Service -------------------------------
(***************************************************************************)
(* The privileged service as its clients see it (src/src/backend/wg:         *)
(* ipc_client.rs, ipc_server.rs, linux_service/{client,server}.rs,           *)
(* windows_service_host.rs, windows_pipe.rs).  Every request is a            *)
(* connection of its own, a thread of the service reads it and hands it to   *)
(* the engine's channel, one worker serves the channel.  A Linux client      *)
(* waits 30 seconds for the reply and sends a stop after a start that did    *)
(* not come back; a Windows client waits for ever.  The service ends on      *)
(* SIGTERM or a service control, and a later one repairs and serves again.   *)
(*                                                                         *)
(* What a start and a stop do is module Engine; here they succeed or fail.   *)
(* systemd and the pipe's kernel object are external: connections not yet    *)
(* accepted outlive a socket-activated process and are reset with another.  *)
(***************************************************************************)
EXTENDS Naturals, Sequences, SequencesExt, FiniteSets

CONSTANTS Clients,
          ServicePlatforms,    \* of {"systemd", "linux", "windows"}: a socket
                               \* inherited from systemd, one bound by the service,
                               \* a named pipe
          ServiceFaults,       \* sets of {"crash", "slowThread", "version", "stop"}
          MaxExits             \* bound on the ends of the process

VARIABLES
  system,       \* [platform, faults] of this behaviour
  service,      \* "down", "repairing", "serving", "stopping", "leaving"
  exits,        \* ends of the process so far
  stopRequested,\* SERVICE_TERMINATE_REQUESTED, STOP_REQUESTED
  instance,     \* Windows: a pipe instance waits for a client
  backlog,      \* connections not accepted yet, oldest first
  threads,      \* requests read by a client thread, in the order accepted
  channel,      \* the engine's command channel
  working,      \* the command the worker executes, if any
  running,      \* client whose start the session in effect answers
  call,         \* the request each client waits for
  outcome       \* what each client was told in the end

serverVars == <<service, exits, stopRequested, instance>>
vars == <<system, serverVars, backlog, threads, channel, working, running, call, outcome>>

None == "none"
Service == "service"           \* the service's own main thread, the poke
Requests == [client: Clients, op: {"info", "start", "stop", "undo"}]
             \cup [client: {Service}, op: {"poke", "status", "stop"}]

Linux == system.platform # "windows"
Fault(f) == f \in system.faults
Request(c, op) == [client |-> c, op |-> op]
Waiting(r) == r.client \in Clients /\ call[r.client] = r.op

-----------------------------------------------------------------------------
(* Clients.                                                                 *)

Connect(c, op) ==
  /\ call' = [call EXCEPT ![c] = op]
  /\ backlog' = Append(backlog, Request(c, op))

(* start checks the protocol first; stop does not.                          *)
Call(c) ==
  /\ call[c] = "idle" /\ outcome[c] = None
  /\ \E op \in {"info", "stop"} : Connect(c, op)
  /\ UNCHANGED <<system, serverVars, threads, channel, working, running, outcome>>

End(c, result) ==
  call' = [call EXCEPT ![c] = "idle"] /\ outcome' = [outcome EXCEPT ![c] = result]

(* The reply to r, if its client still reads the connection.  Good news of   *)
(* the protocol sends the start; the reply to a compensating stop changes    *)
(* nothing, its start is reported as failed.                                *)
Reply(r, ok) ==
  IF ~Waiting(r) THEN UNCHANGED <<call, outcome, backlog>>
  ELSE IF r.op = "info" /\ ok THEN Connect(r.client, "start") /\ UNCHANGED outcome
  ELSE /\ End(r.client, IF ok /\ r.op # "undo" THEN "ok" ELSE "error")
       /\ UNCHANGED backlog

(* The connections of the requests in R are closed without a reply.          *)
Closed(R) ==
  LET hit == {c \in Clients : Request(c, call[c]) \in R}
  IN /\ call' = [c \in Clients |-> IF c \in hit THEN "idle" ELSE call[c]]
     /\ outcome' = [c \in Clients |-> IF c \in hit THEN "error" ELSE outcome[c]]

(* A Linux client stops reading.                                            *)
GiveUp(c) == End(c, "error") /\ UNCHANGED backlog
Undo(c) == Connect(c, "undo") /\ UNCHANGED outcome

TimeOut(c) ==
  /\ Linux /\ call[c] # "idle"
  /\ IF call[c] = "start" THEN Undo(c) ELSE GiveUp(c)
  /\ UNCHANGED <<system, serverVars, threads, channel, working, running>>

WaitForPipe(c) ==                                     \* mutant: no deadline
  /\ system.platform = "windows" /\ Request(c, call[c]) \in ToSet(backlog)
  /\ UNCHANGED vars

(* A connection that nobody has accepted is gone.                           *)
Withdraw(r) == \E k \in DOMAIN backlog : backlog[k] = r /\ backlog' = RemoveAt(backlog, k)

(* No pipe for five seconds; a Linux socket that nobody listens on.         *)
NoService(c) ==
  /\ \/ system.platform = "linux" /\ service = "down"
     \/ system.platform = "windows" /\ service # "serving"
  /\ Withdraw(Request(c, call[c]))
  /\ Closed({Request(c, call[c])})
  /\ UNCHANGED <<system, serverVars, threads, channel, working, running>>

-----------------------------------------------------------------------------
(* The service.                                                             *)

StartService ==
  /\ service = "down" /\ service' = "repairing"
  /\ UNCHANGED <<system, exits, stopRequested, instance, backlog, threads, channel,
                 working, running, call, outcome>>

(* A failing startup repair ends the process before it serves.              *)
Repair ==
  /\ service = "repairing"
  /\ \/ service' = "serving" /\ running' = None
     \/ service' = "down" /\ UNCHANGED running
  /\ UNCHANGED <<system, exits, stopRequested, instance, backlog, threads, channel,
                 working, call, outcome>>

(* SIGTERM sets a flag; the service control handler also connects to its own *)
(* pipe, because ConnectNamedPipe blocks.                                   *)
NoPoke == UNCHANGED backlog                                  \* mutant
PokeServer == backlog' = IF Linux THEN backlog ELSE Append(backlog, Request(Service, "poke"))

RequestStop ==
  /\ service = "serving" /\ ~stopRequested /\ exits < MaxExits
  /\ stopRequested' = TRUE /\ PokeServer
  /\ UNCHANGED <<system, service, exits, instance, threads, channel, working,
                 running, call, outcome>>

(* One turn of the accept loop.  Linux polls the flag every 200 ms; Windows  *)
(* looks at it before an instance is created and after a client came.       *)
CreateInstance ==
  /\ service = "serving" /\ ~Linux /\ ~instance /\ ~stopRequested
  /\ instance' = TRUE
  /\ UNCHANGED <<system, service, exits, stopRequested, backlog, threads, channel,
                 working, running, call, outcome>>

Accept ==
  /\ service = "serving" /\ ~stopRequested /\ backlog # <<>> /\ (Linux \/ instance)
  /\ \E k \in IF Linux THEN {1} ELSE DOMAIN backlog :
       threads' = Append(threads, backlog[k]) /\ backlog' = RemoveAt(backlog, k)
  /\ instance' = FALSE
  /\ UNCHANGED <<system, service, exits, stopRequested, channel, working, running,
                 call, outcome>>

(* The loop sees the request to stop: Linux at its next turn, Windows when a *)
(* client, or the poke, has come; that connection is dropped.  The session  *)
(* is stopped through the channel; Windows asks first if there is one.      *)
LeaveLoop ==
  /\ service = "serving" /\ stopRequested /\ service' = "stopping"
  /\ instance' = FALSE
  /\ IF Linux \/ ~instance THEN UNCHANGED <<backlog, call, outcome>>
     ELSE \E k \in DOMAIN backlog :
            backlog' = RemoveAt(backlog, k) /\ Closed({backlog[k]})
  /\ channel' = Append(channel, Request(Service, IF Linux THEN "stop" ELSE "status"))
  /\ UNCHANGED <<system, exits, stopRequested, threads, working, running>>

(* dispatch_request in a client thread: Info is answered at once.            *)
InTurn(k) == Fault("slowThread") \/ \A j \in 1..k-1 : threads[j].client # threads[k].client

Dispatch ==
  /\ \E k \in DOMAIN threads :
       /\ InTurn(k)
       /\ threads' = RemoveAt(threads, k)
       /\ IF threads[k].op = "info"
          THEN Reply(threads[k], ~Fault("version")) /\ UNCHANGED channel
          ELSE channel' = Append(channel, threads[k]) /\ UNCHANGED <<call, outcome, backlog>>
  /\ UNCHANGED <<system, serverVars, working, running>>

(* The worker: one command at a time, to its end.                           *)
Take ==
  /\ working = <<>> /\ channel # <<>>
  /\ working' = <<Head(channel)>> /\ channel' = Tail(channel)
  /\ UNCHANGED <<system, serverVars, backlog, threads, running, call, outcome>>

(* The main thread that ends the service gets its answer.                    *)
Answer(r, ok) ==
  IF r.client # Service THEN Reply(r, ok) /\ UNCHANGED <<service, channel>>
  ELSE /\ IF r.op = "status" /\ running # None
          THEN channel' = Append(channel, Request(Service, "stop")) /\ UNCHANGED service
          ELSE service' = "leaving" /\ UNCHANGED channel
       /\ UNCHANGED <<call, outcome, backlog>>

Execute ==
  /\ working # <<>> /\ working' = <<>>
  /\ \E ok \in BOOLEAN :
       /\ Answer(working[1], ok)
       /\ CASE working[1].op = "start" ->
                 /\ ok => running = None
                 /\ running' = IF ok THEN working[1].client ELSE running
            [] working[1].op \in {"stop", "undo"} ->
                 /\ ok => running # None
                 /\ ~ok => running = None \/ Fault("stop")
                 /\ running' = IF ok THEN None ELSE running
            [] OTHER -> ok /\ UNCHANGED running
  /\ UNCHANGED <<system, exits, stopRequested, instance, threads>>

(* The end of the process: what it had read is lost, its connections close.  *)
EndProcess ==
  /\ service' = "down" /\ exits' = exits + 1
  /\ stopRequested' = FALSE /\ instance' = FALSE
  /\ threads' = <<>> /\ channel' = <<>> /\ working' = <<>>
  /\ LET read == ToSet(threads) \cup ToSet(channel) \cup ToSet(working)
         poke == Request(Service, "poke")
     IN IF system.platform = "linux"
        THEN backlog' = <<>> /\ Closed(read \cup ToSet(backlog))
        ELSE /\ Withdraw(poke) \/ (poke \notin ToSet(backlog) /\ UNCHANGED backlog)
             /\ Closed(read)
  /\ UNCHANGED <<system, running>>

Leave == service = "leaving" /\ EndProcess
Crash == service # "down" /\ Fault("crash") /\ exits < MaxExits /\ EndProcess

Init ==
  /\ system \in [platform: ServicePlatforms, faults: ServiceFaults]
  /\ service = "down" /\ exits = 0 /\ stopRequested = FALSE /\ instance = FALSE
  /\ backlog = <<>> /\ threads = <<>> /\ channel = <<>> /\ working = <<>>
  /\ running = None
  /\ call = [c \in Clients |-> "idle"] /\ outcome = [c \in Clients |-> None]

Impatient == \E c \in Clients : TimeOut(c) \/ NoService(c)
Work == Repair \/ Dispatch \/ Take \/ Execute \/ Leave
Next == \/ Work \/ Accept \/ CreateInstance \/ LeaveLoop \/ Impatient
        \/ \E c \in Clients : Call(c)
        \/ StartService \/ RequestStop \/ Crash

GivesUp(c) == TimeOut(c) \/ NoService(c)
Spec == Init /\ [][Next]_vars
FairSpec == /\ Spec /\ WF_vars(Work) /\ WF_vars(Accept) /\ WF_vars(CreateInstance)
            /\ WF_vars(LeaveLoop) /\ \A c \in Clients : WF_vars(GivesUp(c))

-----------------------------------------------------------------------------
(* Properties.                                                              *)

TypeOK ==
  /\ system \in [platform: ServicePlatforms, faults: ServiceFaults]
  /\ service \in {"down", "repairing", "serving", "stopping", "leaving"}
  /\ exits \in 0..MaxExits /\ stopRequested \in BOOLEAN /\ instance \in BOOLEAN
  /\ {backlog, threads, channel, working} \subseteq Seq(Requests)
  /\ Len(working) <= 1 /\ running \in Clients \cup {None}
  /\ call \in [Clients -> {"idle", "info", "start", "stop", "undo"}]
  /\ outcome \in [Clients -> {None, "ok", "error"}]

Quiet ==
  /\ service = "serving" /\ ~stopRequested /\ working = <<>>
  /\ backlog = <<>> /\ threads = <<>> /\ channel = <<>>
  /\ \A c \in Clients : call[c] = "idle"

(* When everything has been answered, a tunnel in effect is one that its     *)
(* client was told of: a start that came too late for its client is ended by *)
(* the stop sent after it, whatever other clients and restarts come between. *)
NoUnreportedTunnel ==
  Quiet /\ system.faults \cap {"slowThread", "stop"} = {} /\ running # None
    => outcome[running] = "ok"

(* Every call comes back, and a service asked to stop ends, also when its    *)
(* thread is blocked waiting for a client: Calling(c) ~> ~Calling(c), and    *)
(* likewise ShuttingDown.                                                   *)
Calling(c) == call[c] # "idle"
ShuttingDown == stopRequested /\ service # "down"
=============================================================================
