--------------------------------- MODULE Ipc ---------------------------------
(***************************************************************************)
(* One call of the user interface to the privileged service               *)
(* (backend/wg/ipc.rs, ipc_client.rs, ipc_server.rs and the transports of  *)
(* both systems): a connection of its own for each of its commands, one    *)
(* frame each way, cut into pieces by the socket, with a limit, and the    *)
(* answer made of what came back.                                          *)
(*                                                                         *)
(* A frame is its length without the newline; the other connections of the *)
(* service and the work of the engine are in Service and Engine.           *)
(***************************************************************************)
EXTENDS Naturals, FiniteSets

CONSTANTS
    Transports,     \* "linux" for the socket, "windows" for the pipe
    MaxFrame,       \* MAX_IPC_FRAME_BYTES
    FrameLengths    \* lengths of the frames that are sent

VARIABLES
    setting,        \* the transport, the service's version, whether it lets the client in
    request,        \* the call: [op, at, answer]
    exchange,       \* the connection: [at, need, got, reply]
    executed,       \* history: what the engine answered, as <<command, result>>
    trouble         \* history: how exchanges failed

vars == <<setting, request, exchange, executed, trouble>>

Platform == setting.transport

(***************************************************************************)
(* Commands and their answers                                              *)
(***************************************************************************)
EngineErrors == {"ChannelClosed", "AlreadyRunning", "NotRunning", "AccessDenied",
                 "KernelWireGuard", "UnsupportedBackend", "Ephemeral"}
Local == EngineErrors \union {"Network", "InvalidConfig"}
Results == {"Ok"} \union Local

Unit == {"start", "stop", "log_clear"}
RelayOps == {"relay_inventory_status", "refresh_relay_inventory"}
Ops == Unit \union RelayOps \union {"status", "stats", "apply_report", "runtime_snapshot", "log_snapshot"}
\* what Engine::start and the others ask of the engine thread
CanAnswer(op) ==
    CASE op = "start" -> Results \ {"NotRunning"}
      [] op \in {"log_clear", "log_snapshot"} -> {"Ok"}
      [] OTHER -> {"Ok", "NotRunning", "ChannelClosed", "Network"}

\* the variant of BackendReply that answers the command
ReplyType(op) == IF op \in Unit THEN "Unit" ELSE IF op \in RelayOps THEN "Relay" ELSE op

\* a mutant: stop does not look at the version and neither does start
CheckedButStart(op) == op \notin {"start", "stop", "status", "stats"}
Checked(op) == op \notin {"stop", "status", "stats"}

\* what a command is answered with when nobody listens
Missing(op) ==
    CASE op \in {"start"} -> "Remote"
      [] op = "status" -> "Stopped"
      [] op \in {"stop", "stats"} -> "NotRunning"
      [] op \in {"apply_report", "runtime_snapshot"} ->
            IF Platform = "linux" THEN "NotRunning" ELSE "ChannelClosed"
      [] OTHER -> "ChannelClosed"

\* a mutant: the errors of the kernel link are not among the kinds
KindWithoutKernel(error) ==
    IF error \in EngineErrors \ {"KernelWireGuard"} THEN error ELSE "Other"
\* backend_error_kind
Kind(error) == IF error \in EngineErrors THEN error ELSE "Other"
\* map_backend_error
Mapped(kind) == IF kind = "Other" THEN "Remote" ELSE kind

\* error_reply, unit_reply and the rest: the reply frame's contents
Reply(op, result) ==
    IF result = "Ok" THEN [type |-> ReplyType(op), kind |-> "none"]
    ELSE [type |-> "Error", kind |-> Kind(result)]
InfoReply == [type |-> "Info", kind |-> "none"]
Denied == [type |-> "Error", kind |-> "AccessDenied"]
NoReply == [type |-> "none", kind |-> "none"]

\* how the transport classifies a failed connect, write or read; a closed pipe is none of these
Failures == IF Platform = "linux" THEN {"missing", "denied", "timeout", "other"}
            ELSE {"missing", "denied", "other"}
\* map_transport_error
Failed(op, failure) ==
    CASE failure = "denied" -> "AccessDenied"
      [] failure = "missing" -> Missing(op)
      [] OTHER -> "Remote"
InfoFailed(failure) ==
    IF failure = "missing" THEN "ChannelClosed" ELSE Failed("info", failure)

(***************************************************************************)
(* The steps of a call                                                     *)
(***************************************************************************)
Closed == [at |-> "closed", need |-> 0, got |-> 0, reply |-> NoReply]
Idle == [op |-> "none", at |-> "idle", answer |-> "none"]
Command == CASE request.at = "info" -> "info"
             [] request.at = "cleanup" -> "stop"
             [] OTHER -> request.op
Answer(a) == request' = [request EXCEPT !.at = "answered", !.answer = a]

Begin(op) ==
    /\ request.at = "idle"
    /\ request' = [op |-> op, at |-> IF Checked(op) THEN "info" ELSE "command", answer |-> "none"]
    /\ UNCHANGED <<setting, exchange, executed, trouble>>

\* a mutant: a start that timed out is left alone
FailGivesUp(failure) ==
    /\ exchange' = Closed
    /\ trouble' = trouble \union {<<Command, failure>>}
    /\ Answer(IF request.at = "info" THEN InfoFailed(failure) ELSE Failed(request.op, failure))
\* a mutant: the connection of a failed exchange stays open
FailKeepsOpen(failure) ==
    /\ UNCHANGED exchange
    /\ trouble' = trouble \union {<<Command, failure>>}
    /\ Answer(IF request.at = "info" THEN InfoFailed(failure) ELSE Failed(request.op, failure))
\* ipc_client: what the caller makes of a failed exchange
Fail(failure) ==
    /\ exchange' = Closed
    /\ trouble' = trouble \union {<<Command, failure>>}
    /\ CASE request.at = "cleanup" -> Answer("Remote")
         [] request.at = "info" -> Answer(InfoFailed(failure))
         [] request.at = "command" /\ request.op = "start" /\ failure = "timeout" ->
              request' = [request EXCEPT !.at = "cleanup"]
         [] OTHER -> Answer(Failed(request.op, failure))

\* a mutant: the version that Info tells is not looked at
ReceiveUnversioned(reply) ==
    /\ exchange' = Closed
    /\ \/ request.at = "cleanup" /\ Answer("Remote")
       \/ request.at # "cleanup" /\ reply.type = "Error" /\ Answer(Mapped(reply.kind))
       \/ request.at = "info" /\ reply.type # "Error" /\ request' = [request EXCEPT !.at = "command"]
       \/ request.at = "command" /\ reply.type # "Error" /\ Answer("Ok")
\* and of a reply
Receive(reply) ==
    /\ exchange' = Closed
    /\ \/ request.at = "cleanup" /\ Answer("Remote")
       \/ request.at # "cleanup" /\ reply.type = "Error" /\ Answer(Mapped(reply.kind))
       \/ /\ request.at = "info" /\ reply.type # "Error" /\ setting.version = "same"
          /\ request' = [request EXCEPT !.at = "command"]
       \/ /\ request.at = "info" /\ reply.type # "Error" /\ setting.version # "same"
          /\ Answer("VersionMismatch")
       \/ /\ request.at = "command" /\ reply.type # "Error"
          /\ Answer(IF reply.type = ReplyType(request.op) THEN "Ok" ELSE "Remote")

\* send_command_raw: connect, then write_command_json_line
Connect(size) ==
    /\ request.at \in {"info", "command", "cleanup"}
    /\ exchange.at = "closed"
    /\ Command # "start" => size <= MaxFrame - 1
    /\ exchange' = [Closed EXCEPT !.at = "request", !.need = size + 1]
    /\ UNCHANGED <<setting, request, executed, trouble>>

ConnectFails(failure) ==
    /\ request.at \in {"info", "command", "cleanup"}
    /\ exchange.at = "closed"
    /\ Fail(failure)
    /\ UNCHANGED <<setting, executed>>

\* a mutant: what is already read does not count
TooLongPiece(count) == count > MaxFrame
\* read_bounded_line
TooLong(count) == exchange.got + count > MaxFrame

\* a frame is complete with its newline, or without it when the writer closes
Arrived == exchange.got = exchange.need

\* the socket of a peer that closed gives a reset or its end; a pipe is broken
ClosedByPeer == {"missing", "other"} \intersect Failures

\* handle_service_client, handle_pipe_client: the next piece of the request
ServerReads(count) ==
    /\ exchange.at = "request" /\ count \in 1..(exchange.need - exchange.got)
    /\ setting.admitted
    /\ ~TooLong(count)
    /\ exchange' = [exchange EXCEPT !.got = @ + count]
    /\ UNCHANGED <<setting, request, executed, trouble>>

\* the request is refused, cannot be read in time, or the thread is not there: the connection ends
ServerDrops ==
    /\ exchange.at = "request" /\ ~Arrived
    /\ \E failure \in ClosedByPeer : Fail(failure)
    /\ UNCHANGED <<setting, executed>>

\* the owner and the group of the peer are looked at before its request
ServerDenies(size) ==
    /\ exchange.at = "request" /\ ~setting.admitted
    /\ exchange' = [at |-> "reply", need |-> size + 1, got |-> 0, reply |-> Denied]
    /\ UNCHANGED <<setting, request, executed, trouble>>

\* dispatch_request; another version may not know the command, and then drops it
Serve(result, size) ==
    /\ exchange.at = "request" /\ Arrived /\ setting.admitted
    /\ IF Command = "info"
       THEN /\ result = "Ok"
            /\ exchange' = [at |-> "reply", need |-> size + 1, got |-> 0, reply |-> InfoReply]
            /\ UNCHANGED executed
       ELSE /\ result \in CanAnswer(Command)
            /\ executed' = executed \union {<<Command, result>>}
            /\ exchange' = [at |-> "reply", need |-> size + 1, got |-> 0,
                            reply |-> Reply(Command, result)]
    /\ UNCHANGED <<setting, request, trouble>>

UnknownCommand ==
    /\ exchange.at = "request" /\ Arrived /\ setting.version = "other"
    /\ \E failure \in ClosedByPeer : Fail(failure)
    /\ UNCHANGED <<setting, executed>>

\* read_json_line of the client
ClientReads(count) ==
    /\ exchange.at = "reply" /\ count \in 1..(exchange.need - exchange.got)
    /\ IF TooLong(count) THEN Fail("other")
       ELSE /\ exchange' = [exchange EXCEPT !.got = @ + count]
            /\ UNCHANGED <<request, trouble>>
    /\ UNCHANGED <<setting, executed>>

ClientTakes ==
    /\ exchange.at = "reply" /\ Arrived
    /\ Receive(exchange.reply)
    /\ UNCHANGED <<setting, executed, trouble>>

\* the service ends while the client reads: all but the newline is a frame as well
ServiceDies ==
    /\ exchange.at \in {"request", "reply"} /\ ~Arrived
    /\ \/ exchange.at = "reply" /\ exchange.got = exchange.need - 1
          /\ Receive(exchange.reply) /\ UNCHANGED trouble
       \/ (exchange.at = "request" \/ exchange.got < exchange.need - 1)
          /\ \E failure \in ClosedByPeer : Fail(failure)
    /\ UNCHANGED <<setting, executed>>

\* SERVICE_IO_TIMEOUT; the pipe has none
TimeOut ==
    /\ "timeout" \in Failures
    /\ exchange.at \in {"request", "reply"}
    /\ Fail("timeout")
    /\ UNCHANGED <<setting, executed>>

\* the next call
Done ==
    /\ request.at = "answered"
    /\ request' = Idle /\ executed' = {} /\ trouble' = {}
    /\ UNCHANGED <<setting, exchange>>

Init ==
    /\ setting \in [transport : Transports, version : {"same", "other"}, admitted : BOOLEAN]
    /\ setting.transport = "windows" => setting.admitted
    /\ request = Idle
    /\ exchange = Closed
    /\ executed = {} /\ trouble = {}

Next ==
    \/ \E op \in Ops : Begin(op)
    \/ \E size \in FrameLengths : Connect(size) \/ ServerDenies(size)
    \/ \E failure \in Failures : ConnectFails(failure)
    \/ \E count \in 1..(MaxFrame + 1) : ServerReads(count) \/ ClientReads(count)
    \/ \E result \in Results, size \in FrameLengths : Serve(result, size)
    \/ ServerDrops \/ UnknownCommand \/ ClientTakes \/ ServiceDies \/ TimeOut \/ Done

Spec == Init /\ [][Next]_vars

----------------------------------------------------------------------------
(***************************************************************************)
(* Properties                                                              *)
(***************************************************************************)
TypeOK ==
    /\ request.at \in {"idle", "info", "command", "cleanup", "answered"}
    /\ exchange.at \in {"closed", "request", "reply"}
    /\ exchange.got <= exchange.need
    /\ executed \subseteq (Ops \X Results)
    /\ request.at \in {"idle", "answered"} => exchange = Closed

Answered(op) == request.at = "answered" /\ request.op = op
TroubleWith(command, kinds) == \E k \in kinds : <<command, k>> \in trouble
(* A success is told only of a command the engine has carried out, a start *)
(* only by a service of the client's version; an error is told as the      *)
(* engine named it, and what the client says on its own has a failed       *)
(* exchange, a refusal or another version behind it.                       *)
AnswersTrue ==
    \A op \in Ops : Answered(op) =>
        LET told == request.answer
            lost == TroubleWith("info", Failures) \/ TroubleWith(op, Failures)
            refused == ~setting.admitted
            other == Checked(op) /\ setting.version = "other"
        IN  /\ told = "Ok" => <<op, "Ok">> \in executed /\ (op = "start" => setting.version = "same")
            /\ told = "VersionMismatch" => other /\ executed = {}
            /\ told \in EngineErrors \ {"AccessDenied"} =>
                  <<op, told>> \in executed \/ TroubleWith(op, {"missing"}) \/ TroubleWith("info", {"missing"})
            /\ told = "AccessDenied" =>
                  <<op, told>> \in executed \/ refused \/ TroubleWith(op, {"denied"}) \/ TroubleWith("info", {"denied"})
            /\ ~lost /\ ~refused /\ ~other =>
                  \/ <<op, told>> \in executed
                  \/ told = "Remote" /\ \E e \in Local \ EngineErrors : <<op, e>> \in executed
            /\ told = "Stopped" => op = "status" /\ TroubleWith(op, {"missing"})

(* Nothing is carried out for a request that was too long, whatever pieces *)
(* it came in, nor for a client that is not let in.                        *)
FramesBounded ==
    /\ exchange.got <= MaxFrame
    /\ ~setting.admitted => executed = {}

(* A start whose answer did not come in time is taken back with a stop     *)
(* before the caller hears of it.                                          *)
TimedOutStartUndone ==
    Answered("start")' /\ ~Answered("start") /\ <<"start", "timeout">> \in trouble' =>
      (\E r \in Results : <<"stop", r>> \in executed')
         \/ TroubleWith("stop", Failures)' \/ ~setting.admitted
=============================================================================
