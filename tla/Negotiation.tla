----------------------------- MODULE Negotiation -----------------------------
(***************************************************************************)
(* The upgrade of a tunnel to a post-quantum or DAITA session               *)
(* (src/src/backend/wg/ephemeral.rs): one ephemeral WireGuard key, up to     *)
(* four attempts to register it at the relay, each with KEM keys and a       *)
(* connection of its own and a longer time-out, the tunnel's MTU lowered     *)
(* meanwhile on Windows, and at last the new key and peer on the device.    *)
(*                                                                         *)
(* The relay is external: it serves the requests in the order they were      *)
(* sent, also one whose sender has timed out, and may lose or refuse any.   *)
(* A registration is known by the attempt it answers.                       *)
(***************************************************************************)
EXTENDS Integers, Sequences

CONSTANTS Platforms      \* of {"linux", "windows"}

VARIABLES
  negotiating,  \* where negotiate_tunnel_upgrade is
  platform,
  request,      \* the modes asked for
  attempt,      \* retry_attempt
  mtu,          \* of the tunnel adapter
  sent,         \* requests on their way to the relay
  answers,      \* answers on their way back
  registered,   \* attempt whose secret and settings the relay uses
  result,       \* of the upgrade
  device,       \* attempt whose secret and settings the device uses
  elapsed,      \* seconds since the service got the start request
  client        \* what the client that sent it knows

vars == <<negotiating, platform, request, attempt, mtu, sent, answers,
          registered, result, device, elapsed, client>>

Nobody == -1                  \* the peer of the configuration, no registration
Modes == [quantum: BOOLEAN, daita: BOOLEAN]
Answers == {"good", "refused", "noCiphertexts", "badCiphertexts", "noDaita"}
Results == {"none", "ok", "unsupported", "mtuAdjust", "connect", "rpc",
            "timeout", "invalidResponse", "mtuRestore", "reconfigure"}

RetryAttempts == 3            \* NEGOTIATION_RETRY_ATTEMPTS
ServiceIoTimeout == 30        \* SERVICE_IO_TIMEOUT of the Linux client

(* negotiation_timeout_for_attempt.                                         *)
Window(k) == LET w == 8 * 2^k IN IF w < 48 THEN w ELSE 48

-----------------------------------------------------------------------------
SkipRestore(r) ==                      \* mutant: `?` before the restore
  negotiating' = IF r # "ok" THEN "ended"
                 ELSE IF platform = "windows" THEN "restore" ELSE "apply"

(* Where an outcome leads: on Windows to the restoring of the MTU, elsewhere *)
(* to the device or the end.                                                *)
AfterNegotiation(r) ==
  negotiating' = IF platform = "windows" THEN "restore"
                 ELSE IF r = "ok" THEN "apply" ELSE "ended"

Conclude(r) == AfterNegotiation(r) /\ result' = r

(* No mode asked for: the configured peer, without the network.             *)
Begin ==
  /\ negotiating = "idle"
  /\ \/ /\ ~request.quantum /\ ~request.daita
        /\ negotiating' = "ended" /\ result' = "ok"
     \/ /\ request.quantum \/ request.daita
        /\ \/ negotiating' = "ended" /\ result' = "unsupported"
           \/ /\ negotiating' = IF platform = "windows" THEN "lower" ELSE "connect"
              /\ UNCHANGED result
  /\ UNCHANGED <<platform, request, attempt, mtu, sent, answers, registered,
                 device, elapsed, client>>

LowerMtu ==
  /\ negotiating = "lower"
  /\ \/ mtu' = "low" /\ negotiating' = "connect" /\ UNCHANGED result
     \/ negotiating' = "ended" /\ result' = "mtuAdjust" /\ UNCHANGED mtu
  /\ UNCHANGED <<platform, request, attempt, sent, answers, registered, device,
                 elapsed, client>>

(* connect_relay_config_client and the request with its fresh KEM keys.      *)
Connect ==
  /\ negotiating = "connect"
  /\ \/ negotiating' = "wait" /\ sent' = Append(sent, attempt) /\ UNCHANGED result
     \/ Conclude("connect") /\ UNCHANGED sent
  /\ UNCHANGED <<platform, request, attempt, mtu, answers, registered, device,
                 elapsed, client>>

(* The relay serves a request: it registers the ephemeral key with a new     *)
(* secret, or refuses; its answer may be incomplete.                        *)
Serve ==
  /\ sent # <<>>
  /\ sent' = Tail(sent)
  /\ \/ UNCHANGED <<answers, registered>>                           \* lost
     \/ /\ answers' = answers \cup {[attempt |-> Head(sent), kind |-> "refused"]}
        /\ UNCHANGED registered
     \/ /\ registered' = Head(sent)
        /\ \E k \in Answers \ {"refused"} :
             answers' = answers \cup {[attempt |-> Head(sent), kind |-> k]}
  /\ UNCHANGED <<negotiating, platform, request, attempt, mtu, result, device,
                 elapsed, client>>

(* What negotiate_ephemeral_peer_inner makes of an answer.                  *)
Parse(kind) ==
  CASE kind = "refused" -> "rpc"
    [] kind \in {"noCiphertexts", "badCiphertexts"} /\ request.quantum -> "invalidResponse"
    [] kind = "noDaita" /\ request.daita -> "invalidResponse"
    [] OTHER -> "ok"

AnyReadable == answers                 \* mutant: late answers are accepted

(* The connection read is the one of this attempt: a time-out drops it.      *)
Readable == {a \in answers : a.attempt = attempt}

Receive ==
  /\ negotiating = "wait"
  /\ \E a \in Readable, d \in {0, Window(attempt) - 1} :
       /\ Conclude(Parse(a.kind))
       /\ attempt' = a.attempt                \* the secret is the one answered
       /\ answers' = answers \ {a}
       /\ elapsed' = elapsed + d
  /\ UNCHANGED <<platform, request, mtu, sent, registered, device, client>>

RetryForever ==                        \* mutant: no last attempt
  /\ negotiating = "wait"
  /\ negotiating' = "connect"
  /\ UNCHANGED <<platform, request, attempt, mtu, sent, answers, registered,
                 result, device, elapsed, client>>

(* Only a time-out is retried, three times.                                 *)
TimeOut ==
  /\ negotiating \in {"connect", "wait"}
  /\ elapsed' = elapsed + Window(attempt)
  /\ IF attempt < RetryAttempts
     THEN attempt' = attempt + 1 /\ negotiating' = "connect" /\ UNCHANGED result
     ELSE Conclude("timeout") /\ UNCHANGED attempt
  /\ UNCHANGED <<platform, request, mtu, sent, answers, registered, device, client>>

(* Windows: restored whatever the outcome, which a failure replaces only if  *)
(* it was good.                                                             *)
RestoreMtu ==
  /\ negotiating = "restore"
  /\ \/ mtu' = "configured" /\ UNCHANGED result
     \/ UNCHANGED mtu /\ result' = IF result = "ok" THEN "mtuRestore" ELSE result
  /\ negotiating' = IF result' = "ok" THEN "apply" ELSE "ended"
  /\ UNCHANGED <<platform, request, attempt, sent, answers, registered, device,
                 elapsed, client>>

(* apply_gotatun_update: key and peers in one write of the device.          *)
ApplyUpdate ==
  /\ negotiating = "apply" /\ negotiating' = "ended"
  /\ \/ device' = attempt /\ UNCHANGED result
     \/ result' = "reconfigure" /\ UNCHANGED device
  /\ UNCHANGED <<platform, request, attempt, mtu, sent, answers, registered,
                 elapsed, client>>

(* The reply of the service: the Linux client waits for it only so long and  *)
(* then sends a stop; the Windows pipe has no time-out.                      *)
Tell ==
  /\ negotiating = "ended" /\ client = "waiting"
  /\ client' = IF platform = "linux" /\ elapsed >= ServiceIoTimeout
               THEN "gaveUp" ELSE "told"
  /\ UNCHANGED <<negotiating, platform, request, attempt, mtu, sent, answers,
                 registered, result, device, elapsed>>

Init ==
  /\ negotiating = "idle" /\ platform \in Platforms /\ request \in Modes
  /\ attempt = 0 /\ mtu = "configured"
  /\ sent = <<>> /\ answers = {} /\ registered = Nobody
  /\ result = "none" /\ device = Nobody /\ elapsed = 0 /\ client = "waiting"

Upgrade == Begin \/ LowerMtu \/ Connect \/ Receive \/ TimeOut \/ RestoreMtu
             \/ ApplyUpdate \/ Tell
Next == Upgrade \/ Serve
Spec == Init /\ [][Next]_vars
FairSpec == Spec /\ WF_vars(Upgrade)

-----------------------------------------------------------------------------
(* Properties.                                                              *)

TypeOK ==
  /\ negotiating \in {"idle", "lower", "connect", "wait", "restore", "apply", "ended"}
  /\ platform \in Platforms /\ request \in Modes /\ attempt \in 0..RetryAttempts
  /\ mtu \in {"configured", "low"} /\ result \in Results
  /\ sent \in Seq(0..RetryAttempts)
  /\ answers \subseteq [attempt: 0..RetryAttempts, kind: Answers]
  /\ {registered, device} \subseteq {Nobody} \cup 0..RetryAttempts
  /\ elapsed \in Nat /\ client \in {"waiting", "told", "gaveUp"}

(* After a successful upgrade both ends use the secret of the same           *)
(* registration, though earlier attempts may have been registered after      *)
(* they had timed out; the tunnel's MTU is what it was.  A failed one has    *)
(* not touched the device, and leaves the MTU low only if Windows refused    *)
(* to restore it, which is never reported as success.                       *)
BothEndsAgree ==
  negotiating = "ended" =>
    /\ result = "ok" => device = registered /\ mtu = "configured"
    /\ result # "ok" => device = Nobody

(* Every path that lowered the MTU goes through the attempt to restore it,   *)
(* also those that failed, and no step but a failing restore leaves it low.  *)
MtuRestored ==
  negotiating # "ended" /\ negotiating' = "ended" /\ mtu = "low" => negotiating = "restore"

(* CHANGELOG.md: a weak link gets time-outs of up to 48 seconds.  Then a     *)
(* start whose upgrade succeeds should be reported as started.              *)
WeakLinksServed == negotiating = "ended" /\ result = "ok" => client # "gaveUp"

(* The upgrade ends and its client is answered: Upgrading ~> ~Upgrading.      *)
Upgrading == client = "waiting"
=============================================================================
