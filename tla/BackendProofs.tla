---------------------------- MODULE BackendProofs ----------------------------
(***************************************************************************)
(* Proofs about the privileged service: the upgrade of a tunnel to a        *)
(* post-quantum session (Negotiation), the firewall rules (Firewall), the    *)
(* DNS backends (Dns), the service as its clients see it (Service), its      *)
(* installation (Installation) and the exchange of frames with it (Ipc), and *)
(* what they come to together (Backend).                                    *)
(***************************************************************************)
EXTENDS WindowsNetProofs, FiniteSetTheorems, SequenceTheorems

(* The variables of Backend by the names its machines have for them.         *)
negotiating == v1
platform == v2
request == v3
attempt == v4
mtu == v5
sent == v6
answers == v7
registered == v8
result == v9
device == v10
elapsed == v11
client == v12
system == v1
service == v2
exits == v3
stopRequested == v4
instance == v5
backlog == v6
threads == v7
channel == v8
working == v9
running == v10
call == v11
outcome == v12
setup == v1
steps == v2
manager == v3
told == v4
binary == v5
units == v6
owner == v7
listening == v8
process == v9
tunnel == v10
setting == v1
exchange == v2
executed == v4
trouble == v5
at == v3
table == v4
chain == v5
jump == v6
order == v3
tried == v4
profile == v5
active == v6
announced == v7
file == v8
link == v9
entry == v10
todo == v11
touched == v12
tries == v13
again == v14
state == v15

USE DEF negotiating, platform, request, attempt, mtu, sent, answers, registered, result,
        device, elapsed, client, system, service, exits, stopRequested, instance, backlog,
        threads, channel, working, running, call, outcome, setup, steps, manager, told,
        binary, units, owner, listening, process, tunnel, setting, exchange, executed,
        trouble, pc, at, table, chain, jump, held, journal, order, tried, profile, active,
        announced, file, link, entry, todo, touched, tries, again, state, faults, plan, done,
        adapter, memory, inEffect

-----------------------------------------------------------------------------
(* The upgrade of a tunnel.                                                 *)

(* The variables' types, but for the time spent.                            *)
UpgradeTypes ==
  /\ negotiating \in {"idle", "lower", "connect", "wait", "restore", "apply", "ended"}
  /\ request \in NG!Modes /\ attempt \in 0..NG!RetryAttempts
  /\ mtu \in {"configured", "low"} /\ result \in NG!Results
  /\ sent \in Seq(0..NG!RetryAttempts)
  /\ answers \subseteq [attempt: 0..NG!RetryAttempts, kind: NG!Answers]
  /\ {registered, device} \subseteq {NG!Nobody} \cup 0..NG!RetryAttempts

(* Requests go out one after the other, none of them after this attempt's.   *)
Before(n) ==
  /\ \A i \in DOMAIN sent : sent[i] < n
  /\ \A a \in answers : a.attempt < n
  /\ registered < n
SentInTurn ==
  /\ \A i, j \in DOMAIN sent : i < j => sent[i] < sent[j]
  /\ negotiating \in {"idle", "lower", "connect"} => Before(attempt)
  /\ Before(attempt + 1)

(* What answers a request was registered for it, unless it was refused, and  *)
(* is the last registration when nothing is on its way any more.             *)
Answered ==
  \A a \in answers :
    /\ \A i \in DOMAIN sent : a.attempt < sent[i]
    /\ a.kind # "refused" /\ a.attempt = attempt => registered = attempt

(* After an answer nothing is on its way, and nobody registers any more.      *)
Settled == sent = <<>> /\ (result = "ok" => registered = attempt)

UpgradeProgress ==
  /\ negotiating \in {"idle", "lower", "connect", "wait"} => result = "none"
  /\ negotiating \in {"restore", "apply"} /\ result = "ok" => Settled
  /\ negotiating = "apply" => result = "ok" /\ mtu = "configured"
  /\ negotiating # "ended" => device = NG!Nobody
  /\ negotiating = "lower" => platform = "windows"
  /\ negotiating = "idle" => sent = <<>> /\ registered = NG!Nobody
  /\ negotiating = "ended" /\ result = "ok" =>
       sent = <<>> /\ device = registered /\ mtu = "configured"
  /\ negotiating = "ended" /\ result # "ok" => device = NG!Nobody
  /\ mtu = "low" => /\ platform = "windows"
                    /\ negotiating \in {"connect", "wait", "restore", "ended"}

UpgradeInv == UpgradeTypes /\ SentInTurn /\ Answered /\ UpgradeProgress

LEMMA UpgradeInitially == NG!Init => UpgradeInv
BY DEF NG!Init, UpgradeInv, UpgradeTypes, SentInTurn, Before, Answered, UpgradeProgress, NG!Nobody,
       NG!Results, NG!Modes, NG!RetryAttempts

LEMMA UpgradeStep == UpgradeInv /\ [NG!Next]_(NG!vars) => UpgradeInv'
<1>. SUFFICES ASSUME UpgradeInv, [NG!Next]_(NG!vars) PROVE UpgradeInv'
  OBVIOUS
<1>. USE DEF UpgradeInv, UpgradeTypes, NG!RetryAttempts
<1>1. CASE UNCHANGED NG!vars
  BY <1>1 DEF NG!vars, SentInTurn, Before, Answered, UpgradeProgress, Settled
<1>2. CASE NG!Begin
  BY <1>2 DEF NG!Begin, SentInTurn, Before, Answered, UpgradeProgress, Settled, NG!Nobody,
              NG!Results
<1>3. CASE NG!LowerMtu
  BY <1>3 DEF NG!LowerMtu, SentInTurn, Before, Answered, UpgradeProgress, Settled, NG!Nobody,
              NG!Results
<1>4. CASE NG!Connect
  <2>1. CASE NG!Conclude("connect") /\ UNCHANGED sent
    BY <1>4, <2>1
      DEF NG!Connect, NG!Conclude, NG!AfterNegotiation, SentInTurn, Before, Answered,
          UpgradeProgress, Settled, NG!Nobody, NG!Results
  <2>2. CASE negotiating' = "wait" /\ sent' = Append(sent, attempt) /\ UNCHANGED result
    <3>1. /\ sent' \in Seq(0..3) /\ Len(sent') = Len(sent) + 1 /\ sent'[Len(sent) + 1] = attempt
          /\ \A i \in DOMAIN sent : sent'[i] = sent[i]
      BY <2>2
    <3>2. UpgradeTypes' /\ UpgradeProgress'
      BY <1>4, <2>2, <3>1 DEF NG!Connect, UpgradeProgress, Settled
    <3>3. Before(attempt) /\ negotiating = "connect"
      BY <1>4 DEF NG!Connect, SentInTurn
    <3>4. UNCHANGED <<attempt, answers, registered>>
      BY <1>4 DEF NG!Connect
    <3>5. SentInTurn'
      BY <2>2, <3>1, <3>3, <3>4 DEF SentInTurn, Before, NG!Nobody
    <3>6. Answered'
      BY <2>2, <3>1, <3>3, <3>4 DEF Answered, Before
    <3>. QED
      BY <3>2, <3>5, <3>6
  <2>. QED
    BY <1>4, <2>1, <2>2 DEF NG!Connect
<1>5. CASE NG!Serve
  <2>1. /\ sent # <<>> /\ sent' = Tail(sent) /\ Head(sent) = sent[1] /\ Head(sent) \in 0..3
        /\ sent' \in Seq(0..3) /\ Len(sent') = Len(sent) - 1
        /\ \A i \in DOMAIN sent' : i + 1 \in DOMAIN sent /\ sent'[i] = sent[i + 1]
    BY <1>5 DEF NG!Serve
  <2>2. UNCHANGED <<negotiating, platform, request, attempt, mtu, result, device>>
    BY <1>5 DEF NG!Serve
  <2>3. /\ answers \subseteq answers'
        /\ \A a \in answers' \ answers :
             a.attempt = Head(sent) /\ (a.kind # "refused" => registered' = Head(sent))
        /\ registered' \in {registered, Head(sent)}
        /\ answers' \subseteq [attempt: 0..3, kind: NG!Answers]
    BY <1>5, <2>1 DEF NG!Serve, NG!Answers
  <2>4. UpgradeTypes'
    BY <2>1, <2>2, <2>3
  <2>5. SentInTurn'
    BY <2>1, <2>2, <2>3 DEF SentInTurn, Before
  <2>6. Answered'
    <3>1. \A i \in DOMAIN sent' : Head(sent) < sent'[i]
      BY <2>1 DEF SentInTurn
    <3>2. \A a \in answers : \A i \in DOMAIN sent' : a.attempt < sent'[i]
      BY <2>1 DEF Answered
    <3>3. \A a \in answers : a.attempt < Head(sent)
      BY <2>1 DEF Answered
    <3>4. Head(sent) <= attempt
      BY <2>1 DEF SentInTurn, Before
    <3>5. ASSUME NEW a \in answers', a.kind # "refused", a.attempt = attempt
          PROVE  registered' = attempt
      <4>1. a \notin answers
        <5>1. ASSUME a \in answers PROVE FALSE
          <6>1. a.attempt < Head(sent) /\ a.attempt \in 0..3
            BY <3>3, <5>1
          <6>. QED
            BY <2>1, <3>4, <3>5, <6>1
        <5>. QED
          BY <5>1
      <4>. QED
        BY <2>3, <3>5, <4>1
    <3>. QED
      BY <2>2, <2>3, <3>1, <3>2, <3>5 DEF Answered
  <2>7. UpgradeProgress'
    BY <2>1, <2>2, <2>3 DEF UpgradeProgress, Settled
  <2>. QED
    BY <2>4, <2>5, <2>6, <2>7
<1>6. CASE NG!Receive
  <2>. PICK a \in NG!Readable, d \in {0, NG!Window(attempt) - 1} :
            /\ NG!Conclude(NG!Parse(a.kind)) /\ attempt' = a.attempt /\ answers' = answers \ {a}
    BY <1>6 DEF NG!Receive
  <2>1. a \in answers /\ a.attempt = attempt /\ attempt' = attempt
    BY DEF NG!Readable
  <2>2. sent = <<>>
    <3>1. \A i \in DOMAIN sent : attempt < sent[i] /\ sent[i] < attempt + 1
      BY <2>1 DEF Answered, SentInTurn, Before
    <3>2. DOMAIN sent = {}
      BY <3>1
    <3>. QED
      BY <3>2
  <2>3. result' = NG!Parse(a.kind) /\ result' \in NG!Results
        /\ (result' = "ok" => registered = attempt)
    BY <2>1 DEF NG!Conclude, NG!Parse, NG!Results, Answered
  <2>4. UNCHANGED <<request, mtu, sent, registered, device, platform>> /\ negotiating = "wait"
    BY <1>6 DEF NG!Receive
  <2>5. /\ negotiating' \in {"restore", "apply", "ended"}
        /\ negotiating' = "restore" <=> platform = "windows"
        /\ negotiating' = "apply" => result' = "ok"
        /\ negotiating' = "ended" => result' # "ok"
    BY DEF NG!Conclude, NG!AfterNegotiation
  <2>6. UpgradeTypes' /\ SentInTurn' /\ Answered'
    BY <2>1, <2>3, <2>4, <2>5 DEF SentInTurn, Before, Answered
  <2>7. UpgradeProgress'
    BY <2>1, <2>2, <2>3, <2>4, <2>5 DEF UpgradeProgress, Settled
  <2>. QED
    BY <2>6, <2>7
<1>7. CASE NG!TimeOut
  <2>1. CASE attempt < NG!RetryAttempts
    BY <1>7, <2>1 DEF NG!TimeOut, SentInTurn, Before, Answered, UpgradeProgress, Settled, NG!Nobody
  <2>2. CASE ~(attempt < NG!RetryAttempts)
    BY <1>7, <2>2
      DEF NG!TimeOut, NG!Conclude, NG!AfterNegotiation, SentInTurn, Before, Answered,
          UpgradeProgress, Settled, NG!Nobody, NG!Results
  <2>. QED
    BY <2>1, <2>2
<1>8. CASE NG!RestoreMtu
  BY <1>8
    DEF NG!RestoreMtu, SentInTurn, Before, Answered, UpgradeProgress, Settled, NG!Results
<1>9. CASE NG!ApplyUpdate
  BY <1>9
    DEF NG!ApplyUpdate, SentInTurn, Before, Answered, UpgradeProgress, Settled, NG!Results
<1>10. CASE NG!Tell
  BY <1>10 DEF NG!Tell, SentInTurn, Before, Answered, UpgradeProgress, Settled
<1>. QED
  BY <1>1, <1>2, <1>3, <1>4, <1>5, <1>6, <1>7, <1>8, <1>9, <1>10 DEF NG!Next, NG!Upgrade

LEMMA UpgradeInvariant == NG!Spec => []UpgradeInv
BY UpgradeInitially, UpgradeStep, PTL DEF NG!Spec

LEMMA EndsAgree == ASSUME UpgradeInv PROVE NG!BothEndsAgree
BY DEF UpgradeInv, UpgradeProgress, NG!BothEndsAgree

(* After a successful upgrade the device and the relay use the secret of the  *)
(* same registration, however many attempts timed out before and whatever    *)
(* the relay made of them; a failed one has not touched the device.           *)
THEOREM BothEndsAlwaysAgree == NG!Spec => []NG!BothEndsAgree
<1>1. UpgradeInv => NG!BothEndsAgree
  BY EndsAgree
<1>. QED
  BY <1>1, UpgradeInvariant, PTL

LEMMA MtuRestoring == ASSUME UpgradeInv, [NG!Next]_(NG!vars) PROVE NG!MtuRestored
<1>. SUFFICES ASSUME negotiating # "ended", negotiating' = "ended", mtu = "low"
              PROVE  negotiating = "restore"
  BY DEF NG!MtuRestored
<1>1. platform = "windows" /\ negotiating \in {"connect", "wait", "restore"}
  BY DEF UpgradeInv, UpgradeProgress
<1>. QED
  BY <1>1
    DEF NG!Next, NG!Upgrade, NG!Begin, NG!LowerMtu, NG!Connect, NG!Serve, NG!Receive, NG!TimeOut,
        NG!RestoreMtu, NG!ApplyUpdate, NG!Tell, NG!Conclude, NG!AfterNegotiation, NG!vars

(* An upgrade that lowered the tunnel's MTU ends only behind the attempt to   *)
(* restore it.                                                              *)
THEOREM MtuAlwaysRestored == NG!Spec => [][NG!MtuRestored]_(NG!vars)
<1>1. UpgradeInv /\ [NG!Next]_(NG!vars) => NG!MtuRestored
  BY MtuRestoring
<1>. QED
  BY <1>1, UpgradeInvariant, PTL DEF NG!Spec

-----------------------------------------------------------------------------
(* The firewall rules.                                                      *)

(* Rules are asked for in one address family at least.                       *)
SettingsSound ==
  \A s \in FirewallSettings :
    /\ s.what \in {"kill", "guard"}
    /\ s.families \subseteq {"v4", "v6"} /\ s.families # {}

(* The programs a call needs, and what their chains hold when they are done. *)
Uses(t) ==
  IF t = "iptables" THEN "v4" \in setting.families \/ setting.what = "guard"
                    ELSE "v6" \in setting.families
Filled(t, n) ==
  Len(chain[t]) = n /\ \A k \in 1..n : chain[t][k] = FW!Commands(t)[k + 1]
Full(t) == Filled(t, Len(FW!Commands(t)) - 2)
Empty(t) == chain[t] = FW!NoChain /\ ~jump[t]

Rules == {"none", "returnLo", "returnTun", "returnMarked", "returnConfig", "rejectTun", "reject"}
FirewallTypes ==
  /\ setting \in FirewallSettings
  /\ at \in [program : FW!Tables \cup {"none"}, done : 0..6]
  /\ table \in BOOLEAN /\ jump \in [FW!Tables -> BOOLEAN]
  /\ chain \in [FW!Tables -> Seq(Rules)]
  /\ held \in FW!Backends /\ journal \in FW!Backends

(* OUTPUT jumps to complete chains only, of programs that exist.             *)
JumpsFull ==
  \A t \in FW!Tables :
    /\ jump[t] => Uses(t) /\ Full(t)
    /\ jump[t] \/ chain[t] # FW!NoChain => t \in setting.programs

(* The chain that is being built is not jumped to yet.                       *)
FirstProgram == IF Uses("iptables") THEN "iptables" ELSE "ip6tables"
Building ==
  /\ pc \in {"nftClear", "nftLoad", "nftUndo"} => at = [program |-> FirstProgram, done |-> 0]
  /\ pc \in {"clear", "build", "undo"} =>
       at.program \in FW!Tables \cap setting.programs /\ Uses(at.program)
  /\ pc = "clear" => at.done = 0
  /\ pc = "build" => at.done < Len(FW!Commands(at.program))
  /\ pc = "build" /\ at.done > 0 => ~jump[at.program] /\ Filled(at.program, at.done - 1)
  /\ pc \in {"clear", "build"} /\ at.program = "ip6tables" =>
       (Uses("iptables") => jump["iptables"])

(* What is reported, or about to be, is in effect.                          *)
Reported ==
  pc \in {"installed", "on"} =>
    /\ held \in {"nft", "iptables"}
    /\ held = "nft" => table
    /\ held = "iptables" => \A t \in FW!Tables : Uses(t) => jump[t]

(* What there may be besides what is being built, when removing works.       *)
OnlyOf(backend) ==
  /\ backend # "nft" => ~table
  /\ \A t \in FW!Tables : backend # "iptables" \/ ~Uses(t) => Empty(t)
CleanSteps == {"idle", "nftClear", "nftLoad", "nftUndo", "failed"}
Tidy ==
  setting.faults \cap {"undo", "journal"} = {} =>
    /\ pc \in CleanSteps => OnlyOf("none")
    /\ pc \in {"clear", "build", "undo", "undoFirst"} => OnlyOf("iptables")
    /\ pc \in {"clear", "build", "undo"} /\ at.program = "iptables" => Empty("ip6tables")
    /\ pc = "undoFirst" => Empty("ip6tables")
    /\ pc \in {"installed", "on", "remove", "guardUndo"} => held # "none" /\ OnlyOf(held)
    /\ pc \in {"on", "remove"} => journal = IF setting.what = "guard" THEN held ELSE "none"
    /\ pc \notin {"on", "remove", "down"} => journal = "none"
    /\ pc = "down" /\ journal # "none" => OnlyOf(journal)

FirewallInv ==
  SettingsSound /\ FirewallTypes /\ JumpsFull /\ Building /\ Reported /\ Tidy

LEMMA CommandsKnown ==
  ASSUME NEW t \in FW!Tables
  PROVE  /\ setting.what = "kill" =>
              FW!Commands(t) = <<"new", "returnLo", "returnTun", "returnMarked", "reject", "jump">>
         /\ setting.what # "kill" /\ t = "iptables" =>
              FW!Commands(t) = <<"new", "returnConfig", "rejectTun", "jump">>
         /\ setting.what # "kill" /\ t # "iptables" =>
              FW!Commands(t) = <<"new", "rejectTun", "jump">>
BY DEF FW!Commands

(* A chain is made first and jumped to last.                                *)
LEMMA CommandsInTurn ==
  ASSUME NEW t \in FW!Tables
  PROVE  LET cs == FW!Commands(t)
         IN /\ Len(cs) \in 3..6 /\ cs[1] = "new" /\ cs[Len(cs)] = "jump"
            /\ \A k \in 2..(Len(cs) - 1) : cs[k] \in Rules /\ cs[k] \notin {"new", "jump"}
<1>1. CASE setting.what = "kill"
  <2>1. LET cs == FW!Commands(t) IN
        /\ Len(cs) = 6 /\ cs[1] = "new" /\ cs[2] = "returnLo" /\ cs[3] = "returnTun"
        /\ cs[4] = "returnMarked" /\ cs[5] = "reject" /\ cs[6] = "jump"
    BY <1>1, CommandsKnown
  <2>. QED
    BY <2>1 DEF Rules
<1>2. CASE setting.what # "kill" /\ t = "iptables"
  <2>1. LET cs == FW!Commands(t) IN
        /\ Len(cs) = 4 /\ cs[1] = "new" /\ cs[2] = "returnConfig" /\ cs[3] = "rejectTun"
        /\ cs[4] = "jump"
    BY <1>2, CommandsKnown
  <2>. QED
    BY <2>1 DEF Rules
<1>3. CASE setting.what # "kill" /\ t # "iptables"
  <2>1. LET cs == FW!Commands(t) IN
        Len(cs) = 3 /\ cs[1] = "new" /\ cs[2] = "rejectTun" /\ cs[3] = "jump"
    BY <1>3, CommandsKnown
  <2>. QED
    BY <2>1 DEF Rules
<1>. QED
  BY <1>1, <1>2, <1>3

LEMMA ProgramsNeeded ==
  ASSUME SettingsSound, setting \in FirewallSettings
  PROVE  /\ FW!Needed[1] = FirstProgram
         /\ FW!Needed[Len(FW!Needed)] = IF Uses("ip6tables") THEN "ip6tables" ELSE "iptables"
         /\ Len(FW!Needed) = IF Uses("iptables") /\ Uses("ip6tables") THEN 2 ELSE 1
         /\ Uses(FirstProgram) /\ FirstProgram \in FW!Tables
         /\ Uses("ip6tables") => ~Uses("iptables") \/ FirstProgram = "iptables"
BY DEF SettingsSound, FW!Needed, FirstProgram, Uses, FW!Tables

(* Whatever is done to a chain and its jump by a removal, OUTPUT jumps to     *)
(* complete chains only; one that works leaves nothing of the program.       *)
LEMMA WipeKeeps ==
  ASSUME FirewallTypes, JumpsFull, NEW t \in FW!Tables, NEW ok \in BOOLEAN, FW!Wipe(t, ok),
         UNCHANGED setting
  PROVE  /\ JumpsFull' /\ jump' \in [FW!Tables -> BOOLEAN] /\ chain' \in [FW!Tables -> Seq(Rules)]
         /\ \A u \in FW!Tables \ {t} : jump'[u] = jump[u] /\ chain'[u] = chain[u]
         /\ "undo" \notin setting.faults => ok /\ Empty(t)'
<1>1. /\ jump' \in [FW!Tables -> BOOLEAN] /\ chain' \in [FW!Tables -> Seq(Rules)]
      /\ \A u \in FW!Tables \ {t} : jump'[u] = jump[u] /\ chain'[u] = chain[u]
  <2>. FW!NoChain \in Seq(Rules) /\ <<>> \in Seq(Rules)
    BY DEF FW!NoChain, Rules
  <2>. HIDE DEF FW!NoChain
  <2>1. jump' = [jump EXCEPT ![t] = FALSE] \/ jump' = jump
    BY DEF FW!Wipe
  <2>2. \/ chain' = chain \/ chain' = [chain EXCEPT ![t] = FW!NoChain]
        \/ chain' = [chain EXCEPT ![t] = <<>>]
        \/ chain' = [chain EXCEPT ![t] = chain[t]]
    BY DEF FW!Wipe, FirewallTypes
  <2>. QED
    BY <2>1, <2>2 DEF FirewallTypes
<1>2. /\ jump'[t] => jump[t] /\ chain'[t] = chain[t]
      /\ chain'[t] # FW!NoChain => chain[t] # FW!NoChain
  BY DEF FW!Wipe, FirewallTypes, FW!NoChain
<1>3. JumpsFull'
  <2>1. ASSUME NEW u \in FW!Tables
        PROVE  /\ jump'[u] => jump[u] /\ chain'[u] = chain[u]
               /\ chain'[u] # FW!NoChain => chain[u] # FW!NoChain
    <3>1. CASE u = t
      BY <1>2, <3>1
    <3>2. CASE u # t
      <4>1. jump'[u] = jump[u] /\ chain'[u] = chain[u]
        BY <1>1, <3>2
      <4>. QED
        BY <4>1
    <3>. QED
      BY <3>1, <3>2
  <2>2. ASSUME NEW u \in FW!Tables, jump'[u]
        PROVE  Uses(u)' /\ Full(u)'
    <3>1. Uses(u) /\ Full(u) /\ chain'[u] = chain[u]
      BY <2>1, <2>2 DEF JumpsFull
    <3>2. Uses(u)' /\ FW!Commands(u)' = FW!Commands(u)
      BY <3>1 DEF Uses, FW!Commands
    <3>3. Full(u)'
      BY <3>1, <3>2 DEF Full, Filled
    <3>. QED
      BY <3>2, <3>3
  <2>3. ASSUME NEW u \in FW!Tables, jump'[u] \/ chain'[u] # FW!NoChain
        PROVE  u \in setting'.programs
    <3>1. jump[u] \/ chain[u] # FW!NoChain
      BY <2>1, <2>3
    <3>2. u \in setting.programs
      BY <3>1 DEF JumpsFull
    <3>. QED
      BY <3>2
  <2>. QED
    BY <2>2, <2>3 DEF JumpsFull
<1>4. "undo" \notin setting.faults => ok /\ Empty(t)'
  BY DEF FW!Wipe, FW!Faulty, Empty, FirewallTypes
<1>. QED
  BY <1>1, <1>3, <1>4

LEMMA JumpsKept ==
  ASSUME JumpsFull, UNCHANGED <<setting, chain, jump>>
  PROVE  JumpsFull'
BY DEF JumpsFull, Full, Filled, FW!Commands, Uses

(* The same of the removal of all a backend has.                            *)
LEMMA RemoveKeeps ==
  ASSUME SettingsSound, FirewallTypes, JumpsFull, NEW backend, NEW ok \in BOOLEAN,
         FW!RemoveBackend(backend, ok), UNCHANGED setting
  PROVE  /\ JumpsFull' /\ table' \in BOOLEAN
         /\ jump' \in [FW!Tables -> BOOLEAN] /\ chain' \in [FW!Tables -> Seq(Rules)]
         /\ "undo" \notin setting.faults /\ OnlyOf(backend) => ok /\ OnlyOf("none")'
<1>1. CASE backend = "nft"
  <2>1. UNCHANGED <<chain, jump>> /\ FW!DropTable(ok)
    BY <1>1 DEF FW!RemoveBackend
  <2>2. JumpsFull'
    BY <2>1, JumpsKept
  <2>3. /\ table' = FALSE \/ table' = table
        /\ "undo" \notin setting.faults => ok /\ ~table'
    BY <2>1 DEF FW!DropTable, FW!Faulty
  <2>4. "undo" \notin setting.faults /\ OnlyOf(backend) => OnlyOf("none")'
    BY <1>1, <2>1, <2>3 DEF OnlyOf, Empty
  <2>. QED
    BY <2>1, <2>2, <2>3, <2>4 DEF FirewallTypes
<1>2. CASE backend # "nft" /\ Len(FW!Needed) = 1
  <2>1. FW!Needed[1] \in FW!Tables /\ \A u \in FW!Tables : u = FW!Needed[1] \/ ~Uses(u)
    BY <1>2, ProgramsNeeded DEF FirewallTypes, FirstProgram, FW!Tables
  <2>2. PICK n \in FW!Tables : n = FW!Needed[1]
    BY <2>1
  <2>3. FW!Wipe(FW!Needed[1], ok) /\ table' = table
    BY <1>2 DEF FW!RemoveBackend, FW!WipeAll
  <2>4. FW!Wipe(n, ok)
    BY <2>2, <2>3, Zenon
  <2>5. /\ JumpsFull' /\ jump' \in [FW!Tables -> BOOLEAN] /\ chain' \in [FW!Tables -> Seq(Rules)]
        /\ \A u \in FW!Tables \ {n} : jump'[u] = jump[u] /\ chain'[u] = chain[u]
        /\ "undo" \notin setting.faults => ok /\ Empty(n)'
    BY <2>4, WipeKeeps
  <2>6. "undo" \notin setting.faults /\ OnlyOf(backend) => OnlyOf("none")'
    BY <1>2, <2>1, <2>2, <2>3, <2>5 DEF OnlyOf, Empty
  <2>. QED
    BY <2>3, <2>5, <2>6 DEF FirewallTypes
<1>3. CASE backend # "nft" /\ Len(FW!Needed) # 1
  <2>1. table' = table
    BY <1>3 DEF FW!RemoveBackend
  <2>2. CASE ok /\ jump' = [p \in FW!Tables |-> FALSE] /\ chain' = [p \in FW!Tables |-> FW!NoChain]
    BY <1>3, <2>1, <2>2
      DEF JumpsFull, FirewallTypes, OnlyOf, Empty, FW!NoChain, Rules
  <2>3. CASE ~ok /\ FW!Wipe("iptables", FALSE)
    <3>1. "iptables" \in FW!Tables
      BY DEF FW!Tables
    <3>. QED
      BY <2>1, <2>3, <3>1, WipeKeeps DEF FirewallTypes
  <2>4. CASE /\ ~ok /\ FW!Faulty("undo")
             /\ jump' = [jump EXCEPT !["iptables"] = FALSE]
             /\ chain' = [chain EXCEPT !["iptables"] = FW!NoChain]
    <3>1. FW!Wipe("iptables", TRUE) /\ "iptables" \in FW!Tables
      BY <2>4 DEF FW!Wipe, FW!Tables
    <3>. QED
      BY <2>1, <2>4, <3>1, WipeKeeps DEF FirewallTypes, FW!Faulty
  <2>. QED
    BY <1>3, <2>2, <2>3, <2>4 DEF FW!RemoveBackend, FW!WipeAll
<1>. QED
  BY <1>1, <1>2, <1>3

LEMMA FirewallInitially == ASSUME SettingsSound, FW!Init PROVE FirewallInv
<1>1. FW!NoChain \in Seq(Rules)
  BY DEF FW!NoChain, Rules
<1>2. FirewallTypes
  <2>1. chain \in [FW!Tables -> Seq(Rules)]
    BY <1>1 DEF FW!Init
  <2>2. at \in [program : FW!Tables \cup {"none"}, done : 0..6]
    BY DEF FW!Init, FW!NoWhere
  <2>3. table \in BOOLEAN /\ jump \in [FW!Tables -> BOOLEAN]
    BY DEF FW!Init
  <2>. QED
    BY <2>1, <2>2, <2>3 DEF FirewallTypes, FW!Init, FW!Backends
<1>3. \A t \in FW!Tables : Empty(t)
  BY DEF FW!Init, Empty
<1>4. JumpsFull /\ Building /\ Reported /\ Tidy
  BY <1>3 DEF FW!Init, JumpsFull, Building, Reported, Tidy, CleanSteps, OnlyOf, Empty
<1>. QED
  BY <1>2, <1>4 DEF FirewallInv

(* The steps of a call that is under way, with nftables, ...                 *)
LEMMA NftStep ==
  ASSUME FirewallInv, FW!Begin \/ FW!NftClear \/ FW!NftLoad \/ FW!NftUndo
  PROVE  FirewallInv'
<1>. USE DEF FirewallInv
<1>1. UNCHANGED <<setting, chain, jump, journal>>
  BY DEF FW!Begin, FW!NftClear, FW!NftLoad, FW!NftUndo, FW!rules
<1>2. JumpsFull'
  BY <1>1, JumpsKept
<1>3. \A t : Uses(t)' <=> Uses(t)
  BY <1>1 DEF Uses
<1>4. FW!FirstFamily = (IF FirstProgram \in setting.programs THEN "clear" ELSE "failed")
  BY ProgramsNeeded DEF FW!FirstFamily, FirewallTypes
<1>5. FirstProgram' = FirstProgram /\ FirstProgram \in FW!Tables /\ Uses(FirstProgram)
      /\ FW!Needed[1] = FirstProgram
  BY <1>3, ProgramsNeeded DEF FirewallTypes, FirstProgram
<1>6. FirstProgram = "ip6tables" => ~Uses("iptables")
  BY DEF FirstProgram
<1>. HIDE DEF FirstProgram
<1>7. at' = [program |-> FirstProgram, done |-> 0]
  BY <1>5 DEF FW!Begin, FW!NftClear, FW!NftLoad, FW!NftUndo, Building
<1>8. table' \in BOOLEAN /\ held' \in FW!Backends
  BY DEF FirewallTypes, FW!Begin, FW!NftClear, FW!NftLoad, FW!NftUndo, FW!DropTable, FW!rules,
         FW!Backends
<1>9. FirewallTypes'
  BY <1>1, <1>5, <1>7, <1>8 DEF FirewallTypes
<1>10. Building' /\ Reported'
  BY <1>1, <1>3, <1>4, <1>5, <1>6, <1>7
    DEF Building, Reported, FW!Begin, FW!NftClear, FW!NftLoad, FW!NftUndo, FW!DropTable
<1>11. ASSUME setting.faults \cap {"undo", "journal"} = {}
       PROVE  Tidy'
  <2>1. OnlyOf("none") /\ journal = "none"
    BY <1>11
      DEF Tidy, CleanSteps, FW!Begin, FW!NftClear, FW!NftLoad, FW!NftUndo
  <2>2. /\ ~table /\ \A t \in FW!Tables : Empty(t)
    BY <2>1 DEF OnlyOf
  <2>3. \A t \in FW!Tables : Empty(t)'
    BY <1>1, <2>2 DEF Empty
  <2>4. \/ ~table' /\ pc' \in CleanSteps \cup {"clear"}
        \/ pc' = "installed" /\ held' = "nft"
    BY <1>4, <2>2
      DEF FW!Begin, FW!NftClear, FW!NftLoad, FW!NftUndo, FW!DropTable, FW!rules, CleanSteps
  <2>. QED
    BY <1>1, <2>1, <2>3, <2>4 DEF Tidy, CleanSteps, OnlyOf, FW!Tables
<1>12. Tidy'
  BY <1>1, <1>11 DEF Tidy
<1>. QED
  BY <1>1, <1>2, <1>9, <1>10, <1>12 DEF SettingsSound

(* ... with iptables, program by program, ...                               *)
LEMMA ClearStep ==
  ASSUME FirewallInv, FW!ClearChain
  PROVE  FirewallInv'
<1>. USE DEF FirewallInv
<1>1. /\ pc = "clear" /\ pc' = "build" /\ UNCHANGED <<setting, at, table, held, journal>>
      /\ at.program \in FW!Tables \cap setting.programs /\ Uses(at.program) /\ at.done = 0
  BY DEF FW!ClearChain, Building
<1>2. PICK t \in FW!Tables : t = at.program
  BY <1>1
<1>3. PICK ok \in BOOLEAN : FW!Wipe(t, ok)
  BY <1>2 DEF FW!ClearChain
<1>4. /\ JumpsFull' /\ jump' \in [FW!Tables -> BOOLEAN] /\ chain' \in [FW!Tables -> Seq(Rules)]
      /\ \A u \in FW!Tables \ {t} : jump'[u] = jump[u] /\ chain'[u] = chain[u]
      /\ "undo" \notin setting.faults => ok /\ Empty(t)'
  BY <1>1, <1>3, WipeKeeps
<1>5. \A u : Uses(u)' <=> Uses(u)
  BY <1>1 DEF Uses
<1>6. 0 < Len(FW!Commands(at.program)')
  <2>1. \A u \in FW!Tables : Len(FW!Commands(u)) \in 3..6
    BY CommandsInTurn
  <2>2. FW!Commands(at.program)' = FW!Commands(t)
    BY <1>1, <1>2 DEF FW!Commands
  <2>3. PICK n \in 3..6 : n = Len(FW!Commands(t))
    BY <2>1
  <2>. QED
    BY <2>2, <2>3
<1>7. FirewallTypes' /\ Reported'
  BY <1>1, <1>4 DEF FirewallTypes, Reported
<1>9. at.program = "ip6tables" => (Uses("iptables") => jump'["iptables"])
  BY <1>1, <1>2, <1>4 DEF Building, FW!Tables
<1>10. Building'
  BY <1>1, <1>5, <1>6, <1>9 DEF Building
<1>8. Tidy'
  BY <1>1, <1>2, <1>4, <1>5 DEF Tidy, CleanSteps, OnlyOf, Empty, FW!Tables
<1>. QED
  BY <1>1, <1>4, <1>7, <1>8, <1>10 DEF SettingsSound

LEMMA UndoStep ==
  ASSUME FirewallInv, FW!UndoChain \/ FW!UndoFirst
  PROVE  FirewallInv'
<1>. USE DEF FirewallInv
<1>1. /\ pc \in {"undo", "undoFirst"} /\ pc' \in {"undoFirst", "failed"}
      /\ pc = "undoFirst" => pc' = "failed"
      /\ UNCHANGED <<setting, table, held, journal>> /\ at' \in {at, FW!NoWhere}
  BY DEF FW!UndoChain, FW!UndoFirst
<1>2. PICK t \in FW!Tables : t = IF pc = "undo" THEN at.program ELSE "iptables"
  BY <1>1 DEF Building, FW!Tables
<1>3. PICK ok \in BOOLEAN : FW!Wipe(t, ok)
  BY <1>2 DEF FW!UndoChain, FW!UndoFirst
<1>4. /\ JumpsFull' /\ jump' \in [FW!Tables -> BOOLEAN] /\ chain' \in [FW!Tables -> Seq(Rules)]
      /\ \A u \in FW!Tables \ {t} : jump'[u] = jump[u] /\ chain'[u] = chain[u]
      /\ "undo" \notin setting.faults => ok /\ Empty(t)'
  BY <1>1, <1>3, WipeKeeps
<1>5. \A u : Uses(u)' <=> Uses(u)
  BY <1>1 DEF Uses
<1>6. FirewallTypes'
  BY <1>1, <1>4 DEF FirewallTypes, FW!NoWhere
<1>7. Building' /\ Reported'
  BY <1>1 DEF Building, Reported
<1>8. pc = "undo" /\ pc' = "failed" => t = "iptables" \/ ~Uses("iptables")
  BY <1>2, ProgramsNeeded
    DEF FW!UndoChain, FW!UndoFirst, FirewallTypes, Building, FW!Tables
<1>9. ASSUME setting.faults \cap {"undo", "journal"} = {}
      PROVE  Tidy'
  <2>1. /\ ~table /\ \A u \in FW!Tables : ~Uses(u) => Empty(u)
        /\ journal = "none"
    BY <1>1, <1>9 DEF Tidy, OnlyOf
  <2>2. pc = "undoFirst" \/ t = "iptables" => Empty("ip6tables")
    BY <1>1, <1>2, <1>9 DEF Tidy
  <2>3. Empty(t)'
    BY <1>4, <1>9
  <2>4. \A u \in FW!Tables \ {t} : Empty(u) => Empty(u)'
    BY <1>4 DEF Empty
  <2>5. "iptables" \in FW!Tables /\ "ip6tables" \in FW!Tables
        /\ \A u \in FW!Tables : u = "iptables" \/ u = "ip6tables"
    BY DEF FW!Tables
  <2>6. pc' = "undoFirst" => t = "ip6tables" /\ pc = "undo"
    BY <1>1, <1>2, ProgramsNeeded DEF FW!UndoChain, FW!UndoFirst, FW!Tables
  <2>7. Empty("ip6tables")'
    BY <1>1, <1>8, <2>1, <2>2, <2>3, <2>4, <2>5, <2>6
  <2>8. pc' = "failed" => Empty("iptables")'
    BY <1>1, <1>2, <1>8, <2>1, <2>3, <2>4, <2>5
  <2>. QED
    BY <1>1, <1>5, <2>1, <2>4, <2>5, <2>3, <2>6, <2>7, <2>8 DEF Tidy, CleanSteps, OnlyOf
<1>10. Tidy'
  BY <1>1, <1>9 DEF Tidy
<1>. QED
  BY <1>1, <1>4, <1>6, <1>7, <1>10 DEF SettingsSound

(* The rules of a complete chain.                                           *)
LEMMA FullRules ==
  ASSUME NEW t \in FW!Tables, Full(t)
  PROVE  /\ setting.what = "kill" =>
              /\ Len(chain[t]) = 4 /\ chain[t][1] = "returnLo" /\ chain[t][2] = "returnTun"
              /\ chain[t][3] = "returnMarked" /\ chain[t][4] = "reject"
         /\ setting.what # "kill" /\ t = "iptables" =>
              Len(chain[t]) = 2 /\ chain[t][1] = "returnConfig" /\ chain[t][2] = "rejectTun"
         /\ setting.what # "kill" /\ t # "iptables" =>
              Len(chain[t]) = 1 /\ chain[t][1] = "rejectTun"
<1>1. PICK cs : cs = FW!Commands(t)
  OBVIOUS
<1>2. Len(chain[t]) = Len(cs) - 2 /\ \A k \in 1..(Len(cs) - 2) : chain[t][k] = cs[k + 1]
  BY <1>1 DEF Full, Filled
<1>3. ASSUME setting.what = "kill"
      PROVE  /\ Len(chain[t]) = 4 /\ chain[t][1] = "returnLo" /\ chain[t][2] = "returnTun"
             /\ chain[t][3] = "returnMarked" /\ chain[t][4] = "reject"
  <2>1. /\ Len(cs) = 6 /\ cs[2] = "returnLo" /\ cs[3] = "returnTun"
        /\ cs[4] = "returnMarked" /\ cs[5] = "reject"
    BY <1>1, <1>3, CommandsKnown
  <2>2. \A k \in 1..4 : chain[t][k] = cs[k + 1]
    BY <1>2, <2>1
  <2>3. /\ chain[t][1] = cs[1 + 1] /\ chain[t][2] = cs[2 + 1] /\ chain[t][3] = cs[3 + 1]
        /\ chain[t][4] = cs[4 + 1]
    BY <2>2
  <2>. QED
    BY <1>2, <2>1, <2>3
<1>4. ASSUME setting.what # "kill", t = "iptables"
      PROVE  Len(chain[t]) = 2 /\ chain[t][1] = "returnConfig" /\ chain[t][2] = "rejectTun"
  <2>1. Len(cs) = 4 /\ cs[2] = "returnConfig" /\ cs[3] = "rejectTun"
    BY <1>1, <1>4, CommandsKnown
  <2>2. \A k \in 1..2 : chain[t][k] = cs[k + 1]
    BY <1>2, <2>1
  <2>3. chain[t][1] = cs[1 + 1] /\ chain[t][2] = cs[2 + 1]
    BY <2>2
  <2>. QED
    BY <1>2, <2>1, <2>3
<1>5. ASSUME setting.what # "kill", t # "iptables"
      PROVE  Len(chain[t]) = 1 /\ chain[t][1] = "rejectTun"
  <2>1. Len(cs) = 3 /\ cs[2] = "rejectTun"
    BY <1>1, <1>5, CommandsKnown
  <2>2. \A k \in 1..1 : chain[t][k] = cs[k + 1]
    BY <1>2, <2>1
  <2>3. chain[t][1] = cs[1 + 1]
    BY <2>2
  <2>. QED
    BY <1>2, <2>1, <2>3
<1>. QED
  BY <1>3, <1>4, <1>5

(* ... command by command, ...                                              *)
LEMMA BuildStep ==
  ASSUME FirewallInv, FW!BuildChain
  PROVE  FirewallInv'
<1>. USE DEF FirewallInv
<1>1. /\ pc = "build" /\ UNCHANGED <<setting, table, journal>>
      /\ at.program \in FW!Tables \cap setting.programs /\ Uses(at.program)
      /\ at.done \in Nat /\ at.done < Len(FW!Commands(at.program))
      /\ at = [program |-> at.program, done |-> at.done]
  BY DEF FW!BuildChain, Building, FirewallTypes
<1>2. PICK t \in FW!Tables : t = at.program
  BY <1>1
<1>3. PICK cs : cs = FW!Commands(t)
  OBVIOUS
<1>4. PICK n \in Nat : n = at.done /\ n < Len(cs)
  BY <1>1, <1>2, <1>3
<1>5. /\ Len(cs) \in 3..6 /\ cs[1] = "new" /\ cs[Len(cs)] = "jump"
      /\ \A k \in 2..(Len(cs) - 1) : cs[k] \in Rules /\ cs[k] \notin {"new", "jump"}
  BY <1>3, CommandsInTurn
<1>6. \A u : (Uses(u)' <=> Uses(u)) /\ FW!Commands(u)' = FW!Commands(u)
  BY <1>1 DEF Uses, FW!Commands
<1>7. setting.faults \cap {"undo", "journal"} = {} =>
        OnlyOf("iptables") /\ journal = "none" /\ (t = "iptables" => Empty("ip6tables"))
  BY <1>1, <1>2 DEF Tidy
(* The command fails: what there is stays.                                  *)
<1>8. CASE pc' = "undo" /\ UNCHANGED <<at, held, chain, jump>>
  <2>1. JumpsFull'
    BY <1>1, <1>8, JumpsKept
  <2>2. FirewallTypes' /\ Reported' /\ Building'
    BY <1>1, <1>6, <1>8 DEF FirewallTypes, Reported, Building
  <2>3. Tidy'
    BY <1>1, <1>6, <1>8 DEF Tidy, CleanSteps, OnlyOf, Empty
  <2>. QED
    BY <1>1, <2>1, <2>2, <2>3 DEF SettingsSound
(* It works: the chain is one rule longer, or complete and jumped to.        *)
<1>9. ASSUME FW!Command(t, cs[n + 1]),
             IF n + 1 = Len(cs) THEN FW!AfterFamily(t)
             ELSE pc' = pc /\ held' = held /\ at' = [at EXCEPT !.done = @ + 1]
      PROVE  FirewallInv'
  <2>1. /\ \A u \in FW!Tables \ {t} : jump'[u] = jump[u] /\ chain'[u] = chain[u]
        /\ jump' \in [FW!Tables -> BOOLEAN] /\ chain' \in [FW!Tables -> Seq(Rules)]
    <3>1. CASE n = 0
      <4>1. chain' = [chain EXCEPT ![t] = <<>>] /\ jump' = jump
        BY <1>5, <1>9, <3>1 DEF FW!Command
      <4>. QED
        BY <4>1 DEF FirewallTypes
    <3>2. CASE n + 1 = Len(cs)
      BY <1>5, <1>9, <3>2 DEF FW!Command, FirewallTypes
    <3>3. CASE n > 0 /\ n + 1 < Len(cs)
      <4>1. cs[n + 1] \in Rules /\ cs[n + 1] \notin {"new", "jump"}
        BY <1>5, <3>3
      <4>2. chain' = [chain EXCEPT ![t] = Append(@, cs[n + 1])] /\ jump' = jump
        BY <1>9, <4>1 DEF FW!Command
      <4>. QED
        BY <4>1, <4>2 DEF FirewallTypes
    <3>. QED
      BY <1>4, <1>5, <3>1, <3>2, <3>3
  <2>2. n > 0 => ~jump[t] /\ Len(chain[t]) = n - 1 /\ \A k \in 1..(n - 1) : chain[t][k] = cs[k + 1]
    BY <1>1, <1>2, <1>3, <1>4 DEF Building, Filled
  <2>3. CASE n + 1 # Len(cs)
    <3>1. /\ pc' = "build" /\ held' = held /\ at' = [program |-> t, done |-> n + 1]
      BY <1>1, <1>2, <1>4, <1>9, <2>3
    <3>2. ~jump'[t] /\ Len(chain'[t]) = n /\ \A k \in 1..n : chain'[t][k] = cs[k + 1]
      <4>1. CASE n = 0
        <5>1. chain[t] = FW!NoChain /\ chain'[t] = <<>> /\ jump' = jump
          BY <1>5, <1>9, <4>1 DEF FW!Command, FirewallTypes
        <5>2. ~jump[t]
          <6>1. ASSUME jump[t] PROVE FALSE
            <7>1. Full(t) /\ Len(chain[t]) = 1 /\ chain[t][1] = "none"
              BY <5>1, <6>1 DEF JumpsFull, FW!NoChain
            <7>. QED
              BY <7>1, FullRules
          <6>. QED
            BY <6>1
        <5>. QED
          BY <4>1, <5>1, <5>2
      <4>2. CASE n > 0
        <5>1. cs[n + 1] \in Rules /\ cs[n + 1] \notin {"new", "jump"}
          BY <1>4, <1>5, <2>3, <4>2
        <5>2. chain' = [chain EXCEPT ![t] = Append(@, cs[n + 1])] /\ jump' = jump
          BY <1>9, <5>1 DEF FW!Command
        <5>3. chain'[t] = Append(chain[t], cs[n + 1]) /\ chain[t] \in Seq(Rules)
          BY <5>2 DEF FirewallTypes
        <5>. QED
          BY <2>2, <4>2, <5>1, <5>2, <5>3
      <4>. QED
        BY <4>1, <4>2
    <3>3. JumpsFull'
      <4>1. JumpsFull /\ \A u \in FW!Tables \ {t} : jump'[u] = jump[u] /\ chain'[u] = chain[u]
        BY <2>1
      <4>2. t \in setting.programs
        BY <1>1, <1>2
      <4>. QED
        BY <1>1, <1>6, <3>2, <4>1, <4>2 DEF JumpsFull, Full, Filled
    <3>4. FirewallTypes' /\ Reported'
      <4>1. n + 1 \in 0..6
        <5>1. PICK length \in 3..6 : length = Len(cs)
          BY <1>5
        <5>2. n < length
          BY <1>4, <5>1
        <5>. QED
          BY <5>2
      <4>2. at' \in [program : FW!Tables \cup {"none"}, done : 0..6]
        BY <1>2, <3>1, <4>1
      <4>. QED
        BY <1>1, <2>1, <3>1, <4>2 DEF FirewallTypes, Reported
    <3>5. Building'
      <4>1. t = "ip6tables" => (Uses("iptables") => jump'["iptables"])
        BY <1>1, <1>2, <2>1 DEF Building, FW!Tables
      <4>2. Filled(t, n)'
        BY <1>3, <1>6, <3>2 DEF Filled
      <4>. QED
        BY <1>1, <1>2, <1>3, <1>4, <1>5, <1>6, <2>3, <3>1, <3>2, <4>1, <4>2 DEF Building
    <3>6. Tidy'
      BY <1>1, <1>2, <1>6, <1>7, <2>1, <3>1 DEF Tidy, CleanSteps, OnlyOf, Empty, FW!Tables
    <3>. QED
      BY <1>1, <3>3, <3>4, <3>5, <3>6 DEF SettingsSound
  <2>4. CASE n + 1 = Len(cs)
    <3>1. jump' = [jump EXCEPT ![t] = TRUE] /\ chain' = chain /\ FW!AfterFamily(t)
      BY <1>5, <1>9, <2>4 DEF FW!Command
    <3>2. jump'[t] /\ (\A u \in FW!Tables \ {t} : jump'[u] = jump[u])
      BY <3>1 DEF FirewallTypes
    <3>3. Full(t)
      BY <1>3, <1>5, <2>2, <2>4 DEF Full, Filled
    <3>4. JumpsFull'
      BY <1>1, <1>2, <1>6, <3>1, <3>2, <3>3 DEF JumpsFull, Full, Filled
    <3>5. \/ pc' = "installed" /\ held' = "iptables" /\ at' = FW!NoWhere
             /\ \A u \in FW!Tables : Uses(u) => jump'[u]
          \/ /\ pc' = "clear" /\ held' = held /\ at' = [program |-> "ip6tables", done |-> 0]
             /\ "ip6tables" \in setting.programs /\ Uses("ip6tables") /\ t = "iptables"
          \/ pc' = "undoFirst" /\ held' = held /\ at' = FW!NoWhere /\ t = "iptables"
      <4>1. FW!Needed[Len(FW!Needed)] = IF Uses("ip6tables") THEN "ip6tables" ELSE "iptables"
        BY ProgramsNeeded DEF FirewallTypes
      <4>2. t = "ip6tables" => (Uses("iptables") => jump["iptables"])
        BY <1>1, <1>2 DEF Building
      <4>3. t = "iptables" \/ t = "ip6tables"
        BY DEF FW!Tables
      <4>. QED
        BY <1>1, <1>2, <3>1, <3>2, <4>1, <4>2, <4>3 DEF FW!AfterFamily, FW!Tables
    <3>6. FirewallTypes' /\ Reported'
      BY <1>1, <1>6, <2>1, <3>5 DEF FirewallTypes, Reported, FW!NoWhere, FW!Tables, FW!Backends
    <3>7. Building'
      BY <1>1, <1>6, <3>2, <3>5 DEF Building, FW!Tables
    <3>8. Tidy'
      <4>1. \A u \in FW!Tables : Empty(u) /\ u # t => Empty(u)'
        BY <3>1, <3>2 DEF Empty
      <4>. QED
        BY <1>1, <1>2, <1>6, <1>7, <3>5, <4>1 DEF Tidy, CleanSteps, OnlyOf, FW!Tables
    <3>. QED
      BY <1>1, <3>4, <3>6, <3>7, <3>8 DEF SettingsSound
  <2>. QED
    BY <2>3, <2>4
<1>. QED
  BY <1>2, <1>3, <1>4, <1>8, <1>9 DEF FW!BuildChain

(* ... and at its end, with the removal, a crash and the repair.             *)
LEMMA EndStep ==
  ASSUME FirewallInv, FW!Installed \/ FW!Failed \/ FW!Remove \/ FW!Crash
  PROVE  FirewallInv'
<1>. USE DEF FirewallInv
<1>1. UNCHANGED <<setting, table, chain, jump>>
  BY DEF FW!Installed, FW!Failed, FW!Remove, FW!Crash, FW!rules
<1>2. JumpsFull'
  BY <1>1, JumpsKept
<1>3. \A u : Uses(u)' <=> Uses(u)
  BY <1>1 DEF Uses
<1>4. FirewallTypes'
  BY <1>1
    DEF FirewallTypes, FW!Installed, FW!Failed, FW!Remove, FW!Crash, FW!NoWhere, FW!Backends
<1>5. Building' /\ Reported'
  BY <1>1, <1>3
    DEF Building, Reported, FW!Installed, FW!Failed, FW!Remove, FW!Crash
<1>6. setting.what \in {"kill", "guard"}
  BY DEF SettingsSound, FirewallTypes
<1>7. \A b : OnlyOf(b)' <=> OnlyOf(b)
  BY <1>1, <1>3 DEF OnlyOf, Empty
<1>8. Tidy'
  <2>. SUFFICES ASSUME setting.faults \cap {"undo", "journal"} = {} PROVE Tidy'
    BY <1>1 DEF Tidy
  <2>1. CASE FW!Installed
    <3>1. held # "none" /\ OnlyOf(held) /\ journal = "none"
      BY <2>1 DEF Tidy, FW!Installed
    <3>2. OnlyOf(held)'
      BY <1>1, <1>3, <2>1, <3>1 DEF OnlyOf, Empty, FW!Installed
    <3>. QED
      BY <1>1, <1>6, <2>1, <3>1, <3>2 DEF FW!Installed, FW!Faulty, Tidy, CleanSteps
  <2>2. CASE FW!Failed
    <3>1. OnlyOf("none") /\ journal = "none"
      BY <2>2 DEF Tidy, FW!Failed, CleanSteps
    <3>2. OnlyOf("none")'
      BY <1>7, <3>1
    <3>. QED
      BY <1>1, <2>2, <3>1, <3>2 DEF FW!Failed, Tidy, CleanSteps
  <2>3. CASE FW!Remove
    <3>1. /\ held # "none" /\ OnlyOf(held)
          /\ journal = IF setting.what = "guard" THEN held ELSE "none"
      BY <2>3 DEF Tidy, FW!Remove
    <3>2. OnlyOf(held)'
      BY <1>1, <1>3, <2>3, <3>1 DEF OnlyOf, Empty, FW!Remove
    <3>. QED
      BY <1>1, <2>3, <3>1, <3>2 DEF FW!Remove, Tidy, CleanSteps
  <2>4. CASE FW!Crash
    <3>1. journal # "none" => OnlyOf(journal)
      BY <2>4 DEF Tidy, FW!Crash, CleanSteps
    <3>2. journal' # "none" => OnlyOf(journal)'
      BY <1>1, <1>3, <2>4, <3>1 DEF OnlyOf, Empty, FW!Crash
    <3>. QED
      BY <2>4, <3>2 DEF FW!Crash, Tidy, CleanSteps
  <2>. QED
    BY <2>1, <2>2, <2>3, <2>4
<1>. QED
  BY <1>1, <1>2, <1>4, <1>5, <1>8 DEF SettingsSound

LEMMA RemoveStep ==
  ASSUME FirewallInv, FW!RemoveRules
  PROVE  FirewallInv'
<1>. USE DEF FirewallInv
<1>1. /\ pc \in {"remove", "guardUndo"} /\ pc' = "failed" /\ held' = "none"
      /\ UNCHANGED <<setting, at>>
  BY DEF FW!RemoveRules
<1>2. PICK ok \in BOOLEAN :
           /\ FW!RemoveBackend(held, ok)
           /\ IF pc = "remove" /\ ok /\ setting.what = "guard"
                THEN \E cleared \in BOOLEAN : FW!ClearGuardJournal(cleared)
                ELSE UNCHANGED journal
  BY DEF FW!RemoveRules
<1>3. PICK backend : backend = held
  OBVIOUS
<1>4. FW!RemoveBackend(backend, ok)
  BY <1>2, <1>3, Zenon
<1>5. /\ JumpsFull' /\ table' \in BOOLEAN
      /\ jump' \in [FW!Tables -> BOOLEAN] /\ chain' \in [FW!Tables -> Seq(Rules)]
      /\ "undo" \notin setting.faults /\ OnlyOf(backend) => ok /\ OnlyOf("none")'
  BY <1>1, <1>4, RemoveKeeps
<1>6. journal' \in FW!Backends
  BY <1>2 DEF FW!ClearGuardJournal, FirewallTypes, FW!Backends
<1>7. FirewallTypes' /\ Building' /\ Reported'
  BY <1>1, <1>5, <1>6 DEF FirewallTypes, Building, Reported, FW!Backends
<1>8. ASSUME setting.faults \cap {"undo", "journal"} = {}
      PROVE  ok /\ OnlyOf("none")' /\ journal' = "none"
  <2>1. OnlyOf(held)
    BY <1>1, <1>8 DEF Tidy
  <2>2. OnlyOf(backend)
    BY <1>3, <2>1, Zenon
  <2>3. ok /\ OnlyOf("none")'
    BY <1>5, <1>8, <2>2
  <2>4. pc = "guardUndo" \/ setting.what # "guard" => journal = "none"
    BY <1>1, <1>8 DEF Tidy
  <2>. QED
    BY <1>1, <1>2, <1>8, <2>3, <2>4 DEF FW!ClearGuardJournal, FW!Faulty
<1>9. Tidy'
  BY <1>1, <1>8 DEF Tidy, CleanSteps
<1>. QED
  BY <1>1, <1>5, <1>7, <1>9 DEF SettingsSound

LEMMA FirewallRepairStep ==
  ASSUME FirewallInv, FW!Repair
  PROVE  FirewallInv'
<1>. USE DEF FirewallInv
<1>1. /\ pc = "down" /\ pc' \in {"idle", "down"} /\ UNCHANGED <<setting, at, held>>
      /\ journal' \in {journal, "none"}
  BY DEF FW!Repair, FW!ClearGuardJournal
<1>2. PICK ok \in BOOLEAN :
           /\ FW!Sweep(ok)
           /\ \/ ok /\ FW!ClearGuardJournal(TRUE) /\ pc' = "idle"
              \/ ok /\ FW!ClearGuardJournal(FALSE) /\ pc' = "down"
              \/ ~ok /\ pc' = "down" /\ UNCHANGED journal
  BY DEF FW!Repair
<1>3. \A u : Uses(u)' <=> Uses(u)
  BY <1>1 DEF Uses
<1>4. /\ JumpsFull' /\ table' \in BOOLEAN
      /\ jump' \in [FW!Tables -> BOOLEAN] /\ chain' \in [FW!Tables -> Seq(Rules)]
      /\ setting.faults \cap {"undo", "journal"} = {} => ok /\ OnlyOf("none")'
  <2>1. CASE journal # "none"
    <3>1. PICK backend : backend = journal
      OBVIOUS
    <3>2. FW!RemoveBackend(journal, ok)
      BY <1>2, <2>1 DEF FW!Sweep
    <3>3. FW!RemoveBackend(backend, ok)
      BY <3>1, <3>2, Zenon
    <3>4. setting.faults \cap {"undo", "journal"} = {} => OnlyOf(journal)
      BY <1>1, <2>1 DEF Tidy
    <3>5. setting.faults \cap {"undo", "journal"} = {} => OnlyOf(backend)
      BY <3>1, <3>4, Zenon
    <3>. QED
      BY <1>1, <3>3, <3>5, RemoveKeeps
  <2>2. CASE /\ journal = "none" /\ ok /\ table' = FALSE
             /\ chain' = [p \in FW!Tables |-> IF p \in setting.programs THEN FW!NoChain ELSE chain[p]]
             /\ jump' = [p \in FW!Tables |-> jump[p] /\ p \notin setting.programs]
    <3>1. \A t \in FW!Tables : chain'[t] = FW!NoChain /\ ~jump'[t]
      BY <2>2 DEF JumpsFull
    <3>2. jump' \in [FW!Tables -> BOOLEAN] /\ chain' \in [FW!Tables -> Seq(Rules)]
      <4>1. FW!NoChain \in Seq(Rules)
        BY DEF FW!NoChain, Rules
      <4>. QED
        BY <2>2, <4>1 DEF FirewallTypes
    <3>. QED
      BY <2>2, <3>1, <3>2 DEF JumpsFull, OnlyOf, Empty
  <2>3. CASE ~ok /\ FW!Faulty("undo") /\ UNCHANGED FW!rules
    <3>1. JumpsFull'
      BY <1>1, <2>3, JumpsKept DEF FW!rules
    <3>. QED
      BY <2>3, <3>1 DEF FirewallTypes, FW!rules, FW!Faulty
  <2>. QED
    BY <1>2, <2>1, <2>2, <2>3 DEF FW!Sweep
<1>5. FirewallTypes' /\ Building' /\ Reported'
  BY <1>1, <1>4 DEF FirewallTypes, Building, Reported, FW!Backends
<1>6. Tidy'
  <2>1. setting.faults \cap {"undo", "journal"} = {} => ok /\ journal' = "none" /\ pc' = "idle"
    BY <1>2, <1>4 DEF FW!ClearGuardJournal, FW!Faulty
  <2>. QED
    BY <1>1, <1>4, <2>1 DEF Tidy, CleanSteps
<1>. QED
  BY <1>1, <1>4, <1>5, <1>6 DEF SettingsSound

LEMMA FirewallStep ==
  ASSUME FirewallInv, [FW!Next]_(FW!vars)
  PROVE  FirewallInv'
<1>1. CASE UNCHANGED FW!vars
  <2>1. /\ UNCHANGED <<setting, pc, at, table, chain, jump, held, journal>>
        /\ JumpsFull'
    BY <1>1, JumpsKept DEF FW!vars, FW!rules, FirewallInv
  <2>. QED
    BY <2>1
      DEF FirewallInv, SettingsSound, FirewallTypes, Building, Filled, FW!Commands, Uses,
          Reported, Tidy, CleanSteps, OnlyOf, Empty, FirstProgram
<1>. QED
  BY <1>1, NftStep, ClearStep, BuildStep, UndoStep, EndStep, RemoveStep, FirewallRepairStep
    DEF FW!Next

LEMMA FirewallInvariant == ASSUME SettingsSound PROVE FW!Spec => []FirewallInv
BY FirewallInitially, FirewallStep, PTL DEF FW!Spec

(* A complete chain stops what the rules are for, and nothing else.          *)
LEMMA ChainsDecide ==
  ASSUME FirewallInv, NEW p \in FW!Packets
  PROVE  /\ FW!ChainStops(p) => FW!Stops(p)
         /\ (\A t \in FW!Tables : Uses(t) => jump[t]) /\ FW!Required(p) => FW!ChainStops(p)
<1>. USE DEF FirewallInv
<1>1. /\ setting.what \in {"kill", "guard"} /\ setting.families \subseteq {"v4", "v6"}
      /\ p.family \in {"v4", "v6"} /\ p.via \in {"lo", "tun", "other"}
      /\ p.marked \in BOOLEAN /\ p.config \in BOOLEAN
  BY DEF SettingsSound, FirewallTypes, FW!Packets
<1>2. ASSUME NEW t \in FW!Tables, FW!FamilyOf(t) = p.family, jump[t],
             NEW k \in DOMAIN chain[t], chain[t][k] \in {"reject", "rejectTun"},
             FW!Matches(chain[t][k], p),
             \A j \in 1..(k - 1) : ~FW!Matches(chain[t][j], p)
      PROVE  FW!Stops(p)
  <2>1. Full(t) /\ Uses(t)
    BY <1>2 DEF JumpsFull
  <2>2. CASE setting.what = "kill"
    <3>1. /\ Len(chain[t]) = 4 /\ chain[t][1] = "returnLo" /\ chain[t][2] = "returnTun"
          /\ chain[t][3] = "returnMarked" /\ chain[t][4] = "reject"
      BY <2>1, <2>2, FullRules
    <3>2. k = 4
      BY <1>2, <3>1 DEF FirewallTypes
    <3>3. p.via # "lo" /\ p.via # "tun" /\ ~p.marked
      <4>1. \A j \in 1..3 : ~FW!Matches(chain[t][j], p)
        BY <1>2, <3>2
      <4>2. /\ ~FW!Matches("returnLo", p) /\ ~FW!Matches("returnTun", p)
            /\ ~FW!Matches("returnMarked", p)
        BY <3>1, <4>1
      <4>. QED
        BY <4>2 DEF FW!Matches
    <3>4. p.family \in setting.families
      BY <1>2, <2>1, <2>2 DEF Uses, FW!FamilyOf, FW!Tables
    <3>. QED
      BY <1>1, <2>2, <3>3, <3>4 DEF FW!Stops
  <2>3. CASE setting.what # "kill" /\ t = "iptables"
    <3>1. Len(chain[t]) = 2 /\ chain[t][1] = "returnConfig" /\ chain[t][2] = "rejectTun"
      BY <2>1, <2>3, FullRules
    <3>2. k = 2
      BY <1>2, <3>1 DEF FirewallTypes
    <3>3. p.via = "tun" /\ ~(p.config /\ p.family = "v4")
      <4>1. \A j \in 1..1 : ~FW!Matches(chain[t][j], p)
        BY <1>2, <3>2
      <4>2. ~FW!Matches("returnConfig", p) /\ FW!Matches("rejectTun", p)
        BY <1>2, <3>1, <3>2, <4>1
      <4>. QED
        BY <4>2 DEF FW!Matches
    <3>. QED
      BY <2>3, <3>3 DEF FW!Stops
  <2>4. CASE setting.what # "kill" /\ t # "iptables"
    <3>1. Len(chain[t]) = 1 /\ chain[t][1] = "rejectTun"
      BY <2>1, <2>4, FullRules
    <3>2. k = 1
      BY <1>2, <3>1 DEF FirewallTypes
    <3>3. p.via = "tun" /\ p.family = "v6"
      BY <1>2, <2>4, <3>1, <3>2 DEF FW!Matches, FW!FamilyOf
    <3>. QED
      BY <2>4, <3>3 DEF FW!Stops
  <2>. QED
    BY <2>2, <2>3, <2>4
<1>3. ASSUME \A t \in FW!Tables : Uses(t) => jump[t], FW!Required(p)
      PROVE  FW!ChainStops(p)
  <2>1. PICK t \in FW!Tables : FW!FamilyOf(t) = p.family /\ Uses(t)
    BY <1>1, <1>3 DEF FW!Required, FW!Stops, FW!FamilyOf, FW!Tables, Uses
  <2>2. jump[t] /\ Full(t)
    BY <1>3, <2>1 DEF JumpsFull
  <2>3. CASE setting.what = "kill"
    <3>1. /\ Len(chain[t]) = 4 /\ chain[t][1] = "returnLo" /\ chain[t][2] = "returnTun"
          /\ chain[t][3] = "returnMarked" /\ chain[t][4] = "reject"
      BY <2>2, <2>3, FullRules
    <3>2. p.via = "other" /\ ~p.marked
      BY <1>3, <2>3 DEF FW!Required, FW!Stops
    <3>3. 4 \in DOMAIN chain[t] /\ \A j \in 1..(4 - 1) : ~FW!Matches(chain[t][j], p)
      <4>1. /\ ~FW!Matches("returnLo", p) /\ ~FW!Matches("returnTun", p)
            /\ ~FW!Matches("returnMarked", p)
        BY <3>2 DEF FW!Matches
      <4>2. \A j \in 1..(4 - 1) : j = 1 \/ j = 2 \/ j = 3
        OBVIOUS
      <4>3. 4 \in DOMAIN chain[t]
        BY <3>1 DEF FirewallTypes
      <4>. QED
        BY <3>1, <4>1, <4>2, <4>3
    <3>. QED
      BY <2>1, <2>2, <3>1, <3>3 DEF FW!ChainStops, FW!Matches
  <2>4. CASE setting.what # "kill" /\ t = "iptables"
    <3>1. Len(chain[t]) = 2 /\ chain[t][1] = "returnConfig" /\ chain[t][2] = "rejectTun"
      BY <2>2, <2>4, FullRules
    <3>2. p.via = "tun" /\ ~(p.config /\ p.family = "v4")
      BY <1>3, <2>4 DEF FW!Required, FW!Stops
    <3>3. 2 \in DOMAIN chain[t] /\ \A j \in 1..(2 - 1) : ~FW!Matches(chain[t][j], p)
      <4>1. ~FW!Matches("returnConfig", p)
        BY <1>1, <3>2 DEF FW!Matches
      <4>2. \A j \in 1..(2 - 1) : j = 1
        OBVIOUS
      <4>3. 2 \in DOMAIN chain[t]
        BY <3>1 DEF FirewallTypes
      <4>. QED
        BY <3>1, <4>1, <4>2, <4>3
    <3>. QED
      BY <2>1, <2>2, <3>1, <3>2, <3>3 DEF FW!ChainStops, FW!Matches
  <2>5. CASE setting.what # "kill" /\ t # "iptables"
    <3>1. Len(chain[t]) = 1 /\ chain[t][1] = "rejectTun"
      BY <2>2, <2>5, FullRules
    <3>2. p.via = "tun"
      BY <1>3, <2>5 DEF FW!Required, FW!Stops
    <3>3. 1 \in DOMAIN chain[t] /\ \A j \in 1..(1 - 1) : ~FW!Matches(chain[t][j], p)
      BY <3>1 DEF FirewallTypes
    <3>. QED
      BY <2>1, <2>2, <3>1, <3>2, <3>3 DEF FW!ChainStops, FW!Matches
  <2>. QED
    BY <2>3, <2>4, <2>5
<1>. QED
  BY <1>2, <1>3 DEF FW!ChainStops

LEMMA FirewallKept == ASSUME FirewallInv PROVE FW!FirewallSound
<1>1. FW!NeverTooMuch
  BY ChainsDecide DEF FW!NeverTooMuch, FW!Stopped
<1>2. FW!ReportedIsInEffect
  BY ChainsDecide
    DEF FW!ReportedIsInEffect, FW!Stopped, FW!Required, FirewallInv, Reported
<1>3. FW!NothingLeft
  <2>1. ASSUME pc = "idle", setting.faults \cap {"undo", "journal"} = {}
        PROVE  ~table /\ \A t \in FW!Tables : Empty(t)
    BY <2>1 DEF FirewallInv, Tidy, CleanSteps, OnlyOf
  <2>2. (\A t \in FW!Tables : Empty(t)) => chain = [p \in FW!Tables |-> FW!NoChain]
    BY DEF FirewallInv, FirewallTypes, Empty
  <2>. QED
    BY <2>1, <2>2 DEF FW!NothingLeft, FW!Stopped, FW!ChainStops, Empty
<1>. QED
  BY <1>1, <1>2, <1>3 DEF FW!FirewallSound

(* Between any two commands, of a call, a rollback, a removal or a repair,    *)
(* whatever fails and wherever the process dies, the rules stop nothing the  *)
(* finished ones let pass; once they are reported they stop all they are for; *)
(* and what ends leaves nothing behind where removing works.                 *)
THEOREM FirewallAlwaysSound == ASSUME SettingsSound PROVE FW!Spec => []FW!FirewallSound
<1>1. FirewallInv => FW!FirewallSound
  BY FirewallKept
<1>. QED
  BY <1>1, FirewallInvariant, PTL

-----------------------------------------------------------------------------
(* The DNS backends.                                                        *)

DnsBackends == {"resolved", "resolvconf", "networkManager", "file"}

(* Backends are probed that there are, the tunnel has servers of known       *)
(* families, and there are finitely many connections.                       *)
DnsSound ==
  /\ \A s \in DnsSettings :
       s.probed \subseteq DnsBackends /\ s.tunnel \subseteq DN!Families
  /\ IsFiniteSet(Connections)

FileServers == [family : DN!Families, owner : DN!Owners \cup {"router"}]
Saved == [connection : Connections, profile : DN!Owners]
NmSteps == {"nmRead", "nmModify", "nmVerify", "nmReconnect", "nmUndo"}

DnsTypes ==
  /\ setting \in DnsSettings
  /\ order \in Seq(DnsBackends) /\ tried \in 0..Len(order)
  /\ {profile, active} \subseteq [Connections -> DN!Owners]
  /\ file \subseteq FileServers
  /\ touched \in Seq(Saved)
  /\ pc \in {"nmRead", "nmModify"} => todo \in Seq(Connections) /\ todo # <<>>
  /\ pc \in {"fileWrite", "fileVerify"} =>
       ~DN!Managed /\ todo \in Seq(SUBSET FileServers) /\ Len(todo) = 1
  /\ pc = "on" /\ state.backend = "networkManager" => state.connections \in Seq(Saved)
  /\ pc = "on" /\ state.backend = "file" => ~DN!Managed /\ state.original \subseteq FileServers

(* What was saved brings the user's settings back.                          *)
UserProfiles == \A c \in Connections : profile[c] = "user"
BringsBack(saved) ==
  /\ \A k \in DOMAIN saved : saved[k].profile = "user"
  /\ \A c \in Connections :
       profile[c] = "user" \/ \E k \in DOMAIN saved : saved[k].connection = c
Restorable ==
  setting.faults \cap {"read", "reapply", "write", "restore"} = {} =>
    /\ pc \notin NmSteps \cup {"on"} => UserProfiles
    /\ pc \in NmSteps => BringsBack(touched)
    /\ pc \in {"nmRead", "nmModify"} =>
         /\ \A i \in DOMAIN todo : profile[todo[i]] = "user"
         /\ \A i, j \in DOMAIN todo : todo[i] = todo[j] => i = j
    /\ pc = "on" => IF state.backend = "networkManager" THEN BringsBack(state.connections)
                                                       ELSE UserProfiles
    /\ pc \in {"fileWrite", "fileVerify"} => todo[1] = DN!Servers("user")
    /\ pc = "on" /\ state.backend = "file" => state.original = DN!Servers("user")
    /\ ~DN!Managed /\ pc # "fileVerify" /\ ~(pc = "on" /\ state.backend = "file") =>
         file = DN!Servers("user")

DnsInv == DnsTypes /\ Restorable

(* The order in which the backends are tried names known ones.               *)
LEMMA OrderKnown ==
  ASSUME DnsSound, setting \in DnsSettings PROVE DN!Order \in Seq(DnsBackends)
<1>1. ASSUME NEW B PROVE DN!InOrder(B) \in Seq(DnsBackends)
  <2>. DEFINE if(b) == IF b \in B THEN <<b>> ELSE <<>>
  <2>1. \A b \in DnsBackends : if(b) \in Seq(DnsBackends)
    OBVIOUS
  <2>2. \A b \in DnsBackends, q \in Seq(DnsBackends) : q \o if(b) \in Seq(DnsBackends)
    BY <2>1
  <2>3. DN!InOrder(B) = if("resolved") \o if("resolvconf") \o if("networkManager") \o if("file")
    BY DEF DN!InOrder
  <2>. HIDE DEF if
  <2>. QED
    BY <2>1, <2>2, <2>3 DEF DnsBackends
<1>2. DN!Preferred \in DN!Probed => DN!Preferred \in DnsBackends
  BY DEF DN!Probed, DnsSound, DnsBackends
<1>. QED
  BY <1>1, <1>2 DEF DN!Order

LEMMA ServersKnown ==
  ASSUME DnsSound, DnsTypes
  PROVE  /\ DN!Servers("user") \subseteq FileServers /\ DN!Servers("tunnel") \subseteq FileServers
         /\ DN!FromNm \subseteq FileServers
<1>1. \A o \in DN!Owners : DN!Servers(o) \subseteq FileServers
  BY DEF DN!Servers, DnsSound, DnsTypes, FileServers, DN!Owners, DN!Families
<1>2. \A c \in Connections : active[c] \in DN!Owners
  BY DEF DnsTypes
<1>3. [family : {"v6"}, owner : {"router"}] \subseteq FileServers
  BY DEF FileServers, DN!Families
<1>4. UNION {DN!Servers(active[c]) : c \in Connections} \subseteq FileServers
  BY <1>1, <1>2
<1>5. DN!FromNm \subseteq FileServers
  BY <1>3, <1>4 DEF DN!FromNm
<1>. QED
  BY <1>1, <1>5 DEF DN!Owners

LEMMA DnsInitially == ASSUME DnsSound, DN!Init PROVE DnsInv
<1>1. \A c \in Connections : profile[c] = "user"
  BY DEF DN!Init
<1>2. {profile, active} \subseteq [Connections -> DN!Owners]
  BY DEF DN!Init, DN!Owners
<1>3. file \subseteq FileServers
  <2>1. \A o \in DN!Owners : DN!Servers(o) \subseteq FileServers
    BY DEF DN!Servers, DnsSound, DN!Init, FileServers, DN!Owners, DN!Families
  <2>2. UNION {DN!Servers(active[c]) : c \in Connections} \subseteq FileServers
    BY <1>2, <2>1
  <2>3. [family : {"v6"}, owner : {"router"}] \subseteq FileServers
    BY DEF FileServers, DN!Families
  <2>4. DN!FromNm \subseteq FileServers
    BY <2>2, <2>3 DEF DN!FromNm
  <2>. QED
    BY <2>1, <2>4 DEF DN!Init, DN!Owners
<1>4. DnsTypes
  BY <1>2, <1>3 DEF DnsTypes, DN!Init
<1>5. Restorable
  BY <1>1 DEF Restorable, UserProfiles, NmSteps, DN!Init, DN!Managed
<1>. QED
  BY <1>4, <1>5 DEF DnsInv

(* Restoring what was saved.                                                *)
LEMMA RestoreWorks ==
  ASSUME DnsTypes, NEW saved \in Seq(Saved), DN!Restore(saved), UNCHANGED setting
  PROVE  /\ {profile, active}' \subseteq [Connections -> DN!Owners]
         /\ "restore" \notin setting.faults /\ BringsBack(saved) => UserProfiles'
<1>1. CASE "restore" \in setting.faults
  BY <1>1 DEF DN!Restore, DN!Restored, DN!Faulty, DnsTypes
<1>2. CASE "restore" \notin setting.faults
  <2>. DEFINE of(c) == CHOOSE k \in DOMAIN saved : saved[k].connection = c
              known(c) == \E k \in DOMAIN saved : saved[k].connection = c
  <2>1. \A c : known(c) => of(c) \in DOMAIN saved
    OBVIOUS
  <2>2. profile' = [c \in Connections |-> IF known(c) THEN saved[of(c)].profile ELSE profile[c]]
    BY <1>2 DEF DN!Restore, DN!Restored, DN!Faulty
  <2>3. \A k \in DOMAIN saved : saved[k].profile \in DN!Owners
    <3>1. \A k \in DOMAIN saved : saved[k] \in Saved
      OBVIOUS
    <3>. QED
      BY <3>1 DEF Saved
  <2>. HIDE DEF of
  <2>4. profile' \in [Connections -> DN!Owners]
    BY <2>1, <2>2, <2>3 DEF DnsTypes
  <2>5. active' \in [Connections -> DN!Owners]
    BY <2>4 DEF DN!Restore, DnsTypes
  <2>6. BringsBack(saved) => UserProfiles'
    BY <2>1, <2>2 DEF BringsBack, UserProfiles
  <2>. QED
    BY <2>4, <2>5, <2>6
<1>. QED
  BY <1>1, <1>2

(* Steps that only find out what to do next.                                 *)
LEMMA SearchStep ==
  ASSUME DnsSound, DnsInv,
         \/ DN!Begin \/ DN!Try \/ DN!ResolvedDns \/ DN!ResolvedDomain \/ DN!Resolvconf
         \/ DN!Failed \/ DN!DeviceGone
  PROVE  DnsInv'
<1>. USE DEF DnsInv
<1>1. /\ UNCHANGED <<setting, profile, active, file, touched, todo>>
      /\ pc \notin NmSteps \cup {"fileWrite", "fileVerify", "on"} \/ UNCHANGED <<pc, state>>
  BY DEF DN!Begin, DN!Try, DN!ResolvedDns, DN!ResolvedDomain, DN!Resolvconf, DN!Failed,
         DN!DeviceGone, DN!nmVars, DN!callVars, NmSteps
<1>2. /\ \/ pc' \in {"try", "failed", "idle", "resolvedDomain"} \cup {DN!First[b] : b \in DnsBackends}
         \/ UNCHANGED <<pc, state>>
         \/ pc' = "on" /\ state'.backend \in {"resolved", "resolvconf"}
      /\ order' \in Seq(DnsBackends) /\ tried' \in 0..Len(order')
  <2>1. CASE DN!Begin
    BY <2>1, OrderKnown DEF DN!Begin, DnsTypes
  <2>2. CASE DN!Try
    <3>1. order' = order
      BY <2>2 DEF DN!Try
    <3>2. CASE tried = Len(order)
      BY <2>2, <3>1, <3>2 DEF DN!Try, DnsTypes
    <3>3. CASE tried # Len(order)
      <4>1. tried + 1 \in 1..Len(order)
        BY <3>3 DEF DnsTypes
      <4>2. order[tried + 1] \in DnsBackends
        BY <4>1 DEF DnsTypes
      <4>3. pc' = DN!First[order[tried + 1]] /\ tried' = tried + 1
        BY <2>2, <3>3 DEF DN!Try
      <4>. QED
        BY <3>1, <4>1, <4>2, <4>3 DEF DnsTypes
    <3>. QED
      BY <3>2, <3>3
  <2>3. CASE DN!ResolvedDns \/ DN!ResolvedDomain \/ DN!Resolvconf
    BY <2>3
      DEF DN!ResolvedDns, DN!ResolvedDomain, DN!Resolvconf, DN!Done, DN!NoState, DN!callVars,
          DnsTypes
  <2>4. CASE DN!Failed \/ DN!DeviceGone
    BY <2>4 DEF DN!Failed, DN!DeviceGone, DN!callVars, DnsTypes
  <2>. QED
    BY <2>1, <2>2, <2>3, <2>4
<1>3. {DN!First[b] : b \in DnsBackends} = {"resolvedDns", "resolvconf", "nmList", "fileRead"}
  BY DEF DN!First, DnsBackends
<1>4. DnsTypes'
  BY <1>1, <1>2, <1>3 DEF DnsTypes, DN!Managed
<1>5. Restorable'
  <2>1. (DN!Managed' <=> DN!Managed) /\ DN!Servers("user")' = DN!Servers("user")
        /\ (UserProfiles' <=> UserProfiles) /\ \A x : BringsBack(x)' <=> BringsBack(x)
    BY <1>1 DEF DN!Managed, DN!Servers, UserProfiles, BringsBack
  <2>2. CASE UNCHANGED <<pc, state>>
    BY <1>1, <2>1, <2>2 DEF Restorable, UserProfiles, BringsBack
  <2>3. CASE pc \notin NmSteps \cup {"fileWrite", "fileVerify", "on"}
             /\ pc' \notin NmSteps \cup {"fileWrite", "fileVerify", "on"}
    BY <1>1, <2>1, <2>3 DEF Restorable, NmSteps
  <2>4. CASE pc \notin NmSteps \cup {"fileWrite", "fileVerify", "on"}
             /\ pc' = "on" /\ state'.backend \in {"resolved", "resolvconf"}
    BY <1>1, <2>1, <2>4 DEF Restorable, NmSteps
  <2>. QED
    BY <1>1, <1>2, <1>3, <2>2, <2>3, <2>4 DEF NmSteps
<1>. QED
  BY <1>4, <1>5

(* The connections to do are all there are, each once.                       *)
LEMMA NmListStep == ASSUME DnsSound, DnsInv, DN!NmList PROVE DnsInv'
<1>. USE DEF DnsInv
<1>1. /\ pc = "nmList" /\ touched' = <<>>
      /\ UNCHANGED <<setting, order, tried, profile, active, file, state>>
      /\ \/ pc' = "try"
         \/ Connections # {} /\ todo' \in DN!SetToSeqs(Connections) /\ pc' = "nmRead"
  BY DEF DN!NmList, DN!nmVars
<1>2. ASSUME pc' = "nmRead"
      PROVE  /\ todo' \in Seq(Connections) /\ todo' # <<>>
             /\ \A i, j \in DOMAIN todo' : todo'[i] = todo'[j] => i = j
  <2>1. Connections # {} /\ todo' \in DN!SetToSeqs(Connections)
    BY <1>1, <1>2
  <2>2. PICK n : n = Cardinality(Connections) /\ n = DN!Cardinality(Connections)
    BY DEF Cardinality, DN!Cardinality
  <2>3. n \in Nat /\ n # 0
    BY <2>1, <2>2, FS_CardinalityType, FS_EmptySet DEF DnsSound
  <2>4. todo' \in [1..n -> Connections] /\ \A i, j \in 1..n : i # j => todo'[i] # todo'[j]
    BY <2>1, <2>2 DEF DN!SetToSeqs
  <2>. QED
    BY <2>3, <2>4
<1>3. DnsTypes'
  BY <1>1, <1>2 DEF DnsTypes, DN!Managed
<1>4. UserProfiles' <=> UserProfiles
  BY <1>1 DEF UserProfiles
<1>5. setting.faults \cap {"read", "reapply", "write", "restore"} = {} => UserProfiles
  BY <1>1 DEF Restorable, NmSteps
<1>6. UserProfiles /\ pc' = "nmRead" =>
        BringsBack(touched)' /\ \A i \in DOMAIN todo' : profile'[todo'[i]] = "user"
  BY <1>1, <1>2 DEF UserProfiles, BringsBack
<1>7. Restorable'
  BY <1>1, <1>2, <1>4, <1>5, <1>6 DEF Restorable, NmSteps, DN!Managed, DN!Servers
<1>. QED
  BY <1>3, <1>7

LEMMA NmModifyStep == ASSUME DnsInv, DN!NmModify PROVE DnsInv'
<1>. USE DEF DnsInv
<1>1. /\ pc = "nmModify" /\ UNCHANGED <<setting, order, tried, file, state>>
  BY DEF DN!NmModify
<1>2. PICK c \in Connections : c = Head(todo) /\ 1 \in DOMAIN todo /\ c = todo[1]
  BY <1>1 DEF DnsTypes
<1>3. CASE /\ profile' = [profile EXCEPT ![c] = "tunnel"]
           /\ active' = [active EXCEPT ![c] = "tunnel"]
           /\ touched' = Append(touched, [connection |-> c, profile |-> profile[c]])
           /\ todo' = Tail(todo)
           /\ pc' = IF Len(todo) = 1 THEN "nmVerify" ELSE "nmRead"
  <2>1. DnsTypes'
    <3>1. [connection |-> c, profile |-> profile[c]] \in Saved
      BY DEF DnsTypes, Saved
    <3>2. pc' = "nmRead" => todo' \in Seq(Connections) /\ todo' # <<>>
      <4>1. todo \in Seq(Connections) /\ todo # <<>>
        BY <1>1 DEF DnsTypes
      <4>2. Len(todo) \in Nat /\ Len(todo) # 0
        BY <4>1
      <4>3. todo' = Tail(todo) /\ todo' \in Seq(Connections) /\ Len(todo') = Len(todo) - 1
        BY <1>3, <4>1
      <4>4. pc' = "nmRead" => Len(todo) # 1
        BY <1>3
      <4>5. Len(todo) # 1 => Len(todo') # 0
        BY <4>2, <4>3
      <4>6. todo' = <<>> => Len(todo') = 0
        OBVIOUS
      <4>. QED
        BY <4>3, <4>4, <4>5, <4>6
    <3>. QED
      BY <1>1, <1>3, <3>1, <3>2 DEF DnsTypes, DN!Owners
  <2>2. ASSUME setting.faults \cap {"read", "reapply", "write", "restore"} = {}
        PROVE  /\ BringsBack(touched)'
               /\ \A i \in DOMAIN todo' : profile'[todo'[i]] = "user"
               /\ \A i, j \in DOMAIN todo' : todo'[i] = todo'[j] => i = j
    <3>1. /\ BringsBack(touched) /\ profile[c] = "user"
          /\ \A i \in DOMAIN todo : profile[todo[i]] = "user"
          /\ \A i, j \in DOMAIN todo : todo[i] = todo[j] => i = j
      BY <1>1, <1>2, <2>2 DEF Restorable, NmSteps
    <3>2. PICK n \in Nat : n = Len(touched) /\ DOMAIN touched = 1..n /\ Len(touched') = n + 1
                           /\ DOMAIN touched' = 1..(n + 1)
                           /\ (\A k \in 1..n : touched'[k] = touched[k])
                           /\ touched'[n + 1] = [connection |-> c, profile |-> profile[c]]
      BY <1>3 DEF DnsTypes
    <3>3. \A d \in Connections : profile'[d] = IF d = c THEN "tunnel" ELSE profile[d]
      BY <1>3 DEF DnsTypes
    <3>4. \A k \in DOMAIN touched' : touched'[k].profile = "user"
      BY <3>1, <3>2 DEF BringsBack
    <3>5. ASSUME NEW d \in Connections, profile'[d] # "user"
          PROVE  \E k \in DOMAIN touched' : touched'[k].connection = d
      <4>1. CASE d = c
        BY <3>2, <4>1
      <4>2. CASE d # c
        <5>1. PICK k \in 1..n : touched[k].connection = d
          BY <3>1, <3>2, <3>3, <3>5, <4>2 DEF BringsBack
        <5>. QED
          BY <3>2, <5>1
      <4>. QED
        BY <4>1, <4>2
    <3>6. todo' \in Seq(Connections) /\ \A i \in DOMAIN todo' : i + 1 \in DOMAIN todo /\ todo'[i] = todo[i + 1]
      BY <1>1, <1>3 DEF DnsTypes
    <3>7. \A i \in DOMAIN todo' : todo'[i] \in Connections /\ todo'[i] # c
      <4>1. ASSUME NEW i \in DOMAIN todo' PROVE todo'[i] \in Connections /\ todo'[i] # c
        <5>1. i \in Nat /\ i >= 1 /\ i + 1 \in DOMAIN todo /\ todo'[i] = todo[i + 1]
          BY <3>6
        <5>2. i + 1 # 1
          BY <5>1
        <5>. QED
          BY <1>2, <3>1, <3>6, <5>1, <5>2
      <4>. QED
        BY <4>1
    <3>8. \A i \in DOMAIN todo' : profile'[todo'[i]] = "user"
      BY <3>1, <3>3, <3>6, <3>7
    <3>9. \A i, j \in DOMAIN todo' : todo'[i] = todo'[j] => i = j
      <4>1. ASSUME NEW i \in DOMAIN todo', NEW j \in DOMAIN todo', todo'[i] = todo'[j] PROVE i = j
        <5>1. /\ i \in Nat /\ j \in Nat /\ i + 1 \in DOMAIN todo /\ j + 1 \in DOMAIN todo
              /\ todo[i + 1] = todo[j + 1]
          BY <3>6, <4>1
        <5>2. i + 1 = j + 1
          BY <3>1, <5>1
        <5>. QED
          BY <5>1, <5>2
      <4>. QED
        BY <4>1
    <3>. QED
      BY <3>4, <3>5, <3>8, <3>9 DEF BringsBack
  <2>3. Restorable'
    BY <1>1, <1>3, <2>2 DEF Restorable, NmSteps, DN!Managed, DN!Servers
  <2>. QED
    BY <2>1, <2>3
<1>4. CASE pc' = "nmUndo" /\ UNCHANGED <<active, touched>>
           /\ \/ UNCHANGED profile
              \/ "reapply" \in setting.faults /\ profile' = [profile EXCEPT ![c] = "tunnel"]
  <2>1. DnsTypes'
    BY <1>1, <1>4 DEF DnsTypes, DN!Owners
  <2>2. setting.faults \cap {"reapply"} = {} => BringsBack(touched)' = BringsBack(touched)
    BY <1>4 DEF BringsBack
  <2>3. Restorable'
    BY <1>1, <1>4, <2>2 DEF Restorable, NmSteps, DN!Managed, DN!Servers
  <2>. QED
    BY <2>1, <2>3
<1>. QED
  BY <1>2, <1>3, <1>4 DEF DN!NmModify, DN!Faulty

LEMMA NmOtherStep ==
  ASSUME DnsSound, DnsInv,
         DN!NmRead \/ DN!NmVerify \/ DN!NmReconnect \/ DN!Settle
  PROVE  DnsInv'
<1>. USE DEF DnsInv
<1>1. CASE DN!NmRead
  <2>1. /\ pc = "nmRead" /\ UNCHANGED <<setting, order, tried, profile, active, file, state, todo, touched>>
        /\ pc' = "nmModify" \/ (pc' = "try" /\ "read" \in setting.faults)
    BY <1>1 DEF DN!NmRead, DN!nmVars, DN!callVars, DN!Faulty
  <2>2. DnsTypes'
    BY <2>1 DEF DnsTypes, DN!Managed
  <2>3. UserProfiles' = UserProfiles /\ BringsBack(touched)' = BringsBack(touched)
    BY <2>1 DEF UserProfiles, BringsBack
  <2>. QED
    BY <2>1, <2>2, <2>3 DEF Restorable, NmSteps, DN!Managed, DN!Servers
<1>2. CASE DN!NmVerify
  <2>1. /\ pc = "nmVerify" /\ UNCHANGED <<setting, order, tried, profile, active, file, todo, touched>>
        /\ \/ pc' \in {"nmVerify", "nmUndo", "nmReconnect"}
           \/ pc' = "on" /\ state'.backend = "networkManager" /\ state'.connections = touched
    BY <1>2 DEF DN!NmVerify, DN!nmVars, DN!Done, DN!NoState
  <2>2. DnsTypes'
    BY <2>1 DEF DnsTypes, DN!Managed
  <2>3. /\ UserProfiles' = UserProfiles
        /\ BringsBack(touched)' = BringsBack(touched)
        /\ pc' = "on" => BringsBack(state.connections)' = BringsBack(touched)
    BY <2>1 DEF UserProfiles, BringsBack
  <2>. QED
    BY <2>1, <2>2, <2>3 DEF Restorable, NmSteps, DN!Managed, DN!Servers
<1>3. CASE DN!NmReconnect
  <2>1. /\ pc = "nmReconnect" /\ UNCHANGED <<setting, order, tried, profile, file, todo, touched, state>>
        /\ pc' \in {"nmVerify", "nmUndo"} /\ active' \in {active, profile}
    BY <1>3 DEF DN!NmReconnect
  <2>2. DnsTypes'
    BY <2>1 DEF DnsTypes, DN!Managed
  <2>3. UserProfiles' = UserProfiles /\ BringsBack(touched)' = BringsBack(touched)
    BY <2>1 DEF UserProfiles, BringsBack
  <2>. QED
    BY <2>1, <2>2, <2>3 DEF Restorable, NmSteps, DN!Managed, DN!Servers
<1>4. CASE DN!Settle
  <2>1. /\ UNCHANGED <<setting, pc, order, tried, profile, active, todo, touched, state>>
        /\ DN!Managed /\ file' = DN!FromNm
    BY <1>4 DEF DN!Settle, DN!callVars, DN!nmVars, DN!Managed
  <2>2. DnsTypes'
    BY <2>1, ServersKnown DEF DnsTypes, DN!Managed
  <2>3. /\ UserProfiles' = UserProfiles /\ BringsBack(touched)' = BringsBack(touched)
        /\ BringsBack(state.connections)' = BringsBack(state.connections)
    BY <2>1 DEF UserProfiles, BringsBack
  <2>. QED
    BY <2>1, <2>2, <2>3 DEF Restorable, NmSteps, DN!Managed, DN!Servers
<1>. QED
  BY <1>1, <1>2, <1>3, <1>4

LEMMA NmUndoStep == ASSUME DnsInv, DN!NmUndo PROVE DnsInv'
<1>. USE DEF DnsInv
<1>1. /\ pc = "nmUndo" /\ pc' = "try" /\ DN!Restore(touched)
      /\ UNCHANGED <<setting, order, tried, todo, touched, file, state>>
  BY DEF DN!NmUndo, DN!callVars
<1>2. PICK saved \in Seq(Saved) : saved = touched
  BY DEF DnsTypes
<1>3. DN!Restore(saved)
  BY <1>1, <1>2, Zenon
<1>4. BringsBack(touched) => BringsBack(saved)
  BY <1>2, Zenon
<1>5. /\ {profile, active}' \subseteq [Connections -> DN!Owners]
      /\ "restore" \notin setting.faults /\ BringsBack(saved) => UserProfiles'
  BY <1>1, <1>3, RestoreWorks
<1>6. DnsTypes'
  BY <1>1, <1>5 DEF DnsTypes, DN!Managed
<1>. QED
  BY <1>1, <1>4, <1>5, <1>6 DEF Restorable, NmSteps, DN!Managed, DN!Servers

(* The file is kept in memory while it is written and checked.               *)
LEMMA FileStep ==
  ASSUME DnsSound, DnsInv,
         DN!FileRead \/ DN!FileWrite \/ DN!FileVerify \/ DN!Overwrite
  PROVE  DnsInv'
<1>. USE DEF DnsInv
<1>1. /\ UNCHANGED <<setting, order, tried, profile, active, touched>>
      /\ pc \in {"fileRead", "fileWrite", "fileVerify"}
  BY DEF DN!FileRead, DN!FileWrite, DN!FileVerify, DN!Overwrite, DN!nmVars, DN!callVars
<1>2. /\ DN!Managed' = DN!Managed /\ \A o : DN!Servers(o)' = DN!Servers(o)
      /\ UserProfiles' = UserProfiles
      /\ {} \subseteq FileServers
  BY <1>1 DEF DN!Managed, DN!Servers, UserProfiles
<1>3. CASE DN!FileRead
  <2>1. /\ pc = "fileRead" /\ UNCHANGED <<file, state>>
        /\ \/ pc' = "try"
           \/ pc' = "fileWrite" /\ ~DN!Managed /\ todo' = <<file>>
    BY <1>3 DEF DN!FileRead
  <2>2. pc' = "fileWrite" => /\ todo' \in Seq(SUBSET FileServers) /\ Len(todo') = 1
                             /\ todo'[1] = file
    <3>1. PICK content \in SUBSET FileServers : content = file
      BY DEF DnsTypes
    <3>2. <<content>> \in Seq(SUBSET FileServers) /\ Len(<<content>>) = 1 /\ <<content>>[1] = content
      OBVIOUS
    <3>. QED
      BY <2>1, <3>1, <3>2
  <2>3. DnsTypes'
    BY <1>1, <1>2, <2>1, <2>2 DEF DnsTypes
  <2>. QED
    BY <1>1, <1>2, <2>1, <2>2, <2>3 DEF Restorable, NmSteps
<1>4. CASE DN!FileWrite
  <2>1. /\ pc = "fileWrite" /\ UNCHANGED <<state, todo>>
        /\ \/ pc' = "fileVerify" /\ file' = DN!Servers("tunnel")
           \/ pc' = "try" /\ file' \in {file, {}} /\ "write" \in setting.faults
    BY <1>4 DEF DN!FileWrite, DN!callVars, DN!Faulty
  <2>2. DnsTypes'
    BY <1>1, <1>2, <2>1, ServersKnown DEF DnsTypes
  <2>. QED
    BY <1>1, <1>2, <2>1, <2>2 DEF Restorable, NmSteps
<1>5. CASE DN!FileVerify
  <2>1. /\ pc = "fileVerify" /\ UNCHANGED todo /\ ~DN!Managed
        /\ todo \in Seq(SUBSET FileServers) /\ Len(todo) = 1
    BY <1>5 DEF DN!FileVerify, DN!callVars, DnsTypes
  <2>2. PICK original \in SUBSET FileServers : original = Head(todo) /\ original = todo[1]
    BY <2>1
  <2>3. \/ /\ pc' = "on" /\ UNCHANGED file
           /\ state'.backend = "file" /\ state'.original = original
        \/ /\ pc' = "try"
           /\ file' = original \/ ("restore" \in setting.faults /\ file' \in {file, {}})
    BY <1>5, <2>2 DEF DN!FileVerify, DN!Faulty, DN!Done, DN!NoState
  <2>4. DnsTypes'
    BY <1>1, <1>2, <2>1, <2>2, <2>3 DEF DnsTypes
  <2>. QED
    BY <1>1, <1>2, <2>1, <2>2, <2>3, <2>4 DEF Restorable, NmSteps
<1>6. CASE DN!Overwrite
  <2>1. /\ pc = "fileVerify" /\ UNCHANGED <<pc, todo, state>> /\ file' = DN!Servers("user")
    BY <1>6 DEF DN!Overwrite, DN!callVars
  <2>2. DnsTypes'
    BY <1>1, <1>2, <2>1, ServersKnown DEF DnsTypes
  <2>. QED
    BY <1>1, <1>2, <2>1, <2>2 DEF Restorable, NmSteps
<1>. QED
  BY <1>3, <1>4, <1>5, <1>6

LEMMA DnsCleanupStep == ASSUME DnsInv, DN!Cleanup PROVE DnsInv'
<1>. USE DEF DnsInv
<1>1. /\ pc = "on" /\ pc' = "idle" /\ UNCHANGED <<setting, order, tried, todo, touched>>
      /\ IF state.backend = "networkManager" THEN DN!Restore(state.connections)
                                            ELSE UNCHANGED <<profile, active>>
      /\ \/ file' = IF state.backend = "file" THEN state.original ELSE file
         \/ "restore" \in setting.faults
             /\ file' \in (IF state.backend = "file" THEN {file, {}} ELSE {file})
  BY DEF DN!Cleanup, DN!callVars, DN!nmVars, DN!Faulty
<1>2. /\ {profile, active}' \subseteq [Connections -> DN!Owners]
      /\ setting.faults \cap {"read", "reapply", "write", "restore"} = {} => UserProfiles'
  <2>1. CASE state.backend = "networkManager"
    <3>1. PICK saved \in Seq(Saved) : saved = state.connections
      BY <1>1, <2>1 DEF DnsTypes
    <3>2. DN!Restore(state.connections)
      BY <1>1, <2>1
    <3>3. DN!Restore(saved)
      BY <3>1, <3>2, Zenon
    <3>4. BringsBack(state.connections) => BringsBack(saved)
      BY <3>1, Zenon
    <3>5. /\ {profile, active}' \subseteq [Connections -> DN!Owners]
          /\ "restore" \notin setting.faults /\ BringsBack(saved) => UserProfiles'
      BY <1>1, <3>3, RestoreWorks
    <3>. QED
      BY <1>1, <2>1, <3>4, <3>5 DEF Restorable
  <2>2. CASE state.backend # "networkManager"
    <3>1. UserProfiles' = UserProfiles
      BY <1>1, <2>2 DEF UserProfiles
    <3>. QED
      BY <1>1, <2>2, <3>1 DEF Restorable, DnsTypes
  <2>. QED
    BY <2>1, <2>2
<1>3. DnsTypes'
  BY <1>1, <1>2 DEF DnsTypes, DN!Managed
<1>. QED
  BY <1>1, <1>2, <1>3 DEF Restorable, NmSteps, DN!Managed, DN!Servers

LEMMA DnsStep == ASSUME DnsSound, DnsInv, [DN!Next]_(DN!vars) PROVE DnsInv'
<1>1. CASE UNCHANGED DN!vars
  <2>1. UNCHANGED <<setting, pc, order, tried, profile, active, file, touched, todo, state>>
    BY <1>1 DEF DN!vars, DN!nmVars, DN!callVars
  <2>. QED
    BY <2>1 DEF DnsInv, DnsTypes, Restorable, UserProfiles, BringsBack, DN!Managed, DN!Servers
<1>. QED
  BY <1>1, SearchStep, NmListStep, NmModifyStep, NmOtherStep, NmUndoStep, FileStep, DnsCleanupStep
    DEF DN!Next, DN!Call

LEMMA DnsInvariant == ASSUME DnsSound PROVE DN!Spec => []DnsInv
BY DnsInitially, DnsStep, PTL DEF DN!Spec

LEMMA ForeignRefused == ASSUME DnsInv, [DN!Next]_(DN!vars) PROVE DN!NoForeignServer
<1>. SUFFICES ASSUME pc # "on", pc' = "on", state'.backend \in {"networkManager", "file"}
              PROVE  DN!Verified(file') /\ \A s \in file' : s.owner = "tunnel"
  BY DEF DN!NoForeignServer
<1>1. DN!NmVerify \/ DN!FileVerify
  <2>1. ASSUME DN!Try PROVE FALSE
    <3>1. pc' = DN!First[order[tried + 1]] /\ tried # Len(order)
      BY <2>1 DEF DN!Try
    <3>2. tried + 1 \in 1..Len(order)
      BY <3>1 DEF DnsInv, DnsTypes
    <3>3. order[tried + 1] \in DnsBackends
      BY <3>2 DEF DnsInv, DnsTypes
    <3>. QED
      BY <3>1, <3>3 DEF DnsBackends, DN!First
  <2>2. ASSUME DN!ResolvedDomain \/ DN!Resolvconf PROVE FALSE
    BY <2>2 DEF DN!ResolvedDomain, DN!Resolvconf, DN!Done, DN!NoState
  <2>. QED
    BY <2>1, <2>2
      DEF DN!Next, DN!Call, DN!vars, DN!Begin, DN!ResolvedDns, DN!NmList, DN!NmRead, DN!NmModify,
          DN!NmReconnect, DN!NmUndo, DN!FileRead, DN!FileWrite, DN!Failed, DN!Settle,
          DN!Overwrite, DN!Cleanup, DN!DeviceGone
<1>2. file' = file /\ DN!Verified(file)
  BY <1>1 DEF DN!NmVerify, DN!FileVerify
<1>3. DN!Verified(file')
  BY <1>1, <1>2 DEF DN!Verified, DN!NmVerify, DN!FileVerify
<1>4. ASSUME DN!Verified(file) PROVE \A s \in file : s.owner = "tunnel"
  <2>1. \A s \in file : s.family \in DN!Families
    BY <1>4 DEF DnsInv, DnsTypes, FileServers
  <2>. QED
    BY <1>4, <2>1 DEF DN!Verified
<1>. QED
  BY <1>4, <1>2, <1>3

(* When a backend whose servers are read from resolv.conf reports success,   *)
(* the file names the tunnel's servers, of all its families, and no others.  *)
THEOREM DnsNeverForeign ==
  ASSUME DnsSound PROVE DN!Spec => [][DN!NoForeignServer]_(DN!vars)
<1>1. DnsInv /\ [DN!Next]_(DN!vars) => DN!NoForeignServer
  BY ForeignRefused
<1>. QED
  BY <1>1, DnsInvariant, PTL DEF DN!Spec

LEMMA DnsRestoring == ASSUME DnsInv PROVE DN!Restores
BY DEF DnsInv, Restorable, UserProfiles, NmSteps, DN!Restores, DN!UserSettingsBack

(* Between two sessions every connection, and a plain resolv.conf, are the   *)
(* user's again, as long as reading a connection, applying a changed profile *)
(* to its device, writing and restoring do not fail.                        *)
THEOREM DnsAlwaysRestores == ASSUME DnsSound PROVE DN!Spec => []DN!Restores
<1>1. DnsInv => DN!Restores
  BY DnsRestoring
<1>. QED
  BY <1>1, DnsInvariant, PTL

-----------------------------------------------------------------------------
(* The service.                                                             *)

(* No client has the name of nobody, or of the service's own thread.         *)
ClientsNamed == SV!None \notin Clients /\ SV!Service \notin Clients

StartOf(c) == SV!Request(c, "start")
UndoOf(c) == SV!Request(c, "undo")

Holds(s, r) == \E i \in DOMAIN s : s[i] = r
AtMostOnce(s, r) == \A i, j \in DOMAIN s : s[i] = r /\ s[j] = r => i = j
(* Behind every start of c in s comes an undo of c.                          *)
Undone(s, c) ==
  \A i \in DOMAIN s : s[i] = StartOf(c) => \E j \in DOMAIN s : i < j /\ s[j] = UndoOf(c)

LEMMA RequestsDiffer ==
  /\ \A c, d, op : SV!Request(c, op) = StartOf(d) => c = d /\ op = "start"
  /\ \A c, d, op : SV!Request(c, op) = UndoOf(d) => c = d /\ op = "undo"
  /\ \A c, d : StartOf(c) # UndoOf(d)
BY DEF SV!Request, StartOf, UndoOf

LEMMA AppendHolds ==
  ASSUME NEW S, NEW s \in Seq(S), NEW x \in S
  PROVE  /\ Append(s, x) \in Seq(S)
         /\ \A r : Holds(Append(s, x), r) <=> Holds(s, r) \/ x = r
         /\ \A r : AtMostOnce(s, r) /\ (x = r => ~Holds(s, r)) => AtMostOnce(Append(s, x), r)
         /\ \A c : Undone(s, c) /\ x # StartOf(c) => Undone(Append(s, x), c)
         /\ \A c : x = UndoOf(c) => Undone(Append(s, x), c)
<1>1. PICK t : t = Append(s, x) /\ t \in Seq(S)
  <2>1. Append(s, x) \in Seq(S)
    OBVIOUS
  <2>. QED
    BY <2>1
<1>2. PICK n \in Nat : n = Len(s) /\ DOMAIN s = 1..n /\ DOMAIN t = 1..(n + 1)
  BY <1>1
<1>3. t[n + 1] = x /\ \A i \in 1..n : t[i] = s[i]
  BY <1>1, <1>2
<1>4. \A i \in 1..(n + 1) : i \in 1..n \/ i = n + 1
  BY <1>2
<1>5. \A r : Holds(t, r) <=> Holds(s, r) \/ x = r
  BY <1>2, <1>3, <1>4 DEF Holds
<1>6. \A r : AtMostOnce(s, r) /\ (x = r => ~Holds(s, r)) => AtMostOnce(t, r)
  BY <1>2, <1>3, <1>4 DEF AtMostOnce, Holds
<1>7. \A c : Undone(s, c) /\ x # StartOf(c) => Undone(t, c)
  BY <1>2, <1>3, <1>4 DEF Undone
<1>8. \A c : x = UndoOf(c) => Undone(t, c)
  <2>1. ASSUME NEW c, x = UndoOf(c), NEW i \in 1..(n + 1), t[i] = StartOf(c)
        PROVE  \E j \in 1..(n + 1) : i < j /\ t[j] = UndoOf(c)
    <3>1. i \in 1..n
      BY <1>3, <1>4, <2>1, RequestsDiffer
    <3>. QED
      BY <1>2, <1>3, <2>1, <3>1
  <2>. QED
    BY <1>2, <2>1 DEF Undone
<1>. QED
  BY <1>1, <1>5, <1>6, <1>7, <1>8

LEMMA RemoveHolds ==
  ASSUME NEW S, NEW s \in Seq(S), NEW k \in DOMAIN s
  PROVE  LET t == SV!RemoveAt(s, k)
         IN /\ t \in Seq(S)
            /\ \A r : Holds(t, r) => Holds(s, r)
            /\ \A r : Holds(s, r) /\ s[k] # r => Holds(t, r)
            /\ \A r : AtMostOnce(s, r) => AtMostOnce(t, r) /\ (s[k] = r => ~Holds(t, r))
            /\ \A c : Undone(s, c) /\ s[k] # UndoOf(c) => Undone(t, c)
            /\ \A c : Undone(s, c) /\ (\A i \in 1..(k - 1) : s[i] # StartOf(c)) => Undone(t, c)
<1>1. PICK t : t = SV!RemoveAt(s, k)
  OBVIOUS
<1>2. PICK n \in Nat : n + 1 = Len(s) /\ DOMAIN s = 1..(n + 1) /\ k \in 1..(n + 1)
  <2>1. Len(s) \in Nat /\ Len(s) # 0 /\ k \in 1..Len(s)
    OBVIOUS
  <2>. QED
    BY <2>1
<1>3. /\ t \in Seq(S) /\ Len(t) = n /\ DOMAIN t = 1..n
      /\ \A i \in 1..n : t[i] = IF i < k THEN s[i] ELSE s[i + 1]
  <2>1. t = SubSeq(s, 1, k - 1) \o SubSeq(s, k + 1, Len(s))
    BY <1>1 DEF SV!RemoveAt
  <2>2. /\ SubSeq(s, 1, k - 1) \in Seq(S) /\ Len(SubSeq(s, 1, k - 1)) = k - 1
        /\ \A i \in 1..(k - 1) : SubSeq(s, 1, k - 1)[i] = s[i]
    BY <1>2
  <2>3. /\ SubSeq(s, k + 1, Len(s)) \in Seq(S) /\ Len(SubSeq(s, k + 1, Len(s))) = n + 1 - k
        /\ \A i \in 1..(n + 1 - k) : SubSeq(s, k + 1, Len(s))[i] = s[i + k]
    BY <1>2
  <2>4. PICK a \in Seq(S), b \in Seq(S) :
             a = SubSeq(s, 1, k - 1) /\ b = SubSeq(s, k + 1, Len(s))
    BY <2>2, <2>3
  <2>5. t = a \o b /\ Len(a) = k - 1 /\ Len(b) = n + 1 - k
        /\ (\A i \in 1..(k - 1) : a[i] = s[i]) /\ \A i \in 1..(n + 1 - k) : b[i] = s[i + k]
    BY <2>1, <2>2, <2>3, <2>4
  <2>6. t \in Seq(S) /\ Len(t) = n
    <3>1. a \o b \in Seq(S) /\ Len(a \o b) = Len(a) + Len(b)
      BY <2>4
    <3>. QED
      BY <1>2, <2>5, <3>1
  <2>7. ASSUME NEW i \in 1..n PROVE t[i] = IF i < k THEN s[i] ELSE s[i + 1]
    <3>1. CASE i < k
      BY <1>2, <2>5, <3>1
    <3>2. CASE i >= k
      <4>1. t[i] = b[i - (k - 1)] /\ i - (k - 1) \in 1..(n + 1 - k)
        BY <1>2, <2>5, <3>2
      <4>2. b[i - (k - 1)] = s[(i - (k - 1)) + k]
        BY <2>5, <4>1
      <4>3. (i - (k - 1)) + k = i + 1
        BY <1>2
      <4>. QED
        BY <1>2, <3>2, <4>1, <4>2, <4>3
    <3>. QED
      BY <1>2, <3>1, <3>2
  <2>. QED
    BY <2>6, <2>7
<1>. HIDE DEF SV!RemoveAt
(* Where what was at i goes, and comes from.                                 *)
<1>. DEFINE to(i) == IF i < k THEN i ELSE i - 1
            from(i) == IF i < k THEN i ELSE i + 1
<1>4. \A i \in 1..(n + 1) : i # k => to(i) \in 1..n /\ t[to(i)] = s[i]
  <2>1. ASSUME NEW i \in 1..(n + 1), i # k PROVE to(i) \in 1..n /\ t[to(i)] = s[i]
    <3>1. CASE i < k
      BY <1>2, <1>3, <3>1
    <3>2. CASE i > k
      <4>1. i - 1 \in 1..n /\ ~(i - 1 < k) /\ (i - 1) + 1 = i
        BY <1>2, <3>2
      <4>. QED
        BY <1>2, <1>3, <3>2, <4>1
    <3>. QED
      BY <1>2, <2>1, <3>1, <3>2
  <2>. QED
    BY <2>1
<1>5. \A i \in 1..n : from(i) \in 1..(n + 1) /\ from(i) # k /\ t[i] = s[from(i)]
  BY <1>2, <1>3
<1>6. /\ \A i, j \in 1..n : from(i) = from(j) => i = j
      /\ \A i, j \in 1..(n + 1) : i # k /\ j # k /\ i < j => to(i) < to(j)
      /\ \A i \in 1..n : to(from(i)) = i
  BY <1>2
<1>. HIDE DEF to, from
<1>7. \A r : Holds(t, r) => Holds(s, r)
  BY <1>2, <1>3, <1>5 DEF Holds
<1>8. \A r : Holds(s, r) /\ s[k] # r => Holds(t, r)
  BY <1>2, <1>3, <1>4 DEF Holds
<1>9. \A r : AtMostOnce(s, r) => AtMostOnce(t, r) /\ (s[k] = r => ~Holds(t, r))
  BY <1>2, <1>3, <1>5, <1>6 DEF AtMostOnce, Holds
<1>10. ASSUME NEW c, Undone(s, c), s[k] # UndoOf(c) \/ \A i \in 1..(k - 1) : s[i] # StartOf(c)
       PROVE  Undone(t, c)
  <2>1. ASSUME NEW i \in 1..n, t[i] = StartOf(c)
        PROVE  \E j \in 1..n : i < j /\ t[j] = UndoOf(c)
    <3>1. from(i) \in 1..(n + 1) /\ from(i) # k /\ s[from(i)] = StartOf(c)
      BY <1>5, <2>1
    <3>2. PICK j \in 1..(n + 1) : from(i) < j /\ s[j] = UndoOf(c)
      BY <1>2, <1>10, <3>1 DEF Undone
    <3>3. j # k
      <4>1. CASE s[k] # UndoOf(c)
        BY <3>2, <4>1
      <4>2. CASE \A l \in 1..(k - 1) : s[l] # StartOf(c)
        <5>1. ~(from(i) < k)
          BY <1>2, <3>1, <4>2
        <5>. QED
          BY <1>2, <3>1, <3>2, <5>1
      <4>. QED
        BY <1>10, <4>1, <4>2
    <3>4. to(from(i)) < to(j) /\ to(j) \in 1..n /\ t[to(j)] = UndoOf(c)
      BY <1>4, <1>6, <3>1, <3>2, <3>3
    <3>. QED
      BY <1>6, <3>4
  <2>. QED
    BY <1>3, <2>1 DEF Undone
<1>11. /\ \A c : Undone(s, c) /\ s[k] # UndoOf(c) => Undone(t, c)
       /\ \A c : Undone(s, c) /\ (\A i \in 1..(k - 1) : s[i] # StartOf(c)) => Undone(t, c)
  BY <1>10
<1>. QED
  BY <1>1, <1>3, <1>7, <1>8, <1>9, <1>11

LEMMA TailHolds ==
  ASSUME NEW S, NEW s \in Seq(S), s # <<>>
  PROVE  /\ Tail(s) \in Seq(S) /\ Head(s) \in S
         /\ \A r : Holds(s, r) <=> Holds(Tail(s), r) \/ Head(s) = r
         /\ \A r : AtMostOnce(s, r) => AtMostOnce(Tail(s), r) /\ (Head(s) = r => ~Holds(Tail(s), r))
         /\ \A c : Undone(s, c) => Undone(Tail(s), c)
         /\ \A c : Undone(s, c) /\ Head(s) = StartOf(c) => Holds(Tail(s), UndoOf(c))
<1>1. /\ Tail(s) \in Seq(S) /\ Head(s) = s[1] /\ Head(s) \in S
      /\ Len(s) \in Nat /\ Len(s) # 0 /\ Len(Tail(s)) = Len(s) - 1
      /\ \A i \in 1..Len(Tail(s)) : Tail(s)[i] = s[i + 1]
  OBVIOUS
<1>2. PICK t \in {Tail(s)}, n \in {Len(Tail(s))} :
             /\ t = Tail(s) /\ n = Len(t) /\ n \in Nat /\ n + 1 = Len(s)
             /\ DOMAIN s = 1..(n + 1) /\ DOMAIN t = 1..n
  <2>1. /\ Len(Tail(s)) \in Nat /\ Len(Tail(s)) + 1 = Len(s)
        /\ DOMAIN s = 1..(Len(Tail(s)) + 1) /\ DOMAIN Tail(s) = 1..Len(Tail(s))
    BY <1>1
  <2>. QED
    BY <2>1
<1>3. Head(s) = s[1] /\ Head(s) \in S /\ \A i \in 1..n : t[i] = s[i + 1] /\ i + 1 \in 1..(n + 1)
  BY <1>1, <1>2
<1>4. \A i \in 1..(n + 1) : i = 1 \/ (i - 1 \in 1..n /\ t[i - 1] = s[i])
  <2>1. ASSUME NEW i \in 1..(n + 1), i # 1 PROVE i - 1 \in 1..n /\ (i - 1) + 1 = i
    BY <1>2, <2>1
  <2>. QED
    BY <1>3, <2>1
<1>5. \A r : Holds(s, r) <=> Holds(t, r) \/ Head(s) = r
  <2>1. \A r : Holds(t, r) => Holds(s, r)
    BY <1>2, <1>3 DEF Holds
  <2>2. \A r : Head(s) = r => Holds(s, r)
    <3>1. 1 \in 1..(n + 1)
      BY <1>2
    <3>. QED
      BY <1>2, <1>3, <3>1 DEF Holds
  <2>3. \A r : Holds(s, r) => Holds(t, r) \/ Head(s) = r
    <3>1. ASSUME NEW r, NEW i \in 1..(n + 1), s[i] = r, Head(s) # r PROVE \E j \in 1..n : t[j] = r
      BY <1>3, <1>4, <3>1
    <3>. QED
      BY <1>2, <3>1 DEF Holds
  <2>. QED
    BY <2>1, <2>2, <2>3
<1>6. ASSUME NEW r, AtMostOnce(s, r) PROVE AtMostOnce(t, r) /\ (Head(s) = r => ~Holds(t, r))
  <2>1. ASSUME NEW i \in 1..n, NEW j \in 1..n, t[i] = r, t[j] = r PROVE i = j
    <3>1. i + 1 = j + 1
      BY <1>2, <1>3, <1>6, <2>1 DEF AtMostOnce
    <3>. QED
      BY <3>1
  <2>2. ASSUME Head(s) = r, NEW i \in 1..n, t[i] = r PROVE FALSE
    <3>1. 1 \in 1..(n + 1) /\ i + 1 # 1
      BY <1>2
    <3>. QED
      BY <1>2, <1>3, <1>6, <2>2, <3>1 DEF AtMostOnce
  <2>. QED
    BY <1>2, <2>1, <2>2 DEF AtMostOnce, Holds
<1>7. ASSUME NEW c, Undone(s, c) PROVE Undone(t, c) /\ (Head(s) = StartOf(c) => Holds(t, UndoOf(c)))
  <2>1. ASSUME NEW i \in 1..(n + 1), s[i] = StartOf(c)
        PROVE  \E j \in 1..n : i - 1 < j /\ t[j] = UndoOf(c)
    <3>1. PICK j \in 1..(n + 1) : i < j /\ s[j] = UndoOf(c)
      BY <1>2, <1>7, <2>1 DEF Undone
    <3>2. j - 1 \in 1..n /\ t[j - 1] = s[j] /\ i - 1 < j - 1
      BY <1>2, <1>4, <3>1
    <3>. QED
      BY <3>1, <3>2
  <2>2. Undone(t, c)
    <3>1. ASSUME NEW i \in 1..n, t[i] = StartOf(c)
          PROVE  \E j \in 1..n : i < j /\ t[j] = UndoOf(c)
      <4>1. i + 1 \in 1..(n + 1) /\ s[i + 1] = StartOf(c) /\ (i + 1) - 1 = i
        BY <1>3, <3>1
      <4>. QED
        BY <2>1, <4>1
    <3>. QED
      BY <1>2, <3>1 DEF Undone
  <2>3. ASSUME Head(s) = StartOf(c) PROVE Holds(t, UndoOf(c))
    <3>1. 1 \in 1..(n + 1) /\ s[1] = StartOf(c)
      BY <1>2, <1>3, <2>3
    <3>. QED
      BY <1>2, <2>1, <3>1 DEF Holds
  <2>. QED
    BY <2>2, <2>3
<1>. QED
  BY <1>1, <1>2, <1>5, <1>6, <1>7

ServiceTypes ==
  /\ service \in {"down", "repairing", "serving", "stopping", "leaving"}
  /\ {backlog, threads, channel, working} \subseteq Seq(SV!Requests)
  /\ Len(working) <= 1 /\ running \in Clients \cup {SV!None}
  /\ call \in [Clients -> {"idle", "info", "start", "stop", "undo"}]
  /\ outcome \in [Clients -> {SV!None, "ok", "error"}]

(* A process that is not there, or repairs, has read nothing.                *)
Resting == service \in {"down", "repairing"}
NothingRead == Resting => working = <<>> /\ channel = <<>> /\ threads = <<>>

(* A request is somewhere on its way from its client to the worker.          *)
OnItsWay(r) == Holds(working, r) \/ Holds(channel, r) \/ Holds(threads, r) \/ Holds(backlog, r)

(* A client sends one start.                                                *)
StartsOnce(c) ==
  LET r == StartOf(c)
  IN /\ AtMostOnce(channel, r) /\ AtMostOnce(threads, r) /\ AtMostOnce(backlog, r)
     /\ Holds(working, r) => ~Holds(channel, r) /\ ~Holds(threads, r) /\ ~Holds(backlog, r)
     /\ Holds(channel, r) => ~Holds(threads, r) /\ ~Holds(backlog, r)
     /\ Holds(threads, r) => ~Holds(backlog, r)

(* An undo of c is behind every start of c that is on its way.               *)
StartsUndone(c) ==
  LET later == Holds(threads, UndoOf(c)) \/ Holds(backlog, UndoOf(c))
  IN /\ Holds(working, StartOf(c)) => Holds(channel, UndoOf(c)) \/ later
     /\ Undone(channel, c) \/ later
     /\ Undone(threads, c) \/ Holds(backlog, UndoOf(c))
     /\ Undone(backlog, c)

InOrder == system.faults \cap {"slowThread", "stop"} = {}

(* A start nobody waits for any more is undone, be it on its way or in effect.*)
ClientInv(c) ==
  /\ call[c] # "idle" => outcome[c] = SV!None
  /\ call[c] \in {"idle", "info"} /\ outcome[c] = SV!None => ~OnItsWay(StartOf(c))
  /\ StartsOnce(c)
  /\ ~SV!Linux => ~OnItsWay(UndoOf(c))
  /\ system.platform = "linux" /\ Resting => ~Holds(backlog, StartOf(c))
  /\ InOrder /\ call[c] # "start" => StartsUndone(c)
  /\ InOrder /\ ~Resting /\ running = c /\ outcome[c] # "ok" => OnItsWay(UndoOf(c))

ServiceInv == ServiceTypes /\ NothingRead /\ \A c \in Clients : ClientInv(c)

LEMMA EmptyHolds ==
  /\ \A r : ~Holds(<<>>, r) /\ AtMostOnce(<<>>, r)
  /\ \A s, c : ~Holds(s, StartOf(c)) => Undone(s, c)
BY DEF Holds, AtMostOnce, Undone

LEMMA ServiceInitially == ASSUME ClientsNamed, SV!Init PROVE ServiceInv
<1>1. ServiceTypes /\ NothingRead
  BY DEF ServiceTypes, NothingRead, SV!Init
<1>2. ASSUME NEW c \in Clients PROVE ClientInv(c)
  <2>1. /\ backlog = <<>> /\ threads = <<>> /\ channel = <<>> /\ working = <<>>
        /\ call[c] = "idle" /\ outcome[c] = SV!None /\ running # c
    BY DEF SV!Init, ClientsNamed
  <2>. QED
    BY <2>1, EmptyHolds DEF ClientInv, OnItsWay, StartsOnce, StartsUndone
<1>. QED
  BY <1>1, <1>2 DEF ServiceInv

(* What a client's request looks like.                                      *)
LEMMA RequestForms ==
  ASSUME ClientsNamed
  PROVE  /\ \A c \in Clients, op \in {"info", "start", "stop", "undo"} : SV!Request(c, op) \in SV!Requests
         /\ \A op \in {"poke", "status", "stop"} : SV!Request(SV!Service, op) \in SV!Requests
         /\ \A c \in Clients : StartOf(c) \in SV!Requests /\ UndoOf(c) \in SV!Requests
         /\ \A c \in Clients : SV!Request(c, "idle") \notin SV!Requests
         /\ \A r \in SV!Requests : r.client \in Clients =>
              r.op \in {"info", "start", "stop", "undo"} /\ r = SV!Request(r.client, r.op)
         /\ \A r \in SV!Requests : r.client \notin Clients =>
              /\ r.op \in {"poke", "status", "stop"} /\ r.client = SV!Service
              /\ \A c \in Clients : r # StartOf(c) /\ r # UndoOf(c)
BY DEF SV!Requests, SV!Request, ClientsNamed, StartOf, UndoOf

(* Nothing a client waits for, or that comes from it, has changed.           *)
LEMMA SameClient ==
  ASSUME NEW c \in Clients, ClientInv(c),
         UNCHANGED <<system, service, backlog, threads, channel, working, running>>,
         call'[c] = call[c], outcome'[c] = outcome[c]
  PROVE  ClientInv(c)'
BY DEF ClientInv, OnItsWay, StartsOnce, StartsUndone, Resting, InOrder, SV!Linux, Holds, AtMostOnce,
       Undone

(* Connections that are closed tell their clients.                          *)
LEMMA ClosedTells ==
  ASSUME ServiceTypes, NEW R, SV!Closed(R)
  PROVE  /\ call' \in [Clients -> {"idle", "info", "start", "stop", "undo"}]
         /\ outcome' \in [Clients -> {SV!None, "ok", "error"}]
         /\ \A c \in Clients :
              IF SV!Request(c, call[c]) \in R
                THEN call'[c] = "idle" /\ outcome'[c] = "error"
                ELSE call'[c] = call[c] /\ outcome'[c] = outcome[c]
BY DEF ServiceTypes, SV!Closed

LEMMA ClientCallStep ==
  ASSUME ClientsNamed, ServiceInv, NEW d \in Clients, SV!Call(d) \/ SV!TimeOut(d)
  PROVE  ServiceInv'
<1>. USE DEF ServiceInv
<1>1. UNCHANGED <<system, service, threads, channel, working, running>>
  BY DEF SV!Call, SV!TimeOut, SV!serverVars
<1>2. ASSUME NEW op \in {"info", "stop", "undo"}, SV!Connect(d, op), UNCHANGED outcome,
             IF op = "undo" THEN call[d] = "start" /\ SV!Linux
                            ELSE call[d] = "idle" /\ outcome[d] = SV!None
      PROVE  ServiceInv'
  <2>1. PICK r \in SV!Requests : r = SV!Request(d, op)
    BY RequestForms
  <2>2. call' = [call EXCEPT ![d] = op] /\ backlog' = Append(backlog, r)
    BY <1>2, <2>1 DEF SV!Connect
  <2>3. backlog \in Seq(SV!Requests)
    BY DEF ServiceTypes
  <2>4. /\ backlog' \in Seq(SV!Requests)
        /\ \A x : Holds(backlog', x) <=> Holds(backlog, x) \/ r = x
        /\ \A x : AtMostOnce(backlog, x) /\ (r = x => ~Holds(backlog, x)) => AtMostOnce(backlog', x)
        /\ \A c : Undone(backlog, c) /\ r # StartOf(c) => Undone(backlog', c)
        /\ \A c : r = UndoOf(c) => Undone(backlog', c)
    BY <2>2, <2>3, AppendHolds
  <2>5. ServiceTypes' /\ NothingRead'
    BY <1>1, <1>2, <2>2, <2>4 DEF ServiceTypes, NothingRead, Resting
  <2>6. ASSUME NEW c \in Clients PROVE ClientInv(c)'
    <3>1. r # StartOf(c) /\ (r = UndoOf(c) => c = d /\ op = "undo")
      BY <1>2, <2>1, RequestsDiffer
    <3>2. ClientInv(c) /\ (op = "undo" => r = UndoOf(d))
      BY <2>1 DEF UndoOf
    <3>3. call'[c] = (IF c = d THEN op ELSE call[c]) /\ outcome'[c] = outcome[c]
      BY <2>2, <1>2 DEF ServiceTypes
    <3>. QED
      BY <1>1, <1>2, <2>4, <3>1, <3>2, <3>3
        DEF ClientInv, OnItsWay, StartsOnce, StartsUndone, Resting, InOrder, SV!Linux
  <2>. QED
    BY <2>5, <2>6
<1>3. ASSUME SV!End(d, "error"), UNCHANGED backlog, call[d] \notin {"idle", "start"}, SV!Linux
      PROVE  ServiceInv'
  <2>1. ServiceTypes' /\ NothingRead'
    BY <1>1, <1>3 DEF SV!End, ServiceTypes, NothingRead, Resting
  <2>2. ASSUME NEW c \in Clients PROVE ClientInv(c)'
    <3>1. CASE c # d
      <4>1. call'[c] = call[c] /\ outcome'[c] = outcome[c]
        BY <1>3, <3>1 DEF SV!End, ServiceTypes
      <4>. QED
        BY <1>1, <1>3, <4>1, SameClient
    <3>2. CASE c = d
      <4>1. call'[c] = "idle" /\ outcome'[c] = "error" /\ outcome[c] = SV!None
        BY <1>3, <3>2 DEF SV!End, ServiceTypes, ClientInv
      <4>. QED
        BY <1>1, <1>3, <3>2, <4>1
          DEF ClientInv, OnItsWay, StartsOnce, StartsUndone, Resting, InOrder, SV!Linux, SV!None,
              Holds, AtMostOnce, Undone
    <3>. QED
      BY <3>1, <3>2
  <2>. QED
    BY <2>1, <2>2
<1>4. CASE SV!Call(d)
  BY <1>2, <1>4 DEF SV!Call
<1>5. CASE SV!TimeOut(d)
  BY <1>2, <1>3, <1>5 DEF SV!TimeOut, SV!Undo, SV!GiveUp
<1>. QED
  BY <1>4, <1>5

(* A connection that is dropped before it was accepted.                      *)
LEMMA DropStep ==
  ASSUME ClientsNamed, ServiceInv, NEW k \in DOMAIN backlog,
         backlog' = SV!RemoveAt(backlog, k), SV!Closed({backlog[k]}),
         UNCHANGED <<system, threads, working, running>>,
         \/ system.platform = "linux" /\ service = "down" /\ UNCHANGED <<service, channel>>
         \/ ~SV!Linux /\ UNCHANGED <<service, channel>>
         \/ /\ ~SV!Linux /\ ~Resting /\ service' = "stopping"
            /\ channel' = Append(channel, SV!Request(SV!Service, "status"))
  PROVE  ServiceInv'
<1>. USE DEF ServiceInv
<1>1. PICK x \in SV!Requests : x = backlog[k]
  BY DEF ServiceTypes
<1>2. backlog \in Seq(SV!Requests) /\ channel \in Seq(SV!Requests)
  BY DEF ServiceTypes
<1>3. /\ backlog' \in Seq(SV!Requests)
      /\ \A r : Holds(backlog', r) => Holds(backlog, r)
      /\ \A r : Holds(backlog, r) /\ x # r => Holds(backlog', r)
      /\ \A r : AtMostOnce(backlog, r) => AtMostOnce(backlog', r) /\ (x = r => ~Holds(backlog', r))
      /\ \A c : Undone(backlog, c) /\ x # UndoOf(c) => Undone(backlog', c)
  BY <1>1, <1>2, RemoveHolds
<1>4. Holds(backlog, x)
  BY <1>1 DEF Holds
<1>5. SV!Closed({x})
  BY <1>1
<1>6. /\ call' \in [Clients -> {"idle", "info", "start", "stop", "undo"}]
      /\ outcome' \in [Clients -> {SV!None, "ok", "error"}]
      /\ \A c \in Clients :
           IF SV!Request(c, call[c]) = x
             THEN call'[c] = "idle" /\ outcome'[c] = "error"
             ELSE call'[c] = call[c] /\ outcome'[c] = outcome[c]
  BY <1>5, ClosedTells
<1>7. SV!Request(SV!Service, "status") \in SV!Requests
  BY RequestForms
<1>8. /\ channel' \in Seq(SV!Requests)
      /\ \A c \in Clients : /\ Holds(channel', StartOf(c)) <=> Holds(channel, StartOf(c))
                            /\ Holds(channel', UndoOf(c)) <=> Holds(channel, UndoOf(c))
                            /\ AtMostOnce(channel, StartOf(c)) => AtMostOnce(channel', StartOf(c))
                            /\ Undone(channel, c) => Undone(channel', c)
  <2>1. CASE UNCHANGED channel
    BY <1>2, <2>1
  <2>2. CASE channel' = Append(channel, SV!Request(SV!Service, "status"))
    <3>1. \A c \in Clients : /\ SV!Request(SV!Service, "status") # StartOf(c)
                             /\ SV!Request(SV!Service, "status") # UndoOf(c)
      BY RequestsDiffer DEF ClientsNamed
    <3>. QED
      BY <1>2, <1>7, <2>2, <3>1, AppendHolds
  <2>. QED
    BY <2>1, <2>2
<1>9. ServiceTypes' /\ NothingRead'
  BY <1>3, <1>6, <1>8 DEF ServiceTypes, NothingRead, Resting
<1>10. ASSUME NEW c \in Clients PROVE ClientInv(c)'
  <2>1. ClientInv(c) /\ NothingRead
    OBVIOUS
  <2>2. CASE SV!Request(c, call[c]) # x
    <3>1. call'[c] = call[c] /\ outcome'[c] = outcome[c]
      BY <1>6, <2>2
    <3>2. x = UndoOf(c) => system.platform = "linux" /\ service = "down"
      BY <1>4, <2>1 DEF ClientInv, OnItsWay
    <3>. QED
      BY <1>3, <1>4, <1>8, <2>1, <3>1, <3>2, EmptyHolds
        DEF ClientInv, OnItsWay, StartsOnce, StartsUndone, Resting, InOrder, SV!Linux, NothingRead
  <2>3. CASE SV!Request(c, call[c]) = x
    <3>1. call'[c] = "idle" /\ outcome'[c] = "error"
      BY <1>6, <2>3
    <3>2. call[c] # "idle" /\ outcome[c] = SV!None
      BY <2>1, <2>3, RequestForms DEF ClientInv
    <3>3. (x = StartOf(c) <=> call[c] = "start") /\ (x = UndoOf(c) <=> call[c] = "undo")
      BY <2>3, RequestsDiffer DEF StartOf, UndoOf
    <3>4. x = UndoOf(c) => system.platform = "linux" /\ service = "down"
      BY <1>4, <2>1 DEF ClientInv, OnItsWay
    <3>. QED
      BY <1>3, <1>4, <1>8, <2>1, <3>1, <3>2, <3>3, <3>4, EmptyHolds
        DEF ClientInv, OnItsWay, StartsOnce, StartsUndone, Resting, InOrder, SV!Linux, NothingRead,
            SV!None
  <2>. QED
    BY <2>2, <2>3
<1>. QED
  BY <1>9, <1>10

(* The process starts, repairs and is asked to stop; an instance is created. *)
LEMMA ProcessStep ==
  ASSUME ClientsNamed, ServiceInv,
         SV!StartService \/ SV!Repair \/ SV!RequestStop \/ SV!CreateInstance
  PROVE  ServiceInv'
<1>. USE DEF ServiceInv
<1>1. UNCHANGED <<system, threads, channel, working, call, outcome>>
  BY DEF SV!StartService, SV!Repair, SV!RequestStop, SV!CreateInstance
<1>2. CASE SV!RequestStop
  <2>1. PICK r \in SV!Requests : r = SV!Request(SV!Service, "poke")
    BY RequestForms
  <2>2. /\ backlog' = backlog \/ backlog' = Append(backlog, r)
        /\ UNCHANGED <<service, running>>
    BY <1>2, <2>1 DEF SV!RequestStop, SV!PokeServer
  <2>3. backlog \in Seq(SV!Requests)
    BY DEF ServiceTypes
  <2>4. \A c \in Clients : r # StartOf(c) /\ r # UndoOf(c)
    BY <2>1, RequestsDiffer DEF ClientsNamed
  <2>5. /\ backlog' \in Seq(SV!Requests)
        /\ \A c \in Clients :
             /\ Holds(backlog', StartOf(c)) <=> Holds(backlog, StartOf(c))
             /\ Holds(backlog', UndoOf(c)) <=> Holds(backlog, UndoOf(c))
             /\ AtMostOnce(backlog, StartOf(c)) => AtMostOnce(backlog', StartOf(c))
             /\ Undone(backlog, c) => Undone(backlog', c)
    <3>1. CASE backlog' = backlog
      BY <2>3, <3>1
    <3>2. CASE backlog' = Append(backlog, r)
      BY <2>3, <2>4, <3>2, AppendHolds
    <3>. QED
      BY <2>2, <3>1, <3>2
  <2>6. ServiceTypes' /\ NothingRead'
    BY <1>1, <2>2, <2>5 DEF ServiceTypes, NothingRead, Resting
  <2>7. ASSUME NEW c \in Clients PROVE ClientInv(c)'
    <3>1. ClientInv(c)
      OBVIOUS
    <3>. QED
      BY <1>1, <2>2, <2>5, <3>1
        DEF ClientInv, OnItsWay, StartsOnce, StartsUndone, Resting, InOrder, SV!Linux
  <2>. QED
    BY <2>6, <2>7
<1>3. CASE SV!StartService \/ SV!Repair \/ SV!CreateInstance
  <2>1. /\ UNCHANGED backlog
        /\ \/ UNCHANGED <<service, running>>
           \/ Resting /\ service' \in {"repairing", "down"} /\ UNCHANGED running
           \/ Resting /\ service' = "serving" /\ running' = SV!None
    BY <1>3 DEF SV!StartService, SV!Repair, SV!CreateInstance, Resting
  <2>2. ServiceTypes' /\ NothingRead'
    BY <1>1, <2>1 DEF ServiceTypes, NothingRead, Resting
  <2>3. ASSUME NEW c \in Clients PROVE ClientInv(c)'
    <3>1. ClientInv(c) /\ c # SV!None
      BY DEF ClientsNamed
    <3>. QED
      BY <1>1, <2>1, <3>1
        DEF ClientInv, OnItsWay, StartsOnce, StartsUndone, Resting, InOrder, SV!Linux
  <2>. QED
    BY <2>2, <2>3
<1>. QED
  BY <1>2, <1>3

(* A connection is accepted: on Linux the oldest.                            *)
LEMMA AcceptStep == ASSUME ClientsNamed, ServiceInv, SV!Accept PROVE ServiceInv'
<1>. USE DEF ServiceInv
<1>1. /\ UNCHANGED <<system, service, channel, working, running, call, outcome>>
      /\ service = "serving"
  BY DEF SV!Accept
<1>2. PICK k \in DOMAIN backlog :
           /\ SV!Linux => k = 1
           /\ threads' = Append(threads, backlog[k]) /\ backlog' = SV!RemoveAt(backlog, k)
  <2>1. PICK k \in IF SV!Linux THEN {1} ELSE DOMAIN backlog :
             /\ threads' = Append(threads, backlog[k]) /\ backlog' = SV!RemoveAt(backlog, k)
    BY DEF SV!Accept
  <2>2. backlog # <<>> /\ backlog \in Seq(SV!Requests)
    BY DEF SV!Accept, ServiceTypes
  <2>3. 1 \in DOMAIN backlog
    BY <2>2
  <2>. QED
    BY <2>1, <2>3
<1>3. /\ backlog \in Seq(SV!Requests) /\ threads \in Seq(SV!Requests)
      /\ \A i \in 1..(k - 1) : ~SV!Linux
  BY <1>2 DEF ServiceTypes
<1>4. PICK x \in SV!Requests : x = backlog[k]
  BY <1>3
<1>5. /\ backlog' \in Seq(SV!Requests)
      /\ \A r : Holds(backlog', r) => Holds(backlog, r)
      /\ \A r : Holds(backlog, r) /\ x # r => Holds(backlog', r)
      /\ \A r : AtMostOnce(backlog, r) => AtMostOnce(backlog', r) /\ (x = r => ~Holds(backlog', r))
      /\ \A c : Undone(backlog, c) /\ (x # UndoOf(c) \/ SV!Linux) => Undone(backlog', c)
  BY <1>2, <1>3, <1>4, RemoveHolds
<1>6. threads' = Append(threads, x)
  BY <1>2, <1>4
<1>7. /\ threads' \in Seq(SV!Requests)
      /\ \A r : Holds(threads', r) <=> Holds(threads, r) \/ x = r
      /\ \A r : AtMostOnce(threads, r) /\ (x = r => ~Holds(threads, r)) => AtMostOnce(threads', r)
      /\ \A c : Undone(threads, c) /\ x # StartOf(c) => Undone(threads', c)
      /\ \A c : x = UndoOf(c) => Undone(threads', c)
  BY <1>3, <1>6, AppendHolds
<1>8. Holds(backlog, x)
  BY <1>4 DEF Holds
<1>9. ServiceTypes' /\ NothingRead'
  BY <1>1, <1>5, <1>7 DEF ServiceTypes, NothingRead, Resting
<1>10. ASSUME NEW c \in Clients PROVE ClientInv(c)'
  <2>1. ClientInv(c) /\ UndoOf(c) # StartOf(c)
    BY RequestsDiffer
  <2>2. /\ OnItsWay(StartOf(c))' <=> OnItsWay(StartOf(c))
        /\ OnItsWay(UndoOf(c))' <=> OnItsWay(UndoOf(c))
    BY <1>1, <1>5, <1>7, <1>8 DEF OnItsWay
  <2>3. StartsOnce(c)'
    BY <1>1, <1>5, <1>7, <1>8, <2>1 DEF ClientInv, StartsOnce
  <2>4. x = UndoOf(c) => SV!Linux
    BY <1>8, <2>1 DEF ClientInv, OnItsWay
  <2>5. ASSUME StartsUndone(c) PROVE StartsUndone(c)'
    <3>1. Undone(backlog', c)
      BY <1>5, <2>4, <2>5 DEF StartsUndone
    <3>2. x = StartOf(c) => Holds(backlog', UndoOf(c))
      <4>1. ASSUME x = StartOf(c) PROVE Holds(backlog, UndoOf(c))
        <5>1. k \in DOMAIN backlog /\ backlog[k] = StartOf(c)
          BY <1>4, <4>1
        <5>. QED
          BY <2>5, <5>1 DEF StartsUndone, Undone, Holds
      <4>. QED
        BY <1>5, <2>1, <4>1
    <3>. QED
      BY <1>1, <1>5, <1>7, <2>1, <2>5, <3>1, <3>2 DEF StartsUndone
  <2>. QED
    BY <1>1, <2>1, <2>2, <2>3, <2>5 DEF ClientInv, Resting, InOrder, SV!Linux
<1>. QED
  BY <1>9, <1>10

(* The loop is left; on Windows the connection that woke it is dropped.      *)
LEMMA LeaveLoopStep == ASSUME ClientsNamed, ServiceInv, SV!LeaveLoop PROVE ServiceInv'
<1>. USE DEF ServiceInv
<1>1. UNCHANGED <<system, threads, working, running>> /\ service = "serving" /\ service' = "stopping"
  BY DEF SV!LeaveLoop
<1>2. CASE SV!Linux \/ ~instance
  <2>1. PICK r \in SV!Requests : r = SV!Request(SV!Service, IF SV!Linux THEN "stop" ELSE "status")
    BY RequestForms
  <2>2. UNCHANGED <<backlog, call, outcome>> /\ channel' = Append(channel, r)
    BY <1>2, <2>1 DEF SV!LeaveLoop
  <2>3. channel \in Seq(SV!Requests)
    BY DEF ServiceTypes
  <2>4. \A c \in Clients : r # StartOf(c) /\ r # UndoOf(c)
    BY <2>1, RequestsDiffer DEF ClientsNamed
  <2>5. /\ channel' \in Seq(SV!Requests)
        /\ \A c \in Clients :
             /\ Holds(channel', StartOf(c)) <=> Holds(channel, StartOf(c))
             /\ Holds(channel', UndoOf(c)) <=> Holds(channel, UndoOf(c))
             /\ AtMostOnce(channel, StartOf(c)) => AtMostOnce(channel', StartOf(c))
             /\ Undone(channel, c) => Undone(channel', c)
    BY <2>2, <2>3, <2>4, AppendHolds
  <2>6. ServiceTypes' /\ NothingRead'
    BY <1>1, <2>2, <2>5 DEF ServiceTypes, NothingRead, Resting
  <2>7. ASSUME NEW c \in Clients PROVE ClientInv(c)'
    <3>1. ClientInv(c)
      OBVIOUS
    <3>. QED
      BY <1>1, <2>2, <2>5, <3>1
        DEF ClientInv, OnItsWay, StartsOnce, StartsUndone, Resting, InOrder, SV!Linux
  <2>. QED
    BY <2>6, <2>7
<1>3. CASE ~SV!Linux /\ instance
  <2>1. PICK k \in DOMAIN backlog :
             backlog' = SV!RemoveAt(backlog, k) /\ SV!Closed({backlog[k]})
    BY <1>3 DEF SV!LeaveLoop
  <2>2. channel' = Append(channel, SV!Request(SV!Service, "status")) /\ ~Resting
    BY <1>1, <1>3 DEF SV!LeaveLoop, Resting
  <2>. QED
    BY <1>1, <1>3, <2>1, <2>2, DropStep
<1>. QED
  BY <1>2, <1>3

LEMMA NoServiceStep ==
  ASSUME ClientsNamed, ServiceInv, NEW d \in Clients, SV!NoService(d) PROVE ServiceInv'
<1>1. PICK k \in DOMAIN backlog :
           backlog[k] = SV!Request(d, call[d]) /\ backlog' = SV!RemoveAt(backlog, k)
  BY DEF SV!NoService, SV!Withdraw
<1>2. /\ UNCHANGED <<system, service, threads, channel, working, running>>
      /\ (system.platform = "linux" /\ service = "down") \/ ~SV!Linux
      /\ SV!Closed({SV!Request(d, call[d])})
  BY DEF SV!NoService, SV!serverVars, SV!Linux
<1>3. SV!Closed({backlog[k]})
  BY <1>1, <1>2
<1>. QED
  BY <1>1, <1>2, <1>3, DropStep

(* A reply that is read sends the start, or ends the call.                   *)
LEMMA ReplyForms ==
  ASSUME ClientsNamed, ServiceTypes, NEW r \in SV!Requests, NEW ok \in BOOLEAN, SV!Reply(r, ok)
  PROVE  \/ UNCHANGED <<call, outcome, backlog>> /\ ~SV!Waiting(r)
         \/ \E d \in Clients :
              /\ r = SV!Request(d, "info") /\ call[d] = "info"
              /\ call' = [call EXCEPT ![d] = "start"] /\ UNCHANGED outcome
              /\ backlog' = Append(backlog, StartOf(d))
         \/ \E d \in Clients, heard \in {"ok", "error"} :
              /\ r = SV!Request(d, call[d]) /\ call[d] # "idle"
              /\ call' = [call EXCEPT ![d] = "idle"] /\ outcome' = [outcome EXCEPT ![d] = heard]
              /\ UNCHANGED backlog
              /\ ok /\ call[d] # "undo" => heard = "ok"
<1>1. CASE ~SV!Waiting(r)
  BY <1>1 DEF SV!Reply
<1>2. CASE SV!Waiting(r)
  <2>1. PICK d \in Clients : d = r.client /\ call[d] = r.op /\ r = SV!Request(d, call[d])
    BY <1>2, RequestForms DEF SV!Waiting
  <2>2. call[d] # "idle"
    BY <2>1, RequestForms
  <2>3. CASE r.op = "info" /\ ok
    BY <1>2, <2>1, <2>3 DEF SV!Reply, SV!Connect, StartOf
  <2>4. CASE ~(r.op = "info" /\ ok)
    BY <1>2, <2>1, <2>2, <2>4 DEF SV!Reply, SV!End
  <2>. QED
    BY <2>3, <2>4
<1>. QED
  BY <1>1, <1>2

LEMMA DispatchStep == ASSUME ClientsNamed, ServiceInv, SV!Dispatch PROVE ServiceInv'
<1>. USE DEF ServiceInv
<1>1. UNCHANGED <<system, service, working, running>>
  BY DEF SV!Dispatch, SV!serverVars
<1>2. PICK k \in DOMAIN threads :
           /\ SV!InTurn(k)
           /\ threads' = SV!RemoveAt(threads, k)
           /\ IF threads[k].op = "info"
              THEN SV!Reply(threads[k], ~SV!Fault("version")) /\ UNCHANGED channel
              ELSE channel' = Append(channel, threads[k]) /\ UNCHANGED <<call, outcome, backlog>>
  BY DEF SV!Dispatch
<1>3. threads \in Seq(SV!Requests) /\ channel \in Seq(SV!Requests) /\ backlog \in Seq(SV!Requests)
  BY DEF ServiceTypes
<1>4. PICK x \in SV!Requests : x = threads[k]
  BY <1>3
<1>5. /\ threads' \in Seq(SV!Requests)
      /\ \A r : Holds(threads', r) => Holds(threads, r)
      /\ \A r : Holds(threads, r) /\ x # r => Holds(threads', r)
      /\ \A r : AtMostOnce(threads, r) => AtMostOnce(threads', r) /\ (x = r => ~Holds(threads', r))
      /\ \A c : Undone(threads, c) /\ x # UndoOf(c) => Undone(threads', c)
      /\ \A c : Undone(threads, c) /\ (\A i \in 1..(k - 1) : threads[i] # StartOf(c)) => Undone(threads', c)
  BY <1>2, <1>3, <1>4, RemoveHolds
<1>6. Holds(threads, x) /\ ~Resting
  <2>1. Holds(threads, x)
    BY <1>4 DEF Holds
  <2>2. threads # <<>>
    BY <2>1, EmptyHolds
  <2>. QED
    BY <2>1, <2>2 DEF NothingRead
<1>7. CASE x.op = "info"
  <2>1. SV!Reply(x, ~SV!Fault("version")) /\ UNCHANGED channel
    BY <1>2, <1>4, <1>7
  <2>2. \A c \in Clients : x # StartOf(c) /\ x # UndoOf(c)
    BY <1>7 DEF StartOf, UndoOf, SV!Request
  <2>3. PICK ok \in BOOLEAN : ok = ~SV!Fault("version")
    OBVIOUS
  <2>4. SV!Reply(x, ok)
    BY <2>1, <2>3, Zenon
  <2>5. CASE UNCHANGED <<call, outcome, backlog>>
    <3>1. ServiceTypes' /\ NothingRead'
      BY <1>1, <1>5, <1>6, <2>1, <2>5 DEF ServiceTypes, NothingRead, Resting
    <3>2. ASSUME NEW c \in Clients PROVE ClientInv(c)'
      <4>1. ClientInv(c)
        OBVIOUS
      <4>. QED
        BY <1>1, <1>5, <1>6, <2>1, <2>2, <2>5, <4>1
          DEF ClientInv, OnItsWay, StartsOnce, StartsUndone, Resting, InOrder, SV!Linux
    <3>. QED
      BY <3>1, <3>2
  <2>6. ASSUME NEW d \in Clients, call[d] = "info", call' = [call EXCEPT ![d] = "start"],
               UNCHANGED outcome, backlog' = Append(backlog, StartOf(d))
        PROVE  ServiceInv'
    <3>1. StartOf(d) \in SV!Requests
      BY RequestForms
    <3>2. /\ backlog' \in Seq(SV!Requests)
          /\ \A r : Holds(backlog', r) <=> Holds(backlog, r) \/ StartOf(d) = r
          /\ \A r : AtMostOnce(backlog, r) /\ (StartOf(d) = r => ~Holds(backlog, r))
                     => AtMostOnce(backlog', r)
          /\ \A c : Undone(backlog, c) /\ StartOf(d) # StartOf(c) => Undone(backlog', c)
      BY <1>3, <2>6, <3>1, AppendHolds
    <3>3. ServiceTypes' /\ NothingRead'
      BY <1>1, <1>5, <1>6, <2>1, <2>6, <3>2 DEF ServiceTypes, NothingRead, Resting
    <3>4. ASSUME NEW c \in Clients PROVE ClientInv(c)'
      <4>1. /\ ClientInv(c) /\ StartOf(d) # UndoOf(c) /\ (StartOf(d) = StartOf(c) => c = d)
            /\ call'[c] = IF c = d THEN "start" ELSE call[c]
        BY <2>6, RequestsDiffer DEF ServiceTypes, StartOf
      <4>2. /\ call'[c] # "idle" => outcome'[c] = SV!None
            /\ call'[c] \in {"idle", "info"} /\ outcome'[c] = SV!None => ~OnItsWay(StartOf(c))'
        BY <1>1, <1>5, <1>6, <2>1, <2>2, <2>6, <3>2, <4>1 DEF ClientInv, OnItsWay
      <4>3. StartsOnce(c)'
        BY <1>1, <1>5, <1>6, <2>1, <2>2, <2>6, <3>2, <4>1 DEF ClientInv, StartsOnce, OnItsWay
      <4>4. /\ ~SV!Linux' => ~OnItsWay(UndoOf(c))'
            /\ system'.platform = "linux" /\ Resting' => ~Holds(backlog, StartOf(c))'
        BY <1>1, <1>5, <1>6, <2>1, <2>2, <2>6, <3>2, <4>1 DEF ClientInv, OnItsWay, Resting, SV!Linux
      <4>5. InOrder' /\ call'[c] # "start" => StartsUndone(c)'
        BY <1>1, <1>5, <1>6, <2>1, <2>2, <2>6, <3>2, <4>1 DEF ClientInv, StartsUndone, InOrder
      <4>6. InOrder' /\ ~Resting' /\ running' = c /\ outcome'[c] # "ok" => OnItsWay(UndoOf(c))'
        BY <1>1, <1>5, <1>6, <2>1, <2>2, <2>6, <3>2, <4>1 DEF ClientInv, OnItsWay, InOrder
      <4>. QED
        BY <4>2, <4>3, <4>4, <4>5, <4>6 DEF ClientInv
    <3>. QED
      BY <3>3, <3>4
  <2>7. ASSUME NEW d \in Clients, NEW heard \in {"ok", "error"}, x = SV!Request(d, call[d]),
               call' = [call EXCEPT ![d] = "idle"], outcome' = [outcome EXCEPT ![d] = heard],
               UNCHANGED backlog
        PROVE  ServiceInv'
    <3>1. ServiceTypes' /\ NothingRead'
      BY <1>1, <1>5, <1>6, <2>1, <2>7 DEF ServiceTypes, NothingRead, Resting
    <3>2. ASSUME NEW c \in Clients PROVE ClientInv(c)'
      <4>1. /\ ClientInv(c) /\ call[d] = "info"
            /\ call'[c] = (IF c = d THEN "idle" ELSE call[c])
            /\ outcome'[c] = (IF c = d THEN heard ELSE outcome[c])
        BY <1>7, <2>7 DEF ServiceTypes, SV!Request
      <4>. QED
        BY <1>1, <1>5, <1>6, <2>1, <2>2, <2>7, <4>1
          DEF ClientInv, OnItsWay, StartsOnce, StartsUndone, Resting, InOrder, SV!Linux, SV!None
    <3>. QED
      BY <3>1, <3>2
  <2>. QED
    BY <2>4, <2>5, <2>6, <2>7, ReplyForms
<1>8. CASE x.op # "info"
  <2>1. channel' = Append(channel, x) /\ UNCHANGED <<call, outcome, backlog>>
    BY <1>2, <1>4, <1>8
  <2>2. /\ channel' \in Seq(SV!Requests)
        /\ \A r : Holds(channel', r) <=> Holds(channel, r) \/ x = r
        /\ \A r : AtMostOnce(channel, r) /\ (x = r => ~Holds(channel, r)) => AtMostOnce(channel', r)
        /\ \A c : Undone(channel, c) /\ x # StartOf(c) => Undone(channel', c)
        /\ \A c : x = UndoOf(c) => Undone(channel', c)
    BY <1>3, <2>1, AppendHolds
  <2>3. ServiceTypes' /\ NothingRead'
    BY <1>1, <1>5, <1>6, <2>1, <2>2 DEF ServiceTypes, NothingRead, Resting
  <2>4. ASSUME NEW c \in Clients PROVE ClientInv(c)'
    <3>1. ClientInv(c) /\ UndoOf(c) # StartOf(c)
      BY RequestsDiffer
    <3>2. /\ OnItsWay(StartOf(c))' <=> OnItsWay(StartOf(c))
          /\ OnItsWay(UndoOf(c))' <=> OnItsWay(UndoOf(c))
      BY <1>1, <1>5, <1>6, <2>1, <2>2 DEF OnItsWay
    <3>3. StartsOnce(c)'
      BY <1>1, <1>5, <1>6, <2>1, <2>2, <3>1 DEF ClientInv, StartsOnce
    <3>4. ASSUME StartsUndone(c), InOrder PROVE StartsUndone(c)'
      <4>1. Undone(threads, c) => Undone(threads', c)
        <5>1. CASE x # UndoOf(c)
          BY <1>5, <5>1
        <5>2. CASE x = UndoOf(c)
          <6>1. \A i \in 1..(k - 1) : threads[i].client # x.client
            BY <1>2, <1>4, <3>4 DEF SV!InTurn, SV!Fault, InOrder
          <6>2. StartOf(c).client = c /\ UndoOf(c).client = c
            BY DEF StartOf, UndoOf, SV!Request
          <6>3. \A i \in 1..(k - 1) : threads[i] # StartOf(c)
            BY <5>2, <6>1, <6>2
          <6>. QED
            BY <1>5, <6>3
        <5>. QED
          BY <5>1, <5>2
      <4>2. x = StartOf(c) => Holds(threads', UndoOf(c)) \/ Holds(backlog, UndoOf(c))
        <5>1. ASSUME x = StartOf(c), ~Holds(backlog, UndoOf(c)) PROVE Holds(threads, UndoOf(c))
          <6>1. k \in DOMAIN threads /\ threads[k] = StartOf(c)
            BY <1>4, <5>1
          <6>. QED
            BY <3>4, <5>1, <6>1 DEF StartsUndone, Undone, Holds
        <5>. QED
          BY <1>5, <3>1, <5>1
      <4>. QED
        BY <1>1, <1>5, <2>1, <2>2, <3>1, <3>4, <4>1, <4>2 DEF StartsUndone
    <3>. QED
      BY <1>1, <1>6, <2>1, <3>1, <3>2, <3>3, <3>4 DEF ClientInv, Resting, InOrder, SV!Linux
  <2>. QED
    BY <2>3, <2>4
<1>. QED
  BY <1>7, <1>8

LEMMA TakeStep == ASSUME ClientsNamed, ServiceInv, SV!Take PROVE ServiceInv'
<1>. USE DEF ServiceInv
<1>1. /\ UNCHANGED <<system, service, backlog, threads, running, call, outcome>>
      /\ working = <<>> /\ channel # <<>> /\ channel \in Seq(SV!Requests)
      /\ working' = <<Head(channel)>> /\ channel' = Tail(channel)
  BY DEF SV!Take, SV!serverVars, ServiceTypes
<1>2. PICK x \in SV!Requests : x = Head(channel)
  BY <1>1
<1>3. working' = <<x>> /\ working' \in Seq(SV!Requests) /\ Len(working') = 1 /\ working'[1] = x
  BY <1>1, <1>2
<1>4. \A r : (Holds(working', r) <=> x = r) /\ ~Holds(working, r)
  BY <1>1, <1>3, EmptyHolds DEF Holds
<1>5. /\ channel' \in Seq(SV!Requests)
      /\ \A r : Holds(channel, r) <=> Holds(channel', r) \/ x = r
      /\ \A r : AtMostOnce(channel, r) => AtMostOnce(channel', r) /\ (x = r => ~Holds(channel', r))
      /\ \A c : Undone(channel, c) => Undone(channel', c)
      /\ \A c : Undone(channel, c) /\ x = StartOf(c) => Holds(channel', UndoOf(c))
  BY <1>1, <1>2, TailHolds
<1>6. ServiceTypes' /\ NothingRead'
  BY <1>1, <1>3, <1>5 DEF ServiceTypes, NothingRead, Resting
<1>7. ASSUME NEW c \in Clients PROVE ClientInv(c)'
  <2>1. ClientInv(c)
    OBVIOUS
  <2>. QED
    BY <1>1, <1>4, <1>5, <2>1
      DEF ClientInv, OnItsWay, StartsOnce, StartsUndone, Resting, InOrder, SV!Linux
<1>. QED
  BY <1>6, <1>7

(* The worker has executed x for a client.                                   *)
LEMMA ExecuteStep == ASSUME ClientsNamed, ServiceInv, SV!Execute PROVE ServiceInv'
<1>. USE DEF ServiceInv
<1>1. /\ UNCHANGED <<system, threads>> /\ working # <<>> /\ working' = <<>>
      /\ working \in Seq(SV!Requests) /\ Len(working) <= 1
  BY DEF SV!Execute, ServiceTypes
<1>2. PICK x \in SV!Requests : x = working[1]
  BY <1>1
<1>3. \A r : (Holds(working, r) <=> x = r) /\ ~Holds(working', r)
  <2>1. Len(working) \in Nat /\ Len(working) # 0 /\ DOMAIN working = 1..Len(working)
    BY <1>1
  <2>2. DOMAIN working = {1}
    BY <1>1, <2>1
  <2>. QED
    BY <1>1, <1>2, <2>2, EmptyHolds DEF Holds
<1>4. working' \in Seq(SV!Requests) /\ Len(working') <= 1 /\ ~Resting
  BY <1>1 DEF NothingRead
<1>5. channel \in Seq(SV!Requests) /\ backlog \in Seq(SV!Requests)
  BY DEF ServiceTypes
<1>6. PICK ok \in BOOLEAN :
           /\ SV!Answer(x, ok)
           /\ x.op = "start" => running' = IF ok THEN x.client ELSE running
           /\ x.op \in {"stop", "undo"} =>
                /\ ~ok => (running = SV!None \/ SV!Fault("stop"))
                /\ running' = IF ok THEN SV!None ELSE running
           /\ x.op \notin {"start", "stop", "undo"} => running' = running /\ ok
  BY <1>2 DEF SV!Execute
<1>7. /\ x.op = "start" => running' = IF ok THEN x.client ELSE running
      /\ x.op \in {"stop", "undo"} => (InOrder => running' = SV!None)
      /\ x.op \in {"stop", "undo"} => running' \in {running, SV!None}
      /\ x.op \notin {"start", "stop", "undo"} => running' = running
  <2>1. x.op \in {"stop", "undo"} => (InOrder => running' = SV!None)
    BY <1>6 DEF SV!Fault, InOrder
  <2>. QED
    BY <1>6, <2>1
<1>8. running' \in Clients \cup {SV!None}
  <2>1. x.op = "start" => x.client \in Clients
    BY RequestForms
  <2>. QED
    BY <1>7, <2>1 DEF ServiceTypes
(* The service's own request.                                               *)
<1>9. CASE x.client = SV!Service
  <2>1. PICK r \in SV!Requests : r = SV!Request(SV!Service, "stop")
    BY RequestForms
  <2>2. /\ UNCHANGED <<call, outcome, backlog>>
        /\ service' \in {service, "leaving"} /\ channel' \in {channel, Append(channel, r)}
    BY <1>6, <1>9, <2>1 DEF SV!Answer
  <2>3. \A c \in Clients : /\ r # StartOf(c) /\ r # UndoOf(c)
                           /\ x # StartOf(c) /\ x # UndoOf(c) /\ c # SV!None
    BY <1>9, <2>1, RequestsDiffer DEF ClientsNamed, StartOf, UndoOf, SV!Request
  <2>4. /\ channel' \in Seq(SV!Requests)
        /\ \A c \in Clients :
             /\ Holds(channel', StartOf(c)) <=> Holds(channel, StartOf(c))
             /\ Holds(channel', UndoOf(c)) <=> Holds(channel, UndoOf(c))
             /\ AtMostOnce(channel, StartOf(c)) => AtMostOnce(channel', StartOf(c))
             /\ Undone(channel, c) => Undone(channel', c)
    <3>1. CASE channel' = channel
      BY <1>5, <3>1
    <3>2. CASE channel' = Append(channel, r)
      BY <1>5, <2>3, <3>2, AppendHolds
    <3>. QED
      BY <2>2, <3>1, <3>2
  <2>5. x.op # "start" /\ running' \in {running, SV!None}
    BY <1>7, <1>9, RequestForms DEF ClientsNamed
  <2>6. ServiceTypes' /\ NothingRead' /\ ~Resting'
    BY <1>1, <1>4, <1>8, <2>2, <2>4 DEF ServiceTypes, NothingRead, Resting
  <2>7. ASSUME NEW c \in Clients PROVE ClientInv(c)'
    <3>1. ClientInv(c)
      OBVIOUS
    <3>. QED
      BY <1>1, <1>3, <1>4, <2>2, <2>3, <2>4, <2>5, <2>6, <3>1
        DEF ClientInv, OnItsWay, StartsOnce, StartsUndone, InOrder, SV!Linux
  <2>. QED
    BY <2>6, <2>7
(* A client's.                                                              *)
<1>10. CASE x.client # SV!Service
  <2>1. SV!Reply(x, ok) /\ UNCHANGED <<service, channel>>
    BY <1>6, <1>10 DEF SV!Answer
  <2>2. PICK e \in Clients : e = x.client /\ x = SV!Request(e, x.op)
    BY <1>10, RequestForms
  <2>3. \A c \in Clients : /\ (x = StartOf(c)) <=> (c = e /\ x.op = "start")
                           /\ (x = UndoOf(c)) <=> (c = e /\ x.op = "undo")
                           /\ c # SV!None /\ StartOf(c) # UndoOf(c)
    BY <2>2, RequestsDiffer DEF ClientsNamed, StartOf, UndoOf
  <2>4. CASE UNCHANGED <<call, outcome, backlog>> /\ ~SV!Waiting(x)
    <3>1. ServiceTypes' /\ NothingRead' /\ ~Resting'
      BY <1>1, <1>4, <1>8, <2>1, <2>4 DEF ServiceTypes, NothingRead, Resting
    <3>2. ASSUME NEW c \in Clients PROVE ClientInv(c)'
      <4>1. ClientInv(c)
        OBVIOUS
      <4>5. ASSUME x = StartOf(c) PROVE call[c] # "start"
        <5>1. c = e /\ x.op = "start"
          BY <2>3, <4>5
        <5>. QED
          BY <2>2, <2>4, <5>1 DEF SV!Waiting
      <4>2. InOrder /\ running' = c /\ outcome[c] # "ok" /\ x = StartOf(c) => OnItsWay(UndoOf(c))'
        BY <1>1, <1>3, <2>1, <2>4, <4>1, <4>5 DEF ClientInv, OnItsWay, StartsUndone
      <4>3. ASSUME InOrder, running' = c, outcome[c] # "ok", x # StartOf(c)
            PROVE  OnItsWay(UndoOf(c))'
        <5>1. c # SV!None /\ (x.op = "start" => c # e)
          BY <2>3, <4>3
        <5>2. running = c /\ x.op # "undo"
          BY <1>7, <2>2, <4>3, <5>1
        <5>3. x # UndoOf(c) /\ OnItsWay(UndoOf(c))
          BY <1>4, <2>3, <4>1, <4>3, <5>2 DEF ClientInv
        <5>. QED
          BY <1>1, <1>3, <2>1, <2>4, <5>3 DEF OnItsWay
      <4>. QED
        BY <1>1, <1>3, <1>4, <2>1, <2>4, <3>1, <4>1, <4>2, <4>3, <4>5
          DEF ClientInv, OnItsWay, StartsOnce, StartsUndone, InOrder, SV!Linux
    <3>. QED
      BY <3>1, <3>2
  <2>5. ASSUME NEW d \in Clients, x = SV!Request(d, "info"), call[d] = "info",
               call' = [call EXCEPT ![d] = "start"], UNCHANGED outcome,
               backlog' = Append(backlog, StartOf(d))
        PROVE  ServiceInv'
    <3>1. StartOf(d) \in SV!Requests /\ x.op = "info" /\ running' = running
      BY <1>7, <2>5, RequestForms DEF SV!Request
    <3>2. /\ backlog' \in Seq(SV!Requests)
          /\ \A r : Holds(backlog', r) <=> Holds(backlog, r) \/ StartOf(d) = r
          /\ \A r : AtMostOnce(backlog, r) /\ (StartOf(d) = r => ~Holds(backlog, r))
                     => AtMostOnce(backlog', r)
          /\ \A c : Undone(backlog, c) /\ StartOf(d) # StartOf(c) => Undone(backlog', c)
      BY <1>5, <2>5, <3>1, AppendHolds
    <3>3. ServiceTypes' /\ NothingRead' /\ ~Resting'
      BY <1>1, <1>4, <1>8, <2>1, <2>5, <3>2 DEF ServiceTypes, NothingRead, Resting
    <3>4. ASSUME NEW c \in Clients PROVE ClientInv(c)'
      <4>1. /\ ClientInv(c) /\ StartOf(d) # UndoOf(c) /\ (StartOf(d) = StartOf(c) => c = d)
            /\ x # StartOf(c) /\ x # UndoOf(c)
            /\ call'[c] = IF c = d THEN "start" ELSE call[c]
        BY <2>3, <2>5, <3>1, RequestsDiffer DEF ServiceTypes, StartOf
      <4>2. OnItsWay(UndoOf(c))' <=> OnItsWay(UndoOf(c))
        BY <1>1, <1>3, <1>4, <2>1, <3>2, <4>1 DEF OnItsWay
      <4>3. OnItsWay(StartOf(c))' => OnItsWay(StartOf(c)) \/ c = d
        BY <1>1, <1>3, <2>1, <3>2, <4>1 DEF OnItsWay
      <4>4. c = d => call[c] = "info" /\ outcome[c] = SV!None /\ ~OnItsWay(StartOf(c))
        BY <2>5, <4>1 DEF ClientInv
      <4>5. StartsOnce(c)'
        BY <1>1, <1>3, <2>1, <3>2, <4>1, <4>4 DEF ClientInv, StartsOnce, OnItsWay
      <4>6. InOrder /\ call'[c] # "start" => StartsUndone(c)'
        BY <1>1, <1>3, <1>4, <2>1, <3>2, <4>1 DEF ClientInv, StartsUndone
      <4>7. outcome'[c] = outcome[c] /\ ~Resting'
        BY <2>5, <3>3
      <4>8. /\ call'[c] # "idle" => outcome'[c] = SV!None
            /\ call'[c] \in {"idle", "info"} /\ outcome'[c] = SV!None => ~OnItsWay(StartOf(c))'
        BY <4>1, <4>3, <4>4, <4>7 DEF ClientInv
      <4>9. ~SV!Linux => ~OnItsWay(UndoOf(c))'
        BY <4>1, <4>2 DEF ClientInv
      <4>10. InOrder /\ running = c /\ outcome[c] # "ok" => OnItsWay(UndoOf(c))'
        BY <1>4, <4>1, <4>2 DEF ClientInv
      <4>11. UNCHANGED system
        BY <1>1, <2>1
      <4>. QED
        BY <3>1, <4>5, <4>6, <4>7, <4>8, <4>9, <4>10, <4>11 DEF ClientInv, InOrder, SV!Linux
    <3>. QED
      BY <3>3, <3>4
  <2>6. ASSUME NEW d \in Clients, NEW heard \in {"ok", "error"}, x = SV!Request(d, call[d]),
               call[d] # "idle", call' = [call EXCEPT ![d] = "idle"],
               outcome' = [outcome EXCEPT ![d] = heard], UNCHANGED backlog,
               ok /\ call[d] # "undo" => heard = "ok"
        PROVE  ServiceInv'
    <3>1. ServiceTypes' /\ NothingRead' /\ ~Resting'
      BY <1>1, <1>4, <1>8, <2>1, <2>6 DEF ServiceTypes, NothingRead, Resting
    <3>2. ASSUME NEW c \in Clients PROVE ClientInv(c)'
      <4>1. /\ ClientInv(c) /\ d = e /\ x.op = call[d]
            /\ call'[c] = (IF c = d THEN "idle" ELSE call[c])
            /\ outcome'[c] = (IF c = d THEN heard ELSE outcome[c])
        BY <2>2, <2>6 DEF ServiceTypes, SV!Request
      <4>2. StartsOnce(c)'
        BY <1>1, <1>3, <2>1, <2>6, <4>1 DEF ClientInv, StartsOnce
      <4>3. InOrder /\ call'[c] # "start" => StartsUndone(c)'
        <5>1. CASE call[c] # "start"
          BY <1>1, <1>3, <2>1, <2>6, <4>1, <5>1 DEF ClientInv, StartsUndone, InOrder
        <5>2. CASE call[c] = "start" /\ c = d
          <6>1. x = StartOf(c)
            BY <2>3, <4>1, <5>2, Zenon
          <6>. QED
            BY <1>1, <1>3, <2>1, <2>6, <4>1, <6>1, EmptyHolds
              DEF ClientInv, StartsOnce, StartsUndone
        <5>. QED
          BY <4>1, <5>1, <5>2
      <4>4. ASSUME InOrder, running' = c, outcome'[c] # "ok" PROVE OnItsWay(UndoOf(c))'
        <5>1. running = c /\ x.op \notin {"stop", "undo"} /\ outcome[c] # "ok"
          <6>1. x.op \notin {"stop", "undo"}
            BY <1>7, <2>3, <4>4
          <6>2. x.op = "start" => running = c
            BY <1>7, <2>2, <2>6, <4>1, <4>4
          <6>3. c = d => outcome[c] = SV!None
            BY <2>6, <4>1 DEF ClientInv
          <6>. QED
            BY <1>7, <4>1, <4>4, <6>1, <6>2, <6>3 DEF SV!None
        <5>. QED
          BY <1>1, <1>3, <1>4, <2>1, <2>3, <2>6, <4>1, <4>4, <5>1 DEF ClientInv, OnItsWay
      <4>5. OnItsWay(UndoOf(c))' => OnItsWay(UndoOf(c))
        BY <1>1, <1>3, <2>1, <2>6 DEF OnItsWay
      <4>6. OnItsWay(StartOf(c))' => OnItsWay(StartOf(c))
        BY <1>1, <1>3, <2>1, <2>6 DEF OnItsWay
      <4>. QED
        BY <1>1, <2>6, <3>1, <4>1, <4>2, <4>3, <4>4, <4>5, <4>6
          DEF ClientInv, InOrder, SV!Linux, SV!None
    <3>. QED
      BY <3>1, <3>2
  <2>. QED
    BY <2>1, <2>4, <2>5, <2>6, ReplyForms
<1>. QED
  BY <1>9, <1>10

(* The process ends: what it had read is gone, and on Linux, when the socket *)
(* was its own, what it had not.                                            *)
LEMMA EndProcessStep ==
  ASSUME ClientsNamed, ServiceInv, SV!EndProcess, UNCHANGED <<system, running>>
  PROVE  ServiceInv'
<1>. USE DEF ServiceInv
<1>. DEFINE read == SV!ToSet(threads) \cup SV!ToSet(channel) \cup SV!ToSet(working)
<1>1. /\ service' = "down" /\ threads' = <<>> /\ channel' = <<>> /\ working' = <<>>
  BY DEF SV!EndProcess
<1>2. \A r : r \in read <=> Holds(threads, r) \/ Holds(channel, r) \/ Holds(working, r)
  BY DEF SV!ToSet, Holds
<1>3. \A r : r \in SV!ToSet(backlog) <=> Holds(backlog, r)
  BY DEF SV!ToSet, Holds
<1>4. /\ backlog \in Seq(SV!Requests) /\ threads \in Seq(SV!Requests)
      /\ channel \in Seq(SV!Requests) /\ working \in Seq(SV!Requests)
  BY DEF ServiceTypes
<1>5. \A s \in Seq(SV!Requests), c \in Clients : ~Holds(s, SV!Request(c, "idle"))
  BY RequestForms DEF Holds
<1>6. CASE system.platform = "linux"
  <2>1. backlog' = <<>> /\ SV!Closed(read \cup SV!ToSet(backlog))
    BY <1>6 DEF SV!EndProcess
  <2>2. /\ call' \in [Clients -> {"idle", "info", "start", "stop", "undo"}]
        /\ outcome' \in [Clients -> {SV!None, "ok", "error"}]
        /\ \A c \in Clients :
             IF SV!Request(c, call[c]) \in read \cup SV!ToSet(backlog)
               THEN call'[c] = "idle" /\ outcome'[c] = "error"
               ELSE call'[c] = call[c] /\ outcome'[c] = outcome[c]
    BY <2>1, ClosedTells
  <2>3. ServiceTypes' /\ NothingRead' /\ Resting'
    BY <1>1, <2>1, <2>2 DEF ServiceTypes, NothingRead, Resting
  <2>4. ASSUME NEW c \in Clients PROVE ClientInv(c)'
    <3>1. ClientInv(c)
      OBVIOUS
    <3>. QED
      BY <1>1, <1>6, <2>1, <2>2, <2>3, <3>1, EmptyHolds
        DEF ClientInv, OnItsWay, StartsOnce, StartsUndone, SV!Linux
  <2>. QED
    BY <2>3, <2>4
<1>7. CASE system.platform # "linux"
  <2>1. PICK poke \in SV!Requests : poke = SV!Request(SV!Service, "poke")
    BY RequestForms
  <2>2. /\ SV!Closed(read)
        /\ \/ UNCHANGED backlog
           \/ \E k \in DOMAIN backlog : backlog[k] = poke /\ backlog' = SV!RemoveAt(backlog, k)
    BY <1>7, <2>1 DEF SV!EndProcess, SV!Withdraw
  <2>3. \A c \in Clients : poke # StartOf(c) /\ poke # UndoOf(c)
    BY <2>1, RequestsDiffer DEF ClientsNamed
  <2>4. /\ backlog' \in Seq(SV!Requests)
        /\ \A c \in Clients :
             /\ Holds(backlog', StartOf(c)) <=> Holds(backlog, StartOf(c))
             /\ Holds(backlog', UndoOf(c)) <=> Holds(backlog, UndoOf(c))
             /\ AtMostOnce(backlog, StartOf(c)) => AtMostOnce(backlog', StartOf(c))
             /\ Undone(backlog, c) => Undone(backlog', c)
    <3>1. CASE UNCHANGED backlog
      BY <1>4, <3>1
    <3>2. ASSUME NEW k \in DOMAIN backlog, backlog[k] = poke, backlog' = SV!RemoveAt(backlog, k)
          PROVE  /\ backlog' \in Seq(SV!Requests)
                 /\ \A c \in Clients :
                      /\ Holds(backlog', StartOf(c)) <=> Holds(backlog, StartOf(c))
                      /\ Holds(backlog', UndoOf(c)) <=> Holds(backlog, UndoOf(c))
                      /\ AtMostOnce(backlog, StartOf(c)) => AtMostOnce(backlog', StartOf(c))
                      /\ Undone(backlog, c) => Undone(backlog', c)
      BY <1>4, <2>3, <3>2, RemoveHolds
    <3>. QED
      BY <2>2, <3>1, <3>2
  <2>5. /\ call' \in [Clients -> {"idle", "info", "start", "stop", "undo"}]
        /\ outcome' \in [Clients -> {SV!None, "ok", "error"}]
        /\ \A c \in Clients :
             IF SV!Request(c, call[c]) \in read
               THEN call'[c] = "idle" /\ outcome'[c] = "error"
               ELSE call'[c] = call[c] /\ outcome'[c] = outcome[c]
    BY <2>2, ClosedTells
  <2>6. ServiceTypes' /\ NothingRead' /\ Resting'
    BY <1>1, <2>4, <2>5 DEF ServiceTypes, NothingRead, Resting
  <2>7. ASSUME NEW c \in Clients PROVE ClientInv(c)'
    <3>1. ClientInv(c)
      OBVIOUS
    <3>2. CASE SV!Request(c, call[c]) \notin read
      <4>1. call'[c] = call[c] /\ outcome'[c] = outcome[c]
        BY <2>5, <3>2
      <4>. QED
        BY <1>1, <1>7, <2>4, <2>6, <3>1, <4>1, EmptyHolds
          DEF ClientInv, OnItsWay, StartsOnce, StartsUndone, InOrder, SV!Linux
    <3>3. CASE SV!Request(c, call[c]) \in read
      <4>1. call'[c] = "idle" /\ outcome'[c] = "error"
        BY <2>5, <3>3
      <4>2. call[c] = "start" => ~Holds(backlog, StartOf(c))
        BY <1>2, <3>1, <3>3 DEF ClientInv, StartsOnce, StartOf
      <4>3. call[c] # "idle"
        BY <1>2, <1>4, <1>5, <3>3
      <4>. QED
        BY <1>1, <1>7, <2>4, <2>6, <3>1, <4>1, <4>2, <4>3, EmptyHolds
          DEF ClientInv, OnItsWay, StartsOnce, StartsUndone, InOrder, SV!Linux, SV!None
    <3>. QED
      BY <3>2, <3>3
  <2>. QED
    BY <2>6, <2>7
<1>. QED
  BY <1>6, <1>7

LEMMA ServiceStep ==
  ASSUME ClientsNamed, ServiceInv, [SV!Next]_(SV!vars) PROVE ServiceInv'
<1>1. CASE UNCHANGED SV!vars
  <2>1. UNCHANGED <<system, service, backlog, threads, channel, working, running, call, outcome>>
    BY <1>1 DEF SV!vars, SV!serverVars
  <2>2. \A c \in Clients : ClientInv(c)'
    BY <2>1, SameClient DEF ServiceInv
  <2>. QED
    BY <2>1, <2>2 DEF ServiceInv, ServiceTypes, NothingRead, Resting
<1>2. CASE SV!Leave \/ SV!Crash
  <2>1. SV!EndProcess /\ UNCHANGED <<system, running>>
    BY <1>2 DEF SV!Leave, SV!Crash, SV!EndProcess
  <2>. QED
    BY <2>1, EndProcessStep
<1>. QED
  BY <1>1, <1>2, ClientCallStep, NoServiceStep, ProcessStep, AcceptStep, LeaveLoopStep, DispatchStep,
     TakeStep, ExecuteStep DEF SV!Next, SV!Work, SV!Impatient

LEMMA ServiceInvariant == ASSUME ClientsNamed PROVE SV!Spec => []ServiceInv
BY ServiceInitially, ServiceStep, PTL DEF SV!Spec

LEMMA TunnelsTold == ASSUME ServiceInv PROVE SV!NoUnreportedTunnel
<1>. SUFFICES ASSUME SV!Quiet, InOrder, running # SV!None PROVE outcome[running] = "ok"
  BY DEF SV!NoUnreportedTunnel, InOrder
<1>1. running \in Clients
  BY DEF ServiceInv, ServiceTypes
<1>2. PICK c \in Clients : c = running
  BY <1>1
<1>3. ~OnItsWay(UndoOf(c)) /\ ~Resting
  BY EmptyHolds DEF SV!Quiet, OnItsWay, Resting
<1>. QED
  BY <1>2, <1>3 DEF ServiceInv, ClientInv

(* When everything has been answered, a tunnel in effect is one whose client *)
(* was told of it, whatever starts timed out, whatever other clients did and *)
(* however often the service ended, on a bound or an inherited socket or a   *)
(* pipe; if threads hand over one client's requests in their order and a stop *)
(* of a tunnel that runs works.                                             *)
THEOREM TunnelsReported == ASSUME ClientsNamed PROVE SV!Spec => []SV!NoUnreportedTunnel
<1>1. ServiceInv => SV!NoUnreportedTunnel
  BY TunnelsTold
<1>. QED
  BY <1>1, ServiceInvariant, PTL

-----------------------------------------------------------------------------
(* The installation of the service (linux_service/manage.rs,                 *)
(* windows_service_manager.rs).  The manager walks through a plan, fixed by  *)
(* the system and the action; what has been done is known by what is left.   *)
SystemsKnown == Systems \subseteq {"linux", "windows"}

StepNames == {"auth", "binary", "units", "enable", "graceful", "socketDir", "socket", "disable",
              "stop", "files", "binaryFile", "unregister", "register", "start", "confirm"}
ThePlan == IS!Plan(setup.os, setup.action)
Left == Len(steps)

(* What is left to do is the end of the plan; the result comes with the end. *)
RestOfPlan ==
  /\ steps \in Seq(StepNames) /\ Left \in 0..Len(ThePlan)
  /\ \A i \in 1..Left : steps[i] = ThePlan[Len(ThePlan) - Left + i]
  /\ (manager = "none") = (Left # 0)

Going(os, action) ==
  setup.os = os /\ setup.action = action /\ setup.faults = {} /\ manager # "error"

(* How far a manager that meets no fault has come.                           *)
LinuxRepair ==
  Going("linux", "repair") =>
    /\ Left <= 5 => binary = 2
    /\ Left = 0 => process # 1
WindowsRepair ==
  Going("windows", "repair") =>
    /\ Left <= 3 => binary = 2
    /\ Left \in 2..4 => process = 0
    /\ Left <= 1 => process # 1
LinuxRemoval ==
  Going("linux", "remove") =>
    /\ Left <= 3 => listening = FALSE /\ process = 0 /\ tunnel = FALSE
    /\ Left <= 1 => units = {}
    /\ Left = 0 => binary = 0
WindowsRemoval ==
  Going("windows", "remove") =>
    /\ Left <= 1 => process = 0 /\ tunnel = FALSE /\ units = {}
    /\ Left = 0 => binary = 0
InstallProgress == LinuxRepair /\ WindowsRepair /\ LinuxRemoval /\ WindowsRemoval

InstallInv == IS!TypeOK /\ RestOfPlan /\ InstallProgress

-----------------------------------------------------------------------------
LEMMA SetupForms ==
  ASSUME SystemsKnown, IS!TypeOK
  PROVE  setup.os \in {"linux", "windows"} /\ setup.action \in {"install", "repair", "remove"}
BY DEF SystemsKnown, IS!TypeOK, IS!Actions

LEMMA PlanKnown ==
  /\ IS!Plan("linux", "install") = <<"binary", "units", "enable", "socketDir", "socket">>
  /\ IS!Plan("linux", "repair") =
       <<"auth", "binary", "units", "enable", "graceful", "socketDir", "socket">>
  /\ IS!Plan("linux", "remove") = <<"graceful", "disable", "stop", "files", "binaryFile">>
  /\ IS!Plan("windows", "install") = <<"binary", "register", "start", "confirm">>
  /\ IS!Plan("windows", "repair") = <<"unregister", "binary", "register", "start", "confirm">>
  /\ IS!Plan("windows", "remove") = <<"unregister", "binaryFile">>
BY DEF IS!Plan

LEMMA PlansNamed ==
  ASSUME NEW os \in {"linux", "windows"}, NEW action \in {"install", "repair", "remove"}
  PROVE  IS!Plan(os, action) \in Seq(StepNames) /\ IS!Plan(os, action) # <<>>
<1>1. CASE os = "linux" /\ action = "install"
  <2>1. <<"binary", "units", "enable", "socketDir", "socket">> \in Seq(StepNames)
    BY DEF StepNames
  <2>2. <<"binary", "units", "enable", "socketDir", "socket">> # <<>>
    OBVIOUS
  <2>3. IS!Plan(os, action) = <<"binary", "units", "enable", "socketDir", "socket">>
    BY <1>1, PlanKnown
  <2> QED BY <2>1, <2>2, <2>3, Zenon
<1>2. CASE os = "linux" /\ action = "repair"
  <2>1. <<"auth", "binary", "units", "enable", "graceful", "socketDir", "socket">> \in Seq(StepNames)
    BY DEF StepNames
  <2>2. <<"auth", "binary", "units", "enable", "graceful", "socketDir", "socket">> # <<>>
    OBVIOUS
  <2>3. IS!Plan(os, action) = <<"auth", "binary", "units", "enable", "graceful", "socketDir", "socket">>
    BY <1>2, PlanKnown
  <2> QED BY <2>1, <2>2, <2>3, Zenon
<1>3. CASE os = "linux" /\ action = "remove"
  <2>1. <<"graceful", "disable", "stop", "files", "binaryFile">> \in Seq(StepNames)
    BY DEF StepNames
  <2>2. <<"graceful", "disable", "stop", "files", "binaryFile">> # <<>>
    OBVIOUS
  <2>3. IS!Plan(os, action) = <<"graceful", "disable", "stop", "files", "binaryFile">>
    BY <1>3, PlanKnown
  <2> QED BY <2>1, <2>2, <2>3, Zenon
<1>4. CASE os = "windows" /\ action = "install"
  <2>1. <<"binary", "register", "start", "confirm">> \in Seq(StepNames)
    BY DEF StepNames
  <2>2. <<"binary", "register", "start", "confirm">> # <<>>
    OBVIOUS
  <2>3. IS!Plan(os, action) = <<"binary", "register", "start", "confirm">>
    BY <1>4, PlanKnown
  <2> QED BY <2>1, <2>2, <2>3, Zenon
<1>5. CASE os = "windows" /\ action = "repair"
  <2>1. <<"unregister", "binary", "register", "start", "confirm">> \in Seq(StepNames)
    BY DEF StepNames
  <2>2. <<"unregister", "binary", "register", "start", "confirm">> # <<>>
    OBVIOUS
  <2>3. IS!Plan(os, action) = <<"unregister", "binary", "register", "start", "confirm">>
    BY <1>5, PlanKnown
  <2> QED BY <2>1, <2>2, <2>3, Zenon
<1>6. CASE os = "windows" /\ action = "remove"
  <2>1. <<"unregister", "binaryFile">> \in Seq(StepNames)
    BY DEF StepNames
  <2>2. <<"unregister", "binaryFile">> # <<>>
    OBVIOUS
  <2>3. IS!Plan(os, action) = <<"unregister", "binaryFile">>
    BY <1>6, PlanKnown
  <2> QED BY <2>1, <2>2, <2>3, Zenon
<1> QED BY <1>1, <1>2, <1>3, <1>4, <1>5, <1>6

(* Which step is due says how much is left.                                  *)
Due(s) ==
  /\ setup.os = "linux" /\ setup.action = "repair" =>
       \/ (s = "auth" /\ Left = 7) \/ (s = "binary" /\ Left = 6) \/ (s = "units" /\ Left = 5)
       \/ (s = "enable" /\ Left = 4) \/ (s = "graceful" /\ Left = 3) \/ (s = "socketDir" /\ Left = 2)
       \/ (s = "socket" /\ Left = 1)
  /\ setup.os = "linux" /\ setup.action = "remove" =>
       \/ (s = "graceful" /\ Left = 5) \/ (s = "disable" /\ Left = 4) \/ (s = "stop" /\ Left = 3)
       \/ (s = "files" /\ Left = 2) \/ (s = "binaryFile" /\ Left = 1)
  /\ setup.os = "windows" /\ setup.action = "repair" =>
       \/ (s = "unregister" /\ Left = 5) \/ (s = "binary" /\ Left = 4) \/ (s = "register" /\ Left = 3)
       \/ (s = "start" /\ Left = 2) \/ (s = "confirm" /\ Left = 1)
  /\ setup.os = "windows" /\ setup.action = "remove" =>
       \/ (s = "unregister" /\ Left = 2) \/ (s = "binaryFile" /\ Left = 1)
  /\ setup.os = "windows" /\ setup.action = "install" => s # "units"

LEMMA DueStep ==
  ASSUME SystemsKnown, InstallInv, NEW s, IS!At(s)
  PROVE  Due(s) /\ Left \in 1..Len(ThePlan) /\ manager = "none"
<1>1. Left \in Nat /\ Left # 0 /\ Head(steps) = s /\ manager = "none"
  BY DEF InstallInv, RestOfPlan, IS!At, Left
<1>2. Left \in 1..Len(ThePlan) /\ Len(ThePlan) \in Nat
  BY <1>1, SetupForms, PlanKnown DEF InstallInv, RestOfPlan, ThePlan
<1>3. s = ThePlan[Len(ThePlan) - Left + 1]
  <2>1. s = steps[1]
    BY <1>1 DEF InstallInv, RestOfPlan, Left
  <2>2. 1 \in 1..Left
    BY <1>1
  <2>3. steps[1] = ThePlan[Len(ThePlan) - Left + 1]
    BY <2>2 DEF InstallInv, RestOfPlan
  <2> QED BY <2>1, <2>3
<1>4. CASE setup.os = "linux" /\ setup.action = "repair"
  <2>1. /\ Len(ThePlan) = 7 /\ ThePlan[1] = "auth" /\ ThePlan[2] = "binary"
        /\ ThePlan[3] = "units" /\ ThePlan[4] = "enable" /\ ThePlan[5] = "graceful"
        /\ ThePlan[6] = "socketDir" /\ ThePlan[7] = "socket"
    BY <1>4, PlanKnown DEF ThePlan
  <2>2. \/ Left = 1 \/ Left = 2 \/ Left = 3 \/ Left = 4 \/ Left = 5 \/ Left = 6 \/ Left = 7
    BY <1>2, <2>1
  <2>3. s = ThePlan[8 - Left]
    BY <1>2, <1>3, <2>1
  <2>4. CASE Left = 1
    <3>1. s = ThePlan[7]
      BY <2>3, <2>4
    <3> QED BY <1>1, <1>2, <1>4, <2>1, <2>4, <3>1 DEF Due
  <2>5. CASE Left = 2
    <3>1. s = ThePlan[6]
      BY <2>3, <2>5
    <3> QED BY <1>1, <1>2, <1>4, <2>1, <2>5, <3>1 DEF Due
  <2>6. CASE Left = 3
    <3>1. s = ThePlan[5]
      BY <2>3, <2>6
    <3> QED BY <1>1, <1>2, <1>4, <2>1, <2>6, <3>1 DEF Due
  <2>7. CASE Left = 4
    <3>1. s = ThePlan[4]
      BY <2>3, <2>7
    <3> QED BY <1>1, <1>2, <1>4, <2>1, <2>7, <3>1 DEF Due
  <2>8. CASE Left = 5
    <3>1. s = ThePlan[3]
      BY <2>3, <2>8
    <3> QED BY <1>1, <1>2, <1>4, <2>1, <2>8, <3>1 DEF Due
  <2>9. CASE Left = 6
    <3>1. s = ThePlan[2]
      BY <2>3, <2>9
    <3> QED BY <1>1, <1>2, <1>4, <2>1, <2>9, <3>1 DEF Due
  <2>10. CASE Left = 7
    <3>1. s = ThePlan[1]
      BY <2>3, <2>10
    <3> QED BY <1>1, <1>2, <1>4, <2>1, <2>10, <3>1 DEF Due
  <2> QED BY <2>2, <2>4, <2>5, <2>6, <2>7, <2>8, <2>9, <2>10
<1>5. CASE setup.os = "linux" /\ setup.action = "remove"
  <2>1. /\ Len(ThePlan) = 5 /\ ThePlan[1] = "graceful" /\ ThePlan[2] = "disable"
        /\ ThePlan[3] = "stop" /\ ThePlan[4] = "files" /\ ThePlan[5] = "binaryFile"
    BY <1>5, PlanKnown DEF ThePlan
  <2>2. \/ Left = 1 \/ Left = 2 \/ Left = 3 \/ Left = 4 \/ Left = 5
    BY <1>2, <2>1
  <2>3. s = ThePlan[6 - Left]
    BY <1>2, <1>3, <2>1
  <2>4. CASE Left = 1
    <3>1. s = ThePlan[5]
      BY <2>3, <2>4
    <3> QED BY <1>1, <1>2, <1>5, <2>1, <2>4, <3>1 DEF Due
  <2>5. CASE Left = 2
    <3>1. s = ThePlan[4]
      BY <2>3, <2>5
    <3> QED BY <1>1, <1>2, <1>5, <2>1, <2>5, <3>1 DEF Due
  <2>6. CASE Left = 3
    <3>1. s = ThePlan[3]
      BY <2>3, <2>6
    <3> QED BY <1>1, <1>2, <1>5, <2>1, <2>6, <3>1 DEF Due
  <2>7. CASE Left = 4
    <3>1. s = ThePlan[2]
      BY <2>3, <2>7
    <3> QED BY <1>1, <1>2, <1>5, <2>1, <2>7, <3>1 DEF Due
  <2>8. CASE Left = 5
    <3>1. s = ThePlan[1]
      BY <2>3, <2>8
    <3> QED BY <1>1, <1>2, <1>5, <2>1, <2>8, <3>1 DEF Due
  <2> QED BY <2>2, <2>4, <2>5, <2>6, <2>7, <2>8
<1>6. CASE setup.os = "windows" /\ setup.action = "repair"
  <2>1. /\ Len(ThePlan) = 5 /\ ThePlan[1] = "unregister" /\ ThePlan[2] = "binary"
        /\ ThePlan[3] = "register" /\ ThePlan[4] = "start" /\ ThePlan[5] = "confirm"
    BY <1>6, PlanKnown DEF ThePlan
  <2>2. \/ Left = 1 \/ Left = 2 \/ Left = 3 \/ Left = 4 \/ Left = 5
    BY <1>2, <2>1
  <2>3. s = ThePlan[6 - Left]
    BY <1>2, <1>3, <2>1
  <2>4. CASE Left = 1
    <3>1. s = ThePlan[5]
      BY <2>3, <2>4
    <3> QED BY <1>1, <1>2, <1>6, <2>1, <2>4, <3>1 DEF Due
  <2>5. CASE Left = 2
    <3>1. s = ThePlan[4]
      BY <2>3, <2>5
    <3> QED BY <1>1, <1>2, <1>6, <2>1, <2>5, <3>1 DEF Due
  <2>6. CASE Left = 3
    <3>1. s = ThePlan[3]
      BY <2>3, <2>6
    <3> QED BY <1>1, <1>2, <1>6, <2>1, <2>6, <3>1 DEF Due
  <2>7. CASE Left = 4
    <3>1. s = ThePlan[2]
      BY <2>3, <2>7
    <3> QED BY <1>1, <1>2, <1>6, <2>1, <2>7, <3>1 DEF Due
  <2>8. CASE Left = 5
    <3>1. s = ThePlan[1]
      BY <2>3, <2>8
    <3> QED BY <1>1, <1>2, <1>6, <2>1, <2>8, <3>1 DEF Due
  <2> QED BY <2>2, <2>4, <2>5, <2>6, <2>7, <2>8
<1>7. CASE setup.os = "windows" /\ setup.action = "remove"
  <2>1. Len(ThePlan) = 2 /\ ThePlan[1] = "unregister" /\ ThePlan[2] = "binaryFile"
    BY <1>7, PlanKnown DEF ThePlan
  <2>2. Left = 1 \/ Left = 2
    BY <1>2, <2>1
  <2>3. s = ThePlan[3 - Left]
    BY <1>2, <1>3, <2>1
  <2>4. CASE Left = 1
    <3>1. s = ThePlan[2]
      BY <2>3, <2>4
    <3> QED BY <1>1, <1>2, <1>7, <2>1, <2>4, <3>1 DEF Due
  <2>5. CASE Left = 2
    <3>1. s = ThePlan[1]
      BY <2>3, <2>5
    <3> QED BY <1>1, <1>2, <1>7, <2>1, <2>5, <3>1 DEF Due
  <2> QED BY <2>2, <2>4, <2>5
<1>8. CASE setup.os = "windows" /\ setup.action = "install"
  <2>1. /\ Len(ThePlan) = 4 /\ ThePlan[1] = "binary" /\ ThePlan[2] = "register"
        /\ ThePlan[3] = "start" /\ ThePlan[4] = "confirm"
    BY <1>8, PlanKnown DEF ThePlan
  <2>2. Left = 1 \/ Left = 2 \/ Left = 3 \/ Left = 4
    BY <1>2, <2>1
  <2>3. s = ThePlan[5 - Left]
    BY <1>2, <1>3, <2>1
  <2>4. s \in {ThePlan[1], ThePlan[2], ThePlan[3], ThePlan[4]}
    BY <2>2, <2>3
  <2>5. s # "units"
    BY <2>1, <2>4
  <2> QED BY <1>1, <1>2, <1>8, <2>5 DEF Due
<1> QED
  BY <1>1, <1>2, <1>4, <1>5, <1>6, <1>7, <1>8, SetupForms DEF Due, InstallInv

LEMMA PlanLengths ==
  ASSUME SystemsKnown, InstallInv
  PROVE  /\ Left \in Nat /\ Len(ThePlan) \in Nat /\ Left <= Len(ThePlan)
         /\ setup.os = "linux" /\ setup.action = "repair" => Len(ThePlan) = 7
         /\ setup.os = "linux" /\ setup.action = "remove" => Len(ThePlan) = 5
         /\ setup.os = "windows" /\ setup.action = "repair" => Len(ThePlan) = 5
         /\ setup.os = "windows" /\ setup.action = "remove" => Len(ThePlan) = 2
BY SetupForms, PlanKnown DEF InstallInv, RestOfPlan, ThePlan

(* A step done leaves the rest of the plan, one step shorter.                *)
LEMMA RestFollows ==
  ASSUME SystemsKnown, InstallInv, NEW s, IS!At(s), setup' = setup, IS!Done \/ IS!Failed
  PROVE  /\ RestOfPlan'
         /\ IS!Done => Left' = Left - 1 /\ manager' \in {"none", "ok"}
         /\ IS!Failed => Left' = 0 /\ manager' = "error"
<1>1. Left \in 1..Len(ThePlan) /\ manager = "none"
  BY DueStep
<1>2. Left \in Nat /\ Len(ThePlan) \in Nat /\ ThePlan' = ThePlan
  BY PlanLengths DEF ThePlan
<1>3. CASE IS!Done
  <2>1. steps \in Seq(StepNames) /\ steps # <<>>
    BY DEF InstallInv, RestOfPlan, IS!At
  <2>2. steps' = Tail(steps)
    BY <1>3 DEF IS!Done
  <2>3. steps' \in Seq(StepNames) /\ Left' = Left - 1
    BY <2>1, <2>2 DEF Left
  <2>4. \A i \in 1..Left' : steps'[i] = steps[i + 1]
    BY <2>1, <2>2, <2>3, <1>2 DEF Left
  <2>5. \A i \in 1..Left' : steps'[i] = ThePlan[Len(ThePlan) - Left' + i]
    <3>1. TAKE i \in 1..Left'
    <3>2. i + 1 \in 1..Left /\ Len(ThePlan) - Left + (i + 1) = Len(ThePlan) - Left' + i
      BY <1>1, <1>2, <2>3
    <3>3. steps[i + 1] = ThePlan[Len(ThePlan) - Left + (i + 1)]
      BY <3>2 DEF InstallInv, RestOfPlan
    <3> QED BY <2>4, <3>2, <3>3
  <2>6. manager' = IF Left = 1 THEN "ok" ELSE "none"
    BY <1>3 DEF IS!Done, Left
  <2>7. (manager' = "none") = (Left' # 0)
    BY <2>3, <2>6, <1>1, <1>2
  <2>8. Left' \in 0..Len(ThePlan')
    BY <2>3, <1>1, <1>2
  <2>9. RestOfPlan'
    BY <2>3, <2>5, <2>7, <2>8, <1>2 DEF RestOfPlan
  <2>10. ~IS!Failed
    BY <2>6 DEF IS!Failed
  <2> QED BY <2>3, <2>6, <2>9, <2>10
<1>4. CASE IS!Failed
  <2>1. steps' = <<>> /\ manager' = "error"
    BY <1>4 DEF IS!Failed
  <2>2. Left' = 0 /\ steps' \in Seq(StepNames)
    BY <2>1 DEF Left
  <2>3. RestOfPlan'
    BY <2>1, <2>2, <1>2 DEF RestOfPlan
  <2>4. ~IS!Done
    BY <2>1 DEF IS!Done
  <2> QED BY <2>1, <2>2, <2>3, <2>4
<1> QED BY <1>3, <1>4

LEMMA ReadAuthStep == ASSUME SystemsKnown, InstallInv, IS!ReadAuth PROVE InstallInv'
<1>1. Due("auth") /\ Left \in Nat
  BY DueStep, PlanLengths DEF IS!ReadAuth
<1>2. IS!Done \/ IS!Failed
  BY DEF IS!ReadAuth
<1>3. setup' = setup /\ told' = told
  BY DEF IS!ReadAuth, IS!Static
<1>4. /\ RestOfPlan'
      /\ IS!Done => Left' = Left - 1 /\ manager' \in {"none", "ok"}
      /\ IS!Failed => Left' = 0 /\ manager' = "error"
  BY <1>2, <1>3, RestFollows DEF IS!ReadAuth
<1>5. IS!TypeOK'
  BY <1>3, <1>4 DEF InstallInv, IS!TypeOK, IS!ReadAuth, IS!installed, IS!live, IS!UnitFiles,
                    IS!Linux
<1>6. InstallProgress'
  <2>1. LinuxRepair'
    BY <1>1, <1>2, <1>3, <1>4
       DEF InstallInv, InstallProgress, LinuxRepair, Going, Due,
           IS!ReadAuth, IS!installed, IS!live, IS!EndService, IS!Linux, IS!Fault
  <2>2. WindowsRepair'
    BY <1>1, <1>2, <1>3, <1>4
       DEF InstallInv, InstallProgress, WindowsRepair, Going, Due,
           IS!ReadAuth, IS!installed, IS!live, IS!EndService, IS!Linux, IS!Fault
  <2>3. LinuxRemoval'
    BY <1>1, <1>2, <1>3, <1>4
       DEF InstallInv, InstallProgress, LinuxRemoval, Going, Due,
           IS!ReadAuth, IS!installed, IS!live, IS!EndService, IS!Linux, IS!Fault
  <2>4. WindowsRemoval'
    BY <1>1, <1>2, <1>3, <1>4
       DEF InstallInv, InstallProgress, WindowsRemoval, Going, Due,
           IS!ReadAuth, IS!installed, IS!live, IS!EndService, IS!Linux, IS!Fault
  <2> QED BY <2>1, <2>2, <2>3, <2>4 DEF InstallProgress
<1> QED BY <1>4, <1>5, <1>6 DEF InstallInv

LEMMA InstallBinaryStep == ASSUME SystemsKnown, InstallInv, IS!InstallBinary PROVE InstallInv'
<1>1. Due("binary") /\ Left \in Nat
  BY DueStep, PlanLengths DEF IS!InstallBinary
<1>2. IS!Done \/ IS!Failed
  BY DEF IS!InstallBinary
<1>3. setup' = setup /\ told' = told
  BY DEF IS!InstallBinary, IS!Static
<1>4. /\ RestOfPlan'
      /\ IS!Done => Left' = Left - 1 /\ manager' \in {"none", "ok"}
      /\ IS!Failed => Left' = 0 /\ manager' = "error"
  BY <1>2, <1>3, RestFollows DEF IS!InstallBinary
<1>5. IS!TypeOK'
  BY <1>3, <1>4 DEF InstallInv, IS!TypeOK, IS!InstallBinary, IS!installed, IS!live, IS!UnitFiles,
                    IS!Linux
<1>6. InstallProgress'
  <2>1. LinuxRepair'
    <3>1. SUFFICES ASSUME Going("linux", "repair")' PROVE LinuxRepair'
      BY DEF LinuxRepair
    <3>2. IS!Done /\ Going("linux", "repair") /\ setup.os = "linux"
      BY <1>2, <1>3, <1>4, <3>1, DueStep DEF Going, IS!InstallBinary
    <3>3. Left = 6 /\ Left' = 5
      BY <1>1, <1>4, <3>2 DEF Due, Going
    <3> QED
      BY <1>3, <3>2, <3>3
         DEF InstallInv, InstallProgress, LinuxRepair, IS!Done,
             IS!InstallBinary, IS!installed, IS!live, IS!EndService, IS!Linux, IS!Fault, Going
  <2>2. WindowsRepair'
    <3>1. SUFFICES ASSUME Going("windows", "repair")' PROVE WindowsRepair'
      BY DEF WindowsRepair
    <3>2. IS!Done /\ Going("windows", "repair") /\ setup.os = "windows"
      BY <1>2, <1>3, <1>4, <3>1, DueStep DEF Going, IS!InstallBinary
    <3>3. Left = 4 /\ Left' = 3
      BY <1>1, <1>4, <3>2 DEF Due, Going
    <3> QED
      BY <1>3, <3>2, <3>3
         DEF InstallInv, InstallProgress, WindowsRepair, IS!Done,
             IS!InstallBinary, IS!installed, IS!live, IS!EndService, IS!Linux, IS!Fault, Going
  <2>3. LinuxRemoval'
    BY <1>1, <1>2, <1>3, <1>4
       DEF InstallInv, InstallProgress, LinuxRemoval, Going, Due,
           IS!InstallBinary, IS!installed, IS!live, IS!EndService, IS!Linux, IS!Fault
  <2>4. WindowsRemoval'
    BY <1>1, <1>2, <1>3, <1>4
       DEF InstallInv, InstallProgress, WindowsRemoval, Going, Due,
           IS!InstallBinary, IS!installed, IS!live, IS!EndService, IS!Linux, IS!Fault
  <2> QED BY <2>1, <2>2, <2>3, <2>4 DEF InstallProgress
<1> QED BY <1>4, <1>5, <1>6 DEF InstallInv

LEMMA WriteUnitsStep == ASSUME SystemsKnown, InstallInv, IS!WriteUnits PROVE InstallInv'
<1>1. Due("units") /\ Left \in Nat
  BY DueStep, PlanLengths DEF IS!WriteUnits
<1>2. IS!Done \/ IS!Failed
  BY DEF IS!WriteUnits
<1>3. setup' = setup /\ told' = told
  BY DEF IS!WriteUnits, IS!Static
<1>4. /\ RestOfPlan'
      /\ IS!Done => Left' = Left - 1 /\ manager' \in {"none", "ok"}
      /\ IS!Failed => Left' = 0 /\ manager' = "error"
  BY <1>2, <1>3, RestFollows DEF IS!WriteUnits
<1>5. IS!TypeOK'
  <2>1. binary' \in 0..2 /\ process' \in 0..2
    BY DEF InstallInv, IS!TypeOK, IS!WriteUnits, IS!installed, IS!live, IS!EndService
  <2>2. listening' \in BOOLEAN
    BY DEF InstallInv, IS!TypeOK, IS!WriteUnits, IS!installed, IS!live
  <2>3. tunnel' \in BOOLEAN
    BY DEF InstallInv, IS!TypeOK, IS!WriteUnits, IS!installed, IS!live, IS!EndService
  <2>4. IS!UnitFiles' = IS!UnitFiles
    BY <1>3 DEF IS!UnitFiles, IS!Linux
  <2>5. units' \subseteq IS!UnitFiles
    <3>1. setup.os = "linux"
      BY <1>1, SetupForms DEF InstallInv, Due
    <3>2. IS!UnitFiles = {"service", "socket", "startupRepair"}
      BY <3>1 DEF IS!UnitFiles, IS!Linux
    <3>3. units \subseteq IS!UnitFiles
      BY DEF InstallInv, IS!TypeOK
    <3> QED BY <3>2, <3>3 DEF IS!WriteUnits
  <2>6. owner' \in {"nobody", "installer", IS!AskingUser}
    BY DEF InstallInv, IS!TypeOK, IS!WriteUnits, IS!installed, IS!live, IS!KeptUser
  <2> QED BY <1>2, <1>3, <1>4, <2>1, <2>2, <2>3, <2>4, <2>5, <2>6 DEF InstallInv, IS!TypeOK
<1>6. InstallProgress'
  <2>1. LinuxRepair'
    <3>1. SUFFICES ASSUME Going("linux", "repair")' PROVE LinuxRepair'
      BY DEF LinuxRepair
    <3>2. IS!Done /\ Going("linux", "repair") /\ setup.os = "linux"
      BY <1>2, <1>3, <1>4, <3>1, DueStep DEF Going, IS!WriteUnits
    <3>3. Left = 5 /\ Left' = 4
      BY <1>1, <1>4, <3>2 DEF Due, Going
    <3> QED
      BY <1>3, <3>2, <3>3
         DEF InstallInv, InstallProgress, LinuxRepair, IS!Done,
             IS!WriteUnits, IS!installed, IS!live, IS!EndService, IS!Linux, IS!Fault, Going
  <2>2. WindowsRepair'
    BY <1>1, <1>2, <1>3, <1>4
       DEF InstallInv, InstallProgress, WindowsRepair, Going, Due,
           IS!WriteUnits, IS!installed, IS!live, IS!EndService, IS!Linux, IS!Fault
  <2>3. LinuxRemoval'
    BY <1>1, <1>2, <1>3, <1>4
       DEF InstallInv, InstallProgress, LinuxRemoval, Going, Due,
           IS!WriteUnits, IS!installed, IS!live, IS!EndService, IS!Linux, IS!Fault
  <2>4. WindowsRemoval'
    BY <1>1, <1>2, <1>3, <1>4
       DEF InstallInv, InstallProgress, WindowsRemoval, Going, Due,
           IS!WriteUnits, IS!installed, IS!live, IS!EndService, IS!Linux, IS!Fault
  <2> QED BY <2>1, <2>2, <2>3, <2>4 DEF InstallProgress
<1> QED BY <1>4, <1>5, <1>6 DEF InstallInv

LEMMA EnableStep == ASSUME SystemsKnown, InstallInv, IS!Enable PROVE InstallInv'
<1>1. Due("enable") /\ Left \in Nat
  BY DueStep, PlanLengths DEF IS!Enable
<1>2. IS!Done \/ IS!Failed
  BY DEF IS!Enable
<1>3. setup' = setup /\ told' = told
  BY DEF IS!Enable, IS!Static
<1>4. /\ RestOfPlan'
      /\ IS!Done => Left' = Left - 1 /\ manager' \in {"none", "ok"}
      /\ IS!Failed => Left' = 0 /\ manager' = "error"
  BY <1>2, <1>3, RestFollows DEF IS!Enable
<1>5. IS!TypeOK'
  BY <1>3, <1>4 DEF InstallInv, IS!TypeOK, IS!Enable, IS!installed, IS!live, IS!UnitFiles, IS!Linux
<1>6. InstallProgress'
  <2>1. LinuxRepair'
    <3>1. SUFFICES ASSUME Going("linux", "repair")' PROVE LinuxRepair'
      BY DEF LinuxRepair
    <3>2. IS!Done /\ Going("linux", "repair") /\ setup.os = "linux"
      BY <1>2, <1>3, <1>4, <3>1, DueStep DEF Going, IS!Enable
    <3>3. Left = 4 /\ Left' = 3
      BY <1>1, <1>4, <3>2 DEF Due, Going
    <3> QED
      BY <1>3, <3>2, <3>3
         DEF InstallInv, InstallProgress, LinuxRepair, IS!Done,
             IS!Enable, IS!installed, IS!live, IS!EndService, IS!Linux, IS!Fault, Going
  <2>2. WindowsRepair'
    BY <1>1, <1>2, <1>3, <1>4
       DEF InstallInv, InstallProgress, WindowsRepair, Going, Due,
           IS!Enable, IS!installed, IS!live, IS!EndService, IS!Linux, IS!Fault
  <2>3. LinuxRemoval'
    BY <1>1, <1>2, <1>3, <1>4
       DEF InstallInv, InstallProgress, LinuxRemoval, Going, Due,
           IS!Enable, IS!installed, IS!live, IS!EndService, IS!Linux, IS!Fault
  <2>4. WindowsRemoval'
    BY <1>1, <1>2, <1>3, <1>4
       DEF InstallInv, InstallProgress, WindowsRemoval, Going, Due,
           IS!Enable, IS!installed, IS!live, IS!EndService, IS!Linux, IS!Fault
  <2> QED BY <2>1, <2>2, <2>3, <2>4 DEF InstallProgress
<1> QED BY <1>4, <1>5, <1>6 DEF InstallInv

LEMMA GracefulStopStep == ASSUME SystemsKnown, InstallInv, IS!GracefulStop PROVE InstallInv'
<1>1. Due("graceful") /\ Left \in Nat
  BY DueStep, PlanLengths DEF IS!GracefulStop
<1>2. IS!Done \/ IS!Failed
  BY DEF IS!GracefulStop
<1>3. setup' = setup /\ told' = told
  BY DEF IS!GracefulStop, IS!Static
<1>4. /\ RestOfPlan'
      /\ IS!Done => Left' = Left - 1 /\ manager' \in {"none", "ok"}
      /\ IS!Failed => Left' = 0 /\ manager' = "error"
  BY <1>2, <1>3, RestFollows DEF IS!GracefulStop
<1>5. IS!TypeOK'
  BY <1>3, <1>4 DEF InstallInv, IS!TypeOK, IS!GracefulStop, IS!installed, IS!live, IS!UnitFiles,
                    IS!Linux
<1>6. InstallProgress'
  <2>1. LinuxRepair'
    <3>1. SUFFICES ASSUME Going("linux", "repair")' PROVE LinuxRepair'
      BY DEF LinuxRepair
    <3>2. IS!Done /\ Going("linux", "repair") /\ setup.os = "linux"
      BY <1>2, <1>3, <1>4, <3>1, DueStep DEF Going, IS!GracefulStop
    <3>3. Left = 3 /\ Left' = 2
      BY <1>1, <1>4, <3>2 DEF Due, Going
    <3> QED
      BY <1>3, <3>2, <3>3
         DEF InstallInv, InstallProgress, LinuxRepair, IS!Done,
             IS!GracefulStop, IS!installed, IS!live, IS!EndService, IS!Linux, IS!Fault, Going
  <2>2. WindowsRepair'
    BY <1>1, <1>2, <1>3, <1>4
       DEF InstallInv, InstallProgress, WindowsRepair, Going, Due,
           IS!GracefulStop, IS!installed, IS!live, IS!EndService, IS!Linux, IS!Fault
  <2>3. LinuxRemoval'
    <3>1. SUFFICES ASSUME Going("linux", "remove")' PROVE LinuxRemoval'
      BY DEF LinuxRemoval
    <3>2. IS!Done /\ Going("linux", "remove") /\ setup.os = "linux"
      BY <1>2, <1>3, <1>4, <3>1, DueStep DEF Going, IS!GracefulStop
    <3>3. Left = 5 /\ Left' = 4
      BY <1>1, <1>4, <3>2 DEF Due, Going
    <3> QED
      BY <1>3, <3>2, <3>3
         DEF InstallInv, InstallProgress, LinuxRemoval, IS!Done,
             IS!GracefulStop, IS!installed, IS!live, IS!EndService, IS!Linux, IS!Fault, Going
  <2>4. WindowsRemoval'
    BY <1>1, <1>2, <1>3, <1>4
       DEF InstallInv, InstallProgress, WindowsRemoval, Going, Due,
           IS!GracefulStop, IS!installed, IS!live, IS!EndService, IS!Linux, IS!Fault
  <2> QED BY <2>1, <2>2, <2>3, <2>4 DEF InstallProgress
<1> QED BY <1>4, <1>5, <1>6 DEF InstallInv

LEMMA RemoveSocketDirStep == ASSUME SystemsKnown, InstallInv, IS!RemoveSocketDir PROVE InstallInv'
<1>1. Due("socketDir") /\ Left \in Nat
  BY DueStep, PlanLengths DEF IS!RemoveSocketDir
<1>2. IS!Done \/ IS!Failed
  BY DEF IS!RemoveSocketDir
<1>3. setup' = setup /\ told' = told
  BY DEF IS!RemoveSocketDir, IS!Static
<1>4. /\ RestOfPlan'
      /\ IS!Done => Left' = Left - 1 /\ manager' \in {"none", "ok"}
      /\ IS!Failed => Left' = 0 /\ manager' = "error"
  BY <1>2, <1>3, RestFollows DEF IS!RemoveSocketDir
<1>5. IS!TypeOK'
  BY <1>3, <1>4 DEF InstallInv, IS!TypeOK, IS!RemoveSocketDir, IS!installed, IS!live,
                    IS!UnitFiles, IS!Linux
<1>6. InstallProgress'
  <2>1. LinuxRepair'
    <3>1. SUFFICES ASSUME Going("linux", "repair")' PROVE LinuxRepair'
      BY DEF LinuxRepair
    <3>2. IS!Done /\ Going("linux", "repair") /\ setup.os = "linux"
      BY <1>2, <1>3, <1>4, <3>1, DueStep DEF Going, IS!RemoveSocketDir
    <3>3. Left = 2 /\ Left' = 1
      BY <1>1, <1>4, <3>2 DEF Due, Going
    <3> QED
      BY <1>3, <3>2, <3>3
         DEF InstallInv, InstallProgress, LinuxRepair, IS!Done,
             IS!RemoveSocketDir, IS!installed, IS!live, IS!EndService, IS!Linux, IS!Fault, Going
  <2>2. WindowsRepair'
    BY <1>1, <1>2, <1>3, <1>4
       DEF InstallInv, InstallProgress, WindowsRepair, Going, Due,
           IS!RemoveSocketDir, IS!installed, IS!live, IS!EndService, IS!Linux, IS!Fault
  <2>3. LinuxRemoval'
    BY <1>1, <1>2, <1>3, <1>4
       DEF InstallInv, InstallProgress, LinuxRemoval, Going, Due,
           IS!RemoveSocketDir, IS!installed, IS!live, IS!EndService, IS!Linux, IS!Fault
  <2>4. WindowsRemoval'
    BY <1>1, <1>2, <1>3, <1>4
       DEF InstallInv, InstallProgress, WindowsRemoval, Going, Due,
           IS!RemoveSocketDir, IS!installed, IS!live, IS!EndService, IS!Linux, IS!Fault
  <2> QED BY <2>1, <2>2, <2>3, <2>4 DEF InstallProgress
<1> QED BY <1>4, <1>5, <1>6 DEF InstallInv

LEMMA StartSocketStep == ASSUME SystemsKnown, InstallInv, IS!StartSocket PROVE InstallInv'
<1>1. Due("socket") /\ Left \in Nat
  BY DueStep, PlanLengths DEF IS!StartSocket
<1>2. IS!Done \/ IS!Failed
  BY DEF IS!StartSocket
<1>3. setup' = setup /\ told' = told
  BY DEF IS!StartSocket, IS!Static
<1>4. /\ RestOfPlan'
      /\ IS!Done => Left' = Left - 1 /\ manager' \in {"none", "ok"}
      /\ IS!Failed => Left' = 0 /\ manager' = "error"
  BY <1>2, <1>3, RestFollows DEF IS!StartSocket
<1>5. IS!TypeOK'
  BY <1>3, <1>4 DEF InstallInv, IS!TypeOK, IS!StartSocket, IS!installed, IS!live, IS!UnitFiles,
                    IS!Linux
<1>6. InstallProgress'
  <2>1. LinuxRepair'
    <3>1. SUFFICES ASSUME Going("linux", "repair")' PROVE LinuxRepair'
      BY DEF LinuxRepair
    <3>2. IS!Done /\ Going("linux", "repair") /\ setup.os = "linux"
      BY <1>2, <1>3, <1>4, <3>1, DueStep DEF Going, IS!StartSocket
    <3>3. Left = 1 /\ Left' = 0
      BY <1>1, <1>4, <3>2 DEF Due, Going
    <3> QED
      BY <1>3, <3>2, <3>3
         DEF InstallInv, InstallProgress, LinuxRepair, IS!Done,
             IS!StartSocket, IS!installed, IS!live, IS!EndService, IS!Linux, IS!Fault, Going
  <2>2. WindowsRepair'
    BY <1>1, <1>2, <1>3, <1>4
       DEF InstallInv, InstallProgress, WindowsRepair, Going, Due,
           IS!StartSocket, IS!installed, IS!live, IS!EndService, IS!Linux, IS!Fault
  <2>3. LinuxRemoval'
    BY <1>1, <1>2, <1>3, <1>4
       DEF InstallInv, InstallProgress, LinuxRemoval, Going, Due,
           IS!StartSocket, IS!installed, IS!live, IS!EndService, IS!Linux, IS!Fault
  <2>4. WindowsRemoval'
    BY <1>1, <1>2, <1>3, <1>4
       DEF InstallInv, InstallProgress, WindowsRemoval, Going, Due,
           IS!StartSocket, IS!installed, IS!live, IS!EndService, IS!Linux, IS!Fault
  <2> QED BY <2>1, <2>2, <2>3, <2>4 DEF InstallProgress
<1> QED BY <1>4, <1>5, <1>6 DEF InstallInv

LEMMA DisableStep == ASSUME SystemsKnown, InstallInv, IS!Disable PROVE InstallInv'
<1>1. Due("disable") /\ Left \in Nat
  BY DueStep, PlanLengths DEF IS!Disable
<1>2. IS!Done \/ IS!Failed
  BY DEF IS!Disable
<1>3. setup' = setup /\ told' = told
  BY DEF IS!Disable, IS!Static
<1>4. /\ RestOfPlan'
      /\ IS!Done => Left' = Left - 1 /\ manager' \in {"none", "ok"}
      /\ IS!Failed => Left' = 0 /\ manager' = "error"
  BY <1>2, <1>3, RestFollows DEF IS!Disable
<1>5. IS!TypeOK'
  <2>1. binary' \in 0..2 /\ process' \in 0..2
    BY DEF InstallInv, IS!TypeOK, IS!Disable, IS!installed, IS!live, IS!EndService
  <2>2. listening' \in BOOLEAN
    BY DEF InstallInv, IS!TypeOK, IS!Disable, IS!installed, IS!live
  <2>3. tunnel' \in BOOLEAN
    BY DEF InstallInv, IS!TypeOK, IS!Disable, IS!installed, IS!live, IS!EndService
  <2>4. IS!UnitFiles' = IS!UnitFiles
    BY <1>3 DEF IS!UnitFiles, IS!Linux
  <2>5. units' \subseteq IS!UnitFiles
    BY DEF InstallInv, IS!TypeOK, IS!Disable, IS!installed, IS!live, IS!Linux, IS!UnitFiles
  <2>6. owner' \in {"nobody", "installer", IS!AskingUser}
    BY DEF InstallInv, IS!TypeOK, IS!Disable, IS!installed, IS!live, IS!KeptUser
  <2> QED BY <1>2, <1>3, <1>4, <2>1, <2>2, <2>3, <2>4, <2>5, <2>6 DEF InstallInv, IS!TypeOK
<1>6. InstallProgress'
  <2>1. LinuxRepair'
    BY <1>1, <1>2, <1>3, <1>4
       DEF InstallInv, InstallProgress, LinuxRepair, Going, Due,
           IS!Disable, IS!installed, IS!live, IS!EndService, IS!Linux, IS!Fault
  <2>2. WindowsRepair'
    BY <1>1, <1>2, <1>3, <1>4
       DEF InstallInv, InstallProgress, WindowsRepair, Going, Due,
           IS!Disable, IS!installed, IS!live, IS!EndService, IS!Linux, IS!Fault
  <2>3. LinuxRemoval'
    <3>1. SUFFICES ASSUME Going("linux", "remove")' PROVE LinuxRemoval'
      BY DEF LinuxRemoval
    <3>2. IS!Done /\ Going("linux", "remove") /\ setup.os = "linux"
      BY <1>2, <1>3, <1>4, <3>1, DueStep DEF Going, IS!Disable
    <3>3. Left = 4 /\ Left' = 3
      BY <1>1, <1>4, <3>2 DEF Due, Going
    <3> QED
      BY <1>3, <3>2, <3>3
         DEF InstallInv, InstallProgress, LinuxRemoval, IS!Done,
             IS!Disable, IS!installed, IS!live, IS!EndService, IS!Linux, IS!Fault, Going
  <2>4. WindowsRemoval'
    BY <1>1, <1>2, <1>3, <1>4
       DEF InstallInv, InstallProgress, WindowsRemoval, Going, Due,
           IS!Disable, IS!installed, IS!live, IS!EndService, IS!Linux, IS!Fault
  <2> QED BY <2>1, <2>2, <2>3, <2>4 DEF InstallProgress
<1> QED BY <1>4, <1>5, <1>6 DEF InstallInv

LEMMA StopServiceStep == ASSUME SystemsKnown, InstallInv, IS!StopService PROVE InstallInv'
<1>1. Due("stop") /\ Left \in Nat
  BY DueStep, PlanLengths DEF IS!StopService
<1>2. IS!Done \/ IS!Failed
  BY DEF IS!StopService
<1>3. setup' = setup /\ told' = told
  BY DEF IS!StopService, IS!Static
<1>4. /\ RestOfPlan'
      /\ IS!Done => Left' = Left - 1 /\ manager' \in {"none", "ok"}
      /\ IS!Failed => Left' = 0 /\ manager' = "error"
  BY <1>2, <1>3, RestFollows DEF IS!StopService
<1>5. IS!TypeOK'
  <2>1. binary' \in 0..2 /\ process' \in 0..2
    BY DEF InstallInv, IS!TypeOK, IS!StopService, IS!installed, IS!live, IS!EndService
  <2>2. listening' \in BOOLEAN
    BY DEF InstallInv, IS!TypeOK, IS!StopService, IS!installed, IS!live
  <2>3. tunnel' \in BOOLEAN
    BY DEF InstallInv, IS!TypeOK, IS!StopService, IS!installed, IS!live, IS!EndService
  <2>4. IS!UnitFiles' = IS!UnitFiles
    BY <1>3 DEF IS!UnitFiles, IS!Linux
  <2>5. units' \subseteq IS!UnitFiles
    BY DEF InstallInv, IS!TypeOK, IS!StopService, IS!installed, IS!live, IS!Linux, IS!UnitFiles
  <2>6. owner' \in {"nobody", "installer", IS!AskingUser}
    BY DEF InstallInv, IS!TypeOK, IS!StopService, IS!installed, IS!live, IS!KeptUser
  <2> QED BY <1>2, <1>3, <1>4, <2>1, <2>2, <2>3, <2>4, <2>5, <2>6 DEF InstallInv, IS!TypeOK
<1>6. InstallProgress'
  <2>1. LinuxRepair'
    BY <1>1, <1>2, <1>3, <1>4
       DEF InstallInv, InstallProgress, LinuxRepair, Going, Due,
           IS!StopService, IS!installed, IS!live, IS!EndService, IS!Linux, IS!Fault
  <2>2. WindowsRepair'
    BY <1>1, <1>2, <1>3, <1>4
       DEF InstallInv, InstallProgress, WindowsRepair, Going, Due,
           IS!StopService, IS!installed, IS!live, IS!EndService, IS!Linux, IS!Fault
  <2>3. LinuxRemoval'
    <3>1. SUFFICES ASSUME Going("linux", "remove")' PROVE LinuxRemoval'
      BY DEF LinuxRemoval
    <3>2. IS!Done /\ Going("linux", "remove") /\ setup.os = "linux"
      BY <1>2, <1>3, <1>4, <3>1, DueStep DEF Going, IS!StopService
    <3>3. Left = 3 /\ Left' = 2
      BY <1>1, <1>4, <3>2 DEF Due, Going
    <3> QED
      BY <1>3, <3>2, <3>3
         DEF InstallInv, InstallProgress, LinuxRemoval, IS!Done,
             IS!StopService, IS!installed, IS!live, IS!EndService, IS!Linux, IS!Fault, Going
  <2>4. WindowsRemoval'
    BY <1>1, <1>2, <1>3, <1>4
       DEF InstallInv, InstallProgress, WindowsRemoval, Going, Due,
           IS!StopService, IS!installed, IS!live, IS!EndService, IS!Linux, IS!Fault
  <2> QED BY <2>1, <2>2, <2>3, <2>4 DEF InstallProgress
<1> QED BY <1>4, <1>5, <1>6 DEF InstallInv

LEMMA RemoveUnitsStep == ASSUME SystemsKnown, InstallInv, IS!RemoveUnits PROVE InstallInv'
<1>1. Due("files") /\ Left \in Nat
  BY DueStep, PlanLengths DEF IS!RemoveUnits
<1>2. IS!Done \/ IS!Failed
  BY DEF IS!RemoveUnits
<1>3. setup' = setup /\ told' = told
  BY DEF IS!RemoveUnits, IS!Static
<1>4. /\ RestOfPlan'
      /\ IS!Done => Left' = Left - 1 /\ manager' \in {"none", "ok"}
      /\ IS!Failed => Left' = 0 /\ manager' = "error"
  BY <1>2, <1>3, RestFollows DEF IS!RemoveUnits
<1>5. IS!TypeOK'
  BY <1>3, <1>4 DEF InstallInv, IS!TypeOK, IS!RemoveUnits, IS!installed, IS!live, IS!UnitFiles,
                    IS!Linux
<1>6. InstallProgress'
  <2>1. LinuxRepair'
    BY <1>1, <1>2, <1>3, <1>4
       DEF InstallInv, InstallProgress, LinuxRepair, Going, Due,
           IS!RemoveUnits, IS!installed, IS!live, IS!EndService, IS!Linux, IS!Fault
  <2>2. WindowsRepair'
    BY <1>1, <1>2, <1>3, <1>4
       DEF InstallInv, InstallProgress, WindowsRepair, Going, Due,
           IS!RemoveUnits, IS!installed, IS!live, IS!EndService, IS!Linux, IS!Fault
  <2>3. LinuxRemoval'
    <3>1. SUFFICES ASSUME Going("linux", "remove")' PROVE LinuxRemoval'
      BY DEF LinuxRemoval
    <3>2. IS!Done /\ Going("linux", "remove") /\ setup.os = "linux"
      BY <1>2, <1>3, <1>4, <3>1, DueStep DEF Going, IS!RemoveUnits
    <3>3. Left = 2 /\ Left' = 1
      BY <1>1, <1>4, <3>2 DEF Due, Going
    <3> QED
      BY <1>3, <3>2, <3>3
         DEF InstallInv, InstallProgress, LinuxRemoval, IS!Done,
             IS!RemoveUnits, IS!installed, IS!live, IS!EndService, IS!Linux, IS!Fault, Going
  <2>4. WindowsRemoval'
    BY <1>1, <1>2, <1>3, <1>4
       DEF InstallInv, InstallProgress, WindowsRemoval, Going, Due,
           IS!RemoveUnits, IS!installed, IS!live, IS!EndService, IS!Linux, IS!Fault
  <2> QED BY <2>1, <2>2, <2>3, <2>4 DEF InstallProgress
<1> QED BY <1>4, <1>5, <1>6 DEF InstallInv

LEMMA RemoveBinaryStep == ASSUME SystemsKnown, InstallInv, IS!RemoveBinary PROVE InstallInv'
<1>1. Due("binaryFile") /\ Left \in Nat
  BY DueStep, PlanLengths DEF IS!RemoveBinary
<1>2. IS!Done \/ IS!Failed
  BY DEF IS!RemoveBinary
<1>3. setup' = setup /\ told' = told
  BY DEF IS!RemoveBinary, IS!Static
<1>4. /\ RestOfPlan'
      /\ IS!Done => Left' = Left - 1 /\ manager' \in {"none", "ok"}
      /\ IS!Failed => Left' = 0 /\ manager' = "error"
  BY <1>2, <1>3, RestFollows DEF IS!RemoveBinary
<1>5. IS!TypeOK'
  BY <1>3, <1>4 DEF InstallInv, IS!TypeOK, IS!RemoveBinary, IS!installed, IS!live, IS!UnitFiles,
                    IS!Linux
<1>6. InstallProgress'
  <2>1. LinuxRepair'
    BY <1>1, <1>2, <1>3, <1>4
       DEF InstallInv, InstallProgress, LinuxRepair, Going, Due,
           IS!RemoveBinary, IS!installed, IS!live, IS!EndService, IS!Linux, IS!Fault
  <2>2. WindowsRepair'
    BY <1>1, <1>2, <1>3, <1>4
       DEF InstallInv, InstallProgress, WindowsRepair, Going, Due,
           IS!RemoveBinary, IS!installed, IS!live, IS!EndService, IS!Linux, IS!Fault
  <2>3. LinuxRemoval'
    <3>1. SUFFICES ASSUME Going("linux", "remove")' PROVE LinuxRemoval'
      BY DEF LinuxRemoval
    <3>2. IS!Done /\ Going("linux", "remove") /\ setup.os = "linux"
      BY <1>2, <1>3, <1>4, <3>1, DueStep DEF Going, IS!RemoveBinary
    <3>3. Left = 1 /\ Left' = 0
      BY <1>1, <1>4, <3>2 DEF Due, Going
    <3> QED
      BY <1>3, <3>2, <3>3
         DEF InstallInv, InstallProgress, LinuxRemoval, IS!Done,
             IS!RemoveBinary, IS!installed, IS!live, IS!EndService, IS!Linux, IS!Fault, Going
  <2>4. WindowsRemoval'
    <3>1. SUFFICES ASSUME Going("windows", "remove")' PROVE WindowsRemoval'
      BY DEF WindowsRemoval
    <3>2. IS!Done /\ Going("windows", "remove") /\ setup.os = "windows"
      BY <1>2, <1>3, <1>4, <3>1, DueStep DEF Going, IS!RemoveBinary
    <3>3. Left = 1 /\ Left' = 0
      BY <1>1, <1>4, <3>2 DEF Due, Going
    <3> QED
      BY <1>3, <3>2, <3>3
         DEF InstallInv, InstallProgress, WindowsRemoval, IS!Done,
             IS!RemoveBinary, IS!installed, IS!live, IS!EndService, IS!Linux, IS!Fault, Going
  <2> QED BY <2>1, <2>2, <2>3, <2>4 DEF InstallProgress
<1> QED BY <1>4, <1>5, <1>6 DEF InstallInv

LEMMA UnregisterStep == ASSUME SystemsKnown, InstallInv, IS!Unregister PROVE InstallInv'
<1>1. Due("unregister") /\ Left \in Nat
  BY DueStep, PlanLengths DEF IS!Unregister
<1>2. IS!Done \/ IS!Failed
  BY DEF IS!Unregister
<1>3. setup' = setup /\ told' = told
  BY DEF IS!Unregister, IS!Static
<1>4. /\ RestOfPlan'
      /\ IS!Done => Left' = Left - 1 /\ manager' \in {"none", "ok"}
      /\ IS!Failed => Left' = 0 /\ manager' = "error"
  BY <1>2, <1>3, RestFollows DEF IS!Unregister
<1>5. IS!TypeOK'
  <2>1. binary' \in 0..2 /\ process' \in 0..2
    BY DEF InstallInv, IS!TypeOK, IS!Unregister, IS!installed, IS!live, IS!EndService
  <2>2. listening' \in BOOLEAN
    BY DEF InstallInv, IS!TypeOK, IS!Unregister, IS!installed, IS!live
  <2>3. tunnel' \in BOOLEAN
    BY DEF InstallInv, IS!TypeOK, IS!Unregister, IS!installed, IS!live, IS!EndService
  <2>4. IS!UnitFiles' = IS!UnitFiles
    BY <1>3 DEF IS!UnitFiles, IS!Linux
  <2>5. units' \subseteq IS!UnitFiles
    BY DEF InstallInv, IS!TypeOK, IS!Unregister, IS!installed, IS!live, IS!Linux, IS!UnitFiles
  <2>6. owner' \in {"nobody", "installer", IS!AskingUser}
    BY DEF InstallInv, IS!TypeOK, IS!Unregister, IS!installed, IS!live, IS!KeptUser
  <2> QED BY <1>2, <1>3, <1>4, <2>1, <2>2, <2>3, <2>4, <2>5, <2>6 DEF InstallInv, IS!TypeOK
<1>6. InstallProgress'
  <2>1. LinuxRepair'
    BY <1>1, <1>2, <1>3, <1>4
       DEF InstallInv, InstallProgress, LinuxRepair, Going, Due,
           IS!Unregister, IS!installed, IS!live, IS!EndService, IS!Linux, IS!Fault
  <2>2. WindowsRepair'
    <3>1. SUFFICES ASSUME Going("windows", "repair")' PROVE WindowsRepair'
      BY DEF WindowsRepair
    <3>2. IS!Done /\ Going("windows", "repair") /\ setup.os = "windows"
      BY <1>2, <1>3, <1>4, <3>1, DueStep DEF Going, IS!Unregister
    <3>3. Left = 5 /\ Left' = 4
      BY <1>1, <1>4, <3>2 DEF Due, Going
    <3> QED
      BY <1>3, <3>2, <3>3
         DEF InstallInv, InstallProgress, WindowsRepair, IS!Done,
             IS!Unregister, IS!installed, IS!live, IS!EndService, IS!Linux, IS!Fault, Going
  <2>3. LinuxRemoval'
    BY <1>1, <1>2, <1>3, <1>4
       DEF InstallInv, InstallProgress, LinuxRemoval, Going, Due,
           IS!Unregister, IS!installed, IS!live, IS!EndService, IS!Linux, IS!Fault
  <2>4. WindowsRemoval'
    <3>1. SUFFICES ASSUME Going("windows", "remove")' PROVE WindowsRemoval'
      BY DEF WindowsRemoval
    <3>2. IS!Done /\ Going("windows", "remove") /\ setup.os = "windows"
      BY <1>2, <1>3, <1>4, <3>1, DueStep DEF Going, IS!Unregister
    <3>3. Left = 2 /\ Left' = 1
      BY <1>1, <1>4, <3>2 DEF Due, Going
    <3> QED
      BY <1>3, <3>2, <3>3
         DEF InstallInv, InstallProgress, WindowsRemoval, IS!Done,
             IS!Unregister, IS!installed, IS!live, IS!EndService, IS!Linux, IS!Fault, Going
  <2> QED BY <2>1, <2>2, <2>3, <2>4 DEF InstallProgress
<1> QED BY <1>4, <1>5, <1>6 DEF InstallInv

LEMMA RegisterStep == ASSUME SystemsKnown, InstallInv, IS!Register PROVE InstallInv'
<1>1. Due("register") /\ Left \in Nat
  BY DueStep, PlanLengths DEF IS!Register
<1>2. IS!Done \/ IS!Failed
  BY DEF IS!Register
<1>3. setup' = setup /\ told' = told
  BY DEF IS!Register, IS!Static
<1>4. /\ RestOfPlan'
      /\ IS!Done => Left' = Left - 1 /\ manager' \in {"none", "ok"}
      /\ IS!Failed => Left' = 0 /\ manager' = "error"
  BY <1>2, <1>3, RestFollows DEF IS!Register
<1>5. IS!TypeOK'
  BY <1>3, <1>4 DEF InstallInv, IS!TypeOK, IS!Register, IS!installed, IS!live, IS!UnitFiles,
                    IS!Linux
<1>6. InstallProgress'
  <2>1. LinuxRepair'
    BY <1>1, <1>2, <1>3, <1>4
       DEF InstallInv, InstallProgress, LinuxRepair, Going, Due,
           IS!Register, IS!installed, IS!live, IS!EndService, IS!Linux, IS!Fault
  <2>2. WindowsRepair'
    <3>1. SUFFICES ASSUME Going("windows", "repair")' PROVE WindowsRepair'
      BY DEF WindowsRepair
    <3>2. IS!Done /\ Going("windows", "repair") /\ setup.os = "windows"
      BY <1>2, <1>3, <1>4, <3>1, DueStep DEF Going, IS!Register
    <3>3. Left = 3 /\ Left' = 2
      BY <1>1, <1>4, <3>2 DEF Due, Going
    <3> QED
      BY <1>3, <3>2, <3>3
         DEF InstallInv, InstallProgress, WindowsRepair, IS!Done,
             IS!Register, IS!installed, IS!live, IS!EndService, IS!Linux, IS!Fault, Going
  <2>3. LinuxRemoval'
    BY <1>1, <1>2, <1>3, <1>4
       DEF InstallInv, InstallProgress, LinuxRemoval, Going, Due,
           IS!Register, IS!installed, IS!live, IS!EndService, IS!Linux, IS!Fault
  <2>4. WindowsRemoval'
    BY <1>1, <1>2, <1>3, <1>4
       DEF InstallInv, InstallProgress, WindowsRemoval, Going, Due,
           IS!Register, IS!installed, IS!live, IS!EndService, IS!Linux, IS!Fault
  <2> QED BY <2>1, <2>2, <2>3, <2>4 DEF InstallProgress
<1> QED BY <1>4, <1>5, <1>6 DEF InstallInv

LEMMA StartServiceStep == ASSUME SystemsKnown, InstallInv, IS!StartService PROVE InstallInv'
<1>1. Due("start") /\ Left \in Nat
  BY DueStep, PlanLengths DEF IS!StartService
<1>2. IS!Done \/ IS!Failed
  BY DEF IS!StartService
<1>3. setup' = setup /\ told' = told
  BY DEF IS!StartService, IS!Static
<1>4. /\ RestOfPlan'
      /\ IS!Done => Left' = Left - 1 /\ manager' \in {"none", "ok"}
      /\ IS!Failed => Left' = 0 /\ manager' = "error"
  BY <1>2, <1>3, RestFollows DEF IS!StartService
<1>5. IS!TypeOK'
  BY <1>3, <1>4 DEF InstallInv, IS!TypeOK, IS!StartService, IS!installed, IS!live, IS!UnitFiles,
                    IS!Linux
<1>6. InstallProgress'
  <2>1. LinuxRepair'
    BY <1>1, <1>2, <1>3, <1>4
       DEF InstallInv, InstallProgress, LinuxRepair, Going, Due,
           IS!StartService, IS!installed, IS!live, IS!EndService, IS!Linux, IS!Fault
  <2>2. WindowsRepair'
    <3>1. SUFFICES ASSUME Going("windows", "repair")' PROVE WindowsRepair'
      BY DEF WindowsRepair
    <3>2. IS!Done /\ Going("windows", "repair") /\ setup.os = "windows"
      BY <1>2, <1>3, <1>4, <3>1, DueStep DEF Going, IS!StartService
    <3>3. Left = 2 /\ Left' = 1
      BY <1>1, <1>4, <3>2 DEF Due, Going
    <3> QED
      BY <1>3, <3>2, <3>3
         DEF InstallInv, InstallProgress, WindowsRepair, IS!Done,
             IS!StartService, IS!installed, IS!live, IS!EndService, IS!Linux, IS!Fault, Going
  <2>3. LinuxRemoval'
    BY <1>1, <1>2, <1>3, <1>4
       DEF InstallInv, InstallProgress, LinuxRemoval, Going, Due,
           IS!StartService, IS!installed, IS!live, IS!EndService, IS!Linux, IS!Fault
  <2>4. WindowsRemoval'
    BY <1>1, <1>2, <1>3, <1>4
       DEF InstallInv, InstallProgress, WindowsRemoval, Going, Due,
           IS!StartService, IS!installed, IS!live, IS!EndService, IS!Linux, IS!Fault
  <2> QED BY <2>1, <2>2, <2>3, <2>4 DEF InstallProgress
<1> QED BY <1>4, <1>5, <1>6 DEF InstallInv

LEMMA ConfirmStep == ASSUME SystemsKnown, InstallInv, IS!Confirm PROVE InstallInv'
<1>1. Due("confirm") /\ Left \in Nat
  BY DueStep, PlanLengths DEF IS!Confirm
<1>2. IS!Done \/ IS!Failed
  BY DEF IS!Confirm
<1>3. setup' = setup /\ told' = told
  BY DEF IS!Confirm, IS!Static
<1>4. /\ RestOfPlan'
      /\ IS!Done => Left' = Left - 1 /\ manager' \in {"none", "ok"}
      /\ IS!Failed => Left' = 0 /\ manager' = "error"
  BY <1>2, <1>3, RestFollows DEF IS!Confirm
<1>5. IS!TypeOK'
  BY <1>3, <1>4 DEF InstallInv, IS!TypeOK, IS!Confirm, IS!installed, IS!live, IS!UnitFiles, IS!Linux
<1>6. InstallProgress'
  <2>1. LinuxRepair'
    BY <1>1, <1>2, <1>3, <1>4
       DEF InstallInv, InstallProgress, LinuxRepair, Going, Due,
           IS!Confirm, IS!installed, IS!live, IS!EndService, IS!Linux, IS!Fault
  <2>2. WindowsRepair'
    <3>1. SUFFICES ASSUME Going("windows", "repair")' PROVE WindowsRepair'
      BY DEF WindowsRepair
    <3>2. IS!Done /\ Going("windows", "repair") /\ setup.os = "windows"
      BY <1>2, <1>3, <1>4, <3>1, DueStep DEF Going, IS!Confirm
    <3>3. Left = 1 /\ Left' = 0
      BY <1>1, <1>4, <3>2 DEF Due, Going
    <3> QED
      BY <1>3, <3>2, <3>3
         DEF InstallInv, InstallProgress, WindowsRepair, IS!Done,
             IS!Confirm, IS!installed, IS!live, IS!EndService, IS!Linux, IS!Fault, Going
  <2>3. LinuxRemoval'
    BY <1>1, <1>2, <1>3, <1>4
       DEF InstallInv, InstallProgress, LinuxRemoval, Going, Due,
           IS!Confirm, IS!installed, IS!live, IS!EndService, IS!Linux, IS!Fault
  <2>4. WindowsRemoval'
    BY <1>1, <1>2, <1>3, <1>4
       DEF InstallInv, InstallProgress, WindowsRemoval, Going, Due,
           IS!Confirm, IS!installed, IS!live, IS!EndService, IS!Linux, IS!Fault
  <2> QED BY <2>1, <2>2, <2>3, <2>4 DEF InstallProgress
<1> QED BY <1>4, <1>5, <1>6 DEF InstallInv

LEMMA TellUiStep == ASSUME SystemsKnown, InstallInv, IS!TellUi PROVE InstallInv'
<1>1. /\ setup' = setup /\ steps' = steps /\ manager' = manager /\ binary' = binary
      /\ units' = units /\ owner' = owner /\ listening' = listening
      /\ process' = process /\ tunnel' = tunnel
  BY DEF IS!TellUi, IS!installed, IS!live
<1>2. told' \in {"none", "ok", "error"}
  BY DEF InstallInv, IS!TypeOK, IS!TellUi, IS!Verdict
<1> QED
  BY <1>1, <1>2
     DEF InstallInv, IS!TypeOK, IS!UnitFiles, IS!Linux, RestOfPlan, Left, ThePlan, InstallProgress,
         LinuxRepair, WindowsRepair, LinuxRemoval, WindowsRemoval, Going

(* A client may start the service and a tunnel between any two steps.        *)
LEMMA ClientStartsStep == ASSUME SystemsKnown, InstallInv, IS!ClientStarts PROVE InstallInv'
<1>1. /\ setup' = setup /\ steps' = steps /\ manager' = manager /\ told' = told
      /\ binary' = binary /\ units' = units /\ owner' = owner /\ listening' = listening
      /\ tunnel' = TRUE /\ process' = IF process = 0 THEN binary ELSE process
  BY DEF IS!ClientStarts, IS!installed
<1>2. Left' = Left /\ RestOfPlan' /\ Left \in Nat
  BY <1>1, PlanLengths DEF InstallInv, RestOfPlan, Left, ThePlan
<1>3. IS!TypeOK'
  BY <1>1 DEF InstallInv, IS!TypeOK, IS!UnitFiles, IS!Linux
<1>4. IF setup.os = "linux" THEN listening /\ binary # 0 ELSE process # 0
  BY DEF IS!ClientStarts, IS!Linux
<1>5. LinuxRepair'
  BY <1>1, <1>2 DEF InstallInv, InstallProgress, LinuxRepair, Going
<1>6. WindowsRepair'
  BY <1>1, <1>2, <1>4 DEF InstallInv, InstallProgress, WindowsRepair, Going
<1>7. LinuxRemoval'
  <2>1. CASE Going("linux", "remove")
    <3>1. listening # FALSE
      BY <1>4, <2>1 DEF Going
    <3>2. ~(Left <= 3)
      BY <2>1, <3>1 DEF InstallInv, InstallProgress, LinuxRemoval
    <3> QED BY <1>2, <3>2 DEF LinuxRemoval
  <2>2. CASE ~Going("linux", "remove")
    BY <1>1, <2>2 DEF LinuxRemoval, Going
  <2> QED BY <2>1, <2>2
<1>8. WindowsRemoval'
  <2>1. CASE Going("windows", "remove")
    <3>1. process # 0
      BY <1>4, <2>1 DEF Going
    <3>2. ~(Left <= 1)
      BY <2>1, <3>1 DEF InstallInv, InstallProgress, WindowsRemoval
    <3> QED BY <1>2, <3>2 DEF WindowsRemoval
  <2>2. CASE ~Going("windows", "remove")
    BY <1>1, <2>2 DEF WindowsRemoval, Going
  <2> QED BY <2>1, <2>2
<1> QED BY <1>2, <1>3, <1>5, <1>6, <1>7, <1>8 DEF InstallInv, InstallProgress

LEMMA InstallInitially == ASSUME SystemsKnown, IS!Init PROVE InstallInv
<1>1. IS!TypeOK
  <2>1. listening \in BOOLEAN
    BY DEF IS!Init, IS!Linux
  <2>2. tunnel \in BOOLEAN
    BY DEF IS!Init
  <2>3. units \subseteq IS!UnitFiles
    BY DEF IS!Init
  <2>4. binary \in 0..2
    <3>1. binary \in {0, 1}
      BY DEF IS!Init
    <3> QED BY <3>1
  <2>5. process \in 0..2
    <3>1. process \in {0, 1}
      BY DEF IS!Init
    <3> QED BY <3>1
  <2>8. owner \in {"nobody", "installer", IS!AskingUser}
    BY DEF IS!Init
  <2>6. manager = "none" /\ told = "none"
    BY DEF IS!Init
  <2>7. setup \in [os: Systems, action: IS!Actions, faults: InstallFaults, sameProtocol: BOOLEAN]
    BY DEF IS!Init
  <2> QED BY <2>1, <2>2, <2>3, <2>4, <2>5, <2>6, <2>7, <2>8 DEF IS!TypeOK
<1>2. steps = ThePlan /\ manager = "none"
  BY DEF IS!Init, ThePlan
<1>3. ThePlan \in Seq(StepNames)
  BY <1>1, SetupForms, PlansNamed DEF ThePlan
<1>7. Len(ThePlan) \in Nat /\ Len(ThePlan) # 0
  <2>1. ThePlan # <<>>
    BY <1>1, SetupForms, PlansNamed DEF ThePlan
  <2> QED BY <1>3, <2>1
<1>4. RestOfPlan
  BY <1>2, <1>3, <1>7 DEF RestOfPlan, Left
<1>5. Left = Len(ThePlan)
  BY <1>2 DEF Left
<1>6. InstallProgress
  <2>1. /\ setup.os = "linux" /\ setup.action = "repair" => Left = 7
        /\ setup.os = "linux" /\ setup.action = "remove" => Left = 5
        /\ setup.os = "windows" /\ setup.action = "repair" => Left = 5
        /\ setup.os = "windows" /\ setup.action = "remove" => Left = 2
    BY <1>5, PlanKnown DEF ThePlan
  <2> QED BY <2>1
          DEF InstallProgress, LinuxRepair, WindowsRepair, LinuxRemoval, WindowsRemoval, Going
<1> QED BY <1>1, <1>4, <1>6 DEF InstallInv

LEMMA InstallStep ==
  ASSUME SystemsKnown, InstallInv, [IS!Next]_(IS!vars)
  PROVE  InstallInv'
<1>1. CASE UNCHANGED IS!vars
  BY <1>1 DEF IS!vars, InstallInv, IS!TypeOK, IS!UnitFiles, IS!Linux, RestOfPlan, Left, ThePlan,
       InstallProgress, LinuxRepair, WindowsRepair, LinuxRemoval, WindowsRemoval, Going
<1>2. CASE IS!Next
  <2>1. CASE IS!LinuxStep
    BY <2>1, ReadAuthStep, InstallBinaryStep, WriteUnitsStep, EnableStep, GracefulStopStep,
       RemoveSocketDirStep, StartSocketStep, DisableStep, StopServiceStep, RemoveUnitsStep,
       RemoveBinaryStep DEF IS!LinuxStep
  <2>2. CASE IS!WindowsStep
    BY <2>2, UnregisterStep, RegisterStep, StartServiceStep, ConfirmStep DEF IS!WindowsStep
  <2> QED BY <1>2, <2>1, <2>2, TellUiStep, ClientStartsStep DEF IS!Next
<1> QED BY <1>1, <1>2

LEMMA InstallInvariant == ASSUME SystemsKnown PROVE IS!Spec => []InstallInv
BY InstallInitially, InstallStep, PTL DEF IS!Spec

LEMMA WordKept == ASSUME SystemsKnown, InstallInv PROVE IS!ManagerKeepsItsWord
<1>1. SUFFICES ASSUME manager = "ok", setup.faults = {}
               PROVE  /\ setup.action = "repair" => process # 1 /\ binary = 2
                      /\ setup.action = "remove" =>
                           process = 0 /\ tunnel = FALSE /\ binary = 0 /\ units = {}
  BY DEF IS!ManagerKeepsItsWord
<1>2. Left = 0 /\ manager # "error"
  BY <1>1 DEF InstallInv, RestOfPlan
<1>3. setup.os \in {"linux", "windows"}
  BY <1>1, SetupForms DEF InstallInv
<1> QED
  BY <1>1, <1>2, <1>3
     DEF InstallInv, InstallProgress, LinuxRepair, WindowsRepair, LinuxRemoval, WindowsRemoval,
         Going

(* A manager that met no fault and reports success has done what it was asked *)
(* for: no process of the old version serves after a repair, nothing is left *)
(* after a removal (manage.rs, windows_service_manager.rs), whatever clients *)
(* did with the service between its steps.                                   *)
THEOREM ManagerAlwaysKeepsItsWord ==
  ASSUME SystemsKnown PROVE IS!Spec => []IS!ManagerKeepsItsWord
<1>1. InstallInv => IS!ManagerKeepsItsWord
  BY WordKept
<1> QED BY <1>1, InstallInvariant, PTL

LEMMA OwnerKeeping == ASSUME IS!Next PROVE IS!OwnerKept
<1>1. SUFFICES ASSUME setup.action = "repair", {"service", "socket"} \subseteq units
               PROVE  owner' = owner
  BY DEF IS!OwnerKept
<1>2. IS!KeptUser = owner
  BY <1>1 DEF IS!KeptUser
<1>3. CASE IS!LinuxStep
  BY <1>2, <1>3
     DEF IS!LinuxStep, IS!ReadAuth, IS!InstallBinary, IS!WriteUnits, IS!Enable, IS!GracefulStop,
         IS!RemoveSocketDir, IS!StartSocket, IS!Disable, IS!StopService, IS!RemoveUnits,
         IS!RemoveBinary, IS!installed
<1>4. CASE IS!WindowsStep
  BY <1>4 DEF IS!WindowsStep, IS!Unregister, IS!Register, IS!StartService, IS!Confirm, IS!installed
<1>5. CASE IS!TellUi \/ IS!ClientStarts
  BY <1>5 DEF IS!TellUi, IS!ClientStarts, IS!installed
<1> QED BY <1>1, <1>3, <1>4, <1>5 DEF IS!Next

(* A Linux repair writes the units for the user they were made for           *)
(* (load_existing_install_auth_mode).                                        *)
THEOREM OwnerAlwaysKept == ASSUME SystemsKnown PROVE IS!Spec => [][IS!OwnerKept]_(IS!vars)
<1>1. IS!Next => IS!OwnerKept
  BY OwnerKeeping
<1> QED BY <1>1, PTL DEF IS!Spec

(* On Linux the UI waits for the manager and hears its result; the case that *)
(* RepairAnswersForItself shows to fail is the Windows one.                  *)
LinuxHearsManager == setup.os = "linux" => told \in {"none", manager}
THEOREM LinuxAlwaysHearsManager == ASSUME SystemsKnown PROVE IS!Spec => []LinuxHearsManager
<1>1. IS!Init => LinuxHearsManager
  BY DEF IS!Init, LinuxHearsManager
<1>2. LinuxHearsManager /\ [IS!Next]_(IS!vars) => LinuxHearsManager'
  <2>1. SUFFICES ASSUME LinuxHearsManager, [IS!Next]_(IS!vars), setup'.os = "linux"
                 PROVE  told' \in {"none", manager'}
    BY DEF LinuxHearsManager
  <2>2. CASE UNCHANGED IS!vars
    BY <2>1, <2>2 DEF IS!vars, LinuxHearsManager
  <2>3. CASE IS!LinuxStep
    <3>1. manager = "none" /\ told' = told /\ setup' = setup
      BY <2>3
         DEF IS!LinuxStep, IS!ReadAuth, IS!InstallBinary, IS!WriteUnits, IS!Enable,
             IS!GracefulStop, IS!RemoveSocketDir, IS!StartSocket, IS!Disable, IS!StopService,
             IS!RemoveUnits, IS!RemoveBinary, IS!At, IS!Static
    <3> QED BY <2>1, <3>1 DEF LinuxHearsManager
  <2>4. CASE IS!WindowsStep
    <3>1. manager = "none" /\ told' = told /\ setup' = setup
      BY <2>4
         DEF IS!WindowsStep, IS!Unregister, IS!Register, IS!StartService, IS!Confirm, IS!At,
             IS!Static
    <3> QED BY <2>1, <3>1 DEF LinuxHearsManager
  <2>5. CASE IS!TellUi
    BY <2>1, <2>5 DEF IS!TellUi, IS!Linux, LinuxHearsManager
  <2>6. CASE IS!ClientStarts
    BY <2>1, <2>6 DEF IS!ClientStarts, LinuxHearsManager
  <2> QED BY <2>1, <2>2, <2>3, <2>4, <2>5, <2>6 DEF IS!Next
<1> QED BY <1>1, <1>2, PTL DEF IS!Spec

-----------------------------------------------------------------------------
(* The exchange of frames (ipc_client.rs, ipc_server.rs and the transports). *)
(* What the engine has carried out and which exchange has failed is known by *)
(* what the call waits for: its Info, its command, or the stop that takes a  *)
(* start back.                                                               *)
FramesKnown == MaxFrame \in Nat /\ FrameLengths \subseteq Nat

IpcTypes ==
  /\ setting \in [transport : Transports, version : {"same", "other"}, admitted : BOOLEAN]
  /\ request = [op |-> request.op, at |-> request.at, answer |-> request.answer]
  /\ exchange = [at |-> exchange.at, need |-> exchange.need, got |-> exchange.got,
                 reply |-> exchange.reply]
  /\ exchange.need \in Nat /\ exchange.got \in Nat
  /\ request.at # "idle" => request.op \in IP!Ops

Refused == setting.admitted = FALSE /\ exchange.reply = IP!Denied

(* What has happened, by what the call waits for.                            *)
Fresh == request.at = "idle" => executed = {} /\ trouble = {}
Asking ==
  request.at = "info" =>
    /\ executed = {} /\ trouble = {} /\ IP!Checked(request.op)
    /\ exchange.at = "reply" => Refused \/ exchange.reply = IP!InfoReply
Commanding ==
  request.at = "command" =>
    /\ trouble = {}
    /\ IP!Checked(request.op) => setting.version = "same"
    /\ exchange.at # "reply" => executed = {}
    /\ exchange.at = "reply" =>
         \/ Refused
         \/ \E r \in IP!CanAnswer(request.op) :
              executed = {<<request.op, r>>} /\ exchange.reply = IP!Reply(request.op, r)
TakingBack ==
  request.at = "cleanup" =>
    /\ request.op = "start" /\ "timeout" \in IP!Failures /\ <<"start", "timeout">> \in trouble
    /\ exchange.at = "reply" => Refused \/ \E r \in IP!Results : <<"stop", r>> \in executed

IpcInv == IP!TypeOK /\ IpcTypes /\ IP!FramesBounded /\ Fresh /\ Asking /\ Commanding
          /\ TakingBack /\ IP!AnswersTrue

-----------------------------------------------------------------------------
LEMMA AnswersInResults ==
  ASSUME NEW op \in IP!Ops PROVE IP!CanAnswer(op) \subseteq IP!Results
BY DEF IP!Ops, IP!Unit, IP!RelayOps, IP!CanAnswer, IP!Results, IP!Local, IP!EngineErrors

LEMMA NotAnswered ==
  ASSUME request.at # "answered" PROVE IP!AnswersTrue
BY DEF IP!AnswersTrue, IP!Answered

LEMMA CommandsAre ==
  ASSUME IpcInv
  PROVE  /\ request.at = "info" => IP!Command = "info"
         /\ request.at = "command" => IP!Command = request.op
         /\ request.at = "cleanup" => IP!Command = "stop"
BY DEF IP!Command

LEMMA Given ==
  ASSUME IpcInv, NEW a, IP!Answer(a)
  PROVE  request' = [op |-> request.op, at |-> "answered", answer |-> a]
BY DEF IpcInv, IpcTypes, IP!Answer

LEMMA Waiting ==
  ASSUME IpcInv, exchange.at # "closed" \/ request.at \in {"info", "command", "cleanup"}
  PROVE  request.at \in {"info", "command", "cleanup"} /\ request.op \in IP!Ops
<1>1. request.at \in {"info", "command", "cleanup"}
  BY DEF IpcInv, IP!TypeOK, IP!Closed
<1> QED BY <1>1 DEF IpcInv, IpcTypes

(* An answer given closes the exchange and ends the call.                    *)
LEMMA Ended ==
  ASSUME FramesKnown, IpcInv, NEW a, IP!Answer(a), exchange' = IP!Closed, UNCHANGED <<setting, executed>>,
         request.at \in {"info", "command", "cleanup"}, IP!AnswersTrue'
  PROVE  IpcInv'
<1>1. request' = [op |-> request.op, at |-> "answered", answer |-> a]
  BY Given
<1>2. request'.at = "answered" /\ request'.op = request.op
  BY <1>1
<1>3. /\ exchange'.at = "closed" /\ exchange'.need = 0 /\ exchange'.got = 0
      /\ exchange' = [at |-> exchange'.at, need |-> exchange'.need, got |-> exchange'.got,
                      reply |-> exchange'.reply]
  BY DEF IP!Closed
<1>4. IP!TypeOK'
  BY <1>2, <1>3 DEF IpcInv, IP!TypeOK, IP!Closed
<1>5. IpcTypes'
  BY <1>1, <1>2, <1>3 DEF IpcInv, IpcTypes
<1>6. IP!FramesBounded'
  BY <1>3 DEF IpcInv, IP!FramesBounded, FramesKnown
<1> QED
  BY <1>2, <1>4, <1>5, <1>6 DEF IpcInv, Fresh, Asking, Commanding, TakingBack

(* What the step that answers a start owes, stated of every step.            *)
StartTakenBack ==
  request'.at = "answered" /\ request.at # "answered" /\ request'.op = "start"
    /\ <<"start", "timeout">> \in trouble' =>
  (\E r \in IP!Results : <<"stop", r>> \in executed')
    \/ IP!TroubleWith("stop", IP!Failures)' \/ setting.admitted = FALSE

LEMMA FailedAnswers ==
  ASSUME NEW op \in IP!Ops, NEW failure \in IP!Failures
  PROVE  /\ failure = "denied" => IP!Failed(op, failure) = "AccessDenied"
         /\ failure = "missing" => IP!Failed(op, failure) \in {"Remote", "Stopped", "NotRunning", "ChannelClosed"}
         /\ failure = "missing" /\ IP!Failed(op, failure) = "Stopped" => op = "status"
         /\ failure \notin {"denied", "missing"} => IP!Failed(op, failure) = "Remote"
         /\ failure = "denied" => IP!InfoFailed(failure) = "AccessDenied"
         /\ failure = "missing" => IP!InfoFailed(failure) = "ChannelClosed"
         /\ failure \notin {"denied", "missing"} => IP!InfoFailed(failure) = "Remote"
<1>1. IP!Missing(op) \in {"Remote", "Stopped", "NotRunning", "ChannelClosed"}
  BY DEF IP!Missing, IP!Ops, IP!Unit, IP!RelayOps
<1>2. IP!Missing(op) = "Stopped" => op = "status"
  BY DEF IP!Missing, IP!Ops, IP!Unit, IP!RelayOps
<1> QED BY <1>1, <1>2 DEF IP!Failed, IP!InfoFailed

LEMMA FailStep ==
  ASSUME FramesKnown, IpcInv, UNCHANGED <<setting, executed>>, NEW failure \in IP!Failures, IP!Fail(failure),
         exchange.at # "closed" \/ request.at \in {"info", "command", "cleanup"}
  PROVE  IpcInv' /\ StartTakenBack
<1>1. request.at \in {"info", "command", "cleanup"} /\ request.op \in IP!Ops
  BY Waiting
<1>2. exchange' = IP!Closed /\ trouble' = trouble \union {<<IP!Command, failure>>}
  BY DEF IP!Fail
<1>3. IP!Failures' = IP!Failures
  BY DEF IP!Failures, IP!Platform
<1>4. CASE request.at = "info"
  <2>1. IP!Answer(IP!InfoFailed(failure)) /\ trouble' = {<<"info", failure>>} /\ executed' = {}
    BY <1>2, <1>4, CommandsAre DEF IP!Fail, IpcInv, Asking
  <2>2. request' = [op |-> request.op, at |-> "answered", answer |-> IP!InfoFailed(failure)]
    BY <2>1, Given
  <2>3. request'.op = request.op /\ request'.answer = IP!InfoFailed(failure)
    BY <2>2
  <2>4. request'.answer \in {"AccessDenied", "ChannelClosed", "Remote"}
    BY <1>1, <2>3, FailedAnswers
  <2>5. IP!AnswersTrue'
    <3>1. IP!TroubleWith("info", IP!Failures)'
      BY <1>3, <2>1 DEF IP!TroubleWith
    <3>2. request'.answer = "AccessDenied" => IP!TroubleWith("info", {"denied"})'
      BY <1>1, <2>1, <2>3, FailedAnswers DEF IP!TroubleWith
    <3>3. request'.answer = "ChannelClosed" => IP!TroubleWith("info", {"missing"})'
      BY <1>1, <2>1, <2>3, FailedAnswers DEF IP!TroubleWith
    <3> QED
      BY <2>4, <3>1, <3>2, <3>3 DEF IP!AnswersTrue, IP!Answered, IP!EngineErrors
  <2>6. StartTakenBack
    BY <2>1 DEF StartTakenBack
  <2> QED BY <1>1, <1>2, <2>1, <2>5, <2>6, Ended
<1>5. CASE request.at = "command" /\ ~(request.op = "start" /\ failure = "timeout")
  <2>1. IP!Answer(IP!Failed(request.op, failure)) /\ trouble' = {<<request.op, failure>>}
    BY <1>2, <1>5, CommandsAre DEF IP!Fail, IpcInv, Commanding
  <2>2. request' = [op |-> request.op, at |-> "answered", answer |-> IP!Failed(request.op, failure)]
    BY <2>1, Given
  <2>3. request'.op = request.op /\ request'.answer = IP!Failed(request.op, failure)
    BY <2>2
  <2>4. request'.answer \in {"AccessDenied", "Remote", "Stopped", "NotRunning", "ChannelClosed"}
    BY <1>1, <2>3, FailedAnswers
  <2>5. IP!AnswersTrue'
    <3>1. IP!TroubleWith(request.op, IP!Failures)'
      BY <1>3, <2>1, <2>3 DEF IP!TroubleWith
    <3>2. request'.answer = "AccessDenied" => IP!TroubleWith(request.op, {"denied"})'
      BY <1>1, <2>1, <2>3, FailedAnswers DEF IP!TroubleWith
    <3>3. request'.answer \in {"ChannelClosed", "NotRunning", "Stopped"} =>
            IP!TroubleWith(request.op, {"missing"})'
      BY <1>1, <2>1, <2>3, FailedAnswers DEF IP!TroubleWith
    <3>4. request'.answer = "Stopped" => request.op = "status"
      <4>1. request'.answer = "Stopped" => failure = "missing"
        <5>1. CASE failure = "denied"
          BY <1>1, <2>3, <5>1, FailedAnswers
        <5>2. CASE failure \notin {"denied", "missing"}
          BY <1>1, <2>3, <5>2, FailedAnswers
        <5> QED BY <5>1, <5>2
      <4> QED BY <1>1, <2>3, <4>1, FailedAnswers
    <3>5. SUFFICES ASSUME NEW op \in IP!Ops, IP!Answered(op)'
                   PROVE  /\ request'.answer # "Ok" /\ request'.answer # "VersionMismatch"
                          /\ IP!TroubleWith(op, IP!Failures)'
                          /\ request'.answer = "AccessDenied" => IP!TroubleWith(op, {"denied"})'
                          /\ request'.answer \in {"ChannelClosed", "NotRunning", "Stopped"} =>
                               IP!TroubleWith(op, {"missing"})'
                          /\ request'.answer = "Stopped" => op = "status"
      BY <2>4 DEF IP!AnswersTrue, IP!EngineErrors
    <3>6. op = request.op
      BY <2>3, <3>5 DEF IP!Answered
    <3> QED BY <2>3, <2>4, <3>1, <3>2, <3>3, <3>4, <3>6 DEF IP!TroubleWith
  <2>6. StartTakenBack
    BY <1>5, <2>1, <2>3 DEF StartTakenBack
  <2> QED BY <1>1, <1>2, <2>1, <2>5, <2>6, Ended
<1>6. CASE request.at = "command" /\ request.op = "start" /\ failure = "timeout"
  <2>1. request' = [request EXCEPT !.at = "cleanup"]
    BY <1>6 DEF IP!Fail
  <2>2. request' = [op |-> "start", at |-> "cleanup", answer |-> request.answer]
    BY <1>6, <2>1 DEF IpcInv, IpcTypes
  <2>3. request'.at = "cleanup" /\ request'.op = "start" /\ "start" \in IP!Ops
    BY <1>1, <1>6, <2>2
  <2>4. <<"start", "timeout">> \in trouble' /\ "timeout" \in IP!Failures'
    BY <1>2, <1>3, <1>6, CommandsAre
  <2>5. /\ exchange'.at = "closed" /\ exchange'.need = 0 /\ exchange'.got = 0
        /\ exchange' = [at |-> exchange'.at, need |-> exchange'.need, got |-> exchange'.got,
                        reply |-> exchange'.reply]
    BY <1>2 DEF IP!Closed
  <2>6. IP!TypeOK'
    BY <2>3, <2>5 DEF IpcInv, IP!TypeOK
  <2>7. IpcTypes'
    BY <2>2, <2>3, <2>5 DEF IpcInv, IpcTypes
  <2>8. IP!FramesBounded'
    BY <2>5 DEF IpcInv, IP!FramesBounded, FramesKnown
  <2>9. IP!AnswersTrue'
    BY <2>3 DEF IP!AnswersTrue, IP!Answered
  <2>10. TakingBack' /\ Fresh' /\ Asking' /\ Commanding'
    BY <2>3, <2>4, <2>5 DEF TakingBack, Fresh, Asking, Commanding
  <2> QED BY <2>3, <2>6, <2>7, <2>8, <2>9, <2>10 DEF IpcInv, StartTakenBack
<1>7. CASE request.at = "cleanup"
  <2>1. IP!Answer("Remote") /\ <<"stop", failure>> \in trouble' /\ trouble \subseteq trouble'
    BY <1>2, <1>7, CommandsAre DEF IP!Fail
  <2>2. request' = [op |-> request.op, at |-> "answered", answer |-> "Remote"]
    BY <2>1, Given
  <2>3. request'.op = "start" /\ request'.answer = "Remote"
    BY <1>7, <2>2 DEF IpcInv, TakingBack
  <2>4. IP!TroubleWith("start", IP!Failures)'
    BY <1>3, <1>7, <2>1 DEF IpcInv, TakingBack, IP!TroubleWith
  <2>5. IP!AnswersTrue'
    BY <2>3, <2>4 DEF IP!AnswersTrue, IP!Answered, IP!EngineErrors
  <2>6. StartTakenBack
    BY <1>3, <2>1 DEF StartTakenBack, IP!TroubleWith
  <2> QED BY <1>1, <1>2, <2>1, <2>5, <2>6, Ended
<1> QED BY <1>1, <1>4, <1>5, <1>6, <1>7

LEMMA ReceiveMeans ==
  ASSUME NEW reply, IP!Receive(reply)
  PROVE  /\ exchange' = IP!Closed
         /\ request.at = "cleanup" => IP!Answer("Remote")
         /\ request.at # "cleanup" /\ reply.type = "Error" => IP!Answer(IP!Mapped(reply.kind))
         /\ request.at = "info" /\ reply.type # "Error" /\ setting.version = "same" =>
              request' = [request EXCEPT !.at = "command"]
         /\ request.at = "info" /\ reply.type # "Error" /\ setting.version # "same" =>
              IP!Answer("VersionMismatch")
         /\ request.at = "command" /\ reply.type # "Error" /\ reply.type = IP!ReplyType(request.op) =>
              IP!Answer("Ok")
BY DEF IP!Receive

(* The answer of a reply: of a refusal, of another version, of the engine.   *)
LEMMA RefusedReceived ==
  ASSUME FramesKnown, IpcInv, UNCHANGED <<setting, executed, trouble>>, exchange.at = "reply",
         request.at \in {"info", "command"}, Refused, IP!Receive(exchange.reply)
  PROVE  IpcInv' /\ StartTakenBack
<1>1. request.op \in IP!Ops /\ exchange' = IP!Closed
  BY Waiting, ReceiveMeans
<1>2. IP!Answer("AccessDenied")
  <2>1. exchange.reply.type = "Error" /\ exchange.reply.kind = "AccessDenied"
    BY DEF Refused, IP!Denied
  <2>2. IP!Mapped("AccessDenied") = "AccessDenied"
    BY DEF IP!Mapped
  <2>3. request.at # "cleanup"
    OBVIOUS
  <2>4. IP!Answer(IP!Mapped(exchange.reply.kind))
    BY <2>1, <2>3, ReceiveMeans
  <2> QED BY <2>1, <2>2, <2>4
<1>3. request' = [op |-> request.op, at |-> "answered", answer |-> "AccessDenied"]
  BY <1>2, Given
<1>4. request'.answer = "AccessDenied" /\ ~setting'.admitted
  BY <1>3 DEF Refused
<1>5. IP!AnswersTrue'
  BY <1>4 DEF IP!AnswersTrue, IP!Answered, IP!EngineErrors
<1>6. StartTakenBack
  BY DEF StartTakenBack, Refused
<1> QED BY <1>1, <1>2, <1>5, <1>6, Ended

LEMMA InfoReceived ==
  ASSUME FramesKnown, IpcInv, UNCHANGED <<setting, executed, trouble>>, exchange.at = "reply",
         request.at = "info", ~Refused, IP!Receive(exchange.reply)
  PROVE  IpcInv' /\ StartTakenBack
<1>1. request.op \in IP!Ops /\ exchange' = IP!Closed
  BY Waiting, ReceiveMeans
<1>2. executed' = {} /\ trouble' = {} /\ IP!Checked(request.op) /\ exchange.reply.type = "Info"
  BY DEF IpcInv, Asking, IP!InfoReply
<1>3. CASE setting.version = "same"
  <2>1. request' = [request EXCEPT !.at = "command"]
    BY <1>2, <1>3, ReceiveMeans
  <2>2. request' = [op |-> request.op, at |-> "command", answer |-> request.answer]
    BY <2>1 DEF IpcInv, IpcTypes
  <2>3. request'.at = "command" /\ request'.op = request.op
    BY <2>2
  <2>4. /\ exchange'.at = "closed" /\ exchange'.need = 0 /\ exchange'.got = 0
        /\ exchange' = [at |-> exchange'.at, need |-> exchange'.need, got |-> exchange'.got,
                        reply |-> exchange'.reply]
    BY <1>1 DEF IP!Closed
  <2>5. IP!TypeOK'
    BY <1>2, <2>3, <2>4 DEF IpcInv, IP!TypeOK
  <2>6. IpcTypes'
    BY <1>1, <2>2, <2>3, <2>4 DEF IpcInv, IpcTypes
  <2>7. IP!FramesBounded'
    BY <1>2, <2>4 DEF IpcInv, IP!FramesBounded, FramesKnown
  <2>8. IP!AnswersTrue'
    BY <2>3 DEF IP!AnswersTrue, IP!Answered
  <2>9. TakingBack' /\ Fresh' /\ Asking' /\ Commanding'
    BY <1>2, <1>3, <2>3, <2>4 DEF TakingBack, Fresh, Asking, Commanding
  <2> QED BY <2>3, <2>5, <2>6, <2>7, <2>8, <2>9 DEF IpcInv, StartTakenBack
<1>4. CASE setting.version # "same"
  <2>1. IP!Answer("VersionMismatch")
    BY <1>2, <1>4, ReceiveMeans
  <2>2. request' = [op |-> request.op, at |-> "answered", answer |-> "VersionMismatch"]
    BY <2>1, Given
  <2>3. request'.answer = "VersionMismatch" /\ request'.op = request.op
    BY <2>2
  <2>4. setting'.version = "other" /\ IP!Checked(request'.op)
    BY <1>2, <1>4, <2>3 DEF IpcInv, IpcTypes
  <2>5. IP!AnswersTrue'
    BY <1>2, <2>3, <2>4 DEF IP!AnswersTrue, IP!Answered, IP!EngineErrors
  <2>6. StartTakenBack
    BY <1>2 DEF StartTakenBack
  <2> QED BY <1>1, <2>1, <2>5, <2>6, Ended
<1> QED BY <1>3, <1>4

LEMMA ReplyReceived ==
  ASSUME FramesKnown, IpcInv, UNCHANGED <<setting, executed, trouble>>, exchange.at = "reply",
         request.at = "command", ~Refused, IP!Receive(exchange.reply)
  PROVE  IpcInv' /\ StartTakenBack
<1>1. request.op \in IP!Ops /\ exchange' = IP!Closed
  BY Waiting, ReceiveMeans
<1>2. PICK r \in IP!CanAnswer(request.op) :
        executed = {<<request.op, r>>} /\ exchange.reply = IP!Reply(request.op, r)
  BY DEF IpcInv, Commanding
<1>3. r \in IP!Results /\ trouble' = {}
  BY <1>1, <1>2, AnswersInResults DEF IpcInv, Commanding
<1>4. StartTakenBack
  BY <1>3 DEF StartTakenBack
<1>5. CASE r = "Ok"
  <2>1. exchange.reply.type = IP!ReplyType(request.op) /\ IP!ReplyType(request.op) # "Error"
    BY <1>1, <1>2, <1>5 DEF IP!Reply, IP!ReplyType, IP!Ops, IP!Unit, IP!RelayOps
  <2>2. IP!Answer("Ok")
    BY <2>1, ReceiveMeans
  <2>3. request' = [op |-> request.op, at |-> "answered", answer |-> "Ok"]
    BY <2>2, Given
  <2>4. request'.answer = "Ok" /\ request'.op = request.op
    BY <2>3
  <2>5. request.op = "start" => setting.version = "same"
    BY DEF IpcInv, Commanding, IP!Checked
  <2>6. <<request'.op, "Ok">> \in executed'
    BY <1>2, <1>5, <2>4
  <2>7. IP!AnswersTrue'
    BY <2>4, <2>5, <2>6 DEF IP!AnswersTrue, IP!Answered, IP!EngineErrors
  <2> QED BY <1>1, <1>4, <2>2, <2>7, Ended
<1>6. CASE r # "Ok"
  <2>1. exchange.reply = [type |-> "Error", kind |-> IP!Kind(r)]
    BY <1>2, <1>6 DEF IP!Reply
  <2>2. IP!Answer(IP!Mapped(IP!Kind(r)))
    BY <2>1, ReceiveMeans
  <2>3. IP!Mapped(IP!Kind(r)) = IF r \in IP!EngineErrors THEN r ELSE "Remote"
    BY DEF IP!Kind, IP!Mapped, IP!EngineErrors
  <2>4. request' = [op |-> request.op, at |-> "answered", answer |-> IP!Mapped(IP!Kind(r))]
    BY <2>2, Given
  <2>5. request'.answer = (IF r \in IP!EngineErrors THEN r ELSE "Remote") /\ request'.op = request.op
    BY <2>3, <2>4
  <2>6. <<request'.op, r>> \in executed'
    BY <1>2, <2>5
  <2>7. r \in IP!Local
    BY <1>3, <1>6 DEF IP!Results
  <2>8. IP!AnswersTrue'
    <3>1. CASE r \in IP!EngineErrors
      BY <2>5, <2>6, <3>1 DEF IP!AnswersTrue, IP!Answered, IP!EngineErrors
    <3>2. CASE r \notin IP!EngineErrors
      BY <2>5, <2>6, <2>7, <3>2 DEF IP!AnswersTrue, IP!Answered, IP!EngineErrors
    <3> QED BY <3>1, <3>2
  <2> QED BY <1>1, <1>4, <2>2, <2>8, Ended
<1> QED BY <1>5, <1>6

LEMMA StopReceived ==
  ASSUME FramesKnown, IpcInv, UNCHANGED <<setting, executed, trouble>>, exchange.at = "reply",
         request.at = "cleanup", IP!Receive(exchange.reply)
  PROVE  IpcInv' /\ StartTakenBack
<1>1. IP!Answer("Remote") /\ exchange' = IP!Closed
  BY ReceiveMeans
<1>2. request' = [op |-> request.op, at |-> "answered", answer |-> "Remote"]
  BY <1>1, Given
<1>3. request'.op = "start" /\ request'.answer = "Remote"
  BY <1>2 DEF IpcInv, TakingBack
<1>4. IP!TroubleWith("start", IP!Failures)'
  <2>1. <<"start", "timeout">> \in trouble' /\ "timeout" \in IP!Failures'
    BY DEF IpcInv, TakingBack, IP!Failures, IP!Platform
  <2> QED BY <2>1 DEF IP!TroubleWith
<1>5. IP!AnswersTrue'
  BY <1>3, <1>4 DEF IP!AnswersTrue, IP!Answered, IP!EngineErrors
<1>6. StartTakenBack
  BY DEF StartTakenBack, IpcInv, TakingBack, Refused
<1> QED BY <1>1, <1>5, <1>6, Ended

LEMMA ReceiveStep ==
  ASSUME FramesKnown, IpcInv, UNCHANGED <<setting, executed, trouble>>, exchange.at = "reply",
         IP!Receive(exchange.reply)
  PROVE  IpcInv' /\ StartTakenBack
<1>1. request.at \in {"info", "command", "cleanup"}
  BY Waiting
<1> QED BY <1>1, RefusedReceived, InfoReceived, ReplyReceived, StopReceived

-----------------------------------------------------------------------------
LEMMA BeginStep ==
  ASSUME FramesKnown, IpcInv, NEW op \in IP!Ops, IP!Begin(op) PROVE IpcInv' /\ StartTakenBack
<1>1. /\ request.at = "idle" /\ executed = {} /\ trouble = {}
      /\ UNCHANGED <<setting, exchange, executed, trouble>>
      /\ request' = [op |-> op, at |-> IF IP!Checked(op) THEN "info" ELSE "command", answer |-> "none"]
  BY DEF IP!Begin, IpcInv, Fresh
<1>2. /\ request'.op = op /\ request'.at \in {"info", "command"}
      /\ request'.at = "info" <=> IP!Checked(op)
  BY <1>1
<1>3. exchange'.at = "closed"
  BY <1>1 DEF IpcInv, IP!TypeOK, IP!Closed
<1>4. IP!TypeOK'
  BY <1>1, <1>2 DEF IpcInv, IP!TypeOK
<1>5. IpcTypes'
  BY <1>1, <1>2 DEF IpcInv, IpcTypes
<1>6. IP!FramesBounded'
  BY <1>1 DEF IpcInv, IP!FramesBounded
<1>7. IP!AnswersTrue'
  BY <1>2 DEF IP!AnswersTrue, IP!Answered
<1>8. TakingBack' /\ Fresh' /\ Asking' /\ Commanding'
  BY <1>1, <1>2, <1>3 DEF TakingBack, Fresh, Asking, Commanding
<1> QED BY <1>2, <1>4, <1>5, <1>6, <1>7, <1>8 DEF IpcInv, StartTakenBack

LEMMA ConnectStep ==
  ASSUME FramesKnown, IpcInv, NEW size \in FrameLengths, IP!Connect(size) PROVE IpcInv' /\ StartTakenBack
<1>1. /\ request.at \in {"info", "command", "cleanup"} /\ exchange.at = "closed"
      /\ UNCHANGED <<setting, request, executed, trouble>>
      /\ exchange' = [at |-> "request", need |-> size + 1, got |-> 0, reply |-> IP!NoReply]
  BY DEF IP!Connect, IP!Closed
<1>2. /\ exchange'.at = "request" /\ exchange'.need = size + 1 /\ exchange'.got = 0
      /\ size \in Nat
      /\ exchange' = [at |-> exchange'.at, need |-> exchange'.need, got |-> exchange'.got,
                      reply |-> exchange'.reply]
  BY <1>1 DEF FramesKnown
<1>3. IP!TypeOK'
  BY <1>1, <1>2 DEF IpcInv, IP!TypeOK
<1>4. IpcTypes'
  BY <1>1, <1>2 DEF IpcInv, IpcTypes
<1>5. IP!FramesBounded'
  BY <1>1, <1>2 DEF IpcInv, IP!FramesBounded, FramesKnown
<1>6. IP!AnswersTrue'
  BY <1>1 DEF IP!AnswersTrue, IP!Answered
<1>7. TakingBack' /\ Fresh' /\ Asking' /\ Commanding'
  BY <1>1, <1>2 DEF IpcInv, TakingBack, Fresh, Asking, Commanding, IP!Failures, IP!Platform
<1> QED BY <1>1, <1>3, <1>4, <1>5, <1>6, <1>7 DEF IpcInv, StartTakenBack

(* More of a frame has come, of the request or of the reply.                 *)
LEMMA PieceStep ==
  ASSUME FramesKnown, IpcInv, NEW count \in 1..(exchange.need - exchange.got), ~IP!TooLong(count),
         exchange.at # "closed", exchange' = [exchange EXCEPT !.got = @ + count],
         UNCHANGED <<setting, request, executed, trouble>>
  PROVE  IpcInv' /\ StartTakenBack
<1>1. request.at \in {"info", "command", "cleanup"}
  BY Waiting
<1>2. /\ exchange' = [at |-> exchange.at, need |-> exchange.need, got |-> exchange.got + count,
                      reply |-> exchange.reply]
      /\ exchange.got \in Nat /\ exchange.need \in Nat /\ MaxFrame \in Nat
  BY DEF IpcInv, IpcTypes, FramesKnown
<1>3. /\ exchange'.at = exchange.at /\ exchange'.need = exchange.need
      /\ exchange'.got = exchange.got + count /\ exchange'.reply = exchange.reply
  BY <1>2
<1>4. exchange'.got <= exchange'.need /\ exchange'.got <= MaxFrame /\ exchange'.got \in Nat
  BY <1>2, <1>3 DEF IP!TooLong
<1>5. IP!TypeOK'
  BY <1>1, <1>3, <1>4 DEF IpcInv, IP!TypeOK
<1>6. IpcTypes'
  BY <1>2, <1>3, <1>4 DEF IpcInv, IpcTypes
<1>7. IP!FramesBounded'
  BY <1>4 DEF IpcInv, IP!FramesBounded
<1>8. IP!AnswersTrue'
  BY <1>1 DEF IP!AnswersTrue, IP!Answered
<1>9. TakingBack' /\ Fresh' /\ Asking' /\ Commanding'
  BY <1>1, <1>3
     DEF IpcInv, TakingBack, Fresh, Asking, Commanding, Refused, IP!Failures, IP!Platform
<1> QED BY <1>1, <1>5, <1>6, <1>7, <1>8, <1>9 DEF IpcInv, StartTakenBack

(* The service answers.                                                      *)
LEMMA AnsweringStep ==
  ASSUME FramesKnown, IpcInv, NEW size \in FrameLengths, NEW reply, exchange.at = "request",
         exchange' = [at |-> "reply", need |-> size + 1, got |-> 0, reply |-> reply],
         UNCHANGED <<setting, request, trouble>>, IP!TypeOK', Asking', Commanding', TakingBack',
         ~setting.admitted => executed' = {}
  PROVE  IpcInv' /\ StartTakenBack
<1>1. request.at \in {"info", "command", "cleanup"}
  BY Waiting
<1>2. /\ exchange'.at = "reply" /\ exchange'.need = size + 1 /\ exchange'.got = 0
      /\ size \in Nat
      /\ exchange' = [at |-> exchange'.at, need |-> exchange'.need, got |-> exchange'.got,
                      reply |-> exchange'.reply]
  BY DEF FramesKnown
<1>3. IpcTypes'
  BY <1>1, <1>2 DEF IpcInv, IpcTypes
<1>4. IP!FramesBounded'
  BY <1>2 DEF IpcInv, IP!FramesBounded, FramesKnown
<1>5. IP!AnswersTrue'
  BY <1>1 DEF IP!AnswersTrue, IP!Answered
<1> QED BY <1>1, <1>3, <1>4, <1>5 DEF IpcInv, StartTakenBack, Fresh

LEMMA DenyStep ==
  ASSUME FramesKnown, IpcInv, NEW size \in FrameLengths, IP!ServerDenies(size)
  PROVE  IpcInv' /\ StartTakenBack
<1>1. /\ exchange.at = "request" /\ UNCHANGED <<setting, request, executed, trouble>>
      /\ exchange' = [at |-> "reply", need |-> size + 1, got |-> 0, reply |-> IP!Denied]
      /\ ~setting.admitted
  BY DEF IP!ServerDenies
<1>2. /\ exchange'.at = "reply" /\ exchange'.reply = IP!Denied /\ exchange'.need = size + 1
      /\ exchange'.got = 0 /\ size \in Nat
  BY <1>1 DEF FramesKnown
<1>3. Refused'
  BY <1>1, <1>2 DEF Refused, IP!Denied, IpcInv, IpcTypes
<1>4. request.at \in {"info", "command", "cleanup"}
  BY <1>1, Waiting
<1>5. IP!TypeOK'
  BY <1>1, <1>2, <1>4 DEF IpcInv, IP!TypeOK
<1>6. Asking' /\ Commanding' /\ TakingBack'
  BY <1>1, <1>2, <1>3 DEF IpcInv, Asking, Commanding, TakingBack, IP!Failures, IP!Platform
<1>7. ~setting.admitted => executed' = {}
  BY <1>1 DEF IpcInv, IP!FramesBounded
<1> QED BY <1>1, <1>5, <1>6, <1>7, AnsweringStep

LEMMA ServeStep ==
  ASSUME FramesKnown, IpcInv, NEW served \in IP!Results, NEW size \in FrameLengths,
         IP!Serve(served, size)
  PROVE  IpcInv' /\ StartTakenBack
<1>1. exchange.at = "request" /\ UNCHANGED <<setting, request, trouble>> /\ setting.admitted
  BY DEF IP!Serve
<1>2. request.at \in {"info", "command", "cleanup"} /\ request.op \in IP!Ops /\ size \in Nat
  BY <1>1, Waiting DEF FramesKnown
<1>3. CASE request.at = "info"
  <2>1. /\ exchange' = [at |-> "reply", need |-> size + 1, got |-> 0, reply |-> IP!InfoReply]
        /\ executed' = executed
    BY <1>3, CommandsAre DEF IP!Serve
  <2>2. /\ exchange'.at = "reply" /\ exchange'.reply = IP!InfoReply /\ exchange'.need = size + 1
        /\ exchange'.got = 0
    BY <2>1
  <2>3. IP!TypeOK'
    BY <1>1, <1>2, <2>1, <2>2 DEF IpcInv, IP!TypeOK
  <2>4. Asking' /\ Commanding' /\ TakingBack'
    BY <1>1, <1>3, <2>1, <2>2 DEF IpcInv, Asking, Commanding, TakingBack
  <2> QED BY <1>1, <2>1, <2>3, <2>4, AnsweringStep
<1>4. CASE request.at # "info"
  <2>1. IP!Command \in IP!Ops /\ IP!Command # "info"
    BY <1>2, <1>4, CommandsAre DEF IP!Ops, IP!Unit, IP!RelayOps
  <2>2. /\ served \in IP!CanAnswer(IP!Command)
        /\ executed' = executed \union {<<IP!Command, served>>}
        /\ exchange' = [at |-> "reply", need |-> size + 1, got |-> 0,
                        reply |-> IP!Reply(IP!Command, served)]
    BY <2>1 DEF IP!Serve
  <2>3. /\ exchange'.at = "reply" /\ exchange'.reply = IP!Reply(IP!Command, served)
        /\ exchange'.need = size + 1 /\ exchange'.got = 0
    BY <2>2
  <2>4. IP!TypeOK'
    <3>1. executed' \subseteq IP!Ops \X IP!Results
      BY <2>1, <2>2 DEF IpcInv, IP!TypeOK
    <3> QED BY <1>1, <1>2, <2>3, <3>1 DEF IpcInv, IP!TypeOK
  <2>5. Asking'
    BY <1>1, <1>4 DEF Asking
  <2>6. Commanding'
    <3>1. SUFFICES ASSUME request.at = "command" PROVE Commanding'
      BY <1>1 DEF Commanding
    <3>2. IP!Command = request.op /\ trouble = {} /\ executed = {}
      BY <1>1, <3>1, CommandsAre DEF IpcInv, Commanding
    <3>3. executed' = {<<request.op, served>>} /\ exchange'.reply = IP!Reply(request.op, served)
      BY <2>2, <2>3, <3>2
    <3>4. served \in IP!CanAnswer(request.op)
      BY <2>2, <3>2
    <3> QED BY <1>1, <2>3, <3>1, <3>2, <3>3, <3>4 DEF IpcInv, Commanding
  <2>7. TakingBack'
    <3>1. SUFFICES ASSUME request.at = "cleanup" PROVE TakingBack'
      BY <1>1 DEF TakingBack
    <3>2. <<"stop", served>> \in executed'
      BY <2>2, <3>1, CommandsAre
    <3> QED BY <1>1, <3>1, <3>2 DEF IpcInv, TakingBack, IP!Failures, IP!Platform
  <2> QED BY <1>1, <2>2, <2>4, <2>5, <2>6, <2>7, AnsweringStep
<1> QED BY <1>3, <1>4

LEMMA DoneStep == ASSUME FramesKnown, IpcInv, IP!Done PROVE IpcInv' /\ StartTakenBack
<1>1. /\ request.at = "answered" /\ request' = IP!Idle /\ executed' = {} /\ trouble' = {}
      /\ UNCHANGED <<setting, exchange>>
  BY DEF IP!Done
<1>2. request'.at = "idle" /\ request' = [op |-> request'.op, at |-> request'.at, answer |-> request'.answer]
  BY <1>1 DEF IP!Idle
<1>3. exchange = IP!Closed
  BY <1>1 DEF IpcInv, IP!TypeOK
<1>4. IP!TypeOK'
  BY <1>1, <1>2, <1>3 DEF IpcInv, IP!TypeOK, IP!Closed
<1>5. IpcTypes'
  BY <1>1, <1>2 DEF IpcInv, IpcTypes
<1>6. IP!FramesBounded'
  BY <1>1 DEF IpcInv, IP!FramesBounded
<1>7. IP!AnswersTrue'
  BY <1>2 DEF IP!AnswersTrue, IP!Answered
<1> QED BY <1>1, <1>2, <1>4, <1>5, <1>6, <1>7
        DEF IpcInv, StartTakenBack, Fresh, Asking, Commanding, TakingBack

LEMMA IpcStep ==
  ASSUME FramesKnown, IpcInv, [IP!Next]_(IP!vars) PROVE IpcInv' /\ StartTakenBack
<1>1. CASE UNCHANGED IP!vars
  <2>1. UNCHANGED <<setting, request, exchange, executed, trouble>>
    BY <1>1 DEF IP!vars
  <2>2. IP!TypeOK' /\ IpcTypes' /\ IP!FramesBounded'
    BY <2>1 DEF IpcInv, IP!TypeOK, IpcTypes, IP!FramesBounded
  <2>3. Fresh' /\ Asking' /\ Commanding' /\ TakingBack'
    BY <2>1 DEF IpcInv, Fresh, Asking, Commanding, TakingBack, Refused, IP!Failures, IP!Platform
  <2>4. IP!AnswersTrue'
    BY <2>1 DEF IpcInv, IP!AnswersTrue, IP!Answered, IP!TroubleWith, IP!Failures, IP!Platform
  <2> QED BY <2>1, <2>2, <2>3, <2>4 DEF IpcInv, StartTakenBack
<1>2. CASE \E op \in IP!Ops : IP!Begin(op)
  BY <1>2, BeginStep
<1>3. CASE \E size \in FrameLengths : IP!Connect(size) \/ IP!ServerDenies(size)
  BY <1>3, ConnectStep, DenyStep
<1>4. CASE \E failure \in IP!Failures : IP!ConnectFails(failure)
  BY <1>4, FailStep DEF IP!ConnectFails
<1>5. CASE \E count \in 1..(MaxFrame + 1) : IP!ServerReads(count)
  BY <1>5, PieceStep DEF IP!ServerReads
<1>6. CASE \E count \in 1..(MaxFrame + 1) : IP!ClientReads(count)
  <2>1. "other" \in IP!Failures
    BY DEF IP!Failures
  <2>2. PICK count \in 1..(MaxFrame + 1) : IP!ClientReads(count)
    BY <1>6
  <2>3. CASE IP!TooLong(count)
    BY <2>1, <2>2, <2>3, FailStep DEF IP!ClientReads
  <2>4. CASE ~IP!TooLong(count)
    BY <2>2, <2>4, PieceStep DEF IP!ClientReads
  <2> QED BY <2>3, <2>4
<1>7. CASE \E served \in IP!Results, size \in FrameLengths : IP!Serve(served, size)
  BY <1>7, ServeStep
<1>8. CASE IP!ServerDrops \/ IP!UnknownCommand
  BY <1>8, FailStep DEF IP!ServerDrops, IP!UnknownCommand, IP!ClosedByPeer
<1>9. CASE IP!ClientTakes
  BY <1>9, ReceiveStep DEF IP!ClientTakes
<1>10. CASE IP!ServiceDies
  BY <1>10, FailStep, ReceiveStep DEF IP!ServiceDies, IP!ClosedByPeer
<1>11. CASE IP!TimeOut
  BY <1>11, FailStep DEF IP!TimeOut
<1>12. CASE IP!Done
  BY <1>12, DoneStep
<1> QED
  BY <1>1, <1>2, <1>3, <1>4, <1>5, <1>6, <1>7, <1>8, <1>9, <1>10, <1>11, <1>12 DEF IP!Next

LEMMA IpcInitially == ASSUME FramesKnown, IP!Init PROVE IpcInv
<1>1. /\ request = IP!Idle /\ exchange = IP!Closed /\ executed = {} /\ trouble = {}
      /\ setting \in [transport : Transports, version : {"same", "other"}, admitted : BOOLEAN]
  BY DEF IP!Init
<1>2. request.at = "idle" /\ request = [op |-> request.op, at |-> request.at, answer |-> request.answer]
  BY <1>1 DEF IP!Idle
<1>3. /\ exchange.at = "closed" /\ exchange.need = 0 /\ exchange.got = 0
      /\ exchange = [at |-> exchange.at, need |-> exchange.need, got |-> exchange.got,
                     reply |-> exchange.reply]
  BY <1>1 DEF IP!Closed
<1>4. IP!TypeOK
  BY <1>1, <1>2, <1>3 DEF IP!TypeOK
<1>5. IpcTypes
  BY <1>1, <1>2, <1>3 DEF IpcTypes
<1>6. IP!FramesBounded
  BY <1>1, <1>3 DEF IP!FramesBounded, FramesKnown
<1> QED
  BY <1>1, <1>2, <1>4, <1>5, <1>6, NotAnswered DEF IpcInv, Fresh, Asking, Commanding, TakingBack

LEMMA IpcInvariant == ASSUME FramesKnown PROVE IP!Spec => []IpcInv
BY IpcInitially, IpcStep, PTL DEF IP!Spec

(* What a call answers is what the engine answered, or has a failed exchange, *)
(* a refusal or another version behind it (ipc_client.rs).                   *)
THEOREM AnswersAlwaysTrue == ASSUME FramesKnown PROVE IP!Spec => []IP!AnswersTrue
<1>1. IpcInv => IP!AnswersTrue
  BY DEF IpcInv
<1> QED BY <1>1, IpcInvariant, PTL

(* Nobody reads more than MAX_IPC_FRAME_BYTES of a frame, in whatever pieces *)
(* it comes, and a client that is not let in has nothing carried out         *)
(* (read_bounded_line, handle_service_client).                               *)
THEOREM FramesAlwaysBounded == ASSUME FramesKnown PROVE IP!Spec => []IP!FramesBounded
<1>1. IpcInv => IP!FramesBounded
  BY DEF IpcInv
<1> QED BY <1>1, IpcInvariant, PTL

LEMMA StartsTakenBack == ASSUME FramesKnown, IpcInv, [IP!Next]_(IP!vars) PROVE IP!TimedOutStartUndone
<1>2. SUFFICES ASSUME IP!Answered("start")', ~IP!Answered("start"),
                      <<"start", "timeout">> \in trouble'
               PROVE  \/ \E r \in IP!Results : <<"stop", r>> \in executed'
                      \/ IP!TroubleWith("stop", IP!Failures)' \/ ~setting.admitted
  BY DEF IP!TimedOutStartUndone
<1>3. StartTakenBack
  BY IpcStep
<1>4. request.at # "answered"
  <2>1. CASE UNCHANGED IP!vars
    BY <1>2, <2>1 DEF IP!vars, IP!Answered
  <2>2. CASE IP!Done
    BY <1>2, <2>2 DEF IP!Done, IP!Idle, IP!Answered
  <2>3. CASE IP!Next /\ ~IP!Done
    <3>1. request.at \in {"idle", "info", "command", "cleanup"} \/ exchange.at # "closed"
      BY <2>3
         DEF IP!Next, IP!Begin, IP!Connect, IP!ServerDenies, IP!ConnectFails, IP!ServerReads,
             IP!ClientReads, IP!Serve, IP!ServerDrops, IP!UnknownCommand, IP!ClientTakes,
             IP!ServiceDies, IP!TimeOut
    <3> QED BY <3>1, Waiting
  <2> QED BY <2>1, <2>2, <2>3
<1> QED BY <1>2, <1>3, <1>4 DEF StartTakenBack, IP!Answered

(* A start whose answer did not come in time is taken back by a stop, which   *)
(* is carried out or fails, before the caller hears of it (ipc_client.rs).   *)
THEOREM TimedOutStartsUndone ==
  ASSUME FramesKnown PROVE IP!Spec => [][IP!TimedOutStartUndone]_(IP!vars)
<1>1. IpcInv /\ [IP!Next]_(IP!vars) => IP!TimedOutStartUndone
  BY StartsTakenBack
<1> QED BY <1>1, IpcInvariant, PTL DEF IP!Spec

-----------------------------------------------------------------------------
(* All of them.  A behaviour of Backend is one of one machine: its invariant *)
(* is that machine's, with the types the properties of the machine had no     *)
(* need of.                                                                 *)

(* The upgrade: a window for the answer is some seconds.                     *)
UpgradeTyped == UpgradeInv /\ NG!TypeOK

LEMMA WindowsOpen == \A k \in 0..NG!RetryAttempts : NG!Window(k) \in Nat /\ NG!Window(k) - 1 \in Nat
<1>1. 2^0 = 1 /\ 2^1 = 2 /\ 2^2 = 4 /\ 2^3 = 8
  OBVIOUS
<1>2. NG!Window(0) = 8 /\ NG!Window(1) = 16 /\ NG!Window(2) = 32 /\ NG!Window(3) = 48
  BY <1>1 DEF NG!Window
<1>3. \A k \in 0..NG!RetryAttempts : k \in {0, 1, 2, 3}
  BY DEF NG!RetryAttempts
<1>. QED
  BY <1>2, <1>3

LEMMA UpgradeTypedStep == ASSUME UpgradeTyped, [NG!Next]_(NG!vars) PROVE UpgradeTyped'
<1>1. UpgradeInv'
  BY UpgradeStep DEF UpgradeTyped
<1>2. platform' \in Platforms /\ client' \in {"waiting", "told", "gaveUp"}
  BY DEF UpgradeTyped, NG!TypeOK, NG!Next, NG!Upgrade, NG!Begin, NG!LowerMtu, NG!Connect,
         NG!Serve, NG!Receive, NG!TimeOut, NG!RestoreMtu, NG!ApplyUpdate, NG!Tell, NG!vars
<1>3. elapsed' \in Nat
  <2>1. PICK w \in Nat : w = NG!Window(attempt) /\ w - 1 \in Nat
    BY WindowsOpen DEF UpgradeTyped, NG!TypeOK
  <2>2. CASE NG!Receive
    <3>1. elapsed' = elapsed \/ elapsed' = elapsed + (w - 1)
      BY <2>1, <2>2 DEF NG!Receive, UpgradeTyped, NG!TypeOK
    <3>. QED
      BY <2>1, <3>1 DEF UpgradeTyped, NG!TypeOK
  <2>3. CASE NG!TimeOut
    BY <2>1, <2>3 DEF NG!TimeOut, UpgradeTyped, NG!TypeOK
  <2>. QED
    BY <2>2, <2>3
      DEF UpgradeTyped, NG!TypeOK, NG!Next, NG!Upgrade, NG!Begin, NG!LowerMtu, NG!Connect,
          NG!Serve, NG!RestoreMtu, NG!ApplyUpdate, NG!Tell, NG!vars
<1>. QED
  BY <1>1, <1>2, <1>3 DEF UpgradeTyped, UpgradeInv, UpgradeTypes, NG!TypeOK

LEMMA UpgradeTypedInitially == ASSUME NG!Init PROVE UpgradeTyped
BY UpgradeInitially DEF UpgradeTyped, UpgradeInv, UpgradeTypes, NG!TypeOK, NG!Init

(* The firewall: which command is the next one.                              *)
FirewallTyped == FirewallInv /\ FW!TypeOK

LEMMA FirewallTypedInitially == ASSUME SettingsSound, FW!Init PROVE FirewallTyped
BY FirewallInitially DEF FirewallTyped, FirewallInv, FirewallTypes, FW!TypeOK, FW!Init, Rules

LEMMA FirewallTypedStep == ASSUME FirewallTyped, [FW!Next]_(FW!vars) PROVE FirewallTyped'
<1>. DEFINE Places == {"idle", "nftClear", "nftLoad", "nftUndo", "clear", "build", "undo", "undoFirst",
                       "installed", "failed", "on", "remove", "guardUndo", "down"}
<1>1. FirewallInv'
  BY FirewallStep DEF FirewallTyped
<1>2. pc \in Places
  BY DEF FirewallTyped, FW!TypeOK
<1>3. pc' \in Places
  BY <1>2
    DEF FW!Next, FW!vars, FW!Begin, FW!FirstFamily, FW!NftClear, FW!NftLoad, FW!NftUndo,
        FW!ClearChain, FW!BuildChain, FW!AfterFamily, FW!UndoChain, FW!UndoFirst, FW!Installed,
        FW!Failed, FW!Remove, FW!RemoveRules, FW!Crash, FW!Repair
<1>. QED
  BY <1>1, <1>3 DEF FirewallTyped, FirewallInv, FirewallTypes, FW!TypeOK, Rules

-----------------------------------------------------------------------------
(* The DNS backends: one of the four is tried once at most, and resolv.conf  *)
(* is looked at MaxVerify times.                                            *)
VerifiesOnce == MaxVerify \in Nat \ {0}

DnsRest ==
  /\ Len(order) <= 4 /\ announced \in BOOLEAN /\ link \in DN!Owners /\ entry \in DN!Owners
  /\ again \in BOOLEAN /\ tries \in 0..MaxVerify /\ state \in DN!DnsStates
  /\ pc \in {"nmRead", "nmModify"} => tries = 0
  /\ pc = "nmVerify" => tries < MaxVerify
DnsTyped == DnsInv /\ DnsRest

LEMMA DnsTypedType == ASSUME DnsTyped PROVE DN!TypeOK
<1>1. tried \in 0..4
  <2>1. Len(order) \in Nat
    BY DEF DnsTyped, DnsInv, DnsTypes
  <2>. QED
    BY <2>1 DEF DnsTyped, DnsInv, DnsTypes, DnsRest
<1>. QED
  BY <1>1 DEF DnsTyped, DnsInv, DnsTypes, DnsRest, DN!TypeOK

LEMMA OrderShort == ASSUME DnsSound, setting \in DnsSettings PROVE Len(DN!Order) <= 4
<1>. DEFINE size(B, b) == IF b \in B THEN 1 ELSE 0
            total(B) == size(B, "resolved") + size(B, "resolvconf") + size(B, "networkManager")
                        + size(B, "file")
<1>1. ASSUME NEW B PROVE DN!InOrder(B) \in Seq(DnsBackends) /\ Len(DN!InOrder(B)) = total(B)
  <2>. DEFINE if(b) == IF b \in B THEN <<b>> ELSE <<>>
  <2>1. \A b \in DnsBackends : if(b) \in Seq(DnsBackends) /\ Len(if(b)) = size(B, b)
    OBVIOUS
  <2>2. DN!InOrder(B) = if("resolved") \o if("resolvconf") \o if("networkManager") \o if("file")
    BY DEF DN!InOrder
  <2>. HIDE DEF if, size
  <2>. DEFINE two == if("resolved") \o if("resolvconf")
              three == two \o if("networkManager")
  <2>3. \A q \in Seq(DnsBackends), r \in Seq(DnsBackends) :
          q \o r \in Seq(DnsBackends) /\ Len(q \o r) = Len(q) + Len(r)
    OBVIOUS
  <2>4. if("resolved") \in Seq(DnsBackends) /\ Len(if("resolved")) = size(B, "resolved")
    BY <2>1 DEF DnsBackends
  <2>5. if("resolvconf") \in Seq(DnsBackends) /\ Len(if("resolvconf")) = size(B, "resolvconf")
    BY <2>1 DEF DnsBackends
  <2>6. /\ if("networkManager") \in Seq(DnsBackends)
        /\ Len(if("networkManager")) = size(B, "networkManager")
    BY <2>1 DEF DnsBackends
  <2>7. if("file") \in Seq(DnsBackends) /\ Len(if("file")) = size(B, "file")
    BY <2>1 DEF DnsBackends
  <2>8. /\ two \in Seq(DnsBackends)
        /\ Len(two) = Len(if("resolved")) + Len(if("resolvconf"))
    BY <2>3, <2>4, <2>5
  <2>. HIDE DEF two
  <2>9. three \in Seq(DnsBackends) /\ Len(three) = Len(two) + Len(if("networkManager"))
    BY <2>3, <2>6, <2>8
  <2>. HIDE DEF three
  <2>10. three \o if("file") \in Seq(DnsBackends)
         /\ Len(three \o if("file")) = Len(three) + Len(if("file"))
    BY <2>3, <2>7, <2>9
  <2>11. DN!InOrder(B) = three \o if("file")
    BY <2>2 DEF two, three
  <2>. QED
    BY <2>4, <2>5, <2>6, <2>7, <2>8, <2>9, <2>10, <2>11
<1>2. \A B : total(B) \in 0..4
  OBVIOUS
<1>3. CASE DN!Preferred \in DN!Probed
  <2>. DEFINE B == DN!Probed \ {DN!Preferred}
  <2>1. DN!Preferred \in DnsBackends
    BY <1>3 DEF DN!Probed, DnsSound, DnsBackends
  <2>2. DN!Order = <<DN!Preferred>> \o DN!InOrder(B)
    BY <1>3 DEF DN!Order
  <2>3. total(B) \in 0..3
    <3>1. \E b \in DnsBackends : b \notin B
      BY <2>1
    <3>. QED
      BY <3>1 DEF DnsBackends
  <2>. HIDE DEF total, B
  <2>4. Len(<<DN!Preferred>> \o DN!InOrder(B)) = 1 + Len(DN!InOrder(B))
    BY <1>1, <2>1
  <2>. QED
    BY <1>1, <2>2, <2>3, <2>4
<1>4. CASE DN!Preferred \notin DN!Probed
  <2>1. DN!Order = DN!InOrder(DN!Probed)
    BY <1>4 DEF DN!Order
  <2>. HIDE DEF total
  <2>. QED
    BY <1>1, <1>2, <2>1
<1>. QED
  BY <1>3, <1>4

LEMMA StateMade ==
  ASSUME NEW b \in {"none", "resolved", "resolvconf", "networkManager", "file"},
         NEW c \in Seq(Saved), NEW f \in SUBSET FileServers
  PROVE  /\ [DN!NoState EXCEPT !.backend = b] \in DN!DnsStates
         /\ [DN!NoState EXCEPT !.backend = b, !.connections = c] \in DN!DnsStates
         /\ [DN!NoState EXCEPT !.backend = b, !.original = f] \in DN!DnsStates
<1>. DEFINE R == [backend : {"none", "resolved", "resolvconf", "networkManager", "file"},
                  connections : Seq(Saved), original : SUBSET FileServers]
<1>1. DN!NoState \in R
  BY DEF DN!NoState
<1>2. R = DN!DnsStates
  BY DEF DN!DnsStates, Saved, FileServers
<1>. QED
  BY <1>1, <1>2

LEMMA DnsTypedInitially == ASSUME DnsSound, VerifiesOnce, DN!Init PROVE DnsTyped
<1>1. DnsInv
  BY DnsInitially
<1>2. DN!NoState \in DN!DnsStates
  BY DEF DN!NoState, DN!DnsStates
<1>3. announced \in BOOLEAN
  BY DEF DN!Init
<1>4. Len(order) = 0
  BY DEF DN!Init
<1>5. /\ tries = 0 /\ again = FALSE /\ pc = "idle" /\ state = DN!NoState
      /\ link = "user" /\ entry = "user"
  BY DEF DN!Init
<1>6. tries \in 0..MaxVerify
  BY <1>5 DEF VerifiesOnce
<1>7. again \in BOOLEAN
  BY <1>5
<1>8. link \in DN!Owners /\ entry \in DN!Owners /\ state \in DN!DnsStates
  BY <1>2, <1>5 DEF DN!Owners
<1>9. Len(order) <= 4
  BY <1>4
<1>10. pc = "idle"
  BY <1>5
<1>11. DnsRest
  BY <1>3, <1>6, <1>7, <1>8, <1>9, <1>10 DEF DnsRest
<1>. QED
  BY <1>1, <1>11 DEF DnsTyped

LEMMA DnsTypedStep == ASSUME DnsSound, VerifiesOnce, DnsTyped, [DN!Next]_(DN!vars) PROVE DnsTyped'
<1>1. DnsInv'
  BY DnsStep DEF DnsTyped
<1>. USE DEF DnsTyped, DnsRest, VerifiesOnce
<1>2. CASE UNCHANGED DN!vars
  <2>1. DnsRest'
    BY <1>2 DEF DN!vars, DN!callVars, DN!nmVars
  <2>. QED
    BY <1>1, <2>1
<1>3. CASE DN!Begin
  <2>1. setting \in DnsSettings
    BY DEF DnsInv, DnsTypes
  <2>2. Len(order') <= 4
    BY <1>3, <2>1, OrderShort DEF DN!Begin
  <2>3. DnsRest'
    BY <1>3, <2>2 DEF DN!Begin, DN!nmVars
  <2>. QED
    BY <1>1, <2>3
<1>4. CASE DN!Try
  <2>1. pc' \notin {"nmRead", "nmModify", "nmVerify"}
    <3>1. CASE tried = Len(order)
      BY <1>4, <3>1 DEF DN!Try
    <3>2. CASE tried # Len(order)
      <4>1. tried + 1 \in 1..Len(order) /\ order \in Seq(DnsBackends)
        BY <3>2 DEF DnsInv, DnsTypes
      <4>2. order[tried + 1] \in DnsBackends
        BY <4>1
      <4>. QED
        BY <1>4, <3>2, <4>2 DEF DN!Try, DN!First, DnsBackends
    <3>. QED
      BY <3>1, <3>2
  <2>2. DnsRest'
    BY <1>4, <2>1 DEF DN!Try, DN!nmVars
  <2>. QED
    BY <1>1, <2>2
<1>5. CASE DN!ResolvedDns \/ DN!ResolvedDomain \/ DN!Resolvconf
  <2>. <<>> \in Seq(Saved) /\ {} \in SUBSET FileServers
    OBVIOUS
  <2>1. state' \in DN!DnsStates
    BY <1>5, StateMade DEF DN!ResolvedDns, DN!ResolvedDomain, DN!Resolvconf, DN!Done
  <2>2. DnsRest'
    BY <1>5, <2>1
      DEF DN!ResolvedDns, DN!ResolvedDomain, DN!Resolvconf, DN!Done, DN!callVars, DN!nmVars,
          DN!Owners
  <2>. QED
    BY <1>1, <2>2
<1>6. CASE DN!NmList \/ DN!NmRead \/ DN!NmModify \/ DN!NmReconnect
  <2>1. UNCHANGED <<order, link, entry, state>>
    BY <1>6 DEF DN!NmList, DN!NmRead, DN!NmModify, DN!NmReconnect
  <2>2. announced' \in BOOLEAN
    BY <1>6 DEF DN!NmList, DN!NmRead, DN!NmModify, DN!NmReconnect, DN!nmVars
  <2>3. again' \in BOOLEAN
    BY <1>6 DEF DN!NmList, DN!NmRead, DN!NmModify, DN!NmReconnect, DN!callVars
  <2>4. /\ tries' \in 0..MaxVerify /\ (pc' \in {"nmRead", "nmModify"} => tries' = 0)
        /\ pc' = "nmVerify" => tries' < MaxVerify
    <3>1. CASE DN!NmList
      BY <3>1 DEF DN!NmList
    <3>2. CASE DN!NmRead
      BY <3>2 DEF DN!NmRead, DN!callVars
    <3>3. CASE DN!NmModify
      <4>1. tries' = tries /\ tries = 0
        BY <3>3 DEF DN!NmModify
      <4>. QED
        BY <4>1
    <3>4. CASE DN!NmReconnect
      <4>1. \/ pc' = "nmVerify" /\ tries' = 0
            \/ pc' = "nmUndo" /\ tries' = tries
        BY <3>4 DEF DN!NmReconnect
      <4>. QED
        BY <4>1
    <3>. QED
      BY <1>6, <3>1, <3>2, <3>3, <3>4
  <2>5. DnsRest'
    BY <2>1, <2>2, <2>3, <2>4
  <2>. QED
    BY <1>1, <2>5
<1>7. CASE DN!NmVerify
  <2>1. UNCHANGED <<order, link, entry, announced, again>>
    BY <1>7 DEF DN!NmVerify, DN!nmVars
  <2>2. touched \in Seq(Saved)
    BY DEF DnsInv, DnsTypes
  <2>3. state' \in DN!DnsStates
    <3>1. {} \in SUBSET FileServers
      OBVIOUS
    <3>. QED
      BY <1>7, <2>2, <3>1, StateMade DEF DN!NmVerify, DN!Done
  <2>4. /\ tries' \in 0..MaxVerify /\ pc' \notin {"nmRead", "nmModify"}
        /\ pc' = "nmVerify" => tries' < MaxVerify
    BY <1>7 DEF DN!NmVerify, DN!Done
  <2>5. DnsRest'
    BY <2>1, <2>3, <2>4
  <2>. QED
    BY <1>1, <2>5
<1>8. CASE DN!NmUndo
  <2>1. announced' \in BOOLEAN
    BY <1>8 DEF DN!NmUndo, DN!Restore
  <2>2. DnsRest'
    BY <1>8, <2>1 DEF DN!NmUndo, DN!callVars
  <2>. QED
    BY <1>1, <2>2
<1>9. CASE DN!FileRead \/ DN!FileWrite \/ DN!FileVerify
  <2>1. UNCHANGED <<order, link, entry, announced, again, tries>>
    BY <1>9 DEF DN!FileRead, DN!FileWrite, DN!FileVerify, DN!nmVars, DN!callVars
  <2>2. pc' \notin {"nmRead", "nmModify", "nmVerify"}
    BY <1>9 DEF DN!FileRead, DN!FileWrite, DN!FileVerify, DN!Done
  <2>3. state' \in DN!DnsStates
    <3>1. CASE DN!FileVerify
      <4>1. Head(todo) \in SUBSET FileServers
        <5>1. todo \in Seq(SUBSET FileServers) /\ Len(todo) = 1
          BY <3>1 DEF DN!FileVerify, DnsInv, DnsTypes
        <5>2. \A S : \A q \in Seq(S) : Len(q) = 1 => Head(q) \in S
          OBVIOUS
        <5>. QED
          BY <5>1, <5>2
      <4>2. <<>> \in Seq(Saved)
        OBVIOUS
      <4>. QED
        BY <3>1, <4>1, <4>2, StateMade DEF DN!FileVerify, DN!Done
    <3>. QED
      BY <1>9, <3>1 DEF DN!FileRead, DN!FileWrite
  <2>4. DnsRest'
    BY <2>1, <2>2, <2>3
  <2>. QED
    BY <1>1, <2>4
<1>10. CASE DN!Failed \/ DN!Settle \/ DN!Overwrite \/ DN!DeviceGone
  <2>1. DnsRest'
    BY <1>10 DEF DN!Failed, DN!Settle, DN!Overwrite, DN!DeviceGone, DN!nmVars, DN!callVars,
                 DN!Owners
  <2>. QED
    BY <1>1, <2>1
<1>11. CASE DN!Cleanup
  <2>1. UNCHANGED <<order, again, tries>> /\ pc' = "idle"
    BY <1>11 DEF DN!Cleanup, DN!callVars
  <2>2. announced' \in BOOLEAN
    BY <1>11 DEF DN!Cleanup, DN!Restore, DN!nmVars
  <2>3. link' \in DN!Owners /\ entry' \in DN!Owners
    BY <1>11 DEF DN!Cleanup, DN!Owners
  <2>4. state' \in DN!DnsStates
    BY <1>11 DEF DN!Cleanup, DN!NoState, DN!DnsStates
  <2>5. DnsRest'
    BY <2>1, <2>2, <2>3, <2>4
  <2>. QED
    BY <1>1, <2>5
<1>. QED
  BY <1>2, <1>3, <1>4, <1>5, <1>6, <1>7, <1>8, <1>9, <1>10, <1>11 DEF DN!Next, DN!Call

-----------------------------------------------------------------------------
(* The service: the process ends MaxExits times at most.  Who asks it to end *)
(* is its own thread, through the backlog (the poke) and the channel, and    *)
(* only once the request to stop has been seen, which is counted.           *)
EndsCounted == MaxExits \in Nat

Own(s) == \E r \in SV!Requests : r.client = SV!Service /\ Holds(s, r)
Poke == SV!Request(SV!Service, "poke")
ProcessTypes ==
  /\ system \in [platform: ServicePlatforms, faults: ServiceFaults]
  /\ exits \in 0..MaxExits /\ stopRequested \in BOOLEAN /\ instance \in BOOLEAN
StopAsked ==
  /\ service \in {"stopping", "leaving"} => stopRequested
  /\ stopRequested => exits < MaxExits
  /\ Own(channel) \/ Own(working) \/ Own(backlog) => stopRequested
  /\ ~Own(threads)
OnePoke ==
  /\ AtMostOnce(backlog, Poke)
  /\ \A r \in SV!Requests : r.client = SV!Service /\ Holds(backlog, r) => r = Poke /\ ~SV!Linux
ServiceTyped == ServiceInv /\ ProcessTypes /\ StopAsked /\ OnePoke

LEMMA OwnSequences ==
  /\ ~Own(<<>>)
  /\ \A s \in Seq(SV!Requests), x \in SV!Requests :
       Own(Append(s, x)) <=> Own(s) \/ x.client = SV!Service
  /\ \A s \in Seq(SV!Requests) : \A k \in DOMAIN s :
       Own(SV!RemoveAt(s, k)) \/ s[k].client = SV!Service => Own(s)
  /\ \A s \in Seq(SV!Requests) : s # <<>> =>
       (Own(Tail(s)) \/ Head(s).client = SV!Service => Own(s))
<1>1. ~Own(<<>>)
  BY EmptyHolds DEF Own
<1>2. ASSUME NEW s \in Seq(SV!Requests), NEW x \in SV!Requests
      PROVE  Own(Append(s, x)) <=> Own(s) \/ x.client = SV!Service
  BY AppendHolds DEF Own
<1>3. ASSUME NEW s \in Seq(SV!Requests), NEW k \in DOMAIN s
      PROVE  Own(SV!RemoveAt(s, k)) \/ s[k].client = SV!Service => Own(s)
  <2>1. s[k] \in SV!Requests /\ Holds(s, s[k])
    BY DEF Holds
  <2>. QED
    BY <2>1, RemoveHolds DEF Own
<1>4. ASSUME NEW s \in Seq(SV!Requests), s # <<>>
      PROVE  Own(Tail(s)) \/ Head(s).client = SV!Service => Own(s)
  BY <1>4, TailHolds DEF Own
<1>. QED
  BY <1>1, <1>2, <1>3, <1>4

LEMMA ServiceTypedInitially == ASSUME ClientsNamed, EndsCounted, SV!Init PROVE ServiceTyped
<1>1. ServiceInv
  BY ServiceInitially
<1>2. exits = 0 /\ service = "down" /\ stopRequested = FALSE /\ instance = FALSE
  BY DEF SV!Init
<1>3. ProcessTypes
  <2>1. exits \in 0..MaxExits
    BY <1>2 DEF EndsCounted
  <2>2. stopRequested \in BOOLEAN
    BY <1>2
  <2>3. instance \in BOOLEAN
    BY <1>2
  <2>. QED
    BY <2>1, <2>2, <2>3 DEF ProcessTypes, SV!Init
<1>4. backlog = <<>> /\ threads = <<>> /\ channel = <<>> /\ working = <<>>
  BY DEF SV!Init
<1>5. ~Own(backlog) /\ ~Own(threads) /\ ~Own(channel) /\ ~Own(working)
  BY <1>4, OwnSequences
<1>6. StopAsked
  BY <1>2, <1>5 DEF StopAsked
<1>7. OnePoke
  BY <1>4, EmptyHolds DEF OnePoke
<1>. QED
  BY <1>1, <1>3, <1>6, <1>7 DEF ServiceTyped

(* The backlog keeps at most the poke when a client's connection is added,   *)
(* and when any is taken away.                                              *)
LEMMA BacklogKept ==
  ASSUME ServiceTyped, UNCHANGED system,
         \/ UNCHANGED backlog
         \/ \E c \in Clients, op \in {"info", "start", "stop", "undo"} :
              backlog' = Append(backlog, SV!Request(c, op))
         \/ \E k \in DOMAIN backlog : backlog' = SV!RemoveAt(backlog, k),
         ClientsNamed
  PROVE  OnePoke' /\ (Own(backlog') => Own(backlog))
<1>1. backlog \in Seq(SV!Requests)
  BY DEF ServiceTyped, ServiceInv, ServiceTypes
<1>2. CASE UNCHANGED backlog
  BY <1>2 DEF ServiceTyped, OnePoke, SV!Linux
<1>3. ASSUME NEW c \in Clients, NEW op \in {"info", "start", "stop", "undo"},
             backlog' = Append(backlog, SV!Request(c, op))
      PROVE  OnePoke' /\ (Own(backlog') => Own(backlog))
  <2>1. PICK x \in SV!Requests : x = SV!Request(c, op) /\ x.client = c /\ c # SV!Service
    <3>1. SV!Request(c, op) \in SV!Requests /\ SV!Request(c, op).client = c /\ c # SV!Service
      BY RequestForms DEF SV!Request, ClientsNamed
    <3>. QED
      BY <3>1
  <2>2. Poke # x /\ Poke.client = SV!Service
    BY <2>1 DEF Poke, SV!Request
  <2>3. /\ \A r : Holds(backlog', r) <=> Holds(backlog, r) \/ x = r
        /\ AtMostOnce(backlog, Poke) => AtMostOnce(backlog', Poke)
    BY <1>1, <1>3, <2>1, <2>2, AppendHolds
  <2>. QED
    BY <2>1, <2>2, <2>3 DEF ServiceTyped, OnePoke, Own, SV!Linux
<1>4. ASSUME NEW k \in DOMAIN backlog, backlog' = SV!RemoveAt(backlog, k)
      PROVE  OnePoke' /\ (Own(backlog') => Own(backlog))
  <2>1. /\ \A r : Holds(backlog', r) => Holds(backlog, r)
        /\ AtMostOnce(backlog, Poke) => AtMostOnce(backlog', Poke)
    BY <1>1, <1>4, RemoveHolds
  <2>. QED
    BY <2>1 DEF ServiceTyped, OnePoke, Own, SV!Linux
<1>. QED
  BY <1>2, <1>3, <1>4

(* A request is replied to: its client may send the next one.                *)
LEMMA ReplyKeeps ==
  ASSUME ServiceTyped, ClientsNamed, NEW r, NEW ok, SV!Reply(r, ok), UNCHANGED system
  PROVE  OnePoke' /\ (Own(backlog') => Own(backlog))
<1>1. \/ UNCHANGED backlog
      \/ \E c \in Clients, op \in {"info", "start", "stop", "undo"} :
           backlog' = Append(backlog, SV!Request(c, op))
  BY DEF SV!Reply, SV!Connect, SV!Waiting, SV!End
<1>. QED
  BY <1>1, BacklogKept

LEMMA EndProcessTyped ==
  ASSUME ClientsNamed, EndsCounted, ServiceTyped, ServiceInv', SV!Leave \/ SV!Crash
  PROVE  ServiceTyped'
<1>1. /\ service' = "down" /\ exits' = exits + 1 /\ stopRequested' = FALSE /\ instance' = FALSE
      /\ threads' = <<>> /\ channel' = <<>> /\ working' = <<>> /\ UNCHANGED system
  BY DEF SV!Leave, SV!Crash, SV!EndProcess
<1>2. exits < MaxExits
  BY DEF SV!Leave, SV!Crash, ServiceTyped, StopAsked
<1>3. exits' \in 0..MaxExits
  BY <1>1, <1>2 DEF ServiceTyped, ProcessTypes, EndsCounted
<1>4. stopRequested' \in BOOLEAN
  BY <1>1
<1>5. instance' \in BOOLEAN
  BY <1>1
<1>6. ProcessTypes'
  BY <1>1, <1>3, <1>4, <1>5 DEF ServiceTyped, ProcessTypes
<1>7. backlog \in Seq(SV!Requests)
  BY DEF ServiceTyped, ServiceInv, ServiceTypes
<1>8. OnePoke' /\ ~Own(backlog')
  <2>1. CASE system.platform = "linux"
    <3>1. backlog' = <<>>
      BY <2>1 DEF SV!Leave, SV!Crash, SV!EndProcess
    <3>. QED
      BY <3>1, EmptyHolds, OwnSequences DEF OnePoke
  <2>2. CASE system.platform # "linux"
    <3>1. SV!Withdraw(Poke) \/ (Poke \notin SV!ToSet(backlog) /\ UNCHANGED backlog)
      BY <2>2 DEF SV!Leave, SV!Crash, SV!EndProcess, Poke
    <3>2. CASE SV!Withdraw(Poke)
      <4>1. PICK k \in DOMAIN backlog : backlog[k] = Poke /\ backlog' = SV!RemoveAt(backlog, k)
        BY <3>2 DEF SV!Withdraw
      <4>2. OnePoke'
        BY <1>1, <4>1, BacklogKept
      <4>3. ~Holds(backlog', Poke)
        BY <1>7, <4>1, RemoveHolds DEF ServiceTyped, OnePoke
      <4>. QED
        BY <4>2, <4>3 DEF OnePoke, Own
    <3>3. CASE Poke \notin SV!ToSet(backlog) /\ UNCHANGED backlog
      <4>1. OnePoke'
        BY <1>1, <3>3, BacklogKept
      <4>2. ~Holds(backlog', Poke)
        BY <3>3 DEF Holds, SV!ToSet
      <4>. QED
        BY <4>1, <4>2 DEF OnePoke, Own
    <3>. QED
      BY <3>1, <3>2, <3>3
  <2>. QED
    BY <2>1, <2>2
<1>9. StopAsked'
  BY <1>1, <1>8, OwnSequences DEF StopAsked
<1>. QED
  BY <1>6, <1>8, <1>9 DEF ServiceTyped

LEMMA RequestStopTyped ==
  ASSUME ClientsNamed, ServiceTyped, ServiceInv', SV!RequestStop PROVE ServiceTyped'
<1>1. /\ ~stopRequested /\ exits < MaxExits /\ stopRequested' = TRUE
      /\ UNCHANGED <<system, service, exits, instance, threads, channel, working>>
      /\ backlog' = IF SV!Linux THEN backlog ELSE Append(backlog, Poke)
  BY DEF SV!RequestStop, SV!PokeServer, Poke
<1>2. backlog \in Seq(SV!Requests) /\ Poke \in SV!Requests
  BY RequestForms DEF ServiceTyped, ServiceInv, ServiceTypes, Poke
<1>3. ~Own(backlog)
  BY <1>1 DEF ServiceTyped, StopAsked
<1>4. OnePoke'
  <2>1. CASE SV!Linux
    BY <1>1, <2>1, BacklogKept
  <2>2. CASE ~SV!Linux
    <3>1. ~Holds(backlog, Poke)
      BY <1>2, <1>3 DEF Own, Poke, SV!Request
    <3>2. /\ \A r : Holds(backlog', r) <=> Holds(backlog, r) \/ Poke = r
          /\ AtMostOnce(backlog', Poke)
      BY <1>1, <1>2, <2>2, <3>1, AppendHolds DEF ServiceTyped, OnePoke
    <3>. QED
      BY <1>1, <2>2, <3>2 DEF ServiceTyped, OnePoke, SV!Linux
  <2>. QED
    BY <2>1, <2>2
<1>5. stopRequested' \in BOOLEAN
  BY <1>1
<1>6. ProcessTypes'
  BY <1>1, <1>5 DEF ServiceTyped, ProcessTypes
<1>7. StopAsked'
  BY <1>1 DEF ServiceTyped, StopAsked
<1>. QED
  BY <1>4, <1>6, <1>7 DEF ServiceTyped

LEMMA AcceptTyped ==
  ASSUME ClientsNamed, ServiceTyped, ServiceInv', SV!Accept PROVE ServiceTyped'
<1>1. /\ ~stopRequested /\ instance' = FALSE
      /\ UNCHANGED <<system, service, exits, stopRequested, channel, working>>
  BY DEF SV!Accept
<1>2. backlog \in Seq(SV!Requests) /\ threads \in Seq(SV!Requests)
  BY DEF ServiceTyped, ServiceInv, ServiceTypes
<1>3. PICK k \in DOMAIN backlog :
        threads' = Append(threads, backlog[k]) /\ backlog' = SV!RemoveAt(backlog, k)
  <2>1. backlog # <<>> => 1 \in DOMAIN backlog
    BY <1>2
  <2>. QED
    BY <2>1 DEF SV!Accept
<1>4. backlog[k] \in SV!Requests /\ ~Own(backlog) /\ ~Own(threads)
  BY <1>1, <1>2 DEF ServiceTyped, StopAsked
<1>5. backlog[k].client # SV!Service
  BY <1>2, <1>4, OwnSequences
<1>6. ~Own(threads')
  BY <1>2, <1>3, <1>4, <1>5, OwnSequences
<1>7. OnePoke' /\ ~Own(backlog')
  BY <1>1, <1>3, <1>4, BacklogKept
<1>8. instance' \in BOOLEAN
  BY <1>1
<1>9. ProcessTypes' /\ StopAsked'
  BY <1>1, <1>6, <1>7, <1>8 DEF ServiceTyped, ProcessTypes, StopAsked
<1>. QED
  BY <1>7, <1>9 DEF ServiceTyped

LEMMA LeaveLoopTyped ==
  ASSUME ClientsNamed, ServiceTyped, ServiceInv', SV!LeaveLoop PROVE ServiceTyped'
<1>1. stopRequested /\ instance' = FALSE /\ UNCHANGED <<system, exits, stopRequested, threads, working>>
  BY DEF SV!LeaveLoop
<1>2. \/ UNCHANGED backlog
      \/ \E k \in DOMAIN backlog : backlog' = SV!RemoveAt(backlog, k)
  BY DEF SV!LeaveLoop
<1>3. OnePoke'
  BY <1>1, <1>2, BacklogKept
<1>4. instance' \in BOOLEAN
  BY <1>1
<1>5. ProcessTypes' /\ StopAsked'
  BY <1>1, <1>4 DEF ServiceTyped, ProcessTypes, StopAsked
<1>. QED
  BY <1>3, <1>5 DEF ServiceTyped

LEMMA DispatchTyped ==
  ASSUME ClientsNamed, ServiceTyped, ServiceInv', SV!Dispatch PROVE ServiceTyped'
<1>1. UNCHANGED <<system, service, exits, stopRequested, instance, working>>
  BY DEF SV!Dispatch, SV!serverVars
<1>2. threads \in Seq(SV!Requests) /\ channel \in Seq(SV!Requests)
  BY DEF ServiceTyped, ServiceInv, ServiceTypes
<1>3. PICK k \in DOMAIN threads :
        /\ threads' = SV!RemoveAt(threads, k)
        /\ \/ SV!Reply(threads[k], ~SV!Fault("version")) /\ UNCHANGED channel
           \/ channel' = Append(channel, threads[k]) /\ UNCHANGED backlog
  BY DEF SV!Dispatch
<1>4. threads[k] \in SV!Requests /\ threads[k].client # SV!Service /\ ~Own(threads)
  BY <1>2, OwnSequences DEF ServiceTyped, StopAsked
<1>5. ~Own(threads')
  BY <1>2, <1>3, <1>4, OwnSequences
<1>6. Own(channel') => Own(channel)
  <2>1. Own(Append(channel, threads[k])) <=> Own(channel) \/ threads[k].client = SV!Service
    BY <1>2, <1>4, OwnSequences
  <2>. QED
    BY <1>3, <1>4, <2>1
<1>7. OnePoke' /\ (Own(backlog') => Own(backlog))
  BY <1>1, <1>3, ReplyKeeps, BacklogKept
<1>8. ProcessTypes' /\ StopAsked'
  BY <1>1, <1>5, <1>6, <1>7 DEF ServiceTyped, ProcessTypes, StopAsked
<1>. QED
  BY <1>7, <1>8 DEF ServiceTyped

LEMMA WorkerTyped ==
  ASSUME ClientsNamed, ServiceTyped, ServiceInv', SV!Take \/ SV!Execute PROVE ServiceTyped'
<1>1. UNCHANGED <<system, exits, stopRequested, instance, threads>>
  BY DEF SV!Take, SV!Execute, SV!serverVars
<1>2. channel \in Seq(SV!Requests) /\ working \in Seq(SV!Requests)
  BY DEF ServiceTyped, ServiceInv, ServiceTypes
<1>3. CASE SV!Take
  <2>1. /\ channel # <<>> /\ working' = <<Head(channel)>> /\ channel' = Tail(channel)
        /\ UNCHANGED <<service, backlog>>
    BY <1>3 DEF SV!Take, SV!serverVars
  <2>2. Head(channel) \in SV!Requests /\ working' = Append(<<>>, Head(channel))
    BY <1>2, <2>1
  <2>3. Own(channel') \/ Own(working') => Own(channel)
    <3>1. <<>> \in Seq(SV!Requests)
      OBVIOUS
    <3>. QED
      BY <1>2, <2>1, <2>2, <3>1, OwnSequences
  <2>4. OnePoke'
    BY <1>1, <2>1, BacklogKept
  <2>5. ProcessTypes' /\ StopAsked'
    BY <1>1, <2>1, <2>3 DEF ServiceTyped, ProcessTypes, StopAsked
  <2>. QED
    BY <2>4, <2>5 DEF ServiceTyped
<1>4. CASE SV!Execute
  <2>1. working # <<>> /\ working' = <<>>
    BY <1>4 DEF SV!Execute
  <2>2. PICK ok \in BOOLEAN : SV!Answer(working[1], ok)
    BY <1>4 DEF SV!Execute
  <2>3. working[1] = Head(working) /\ working[1] \in SV!Requests
    BY <1>2, <2>1
  <2>4. CASE working[1].client # SV!Service
    <3>1. SV!Reply(working[1], ok) /\ UNCHANGED <<service, channel>>
      BY <2>2, <2>4 DEF SV!Answer
    <3>2. OnePoke' /\ (Own(backlog') => Own(backlog))
      BY <1>1, <3>1, ReplyKeeps
    <3>3. ProcessTypes' /\ StopAsked'
      BY <1>1, <2>1, <3>1, <3>2, OwnSequences DEF ServiceTyped, ProcessTypes, StopAsked
    <3>. QED
      BY <3>2, <3>3 DEF ServiceTyped
  <2>5. CASE working[1].client = SV!Service
    <3>1. stopRequested
      BY <1>2, <2>1, <2>3, <2>5, OwnSequences DEF ServiceTyped, StopAsked
    <3>2. OnePoke'
      BY <1>1, <2>2, <2>5, BacklogKept DEF SV!Answer
    <3>3. ProcessTypes' /\ StopAsked'
      BY <1>1, <3>1 DEF ServiceTyped, ProcessTypes, StopAsked
    <3>. QED
      BY <3>2, <3>3 DEF ServiceTyped
  <2>. QED
    BY <2>4, <2>5
<1>. QED
  BY <1>3, <1>4

LEMMA ServiceTypedStep ==
  ASSUME ClientsNamed, EndsCounted, ServiceTyped, [SV!Next]_(SV!vars) PROVE ServiceTyped'
<1>1. ServiceInv'
  BY ServiceStep DEF ServiceTyped
<1>2. CASE UNCHANGED SV!vars
  <2>1. UNCHANGED <<system, service, exits, stopRequested, instance, backlog, threads, channel, working>>
    BY <1>2 DEF SV!vars, SV!serverVars
  <2>2. OnePoke'
    BY <2>1, BacklogKept
  <2>. QED
    BY <1>1, <2>1, <2>2 DEF ServiceTyped, ProcessTypes, StopAsked
<1>3. ASSUME NEW c \in Clients, SV!Call(c) \/ SV!TimeOut(c) \/ SV!NoService(c) PROVE ServiceTyped'
  <2>1. UNCHANGED <<system, service, exits, stopRequested, instance, threads, channel, working>>
    BY <1>3 DEF SV!Call, SV!TimeOut, SV!NoService, SV!serverVars
  <2>2. \/ UNCHANGED backlog
        \/ \E op \in {"info", "start", "stop", "undo"} :
             backlog' = Append(backlog, SV!Request(c, op))
        \/ \E k \in DOMAIN backlog : backlog' = SV!RemoveAt(backlog, k)
    BY <1>3 DEF SV!Call, SV!TimeOut, SV!NoService, SV!Connect, SV!Undo, SV!GiveUp, SV!Withdraw
  <2>3. OnePoke' /\ (Own(backlog') => Own(backlog))
    BY <2>1, <2>2, BacklogKept
  <2>4. ProcessTypes' /\ StopAsked'
    BY <2>1, <2>3 DEF ServiceTyped, ProcessTypes, StopAsked
  <2>. QED
    BY <1>1, <2>3, <2>4 DEF ServiceTyped
<1>4. CASE SV!StartService \/ SV!Repair \/ SV!CreateInstance
  <2>1. /\ UNCHANGED <<system, exits, stopRequested, backlog, threads, channel, working>>
        /\ UNCHANGED instance \/ instance' = TRUE
        /\ service' \in {"repairing", "serving", "down"}
    BY <1>4 DEF SV!StartService, SV!Repair, SV!CreateInstance
  <2>2. OnePoke'
    BY <2>1, BacklogKept
  <2>3. instance' \in BOOLEAN
    BY <2>1 DEF ServiceTyped, ProcessTypes
  <2>4. ProcessTypes' /\ StopAsked'
    BY <2>1, <2>3 DEF ServiceTyped, ProcessTypes, StopAsked
  <2>. QED
    BY <1>1, <2>2, <2>4 DEF ServiceTyped
<1>. QED
  BY <1>1, <1>2, <1>3, <1>4, EndProcessTyped, RequestStopTyped, AcceptTyped, LeaveLoopTyped,
     DispatchTyped, WorkerTyped DEF SV!Next, SV!Work, SV!Impatient

LEMMA ServiceTypedType == ASSUME ServiceTyped PROVE SV!TypeOK
BY DEF ServiceTyped, ServiceInv, ServiceTypes, ProcessTypes, SV!TypeOK

-----------------------------------------------------------------------------
(* All machines.  What is assumed of the constants, by the machine they are  *)
(* of.                                                                      *)
ConstantsKnown ==
  /\ Requested /\ SettingsSound /\ DnsSound /\ VerifiesOnce /\ ClientsNamed /\ EndsCounted
  /\ SystemsKnown /\ FramesKnown

LEMMA ConstantsFit == ConstantsKnown
BY ConstantsAssumption
  DEF ConstantsKnown, Requested, SettingsSound, DnsSound, DnsBackends, VerifiesOnce, ClientsNamed,
      EndsCounted, SystemsKnown, FramesKnown

Machines ==
  {"windows", "negotiation", "service", "installation", "ipc", "firewall", "dns"}
BackendInv ==
  /\ part \in Machines
  /\ part = "windows" => IInv
  /\ part = "negotiation" => UpgradeTyped
  /\ part = "service" => ServiceTyped
  /\ part = "installation" => InstallInv
  /\ part = "ipc" => IpcInv
  /\ part = "firewall" => FirewallTyped
  /\ part = "dns" => DnsTyped

LEMMA BackendInitially == ASSUME ConstantsKnown, Init PROVE BackendInv
<1>1. CASE part = "windows" /\ WN!Init
  BY <1>1, InitInv DEF ConstantsKnown, BackendInv, Machines
<1>2. CASE part = "negotiation" /\ NG!Init
  BY <1>2, UpgradeTypedInitially DEF BackendInv, Machines
<1>3. CASE part = "service" /\ SV!Init
  BY <1>3, ServiceTypedInitially DEF ConstantsKnown, BackendInv, Machines
<1>4. CASE part = "installation" /\ IS!Init
  BY <1>4, InstallInitially DEF ConstantsKnown, BackendInv, Machines
<1>5. CASE part = "ipc" /\ IP!Init
  BY <1>5, IpcInitially DEF ConstantsKnown, BackendInv, Machines
<1>6. CASE part = "firewall" /\ FW!Init
  BY <1>6, FirewallTypedInitially DEF ConstantsKnown, BackendInv, Machines
<1>7. CASE part = "dns" /\ DN!Init
  BY <1>7, DnsTypedInitially DEF ConstantsKnown, BackendInv, Machines
<1>. QED
  BY <1>1, <1>2, <1>3, <1>4, <1>5, <1>6, <1>7 DEF Init

(* A step is one of the machine whose behaviour it is, or changes nothing of *)
(* any.                                                                     *)
LEMMA TurnOf ==
  ASSUME BackendInv, [Next]_all
  PROVE  /\ part' = part
         /\ part = "windows" => [WN!Next]_(WN!vars)
         /\ part = "negotiation" => [NG!Next]_(NG!vars)
         /\ part = "service" => [SV!Next]_(SV!vars)
         /\ part = "installation" => [IS!Next]_(IS!vars)
         /\ part = "ipc" => [IP!Next]_(IP!vars)
         /\ part = "firewall" => [FW!Next]_(FW!vars)
         /\ part = "dns" => [DN!Next]_(DN!vars)
<1>1. CASE UNCHANGED all
  <2>1. UNCHANGED <<part, v1, v2, v3, v4, v5, v6, v7, v8, v9, v10, v11, v12, v13, v14, v15>>
    BY <1>1 DEF all
  <2>2. UNCHANGED WN!vars /\ UNCHANGED NG!vars
    BY <2>1 DEF WN!vars, WN!callVars, NG!vars
  <2>3. UNCHANGED SV!vars /\ UNCHANGED IS!vars
    BY <2>1 DEF SV!vars, SV!serverVars, IS!vars, IS!installed
  <2>4. UNCHANGED IP!vars /\ UNCHANGED FW!vars /\ UNCHANGED DN!vars
    BY <2>1 DEF IP!vars, FW!vars, FW!rules, DN!vars, DN!callVars, DN!nmVars
  <2>. QED
    BY <2>1, <2>2, <2>3, <2>4
<1>2. CASE Next
  BY <1>2
    DEF Next, WindowsNetTurn, NegotiationTurn, ServiceTurn, InstallationTurn, IpcTurn,
        FirewallTurn, DnsTurn, Same6, Same9, Same10, Same11, Same13, Same16
<1>. QED
  BY <1>1, <1>2

LEMMA BackendStep == ASSUME ConstantsKnown, BackendInv, [Next]_all PROVE BackendInv'
<1>1. part' = part /\ part \in Machines
  BY TurnOf DEF BackendInv
<1>2. part = "windows" => IInv'
  BY TurnOf, StepInv DEF ConstantsKnown, BackendInv
<1>3. part = "negotiation" => UpgradeTyped'
  BY TurnOf, UpgradeTypedStep DEF BackendInv
<1>4. part = "service" => ServiceTyped'
  BY TurnOf, ServiceTypedStep DEF ConstantsKnown, BackendInv
<1>5. part = "installation" => InstallInv'
  BY TurnOf, InstallStep DEF ConstantsKnown, BackendInv
<1>6. part = "ipc" => IpcInv'
  BY TurnOf, IpcStep DEF ConstantsKnown, BackendInv
<1>7. part = "firewall" => FirewallTyped'
  BY TurnOf, FirewallTypedStep DEF BackendInv
<1>8. part = "dns" => DnsTyped'
  BY TurnOf, DnsTypedStep DEF ConstantsKnown, BackendInv
<1>. QED
  BY <1>1, <1>2, <1>3, <1>4, <1>5, <1>6, <1>7, <1>8 DEF BackendInv

LEMMA BackendInvariant == Spec => []BackendInv
BY ConstantsFit, BackendInitially, BackendStep, PTL DEF Spec

(* Every machine's variables keep their types: the process of the service    *)
(* ends as often as it may and no oftener, the poke of its own thread is the  *)
(* only request that is not a client's, and DNS tries each of its backends.  *)
THEOREM BackendTyped == Spec => []TypeOK
<1>1. ASSUME BackendInv PROVE TypeOK
  <2>1. part = "windows" => WN!TypeOK
    BY <1>1 DEF BackendInv, IInv
  <2>2. part = "negotiation" => NG!TypeOK
    BY <1>1 DEF BackendInv, UpgradeTyped
  <2>3. part = "service" => SV!TypeOK
    BY <1>1, ServiceTypedType DEF BackendInv
  <2>4. part = "installation" => IS!TypeOK
    BY <1>1 DEF BackendInv, InstallInv
  <2>5. part = "ipc" => IP!TypeOK
    BY <1>1 DEF BackendInv, IpcInv
  <2>6. part = "firewall" => FW!TypeOK
    BY <1>1 DEF BackendInv, FirewallTyped
  <2>7. part = "dns" => DN!TypeOK
    BY <1>1, DnsTypedType DEF BackendInv
  <2>. QED
    BY <1>1, <2>1, <2>2, <2>3, <2>4, <2>5, <2>6, <2>7 DEF BackendInv, Machines, TypeOK
<1>. QED
  BY <1>1, BackendInvariant, PTL

(* What the system is left with, on either platform: a tunnel that runs is   *)
(* exactly its plan, the journal is one change behind at most, nothing stays *)
(* outside the adapter; no half built chain stops too much, and the user's   *)
(* servers come back.                                                       *)
THEOREM NetworkAlwaysSound == Spec => []NetworkSound
<1>1. ASSUME BackendInv PROVE NetworkSound
  <2>1. ASSUME IInv PROVE WN!RunningIsExact /\ WN!JournalLagsByOne /\ WN!OutsideRestored
    BY <2>1, RunningExact, JournalClose, OutsideKept
  <2>2. ASSUME FirewallTyped PROVE FW!FirewallSound
    BY <2>2, FirewallKept DEF FirewallTyped
  <2>3. ASSUME DnsTyped PROVE DN!Restores
    BY <2>3, DnsRestoring DEF DnsTyped
  <2>. QED
    BY <1>1, <2>1, <2>2, <2>3 DEF BackendInv, NetworkSound
<1>. QED
  BY <1>1, BackendInvariant, PTL

(* What a caller is told is so: of a tunnel, of a manager's success, of an    *)
(* upgrade, and of any request the engine answered.                          *)
THEOREM CallersAlwaysToldTruth == Spec => []CallersToldTruth
<1>1. ASSUME BackendInv PROVE CallersToldTruth
  <2>1. ASSUME ServiceTyped PROVE SV!NoUnreportedTunnel
    BY <2>1, TunnelsTold DEF ServiceTyped
  <2>2. ASSUME UpgradeTyped PROVE NG!BothEndsAgree
    BY <2>2, EndsAgree DEF UpgradeTyped
  <2>3. ASSUME IpcInv PROVE IP!AnswersTrue /\ IP!FramesBounded
    BY <2>3 DEF IpcInv
  <2>4. ASSUME InstallInv PROVE IS!ManagerKeepsItsWord
    BY <2>4, ConstantsFit, WordKept DEF ConstantsKnown
  <2>. QED
    BY <1>1, <2>1, <2>2, <2>3, <2>4 DEF BackendInv, CallersToldTruth
<1>. QED
  BY <1>1, BackendInvariant, PTL

(* Whatever fails is undone before it is reported.                           *)
THEOREM FailuresAlwaysUndone == Spec => FailuresUndone
<1>. DEFINE Undoes ==
       /\ part = "windows" => WN!RepairSweeps /\ WN!AllOrNothing
       /\ part = "negotiation" => NG!MtuRestored
       /\ part = "ipc" => IP!TimedOutStartUndone
       /\ part = "installation" => IS!OwnerKept
       /\ part = "dns" => DN!NoForeignServer
<1>1. ASSUME BackendInv, [Next]_all PROVE [Undoes]_all
  <2>. SUFFICES ASSUME Next PROVE Undoes
    BY <1>1
  <2>1. part = "windows" => WN!RepairSweeps
    <3>1. part = "windows" => IInv /\ [WN!Next]_(WN!vars)
      BY <1>1, TurnOf DEF BackendInv
    <3>. QED
      BY <3>1, RepairSweeping DEF WN!RepairSweeps
  <2>2. part = "windows" => WN!AllOrNothing
    <3>1. part = "windows" => IInv /\ [WN!Next]_(WN!vars)
      BY <1>1, TurnOf DEF BackendInv
    <3>2. part = "windows" /\ faults \subseteq WN!RolledBack => Moves
      BY <3>1, ConstantsFit, ContractStep DEF ConstantsKnown, IInv
    <3>. QED
      BY <3>2 DEF WN!AllOrNothing, Moves
  <2>3. part = "negotiation" => NG!MtuRestored
    BY <1>1, TurnOf, MtuRestoring DEF BackendInv, UpgradeTyped
  <2>4. part = "ipc" => IP!TimedOutStartUndone
    BY <1>1, ConstantsFit, TurnOf, StartsTakenBack DEF ConstantsKnown, BackendInv
  <2>5. part = "installation" => IS!OwnerKept
    <3>1. part = "installation" => IS!Next
      BY DEF Next, WindowsNetTurn, NegotiationTurn, ServiceTurn, InstallationTurn, IpcTurn,
             FirewallTurn, DnsTurn
    <3>. QED
      BY <3>1, OwnerKeeping
  <2>6. part = "dns" => DN!NoForeignServer
    BY <1>1, TurnOf, ForeignRefused DEF BackendInv, DnsTyped
  <2>. QED
    BY <2>1, <2>2, <2>3, <2>4, <2>5, <2>6
<1>. QED
  BY <1>1, BackendInvariant, PTL DEF Spec, FailuresUndone
=============================================================================
