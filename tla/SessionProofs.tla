--------------------------- MODULE SessionProofs ---------------------------
(***************************************************************************)
(* What Session promises for every set of configurations, slots and        *)
(* features: types, a busy flag that somebody will clear, the password      *)
(* gate; without dialogs and quitting, one call at a time; and, where the    *)
(* service does not die and answers what stops and what asks for samples,   *)
(* though starts may fail and time out, that the UI follows the service.     *)
(***************************************************************************)
EXTENDS Session, FiniteSetTheorems, SequenceTheorems, TLAPS

-----------------------------------------------------------------------------
(* Types.                                                                   *)

PendingTypes == [config: Selections, authorized: BOOLEAN]
Requests == [op: {"start", "stop", "stats"}, config: Selections,
             from: Slots \cup {NoSlot}]

(* The tasks the UI spawns are well formed.                                 *)
LEMMA TaskForms ==
  /\ Idle \in TaskTypes /\ StopTask \in TaskTypes /\ PollTask \in TaskTypes
  /\ \A c \in Selections : StartTask(c) \in TaskTypes
  /\ \A c \in Selections, k \in UnlockKinds : UnlockTask(k, c) \in TaskTypes
  /\ \A k \in QuitKinds, b \in BOOLEAN :
       [Idle EXCEPT !.kind = k, !.step = "send", !.was = b] \in TaskTypes
  /\ [Idle EXCEPT !.kind = "save", !.step = "write"] \in TaskTypes
BY DEF Idle, StopTask, PollTask, StartTask, UnlockTask, TaskTypes, Kinds, CallKinds,
       QuitKinds, UnlockKinds, Selections

(* A task that moves on keeps its type.                                     *)
LEMMA TaskMoves ==
  ASSUME TypeOK, NEW t \in Slots
  PROVE  /\ \A s \in {"send", "call", "cleanup", "dialog"} :
              [task[t] EXCEPT !.step = s] \in TaskTypes
         /\ \A r \in {"ok", "error", "notRunning"} : Answered(t, r) \in TaskTypes
         /\ \A r \in {"ok", "error", "notRunning"}, c \in Selections :
              [Answered(t, r) EXCEPT !.sample = c] \in TaskTypes
<1>1. PICK k \in TaskTypes : k = task[t]
  BY DEF TypeOK
<1>2. \A s \in {"send", "call", "cleanup", "dialog"} : [k EXCEPT !.step = s] \in TaskTypes
  BY DEF TaskTypes
<1>3. ASSUME NEW r \in {"ok", "error", "notRunning"} PROVE Answered(t, r) \in TaskTypes
  BY <1>1 DEF TaskTypes, Answered
<1>4. ASSUME NEW r \in {"ok", "error", "notRunning"}, NEW c \in Selections
      PROVE  [Answered(t, r) EXCEPT !.sample = c] \in TaskTypes
  <2>1. PICK j \in TaskTypes : j = Answered(t, r)
    BY <1>3
  <2>2. [j EXCEPT !.sample = c] \in TaskTypes
    BY DEF TaskTypes
  <2> QED
    BY <2>1, <2>2
<1> QED
  BY <1>1, <1>2, <1>3, <1>4

(* Putting a task into a slot.                                              *)
LEMMA PutType ==
  ASSUME TypeOK, NEW t \in Slots, NEW k \in TaskTypes, Put(t, k)
  PROVE  task' \in [Slots -> TaskTypes]
BY DEF TypeOK, Put

(* A new generation of loops.                                              *)
LEMMA OutdateType ==
  ASSUME NEW ts \in [Slots -> TaskTypes]
  PROVE  Outdate(ts) \in [Slots -> TaskTypes]
BY DEF Outdate, TaskTypes

(* A start begun by configuration.                                          *)
LEMMA StartConfigType ==
  ASSUME TypeOK, NEW t \in Slots, NEW c \in Selections, NEW a, StartConfig(t, c, a)
  PROVE  busy' \in BOOLEAN /\ task' \in [Slots -> TaskTypes]
BY TaskForms, PutType DEF StartConfig, TypeOK

(* Pressing the toggle.                                                     *)
LEMMA StartStopType ==
  ASSUME TypeOK, NEW t \in Slots, NEW selected \in Selections,
         NEW queued \in PendingTypes, NEW window \in BOOLEAN,
         StartStop(t, selected, queued, window)
  PROVE  /\ busy' \in BOOLEAN /\ pending' \in PendingTypes
         /\ task' \in [Slots -> TaskTypes]
         /\ UNCHANGED <<running, runningId>>
<1>1. UNCHANGED <<running, runningId>>
  BY DEF StartStop
<1>2. CASE busy
  <2>1. Target(selected) \in Selections
    BY DEF Target, TypeOK, Selections
  <2>2. QueueStart(t, selected, queued, window) /\ UNCHANGED busy
    BY <1>2 DEF StartStop
  <2>3. /\ \/ pending' = queued
           \/ pending' = [config |-> Target(selected), authorized |-> FALSE]
        /\ \/ Put(t, Idle)
           \/ Put(t, UnlockTask("unlockQueue", Target(selected)))
    BY <2>2 DEF QueueStart
  <2>4. UnlockTask("unlockQueue", Target(selected)) \in TaskTypes
    BY <2>1, TaskForms DEF UnlockKinds
  <2>5. task' \in [Slots -> TaskTypes]
    BY <2>3, <2>4, TaskForms, PutType
  <2> QED
    <3>1. [config |-> Target(selected), authorized |-> FALSE] \in PendingTypes
      BY <2>1 DEF PendingTypes
    <3>2. pending' \in PendingTypes
      BY <2>3, <3>1, Zenon
    <3>3. busy' \in BOOLEAN
      BY <2>2 DEF TypeOK
    <3> QED
      BY <1>1, <2>5, <3>2, <3>3
<1>3. CASE ~busy /\ running
  <2>1. StopRunning(t, queued)
    BY <1>3 DEF StartStop
  <2>2. task' \in [Slots -> TaskTypes]
    BY <2>1, OutdateType, TaskForms DEF StopRunning, TypeOK
  <2> QED
    BY <1>1, <2>1, <2>2 DEF StopRunning
<1>4. CASE ~busy /\ ~running
  <2>1. StartSelected(t, selected, queued, window)
    BY <1>4 DEF StartStop
  <2>2. UnlockTask("unlockStart", selected) \in TaskTypes
    BY TaskForms DEF UnlockKinds
  <2>3. busy' \in BOOLEAN /\ task' \in [Slots -> TaskTypes]
    BY <2>1, <2>2, TaskForms, PutType, StartConfigType DEF StartSelected, TypeOK
  <2> QED
    BY <1>1, <2>1, <2>3 DEF StartSelected
<1> QED
  BY <1>2, <1>3, <1>4 DEF TypeOK

(* What the service accepts and drops.                                      *)
LEMMA ChannelTypes ==
  ASSUME TypeOK, NEW t \in Slots
  PROVE  /\ Abandon(t) \in Seq(Requests)
         /\ Append(channel, Request(Op(task[t].kind), task[t].config, t)) \in Seq(Requests)
         /\ Append(Abandon(t), Request("stop", NoConfig, t)) \in Seq(Requests)
         /\ [i \in DOMAIN channel |-> [channel[i] EXCEPT !.from = NoSlot]] \in Seq(Requests)
<1>1. channel \in Seq(Requests)
  BY DEF TypeOK, Requests
<1>2. /\ DOMAIN channel = 1..Len(channel) /\ Len(channel) \in Nat
      /\ \A i \in 1..Len(channel) : channel[i] \in Requests
  BY <1>1
<1>3. \A i \in 1..Len(channel) : [channel[i] EXCEPT !.from = NoSlot] \in Requests
  BY <1>2 DEF Requests
<1>4. Abandon(t) \in [1..Len(channel) -> Requests]
  BY <1>2, <1>3 DEF Abandon
<1>5. Abandon(t) \in Seq(Requests)
  BY <1>2, <1>3, SeqDef DEF Abandon
<1>6. [i \in DOMAIN channel |-> [channel[i] EXCEPT !.from = NoSlot]] \in Seq(Requests)
  BY <1>2, <1>3, SeqDef
<1>7. /\ Request(Op(task[t].kind), task[t].config, t) \in Requests
      /\ Request("stop", NoConfig, t) \in Requests
  BY DEF Request, Op, Requests, TypeOK, TaskTypes, Selections
<1> QED
  BY <1>1, <1>5, <1>6, <1>7

(* Every variable keeps its type.                                           *)
THEOREM TypeCorrect == Spec => []TypeOK
<1>1. ASSUME Init PROVE TypeOK
  <2>1. required \in BOOLEAN
    BY <1>1 DEF Init
  <2>2. task \in [Slots -> TaskTypes]
    BY <1>1, TaskForms DEF Init
  <2>3. channel \in Seq(Requests)
    BY <1>1, EmptySeq DEF Init
  <2>4. /\ pending \in PendingTypes /\ busy \in BOOLEAN /\ running \in BOOLEAN
        /\ runningId \in Selections /\ tunnel \in Selections /\ exited \in BOOLEAN
    BY <1>1 DEF Init, NoPending, PendingTypes, Selections
  <2> QED
    BY <2>1, <2>2, <2>3, <2>4 DEF TypeOK, PendingTypes, Requests
<1>2. ASSUME TypeOK, [Next]_vars PROVE TypeOK'
  <2> USE <1>2
  <2>0. NoPending \in PendingTypes /\ pending \in PendingTypes /\ NoConfig \in Selections
    BY DEF NoPending, PendingTypes, TypeOK, Selections
  <2>1. ASSUME NEW t \in Slots, UserSteps(t) PROVE TypeOK'
    <3>1. CASE Toggle(t) \/ TrayStart(t) \/ TrayStop(t)
      BY <3>1, <2>0, StartStopType DEF Toggle, TrayStart, TrayStop, TypeOK, PendingTypes,
         serviceVars
    <3>2. CASE SaveAndRestart(t)
      BY <3>2, TaskForms, PutType DEF SaveAndRestart, TypeOK, runtimeVars, serviceVars
    <3>3. CASE CancelUnlock(t)
      BY <3>3, TaskForms, PutType DEF CancelUnlock, TypeOK, runtimeVars, serviceVars
    <3>4. CASE Unlock(t)
      <4>1. /\ task[t].config \in Selections
            /\ [config |-> task[t].config, authorized |-> TRUE] \in PendingTypes
        BY DEF TypeOK, TaskTypes, PendingTypes
      <4>2. CASE StartConfig(t, task[t].config, TRUE) /\ UNCHANGED <<running, runningId, pending>>
        BY <3>4, <4>1, <4>2, StartConfigType DEF Unlock, TypeOK, serviceVars
      <4>3. CASE /\ Put(t, Idle) /\ UNCHANGED runtimeVars
                 /\ pending' = [config |-> task[t].config, authorized |-> TRUE]
        BY <3>4, <4>1, <4>3, TaskForms, PutType DEF Unlock, TypeOK, PendingTypes,
           runtimeVars, serviceVars
      <4>4. CASE \E selected \in Selections :
                   StartStop(t, selected, [config |-> task[t].config, authorized |-> TRUE], TRUE)
        BY <3>4, <4>1, <4>4, StartStopType DEF Unlock, TypeOK, PendingTypes, serviceVars
      <4> QED
        BY <3>4, <4>2, <4>3, <4>4 DEF Unlock
    <3>5. ASSUME NEW kind \in QuitKinds, Quit(t, kind) PROVE TypeOK'
      <4>1. [Idle EXCEPT !.kind = kind, !.step = "send", !.was = running] \in TaskTypes
        BY TaskForms DEF TypeOK
      <4> QED
        BY <3>5, <4>1, PutType DEF Quit, TypeOK, serviceVars
    <3> QED
      BY <2>1, <3>1, <3>2, <3>3, <3>4, <3>5 DEF UserSteps
  <2>2. ASSUME NEW t \in Slots, TaskSteps(t) PROVE TypeOK'
    <3>1. CASE Prepared(t)
      BY <3>1, TaskForms, TaskMoves, PutType DEF Prepared, TypeOK, serviceVars
    <3>2. CASE StartDone(t)
      <4>1. task' \in [Slots -> TaskTypes]
        BY <3>2, TaskForms, PutType, OutdateType DEF StartDone, TypeOK
      <4>2. runningId' \in Selections /\ running' \in BOOLEAN /\ busy' = FALSE
        BY <3>2 DEF StartDone, TypeOK, TaskTypes
      <4> QED
        BY <3>2, <4>1, <4>2 DEF StartDone, TypeOK, serviceVars
    <3>3. CASE StopDone(t)
      <4>1. StartTask(pending.config) \in TaskTypes
        BY TaskForms DEF TypeOK
      <4>2. task' \in [Slots -> TaskTypes] /\ busy' \in BOOLEAN
        BY <3>3, <4>1, TaskForms, PutType DEF StopDone
      <4>3. runningId' \in Selections /\ running' \in BOOLEAN /\ pending' = NoPending
        BY <3>3, <2>0 DEF StopDone, TypeOK
      <4> QED
        BY <3>3, <4>2, <4>3, <2>0 DEF StopDone, TypeOK, PendingTypes, serviceVars
    <3>4. CASE QuitDone(t)
      <4>1. channel' \in Seq(Requests)
        BY <3>4, ChannelTypes DEF QuitDone, TypeOK, Requests
      <4>2. task' \in [Slots -> TaskTypes]
        BY <3>4, TaskForms, PutType DEF QuitDone
      <4>3. busy' = FALSE /\ running' \in BOOLEAN /\ runningId' \in Selections /\ exited' \in BOOLEAN
        BY <3>4, <2>0 DEF QuitDone, TypeOK
      <4> QED
        BY <3>4, <4>1, <4>2, <4>3, <2>0 DEF QuitDone, TypeOK, PendingTypes, Requests
    <3>5. CASE PollAsks(t) \/ PollDone(t)
      <4>1. \E k \in TaskTypes : Put(t, k)
        BY <3>5, TaskForms, TaskMoves DEF PollAsks, PollDone
      <4> QED
        BY <3>5, <4>1, PutType DEF PollAsks, PollDone, TypeOK, runtimeVars, serviceVars
    <3> QED
      BY <2>2, <3>1, <3>2, <3>3, <3>4, <3>5 DEF TaskSteps
  <2>3. ASSUME NEW t \in Slots,
               Send(t) \/ Saved(t) \/ CredentialsRead(t) \/ StartTimeout(t) \/ CallTimeout(t)
        PROVE  TypeOK'
    <3>1. CASE Send(t)
      BY <3>1, TaskMoves, ChannelTypes, PutType DEF Send, TypeOK, Requests, runtimeVars
    <3>2. CASE Saved(t)
      <4>1. CASE Put(t, Idle) /\ UNCHANGED <<runtimeVars, pending>>
        BY <3>2, <4>1, TaskForms, PutType DEF Saved, TypeOK, runtimeVars, serviceVars
      <4>2. ASSUME NEW selected \in Selections, UNCHANGED <<runtimeVars, pending>>,
                   Put(t, UnlockTask("unlockRestart", Target(selected)))
            PROVE  TypeOK'
        <5>1. Target(selected) \in Selections
          BY DEF Target, TypeOK
        <5>2. UnlockTask("unlockRestart", Target(selected)) \in TaskTypes
          BY <5>1, TaskForms DEF UnlockKinds
        <5> QED
          BY <3>2, <4>2, <5>2, PutType DEF Saved, TypeOK, runtimeVars, serviceVars
      <4>3. ASSUME NEW selected \in Selections,
                   StartStop(t, selected,
                             [config |-> Target(selected), authorized |-> FALSE], TRUE)
            PROVE  TypeOK'
        <5>1. [config |-> Target(selected), authorized |-> FALSE] \in PendingTypes
          BY DEF Target, TypeOK, PendingTypes
        <5> QED
          BY <3>2, <4>3, <5>1, StartStopType DEF Saved, TypeOK, PendingTypes, serviceVars
      <4> QED
        BY <3>2, <4>1, <4>2, <4>3 DEF Saved
    <3>3. CASE CredentialsRead(t)
      BY <3>3, TaskForms, TaskMoves, PutType DEF CredentialsRead, TypeOK, runtimeVars, serviceVars
    <3>4. CASE StartTimeout(t)
      BY <3>4, TaskMoves, ChannelTypes, PutType DEF StartTimeout, TypeOK, Requests, runtimeVars
    <3>5. CASE CallTimeout(t)
      BY <3>5, TaskMoves, ChannelTypes, PutType DEF CallTimeout, TypeOK, Requests, runtimeVars
    <3> QED
      BY <2>3, <3>1, <3>2, <3>3, <3>4, <3>5
  <2>4. CASE SetRequired
    BY <2>4 DEF SetRequired, TypeOK, runtimeVars, serviceVars
  <2>5. CASE Serve
    <3> DEFINE r == Head(channel)
    <3>1. r \in Requests /\ Tail(channel) \in Seq(Requests)
      <4>1. channel \in Seq(Requests)
        BY DEF TypeOK, Requests
      <4>2. channel # <<>>
        BY <2>5 DEF Serve
      <4> QED
        BY <4>1, <4>2, HeadTailProperties
    <3>2. tunnel' \in Selections
      BY <2>5, <3>1, <2>0 DEF Serve, TypeOK, Requests
    <3>3. \E result \in {"ok", "error", "notRunning"}, seen \in Selections :
            Reply(r.from, result, seen)
      BY <2>5, <2>0 DEF Serve, TypeOK
    <3>4. task' \in [Slots -> TaskTypes]
      <4>1. CASE r.from = NoSlot
        BY <3>3, <4>1 DEF Reply, TypeOK
      <4>2. CASE r.from # NoSlot
        <5>1. r.from \in Slots
          BY <3>1, <4>2 DEF Requests
        <5>2. PICK result \in {"ok", "error", "notRunning"}, seen \in Selections :
                Put(r.from, [Answered(r.from, IF task[r.from].step = "cleanup"
                                              THEN "error" ELSE result) EXCEPT !.sample = seen])
          BY <3>3, <4>2 DEF Reply
        <5>3. [Answered(r.from, IF task[r.from].step = "cleanup"
                                THEN "error" ELSE result) EXCEPT !.sample = seen] \in TaskTypes
          BY <5>1, TaskMoves
        <5> QED
          BY <5>1, <5>2, <5>3, PutType
      <4> QED
        BY <4>1, <4>2
    <3> QED
      BY <2>5, <3>1, <3>2, <3>4 DEF Serve, TypeOK, Requests, runtimeVars
  <2>6. CASE ServiceDies
    <3>1. task' \in [Slots -> TaskTypes]
      BY <2>6, TaskMoves DEF ServiceDies, TypeOK
    <3> QED
      BY <2>6, <3>1, <2>0 DEF ServiceDies, TypeOK, runtimeVars
  <2>7. CASE Relaunch
    BY <2>7 DEF Relaunch, TypeOK, runtimeVars, serviceVars
  <2>8. CASE UNCHANGED vars
    BY <2>8 DEF vars, TypeOK, runtimeVars, serviceVars
  <2> QED
    BY <2>1, <2>2, <2>3, <2>4, <2>5, <2>6, <2>7, <2>8 DEF Next
<1> QED
  BY <1>1, <1>2, PTL DEF Spec

-----------------------------------------------------------------------------
(* Who will clear busy.                                                     *)

Owners == {"start", "stop"} \cup QuitKinds

(* What a task becomes when it moves on is still the same kind of task.      *)
LEMMA KindsKept ==
  ASSUME TypeOK, NEW t \in Slots
  PROVE  /\ \A s \in {"send", "call", "cleanup", "dialog"} :
              [task[t] EXCEPT !.step = s].kind = task[t].kind
         /\ \A r \in {"ok", "error", "notRunning"} : Answered(t, r).kind = task[t].kind
         /\ \A r \in {"ok", "error", "notRunning"}, c \in Selections :
              [Answered(t, r) EXCEPT !.sample = c].kind = task[t].kind
         /\ Outdate(task)[t].kind = task[t].kind
BY DEF TypeOK, TaskTypes, Answered, Outdate

(* The kinds of the tasks the UI spawns.                                    *)
LEMMA KindsOfTasks ==
  /\ Idle.kind = "none" /\ StopTask.kind = "stop" /\ PollTask.kind = "poll"
  /\ \A c : StartTask(c).kind = "start"
  /\ \A k, c : UnlockTask(k, c).kind = k
  /\ \A k, b : [Idle EXCEPT !.kind = k, !.step = "send", !.was = b].kind = k
  /\ [Idle EXCEPT !.kind = "save", !.step = "write"].kind = "save"
BY DEF Idle, StopTask, PollTask, StartTask, UnlockTask

(* The service's answer changes no kind.                                    *)
LEMMA ServeKinds ==
  ASSUME TypeOK, Serve
  PROVE  \A s \in Slots : task'[s].kind = task[s].kind
<1> DEFINE r == Head(channel)
<1>1. r.from \in Slots \cup {NoSlot}
  <2>1. channel \in Seq(Requests) /\ channel # <<>>
    BY DEF TypeOK, Requests, Serve
  <2>2. r \in Requests
    BY <2>1, HeadTailProperties
  <2> QED
    BY <2>2 DEF Requests
<1>2. PICK result \in {"ok", "error", "notRunning"}, seen \in Selections :
        Reply(r.from, result, seen)
  BY DEF Serve, TypeOK, Selections
<1>3. CASE r.from = NoSlot
  BY <1>2, <1>3 DEF Reply
<1>4. CASE r.from # NoSlot
  <2>1. r.from \in Slots
    BY <1>1, <1>4
  <2>2. task' = [task EXCEPT ![r.from] =
                   [Answered(r.from, IF task[r.from].step = "cleanup"
                                     THEN "error" ELSE result) EXCEPT !.sample = seen]]
    BY <1>2, <1>4 DEF Reply, Put
  <2>3. [Answered(r.from, IF task[r.from].step = "cleanup"
                          THEN "error" ELSE result) EXCEPT !.sample = seen].kind
          = task[r.from].kind
    BY <2>1, KindsKept
  <2> QED
    BY <2>1, <2>2, <2>3 DEF TypeOK
<1> QED
  BY <1>3, <1>4

(* When the service dies, its callers stay what they are.                    *)
LEMMA DiesKinds ==
  ASSUME TypeOK, ServiceDies
  PROVE  \A s \in Slots : task'[s].kind = task[s].kind
BY KindsKept DEF ServiceDies

(* A step that keeps busy and every kind keeps the owner.                    *)
LEMMA OwnedByKinds ==
  ASSUME BusyIsOwned, busy' = busy, \A s \in Slots : task'[s].kind = task[s].kind
  PROVE  BusyIsOwned'
BY DEF BusyIsOwned, TasksOf

(* A step that puts a task into one slot leaves the owners of the others.    *)
LEMMA OwnedByPut ==
  ASSUME TypeOK, BusyIsOwned, NEW t \in Slots, NEW k, Put(t, k),
         \/ k.kind \in Owners
         \/ busy' = FALSE
         \/ busy' = busy /\ task[t].kind \notin Owners
  PROVE  BusyIsOwned'
BY DEF BusyIsOwned, TasksOf, Put, TypeOK, Owners

(* Starting by configuration from a slot that owns nothing, ...              *)
LEMMA OwnedByStart ==
  ASSUME TypeOK, BusyIsOwned, NEW t \in Slots, task[t].kind \notin Owners,
         NEW c, NEW a, StartConfig(t, c, a)
  PROVE  BusyIsOwned'
<1>1. CASE busy' = TRUE /\ Put(t, StartTask(c))
  BY <1>1, KindsOfTasks, OwnedByPut DEF Owners
<1>2. CASE Put(t, Idle) /\ UNCHANGED busy
  BY <1>2, OwnedByPut
<1> QED
  BY <1>1, <1>2 DEF StartConfig

(* ... and pressing the toggle from there.                                  *)
LEMMA OwnedByToggle ==
  ASSUME TypeOK, BusyIsOwned, NEW t \in Slots, task[t].kind \notin Owners,
         NEW selected, NEW queued, NEW window, StartStop(t, selected, queued, window)
  PROVE  BusyIsOwned'
<1>1. CASE busy
  <2>1. UNCHANGED busy /\ QueueStart(t, selected, queued, window)
    BY <1>1 DEF StartStop
  <2>2. \E k : Put(t, k)
    BY <2>1 DEF QueueStart
  <2> QED
    BY <2>1, <2>2, OwnedByPut
<1>2. CASE ~busy /\ running
  <2>1. task' = [Outdate(task) EXCEPT ![t] = StopTask]
    BY <1>2 DEF StartStop, StopRunning
  <2>2. task'[t].kind = "stop"
    BY <2>1, KindsOfTasks DEF Outdate
  <2> QED
    BY <2>2 DEF BusyIsOwned, TasksOf
<1>3. CASE ~busy /\ ~running
  <2>1. StartSelected(t, selected, queued, window)
    BY <1>3 DEF StartStop
  <2>2. CASE UNCHANGED busy /\ \E k : Put(t, k)
    BY <2>2, OwnedByPut
  <2>3. CASE StartConfig(t, selected, FALSE)
    BY <2>3, OwnedByStart
  <2> QED
    BY <2>1, <2>2, <2>3 DEF StartSelected
<1> QED
  BY <1>1, <1>2, <1>3

(* Whatever happens, busy is set only while a start, a stop or a quit is on  *)
(* its way.                                                                 *)
THEOREM NeverStuckBusy == Spec => []BusyIsOwned
<1>1. Init => BusyIsOwned
  BY DEF Init, BusyIsOwned
<1>2. ASSUME TypeOK, BusyIsOwned, [Next]_vars PROVE BusyIsOwned'
  <2> USE <1>2
  <2>1. ASSUME NEW t \in Slots, UserSteps(t) PROVE BusyIsOwned'
    <3>1. CASE Toggle(t) \/ TrayStart(t) \/ TrayStop(t)
      <4>1. task[t].kind \notin Owners
        BY <3>1 DEF Toggle, TrayStart, TrayStop, Free, Owners, QuitKinds
      <4> QED
        BY <3>1, <4>1, OwnedByToggle DEF Toggle, TrayStart, TrayStop
    <3>2. CASE SaveAndRestart(t)
      <4>1. task[t].kind \notin Owners
        BY <3>2 DEF SaveAndRestart, Free, Owners, QuitKinds
      <4> QED
        BY <3>2, <4>1, OwnedByPut DEF SaveAndRestart, runtimeVars
    <3>3. CASE CancelUnlock(t)
      <4>1. task[t].kind \notin Owners
        BY <3>3 DEF CancelUnlock, UnlockKinds, Owners, QuitKinds
      <4> QED
        BY <3>3, <4>1, OwnedByPut DEF CancelUnlock, runtimeVars
    <3>4. CASE Unlock(t)
      <4>1. task[t].kind \notin Owners
        BY <3>4 DEF Unlock, Owners, QuitKinds
      <4> QED
        BY <3>4, <4>1, OwnedByStart, OwnedByToggle, OwnedByPut DEF Unlock, runtimeVars
    <3>5. ASSUME NEW kind \in QuitKinds, Quit(t, kind) PROVE BusyIsOwned'
      <4>1. [Idle EXCEPT !.kind = kind, !.step = "send", !.was = running].kind \in Owners
        BY KindsOfTasks DEF Owners
      <4> QED
        BY <3>5, <4>1, OwnedByPut DEF Quit
    <3> QED
      BY <2>1, <3>1, <3>2, <3>3, <3>4, <3>5 DEF UserSteps
  <2>2. ASSUME NEW t \in Slots, TaskSteps(t) PROVE BusyIsOwned'
    <3>1. CASE Prepared(t)
      <4>1. [task[t] EXCEPT !.step = "send"].kind \in Owners
        BY <3>1, KindsKept DEF Prepared, Owners
      <4> QED
        BY <3>1, <4>1, OwnedByPut DEF Prepared
    <3>2. CASE StartDone(t) \/ QuitDone(t)
      BY <3>2 DEF StartDone, QuitDone, BusyIsOwned
    <3>3. CASE StopDone(t)
      BY <3>3, KindsOfTasks, OwnedByPut DEF StopDone, Owners
    <3>4. CASE PollAsks(t) \/ PollDone(t)
      <4>1. task[t].kind \notin Owners
        BY <3>4 DEF PollAsks, PollDone, Done, Owners, QuitKinds
      <4> QED
        BY <3>4, <4>1, OwnedByPut DEF PollAsks, PollDone, runtimeVars
    <3> QED
      BY <2>2, <3>1, <3>2, <3>3, <3>4 DEF TaskSteps
  <2>3. ASSUME NEW t \in Slots,
               Send(t) \/ Saved(t) \/ CredentialsRead(t) \/ StartTimeout(t) \/ CallTimeout(t)
        PROVE  BusyIsOwned'
    <3>1. CASE Send(t) \/ StartTimeout(t) \/ CallTimeout(t)
      <4>1. PICK k : Put(t, k) /\ k.kind = task[t].kind
        BY <3>1, KindsKept DEF Send, StartTimeout, CallTimeout
      <4>2. busy' = busy
        BY <3>1 DEF Send, StartTimeout, CallTimeout, runtimeVars
      <4> QED
        BY <4>1, <4>2, OwnedByPut
    <3>2. CASE Saved(t)
      <4>1. task[t].kind \notin Owners
        BY <3>2 DEF Saved, Owners, QuitKinds
      <4>2. CASE UNCHANGED busy /\ \E k : Put(t, k)
        BY <4>1, <4>2, OwnedByPut
      <4>3. CASE \E selected, queued : StartStop(t, selected, queued, TRUE)
        BY <4>1, <4>3, OwnedByToggle
      <4> QED
        BY <3>2, <4>2, <4>3 DEF Saved, runtimeVars
    <3>3. CASE CredentialsRead(t)
      <4>1. task[t].kind \notin Owners
        BY <3>3 DEF CredentialsRead, UnlockKinds, Owners, QuitKinds
      <4> QED
        BY <3>3, <4>1, OwnedByPut DEF CredentialsRead, runtimeVars
    <3> QED
      BY <2>3, <3>1, <3>2, <3>3
  <2>4. CASE SetRequired \/ Relaunch
    BY <2>4, OwnedByKinds DEF SetRequired, Relaunch, runtimeVars
  <2>5. CASE Serve
    BY <2>5, ServeKinds, OwnedByKinds DEF Serve, runtimeVars
  <2>6. CASE ServiceDies
    BY <2>6, DiesKinds, OwnedByKinds DEF ServiceDies, runtimeVars
  <2>7. CASE UNCHANGED vars
    BY <2>7, OwnedByKinds DEF vars, runtimeVars
  <2> QED
    BY <2>1, <2>2, <2>3, <2>4, <2>5, <2>6, <2>7 DEF Next
<1> QED
  BY <1>1, <1>2, TypeCorrect, PTL DEF Spec

-----------------------------------------------------------------------------
(* The password gate.                                                       *)

(* The step formula of StartsAuthorized.                                    *)
Gate ==
  \A t \in Slots :
    required /\ task'[t].kind = "start" /\ task[t].kind # "start" =>
      \/ task[t].kind = "unlockStart" /\ task[t].step = "dialog"
      \/ task[t].kind = "stop" /\ pending.authorized

(* No slot becomes a start.                                                 *)
NoNewStart == \A s \in Slots : task'[s].kind = "start" => task[s].kind = "start"

(* A task put into a slot begins no start unless it is one.                  *)
LEMMA GateByPut ==
  ASSUME TypeOK, NEW t \in Slots, NEW k, Put(t, k),
         k.kind = "start" => task[t].kind = "start"
  PROVE  NoNewStart
BY DEF NoNewStart, Put, TypeOK

(* While the password is required, neither a start by configuration without  *)
(* it nor the toggle begins a start.                                        *)
LEMMA GateByToggle ==
  ASSUME TypeOK, required, NEW t \in Slots,
         NEW selected, NEW queued, NEW window, StartStop(t, selected, queued, window)
  PROVE  NoNewStart
<1>0. \A c : ~StartConfig(t, c, FALSE) \/ Put(t, Idle)
  BY DEF StartConfig, MayStart
<1>1. CASE busy
  <2>1. Put(t, Idle) \/ Put(t, UnlockTask("unlockQueue", Target(selected)))
    BY <1>1 DEF StartStop, QueueStart
  <2> QED
    BY <2>1, KindsOfTasks, GateByPut
<1>2. CASE ~busy /\ running
  <2>1. task' = [Outdate(task) EXCEPT ![t] = StopTask]
    BY <1>2 DEF StartStop, StopRunning
  <2>2. task'[t].kind = "stop"
    BY <2>1, KindsOfTasks DEF Outdate
  <2>3. \A s \in Slots \ {t} : task'[s] = Outdate(task)[s]
    BY <2>1 DEF Outdate
  <2> QED
    BY <2>2, <2>3, KindsKept DEF NoNewStart
<1>3. CASE ~busy /\ ~running
  <2>1. Put(t, Idle) \/ Put(t, UnlockTask("unlockStart", selected))
    BY <1>0, <1>3 DEF StartStop, StartSelected
  <2> QED
    BY <2>1, KindsOfTasks, GateByPut
<1> QED
  BY <1>1, <1>2, <1>3

(* While the password is required, a start begins only from the dialog, or   *)
(* as the pending start that the dialog has authorised.                     *)
THEOREM PasswordGate == Spec => StartsAuthorized
<1>1. ASSUME TypeOK, [Next]_vars PROVE [Gate]_vars
  <2> USE <1>1
  <2> SUFFICES ASSUME required PROVE Gate \/ UNCHANGED vars
    BY DEF Gate
  <2>0. NoNewStart => Gate
    BY DEF NoNewStart, Gate
  <2>1. ASSUME NEW t \in Slots, UserSteps(t) PROVE Gate
    <3>1. CASE Toggle(t) \/ TrayStart(t) \/ TrayStop(t)
      BY <2>0, <3>1, GateByToggle DEF Toggle, TrayStart, TrayStop
    <3>2. CASE SaveAndRestart(t)
      BY <2>0, <3>2, KindsOfTasks, GateByPut DEF SaveAndRestart
    <3>3. CASE CancelUnlock(t)
      BY <2>0, <3>3, KindsOfTasks, GateByPut DEF CancelUnlock
    <3>4. CASE Unlock(t)
      <4>1. CASE task[t].kind = "unlockStart"
        <5>1. \E k : Put(t, k)
          BY <3>4, <4>1 DEF Unlock, StartConfig
        <5> QED
          BY <3>4, <4>1, <5>1 DEF Unlock, Gate, Put, TypeOK
      <4>2. CASE task[t].kind = "unlockQueue"
        BY <2>0, <3>4, <4>2, KindsOfTasks, GateByPut DEF Unlock
      <4>3. CASE task[t].kind = "unlockRestart"
        BY <2>0, <3>4, <4>3, GateByToggle DEF Unlock
      <4> QED
        BY <3>4, <4>1, <4>2, <4>3 DEF Unlock
    <3>5. ASSUME NEW kind \in QuitKinds, Quit(t, kind) PROVE Gate
      <4>1. [Idle EXCEPT !.kind = kind, !.step = "send", !.was = running].kind # "start"
        BY KindsOfTasks DEF QuitKinds
      <4> QED
        BY <2>0, <3>5, <4>1, GateByPut DEF Quit
    <3> QED
      BY <2>1, <3>1, <3>2, <3>3, <3>4, <3>5 DEF UserSteps
  <2>2. ASSUME NEW t \in Slots, TaskSteps(t) PROVE Gate
    <3>1. CASE Prepared(t)
      BY <2>0, <3>1, KindsOfTasks, GateByPut DEF Prepared
    <3>2. CASE StartDone(t)
      <4>1. \A s \in Slots \ {t} : task'[s] = task[s] \/ task'[s] = Outdate(task)[s]
        BY <3>2 DEF StartDone, Put, TypeOK, Outdate
      <4>2. task[t].kind = "start"
        BY <3>2 DEF StartDone, Done
      <4> QED
        BY <4>1, <4>2, KindsKept DEF Gate
    <3>3. CASE StopDone(t)
      <4>1. \/ Put(t, Idle)
            \/ pending.authorized /\ Put(t, StartTask(pending.config))
        BY <3>3 DEF StopDone, MayStart
      <4>2. CASE Put(t, Idle)
        BY <2>0, <4>2, KindsOfTasks, GateByPut
      <4>3. CASE pending.authorized /\ Put(t, StartTask(pending.config))
        <5>1. task[t].kind = "stop"
          BY <3>3 DEF StopDone, Done
        <5> QED
          BY <4>3, <5>1 DEF Gate, Put, TypeOK
      <4> QED
        BY <4>1, <4>2, <4>3
    <3>4. CASE QuitDone(t)
      <4>1. task' = [s \in Slots |-> Idle] \/ Put(t, Idle)
        BY <3>4 DEF QuitDone
      <4> QED
        BY <2>0, <4>1, KindsOfTasks, GateByPut DEF NoNewStart
    <3>5. CASE PollAsks(t) \/ PollDone(t)
      <4>1. PICK k : Put(t, k) /\ k \in {[task[t] EXCEPT !.step = "send"], PollTask, Idle}
        BY <3>5 DEF PollAsks, PollDone
      <4>2. task[t].kind = "poll"
        BY <3>5 DEF PollAsks, PollDone, Done
      <4>3. k.kind # "start"
        BY <4>1, <4>2, KindsOfTasks, KindsKept
      <4> QED
        BY <2>0, <4>1, <4>3, GateByPut
    <3> QED
      BY <2>2, <3>1, <3>2, <3>3, <3>4, <3>5 DEF TaskSteps
  <2>3. ASSUME NEW t \in Slots,
               Send(t) \/ Saved(t) \/ CredentialsRead(t) \/ StartTimeout(t) \/ CallTimeout(t)
        PROVE  Gate
    <3>1. CASE Send(t) \/ StartTimeout(t) \/ CallTimeout(t)
      <4>1. PICK k : Put(t, k) /\ k.kind = task[t].kind
        BY <3>1, KindsKept DEF Send, StartTimeout, CallTimeout
      <4> QED
        BY <2>0, <4>1, GateByPut
    <3>2. CASE Saved(t)
      <4>1. CASE \E k : Put(t, k) /\ k.kind # "start"
        BY <2>0, <4>1, GateByPut
      <4>2. CASE \E selected, queued : StartStop(t, selected, queued, TRUE)
        BY <2>0, <4>2, GateByToggle
      <4>3. Idle.kind # "start" /\ \A c : UnlockTask("unlockRestart", c).kind # "start"
        BY KindsOfTasks
      <4> QED
        BY <3>2, <4>1, <4>2, <4>3 DEF Saved
    <3>3. CASE CredentialsRead(t)
      <4>1. task[t].kind # "start" /\ Idle.kind # "start"
        BY <3>3, KindsOfTasks DEF CredentialsRead, UnlockKinds
      <4>2. [task[t] EXCEPT !.step = "dialog"].kind # "start"
        BY <4>1, KindsKept
      <4> QED
        BY <2>0, <3>3, <4>1, <4>2, GateByPut DEF CredentialsRead
    <3> QED
      BY <2>3, <3>1, <3>2, <3>3
  <2>4. CASE SetRequired \/ Relaunch
    BY <2>0, <2>4 DEF SetRequired, Relaunch, NoNewStart
  <2>5. CASE Serve
    BY <2>0, <2>5, ServeKinds DEF NoNewStart
  <2>6. CASE ServiceDies
    BY <2>0, <2>6, DiesKinds DEF NoNewStart
  <2> QED
    BY <2>1, <2>2, <2>3, <2>4, <2>5, <2>6 DEF Next
<1> QED
  BY <1>1, TypeCorrect, PTL DEF Spec, StartsAuthorized, Gate

-----------------------------------------------------------------------------
(* One call at a time.                                                      *)

(* A session in which no dialog waits, nothing is saved and nobody quits.    *)
PlainSession == Features \cap {"password", "saveRestart", "quit"} = {}

PlainKinds ==
  /\ required = FALSE /\ exited = FALSE
  /\ \A t \in Slots : task[t].kind \in {"none", "start", "stop", "poll"}
(* A call means busy, ...                                                   *)
CallsAreBusy == \A t \in Slots : task[t].kind \in {"start", "stop"} => busy
(* ... and only what does not run is being started.                         *)
StartsWhenStopped == \A t \in Slots : task[t].kind = "start" => ~running

PlainInv ==
  PlainKinds /\ CallsAreBusy /\ StartsWhenStopped /\ OneCallAtATime /\ PendingWhileStopping

(* While something starts nothing is pending: no stop is in flight.          *)
LEMMA NoPendingStart ==
  ASSUME PlainInv, NEW t \in Slots, task[t].kind = "start"
  PROVE  pending = NoPending
BY DEF PlainInv, PlainKinds, OneCallAtATime, PendingWhileStopping, TasksOf, QuitKinds

(* A step that changes no kind and none of the flags.                       *)
LEMMA PlainByKinds ==
  ASSUME PlainInv, UNCHANGED <<busy, running, pending, required, exited>>,
         \A s \in Slots : task'[s].kind = task[s].kind
  PROVE  PlainInv'
BY DEF PlainInv, PlainKinds, CallsAreBusy, StartsWhenStopped, OneCallAtATime,
       PendingWhileStopping, TasksOf

(* A task that is no call becomes another that is none, whatever is queued   *)
(* while a stop is in flight.                                               *)
LEMMA PlainByPut ==
  ASSUME TypeOK, PlainInv, UNCHANGED <<busy, running, required, exited>>,
         NEW t \in Slots, NEW k, Put(t, k),
         task[t].kind \in {"none", "poll"}, k.kind \in {"none", "poll"},
         pending' = pending \/ \E s \in Slots : task[s].kind = "stop"
  PROVE  PlainInv'
BY DEF PlainInv, PlainKinds, CallsAreBusy, StartsWhenStopped, OneCallAtATime,
       PendingWhileStopping, TasksOf, Put, TypeOK, QuitKinds

(* A call begins when there is none.                                        *)
LEMMA PlainByCall ==
  ASSUME TypeOK, PlainInv, UNCHANGED <<required, exited, pending>>, NEW t \in Slots,
         ~busy, busy' = TRUE, running' = running,
         \A s \in Slots \ {t} : task'[s].kind = task[s].kind,
         task'[t].kind = "stop" \/ (task'[t].kind = "start" /\ ~running)
  PROVE  PlainInv'
<1>1. \A s \in Slots : task[s].kind \notin {"start", "stop"}
  BY DEF PlainInv, CallsAreBusy
<1>2. \A s \in Slots : task[s].kind \notin {"stop"} \cup QuitKinds
  BY <1>1 DEF PlainInv, PlainKinds, QuitKinds
<1>3. pending = NoPending
  BY <1>2 DEF PlainInv, PendingWhileStopping, TasksOf
<1> QED
  BY <1>1, <1>3 DEF PlainInv, PlainKinds, CallsAreBusy, StartsWhenStopped, OneCallAtATime,
     PendingWhileStopping, TasksOf

(* A call ends; it leaves no call behind, or the stop leaves the start that  *)
(* was pending.                                                             *)
LEMMA PlainByEnd ==
  ASSUME TypeOK, PlainInv, UNCHANGED <<required, exited>>, NEW t \in Slots,
         task[t].kind \in {"start", "stop"}, pending' = NoPending,
         \A s \in Slots \ {t} : task'[s].kind = task[s].kind,
         \/ task'[t].kind \in {"none", "poll"}
         \/ task'[t].kind = "start" /\ busy' = TRUE /\ running' = FALSE
  PROVE  PlainInv'
<1>1. \A s \in Slots \ {t} : task[s].kind \in {"none", "poll"}
  BY DEF PlainInv, PlainKinds, OneCallAtATime, TasksOf
<1> QED
  BY <1>1 DEF PlainInv, PlainKinds, CallsAreBusy, StartsWhenStopped, OneCallAtATime,
     PendingWhileStopping, TasksOf

(* Pressing the toggle in a plain session.                                  *)
LEMMA PlainToggle ==
  ASSUME TypeOK, PlainInv, BusyIsOwned, UNCHANGED <<required, exited>>, NEW t \in Slots,
         task[t].kind = "none", NEW selected, NEW window,
         StartStop(t, selected, pending, window)
  PROVE  PlainInv'
<1>0. required = FALSE
  BY DEF PlainInv, PlainKinds
<1>1. CASE busy
  <2>1. QueueStart(t, selected, pending, window) /\ UNCHANGED <<busy, running>>
    BY <1>1 DEF StartStop
  <2>2. Put(t, Idle) /\ (running \/ pending' = pending)
    BY <1>0, <2>1 DEF QueueStart
  <2>3. running => \E s \in Slots : task[s].kind = "stop"
    BY <1>1 DEF BusyIsOwned, TasksOf, PlainInv, PlainKinds, StartsWhenStopped, QuitKinds
  <2> QED
    BY <2>1, <2>2, <2>3, KindsOfTasks, PlainByPut
<1>2. CASE ~busy /\ running
  <2>1. task' = [Outdate(task) EXCEPT ![t] = StopTask] /\ busy' = TRUE
        /\ UNCHANGED <<running, pending>>
    BY <1>2 DEF StartStop, StopRunning
  <2>2. task'[t].kind = "stop"
    BY <2>1, KindsOfTasks DEF Outdate
  <2>3. \A s \in Slots \ {t} : task'[s] = Outdate(task)[s]
    BY <2>1 DEF Outdate
  <2> QED
    BY <1>2, <2>1, <2>2, <2>3, KindsKept, PlainByCall
<1>3. CASE ~busy /\ ~running
  <2>1. /\ UNCHANGED <<running, pending>>
        /\ \/ Put(t, Idle) /\ UNCHANGED busy
           \/ StartConfig(t, selected, FALSE)
    BY <1>0, <1>3 DEF StartStop, StartSelected
  <2>2. CASE Put(t, Idle) /\ UNCHANGED busy
    BY <2>1, <2>2, KindsOfTasks, PlainByPut
  <2>3. CASE busy' = TRUE /\ Put(t, StartTask(selected))
    BY <1>3, <2>1, <2>3, KindsOfTasks, PlainByCall DEF Put, TypeOK
  <2> QED
    BY <2>1, <2>2, <2>3 DEF StartConfig
<1> QED
  BY <1>1, <1>2, <1>3

(* A plain session keeps its invariant.                                     *)
LEMMA PlainAlways ==
  ASSUME PlainSession
  PROVE  Spec => []PlainInv
<1>1. ASSUME Init PROVE PlainInv
  <2>1. required = FALSE /\ exited = FALSE /\ pending = NoPending
    BY <1>1, PlainSession DEF Init, PlainSession
  <2>2. \A t \in Slots : task[t].kind = "none"
    BY <1>1, KindsOfTasks DEF Init
  <2> QED
    BY <2>1, <2>2 DEF PlainInv, PlainKinds, CallsAreBusy, StartsWhenStopped, OneCallAtATime,
       PendingWhileStopping, TasksOf
<1>2. ASSUME TypeOK, BusyIsOwned, PlainInv, [Next]_vars PROVE PlainInv'
  <2> USE <1>2
  <2>0. /\ "password" \notin Features /\ "saveRestart" \notin Features
        /\ "quit" \notin Features
        /\ \A t \in Slots : task[t].kind \in {"none", "start", "stop", "poll"}
        /\ ~exited
    BY PlainSession DEF PlainSession, PlainInv, PlainKinds
  <2>1. ASSUME NEW t \in Slots, UserSteps(t) PROVE PlainInv'
    <3>1. Toggle(t) \/ TrayStart(t) \/ TrayStop(t)
      BY <2>0, <2>1 DEF UserSteps, SaveAndRestart, CancelUnlock, Unlock, Quit, UnlockKinds
    <3>2. task[t].kind = "none"
      BY <3>1 DEF Toggle, TrayStart, TrayStop, Free
    <3> QED
      BY <3>1, <3>2, PlainToggle DEF Toggle, TrayStart, TrayStop
  <2>2. ASSUME NEW t \in Slots, TaskSteps(t) PROVE PlainInv'
    <3>1. CASE Prepared(t)
      <4>1. CASE Put(t, [task[t] EXCEPT !.step = "send"]) /\ UNCHANGED busy
        <5>1. \A s \in Slots : task'[s].kind = task[s].kind
          BY <4>1, KindsKept DEF Put, TypeOK
        <5> QED
          BY <3>1, <4>1, <5>1, PlainByKinds DEF Prepared
      <4>2. CASE Put(t, Idle) /\ busy' = FALSE
        <5>1. task[t].kind = "start"
          BY <3>1 DEF Prepared
        <5>2. /\ task'[t].kind = "none"
              /\ \A s \in Slots \ {t} : task'[s].kind = task[s].kind
          BY <4>2, KindsOfTasks DEF Put, TypeOK
        <5>3. pending = NoPending
          BY <5>1, NoPendingStart
        <5> QED
          BY <3>1, <4>2, <5>1, <5>2, <5>3, PlainByEnd DEF Prepared
      <4> QED
        BY <3>1, <4>1, <4>2 DEF Prepared
    <3>2. CASE StartDone(t)
      <4>1. task[t].kind = "start"
        BY <3>2 DEF StartDone, Done
      <4>2. pending' = NoPending /\ UNCHANGED <<required, exited>>
        BY <3>2, <4>1, NoPendingStart DEF StartDone
      <4>3. CASE Put(t, Idle)
        BY <4>1, <4>2, <4>3, KindsOfTasks, PlainByEnd DEF Put, TypeOK
      <4>4. CASE task' = [Outdate(task) EXCEPT ![t] = PollTask]
        <5>1. task'[t].kind = "poll"
          BY <4>4, KindsOfTasks DEF Outdate
        <5>2. \A s \in Slots \ {t} : task'[s] = Outdate(task)[s]
          BY <4>4 DEF Outdate
        <5>3. \A s \in Slots \ {t} : task'[s].kind = task[s].kind
          BY <5>2, KindsKept
        <5> QED
          BY <4>1, <4>2, <5>1, <5>3, PlainByEnd
      <4> QED
        BY <3>2, <4>3, <4>4 DEF StartDone
    <3>3. CASE StopDone(t)
      <4>1. task[t].kind = "stop" /\ pending' = NoPending /\ UNCHANGED <<required, exited>>
        BY <3>3 DEF StopDone, Done
      <4>2. \/ Put(t, Idle)
            \/ busy' = TRUE /\ running' = FALSE /\ Put(t, StartTask(pending.config))
        BY <3>3 DEF StopDone
      <4>3. /\ \A s \in Slots \ {t} : task'[s].kind = task[s].kind
            /\ \/ task'[t].kind = "none"
               \/ task'[t].kind = "start" /\ busy' = TRUE /\ running' = FALSE
        BY <4>2, KindsOfTasks DEF Put, TypeOK
      <4> QED
        BY <4>1, <4>3, PlainByEnd
    <3>4. ~QuitDone(t)
      BY <2>0 DEF QuitDone, Done, QuitKinds
    <3>5. CASE PollAsks(t) \/ PollDone(t)
      <4>1. task[t].kind = "poll"
        BY <3>5 DEF PollAsks, PollDone, Done
      <4>2. PICK k : Put(t, k) /\ k.kind \in {"none", "poll"}
        <5>1. /\ Idle.kind \in {"none", "poll"} /\ PollTask.kind \in {"none", "poll"}
              /\ [task[t] EXCEPT !.step = "send"].kind \in {"none", "poll"}
          BY <4>1, KindsOfTasks, KindsKept
        <5> QED
          BY <3>5, <5>1 DEF PollAsks, PollDone
      <4>3. UNCHANGED <<busy, running, pending, required, exited>>
        BY <3>5 DEF PollAsks, PollDone, runtimeVars
      <4> QED
        BY <4>1, <4>2, <4>3, PlainByPut
    <3> QED
      BY <2>2, <3>1, <3>2, <3>3, <3>4, <3>5 DEF TaskSteps
  <2>3. ASSUME NEW t \in Slots, Send(t) \/ StartTimeout(t) \/ CallTimeout(t) PROVE PlainInv'
    <3>1. PICK k : Put(t, k) /\ k.kind = task[t].kind
      BY <2>3, KindsKept DEF Send, StartTimeout, CallTimeout
    <3>2. \A s \in Slots : task'[s].kind = task[s].kind
      BY <3>1 DEF Put, TypeOK
    <3> QED
      BY <2>3, <3>2, PlainByKinds DEF Send, StartTimeout, CallTimeout, runtimeVars
  <2>4. \A t \in Slots : ~Saved(t) /\ ~CredentialsRead(t)
    BY <2>0 DEF Saved, CredentialsRead, UnlockKinds
  <2>5. ~SetRequired /\ ~Relaunch
    BY <2>0 DEF SetRequired, Relaunch
  <2>6. CASE Serve
    BY <2>6, ServeKinds, PlainByKinds DEF Serve, runtimeVars
  <2>7. CASE ServiceDies
    BY <2>7, DiesKinds, PlainByKinds DEF ServiceDies, runtimeVars
  <2>8. CASE UNCHANGED vars
    BY <2>8, PlainByKinds DEF vars, runtimeVars
  <2> QED
    BY <2>1, <2>2, <2>3, <2>4, <2>5, <2>6, <2>7, <2>8 DEF Next
<1> QED
  BY <1>1, <1>2, TypeCorrect, NeverStuckBusy, PTL DEF Spec

(* With neither password dialogs nor save-and-restart nor quitting, the UI   *)
(* has at most one start or stop in flight, and a start is pending only      *)
(* while a stop is.                                                         *)
THEOREM OneCall ==
  ASSUME PlainSession
  PROVE  Spec => [](OneCallAtATime /\ PendingWhileStopping)
<1>1. PlainInv => OneCallAtATime /\ PendingWhileStopping
  BY DEF PlainInv
<1>2. Spec => []PlainInv
  BY PlainAlways
<1> QED
  BY <1>1, <1>2, PTL

-----------------------------------------------------------------------------
(* What the UI shows follows what the service does.                         *)

(* What the session is built for.                                           *)
ServedSession ==
  PlainSession /\ Features \cap {"stopFails", "callTimeout", "serviceDies"} = {}

-----------------------------------------------------------------------------
(* The invariant.                                                           *)

(* The requests in the channel that start or stop, and the start among them  *)
(* whose caller still waits; the others were given up, or stop.             *)
Controls == {i \in DOMAIN channel : channel[i].op # "stats"}
Awaited(i) == channel[i].op = "start" /\ channel[i].from # NoSlot
Others == {i \in Controls : ~Awaited(i)}

(* Every task is at a step of its kind.                                     *)
StepsOfKinds ==
  \A t \in Slots :
    /\ task[t].kind = "none" => task[t].step = "none"
    /\ task[t].kind = "start" => task[t].step \in {"prepare", "send", "call", "cleanup", "answered"}
    /\ task[t].kind = "stop" => task[t].step \in {"send", "call", "answered"}
    /\ task[t].kind = "poll" => task[t].step \in {"wait", "send", "call", "answered"}

(* The request of a caller is the call it waits for, ...                     *)
Waits(k, op, c) ==
  \/ op = "stats" /\ k.kind = "poll" /\ k.step = "call"
  \/ op = "start" /\ k.kind = "start" /\ k.step = "call" /\ c = k.config
  \/ op = "stop" /\ k.kind = "start" /\ k.step = "cleanup"
  \/ op = "stop" /\ k.kind = "stop" /\ k.step = "call"
RequestsAwaited ==
  \A i \in DOMAIN channel : channel[i].from # NoSlot =>
    Waits(task[channel[i].from], channel[i].op, channel[i].config)
(* ... and it has one.                                                      *)
OneRequest ==
  \A i, j \in DOMAIN channel :
    channel[i].from # NoSlot /\ channel[i].from = channel[j].from => i = j

(* What is started, pending or shown is a configuration.                     *)
RealConfigs ==
  /\ \A t \in Slots : task[t].kind = "start" => task[t].config # NoConfig
  /\ pending # NoPending => pending.config # NoConfig
  /\ running => runningId # NoConfig

(* How a call ends: with nothing of the past left in the channel.            *)
Stopped(t) == task[t].kind = "stop" /\ task[t].step = "answered"
Started(t) == task[t].kind = "start" /\ task[t].step = "answered" /\ task[t].result = "ok"
CallsEndTrue ==
  \A t \in Slots :
    /\ task[t].kind = "stop" => running
    /\ Stopped(t) => task[t].result = "ok" /\ Controls = {} /\ tunnel = NoConfig
    /\ Started(t) => Controls = {} /\ tunnel = task[t].config

(* What is shown runs until its stop is answered, and only that stop is in   *)
(* the channel.                                                             *)
ShownRuns ==
  running =>
    /\ \A i \in Controls : channel[i].op = "stop" /\ channel[i].from # NoSlot
    /\ (\A t \in Slots : ~Stopped(t)) => tunnel = runningId

(* While nothing is shown, a start that was given up has its stop behind it: *)
(* once all of them are served, nothing runs.                               *)
Cleared ==
  \/ Others = {} /\ tunnel = NoConfig
  \/ \E m \in Others : channel[m].op = "stop" /\ \A i \in Others : i <= m
AwaitedLast == \A i \in Controls : Awaited(i) => \A j \in Controls : j <= i
HiddenEnds == ~running /\ (\A t \in Slots : ~Started(t)) => Cleared /\ AwaitedLast

(* One loop polls what is shown, and its samples are of that.               *)
Looping(t) == task[t].kind = "poll" /\ task[t].current
LoopsTrue ==
  \A t \in Slots : Looping(t) =>
    /\ running /\ \A s \in Slots : task[s].kind # "stop"
    /\ task[t].step = "answered" => task[t].result = "ok" /\ task[t].sample = runningId
OneLoop ==
  running /\ (\A s \in Slots : task[s].kind # "stop") =>
    \E t \in Slots : \A s \in Slots : Looping(s) <=> s = t

UiInv == StepsOfKinds /\ RealConfigs /\ LoopsTrue /\ OneLoop
ServiceInv ==
  RequestsAwaited /\ OneRequest /\ CallsEndTrue /\ ShownRuns /\ HiddenEnds
FollowInv == UiInv /\ ServiceInv

-----------------------------------------------------------------------------
(* Tasks and requests.                                                      *)

LEMMA FieldsOfTasks ==
  /\ StopTask.kind = "stop" /\ StopTask.step = "send"
  /\ PollTask.kind = "poll" /\ PollTask.step = "wait" /\ PollTask.current
  /\ \A c : /\ StartTask(c).kind = "start" /\ StartTask(c).step = "prepare"
            /\ StartTask(c).config = c
  /\ Idle.kind = "none" /\ Idle.step = "none"
BY DEF Idle, StopTask, PollTask, StartTask

(* A task that moves on keeps what it is.                                   *)
LEMMA FieldsKept ==
  ASSUME TypeOK, NEW t \in Slots
  PROVE  /\ \A s : /\ [task[t] EXCEPT !.step = s].kind = task[t].kind
                   /\ [task[t] EXCEPT !.step = s].step = s
                   /\ [task[t] EXCEPT !.step = s].config = task[t].config
                   /\ [task[t] EXCEPT !.step = s].current = task[t].current
         /\ \A r : /\ Answered(t, r).kind = task[t].kind
                   /\ Answered(t, r).step = "answered"
                   /\ Answered(t, r).result = r
                   /\ Answered(t, r).config = task[t].config
                   /\ Answered(t, r).current = task[t].current
         /\ \A r, c : /\ [Answered(t, r) EXCEPT !.sample = c].kind = task[t].kind
                      /\ [Answered(t, r) EXCEPT !.sample = c].step = "answered"
                      /\ [Answered(t, r) EXCEPT !.sample = c].result = r
                      /\ [Answered(t, r) EXCEPT !.sample = c].config = task[t].config
                      /\ [Answered(t, r) EXCEPT !.sample = c].current = task[t].current
                      /\ [Answered(t, r) EXCEPT !.sample = c].sample = c
BY DEF TypeOK, TaskTypes, Answered

LEMMA OutdateKept ==
  ASSUME TypeOK, NEW t \in Slots
  PROVE  /\ Outdate(task)[t].kind = task[t].kind /\ Outdate(task)[t].step = task[t].step
         /\ Outdate(task)[t].config = task[t].config
         /\ Outdate(task)[t].result = task[t].result
         /\ Outdate(task)[t].current = FALSE
BY DEF TypeOK, TaskTypes, Outdate

(* What each change of the channel leaves there.                            *)
LEMMA ChannelKept ==
  ASSUME TypeOK
  PROVE  /\ Len(channel) \in Nat /\ DOMAIN channel = 1..Len(channel)
         /\ \A i \in 1..Len(channel) : channel[i] \in Requests
         /\ channel # <<>> =>
              /\ Head(channel) = channel[1] /\ 1 \in DOMAIN channel
              /\ DOMAIN Tail(channel) = 1..(Len(channel) - 1)
              /\ \A i \in DOMAIN Tail(channel) :
                   i + 1 \in DOMAIN channel /\ Tail(channel)[i] = channel[i + 1]
<1>1. channel \in Seq(Requests)
  BY DEF TypeOK, Requests
<1> QED
  BY <1>1, HeadTailProperties
LEMMA AbandonKept ==
  ASSUME TypeOK, NEW t \in Slots
  PROVE  /\ DOMAIN Abandon(t) = DOMAIN channel
         /\ \A i \in DOMAIN channel :
              /\ Abandon(t)[i].op = channel[i].op /\ Abandon(t)[i].config = channel[i].config
              /\ Abandon(t)[i].from = IF channel[i].from = t THEN NoSlot ELSE channel[i].from
BY ChannelKept DEF Abandon, Requests
LEMMA AppendKept ==
  ASSUME NEW q \in Seq(Requests), NEW r \in Requests
  PROVE  /\ DOMAIN Append(q, r) = DOMAIN q \cup {Len(q) + 1}
         /\ DOMAIN q = 1..Len(q) /\ Len(q) \in Nat
         /\ \A i \in DOMAIN q : Append(q, r)[i] = q[i]
         /\ Append(q, r)[Len(q) + 1] = r
BY AppendProperties

-----------------------------------------------------------------------------
(* Steps of the UI thread.  The service is as it was.                       *)

(* A slot that no call uses, when nothing is shown otherwise.                *)
LEMMA FollowByFree ==
  ASSUME TypeOK, FollowInv, UNCHANGED <<running, runningId, serviceVars>>,
         NEW t \in Slots, Put(t, Idle), task[t].kind = "none",
         pending' # NoPending => pending'.config # NoConfig
  PROVE  FollowInv'
<1>1. \A s \in Slots :
        \/ task'[s] = task[s]
        \/ s = t /\ task'[s].kind = "none" /\ task'[s].step = "none"
  BY FieldsOfTasks DEF Put, TypeOK
<1>2. UiInv'
  BY <1>1 DEF FollowInv, UiInv, StepsOfKinds, RealConfigs, LoopsTrue, OneLoop, Looping
<1>3. RequestsAwaited' /\ OneRequest'
  BY <1>1, ChannelKept DEF FollowInv, ServiceInv, RequestsAwaited, OneRequest, Waits,
     serviceVars, Requests
<1>4. CallsEndTrue' /\ ShownRuns' /\ HiddenEnds'
  BY <1>1 DEF FollowInv, ServiceInv, CallsEndTrue, ShownRuns, HiddenEnds, Stopped,
     Started, Controls, Others, Awaited, Cleared, AwaitedLast, serviceVars
<1> QED
  BY <1>2, <1>3, <1>4 DEF FollowInv, ServiceInv

(* A start begins when nothing is shown.                                    *)
LEMMA FollowByStart ==
  ASSUME TypeOK, FollowInv, PlainInv, UNCHANGED <<running, runningId, pending, serviceVars>>,
         NEW t \in Slots, NEW c, Put(t, StartTask(c)),
         task[t].kind = "none", ~running, c # NoConfig
  PROVE  FollowInv'
<1>1. \A s \in Slots : \/ s # t /\ task'[s] = task[s]
                       \/ /\ s = t /\ task'[s].kind = "start" /\ task'[s].step = "prepare"
                          /\ task'[s].config = c
  BY FieldsOfTasks DEF Put, TypeOK
<1>2. UiInv'
  BY <1>1 DEF FollowInv, UiInv, StepsOfKinds, RealConfigs, LoopsTrue, OneLoop, Looping
<1>3. RequestsAwaited' /\ OneRequest'
  BY <1>1, ChannelKept DEF FollowInv, ServiceInv, RequestsAwaited, OneRequest, Waits,
     serviceVars, Requests
<1>4. CallsEndTrue' /\ ShownRuns' /\ HiddenEnds'
  BY <1>1 DEF FollowInv, ServiceInv, CallsEndTrue, ShownRuns, HiddenEnds, Stopped,
     Started, Controls, Others, Awaited, Cleared, AwaitedLast, serviceVars
<1> QED
  BY <1>2, <1>3, <1>4 DEF FollowInv, ServiceInv

(* A stop begins while something is shown, and its loop is outdated.         *)
LEMMA FollowByStop ==
  ASSUME TypeOK, FollowInv, PlainInv, UNCHANGED <<running, runningId, pending, serviceVars>>,
         NEW t \in Slots, task' = [Outdate(task) EXCEPT ![t] = StopTask],
         task[t].kind = "none", running, ~busy
  PROVE  FollowInv'
<1>1. \A s \in Slots : \/ s # t /\ task'[s] = Outdate(task)[s]
                       \/ s = t /\ task'[s].kind = "stop" /\ task'[s].step = "send"
  BY FieldsOfTasks DEF Outdate
<1>2. \A s \in Slots \ {t} :
        /\ task'[s].kind = task[s].kind /\ task'[s].step = task[s].step
        /\ task'[s].config = task[s].config /\ task'[s].current = FALSE
        /\ task'[s].result = task[s].result
  BY <1>1, OutdateKept
<1>3. \A s \in Slots : task[s].kind \notin {"start", "stop"}
  BY DEF PlainInv, CallsAreBusy
<1>4. UiInv'
  BY <1>1, <1>2 DEF FollowInv, UiInv, StepsOfKinds, RealConfigs, LoopsTrue, OneLoop,
     Looping
<1>5. RequestsAwaited' /\ OneRequest'
  BY <1>1, <1>2, ChannelKept DEF FollowInv, ServiceInv, RequestsAwaited, OneRequest,
     Waits, serviceVars, Requests
<1>6. CallsEndTrue' /\ ShownRuns' /\ HiddenEnds'
  BY <1>1, <1>2, <1>3 DEF FollowInv, ServiceInv, CallsEndTrue, ShownRuns, HiddenEnds,
     Stopped, Started, Controls, Others, Awaited, Cleared, AwaitedLast, serviceVars
<1> QED
  BY <1>4, <1>5, <1>6 DEF FollowInv, ServiceInv

(* Pressing the toggle.                                                     *)
LEMMA FollowToggle ==
  ASSUME TypeOK, FollowInv, PlainInv, NEW t \in Slots, task[t].kind = "none",
         NEW selected \in Selections, NEW window,
         StartStop(t, selected, pending, window), UNCHANGED serviceVars
  PROVE  FollowInv'
<1>0. required = FALSE /\ UNCHANGED <<running, runningId>> /\ Idle.kind = "none"
  BY FieldsOfTasks DEF PlainInv, PlainKinds, StartStop
<1>1. CASE busy
  <2>1. /\ Put(t, Idle)
        /\ \/ pending' = pending
           \/ /\ pending' = [config |-> Target(selected), authorized |-> FALSE]
              /\ Target(selected) # NoConfig
    BY <1>0, <1>1 DEF StartStop, QueueStart
  <2>2. pending' # NoPending => pending'.config # NoConfig
    BY <2>1 DEF FollowInv, UiInv, RealConfigs
  <2> QED
    BY <1>0, <2>1, <2>2, FollowByFree
<1>2. CASE ~busy /\ running
  BY <1>0, <1>2, FollowByStop DEF StartStop, StopRunning
<1>3. CASE ~busy /\ ~running
  <2>1. /\ pending' = pending
        /\ \/ Put(t, Idle)
           \/ selected # NoConfig /\ Put(t, StartTask(selected))
    BY <1>0, <1>3 DEF StartStop, StartSelected, StartConfig
  <2>2. pending' # NoPending => pending'.config # NoConfig
    BY <2>1 DEF FollowInv, UiInv, RealConfigs
  <2> QED
    BY <1>0, <1>3, <2>1, <2>2, FollowByFree, FollowByStart
<1> QED
  BY <1>1, <1>2, <1>3

(* A call or a loop that is not waiting for an answer moves on.               *)
LEMMA FollowPrepared ==
  ASSUME TypeOK, FollowInv, NEW t \in Slots, Prepared(t)
  PROVE  FollowInv'
<1>1. /\ task[t].kind = "start" /\ task[t].step = "prepare"
      /\ UNCHANGED <<running, runningId, pending, serviceVars>>
  BY DEF Prepared
<1>2. \A s \in Slots :
        \/ task'[s] = task[s] /\ s # t
        \/ /\ s = t
           /\ \/ task'[s].kind = "none" /\ task'[s].step = "none"
              \/ /\ task'[s].kind = "start" /\ task'[s].step = "send"
                 /\ task'[s].config = task[s].config
  <2>1. Idle.kind = "none" /\ Idle.step = "none"
    BY FieldsOfTasks
  <2>2. /\ [task[t] EXCEPT !.step = "send"].kind = "start"
        /\ [task[t] EXCEPT !.step = "send"].step = "send"
        /\ [task[t] EXCEPT !.step = "send"].config = task[t].config
    BY <1>1, FieldsKept
  <2>3. CASE Put(t, Idle)
    BY <2>1, <2>3 DEF Put, TypeOK
  <2>4. CASE Put(t, [task[t] EXCEPT !.step = "send"])
    BY <2>2, <2>4 DEF Put, TypeOK
  <2> QED
    BY <2>3, <2>4 DEF Prepared
<1>4. UiInv'
  BY <1>1, <1>2 DEF FollowInv, UiInv, StepsOfKinds, RealConfigs, LoopsTrue, OneLoop,
     Looping
<1>5. RequestsAwaited' /\ OneRequest'
  BY <1>1, <1>2, ChannelKept DEF FollowInv, ServiceInv, RequestsAwaited, OneRequest,
     Waits, serviceVars, Requests
<1>6. CallsEndTrue' /\ ShownRuns' /\ HiddenEnds'
  BY <1>1, <1>2 DEF FollowInv, ServiceInv, CallsEndTrue, ShownRuns, HiddenEnds, Stopped,
     Started, Controls, Others, Awaited, Cleared, AwaitedLast, serviceVars
<1> QED
  BY <1>4, <1>5, <1>6 DEF FollowInv, ServiceInv

LEMMA FollowPoll ==
  ASSUME TypeOK, FollowInv, NEW t \in Slots, PollAsks(t) \/ PollDone(t)
  PROVE  FollowInv'
<1>1. /\ task[t].kind = "poll" /\ task[t].step \in {"wait", "answered"}
      /\ UNCHANGED <<running, runningId, pending, serviceVars>>
  BY DEF PollAsks, PollDone, Done, runtimeVars
<1>2. \A s \in Slots :
        \/ task'[s] = task[s] /\ s # t
        \/ /\ s = t
           /\ \/ /\ task'[s].kind = "none" /\ task'[s].step = "none"
                 /\ ~LoopGoesOn(t)
              \/ /\ task'[s].kind = "poll" /\ task'[s].step \in {"wait", "send"}
                 /\ LoopGoesOn(t) /\ task'[s].current
  <2>1. LoopGoesOn(t) => task[t].current = TRUE
    BY DEF LoopGoesOn, TypeOK, TaskTypes
  <2>2. /\ [task[t] EXCEPT !.step = "send"].kind = "poll"
        /\ [task[t] EXCEPT !.step = "send"].step = "send"
        /\ [task[t] EXCEPT !.step = "send"].current = task[t].current
    BY <1>1, FieldsKept
  <2>3. CASE Put(t, Idle) /\ ~LoopGoesOn(t)
    BY <2>3, FieldsOfTasks DEF Put, TypeOK
  <2>4. CASE Put(t, PollTask) /\ LoopGoesOn(t)
    BY <2>4, FieldsOfTasks DEF Put, TypeOK
  <2>5. CASE Put(t, [task[t] EXCEPT !.step = "send"]) /\ LoopGoesOn(t)
    BY <2>1, <2>2, <2>5 DEF Put, TypeOK
  <2> QED
    BY <2>3, <2>4, <2>5 DEF PollAsks, PollDone
<1>3. \A s \in Slots : Looping(s)' <=> Looping(s)
  <2>1. Looping(t) => running
    BY DEF FollowInv, UiInv, LoopsTrue
  <2> QED
    BY <1>1, <1>2, <2>1 DEF Looping, LoopGoesOn
<1>4. UiInv'
  <2>1. StepsOfKinds' /\ RealConfigs'
    BY <1>1, <1>2 DEF FollowInv, UiInv, StepsOfKinds, RealConfigs
  <2>2. \A s \in Slots : task'[s].kind = "stop" <=> task[s].kind = "stop"
    BY <1>1, <1>2
  <2>3. OneLoop'
    BY <1>1, <1>3, <2>2 DEF FollowInv, UiInv, OneLoop
  <2>4. LoopsTrue'
    <3>1. ASSUME NEW s \in Slots, Looping(s)'
          PROVE  /\ running' /\ \A u \in Slots : task'[u].kind # "stop"
                 /\ task'[s].step = "answered" =>
                      task'[s].result = "ok" /\ task'[s].sample = runningId'
      <4>1. Looping(s)
        BY <1>3, <3>1
      <4>2. running /\ \A u \in Slots : task[u].kind # "stop"
        BY <4>1 DEF FollowInv, UiInv, LoopsTrue
      <4>3. task[s].step = "answered" => task[s].result = "ok" /\ task[s].sample = runningId
        BY <4>1 DEF FollowInv, UiInv, LoopsTrue
      <4> QED
        BY <1>1, <1>2, <2>2, <3>1, <4>2, <4>3 DEF Looping
    <3> QED
      BY <3>1 DEF LoopsTrue
  <2> QED
    BY <2>1, <2>3, <2>4 DEF UiInv
<1>5. RequestsAwaited' /\ OneRequest'
  BY <1>1, <1>2, ChannelKept DEF FollowInv, ServiceInv, RequestsAwaited, OneRequest,
     Waits, serviceVars, Requests
<1>6. CallsEndTrue' /\ ShownRuns' /\ HiddenEnds'
  BY <1>1, <1>2 DEF FollowInv, ServiceInv, CallsEndTrue, ShownRuns, HiddenEnds, Stopped,
     Started, Controls, Others, Awaited, Cleared, AwaitedLast, serviceVars
<1> QED
  BY <1>4, <1>5, <1>6 DEF FollowInv, ServiceInv

(* A start ends: what it started is shown, and polled by a new loop.         *)
LEMMA FollowStartDone ==
  ASSUME TypeOK, FollowInv, PlainInv, NEW t \in Slots, StartDone(t)
  PROVE  FollowInv'
<1>0. /\ task[t].kind = "start" /\ task[t].step = "answered" /\ ~running
      /\ UNCHANGED <<pending, serviceVars>>
      /\ \A s \in Slots \ {t} : task[s].kind \notin {"start", "stop"}
  BY DEF StartDone, Done, PlainInv, StartsWhenStopped, OneCallAtATime, TasksOf
<1>1. CASE task[t].result = "ok"
  <2>1. running' = TRUE /\ runningId' = task[t].config
    BY <1>1 DEF StartDone
  <2>2. /\ \A s \in Slots \ {t} :
             /\ task'[s].kind = task[s].kind /\ task'[s].step = task[s].step
             /\ task'[s].config = task[s].config /\ task'[s].current = FALSE
             /\ task'[s].result = task[s].result
        /\ task'[t].kind = "poll" /\ task'[t].step = "wait" /\ task'[t].current
    <3>1. task' = [Outdate(task) EXCEPT ![t] = PollTask]
      BY <1>1 DEF StartDone
    <3>2. task'[t] = PollTask /\ \A s \in Slots \ {t} : task'[s] = Outdate(task)[s]
      BY <3>1 DEF Outdate
    <3>3. ASSUME NEW s \in Slots \ {t}
          PROVE  /\ task'[s].kind = task[s].kind /\ task'[s].step = task[s].step
                 /\ task'[s].config = task[s].config /\ task'[s].current = FALSE
                 /\ task'[s].result = task[s].result
      BY <3>2, OutdateKept
    <3>4. task'[t].kind = "poll" /\ task'[t].step = "wait" /\ task'[t].current
      BY <3>2, FieldsOfTasks
    <3> QED
      BY <3>3, <3>4
  <2>3. Controls = {} /\ tunnel = task[t].config
    BY <1>0, <1>1 DEF FollowInv, ServiceInv, CallsEndTrue, Started
  <2>4. StepsOfKinds' /\ RealConfigs'
    BY <1>0, <2>1, <2>2 DEF FollowInv, UiInv, StepsOfKinds, RealConfigs
  <2>5. LoopsTrue' /\ OneLoop'
    BY <1>0, <2>1, <2>2 DEF LoopsTrue, OneLoop, Looping
  <2>6. RequestsAwaited' /\ OneRequest'
    BY <1>0, <2>2, ChannelKept DEF FollowInv, ServiceInv, RequestsAwaited, OneRequest,
       Waits, serviceVars, Requests
  <2>7. CallsEndTrue' /\ ShownRuns' /\ HiddenEnds'
    BY <1>0, <2>1, <2>2, <2>3 DEF FollowInv, ServiceInv, CallsEndTrue, ShownRuns,
       HiddenEnds, Stopped, Started, Controls, serviceVars
  <2> QED
    BY <2>4, <2>5, <2>6, <2>7 DEF FollowInv, ServiceInv, UiInv
<1>2. CASE task[t].result # "ok"
  <2>1. UNCHANGED <<running, runningId>>
    BY <1>2 DEF StartDone
  <2>2. \A s \in Slots :
          \/ task'[s] = task[s] /\ s # t
          \/ s = t /\ task'[s].kind = "none" /\ task'[s].step = "none"
    BY <1>2, FieldsOfTasks DEF StartDone, Put, TypeOK
  <2>3. UiInv'
    BY <1>0, <2>1, <2>2 DEF FollowInv, UiInv, StepsOfKinds, RealConfigs, LoopsTrue,
       OneLoop, Looping
  <2>4. RequestsAwaited' /\ OneRequest'
    BY <1>0, <2>2, ChannelKept DEF FollowInv, ServiceInv, RequestsAwaited, OneRequest,
       Waits, serviceVars, Requests
  <2>5. CallsEndTrue' /\ ShownRuns' /\ HiddenEnds'
    BY <1>0, <1>2, <2>1, <2>2 DEF FollowInv, ServiceInv, CallsEndTrue, ShownRuns,
       HiddenEnds, Stopped, Started, Controls, Others, Awaited, Cleared, AwaitedLast,
       serviceVars
  <2> QED
    BY <2>3, <2>4, <2>5 DEF FollowInv, ServiceInv
<1> QED
  BY <1>1, <1>2

(* A stop ends: nothing is shown, and what was pending is started.           *)
LEMMA FollowStopDone ==
  ASSUME TypeOK, FollowInv, PlainInv, NEW t \in Slots, StopDone(t)
  PROVE  FollowInv'
<1>0. /\ task[t].kind = "stop" /\ task[t].step = "answered" /\ pending' = NoPending
      /\ UNCHANGED serviceVars
      /\ \A s \in Slots \ {t} : task[s].kind \notin {"start", "stop"}
  BY DEF StopDone, Done, PlainInv, OneCallAtATime, TasksOf
<1>1. running /\ task[t].result = "ok" /\ Controls = {} /\ tunnel = NoConfig
  BY <1>0 DEF FollowInv, ServiceInv, CallsEndTrue, Stopped
<1>2. running' = FALSE
  BY <1>1 DEF StopDone
<1>3. \/ Put(t, Idle)
      \/ pending # NoPending /\ Put(t, StartTask(pending.config))
  BY <1>1 DEF StopDone
<1>4. \A s \in Slots :
        \/ task'[s] = task[s] /\ s # t
        \/ /\ s = t
           /\ \/ task'[s].kind = "none" /\ task'[s].step = "none"
              \/ /\ task'[s].kind = "start" /\ task'[s].step = "prepare"
                 /\ task'[s].config # NoConfig
  BY <1>3, FieldsOfTasks DEF Put, TypeOK, FollowInv, UiInv, RealConfigs
<1>5. UiInv'
  BY <1>0, <1>2, <1>4 DEF FollowInv, UiInv, StepsOfKinds, RealConfigs, LoopsTrue, OneLoop,
     Looping
<1>6. RequestsAwaited' /\ OneRequest'
  BY <1>0, <1>4, ChannelKept DEF FollowInv, ServiceInv, RequestsAwaited, OneRequest,
     Waits, serviceVars, Requests
<1>7. CallsEndTrue' /\ ShownRuns' /\ HiddenEnds'
  BY <1>0, <1>1, <1>2, <1>4 DEF FollowInv, ServiceInv, CallsEndTrue, ShownRuns,
     HiddenEnds, Stopped, Started, Controls, Others, Awaited, Cleared, AwaitedLast,
     serviceVars
<1> QED
  BY <1>5, <1>6, <1>7 DEF FollowInv, ServiceInv

-----------------------------------------------------------------------------
(* Calls to the service.                                                    *)

(* Only a start or a stop that is in flight waits for a start or a stop, and *)
(* there is one.                                                            *)
LEMMA ControlsOfOne ==
  ASSUME TypeOK, FollowInv, PlainInv, NEW i \in Controls, channel[i].from # NoSlot
  PROVE  LET t == channel[i].from
         IN /\ t \in Slots /\ task[t].kind \in {"start", "stop"}
            /\ task[t].step \in {"call", "cleanup"}
            /\ \A s \in Slots : task[s].kind \in {"start", "stop"} => s = t
            /\ \A j \in Controls : channel[j].from # NoSlot => j = i
<1>1. \A j \in Controls : channel[j].from # NoSlot =>
        /\ channel[j].from \in Slots
        /\ Waits(task[channel[j].from], channel[j].op, channel[j].config)
  BY ChannelKept DEF Controls, Requests, FollowInv, ServiceInv, RequestsAwaited
<1>2. \A j \in Controls : channel[j].from # NoSlot =>
        /\ channel[j].from \in Slots
        /\ task[channel[j].from].kind \in {"start", "stop"}
        /\ task[channel[j].from].step \in {"call", "cleanup"}
  BY <1>1 DEF Waits, Controls
<1>3. \A s, u \in Slots : task[s].kind \in {"start", "stop"} /\ task[u].kind \in {"start", "stop"}
                          => s = u
  BY DEF PlainInv, OneCallAtATime, TasksOf
<1>4. \A j \in Controls : channel[j].from # NoSlot => j = i
  BY <1>2, <1>3 DEF FollowInv, ServiceInv, OneRequest, Controls
<1> QED
  BY <1>2, <1>3, <1>4

(* A call is put into the channel.                                          *)
LEMMA FollowSend ==
  ASSUME TypeOK, FollowInv, PlainInv, NEW t \in Slots, Send(t)
  PROVE  FollowInv'
<1> DEFINE r == Request(Op(task[t].kind), task[t].config, t)
           n == Len(channel) + 1
<1>0. /\ task[t].step = "send" /\ UNCHANGED <<running, runningId, pending, tunnel>>
      /\ task[t].kind \in {"start", "stop", "poll"} /\ t # NoSlot
  BY SlotsAssumption DEF Send, runtimeVars, FollowInv, UiInv, StepsOfKinds, PlainInv,
     PlainKinds
<1>1. /\ DOMAIN channel = 1..Len(channel) /\ Len(channel) \in Nat
      /\ DOMAIN channel' = DOMAIN channel \cup {n} /\ n \in Nat
      /\ \A i \in DOMAIN channel : channel'[i] = channel[i] /\ i < n
      /\ channel'[n].from = t /\ channel'[n].config = task[t].config
      /\ channel'[n].op = Op(task[t].kind)
  <2>1. r \in Requests /\ channel \in Seq(Requests)
    BY <1>0 DEF Request, Op, Requests, TypeOK, TaskTypes
  <2>2. channel' = Append(channel, r)
    BY DEF Send
  <2>3. r.from = t /\ r.config = task[t].config /\ r.op = Op(task[t].kind)
    BY DEF Request
  <2> QED
    BY <2>1, <2>2, <2>3, AppendKept
<1>2. \A s \in Slots :
        \/ task'[s] = task[s] /\ s # t
        \/ /\ s = t /\ task'[s].kind = task[s].kind /\ task'[s].config = task[s].config
           /\ task'[s].current = task[s].current /\ task'[s].step = "call"
  <2>1. /\ [task[t] EXCEPT !.step = "call"].kind = task[t].kind
        /\ [task[t] EXCEPT !.step = "call"].step = "call"
        /\ [task[t] EXCEPT !.step = "call"].config = task[t].config
        /\ [task[t] EXCEPT !.step = "call"].current = task[t].current
    BY FieldsKept
  <2>2. Put(t, [task[t] EXCEPT !.step = "call"])
    BY DEF Send
  <2> QED
    BY <2>1, <2>2 DEF Put, TypeOK
<1>3. \A i \in DOMAIN channel : channel[i].from # t
  <2>1. \A i \in DOMAIN channel : channel[i].from = t =>
          Waits(task[t], channel[i].op, channel[i].config)
    BY <1>0 DEF FollowInv, ServiceInv, RequestsAwaited
  <2> QED
    BY <1>0, <2>1 DEF Waits
<1> HIDE DEF n
<1>4. UiInv'
  BY <1>0, <1>2 DEF FollowInv, UiInv, StepsOfKinds, RealConfigs, LoopsTrue, OneLoop,
     Looping
<1>5. RequestsAwaited'
  <2>1. Waits(task[t], Op(task[t].kind), task[t].config)'
    BY <1>0, <1>2 DEF Waits, Op
  <2> QED
    BY <1>0, <1>1, <1>2, <1>3, <2>1, ChannelKept DEF FollowInv, ServiceInv,
       RequestsAwaited, Waits, Requests, Op
<1>6. OneRequest'
  BY <1>1, <1>3 DEF FollowInv, ServiceInv, OneRequest
<1>7. CASE task[t].kind = "poll"
  <2>1. Controls' = Controls /\ Others' = Others
    BY <1>1, <1>7 DEF Op, Controls, Others, Awaited
  <2>2. \A i \in Controls : channel'[i] = channel[i]
    BY <1>1 DEF Controls
  <2>3. \A s \in Slots : /\ Stopped(s)' <=> Stopped(s)
                         /\ Started(s)' <=> Started(s)
    BY <1>2, <1>7 DEF Stopped, Started
  <2>4. CallsEndTrue'
    BY <1>0, <1>2, <2>1, <2>3, <1>7 DEF FollowInv, ServiceInv, CallsEndTrue, Stopped,
       Started
  <2>5. ShownRuns'
    BY <1>0, <2>1, <2>2, <2>3 DEF FollowInv, ServiceInv, ShownRuns
  <2>6. HiddenEnds'
    BY <1>0, <2>1, <2>2, <2>3 DEF FollowInv, ServiceInv, HiddenEnds, Cleared, AwaitedLast,
       Awaited, Others
  <2> QED
    BY <1>4, <1>5, <1>6, <2>4, <2>5, <2>6 DEF FollowInv, ServiceInv
<1>8. CASE task[t].kind \in {"start", "stop"}
  <2>1. \A i \in Controls : channel[i].from = NoSlot
    BY <1>0, <1>8, ControlsOfOne
  <2>2. \A s \in Slots : ~Stopped(s) /\ ~Started(s) /\ ~Stopped(s)' /\ ~Started(s)'
    BY <1>0, <1>2, <1>8 DEF Stopped, Started, PlainInv, OneCallAtATime, TasksOf
  <2>3. CallsEndTrue'
    BY <1>0, <1>2, <2>2 DEF FollowInv, ServiceInv, CallsEndTrue
  <2>4. Controls' = Controls \cup {n} /\ \A i \in Controls : channel'[i] = channel[i] /\ i < n
    BY <1>1, <1>8 DEF Op, Controls
  <2>5. CASE task[t].kind = "start"
    <3>1. ~running
      BY <2>5 DEF PlainInv, StartsWhenStopped
    <3>2. Others' = Others
      <4>1. channel'[n].op = "start" /\ channel'[n].from # NoSlot
        BY <1>0, <1>1, <2>5 DEF Op
      <4>2. \A i \in Controls : Awaited(i)' <=> Awaited(i)
        BY <2>4 DEF Awaited
      <4>3. n \notin Controls
        BY <1>1, <2>4 DEF Controls
      <4> QED
        BY <2>4, <4>1, <4>2, <4>3 DEF Others, Awaited
    <3>3. \A i \in Controls : ~Awaited(i)'
      BY <2>1, <2>4 DEF Awaited
    <3>4. Cleared'
      BY <1>0, <2>2, <2>4, <3>1, <3>2 DEF FollowInv, ServiceInv, HiddenEnds, Cleared,
         Others
    <3>5. AwaitedLast'
      BY <1>1, <2>4, <3>3 DEF AwaitedLast, Controls
    <3> QED
      BY <1>0, <1>4, <1>5, <1>6, <2>3, <3>1, <3>4, <3>5 DEF FollowInv, ServiceInv,
         ShownRuns, HiddenEnds
  <2>6. CASE task[t].kind = "stop"
    <3>1. running
      BY <2>6 DEF FollowInv, ServiceInv, CallsEndTrue
    <3>2. Controls = {} /\ tunnel = runningId
      BY <2>1, <2>2, <3>1 DEF FollowInv, ServiceInv, ShownRuns
    <3>3. Controls' = {n} /\ channel'[n].op = "stop" /\ channel'[n].from # NoSlot
      BY <1>0, <1>1, <2>4, <2>6, <3>2 DEF Op
    <3> QED
      BY <1>0, <1>4, <1>5, <1>6, <2>3, <3>1, <3>2, <3>3 DEF FollowInv, ServiceInv,
         ShownRuns, HiddenEnds
  <2> QED
    BY <1>8, <2>5, <2>6
<1> QED
  BY <1>0, <1>7, <1>8

(* A start is given up, and a stop is sent behind it.                        *)
LEMMA FollowStartTimeout ==
  ASSUME TypeOK, FollowInv, PlainInv, NEW t \in Slots, StartTimeout(t)
  PROVE  FollowInv'
<1> DEFINE r == Request("stop", NoConfig, t)
           n == Len(channel) + 1
<1>0. /\ task[t].kind = "start" /\ task[t].step = "call" /\ t # NoSlot /\ ~running
      /\ UNCHANGED <<running, runningId, pending, tunnel>>
      /\ \A s \in Slots : task[s].kind \in {"start", "stop"} => s = t
  BY SlotsAssumption DEF StartTimeout, runtimeVars, PlainInv, StartsWhenStopped,
     OneCallAtATime, TasksOf
<1>1. /\ DOMAIN channel = 1..Len(channel) /\ Len(channel) \in Nat
      /\ DOMAIN channel' = DOMAIN channel \cup {n}
      /\ \A i \in DOMAIN channel :
           /\ i < n /\ channel'[i].op = channel[i].op /\ channel'[i].config = channel[i].config
           /\ channel'[i].from = IF channel[i].from = t THEN NoSlot ELSE channel[i].from
      /\ channel'[n].from = t /\ channel'[n].op = "stop"
  <2>1. r \in Requests /\ Abandon(t) \in Seq(Requests)
    BY ChannelTypes DEF Request, Requests, Selections
  <2>2. channel' = Append(Abandon(t), r)
    BY DEF StartTimeout
  <2>3. r.from = t /\ r.op = "stop"
    BY DEF Request
  <2>4. Len(Abandon(t)) = Len(channel)
    BY <2>1, AbandonKept, ChannelKept
  <2> QED
    BY <2>1, <2>2, <2>3, <2>4, AppendKept, AbandonKept, ChannelKept
<1>2. \A s \in Slots :
        \/ task'[s] = task[s] /\ s # t
        \/ /\ s = t /\ task'[s].kind = "start" /\ task'[s].config = task[s].config
           /\ task'[s].step = "cleanup"
  <2>1. /\ [task[t] EXCEPT !.step = "cleanup"].kind = "start"
        /\ [task[t] EXCEPT !.step = "cleanup"].step = "cleanup"
        /\ [task[t] EXCEPT !.step = "cleanup"].config = task[t].config
    BY <1>0, FieldsKept
  <2>2. Put(t, [task[t] EXCEPT !.step = "cleanup"])
    BY DEF StartTimeout
  <2> QED
    BY <2>1, <2>2 DEF Put, TypeOK
<1> HIDE DEF n
<1>3. UiInv'
  BY <1>0, <1>2 DEF FollowInv, UiInv, StepsOfKinds, RealConfigs, LoopsTrue, OneLoop,
     Looping
<1>4. RequestsAwaited' /\ OneRequest'
  <2>1. Waits(task[t]', "stop", channel'[n].config)
    BY <1>2 DEF Waits
  <2>2. \A i \in DOMAIN channel' : channel'[i].from # NoSlot =>
          \/ i = n
          \/ i \in DOMAIN channel /\ channel[i].from = channel'[i].from /\ channel[i].from # t
    BY <1>1
  <2>3. \A i \in DOMAIN channel : channel[i].from # NoSlot /\ channel[i].from # t =>
          /\ Waits(task[channel[i].from], channel[i].op, channel[i].config)
          /\ task'[channel[i].from] = task[channel[i].from]
    BY <1>2, ChannelKept DEF FollowInv, ServiceInv, RequestsAwaited, Requests
  <2>4. RequestsAwaited'
    BY <1>1, <2>1, <2>2, <2>3 DEF RequestsAwaited
  <2>5. OneRequest'
    BY <1>1, <2>2 DEF FollowInv, ServiceInv, OneRequest
  <2> QED
    BY <2>4, <2>5
<1>5. \A s \in Slots : ~Stopped(s)' /\ ~Started(s)'
  BY <1>0, <1>2 DEF Stopped, Started
<1>6. CallsEndTrue' /\ ShownRuns'
  BY <1>0, <1>2, <1>5 DEF CallsEndTrue, ShownRuns
<1>7. \A i \in Controls' : ~Awaited(i)'
  <2>1. \A i \in Controls : channel'[i].from = NoSlot
    BY <1>0, <1>1, ControlsOfOne DEF Controls
  <2> QED
    BY <1>1, <2>1 DEF Awaited, Controls
<1>8. Cleared' /\ AwaitedLast'
  <2>1. n \in Others'
    BY <1>1, <1>7 DEF Others, Controls, Awaited
  <2>2. ASSUME NEW i \in Others' PROVE i <= n
    <3>1. i \in DOMAIN channel'
      BY DEF Others, Controls
    <3> QED
      BY <1>1, <3>1 DEF n
  <2> QED
    BY <1>1, <1>7, <2>1, <2>2 DEF Cleared, AwaitedLast
<1> QED
  BY <1>0, <1>3, <1>4, <1>6, <1>8 DEF FollowInv, ServiceInv, HiddenEnds

(* The compensating stop is given up, too.                                  *)
LEMMA FollowCallTimeout ==
  ASSUME TypeOK, FollowInv, PlainInv, ServedSession, NEW t \in Slots, CallTimeout(t)
  PROVE  FollowInv'
<1>0. /\ task[t].kind = "start" /\ task[t].step = "cleanup" /\ t # NoSlot /\ ~running
      /\ UNCHANGED <<running, runningId, pending, tunnel>>
      /\ \A s \in Slots : task[s].kind \in {"start", "stop"} => s = t
  <2>1. task[t].step = "cleanup" /\ UNCHANGED <<running, runningId, pending, tunnel>>
    BY DEF CallTimeout, ServedSession, runtimeVars
  <2>2. task[t].kind = "start"
    BY <2>1 DEF FollowInv, UiInv, StepsOfKinds, PlainInv, PlainKinds
  <2> QED
    BY <2>1, <2>2, SlotsAssumption DEF PlainInv, StartsWhenStopped, OneCallAtATime,
       TasksOf
<1>1. /\ DOMAIN channel = 1..Len(channel) /\ Len(channel) \in Nat
      /\ DOMAIN channel' = DOMAIN channel
      /\ \A i \in DOMAIN channel :
           /\ channel'[i].op = channel[i].op /\ channel'[i].config = channel[i].config
           /\ channel'[i].from = IF channel[i].from = t THEN NoSlot ELSE channel[i].from
  BY AbandonKept, ChannelKept DEF CallTimeout
<1>2. \A s \in Slots :
        \/ task'[s] = task[s] /\ s # t
        \/ /\ s = t /\ task'[s].kind = "start" /\ task'[s].config = task[s].config
           /\ task'[s].step = "answered" /\ task'[s].result = "error"
  <2>1. /\ Answered(t, "error").kind = "start" /\ Answered(t, "error").step = "answered"
        /\ Answered(t, "error").config = task[t].config
        /\ Answered(t, "error").result = "error"
    BY <1>0, FieldsKept
  <2>2. Put(t, Answered(t, "error"))
    BY DEF CallTimeout
  <2> QED
    BY <2>1, <2>2 DEF Put, TypeOK
<1>3. UiInv'
  BY <1>0, <1>2 DEF FollowInv, UiInv, StepsOfKinds, RealConfigs, LoopsTrue, OneLoop,
     Looping
<1>4. RequestsAwaited' /\ OneRequest'
  <2>1. \A i \in DOMAIN channel' : channel'[i].from # NoSlot =>
          i \in DOMAIN channel /\ channel[i].from = channel'[i].from /\ channel[i].from # t
    BY <1>1
  <2>2. \A i \in DOMAIN channel : channel[i].from # NoSlot /\ channel[i].from # t =>
          /\ Waits(task[channel[i].from], channel[i].op, channel[i].config)
          /\ task'[channel[i].from] = task[channel[i].from]
    BY <1>2, ChannelKept DEF FollowInv, ServiceInv, RequestsAwaited, Requests
  <2>3. RequestsAwaited'
    BY <1>1, <2>1, <2>2 DEF RequestsAwaited
  <2>4. OneRequest'
    BY <1>1, <2>1 DEF FollowInv, ServiceInv, OneRequest
  <2> QED
    BY <2>3, <2>4
<1>5. \A s \in Slots : ~Stopped(s)' /\ ~Started(s)' /\ ~Started(s)
  BY <1>0, <1>2 DEF Stopped, Started
<1>6. CallsEndTrue' /\ ShownRuns'
  BY <1>0, <1>2, <1>5 DEF CallsEndTrue, ShownRuns
<1>7. Controls' = Controls /\ \A i \in Controls : Awaited(i)' <=> Awaited(i)
  <2>1. Controls' = Controls
    BY <1>1 DEF Controls
  <2>2. \A i \in Controls : channel[i].from = t => channel[i].op = "stop"
    BY <1>0, <1>1 DEF Controls, FollowInv, ServiceInv, RequestsAwaited, Waits
  <2>3. \A i \in Controls : Awaited(i)' <=> Awaited(i)
    BY <1>1, <2>2 DEF Controls, Awaited
  <2> QED
    BY <2>1, <2>3
<1>8. Cleared /\ AwaitedLast
  BY <1>0, <1>5 DEF FollowInv, ServiceInv, HiddenEnds
<1>9. Cleared' /\ AwaitedLast'
  <2>1. Others' = Others
    BY <1>7 DEF Others
  <2>2. \A i \in Others : channel'[i].op = channel[i].op
    BY <1>1 DEF Others, Controls
  <2> QED
    BY <1>0, <1>7, <1>8, <2>1, <2>2 DEF Cleared, AwaitedLast
<1> QED
  BY <1>0, <1>3, <1>4, <1>6, <1>9 DEF FollowInv, ServiceInv, HiddenEnds

-----------------------------------------------------------------------------
(* The service serves the oldest request.                                   *)

(* What it does, and what it answers.                                       *)
Serves(op, config, result, seen) ==
  \/ op = "start" /\ tunnel = NoConfig /\ tunnel' = config /\ result = "ok"
  \/ op = "start" /\ tunnel' = tunnel /\ result = "error"
  \/ op = "stop" /\ tunnel = NoConfig /\ tunnel' = NoConfig /\ result = "notRunning"
  \/ op = "stop" /\ tunnel # NoConfig /\ tunnel' = NoConfig /\ result = "ok"
  \/ /\ op = "stats" /\ tunnel' = tunnel /\ seen = tunnel
     /\ result = IF tunnel = NoConfig THEN "notRunning" ELSE "ok"

(* The rest of the channel moves up.                                        *)
LEMMA ServeMoves ==
  ASSUME TypeOK, Serve
  PROVE  /\ DOMAIN channel = 1..Len(channel) /\ Len(channel) \in Nat /\ 1 \in DOMAIN channel
         /\ \A i \in DOMAIN channel' : i + 1 \in DOMAIN channel /\ i \in Nat /\ i >= 1
                                       /\ channel'[i] = channel[i + 1]
         /\ \A i \in DOMAIN channel : i # 1 => i - 1 \in DOMAIN channel' /\ i - 1 + 1 = i
         /\ UNCHANGED <<busy, running, runningId, pending>>
<1>1. channel # <<>> /\ channel' = Tail(channel) /\ UNCHANGED <<busy, running, runningId, pending>>
  BY DEF Serve, runtimeVars
<1>2. /\ DOMAIN channel = 1..Len(channel) /\ Len(channel) \in Nat /\ 1 \in DOMAIN channel
      /\ DOMAIN Tail(channel) = 1..(Len(channel) - 1)
      /\ \A i \in DOMAIN Tail(channel) :
           i + 1 \in DOMAIN channel /\ Tail(channel)[i] = channel[i + 1]
  BY <1>1, ChannelKept
<1>3. \A i \in DOMAIN channel' : i + 1 \in DOMAIN channel /\ i \in Nat /\ i >= 1
                                       /\ channel'[i] = channel[i + 1]
  BY <1>1, <1>2
<1>4. \A i \in DOMAIN channel : i # 1 => i - 1 \in DOMAIN channel' /\ i - 1 + 1 = i
  BY <1>1, <1>2
<1> QED
  BY <1>1, <1>2, <1>3, <1>4

(* Who waits for the answer gets it; an answer to a compensating stop says   *)
(* that the start has failed.                                               *)
LEMMA ServeAnswers ==
  ASSUME TypeOK, ServedSession, Serve
  PROVE  \E result, seen :
           /\ Serves(channel[1].op, channel[1].config, result, seen)
           /\ channel[1].from = NoSlot => task' = task
           /\ channel[1].from # NoSlot =>
                /\ channel[1].from \in Slots
                /\ \A s \in Slots \ {channel[1].from} : task'[s] = task[s]
                /\ LET t == channel[1].from
                   IN /\ task'[t].kind = task[t].kind /\ task'[t].config = task[t].config
                      /\ task'[t].current = task[t].current /\ task'[t].step = "answered"
                      /\ task'[t].result = IF task[t].step = "cleanup" THEN "error" ELSE result
                      /\ task'[t].sample = seen
<1> DEFINE r == channel[1]
<1>0. Head(channel) = r /\ r \in Requests
  <2>1. channel # <<>>
    BY DEF Serve
  <2> QED
    BY <2>1, ChannelKept
<1>1. PICK result, seen : Serves(r.op, r.config, result, seen) /\ Reply(r.from, result, seen)
  <2> HIDE DEF r
  <2>1. CASE r.op = "start" /\ tunnel = NoConfig /\ tunnel' = r.config /\ Reply(r.from, "ok", NoConfig)
    BY <2>1 DEF Serves
  <2>2. CASE r.op = "start" /\ Reply(r.from, "error", NoConfig) /\ UNCHANGED tunnel
    BY <2>2 DEF Serves
  <2>3. CASE r.op = "stop" /\ tunnel = NoConfig /\ Reply(r.from, "notRunning", NoConfig)
             /\ UNCHANGED tunnel
    BY <2>3 DEF Serves
  <2>4. CASE r.op = "stop" /\ tunnel # NoConfig /\ tunnel' = NoConfig
             /\ Reply(r.from, "ok", NoConfig)
    BY <2>4 DEF Serves
  <2>5. CASE /\ r.op = "stats" /\ UNCHANGED tunnel
             /\ Reply(r.from, IF tunnel = NoConfig THEN "notRunning" ELSE "ok", tunnel)
    BY <2>5 DEF Serves
  <2> QED
    BY <1>0, <2>1, <2>2, <2>3, <2>4, <2>5 DEF Serve, ServedSession
<1>2. CASE r.from = NoSlot
  BY <1>1, <1>2 DEF Reply
<1>3. CASE r.from # NoSlot
  <2>1. r.from \in Slots
    BY <1>0, <1>3 DEF Requests
  <2> DEFINE t == r.from
             said == IF task[t].step = "cleanup" THEN "error" ELSE result
             k == [Answered(t, said) EXCEPT !.sample = seen]
  <2>2. Put(t, k)
    BY <1>1, <1>3 DEF Reply
  <2>3. /\ k.kind = task[t].kind /\ k.step = "answered" /\ k.result = said
        /\ k.config = task[t].config /\ k.current = task[t].current /\ k.sample = seen
    BY <2>1, FieldsKept
  <2>4. task'[t] = k /\ \A s \in Slots \ {t} : task'[s] = task[s]
    BY <2>1, <2>2 DEF Put, TypeOK
  <2> HIDE DEF k
  <2>5. /\ task'[t].kind = task[t].kind /\ task'[t].config = task[t].config
        /\ task'[t].current = task[t].current /\ task'[t].step = "answered"
        /\ task'[t].result = said /\ task'[t].sample = seen
    BY <2>3, <2>4
  <2> QED
    BY <1>1, <1>3, <2>1, <2>4, <2>5
<1> QED
  BY <1>2, <1>3

LEMMA FollowServe ==
  ASSUME TypeOK, FollowInv, PlainInv, ServedSession, Serve
  PROVE  FollowInv'
<1> DEFINE r == channel[1]
<1>0. /\ DOMAIN channel = 1..Len(channel) /\ Len(channel) \in Nat /\ 1 \in DOMAIN channel
      /\ \A i \in DOMAIN channel' : i + 1 \in DOMAIN channel /\ i \in Nat /\ i >= 1
                                    /\ channel'[i] = channel[i + 1]
      /\ \A i \in DOMAIN channel : i # 1 => i - 1 \in DOMAIN channel' /\ i - 1 + 1 = i
      /\ UNCHANGED <<busy, running, runningId, pending>>
  BY ServeMoves
<1>1. PICK result, seen :
           /\ Serves(r.op, r.config, result, seen)
           /\ r.from = NoSlot => task' = task
           /\ r.from # NoSlot =>
                /\ r.from \in Slots
                /\ \A s \in Slots \ {r.from} : task'[s] = task[s]
                /\ LET t == r.from
                   IN /\ task'[t].kind = task[t].kind /\ task'[t].config = task[t].config
                      /\ task'[t].current = task[t].current /\ task'[t].step = "answered"
                      /\ task'[t].result = IF task[t].step = "cleanup" THEN "error" ELSE result
                      /\ task'[t].sample = seen
  BY ServeAnswers
<1>2. r.from # NoSlot => Waits(task[r.from], r.op, r.config)
  BY <1>0 DEF FollowInv, ServiceInv, RequestsAwaited
<1>3. \A s \in Slots :
        \/ task'[s] = task[s] /\ s # r.from
        \/ task'[s] = task[s] /\ r.from = NoSlot
        \/ /\ s = r.from /\ task'[s].kind = task[s].kind /\ task'[s].config = task[s].config
           /\ task'[s].current = task[s].current /\ task'[s].step = "answered"
           /\ task'[s].result = IF task[s].step = "cleanup" THEN "error" ELSE result
           /\ task'[s].sample = seen /\ r.from # NoSlot
  BY <1>1
<1>4. \A i \in DOMAIN channel' : channel'[i].from # NoSlot =>
        /\ channel[i + 1].from = channel'[i].from /\ channel'[i].from # r.from
        /\ task'[channel'[i].from] = task[channel'[i].from]
  BY <1>0, <1>3, ChannelKept DEF FollowInv, ServiceInv, OneRequest, Requests
<1>5. RequestsAwaited' /\ OneRequest'
  <2>1. RequestsAwaited'
    BY <1>0, <1>4 DEF FollowInv, ServiceInv, RequestsAwaited
  <2>2. OneRequest'
    BY <1>0, <1>4 DEF FollowInv, ServiceInv, OneRequest
  <2> QED
    BY <2>1, <2>2
(* Who waits is a poll, a start or a stop.                                   *)
<1>6. \A s \in Slots :
        /\ Stopped(s) => task'[s] = task[s]
        /\ Started(s) => task'[s] = task[s]
        /\ Looping(s)' <=> Looping(s)
        /\ task'[s].kind = task[s].kind
  <2>1. r.from # NoSlot => task[r.from].step \in {"call", "cleanup"}
    BY <1>2 DEF Waits
  <2> QED
    BY <1>3, <2>1 DEF Stopped, Started, Looping
(* What runs is what is shown, unless a stop has been answered.              *)
<1>7. ASSUME running, r.op # "stop"
      PROVE  r.op = "stats" /\ tunnel' = tunnel
  <2>1. 1 \notin Controls
    BY <1>7 DEF FollowInv, ServiceInv, ShownRuns
  <2>2. r.op = "stats"
    BY <1>0, <2>1 DEF Controls
  <2> QED
    BY <1>1, <2>2 DEF Serves
<1>8. UiInv'
  <2>1. StepsOfKinds' /\ RealConfigs' /\ OneLoop'
    <3>1. StepsOfKinds'
      BY <1>2, <1>3 DEF FollowInv, UiInv, StepsOfKinds, Waits
    <3>2. RealConfigs'
      BY <1>0, <1>3 DEF FollowInv, UiInv, RealConfigs
    <3>3. OneLoop'
      BY <1>0, <1>6 DEF FollowInv, UiInv, OneLoop
    <3> QED
      BY <3>1, <3>2, <3>3
  <2>2. ASSUME NEW s \in Slots, Looping(s)
        PROVE  /\ running' /\ \A u \in Slots : task'[u].kind # "stop"
               /\ task'[s].step = "answered" => task'[s].result = "ok" /\ task'[s].sample = runningId'
    <3>1. /\ running /\ \A u \in Slots : task[u].kind # "stop"
          /\ task[s].step = "answered" => task[s].result = "ok" /\ task[s].sample = runningId
      BY <2>2 DEF FollowInv, UiInv, LoopsTrue
    <3>2. tunnel = runningId /\ runningId # NoConfig
      BY <3>1 DEF FollowInv, UiInv, ServiceInv, ShownRuns, RealConfigs, Stopped
    <3>3. CASE task'[s] = task[s]
      BY <1>0, <1>6, <3>1, <3>3
    <3>4. CASE s = r.from /\ r.from # NoSlot
      <4>1. task[s].kind = "poll"
        BY <2>2 DEF Looping
      <4>2. r.op = "stats" /\ task[s].step = "call"
        BY <1>2, <3>4, <4>1 DEF Waits
      <4>3. result = "ok" /\ seen = tunnel
        BY <1>1, <3>2, <4>2 DEF Serves
      <4> QED
        BY <1>0, <1>3, <1>6, <3>1, <3>2, <3>4, <4>2, <4>3
    <3> QED
      BY <1>3, <3>3, <3>4
  <2>3. LoopsTrue'
    BY <1>6, <2>2 DEF LoopsTrue
  <2> QED
    BY <2>1, <2>3 DEF UiInv
<1>9. \A i \in Controls' : i + 1 \in Controls /\ channel'[i] = channel[i + 1] /\ i \in Nat /\ i >= 1
  BY <1>0 DEF Controls
<1>10. CallsEndTrue'
  <2>1. ASSUME NEW s \in Slots, Stopped(s)'
        PROVE  task'[s].result = "ok" /\ Controls' = {} /\ tunnel' = NoConfig
    <3>1. CASE Stopped(s)
      <4>1. task[s].result = "ok" /\ Controls = {} /\ tunnel = NoConfig
        BY <3>1 DEF FollowInv, ServiceInv, CallsEndTrue
      <4>2. r.op = "stats"
        BY <1>0, <4>1 DEF Controls
      <4> QED
        BY <1>1, <1>6, <1>9, <3>1, <4>1, <4>2 DEF Serves
    <3>2. CASE ~Stopped(s)
      <4>1. /\ s = r.from /\ r.from # NoSlot /\ task[s].kind = "stop"
            /\ task'[s].result = IF task[s].step = "cleanup" THEN "error" ELSE result
        BY <1>3, <2>1, <3>2 DEF Stopped
      <4>2. r.op = "stop" /\ task[s].step = "call"
        BY <1>2, <4>1 DEF Waits
      <4>3. running /\ \A u \in Slots : ~Stopped(u)
        BY <4>1, <4>2 DEF FollowInv, ServiceInv, CallsEndTrue, Stopped, PlainInv,
           OneCallAtATime, TasksOf
      <4>4. tunnel = runningId /\ runningId # NoConfig
        BY <4>3 DEF FollowInv, UiInv, ServiceInv, ShownRuns, RealConfigs
      <4>5. tunnel' = NoConfig /\ result = "ok"
        BY <1>1, <4>2, <4>4 DEF Serves
      <4>6. 1 \in Controls
        BY <1>0, <4>2 DEF Controls
      <4>7. \A j \in Controls : j = 1
        <5>1. \A j \in Controls : channel[j].from # NoSlot
          BY <4>3 DEF FollowInv, ServiceInv, ShownRuns
        <5> QED
          BY <4>1, <4>6, <5>1, ControlsOfOne
      <4>8. Controls' = {}
        BY <1>9, <4>7
      <4> QED
        BY <4>1, <4>2, <4>5, <4>8
    <3> QED
      BY <3>1, <3>2
  <2>2. ASSUME NEW s \in Slots, Started(s)'
        PROVE  Controls' = {} /\ tunnel' = task'[s].config
    <3>1. CASE Started(s)
      <4>1. Controls = {} /\ tunnel = task[s].config
        BY <3>1 DEF FollowInv, ServiceInv, CallsEndTrue
      <4>2. r.op = "stats"
        BY <1>0, <4>1 DEF Controls
      <4> QED
        BY <1>1, <1>6, <1>9, <3>1, <4>1, <4>2 DEF Serves
    <3>2. CASE ~Started(s)
      <4>1. /\ s = r.from /\ r.from # NoSlot /\ task[s].kind = "start"
            /\ task'[s].config = task[s].config /\ task[s].step # "cleanup" /\ result = "ok"
        BY <1>3, <2>2, <3>2 DEF Started
      <4>2. r.op = "start" /\ task[s].step = "call" /\ r.config = task[s].config
        BY <1>2, <4>1 DEF Waits
      <4>3. ~running /\ \A u \in Slots : ~Started(u)
        BY <4>1, <4>2 DEF Started, PlainInv, StartsWhenStopped, OneCallAtATime, TasksOf
      <4>4. tunnel' = r.config
        BY <1>1, <4>1, <4>2 DEF Serves
      <4>5. 1 \in Controls /\ Awaited(1)
        BY <1>0, <4>1, <4>2 DEF Controls, Awaited
      <4>6. \A j \in Controls : j <= 1
        BY <4>3, <4>5 DEF FollowInv, ServiceInv, HiddenEnds, AwaitedLast
      <4>7. Controls' = {}
        <5>1. \A i \in Controls' : FALSE
          BY <1>9, <4>6
        <5> QED
          BY <5>1
      <4> QED
        BY <4>1, <4>2, <4>4, <4>7
    <3> QED
      BY <3>1, <3>2
  <2> QED
    BY <1>0, <1>6, <2>1, <2>2 DEF FollowInv, ServiceInv, CallsEndTrue
<1>11. ShownRuns'
  <2> SUFFICES ASSUME running
               PROVE  /\ \A i \in Controls' : channel'[i].op = "stop" /\ channel'[i].from # NoSlot
                      /\ (\A t \in Slots : ~Stopped(t)') => tunnel' = runningId
    BY <1>0 DEF ShownRuns
  <2>1. \A i \in Controls : channel[i].op = "stop" /\ channel[i].from # NoSlot
    BY DEF FollowInv, ServiceInv, ShownRuns
  <2>2. ASSUME \A t \in Slots : ~Stopped(t)' PROVE tunnel' = runningId
    <3>1. \A t \in Slots : ~Stopped(t)
      BY <1>6, <2>2 DEF Stopped
    <3>2. r.op # "stop"
      <4> SUFFICES ASSUME r.op = "stop" PROVE FALSE
        OBVIOUS
      <4>1. 1 \in Controls
        BY <1>0 DEF Controls
      <4>2. r.from # NoSlot
        BY <2>1, <4>1
      <4>3. r.from \in Slots /\ task[r.from].kind \in {"start", "stop"}
        BY <4>1, <4>2, ControlsOfOne
      <4>4. task[r.from].kind = "stop"
        BY <4>3 DEF PlainInv, StartsWhenStopped
      <4> QED
        BY <1>3, <2>2, <4>2, <4>3, <4>4 DEF Stopped
    <3>3. tunnel = runningId
      BY <3>1 DEF FollowInv, ServiceInv, ShownRuns
    <3> QED
      BY <1>7, <3>2, <3>3
  <2> QED
    BY <1>9, <2>1, <2>2
<1>12. HiddenEnds'
  <2> SUFFICES ASSUME ~running, \A t \in Slots : ~Started(t)'
               PROVE  Cleared' /\ AwaitedLast'
    BY <1>0 DEF HiddenEnds
  <2>1. \A t \in Slots : ~Started(t)
    BY <1>6 DEF Started
  <2>2. Cleared /\ AwaitedLast
    BY <2>1 DEF FollowInv, ServiceInv, HiddenEnds
  <2>3. \A i \in Controls' : Awaited(i)' <=> Awaited(i + 1)
    BY <1>9 DEF Awaited
  <2>4. AwaitedLast'
    BY <1>9, <2>2, <2>3 DEF AwaitedLast
  <2>5. \A i \in Others' : i + 1 \in Others /\ i \in Nat /\ i >= 1
    BY <1>9, <2>3 DEF Others
  <2>6. \A i \in Others : i # 1 => i - 1 \in Others' /\ channel'[i - 1].op = channel[i].op
    <3> SUFFICES ASSUME NEW i \in Others, i # 1
                 PROVE  i - 1 \in Others' /\ channel'[i - 1].op = channel[i].op
      OBVIOUS
    <3>1. i \in DOMAIN channel /\ channel[i].op # "stats" /\ ~Awaited(i)
      BY DEF Others, Controls
    <3>2. i - 1 \in DOMAIN channel' /\ channel'[i - 1] = channel[i]
      BY <1>0, <3>1
    <3> QED
      BY <3>1, <3>2 DEF Others, Controls, Awaited
  <2>7. CASE Others = {} /\ tunnel = NoConfig
    <3>1. Others' = {}
      BY <2>5, <2>7
    <3>2. 1 \notin Controls \/ Awaited(1)
      BY <2>7 DEF Others
    <3>3. CASE r.op = "stats"
      BY <1>1, <2>4, <2>7, <3>1, <3>3 DEF Serves, Cleared
    <3>4. CASE r.op # "stats"
      <4>1. Awaited(1)
        BY <1>0, <3>2, <3>4 DEF Controls
      <4>2. r.op = "start" /\ r.from # NoSlot /\ r.from \in Slots
        BY <1>1, <4>1 DEF Awaited
      <4>3. task[r.from].kind = "start" /\ task[r.from].step = "call"
        BY <1>2, <4>2 DEF Waits
      <4>4. result # "ok"
        BY <1>1, <4>2, <4>3 DEF Started
      <4>5. tunnel' = tunnel
        BY <1>1, <4>2, <4>4 DEF Serves
      <4> QED
        BY <2>4, <2>7, <3>1, <4>5 DEF Cleared
    <3> QED
      BY <3>3, <3>4
  <2>8. CASE \E m \in Others : channel[m].op = "stop" /\ \A i \in Others : i <= m
    <3>1. PICK m \in Others : channel[m].op = "stop" /\ \A i \in Others : i <= m
      BY <2>8
    <3>2. CASE m = 1
      <4>1. Others' = {}
        <5>1. \A i \in Others' : FALSE
          BY <2>5, <3>1, <3>2
        <5> QED
          BY <5>1
      <4>2. tunnel' = NoConfig
        BY <1>1, <3>1, <3>2 DEF Serves
      <4> QED
        BY <2>4, <4>1, <4>2 DEF Cleared
    <3>3. CASE m # 1
      <4>1. m - 1 \in Others' /\ channel'[m - 1].op = "stop"
        BY <2>6, <3>1, <3>3
      <4>2. m \in Nat
        BY <1>0 DEF Others, Controls
      <4>3. \A i \in Others' : i <= m - 1
        BY <2>5, <3>1, <4>2
      <4> QED
        BY <2>4, <4>1, <4>3 DEF Cleared
    <3> QED
      BY <3>2, <3>3
  <2> QED
    BY <2>2, <2>4, <2>7, <2>8 DEF Cleared
<1> QED
  BY <1>5, <1>8, <1>10, <1>11, <1>12 DEF FollowInv, ServiceInv

-----------------------------------------------------------------------------
(* The theorems.                                                            *)

LEMMA FollowInit == Init => FollowInv
<1> SUFFICES ASSUME Init PROVE FollowInv
  OBVIOUS
<1>1. /\ \A t \in Slots : task[t].kind = "none" /\ task[t].step = "none"
      /\ ~running /\ pending = NoPending /\ channel = <<>> /\ tunnel = NoConfig
  BY FieldsOfTasks DEF Init
<1>2. DOMAIN channel = {} /\ Controls = {} /\ Others = {}
  BY <1>1 DEF Controls, Others
<1> QED
  BY <1>1, <1>2 DEF FollowInv, UiInv, ServiceInv, StepsOfKinds, RealConfigs, LoopsTrue,
     OneLoop, RequestsAwaited, OneRequest, CallsEndTrue, ShownRuns, HiddenEnds, Cleared,
     AwaitedLast, Stopped, Started, Looping

LEMMA FollowStep ==
  ASSUME TypeOK, FollowInv, PlainInv, ServedSession, [Next]_vars
  PROVE  FollowInv'
<1>0. /\ "password" \notin Features /\ "saveRestart" \notin Features
      /\ "quit" \notin Features /\ "serviceDies" \notin Features
      /\ \A t \in Slots : task[t].kind \in {"none", "start", "stop", "poll"}
      /\ ~exited
  BY DEF ServedSession, PlainSession, PlainInv, PlainKinds
<1>1. ASSUME NEW t \in Slots, UserSteps(t) PROVE FollowInv'
  <2>1. Toggle(t) \/ TrayStart(t) \/ TrayStop(t)
    BY <1>0, <1>1 DEF UserSteps, SaveAndRestart, CancelUnlock, Unlock, Quit, UnlockKinds
  <2> QED
    BY <2>1, FollowToggle DEF Toggle, TrayStart, TrayStop, Free
<1>2. ASSUME NEW t \in Slots, TaskSteps(t) PROVE FollowInv'
  <2>1. ~QuitDone(t)
    BY <1>0 DEF QuitDone, Done, QuitKinds
  <2> QED
    BY <1>2, <2>1, FollowPrepared, FollowStartDone, FollowStopDone,
       FollowPoll DEF TaskSteps
<1>3. ASSUME NEW t \in Slots, Send(t) \/ StartTimeout(t) \/ CallTimeout(t) PROVE FollowInv'
  BY <1>3, FollowSend, FollowStartTimeout, FollowCallTimeout
<1>4. \A t \in Slots : ~Saved(t) /\ ~CredentialsRead(t)
  BY <1>0 DEF Saved, CredentialsRead, UnlockKinds
<1>5. ~SetRequired /\ ~Relaunch /\ ~ServiceDies
  BY <1>0 DEF SetRequired, Relaunch, ServiceDies
<1>6. CASE UNCHANGED vars
  BY <1>6 DEF vars, runtimeVars, serviceVars, FollowInv, UiInv, ServiceInv, StepsOfKinds,
     RealConfigs, LoopsTrue, OneLoop, RequestsAwaited, OneRequest, CallsEndTrue,
     ShownRuns, HiddenEnds, Cleared, AwaitedLast, Stopped, Started, Looping, Controls,
     Others, Awaited, Waits
<1> QED
  BY <1>1, <1>2, <1>3, <1>4, <1>5, <1>6, FollowServe DEF Next

LEMMA FollowAlways ==
  ASSUME ServedSession
  PROVE  Spec => [](TypeOK /\ PlainInv /\ FollowInv)
<1>1. Spec => []TypeOK
  BY TypeCorrect
<1>2. Spec => []PlainInv
  BY PlainAlways DEF ServedSession
<1>3. ServedSession
  OBVIOUS
<1>4. TypeOK /\ PlainInv /\ FollowInv /\ [Next]_vars => FollowInv'
  BY <1>3, FollowStep
<1> QED
  BY <1>1, <1>2, <1>4, FollowInit, PTL DEF Spec

(* While calls and timeouts go on, what the UI shows, keeps for later and     *)
(* polls follows what the service runs: in particular, when everything has   *)
(* settled, the UI shows the tunnel that runs, also after a start that timed *)
(* out, whose stop was given up, too.                                       *)
THEOREM UiFollows ==
  ASSUME ServedSession
  PROVE  Spec => []UiFollowsService
<1>1. ASSUME TypeOK, PlainInv, FollowInv PROVE UiFollowsService
  <2> USE <1>1
  <2>1. PendingWhileStopping
    BY DEF PlainInv
  <2>2. ASSUME Settled PROVE tunnel = (IF running THEN runningId ELSE NoConfig)
    <3>1. Controls = {} /\ Others = {}
      BY <2>2 DEF Settled, Controls, Others
    <3>2. \A t \in Slots : ~Started(t) /\ ~Stopped(t)
      BY <2>2 DEF Settled, TasksOf, Started, Stopped
    <3> QED
      BY <3>1, <3>2 DEF FollowInv, ServiceInv, ShownRuns, HiddenEnds, Cleared
  <2>3. ASSUME running, TasksOf({"stop"}) = {} PROVE Cardinality(LiveLoops) = 1
    <3>1. PICK t \in Slots : \A s \in Slots : Looping(s) <=> s = t
      BY <2>3 DEF FollowInv, UiInv, OneLoop, TasksOf
    <3>2. LiveLoops = {t}
      BY <3>1 DEF LiveLoops, TasksOf, Looping
    <3> QED
      BY <3>2, FS_Singleton
  <2> QED
    BY <2>1, <2>2, <2>3 DEF UiFollowsService, UiAgrees, RunningIsPolled
<1>2. Spec => [](TypeOK /\ PlainInv /\ FollowInv)
  BY FollowAlways
<1> QED
  BY <1>1, <1>2, PTL

(* A sample that is applied is one of the tunnel that is shown, although the *)
(* tunnel may have been stopped and another one started since it was asked   *)
(* for.                                                                     *)
THEOREM SamplesTrue ==
  ASSUME ServedSession
  PROVE  Spec => SamplesOfTunnel
<1>1. ASSUME TypeOK, FollowInv, NEW t \in Slots, PollDone(t), LoopGoesOn(t)
      PROVE  task[t].sample = runningId
  BY <1>1 DEF FollowInv, UiInv, LoopsTrue, Looping, PollDone, Done, LoopGoesOn
<1>2. TypeOK /\ FollowInv =>
        [\A t \in Slots : PollDone(t) /\ task[t].result = "ok" /\ LoopGoesOn(t) =>
                            task[t].sample = runningId]_vars
  BY <1>1
<1>3. Spec => [](TypeOK /\ PlainInv /\ FollowInv)
  BY FollowAlways
<1> QED
  BY <1>2, <1>3, PTL DEF SamplesOfTunnel, Spec
=============================================================================
