---------------------------- MODULE DesktopProofs ----------------------------
(***************************************************************************)
(* Proofs about the desktop program, machine by machine (Desktop): which    *)
(* process is the one UI (SingleInstance), the tools page with its snapshot *)
(* of the active config and its calculator (ActiveConfig), the tests of     *)
(* reachability (Reachability), the log and its page (Logs), the themes      *)
(* (Themes), the relay list (Relays), the panel of the service (BackendPanel),*)
(* the dialogs of the connection password (ConnectPassword) and the tray     *)
(* (Tray); and at the end what they come to together.                       *)
(***************************************************************************)
EXTENDS Desktop, PlacesProofs

(* The variables of Desktop by the names its machines have for them.         *)
desktop == v1
at == v2
tries == v3
lockFile == v4
files == v5
opened == v6
holder == v7
socket == v8
attached == v9
pending == v10
shown == v11
promised == v12
texts == v1
active == v2
onPage == v3
snapshot == v4
refresh == v5
generation == v6
cancellable == v7
parses == v8
cidr == v9
asked == v10
cidrGen == v11
computing == v12
saved == v1
up == v2
runs == v3
single == v4
probe == v5
audit == v6
task == v7
progress == v8
pollers == v9
cancelled == v10
cancelling == v12
ring == v1
written == v2
clicks == v3
calls == v4
page == v5
loops == v6
poll == v7
sync == v8
lines == v9
clears == v10
themeFiles == v1
job == v2
preference == v3
raced == v4
savedTheme == v5
applied == v6
listing == v1
published == v2
cacheFile == v3
lock == v4
jobs == v5
resources == v6
validation == v7
deaths == v8
panelSystem == v1
helper == v2
tunnelOn == v3
panel == v4
lastProblem == v5
panelJobs == v6
begun == v7
removeDialog == v8
since == v9
overlap == v10
store == v1
required == v3
traySystem == v1
trayThread == v2
icon == v3
enabled == v4
commands == v5
sent == v6
window == v7
stops == v8
notices == v9
balloon == v10
copy == v11
clipboard == v12
USE DEF desktop, at, tries, lockFile, files, opened, holder, socket, attached, pending,
        shown, promised, texts, active, onPage, snapshot, refresh, generation, cancellable,
        parses, cidr, asked, cidrGen, computing, saved, up, runs, single, probe, audit, task,
        progress, pollers, cancelled, cancelling, ring, written, clicks, calls, page, loops,
        poll, sync, lines, clears, themeFiles, job, preference, raced, savedTheme, applied,
        listing, published, cacheFile, lock, jobs, resources, validation, deaths,
        panelSystem, helper, tunnelOn, panel, lastProblem, panelJobs, begun, removeDialog,
        since, overlap, store, required, traySystem, trayThread, icon, enabled, commands,
        sent, window, stops, notices, balloon, copy, clipboard

-----------------------------------------------------------------------------
(* One UI per user.                                                         *)

(* Every lock file but the one of that name was removed by a process that    *)
(* is at its end: that bounds the files by the processes.                    *)
Removers == {p \in Procs : at[p] \in {"ended", "gone"}}
FilesCounted == files <= Cardinality(Removers) + (IF lockFile = 0 THEN 0 ELSE 1)

(* Who is, or becomes, the primary one holds the lock of the file it opened, *)
(* or the mutex.                                                            *)
Owning == {"owner", "bind", "primary", "ending", "ended"}
LocksHeld ==
  /\ SI!Linux => \A p \in Procs : at[p] \in Owning => opened[p] # 0 /\ holder[opened[p]] = p
  /\ SI!Linux => \A p \in Procs : at[p] = "lock" => opened[p] # 0
  /\ ~SI!Linux => \A p \in Procs : /\ at[p] \notin {"lock", "owner", "ending", "ended"}
                                   /\ at[p] \in Owning => holder[1] = p

(* A process told to show itself did, or will when its window is there.      *)
PromisesKept == promised \subseteq shown \cup pending /\ pending \cap attached = {}

InstanceInv == SI!TypeOK /\ FilesCounted /\ LocksHeld /\ PromisesKept

LEMMA SiCard == ASSUME NEW S PROVE SI!Cardinality(S) = Cardinality(S)
BY DEF SI!Cardinality, Cardinality

LEMMA ProcsCounted ==
  ASSUME ProcsNamed
  PROVE  /\ SI!Cardinality(SI!Files) = Cardinality(SI!Files)
         /\ Cardinality(Procs) \in Nat /\ SI!Files = 1..Cardinality(Procs)
         /\ Cardinality(SI!Files) = Cardinality(Procs)
         /\ \A p \in Procs : Cardinality(Procs) >= 1
<1>1. Cardinality(Procs) \in Nat
  BY FS_CardinalityType DEF ProcsNamed
<1>2. SI!Files = 1..Cardinality(Procs)
  BY SiCard DEF SI!Files
<1>3. Cardinality(SI!Files) = Cardinality(Procs)
  BY <1>1, <1>2, FS_Interval
<1>4. ASSUME NEW p \in Procs PROVE Cardinality(Procs) >= 1
  BY <1>1, <1>4, FS_EmptySet DEF ProcsNamed
<1>. QED
  BY SiCard, <1>1, <1>2, <1>3, <1>4

LEMMA RemoversCounted ==
  ASSUME ProcsNamed
  PROVE  IsFiniteSet(Removers) /\ Cardinality(Removers) \in Nat
BY FS_Subset, FS_CardinalityType DEF ProcsNamed, Removers

(* Removers only grow, and files with them.                                 *)
LEMMA RemoversGrow ==
  ASSUME ProcsNamed, SI!TypeOK, SI!Next
  PROVE  Removers \subseteq Removers' /\ Cardinality(Removers) <= Cardinality(Removers')
         /\ Cardinality(Removers) \in Nat /\ Cardinality(Removers') \in Nat
<1>1. ASSUME NEW p \in Procs, SI!Startup(p) \/ SI!End(p)
      PROVE  Removers \subseteq Removers'
  <2>1. \A q \in Procs \ {p} : at'[q] = at[q]
    BY <1>1
      DEF SI!Startup, SI!End, SI!OpenLock, SI!TryLock, SI!CreateMutex, SI!Activated,
          SI!Unanswered, SI!Bind, SI!Attach, SI!RemoveSocket, SI!RemoveLock, SI!Exit, SI!Crash,
          SI!Alive, SI!Go, SI!TypeOK
  <2>2. at[p] \in {"ended", "gone"} => at'[p] = "gone"
    BY <1>1
      DEF SI!Startup, SI!End, SI!OpenLock, SI!TryLock, SI!CreateMutex, SI!Activated,
          SI!Unanswered, SI!Bind, SI!Attach, SI!RemoveSocket, SI!RemoveLock, SI!Exit, SI!Crash,
          SI!Alive, SI!Go, SI!TypeOK
  <2>. QED
    BY <2>1, <2>2 DEF Removers
<1>2. Removers \subseteq Removers'
  BY <1>1 DEF SI!Next
<1>3. IsFiniteSet(Removers')
  BY FS_Subset DEF ProcsNamed, Removers
<1>. QED
  BY <1>2, <1>3, RemoversCounted, FS_Subset, FS_CardinalityType

(* A process that opens a new lock file is not at its end, so there is one    *)
(* more file to come than removers.                                         *)
LEMMA RoomForFile ==
  ASSUME ProcsNamed, SI!TypeOK, FilesCounted, NEW p \in Procs,
         at[p] \notin {"ended", "gone"}, lockFile = 0
  PROVE  files + 1 <= Cardinality(Procs)
<1>1. Removers \subseteq Procs /\ p \notin Removers
  BY DEF Removers
<1>2. Removers \cup {p} \subseteq Procs
  BY <1>1
<1>3. Cardinality(Removers \cup {p}) = Cardinality(Removers) + 1
  BY <1>1, RemoversCounted, FS_AddElement
<1>4. Cardinality(Removers \cup {p}) <= Cardinality(Procs)
  BY <1>2, FS_Subset DEF ProcsNamed
<1>. QED
  BY <1>3, <1>4, RemoversCounted, ProcsCounted DEF FilesCounted, SI!TypeOK
(* Types.                                                                   *)
LEMMA InstanceTypes ==
  ASSUME ProcsNamed, SI!TypeOK, FilesCounted, [SI!Next]_(SI!vars)
  PROVE  SI!TypeOK'
<1>1. ASSUME NEW p \in Procs, SI!OpenLock(p)
      PROVE  SI!TypeOK'
  <2>1. at' \in [Procs -> SI!Places]
    BY <1>1 DEF SI!OpenLock, SI!Go, SI!TypeOK, SI!Places
  <2>5. files \in 0..Cardinality(Procs) /\ lockFile \in 0..files /\ Cardinality(Procs) \in Nat
    BY ProcsCounted DEF SI!TypeOK
  <2>6. lockFile = 0 => files + 1 \in 0..Cardinality(Procs)
    BY <1>1, <2>5, RoomForFile DEF SI!OpenLock
  <2>2. /\ files' \in 0..Cardinality(Procs) /\ files \in Nat /\ files' \in Nat
        /\ files <= files' /\ lockFile' \in 0..files'
    BY <1>1, <2>5, <2>6 DEF SI!OpenLock
  <2>3. \A n \in 0..files : n \in 0..files'
    BY <2>2
  <2>4. opened' \in [Procs -> 0..files']
    BY <1>1, <2>2, <2>3 DEF SI!OpenLock, SI!TypeOK
  <2>. QED
    BY <1>1, <2>1, <2>2, <2>4, ProcsCounted DEF SI!OpenLock, SI!TypeOK, SI!window
<1>2. ASSUME NEW p \in Procs, SI!TryLock(p)
      PROVE  SI!TypeOK'
  <2>1. at' \in [Procs -> SI!Places]
    BY <1>2 DEF SI!TryLock, SI!Go, SI!TypeOK, SI!Places
  <2>2. tries' \in [Procs -> 0..MaxTries] /\ opened' \in [Procs -> 0..files]
    BY <1>2 DEF SI!TryLock, SI!TypeOK, ProcsNamed
  <2>3. holder' \in [SI!Files -> Procs \cup {SI!Nobody}]
    BY <1>2 DEF SI!TryLock, SI!TypeOK
  <2>. QED
    BY <1>2, <2>1, <2>2, <2>3 DEF SI!TryLock, SI!TypeOK, SI!window
<1>3. ASSUME NEW p \in Procs, SI!CreateMutex(p)
      PROVE  SI!TypeOK'
  <2>1. at' \in [Procs -> SI!Places]
    BY <1>3 DEF SI!CreateMutex, SI!Go, SI!TypeOK, SI!Places
  <2>2. holder' \in [SI!Files -> Procs \cup {SI!Nobody}]
    BY <1>3 DEF SI!CreateMutex, SI!TypeOK
  <2>. QED
    BY <1>3, <2>1, <2>2 DEF SI!CreateMutex, SI!TypeOK, SI!window
<1>4. ASSUME NEW p \in Procs, SI!Activated(p)
      PROVE  SI!TypeOK'
  BY <1>4, ProcsCounted, RoomForFile
    DEF SI!Activated, SI!Go, SI!lock, SI!window, SI!Notify, SI!TypeOK, SI!Places, ProcsNamed
<1>5. ASSUME NEW p \in Procs, SI!Unanswered(p)
      PROVE  SI!TypeOK'
  <2>1. at' \in [Procs -> SI!Places]
    BY <1>5 DEF SI!Unanswered, SI!Go, SI!TypeOK, SI!Places
  <2>2. tries' \in [Procs -> 0..MaxTries]
    BY <1>5 DEF SI!Unanswered, SI!TypeOK, ProcsNamed
  <2>. QED
    BY <1>5, <2>1, <2>2 DEF SI!Unanswered, SI!TypeOK, SI!lock, SI!window
<1>6. ASSUME NEW p \in Procs, SI!Bind(p)
      PROVE  SI!TypeOK'
  BY <1>6, ProcsCounted, RoomForFile
    DEF SI!Bind, SI!Go, SI!lock, SI!window, SI!TypeOK, SI!Places, ProcsNamed
<1>7. ASSUME NEW p \in Procs, SI!Attach(p)
      PROVE  SI!TypeOK'
  BY <1>7, ProcsCounted, RoomForFile
    DEF SI!Attach, SI!Go, SI!lock, SI!window, SI!TypeOK, SI!Places, ProcsNamed
<1>8. ASSUME NEW p \in Procs, SI!RemoveSocket(p)
      PROVE  SI!TypeOK'
  BY <1>8, ProcsCounted, RoomForFile
    DEF SI!RemoveSocket, SI!Go, SI!lock, SI!window, SI!TypeOK, SI!Places, ProcsNamed
<1>9. ASSUME NEW p \in Procs, SI!RemoveLock(p)
      PROVE  SI!TypeOK'
  BY <1>9, ProcsCounted, RoomForFile
    DEF SI!RemoveLock, SI!Go, SI!lock, SI!window, SI!TypeOK, SI!Places, ProcsNamed
<1>10. ASSUME NEW p \in Procs, SI!Exit(p)
      PROVE  SI!TypeOK'
  BY <1>10, ProcsCounted, RoomForFile
    DEF SI!Exit, SI!Go, SI!lock, SI!window, SI!Released, SI!TypeOK, SI!Places, ProcsNamed
<1>11. ASSUME NEW p \in Procs, SI!Crash(p)
      PROVE  SI!TypeOK'
  BY <1>11, ProcsCounted, RoomForFile
    DEF SI!Crash, SI!Go, SI!lock, SI!window, SI!Released, SI!Alive, SI!TypeOK, SI!Places, ProcsNamed
<1>12. CASE UNCHANGED SI!vars
  BY <1>12
    DEF SI!vars, SI!lock, SI!window, SI!TypeOK, SI!Places, ProcsNamed
<1>. QED
  BY <1>1, <1>2, <1>3, <1>4, <1>5, <1>6, <1>7, <1>8, <1>9, <1>10, <1>11, <1>12
    DEF SI!Next, SI!Startup, SI!End

(* Files are made by processes that go on, and removed by those that end.    *)
LEMMA FilesStep ==
  ASSUME ProcsNamed, SI!TypeOK, FilesCounted, [SI!Next]_(SI!vars)
  PROVE  FilesCounted'
<1>1. CASE UNCHANGED SI!vars
  BY <1>1 DEF SI!vars, FilesCounted, Removers
<1>. SUFFICES ASSUME SI!Next PROVE FilesCounted'
  BY <1>1
<1>2. ASSUME NEW p \in Procs, SI!OpenLock(p)
      PROVE  FilesCounted'
  BY <1>2, RemoversGrow DEF SI!OpenLock, FilesCounted, SI!TypeOK
<1>3. ASSUME NEW p \in Procs, SI!RemoveLock(p)
      PROVE  FilesCounted'
  <2>1. Removers' = Removers \cup {p} /\ p \notin Removers
    BY <1>3 DEF SI!RemoveLock, SI!Go, Removers, SI!TypeOK
  <2>2. Cardinality(Removers') = Cardinality(Removers) + 1
    BY <2>1, RemoversCounted, FS_AddElement
  <2>. QED
    BY <1>3, <2>2, RemoversCounted DEF SI!RemoveLock, FilesCounted, SI!TypeOK
<1>4. CASE UNCHANGED <<files, lockFile>>
  BY <1>4, RemoversGrow DEF FilesCounted, SI!TypeOK
<1>. QED
  BY <1>2, <1>3, <1>4
    DEF SI!Next, SI!Startup, SI!End, SI!TryLock, SI!CreateMutex, SI!Activated, SI!Unanswered,
        SI!Bind, SI!Attach, SI!RemoveSocket, SI!Exit, SI!Crash, SI!lock, SI!window

(* A process that goes away takes its lock with it, and nobody else's.       *)
LEMMA LocksReleased ==
  ASSUME ProcsNamed, SI!TypeOK, LocksHeld, NEW p \in Procs, SI!Released(p), UNCHANGED desktop,
         SI!Go(p, "secondary") \/ SI!Go(p, "gone")
  PROVE  LocksHeld'
<1>1. /\ \A q \in Procs \ {p} : at'[q] = at[q] /\ opened'[q] = opened[q]
      /\ at'[p] = "secondary" \/ at'[p] = "gone"
  BY DEF SI!TypeOK, SI!Go, SI!Released
<1>2. \A f \in SI!Files : holder[f] # p => holder'[f] = holder[f]
  BY DEF SI!Released
<1>3. \A q \in Procs : opened[q] # 0 => opened[q] \in SI!Files
  BY ProcsCounted DEF SI!TypeOK
<1>4. holder[1] # p => holder'[1] = holder[1]
  <2>1. 1 \in SI!Files
    BY ProcsCounted
  <2>. QED
    BY <1>2, <2>1
<1>5. SI!Linux' = SI!Linux
  BY DEF SI!Linux
<1>6. CASE SI!Linux
  <2>1. ASSUME NEW q \in Procs, at'[q] \in Owning \cup {"lock"}
        PROVE  /\ q # p /\ at[q] = at'[q] /\ opened'[q] = opened[q] /\ opened[q] # 0
               /\ at[q] \in Owning => holder'[opened[q]] = q
    BY <1>1, <1>2, <1>3, <1>6, <2>1 DEF LocksHeld, Owning
  <2>. QED
    BY <1>5, <1>6, <2>1 DEF LocksHeld, Owning
<1>7. CASE ~SI!Linux
  <2>1. ASSUME NEW q \in Procs, at'[q] \in Owning \cup {"lock"}
        PROVE  q # p /\ at[q] = at'[q] /\ (at[q] \in Owning => holder'[1] = q)
    BY <1>1, <1>2, <1>4, <1>7, <2>1 DEF LocksHeld, Owning
  <2>. QED
    BY <1>5, <1>7, <2>1 DEF LocksHeld, Owning
<1>. QED
  BY <1>6, <1>7

(* A lock is held until its process ends.                                   *)
LEMMA LocksStep ==
  ASSUME ProcsNamed, SI!TypeOK, LocksHeld, [SI!Next]_(SI!vars)
  PROVE  LocksHeld'
<1>1. ASSUME NEW p \in Procs, SI!OpenLock(p)
      PROVE  LocksHeld'
  BY <1>1, ProcsCounted
    DEF SI!OpenLock, SI!Go, SI!lock, SI!window, SI!TypeOK, LocksHeld, Owning, SI!Linux,
        SI!Nobody, ProcsNamed
<1>2. ASSUME NEW p \in Procs, SI!TryLock(p)
      PROVE  LocksHeld'
  <2>1. SI!Linux /\ SI!Linux' /\ at[p] = "lock" /\ opened[p] # 0
    BY <1>2 DEF SI!TryLock, SI!Linux, LocksHeld
  <2>2. \A q \in Procs : opened[q] # 0 => opened[q] \in SI!Files
    BY ProcsCounted DEF SI!TypeOK
  <2>3. \A q \in Procs \ {p} : at'[q] = at[q] /\ opened'[q] = opened[q]
    BY <1>2 DEF SI!TryLock, SI!Go, SI!TypeOK
  <2>4. CASE SI!Acquired(p)
    <3>1. /\ at'[p] = "owner" /\ opened' = opened /\ holder' = [holder EXCEPT ![opened[p]] = p]
          /\ holder[opened[p]] = SI!Nobody
      BY <1>2, <2>4 DEF SI!TryLock, SI!Go, SI!TypeOK, SI!Acquired
    <3>2. holder'[opened[p]] = p /\ \A f \in SI!Files : f # opened[p] => holder'[f] = holder[f]
      BY <2>1, <2>2, <3>1 DEF SI!TypeOK
    <3>. QED
      BY <2>1, <2>2, <2>3, <3>1, <3>2 DEF LocksHeld, Owning, ProcsNamed
  <2>5. CASE ~SI!Acquired(p)
    <3>1. at'[p] = "activate" /\ holder' = holder
      BY <1>2, <2>5 DEF SI!TryLock, SI!Go, SI!TypeOK
    <3>. QED
      BY <2>1, <2>3, <3>1 DEF LocksHeld, Owning
  <2>. QED
    BY <2>4, <2>5
<1>3. ASSUME NEW p \in Procs, SI!CreateMutex(p)
      PROVE  LocksHeld'
  BY <1>3, ProcsCounted
    DEF SI!CreateMutex, SI!Go, SI!lock, SI!window, SI!TypeOK, LocksHeld, Owning, SI!Linux,
        SI!Nobody, ProcsNamed
<1>4. ASSUME NEW p \in Procs, SI!Activated(p)
      PROVE  LocksHeld'
  BY <1>4, LocksReleased DEF SI!Activated, SI!Released
<1>5. ASSUME NEW p \in Procs, SI!Unanswered(p)
      PROVE  LocksHeld'
  <2>1. /\ \A q \in Procs \ {p} : at'[q] = at[q]
        /\ \/ at[p] = "owner" /\ at'[p] = "bind"
           \/ at'[p] \in {"failed", "again"}
    BY <1>5 DEF SI!Unanswered, SI!Go, SI!TypeOK
  <2>2. UNCHANGED <<desktop, opened, holder>>
    BY <1>5 DEF SI!Unanswered, SI!lock
  <2>. QED
    BY <2>1, <2>2 DEF LocksHeld, Owning, SI!Linux
<1>6. ASSUME NEW p \in Procs, SI!Bind(p)
      PROVE  LocksHeld'
  BY <1>6, ProcsCounted
    DEF SI!Bind, SI!Go, SI!lock, SI!window, SI!TypeOK, LocksHeld, Owning, SI!Linux, SI!Nobody,
        ProcsNamed
<1>7. ASSUME NEW p \in Procs, SI!Attach(p)
      PROVE  LocksHeld'
  BY <1>7, ProcsCounted
    DEF SI!Attach, SI!Go, SI!lock, SI!window, SI!TypeOK, LocksHeld, Owning, SI!Linux, SI!Nobody,
        ProcsNamed
<1>8. ASSUME NEW p \in Procs, SI!RemoveSocket(p)
      PROVE  LocksHeld'
  BY <1>8, ProcsCounted
    DEF SI!RemoveSocket, SI!Go, SI!lock, SI!window, SI!TypeOK, LocksHeld, Owning, SI!Linux,
        SI!Nobody, ProcsNamed
<1>9. ASSUME NEW p \in Procs, SI!RemoveLock(p)
      PROVE  LocksHeld'
  BY <1>9, ProcsCounted
    DEF SI!RemoveLock, SI!Go, SI!lock, SI!window, SI!TypeOK, LocksHeld, Owning, SI!Linux,
        SI!Nobody, ProcsNamed
<1>10. ASSUME NEW p \in Procs, SI!Exit(p)
      PROVE  LocksHeld'
  BY <1>10, LocksReleased DEF SI!Exit, SI!Released
<1>11. ASSUME NEW p \in Procs, SI!Crash(p)
      PROVE  LocksHeld'
  BY <1>11, LocksReleased DEF SI!Crash, SI!Released
<1>12. CASE UNCHANGED SI!vars
  BY <1>12
    DEF SI!vars, SI!lock, SI!window, SI!TypeOK, LocksHeld, Owning, SI!Linux, SI!Nobody, ProcsNamed
<1>. QED
  BY <1>1, <1>2, <1>3, <1>4, <1>5, <1>6, <1>7, <1>8, <1>9, <1>10, <1>11, <1>12
    DEF SI!Next, SI!Startup, SI!End

(* What cannot be shown yet is kept.                                        *)
LEMMA PromisesStep ==
  ASSUME SI!TypeOK, PromisesKept, [SI!Next]_(SI!vars)
  PROVE  PromisesKept'
<1>1. ASSUME NEW p \in Procs, SI!OpenLock(p)
      PROVE  PromisesKept'
  BY <1>1
    DEF SI!OpenLock, SI!Go, SI!lock, SI!window, SI!TypeOK, PromisesKept
<1>2. ASSUME NEW p \in Procs, SI!TryLock(p)
      PROVE  PromisesKept'
  BY <1>2
    DEF SI!TryLock, SI!Go, SI!lock, SI!window, SI!Acquired, SI!TypeOK, PromisesKept
<1>3. ASSUME NEW p \in Procs, SI!CreateMutex(p)
      PROVE  PromisesKept'
  BY <1>3
    DEF SI!CreateMutex, SI!Go, SI!lock, SI!window, SI!TypeOK, PromisesKept
<1>4. ASSUME NEW p \in Procs, SI!Activated(p)
      PROVE  PromisesKept'
  BY <1>4
    DEF SI!Activated, SI!Go, SI!lock, SI!window, SI!Notify, SI!TypeOK, PromisesKept
<1>5. ASSUME NEW p \in Procs, SI!Unanswered(p)
      PROVE  PromisesKept'
  BY <1>5
    DEF SI!Unanswered, SI!Go, SI!lock, SI!window, SI!TypeOK, PromisesKept
<1>6. ASSUME NEW p \in Procs, SI!Bind(p)
      PROVE  PromisesKept'
  BY <1>6
    DEF SI!Bind, SI!Go, SI!lock, SI!window, SI!TypeOK, PromisesKept
<1>7. ASSUME NEW p \in Procs, SI!Attach(p)
      PROVE  PromisesKept'
  BY <1>7
    DEF SI!Attach, SI!Go, SI!lock, SI!window, SI!TypeOK, PromisesKept
<1>8. ASSUME NEW p \in Procs, SI!RemoveSocket(p)
      PROVE  PromisesKept'
  BY <1>8
    DEF SI!RemoveSocket, SI!Go, SI!lock, SI!window, SI!TypeOK, PromisesKept
<1>9. ASSUME NEW p \in Procs, SI!RemoveLock(p)
      PROVE  PromisesKept'
  BY <1>9
    DEF SI!RemoveLock, SI!Go, SI!lock, SI!window, SI!TypeOK, PromisesKept
<1>10. ASSUME NEW p \in Procs, SI!Exit(p)
      PROVE  PromisesKept'
  BY <1>10
    DEF SI!Exit, SI!Go, SI!lock, SI!window, SI!Released, SI!TypeOK, PromisesKept
<1>11. ASSUME NEW p \in Procs, SI!Crash(p)
      PROVE  PromisesKept'
  BY <1>11
    DEF SI!Crash, SI!Go, SI!lock, SI!window, SI!Released, SI!Alive, SI!TypeOK, PromisesKept
<1>12. CASE UNCHANGED SI!vars
  BY <1>12
    DEF SI!vars, SI!lock, SI!window, SI!TypeOK, PromisesKept
<1>. QED
  BY <1>1, <1>2, <1>3, <1>4, <1>5, <1>6, <1>7, <1>8, <1>9, <1>10, <1>11, <1>12
    DEF SI!Next, SI!Startup, SI!End

LEMMA InstanceInitially ==
  ASSUME ProcsNamed, SI!Init
  PROVE  InstanceInv
<1>1. SI!TypeOK
  BY ProcsCounted DEF SI!Init, SI!TypeOK, SI!Places, ProcsNamed
<1>2. FilesCounted
  BY RemoversCounted DEF SI!Init, FilesCounted
<1>3. LocksHeld /\ PromisesKept
  BY DEF SI!Init, LocksHeld, Owning, PromisesKept
<1>. QED
  BY <1>1, <1>2, <1>3 DEF InstanceInv

LEMMA InstanceStep ==
  ASSUME ProcsNamed, InstanceInv, [SI!Next]_(SI!vars) PROVE InstanceInv'
BY InstanceTypes, FilesStep, LocksStep, PromisesStep DEF InstanceInv

LEMMA InstanceInvariant == ASSUME ProcsNamed PROVE SI!Spec => []InstanceInv
<1>1. InstanceInv /\ [SI!Next]_(SI!vars) => InstanceInv'
  BY InstanceStep
<1>. QED
  BY <1>1, InstanceInitially, PTL DEF SI!Spec

(* Every variable of the startup keeps its type: there are never more lock    *)
(* files than processes, since each one but the one of that name was removed  *)
(* by a process that is at its end (PrimaryGuard::drop).                     *)
THEOREM InstanceTypesHold == ASSUME ProcsNamed PROVE SI!Spec => []SI!TypeOK
<1>1. InstanceInv => SI!TypeOK
  BY DEF InstanceInv
<1>. QED
  BY <1>1, InstanceInvariant, PTL

(* One file's lock has one holder, so there is one primary process at most;    *)
(* a promised window is shown or pending.                                   *)
LEMMA OneUI == ASSUME ProcsNamed, InstanceInv PROVE SI!SinglePrimary
<1>. DEFINE Primaries == {p \in Procs : at[p] \in {"primary", "ending", "ended"}}
<1>. SUFFICES ASSUME files <= 1 PROVE Cardinality(Primaries) <= 1
  BY SiCard DEF SI!SinglePrimary
<1>1. ASSUME NEW p \in Primaries PROVE holder[1] = p
  <2>1. opened[p] \in 0..files /\ files \in Nat
    BY ProcsCounted DEF InstanceInv, SI!TypeOK
  <2>2. p \in Procs /\ at[p] \in Owning
    BY DEF Owning
  <2>. QED
    BY <2>1, <2>2 DEF InstanceInv, LocksHeld
<1>2. Primaries = {} \/ \E p \in Primaries : Primaries = {p}
  BY <1>1
<1>3. Cardinality({}) = 0 /\ \A p \in Procs : Cardinality({p}) = 1
  BY FS_EmptySet, FS_Singleton
<1>. QED
  BY <1>2, <1>3

LEMMA PromisedShown == ASSUME InstanceInv PROVE SI!ActivationKept
BY DEF InstanceInv, PromisesKept, SI!ActivationKept

(* As long as no second lock file was made, two processes are never the       *)
(* primary one at once, whichever start, die and are asked to activate in     *)
(* whatever order (startup, PrimaryGuard): for any number of processes.      *)
THEOREM OnePrimary == ASSUME ProcsNamed PROVE SI!Spec => []SI!SinglePrimary
BY OneUI, InstanceInvariant, PTL

(* A primary process that answered Ok to an activation shows its window, if   *)
(* the answer came before there was a window too (ActivationState).          *)
THEOREM ActivationsShown == ASSUME ProcsNamed PROVE SI!Spec => []SI!ActivationKept
BY PromisedShown, InstanceInvariant, PTL

-----------------------------------------------------------------------------
(* The tools page.                                                          *)

(* Only the first identity has no text: nothing of it is parsed.             *)
ActiveNamed == active.parsed # "None" => active.id \in AC!Identities
ValidatedParsed == active.parsed \in AC!Outcomes => active.parsed = texts[active.id]

(* The job the page waits for computes the last request.                     *)
JobsCurrent ==
  \A t \in computing : cidr.state = "Running" /\ cidr.gen = t.gen => t.request = cidr.answers

CalculatorInv ==
  /\ cidrGen \in Nat
  /\ cidr \in [state : AC!JobStates, gen : 0..cidrGen, answers : AC!Requests]
  /\ asked \in AC!Requests /\ computing \subseteq [gen : 1..cidrGen, request : 1..asked]
  /\ JobsCurrent /\ AC!AnswersLastRequest

PageInv ==
  /\ AC!TypeOK /\ cidrGen \in Nat /\ ActiveNamed /\ ValidatedParsed /\ JobsCurrent
  /\ AC!SnapshotTruthful /\ AC!AnswersLastRequest

(* What sync_active_config_bridge leaves: what is known of the config, or a    *)
(* parse of its own that was not cancelled.                                  *)
LEMMA SyncKeeps ==
  ASSUME PageLimits, AC!TypeOK, AC!SnapshotTruthful, NEW allow \in BOOLEAN,
         NEW a \in [id : 0..MaxRevisions, parsed : {"None", "Loading"} \cup AC!Outcomes],
         a.parsed # "None" => a.id \in AC!Identities,
         a.parsed \in AC!Outcomes => a.parsed = texts[a.id],
         AC!Sync(a, allow), texts' = texts
  PROVE  /\ snapshot' \in AC!Snapshots /\ refresh' \in BOOLEAN
         /\ generation' \in Nat /\ cancellable' \in 0..generation'
         /\ parses' \subseteq [gen : 1..generation', id : AC!Identities,
                              at : {"start", "read", "parsed"}, cancelled : BOOLEAN]
         /\ AC!SnapshotTruthful'
<1>. DEFINE Parse == [gen |-> generation + 1, id |-> a.id, at |-> "start", cancelled |-> FALSE]
            Parses(g) == [gen : 1..g, id : AC!Identities,
                          at : {"start", "read", "parsed"}, cancelled : BOOLEAN]
<1>1. CASE UNCHANGED <<snapshot, refresh, generation, cancellable, parses>>
  BY <1>1 DEF AC!TypeOK, AC!SnapshotTruthful, AC!Outcomes
<1>2. AC!Cancel \subseteq Parses(generation)
  <2>1. ASSUME NEW p \in parses, NEW hit \in BOOLEAN
        PROVE  [p EXCEPT !.cancelled = hit] \in Parses(generation)
    BY DEF AC!TypeOK
  <2>2. ASSUME NEW p \in parses
        PROVE  (p.cancelled \/ p.gen = cancellable) \in BOOLEAN
    OBVIOUS
  <2>. HIDE DEF Parses
  <2>3. SUFFICES ASSUME NEW q \in AC!Cancel PROVE q \in Parses(generation)
    OBVIOUS
  <2>4. PICK p \in parses : q = [p EXCEPT !.cancelled = (p.cancelled \/ p.gen = cancellable)]
    BY <2>3, Zenon DEF AC!Cancel
  <2>. QED
    BY <2>1, <2>2, <2>4, Zenon
<1>3. CASE /\ AC!ShouldSpawn(a, allow) /\ snapshot' = [id |-> a.id, state |-> "Loading"]
           /\ refresh' \in BOOLEAN
           /\ generation' = generation + 1 /\ cancellable' = generation + 1
           /\ parses' = AC!Cancel \cup {Parse}
  <2>1. a.id \in AC!Identities /\ generation \in Nat
    BY <1>3 DEF AC!ShouldSpawn, AC!HasRequest, AC!TypeOK
  <2>2. Parse \in Parses(generation') /\ Parses(generation) \subseteq Parses(generation')
    BY <1>3, <2>1
  <2>3. AC!SnapshotTruthful'
    <3>1. Parse \in parses' /\ Parse.gen = generation' /\ Parse.id = snapshot'.id /\ ~Parse.cancelled
      BY <1>3
    <3>2. snapshot'.state = "Loading"
      BY <1>3
    <3>. HIDE DEF Parse
    <3>. QED
      BY <3>1, <3>2 DEF AC!SnapshotTruthful, AC!Outcomes
  <2>4. snapshot' \in AC!Snapshots
    BY <1>3 DEF AC!Snapshots, AC!Outcomes
  <2>. QED
    <3>1. generation' \in Nat /\ cancellable' \in 0..generation' /\ parses' \subseteq Parses(generation')
      <4>. HIDE DEF Parse, Parses
      <4>1. parses' \subseteq Parses(generation')
        BY <1>2, <1>3, <2>2
      <4>. QED
        BY <1>3, <2>1, <4>1
    <3>. HIDE DEF Parse
    <3>. QED
      BY <1>3, <2>3, <2>4, <3>1
<1>4. CASE /\ ~AC!ShouldSpawn(a, allow)
           /\ snapshot' = [id |-> a.id, state |-> AC!ParseStateOf(a, allow)]
           /\ refresh' \in BOOLEAN
           /\ generation' = generation /\ cancellable' = 0 /\ parses' = AC!Cancel
  <2>1. AC!ParseStateOf(a, allow) \in {"None"} \cup AC!Outcomes
    BY <1>4 DEF AC!ParseStateOf, AC!HasRequest, AC!CanKeep
  <2>2. AC!ParseStateOf(a, allow) \in AC!Outcomes => AC!ParseStateOf(a, allow) = texts[a.id]
    BY <1>4 DEF AC!ParseStateOf, AC!HasRequest, AC!CanKeep, AC!SnapshotTruthful, AC!Outcomes
  <2>3. snapshot' \in AC!Snapshots
    BY <1>4, <2>1 DEF AC!Snapshots
  <2>4. AC!SnapshotTruthful'
    BY <1>4, <2>1, <2>2 DEF AC!SnapshotTruthful, AC!Outcomes
  <2>. QED
    BY <1>2, <1>4, <2>3, <2>4 DEF AC!TypeOK
<1>5. AC!ShouldSpawn(a, allow) => AC!ParseStateOf(a, allow) = "Loading"
  BY DEF AC!ParseStateOf, AC!ShouldSpawn
<1>. QED
  <2>1. \/ UNCHANGED <<snapshot, refresh, generation, cancellable, parses>>
        \/ /\ snapshot' = [id |-> a.id, state |-> AC!ParseStateOf(a, allow)]
           /\ refresh' \in BOOLEAN
           /\ IF AC!ShouldSpawn(a, allow)
              THEN /\ generation' = generation + 1 /\ cancellable' = generation + 1
                   /\ parses' = AC!Cancel \cup {Parse}
              ELSE cancellable' = 0 /\ parses' = AC!Cancel /\ generation' = generation
    BY DEF AC!Sync, AC!bridge
  <2>. HIDE DEF Parse
  <2>. QED
    BY <1>1, <1>3, <1>4, <1>5, <2>1

LEMMA PageInitially ==
  ASSUME PageLimits, AC!Init
  PROVE  PageInv
<1>1. AC!TypeOK
  <2>1. /\ active \in [id : 0..MaxRevisions, parsed : {"None", "Loading"} \cup AC!Outcomes]
        /\ snapshot \in AC!Snapshots
        /\ cidr \in [state : AC!JobStates, gen : 0..cidrGen, answers : AC!Requests]
        /\ asked \in AC!Requests /\ generation \in Nat /\ cancellable \in 0..generation
    BY DEF AC!Init, PageLimits, AC!Snapshots, AC!None, AC!JobStates, AC!Requests
  <2>2. refresh \in BOOLEAN /\ onPage \in BOOLEAN
    BY DEF AC!Init
  <2>. QED
    BY <2>1, <2>2 DEF AC!Init, AC!TypeOK
<1>. QED
  BY <1>1
    DEF AC!Init, PageInv, ActiveNamed, ValidatedParsed, JobsCurrent, AC!SnapshotTruthful,
        AC!AnswersLastRequest, AC!Outcomes, AC!None

LEMMA CalculatorStep ==
  ASSUME PageLimits, CalculatorInv,
         AC!Compute \/ AC!Prefill \/ AC!EditInput \/ \E t \in computing : AC!ComputeEnds(t)
  PROVE  CalculatorInv'
<1>. USE DEF CalculatorInv, AC!AnswersLastRequest
<1>1. CASE AC!Compute
  <2>. DEFINE Job == [gen |-> cidrGen + 1, request |-> asked + 1]
  <2>1. /\ asked' = asked + 1 /\ asked' \in AC!Requests /\ cidrGen' = cidrGen + 1
        /\ cidr' = [state |-> "Running", gen |-> cidrGen + 1, answers |-> asked + 1]
        /\ computing' = computing \cup {Job}
    BY <1>1 DEF AC!Compute, AC!Ask, AC!Requests, PageLimits
  <2>2. computing' \subseteq [gen : 1..cidrGen', request : 1..asked']
    BY <2>1 DEF AC!Requests, PageLimits
  <2>3. cidr' \in [state : AC!JobStates, gen : 0..cidrGen', answers : AC!Requests]
    BY <2>1 DEF AC!JobStates
  <2>4. JobsCurrent'
    <3>. SUFFICES ASSUME NEW t \in computing', cidr'.gen = t.gen PROVE t.request = cidr'.answers
      BY DEF JobsCurrent
    <3>1. t \in computing => t.gen <= cidrGen
      OBVIOUS
    <3>. QED
      BY <2>1, <3>1
  <2>. QED
    BY <2>1, <2>2, <2>3, <2>4
<1>2. CASE AC!Prefill
  <2>1. /\ asked' = asked + 1 /\ asked' \in AC!Requests /\ UNCHANGED <<cidrGen, computing>>
        /\ cidr' \in [state : {"Ready", "Failed"}, gen : {0}, answers : {asked + 1}]
    BY <1>2 DEF AC!Prefill, AC!Ask, AC!Requests, PageLimits
  <2>2. computing' \subseteq [gen : 1..cidrGen', request : 1..asked']
    BY <2>1 DEF AC!Requests, PageLimits
  <2>. QED
    BY <2>1, <2>2 DEF JobsCurrent, AC!JobStates
<1>3. CASE AC!EditInput
  BY <1>3 DEF AC!EditInput, JobsCurrent, AC!JobStates, AC!Requests
<1>4. ASSUME NEW t \in computing, AC!ComputeEnds(t)
      PROVE  CalculatorInv'
  <2>1. \/ cidr' = cidr
        \/ cidr' \in [state : {"Ready", "Failed"}, gen : {0}, answers : {asked}]
    BY <1>4 DEF AC!ComputeEnds, JobsCurrent
  <2>2. computing' \subseteq computing /\ UNCHANGED <<asked, cidrGen>>
    BY <1>4 DEF AC!ComputeEnds
  <2>. QED
    BY <2>1, <2>2 DEF JobsCurrent, AC!JobStates, AC!Requests
<1>. QED
  BY <1>1, <1>2, <1>3, <1>4

LEMMA PageStep ==
  ASSUME PageLimits, PageInv, [AC!Next]_(AC!vars)
  PROVE  PageInv'
<1>. USE DEF PageInv
<1>1. CASE AC!Change
  <2>. PICK parsed \in {"Loading", texts[active.id + 1]} :
            /\ active' = [id |-> active.id + 1, parsed |-> parsed]
            /\ AC!Sync([id |-> active.id + 1, parsed |-> parsed], FALSE)
    BY <1>1 DEF AC!Change
  <2>. DEFINE a == [id |-> active.id + 1, parsed |-> parsed]
  <2>1. active.id + 1 \in AC!Identities /\ texts[active.id + 1] \in AC!Outcomes
    BY <1>1 DEF AC!Change, AC!TypeOK, AC!Identities, PageLimits
  <2>2. /\ a \in [id : 0..MaxRevisions, parsed : {"None", "Loading"} \cup AC!Outcomes]
        /\ a.id \in AC!Identities /\ (a.parsed \in AC!Outcomes => a.parsed = texts[a.id])
    BY <2>1 DEF AC!Identities, AC!Outcomes, PageLimits
  <2>3. UNCHANGED <<texts, onPage, cidr, asked, cidrGen, computing>>
    BY <1>1 DEF AC!Change, AC!calculator
  <2>4. AC!SnapshotTruthful' /\ AC!TypeOK'
    BY <2>2, <2>3, SyncKeeps DEF AC!TypeOK
  <2>. QED
    BY <2>2, <2>3, <2>4 DEF ActiveNamed, ValidatedParsed, JobsCurrent, AC!AnswersLastRequest
<1>2. CASE AC!Validate
  BY <1>2
    DEF AC!Validate, AC!HasRequest, AC!bridge, AC!calculator, AC!TypeOK, ActiveNamed,
        ValidatedParsed, JobsCurrent, AC!SnapshotTruthful, AC!AnswersLastRequest
<1>3. CASE AC!OpenPage \/ AC!LeavePage \/ UNCHANGED AC!vars
  BY <1>3
    DEF AC!OpenPage, AC!LeavePage, AC!vars, AC!bridge, AC!calculator, AC!TypeOK, ActiveNamed,
        ValidatedParsed, JobsCurrent, AC!SnapshotTruthful, AC!AnswersLastRequest
<1>4. CASE AC!Render
  <2>1. AC!Sync(active, TRUE) /\ UNCHANGED <<texts, active, onPage, cidr, asked, cidrGen, computing>>
    BY <1>4 DEF AC!Render, AC!calculator
  <2>2. AC!SnapshotTruthful' /\ AC!TypeOK'
    BY <2>1, SyncKeeps DEF AC!TypeOK, ActiveNamed, ValidatedParsed
  <2>. QED
    BY <2>1, <2>2 DEF ActiveNamed, ValidatedParsed, JobsCurrent, AC!AnswersLastRequest
<1>5. ASSUME NEW p \in parses, AC!Look(p)
      PROVE  PageInv'
  <2>1. AC!TypeOK'
    BY <1>5 DEF AC!Look, AC!calculator, AC!TypeOK
  <2>2. AC!SnapshotTruthful'
    <3>1. snapshot' = snapshot /\ texts' = texts /\ generation' = generation
      BY <1>5 DEF AC!Look
    <3>2. CASE snapshot.state = "Loading"
      <4>1. PICK w \in parses : w.gen = generation /\ w.id = snapshot.id /\ ~w.cancelled
        BY <3>2 DEF AC!SnapshotTruthful
      <4>2. CASE w # p
        BY <1>5, <3>1, <3>2, <4>1, <4>2 DEF AC!Look, AC!SnapshotTruthful, AC!Outcomes
      <4>3. CASE w = p
        <5>. DEFINE looked == [p EXCEPT !.at = IF p.at = "start" THEN "read" ELSE "parsed"]
        <5>1. looked \in parses' /\ looked.gen = p.gen /\ looked.id = p.id
              /\ looked.cancelled = p.cancelled
          BY <1>5 DEF AC!Look, AC!TypeOK
        <5>. HIDE DEF looked
        <5>. QED
          BY <3>1, <3>2, <4>1, <4>3, <5>1 DEF AC!SnapshotTruthful, AC!Outcomes
      <4>. QED
        BY <4>2, <4>3
    <3>. QED
      BY <3>1, <3>2 DEF AC!SnapshotTruthful
  <2>. QED
    BY <1>5, <2>1, <2>2
      DEF AC!Look, AC!calculator, ActiveNamed, ValidatedParsed, JobsCurrent,
          AC!AnswersLastRequest
<1>6. ASSUME NEW p \in parses, AC!ParseEnds(p)
      PROVE  PageInv'
  <2>1. AC!TypeOK'
    <3>1. p.id \in AC!Identities /\ texts[p.id] \in AC!Outcomes /\ p.id \in 0..MaxRevisions
      BY DEF AC!TypeOK, AC!Identities, PageLimits
    <3>2. snapshot' \in AC!Snapshots
      BY <1>6, <3>1 DEF AC!ParseEnds, AC!Snapshots, AC!TypeOK
    <3>3. parses' \subseteq parses /\ cancellable' \in 0..generation /\ refresh' \in BOOLEAN
      <4>1. parses' \subseteq parses /\ (cancellable' = cancellable \/ cancellable' = 0)
        BY <1>6 DEF AC!ParseEnds
      <4>2. refresh' \in BOOLEAN
        BY <1>6 DEF AC!ParseEnds, AC!TypeOK
      <4>3. generation \in Nat /\ cancellable \in 0..generation
        BY DEF AC!TypeOK
      <4>. QED
        BY <4>1, <4>2, <4>3
    <3>. QED
      BY <1>6, <3>2, <3>3 DEF AC!ParseEnds, AC!calculator, AC!TypeOK
  <2>2. AC!SnapshotTruthful'
    BY <1>6 DEF AC!ParseEnds, AC!SnapshotTruthful, AC!TypeOK, AC!Outcomes
  <2>. QED
    BY <1>6, <2>1, <2>2
      DEF AC!ParseEnds, AC!calculator, ActiveNamed, ValidatedParsed, JobsCurrent,
          AC!AnswersLastRequest
<1>7. ASSUME CalculatorInv', UNCHANGED <<texts, active, onPage, AC!bridge>>
      PROVE  PageInv'
  BY <1>7
    DEF AC!bridge, AC!TypeOK, ActiveNamed, ValidatedParsed, AC!SnapshotTruthful, CalculatorInv
<1>8. ASSUME AC!Compute \/ AC!Prefill \/ AC!EditInput \/ \E t \in computing : AC!ComputeEnds(t)
      PROVE  PageInv'
  <2>1. CalculatorInv
    BY DEF AC!TypeOK, CalculatorInv
  <2>. QED
    BY <1>7, <1>8, <2>1, CalculatorStep
      DEF AC!Compute, AC!Prefill, AC!EditInput, AC!ComputeEnds
<1>. QED
  BY <1>1, <1>2, <1>3, <1>4, <1>5, <1>6, <1>8 DEF AC!Next, AC!Background

LEMMA PageInvariant == ASSUME PageLimits PROVE AC!Spec => []PageInv
BY PageInitially, PageStep, PTL DEF AC!Spec

(* The tools page never shows what the text of one config gives under the     *)
(* name of another, and while it waits there is a parse of what it waits for  *)
(* (sync_active_config_bridge): for any number of changes of the config.     *)
THEOREM PageTruthful == ASSUME PageLimits PROVE AC!Spec => []AC!SnapshotTruthful
<1>1. PageInv => AC!SnapshotTruthful
  BY DEF PageInv
<1>. QED
  BY <1>1, PageInvariant, PTL

(* The calculator answers what it was asked last, whichever of its jobs end   *)
(* late and whichever prefills come between.                                 *)
THEOREM CalculatorAnswers == ASSUME PageLimits PROVE AC!Spec => []AC!AnswersLastRequest
<1>1. PageInv => AC!AnswersLastRequest
  BY DEF PageInv
<1>. QED
  BY <1>1, PageInvariant, PTL

-----------------------------------------------------------------------------
(* The tests of reachability.                                                *)

LEMMA RcIn == ASSUME NEW s PROVE RC!ToSet(s) = In(s)
BY DEF RC!ToSet, In

LEMMA RcKept == ASSUME NEW s, NEW keep PROVE RC!KeptAt(s, keep) = KeptAt(s, keep)
BY DEF RC!KeptAt, RC!Nth, KeptAt, Nth, RC!Cardinality, Cardinality

(* order_addresses.                                                          *)
LEMMA DeduplicatedIs ==
  ASSUME NEW S, NEW s \in Seq(S)
  PROVE  RC!Deduplicated(s) \in Seq(S) /\ In(RC!Deduplicated(s)) = In(s)
<1>. DEFINE keep == {i \in DOMAIN s : \A k \in 1..(i - 1) : s[k] # s[i]}
            d == RC!Deduplicated(s)
<1>1. DOMAIN s = 1..Len(s) /\ Len(s) \in Nat
  OBVIOUS
<1>2. d = KeptAt(s, keep)
  BY RcKept DEF RC!Deduplicated
<1>3. keep \in SUBSET (DOMAIN s)
  OBVIOUS
<1>4. ASSUME NEW i \in DOMAIN s PROVE \E k \in keep : s[k] = s[i]
  <2>. DEFINE T == {k \in DOMAIN s : s[k] = s[i]}
  <2>1. T \subseteq Nat /\ T # {}
    BY <1>1
  <2>2. PICK k \in T : \A m \in T : k <= m
    BY <2>1, Least
  <2>3. \A m \in 1..(k - 1) : m \in DOMAIN s /\ ~(k <= m)
    BY <1>1
  <2>4. k \in keep
    BY <2>2, <2>3
  <2>. QED
    BY <2>4
<1>. HIDE DEF keep, d
<1>5. /\ d \in Seq(S)
      /\ \A m \in DOMAIN d : \E k \in keep : d[m] = s[k]
      /\ \A k \in keep : \E m \in DOMAIN d : d[m] = s[k]
  BY <1>2, <1>3, KeptSeq
<1>6. In(d) = In(s)
  BY <1>3, <1>4, <1>5 DEF In
<1>. QED
  BY <1>5, <1>6 DEF d

\* the preferred family first
LEMMA PreferredIs ==
  ASSUME NEW S, NEW s \in Seq(S), NEW p
  PROVE  /\ RC!Preferred(s, p) \in Seq(S) /\ In(RC!Preferred(s, p)) = In(s)
         /\ p # "system" =>
              \E n \in 0..Len(RC!Preferred(s, p)) : \A i \in 1..Len(RC!Preferred(s, p)) :
                 RC!Preferred(s, p)[i].family = p <=> i <= n
<1>. DEFINE own == {i \in DOMAIN s : s[i].family = p}
            other == DOMAIN s \ own
            o == KeptAt(s, own)
            r == KeptAt(s, other)
            q == RC!Preferred(s, p)
<1>1. CASE p = "system"
  BY <1>1 DEF RC!Preferred
<1>2. CASE p # "system"
  <2>1. q = o \o r
    BY <1>2, RcKept DEF RC!Preferred
  <2>2. own \in SUBSET (DOMAIN s) /\ other \in SUBSET (DOMAIN s)
    OBVIOUS
  <2>3. \A k \in DOMAIN s : k \in own \/ k \in other
    OBVIOUS
  <2>4. (\A k \in own : s[k].family = p) /\ (\A k \in other : s[k].family # p)
    OBVIOUS
  <2>. HIDE DEF own, other
  <2>5. /\ o \in Seq(S)
        /\ \A m \in DOMAIN o : \E k \in own : o[m] = s[k]
        /\ \A k \in own : \E m \in DOMAIN o : o[m] = s[k]
    BY <2>2, KeptSeq
  <2>6. /\ r \in Seq(S)
        /\ \A m \in DOMAIN r : \E k \in other : r[m] = s[k]
        /\ \A k \in other : \E m \in DOMAIN r : r[m] = s[k]
    BY <2>2, KeptSeq
  <2>. HIDE DEF o, r, q
  <2>7. /\ q \in Seq(S) /\ Len(q) = Len(o) + Len(r) /\ DOMAIN q = 1..(Len(o) + Len(r))
        /\ DOMAIN o = 1..Len(o) /\ DOMAIN r = 1..Len(r) /\ Len(o) \in Nat /\ Len(r) \in Nat
        /\ \A i \in 1..(Len(o) + Len(r)) : q[i] = IF i <= Len(o) THEN o[i] ELSE r[i - Len(o)]
    BY <2>1, <2>5, <2>6
  <2>8. \A i \in 1..(Len(o) + Len(r)) : i \in 1..Len(o) \/ (~(i <= Len(o)) /\ i - Len(o) \in 1..Len(r))
    BY <2>7
  <2>9. \A i \in 1..Len(r) : i + Len(o) \in 1..(Len(o) + Len(r)) /\ ~(i + Len(o) <= Len(o))
                             /\ (i + Len(o)) - Len(o) = i
    BY <2>7
  <2>10. \A i \in 1..Len(o) : i \in 1..(Len(o) + Len(r)) /\ i <= Len(o)
    BY <2>7
  <2>11. In(q) = In(o) \cup In(r)
    <3>1. In(q) \subseteq In(o) \cup In(r)
      BY <2>7, <2>8 DEF In
    <3>2. \A i \in 1..Len(o) : q[i] = o[i]
      BY <2>7, <2>10
    <3>3. \A i \in 1..Len(r) : q[i + Len(o)] = r[i]
      BY <2>7, <2>9
    <3>4. In(o) \subseteq In(q)
      BY <2>7, <2>10, <3>2 DEF In
    <3>5. In(r) \subseteq In(q)
      BY <2>7, <2>9, <3>3 DEF In
    <3>. QED
      BY <3>1, <3>4, <3>5
  <2>12. In(o) \cup In(r) = In(s)
    BY <2>2, <2>3, <2>5, <2>6 DEF In
  <2>13. \A i \in 1..Len(q) : q[i].family = p <=> i <= Len(o)
    <3>1. ASSUME NEW m \in 1..Len(o) PROVE o[m].family = p
      <4>1. PICK k \in own : o[m] = s[k]
        BY <2>5, <2>7
      <4>. QED
        BY <2>4, <4>1
    <3>2. ASSUME NEW m \in 1..Len(r) PROVE r[m].family # p
      <4>1. PICK k \in other : r[m] = s[k]
        BY <2>6, <2>7
      <4>. QED
        BY <2>4, <4>1
    <3>3. SUFFICES ASSUME NEW i \in 1..(Len(o) + Len(r)) PROVE q[i].family = p <=> i <= Len(o)
      BY <2>7
    <3>4. CASE i \in 1..Len(o)
      <4>1. q[i] = o[i] /\ i <= Len(o)
        BY <2>7, <3>4
      <4>. QED
        BY <3>1, <3>4, <4>1
    <3>5. CASE ~(i <= Len(o)) /\ i - Len(o) \in 1..Len(r)
      <4>1. q[i] = r[i - Len(o)]
        BY <2>7, <3>5
      <4>. QED
        BY <3>2, <3>5, <4>1
    <3>. QED
      BY <2>8, <3>4, <3>5
  <2>14. Len(o) \in 0..Len(q)
    BY <2>7
  <2>. QED
    BY <2>7, <2>11, <2>12, <2>13, <2>14 DEF q
<1>. QED
  BY <1>1, <1>2

LEMMA TruncatedIs ==
  ASSUME MaxAddresses \in Nat, NEW S, NEW s \in Seq(S)
  PROVE  /\ RC!Truncated(s) \in Seq(S)
         /\ Len(RC!Truncated(s)) = IF Len(s) < MaxAddresses THEN Len(s) ELSE MaxAddresses
         /\ Len(RC!Truncated(s)) <= Len(s)
         /\ \A i \in 1..Len(RC!Truncated(s)) : RC!Truncated(s)[i] = s[i]
<1>. DEFINE n == IF Len(s) < MaxAddresses THEN Len(s) ELSE MaxAddresses
            t == SubSeq(s, 1, n)
<1>1. n \in 0..Len(s) /\ Len(s) \in Nat
  OBVIOUS
<1>2. RC!Truncated(s) = t
  BY DEF RC!Truncated
<1>. HIDE DEF n
<1>3. t \in Seq(S) /\ Len(t) = n /\ \A i \in 1..n : t[i] = s[i]
  BY <1>1
<1>. HIDE DEF t
<1>. QED
  BY <1>1, <1>2, <1>3 DEF n

(* The limit leaves out one of the preferred family only for another of it.   *)
LEMMA OrderedIs ==
  ASSUME ReachBounded, NEW s \in Seq(Addrs), NEW p \in RC!Preferences
  PROVE  /\ RC!OrderAddresses(s, p) \in Seq(Addrs)
         /\ (\E a \in In(s) \ In(RC!OrderAddresses(s, p)) : a.family = p) =>
              \A a \in In(RC!OrderAddresses(s, p)) : a.family = p
<1>. DEFINE d == RC!Deduplicated(s)
            q == RC!Preferred(d, p)
            t == RC!OrderAddresses(s, p)
<1>1. d \in Seq(Addrs) /\ In(d) = In(s)
  BY DeduplicatedIs
<1>. HIDE DEF d
<1>2. /\ q \in Seq(Addrs) /\ In(q) = In(d)
      /\ p # "system" => \E n \in 0..Len(q) : \A i \in 1..Len(q) : q[i].family = p <=> i <= n
  BY <1>1, PreferredIs
<1>. HIDE DEF q
<1>3. /\ t \in Seq(Addrs) /\ Len(t) = IF Len(q) < MaxAddresses THEN Len(q) ELSE MaxAddresses
      /\ Len(t) <= Len(q) /\ \A i \in 1..Len(t) : t[i] = q[i]
  BY <1>2, TruncatedIs DEF RC!OrderAddresses, ReachBounded, d, q
<1>. HIDE DEF t
<1>4. SUFFICES ASSUME NEW a \in In(s) \ In(t), a.family = p, NEW b \in In(t)
               PROVE  b.family = p
  BY <1>3 DEF t
<1>5. a \in Addrs /\ p # "system"
  <2>1. a \in Addrs
    BY <1>1 DEF In
  <2>. QED
    BY <1>4, <2>1 DEF ReachBounded
<1>6. PICK n \in 0..Len(q) : \A i \in 1..Len(q) : q[i].family = p <=> i <= n
  BY <1>2, <1>5
<1>7. PICK i \in 1..Len(q) : q[i] = a
  <2>1. DOMAIN q = 1..Len(q) /\ a \in In(q)
    BY <1>1, <1>2
  <2>. QED
    BY <2>1 DEF In
<1>8. PICK k \in 1..Len(t) : t[k] = b
  BY <1>3 DEF In
<1>9. Len(q) \in Nat /\ Len(t) \in Nat /\ n \in Nat
  BY <1>2, <1>3
<1>10. ~(i <= Len(t))
  <2>1. ASSUME i <= Len(t) PROVE FALSE
    <3>1. i \in 1..Len(t) /\ DOMAIN t = 1..Len(t)
      BY <1>3, <1>9, <2>1
    <3>2. t[i] = a
      BY <1>3, <1>7, <3>1
    <3>. QED
      BY <3>1, <3>2 DEF In
  <2>. QED
    BY <2>1
<1>11. i <= n
  BY <1>4, <1>6, <1>7
<1>12. k \in 1..Len(q) /\ k <= n /\ t[k] = q[k]
  BY <1>3, <1>9, <1>10, <1>11
<1>. QED
  BY <1>6, <1>8, <1>12

-----------------------------------------------------------------------------
(* The single test.                                                          *)
Requests == [tcp : BOOLEAN, stop : BOOLEAN, prefer : RC!Preferences]
Singles ==
  [state : RC!JobStates,
   verdict : {"none", "Resolved", "Reachable", "PartiallyReachable", "Failed"},
   request : Requests, tried : Seq(Addrs), kept : Seq(Addrs)]
Probes ==
  [at : {"invalid", "resolve", "connect", "Failed", "Resolved"}, left : Seq(Addrs),
   tried : Seq(Addrs), connected : Nat]

Hosts(s) == {a.host : a \in In(s)}
\* what the attempts so far say: none, and all, of the hosts accept
CountsTell(tried, connected) ==
  /\ connected <= Len(tried)
  /\ connected = 0 <=> \A a \in In(tried) : a.host \notin up
  /\ connected = Len(tried) <=> \A a \in In(tried) : a.host \in up

TestTypes ==
  /\ single \in Singles
  /\ single.state = "Running" => probe \in Probes
  /\ single.state # "Running" => probe = RC!NoProbe
Testing ==
  single.state = "Running" =>
    /\ probe.at \in {"invalid", "resolve", "Failed", "Resolved"} => probe.tried = <<>> /\ probe.connected = 0
    /\ probe.at \in {"invalid", "resolve", "Failed"} => single.kept = <<>>
    /\ probe.at = "Resolved" => ~single.request.tcp
    /\ probe.at = "connect" =>
         /\ CountsTell(probe.tried, probe.connected)
         /\ In(probe.tried) \subseteq In(single.kept) /\ In(probe.left) \subseteq In(single.kept)
         /\ In(single.kept) \subseteq In(probe.tried) \cup In(probe.left) \/ probe.connected > 0
Verdicts ==
  single.state = "Ready" /\ single.request.tcp =>
    /\ single.verdict = "Failed" <=> Hosts(single.kept) \cap up = {}
    /\ single.verdict = "Reachable" <=> single.tried # <<>> /\ Hosts(single.tried) \subseteq up

TestInv == TestTypes /\ Testing /\ Verdicts

LEMMA AddressAppended ==
  ASSUME NEW s \in Seq(Addrs), NEW a \in Addrs
  PROVE  /\ Append(s, a) \in Seq(Addrs) /\ Len(Append(s, a)) = Len(s) + 1 /\ Len(s) \in Nat
         /\ In(Append(s, a)) = In(s) \cup {a}
<1>1. /\ Len(s) \in Nat /\ DOMAIN s = 1..Len(s)
      /\ Append(s, a) \in Seq(Addrs) /\ Len(Append(s, a)) = Len(s) + 1
      /\ DOMAIN Append(s, a) = 1..(Len(s) + 1)
      /\ \A i \in 1..Len(s) : Append(s, a)[i] = s[i]
      /\ Append(s, a)[Len(s) + 1] = a
  OBVIOUS
<1>2. \A i \in 1..(Len(s) + 1) : i \in 1..Len(s) \/ i = Len(s) + 1
  BY <1>1
<1>. QED
  BY <1>1, <1>2 DEF In

LEMMA AddressTaken ==
  ASSUME NEW s \in Seq(Addrs), s # <<>>
  PROVE  /\ Tail(s) \in Seq(Addrs) /\ Head(s) \in Addrs
         /\ Head(s) \in In(s) /\ In(s) = {Head(s)} \cup In(Tail(s))
<1>1. /\ Len(s) \in Nat /\ DOMAIN s = 1..Len(s) /\ Len(s) > 0
      /\ Tail(s) \in Seq(Addrs) /\ Len(Tail(s)) = Len(s) - 1 /\ Head(s) \in Addrs
      /\ DOMAIN Tail(s) = 1..(Len(s) - 1) /\ Head(s) = s[1]
      /\ \A i \in 1..(Len(s) - 1) : Tail(s)[i] = s[i + 1]
  OBVIOUS
<1>2. \A i \in 1..(Len(s) - 1) : i + 1 \in 1..Len(s)
  BY <1>1
<1>3. \A i \in 1..Len(s) : i = 1 \/ (i - 1 \in 1..(Len(s) - 1) /\ (i - 1) + 1 = i)
  BY <1>1
<1>4. In(Tail(s)) \subseteq In(s)
  BY <1>1, <1>2 DEF In
<1>5. ASSUME NEW x \in In(s) PROVE x = Head(s) \/ x \in In(Tail(s))
  <2>1. PICK i \in 1..Len(s) : s[i] = x
    BY <1>1 DEF In
  <2>2. CASE i = 1
    BY <1>1, <2>1, <2>2
  <2>3. CASE i # 1
    <3>1. Tail(s)[i - 1] = x /\ i - 1 \in DOMAIN Tail(s)
      BY <1>1, <1>3, <2>1, <2>3
    <3>. QED
      BY <3>1 DEF In
  <2>. QED
    BY <2>2, <2>3
<1>6. Head(s) \in In(s)
  BY <1>1 DEF In
<1>. QED
  BY <1>1, <1>4, <1>5, <1>6

LEMMA RunTestStep == ASSUME ReachBounded, TestInv, RC!RunTest PROVE TestInv'
<1>1. PICK target \in RC!Targets, tcp \in BOOLEAN, override \in BOOLEAN, stop \in BOOLEAN,
           p \in RC!Preferences :
        /\ single' = [state |-> "Running", verdict |-> "none",
                      request |-> [tcp |-> tcp, stop |-> stop, prefer |-> p],
                      tried |-> <<>>, kept |-> <<>>]
        /\ probe' = [at |-> RC!NormalizeRequest(target, override, tcp),
                     left |-> <<>>, tried |-> <<>>, connected |-> 0]
  BY DEF RC!RunTest
<1>2. RC!NormalizeRequest(target, override, tcp) \in {"invalid", "resolve"}
  BY DEF RC!NormalizeRequest
<1>3. <<>> \in Seq(Addrs)
  OBVIOUS
<1>4. [tcp |-> tcp, stop |-> stop, prefer |-> p] \in Requests
  BY DEF Requests
<1>5. single' \in Singles /\ single'.state = "Running" /\ single'.kept = <<>>
  BY <1>1, <1>3, <1>4 DEF Singles, RC!JobStates
<1>6. probe' \in Probes /\ probe'.at \in {"invalid", "resolve"} /\ probe'.tried = <<>>
      /\ probe'.connected = 0
  BY <1>1, <1>2, <1>3 DEF Probes
<1>. QED
  BY <1>5, <1>6 DEF TestInv, TestTypes, Testing, Verdicts

LEMMA ResolveStep ==
  ASSUME ReachBounded, TestInv, RC!Resolve PROVE TestInv'
<1>. USE DEF TestInv
<1>1. PICK addrs \in Answers \cup {<<>>} :
        /\ probe' = [probe EXCEPT !.left = RC!OrderAddresses(addrs, single.request.prefer),
                       !.at = IF RC!OrderAddresses(addrs, single.request.prefer) = <<>> THEN "Failed"
                              ELSE IF single.request.tcp THEN "connect" ELSE "Resolved"]
        /\ single' = [single EXCEPT !.kept = RC!OrderAddresses(addrs, single.request.prefer)]
  BY DEF RC!Resolve
<1>. DEFINE kept == RC!OrderAddresses(addrs, single.request.prefer)
<1>2. probe.at = "resolve" /\ single \in Singles
  BY DEF RC!Resolve, TestTypes
<1>3. /\ single.state = "Running" /\ probe \in Probes /\ probe.tried = <<>> /\ single.kept = <<>>
      /\ probe.connected = 0 /\ UNCHANGED up
  BY <1>2 DEF RC!NoProbe, TestTypes, Testing, RC!Resolve, RC!world
<1>4. kept \in Seq(Addrs)
  <2>1. addrs \in Seq(Addrs)
    <3>1. <<>> \in Seq(Addrs)
      OBVIOUS
    <3>. QED
      BY <3>1 DEF ReachBounded
  <2>2. single.request.prefer \in RC!Preferences
    BY <1>2 DEF Singles, Requests
  <2>. QED
    BY <2>1, <2>2, OrderedIs
<1>. DEFINE goes == IF kept = <<>> THEN "Failed" ELSE IF single.request.tcp THEN "connect" ELSE "Resolved"
<1>5. /\ probe' = [probe EXCEPT !.left = kept, !.at = goes] /\ single' = [single EXCEPT !.kept = kept]
      /\ goes \in {"Failed", "connect", "Resolved"} /\ (goes = "Failed" => kept = <<>>)
      /\ (goes = "Resolved" => ~single.request.tcp)
  BY <1>1
<1>. HIDE DEF kept, goes
<1>6. /\ probe' \in Probes /\ probe'.at = goes /\ probe'.left = kept /\ probe'.tried = <<>>
  BY <1>3, <1>4, <1>5 DEF Probes
<1>7. /\ single' \in Singles /\ single'.state = "Running" /\ single'.kept = kept
      /\ single'.request = single.request
  BY <1>2, <1>3, <1>4, <1>5 DEF Singles
<1>8. probe'.connected = probe.connected
  BY <1>3, <1>5 DEF Probes
<1>9. CountsTell(probe.tried, probe.connected)'
  <2>1. probe'.tried = <<>> /\ probe'.connected = 0
    BY <1>3, <1>6, <1>8
  <2>2. In(<<>>) = {} /\ Len(<<>>) = 0
    BY DEF In
  <2>. QED
    BY <2>1, <2>2 DEF CountsTell
<1>10. In(probe'.tried) = {}
  BY <1>6 DEF In
<1>11. Testing'
  <2>1. /\ probe'.tried = <<>> /\ probe'.connected = 0 /\ probe'.left = single'.kept
        /\ probe'.at \in {"Failed", "connect", "Resolved"}
        /\ (probe'.at = "Failed" => single'.kept = <<>>)
        /\ (probe'.at = "Resolved" => ~single'.request.tcp)
    BY <1>3, <1>5, <1>6, <1>7, <1>8
  <2>. QED
    BY <1>9, <1>10, <2>1 DEF Testing
<1>. QED
  BY <1>6, <1>7, <1>11 DEF TestTypes, Verdicts

LEMMA ConnectStep == ASSUME ReachBounded, TestInv, RC!Connect PROVE TestInv'
<1>. USE DEF TestInv
<1>1. /\ probe.at = "connect" /\ probe.left # <<>> /\ UNCHANGED <<up, single>>
      /\ single.state = "Running" /\ probe \in Probes
  BY DEF RC!Connect, RC!world, RC!NoProbe, TestTypes
<1>. DEFINE a == Head(probe.left)
            now == probe.connected + (IF a.host \in up THEN 1 ELSE 0)
            left == IF RC!Stops(now) THEN <<>> ELSE Tail(probe.left)
<1>2. probe' = [probe EXCEPT !.tried = Append(@, a), !.connected = now, !.left = left]
  BY DEF RC!Connect
<1>3. /\ Tail(probe.left) \in Seq(Addrs) /\ a \in Addrs /\ a \in In(probe.left)
      /\ In(probe.left) = {a} \cup In(Tail(probe.left)) /\ probe.tried \in Seq(Addrs)
      /\ probe.connected \in Nat
  BY <1>1, AddressTaken DEF Probes
<1>. HIDE DEF a
<1>4. /\ Append(probe.tried, a) \in Seq(Addrs) /\ Len(Append(probe.tried, a)) = Len(probe.tried) + 1
      /\ Len(probe.tried) \in Nat /\ In(Append(probe.tried, a)) = In(probe.tried) \cup {a}
  BY <1>3, AddressAppended
<1>5. now \in Nat /\ left \in Seq(Addrs)
  BY <1>3
<1>6. RC!Stops(now) => now > 0
  BY DEF RC!Stops
<1>7. /\ probe' \in Probes /\ probe'.at = "connect" /\ probe'.tried = Append(probe.tried, a)
      /\ probe'.connected = now /\ probe'.left = left
  <2>. HIDE DEF now, left
  <2>. QED
    BY <1>1, <1>2, <1>4, <1>5 DEF Probes
<1>8. /\ CountsTell(probe.tried, probe.connected) /\ In(probe.tried) \subseteq In(single.kept)
      /\ In(probe.left) \subseteq In(single.kept)
      /\ In(single.kept) \subseteq In(probe.tried) \cup In(probe.left) \/ probe.connected > 0
  BY <1>1 DEF Testing
<1>9. CountsTell(probe.tried, probe.connected)'
  <2>. DEFINE c == probe.connected
              n == Len(probe.tried)
  <2>3. /\ c \in Nat /\ n \in Nat /\ c <= n
        /\ c = 0 <=> \A b \in In(probe.tried) : b.host \notin up
        /\ c = n <=> \A b \in In(probe.tried) : b.host \in up
    BY <1>3, <1>4, <1>8 DEF CountsTell
  <2>4. /\ probe'.connected = now /\ Len(probe'.tried) = n + 1 /\ up' = up
        /\ In(probe'.tried) = In(probe.tried) \cup {a}
    BY <1>1, <1>4, <1>7
  <2>1. CASE a.host \in up
    <3>1. probe'.connected = c + 1
      BY <2>1, <2>4
    <3>. HIDE DEF now, c, n
    <3>. QED
      BY <2>1, <2>3, <2>4, <3>1 DEF CountsTell
  <2>2. CASE a.host \notin up
    <3>1. probe'.connected = c
      BY <1>3, <2>2, <2>4
    <3>. HIDE DEF now, c, n
    <3>. QED
      BY <2>2, <2>3, <2>4, <3>1 DEF CountsTell
  <2>. QED
    BY <2>1, <2>2
<1>10. /\ In(probe'.tried) \subseteq In(single'.kept)
       /\ In(probe'.left) \subseteq In(single'.kept)
       /\ In(single'.kept) \subseteq In(probe'.tried) \cup In(probe'.left) \/ probe'.connected > 0
  <2>1. single' = single /\ a \in In(single.kept)
    BY <1>1, <1>3, <1>8
  <2>2. In(probe'.tried) = In(probe.tried) \cup {a}
    BY <1>4, <1>7
  <2>3. CASE RC!Stops(now)
    <3>1. probe'.left = <<>> /\ probe'.connected > 0
      BY <1>6, <1>7, <2>3
    <3>2. In(probe'.left) = {}
      BY <3>1 DEF In
    <3>. QED
      BY <1>8, <2>1, <2>2, <3>1, <3>2
  <2>4. CASE ~RC!Stops(now)
    <3>1. probe'.left = Tail(probe.left)
      BY <1>7, <2>4
    <3>2. probe.connected > 0 => probe'.connected > 0
      BY <1>3, <1>7
    <3>. HIDE DEF now, left
    <3>. QED
      BY <1>3, <1>8, <2>1, <2>2, <3>1, <3>2
  <2>. QED
    BY <2>3, <2>4
<1>11. Testing'
  BY <1>1, <1>7, <1>9, <1>10 DEF Testing
<1>12. TestTypes' /\ Verdicts'
  BY <1>1, <1>7 DEF TestTypes, Verdicts
<1>. QED
  BY <1>11, <1>12

LEMMA TestEndsStep == ASSUME ReachBounded, TestInv, RC!TestEnds PROVE TestInv'
<1>. USE DEF TestInv
<1>. DEFINE verdict == CASE probe.at = "connect" -> RC!Verdict(probe.tried, probe.connected)
                         [] probe.at = "invalid" -> "none"
                         [] OTHER                -> probe.at
            state == IF probe.at = "invalid" THEN "Failed" ELSE "Ready"
<1>1. /\ single' = [single EXCEPT !.state = state, !.verdict = verdict, !.tried = probe.tried]
      /\ probe' = RC!NoProbe /\ UNCHANGED up
      /\ \/ probe.at = "connect" /\ probe.left = <<>>
         \/ probe.at \in {"Failed", "Resolved", "invalid"}
  BY DEF RC!TestEnds, RC!world
<1>2. single.state = "Running" /\ probe \in Probes /\ single \in Singles
  BY <1>1 DEF RC!NoProbe, TestTypes
<1>3. verdict \in {"none", "Resolved", "Reachable", "PartiallyReachable", "Failed"}
  BY <1>1 DEF RC!Verdict
<1>4. state \in {"Failed", "Ready"} /\ probe.tried \in Seq(Addrs)
  BY <1>2 DEF Probes
<1>5. (state = "Ready") => probe.at # "invalid"
  OBVIOUS
<1>6. /\ probe.at = "connect" => verdict = RC!Verdict(probe.tried, probe.connected)
      /\ probe.at \in {"Failed", "Resolved"} => verdict = probe.at
  OBVIOUS
<1>. HIDE DEF verdict, state
<1>7. /\ single' \in Singles /\ single'.state = state /\ single'.verdict = verdict
      /\ single'.tried = probe.tried /\ single'.kept = single.kept
      /\ single'.request = single.request
  BY <1>1, <1>2, <1>3, <1>4 DEF Singles, RC!JobStates
<1>8. TestTypes' /\ Testing'
  BY <1>1, <1>4, <1>7 DEF TestTypes, Testing
<1>9. ASSUME state = "Ready", single.request.tcp
      PROVE  /\ verdict = "Failed" <=> Hosts(single.kept) \cap up = {}
             /\ verdict = "Reachable" <=> probe.tried # <<>> /\ Hosts(probe.tried) \subseteq up
  <2>1. CASE probe.at = "connect"
    <3>1. /\ CountsTell(probe.tried, probe.connected) /\ In(probe.tried) \subseteq In(single.kept)
          /\ In(single.kept) \subseteq In(probe.tried) \cup In(probe.left) \/ probe.connected > 0
      BY <1>2, <2>1 DEF Testing
    <3>2. In(probe.left) = {} /\ probe.tried \in Seq(Addrs) /\ probe.connected \in Nat
      BY <1>1, <1>2, <2>1 DEF In, Probes
    <3>3. probe.connected = 0 <=> Hosts(single.kept) \cap up = {}
      BY <3>1, <3>2 DEF CountsTell, Hosts
    <3>4. probe.connected = Len(probe.tried) <=> Hosts(probe.tried) \subseteq up
      BY <3>1, <3>2 DEF CountsTell, Hosts
    <3>5. verdict = IF probe.connected = 0 THEN "Failed"
                    ELSE IF probe.connected = Len(probe.tried) THEN "Reachable"
                    ELSE "PartiallyReachable"
      BY <1>6, <2>1 DEF RC!Verdict
    <3>6. probe.connected <= Len(probe.tried)
      BY <3>1 DEF CountsTell
    <3>7. probe.tried = <<>> <=> Len(probe.tried) = 0
      BY <3>2
    <3>. QED
      BY <3>2, <3>3, <3>4, <3>5, <3>6, <3>7
  <2>2. CASE probe.at = "Failed"
    <3>1. single.kept = <<>> /\ probe.tried = <<>> /\ verdict = "Failed"
      BY <1>2, <1>6, <2>2 DEF Testing
    <3>2. Hosts(<<>>) = {}
      BY DEF Hosts, In
    <3>. QED
      BY <3>1, <3>2
  <2>3. CASE probe.at = "Resolved"
    BY <1>2, <1>9, <2>3 DEF Testing
  <2>. QED
    BY <1>1, <1>5, <1>9, <2>1, <2>2, <2>3
<1>10. Verdicts'
  BY <1>1, <1>7, <1>9 DEF Verdicts
<1>. QED
  BY <1>8, <1>10

LEMMA TestIdles ==
  ASSUME TestInv, UNCHANGED <<up, single, probe>> PROVE TestInv'
BY DEF TestInv, TestTypes, Testing, Verdicts, CountsTell

-----------------------------------------------------------------------------
(* The audit.  What it counts after k configs, and at its end.               *)
EndsTo(k) == UNION {{i} \X (1..RC!EndpointsOf(saved[i])) : i \in 1..k}
IssuesTo(k) == {i \in 1..k : RC!EndpointsOf(saved[i]) = 0}
Ends == Cardinality(EndsTo(Len(saved)))
Issues == Cardinality(IssuesTo(Len(saved)))

LEMMA OneMore ==
  ASSUME NEW k \in Nat, IsFiniteSet(EndsTo(k))
  PROVE  /\ IsFiniteSet(EndsTo(k + 1)) /\ Cardinality(EndsTo(k)) \in Nat
         /\ Cardinality(EndsTo(k + 1)) = Cardinality(EndsTo(k)) + RC!EndpointsOf(saved[k + 1])
         /\ Cardinality(IssuesTo(k)) \in Nat /\ RC!EndpointsOf(saved[k + 1]) \in Nat
         /\ Cardinality(IssuesTo(k + 1)) =
              Cardinality(IssuesTo(k)) + IF RC!EndpointsOf(saved[k + 1]) = 0 THEN 1 ELSE 0
<1>. DEFINE e == RC!EndpointsOf(saved[k + 1])
            new == {k + 1} \X (1..e)
<1>1. e \in Nat
  BY DEF RC!EndpointsOf
<1>2. \A i : i \in 1..(k + 1) <=> i \in 1..k \/ i = k + 1
  OBVIOUS
<1>3. ASSUME TRUE PROVE EndsTo(k + 1) = EndsTo(k) \cup new
  BY <1>2 DEF EndsTo
<1>4. EndsTo(k) \cap new = {}
  <2>1. \A i \in 1..k : i # k + 1
    OBVIOUS
  <2>. QED
    BY <2>1 DEF EndsTo
<1>. HIDE DEF e
<1>5. IsFiniteSet(new) /\ Cardinality(new) = e
  <2>1. IsFiniteSet({k + 1}) /\ Cardinality({k + 1}) = 1
    BY FS_Singleton
  <2>2. IsFiniteSet(1..e) /\ Cardinality(1..e) = e
    BY <1>1, FS_Interval
  <2>. DEFINE one == {k + 1}
              ends == 1..e
  <2>. HIDE DEF one, ends
  <2>3. /\ IsFiniteSet(one \X ends)
        /\ Cardinality(one \X ends) = Cardinality(one) * Cardinality(ends)
    BY <2>1, <2>2, FS_Product DEF one, ends
  <2>4. new = one \X ends
    BY DEF one, ends
  <2>5. Cardinality(one) = 1 /\ Cardinality(ends) = e
    BY <2>1, <2>2 DEF one, ends
  <2>6. 1 * e = e
    BY <1>1
  <2>7. Cardinality(one \X ends) = 1 * e
    BY <2>3, <2>5
  <2>. HIDE DEF new
  <2>. QED
    BY <2>3, <2>4, <2>6, <2>7
<1>. HIDE DEF new
<1>6. Cardinality(EndsTo(k)) \in Nat
  BY FS_CardinalityType
<1>7. IsFiniteSet(EndsTo(k + 1)) /\ Cardinality(EndsTo(k + 1)) = Cardinality(EndsTo(k)) + e
  <2>1. /\ IsFiniteSet(EndsTo(k) \cup new)
        /\ Cardinality(EndsTo(k) \cup new)
             = Cardinality(EndsTo(k)) + Cardinality(new) - Cardinality(EndsTo(k) \cap new)
    BY <1>5, FS_Union
  <2>2. Cardinality(EndsTo(k) \cap new) = 0
    BY <1>4, FS_EmptySet
  <2>. DEFINE c == Cardinality(EndsTo(k))
  <2>3. c \in Nat /\ Cardinality(EndsTo(k) \cup new) = c + e - 0
    BY <1>5, <1>6, <2>1, <2>2
  <2>. HIDE DEF c
  <2>4. Cardinality(EndsTo(k) \cup new) = c + e
    BY <1>1, <2>3
  <2>. QED
    BY <1>3, <2>1, <2>4 DEF c
<1>8. IsFiniteSet(IssuesTo(k)) /\ Cardinality(IssuesTo(k)) \in Nat
  <2>1. IsFiniteSet(1..k)
    BY FS_Interval
  <2>2. IssuesTo(k) \subseteq 1..k
    BY DEF IssuesTo
  <2>. QED
    BY <2>1, <2>2, FS_Subset, FS_CardinalityType
<1>9. Cardinality(IssuesTo(k + 1)) = Cardinality(IssuesTo(k)) + IF e = 0 THEN 1 ELSE 0
  <2>1. k + 1 \notin IssuesTo(k)
    BY DEF IssuesTo
  <2>2. CASE e = 0
    <3>1. IssuesTo(k + 1) = IssuesTo(k) \cup {k + 1}
      BY <1>2, <2>2 DEF IssuesTo, e
    <3>2. Cardinality(IssuesTo(k) \cup {k + 1}) = Cardinality(IssuesTo(k)) + 1
      BY <1>8, <2>1, FS_AddElement
    <3>. QED
      BY <2>2, <3>1, <3>2
  <2>3. CASE e # 0
    <3>1. IssuesTo(k + 1) = IssuesTo(k)
      BY <1>2, <2>3 DEF IssuesTo, e
    <3>. QED
      BY <1>8, <2>3, <3>1
  <2>. QED
    BY <2>2, <2>3
<1>. QED
  BY <1>1, <1>6, <1>7, <1>8, <1>9 DEF e

LEMMA NoneYet ==
  /\ IsFiniteSet(EndsTo(0)) /\ Cardinality(EndsTo(0)) = 0 /\ Cardinality(IssuesTo(0)) = 0
<1>1. EndsTo(0) = {} /\ IssuesTo(0) = {}
  BY DEF EndsTo, IssuesTo
<1>. QED
  BY <1>1, FS_EmptySet

LEMMA AllAre ==
  ASSUME saved \in Seq(Kinds)
  PROVE  RC!AllEndpoints = Ends /\ RC!Issues = Issues
<1>1. DOMAIN saved = 1..Len(saved)
  OBVIOUS
<1>2. \A S : RC!Cardinality(S) = Cardinality(S)
  BY DEF RC!Cardinality, Cardinality
<1>3. RC!AllEndpoints = Ends
  BY <1>1, <1>2 DEF RC!AllEndpoints, Ends, EndsTo
<1>4. RC!Issues = Issues
  BY <1>1, <1>2 DEF RC!Issues, Issues, IssuesTo
<1>. QED
  BY <1>3, <1>4

Tasks ==
  [at : {"load", "probe", "sort", "done", "failed", "cancelled"}, todo : Seq(Kinds),
   jobs : Nat, running : Nat, rows : Nat]
Audits == [state : RC!JobStates, gen : 0..MaxRuns, rows : Nat]
Progresses == RC!Progress \cup {RC!NoProgress}

AuditTypes ==
  /\ saved \in Seq(Kinds) /\ runs \in 0..MaxRuns
  /\ audit \in Audits /\ audit.gen <= runs
  /\ audit.state = "Running" => task \in Tasks
  /\ audit.state # "Running" => task = RC!NoTask
  /\ progress \in [1..MaxRuns -> Progresses] /\ shown \in Progresses
  /\ pollers \subseteq 1..audit.gen /\ cancelled \in BOOLEAN /\ cancelling \in BOOLEAN

\* k configs are loaded: what is left, and what was counted
Loaded(k, t, p) ==
  /\ Len(t.todo) = Len(saved) - k /\ \A i \in 1..Len(t.todo) : t.todo[i] = saved[k + i]
  /\ IsFiniteSet(EndsTo(k)) /\ t.jobs = Cardinality(EndsTo(k))
  /\ t.rows = Cardinality(IssuesTo(k)) /\ t.running = 0
  /\ p.processed = k /\ p.completed = 0
Counts(t, p) ==
  /\ p \in RC!Progress /\ p.gen = audit.gen
  /\ t.at = "load" => \E k \in 0..Len(saved) : Loaded(k, t, p)
  /\ t.at \in {"probe", "sort", "done"} =>
       p.processed = Len(saved) /\ p.endpoints = Ends /\ t.rows = Issues + p.completed
       /\ Ends \in Nat /\ Issues \in Nat
  /\ t.at = "probe" => t.jobs + t.running + p.completed = Ends
  /\ t.at \in {"sort", "done"} => p.completed = Ends
  /\ t.at = "done" => p.phase = "Completed"
Counting ==
  audit.state = "Running" => audit.gen \in 1..MaxRuns /\ Counts(task, progress[audit.gen])
Reports ==
  /\ audit.state = "Ready" =>
       /\ audit.rows = Issues + Ends
       /\ shown = [gen |-> audit.gen, phase |-> "Completed", processed |-> Len(saved),
                   endpoints |-> Ends, completed |-> Ends]
  /\ audit.state = "Running" => shown.gen = audit.gen
  /\ audit.state = "Idle" => shown = RC!NoProgress
  /\ cancelling => audit.state = "Running"

AuditInv == AuditTypes /\ Counting /\ Reports

(* The task goes on: what has to be said of it and its progress.             *)
LEMMA TaskGoesOn ==
  ASSUME ReachBounded, AuditInv, audit.state = "Running", RC!OfTask,
         NEW t \in Tasks, task' = t, NEW p,
         \/ progress' = [progress EXCEPT ![audit.gen] = p]
         \/ progress' = progress /\ p = progress[audit.gen],
         Counts(t, p)
  PROVE  AuditInv'
<1>. USE DEF AuditInv
<1>1. UNCHANGED <<saved, runs, audit, shown, pollers, cancelled, cancelling>>
  BY DEF RC!OfTask, RC!world
<1>2. audit.gen \in 1..MaxRuns /\ p \in Progresses
  BY DEF Counting, Counts, Progresses
<1>3. progress' \in [1..MaxRuns -> Progresses] /\ progress'[audit.gen] = p
  BY <1>2 DEF AuditTypes
<1>4. AuditTypes'
  BY <1>1, <1>3 DEF AuditTypes
<1>5. Counting'
  <2>1. Counts(t, p)'
    BY <1>1 DEF Counts, Loaded, EndsTo, IssuesTo, Ends, Issues
  <2>. QED
    BY <1>1, <1>2, <1>3, <2>1 DEF Counting
<1>6. Reports'
  BY <1>1 DEF Reports, EndsTo, IssuesTo, Ends, Issues
<1>. QED
  BY <1>4, <1>5, <1>6

LEMMA TaskNow ==
  ASSUME AuditInv, task # RC!NoTask
  PROVE  /\ audit.state = "Running" /\ task \in Tasks /\ RC!Current \in RC!Progress
         /\ RC!Current = progress[audit.gen] /\ Counts(task, RC!Current)
BY DEF AuditInv, AuditTypes, Counting, Counts, RC!Current

LEMMA NextConfig ==
  ASSUME saved \in Seq(Kinds), NEW todo \in Seq(Kinds), todo # <<>>, NEW k \in 0..Len(saved),
         Len(todo) = Len(saved) - k, \A i \in 1..Len(todo) : todo[i] = saved[k + i]
  PROVE  /\ k + 1 \in 0..Len(saved) /\ Head(todo) = saved[k + 1] /\ Tail(todo) \in Seq(Kinds)
         /\ Len(Tail(todo)) = Len(saved) - (k + 1)
         /\ \A i \in 1..Len(Tail(todo)) : Tail(todo)[i] = saved[(k + 1) + i]
<1>1. Len(saved) \in Nat /\ Len(todo) \in Nat /\ Len(todo) > 0
  OBVIOUS
<1>2. k + 1 \in 0..Len(saved)
  BY <1>1
<1>3. Head(todo) = todo[1] /\ 1 \in 1..Len(todo)
  BY <1>1
<1>4. /\ Tail(todo) \in Seq(Kinds) /\ Len(Tail(todo)) = Len(todo) - 1
      /\ \A i \in 1..(Len(todo) - 1) : Tail(todo)[i] = todo[i + 1]
  BY <1>1
<1>5. Len(Tail(todo)) = Len(saved) - (k + 1)
  BY <1>1, <1>4
<1>6. ASSUME NEW i \in 1..Len(Tail(todo)) PROVE Tail(todo)[i] = saved[(k + 1) + i]
  <2>1. i \in 1..(Len(todo) - 1) /\ i + 1 \in 1..Len(todo) /\ k + (i + 1) = (k + 1) + i
    BY <1>1, <1>4
  <2>. QED
    BY <1>4, <2>1
<1>. QED
  BY <1>2, <1>3, <1>4, <1>5, <1>6

LEMMA LoadConfigStep == ASSUME ReachBounded, AuditInv, RC!LoadConfig PROVE AuditInv'
<1>. DEFINE n == RC!EndpointsOf(Head(task.todo))
            t == [task EXCEPT !.todo = Tail(@), !.jobs = @ + n,
                    !.rows = IF n = 0 THEN @ + 1 ELSE @]
            p == [RC!Current EXCEPT !.processed = @ + 1, !.endpoints = @ + n]
<1>1. /\ task.at = "load" /\ task.todo # <<>> /\ RC!OfTask /\ task' = t
      /\ progress' = [progress EXCEPT ![audit.gen] = p]
  BY DEF RC!LoadConfig, RC!Tell
<1>2. /\ audit.state = "Running" /\ task \in Tasks /\ RC!Current \in RC!Progress
      /\ RC!Current = progress[audit.gen] /\ Counts(task, RC!Current)
  BY <1>1, TaskNow DEF RC!NoTask
<1>3. PICK k \in 0..Len(saved) : Loaded(k, task, RC!Current)
  BY <1>1, <1>2 DEF Counts
<1>4. saved \in Seq(Kinds) /\ task.todo \in Seq(Kinds) /\ k \in Nat
  BY <1>2 DEF AuditInv, AuditTypes, Tasks
<1>5. /\ k + 1 \in 0..Len(saved) /\ Head(task.todo) = saved[k + 1] /\ Tail(task.todo) \in Seq(Kinds)
      /\ Len(Tail(task.todo)) = Len(saved) - (k + 1)
      /\ \A i \in 1..Len(Tail(task.todo)) : Tail(task.todo)[i] = saved[(k + 1) + i]
  BY <1>1, <1>3, <1>4, NextConfig DEF Loaded
<1>6. /\ IsFiniteSet(EndsTo(k + 1)) /\ Cardinality(EndsTo(k)) \in Nat
      /\ Cardinality(EndsTo(k + 1)) = Cardinality(EndsTo(k)) + n
      /\ Cardinality(IssuesTo(k)) \in Nat /\ n \in Nat
      /\ Cardinality(IssuesTo(k + 1)) = Cardinality(IssuesTo(k)) + IF n = 0 THEN 1 ELSE 0
  BY <1>3, <1>4, <1>5, OneMore DEF Loaded
<1>. HIDE DEF n
<1>7. /\ t \in Tasks /\ t.at = "load" /\ t.todo = Tail(task.todo) /\ t.jobs = task.jobs + n
      /\ t.rows = (IF n = 0 THEN task.rows + 1 ELSE task.rows) /\ t.running = task.running
  <2>. DEFINE todo == Tail(task.todo)
              j == task.jobs + n
              r == IF n = 0 THEN task.rows + 1 ELSE task.rows
  <2>1. todo \in Seq(Kinds) /\ j \in Nat /\ r \in Nat
    BY <1>2, <1>5, <1>6 DEF Tasks
  <2>. HIDE DEF todo, j, r
  <2>2. t = [task EXCEPT !.todo = todo, !.jobs = j, !.rows = r]
    BY DEF todo, j, r
  <2>. HIDE DEF t
  <2>3. /\ t \in Tasks /\ t.at = task.at /\ t.todo = todo /\ t.jobs = j /\ t.rows = r
        /\ t.running = task.running
    BY <1>2, <2>1, <2>2 DEF Tasks
  <2>. QED
    BY <1>1, <2>3 DEF todo, j, r
<1>8. /\ p \in RC!Progress /\ p.gen = RC!Current.gen /\ p.processed = RC!Current.processed + 1
      /\ p.completed = RC!Current.completed
  <2>. DEFINE c == RC!Current
  <2>. HIDE DEF c
  <2>1. c \in RC!Progress
    BY <1>2 DEF c
  <2>2. p = [c EXCEPT !.processed = c.processed + 1, !.endpoints = c.endpoints + n]
    BY DEF c
  <2>3. c.processed + 1 \in Nat /\ c.endpoints + n \in Nat
    BY <1>6, <2>1 DEF RC!Progress
  <2>. HIDE DEF p
  <2>4. /\ p \in RC!Progress /\ p.gen = c.gen /\ p.processed = c.processed + 1
        /\ p.completed = c.completed
    BY <2>1, <2>2, <2>3 DEF RC!Progress
  <2>. QED
    BY <2>4 DEF c
<1>. HIDE DEF t, p
<1>9. Loaded(k + 1, t, p)
  BY <1>3, <1>5, <1>6, <1>7, <1>8 DEF Loaded
<1>10. Counts(t, p)
  BY <1>2, <1>5, <1>7, <1>8, <1>9 DEF Counts
<1>. QED
  BY <1>1, <1>2, <1>7, <1>10, TaskGoesOn

LEMMA LoadStoppedStep == ASSUME ReachBounded, AuditInv, RC!LoadStopped PROVE AuditInv'
<1>1. PICK goes \in {"failed", "cancelled"} : task' = [task EXCEPT !.at = goes]
  BY DEF RC!LoadStopped, RC!TaskFails, RC!TaskCancelled
<1>2. task.at = "load" /\ RC!OfTask /\ progress' = progress
  BY DEF RC!LoadStopped
<1>3. /\ audit.state = "Running" /\ task \in Tasks /\ RC!Current \in RC!Progress
      /\ RC!Current = progress[audit.gen] /\ Counts(task, RC!Current)
  BY <1>2, TaskNow DEF RC!NoTask
<1>. DEFINE t == [task EXCEPT !.at = goes]
<1>4. t \in Tasks /\ t.at = goes
  BY <1>3 DEF Tasks
<1>. HIDE DEF t
<1>5. Counts(t, RC!Current)
  BY <1>3, <1>4 DEF Counts
<1>6. task' = t
  BY <1>1 DEF t
<1>. QED
  BY <1>2, <1>3, <1>4, <1>5, <1>6, TaskGoesOn

LEMMA LoadDoneStep == ASSUME ReachBounded, AuditInv, RC!LoadDone PROVE AuditInv'
<1>. DEFINE t == [task EXCEPT !.at = "probe"]
            p == [RC!Current EXCEPT !.phase = "ProbingEndpoints", !.endpoints = task.jobs]
<1>1. /\ task.at = "load" /\ task.todo = <<>> /\ RC!OfTask /\ task' = t
      /\ progress' = [progress EXCEPT ![audit.gen] = p]
  BY DEF RC!LoadDone, RC!Tell
<1>2. /\ audit.state = "Running" /\ task \in Tasks /\ RC!Current \in RC!Progress
      /\ RC!Current = progress[audit.gen] /\ Counts(task, RC!Current)
  BY <1>1, TaskNow DEF RC!NoTask
<1>3. PICK k \in 0..Len(saved) : Loaded(k, task, RC!Current)
  BY <1>1, <1>2 DEF Counts
<1>4. saved \in Seq(Kinds) /\ Len(saved) \in Nat
  BY DEF AuditInv, AuditTypes
<1>5. k = Len(saved)
  <2>1. Len(task.todo) = 0 /\ Len(task.todo) = Len(saved) - k
    BY <1>1, <1>3 DEF Loaded
  <2>. QED
    BY <1>4, <2>1
<1>6. /\ task.jobs = Ends /\ task.rows = Issues /\ task.running = 0 /\ Ends \in Nat /\ Issues \in Nat
      /\ RC!Current.processed = Len(saved) /\ RC!Current.completed = 0
  <2>1. IsFiniteSet(EndsTo(k)) => Cardinality(EndsTo(k)) \in Nat
    BY FS_CardinalityType
  <2>2. task.rows \in Nat
    BY <1>2 DEF Tasks
  <2>. QED
    BY <1>3, <1>5, <2>1, <2>2 DEF Loaded, Ends, Issues
<1>7. /\ t \in Tasks /\ t.at = "probe" /\ t.jobs = task.jobs /\ t.rows = task.rows
      /\ t.running = task.running
  BY <1>2 DEF Tasks
<1>8. /\ p \in RC!Progress /\ p.gen = RC!Current.gen /\ p.processed = RC!Current.processed
      /\ p.completed = RC!Current.completed /\ p.endpoints = task.jobs
  <2>. DEFINE c == RC!Current
              j == task.jobs
  <2>1. j \in Nat
    BY <1>2 DEF Tasks
  <2>. HIDE DEF c, j
  <2>2. c \in RC!Progress
    BY <1>2 DEF c
  <2>3. p = [c EXCEPT !.phase = "ProbingEndpoints", !.endpoints = j]
    BY DEF c, j
  <2>. QED
    BY <2>1, <2>2, <2>3 DEF RC!Progress, c, j
<1>. HIDE DEF t, p
<1>9. Counts(t, p)
  <2>1. p.completed = 0 /\ t.rows = Issues + p.completed
    BY <1>6, <1>7, <1>8
  <2>2. t.jobs + t.running + p.completed = Ends
    BY <1>6, <1>7, <1>8
  <2>3. p.gen = audit.gen /\ p.processed = Len(saved) /\ p.endpoints = Ends
    BY <1>2, <1>6, <1>8 DEF Counts
  <2>. QED
    BY <1>6, <1>7, <1>8, <2>1, <2>2, <2>3 DEF Counts
<1>. QED
  BY <1>1, <1>2, <1>7, <1>9, TaskGoesOn

LEMMA StartProbeStep == ASSUME ReachBounded, AuditInv, RC!StartProbe PROVE AuditInv'
<1>1. task.at = "probe" /\ task.jobs > 0 /\ RC!OfTask
  BY DEF RC!StartProbe
<1>2. /\ audit.state = "Running" /\ task \in Tasks /\ RC!Current \in RC!Progress
      /\ RC!Current = progress[audit.gen] /\ Counts(task, RC!Current)
  BY <1>1, TaskNow DEF RC!NoTask
<1>3. CASE cancelled
  <2>. DEFINE t == [task EXCEPT !.at = "cancelled"]
              p == [RC!Current EXCEPT !.completed = @ + 1]
  <2>1. task' = t /\ progress' = [progress EXCEPT ![audit.gen] = p]
    BY <1>3 DEF RC!StartProbe, RC!TaskCancelled, RC!Tell
  <2>2. t \in Tasks /\ t.at = "cancelled"
    BY <1>2 DEF Tasks
  <2>3. p \in RC!Progress /\ p.gen = RC!Current.gen
    BY <1>2 DEF RC!Progress
  <2>. HIDE DEF t, p
  <2>4. Counts(t, p)
    BY <1>2, <2>2, <2>3 DEF Counts
  <2>. QED
    BY <1>1, <1>2, <2>1, <2>2, <2>4, TaskGoesOn
<1>4. CASE ~cancelled
  <2>. DEFINE t == [task EXCEPT !.jobs = @ - 1, !.running = @ + 1]
  <2>1. task' = t /\ progress' = progress
    BY <1>4 DEF RC!StartProbe
  <2>2. /\ t \in Tasks /\ t.at = "probe" /\ t.jobs = task.jobs - 1 /\ t.running = task.running + 1
        /\ t.rows = task.rows
    <3>1. task.jobs \in Nat /\ task.running \in Nat
      BY <1>2 DEF Tasks
    <3>2. task.jobs - 1 \in Nat /\ task.running + 1 \in Nat
      BY <1>1, <3>1
    <3>. QED
      BY <1>1, <1>2, <3>2 DEF Tasks
  <2>3. RC!Current.completed \in Nat /\ task.jobs \in Nat /\ task.running \in Nat
    BY <1>2 DEF Tasks, RC!Progress
  <2>. HIDE DEF t
  <2>4. t.jobs + t.running + RC!Current.completed
          = task.jobs + task.running + RC!Current.completed
    BY <2>2, <2>3
  <2>5. Counts(t, RC!Current)
    BY <1>1, <1>2, <2>2, <2>4 DEF Counts
  <2>. QED
    BY <1>1, <1>2, <2>1, <2>2, <2>5, TaskGoesOn
<1>. QED
  BY <1>3, <1>4

LEMMA ProbeEndsStep == ASSUME ReachBounded, AuditInv, RC!ProbeEnds PROVE AuditInv'
<1>. DEFINE p == [RC!Current EXCEPT !.completed = @ + 1]
            c == RC!Current.completed
<1>1. /\ task.at = "probe" /\ task.running > 0 /\ RC!OfTask
      /\ progress' = [progress EXCEPT ![audit.gen] = p]
      /\ \/ task' = [task EXCEPT !.running = @ - 1, !.rows = @ + 1]
         \/ task' = [task EXCEPT !.at = "cancelled"]
  BY DEF RC!ProbeEnds, RC!TaskCancelled, RC!Tell
<1>2. /\ audit.state = "Running" /\ task \in Tasks /\ RC!Current \in RC!Progress
      /\ RC!Current = progress[audit.gen] /\ Counts(task, RC!Current)
  BY <1>1, TaskNow DEF RC!NoTask
<1>3. /\ p \in RC!Progress /\ p.gen = RC!Current.gen /\ p.completed = c + 1
      /\ p.processed = RC!Current.processed /\ p.endpoints = RC!Current.endpoints /\ c \in Nat
  BY <1>2 DEF RC!Progress
<1>. HIDE DEF p, c
<1>4. CASE task' = [task EXCEPT !.running = @ - 1, !.rows = @ + 1]
  <2>. DEFINE t == [task EXCEPT !.running = @ - 1, !.rows = @ + 1]
  <2>1. /\ t \in Tasks /\ t.at = "probe" /\ t.running = task.running - 1 /\ t.rows = task.rows + 1
        /\ t.jobs = task.jobs /\ task.running \in Nat /\ task.jobs \in Nat
    <3>1. task.rows \in Nat /\ task.running \in Nat /\ task.jobs \in Nat
      BY <1>2 DEF Tasks
    <3>2. task.rows + 1 \in Nat /\ task.running - 1 \in Nat
      BY <1>1, <3>1
    <3>. QED
      BY <1>1, <1>2, <3>1, <3>2 DEF Tasks
  <2>. HIDE DEF t
  <2>2. /\ task.rows = Issues + c /\ task.jobs + task.running + c = Ends /\ Issues \in Nat
    BY <1>1, <1>2 DEF Counts, c
  <2>3. t.rows = Issues + p.completed /\ t.jobs + t.running + p.completed = Ends
    BY <1>3, <2>1, <2>2
  <2>4. Counts(t, p)
    BY <1>1, <1>2, <1>3, <2>1, <2>3 DEF Counts
  <2>5. task' = t
    BY <1>4 DEF t
  <2>. QED
    BY <1>1, <1>2, <2>1, <2>4, <2>5, TaskGoesOn
<1>5. CASE task' = [task EXCEPT !.at = "cancelled"]
  <2>. DEFINE t == [task EXCEPT !.at = "cancelled"]
  <2>1. t \in Tasks /\ t.at = "cancelled"
    BY <1>2 DEF Tasks
  <2>. HIDE DEF t
  <2>2. Counts(t, p)
    BY <1>2, <1>3, <2>1 DEF Counts
  <2>3. task' = t
    BY <1>5 DEF t
  <2>. QED
    BY <1>1, <1>2, <2>1, <2>2, <2>3, TaskGoesOn
<1>. QED
  BY <1>1, <1>4, <1>5

LEMMA ProbesDoneStep == ASSUME ReachBounded, AuditInv, RC!ProbesDone PROVE AuditInv'
<1>. DEFINE t == [task EXCEPT !.at = "sort"]
            p == [RC!Current EXCEPT !.phase = "Finalizing"]
<1>1. /\ task.at = "probe" /\ task.jobs = 0 /\ task.running = 0 /\ RC!OfTask /\ task' = t
      /\ progress' = [progress EXCEPT ![audit.gen] = p]
  BY DEF RC!ProbesDone, RC!Tell
<1>2. /\ audit.state = "Running" /\ task \in Tasks /\ RC!Current \in RC!Progress
      /\ RC!Current = progress[audit.gen] /\ Counts(task, RC!Current)
  BY <1>1, TaskNow DEF RC!NoTask
<1>3. t \in Tasks /\ t.at = "sort" /\ t.rows = task.rows
  BY <1>2 DEF Tasks
<1>4. /\ p \in RC!Progress /\ p.gen = RC!Current.gen /\ p.completed = RC!Current.completed
      /\ p.processed = RC!Current.processed /\ p.endpoints = RC!Current.endpoints
      /\ RC!Current.completed \in Nat
  BY <1>2 DEF RC!Progress
<1>. HIDE DEF t, p
<1>5. p.completed = Ends
  <2>1. 0 + 0 + RC!Current.completed = Ends
    BY <1>1, <1>2 DEF Counts
  <2>. QED
    BY <1>4, <2>1
<1>6. Counts(t, p)
  BY <1>1, <1>2, <1>3, <1>4, <1>5 DEF Counts
<1>. QED
  BY <1>1, <1>2, <1>3, <1>6, TaskGoesOn

LEMMA SortRowsStep == ASSUME ReachBounded, AuditInv, RC!SortRows PROVE AuditInv'
<1>. DEFINE t == [task EXCEPT !.at = "done"]
            p == [RC!Current EXCEPT !.phase = "Completed"]
<1>1. /\ task.at = "sort" /\ RC!OfTask /\ task' = t
      /\ progress' = [progress EXCEPT ![audit.gen] = p]
  BY DEF RC!SortRows, RC!Tell
<1>2. /\ audit.state = "Running" /\ task \in Tasks /\ RC!Current \in RC!Progress
      /\ RC!Current = progress[audit.gen] /\ Counts(task, RC!Current)
  BY <1>1, TaskNow DEF RC!NoTask
<1>3. t \in Tasks /\ t.at = "done" /\ t.rows = task.rows
  BY <1>2 DEF Tasks
<1>4. /\ p \in RC!Progress /\ p.gen = RC!Current.gen /\ p.completed = RC!Current.completed
      /\ p.processed = RC!Current.processed /\ p.endpoints = RC!Current.endpoints
      /\ p.phase = "Completed"
  BY <1>2 DEF RC!Progress
<1>. HIDE DEF t, p
<1>5. Counts(t, p)
  BY <1>1, <1>2, <1>3, <1>4 DEF Counts
<1>. QED
  BY <1>1, <1>2, <1>3, <1>5, TaskGoesOn

(* The user and the poller.                                                  *)
LEMMA RunAuditStep == ASSUME ReachBounded, AuditInv, RC!RunAudit PROVE AuditInv'
<1>. USE DEF AuditInv
<1>. DEFINE gen == audit.gen + 1
            start == [gen |-> gen, phase |-> "LoadingConfigs", processed |-> 0,
                      endpoints |-> 0, completed |-> 0]
            t == [at |-> "load", todo |-> saved, jobs |-> 0, running |-> 0, rows |-> 0]
<1>1. /\ audit.state # "Running" /\ runs < MaxRuns /\ runs' = runs + 1 /\ saved' = saved
      /\ audit' = [state |-> "Running", gen |-> gen, rows |-> 0]
      /\ progress' = [progress EXCEPT ![gen] = start] /\ shown' = start
      /\ pollers' = pollers \cup {gen} /\ task' = t
      /\ cancelled' = FALSE /\ cancelling' = FALSE
  BY DEF RC!RunAudit, RC!Free, RC!world
<1>2. audit \in Audits /\ audit.gen \in Nat /\ runs \in Nat /\ audit.gen <= runs /\ MaxRuns \in Nat
  BY DEF AuditTypes, Audits, ReachBounded
<1>3. gen \in 1..MaxRuns /\ gen \in 0..MaxRuns /\ gen <= runs' /\ runs' \in 0..MaxRuns
      /\ 1..audit.gen \subseteq 1..gen
  BY <1>1, <1>2
<1>. HIDE DEF gen
<1>4. /\ start \in RC!Progress /\ start.gen = gen /\ start.processed = 0 /\ start.completed = 0
  BY <1>3 DEF RC!Progress
<1>5. saved \in Seq(Kinds) /\ Len(saved) \in Nat
  BY DEF AuditTypes
<1>6. t \in Tasks /\ t.at = "load" /\ t.todo = saved /\ t.jobs = 0 /\ t.rows = 0 /\ t.running = 0
  BY <1>5 DEF Tasks
<1>7. audit' \in Audits /\ audit'.gen = gen /\ audit'.state = "Running"
  BY <1>1, <1>3 DEF Audits, RC!JobStates
<1>. HIDE DEF start, t
<1>8. progress' \in [1..MaxRuns -> Progresses] /\ progress'[gen] = start
  BY <1>1, <1>3, <1>4 DEF AuditTypes, Progresses
<1>9. AuditTypes'
  <2>1. pollers' \subseteq 1..gen
    BY <1>1, <1>3 DEF AuditTypes
  <2>2. shown' \in Progresses
    BY <1>1, <1>4 DEF Progresses
  <2>. QED
    BY <1>1, <1>3, <1>5, <1>6, <1>7, <1>8, <2>1, <2>2 DEF AuditTypes
<1>10. Loaded(0, task, progress[audit.gen])'
  <2>1. EndsTo(0)' = EndsTo(0) /\ IssuesTo(0)' = IssuesTo(0)
    BY <1>1 DEF EndsTo, IssuesTo
  <2>2. IsFiniteSet(EndsTo(0)) /\ Cardinality(EndsTo(0)) = 0 /\ Cardinality(IssuesTo(0)) = 0
    BY NoneYet
  <2>3. \A i \in 1..Len(saved) : 0 + i = i
    OBVIOUS
  <2>4. Len(saved) - 0 = Len(saved)
    BY <1>5
  <2>5. task' = t /\ progress'[audit'.gen] = start /\ saved' = saved
    BY <1>1, <1>7, <1>8
  <2>. QED
    BY <1>4, <1>6, <2>1, <2>2, <2>3, <2>4, <2>5 DEF Loaded
<1>11. Counting'
  <2>1. 0 \in 0..Len(saved') /\ task' = t /\ progress'[audit'.gen] = start
    BY <1>1, <1>5, <1>7, <1>8
  <2>. QED
    BY <1>3, <1>4, <1>6, <1>7, <1>10, <2>1 DEF Counting, Counts
<1>12. Reports'
  BY <1>1, <1>4, <1>7 DEF Reports
<1>. QED
  BY <1>9, <1>11, <1>12

LEMMA CancelAuditStep == ASSUME ReachBounded, AuditInv, RC!CancelAudit PROVE AuditInv'
<1>1. /\ UNCHANGED <<saved, runs, audit, task, progress, shown, pollers>>
      /\ audit.state = "Running" /\ cancelled' = TRUE /\ cancelling' = TRUE
  BY DEF RC!CancelAudit, RC!world
<1>2. AuditTypes'
  BY <1>1 DEF AuditInv, AuditTypes
<1>3. Counting'
  BY <1>1 DEF AuditInv, Counting, Counts, Loaded, EndsTo, IssuesTo, Ends, Issues
<1>4. Reports'
  BY <1>1 DEF AuditInv, Reports
<1>. QED
  BY <1>2, <1>3, <1>4 DEF AuditInv

LEMMA AuditEndsStep == ASSUME ReachBounded, AuditInv, RC!AuditEnds PROVE AuditInv'
<1>. DEFINE state == CASE task.at = "done"   -> "Ready"
                       [] task.at = "failed" -> "Failed"
                       [] OTHER              -> "Idle"
            rows == IF task.at = "done" THEN task.rows ELSE 0
<1>1. /\ task.at \in {"done", "failed", "cancelled"} /\ task' = RC!NoTask
      /\ audit' = [audit EXCEPT !.rows = rows, !.state = state]
      /\ shown' = (IF task.at = "cancelled" THEN RC!NoProgress ELSE RC!Current)
      /\ cancelling' = FALSE
      /\ UNCHANGED <<saved, runs, progress, pollers, cancelled>>
  BY DEF RC!AuditEnds, RC!world
<1>2. /\ audit.state = "Running" /\ task \in Tasks /\ RC!Current \in RC!Progress
      /\ RC!Current = progress[audit.gen] /\ Counts(task, RC!Current)
  BY <1>1, TaskNow DEF RC!NoTask
<1>3. /\ state \in {"Ready", "Failed", "Idle"} /\ rows \in Nat
      /\ state = "Ready" <=> task.at = "done"
      /\ state = "Idle" <=> task.at = "cancelled"
  BY <1>1, <1>2 DEF Tasks
<1>4. task.at = "done" => rows = task.rows
  OBVIOUS
<1>. HIDE DEF state, rows
<1>5. /\ audit' \in Audits /\ audit'.state = state /\ audit'.rows = rows /\ audit'.gen = audit.gen
  BY <1>1, <1>3 DEF AuditInv, AuditTypes, Audits, RC!JobStates
<1>6. AuditTypes'
  BY <1>1, <1>2, <1>3, <1>5 DEF AuditInv, AuditTypes, Progresses
<1>7. Counting'
  BY <1>3, <1>5 DEF Counting
<1>8. Issues' = Issues /\ Ends' = Ends /\ Len(saved') = Len(saved)
  BY <1>1 DEF EndsTo, IssuesTo, Ends, Issues
<1>9. ASSUME state = "Ready"
      PROVE  /\ rows = Issues + Ends
             /\ shown' = [gen |-> audit.gen, phase |-> "Completed", processed |-> Len(saved),
                          endpoints |-> Ends, completed |-> Ends]
  <2>1. task.at = "done" /\ shown' = RC!Current
    BY <1>1, <1>3, <1>9
  <2>2. /\ RC!Current.processed = Len(saved) /\ RC!Current.endpoints = Ends
        /\ task.rows = Issues + RC!Current.completed /\ RC!Current.completed = Ends
        /\ RC!Current.phase = "Completed" /\ RC!Current.gen = audit.gen
    BY <1>2, <2>1 DEF Counts
  <2>3. RC!Current = [gen |-> RC!Current.gen, phase |-> RC!Current.phase,
                      processed |-> RC!Current.processed, endpoints |-> RC!Current.endpoints,
                      completed |-> RC!Current.completed]
    BY <1>2 DEF RC!Progress
  <2>. QED
    BY <1>4, <2>1, <2>2, <2>3
<1>10. Reports'
  <2>1. state = "Idle" => shown' = RC!NoProgress
    BY <1>1, <1>3
  <2>. QED
    BY <1>1, <1>3, <1>5, <1>8, <1>9, <2>1 DEF Reports
<1>. QED
  BY <1>6, <1>7, <1>10 DEF AuditInv

LEMMA PollStep ==
  ASSUME ReachBounded, AuditInv, NEW gen \in pollers, RC!Poll(gen) PROVE AuditInv'
<1>1. UNCHANGED <<saved, runs, audit, task, progress, cancelled, cancelling>>
  BY DEF RC!Poll, RC!world
<1>2. Counting'
  BY <1>1 DEF AuditInv, Counting, Counts, Loaded, EndsTo, IssuesTo, Ends, Issues
<1>3. CASE audit.state = "Running" /\ audit.gen = gen
  <2>1. shown' = progress[audit.gen] /\ pollers' = pollers
    BY <1>3 DEF RC!Poll
  <2>2. audit.gen \in 1..MaxRuns /\ Counts(task, progress[audit.gen])
    BY <1>3 DEF AuditInv, Counting
  <2>3. shown' \in Progresses /\ shown'.gen = audit.gen
    BY <2>1, <2>2 DEF Counts, Progresses
  <2>4. AuditTypes' /\ Reports'
    BY <1>1, <1>3, <2>1, <2>3 DEF AuditInv, AuditTypes, Reports
  <2>. QED
    BY <1>2, <2>4 DEF AuditInv
<1>4. CASE ~(audit.state = "Running" /\ audit.gen = gen)
  <2>1. shown' = shown /\ pollers' = pollers \ {gen}
    BY <1>4 DEF RC!Poll
  <2>2. AuditTypes' /\ Reports'
    BY <1>1, <2>1 DEF AuditInv, AuditTypes, Reports, EndsTo, IssuesTo, Ends, Issues
  <2>. QED
    BY <1>2, <2>2 DEF AuditInv
<1>. QED
  BY <1>3, <1>4

\* a test leaves the audit alone
LEMMA AuditIdles ==
  ASSUME ReachBounded, AuditInv, runs' \in {runs, runs + 1}, runs' <= MaxRuns,
         UNCHANGED <<saved, audit, task, progress, shown, pollers, cancelled, cancelling>>
  PROVE  AuditInv'
<1>1. runs \in Nat /\ audit.gen \in Nat /\ audit.gen <= runs /\ MaxRuns \in Nat
  BY DEF AuditInv, AuditTypes, Audits, ReachBounded
<1>2. runs' \in 0..MaxRuns /\ audit.gen <= runs'
  BY <1>1
<1>3. AuditTypes'
  BY <1>2 DEF AuditInv, AuditTypes
<1>4. Counting'
  BY DEF AuditInv, Counting, Counts, Loaded, EndsTo, IssuesTo, Ends, Issues
<1>5. Reports'
  BY DEF AuditInv, Reports, EndsTo, IssuesTo, Ends, Issues
<1>. QED
  BY <1>3, <1>4, <1>5 DEF AuditInv

-----------------------------------------------------------------------------
ReachInv == TestInv /\ AuditInv

LEMMA ReachInitially == ASSUME ReachBounded, RC!Init PROVE ReachInv
<1>1. <<>> \in Seq(Addrs)
  OBVIOUS
<1>2. single = [state |-> "Idle", verdict |-> "none", tried |-> <<>>, kept |-> <<>>,
                request |-> [tcp |-> FALSE, stop |-> TRUE, prefer |-> "v4"]]
      /\ probe = RC!NoProbe
  BY DEF RC!Init
<1>3. [tcp |-> FALSE, stop |-> TRUE, prefer |-> "v4"] \in Requests
  BY DEF Requests, RC!Preferences
<1>4. single \in Singles /\ single.state = "Idle"
  BY <1>1, <1>2, <1>3 DEF Singles, RC!JobStates
<1>5. TestInv
  BY <1>2, <1>4 DEF TestInv, TestTypes, Testing, Verdicts
<1>6. /\ saved \in SavedConfigs /\ runs = 0 /\ audit = [state |-> "Idle", gen |-> 0, rows |-> 0]
      /\ task = RC!NoTask /\ progress = [g \in 1..MaxRuns |-> RC!NoProgress]
      /\ shown = RC!NoProgress /\ pollers = {} /\ cancelled = FALSE /\ cancelling = FALSE
  BY DEF RC!Init
<1>7. saved \in Seq(Kinds) /\ 0 \in 0..MaxRuns
  BY <1>6 DEF ReachBounded
<1>8. audit \in Audits /\ audit.gen = 0 /\ audit.state = "Idle"
  BY <1>6, <1>7 DEF Audits, RC!JobStates
<1>9. AuditTypes
  <2>1. progress \in [1..MaxRuns -> Progresses]
    BY <1>6 DEF Progresses
  <2>2. shown \in Progresses /\ pollers \subseteq 1..audit.gen
    BY <1>6 DEF Progresses
  <2>3. runs \in 0..MaxRuns /\ audit.gen <= runs
    BY <1>6, <1>7, <1>8
  <2>4. audit.state # "Running" /\ task = RC!NoTask
    BY <1>6, <1>8
  <2>5. cancelled \in BOOLEAN /\ cancelling \in BOOLEAN
    BY <1>6
  <2>. QED
    BY <1>7, <1>8, <2>1, <2>2, <2>3, <2>4, <2>5 DEF AuditTypes
<1>10. Counting /\ Reports
  BY <1>6, <1>8 DEF Counting, Reports
<1>. QED
  BY <1>5, <1>9, <1>10 DEF ReachInv, AuditInv

LEMMA ReachStep == ASSUME ReachBounded, ReachInv, RC!Next PROVE ReachInv'
<1>. USE DEF ReachInv
<1>1. CASE RC!RunTest
  <2>1. /\ runs < MaxRuns /\ runs' = runs + 1
        /\ UNCHANGED <<saved, audit, task, progress, shown, pollers, cancelled, cancelling>>
    BY <1>1 DEF RC!RunTest, RC!world, RC!batch
  <2>2. runs' <= MaxRuns
    BY <2>1 DEF AuditInv, AuditTypes, ReachBounded
  <2>3. AuditInv'
    BY <2>1, <2>2, AuditIdles
  <2>. QED
    BY <1>1, <2>3, RunTestStep
<1>2. CASE RC!TestStep
  <2>1. UNCHANGED <<saved, runs, audit, task, progress, shown, pollers, cancelled, cancelling>>
    BY <1>2 DEF RC!TestStep, RC!Resolve, RC!Connect, RC!TestEnds, RC!world, RC!batch
  <2>2. runs' <= MaxRuns
    BY <2>1 DEF AuditInv, AuditTypes, ReachBounded
  <2>3. AuditInv'
    BY <2>1, <2>2, AuditIdles
  <2>. QED
    BY <1>2, <2>3, ResolveStep, ConnectStep, TestEndsStep DEF RC!TestStep
<1>3. CASE RC!RunAudit
  <2>1. UNCHANGED <<up, single, probe>>
    BY <1>3 DEF RC!RunAudit, RC!world, RC!singleTest
  <2>. QED
    BY <1>3, <2>1, RunAuditStep, TestIdles
<1>4. CASE RC!CancelAudit
  <2>1. UNCHANGED <<up, single, probe>>
    BY <1>4 DEF RC!CancelAudit, RC!world, RC!singleTest
  <2>. QED
    BY <1>4, <2>1, CancelAuditStep, TestIdles
<1>5. CASE RC!AuditStep
  <2>1. RC!OfTask
    BY <1>5 DEF RC!AuditStep, RC!LoadConfig, RC!LoadStopped, RC!LoadDone, RC!StartProbe,
      RC!ProbeEnds, RC!ProbesDone, RC!SortRows
  <2>2. UNCHANGED <<up, single, probe>>
    BY <2>1 DEF RC!OfTask, RC!world, RC!singleTest
  <2>3. AuditInv'
    BY <1>5, LoadConfigStep, LoadStoppedStep, LoadDoneStep, StartProbeStep, ProbeEndsStep,
      ProbesDoneStep, SortRowsStep DEF RC!AuditStep
  <2>. QED
    BY <2>2, <2>3, TestIdles
<1>6. CASE RC!AuditEnds
  <2>1. UNCHANGED <<up, single, probe>>
    BY <1>6 DEF RC!AuditEnds, RC!world, RC!singleTest
  <2>. QED
    BY <1>6, <2>1, AuditEndsStep, TestIdles
<1>7. CASE \E gen \in pollers : RC!Poll(gen)
  <2>1. UNCHANGED <<up, single, probe>>
    BY <1>7 DEF RC!Poll, RC!world, RC!singleTest
  <2>. QED
    BY <1>7, <2>1, PollStep, TestIdles
<1>. QED
  BY <1>1, <1>2, <1>3, <1>4, <1>5, <1>6, <1>7 DEF RC!Next

LEMMA ReachStutters ==
  ASSUME ReachBounded, ReachInv, UNCHANGED <<v1, v2, v3, v4, v5, v6, v7, v8, v9, v10, v11, v12>>
  PROVE  ReachInv'
<1>1. TestInv'
  BY TestIdles DEF ReachInv
<1>2. runs' <= MaxRuns
  BY DEF ReachInv, AuditInv, AuditTypes, ReachBounded
<1>3. AuditInv'
  BY <1>2, AuditIdles DEF ReachInv
<1>. QED
  BY <1>1, <1>3 DEF ReachInv

LEMMA ReachTruths ==
  ASSUME ReachBounded, ReachInv
  PROVE  RC!TypeOK /\ RC!VerdictTrue /\ RC!AuditReports
<1>. USE DEF ReachInv
<1>1. (probe # RC!NoProbe) = (single.state = "Running")
  <2>1. probe \in Probes => probe # RC!NoProbe
    BY DEF Probes, RC!NoProbe
  <2>. QED
    BY <2>1 DEF TestInv, TestTypes
<1>2. (task # RC!NoTask) = (audit.state = "Running")
  <2>1. task \in Tasks => task # RC!NoTask
    BY DEF Tasks, RC!NoTask
  <2>. QED
    BY <2>1 DEF AuditInv, AuditTypes
<1>3. /\ single.state \in RC!JobStates
      /\ single.verdict \in {"none", "Resolved", "Reachable", "PartiallyReachable", "Failed"}
      /\ audit.state \in RC!JobStates /\ audit.gen \in 0..MaxRuns
  BY DEF TestInv, TestTypes, Singles, AuditInv, AuditTypes, Audits
<1>4. /\ progress \in [1..MaxRuns -> RC!Progress \cup {RC!NoProgress}]
      /\ shown \in RC!Progress \cup {RC!NoProgress}
      /\ pollers \subseteq 1..audit.gen /\ cancelled \in BOOLEAN /\ cancelling \in BOOLEAN
  BY DEF AuditInv, AuditTypes, Progresses
<1>5. RC!TypeOK
  BY <1>1, <1>2, <1>3, <1>4 DEF RC!TypeOK
<1>6. ASSUME NEW addrs \in Answers, NEW p \in RC!Preferences
      PROVE  (\E a \in RC!ToSet(addrs) \ RC!ToSet(RC!OrderAddresses(addrs, p)) : a.family = p)
               => \A a \in RC!ToSet(RC!OrderAddresses(addrs, p)) : a.family = p
  BY OrderedIs, RcIn DEF ReachBounded
<1>7. RC!VerdictTrue
  <2>1. \A s : RC!ToSet(s) = In(s)
    BY RcIn
  <2>2. ASSUME single.state = "Ready", single.request.tcp
        PROVE  /\ (single.verdict = "Failed")
                    = ({a.host : a \in RC!ToSet(single.kept)} \cap up = {})
               /\ (single.verdict = "Reachable")
                    = (single.tried # <<>> /\ {a.host : a \in RC!ToSet(single.tried)} \subseteq up)
    BY <2>1, <2>2 DEF TestInv, Verdicts, Hosts
  <2>. QED
    BY <1>6, <2>2 DEF RC!VerdictTrue
<1>8. RC!AuditReports
  <2>1. RC!AllEndpoints = Ends /\ RC!Issues = Issues
    BY AllAre DEF AuditInv, AuditTypes
  <2>. QED
    BY <2>1 DEF AuditInv, Reports, RC!AuditReports
<1>. QED
  BY <1>5, <1>7, <1>8

-----------------------------------------------------------------------------
(* The log.  Every line has a number of its own, so a list has as many lines  *)
(* as numbers.                                                              *)
Lines == 1..MaxWrites
Unique(s) == \A i, j \in DOMAIN s : s[i] = s[j] => i = j

LEMMA CardIs == ASSUME NEW S PROVE LG!Cardinality(S) = Cardinality(S)
BY DEF LG!Cardinality, Cardinality

LEMMA InIsToSet == ASSUME NEW s PROVE LG!ToSet(s) = In(s)
BY DEF LG!ToSet, In

LEMMA Counted ==
  ASSUME NEW S, NEW s \in Seq(S), Unique(s)
  PROVE  IsFiniteSet(In(s)) /\ Cardinality(In(s)) = Len(s)
<1>1. Len(s) \in Nat /\ DOMAIN s = 1..Len(s) /\ s \in [1..Len(s) -> In(s)]
  BY DEF In
<1>2. s \in Bijection(1..Len(s), In(s))
  BY <1>1 DEF Bijection, Injection, IsInjective, Surjection, In, Unique
<1>3. IsFiniteSet(1..Len(s)) /\ Cardinality(1..Len(s)) = Len(s)
  BY <1>1, FS_Interval
<1>. QED
  BY <1>2, <1>3, FS_Bijection DEF ExistsBijection

(* A list without x, of the first w lines, is shorter than w.                *)
LEMMA ShorterThan ==
  ASSUME NEW w \in Nat, NEW s \in Seq(Lines), Unique(s), NEW x \in 1..w, x \notin In(s),
         In(s) \subseteq 1..w
  PROVE  Len(s) < w
<1>1. IsFiniteSet(In(s)) /\ Cardinality(In(s)) = Len(s)
  BY Counted
<1>2. IsFiniteSet(1..w) /\ Cardinality(1..w) = w
  BY FS_Interval
<1>3. Cardinality(In(s)) <= w /\ Cardinality(In(s)) # w
  BY <1>2, FS_Subset
<1>. QED
  BY <1>1, <1>3

LEMMA AppendUnique ==
  ASSUME NEW S, NEW s \in Seq(S), NEW x \in S, x \notin In(s), Unique(s)
  PROVE  /\ Append(s, x) \in Seq(S) /\ Len(Append(s, x)) = Len(s) + 1
         /\ Unique(Append(s, x)) /\ In(Append(s, x)) = In(s) \cup {x}
<1>1. /\ Len(s) \in Nat /\ DOMAIN s = 1..Len(s)
      /\ Append(s, x) \in Seq(S) /\ Len(Append(s, x)) = Len(s) + 1
      /\ DOMAIN Append(s, x) = 1..(Len(s) + 1)
      /\ \A i \in 1..Len(s) : Append(s, x)[i] = s[i]
      /\ Append(s, x)[Len(s) + 1] = x
  OBVIOUS
<1>2. \A i \in 1..(Len(s) + 1) : i \in 1..Len(s) \/ i = Len(s) + 1
  BY <1>1
<1>3. Unique(Append(s, x))
  BY <1>1, <1>2 DEF Unique, In
<1>4. In(Append(s, x)) = In(s) \cup {x}
  BY <1>1, <1>2 DEF In
<1>. QED
  BY <1>1, <1>3, <1>4

LEMMA TailUnique ==
  ASSUME NEW S, NEW s \in Seq(S), s # <<>>, Unique(s)
  PROVE  /\ Tail(s) \in Seq(S) /\ Len(Tail(s)) = Len(s) - 1 /\ Unique(Tail(s))
         /\ Head(s) \in In(s) /\ In(Tail(s)) = In(s) \ {Head(s)} /\ Len(s) > 0
<1>1. /\ Len(s) \in Nat /\ DOMAIN s = 1..Len(s) /\ Len(s) > 0
      /\ Tail(s) \in Seq(S) /\ Len(Tail(s)) = Len(s) - 1
      /\ DOMAIN Tail(s) = 1..(Len(s) - 1) /\ Head(s) = s[1]
      /\ \A i \in 1..(Len(s) - 1) : Tail(s)[i] = s[i + 1]
  OBVIOUS
<1>2. \A i \in 1..(Len(s) - 1) : i + 1 \in 1..Len(s) /\ i + 1 # 1
  BY <1>1
<1>3. \A i \in 1..Len(s) : i = 1 \/ \E j \in 1..(Len(s) - 1) : i = j + 1
  <2>1. \A i \in 1..Len(s) : i # 1 => i - 1 \in 1..(Len(s) - 1) /\ i = (i - 1) + 1
    BY <1>1
  <2>. QED
    BY <2>1
<1>4. Unique(Tail(s))
  BY <1>1, <1>2 DEF Unique
<1>5. In(Tail(s)) = In(s) \ {Head(s)}
  <2>1. ASSUME NEW x \in In(Tail(s)) PROVE x \in In(s) \ {Head(s)}
    BY <1>1, <1>2 DEF In, Unique
  <2>2. ASSUME NEW x \in In(s) \ {Head(s)} PROVE x \in In(Tail(s))
    <3>1. PICK i \in 1..Len(s) : s[i] = x
      BY <1>1 DEF In
    <3>2. PICK j \in 1..(Len(s) - 1) : i = j + 1
      BY <1>1, <1>3, <2>2, <3>1
    <3>3. Tail(s)[j] = x
      BY <1>1, <3>1, <3>2
    <3>. QED
      BY <1>1, <3>3 DEF In
  <2>. QED
    BY <2>1, <2>2
<1>6. Head(s) \in In(s)
  BY <1>1 DEF In
<1>. QED
  BY <1>1, <1>4, <1>5, <1>6

(* The newest lines of a list.                                              *)
LEMMA NewestOf ==
  ASSUME NEW S, NEW s \in Seq(S), NEW n \in Nat, Unique(s)
  PROVE  /\ LG!Newest(s, n) \in Seq(S) /\ Len(LG!Newest(s, n)) <= n
         /\ Unique(LG!Newest(s, n)) /\ In(LG!Newest(s, n)) \subseteq In(s)
         /\ Len(s) <= n => LG!Newest(s, n) = s
<1>. DEFINE from == IF Len(s) > n THEN Len(s) - n + 1 ELSE 1
            t == SubSeq(s, from, Len(s))
<1>1. Len(s) \in Nat /\ DOMAIN s = 1..Len(s) /\ from \in 1..(Len(s) + 1)
  OBVIOUS
<1>. HIDE DEF from
<1>2. /\ t \in Seq(S) /\ Len(t) = Len(s) - from + 1 /\ DOMAIN t = 1..(Len(s) - from + 1)
      /\ \A i \in 1..(Len(s) - from + 1) : t[i] = s[from + i - 1]
  BY <1>1
<1>3. \A i \in 1..(Len(s) - from + 1) : from + i - 1 \in 1..Len(s)
  BY <1>1
<1>4. Unique(t)
  <2>. HIDE DEF t
  <2>1. \A i, j \in 1..(Len(s) - from + 1) : from + i - 1 = from + j - 1 => i = j
    BY <1>1
  <2>2. ASSUME NEW i \in 1..(Len(s) - from + 1), NEW j \in 1..(Len(s) - from + 1), t[i] = t[j]
        PROVE  i = j
    <3>1. s[from + i - 1] = s[from + j - 1]
      BY <1>2, <2>2
    <3>2. from + i - 1 \in DOMAIN s /\ from + j - 1 \in DOMAIN s
      BY <1>1, <1>3
    <3>3. from + i - 1 = from + j - 1
      BY <3>1, <3>2 DEF Unique
    <3>. QED
      BY <2>1, <3>3
  <2>. QED
    BY <1>2, <2>2 DEF Unique
<1>5. In(t) \subseteq In(s)
  <2>. HIDE DEF t
  <2>. QED
    BY <1>1, <1>2, <1>3 DEF In
<1>6. Len(t) <= n
  <2>. HIDE DEF t
  <2>. QED
    BY <1>1, <1>2 DEF from
<1>7. ASSUME Len(s) <= n PROVE t = s
  <2>1. from = 1
    BY <1>1, <1>7 DEF from
  <2>2. Len(t) = Len(s) /\ \A i \in 1..Len(s) : t[i] = s[i]
    BY <1>1, <1>2, <2>1
  <2>. HIDE DEF t
  <2>. QED
    BY <1>1, <1>2, <2>2, SeqEqual
<1>8. LG!Newest(s, n) = t
  BY DEF LG!Newest, from
<1>. HIDE DEF t
<1>. QED
  BY <1>2, <1>4, <1>5, <1>6, <1>7, <1>8

-----------------------------------------------------------------------------
LogCalls ==
  [kind : {"sync", "clear"}, current : BOOLEAN, loop : Nat, clears : Nat,
   at : {"clear", "start", "take", "return", "answered", "failed"},
   left : 0..Capacity, held : Seq(Lines), out : Seq(Lines)]

(* A call has lines out while it takes them and puts them back; a sync of the *)
(* page's generation was asked for after the last clear.                     *)
CallFits(c) ==
  /\ c.clears <= clears /\ (c.kind = "clear" => c.clears > 0) /\ (c.at = "clear" => c.kind = "clear")
  /\ c.current => c.kind = "sync" /\ c.clears = clears
  /\ c.at \in {"clear", "start"} => c.out = <<>>
  /\ c.at \in {"clear", "start", "take"} => c.held = <<>>
  /\ c.at = "answered" => Len(c.out) <= Kept
  /\ Unique(c.out) /\ Unique(c.held)
  /\ In(c.out) \subseteq 1..written /\ In(c.held) \subseteq 1..written

OutOf(c) == IF c.at = "take" THEN In(c.out) ELSE IF c.at = "return" THEN In(c.held) ELSE {}

CallsFit == \A c \in calls : CallFits(c)
LinesApart ==
  /\ Unique(ring) /\ In(ring) \subseteq 1..written
  /\ \A c \in calls : OutOf(c) \cap In(ring) = {}
  /\ \A c, d \in calls : c # d => OutOf(c) \cap OutOf(d) = {}
NoneLost ==
  clears = 0 /\ written <= Capacity =>
    \A n \in 1..written : n \in In(ring) \/ \E c \in calls : n \in OutOf(c)

LogTypes ==
  /\ ring \in Seq(Lines) /\ Len(ring) <= Capacity
  /\ written \in 0..MaxWrites /\ clicks \in 0..MaxClicks /\ clears \in 0..clicks
  /\ calls \subseteq LogCalls
  /\ IsFiniteSet(calls) /\ Cardinality(calls) <= MaxCalls
PageTypes ==
  /\ page \in [open : BOOLEAN, viewer : BOOLEAN]
  /\ loops \subseteq [gen : Nat, at : {"check", "sleep"}]
  /\ poll \in [active : BOOLEAN, gen : Nat]
  /\ sync \in [inFlight : BOOLEAN, recent : BOOLEAN]
  /\ lines.at \in 0..clears /\ Len(lines.shown) <= Kept

LogInv == LogTypes /\ PageTypes /\ CallsFit /\ LinesApart /\ NoneLost

LEMMA LogsInitially == ASSUME LogsBounded, LG!LogsInit PROVE LogInv
<1>1. /\ ring = <<>> /\ written = 0 /\ clicks = 0 /\ calls = {} /\ clears = 0
      /\ page = [open |-> FALSE, viewer |-> TRUE] /\ loops = {}
      /\ poll = [active |-> FALSE, gen |-> 0] /\ sync = [inFlight |-> FALSE, recent |-> FALSE]
      /\ lines = [at |-> 0, shown |-> <<>>]
  BY DEF LG!LogsInit
<1>2. LogTypes
  BY <1>1, FS_EmptySet DEF LogTypes, LogsBounded
<1>3. PageTypes
  BY <1>1 DEF PageTypes, LogsBounded
<1>4. LinesApart /\ CallsFit /\ NoneLost
  BY <1>1 DEF LinesApart, CallsFit, NoneLost, Unique, In
<1>. QED
  BY <1>2, <1>3, <1>4 DEF LogInv

(* A call goes on: c becomes d.                                              *)
LEMMA CallGoesOn ==
  ASSUME LogsBounded, LogTypes, NEW c \in calls, NEW d \in LogCalls, LG!To(c, d),
         UNCHANGED <<written, clicks, clears>>, ring' \in Seq(Lines), Len(ring') <= Capacity
  PROVE  LogTypes'
<1>. DEFINE rest == calls \ {c}
<1>1. calls' = rest \cup {d}
  BY DEF LG!To
<1>2. /\ IsFiniteSet(rest) /\ Cardinality(rest) = Cardinality(calls) - 1
      /\ Cardinality(calls) \in Nat
  BY FS_RemoveElement, FS_CardinalityType DEF LogTypes
<1>3. calls' \subseteq LogCalls
  BY <1>1 DEF LogTypes
<1>. HIDE DEF rest
<1>4. IsFiniteSet(calls') /\ Cardinality(calls') <= Cardinality(calls)
  <2>1. /\ IsFiniteSet(rest \cup {d})
        /\ Cardinality(rest \cup {d}) = IF d \in rest THEN Cardinality(rest) ELSE Cardinality(rest) + 1
    BY <1>2, FS_AddElement
  <2>2. Cardinality(rest \cup {d}) <= Cardinality(calls)
    BY <1>2, <2>1
  <2>. QED
    BY <1>1, <2>1, <2>2, Zenon
<1>5. Cardinality(calls') \in Nat
  BY <1>4, FS_CardinalityType
<1>. QED
  BY <1>2, <1>3, <1>4, <1>5 DEF LogTypes, LogsBounded

LEMMA OneGoesOn ==
  ASSUME CallsFit, NEW c \in calls, NEW d, LG!To(c, d), UNCHANGED <<written, clears>>, CallFits(d)
  PROVE  CallsFit'
BY DEF CallsFit, LG!To, CallFits

(* Where the lines of c go to: back to the buffer, into d, or away.          *)
LEMMA LinesMove ==
  ASSUME LinesApart, NEW c \in calls, NEW d, LG!To(c, d), UNCHANGED written,
         Unique(ring'), In(ring') \subseteq In(ring) \cup OutOf(c),
         OutOf(d) \subseteq In(ring) \cup OutOf(c), OutOf(d) \cap In(ring') = {},
         In(ring') \subseteq 1..written
  PROVE  LinesApart'
<1>1. calls' = (calls \ {c}) \cup {d}
  BY DEF LG!To
<1>2. \A e \in calls \ {c} : OutOf(e) \cap (In(ring) \cup OutOf(c)) = {}
  BY DEF LinesApart
<1>3. \A e \in calls \ {c} : OutOf(e) \cap In(ring') = {} /\ OutOf(e) \cap OutOf(d) = {}
  BY <1>2
<1>4. \A e, f \in calls' : e # f => OutOf(e) \cap OutOf(f) = {}
  BY <1>1, <1>3 DEF LinesApart
<1>5. \A e \in calls' : OutOf(e) \cap In(ring') = {}
  BY <1>1, <1>3
<1>. QED
  BY <1>4, <1>5 DEF LinesApart

LEMMA NothingLost ==
  ASSUME NoneLost, NEW c \in calls, NEW d, LG!To(c, d), UNCHANGED <<written, clears>>,
         clears = 0 /\ written <= Capacity => In(ring) \cup OutOf(c) \subseteq In(ring') \cup OutOf(d)
  PROVE  NoneLost'
<1>1. calls' = (calls \ {c}) \cup {d}
  BY DEF LG!To
<1>2. SUFFICES ASSUME clears = 0, written <= Capacity, NEW n \in 1..written
               PROVE  n \in In(ring') \/ \E e \in calls' : n \in OutOf(e)
  BY DEF NoneLost
<1>3. n \in In(ring) \/ \E e \in calls : n \in OutOf(e)
  BY <1>2 DEF NoneLost
<1>4. CASE n \in In(ring) \cup OutOf(c)
  BY <1>1, <1>2, <1>4
<1>5. CASE \E e \in calls \ {c} : n \in OutOf(e)
  BY <1>1, <1>5
<1>. QED
  BY <1>3, <1>4, <1>5

LEMMA WriteStep == ASSUME LogsBounded, LogInv, LG!Write PROVE LogInv'
<1>. USE DEF LogInv
<1>1. /\ written < MaxWrites /\ written' = written + 1 /\ written \in Nat /\ MaxWrites \in Nat
      /\ ring' = LG!Newest(Append(ring, written'), Capacity)
      /\ UNCHANGED <<calls, clicks, page, loops, poll, sync, lines, clears>>
  BY DEF LG!Write, LG!ui, LogTypes, LogsBounded
<1>2. /\ ring \in Seq(Lines) /\ Unique(ring) /\ In(ring) \subseteq 1..written
      /\ written' \in Lines /\ written' \notin In(ring)
  BY <1>1 DEF LogTypes, LinesApart, Lines
<1>. DEFINE long == Append(ring, written')
<1>3. /\ long \in Seq(Lines) /\ Len(long) = Len(ring) + 1 /\ Unique(long)
      /\ In(long) = In(ring) \cup {written'}
  BY <1>2, AppendUnique
<1>. HIDE DEF long
<1>4. /\ ring' \in Seq(Lines) /\ Len(ring') <= Capacity /\ Unique(ring')
      /\ In(ring') \subseteq In(long) /\ (Len(long) <= Capacity => ring' = long)
  BY <1>1, <1>3, NewestOf DEF LogsBounded, long
<1>5. 1..written \subseteq 1..written' /\ written' \in 1..written'
  BY <1>1
<1>6. LogTypes'
  BY <1>1, <1>4 DEF LogTypes
<1>7. PageTypes'
  BY <1>1 DEF PageTypes
<1>8. CallsFit'
  BY <1>1, <1>5 DEF CallsFit, CallFits
<1>9. \A c \in calls : OutOf(c) \subseteq 1..written
  BY DEF CallsFit, CallFits, OutOf
<1>10. LinesApart'
  <2>1. \A c \in calls : OutOf(c) \cap In(ring') = {}
    BY <1>1, <1>3, <1>4, <1>9 DEF LinesApart
  <2>2. In(ring') \subseteq 1..written'
    BY <1>2, <1>3, <1>4, <1>5
  <2>. QED
    BY <1>1, <1>4, <2>1, <2>2 DEF LinesApart
<1>11. NoneLost'
  <2>1. SUFFICES ASSUME clears = 0, written' <= Capacity, NEW n \in 1..written'
                 PROVE  n \in In(ring') \/ \E c \in calls : n \in OutOf(c)
    BY <1>1 DEF NoneLost
  <2>2. written <= Capacity
    BY <1>1, <2>1 DEF LogsBounded
  <2>3. Len(ring) <= written
    <3>1. Cardinality(In(ring)) = Len(ring)
      BY <1>2, Counted
    <3>2. Cardinality(In(ring)) <= written
      <4>1. IsFiniteSet(1..written) /\ Cardinality(1..written) = written
        BY <1>1, FS_Interval
      <4>. QED
        BY <1>2, <4>1, FS_Subset
    <3>. QED
      BY <3>1, <3>2
  <2>4. ring' = long
    <3>1. Len(long) <= Capacity
      BY <1>1, <1>2, <1>3, <2>1, <2>3 DEF LogsBounded
    <3>. QED
      BY <1>4, <3>1
  <2>5. CASE n = written'
    BY <1>3, <2>4, <2>5
  <2>6. CASE n \in 1..written
    BY <1>3, <2>1, <2>2, <2>4, <2>6 DEF NoneLost
  <2>. QED
    BY <1>1, <2>5, <2>6
<1>. QED
  BY <1>6, <1>7, <1>8, <1>10, <1>11

(* What the service does for a call.                                         *)
LEMMA ClearRingStep == ASSUME LogsBounded, LogInv, NEW c \in calls, LG!ClearRing(c) PROVE LogInv'
<1>. USE DEF LogInv
<1>. DEFINE d == [c EXCEPT !.at = "start"]
<1>1. /\ c.at = "clear" /\ ring' = <<>> /\ LG!To(c, d) /\ c \in LogCalls
      /\ UNCHANGED <<written, clicks, page, loops, poll, sync, lines, clears>>
  BY DEF LG!ClearRing, LG!ui, LogTypes
<1>2. /\ d \in LogCalls /\ d.at = "start" /\ d.kind = c.kind /\ d.current = c.current
      /\ d.clears = c.clears /\ d.out = c.out /\ d.held = c.held
  BY <1>1 DEF LogCalls
<1>3. CallFits(c) /\ clears > 0
  BY <1>1 DEF CallsFit, CallFits, LogTypes, LogCalls
<1>. HIDE DEF d
<1>4. LogTypes'
  BY <1>1, <1>2, CallGoesOn DEF LogsBounded
<1>5. PageTypes'
  BY <1>1 DEF PageTypes
<1>6. CallsFit'
  BY <1>1, <1>2, <1>3, OneGoesOn DEF CallFits
<1>7. LinesApart'
  <2>1. Unique(ring') /\ In(ring') = {} /\ OutOf(d) = {}
    BY <1>1, <1>2 DEF Unique, In, OutOf
  <2>. QED
    BY <1>1, <2>1, LinesMove
<1>8. NoneLost'
  BY <1>1, <1>3 DEF NoneLost
<1>. QED
  BY <1>4, <1>5, <1>6, <1>7, <1>8

LEMMA StartStep == ASSUME LogsBounded, LogInv, NEW c \in calls, LG!Start(c) PROVE LogInv'
<1>. USE DEF LogInv
<1>. DEFINE d == [c EXCEPT !.at = "take", !.left = Len(ring)]
<1>1. /\ c.at = "start" /\ LG!To(c, d) /\ c \in LogCalls /\ UNCHANGED ring
      /\ UNCHANGED <<written, clicks, page, loops, poll, sync, lines, clears>>
  BY DEF LG!Start, LG!ui, LogTypes
<1>2. /\ d \in LogCalls /\ d.at = "take" /\ d.kind = c.kind /\ d.current = c.current
      /\ d.clears = c.clears /\ d.out = c.out /\ d.held = c.held
  <2>1. Len(ring) \in 0..Capacity
    BY DEF LogTypes, LogsBounded
  <2>. QED
    BY <1>1, <2>1 DEF LogCalls
<1>3. CallFits(c)
  BY DEF CallsFit
<1>. HIDE DEF d
<1>4. LogTypes'
  BY <1>1, <1>2, CallGoesOn DEF LogTypes
<1>5. PageTypes'
  BY <1>1 DEF PageTypes
<1>6. CallsFit'
  BY <1>1, <1>2, <1>3, OneGoesOn DEF CallFits
<1>7. OutOf(d) = {} /\ OutOf(c) = {}
  BY <1>1, <1>2, <1>3 DEF OutOf, CallFits, In
<1>8. LinesApart'
  BY <1>1, <1>7, LinesMove DEF LinesApart
<1>9. NoneLost'
  BY <1>1, <1>7, NothingLost
<1>. QED
  BY <1>4, <1>5, <1>6, <1>8, <1>9

LEMMA TakeStep == ASSUME LogsBounded, LogInv, NEW c \in calls, LG!Take(c) PROVE LogInv'
<1>. USE DEF LogInv
<1>1. /\ c.at = "take" /\ c \in LogCalls /\ CallFits(c)
      /\ UNCHANGED <<written, clicks, page, loops, poll, sync, lines, clears>>
  BY DEF LG!Take, LG!ui, LogTypes, CallsFit
<1>2. PageTypes'
  BY <1>1 DEF PageTypes
<1>3. CASE c.left = 0 \/ ring = <<>>
  <2>. DEFINE d == [c EXCEPT !.at = "return", !.left = 0, !.held = c.out]
  <2>1. LG!To(c, d) /\ UNCHANGED ring
    BY <1>3 DEF LG!Take
  <2>2. /\ d \in LogCalls /\ d.at = "return" /\ d.kind = c.kind /\ d.current = c.current
        /\ d.clears = c.clears /\ d.out = c.out /\ d.held = c.out
    <3>1. 0 \in 0..Capacity /\ c.out \in Seq(Lines)
      BY <1>1 DEF LogCalls, LogsBounded
    <3>. QED
      BY <1>1, <3>1 DEF LogCalls
  <2>. HIDE DEF d
  <2>3. OutOf(d) = OutOf(c)
    BY <1>1, <2>2 DEF OutOf
  <2>4. CallFits(d)
    BY <1>1, <2>2 DEF CallFits
  <2>5. LogTypes'
    BY <1>1, <2>1, <2>2, CallGoesOn DEF LogTypes
  <2>6. CallsFit'
    BY <1>1, <2>1, <2>4, OneGoesOn
  <2>7. LinesApart'
    BY <1>1, <2>1, <2>3, LinesMove DEF LinesApart
  <2>8. NoneLost'
    BY <1>1, <2>1, <2>3, NothingLost
  <2>. QED
    BY <1>2, <2>5, <2>6, <2>7, <2>8
<1>4. CASE ~(c.left = 0 \/ ring = <<>>)
  <2>. DEFINE d == [c EXCEPT !.left = @ - 1, !.out = Append(@, Head(ring))]
  <2>1. LG!To(c, d) /\ ring' = Tail(ring) /\ ring # <<>> /\ c.left # 0
    BY <1>4 DEF LG!Take
  <2>2. /\ ring \in Seq(Lines) /\ Unique(ring) /\ ring' \in Seq(Lines) /\ Unique(ring')
        /\ Len(ring') = Len(ring) - 1 /\ Head(ring) \in In(ring)
        /\ In(ring') = In(ring) \ {Head(ring)} /\ In(ring) \subseteq 1..written
        /\ Len(ring) \in Nat /\ Len(ring) > 0
    BY <2>1, TailUnique DEF LogTypes, LinesApart
  <2>3. Head(ring) \in Lines /\ Head(ring) \in 1..written
    <3>1. written \in Nat /\ MaxWrites \in Nat /\ written <= MaxWrites
      BY DEF LogTypes, LogsBounded
    <3>. QED
      BY <2>2, <3>1 DEF Lines
  <2>4. OutOf(c) = In(c.out) /\ OutOf(c) \cap In(ring) = {} /\ c.out \in Seq(Lines) /\ Unique(c.out)
        /\ c.held = <<>>
    BY <1>1 DEF OutOf, LinesApart, CallFits, LogCalls
  <2>5. /\ Append(c.out, Head(ring)) \in Seq(Lines) /\ Unique(Append(c.out, Head(ring)))
        /\ In(Append(c.out, Head(ring))) = In(c.out) \cup {Head(ring)}
    BY <2>2, <2>3, <2>4, AppendUnique
  <2>6. /\ d \in LogCalls /\ d.at = "take" /\ d.kind = c.kind /\ d.current = c.current
        /\ d.clears = c.clears /\ d.out = Append(c.out, Head(ring)) /\ d.held = c.held
    <3>1. c.left - 1 \in 0..Capacity
      BY <1>1, <2>1 DEF LogCalls, LogsBounded
    <3>. QED
      BY <1>1, <2>5, <3>1 DEF LogCalls
  <2>. HIDE DEF d
  <2>7. OutOf(d) = OutOf(c) \cup {Head(ring)}
    BY <2>4, <2>5, <2>6 DEF OutOf
  <2>8. CallFits(d)
    BY <1>1, <2>3, <2>5, <2>6 DEF CallFits
  <2>9. LogTypes'
    BY <1>1, <2>1, <2>2, <2>6, CallGoesOn DEF LogTypes, LogsBounded
  <2>10. CallsFit'
    BY <1>1, <2>1, <2>8, OneGoesOn
  <2>11. LinesApart'
    BY <1>1, <2>1, <2>2, <2>4, <2>7, LinesMove
  <2>12. NoneLost'
    BY <1>1, <2>1, <2>2, <2>7, NothingLost
  <2>. QED
    BY <1>2, <2>9, <2>10, <2>11, <2>12
<1>. QED
  BY <1>3, <1>4

LEMMA ReturnStep == ASSUME LogsBounded, LogInv, NEW c \in calls, LG!Return(c) PROVE LogInv'
<1>. USE DEF LogInv
<1>1. /\ c.at = "return" /\ c \in LogCalls /\ CallFits(c) /\ c.held # <<>>
      /\ UNCHANGED <<written, clicks, page, loops, poll, sync, lines, clears>>
  BY DEF LG!Return, LG!ui, LogTypes, CallsFit
<1>2. PageTypes'
  BY <1>1 DEF PageTypes
<1>3. /\ c.held \in Seq(Lines) /\ Unique(c.held) /\ OutOf(c) = In(c.held)
      /\ OutOf(c) \cap In(ring) = {} /\ In(c.held) \subseteq 1..written
      /\ ring \in Seq(Lines) /\ Unique(ring) /\ In(ring) \subseteq 1..written
  BY <1>1 DEF LogCalls, CallFits, OutOf, LinesApart, LogTypes
<1>. DEFINE x == Head(c.held)
<1>4. /\ Tail(c.held) \in Seq(Lines) /\ Unique(Tail(c.held)) /\ x \in In(c.held)
      /\ In(Tail(c.held)) = In(c.held) \ {x}
  BY <1>1, <1>3, TailUnique
<1>. HIDE DEF x
<1>5. x \notin In(ring) /\ x \in 1..written /\ x \in Lines
  <2>1. written \in Nat /\ MaxWrites \in Nat /\ written <= MaxWrites
    BY DEF LogTypes, LogsBounded
  <2>. QED
    BY <1>3, <1>4, <2>1 DEF Lines
<1>6. CASE Len(ring) < Capacity
  <2>. DEFINE d == [c EXCEPT !.held = Tail(@)]
  <2>1. LG!To(c, d) /\ ring' = Append(ring, x)
    BY <1>6 DEF LG!Return, x
  <2>2. /\ d \in LogCalls /\ d.at = "return" /\ d.kind = c.kind /\ d.current = c.current
        /\ d.clears = c.clears /\ d.out = c.out /\ d.held = Tail(c.held)
    BY <1>1, <1>4 DEF LogCalls
  <2>. HIDE DEF d
  <2>3. /\ ring' \in Seq(Lines) /\ Len(ring') = Len(ring) + 1 /\ Unique(ring')
        /\ In(ring') = In(ring) \cup {x}
    BY <1>3, <1>5, <2>1, AppendUnique
  <2>4. OutOf(d) = OutOf(c) \ {x}
    BY <1>3, <1>4, <2>2 DEF OutOf
  <2>5. CallFits(d)
    BY <1>1, <1>4, <2>2 DEF CallFits
  <2>6. LogTypes'
    <3>1. Len(ring') <= Capacity
      BY <1>6, <2>3 DEF LogTypes, LogsBounded
    <3>. QED
      BY <1>1, <2>1, <2>2, <2>3, <3>1, CallGoesOn
  <2>7. CallsFit'
    BY <1>1, <2>1, <2>5, OneGoesOn
  <2>8. LinesApart'
    BY <1>1, <1>3, <1>4, <1>5, <2>1, <2>3, <2>4, LinesMove
  <2>9. NoneLost'
    BY <1>1, <1>4, <2>1, <2>3, <2>4, NothingLost
  <2>. QED
    BY <1>2, <2>6, <2>7, <2>8, <2>9
<1>7. CASE ~(Len(ring) < Capacity)
  <2>. DEFINE d == [c EXCEPT !.held = <<>>]
  <2>1. LG!To(c, d) /\ UNCHANGED ring
    BY <1>7 DEF LG!Return
  <2>2. /\ d \in LogCalls /\ d.at = "return" /\ d.kind = c.kind /\ d.current = c.current
        /\ d.clears = c.clears /\ d.out = c.out /\ d.held = <<>>
    <3>1. <<>> \in Seq(Lines)
      OBVIOUS
    <3>. QED
      BY <1>1, <3>1 DEF LogCalls
  <2>. HIDE DEF d
  <2>3. OutOf(d) = {} /\ Unique(d.held) /\ In(d.held) = {}
    BY <2>2 DEF OutOf, In, Unique
  <2>4. CallFits(d)
    BY <1>1, <2>2, <2>3 DEF CallFits
  <2>5. LogTypes'
    BY <1>1, <2>1, <2>2, CallGoesOn DEF LogTypes
  <2>6. CallsFit'
    BY <1>1, <2>1, <2>4, OneGoesOn
  <2>7. LinesApart'
    BY <1>1, <2>1, <2>3, LinesMove DEF LinesApart
  <2>8. ~(clears = 0 /\ written <= Capacity)
    <3>1. ASSUME written <= Capacity PROVE FALSE
      <4>1. written \in Nat /\ Len(ring) \in Nat /\ Capacity \in Nat
        BY DEF LogTypes, LogsBounded
      <4>2. Len(ring) < written
        BY <1>3, <1>5, <4>1, ShorterThan
      <4>. QED
        BY <1>7, <3>1, <4>1, <4>2
    <3>. QED
      BY <3>1
  <2>9. NoneLost'
    BY <1>1, <2>8 DEF NoneLost
  <2>. QED
    BY <1>2, <2>5, <2>6, <2>7, <2>9
<1>. QED
  BY <1>6, <1>7

LEMMA ReplyStep == ASSUME LogsBounded, LogInv, NEW c \in calls, LG!Reply(c) PROVE LogInv'
<1>. USE DEF LogInv
<1>1. /\ c.at = "return" /\ c \in LogCalls /\ CallFits(c) /\ c.held = <<>> /\ UNCHANGED ring
      /\ UNCHANGED <<written, clicks, page, loops, poll, sync, lines, clears>>
  BY DEF LG!Reply, LG!ui, LogTypes, CallsFit
<1>2. PageTypes'
  BY <1>1 DEF PageTypes
<1>3. PICK d \in {[c EXCEPT !.at = "answered", !.out = LG!Newest(@, Kept)],
                  [c EXCEPT !.at = "failed", !.out = <<>>]} : LG!To(c, d)
  BY DEF LG!Reply
<1>4. /\ LG!Newest(c.out, Kept) \in Seq(Lines) /\ Len(LG!Newest(c.out, Kept)) <= Kept
      /\ Unique(LG!Newest(c.out, Kept)) /\ In(LG!Newest(c.out, Kept)) \subseteq In(c.out)
  BY <1>1, NewestOf DEF LogCalls, LogsBounded, CallFits
<1>5. /\ d \in LogCalls /\ d.at \in {"answered", "failed"} /\ d.kind = c.kind
      /\ d.current = c.current /\ d.clears = c.clears /\ d.held = c.held
      /\ d.out \in {LG!Newest(c.out, Kept), <<>>}
  BY <1>1, <1>3, <1>4 DEF LogCalls
<1>6. Len(d.out) <= Kept /\ Unique(d.out) /\ In(d.out) \subseteq In(c.out)
  <2>1. CASE d.out = <<>>
    BY <2>1 DEF Unique, In, LogsBounded
  <2>2. CASE d.out = LG!Newest(c.out, Kept)
    BY <1>4, <2>2
  <2>. QED
    BY <1>5, <2>1, <2>2
<1>7. OutOf(d) = {} /\ OutOf(c) = {}
  BY <1>1, <1>5 DEF OutOf, In
<1>8. CallFits(d)
  BY <1>1, <1>5, <1>6 DEF CallFits
<1>9. LogTypes'
  BY <1>1, <1>3, <1>5, CallGoesOn DEF LogTypes
<1>10. CallsFit'
  BY <1>1, <1>3, <1>8, OneGoesOn
<1>11. LinesApart'
  BY <1>1, <1>3, <1>7, LinesMove DEF LinesApart
<1>12. NoneLost'
  BY <1>1, <1>3, <1>7, NothingLost
<1>. QED
  BY <1>2, <1>9, <1>10, <1>11, <1>12

(* A call of the page is over: its lines are where they were before.         *)
LEMMA LogCallEnds ==
  ASSUME LogsBounded, LogInv, NEW c \in calls, c.at \in {"answered", "failed"},
         calls' = calls \ {c}, UNCHANGED <<ring, written, clicks, clears>>
  PROVE  LogTypes' /\ CallsFit' /\ LinesApart' /\ NoneLost'
<1>. USE DEF LogInv
<1>1. OutOf(c) = {}
  BY DEF OutOf
<1>2. IsFiniteSet(calls') /\ Cardinality(calls') = Cardinality(calls) - 1
      /\ Cardinality(calls) \in Nat
  BY FS_RemoveElement, FS_CardinalityType DEF LogTypes
<1>3. LogTypes'
  BY <1>2 DEF LogTypes, LogsBounded
<1>4. CallsFit'
  BY DEF CallsFit, CallFits
<1>5. LinesApart'
  BY DEF LinesApart
<1>6. NoneLost'
  BY <1>1 DEF NoneLost
<1>. QED
  BY <1>3, <1>4, <1>5, <1>6

(* A call of the page begins: the generation moves on for the others.         *)
LEMMA LogCallBegins ==
  ASSUME LogsBounded, LogInv, Cardinality(calls) < MaxCalls,
         NEW kind \in {"sync", "clear"}, NEW from \in Nat, NEW n \in Nat,
         calls' = LG!NextGeneration \cup {LG!Call(kind, from, n)},
         n = clears', kind = "clear" => n > 0, clears' >= clears,
         clicks' \in 0..MaxClicks, clears' \in 0..clicks', UNCHANGED <<ring, written>>
  PROVE  LogTypes' /\ CallsFit' /\ LinesApart' /\ NoneLost'
<1>. USE DEF LogInv
<1>. DEFINE new == LG!Call(kind, from, n)
            Aged(c) == [c EXCEPT !.current = FALSE]
<1>1. calls' = {Aged(c) : c \in calls} \cup {new}
  BY DEF LG!NextGeneration
<1>2. ASSUME NEW c \in calls
      PROVE  /\ Aged(c) \in LogCalls /\ OutOf(Aged(c)) = OutOf(c) /\ CallFits(Aged(c))'
             /\ ~(clears' = 0 /\ clears # 0)
  <2>1. c \in LogCalls /\ CallFits(c) /\ clears \in Nat
    BY DEF LogTypes, CallsFit
  <2>2. /\ Aged(c) \in LogCalls /\ Aged(c).at = c.at /\ Aged(c).kind = c.kind
        /\ Aged(c).current = FALSE /\ Aged(c).clears = c.clears /\ Aged(c).out = c.out
        /\ Aged(c).held = c.held
    BY <2>1 DEF LogCalls
  <2>. HIDE DEF Aged
  <2>3. c.clears \in Nat /\ clears' \in Nat /\ c.clears <= clears'
    BY <2>1 DEF LogCalls, CallFits
  <2>4. OutOf(Aged(c)) = OutOf(c)
    BY <2>2 DEF OutOf
  <2>5. CallFits(Aged(c))'
    BY <2>1, <2>2, <2>3 DEF CallFits
  <2>. QED
    BY <2>1, <2>2, <2>3, <2>4, <2>5
<1>3. /\ new \in LogCalls /\ OutOf(new) = {} /\ CallFits(new)'
  <2>1. 0 \in 0..Capacity /\ <<>> \in Seq(Lines)
    BY DEF LogsBounded
  <2>2. new \in LogCalls
    BY <2>1 DEF LogCalls, LG!Call
  <2>3. /\ new.at \in {"clear", "start"} /\ new.out = <<>> /\ new.held = <<>> /\ new.clears = n
        /\ new.kind = kind /\ new.current = (kind = "sync") /\ (new.at = "clear" => kind = "clear")
    BY DEF LG!Call
  <2>. HIDE DEF new
  <2>4. Unique(<<>>) /\ In(<<>>) = {}
    BY DEF Unique, In
  <2>5. CallFits(new)'
    <3>1. clears' \in Nat
      OBVIOUS
    <3>2. new.clears <= clears' /\ (new.kind = "clear" => new.clears > 0)
      BY <2>3, <3>1
    <3>3. new.current => new.kind = "sync" /\ new.clears = clears'
      BY <2>3
    <3>. QED
      BY <2>3, <2>4, <3>2, <3>3 DEF CallFits
  <2>6. OutOf(new) = {}
    BY <2>3 DEF OutOf
  <2>. QED
    BY <2>2, <2>5, <2>6
<1>. HIDE DEF new, Aged
<1>4. LogTypes'
  <2>. DEFINE aged == {Aged(c) : c \in calls}
  <2>1. IsFiniteSet(aged) /\ Cardinality(aged) <= Cardinality(calls)
    <3>1. IsFiniteSet(calls)
      BY DEF LogTypes
    <3>. DEFINE F == [c \in calls |-> Aged(c)]
    <3>2. F \in Surjection(calls, aged)
      BY DEF Surjection
    <3>. HIDE DEF F, aged
    <3>. QED
      BY <3>1, <3>2, FS_Surjection
  <2>2. Cardinality(aged) \in Nat /\ Cardinality(calls) \in Nat
    BY <2>1, FS_CardinalityType DEF LogTypes
  <2>3. aged \subseteq LogCalls
    BY <1>2
  <2>4. calls' = aged \cup {new}
    BY <1>1
  <2>. HIDE DEF aged
  <2>5. IsFiniteSet(aged \cup {new}) /\ Cardinality(aged \cup {new}) \in Nat
        /\ Cardinality(aged \cup {new}) <= Cardinality(aged) + 1
    <3>1. /\ IsFiniteSet(aged \cup {new})
          /\ Cardinality(aged \cup {new})
               = IF new \in aged THEN Cardinality(aged) ELSE Cardinality(aged) + 1
      BY <2>1, FS_AddElement
    <3>. QED
      BY <2>2, <3>1
  <2>6. IsFiniteSet(calls') /\ Cardinality(calls') <= MaxCalls
    BY <2>1, <2>2, <2>4, <2>5 DEF LogsBounded
  <2>. QED
    BY <1>3, <2>3, <2>4, <2>6 DEF LogTypes
<1>5. CallsFit'
  BY <1>1, <1>2, <1>3 DEF CallsFit
<1>6. LinesApart'
  <2>1. ASSUME NEW e \in calls', NEW f \in calls', e # f PROVE OutOf(e) \cap OutOf(f) = {}
    BY <1>1, <1>2, <1>3, <2>1 DEF LinesApart
  <2>2. ASSUME NEW e \in calls' PROVE OutOf(e) \cap In(ring) = {}
    BY <1>1, <1>2, <1>3 DEF LinesApart
  <2>. QED
    BY <2>1, <2>2 DEF LinesApart
<1>7. NoneLost'
  <2>1. clears' = 0 => clears = 0
    BY DEF LogTypes
  <2>. QED
    BY <1>1, <1>2, <2>1 DEF NoneLost
<1>. QED
  BY <1>4, <1>5, <1>6, <1>7

(* The user, the drawing of the page, its timer.                             *)
LEMMA LogPageStep ==
  ASSUME LogsBounded, LogInv,
         LG!Draw \/ LG!Open \/ LG!Leave \/ LG!DisableViewer \/ LG!EnableViewer \/ LG!Elapse
  PROVE  LogInv' /\ UNCHANGED calls
<1>. USE DEF LogInv
<1>1. UNCHANGED <<ring, written, calls, clears>> /\ (clicks' = clicks \/ LG!Click)
  BY DEF LG!Draw, LG!Open, LG!Leave, LG!DisableViewer, LG!EnableViewer, LG!Elapse
<1>2. clicks' \in 0..MaxClicks /\ clears \in 0..clicks'
  BY <1>1 DEF LG!Click, LogTypes, LogsBounded
<1>3. LogTypes'
  BY <1>1, <1>2 DEF LogTypes
<1>4. CallsFit' /\ LinesApart' /\ NoneLost'
  <2>1. CallsFit'
    BY <1>1 DEF CallsFit, CallFits
  <2>2. LinesApart'
    BY <1>1 DEF LinesApart
  <2>3. NoneLost'
    BY <1>1 DEF NoneLost
  <2>. QED
    BY <2>1, <2>2, <2>3
<1>5. PageTypes'
  <2>. USE DEF PageTypes
  <2>1. CASE LG!Draw
    <3>1. /\ poll' = [active |-> TRUE, gen |-> poll.gen + 1] /\ UNCHANGED <<page, sync, lines>>
          /\ loops' = loops \cup {[gen |-> poll'.gen, at |-> "check"]}
      BY <2>1 DEF LG!Draw
    <3>2. poll' \in [active : BOOLEAN, gen : Nat] /\ poll'.gen \in Nat
      BY <3>1
    <3>3. loops' \subseteq [gen : Nat, at : {"check", "sleep"}]
      BY <3>1, <3>2
    <3>. QED
      BY <1>1, <3>1, <3>2, <3>3
  <2>2. CASE LG!Open \/ LG!EnableViewer
    BY <1>1, <2>2 DEF LG!Open, LG!EnableViewer
  <2>3. CASE LG!Leave
    <3>1. /\ page' = [page EXCEPT !.open = FALSE] /\ poll' = LG!StoppedPoll
          /\ sync' = IF poll.active THEN [sync EXCEPT !.inFlight = FALSE] ELSE sync
          /\ UNCHANGED <<loops, lines>>
      BY <2>3 DEF LG!Leave, LG!StopPolling
    <3>2. poll' \in [active : BOOLEAN, gen : Nat]
      BY <3>1 DEF LG!StoppedPoll
    <3>3. page' \in [open : BOOLEAN, viewer : BOOLEAN]
      BY <3>1
    <3>4. sync' \in [inFlight : BOOLEAN, recent : BOOLEAN]
      BY <3>1
    <3>. QED
      BY <1>1, <3>1, <3>2, <3>3, <3>4
  <2>4. CASE LG!DisableViewer
    <3>1. /\ page' = [page EXCEPT !.viewer = FALSE] /\ poll' = LG!StoppedPoll
          /\ sync' = [sync EXCEPT !.inFlight = @ /\ ~poll.active, !.recent = FALSE]
          /\ lines' = [lines EXCEPT !.shown = <<>>] /\ loops' = loops
      BY <2>4 DEF LG!DisableViewer
    <3>2. poll' \in [active : BOOLEAN, gen : Nat]
      BY <3>1 DEF LG!StoppedPoll
    <3>3. page' \in [open : BOOLEAN, viewer : BOOLEAN]
      BY <3>1
    <3>4. sync' \in [inFlight : BOOLEAN, recent : BOOLEAN]
      BY <3>1
    <3>5. lines'.at = lines.at /\ lines'.shown \in {<<>>, lines.shown}
      BY <3>1
    <3>6. Len(lines'.shown) <= Kept
      BY <3>5 DEF LogsBounded
    <3>. QED
      BY <1>1, <3>1, <3>2, <3>3, <3>4, <3>5, <3>6
  <2>5. CASE LG!Elapse
    BY <1>1, <2>5 DEF LG!Elapse
  <2>. QED
    BY <2>1, <2>2, <2>3, <2>4, <2>5
<1>. QED
  BY <1>1, <1>3, <1>4, <1>5

LEMMA TurnStep == ASSUME LogsBounded, LogInv, LG!Turning PROVE LogInv' /\ UNCHANGED lines
<1>. USE DEF LogInv
<1>1. PICK l \in loops : LG!Turn(l)
  BY DEF LG!Turning
<1>2. l \in [gen : Nat, at : {"check", "sleep"}]
  BY DEF PageTypes
<1>3. CASE LG!TurnAsks(l)
  <2>1. /\ UNCHANGED <<ring, written, clicks, page, poll, lines, clears>>
        /\ sync' = [sync EXCEPT !.inFlight = TRUE] /\ loops' = loops \ {l}
        /\ calls' = LG!NextGeneration \cup {LG!Call("sync", l.gen, clears)}
        /\ Cardinality(calls) < MaxCalls
    BY <1>3, CardIs DEF LG!TurnAsks
  <2>2. clears \in Nat /\ clicks' \in 0..MaxClicks /\ clears' \in 0..clicks' /\ clears' >= clears
    BY <2>1 DEF LogTypes, LogsBounded
  <2>3. LogTypes' /\ CallsFit' /\ LinesApart' /\ NoneLost'
    BY <1>2, <2>1, <2>2, LogCallBegins
  <2>4. PageTypes'
    BY <2>1 DEF PageTypes
  <2>. QED
    BY <2>1, <2>3, <2>4
<1>4. CASE LG!TurnEnds(l) \/ LG!TurnSkips(l) \/ LG!Wake(l)
  <2>1. /\ UNCHANGED <<ring, written, calls, clicks, page, poll, sync, lines, clears>>
        /\ loops' \subseteq [gen : Nat, at : {"check", "sleep"}]
    BY <1>2, <1>4 DEF LG!TurnEnds, LG!TurnSkips, LG!Wake, PageTypes
  <2>2. PageTypes'
    BY <2>1 DEF PageTypes
  <2>3. LogTypes'
    BY <2>1 DEF LogTypes
  <2>4. CallsFit'
    BY <2>1 DEF CallsFit, CallFits
  <2>5. LinesApart'
    BY <2>1 DEF LinesApart
  <2>6. NoneLost'
    BY <2>1 DEF NoneLost
  <2>. QED
    BY <2>1, <2>2, <2>3, <2>4, <2>5, <2>6
<1>. QED
  BY <1>1, <1>3, <1>4 DEF LG!Turn

LEMMA ClearStep ==
  ASSUME LogsBounded, LogInv, LG!Clear
  PROVE  LogInv' /\ \A c \in calls \ calls' : c.clears = clears
<1>. USE DEF LogInv
<1>1. /\ UNCHANGED <<ring, written, page, loops, poll>> /\ clears' = clears + 1
      /\ clicks < MaxClicks /\ clicks' = clicks + 1
      /\ sync' = [sync EXCEPT !.recent = FALSE] /\ lines' = [at |-> clears', shown |-> <<>>]
      /\ calls' = LG!NextGeneration \cup {LG!Call("clear", 0, clears')}
      /\ Cardinality(calls) < MaxCalls
  BY CardIs DEF LG!Clear, LG!Click
<1>2. /\ clears \in Nat /\ clicks' \in 0..MaxClicks /\ clears' \in 0..clicks' /\ clears' > clears
      /\ clears' \in Nat
  BY <1>1 DEF LogTypes, LogsBounded
<1>3. LogTypes' /\ CallsFit' /\ LinesApart' /\ NoneLost'
  BY <1>1, <1>2, LogCallBegins
<1>4. PageTypes'
  <2>1. sync' \in [inFlight : BOOLEAN, recent : BOOLEAN]
    BY <1>1 DEF PageTypes
  <2>2. lines'.at = clears' /\ Len(lines'.shown) = 0
    BY <1>1
  <2>. QED
    BY <1>1, <1>2, <2>1, <2>2 DEF PageTypes, LogsBounded
<1>5. ASSUME NEW c \in calls \ calls' PROVE c.clears = clears
  <2>1. c \in LogCalls /\ CallFits(c)
    BY DEF LogTypes, CallsFit
  <2>2. ~c.current => [c EXCEPT !.current = FALSE] = c
    BY <2>1 DEF LogCalls
  <2>3. c.current
    BY <1>1, <2>2 DEF LG!NextGeneration
  <2>. QED
    BY <2>1, <2>3 DEF CallFits
<1>. QED
  BY <1>3, <1>4, <1>5

LEMMA FinishStep ==
  ASSUME LogsBounded, LogInv, LG!Finishing PROVE LogInv' /\ LG!ClearedStaysOff
<1>. USE DEF LogInv
<1>1. PICK c \in calls : LG!FinishSync(c) \/ LG!FinishClear(c)
  BY DEF LG!Finishing, LG!Finish
<1>2. /\ c.at \in {"answered", "failed"} /\ calls' = calls \ {c}
      /\ UNCHANGED <<ring, written, clicks, page, poll, clears>>
      /\ loops' \subseteq loops \cup {[gen |-> c.loop, at |-> "sleep"]}
      /\ \/ UNCHANGED sync
         \/ sync' \in {[sync EXCEPT !.inFlight = FALSE, !.recent = TRUE], [sync EXCEPT !.recent = TRUE]}
      /\ \/ UNCHANGED lines
         \/ /\ lines' = [at |-> c.clears, shown |-> c.out] /\ c.at = "answered"
            /\ (c.kind = "clear" \/ c.current)
  BY <1>1 DEF LG!FinishSync, LG!FinishClear
<1>3. c \in LogCalls /\ CallFits(c)
  BY DEF LogTypes, CallsFit
<1>4. LogTypes' /\ CallsFit' /\ LinesApart' /\ NoneLost'
  BY <1>2, LogCallEnds
<1>5. PageTypes'
  <2>1. loops' \subseteq [gen : Nat, at : {"check", "sleep"}]
    BY <1>2, <1>3 DEF PageTypes, LogCalls
  <2>2. sync' \in [inFlight : BOOLEAN, recent : BOOLEAN]
    BY <1>2 DEF PageTypes
  <2>3. lines'.at \in 0..clears /\ Len(lines'.shown) <= Kept
    <3>1. c.clears \in 0..clears
      BY <1>3 DEF CallFits, LogCalls, LogTypes
    <3>. QED
      BY <1>2, <1>3, <3>1 DEF PageTypes, CallFits
  <2>. QED
    BY <1>2, <2>1, <2>2, <2>3 DEF PageTypes
<1>6. ASSUME c.kind = "sync", c.clears < clears PROVE UNCHANGED lines
  <2>1. ~c.current /\ c.kind # "clear"
    BY <1>3, <1>6 DEF CallFits, LogTypes
  <2>. QED
    BY <1>2, <2>1
<1>7. LG!ClearedStaysOff
  BY <1>2, <1>6 DEF LG!ClearedStaysOff
<1>. QED
  BY <1>4, <1>5, <1>7

LEMMA ServeStep == ASSUME LogsBounded, LogInv, LG!Serving PROVE LogInv' /\ UNCHANGED lines
<1>1. PICK c \in calls : LG!Serve(c)
  BY DEF LG!Serving
<1>2. LogInv'
  BY <1>1, ClearRingStep, StartStep, TakeStep, ReturnStep, ReplyStep DEF LG!Serve
<1>3. UNCHANGED lines
  BY <1>1 DEF LG!Serve, LG!ClearRing, LG!Start, LG!Take, LG!Return, LG!Reply, LG!ui
<1>. QED
  BY <1>2, <1>3

LEMMA LogStep == ASSUME LogsBounded, LogInv, LG!Next PROVE LogInv' /\ LG!ClearedStaysOff
<1>1. CASE LG!Write
  BY <1>1, WriteStep DEF LG!Write, LG!ui, LG!ClearedStaysOff
<1>2. CASE LG!Draw \/ LG!Open \/ LG!Leave \/ LG!DisableViewer \/ LG!EnableViewer \/ LG!Elapse
  BY <1>2, LogPageStep DEF LG!ClearedStaysOff
<1>3. CASE LG!Clear
  <2>1. clears \in Nat
    BY DEF LogInv, LogTypes
  <2>. QED
    BY <1>3, <2>1, ClearStep DEF LG!ClearedStaysOff
<1>4. CASE LG!Serving
  BY <1>4, ServeStep DEF LG!ClearedStaysOff
<1>5. CASE LG!Finishing
  BY <1>5, FinishStep
<1>6. CASE LG!Turning
  BY <1>6, TurnStep DEF LG!ClearedStaysOff
<1>. QED
  BY <1>1, <1>2, <1>3, <1>4, <1>5, <1>6 DEF LG!Next

LEMMA LogStutters ==
  ASSUME LogInv, UNCHANGED <<v1, v2, v3, v4, v5, v6, v7, v8, v9, v10>>
  PROVE  LogInv' /\ LG!ClearedStaysOff
<1>1. LogTypes' /\ PageTypes'
  BY DEF LogInv, LogTypes, PageTypes
<1>2. CallsFit'
  BY DEF LogInv, CallsFit, CallFits
<1>3. LinesApart' /\ NoneLost'
  BY DEF LogInv, LinesApart, NoneLost
<1>4. LG!ClearedStaysOff
  BY DEF LG!ClearedStaysOff
<1>. QED
  BY <1>1, <1>2, <1>3, <1>4 DEF LogInv

LEMMA LogTruths == ASSUME LogInv PROVE LG!TypeOK /\ LG!BufferSound
<1>. USE DEF LogInv
<1>1. LG!TypeOK
  BY CardIs DEF LG!TypeOK, LogTypes, PageTypes, LogCalls, Lines
<1>2. LG!ToSet(ring) = In(ring) /\ Cardinality(In(ring)) = Len(ring)
  BY InIsToSet, Counted DEF LogTypes, LinesApart
<1>3. ASSUME NEW c \in calls
      PROVE  LG!Out(c) = OutOf(c) /\ Cardinality(LG!ToSet(c.out)) = Len(c.out)
  <2>1. c.out \in Seq(Lines) /\ Unique(c.out)
    BY DEF LogTypes, LogCalls, CallsFit, CallFits
  <2>2. Cardinality(LG!ToSet(c.out)) = Len(c.out)
    BY <2>1, InIsToSet, Counted
  <2>3. LG!Out(c) = OutOf(c)
    BY InIsToSet DEF LG!Out, OutOf
  <2>. QED
    BY <2>2, <2>3
<1>4. clears = 0 /\ written <= Capacity =>
        1..written \subseteq In(ring) \cup UNION {LG!Out(c) : c \in calls}
  BY <1>3 DEF NoneLost
<1>5. \A c \in calls : /\ OutOf(c) \cap In(ring) = {}
                       /\ \A d \in calls \ {c} : OutOf(c) \cap OutOf(d) = {}
  BY DEF LinesApart
<1>. QED
  BY <1>1, <1>2, <1>3, <1>4, <1>5, CardIs DEF LG!BufferSound

-----------------------------------------------------------------------------
(* Themes.  Every name a job gives is one that its inventory does not have,   *)
(* and the inventory has the names of the directory for as long as no other   *)
(* job writes to it.                                                        *)
NameRec == [base : ThemeBases, mode : {"none", "Light", "Dark"}, custom : Nat]
ThemeRec == [name : NameRec, mode : {"Light", "Dark"}]
FileMaps == [TH!FileNames -> Seq(ThemeRec)]
EntryRec == [collection : {"builtin", "curated", "custom"}, file : TH!FileNames \cup {TH!NoFile},
             name : NameRec]
Queued == Sources \cup {TH!Template}
JobRec == [at : {"idle", "over", "dialog", "importing", "naming", "writing", "done"},
           used : SUBSET NameRec, queue : Seq(Queued), target : TH!FileNames \cup {TH!NoFile},
           named : Seq(ThemeRec)]

JobFits(q) ==
  /\ IsFiniteSet(q.used)
  /\ q.at \in {"importing", "naming", "writing"} => q.queue # <<>>
  /\ q.at = "naming" => Len(q.named) <= Len(Head(q.queue).themes)
  /\ q.at = "writing" => q.target \in TH!FileNames
  /\ q.at \notin {"naming", "writing"} => q.named = <<>>
  /\ \A i \in DOMAIN q.named : q.named[i].name \in q.used

IsActive(q) == q.at \notin {"idle", "over"}

ThemesTypes ==
  /\ themeFiles \in FileMaps /\ IsFiniteSet(TH!Names(themeFiles)) /\ raced \in BOOLEAN
  /\ job \in [ThemeJobs -> JobRec]
JobsFit == \A j \in ThemeJobs : JobFits(job[j])
Chosen ==
  /\ applied \in EntryRec /\ savedTheme = preference
  /\ preference = [key |-> TH!EntryKey(applied), name |-> applied.name]

\* what a job that is alone knows of the files
Knows(q, fs) ==
  IsActive(q) =>
    /\ TH!Names(fs) \subseteq q.used
    /\ \A i \in DOMAIN q.named : q.named[i].name \notin TH!Names(fs)
    /\ \A i, k \in DOMAIN q.named : q.named[i].name = q.named[k].name => i = k
    /\ q.at = "writing" => fs[q.target] = <<>>
ThemeAlone ==
  ~raced => /\ \A j, k \in ThemeJobs : IsActive(job[j]) /\ IsActive(job[k]) => j = k
            /\ \A j \in ThemeJobs : Knows(job[j], themeFiles)

GivenNames == {TH!Plain(BuiltinBase)} \cup {TH!Plain(b) : b \in CuratedBases}
FilesDiffer(fs) ==
  /\ \A f \in TH!FileNames : \A i \in DOMAIN fs[f] : fs[f][i].name \notin GivenNames
  /\ \A f, g \in TH!FileNames : \A i \in DOMAIN fs[f], k \in DOMAIN fs[g] :
       fs[f][i].name = fs[g][k].name => f = g /\ i = k
Differ == ~raced => FilesDiffer(themeFiles)

ThemesInv == ThemesTypes /\ JobsFit /\ Chosen /\ ThemeAlone /\ Differ

LEMMA GivenName == ASSUME NEW b \in ThemeBases PROVE TH!Plain(b) \in NameRec /\ TH!Plain(b).base = b
BY DEF TH!Plain, NameRec

(* The names of the catalogue: those of the program and those of the files.   *)
LEMMA NamesAre ==
  ASSUME NEW fs \in FileMaps
  PROVE  \A x : x \in TH!Names(fs) <=>
                  \/ x \in GivenNames
                  \/ \E f \in TH!FileNames : \E i \in DOMAIN fs[f] : x = fs[f][i].name
<1>1. ASSUME NEW mode, NEW f \in TH!FileNames, NEW i \in DOMAIN fs[f], fs[f][i].mode = mode
      PROVE  TH!Entry("custom", f, fs[f][i].name) \in TH!Custom(fs, mode)
  BY <1>1 DEF TH!Custom, FileMaps
<1>2. ASSUME NEW mode, NEW e \in TH!Custom(fs, mode)
      PROVE  \E f \in TH!FileNames : \E i \in DOMAIN fs[f] :
               e = TH!Entry("custom", f, fs[f][i].name)
  BY DEF TH!Custom, FileMaps
<1>3. \A f \in TH!FileNames : \A i \in DOMAIN fs[f] : fs[f][i].mode \in {"Light", "Dark"}
  <2>1. SUFFICES ASSUME NEW f \in TH!FileNames, NEW i \in DOMAIN fs[f]
                 PROVE  fs[f][i].mode \in {"Light", "Dark"}
    OBVIOUS
  <2>2. fs[f] \in Seq(ThemeRec)
    BY DEF FileMaps
  <2>3. fs[f][i] \in ThemeRec
    BY <2>2
  <2>. QED
    BY <2>3 DEF ThemeRec
<1>4. \A c, f, n : TH!Entry(c, f, n).name = n
  BY DEF TH!Entry
<1>5. TH!DefaultEntry.name = TH!Plain(BuiltinBase)
  BY <1>4 DEF TH!DefaultEntry
<1>. DEFINE All == TH!Available(fs) \cup TH!Custom(fs, "Dark")
<1>6. All = {TH!DefaultEntry} \cup TH!Curated \cup TH!Custom(fs, "Light") \cup TH!Custom(fs, "Dark")
  BY DEF TH!Available
<1>7. TH!Names(fs) = {e.name : e \in All}
  BY DEF TH!Names
<1>. HIDE DEF All
<1>8. ASSUME NEW x \in TH!Names(fs)
      PROVE  \/ x \in GivenNames
             \/ \E f \in TH!FileNames : \E i \in DOMAIN fs[f] : x = fs[f][i].name
  <2>1. PICK e \in All : x = e.name
    BY <1>7
  <2>2. CASE e = TH!DefaultEntry
    BY <1>5, <2>1, <2>2 DEF GivenNames
  <2>3. CASE e \in TH!Curated
    BY <1>4, <2>1, <2>3 DEF TH!Curated, GivenNames
  <2>4. CASE e \in TH!Custom(fs, "Light") \/ e \in TH!Custom(fs, "Dark")
    BY <1>2, <1>4, <2>1, <2>4
  <2>. QED
    BY <1>6, <2>1, <2>2, <2>3, <2>4
<1>9. ASSUME NEW x \in GivenNames PROVE x \in TH!Names(fs)
  <2>1. CASE x = TH!Plain(BuiltinBase)
    BY <1>5, <1>6, <1>7, <2>1
  <2>2. CASE \E b \in CuratedBases : x = TH!Plain(b)
    BY <1>4, <1>6, <1>7, <2>2 DEF TH!Curated
  <2>. QED
    BY <2>1, <2>2 DEF GivenNames
<1>10. ASSUME NEW f \in TH!FileNames, NEW i \in DOMAIN fs[f]
       PROVE  fs[f][i].name \in TH!Names(fs)
  BY <1>1, <1>3, <1>4, <1>6, <1>7
<1>. QED
  BY <1>8, <1>9, <1>10

LEMMA NamesTyped ==
  ASSUME NEW fs \in FileMaps PROVE TH!Names(fs) \subseteq NameRec
<1>1. GivenNames \subseteq NameRec
  BY GivenName DEF GivenNames, ThemeBases
<1>2. \A f \in TH!FileNames : \A i \in DOMAIN fs[f] : fs[f][i].name \in NameRec
  <2>1. SUFFICES ASSUME NEW f \in TH!FileNames, NEW i \in DOMAIN fs[f]
                 PROVE  fs[f][i].name \in NameRec
    OBVIOUS
  <2>2. fs[f] \in Seq(ThemeRec)
    BY DEF FileMaps
  <2>3. fs[f][i] \in ThemeRec
    BY <2>2
  <2>. QED
    BY <2>3 DEF ThemeRec
<1>. QED
  BY <1>1, <1>2, NamesAre

(* unique_theme_name: the number it counts up to is there, for an inventory   *)
(* of so many names cannot have one number more.                            *)
LEMMA NameIsNew ==
  ASSUME NEW look \in Looks, NEW prefer, NEW used, IsFiniteSet(used)
  PROVE  TH!UniqueName(look, prefer, used) \in NameRec
         /\ TH!UniqueName(look, prefer, used) \notin used
<1>. DEFINE withMode == [TH!Plain(look.base) EXCEPT !.mode = look.mode]
            stems == IF prefer THEN <<withMode, TH!Plain(look.base)>>
                     ELSE <<TH!Plain(look.base), withMode>>
            At(i, n) == [stems[i] EXCEPT !.custom = n]
            Free(n) == {i \in 1..2 : At(i, n) \notin used}
            C == Cardinality(used)
            IsFirst(n) == 1 \in Free(n) /\ \A m \in 2..(n - 1) : 1 \notin Free(m)
<1>1. TH!Cardinality(used) = C
  BY DEF TH!Cardinality, Cardinality
<1>2. TH!UniqueName(look, prefer, used) =
        IF Free(0) # {} THEN At(IF 1 \in Free(0) THEN 1 ELSE 2, 0)
        ELSE IF Free(1) # {} THEN At(IF 1 \in Free(1) THEN 1 ELSE 2, 1)
        ELSE At(1, CHOOSE n \in 2..(2 + C) : IsFirst(n))
  BY <1>1 DEF TH!UniqueName
<1>3. TH!Plain(look.base) \in NameRec /\ withMode \in NameRec
  <2>1. look.base \in ThemeBases /\ look.mode \in {"Light", "Dark"}
    BY DEF Looks
  <2>2. TH!Plain(look.base) \in NameRec
    BY <2>1, GivenName
  <2>. QED
    BY <2>1, <2>2 DEF NameRec
<1>4. stems[1] \in NameRec /\ stems[2] \in NameRec
  BY <1>3
<1>. HIDE DEF stems
<1>5. ASSUME NEW i \in 1..2, NEW n \in Nat PROVE At(i, n) \in NameRec /\ At(i, n).custom = n
  <2>1. stems[i] \in NameRec
    BY <1>4
  <2>. QED
    BY <2>1 DEF NameRec
<1>. HIDE DEF At
<1>6. C \in Nat
  BY FS_CardinalityType
<1>7. \E n \in 2..(2 + C) : 1 \in Free(n)
  <2>1. SUFFICES ASSUME \A n \in 2..(2 + C) : At(1, n) \in used PROVE FALSE
    OBVIOUS
  <2>. DEFINE f == [n \in 2..(2 + C) |-> At(1, n)]
  <2>2. f \in Injection(2..(2 + C), used)
    <3>1. \A m, n \in 2..(2 + C) : At(1, m) = At(1, n) => m = n
      BY <1>5, <1>6
    <3>. QED
      BY <2>1, <3>1 DEF Injection, IsInjective
  <2>3. IsFiniteSet(2..(2 + C)) /\ Cardinality(2..(2 + C)) = C + 1
    BY <1>6, FS_Interval
  <2>. HIDE DEF f
  <2>4. Cardinality(2..(2 + C)) <= C
    BY <2>2, FS_Injection
  <2>. QED
    BY <1>6, <2>3, <2>4
<1>8. \E n \in 2..(2 + C) : IsFirst(n)
  <2>. DEFINE S == {n \in 2..(2 + C) : 1 \in Free(n)}
  <2>1. S \subseteq Nat /\ S # {}
    BY <1>6, <1>7
  <2>2. PICK n \in S : \A m \in S : n <= m
    BY <2>1, Least
  <2>3. \A m \in 2..(n - 1) : m \in 2..(2 + C) /\ ~(n <= m)
    BY <1>6
  <2>. QED
    BY <2>2, <2>3
<1>. DEFINE last == CHOOSE n \in 2..(2 + C) : IsFirst(n)
<1>9. last \in 2..(2 + C) /\ 1 \in Free(last)
  <2>. HIDE DEF Free
  <2>1. last \in 2..(2 + C) /\ IsFirst(last)
    BY <1>8, Zenon
  <2>. QED
    BY <2>1
<1>. HIDE DEF last
<1>10. last \in Nat
  BY <1>6, <1>9
<1>11. CASE Free(0) # {}
  BY <1>2, <1>5, <1>11
<1>12. CASE Free(0) = {} /\ Free(1) # {}
  BY <1>2, <1>5, <1>12
<1>13. CASE Free(0) = {} /\ Free(1) = {}
  <2>1. TH!UniqueName(look, prefer, used) = At(1, last)
    BY <1>2, <1>13 DEF last
  <2>. QED
    BY <1>5, <1>9, <1>10, <2>1
<1>. QED
  BY <1>11, <1>12, <1>13

-----------------------------------------------------------------------------
(* Files that are as they were or gone have no name they did not have.       *)
Shrinks(fs) == fs \in FileMaps /\ \A f \in TH!FileNames : fs[f] \in {themeFiles[f], <<>>}

LEMMA ShrunkNames ==
  ASSUME ThemesTypes, NEW fs, Shrinks(fs)
  PROVE  /\ TH!Names(fs) \subseteq TH!Names(themeFiles) /\ IsFiniteSet(TH!Names(fs))
         /\ FilesDiffer(themeFiles) => FilesDiffer(fs)
         /\ \A q : Knows(q, themeFiles) /\ (q.at = "writing" => q.target \in TH!FileNames) =>
              Knows(q, fs)
<1>1. fs \in FileMaps /\ themeFiles \in FileMaps
  BY DEF Shrinks, ThemesTypes
<1>2. \A f \in TH!FileNames : \A i \in DOMAIN fs[f] :
        i \in DOMAIN themeFiles[f] /\ fs[f][i] = themeFiles[f][i]
  BY DEF Shrinks
<1>3. TH!Names(fs) \subseteq TH!Names(themeFiles)
  BY <1>1, <1>2, NamesAre
<1>4. IsFiniteSet(TH!Names(fs))
  BY <1>3, FS_Subset DEF ThemesTypes
<1>5. FilesDiffer(themeFiles) => FilesDiffer(fs)
  BY <1>2 DEF FilesDiffer
<1>6. ASSUME NEW q, Knows(q, themeFiles), q.at = "writing" => q.target \in TH!FileNames
      PROVE  Knows(q, fs)
  BY <1>3, <1>6 DEF Knows, Shrinks
<1>. QED
  BY <1>3, <1>4, <1>5, <1>6

LEMMA EnsuredShrinks ==
  ASSUME ThemesTypes
  PROVE  /\ Shrinks(TH!EnsureDir(themeFiles)) /\ Shrinks(themeFiles)
         /\ \A f \in TH!FileNames :
              themeFiles[f] # TH!EnsureDir(themeFiles)[f] => f.stem = TH!Legacy
<1>1. \A f \in TH!FileNames : themeFiles[f] \in Seq(ThemeRec)
  BY DEF ThemesTypes, FileMaps
<1>2. \A f \in TH!FileNames :
        TH!EnsureDir(themeFiles)[f] = IF f.stem = TH!Legacy /\ f.index = 1 THEN <<>> ELSE themeFiles[f]
  BY DEF TH!EnsureDir
<1>3. TH!EnsureDir(themeFiles) \in FileMaps
  <2>1. \A f \in TH!FileNames :
          (IF f.stem = TH!Legacy /\ f.index = 1 THEN <<>> ELSE themeFiles[f]) \in Seq(ThemeRec)
    BY <1>1
  <2>. QED
    BY <2>1 DEF TH!EnsureDir, FileMaps
<1>. QED
  BY <1>2, <1>3 DEF Shrinks, ThemesTypes

(* unique_theme_file_path finds a name that is free.                         *)
LEMMA TargetIsFree ==
  ASSUME ThemesBounded, NEW fs, NEW stem \in TH!Stems,
         fs[[stem |-> stem, index |-> MaxFiles]] = <<>>
  PROVE  TH!Target(fs, stem) \in TH!FileNames /\ fs[TH!Target(fs, stem)] = <<>>
<1>. DEFINE File(i) == [stem |-> stem, index |-> i]
            S == {i \in 1..MaxFiles : fs[File(i)] = <<>>}
            IsFirst(i) == fs[File(i)] = <<>> /\ \A k \in 1..(i - 1) : fs[File(k)] # <<>>
            i == CHOOSE i \in 1..MaxFiles : IsFirst(i)
<1>1. MaxFiles \in Nat \ {0}
  BY DEF ThemesBounded
<1>2. S \subseteq Nat /\ MaxFiles \in S
  BY <1>1
<1>3. PICK n \in S : \A m \in S : n <= m
  BY <1>2, Least
<1>4. IsFirst(n)
  <2>1. \A k \in 1..(n - 1) : k \in 1..MaxFiles /\ ~(n <= k)
    BY <1>1, <1>2
  <2>. QED
    BY <1>3, <2>1
<1>5. i \in 1..MaxFiles /\ IsFirst(i)
  BY <1>3, <1>4, Zenon
<1>6. TH!Target(fs, stem) = File(i)
  BY DEF TH!Target
<1>. HIDE DEF i
<1>7. File(i) \in TH!FileNames
  BY <1>5 DEF TH!FileNames
<1>. QED
  BY <1>5, <1>6, <1>7

-----------------------------------------------------------------------------
(* A job goes on, or ends, while no file is written.                         *)
LEMMA ThemeJobGoesOn ==
  ASSUME ThemesInv, NEW j \in ThemeJobs, NEW to \in JobRec, JobFits(to), TH!Becomes(j, to),
         Shrinks(themeFiles'), UNCHANGED <<preference, savedTheme, applied>>, raced' \in BOOLEAN,
         ~raced' => /\ ~raced
                    /\ IsActive(to) => \A k \in ThemeJobs : IsActive(job[k]) => k = j
                    /\ Knows(to, themeFiles')
  PROVE  ThemesInv'
<1>. USE DEF ThemesInv
<1>1. job' = [job EXCEPT ![j] = to]
  BY DEF TH!Becomes
<1>2. /\ themeFiles' \in FileMaps /\ IsFiniteSet(TH!Names(themeFiles'))
      /\ FilesDiffer(themeFiles) => FilesDiffer(themeFiles')
      /\ \A q : Knows(q, themeFiles) /\ (q.at = "writing" => q.target \in TH!FileNames) =>
           Knows(q, themeFiles')
  BY ShrunkNames DEF Shrinks
<1>3. /\ job' \in [ThemeJobs -> JobRec] /\ job'[j] = to
      /\ \A k \in ThemeJobs \ {j} : job'[k] = job[k]
  BY <1>1 DEF ThemesTypes
<1>4. ThemesTypes'
  BY <1>2, <1>3 DEF ThemesTypes
<1>5. JobsFit'
  BY <1>3 DEF JobsFit
<1>6. Chosen'
  BY DEF Chosen
<1>7. ThemeAlone'
  <2>1. SUFFICES ASSUME ~raced'
                 PROVE  /\ \A k, l \in ThemeJobs : IsActive(job'[k]) /\ IsActive(job'[l]) => k = l
                        /\ \A k \in ThemeJobs : Knows(job'[k], themeFiles')
    BY DEF ThemeAlone
  <2>2. ~raced
    BY <2>1
  <2>3. \A k \in ThemeJobs : Knows(job[k], themeFiles')
    BY <1>2, <2>2 DEF ThemeAlone, JobsFit, JobFits
  <2>4. \A k \in ThemeJobs : Knows(job'[k], themeFiles')
    BY <1>3, <2>1, <2>3
  <2>5. \A k, l \in ThemeJobs : IsActive(job'[k]) /\ IsActive(job'[l]) => k = l
    BY <1>3, <2>1, <2>2 DEF ThemeAlone
  <2>. QED
    BY <2>4, <2>5
<1>8. Differ'
  BY <1>2 DEF Differ
<1>. QED
  BY <1>4, <1>5, <1>6, <1>7, <1>8

LEMMA TailShorter ==
  ASSUME NEW queue \in Seq(Queued), queue # <<>>
  PROVE  Tail(queue) \in Seq(Queued) /\ (Len(queue) # 1 => Tail(queue) # <<>>)
<1>1. Len(queue) \in Nat /\ Len(queue) > 0 /\ Tail(queue) \in Seq(Queued)
      /\ Len(Tail(queue)) = Len(queue) - 1
  OBVIOUS
<1>2. Len(queue) # 1 => Len(Tail(queue)) # 0
  BY <1>1
<1>3. Tail(queue) = <<>> => Len(Tail(queue)) = 0
  BY Len(<<>>) = 0
<1>. QED
  BY <1>1, <1>2, <1>3, Zenon

LEMMA QueuedThemes ==
  ASSUME ThemesBounded, NEW queue \in Seq(Queued), queue # <<>>
  PROVE  /\ Head(queue).themes \in Seq(Looks) /\ Len(Head(queue).themes) \in Nat
         /\ Head(queue).stem \in TH!Stems
<1>1. Head(queue) \in Queued
  OBVIOUS
<1>2. TH!Template.themes \in Seq(Looks) /\ TH!Template.stem = "template"
  BY DEF TH!Template, Looks, ThemeBases
<1>3. Head(queue).themes \in Seq(Looks)
  BY <1>1, <1>2 DEF Queued, ThemesBounded
<1>4. Head(queue).stem \in TH!Stems
  BY <1>1, <1>2 DEF Queued, TH!Stems
<1>. QED
  BY <1>3, <1>4

(* A click starts a job with the names of the directory.                     *)
LEMMA ThemeClicks ==
  ASSUME ThemesBounded, ThemesInv, NEW j \in ThemeJobs, TH!ClickImport(j) \/ TH!ClickTemplate(j)
  PROVE  ThemesInv' /\ UNCHANGED <<themeFiles, applied>>
<1>. USE DEF ThemesInv
<1>1. PICK stage \in {"dialog", "naming"}, queue \in Seq(Queued) :
        /\ TH!Becomes(j, TH!Job(stage, TH!Names(themeFiles), queue))
        /\ stage = "naming" => queue # <<>>
        /\ raced' = (raced \/ TH!Active # {})
        /\ UNCHANGED <<themeFiles, preference, savedTheme, applied>>
  <2>1. <<>> \in Seq(Queued) /\ <<TH!Template>> \in Seq(Queued) /\ <<TH!Template>> # <<>>
    BY DEF Queued
  <2>2. CASE TH!ClickImport(j)
    BY <2>1, <2>2 DEF TH!ClickImport, TH!Begins
  <2>3. CASE TH!ClickTemplate(j)
    BY <2>1, <2>3 DEF TH!ClickTemplate, TH!Begins
  <2>. QED
    BY <2>2, <2>3
<1>. DEFINE to == TH!Job(stage, TH!Names(themeFiles), queue)
<1>2. TH!Names(themeFiles) \subseteq NameRec /\ IsFiniteSet(TH!Names(themeFiles))
  BY NamesTyped DEF ThemesTypes
<1>3. /\ to.at = stage /\ to.used = TH!Names(themeFiles) /\ to.queue = queue /\ to.named = <<>>
      /\ to.target = TH!NoFile
  BY DEF TH!Job
<1>4. to \in JobRec
  <2>1. <<>> \in Seq(ThemeRec)
    OBVIOUS
  <2>. QED
    BY <1>2, <2>1 DEF TH!Job, JobRec
<1>. HIDE DEF to
<1>5. JobFits(to)
  <2>1. stage = "naming" => Len(to.named) <= Len(Head(to.queue).themes)
    BY <1>1, <1>3, QueuedThemes
  <2>. QED
    BY <1>1, <1>2, <1>3, <2>1 DEF JobFits
<1>6. Knows(to, themeFiles')
  BY <1>1, <1>3 DEF Knows
<1>7. ~raced' => ~raced /\ \A k \in ThemeJobs : IsActive(job[k]) => k = j
  BY <1>1 DEF TH!Active, IsActive
<1>8. Shrinks(themeFiles')
  BY <1>1, EnsuredShrinks
<1>9. raced' \in BOOLEAN
  BY <1>1
<1>10. ThemesInv'
  BY <1>1, <1>4, <1>5, <1>6, <1>7, <1>8, <1>9, ThemeJobGoesOn DEF to
<1>. QED
  BY <1>1, <1>10

(* A file of the user is at work: what stays, what a job that goes on knows.   *)
LEMMA ThemeStays ==
  ASSUME ThemesInv, NEW j \in ThemeJobs, IsActive(job[j])
  PROVE  /\ job[j] \in JobRec /\ JobFits(job[j])
         /\ ~raced => Knows(job[j], themeFiles) /\ \A k \in ThemeJobs : IsActive(job[k]) => k = j
BY DEF ThemesInv, ThemesTypes, JobsFit, ThemeAlone

LEMMA ThemeJobTurns ==
  ASSUME ThemesBounded, ThemesInv, NEW j \in ThemeJobs,
         \/ TH!Cancel(j) \/ TH!Unreadable(j) \/ TH!NameFile(j) \/ TH!Finish(j)
         \/ \E q \in TH!Queues : TH!Pick(j, q)
  PROVE  ThemesInv' /\ UNCHANGED <<themeFiles, applied>>
<1>. USE DEF ThemesInv
<1>. DEFINE old == job[j]
<1>1. UNCHANGED <<themeFiles, preference, savedTheme, applied, raced>>
  BY DEF TH!Cancel, TH!Unreadable, TH!NameFile, TH!Finish, TH!Pick
<1>2. IsActive(old)
  BY DEF IsActive, TH!Cancel, TH!Unreadable, TH!NameFile, TH!Finish, TH!Pick
<1>3. /\ old \in JobRec /\ JobFits(old)
      /\ ~raced => Knows(old, themeFiles) /\ \A k \in ThemeJobs : IsActive(job[k]) => k = j
  BY <1>2, ThemeStays
<1>4. Shrinks(themeFiles') /\ raced' \in BOOLEAN
  BY <1>1, EnsuredShrinks DEF ThemesTypes
<1>5. ASSUME NEW to \in JobRec, TH!Becomes(j, to), to.used = old.used \/ ~IsActive(to),
             to.named = <<>>, IsFiniteSet(to.used), to.at # "writing",
             to.at \in {"importing", "naming"} => to.queue # <<>>
      PROVE  ThemesInv'
  <2>1. JobFits(to)
    <3>1. to.at = "naming" => Len(to.named) <= Len(Head(to.queue).themes)
      BY <1>5, QueuedThemes DEF JobRec
    <3>. QED
      BY <1>5, <3>1 DEF JobFits
  <2>2. ~raced => Knows(to, themeFiles)
    BY <1>2, <1>3, <1>5 DEF Knows
  <2>. QED
    BY <1>1, <1>3, <1>4, <1>5, <2>1, <2>2, ThemeJobGoesOn
<1>. HIDE DEF old
<1>6. CASE TH!Cancel(j) \/ TH!Finish(j)
  <2>1. TH!Becomes(j, TH!Over)
    BY <1>6 DEF TH!Cancel, TH!Finish
  <2>2. /\ TH!Over.at = "over" /\ TH!Over.used = {} /\ TH!Over.queue = <<>>
        /\ TH!Over.named = <<>> /\ ~IsActive(TH!Over)
    BY DEF TH!Over, TH!Job, IsActive
  <2>3. TH!Over \in JobRec
    <3>1. <<>> \in Seq(Queued) /\ <<>> \in Seq(ThemeRec)
      OBVIOUS
    <3>. QED
      BY <3>1 DEF JobRec, TH!Over, TH!Job
  <2>. QED
    BY <1>1, <1>5, <2>1, <2>2, <2>3, FS_EmptySet
<1>7. CASE \E q \in TH!Queues : TH!Pick(j, q)
  <2>1. PICK q \in TH!Queues : TH!Pick(j, q)
    BY <1>7
  <2>2. q \in Seq(Queued) /\ q # <<>>
    <3>1. \/ \E u \in Sources : q = <<u>>
          \/ \E u, w \in Sources : q = <<u, w>>
      BY DEF TH!Queues
    <3>2. Sources \subseteq Queued
      BY DEF Queued
    <3>3. CASE \E u \in Sources : q = <<u>>
      BY <3>2, <3>3
    <3>4. CASE \E u, w \in Sources : q = <<u, w>>
      BY <3>2, <3>4
    <3>. QED
      BY <3>1, <3>3, <3>4
  <2>. DEFINE to == [job[j] EXCEPT !.at = "importing", !.queue = q]
  <2>3. TH!Becomes(j, to) /\ old.at = "dialog"
    BY <2>1 DEF TH!Pick, old
  <2>4. /\ to \in JobRec /\ to.at = "importing" /\ to.queue = q /\ to.used = old.used
        /\ to.named = old.named
    BY <1>3, <2>2 DEF JobRec, old
  <2>. HIDE DEF to
  <2>5. to.named = <<>> /\ IsFiniteSet(to.used)
    BY <1>3, <2>3, <2>4 DEF JobFits
  <2>. QED
    BY <1>1, <1>5, <2>2, <2>3, <2>4, <2>5
<1>8. CASE TH!NameFile(j)
  <2>. DEFINE to == [job[j] EXCEPT !.at = "naming"]
  <2>1. TH!Becomes(j, to) /\ old.at = "importing"
    BY <1>8 DEF TH!NameFile, old
  <2>2. /\ to \in JobRec /\ to.at = "naming" /\ to.queue = old.queue /\ to.used = old.used
        /\ to.named = old.named
    BY <1>3 DEF JobRec, old
  <2>. HIDE DEF to
  <2>3. to.named = <<>> /\ IsFiniteSet(to.used) /\ to.queue # <<>>
    BY <1>3, <2>1, <2>2 DEF JobFits
  <2>. QED
    BY <1>1, <1>5, <2>1, <2>2, <2>3
<1>9. CASE TH!Unreadable(j)
  <2>. DEFINE to == [job[j] EXCEPT !.queue = Tail(@),
                                   !.at = IF Len(job[j].queue) = 1 THEN "done" ELSE @]
  <2>1. TH!Becomes(j, to) /\ old.at = "importing"
    BY <1>9 DEF TH!Unreadable, old
  <2>2. old.queue \in Seq(Queued) /\ old.queue # <<>>
    BY <1>3, <2>1 DEF JobRec, JobFits
  <2>3. /\ Tail(old.queue) \in Seq(Queued) /\ (Len(old.queue) # 1 => Tail(old.queue) # <<>>)
    BY <2>2, TailShorter
  <2>4. (IF Len(old.queue) = 1 THEN "done" ELSE old.at) \in {"done", "importing"}
    BY <2>1
  <2>5. /\ to \in JobRec /\ to.queue = Tail(old.queue) /\ to.used = old.used
        /\ to.at = (IF Len(old.queue) = 1 THEN "done" ELSE old.at) /\ to.named = old.named
    BY <1>3, <2>3, <2>4 DEF JobRec, old
  <2>. HIDE DEF to
  <2>6. to.named = <<>> /\ IsFiniteSet(to.used)
    BY <1>3, <2>1, <2>5 DEF JobFits
  <2>. QED
    BY <1>1, <1>5, <2>1, <2>3, <2>4, <2>5, <2>6
<1>. QED
  BY <1>1, <1>6, <1>7, <1>8, <1>9

LEMMA NameThemeStep ==
  ASSUME ThemesBounded, ThemesInv, NEW j \in ThemeJobs, TH!NameTheme(j)
  PROVE  ThemesInv' /\ UNCHANGED <<themeFiles, applied>>
<1>. USE DEF ThemesInv
<1>. DEFINE old == job[j]
            name == TH!NameOf(j)
            look == TH!NextTheme(j)
            new == [name |-> name, mode |-> look.mode]
            to == [job[j] EXCEPT !.named = TH!NamedNext(j), !.used = @ \cup {TH!NameOf(j)}]
<1>1. /\ UNCHANGED <<themeFiles, preference, savedTheme, applied, raced>>
      /\ TH!Becomes(j, to) /\ old.at = "naming" /\ ~TH!Named(j)
  BY DEF TH!NameTheme
<1>2. /\ old \in JobRec /\ JobFits(old) /\ IsActive(old)
      /\ ~raced => Knows(old, themeFiles) /\ \A k \in ThemeJobs : IsActive(job[k]) => k = j
  BY <1>1, ThemeStays DEF IsActive
<1>3. Shrinks(themeFiles') /\ raced' \in BOOLEAN
  BY <1>1, EnsuredShrinks DEF ThemesTypes
<1>4. /\ look \in Looks /\ Len(old.named) + 1 <= Len(Head(old.queue).themes)
      /\ old.queue \in Seq(Queued) /\ old.queue # <<>> /\ old.named \in Seq(ThemeRec)
  <2>1. /\ old.queue \in Seq(Queued) /\ old.queue # <<>> /\ old.named \in Seq(ThemeRec)
        /\ Len(old.named) <= Len(Head(old.queue).themes)
    BY <1>1, <1>2 DEF JobRec, JobFits
  <2>2. Head(old.queue).themes \in Seq(Looks) /\ Len(Head(old.queue).themes) \in Nat
    BY <2>1, QueuedThemes
  <2>3. Len(old.named) + 1 \in 1..Len(Head(old.queue).themes)
    BY <1>1, <2>1, <2>2 DEF TH!Named
  <2>4. look = Head(old.queue).themes[Len(old.named) + 1]
    BY DEF TH!NextTheme
  <2>. HIDE DEF old, look
  <2>. QED
    BY <2>1, <2>2, <2>3, <2>4
<1>5. name \in NameRec /\ name \notin old.used
  BY <1>2, <1>4, NameIsNew DEF TH!NameOf, JobFits
<1>6. new \in ThemeRec /\ new.name = name
  BY <1>4, <1>5 DEF ThemeRec, Looks
<1>7. TH!NamedNext(j) = Append(old.named, new)
  BY DEF TH!NamedNext
<1>. HIDE DEF name, look, new
<1>8. /\ TH!NamedNext(j) \in Seq(ThemeRec) /\ DOMAIN TH!NamedNext(j) = 1..(Len(old.named) + 1)
      /\ \A i \in 1..Len(old.named) : TH!NamedNext(j)[i] = old.named[i]
      /\ TH!NamedNext(j)[Len(old.named) + 1] = new /\ DOMAIN old.named = 1..Len(old.named)
      /\ Len(old.named) \in Nat /\ Len(TH!NamedNext(j)) = Len(old.named) + 1
  BY <1>4, <1>6, <1>7
<1>9. \A i \in 1..(Len(old.named) + 1) : i \in 1..Len(old.named) \/ i = Len(old.named) + 1
  BY <1>8
<1>10. /\ to \in JobRec /\ to.at = "naming" /\ to.queue = old.queue
       /\ to.used = old.used \cup {name} /\ to.named = TH!NamedNext(j)
  <2>1. old.used \cup {name} \in SUBSET NameRec
    BY <1>2, <1>5 DEF JobRec
  <2>. QED
    BY <1>1, <1>2, <1>8, <2>1 DEF JobRec, name
<1>. HIDE DEF to, old
<1>11. JobFits(to)
  <2>1. IsFiniteSet(to.used)
    BY <1>2, <1>10, FS_AddElement DEF JobFits
  <2>2. \A i \in DOMAIN to.named : to.named[i].name \in to.used
    BY <1>2, <1>6, <1>8, <1>9, <1>10 DEF JobFits
  <2>3. Len(to.named) <= Len(Head(to.queue).themes)
    BY <1>4, <1>8, <1>10
  <2>. QED
    BY <1>4, <1>10, <2>1, <2>2, <2>3 DEF JobFits
<1>12. ASSUME ~raced PROVE Knows(to, themeFiles)
  <2>1. /\ TH!Names(themeFiles) \subseteq old.used
        /\ \A i \in DOMAIN old.named : old.named[i].name \notin TH!Names(themeFiles)
        /\ \A i, k \in DOMAIN old.named : old.named[i].name = old.named[k].name => i = k
    BY <1>2, <1>12 DEF Knows
  <2>2. \A i \in DOMAIN old.named : old.named[i].name # name
    BY <1>2, <1>5 DEF JobFits
  <2>3. \A i \in DOMAIN to.named : to.named[i].name \notin TH!Names(themeFiles)
    BY <1>5, <1>6, <1>8, <1>9, <1>10, <2>1
  <2>4. \A i, k \in DOMAIN to.named : to.named[i].name = to.named[k].name => i = k
    BY <1>6, <1>8, <1>9, <1>10, <2>1, <2>2
  <2>. QED
    BY <1>10, <2>1, <2>3, <2>4 DEF Knows
<1>. QED
  BY <1>1, <1>2, <1>3, <1>10, <1>11, <1>12, ThemeJobGoesOn DEF to

(* The place is chosen once the directory is in order.                        *)
LEMMA ChoosePathStep ==
  ASSUME ThemesBounded, ThemesInv, NEW j \in ThemeJobs, TH!ChoosePath(j)
  PROVE  ThemesInv' /\ UNCHANGED applied /\ themeFiles' = TH!EnsureDir(themeFiles)
<1>. USE DEF ThemesInv
<1>. DEFINE old == job[j]
            target == TH!Target(themeFiles', Head(job[j].queue).stem)
            to == [job[j] EXCEPT !.target = target, !.at = "writing"]
<1>1. /\ UNCHANGED <<preference, savedTheme, applied, raced>>
      /\ themeFiles' = TH!EnsureDir(themeFiles) /\ TH!Becomes(j, to) /\ old.at = "naming"
      /\ TH!HasRoom(Head(old.queue).stem)
  BY DEF TH!ChoosePath
<1>2. /\ old \in JobRec /\ JobFits(old) /\ IsActive(old)
      /\ ~raced => Knows(old, themeFiles) /\ \A k \in ThemeJobs : IsActive(job[k]) => k = j
  BY <1>1, ThemeStays DEF IsActive
<1>3. Shrinks(themeFiles') /\ raced' \in BOOLEAN
  BY <1>1, EnsuredShrinks DEF ThemesTypes
<1>4. target \in TH!FileNames /\ themeFiles'[target] = <<>>
  <2>1. Head(old.queue).stem \in TH!Stems
    BY <1>1, <1>2, QueuedThemes DEF JobRec, JobFits
  <2>2. [stem |-> Head(old.queue).stem, index |-> MaxFiles] \in TH!FileNames
    BY <2>1 DEF TH!FileNames, ThemesBounded
  <2>3. themeFiles'[[stem |-> Head(old.queue).stem, index |-> MaxFiles]] = <<>>
    BY <1>1, <1>3, <2>2 DEF Shrinks, TH!HasRoom
  <2>. QED
    BY <2>1, <2>3, TargetIsFree
<1>. HIDE DEF target
<1>5. /\ to \in JobRec /\ to.at = "writing" /\ to.queue = old.queue /\ to.used = old.used
      /\ to.named = old.named /\ to.target = target
  BY <1>2, <1>4 DEF JobRec
<1>. HIDE DEF to, old
<1>6. JobFits(to)
  BY <1>1, <1>2, <1>4, <1>5 DEF JobFits
<1>7. ~raced => Knows(to, themeFiles')
  <2>1. ~raced => Knows(old, themeFiles')
    BY <1>1, <1>2, <1>3, ShrunkNames
  <2>. QED
    BY <1>2, <1>4, <1>5, <2>1 DEF Knows
<1>. QED
  BY <1>1, <1>2, <1>3, <1>5, <1>6, <1>7, ThemeJobGoesOn DEF to

(* The write of a file, which may fail.                                      *)
LEMMA ThemeWriteStep ==
  ASSUME ThemesBounded, ThemesInv, NEW j \in ThemeJobs, NEW ok \in BOOLEAN, TH!Write(j, ok)
  PROVE  ThemesInv' /\ UNCHANGED applied /\ TH!FilesKept
<1>. USE DEF ThemesInv
<1>. DEFINE old == job[j]
            next == IF Len(job[j].queue) = 1 THEN "done" ELSE "importing"
            to == [job[j] EXCEPT !.queue = Tail(@), !.target = TH!NoFile, !.named = <<>>, !.at = next]
<1>1. /\ UNCHANGED <<preference, savedTheme, applied, raced>> /\ TH!Becomes(j, to)
      /\ themeFiles' = IF ok THEN [themeFiles EXCEPT ![old.target] = old.named] ELSE themeFiles
      /\ old.at \in {"naming", "writing"} /\ (ok => old.at = "writing")
  BY DEF TH!Write
<1>2. /\ old \in JobRec /\ JobFits(old) /\ IsActive(old)
      /\ ~raced => Knows(old, themeFiles) /\ \A k \in ThemeJobs : IsActive(job[k]) => k = j
  BY <1>1, ThemeStays DEF IsActive
<1>3. old.queue \in Seq(Queued) /\ old.queue # <<>>
  BY <1>1, <1>2 DEF JobRec, JobFits
<1>4. Tail(old.queue) \in Seq(Queued) /\ (Len(old.queue) # 1 => Tail(old.queue) # <<>>)
  BY <1>3, TailShorter
<1>5. /\ to \in JobRec /\ to.at = next /\ to.queue = Tail(old.queue) /\ to.used = old.used
      /\ to.named = <<>>
  <2>1. <<>> \in Seq(ThemeRec) /\ next \in {"done", "importing"}
    OBVIOUS
  <2>. HIDE DEF next
  <2>. QED
    BY <1>2, <1>4, <2>1 DEF JobRec
<1>6. JobFits(to)
  BY <1>2, <1>4, <1>5 DEF JobFits
<1>7. next \in {"done", "importing"}
  OBVIOUS
<1>. HIDE DEF to, old, next
<1>8. CASE ~ok
  <2>1. themeFiles' = themeFiles /\ Shrinks(themeFiles') /\ raced' \in BOOLEAN
    BY <1>1, <1>8, EnsuredShrinks DEF ThemesTypes
  <2>2. ~raced => Knows(to, themeFiles')
    BY <1>2, <1>5, <1>7, <2>1 DEF Knows
  <2>3. ThemesInv'
    BY <1>1, <1>2, <1>5, <1>6, <2>1, <2>2, ThemeJobGoesOn DEF to
  <2>. QED
    BY <1>1, <2>1, <2>3 DEF TH!FilesKept
<1>9. CASE ok
  <2>1. /\ old.at = "writing" /\ old.target \in TH!FileNames /\ old.named \in Seq(ThemeRec)
        /\ themeFiles' = [themeFiles EXCEPT ![old.target] = old.named]
    BY <1>1, <1>2, <1>9 DEF JobFits, JobRec
  <2>2. /\ themeFiles' \in FileMaps /\ themeFiles'[old.target] = old.named
        /\ \A f \in TH!FileNames \ {old.target} : themeFiles'[f] = themeFiles[f]
    BY <2>1 DEF ThemesTypes, FileMaps
  <2>3. themeFiles \in FileMaps
    BY DEF ThemesTypes
  <2>4. TH!Names(themeFiles') \subseteq TH!Names(themeFiles) \cup old.used
    <3>1. SUFFICES ASSUME NEW x \in TH!Names(themeFiles')
                   PROVE  x \in TH!Names(themeFiles) \cup old.used
      OBVIOUS
    <3>2. CASE x \in GivenNames
      BY <2>3, <3>2, NamesAre
    <3>3. CASE \E f \in TH!FileNames : \E i \in DOMAIN themeFiles'[f] : x = themeFiles'[f][i].name
      <4>1. PICK f \in TH!FileNames : \E i \in DOMAIN themeFiles'[f] : x = themeFiles'[f][i].name
        BY <3>3
      <4>2. CASE f = old.target
        BY <1>2, <2>2, <4>1, <4>2 DEF JobFits
      <4>3. CASE f # old.target
        BY <2>2, <2>3, <4>1, <4>3, NamesAre
      <4>. QED
        BY <4>2, <4>3
    <3>. QED
      BY <2>2, <3>1, <3>2, <3>3, NamesAre
  <2>5. IsFiniteSet(TH!Names(themeFiles'))
    <3>1. IsFiniteSet(TH!Names(themeFiles) \cup old.used)
      BY <1>2, FS_Union DEF ThemesTypes, JobFits
    <3>. QED
      BY <2>4, <3>1, FS_Subset
  <2>6. /\ job' \in [ThemeJobs -> JobRec] /\ job'[j] = to
        /\ \A k \in ThemeJobs \ {j} : job'[k] = job[k]
    BY <1>1, <1>5 DEF ThemesTypes, TH!Becomes
  <2>7. ThemesTypes'
    BY <1>1, <2>2, <2>5, <2>6 DEF ThemesTypes
  <2>8. JobsFit' /\ Chosen'
    BY <1>1, <1>6, <2>6 DEF JobsFit, Chosen
  <2>9. ASSUME ~raced
        PROVE  /\ \A i \in DOMAIN old.named : old.named[i].name \notin TH!Names(themeFiles)
               /\ \A i, k \in DOMAIN old.named : old.named[i].name = old.named[k].name => i = k
               /\ themeFiles[old.target] = <<>> /\ TH!Names(themeFiles) \subseteq old.used
    BY <1>2, <2>1, <2>9 DEF Knows
  <2>10. ThemeAlone'
    <3>1. SUFFICES ASSUME ~raced'
                   PROVE  /\ \A k, l \in ThemeJobs : IsActive(job'[k]) /\ IsActive(job'[l]) => k = l
                          /\ \A k \in ThemeJobs : Knows(job'[k], themeFiles')
      BY DEF ThemeAlone
    <3>2. ~raced
      BY <1>1, <3>1
    <3>3. \A k \in ThemeJobs \ {j} : ~IsActive(job'[k])
      BY <1>2, <2>6, <3>2
    <3>4. Knows(to, themeFiles')
      BY <1>5, <1>7, <2>4, <2>9, <3>2 DEF Knows
    <3>5. \A k \in ThemeJobs : Knows(job'[k], themeFiles')
      BY <2>6, <3>3, <3>4 DEF Knows
    <3>. QED
      BY <3>3, <3>5
  <2>11. Differ'
    <3>1. SUFFICES ASSUME ~raced PROVE FilesDiffer(themeFiles')
      BY <1>1 DEF Differ
    <3>2. FilesDiffer(themeFiles)
      BY <3>1 DEF Differ
    <3>3. /\ \A x \in GivenNames : x \in TH!Names(themeFiles)
          /\ \A f \in TH!FileNames : \A i \in DOMAIN themeFiles[f] :
               themeFiles[f][i].name \in TH!Names(themeFiles)
      BY <2>3, NamesAre
    <3>4. \A f \in TH!FileNames : \A i \in DOMAIN themeFiles'[f] :
            themeFiles'[f][i].name \notin GivenNames
      BY <2>2, <2>9, <3>1, <3>2, <3>3 DEF FilesDiffer
    <3>5. ASSUME NEW f \in TH!FileNames, NEW g \in TH!FileNames, NEW i \in DOMAIN themeFiles'[f],
                 NEW k \in DOMAIN themeFiles'[g], themeFiles'[f][i].name = themeFiles'[g][k].name
          PROVE  f = g /\ i = k
      <4>1. CASE f = old.target /\ g = old.target
        BY <2>2, <2>9, <3>1, <3>5, <4>1
      <4>2. CASE f = old.target /\ g # old.target
        BY <2>2, <2>9, <3>1, <3>3, <3>5, <4>2
      <4>3. CASE f # old.target /\ g = old.target
        BY <2>2, <2>9, <3>1, <3>3, <3>5, <4>3
      <4>4. CASE f # old.target /\ g # old.target
        BY <2>2, <3>2, <3>5, <4>4 DEF FilesDiffer
      <4>. QED
        BY <4>1, <4>2, <4>3, <4>4
    <3>. QED
      BY <3>4, <3>5 DEF FilesDiffer
  <2>12. TH!FilesKept
    BY <2>2, <2>9 DEF TH!FilesKept
  <2>. QED
    BY <1>1, <2>7, <2>8, <2>10, <2>11, <2>12
<1>. QED
  BY <1>8, <1>9

(* The directory without a job: files are as they were or gone.              *)
LEMMA ThemeFilesGo ==
  ASSUME ThemesBounded, ThemesInv, TH!RestoreCurated \/ \E f \in TH!FileNames : TH!Delete(f)
  PROVE  ThemesInv' /\ UNCHANGED applied /\ TH!FilesKept
<1>. USE DEF ThemesInv
<1>1. UNCHANGED <<job, preference, savedTheme, applied, raced>>
  BY DEF TH!RestoreCurated, TH!Delete
<1>2. Shrinks(themeFiles') /\ TH!FilesKept
  <2>1. CASE TH!RestoreCurated
    BY <2>1, EnsuredShrinks DEF TH!RestoreCurated, TH!FilesKept
  <2>2. CASE \E f \in TH!FileNames : TH!Delete(f)
    <3>1. PICK f \in TH!FileNames : TH!Delete(f)
      BY <2>2
    <3>2. themeFiles' = [themeFiles EXCEPT ![f] = <<>>]
      BY <3>1 DEF TH!Delete
    <3>3. themeFiles \in [TH!FileNames -> Seq(ThemeRec)] /\ <<>> \in Seq(ThemeRec)
      BY DEF ThemesTypes, FileMaps
    <3>4. /\ themeFiles' \in FileMaps /\ themeFiles'[f] = <<>>
          /\ \A g \in TH!FileNames \ {f} : themeFiles'[g] = themeFiles[g]
      BY <3>2, <3>3 DEF FileMaps
    <3>5. TH!FilesKept
      BY <3>1, <3>4 DEF TH!FilesKept
    <3>6. ASSUME NEW g \in TH!FileNames PROVE themeFiles'[g] \in {themeFiles[g], <<>>}
      BY <3>4
    <3>. QED
      BY <3>4, <3>5, <3>6 DEF Shrinks
  <2>. QED
    BY <2>1, <2>2
<1>3. /\ themeFiles' \in FileMaps /\ IsFiniteSet(TH!Names(themeFiles'))
      /\ FilesDiffer(themeFiles) => FilesDiffer(themeFiles')
      /\ \A q : Knows(q, themeFiles) /\ (q.at = "writing" => q.target \in TH!FileNames) =>
           Knows(q, themeFiles')
  BY <1>2, ShrunkNames DEF Shrinks
<1>4. ThemesTypes'
  BY <1>1, <1>3 DEF ThemesTypes
<1>5. JobsFit' /\ Chosen'
  BY <1>1 DEF JobsFit, Chosen
<1>6. ThemeAlone'
  BY <1>1, <1>3 DEF ThemeAlone, JobsFit, JobFits
<1>7. Differ'
  BY <1>1, <1>3 DEF Differ
<1>. QED
  BY <1>1, <1>2, <1>4, <1>5, <1>6, <1>7

-----------------------------------------------------------------------------
(* Palettes.  The key of an entry tells it from those that are not like it.  *)
LEMMA EntriesTyped ==
  ASSUME NEW fs \in FileMaps
  PROVE  TH!Available(fs) \subseteq EntryRec /\ TH!DefaultEntry \in EntryRec
<1>1. ASSUME NEW b \in ThemeBases, NEW c \in {"builtin", "curated"}
      PROVE  TH!Entry(c, TH!NoFile, TH!Plain(b)) \in EntryRec
  BY GivenName DEF TH!Entry, EntryRec
<1>2. TH!DefaultEntry \in EntryRec
  BY <1>1 DEF TH!DefaultEntry, ThemeBases
<1>3. TH!Curated \subseteq EntryRec
  BY <1>1 DEF TH!Curated, ThemeBases
<1>4. TH!Custom(fs, "Light") \subseteq EntryRec
  <2>1. SUFFICES ASSUME NEW f \in TH!FileNames, NEW i \in DOMAIN fs[f]
                 PROVE  TH!Entry("custom", f, fs[f][i].name) \in EntryRec
    BY DEF TH!Custom, FileMaps
  <2>2. fs[f] \in Seq(ThemeRec)
    BY DEF FileMaps
  <2>3. fs[f][i] \in ThemeRec
    BY <2>2
  <2>. QED
    BY <2>3 DEF ThemeRec, TH!Entry, EntryRec
<1>. QED
  BY <1>2, <1>3, <1>4 DEF TH!Available

LEMMA KeyTells ==
  ASSUME NEW fs, NEW e, NEW g \in TH!Available(fs), TH!EntryKey(e) = TH!EntryKey(g)
  PROVE  g \in TH!Alike(fs, e)
BY DEF TH!EntryKey, TH!Alike

(* resolve_theme_preference: a key that is there leads to a palette like its  *)
(* entry, for a chosen palette and for the one in use before a start.        *)
LEMMA Resolved ==
  ASSUME NEW fs \in FileMaps, NEW pref, NEW e \in TH!Resolve(fs, pref)
  PROVE  /\ e \in EntryRec
         /\ \A g \in TH!Available(fs) : TH!EntryKey(g) = pref.key => e \in TH!Alike(fs, g)
<1>1. TH!Available(fs) \subseteq EntryRec /\ TH!DefaultEntry \in EntryRec
  BY EntriesTyped
<1>2. e \in TH!ByKey(fs, pref) \/ e \in TH!ByName(fs, pref) \/ e = TH!DefaultEntry
  BY DEF TH!Resolve, TH!First
<1>3. e \in EntryRec
  BY <1>1, <1>2 DEF TH!ByKey, TH!ByName, TH!First
<1>4. ASSUME NEW g \in TH!Available(fs), TH!EntryKey(g) = pref.key
      PROVE  e \in TH!Alike(fs, g)
  <2>1. g \in TH!ByKey(fs, pref)
    BY <1>4 DEF TH!ByKey
  <2>2. e \in TH!ByKey(fs, pref)
    BY <2>1 DEF TH!Resolve, TH!First
  <2>3. e \in TH!Available(fs) /\ TH!EntryKey(g) = TH!EntryKey(e)
    BY <1>4, <2>2 DEF TH!ByKey
  <2>. QED
    BY <2>3, KeyTells
<1>. QED
  BY <1>3, <1>4

LEMMA ChoiceKept ==
  ASSUME ThemesInv, NEW e \in TH!Available(themeFiles), TH!Choose(e)
  PROVE  applied' \in TH!Alike(themeFiles, e)
<1>1. PICK g \in TH!Resolve(themeFiles, [key |-> TH!EntryKey(e), name |-> TH!NoName]) : applied' = g
  BY DEF TH!Choose, TH!Apply
<1>2. themeFiles \in FileMaps
  BY DEF ThemesInv, ThemesTypes
<1>. QED
  BY <1>1, <1>2, Resolved

LEMMA ChoiceStep ==
  ASSUME ThemesBounded, ThemesInv, TH!Reset \/ \E e \in TH!Available(themeFiles) : TH!Choose(e)
  PROVE  ThemesInv' /\ UNCHANGED themeFiles
<1>. USE DEF ThemesInv
<1>1. UNCHANGED <<themeFiles, job, raced>> /\ \E pref : TH!Apply(pref)
  BY DEF TH!Reset, TH!Choose
<1>2. PICK pref : TH!Apply(pref)
  BY <1>1
<1>3. PICK e \in TH!Resolve(themeFiles, pref) :
        /\ applied' = e /\ savedTheme' = preference'
        /\ preference' = [key |-> TH!EntryKey(e), name |-> e.name]
  BY <1>2 DEF TH!Apply
<1>4. e \in EntryRec
  BY <1>3, Resolved DEF ThemesTypes
<1>5. Chosen'
  BY <1>3, <1>4 DEF Chosen
<1>6. ThemesTypes' /\ JobsFit' /\ Differ'
  BY <1>1 DEF ThemesTypes, JobsFit, Differ
<1>7. ThemeAlone'
  BY <1>1 DEF ThemeAlone
<1>. QED
  BY <1>1, <1>5, <1>6, <1>7

LEMMA ThemeRestartStep ==
  ASSUME ThemesBounded, ThemesInv, TH!Restart
  PROVE  ThemesInv' /\ TH!FilesKept
         /\ (applied \in TH!Available(themeFiles') => applied' \in TH!Alike(themeFiles', applied))
<1>. USE DEF ThemesInv
<1>1. /\ themeFiles' = TH!EnsureDir(themeFiles) /\ raced' = raced
      /\ job' = [j \in ThemeJobs |-> IF job[j] = TH!Idle THEN TH!Idle ELSE TH!Over]
  BY DEF TH!Restart
<1>2. PICK e \in TH!Resolve(themeFiles', savedTheme) :
        /\ applied' = e /\ savedTheme' = preference'
        /\ preference' = [key |-> TH!EntryKey(e), name |-> e.name]
  BY DEF TH!Restart
<1>3. /\ Shrinks(themeFiles') /\ TH!FilesKept
  BY <1>1, EnsuredShrinks DEF TH!FilesKept
<1>4. /\ themeFiles' \in FileMaps /\ IsFiniteSet(TH!Names(themeFiles'))
      /\ FilesDiffer(themeFiles) => FilesDiffer(themeFiles')
  BY <1>3, ShrunkNames DEF Shrinks
<1>5. /\ e \in EntryRec
      /\ \A g \in TH!Available(themeFiles') :
           TH!EntryKey(g) = savedTheme.key => e \in TH!Alike(themeFiles', g)
  BY <1>2, <1>4, Resolved
<1>6. savedTheme.key = TH!EntryKey(applied)
  BY DEF Chosen
<1>7. Chosen'
  BY <1>2, <1>5 DEF Chosen
<1>8. ASSUME NEW q, q \in {TH!Idle, TH!Over}
      PROVE  q \in JobRec /\ JobFits(q) /\ ~IsActive(q)
  <2>1. <<>> \in Seq(Queued) /\ <<>> \in Seq(ThemeRec)
    OBVIOUS
  <2>2. TH!Idle \in JobRec /\ TH!Over \in JobRec
    BY <2>1 DEF JobRec, TH!Idle, TH!Over, TH!Job
  <2>3. q.at \in {"idle", "over"} /\ q.used = {} /\ q.named = <<>>
    BY <1>8 DEF TH!Idle, TH!Over, TH!Job
  <2>4. JobFits(q)
    BY <2>3, FS_EmptySet DEF JobFits
  <2>. QED
    BY <1>8, <2>2, <2>3, <2>4 DEF IsActive
<1>9. \A j \in ThemeJobs : job'[j] \in {TH!Idle, TH!Over}
  BY <1>1
<1>10. ThemesTypes'
  <2>1. job' \in [ThemeJobs -> JobRec]
    BY <1>1, <1>8
  <2>. QED
    BY <1>1, <1>4, <2>1 DEF ThemesTypes
<1>11. JobsFit' /\ ThemeAlone'
  BY <1>8, <1>9 DEF JobsFit, ThemeAlone, Knows
<1>12. Differ'
  BY <1>1, <1>4 DEF Differ
<1>. QED
  BY <1>2, <1>3, <1>5, <1>6, <1>7, <1>10, <1>11, <1>12

LEMMA ThemeStep ==
  ASSUME ThemesBounded, ThemesInv, TH!Next
  PROVE  ThemesInv' /\ TH!FilesKept
<1>1. ASSUME NEW j \in ThemeJobs,
             \/ TH!ClickImport(j) \/ TH!Cancel(j) \/ TH!ClickTemplate(j) \/ TH!Unreadable(j)
             \/ TH!NameFile(j) \/ TH!NameTheme(j) \/ TH!Finish(j)
             \/ \E q \in TH!Queues : TH!Pick(j, q)
      PROVE  ThemesInv' /\ TH!FilesKept
  BY <1>1, ThemeClicks, ThemeJobTurns, NameThemeStep DEF TH!FilesKept
<1>2. ASSUME NEW j \in ThemeJobs, TH!ChoosePath(j)
      PROVE  ThemesInv' /\ TH!FilesKept
  BY <1>2, ChoosePathStep, EnsuredShrinks DEF TH!FilesKept, ThemesInv
<1>3. ASSUME NEW j \in ThemeJobs, NEW ok \in BOOLEAN, TH!Write(j, ok)
      PROVE  ThemesInv' /\ TH!FilesKept
  BY <1>3, ThemeWriteStep
<1>4. CASE TH!RestoreCurated \/ \E f \in TH!FileNames : TH!Delete(f)
  BY <1>4, ThemeFilesGo
<1>5. CASE TH!Reset \/ \E e \in TH!Available(themeFiles) : TH!Choose(e)
  BY <1>5, ChoiceStep DEF TH!FilesKept
<1>6. CASE TH!Restart
  BY <1>6, ThemeRestartStep
<1>. QED
  BY <1>1, <1>2, <1>3, <1>4, <1>5, <1>6 DEF TH!Next

LEMMA ThemesKeep == ASSUME ThemesBounded, ThemesInv PROVE TH!PreferenceKept
BY ChoiceKept, ThemeRestartStep DEF TH!PreferenceKept

LEMMA ThemesInitially == ASSUME ThemesBounded, TH!Init PROVE ThemesInv
<1>1. /\ themeFiles = [f \in TH!FileNames |-> <<>>] /\ job = [j \in ThemeJobs |-> TH!Idle]
      /\ preference = [key |-> TH!EntryKey(TH!DefaultEntry), name |-> TH!DefaultEntry.name]
      /\ savedTheme = preference /\ applied = TH!DefaultEntry /\ raced = FALSE
  BY DEF TH!Init
<1>2. themeFiles \in FileMaps /\ \A f \in TH!FileNames : themeFiles[f] = <<>>
  <2>1. <<>> \in Seq(ThemeRec)
    OBVIOUS
  <2>. QED
    BY <1>1, <2>1 DEF FileMaps
<1>3. IsFiniteSet(TH!Names(themeFiles))
  <2>1. TH!Names(themeFiles) \subseteq GivenNames
    BY <1>2, NamesAre
  <2>2. IsFiniteSet({TH!Plain(b) : b \in CuratedBases})
    <3>. DEFINE F == [b \in CuratedBases |-> TH!Plain(b)]
                T == {TH!Plain(b) : b \in CuratedBases}
    <3>1. F \in Surjection(CuratedBases, T)
      BY DEF Surjection
    <3>. HIDE DEF F, T
    <3>2. IsFiniteSet(T)
      BY <3>1, FS_Surjection DEF ThemesBounded
    <3>. QED
      BY <3>2 DEF T
  <2>3. IsFiniteSet(GivenNames)
    BY <2>2, FS_Singleton, FS_Union DEF GivenNames
  <2>. QED
    BY <2>1, <2>3, FS_Subset
<1>4. /\ TH!Idle \in JobRec /\ JobFits(TH!Idle) /\ ~IsActive(TH!Idle)
  <2>1. <<>> \in Seq(Queued) /\ <<>> \in Seq(ThemeRec)
    OBVIOUS
  <2>2. TH!Idle \in JobRec
    BY <2>1 DEF JobRec, TH!Idle, TH!Job
  <2>3. TH!Idle.at = "idle" /\ TH!Idle.used = {} /\ TH!Idle.named = <<>>
    BY DEF TH!Idle, TH!Job
  <2>. QED
    BY <2>2, <2>3, FS_EmptySet DEF JobFits, IsActive
<1>5. ThemesTypes /\ JobsFit
  BY <1>1, <1>2, <1>3, <1>4 DEF ThemesTypes, JobsFit
<1>6. Chosen
  BY <1>1, <1>2, EntriesTyped DEF Chosen
<1>7. ThemeAlone /\ Differ
  BY <1>1, <1>2, <1>4 DEF ThemeAlone, Knows, Differ, FilesDiffer
<1>. QED
  BY <1>5, <1>6, <1>7 DEF ThemesInv

LEMMA ThemesStutter ==
  ASSUME ThemesInv, UNCHANGED <<v1, v2, v3, v4, v5, v6>>
  PROVE  ThemesInv' /\ TH!FilesKept
<1>1. ThemesTypes' /\ JobsFit' /\ Chosen' /\ Differ'
  BY DEF ThemesInv, ThemesTypes, JobsFit, Chosen, Differ
<1>2. ThemeAlone'
  BY DEF ThemesInv, ThemeAlone
<1>. QED
  BY <1>1, <1>2 DEF ThemesInv, TH!FilesKept

LEMMA ThemesTruths == ASSUME ThemesBounded, ThemesInv PROVE TH!TypeOK /\ TH!NamesDistinct
<1>. USE DEF ThemesInv
<1>1. TH!TypeOK
  <2>1. ASSUME NEW f \in TH!FileNames, NEW i \in DOMAIN themeFiles[f]
        PROVE  themeFiles[f][i].mode \in {"Light", "Dark"}
    <3>1. themeFiles[f] \in Seq(ThemeRec)
      BY DEF ThemesTypes, FileMaps
    <3>2. themeFiles[f][i] \in ThemeRec
      BY <3>1
    <3>. QED
      BY <3>2 DEF ThemeRec
  <2>2. \A j \in ThemeJobs :
         /\ job[j].at \in {"idle", "over", "dialog", "importing", "naming", "writing", "done"}
         /\ job[j].at = "writing" => job[j].target \in TH!FileNames
    BY DEF ThemesTypes, JobRec, JobsFit, JobFits
  <2>. QED
    BY <2>1, <2>2 DEF TH!TypeOK, Chosen, EntryRec, ThemesTypes
<1>2. SUFFICES ASSUME ~raced
               PROVE  \A e, g \in TH!Entries(themeFiles) : e.name = g.name => e = g
  BY <1>1 DEF TH!NamesDistinct, Differ, FilesDiffer
<1>3. FilesDiffer(themeFiles) /\ themeFiles \in FileMaps
  BY <1>2 DEF Differ, ThemesTypes
<1>4. \A c, f, n : TH!Entry(c, f, n).name = n
  BY DEF TH!Entry
<1>5. ASSUME NEW e \in TH!Entries(themeFiles)
      PROVE  \/ e = TH!Entry("builtin", TH!NoFile, TH!Plain(BuiltinBase))
             \/ \E b \in CuratedBases : e = TH!Entry("curated", TH!NoFile, TH!Plain(b))
             \/ \E f \in TH!FileNames : \E i \in DOMAIN themeFiles[f] :
                  e = TH!Entry("custom", f, themeFiles[f][i].name)
  <2>1. CASE e = TH!DefaultEntry
    BY <2>1 DEF TH!DefaultEntry
  <2>2. CASE e \in TH!Curated
    BY <2>2 DEF TH!Curated
  <2>3. CASE e \in TH!Custom(themeFiles, "Light") \/ e \in TH!Custom(themeFiles, "Dark")
    BY <1>3, <2>3 DEF TH!Custom, FileMaps
  <2>. QED
    BY <2>1, <2>2, <2>3 DEF TH!Entries, TH!Available
<1>6. \A b, c : TH!Plain(b) = TH!Plain(c) => b = c
  BY DEF TH!Plain
<1>7. ASSUME NEW e \in TH!Entries(themeFiles), NEW g \in TH!Entries(themeFiles), e.name = g.name
      PROVE  e = g
  <2>1. CASE \E f \in TH!FileNames : \E i \in DOMAIN themeFiles[f] :
               e = TH!Entry("custom", f, themeFiles[f][i].name)
    <3>1. PICK f \in TH!FileNames : \E i \in DOMAIN themeFiles[f] :
                 e = TH!Entry("custom", f, themeFiles[f][i].name)
      BY <2>1
    <3>2. PICK i \in DOMAIN themeFiles[f] : e = TH!Entry("custom", f, themeFiles[f][i].name)
      BY <3>1
    <3>3. e.name = themeFiles[f][i].name /\ e.name \notin GivenNames
      BY <1>3, <1>4, <3>2 DEF FilesDiffer
    <3>4. \E h \in TH!FileNames : \E k \in DOMAIN themeFiles[h] :
            g = TH!Entry("custom", h, themeFiles[h][k].name)
      <4>1. ASSUME NEW b \in CuratedBases PROVE g # TH!Entry("curated", TH!NoFile, TH!Plain(b))
        <5>1. TH!Entry("curated", TH!NoFile, TH!Plain(b)).name = TH!Plain(b)
          BY <1>4
        <5>2. g.name # TH!Plain(b)
          BY <1>7, <3>3 DEF GivenNames
        <5>. QED
          BY <5>1, <5>2
      <4>2. g # TH!Entry("builtin", TH!NoFile, TH!Plain(BuiltinBase))
        <5>1. TH!Entry("builtin", TH!NoFile, TH!Plain(BuiltinBase)).name = TH!Plain(BuiltinBase)
          BY <1>4
        <5>2. g.name # TH!Plain(BuiltinBase)
          BY <1>7, <3>3 DEF GivenNames
        <5>. QED
          BY <5>1, <5>2
      <4>. QED
        BY <1>5, <4>1, <4>2, Zenon
    <3>. QED
      BY <1>3, <1>4, <1>7, <3>2, <3>3, <3>4 DEF FilesDiffer
  <2>2. CASE ~\E f \in TH!FileNames : \E i \in DOMAIN themeFiles[f] :
                e = TH!Entry("custom", f, themeFiles[f][i].name)
    <3>1. PICK b \in {BuiltinBase} \cup CuratedBases :
            e = TH!Entry(IF b = BuiltinBase THEN "builtin" ELSE "curated", TH!NoFile, TH!Plain(b))
      BY <1>5, <2>2 DEF ThemesBounded
    <3>2. e.name \in GivenNames
      BY <1>4, <3>1 DEF GivenNames
    <3>3. PICK c \in {BuiltinBase} \cup CuratedBases :
            g = TH!Entry(IF c = BuiltinBase THEN "builtin" ELSE "curated", TH!NoFile, TH!Plain(c))
      <4>1. ~\E f \in TH!FileNames : \E i \in DOMAIN themeFiles[f] :
               g = TH!Entry("custom", f, themeFiles[f][i].name)
        BY <1>3, <1>4, <1>7, <3>2 DEF FilesDiffer
      <4>. QED
        BY <1>5, <4>1 DEF ThemesBounded
    <3>4. b = c
      BY <1>4, <1>6, <1>7, <3>1, <3>3
    <3>. QED
      BY <3>1, <3>3, <3>4
  <2>. QED
    BY <2>1, <2>2
<1>. QED
  BY <1>7

-----------------------------------------------------------------------------
(* The relay list: one download at a time is past REFRESH_LOCK, and the page  *)
(* waits for one call at a time.                                            *)

Fetching == {"fetching", "writing", "renaming"}
(* The download that holds REFRESH_LOCK is the only one past it, and what it *)
(* has got is not older than the cache.                                     *)
OneFetches ==
  \A j \in RL!Downloads :
    /\ jobs[j].at \in Fetching => lock = j
    /\ jobs[j].at \in {"writing", "renaming"} => jobs[j].got \in 1..published /\ cacheFile <= jobs[j].got

(* The page waits for one call at a time, whose answer is not older than     *)
(* what it shows.                                                           *)
OneCall ==
  /\ \A i, j \in RL!JobIds : jobs[i].open /\ jobs[j].open => i = j
  /\ \A j \in RL!JobIds : jobs[j].open =>
       /\ RL!IsBusy /\ jobs[j].previous = resources.shown
       /\ jobs[j].at = "replied" /\ jobs[j].answer # RL!Error =>
            resources.shown <= jobs[j].answer /\ jobs[j].answer <= cacheFile

(* The check is answered by the command loop and never takes the lock.       *)
CheckAlone == jobs[0].at \in {"asked", "replied", "lost"}

CacheKept ==
  /\ cacheFile \in 0..published
  /\ resources.shown <= cacheFile
  /\ resources.health = "Ready" => resources.shown # RL!None
StartsChecked ==
  validation.verdict = "valid" =>
    /\ validation.from \in 1..published
    /\ listing[validation.from][validation.key] \in {"feature", "legacy"}

RelayInv == RL!TypeOK /\ OneFetches /\ OneCall /\ CheckAlone /\ CacheKept /\ StartsChecked

JobShape == [at : {"none", "asked", "waiting", "fetching", "writing", "renaming", "replied", "lost"},
             got : 0..MaxVersions, answer : (0..MaxVersions) \cup {RL!Error},
             open : BOOLEAN, previous : 0..MaxVersions]

-----------------------------------------------------------------------------
LEMMA JobsTyped ==
  ASSUME RelaysBounded, RelayInv
  PROVE  /\ jobs \in [RL!JobIds -> JobShape] /\ \A j \in RL!Downloads : j \in RL!JobIds /\ j # 0
         /\ published \in 1..MaxVersions /\ cacheFile \in 0..published /\ cacheFile # RL!Torn
         /\ resources.shown \in 0..MaxVersions /\ MaxVersions \in Nat /\ 0 \in RL!JobIds
<1>1. jobs \in [RL!JobIds -> JobShape]
  BY DEF RelayInv, RL!TypeOK, JobShape
<1>2. published \in 1..MaxVersions /\ cacheFile \in 0..published /\ resources.shown \in 0..MaxVersions
  BY DEF RelayInv, RL!TypeOK, CacheKept, RL!Versions
<1>3. cacheFile # RL!Torn
  BY <1>2 DEF RelaysBounded, RL!Torn
<1>4. 0 \in RL!JobIds /\ \A j \in RL!Downloads : j \in RL!JobIds /\ j # 0
  BY DEF RelaysBounded, RL!Downloads, RL!JobIds
<1> QED BY <1>1, <1>2, <1>3, <1>4 DEF RelaysBounded

(* A task moves on; the page, the cache and the starts stay as they are.     *)
LEMMA TaskMoves ==
  ASSUME RelaysBounded, RelayInv, NEW j \in RL!JobIds, NEW new \in JobShape,
         jobs' = [jobs EXCEPT ![j] = new], new.open = jobs[j].open, new.previous = jobs[j].previous,
         UNCHANGED <<listing, published, resources, validation, deaths>>,
         lock' \in 1..RL!NoJob, cacheFile' \in 0..published, cacheFile <= cacheFile',
         OneFetches', j = 0 => new.at \in {"asked", "replied", "lost"},
         new.at = "replied" /\ new.answer # RL!Error => new.answer = cacheFile'
  PROVE  RelayInv' /\ RL!NeverOlder
<1>1. /\ jobs \in [RL!JobIds -> JobShape] /\ cacheFile \in 0..published
      /\ published \in 1..MaxVersions /\ resources.shown \in 0..MaxVersions /\ MaxVersions \in Nat
      /\ 0 \in RL!JobIds
  BY JobsTyped
<1>2. jobs'[j] = new /\ \A i \in RL!JobIds : i # j => jobs'[i] = jobs[i]
  BY <1>1
<1>3. jobs' \in [RL!JobIds -> JobShape]
  BY <1>1
<1>4. RL!TypeOK'
  BY <1>1, <1>3 DEF RelayInv, RL!TypeOK, JobShape, RL!Torn
<1>5. OneCall'
  <2>1. \A i \in RL!JobIds : jobs'[i].open = jobs[i].open /\ jobs'[i].previous = jobs[i].previous
    BY <1>2
  <2>2. ASSUME NEW i \in RL!JobIds, jobs'[i].open, jobs'[i].at = "replied", jobs'[i].answer # RL!Error
        PROVE  resources.shown <= jobs'[i].answer /\ jobs'[i].answer <= cacheFile'
    <3>1. CASE i = j
      <4>1. jobs'[i].answer = cacheFile'
        BY <1>2, <2>2, <3>1
      <4> QED BY <1>1, <4>1 DEF RelayInv, CacheKept
    <3>2. CASE i # j
      <4>1. jobs'[i] = jobs[i]
        BY <1>2, <3>2
      <4>2. resources.shown <= jobs[i].answer /\ jobs[i].answer <= cacheFile
        BY <2>2, <4>1 DEF RelayInv, OneCall
      <4>3. jobs[i].answer \in Nat
        BY <1>1, <2>2, <4>1 DEF JobShape
      <4> QED BY <1>1, <4>1, <4>2, <4>3
    <3> QED BY <3>1, <3>2
  <2>3. \A i, k \in RL!JobIds : jobs'[i].open /\ jobs'[k].open => i = k
    BY <2>1 DEF RelayInv, OneCall
  <2>4. \A i \in RL!JobIds : jobs'[i].open => RL!IsBusy' /\ jobs'[i].previous = resources'.shown
    BY <2>1 DEF RelayInv, OneCall, RL!IsBusy
  <2> QED BY <2>2, <2>3, <2>4 DEF OneCall
<1>6. CheckAlone'
  BY <1>1, <1>2 DEF RelayInv, CheckAlone
<1>7. CacheKept' /\ StartsChecked'
  BY <1>1 DEF RelayInv, CacheKept, StartsChecked
<1>8. RL!NeverOlder
  BY <1>1 DEF RL!NeverOlder
<1> QED BY <1>4, <1>5, <1>6, <1>7, <1>8 DEF RelayInv

Stage(j, stage, got, answer) ==
  [at |-> stage, got |-> got, answer |-> answer, open |-> jobs[j].open, previous |-> jobs[j].previous]
Staged(j, new) ==
  /\ new \in JobShape /\ new.open = jobs[j].open /\ new.previous = jobs[j].previous
  /\ jobs' = [jobs EXCEPT ![j] = new]

LEMMA Replied ==
  ASSUME RelaysBounded, RelayInv, NEW j \in RL!JobIds,
         NEW a \in (0..MaxVersions) \cup {RL!Error}, RL!Reply(j, a)
  PROVE  LET new == Stage(j, "replied", jobs[j].got, a) IN
         Staged(j, new) /\ new.at = "replied" /\ new.answer = a
<1> DEFINE new == Stage(j, "replied", jobs[j].got, a)
<1>1. jobs[j] \in JobShape /\ jobs \in [RL!JobIds -> JobShape]
  BY JobsTyped
<1>2. new \in JobShape
  BY <1>1 DEF JobShape, Stage
<1>3. jobs' = [jobs EXCEPT ![j] = new]
  <2>1. [jobs[j] EXCEPT !.at = "replied", !.answer = a] = new
    <3> DEFINE m == [jobs[j] EXCEPT !.at = "replied"]
    <3>1. m = [at |-> "replied", got |-> jobs[j].got, answer |-> jobs[j].answer, open |-> jobs[j].open,
               previous |-> jobs[j].previous]
      BY <1>1 DEF JobShape
    <3>2. [jobs[j] EXCEPT !.at = "replied", !.answer = a] = [m EXCEPT !.answer = a]
      BY <1>1 DEF JobShape
    <3> HIDE DEF m
    <3> QED BY <3>1, <3>2 DEF Stage
  <2>2. jobs' = [jobs EXCEPT ![j] = [jobs[j] EXCEPT !.at = "replied", !.answer = a]]
    BY <1>1 DEF RL!Reply
  <2> QED BY <2>1, <2>2
<1> QED BY <1>2, <1>3 DEF Stage, Staged

GetsTo(j, stage, got) == jobs' = [jobs EXCEPT ![j].at = stage, ![j].got = got]

LEMMA Moved ==
  ASSUME RelaysBounded, RelayInv, NEW j \in RL!JobIds, NEW stage, NEW got, GetsTo(j, stage, got),
         stage \in {"none", "asked", "waiting", "fetching", "writing", "renaming", "replied", "lost"},
         got \in 0..MaxVersions
  PROVE  LET new == Stage(j, stage, got, jobs[j].answer) IN
         Staged(j, new) /\ new.at = stage /\ new.got = got
<1> DEFINE new == Stage(j, stage, got, jobs[j].answer)
<1>1. jobs[j] \in JobShape /\ jobs \in [RL!JobIds -> JobShape]
  BY JobsTyped
<1>2. new \in JobShape
  BY <1>1 DEF JobShape, Stage
<1>3. jobs' = [jobs EXCEPT ![j] = new]
  <2>1. [jobs[j] EXCEPT !.at = stage, !.got = got] = new
    <3> DEFINE m == [jobs[j] EXCEPT !.at = stage]
    <3>1. m = [at |-> stage, got |-> jobs[j].got, answer |-> jobs[j].answer, open |-> jobs[j].open,
               previous |-> jobs[j].previous]
      BY <1>1 DEF JobShape
    <3>2. [jobs[j] EXCEPT !.at = stage, !.got = got] = [m EXCEPT !.got = got]
      BY <1>1 DEF JobShape
    <3> HIDE DEF m
    <3> QED BY <3>1, <3>2 DEF Stage
  <2>2. jobs' = [jobs EXCEPT ![j] = [jobs[j] EXCEPT !.at = stage, !.got = got]]
    BY <1>1 DEF GetsTo
  <2> QED BY <2>1, <2>2
<1> QED BY <1>2, <1>3 DEF Stage, Staged

LEMMA MovedOn ==
  ASSUME RelaysBounded, RelayInv, NEW j \in RL!JobIds, NEW stage,
         jobs' = [jobs EXCEPT ![j].at = stage],
         stage \in {"none", "asked", "waiting", "fetching", "writing", "renaming", "replied", "lost"}
  PROVE  LET new == Stage(j, stage, jobs[j].got, jobs[j].answer) IN
         Staged(j, new) /\ new.at = stage /\ new.got = jobs[j].got
<1> DEFINE new == Stage(j, stage, jobs[j].got, jobs[j].answer)
<1>1. jobs[j] \in JobShape /\ jobs \in [RL!JobIds -> JobShape]
  BY JobsTyped
<1>2. new \in JobShape
  BY <1>1 DEF JobShape, Stage
<1>3. jobs' = [jobs EXCEPT ![j] = new]
  <2>1. [jobs[j] EXCEPT !.at = stage] = new
    BY <1>1 DEF JobShape, Stage
  <2>2. jobs' = [jobs EXCEPT ![j] = [jobs[j] EXCEPT !.at = stage]]
    BY <1>1
  <2> QED BY <2>1, <2>2
<1> QED BY <1>2, <1>3 DEF Stage, Staged

(* The other downloads are where they were, and hold no lock of their own    *)
(* when j holds it.                                                         *)
LEMMA OthersKeep ==
  ASSUME RelaysBounded, RelayInv, NEW j \in RL!JobIds, NEW new, Staged(j, new)
  PROVE  jobs'[j] = new /\ \A i \in RL!Downloads : i # j => jobs'[i] = jobs[i]
BY JobsTyped DEF Staged

LEMMA StatusStep == ASSUME RelaysBounded, RelayInv, RL!Status PROVE RelayInv' /\ RL!NeverOlder
<1>1. /\ UNCHANGED <<listing, published, cacheFile, lock, resources, validation, deaths>>
      /\ RL!Reply(0, cacheFile) \/ RL!Reply(0, RL!Error)
  BY JobsTyped DEF RL!Status
<1>2. PICK a \in {cacheFile, RL!Error} : RL!Reply(0, a)
  BY <1>1
<1>3. a \in (0..MaxVersions) \cup {RL!Error} /\ 0 \in RL!JobIds
  BY <1>2, JobsTyped
<1> DEFINE new == Stage(0, "replied", jobs[0].got, a)
<1>4. Staged(0, new) /\ new.at = "replied" /\ new.answer = a
  BY <1>2, <1>3, Replied
<1>5. OneFetches'
  BY <1>1, <1>3, <1>4, OthersKeep, JobsTyped DEF RelayInv, OneFetches
<1>6. lock' \in 1..RL!NoJob /\ cacheFile' \in 0..published /\ cacheFile <= cacheFile'
  BY <1>1, JobsTyped DEF RelayInv, RL!TypeOK
<1> HIDE DEF new
<1> QED BY <1>1, <1>2, <1>3, <1>4, <1>5, <1>6, TaskMoves DEF Staged

LEMMA SpawnStep ==
  ASSUME RelaysBounded, RelayInv, NEW j \in RL!Downloads, RL!Spawn(j) \/ RL!Lock(j)
  PROVE  RelayInv' /\ RL!NeverOlder
<1>1. /\ UNCHANGED <<listing, published, cacheFile, resources, validation, deaths>>
      /\ j \in RL!JobIds /\ j # 0 /\ jobs[j].at \notin Fetching
  BY JobsTyped DEF RL!Spawn, RL!Lock, Fetching
<1>2. PICK stage \in {"waiting", "fetching"} :
        /\ jobs' = [jobs EXCEPT ![j].at = stage]
        /\ stage = "fetching" => lock = RL!NoJob /\ lock' = j
        /\ stage # "fetching" => lock' = lock
  BY DEF RL!Spawn, RL!Lock
<1> DEFINE new == Stage(j, stage, jobs[j].got, jobs[j].answer)
<1>3. Staged(j, new) /\ new.at = stage /\ new.got = jobs[j].got
  BY <1>1, <1>2, MovedOn
<1>4. jobs'[j] = new /\ \A i \in RL!Downloads : i # j => jobs'[i] = jobs[i]
  BY <1>1, <1>3, OthersKeep
<1> HIDE DEF new
<1>5. OneFetches'
  <2>1. CASE stage = "fetching"
    <3>1. \A i \in RL!Downloads : jobs[i].at \notin Fetching
      BY <1>2, <2>1 DEF RelayInv, OneFetches, RL!Downloads, RL!NoJob, RelaysBounded
    <3> QED BY <1>1, <1>2, <1>3, <1>4, <2>1, <3>1 DEF OneFetches, Fetching
  <2>2. CASE stage = "waiting"
    BY <1>1, <1>2, <1>3, <1>4, <2>2 DEF RelayInv, OneFetches, Fetching
  <2> QED BY <2>1, <2>2
<1>6. lock' \in 1..RL!NoJob /\ cacheFile' \in 0..published /\ cacheFile <= cacheFile'
  BY <1>1, <1>2, JobsTyped DEF RelayInv, RL!TypeOK, RL!Downloads, RL!NoJob, RelaysBounded
<1> QED BY <1>1, <1>2, <1>3, <1>5, <1>6, TaskMoves DEF Staged

LEMMA FetchedStep ==
  ASSUME RelaysBounded, RelayInv, NEW j \in RL!Downloads, RL!Fetched(j)
  PROVE  RelayInv' /\ RL!NeverOlder
<1>1. /\ UNCHANGED <<listing, published, cacheFile, lock, resources, validation, deaths>>
      /\ j \in RL!JobIds /\ j # 0 /\ jobs[j].at = "fetching"
      /\ jobs' = [jobs EXCEPT ![j].at = "writing", ![j].got = published]
      /\ published \in 1..MaxVersions /\ cacheFile \in 0..published
  BY JobsTyped DEF RL!Fetched
<1>2. PICK version \in 0..MaxVersions : version = published
  BY <1>1
<1>3. GetsTo(j, "writing", version)
  BY <1>1, <1>2 DEF GetsTo
<1> DEFINE new == Stage(j, "writing", version, jobs[j].answer)
<1>4. Staged(j, new) /\ new.at = "writing" /\ new.got = version
  <2>1. PICK stage \in {"none", "asked", "waiting", "fetching", "writing", "renaming", "replied", "lost"} :
          stage = "writing"
    OBVIOUS
  <2>2. GetsTo(j, stage, version)
    BY <1>3, <2>1
  <2>3. LET newer == Stage(j, stage, version, jobs[j].answer) IN
        Staged(j, newer) /\ newer.at = stage /\ newer.got = version
    <3> HIDE DEF new
    <3> QED BY <1>1, <2>2, Moved
  <2> QED BY <2>1, <2>3
<1>5. jobs'[j] = new /\ \A i \in RL!Downloads : i # j => jobs'[i] = jobs[i]
  BY <1>1, <1>4, OthersKeep
<1> HIDE DEF new
<1>6. OneFetches'
  <2>1. version \in 1..published /\ cacheFile <= version
    BY <1>1, <1>2
  <2> QED BY <1>1, <1>4, <1>5, <2>1 DEF RelayInv, OneFetches, Fetching
<1>7. lock' \in 1..RL!NoJob /\ cacheFile' \in 0..published /\ cacheFile <= cacheFile'
  BY <1>1 DEF RelayInv, RL!TypeOK
<1> QED BY <1>1, <1>4, <1>6, <1>7, TaskMoves DEF Staged

(* A download that ends, with an error or with the cache replaced, gives the *)
(* lock back: from then on nobody is past it.                                *)
LEMMA EndStep ==
  ASSUME RelaysBounded, RelayInv, NEW j \in RL!Downloads, jobs[j].at \in Fetching,
         NEW a \in (0..MaxVersions) \cup {RL!Error}, RL!Reply(j, a), RL!Release(j),
         UNCHANGED <<listing, published, resources, validation, deaths>>,
         cacheFile' \in 0..published, cacheFile <= cacheFile', a = RL!Error \/ a = cacheFile'
  PROVE  RelayInv' /\ RL!NeverOlder
<1>1. j \in RL!JobIds /\ j # 0
  BY JobsTyped
<1> DEFINE new == Stage(j, "replied", jobs[j].got, a)
<1>2. Staged(j, new) /\ new.at = "replied" /\ new.answer = a
  BY <1>1, Replied
<1>3. jobs'[j] = new /\ \A i \in RL!Downloads : i # j => jobs'[i] = jobs[i]
  BY <1>1, <1>2, OthersKeep
<1> HIDE DEF new
<1>4. lock = j /\ lock' = RL!NoJob
  BY DEF RelayInv, OneFetches, RL!Release
<1>5. \A i \in RL!Downloads : jobs'[i].at \notin Fetching
  BY <1>2, <1>3, <1>4 DEF RelayInv, OneFetches, Fetching
<1>6. OneFetches'
  BY <1>5 DEF OneFetches, Fetching
<1>7. lock' \in 1..RL!NoJob
  BY <1>4 DEF RL!NoJob, RelaysBounded
<1> QED BY <1>1, <1>2, <1>6, <1>7, TaskMoves DEF Staged

LEMMA FetchFailsStep ==
  ASSUME RelaysBounded, RelayInv, NEW j \in RL!Downloads, RL!FetchFails(j)
  PROVE  RelayInv' /\ RL!NeverOlder
<1>1. /\ jobs[j].at \in Fetching /\ RL!Reply(j, RL!Error) /\ RL!Release(j)
      /\ UNCHANGED <<listing, published, resources, validation, deaths>>
      /\ cacheFile' = cacheFile
  BY DEF RL!FetchFails, Fetching
<1>2. cacheFile' \in 0..published /\ cacheFile <= cacheFile'
  BY <1>1, JobsTyped
<1> QED BY <1>1, <1>2, EndStep

LEMMA WriteTempStep ==
  ASSUME RelaysBounded, RelayInv, NEW j \in RL!Downloads, RL!WriteTemp(j)
  PROVE  RelayInv' /\ RL!NeverOlder
<1>1. /\ jobs[j].at = "writing" /\ cacheFile' = cacheFile
      /\ UNCHANGED <<listing, published, resources, validation, deaths>>
      /\ j \in RL!JobIds /\ j # 0
  BY JobsTyped DEF RL!WriteTemp
<1>2. cacheFile' \in 0..published /\ cacheFile <= cacheFile'
  BY <1>1, JobsTyped
<1>3. CASE RL!Reply(j, RL!Error) /\ RL!Release(j)
  BY <1>1, <1>2, <1>3, EndStep DEF Fetching
<1>4. CASE jobs' = [jobs EXCEPT ![j].at = "renaming"] /\ lock' = lock
  <2> DEFINE new == Stage(j, "renaming", jobs[j].got, jobs[j].answer)
  <2>1. Staged(j, new) /\ new.at = "renaming" /\ new.got = jobs[j].got
    BY <1>1, <1>4, MovedOn
  <2>2. jobs'[j] = new /\ \A i \in RL!Downloads : i # j => jobs'[i] = jobs[i]
    BY <1>1, <2>1, OthersKeep
  <2> HIDE DEF new
  <2>3. OneFetches'
    BY <1>1, <1>4, <2>1, <2>2 DEF RelayInv, OneFetches, Fetching
  <2>4. lock' \in 1..RL!NoJob
    BY <1>4 DEF RelayInv, RL!TypeOK
  <2> QED BY <1>1, <1>2, <2>1, <2>3, <2>4, TaskMoves DEF Staged
<1> QED BY <1>3, <1>4 DEF RL!WriteTemp

LEMMA RenameStep ==
  ASSUME RelaysBounded, RelayInv, NEW j \in RL!Downloads, RL!Rename(j)
  PROVE  RelayInv' /\ RL!NeverOlder
<1>1. /\ jobs[j].at = "renaming" /\ RL!Release(j)
      /\ UNCHANGED <<listing, published, resources, validation, deaths>>
  BY DEF RL!Rename
<1>2. /\ jobs[j].got \in 1..published /\ cacheFile <= jobs[j].got
      /\ published \in 1..MaxVersions /\ cacheFile \in 0..published
  BY <1>1, JobsTyped DEF RelayInv, OneFetches
<1>3. PICK a \in (0..MaxVersions) \cup {RL!Error} :
        /\ RL!Reply(j, a) /\ cacheFile' \in {cacheFile, jobs[j].got}
        /\ a = RL!Error \/ a = cacheFile'
  <2>1. jobs[j].got \in (0..MaxVersions) \cup {RL!Error}
    <3>1. j \in RL!JobIds /\ jobs \in [RL!JobIds -> JobShape]
      BY JobsTyped
    <3> QED BY <3>1 DEF JobShape
  <2> QED BY <2>1 DEF RL!Rename
<1>4. cacheFile' \in 0..published /\ cacheFile <= cacheFile'
  BY <1>2, <1>3
<1>5. jobs[j].at \in Fetching /\ UNCHANGED <<listing, published, resources, validation, deaths>>
  BY <1>1 DEF Fetching
<1>6. RL!Reply(j, a) /\ RL!Release(j) /\ (a = RL!Error \/ a = cacheFile')
  BY <1>1, <1>3
<1> QED BY <1>4, <1>5, <1>6, EndStep

-----------------------------------------------------------------------------
(* The page.                                                                *)
LEMMA ListShown ==
  ASSUME RelaysBounded, NEW answer \in (0..MaxVersions) \cup {RL!Error}, NEW previous
  PROVE  /\ answer = RL!Error => RL!Diagnostic(answer, previous) = [health |-> "Error", shown |-> previous]
         /\ answer = RL!None => RL!Diagnostic(answer, previous) = [health |-> "Missing", shown |-> RL!None]
         /\ answer # RL!Error /\ answer # RL!None =>
              RL!Diagnostic(answer, previous) = [health |-> "Ready", shown |-> answer]
<1>1. RL!Error # RL!None
  BY DEF RelaysBounded, RL!Error, RL!None
<1>2. CASE answer = RL!Error
  BY <1>1, <1>2 DEF RL!Diagnostic
<1>3. CASE answer = RL!None
  BY <1>1, <1>3 DEF RL!Diagnostic
<1>4. CASE answer # RL!Error /\ answer # RL!None
  BY <1>4 DEF RL!Diagnostic
<1> QED BY <1>2, <1>3, <1>4

(* A call of the page ends: with an answer that is as new as what is shown,  *)
(* or with an error, which leaves that where it was.                         *)
LEMMA ListCallEnds ==
  ASSUME RelaysBounded, RelayInv, NEW j \in RL!JobIds, jobs[j].open,
         jobs' = [jobs EXCEPT ![j].open = FALSE],
         NEW answer \in (0..MaxVersions) \cup {RL!Error},
         answer # RL!Error => resources.shown <= answer /\ answer <= cacheFile,
         resources' = RL!Diagnostic(answer, jobs[j].previous),
         UNCHANGED <<listing, published, cacheFile, lock, validation, deaths>>
  PROVE  RelayInv' /\ RL!NeverOlder
<1>1. /\ jobs \in [RL!JobIds -> JobShape] /\ cacheFile \in 0..published
      /\ published \in 1..MaxVersions /\ resources.shown \in 0..MaxVersions /\ MaxVersions \in Nat
      /\ 0 \in RL!JobIds /\ \A i \in RL!Downloads : i \in RL!JobIds
  BY JobsTyped
<1>2. jobs[j].previous = resources.shown
  BY DEF RelayInv, OneCall
<1>3. PICK seen \in 0..MaxVersions : seen = resources.shown
  BY <1>1
<1>4. /\ resources'.health \in {"Ready", "Missing", "Error"}
      /\ resources'.shown \in 0..MaxVersions
      /\ resources' = [health |-> resources'.health, shown |-> resources'.shown]
      /\ resources'.health = "Ready" => resources'.shown # RL!None
      /\ resources.shown <= resources'.shown /\ resources'.shown <= cacheFile
  <2>1. resources' = RL!Diagnostic(answer, seen)
    BY <1>2, <1>3
  <2>2. seen <= cacheFile /\ cacheFile \in Nat
    BY <1>1, <1>3 DEF RelayInv, CacheKept
  <2>3. CASE answer = RL!Error
    <3>1. resources' = [health |-> "Error", shown |-> seen]
      BY <2>1, <2>3, ListShown
    <3> QED BY <1>3, <2>2, <3>1
  <2>4. CASE answer # RL!Error /\ answer = RL!None
    <3>1. resources' = [health |-> "Missing", shown |-> RL!None]
      BY <2>1, <2>4, ListShown
    <3>2. RL!None = 0 /\ seen <= 0
      BY <1>3, <2>4 DEF RL!None
    <3> QED BY <1>1, <1>3, <2>2, <3>1, <3>2
  <2>5. CASE answer # RL!Error /\ answer # RL!None
    <3>1. resources' = [health |-> "Ready", shown |-> answer]
      BY <2>1, <2>5, ListShown
    <3>2. answer \in 0..MaxVersions
      BY <2>5
    <3> QED BY <1>1, <1>3, <2>2, <2>5, <3>1, <3>2
  <2> QED BY <2>3, <2>4, <2>5
<1>5. /\ jobs' \in [RL!JobIds -> JobShape] /\ jobs'[j].open = FALSE
      /\ \A i \in RL!JobIds : jobs'[i].at = jobs[i].at /\ jobs'[i].got = jobs[i].got
      /\ \A i \in RL!JobIds : i # j => jobs'[i] = jobs[i]
  BY <1>1 DEF JobShape
<1>6. RL!TypeOK'
  BY <1>4, <1>5 DEF RelayInv, RL!TypeOK, JobShape
<1>7. OneFetches' /\ CheckAlone'
  BY <1>1, <1>5 DEF RelayInv, OneFetches, CheckAlone
<1>8. OneCall'
  <2>1. \A i \in RL!JobIds : ~jobs'[i].open
    BY <1>5 DEF RelayInv, OneCall
  <2> QED BY <2>1 DEF OneCall
<1>9. CacheKept' /\ StartsChecked' /\ RL!NeverOlder
  BY <1>1, <1>4 DEF RelayInv, CacheKept, StartsChecked, RL!NeverOlder
<1> QED BY <1>6, <1>7, <1>8, <1>9 DEF RelayInv

LEMMA DeliverStep ==
  ASSUME RelaysBounded, RelayInv, NEW j \in RL!JobIds, RL!Deliver(j) \/ RL!CallFails(j)
  PROVE  RelayInv' /\ RL!NeverOlder
<1>1. /\ jobs[j].open /\ jobs' = [jobs EXCEPT ![j].open = FALSE]
      /\ UNCHANGED <<listing, published, cacheFile, lock, validation, deaths>>
  BY DEF RL!Deliver, RL!CallFails
<1>2. CASE RL!Deliver(j)
  <2>1. jobs[j].answer \in (0..MaxVersions) \cup {RL!Error}
    BY JobsTyped DEF JobShape
  <2>2. PICK answer \in (0..MaxVersions) \cup {RL!Error} : answer = jobs[j].answer
    BY <2>1
  <2>3. resources' = RL!Diagnostic(answer, jobs[j].previous) /\ jobs[j].at = "replied"
    BY <1>2, <2>2 DEF RL!Deliver
  <2>4. answer # RL!Error => resources.shown <= answer /\ answer <= cacheFile
    BY <1>1, <2>2, <2>3 DEF RelayInv, OneCall
  <2> QED BY <1>1, <2>3, <2>4, ListCallEnds
<1>3. CASE RL!CallFails(j)
  <2>1. resources' = RL!Diagnostic(RL!Error, jobs[j].previous)
    BY <1>3 DEF RL!CallFails
  <2>2. RL!Error \in (0..MaxVersions) \cup {RL!Error}
    OBVIOUS
  <2> QED BY <1>1, <2>1, <2>2, ListCallEnds
<1> QED BY <1>2, <1>3

(* A call that the page makes.                                              *)
LEMMA Asked ==
  ASSUME RelaysBounded, NEW i \in JobShape, NEW previous \in 0..MaxVersions
  PROVE  /\ [i EXCEPT !.at = "asked", !.open = TRUE] =
              [at |-> "asked", got |-> i.got, answer |-> i.answer, open |-> TRUE, previous |-> i.previous]
         /\ [i EXCEPT !.at = "asked", !.open = TRUE, !.previous = previous] =
              [at |-> "asked", got |-> i.got, answer |-> i.answer, open |-> TRUE, previous |-> previous]
<1> DEFINE a == [i EXCEPT !.at = "asked"]
           b == [a EXCEPT !.open = TRUE]
           c == [b EXCEPT !.previous = previous]
<1>1. /\ [i EXCEPT !.at = "asked", !.open = TRUE] = b
      /\ [i EXCEPT !.at = "asked", !.open = TRUE, !.previous = previous] = c
  OBVIOUS
<1>2. a \in JobShape /\ a.at = "asked" /\ a.got = i.got /\ a.answer = i.answer /\ a.previous = i.previous
  BY DEF JobShape
<1> HIDE DEF a
<1>3. b \in JobShape /\ b.at = "asked" /\ b.got = i.got /\ b.answer = i.answer /\ b.previous = i.previous
  BY <1>2 DEF JobShape
<1>4. b.open = TRUE
  BY <1>2 DEF JobShape
<1>5. b = [at |-> "asked", got |-> i.got, answer |-> i.answer, open |-> TRUE, previous |-> i.previous]
  <2> HIDE DEF b
  <2> QED BY <1>3, <1>4 DEF JobShape
<1>6. c = [at |-> "asked", got |-> i.got, answer |-> i.answer, open |-> TRUE, previous |-> previous]
  <2> HIDE DEF b
  <2>1. c \in JobShape /\ c.at = b.at /\ c.got = b.got /\ c.answer = b.answer /\ c.previous = previous
    BY <1>3 DEF JobShape
  <2>2. c.open = b.open
    BY <1>3 DEF JobShape
  <2> HIDE DEF c
  <2> QED BY <1>3, <1>4, <2>1, <2>2 DEF JobShape
<1> QED BY <1>1, <1>5, <1>6

LEMMA IdleIs ==
  ASSUME RelaysBounded
  PROVE  /\ RL!Idle = [at |-> "none", got |-> 0, answer |-> 0, open |-> FALSE, previous |-> 0]
         /\ RL!Idle \in JobShape /\ RL!Idle.got = 0 /\ RL!Idle.answer = 0 /\ RL!Idle.previous = 0
BY DEF RL!Idle, RL!None, JobShape, RelaysBounded

LEMMA ClickStep ==
  ASSUME RelaysBounded, RelayInv, NEW j \in RL!Downloads, RL!Click(j)
  PROVE  RelayInv' /\ RL!NeverOlder
<1> DEFINE new == [at |-> "asked", got |-> RL!None, answer |-> RL!None, open |-> TRUE,
                   previous |-> resources.shown]
<1>1. /\ ~RL!IsBusy /\ jobs[j].at = "none"
      /\ resources' = [health |-> "Refreshing", shown |-> resources.shown]
      /\ UNCHANGED <<listing, published, cacheFile, lock, validation, deaths>>
  BY DEF RL!Click
<1>2. jobs' = [jobs EXCEPT ![j] = new]
  <2>1. [RL!Idle EXCEPT !.at = "asked", !.open = TRUE, !.previous = resources.shown] = new
    <3>1. resources.shown \in 0..MaxVersions
      BY JobsTyped
    <3>2. PICK i \in JobShape : i = RL!Idle
      BY IdleIs
    <3>3. PICK previous \in 0..MaxVersions : previous = resources.shown
      BY <3>1
    <3>4. [i EXCEPT !.at = "asked", !.open = TRUE, !.previous = previous] =
            [at |-> "asked", got |-> i.got, answer |-> i.answer, open |-> TRUE, previous |-> previous]
      BY Asked
    <3>5. i.got = RL!None /\ i.answer = RL!None
      BY <3>2, IdleIs DEF RL!None
    <3> QED BY <3>2, <3>3, <3>4, <3>5
  <2>2. jobs' = [jobs EXCEPT ![j] = [RL!Idle EXCEPT !.at = "asked", !.open = TRUE,
                                                    !.previous = resources.shown]]
    BY DEF RL!Click
  <2> QED BY <2>1, <2>2
<1>3. /\ jobs \in [RL!JobIds -> JobShape] /\ j \in RL!JobIds /\ j # 0 /\ cacheFile \in 0..published
      /\ published \in 1..MaxVersions /\ resources.shown \in 0..MaxVersions /\ 0 \in RL!JobIds
      /\ \A i \in RL!Downloads : i \in RL!JobIds
  BY JobsTyped
<1>4. new \in JobShape
  <2>1. RL!None \in 0..MaxVersions
    BY DEF RL!None, RelaysBounded
  <2> QED BY <1>3, <2>1 DEF JobShape
<1>5. new.at = "asked" /\ new.open = TRUE /\ new.previous = resources.shown
  OBVIOUS
<1> HIDE DEF new
<1>6. jobs' \in [RL!JobIds -> JobShape] /\ jobs'[j] = new /\ \A i \in RL!JobIds : i # j => jobs'[i] = jobs[i]
  BY <1>2, <1>3, <1>4
<1>7. RL!TypeOK'
  BY <1>1, <1>3, <1>6 DEF RelayInv, RL!TypeOK, JobShape, RL!Busy
<1>8. OneFetches' /\ CheckAlone'
  BY <1>1, <1>3, <1>5, <1>6 DEF RelayInv, OneFetches, CheckAlone, Fetching
<1>9. OneCall'
  <2>1. \A i \in RL!JobIds : ~jobs[i].open
    BY <1>1 DEF RelayInv, OneCall
  <2>2. RL!IsBusy' /\ resources'.shown = resources.shown
    BY <1>1 DEF RL!IsBusy, RL!Busy
  <2> QED BY <1>5, <1>6, <2>1, <2>2 DEF OneCall
<1>10. CacheKept' /\ StartsChecked' /\ RL!NeverOlder
  BY <1>1, <1>3 DEF RelayInv, CacheKept, StartsChecked, RL!NeverOlder
<1> QED BY <1>7, <1>8, <1>9, <1>10 DEF RelayInv

(* A start that passes found DAITA in the list the cache holds.              *)
LEMMA ValidateStep ==
  ASSUME RelaysBounded, RelayInv, NEW key \in Keys, RL!Validate(key)
  PROVE  RelayInv' /\ RL!NeverOlder
<1>1. /\ validation' = [key |-> key, verdict |-> RL!Verdict(key), from |-> cacheFile]
      /\ UNCHANGED <<listing, published, cacheFile, lock, jobs, resources, deaths>>
  BY DEF RL!Validate
<1>2. /\ cacheFile \in 0..published /\ published \in 1..MaxVersions /\ cacheFile # RL!Torn
      /\ resources.shown \in 0..MaxVersions
  BY JobsTyped
<1>3. RL!Verdict(key) \in {"none", "MissingCache", "CacheError", "Unlisted", "NoDaita", "valid"}
  BY DEF RL!Verdict
<1>4. RL!TypeOK'
  <2>1. cacheFile \in 0..RL!Torn
    BY DEF RelayInv, RL!TypeOK
  <2> QED BY <1>1, <1>3, <2>1 DEF RelayInv, RL!TypeOK
<1>5. StartsChecked'
  <2>1. SUFFICES ASSUME RL!Verdict(key) = "valid"
                 PROVE  cacheFile \in 1..published /\ listing[cacheFile][key] \in {"feature", "legacy"}
    BY <1>1 DEF StartsChecked
  <2>2. /\ cacheFile # RL!None /\ key \in DOMAIN RL!Inventory(cacheFile)
        /\ RL!Inventory(cacheFile)[key]
    BY <2>1 DEF RL!Verdict
  <2>3. listing[cacheFile][key] \in {"feature", "legacy"}
    BY <2>2 DEF RL!Inventory
  <2> QED BY <1>2, <2>2, <2>3 DEF RL!None
<1>6. OneFetches' /\ OneCall' /\ CheckAlone' /\ CacheKept'
  BY <1>1 DEF RelayInv, OneFetches, OneCall, CheckAlone, CacheKept, RL!IsBusy
<1>7. RL!NeverOlder
  BY <1>1, <1>2 DEF RL!NeverOlder
<1> QED BY <1>4, <1>5, <1>6, <1>7 DEF RelayInv

LEMMA PublishStep == ASSUME RelaysBounded, RelayInv, RL!Publish PROVE RelayInv' /\ RL!NeverOlder
<1>1. /\ published' = published + 1 /\ published < MaxVersions
      /\ UNCHANGED <<listing, cacheFile, lock, jobs, resources, validation, deaths>>
  BY DEF RL!Publish
<1>2. /\ cacheFile \in 0..published /\ published \in 1..MaxVersions /\ MaxVersions \in Nat
      /\ resources.shown \in 0..MaxVersions
  BY JobsTyped
<1>3. published' \in 1..MaxVersions /\ 1..published \subseteq 1..published' /\ cacheFile \in 0..published'
  BY <1>1, <1>2
<1>4. RL!TypeOK'
  BY <1>1, <1>3 DEF RelayInv, RL!TypeOK, RL!Versions
<1>5. OneFetches'
  BY <1>1, <1>3 DEF RelayInv, OneFetches
<1>6. OneCall' /\ CheckAlone' /\ CacheKept' /\ StartsChecked'
  BY <1>1, <1>3 DEF RelayInv, OneCall, CheckAlone, CacheKept, StartsChecked, RL!IsBusy
<1>7. RL!NeverOlder
  BY <1>1, <1>2 DEF RL!NeverOlder
<1> QED BY <1>4, <1>5, <1>6, <1>7 DEF RelayInv

LEMMA DeathStep == ASSUME RelaysBounded, RelayInv, RL!ServiceDies PROVE RelayInv' /\ RL!NeverOlder
<1>1. /\ deaths' = 1 /\ lock' = RL!NoJob
      /\ jobs' = [j \in RL!JobIds |-> IF jobs[j].at \in {"none", "replied"} THEN jobs[j]
                                      ELSE [jobs[j] EXCEPT !.at = "lost"]]
      /\ UNCHANGED <<listing, published, cacheFile, resources, validation>>
  BY DEF RL!ServiceDies
<1>2. /\ jobs \in [RL!JobIds -> JobShape] /\ 0 \in RL!JobIds /\ cacheFile \in 0..published
      /\ published \in 1..MaxVersions /\ resources.shown \in 0..MaxVersions
      /\ \A i \in RL!Downloads : i \in RL!JobIds
  BY JobsTyped
<1>3. ASSUME NEW i \in RL!JobIds
      PROVE  /\ jobs'[i] \in JobShape /\ jobs'[i].open = jobs[i].open
             /\ jobs'[i].previous = jobs[i].previous /\ jobs'[i].at \in {"none", "replied", "lost"}
             /\ jobs'[i].at # "lost" => jobs'[i] = jobs[i]
             /\ jobs'[i].at = "none" => jobs[i].at = "none"
  BY <1>1, <1>2 DEF JobShape
<1>4. jobs' \in [RL!JobIds -> JobShape]
  <2>1. \A i \in RL!JobIds : jobs'[i] \in JobShape
    BY <1>3
  <2> QED BY <1>1, <2>1
<1>5. RL!TypeOK'
  <2>1. lock' \in 1..RL!NoJob /\ deaths' \in 0..1
    BY <1>1 DEF RelaysBounded, RL!NoJob
  <2> QED BY <1>1, <1>4, <2>1 DEF RelayInv, RL!TypeOK, JobShape
<1>6. OneFetches'
  BY <1>2, <1>3 DEF OneFetches, Fetching
<1>7. OneCall'
  <2>1. \A i, j \in RL!JobIds : jobs'[i].open /\ jobs'[j].open => i = j
    BY <1>3 DEF RelayInv, OneCall
  <2>2. \A i \in RL!JobIds : jobs'[i].open => RL!IsBusy' /\ jobs'[i].previous = resources'.shown
    BY <1>1, <1>3 DEF RelayInv, OneCall, RL!IsBusy
  <2>3. ASSUME NEW i \in RL!JobIds, jobs'[i].open, jobs'[i].at = "replied", jobs'[i].answer # RL!Error
        PROVE  resources'.shown <= jobs'[i].answer /\ jobs'[i].answer <= cacheFile'
    <3>1. jobs'[i] = jobs[i]
      BY <1>3, <2>3
    <3> QED BY <1>1, <2>3, <3>1 DEF RelayInv, OneCall
  <2> QED BY <2>1, <2>2, <2>3 DEF OneCall
<1>8. CheckAlone'
  BY <1>2, <1>3 DEF RelayInv, CheckAlone
<1>9. CacheKept' /\ StartsChecked' /\ RL!NeverOlder
  BY <1>1, <1>2 DEF RelayInv, CacheKept, StartsChecked, RL!NeverOlder
<1> QED BY <1>5, <1>6, <1>7, <1>8, <1>9 DEF RelayInv

LEMMA RelayStep ==
  ASSUME RelaysBounded, RelayInv, [RL!Next]_(RL!vars) PROVE RelayInv' /\ RL!NeverOlder
<1>1. CASE UNCHANGED RL!vars
  <2>1. UNCHANGED <<listing, published, cacheFile, lock, jobs, resources, validation, deaths>>
    BY <1>1 DEF RL!vars
  <2>2. RL!NeverOlder
    BY <2>1, JobsTyped DEF RL!NeverOlder
  <2>3. RL!TypeOK'
    BY <2>1 DEF RelayInv, RL!TypeOK
  <2> QED BY <2>1, <2>2, <2>3
          DEF RelayInv, OneFetches, OneCall, CheckAlone, CacheKept, StartsChecked, RL!IsBusy
<1>2. CASE RL!Next
  BY <1>2, StatusStep, SpawnStep, FetchedStep, FetchFailsStep, WriteTempStep, RenameStep,
     DeliverStep, ClickStep, ValidateStep, PublishStep, DeathStep DEF RL!Next
<1> QED BY <1>1, <1>2

LEMMA RelaysInitially == ASSUME RelaysBounded, RL!Init PROVE RelayInv
<1>1. /\ published = 1 /\ cacheFile \in {0, 1} /\ lock = RL!NoJob /\ deaths = 0
      /\ jobs = [[j \in RL!JobIds |-> RL!Idle] EXCEPT ![0] = [RL!Idle EXCEPT !.at = "asked", !.open = TRUE]]
      /\ resources = [health |-> "Checking", shown |-> 0]
      /\ listing \in [RL!Versions -> [Keys -> RL!Marks]]
  BY DEF RL!Init, RL!None
<1>2. validation = [key |-> CHOOSE k \in Keys : TRUE, verdict |-> "none", from |-> 0]
  BY DEF RL!Init, RL!None
<1>3. 0 \in RL!JobIds /\ \A j \in RL!Downloads : j \in RL!JobIds /\ j # 0
  BY DEF RelaysBounded, RL!JobIds, RL!Downloads
<1> DEFINE check == [at |-> "asked", got |-> 0, answer |-> 0, open |-> TRUE, previous |-> 0]
           none == [at |-> "none", got |-> 0, answer |-> 0, open |-> FALSE, previous |-> 0]
<1>4. RL!Idle = none /\ [RL!Idle EXCEPT !.at = "asked", !.open = TRUE] = check
  <2>1. PICK i \in JobShape : i = RL!Idle
    BY IdleIs
  <2>2. 0 \in 0..MaxVersions
    BY DEF RelaysBounded
  <2>3. [i EXCEPT !.at = "asked", !.open = TRUE] =
          [at |-> "asked", got |-> i.got, answer |-> i.answer, open |-> TRUE, previous |-> i.previous]
    BY <2>2, Asked
  <2>4. i.got = 0 /\ i.answer = 0 /\ i.previous = 0
    BY <2>1, IdleIs
  <2> QED BY <2>1, <2>3, <2>4, IdleIs
<1>5. jobs = [j \in RL!JobIds |-> IF j = 0 THEN check ELSE none]
  BY <1>1, <1>3, <1>4
<1>6. check \in JobShape /\ none \in JobShape
  BY DEF JobShape, RelaysBounded
<1>7. /\ check.at = "asked" /\ check.open = TRUE /\ check.previous = 0
      /\ none.at = "none" /\ none.open = FALSE
  OBVIOUS
<1> HIDE DEF check, none
<1>8. jobs \in [RL!JobIds -> JobShape] /\ jobs[0] = check /\ \A j \in RL!JobIds : j # 0 => jobs[j] = none
  BY <1>3, <1>5, <1>6
<1>9. RL!TypeOK
  <2>1. published \in RL!Versions /\ cacheFile \in 0..RL!Torn /\ lock \in 1..RL!NoJob /\ deaths \in 0..1
    BY <1>1 DEF RelaysBounded, RL!Versions, RL!Torn, RL!NoJob
  <2>2. resources \in [health : RL!Busy \cup {"Ready", "Missing", "Error"}, shown : 0..MaxVersions]
    BY <1>1 DEF RelaysBounded, RL!Busy
  <2>3. validation \in [key : Keys, from : 0..RL!Torn,
                        verdict : {"none", "MissingCache", "CacheError", "Unlisted", "NoDaita", "valid"}]
    BY <1>2 DEF RelaysBounded, RL!Torn
  <2> QED BY <1>1, <1>8, <2>1, <2>2, <2>3 DEF RL!TypeOK, JobShape
<1>10. OneFetches /\ CheckAlone
  BY <1>3, <1>7, <1>8 DEF OneFetches, CheckAlone, Fetching
<1>11. OneCall
  <2>1. RL!IsBusy /\ resources.shown = 0
    BY <1>1 DEF RL!IsBusy, RL!Busy
  <2> QED BY <1>7, <1>8, <2>1 DEF OneCall
<1>12. CacheKept /\ StartsChecked
  BY <1>1, <1>2 DEF CacheKept, StartsChecked
<1> QED BY <1>9, <1>10, <1>11, <1>12 DEF RelayInv

LEMMA RelaysInvariant == ASSUME RelaysBounded PROVE RL!Spec => []RelayInv
BY RelaysInitially, RelayStep, PTL DEF RL!Spec

(* What the invariant says of the cache and of the numbers on the page.        *)
LEMMA CacheServes == ASSUME RelaysBounded, RelayInv PROVE RL!CacheServesStarts
<1>1. \A S : RL!Cardinality(S) = Cardinality(S)
  BY DEF RL!Cardinality, Cardinality
<1>2. PICK seen \in 0..MaxVersions : seen = resources.shown
  BY JobsTyped
<1> DEFINE peers == DOMAIN RL!Inventory(seen)
           able == {k \in peers : RL!Inventory(seen)[k]}
<1>3. RL!DaitaCount(seen) <= RL!RelayCount(seen)
  <2>1. CASE seen = RL!None
    BY <2>1 DEF RL!DaitaCount, RL!RelayCount
  <2>2. CASE seen # RL!None
    <3>1. peers \subseteq Keys
      BY DEF RL!Inventory
    <3>2. IsFiniteSet(peers) /\ able \subseteq peers
      BY <3>1, FS_Subset DEF RelaysBounded
    <3>3. RL!DaitaCount(seen) = RL!Cardinality(able) /\ RL!RelayCount(seen) = RL!Cardinality(peers)
      BY <2>2 DEF RL!DaitaCount, RL!RelayCount
    <3> HIDE DEF peers, able
    <3>4. Cardinality(able) <= Cardinality(peers)
      BY <3>2, FS_Subset
    <3> QED BY <1>1, <3>3, <3>4
  <2> QED BY <2>1, <2>2
<1> QED BY <1>2, <1>3 DEF RelayInv, CacheKept, StartsChecked, RL!CacheServesStarts

(* The cache of the relay list is absent or one whole published list, a start *)
(* that passed found DAITA announced for its peer in a published list, and    *)
(* the page shows what is or was in the cache (CacheServesStarts), for every   *)
(* number of peers, of published lists and of presses of the button, whatever *)
(* fails: relay_inventory.rs and ephemeral.rs validate_daita_config.          *)
THEOREM CacheAlwaysServes == ASSUME RelaysBounded PROVE RL!Spec => []RL!CacheServesStarts
BY CacheServes, RelaysInvariant, PTL

(* Neither the cache nor the page goes back to an older list (NeverOlder):    *)
(* REFRESH_LOCK orders the downloads, those too whose caller has given up.    *)
THEOREM NeverAnOlderList == ASSUME RelaysBounded PROVE RL!Spec => [][RL!NeverOlder]_(RL!vars)
BY RelaysInvariant, RelayStep, PTL DEF RL!Spec

-----------------------------------------------------------------------------
(* The panel of the service.  As long as no startup repair ran into another  *)
(* job, the panel has at most one job.                                       *)
PanelJobs ==
  [id : 1..MaxJobs, kind : BP!Actions \cup {"Probe"}, at : {"running", "done"},
   found : BP!Statuses \cup {"none", "ok", "failed"}]

PanelTypes ==
  /\ panelSystem \in PanelSystems /\ helper \in BP!Statuses
  /\ tunnelOn \in BOOLEAN /\ removeDialog \in BOOLEAN /\ overlap \in BOOLEAN
  /\ panel \in BP!Healths /\ lastProblem \in {"none", "probe", "action"}
  /\ begun \in 0..MaxJobs /\ panelJobs \subseteq PanelJobs /\ since \subseteq BP!Statuses

\* a probe that is over found a status, the helper's status is one it had
Probed == \A j \in panelJobs : j.kind = "Probe" /\ j.at = "done" => j.found \in BP!Statuses
HelperSeen == helper \in since
OneJob ==
  ~overlap =>
    /\ \A i, j \in panelJobs : i = j
    /\ BP!IsBusy <=> panelJobs # {}
    /\ removeDialog => panelJobs = {}
    /\ ~BP!IsBusy => panel \in since
    /\ \A j \in panelJobs : j.kind = "Probe" /\ j.at = "done" => j.found \in since

PanelInv == PanelTypes /\ Probed /\ HelperSeen /\ OneJob

LEMMA PanelInitially == ASSUME PanelBounded, BP!Init PROVE PanelInv
<1>1. PanelTypes
  <2>1. 1 \in 0..MaxJobs /\ 1 \in 1..MaxJobs
    BY DEF PanelBounded
  <2>2. panelJobs = {[id |-> 1, kind |-> "Probe", at |-> "running", found |-> "none"]}
    BY DEF BP!Init
  <2>3. panelJobs \subseteq PanelJobs
    BY <2>1, <2>2 DEF PanelJobs
  <2>4. /\ panelSystem \in PanelSystems /\ helper \in BP!Statuses /\ since = {helper}
        /\ tunnelOn \in BOOLEAN /\ removeDialog = FALSE /\ overlap = FALSE
        /\ panel = "Checking" /\ lastProblem = "none" /\ begun = 1
    BY DEF BP!Init
  <2>. QED
    BY <2>1, <2>3, <2>4 DEF PanelTypes, BP!Healths
<1>2. Probed /\ HelperSeen /\ OneJob
  BY DEF BP!Init, Probed, HelperSeen, OneJob, BP!IsBusy
<1>. QED
  BY <1>1, <1>2 DEF PanelInv

(* What a new job leaves: it is the only one if the others are none.         *)
LEMMA JobBegins ==
  ASSUME PanelBounded, PanelInv, NEW kind \in BP!Actions \cup {"Probe"},
         NEW others \in SUBSET panelJobs, BP!Begin(kind, others)
  PROVE  /\ begun' \in 0..MaxJobs /\ panelJobs' \subseteq PanelJobs /\ panel' \in BP!Healths
         /\ Probed' /\ BP!IsBusy' /\ panelJobs' = others \cup {BP!Job(kind)}
         /\ BP!Job(kind).at = "running"
<1>. DEFINE j == BP!Job(kind)
<1>1. /\ begun < MaxJobs /\ begun' = begun + 1 /\ panelJobs' = others \cup {j}
      /\ panel' = IF kind = "Probe" THEN "Checking" ELSE kind
  BY DEF BP!Begin
<1>2. begun' \in 0..MaxJobs /\ begun + 1 \in 1..MaxJobs
  BY <1>1 DEF PanelInv, PanelTypes, PanelBounded
<1>3. j \in PanelJobs /\ j.at = "running"
  BY <1>2 DEF BP!Job, PanelJobs
<1>. HIDE DEF j
<1>4. panelJobs' \subseteq PanelJobs
  BY <1>1, <1>3 DEF PanelInv, PanelTypes
<1>5. Probed'
  BY <1>1, <1>3 DEF PanelInv, Probed
<1>6. panel' \in BP!Healths /\ BP!IsBusy'
  BY <1>1 DEF BP!Healths, BP!IsBusy
<1>. QED
  BY <1>1, <1>2, <1>3, <1>4, <1>5, <1>6 DEF j

(* The buttons.                                                              *)
LEMMA PressStep ==
  ASSUME PanelBounded, PanelInv,
         \/ BP!Refresh \/ BP!PressStartupRepair \/ BP!OpenRemove
         \/ \E action \in BP!Actions : BP!Press(action)
         \/ \E confirmed \in BOOLEAN : BP!CloseRemove(confirmed)
  PROVE  PanelInv'
<1>. USE DEF PanelInv
<1>1. UNCHANGED <<panelSystem, helper, tunnelOn, lastProblem, since>>
  BY DEF BP!Refresh, BP!PressStartupRepair, BP!OpenRemove, BP!Press, BP!CloseRemove
<1>2. CASE \E kind \in BP!Actions \cup {"Probe"} : BP!Begin(kind, panelJobs) /\ removeDialog' = FALSE
           /\ overlap' \in BOOLEAN
           /\ (~overlap' => ~overlap /\ (~BP!IsBusy \/ panelJobs = {} \/ removeDialog))
  <2>1. PICK kind \in BP!Actions \cup {"Probe"} : BP!Begin(kind, panelJobs)
    BY <1>2
  <2>2. /\ begun' \in 0..MaxJobs /\ panelJobs' \subseteq PanelJobs /\ panel' \in BP!Healths
        /\ Probed' /\ BP!IsBusy' /\ panelJobs' = panelJobs \cup {BP!Job(kind)}
        /\ BP!Job(kind).at = "running"
    BY <2>1, JobBegins
  <2>3. ~overlap' => panelJobs = {}
    BY <1>2 DEF OneJob
  <2>4. OneJob'
    BY <1>2, <2>2, <2>3 DEF OneJob
  <2>5. PanelTypes'
    BY <1>1, <1>2, <2>2 DEF PanelTypes
  <2>. QED
    BY <1>1, <2>2, <2>4, <2>5 DEF HelperSeen
<1>3. CASE UNCHANGED <<panel, panelJobs, begun, overlap>> /\ removeDialog' \in BOOLEAN
           /\ (removeDialog' => ~BP!IsBusy)
  <2>1. BP!IsBusy' <=> BP!IsBusy
    BY <1>3 DEF BP!IsBusy
  <2>2. PanelTypes'
    BY <1>1, <1>3 DEF PanelTypes
  <2>3. Probed' /\ HelperSeen'
    BY <1>1, <1>3 DEF Probed, HelperSeen
  <2>4. OneJob'
    BY <1>1, <1>3, <2>1 DEF OneJob
  <2>. QED
    BY <2>2, <2>3, <2>4
<1>4. CASE BP!Refresh
  BY <1>2, <1>4 DEF BP!Refresh, PanelTypes
<1>5. CASE BP!PressStartupRepair
  <2>1. overlap' = (overlap \/ panelJobs # {}) /\ removeDialog' = FALSE
    BY <1>5 DEF BP!PressStartupRepair, PanelTypes
  <2>2. overlap' \in BOOLEAN
    BY <2>1
  <2>3. BP!Begin("StartupRepair", panelJobs) /\ "StartupRepair" \in BP!Actions
    BY <1>5 DEF BP!PressStartupRepair, BP!Actions
  <2>. QED
    BY <1>2, <2>1, <2>2, <2>3
<1>6. CASE BP!OpenRemove
  BY <1>3, <1>6 DEF BP!OpenRemove
<1>7. CASE \E action \in BP!Actions : BP!Press(action)
  <2>1. PICK action \in BP!Actions : BP!Press(action)
    BY <1>7
  <2>. QED
    BY <1>2, <2>1 DEF BP!Press, PanelTypes
<1>8. CASE \E confirmed \in BOOLEAN : BP!CloseRemove(confirmed)
  <2>1. PICK confirmed \in BOOLEAN : BP!CloseRemove(confirmed)
    BY <1>8
  <2>2. CASE confirmed
    <3>1. BP!Begin("Remove", panelJobs) /\ "Remove" \in BP!Actions
      BY <2>1, <2>2 DEF BP!CloseRemove, BP!Actions
    <3>. QED
      BY <1>2, <2>1, <3>1 DEF BP!CloseRemove, PanelTypes
  <2>3. CASE ~confirmed
    BY <1>3, <2>1, <2>3 DEF BP!CloseRemove
  <2>. QED
    BY <2>2, <2>3
<1>. QED
  BY <1>4, <1>5, <1>6, <1>7, <1>8

(* The background.                                                           *)
LEMMA JobGoesOn ==
  ASSUME PanelBounded, PanelInv, NEW j \in panelJobs,
         BP!ProbeLooks(j) \/ BP!ActionRuns(j)
  PROVE  PanelInv'
<1>. USE DEF PanelInv
<1>1. PICK f \in BP!Statuses \cup {"ok", "failed"} :
        /\ panelJobs' = (panelJobs \ {j}) \cup {[j EXCEPT !.at = "done", !.found = f]}
        /\ (j.kind = "Probe" => f = helper /\ UNCHANGED <<helper, since>>)
        /\ (j.kind # "Probe" => since' = {helper'} /\ helper' \in BP!Statuses)
        /\ UNCHANGED <<panelSystem, tunnelOn, panel, lastProblem, begun, removeDialog, overlap>>
  <2>1. CASE BP!ProbeLooks(j)
    BY <2>1 DEF BP!ProbeLooks, PanelTypes
  <2>2. CASE BP!ActionRuns(j)
    <3>1. PICK ok \in BOOLEAN, status \in BP!Statuses :
            /\ helper' = status
            /\ panelJobs' = (panelJobs \ {j})
                 \cup {[j EXCEPT !.at = "done", !.found = IF ok THEN "ok" ELSE "failed"]}
      BY <2>2 DEF BP!ActionRuns
    <3>2. /\ j.kind # "Probe" /\ since' = {helper'}
          /\ UNCHANGED <<panelSystem, tunnelOn, panel, lastProblem, begun, removeDialog, overlap>>
      BY <2>2 DEF BP!ActionRuns
    <3>3. (IF ok THEN "ok" ELSE "failed") \in BP!Statuses \cup {"ok", "failed"}
      OBVIOUS
    <3>. QED
      BY <3>1, <3>2, <3>3
  <2>. QED
    BY <2>1, <2>2
<1>. DEFINE d == [j EXCEPT !.at = "done", !.found = f]
<1>2. /\ d \in PanelJobs /\ d.kind = j.kind /\ d.at = "done" /\ d.found = f
      /\ panelJobs' = (panelJobs \ {j}) \cup {d}
  BY <1>1 DEF PanelTypes, PanelJobs
<1>. HIDE DEF d
<1>3. BP!IsBusy' <=> BP!IsBusy
  BY <1>1 DEF BP!IsBusy
<1>4. helper' \in BP!Statuses /\ HelperSeen' /\ since' \subseteq BP!Statuses
  BY <1>1 DEF PanelTypes, HelperSeen
<1>5. PanelTypes'
  BY <1>1, <1>2, <1>4 DEF PanelTypes
<1>6. Probed'
  BY <1>1, <1>2 DEF Probed, PanelTypes
<1>7. OneJob'
  BY <1>1, <1>2, <1>3 DEF OneJob, HelperSeen
<1>. QED
  BY <1>4, <1>5, <1>6, <1>7

LEMMA JobEnds ==
  ASSUME PanelBounded, PanelInv, NEW j \in panelJobs,
         BP!ProbeEnds(j) \/ BP!ActionEnds(j)
  PROVE  PanelInv'
<1>. USE DEF PanelInv
<1>1. CASE BP!ProbeEnds(j)
  <2>1. /\ j.kind = "Probe" /\ j.at = "done" /\ panel' = j.found
        /\ panelJobs' = panelJobs \ {j} /\ lastProblem' = BP!ProblemAfter(j.found)
        /\ UNCHANGED <<panelSystem, helper, tunnelOn, begun, removeDialog, since, overlap>>
    BY <1>1 DEF BP!ProbeEnds
  <2>2. panel' \in BP!Statuses /\ ~BP!IsBusy'
    BY <2>1 DEF Probed, BP!IsBusy, BP!Actions, BP!Statuses
  <2>3. lastProblem' \in {"none", "probe", "action"}
    BY <2>1 DEF BP!ProblemAfter, PanelTypes
  <2>4. PanelTypes'
    BY <2>1, <2>2, <2>3 DEF PanelTypes, BP!Healths
  <2>5. OneJob'
    BY <2>1, <2>2 DEF OneJob
  <2>. QED
    BY <2>1, <2>4, <2>5 DEF Probed, HelperSeen
<1>2. CASE BP!ActionEnds(j)
  <2>1. /\ BP!Begin("Probe", panelJobs \ {j})
        /\ lastProblem' = IF j.found = "ok" THEN lastProblem ELSE "action"
        /\ UNCHANGED <<panelSystem, helper, tunnelOn, removeDialog, since, overlap>>
    BY <1>2 DEF BP!ActionEnds
  <2>2. /\ begun' \in 0..MaxJobs /\ panelJobs' \subseteq PanelJobs /\ panel' \in BP!Healths
        /\ Probed' /\ BP!IsBusy' /\ panelJobs' = (panelJobs \ {j}) \cup {BP!Job("Probe")}
        /\ BP!Job("Probe").at = "running"
    BY <2>1, JobBegins
  <2>3. PanelTypes'
    BY <2>1, <2>2 DEF PanelTypes
  <2>4. OneJob'
    BY <2>1, <2>2 DEF OneJob
  <2>. QED
    BY <2>1, <2>2, <2>3, <2>4 DEF HelperSeen
<1>. QED
  BY <1>1, <1>2

LEMMA PanelStep == ASSUME PanelBounded, PanelInv, BP!Next PROVE PanelInv'
<1>1. CASE \/ BP!Refresh \/ BP!PressStartupRepair \/ BP!OpenRemove
           \/ \E action \in BP!Actions : BP!Press(action)
           \/ \E confirmed \in BOOLEAN : BP!CloseRemove(confirmed)
  BY <1>1, PressStep
<1>2. CASE \E j \in panelJobs :
             BP!ProbeLooks(j) \/ BP!ActionRuns(j) \/ BP!ProbeEnds(j) \/ BP!ActionEnds(j)
  BY <1>2, JobGoesOn, JobEnds
<1>3. CASE BP!HelperChanges \/ BP!TunnelChanges
  <2>1. /\ UNCHANGED <<panelSystem, panel, lastProblem, panelJobs, begun, removeDialog, overlap>>
        /\ helper' \in BP!Statuses /\ helper' \in since' /\ since \subseteq since'
        /\ since' \subseteq BP!Statuses
    BY <1>3 DEF BP!HelperChanges, BP!TunnelChanges, PanelInv, PanelTypes, HelperSeen, BP!Statuses
  <2>2. tunnelOn' \in BOOLEAN
    <3>1. CASE BP!HelperChanges
      BY <3>1 DEF BP!HelperChanges, PanelInv, PanelTypes
    <3>2. CASE BP!TunnelChanges
      BY <3>2 DEF BP!TunnelChanges
    <3>. QED
      BY <1>3, <3>1, <3>2
  <2>3. BP!IsBusy' <=> BP!IsBusy
    BY <2>1 DEF BP!IsBusy
  <2>4. PanelTypes'
    BY <2>1, <2>2 DEF PanelInv, PanelTypes
  <2>5. OneJob'
    BY <2>1, <2>3 DEF PanelInv, OneJob
  <2>. QED
    BY <2>1, <2>4, <2>5 DEF PanelInv, Probed, HelperSeen
<1>. QED
  BY <1>1, <1>2, <1>3 DEF BP!Next

LEMMA PanelStutters ==
  ASSUME PanelInv, UNCHANGED <<v1, v2, v3, v4, v5, v6, v7, v8, v9, v10>>
  PROVE  PanelInv'
BY DEF PanelInv, PanelTypes, Probed, HelperSeen, OneJob, BP!IsBusy

LEMMA PanelTruths == ASSUME PanelInv PROVE BP!TypeOK /\ BP!PanelTruthful
<1>. USE DEF PanelInv
<1>1. BP!TypeOK
  BY DEF BP!TypeOK, PanelTypes, PanelJobs
<1>2. ASSUME ~overlap PROVE BP!Cardinality(panelJobs) <= 1
  <2>1. CASE panelJobs = {}
    BY <2>1, FS_EmptySet DEF BP!Cardinality, Cardinality
  <2>2. CASE panelJobs # {}
    <3>1. PICK j \in panelJobs : TRUE
      BY <2>2
    <3>2. panelJobs = {j}
      BY <1>2, <3>1 DEF OneJob
    <3>3. Cardinality(panelJobs) = 1
      BY <3>2, FS_Singleton
    <3>4. BP!Cardinality(panelJobs) = Cardinality(panelJobs)
      BY DEF BP!Cardinality, Cardinality
    <3>. QED
      BY <3>3, <3>4
  <2>. QED
    BY <2>1, <2>2
<1>3. ~overlap => (BP!IsBusy <=> panelJobs # {}) /\ (~BP!IsBusy => panel \in since)
  BY DEF OneJob
<1>. QED
  BY <1>1, <1>2, <1>3 DEF BP!PanelTruthful

-----------------------------------------------------------------------------
(* The connection password.                                                 *)

(* Without a race, nothing runs beside a task that may write or remove.      *)
Alone ==
  \A i, j \in PasswordJobs :
    i # j /\ job[i].kind \in CP!Writing => job[j].kind = "none"

(* What a task waits for fits what it does.                                 *)
Jobs == [kind : CP!Kinds, step : CP!Steps, known : CP!Stored, new : CP!Stored, enables : BOOLEAN]
ShapedJob(r) ==
  /\ r.kind = "none" => r = CP!Rest
  /\ r.step = "written" => r.kind = "edit"
  /\ r.step = "deleted" => r.kind = "remove"
  /\ r.kind = "enable" => r.step \in {"read", "answered"}
  /\ r.kind = "edit" /\ r.step = "write" => r.new \in Passwords
JobsShaped == \A j \in PasswordJobs : ShapedJob(job[j])

(* What was written is there until the task that wrote it ends.              *)
WrittenIsThere ==
  \A j \in PasswordJobs : job[j].step = "written" => store \in Passwords

PasswordInv ==
  /\ CP!TypeOK /\ JobsShaped
  /\ ~raced => Alone /\ WrittenIsThere
  /\ CP!AsksForStored /\ CP!RequiredIsStored

LEMMA PasswordInitially == ASSUME NoneIsNone, CP!Init PROVE PasswordInv
BY DEF NoneIsNone, PasswordInv, CP!Init, CP!TypeOK, CP!Rest, CP!Kinds, CP!Steps, CP!Stored,
       JobsShaped, ShapedJob, Alone, WrittenIsThere, CP!AsksForStored, CP!RequiredIsStored,
       CP!Writing

(* Types and shapes.                                                        *)
LEMMA JobPut ==
  ASSUME CP!TypeOK, JobsShaped, NEW j \in PasswordJobs, NEW r \in Jobs, ShapedJob(r),
         job' = [job EXCEPT ![j] = r], store' \in CP!Stored, required' \in BOOLEAN,
         raced' \in BOOLEAN
  PROVE  CP!TypeOK' /\ JobsShaped'
<1>1. job \in [PasswordJobs -> Jobs]
  BY DEF CP!TypeOK, Jobs
<1>2. job' \in [PasswordJobs -> Jobs] /\ \A i \in PasswordJobs : ShapedJob(job'[i])
  BY <1>1 DEF JobsShaped
<1>. QED
  BY <1>2 DEF CP!TypeOK, JobsShaped, Jobs

LEMMA JobStepped ==
  ASSUME NEW r \in Jobs, NEW s \in CP!Steps
  PROVE  /\ [r EXCEPT !.step = s] \in Jobs /\ [r EXCEPT !.step = s].step = s
         /\ [r EXCEPT !.step = s].kind = r.kind /\ [r EXCEPT !.step = s].new = r.new
BY DEF Jobs

LEMMA PasswordTypes ==
  ASSUME PasswordInv, CP!Next
  PROVE  CP!TypeOK' /\ JobsShaped'
<1>1. CP!TypeOK /\ JobsShaped /\ job \in [PasswordJobs -> Jobs]
  BY DEF PasswordInv, CP!TypeOK, Jobs
<1>2. CASE CP!Disable
  BY <1>1, <1>2 DEF CP!Disable, CP!TypeOK, JobsShaped, ShapedJob
<1>3. ASSUME NEW j \in PasswordJobs, CP!Press(j) PROVE CP!TypeOK' /\ JobsShaped'
  BY <1>1, <1>3
    DEF CP!Press, CP!Enable, CP!OpenEditor, CP!OpenRemove, CP!RequestPrompt, CP!Begin,
        CP!Beside, CP!TypeOK, CP!Kinds, CP!Steps, CP!Stored, CP!Rest, JobsShaped, ShapedJob
<1>4. ASSUME NEW j \in PasswordJobs, CP!Dialog(j) \/ CP!Task(j)
      PROVE  /\ store' \in CP!Stored /\ required' \in BOOLEAN /\ raced' \in BOOLEAN
             /\ ShapedJob(job[j]) /\ job[j] \in Jobs
  BY <1>1, <1>4
    DEF CP!Dialog, CP!Cancel, CP!ConfirmRemove, CP!Submit, CP!Unlock, CP!Task, CP!Read,
        CP!EnableAnswered, CP!EditAnswered, CP!PromptAnswered, CP!Write, CP!Saved, CP!Delete,
        CP!Removed, CP!TypeOK, CP!Stored, Jobs, JobsShaped
<1>5. ASSUME NEW j \in PasswordJobs, CP!Dialog(j) \/ CP!Task(j), CP!Ends(j)
      PROVE  CP!TypeOK' /\ JobsShaped'
  <2>1. CP!Rest \in Jobs /\ ShapedJob(CP!Rest)
    BY DEF CP!Rest, Jobs, ShapedJob, CP!Kinds, CP!Steps, CP!Stored
  <2>. QED
    BY <1>1, <1>4, <1>5, <2>1, JobPut DEF CP!Ends
<1>6. ASSUME NEW j \in PasswordJobs, CP!Dialog(j) \/ CP!Task(j), NEW s \in CP!Steps,
             job' = [job EXCEPT ![j].step = s], job[j].kind # "none",
             s \in {"written", "deleted"} => job[j].kind = (IF s = "written" THEN "edit" ELSE "remove"),
             job[j].kind # "enable", job[j].kind = "edit" => s # "write"
      PROVE  CP!TypeOK' /\ JobsShaped'
  <2>1. [job[j] EXCEPT !.step = s] \in Jobs /\ ShapedJob([job[j] EXCEPT !.step = s])
    BY <1>4, <1>6, JobStepped DEF ShapedJob
  <2>. QED
    BY <1>1, <1>4, <1>6, <2>1, JobPut
<1>7. ASSUME NEW j \in PasswordJobs, NEW current \in CP!Stored, NEW new \in Passwords,
             CP!Submit(j, current, new)
      PROVE  CP!TypeOK' /\ JobsShaped'
  <2>1. CP!Dialog(j)
    BY <1>7 DEF CP!Dialog
  <2>2. job' = [job EXCEPT ![j] = [job[j] EXCEPT !.step = "write", !.new = new]]
    BY <1>1, <1>7 DEF CP!Submit
  <2>3. [job[j] EXCEPT !.step = "write", !.new = new] \in Jobs
        /\ ShapedJob([job[j] EXCEPT !.step = "write", !.new = new])
    BY <1>4, <1>7, <2>1 DEF Jobs, ShapedJob, CP!Steps, CP!Stored, CP!Submit, CP!At
  <2>. QED
    BY <1>1, <1>4, <2>1, <2>2, <2>3, JobPut
<1>8. ASSUME NEW j \in PasswordJobs, CP!Read(j) PROVE CP!TypeOK' /\ JobsShaped'
  <2>1. CP!Task(j)
    BY <1>8 DEF CP!Task
  <2>2. CASE job' = [job EXCEPT ![j].step = "answered", ![j].known = store]
    <3>1. job' = [job EXCEPT ![j] = [job[j] EXCEPT !.step = "answered", !.known = store]]
      BY <1>1, <2>2
    <3>2. job[j].kind # "none" /\ store \in CP!Stored
      BY <1>1, <1>4, <1>8, <2>1 DEF CP!Read, ShapedJob, CP!Rest, CP!TypeOK
    <3>3. [job[j] EXCEPT !.step = "answered", !.known = store] \in Jobs
          /\ ShapedJob([job[j] EXCEPT !.step = "answered", !.known = store])
      BY <1>4, <2>1, <3>2 DEF Jobs, ShapedJob, CP!Steps
    <3>. QED
      BY <1>1, <1>4, <2>1, <3>1, <3>3, JobPut
  <2>. QED
    BY <1>5, <1>8, <2>1, <2>2 DEF CP!Read
<1>9. ASSUME NEW j \in PasswordJobs, CP!EnableAnswered(j) PROVE CP!TypeOK' /\ JobsShaped'
  <2>1. CP!Task(j)
    BY <1>9 DEF CP!Task
  <2>2. CASE job' = [job EXCEPT ![j].kind = "edit", ![j].step = "dialog", ![j].enables = TRUE]
    <3>. DEFINE r == [job[j] EXCEPT !.kind = "edit", !.step = "dialog", !.enables = TRUE]
    <3>1. job' = [job EXCEPT ![j] = r]
      BY <1>1, <2>2
    <3>2. r \in Jobs /\ r.kind = "edit" /\ r.step = "dialog"
      BY <1>4, <2>1 DEF Jobs, CP!Steps, CP!Kinds
    <3>3. ShapedJob(r)
      BY <3>2 DEF ShapedJob
    <3>. QED
      BY <1>1, <1>4, <2>1, <3>1, <3>2, <3>3, JobPut
  <2>. QED
    BY <1>5, <1>9, <2>1, <2>2 DEF CP!EnableAnswered
<1>10. ASSUME NEW j \in PasswordJobs, CP!Dialog(j) \/ CP!Task(j) PROVE CP!TypeOK' /\ JobsShaped'
  <2>1. CASE CP!Cancel(j) \/ CP!Saved(j) \/ CP!Removed(j) \/ \E e \in Passwords : CP!Unlock(j, e)
    BY <1>5, <1>10, <2>1 DEF CP!Cancel, CP!Saved, CP!Removed, CP!Unlock
  <2>2. CASE CP!ConfirmRemove(j) \/ CP!EditAnswered(j) \/ CP!PromptAnswered(j)
    BY <1>5, <1>6, <1>10, <2>2
      DEF CP!ConfirmRemove, CP!EditAnswered, CP!PromptAnswered, CP!At, CP!Steps
  <2>3. CASE CP!Write(j) \/ CP!Delete(j)
    BY <1>5, <1>6, <1>10, <2>3 DEF CP!Write, CP!Delete, CP!At, CP!Steps
  <2>. QED
    BY <1>7, <1>8, <1>9, <1>10, <2>1, <2>2, <2>3 DEF CP!Dialog, CP!Task
<1>. QED
  BY <1>2, <1>3, <1>10 DEF CP!Next

(* A task that begins beside nothing that writes leaves Alone true; a step of *)
(* a task keeps its kind, ends it, or goes from enabling to editing.          *)
LEMMA PasswordAlone ==
  ASSUME PasswordInv, CP!Next, ~raced'
  PROVE  ~raced /\ Alone /\ Alone'
<1>1. ~raced
  BY DEF CP!Next, CP!Disable, CP!Press, CP!Enable, CP!OpenEditor, CP!OpenRemove,
         CP!RequestPrompt, CP!Begin, CP!Dialog, CP!Cancel, CP!ConfirmRemove, CP!Submit,
         CP!Unlock, CP!Task, CP!Read, CP!EnableAnswered, CP!EditAnswered, CP!PromptAnswered,
         CP!Write, CP!Saved, CP!Delete, CP!Removed, PasswordInv, CP!TypeOK
<1>2. Alone
  BY <1>1 DEF PasswordInv
<1>3. CASE CP!Disable
  BY <1>2, <1>3 DEF CP!Disable, Alone
<1>4. ASSUME NEW j \in PasswordJobs, CP!Press(j) PROVE Alone'
  <2>1. \A i \in PasswordJobs \ {j} : job'[i] = job[i]
    BY <1>4 DEF CP!Press, CP!Enable, CP!OpenEditor, CP!OpenRemove, CP!RequestPrompt, CP!Begin,
                PasswordInv, CP!TypeOK
  <2>2. ~CP!Beside(j, job'[j].kind)
    BY <1>4 DEF CP!Press, CP!Enable, CP!OpenEditor, CP!OpenRemove, CP!RequestPrompt, CP!Begin,
                PasswordInv, CP!TypeOK
  <2>. QED
    BY <1>2, <2>1, <2>2 DEF Alone, CP!Beside, CP!Writing
<1>5. ASSUME NEW j \in PasswordJobs, CP!Dialog(j) \/ CP!Task(j) PROVE Alone'
  <2>1. \A i \in PasswordJobs \ {j} : job'[i] = job[i]
    BY <1>5 DEF CP!Dialog, CP!Cancel, CP!ConfirmRemove, CP!Submit, CP!Unlock,
                CP!Task, CP!Read, CP!EnableAnswered, CP!EditAnswered, CP!PromptAnswered, CP!Write,
                CP!Saved, CP!Delete, CP!Removed, CP!At, CP!Ends, PasswordInv, CP!TypeOK
  <2>2. \/ job'[j].kind \in {job[j].kind, "none"}
        \/ job[j].kind = "enable" /\ job'[j].kind = "edit"
    BY <1>5 DEF CP!Dialog, CP!Cancel, CP!ConfirmRemove, CP!Submit, CP!Unlock,
                CP!Task, CP!Read, CP!EnableAnswered, CP!EditAnswered, CP!PromptAnswered, CP!Write,
                CP!Saved, CP!Delete, CP!Removed, CP!At, CP!Ends, CP!Rest, PasswordInv, CP!TypeOK
  <2>. QED
    BY <1>2, <2>1, <2>2 DEF Alone, CP!Writing
<1>. QED
  BY <1>1, <1>2, <1>3, <1>4, <1>5 DEF CP!Next

(* Only a write and a deletion change the store, and they run alone.         *)
LEMMA PasswordStep ==
  ASSUME NoneIsNone, PasswordInv, [CP!Next]_(CP!vars)
  PROVE  PasswordInv'
<1>1. CASE UNCHANGED CP!vars
  BY <1>1
    DEF CP!vars, PasswordInv, CP!TypeOK, JobsShaped, ShapedJob, Alone, WrittenIsThere,
        CP!AsksForStored, CP!RequiredIsStored
<1>2. ASSUME CP!Next PROVE CP!TypeOK' /\ JobsShaped' /\ (~raced' => Alone')
  BY <1>2, PasswordTypes, PasswordAlone
<1>3. ASSUME CP!Next, ~raced'
      PROVE  WrittenIsThere' /\ CP!AsksForStored' /\ CP!RequiredIsStored'
  <2>1. ~raced /\ Alone
    BY <1>3, PasswordAlone
  <2>. USE <2>1, NoneIsNone
         DEF NoneIsNone, PasswordInv, CP!TypeOK, JobsShaped, ShapedJob, WrittenIsThere,
             CP!AsksForStored, CP!RequiredIsStored, CP!Stored, CP!Kinds, CP!Steps
  <2>2. CASE CP!Disable
    BY <2>2 DEF CP!Disable
  <2>3. ASSUME NEW j \in PasswordJobs, CP!Press(j)
        PROVE  WrittenIsThere' /\ CP!AsksForStored' /\ CP!RequiredIsStored'
    BY <2>3 DEF CP!Press, CP!Enable, CP!OpenEditor, CP!OpenRemove, CP!RequestPrompt, CP!Begin,
                CP!Rest
  <2>4. ASSUME NEW j \in PasswordJobs, CP!Dialog(j)
        PROVE  WrittenIsThere' /\ CP!AsksForStored' /\ CP!RequiredIsStored'
    BY <2>4 DEF CP!Dialog, CP!Cancel, CP!ConfirmRemove, CP!Submit, CP!Unlock, CP!At, CP!Ends,
                CP!Rest
  <2>5. ASSUME NEW j \in PasswordJobs,
               CP!Read(j) \/ CP!EnableAnswered(j) \/ CP!EditAnswered(j) \/ CP!PromptAnswered(j)
        PROVE  WrittenIsThere' /\ CP!AsksForStored' /\ CP!RequiredIsStored'
    BY <2>5 DEF CP!Read, CP!EnableAnswered, CP!EditAnswered, CP!PromptAnswered, CP!At, CP!Ends,
                CP!Rest
  <2>6. ASSUME NEW j \in PasswordJobs, CP!Write(j) \/ CP!Delete(j)
        PROVE  WrittenIsThere' /\ CP!AsksForStored' /\ CP!RequiredIsStored'
    <3>1. \A i \in PasswordJobs \ {j} : job[i] = CP!Rest /\ job'[i] = job[i]
      BY <2>6 DEF CP!Write, CP!Delete, CP!At, CP!Ends, Alone, CP!Writing
    <3>. QED
      BY <2>6, <3>1 DEF CP!Write, CP!Delete, CP!At, CP!Ends, CP!Rest
  <2>7. ASSUME NEW j \in PasswordJobs, CP!Saved(j) \/ CP!Removed(j)
        PROVE  WrittenIsThere' /\ CP!AsksForStored' /\ CP!RequiredIsStored'
    BY <2>7 DEF CP!Saved, CP!Removed, CP!At, CP!Ends, CP!Rest
  <2>. QED
    BY <1>3, <2>2, <2>3, <2>4, <2>5, <2>6, <2>7 DEF CP!Next, CP!Task
<1>. QED
  BY <1>1, <1>2, <1>3 DEF PasswordInv, CP!AsksForStored, CP!RequiredIsStored

(* As long as nothing that may write or remove the password overlaps with     *)
(* another task, every dialog compares with the password that is stored, and *)
(* a required password is there (password_gate.rs): for any number of tasks.  *)
THEOREM PasswordAsked ==
  ASSUME NoneIsNone PROVE CP!Spec => [](CP!AsksForStored /\ CP!RequiredIsStored)
<1>1. PasswordInv => CP!AsksForStored /\ CP!RequiredIsStored
  BY DEF PasswordInv
<1>2. CP!Spec => []PasswordInv
  BY PasswordInitially, PasswordStep, PTL DEF CP!Spec
<1>. QED
  BY <1>1, <1>2, PTL

-----------------------------------------------------------------------------
(* The tray.                                                                *)

(* On Linux the tray that the UI believes in is registered for good.         *)
TrayTrusted ==
  /\ TR!Linux => /\ trayThread \in {"none", "starting", "serving", "failed"}
                 /\ trayThread = "serving" => icon
                 /\ enabled => trayThread = "serving"
  /\ window = "hidden" => enabled

(* What the UI shows was kept before, and what is copied was kept then: the   *)
(* text LAST_NOTIFICATION has is the newest of all.                          *)
NoticesKept ==
  /\ TR!Linux => copy.at = "idle" /\ balloon.says # "copied"
  /\ ~TR!Linux => balloon.of <= notices.remembered /\ notices.showing <= notices.remembered
  /\ notices.remembered <= notices.sent
  /\ copy.at = "writing" => copy.text > 0

TrayInv == TR!TypeOK /\ TrayTrusted /\ NoticesKept /\ TR!CopiesWhatWasSeen

LEMMA NoticesStay ==
  ASSUME TR!TypeOK, NoticesKept, TR!CopiesWhatWasSeen, UNCHANGED <<traySystem, TR!notified>>
  PROVE  /\ NoticesKept' /\ TR!CopiesWhatWasSeen'
         /\ notices' \in [sent : TR!Notices, remembered : TR!Notices, showing : TR!Notices]
         /\ balloon' \in TR!Balloons /\ clipboard' \in TR!Notices
         /\ copy' \in [at : {"idle", "writing"}, text : TR!Notices, seen : TR!Notices]
<1>1. /\ traySystem' = traySystem /\ notices' = notices /\ balloon' = balloon
      /\ copy' = copy /\ clipboard' = clipboard
  BY DEF TR!notified
<1>. QED
  BY <1>1 DEF TR!TypeOK, NoticesKept, TR!CopiesWhatWasSeen, TR!Linux

(* The window, the platform thread and the UI's belief in it.                *)
LEMMA PlatformStep ==
  ASSUME TrayInv, TR!Spawn \/ TR!Wait \/ TR!Platform
  PROVE  TrayInv' /\ TR!LeavesStopped
<1>1. /\ UNCHANGED <<traySystem, commands, sent, stops, TR!notified>>
      /\ \/ TR!Linux /\ trayThread = "none" /\ ~enabled'
         \/ TR!Linux /\ trayThread # "none" /\ UNCHANGED trayThread
         \/ ~TR!Linux
         \/ UNCHANGED enabled
  BY DEF TR!Spawn, TR!Wait, TR!Platform, TR!Register, TR!CreateTrayWindow, TR!AddIcon,
         TR!DestroyTray, TR!loop, TR!Linux
<1>2. NoticesKept' /\ TR!CopiesWhatWasSeen'
  BY <1>1, NoticesStay DEF TrayInv
<1>3. trayThread' \in {"none", "starting", "window", "serving", "failed", "closing", "ended"}
  BY DEF TR!Spawn, TR!Wait, TR!Platform, TR!Register, TR!CreateTrayWindow, TR!AddIcon,
         TR!DestroyTray, TrayInv, TR!TypeOK
<1>4. icon' \in BOOLEAN
  BY DEF TR!Spawn, TR!Wait, TR!Platform, TR!Register, TR!CreateTrayWindow, TR!AddIcon,
         TR!DestroyTray, TrayInv, TR!TypeOK
<1>5. enabled' \in BOOLEAN
  BY DEF TR!Spawn, TR!Wait, TR!Platform, TR!Register, TR!CreateTrayWindow, TR!AddIcon,
         TR!DestroyTray, TrayInv, TR!TypeOK
<1>6. window' = "shown" \/ window' = window
  BY DEF TR!Spawn, TR!Wait, TR!Platform, TR!Register, TR!CreateTrayWindow, TR!AddIcon,
         TR!DestroyTray, TR!loop
<1>7. TR!TypeOK'
  BY <1>1, <1>3, <1>4, <1>5, <1>6, NoticesStay DEF TrayInv, TR!TypeOK
<1>8. TrayTrusted'
  <2>1. CASE TR!Spawn
    BY <2>1 DEF TR!Spawn, TrayInv, TrayTrusted, TR!Linux
  <2>2. CASE TR!Wait
    BY <2>2 DEF TR!Wait, TrayInv, TrayTrusted, TR!Linux
  <2>3. CASE TR!Register
    BY <2>3 DEF TR!Register, TrayInv, TrayTrusted, TR!Linux, TR!loop
  <2>4. CASE TR!CreateTrayWindow
    BY <2>4 DEF TR!CreateTrayWindow, TrayInv, TrayTrusted, TR!Linux, TR!loop
  <2>5. CASE TR!AddIcon
    BY <2>5 DEF TR!AddIcon, TrayInv, TrayTrusted, TR!Linux, TR!loop
  <2>6. CASE TR!DestroyTray
    BY <2>6 DEF TR!DestroyTray, TrayInv, TrayTrusted, TR!Linux, TR!loop
  <2>. QED
    BY <2>1, <2>2, <2>3, <2>4, <2>5, <2>6 DEF TR!Platform
<1>9. TR!LeavesStopped
  BY <1>6 DEF TR!LeavesStopped
<1>. QED
  BY <1>2, <1>7, <1>8, <1>9 DEF TrayInv

(* Commands are sent and obeyed, the close button is pressed, a stop is      *)
(* answered.                                                                *)
LEMMA LoopStep ==
  ASSUME TrayBounded, TrayInv, TR!ClickIcon \/ TR!ClickMenu \/ TR!Activate \/ TR!Obey \/ TR!Close \/ TR!Stopped
  PROVE  TrayInv' /\ TR!LeavesStopped
<1>. USE DEF TrayInv
<1>1. UNCHANGED <<traySystem, icon, enabled, TR!notified>>
  BY DEF TR!ClickIcon, TR!ClickMenu, TR!Activate, TR!Send, TR!Obey, TR!Show, TR!Toggle, TR!Quit,
         TR!Take, TR!Close, TR!Stopped, TR!platform
<1>2. NoticesKept' /\ TR!CopiesWhatWasSeen'
  BY <1>1, NoticesStay
<1>3. commands' \in Seq(TR!Commands) /\ sent' \in 0..MaxCommands /\ Len(commands') <= sent'
  <2>1. CASE TR!ClickIcon \/ TR!ClickMenu \/ TR!Activate
    <3>1. PICK c \in TR!Commands : TR!Send(c)
      BY <2>1 DEF TR!ClickIcon, TR!ClickMenu, TR!Activate, TR!Commands, TR!MenuCommands
    <3>2. /\ commands' = Append(commands, c) /\ sent' = sent + 1 /\ sent < MaxCommands
          /\ commands \in Seq(TR!Commands)
      BY <3>1 DEF TR!Send, TR!TypeOK
    <3>3. commands' \in Seq(TR!Commands) /\ Len(commands') = Len(commands) + 1
      BY <3>2, AppendProperties
    <3>. QED
      BY <3>2, <3>3, LenProperties DEF TrayBounded, TR!TypeOK
  <2>2. CASE TR!Obey
    <3>1. commands \in Seq(TR!Commands) /\ commands # <<>> /\ commands' = Tail(commands) /\ sent' = sent
      BY <2>2 DEF TR!Obey, TR!Show, TR!Toggle, TR!Quit, TR!Take, TR!TypeOK
    <3>2. commands' \in Seq(TR!Commands) /\ Len(commands') = Len(commands) - 1
      BY <3>1, HeadTailProperties
    <3>. QED
      BY <3>1, <3>2, LenProperties DEF TrayBounded, TR!TypeOK
  <2>3. CASE TR!Close \/ TR!Stopped
    BY <2>3 DEF TR!Close, TR!Stopped, TR!TypeOK
  <2>. QED
    BY <2>1, <2>2, <2>3
<1>4. window' \in {"opening", "shown", "hidden", "gone"} /\ stops' \subseteq {"tray", "close"}
  <2>1. CASE TR!ClickIcon \/ TR!ClickMenu \/ TR!Activate
    BY <2>1 DEF TR!ClickIcon, TR!ClickMenu, TR!Activate, TR!Send, TR!TypeOK
  <2>2. CASE TR!Obey
    BY <2>2 DEF TR!Obey, TR!Show, TR!Toggle, TR!Quit, TR!TypeOK
  <2>3. CASE TR!Close
    BY <2>3 DEF TR!Close, TR!TypeOK
  <2>4. CASE TR!Stopped
    BY <2>4 DEF TR!Stopped, TR!TypeOK
  <2>. QED
    BY <2>1, <2>2, <2>3, <2>4
<1>5. trayThread' = trayThread \/ (~TR!Linux /\ trayThread' = "closing")
  BY DEF TR!ClickIcon, TR!ClickMenu, TR!Activate, TR!Send, TR!Obey, TR!Show, TR!Toggle, TR!Quit,
         TR!Close, TR!Stopped, TR!platform, TR!Linux
<1>6. TR!TypeOK'
  BY <1>1, <1>3, <1>4, <1>5, NoticesStay DEF TR!TypeOK
<1>7. window' = "hidden" => window = "hidden" \/ enabled
  BY DEF TR!ClickIcon, TR!ClickMenu, TR!Activate, TR!Send, TR!Obey, TR!Show, TR!Toggle, TR!Quit,
         TR!Close, TR!Stopped
<1>8. TrayTrusted'
  BY <1>1, <1>5, <1>7 DEF TrayTrusted, TR!Linux
<1>9. TR!LeavesStopped
  BY DEF TR!LeavesStopped, TR!ClickIcon, TR!ClickMenu, TR!Activate, TR!Send, TR!Obey, TR!Show,
         TR!Toggle, TR!Quit, TR!Close, TR!Stopped
<1>. QED
  BY <1>2, <1>6, <1>8, <1>9

(* A notice is kept, then shown; the tray thread copies the one kept last.    *)
LEMMA NoticeStep ==
  ASSUME TrayBounded, TrayInv,
         TR!Notify \/ TR!ShowBalloon \/ TR!AskCopy \/ TR!WriteClipboard
  PROVE  TrayInv' /\ TR!LeavesStopped
<1>. USE DEF TrayInv
<1>1. UNCHANGED <<traySystem, trayThread, icon, enabled, commands, sent, window, stops>>
  BY DEF TR!Notify, TR!ShowBalloon, TR!AskCopy, TR!WriteClipboard, TR!platform, TR!loop
<1>2. TrayTrusted' /\ TR!LeavesStopped
  BY <1>1 DEF TrayTrusted, TR!Linux, TR!LeavesStopped
<1>3. /\ notices \in [sent : TR!Notices, remembered : TR!Notices, showing : TR!Notices]
      /\ copy \in [at : {"idle", "writing"}, text : TR!Notices, seen : TR!Notices]
      /\ balloon \in TR!Balloons /\ clipboard \in TR!Notices
  BY DEF TR!TypeOK
<1>4. TR!Notices \subseteq Nat /\ 0 \in TR!Notices
  BY DEF TR!Notices, TrayBounded
<1>5. SUFFICES
        /\ notices' \in [sent : TR!Notices, remembered : TR!Notices, showing : TR!Notices]
        /\ copy' \in [at : {"idle", "writing"}, text : TR!Notices, seen : TR!Notices]
        /\ balloon' \in TR!Balloons /\ clipboard' \in TR!Notices
        /\ NoticesKept' /\ TR!CopiesWhatWasSeen'
  <2>1. TR!TypeOK'
    BY <1>1, <1>5 DEF TR!TypeOK
  <2>. QED
    BY <1>2, <1>5, <2>1
<1>6. \A w \in {"none", "nothing", "copied", "failed"} :
        /\ TR!Balloon(w) \in TR!Balloons
        /\ TR!Balloon(w).says = w /\ TR!Balloon(w).of = 0
  BY <1>4 DEF TR!Balloon, TR!Balloons
<1>7. \A n \in TR!Notices : /\ TR!Shown(n) \in TR!Balloons
                             /\ TR!Shown(n).says = "notice" /\ TR!Shown(n).of = n
  BY DEF TR!Shown, TR!Balloons
<1>8. CASE TR!Notify
  <2>. DEFINE n == notices.sent + 1
  <2>1. n \in TR!Notices /\ UNCHANGED <<copy, clipboard>>
    BY <1>3, <1>8 DEF TR!Notify, TR!Notices, TrayBounded
  <2>2. CASE TR!Linux \/ ~TR!HasTrayWindow
    <3>1. notices' = [notices EXCEPT !.sent = n] /\ (balloon' = balloon \/ (TR!Linux /\ balloon' = TR!Shown(n)))
      BY <1>8, <2>2 DEF TR!Notify
    <3>. HIDE DEF n
    <3>2. /\ notices' \in [sent : TR!Notices, remembered : TR!Notices, showing : TR!Notices]
          /\ notices'.sent = n /\ notices'.remembered = notices.remembered
          /\ notices'.showing = notices.showing
      BY <1>3, <2>1, <3>1
    <3>3. /\ balloon' \in TR!Balloons /\ (balloon'.says = "copied" => balloon.says = "copied")
          /\ ~TR!Linux => balloon' = balloon
      BY <1>3, <1>7, <2>1, <3>1
    <3>4. notices.sent \in Nat /\ notices.remembered \in Nat
      BY <1>3, <1>4
    <3>7. notices.sent <= n /\ n \in Nat
      BY <3>4 DEF n
    <3>5. NoticesKept'
      BY <1>1, <2>1, <3>2, <3>3, <3>4, <3>7 DEF NoticesKept, TR!Linux
    <3>6. TR!CopiesWhatWasSeen'
      BY <2>1, <3>3 DEF TR!CopiesWhatWasSeen
    <3>. QED
      BY <1>3, <2>1, <3>2, <3>3, <3>5, <3>6
  <2>3. CASE ~TR!Linux /\ TR!HasTrayWindow
    <3>1. /\ notices' = [notices EXCEPT !.sent = n, !.remembered = n, !.showing = n]
          /\ balloon' = balloon
      BY <1>8, <2>3 DEF TR!Notify
    <3>. HIDE DEF n
    <3>2. /\ notices' \in [sent : TR!Notices, remembered : TR!Notices, showing : TR!Notices]
          /\ notices'.sent = n /\ notices'.remembered = n /\ notices'.showing = n
      BY <1>3, <2>1, <3>1
    <3>3. notices.sent \in Nat /\ notices.remembered \in Nat /\ balloon.of \in Nat
      BY <1>3, <1>4 DEF TR!Balloons
    <3>6. notices.sent <= n /\ n \in Nat
      BY <3>3 DEF n
    <3>4. NoticesKept'
      BY <1>1, <2>1, <2>3, <3>1, <3>2, <3>3, <3>6 DEF NoticesKept, TR!Linux
    <3>5. TR!CopiesWhatWasSeen'
      BY <2>1, <3>1 DEF TR!CopiesWhatWasSeen
    <3>. QED
      BY <1>3, <2>1, <3>1, <3>2, <3>4, <3>5
  <2>. QED
    BY <2>2, <2>3
<1>9. CASE TR!ShowBalloon
  <2>1. /\ notices' = [notices EXCEPT !.showing = 0]
        /\ balloon' = balloon \/ balloon' = TR!Shown(notices.showing)
        /\ UNCHANGED <<copy, clipboard>>
    BY <1>9 DEF TR!ShowBalloon
  <2>2. /\ notices' \in [sent : TR!Notices, remembered : TR!Notices, showing : TR!Notices]
        /\ notices'.sent = notices.sent /\ notices'.remembered = notices.remembered
        /\ notices'.showing = 0 /\ notices.showing \in TR!Notices
    BY <1>3, <1>4, <2>1
  <2>3. /\ balloon' \in TR!Balloons /\ (balloon'.says = "copied" => balloon.says = "copied")
        /\ balloon'.of \in {balloon.of, notices.showing}
    BY <1>3, <1>7, <2>1, <2>2
  <2>4. notices.remembered \in Nat
    BY <1>3, <1>4
  <2>5. NoticesKept'
    BY <1>1, <2>1, <2>2, <2>3, <2>4 DEF NoticesKept, TR!Linux
  <2>6. TR!CopiesWhatWasSeen'
    BY <2>1, <2>3 DEF TR!CopiesWhatWasSeen
  <2>. QED
    BY <1>3, <2>1, <2>2, <2>3, <2>5, <2>6
<1>10. CASE TR!AskCopy
  <2>. DEFINE at1 == IF notices.remembered = 0 THEN "idle" ELSE "writing"
              says1 == IF notices.remembered = 0 THEN "nothing" ELSE "none"
  <2>1. /\ ~TR!Linux /\ UNCHANGED <<notices, clipboard>>
        /\ copy' = [at |-> at1, text |-> notices.remembered, seen |-> balloon.of]
        /\ balloon' = TR!Balloon(says1)
    BY <1>10 DEF TR!AskCopy
  <2>2. at1 \in {"idle", "writing"} /\ says1 \in {"none", "nothing"} /\ balloon.of \in TR!Notices
    BY <1>3 DEF TR!Balloons
  <2>3. at1 = "writing" => notices.remembered # 0
    OBVIOUS
  <2>. HIDE DEF at1, says1
  <2>4. /\ copy' \in [at : {"idle", "writing"}, text : TR!Notices, seen : TR!Notices]
        /\ copy'.at = at1 /\ copy'.text = notices.remembered /\ copy'.seen = balloon.of
    BY <1>3, <2>1, <2>2
  <2>5. balloon' \in TR!Balloons /\ balloon'.says # "copied" /\ balloon'.of = 0
    BY <1>6, <2>1, <2>2
  <2>6. notices.remembered \in Nat
    BY <1>3, <1>4
  <2>7. NoticesKept'
    BY <1>1, <2>1, <2>3, <2>4, <2>5, <2>6 DEF NoticesKept, TR!Linux
  <2>8. TR!CopiesWhatWasSeen'
    BY <2>1, <2>4, <2>5 DEF TR!CopiesWhatWasSeen, NoticesKept
  <2>. QED
    BY <1>3, <2>1, <2>4, <2>5, <2>7, <2>8
<1>11. CASE TR!WriteClipboard
  <2>1. /\ copy.at = "writing" /\ copy' = [copy EXCEPT !.at = "idle"] /\ UNCHANGED notices
        /\ \/ clipboard' \in {clipboard, 0, copy.text} /\ balloon' = TR!Balloon("failed")
           \/ clipboard' = copy.text /\ balloon' = TR!Balloon("copied")
    BY <1>11 DEF TR!WriteClipboard
  <2>2. /\ copy' \in [at : {"idle", "writing"}, text : TR!Notices, seen : TR!Notices]
        /\ copy'.at = "idle" /\ copy'.text = copy.text /\ copy'.seen = copy.seen
    BY <1>3, <2>1
  <2>3. ~TR!Linux /\ copy.text > 0 /\ copy.text \in TR!Notices
    BY <1>3, <2>1 DEF NoticesKept
  <2>4. balloon' \in TR!Balloons /\ balloon'.of = 0
    BY <1>6, <2>1
  <2>5. clipboard' \in TR!Notices
    BY <1>3, <1>4, <2>1, <2>3
  <2>6. balloon'.says = "copied" => clipboard' = copy.text
    BY <1>6, <2>1
  <2>7. notices.remembered \in Nat
    BY <1>3, <1>4
  <2>8. NoticesKept'
    BY <1>1, <2>1, <2>2, <2>3, <2>4, <2>7 DEF NoticesKept, TR!Linux
  <2>9. TR!CopiesWhatWasSeen'
    BY <2>2, <2>3, <2>6 DEF TR!CopiesWhatWasSeen
  <2>. QED
    BY <1>3, <2>1, <2>2, <2>4, <2>5, <2>8, <2>9
<1>. QED
  BY <1>8, <1>9, <1>10, <1>11

LEMMA TrayInitially == ASSUME TrayBounded, TR!Init PROVE TrayInv
<1>1. /\ TR!Notices \subseteq Nat /\ 0 \in TR!Notices /\ TR!Balloon("none") \in TR!Balloons
      /\ TR!Balloon("none").says = "none" /\ TR!Balloon("none").of = 0
  BY DEF TR!Notices, TrayBounded, TR!Balloon, TR!Balloons
<1>2. /\ notices \in [sent : TR!Notices, remembered : TR!Notices, showing : TR!Notices]
      /\ notices.sent = 0 /\ notices.remembered = 0 /\ notices.showing = 0
      /\ copy \in [at : {"idle", "writing"}, text : TR!Notices, seen : TR!Notices]
      /\ copy.at = "idle" /\ copy.text = 0 /\ copy.seen = 0
  BY <1>1 DEF TR!Init
<1>3. commands \in Seq(TR!Commands) /\ sent \in 0..MaxCommands /\ Len(commands) <= sent
  BY DEF TR!Init, TrayBounded
<1>4. /\ traySystem \in TraySystems /\ trayThread = "none" /\ icon \in BOOLEAN /\ enabled \in BOOLEAN
      /\ window = "opening" /\ stops \subseteq {"tray", "close"}
      /\ balloon \in TR!Balloons /\ clipboard \in TR!Notices
  BY <1>1 DEF TR!Init
<1>6. TR!TypeOK
  BY <1>2, <1>3, <1>4 DEF TR!TypeOK
<1>5. TrayTrusted /\ NoticesKept
  BY <1>1, <1>2 DEF TR!Init, TrayTrusted, NoticesKept, TR!Linux
<1>. QED
  BY <1>1, <1>2, <1>5, <1>6 DEF TR!Init, TrayInv, TR!CopiesWhatWasSeen

LEMMA TrayKeeps ==
  ASSUME TrayBounded, TrayInv, [TR!Next]_(TR!vars)
  PROVE  TrayInv' /\ TR!LeavesStopped
<1>1. CASE UNCHANGED TR!vars
  <2>1. /\ UNCHANGED <<traySystem, trayThread, icon, enabled, commands, sent, window, stops>>
        /\ UNCHANGED <<traySystem, TR!notified>>
    BY <1>1 DEF TR!vars, TR!notified
  <2>2. TrayTrusted' /\ TR!LeavesStopped
    BY <2>1 DEF TrayInv, TrayTrusted, TR!Linux, TR!LeavesStopped
  <2>. QED
    BY <2>1, <2>2, NoticesStay DEF TrayInv, TR!TypeOK
<1>. QED
  BY <1>1, PlatformStep, LoopStep, NoticeStep DEF TR!Next

LEMMA TrayInvariant == ASSUME TrayBounded PROVE TR!Spec => []TrayInv
<1>1. TR!Init => TrayInv
  BY TrayInitially
<1>2. TrayInv /\ [TR!Next]_(TR!vars) => TrayInv'
  BY TrayKeeps
<1>. QED
  BY <1>1, <1>2, PTL DEF TR!Spec

(* On Linux no window is ever hidden without an icon to bring it back,        *)
(* whenever the watcher answers and however long that takes: the UI believes *)
(* only the answer it waited for (spawn_tray_thread, should_minimize_on_close*)
(* of ui/tray).                                                             *)
THEOREM HiddenCanReturn == ASSUME TrayBounded PROVE TR!Spec => []TR!HiddenBehindIcon
<1>1. TrayInv => TR!HiddenBehindIcon
  BY DEF TrayInv, TrayTrusted, TR!HiddenBehindIcon
<1>. QED
  BY <1>1, TrayInvariant, PTL

(* Whatever the UI notifies of while the tray thread copies, the text that   *)
(* is said to be copied is on the clipboard and no older than the balloon     *)
(* the user clicked (remember_notification, show_balloon and                 *)
(* copy_latest_notification of ui/tray/platform/windows.rs).                 *)
THEOREM CopiedIsSeen == ASSUME TrayBounded PROVE TR!Spec => []TR!CopiesWhatWasSeen
<1>1. TrayInv => TR!CopiesWhatWasSeen
  BY DEF TrayInv
<1>. QED
  BY <1>1, TrayInvariant, PTL

-----------------------------------------------------------------------------
(* The program as a whole.  A step is one of the machine at work, and what it *)
(* says of the variables is what it says when it is alone.                   *)
DesktopInv ==
  /\ part \in {"single", "tools", "reach", "logs", "themes", "relays", "panel", "password", "tray"}
  /\ part = "single" => InstanceInv
  /\ part = "tools" => PageInv
  /\ part = "reach" => ReachInv
  /\ part = "logs" => LogInv
  /\ part = "themes" => ThemesInv
  /\ part = "relays" => RelayInv
  /\ part = "panel" => PanelInv
  /\ part = "password" => PasswordInv
  /\ part = "tray" => TrayInv

\* what a step may not take back
NothingTaken ==
  /\ part = "logs" => LG!ClearedStaysOff
  /\ part = "relays" => RL!NeverOlder
  /\ part = "themes" => TH!FilesKept /\ TH!PreferenceKept
  /\ part = "tray" => TR!LeavesStopped

LEMMA DesktopInitially == Init => DesktopInv
<1>. SUFFICES ASSUME Init PROVE DesktopInv
  OBVIOUS
<1>1. CASE part = "single" /\ SI!Init
  BY <1>1, ConstantsAssumption, InstanceInitially DEF ConstantsAssumption, DesktopInv
<1>2. CASE part = "tools" /\ AC!Init
  BY <1>2, ConstantsAssumption, PageInitially DEF ConstantsAssumption, DesktopInv
<1>3. CASE part = "reach" /\ RC!Init
  BY <1>3, ConstantsAssumption, ReachInitially DEF ConstantsAssumption, DesktopInv
<1>4. CASE part = "logs" /\ LG!LogsInit
  BY <1>4, ConstantsAssumption, LogsInitially DEF ConstantsAssumption, DesktopInv
<1>5. CASE part = "themes" /\ TH!Init
  BY <1>5, ConstantsAssumption, ThemesInitially DEF ConstantsAssumption, DesktopInv
<1>6. CASE part = "relays" /\ RL!Init
  BY <1>6, ConstantsAssumption, RelaysInitially DEF ConstantsAssumption, DesktopInv
<1>7. CASE part = "panel" /\ BP!Init
  BY <1>7, ConstantsAssumption, PanelInitially DEF ConstantsAssumption, DesktopInv
<1>8. CASE part = "password" /\ CP!Init
  BY <1>8, ConstantsAssumption, PasswordInitially DEF ConstantsAssumption, DesktopInv
<1>9. CASE part = "tray" /\ TR!Init
  BY <1>9, ConstantsAssumption, TrayInitially DEF ConstantsAssumption, DesktopInv
<1>. QED
  BY <1>1, <1>2, <1>3, <1>4, <1>5, <1>6, <1>7, <1>8, <1>9 DEF Init

LEMMA DesktopStep == ASSUME DesktopInv, Next PROVE DesktopInv' /\ NothingTaken
<1>1. CASE SingleInstanceStep
  <2>1. part = "single" /\ part' = part /\ InstanceInv /\ SI!Next
    BY <1>1 DEF SingleInstanceStep, Same13, DesktopInv
  <2>2. InstanceInv'
    BY <2>1, ConstantsAssumption, InstanceStep DEF ConstantsAssumption
  <2>. QED
    BY <2>1, <2>2 DEF DesktopInv, NothingTaken
<1>2. CASE ActiveConfigStep
  <2>1. part = "tools" /\ part' = part /\ PageInv /\ AC!Next
    BY <1>2 DEF ActiveConfigStep, Same13, DesktopInv
  <2>2. PageInv'
    BY <2>1, ConstantsAssumption, PageStep DEF ConstantsAssumption
  <2>. QED
    BY <2>1, <2>2 DEF DesktopInv, NothingTaken
<1>3. CASE ReachabilityStep
  <2>1. part = "reach" /\ part' = part /\ ReachInv /\ RC!Next
    BY <1>3 DEF ReachabilityStep, Same13, DesktopInv
  <2>2. ReachInv'
    BY <2>1, ConstantsAssumption, ReachStep DEF ConstantsAssumption
  <2>. QED
    BY <2>1, <2>2 DEF DesktopInv, NothingTaken
<1>4. CASE LogsStep
  <2>1. part = "logs" /\ part' = part /\ LogInv /\ LG!Next
    BY <1>4 DEF LogsStep, Same11, Same13, DesktopInv
  <2>2. LogInv' /\ LG!ClearedStaysOff
    BY <2>1, ConstantsAssumption, LogStep DEF ConstantsAssumption
  <2>. QED
    BY <2>1, <2>2 DEF DesktopInv, NothingTaken
<1>5. CASE ThemesStep
  <2>1. part = "themes" /\ part' = part /\ ThemesInv /\ TH!Next
    BY <1>5 DEF ThemesStep, Same7, Same9, Same11, Same13, DesktopInv
  <2>2. ThemesInv' /\ TH!FilesKept /\ TH!PreferenceKept
    BY <2>1, ConstantsAssumption, ThemeStep, ThemesKeep DEF ConstantsAssumption
  <2>. QED
    BY <2>1, <2>2 DEF DesktopInv, NothingTaken
<1>6. CASE RelaysStep
  <2>1. part = "relays" /\ part' = part /\ RelayInv /\ RL!Next
    BY <1>6 DEF RelaysStep, Same9, Same11, Same13, DesktopInv
  <2>2. RelayInv' /\ RL!NeverOlder
    BY <2>1, ConstantsAssumption, RelayStep DEF ConstantsAssumption
  <2>. QED
    BY <2>1, <2>2 DEF DesktopInv, NothingTaken
<1>7. CASE BackendPanelStep
  <2>1. part = "panel" /\ part' = part /\ PanelInv /\ BP!Next
    BY <1>7 DEF BackendPanelStep, Same11, Same13, DesktopInv
  <2>2. PanelInv'
    BY <2>1, ConstantsAssumption, PanelStep DEF ConstantsAssumption
  <2>. QED
    BY <2>1, <2>2 DEF DesktopInv, NothingTaken
<1>8. CASE ConnectPasswordStep
  <2>1. part = "password" /\ part' = part /\ PasswordInv /\ CP!Next
    BY <1>8 DEF ConnectPasswordStep, Same5, Same7, Same9, Same11, Same13, DesktopInv
  <2>2. PasswordInv'
    BY <2>1, ConstantsAssumption, PasswordStep DEF ConstantsAssumption
  <2>. QED
    BY <2>1, <2>2 DEF DesktopInv, NothingTaken
<1>9. CASE TrayStep
  <2>1. part = "tray" /\ part' = part /\ TrayInv /\ TR!Next
    BY <1>9 DEF TrayStep, Same13, DesktopInv
  <2>2. TrayInv' /\ TR!LeavesStopped
    BY <2>1, ConstantsAssumption, TrayKeeps DEF ConstantsAssumption
  <2>. QED
    BY <2>1, <2>2 DEF DesktopInv, NothingTaken
<1>. QED
  BY <1>1, <1>2, <1>3, <1>4, <1>5, <1>6, <1>7, <1>8, <1>9 DEF Next

LEMMA DesktopStutters == ASSUME DesktopInv, UNCHANGED all PROVE DesktopInv'
<1>1. UNCHANGED <<part, v1, v2, v3, v4, v5, v6, v7, v8, v9, v10, v11, v12>>
  BY DEF all
<1>2. /\ UNCHANGED SI!vars /\ UNCHANGED AC!vars /\ UNCHANGED RL!vars
      /\ UNCHANGED CP!vars /\ UNCHANGED TR!vars
  BY <1>1 DEF SI!vars, SI!lock, SI!window, AC!vars, RL!vars, CP!vars, TR!vars
<1>3. part = "single" => InstanceInv'
  BY <1>2, ConstantsAssumption, InstanceStep DEF ConstantsAssumption, DesktopInv
<1>4. part = "tools" => PageInv'
  BY <1>2, ConstantsAssumption, PageStep DEF ConstantsAssumption, DesktopInv
<1>5. part = "reach" => ReachInv'
  BY <1>1, ConstantsAssumption, ReachStutters DEF ConstantsAssumption, DesktopInv
<1>6. part = "logs" => LogInv'
  BY <1>1, LogStutters DEF DesktopInv
<1>7. part = "themes" => ThemesInv'
  BY <1>1, ThemesStutter DEF DesktopInv
<1>8. part = "relays" => RelayInv'
  BY <1>2, ConstantsAssumption, RelayStep DEF ConstantsAssumption, DesktopInv
<1>9. part = "panel" => PanelInv'
  BY <1>1, PanelStutters DEF DesktopInv
<1>10. part = "password" => PasswordInv'
  BY <1>2, ConstantsAssumption, PasswordStep DEF ConstantsAssumption, DesktopInv
<1>11. part = "tray" => TrayInv'
  BY <1>2, ConstantsAssumption, TrayKeeps DEF ConstantsAssumption, DesktopInv
<1>. QED
  BY <1>1, <1>3, <1>4, <1>5, <1>6, <1>7, <1>8, <1>9, <1>10, <1>11 DEF DesktopInv

LEMMA DesktopInvariant == Spec => []DesktopInv
<1>1. DesktopInv /\ [Next]_all => DesktopInv'
  BY DesktopStep, DesktopStutters
<1>. QED
  BY <1>1, DesktopInitially, PTL DEF Spec

(* Every variable of every machine of the desktop program keeps its type, for *)
(* every value the constants may have.                                      *)
THEOREM DesktopTyped == Spec => []TypeOK
<1>1. ASSUME DesktopInv PROVE TypeOK
  <2>1. part = "single" => SI!TypeOK
    BY <1>1 DEF DesktopInv, InstanceInv
  <2>2. part = "tools" => AC!TypeOK
    BY <1>1 DEF DesktopInv, PageInv
  <2>3. part = "reach" => RC!TypeOK
    BY <1>1, ConstantsAssumption, ReachTruths DEF ConstantsAssumption, DesktopInv
  <2>4. part = "logs" => LG!TypeOK
    BY <1>1, LogTruths DEF DesktopInv
  <2>5. part = "themes" => TH!TypeOK
    BY <1>1, ConstantsAssumption, ThemesTruths DEF ConstantsAssumption, DesktopInv
  <2>6. part = "relays" => RL!TypeOK
    BY <1>1 DEF DesktopInv, RelayInv
  <2>7. part = "panel" => BP!TypeOK
    BY <1>1, PanelTruths DEF DesktopInv
  <2>8. part = "password" => CP!TypeOK
    BY <1>1 DEF DesktopInv, PasswordInv
  <2>9. part = "tray" => TR!TypeOK
    BY <1>1 DEF DesktopInv, TrayInv
  <2>. QED
    BY <1>1, <2>1, <2>2, <2>3, <2>4, <2>5, <2>6, <2>7, <2>8, <2>9 DEF DesktopInv, TypeOK
<1>. QED
  BY <1>1, DesktopInvariant, PTL

(* What the pages and the processes show is true, for every number of         *)
(* processes, clicks, calls, log lines, theme files, relay lists and repeats, *)
(* whichever order answers come in: one process is the primary one, the tools *)
(* page shows the active config, a verdict is true of the network and a report *)
(* counts every saved config, no log line is shown twice or lost below the     *)
(* capacity, theme names are unique, the cache serves starts, the panel shows *)
(* a status the service had, the dialogs ask for the password that is stored, *)
(* and what hides behind the tray can be had back.                           *)
THEOREM PagesAlwaysTruthful == Spec => []PagesTruthful
<1>1. ASSUME DesktopInv PROVE PagesTruthful
  <2>1. part = "single" => SI!SinglePrimary /\ SI!ActivationKept
    BY <1>1, ConstantsAssumption, OneUI, PromisedShown DEF ConstantsAssumption, DesktopInv
  <2>2. part = "tools" => AC!SnapshotTruthful /\ AC!AnswersLastRequest
    BY <1>1 DEF DesktopInv, PageInv
  <2>3. part = "reach" => RC!VerdictTrue /\ RC!AuditReports
    BY <1>1, ConstantsAssumption, ReachTruths DEF ConstantsAssumption, DesktopInv
  <2>4. part = "logs" => LG!BufferSound
    BY <1>1, LogTruths DEF DesktopInv
  <2>5. part = "themes" => TH!NamesDistinct
    BY <1>1, ConstantsAssumption, ThemesTruths DEF ConstantsAssumption, DesktopInv
  <2>6. part = "relays" => RL!CacheServesStarts
    BY <1>1, ConstantsAssumption, CacheServes DEF ConstantsAssumption, DesktopInv
  <2>7. part = "panel" => BP!PanelTruthful
    BY <1>1, PanelTruths DEF DesktopInv
  <2>8. part = "password" => CP!AsksForStored /\ CP!RequiredIsStored
    BY <1>1 DEF DesktopInv, PasswordInv
  <2>9. part = "tray" => TR!HiddenBehindIcon /\ TR!CopiesWhatWasSeen
    BY <1>1 DEF DesktopInv, TrayInv, TrayTrusted, TR!HiddenBehindIcon
  <2>. QED
    BY <2>1, <2>2, <2>3, <2>4, <2>5, <2>6, <2>7, <2>8, <2>9 DEF PagesTruthful
<1>. QED
  BY <1>1, DesktopInvariant, PTL

(* No step takes anything back: cleared lines stay off the page, the relay    *)
(* list and its cache never get older, imports replace no file of the user,  *)
(* the palette changes only to what was asked for, and on Linux the program   *)
(* ends only when its tunnel was asked to stop.                              *)
THEOREM NothingEverTakenBack == Spec => NothingTakenBack
<1>1. DesktopInv /\ Next => NothingTaken
  BY DesktopStep
<1>2. Spec => [][NothingTaken]_all
  BY <1>1, DesktopInvariant, PTL DEF Spec
<1>. QED
  BY <1>2 DEF NothingTakenBack, NothingTaken
=============================================================================
