---------------------------- MODULE SingleInstance ----------------------------
(***************************************************************************)
(* One UI per user (src/src/ui/single_instance): a process that starts       *)
(* becomes the primary one, or has the primary one show itself and leaves.   *)
(* Linux locks a file and listens on a socket beside it; a clean end removes *)
(* both.  Windows creates a named mutex, which lives as long as its owner,   *)
(* and listens on a pipe.                                                   *)
(***************************************************************************)
EXTENDS Naturals, FiniteSets

CONSTANTS Procs,         \* processes of the user, each started once
          DesktopSystems,\* of {"linux", "windows"}
          MaxTries       \* ACTIVATE_RECOVERY_ATTEMPTS, smaller

VARIABLES
  desktop,     \* the system of this behaviour
  at,          \* where each process is
  tries,       \* activation attempts each has left
  lockFile,    \* file that has the lock's name, 0 if none
  files,       \* lock files created so far
  opened,      \* the lock file each process has open, 0 if none
  holder,      \* the process that holds the lock of each file
  socket,      \* the processes listening where an activation is sent
  attached,    \* primaries whose window can be shown
  pending,     \* pending_activate
  shown,       \* primaries that were told to show their window
  promised     \* primaries that answered Ok to an activation

vars == <<desktop, at, tries, lockFile, files, opened, holder, socket, attached,
          pending, shown, promised>>
lock == <<lockFile, files, opened, holder>>
window == <<attached, pending, shown, promised>>

Nobody == "nobody"
Linux == desktop = "linux"
Files == 1..Cardinality(Procs)
Places == {"new", "lock", "activate", "owner", "again", "bind", "primary", "ending", "ended",
           "secondary", "failed", "gone"}
Alive(p) == at[p] \notin {"new", "secondary", "failed", "gone"}
Go(p, place) == at' = [at EXCEPT ![p] = place]

-----------------------------------------------------------------------------
(* startup.                                                                 *)

(* try_acquire_primary_lock opens or creates the file and then locks what it *)
(* has opened.  CreateMutexW is one step.                                   *)
OpenLock(p) ==
  /\ Linux /\ at[p] \in {"new", "again"} /\ Go(p, "lock")
  /\ IF lockFile = 0
     THEN files' = files + 1 /\ lockFile' = files + 1
     ELSE UNCHANGED <<files, lockFile>>
  /\ opened' = [opened EXCEPT ![p] = lockFile']
  /\ UNCHANGED <<desktop, tries, holder, socket, window>>

Acquired(p) == holder[opened[p]] = Nobody

TryLock(p) ==
  /\ Linux /\ at[p] = "lock"
  /\ IF Acquired(p)
     THEN /\ holder' = [holder EXCEPT ![opened[p]] = p]
          /\ tries' = [tries EXCEPT ![p] = MaxTries]
          /\ Go(p, "owner") /\ UNCHANGED opened
     ELSE Go(p, "activate") /\ opened' = [opened EXCEPT ![p] = 0] /\ UNCHANGED <<holder, tries>>
  /\ UNCHANGED <<desktop, lockFile, files, socket, window>>

CreateMutex(p) ==
  /\ ~Linux /\ at[p] \in {"new", "again"}
  /\ IF \E q \in Procs : holder[1] = q
     THEN Go(p, "activate") /\ UNCHANGED holder
     ELSE Go(p, "bind") /\ holder' = [holder EXCEPT ![1] = p]
  /\ UNCHANGED <<desktop, tries, lockFile, files, opened, socket, window>>

NotifyAttached(q) ==                       \* mutant: nothing is kept for later
  /\ promised' = promised \cup {q}
  /\ shown' = IF q \in attached THEN shown \cup {q} ELSE shown
  /\ UNCHANGED <<attached, pending>>

(* ActivationState::notify_activate in the process that listens.             *)
Notify(q) ==
  /\ promised' = promised \cup {q}
  /\ IF q \in attached THEN shown' = shown \cup {q} /\ UNCHANGED <<pending, attached>>
     ELSE pending' = pending \cup {q} /\ UNCHANGED <<shown, attached>>

(* send_activate; also the owner of the lock looks for a listener first.     *)
Activated(p) ==
  /\ at[p] \in {"activate", "owner"}
  /\ \E q \in socket : Notify(q)
  /\ Go(p, "secondary")
  /\ holder' = [f \in Files |-> IF holder[f] = p THEN Nobody ELSE holder[f]]
  /\ opened' = [opened EXCEPT ![p] = 0]
  /\ UNCHANGED <<desktop, tries, lockFile, files, socket>>

BindAtOnce(p) ==                           \* mutant: the listener is not asked
  /\ at[p] \in {"activate", "owner"}
  /\ Go(p, "bind")
  /\ UNCHANGED <<desktop, tries, lock, socket, window>>

Unanswered(p) ==
  /\ at[p] \in {"activate", "owner"} /\ socket = {}
  /\ IF at[p] = "owner" THEN Go(p, "bind") /\ UNCHANGED tries
     ELSE IF tries[p] = 0 THEN Go(p, "failed") /\ UNCHANGED tries
     ELSE Go(p, "again") /\ tries' = [tries EXCEPT ![p] = @ - 1]
  /\ UNCHANGED <<desktop, lock, socket, window>>

(* bind_primary takes a socket of that name away, whoever listens on it;     *)
(* the pipe of Windows has as many instances as one likes.                  *)
Bind(p) ==
  /\ at[p] = "bind" /\ Go(p, "primary")
  /\ socket' = IF Linux THEN {p} ELSE socket \cup {p}
  /\ UNCHANGED <<desktop, tries, lock, window>>

(* PrimaryInstance::attach delivers what was kept.                          *)
Attach(p) ==
  /\ at[p] = "primary" /\ p \notin attached
  /\ attached' = attached \cup {p}
  /\ pending' = pending \ {p}
  /\ shown' = IF p \in pending THEN shown \cup {p} ELSE shown
  /\ UNCHANGED <<desktop, at, tries, lock, socket, promised>>

-----------------------------------------------------------------------------
(* The end of a process: the system closes what it had open.                 *)
Released(p) ==
  /\ holder' = [f \in Files |-> IF holder[f] = p THEN Nobody ELSE holder[f]]
  /\ opened' = [opened EXCEPT ![p] = 0]

(* PrimaryGuard::drop: the names are removed before the lock is released.    *)
RemoveSocket(p) ==
  /\ Linux /\ at[p] = "primary" /\ Go(p, "ending")
  /\ socket' = {}
  /\ UNCHANGED <<desktop, tries, lock, window>>

RemoveLock(p) ==
  /\ at[p] = "ending" /\ Go(p, "ended")
  /\ lockFile' = 0
  /\ UNCHANGED <<desktop, tries, files, opened, holder, socket, window>>

Exit(p) ==
  /\ at[p] = "ended" \/ (~Linux /\ at[p] = "primary")
  /\ Go(p, "gone") /\ Released(p) /\ socket' = socket \ {p}
  /\ UNCHANGED <<desktop, tries, lockFile, files, window>>

Crash(p) ==
  /\ Alive(p) /\ at[p] # "ended"
  /\ Go(p, "gone") /\ Released(p) /\ socket' = socket \ {p}
  /\ UNCHANGED <<desktop, tries, lockFile, files, window>>

Init ==
  /\ desktop \in DesktopSystems
  /\ at = [p \in Procs |-> "new"] /\ tries = [p \in Procs |-> MaxTries]
  /\ lockFile = 0 /\ files = 0
  /\ opened = [p \in Procs |-> 0] /\ holder = [f \in Files |-> Nobody]
  /\ socket = {} /\ attached = {} /\ pending = {} /\ shown = {} /\ promised = {}

Startup(p) == OpenLock(p) \/ TryLock(p) \/ CreateMutex(p) \/ Activated(p)
                \/ Unanswered(p) \/ Bind(p) \/ Attach(p)
End(p) == RemoveSocket(p) \/ RemoveLock(p) \/ Exit(p) \/ Crash(p)
Next == \E p \in Procs : Startup(p) \/ End(p)
Spec == Init /\ [][Next]_vars
Starts(p) == at[p] # "new" /\ Startup(p)
FairSpec == Spec /\ \A p \in Procs : WF_vars(Starts(p))

-----------------------------------------------------------------------------
(* Properties.                                                              *)

TypeOK ==
  /\ desktop \in DesktopSystems
  /\ at \in [Procs -> Places]
  /\ tries \in [Procs -> 0..MaxTries]
  /\ files \in 0..Cardinality(Files) /\ lockFile \in 0..files
  /\ opened \in [Procs -> 0..files] /\ holder \in [Files -> Procs \cup {Nobody}]
  /\ socket \subseteq Procs
  /\ {attached, pending, shown, promised} \subseteq SUBSET Procs

(* As long as nobody removes a lock file that others may have opened, there  *)
(* is one primary at most, whichever processes start and die together.  A    *)
(* removed file can still be locked, beside the one that takes its name.     *)
SinglePrimary ==
  files <= 1 => Cardinality({p \in Procs : at[p] \in {"primary", "ending", "ended"}}) <= 1

(* A process that left because the primary one answered was not mistaken:    *)
(* that window is shown once it exists.                                     *)
ActivationKept == \A p \in promised : p \in attached => p \in shown

(* Whoever starts becomes primary, leaves, or reports an error:              *)
(* Starting(p) ~> ~Starting(p).                                             *)
Starting(p) == at[p] \in {"lock", "activate", "owner", "again", "bind"}

(* main.rs:73, one UI at a time, also while a primary one is ending.  It does *)
(* not hold: a process may have the removed lock file open and lock it.       *)
OneUi == Cardinality({p \in Procs : at[p] = "primary"}) <= 1
=============================================================================
