--------------------------- MODULE ConnectPassword ---------------------------
(***************************************************************************)
(* The connection password (ui/features/session/password_gate.rs): the     *)
(* switch that requires it, the dialogs that set, change and remove it, and *)
(* the prompt in front of a start.  The password is in the credential store *)
(* of the system, which is asked and told in the background; a dialog       *)
(* compares what is typed with what was stored when it was asked for.       *)
(*                                                                         *)
(* What a start does behind the prompt is in Session.                       *)
(***************************************************************************)
CONSTANTS
    PasswordJobs,  \* tasks and dialogs at a time, a bound
    Passwords,     \* of at least eight characters
    NoPassword     \* the credential store holds none

VARIABLES
    store,         \* the password in the credential store
    required,      \* ui_prefs.require_connect_password
    job,           \* see TypeOK
    raced          \* history: one that may write or remove ran beside another

vars == <<store, required, job, raced>>

Stored == Passwords \union {NoPassword}
Kinds == {"none", "enable", "edit", "remove", "prompt"}
Steps == {"none", "read", "answered", "dialog", "write", "written", "deleted"}
\* known: what the store answered; new: what it will hold; enables: enable_after_save
Rest == [kind |-> "none", step |-> "none", known |-> NoPassword, new |-> NoPassword,
         enables |-> FALSE]
Ends(j) == job' = [job EXCEPT ![j] = Rest]
At(j, kind, step) == job[j].kind = kind /\ job[j].step = step

Writing == {"enable", "edit", "remove"}
Beside(j, kind) ==
    \E i \in PasswordJobs \ {j} :
       job[i].kind # "none" /\ (kind \in Writing \/ job[i].kind \in Writing)
Begin(j, kind, step) ==
    /\ job[j] = Rest
    /\ job' = [job EXCEPT ![j].kind = kind, ![j].step = step]
    /\ raced' = (raced \/ Beside(j, kind))
    /\ UNCHANGED <<store, required>>

(***************************************************************************)
(* The preferences page                                                    *)
(***************************************************************************)
\* The switch asks for the opposite of what it shows.
Disable == required /\ required' = FALSE /\ UNCHANGED <<store, job, raced>>
Enable(j) == ~required /\ Begin(j, "enable", "read")
OpenEditor(j) == Begin(j, "edit", "read")
OpenRemove(j) == Begin(j, "remove", "dialog")

\* The store answers, with an error too, which ends the task.
Read(j) ==
    /\ job[j].step = "read"
    /\ \/ job' = [job EXCEPT ![j].step = "answered", ![j].known = store]
       \/ Ends(j)
    /\ UNCHANGED <<store, required, raced>>

\* mutant: what is not there is required
EnableAnyway(j) ==
    /\ At(j, "enable", "answered")
    /\ required' = TRUE /\ Ends(j)
    /\ UNCHANGED <<store, raced>>
\* No password: the editor opens, and enables what it saves.
EnableAnswered(j) ==
    /\ At(j, "enable", "answered")
    /\ IF job[j].known # NoPassword
       THEN required' = TRUE /\ Ends(j)
       ELSE /\ job' = [job EXCEPT ![j].kind = "edit", ![j].step = "dialog", ![j].enables = TRUE]
            /\ UNCHANGED required
    /\ UNCHANGED <<store, raced>>
EditAnswered(j) ==
    /\ At(j, "edit", "answered")
    /\ job' = [job EXCEPT ![j].step = "dialog"]
    /\ UNCHANGED <<store, required, raced>>

Cancel(j) == job[j].step = "dialog" /\ Ends(j) /\ UNCHANGED <<store, required, raced>>

(***************************************************************************)
(* The editor and the removal                                              *)
(***************************************************************************)
\* What is refused clears the fields and leaves the dialog.  A field for the
\* current password is there if the store had one.
Submit(j, current, new) ==
    /\ At(j, "edit", "dialog") /\ current = job[j].known
    /\ job' = [job EXCEPT ![j].step = "write", ![j].new = new]
    /\ UNCHANGED <<store, required, raced>>
Write(j) ==
    /\ At(j, "edit", "write")
    /\ \/ store' = job[j].new /\ job' = [job EXCEPT ![j].step = "written"]
       \/ Ends(j) /\ UNCHANGED store
    /\ UNCHANGED <<required, raced>>
Saved(j) ==
    /\ At(j, "edit", "written") /\ Ends(j)
    /\ required' = (required \/ job[j].enables)
    /\ UNCHANGED <<store, raced>>

ConfirmRemove(j) ==
    /\ At(j, "remove", "dialog")
    /\ job' = [job EXCEPT ![j].step = "write"]
    /\ UNCHANGED <<store, required, raced>>
Delete(j) ==
    /\ At(j, "remove", "write")
    /\ \/ store' = NoPassword /\ job' = [job EXCEPT ![j].step = "deleted"]
       \/ Ends(j) /\ UNCHANGED store
    /\ UNCHANGED <<required, raced>>
Removed(j) ==
    /\ At(j, "remove", "deleted") /\ Ends(j)
    /\ required' = FALSE
    /\ UNCHANGED <<store, raced>>

(***************************************************************************)
(* The prompt                                                              *)
(***************************************************************************)
\* Asked for by a start, a queued start or a restart while one is required.
RequestPrompt(j) == required /\ Begin(j, "prompt", "read")
PromptAnswered(j) ==
    /\ At(j, "prompt", "answered")
    /\ IF job[j].known = NoPassword THEN Ends(j)
       ELSE job' = [job EXCEPT ![j].step = "dialog"]
    /\ UNCHANGED <<store, required, raced>>
\* A wrong password leaves the prompt; the right one lets the start go on.
Unlock(j, entered) ==
    /\ At(j, "prompt", "dialog") /\ entered = job[j].known /\ Ends(j)
    /\ UNCHANGED <<store, required, raced>>

(***************************************************************************)
(* The specification                                                       *)
(***************************************************************************)
\* An earlier run may have ended between a deletion and the requirement's.
Init ==
    /\ store \in Stored /\ required \in BOOLEAN
    /\ job = [j \in PasswordJobs |-> Rest]
    /\ raced = (required /\ store = NoPassword)

Press(j) == Enable(j) \/ OpenEditor(j) \/ OpenRemove(j) \/ RequestPrompt(j)
Dialog(j) ==
    \/ Cancel(j) \/ ConfirmRemove(j)
    \/ \E current \in Stored, new \in Passwords : Submit(j, current, new)
    \/ \E entered \in Passwords : Unlock(j, entered)
Task(j) ==
    \/ Read(j) \/ EnableAnswered(j) \/ EditAnswered(j) \/ PromptAnswered(j)
    \/ Write(j) \/ Saved(j) \/ Delete(j) \/ Removed(j)
Next == Disable \/ \E j \in PasswordJobs : Press(j) \/ Dialog(j) \/ Task(j)
Spec == Init /\ [][Next]_vars

(***************************************************************************)
(* Properties                                                              *)
(***************************************************************************)
TypeOK ==
    /\ store \in Stored /\ required \in BOOLEAN /\ raced \in BOOLEAN
    /\ job \in [PasswordJobs -> [kind : Kinds, step : Steps, known : Stored, new : Stored,
                                 enables : BOOLEAN]]

\* Unless what may write or remove overlaps with another, a dialog compares what
\* is typed with the password that is stored now (password_gate.rs:327, 429): nobody
\* changes it, or unlocks a start, without it.
AsksForStored ==
    ~raced => \A j \in PasswordJobs :
       job[j].kind \in {"enable", "edit", "prompt"} /\ job[j].step \in {"answered", "dialog", "write"}
         => job[j].known = store

\* In the same case what is required is there, or is not required any more as soon
\* as the task that removed it ends (password_gate.rs:150): no start is
\* locked out by a preference.
RequiredIsStored ==
    ~raced /\ required => store # NoPassword \/ \E j \in PasswordJobs : job[j].step = "deleted"
=============================================================================
