------------------------------ MODULE MCDesktop ------------------------------
(*****************************************************************************)
(* The desktop program for TLC: the values of its constants, the fairness of *)
(* each machine and what it makes sure of.                                   *)
(*****************************************************************************)
EXTENDS Desktop

SavedLists == {<<>>, <<"two", "one">>, <<"unreadable", "two">>, <<"noEndpoint", "invalid">>}
Address(family, host) == [family |-> family, host |-> host]
AnswerLists ==
  {<<Address("v4", "a"), Address("v6", "b"), Address("v4", "a"), Address("v6", "c")>>,
   <<Address("v6", "c")>>}

Look(base, mode) == [base |-> base, mode |-> mode]
(* One theme has the name of a bundled one, two of a file differ in what      *)
(* sanitize_key leaves out; the template has one name for both modes.         *)
ThemeSources ==
  {[stem |-> "a", themes |-> <<Look("dim", "Light"), Look("dim!", "Light")>>],
   [stem |-> "r-wg-curated", themes |-> <<Look("ayu", "Dark")>>]}
ThemeKey ==
  [b \in {"default", "ayu", "dim", "dim!", "Custom", "none"} |-> IF b = "dim!" THEN "dim" ELSE b]

-----------------------------------------------------------------------------
(* Each machine has the fairness its own module states.  A behaviour is one of *)
(* one machine, so one fair action of each can share a condition.            *)
FirstFair ==
  \/ part = "single" /\ SI!Starts("p1") /\ Same13
  \/ part = "tools" /\ AC!Background /\ Same13
  \/ part = "reach" /\ RC!TestStep /\ Same13
  \/ part = "logs" /\ LG!Draw /\ Same11
  \/ part = "relays" /\ RL!Serve /\ Same9
  \/ part = "panel" /\ BP!JobStep /\ Same11
  \/ part = "tray" /\ TR!Serve /\ Same13
SecondFair ==
  \/ part = "single" /\ SI!Starts("p2") /\ Same13
  \/ part = "tools" /\ AC!Render /\ Same13
  \/ part = "reach" /\ RC!AuditStep /\ Same13
  \/ part = "logs" /\ LG!Elapse /\ Same11
  \/ part = "relays" /\ RL!EndCall /\ Same9
  \/ part = "tray" /\ TR!Stopped /\ Same13
ThirdFair ==
  \/ part = "single" /\ SI!Starts("p3") /\ Same13
  \/ part = "reach" /\ RC!AuditEnds /\ Same13
  \/ part = "logs" /\ LG!Serving /\ Same11
FourthFair ==
  \/ part = "logs" /\ LG!Finishing /\ Same11
FifthFair ==
  \/ part = "logs" /\ LG!Turning /\ Same11
FairSpec ==
  /\ Spec /\ WF_all(FirstFair) /\ WF_all(SecondFair) /\ WF_all(ThirdFair)
  /\ WF_all(FourthFair) /\ WF_all(FifthFair)

-----------------------------------------------------------------------------
(* Nothing hangs: a process that starts becomes primary, leaves or fails; the *)
(* tools page catches up; computations, tests and audits, the cancelled ones *)
(* included, end; a logs page that is watched syncs again and again; the     *)
(* relay page and the panel of the service come back from being busy; a       *)
(* hidden window comes back when asked for.  The processes are alike, one     *)
(* stands for all.                                                           *)
Unfinished ==
  \/ part = "single" /\ SI!Starting("p1")
  \/ part = "tools" /\ AC!Behind
  \/ part = "reach" /\ RC!Unfinished
  \/ part = "logs" /\ LG!Unsynced
  \/ part = "relays" /\ RL!IsBusy
  \/ part = "panel" /\ BP!Unsettled
  \/ part = "tray" /\ TR!Summoned
Computing == part = "tools" /\ AC!Computing
Hidden == part = "tray" /\ TR!Hidden
JobsEnd == (Unfinished ~> ~(Unfinished \/ Hidden)) /\ (Computing ~> ~Computing)
=============================================================================
