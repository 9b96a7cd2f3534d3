----------------------------- MODULE ActiveConfig -----------------------------
(***************************************************************************)
(* The tools page (src/src/ui/features/tools): its snapshot of the config    *)
(* that is active in the rest of the UI, parsed in the background, and the   *)
(* CIDR calculator, which computes in the background and can be filled from  *)
(* the snapshot.  Every change of the active config gives it a new identity  *)
(* (source, config and revision); it is abstracted to a number.              *)
(***************************************************************************)
EXTENDS Naturals, FiniteSets

CONSTANTS MaxRevisions,   \* identities the active config takes
          MaxRequests     \* uses of the calculator

VARIABLES
  texts,       \* what parsing the text of each identity gives
  active,      \* [id, parsed]: the active config as the rest of the UI has it
  onPage,      \* the tools page is rendered
  snapshot,    \* [id, state]: active_config of the workspace
  refresh,     \* active_config_refresh_pending
  generation,  \* active_config_generation
  cancellable, \* generation of the parse active_config_cancel cancels, 0 if none
  parses,      \* parse tasks: [gen, id, at, cancelled]
  cidr,        \* [state, gen, answers]: the job, and the request its result is of
  asked,       \* requests the user made of the calculator
  cidrGen,     \* generation of the calculator's jobs
  computing    \* its tasks: [gen, request]

vars == <<texts, active, onPage, snapshot, refresh, generation, cancellable, parses,
          cidr, asked, cidrGen, computing>>
bridge == <<snapshot, refresh, generation, cancellable, parses>>
calculator == <<cidr, asked, cidrGen, computing>>

Identities == 1..MaxRevisions
Outcomes == {"Ready", "Invalid"}          \* a text that cannot be read is Invalid too
None == 0
Snapshots == [id : 0..MaxRevisions, state : {"None", "Loading"} \cup Outcomes]
JobStates == {"Idle", "Running", "Ready", "Failed"}
Requests == 0..MaxRequests

-----------------------------------------------------------------------------
(* build_active_config_bridge: a validated draft brings its parsed config; a *)
(* draft that is not validated and a saved config bring a request for their  *)
(* text.                                                                    *)
HasRequest(a) == a.parsed = "Loading"

CanKeepAny(a) ==                           \* mutant: whatever config it is of
  /\ snapshot.state \in Outcomes /\ HasRequest(a)

CanKeep(a) ==
  /\ snapshot.id = a.id /\ snapshot.state \in Outcomes /\ HasRequest(a)

ShouldSpawn(a, allowParse) == allowParse /\ HasRequest(a) /\ ~CanKeep(a)

ParseStateOf(a, allowParse) ==
  CASE ~HasRequest(a)              -> a.parsed
    [] CanKeep(a)                  -> snapshot.state
    [] ShouldSpawn(a, allowParse)  -> "Loading"
    [] OTHER                       -> "None"

Cancel == {[p EXCEPT !.cancelled = @ \/ p.gen = cancellable] : p \in parses}

(* sync_active_config_bridge.  Only a new parse has a new generation: one    *)
(* that is past its last look at the flag when it is cancelled still ends as *)
(* the parse of this generation.                                            *)
Sync(a, allowParse) ==
  LET next == [id |-> a.id, state |-> ParseStateOf(a, allowParse)]
      pending == HasRequest(a) /\ ~CanKeep(a) /\ ~ShouldSpawn(a, allowParse)
  IN IF snapshot = next /\ refresh = pending
     THEN UNCHANGED bridge
     ELSE /\ snapshot' = next
          /\ refresh' = pending
          /\ IF ShouldSpawn(a, allowParse)
             THEN /\ generation' = generation + 1
                  /\ cancellable' = generation + 1
                  /\ parses' = Cancel \cup {[gen |-> generation + 1, id |-> a.id,
                                             at |-> "start", cancelled |-> FALSE]}
             ELSE /\ cancellable' = 0 /\ parses' = Cancel
                  /\ UNCHANGED generation

(* Every handler that changes the active config or validates the draft ends  *)
(* with sync_tools_active_config_snapshot.                                   *)
Change ==
  /\ active.id < MaxRevisions
  /\ \E parsed \in {"Loading", texts[active.id + 1]} :
        LET a == [id |-> active.id + 1, parsed |-> parsed]
        IN active' = a /\ Sync(a, FALSE)
  /\ UNCHANGED <<texts, onPage, calculator>>

(* Typing validates after a pause, without the sync.                         *)
Validate ==
  /\ HasRequest(active)
  /\ active' = [active EXCEPT !.parsed = texts[active.id]]
  /\ UNCHANGED <<texts, onPage, bridge, calculator>>

OpenPage == ~onPage /\ onPage' = TRUE /\ UNCHANGED <<texts, active, bridge, calculator>>
LeavePage == onPage /\ onPage' = FALSE /\ UNCHANGED <<texts, active, bridge, calculator>>

RenderPending ==                           \* mutant: only what is marked is parsed
  /\ onPage /\ refresh /\ Sync(active, TRUE)
  /\ UNCHANGED <<texts, active, onPage, calculator>>

(* render_tools.                                                            *)
Render ==
  /\ onPage /\ Sync(active, TRUE)
  /\ UNCHANGED <<texts, active, onPage, calculator>>

-----------------------------------------------------------------------------
(* The parse: it looks at the flag, reads, looks again, parses, and its end  *)
(* is handled if no later parse was started.                                 *)
Look(p) ==
  /\ p \in parses /\ p.at \in {"start", "read"} /\ ~p.cancelled
  /\ parses' = (parses \ {p}) \cup
               {[p EXCEPT !.at = IF p.at = "start" THEN "read" ELSE "parsed"]}
  /\ UNCHANGED <<texts, active, onPage, snapshot, refresh, generation, cancellable, calculator>>

ParseEndsAnyway(p) ==                      \* mutant: the generation is not compared
  /\ p \in parses /\ (p.cancelled \/ p.at = "parsed")
  /\ parses' = parses \ {p}
  /\ IF p.at = "parsed"
     THEN /\ snapshot' = [id |-> active.id, state |-> texts[p.id]]
          /\ cancellable' = 0 /\ refresh' = FALSE
     ELSE UNCHANGED <<snapshot, cancellable, refresh>>
  /\ UNCHANGED <<texts, active, onPage, generation, calculator>>

ParseEnds(p) ==
  /\ p \in parses /\ (p.cancelled \/ p.at = "parsed")
  /\ parses' = parses \ {p}
  /\ IF p.gen = generation /\ p.at = "parsed"
     THEN /\ snapshot' = [id |-> p.id, state |-> texts[p.id]]
          /\ cancellable' = 0 /\ refresh' = FALSE
     ELSE UNCHANGED <<snapshot, cancellable, refresh>>
  /\ UNCHANGED <<texts, active, onPage, generation, calculator>>

-----------------------------------------------------------------------------
(* The calculator.                                                          *)
Ask == onPage /\ asked < MaxRequests /\ asked' = asked + 1

Compute ==
  /\ Ask /\ cidr.state # "Running"
  /\ cidrGen' = cidrGen + 1
  /\ cidr' = [state |-> "Running", gen |-> cidrGen + 1, answers |-> asked + 1]
  /\ computing' = computing \cup {[gen |-> cidrGen + 1, request |-> asked + 1]}
  /\ UNCHANGED <<texts, active, onPage, bridge>>

(* load_cidr_prefill_*, which also takes the place of a job that runs; more  *)
(* prefixes than the limit are an error.                                     *)
Prefill ==
  /\ Ask
  /\ cidr' \in [state : IF snapshot.state = "Ready" THEN {"Ready", "Failed"} ELSE {"Failed"},
                gen : {0}, answers : {asked + 1}]
  /\ UNCHANGED <<texts, active, onPage, bridge, cidrGen, computing>>

ComputeEndsAnyway(t) ==                    \* mutant: the generation is not compared
  /\ t \in computing /\ computing' = computing \ {t}
  /\ cidr' \in [state : {"Ready", "Failed"}, gen : {0}, answers : {t.request}]
  /\ UNCHANGED <<texts, active, onPage, bridge, asked, cidrGen>>

ComputeLost(t) ==                          \* mutant: an error leaves the job running
  /\ t \in computing /\ computing' = computing \ {t}
  /\ cidr' \in {cidr, [state |-> "Ready", gen |-> 0, answers |-> t.request]}
  /\ UNCHANGED <<texts, active, onPage, bridge, asked, cidrGen>>

ComputeEnds(t) ==
  /\ t \in computing /\ computing' = computing \ {t}
  /\ IF cidr.state = "Running" /\ cidr.gen = t.gen
     THEN cidr' \in [state : {"Ready", "Failed"}, gen : {0}, answers : {t.request}]
     ELSE UNCHANGED cidr
  /\ UNCHANGED <<texts, active, onPage, bridge, asked, cidrGen>>

(* A change of an input clears an error.                                     *)
EditInput ==
  /\ onPage /\ cidr.state = "Failed"
  /\ cidr' = [state |-> "Idle", gen |-> 0, answers |-> asked]
  /\ UNCHANGED <<texts, active, onPage, bridge, asked, cidrGen, computing>>

-----------------------------------------------------------------------------
Init ==
  /\ texts \in [Identities -> Outcomes]
  /\ active = [id |-> None, parsed |-> "None"] /\ onPage = FALSE
  /\ snapshot = [id |-> None, state |-> "None"] /\ refresh = TRUE
  /\ generation = 0 /\ cancellable = 0 /\ parses = {}
  /\ cidr = [state |-> "Idle", gen |-> 0, answers |-> 0]
  /\ asked = 0 /\ cidrGen = 0 /\ computing = {}

Background ==
  \/ \E p \in parses : Look(p) \/ ParseEnds(p)
  \/ \E t \in computing : ComputeEnds(t)

Next ==
  \/ Change \/ Validate \/ OpenPage \/ LeavePage \/ Render
  \/ Compute \/ Prefill \/ EditInput \/ Background

(* The background executor runs its tasks; a page that is shown is rendered  *)
(* after every change (cx.notify).                                           *)
Spec == Init /\ [][Next]_vars /\ WF_vars(Background) /\ WF_vars(Render)

-----------------------------------------------------------------------------
TypeOK ==
  /\ texts \in [Identities -> Outcomes]
  /\ active \in [id : 0..MaxRevisions, parsed : {"None", "Loading"} \cup Outcomes]
  /\ snapshot \in Snapshots
  /\ refresh \in BOOLEAN /\ onPage \in BOOLEAN
  /\ generation \in Nat /\ cancellable \in 0..generation
  /\ parses \subseteq [gen : 1..generation, id : Identities,
                       at : {"start", "read", "parsed"}, cancelled : BOOLEAN]
  /\ cidr \in [state : JobStates, gen : 0..cidrGen,
               answers : Requests]
  /\ asked \in Requests /\ computing \subseteq [gen : 1..cidrGen, request : 1..asked]

(* The snapshot is what parsing the text it names gives, and one that waits  *)
(* has a parse that will end the waiting: no order of switching configs,     *)
(* cancelling, and parses that end late shows the peers of one config under  *)
(* the name of another or leaves the page waiting.                           *)
SnapshotTruthful ==
  /\ snapshot.state \in Outcomes => snapshot.state = texts[snapshot.id]
  /\ snapshot.state = "Loading" =>
        \E p \in parses : p.gen = generation /\ p.id = snapshot.id /\ ~p.cancelled

(* What the calculator shows is of the last thing the user asked of it: a    *)
(* computation that ends after a prefill does not take its place.            *)
AnswersLastRequest == cidr.answers = asked

(* A page that stays open while the active config stays as it is comes to    *)
(* show that config, and a computation ends: Behind ~> ~Behind, and likewise *)
(* Computing.                                                               *)
Behind ==
  onPage /\ active.id # None /\ (snapshot.id # active.id \/ snapshot.state \notin Outcomes)
Computing == cidr.state = "Running"

=============================================================================
