---------------------------- MODULE NetContract ----------------------------
(***************************************************************************)
(* What the Linux network pipeline promises its caller: a configuration is *)
(* in effect entirely or not at all.  A change to the system is an element *)
(* of `effects`.  An apply installs the wanted changes in some order and    *)
(* commits when all are in effect; a failed apply, a stop and the repair    *)
(* after a crash remove changes, and end only when none is left.            *)
(* (src/src/platform/linux/network.rs:12-18, recovery.rs:3-6)               *)
(***************************************************************************)
CONSTANT Effects
VARIABLES phase, wanted, effects

Init == phase = "off" /\ wanted = {} /\ effects = {}

Begin ==
  /\ phase = "off" /\ phase' = "applying"
  /\ wanted' \in SUBSET Effects
  /\ UNCHANGED effects

Install ==
  /\ phase = "applying"
  /\ \E e \in wanted \ effects : effects' = effects \cup {e}
  /\ UNCHANGED <<phase, wanted>>

Commit ==
  /\ phase = "applying" /\ effects = wanted
  /\ phase' = "on"
  /\ UNCHANGED <<wanted, effects>>

(* The apply fails, maybe with the last change half made, or the tunnel     *)
(* stops.                                                                   *)
Withdraw ==
  /\ phase \in {"applying", "on"}
  /\ phase' = "undoing"
  /\ \/ UNCHANGED effects
     \/ phase = "applying" /\ \E e \in wanted : effects' = effects \cup {e}
  /\ UNCHANGED wanted

Remove ==
  /\ phase \in {"undoing", "down"}
  /\ effects' \in SUBSET effects
  /\ UNCHANGED <<phase, wanted>>

Finish ==
  /\ phase \in {"applying", "undoing", "down"} /\ effects = {}
  /\ phase' = "off" /\ wanted' = {}
  /\ UNCHANGED effects

(* The process dies; changes bound to a device that dies with it go too.    *)
Crash ==
  /\ phase # "down" /\ phase' = "down"
  /\ wanted' = {}
  /\ effects' \in SUBSET effects

Next == Begin \/ Install \/ Commit \/ Withdraw \/ Remove \/ Finish \/ Crash

Spec == Init /\ [][Next]_<<phase, wanted, effects>>
=============================================================================
