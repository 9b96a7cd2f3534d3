----------------------------- MODULE MCSession -----------------------------
(* Instances of Session for TLC. *)
EXTENDS Session, TLC
CONSTANTS c0, c1, s0, s1, s2

OneConfig == {c0}
TwoConfigs == {c0, c1}
TwoSlots == {s0, s1}
ThreeSlots == {s0, s1, s2}
SlotSymmetry == Permutations(Slots)

(* What the session is built for: starts fail and time out. *)
PlainFeatures == {"startFails", "startTimeout"}
=============================================================================
