----------------------------- MODULE MCLibrary -----------------------------
(* Instances of Library for TLC. *)
EXTENDS Library, TLC
CONSTANTS n0, n1, t0, t1

TwoNames == {n0, n1}
TwoTexts == {t0, t1}
With(fs, ids, names, texts) ==
  [features |-> fs, ids |-> ids, names |-> names, texts |-> texts]

(* Two configurations without faults; one with each group of features.      *)
EverySetting ==
  {With({}, {1, 2}, TwoNames, TwoTexts),
   With({"whileBusy", "refused"}, {1}, {n0}, {t0}),
   With({"idInUse", "writeFails", "badState"}, {1}, {n0}, {t0}),
   With({"readFails", "export"}, {1}, {n0}, {t0})}
IdInUse == {With({"idInUse"}, {1, 2}, TwoNames, TwoTexts)}
=============================================================================
