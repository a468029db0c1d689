---------------------------- MODULE MCLoginFlow ----------------------------
(***************************************************************************)
(* Small instances of LoginFlow: values of each kind are interchangeable.  *)
(***************************************************************************)
EXTENDS LoginFlow, TLC

MCSymmetry ==
  Permutations(Tabs) \cup Permutations(Tokens) \cup Permutations(Factors)
=============================================================================
