---------------------------- MODULE MCSnapshots ----------------------------
(* Two files in pages of one; submits and confirmations differ in nothing. *)
EXTENDS Snapshots, TLC

MCSymmetry == Permutations(Submits) \cup Permutations(Confirms) \cup Permutations(Ids)
=============================================================================
