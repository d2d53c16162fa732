------------------------------ MODULE MCSelects ------------------------------
(* One take of two windows, with a cut that is half of it and one that is all of it. *)
EXTENDS MovementJobs, TLC

MCCuts == {[from |-> 0, to |-> 1], [from |-> 0, to |-> 2]}
MCSymmetry == Permutations(Requests)

(* The tracks of all labels of a take. *)
ASSUME TracksMeet ==
  Duration > 0 => \A labels \in [1..Duration -> Movements] : Meets(Track(labels), labels)
=============================================================================
