--------------------------- MODULE MCDerivatives ---------------------------
(* Both derivatives of one video. *)
EXTENDS Derivatives, TLC

MCVideo == {<<"video", "THUMBNAIL">>, <<"video", "PROXY">>}
MCSymmetry == Permutations(Runners) \cup Permutations(Contents)
=============================================================================
