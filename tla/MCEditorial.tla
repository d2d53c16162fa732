----------------------------- MODULE MCEditorial -----------------------------
EXTENDS Editorial, TLC

MCVideos == {1, 2}
CONSTANTS no

\* In the order of the names, and the other way round.
MCOrders == {[v \in MCVideos |-> v], (1 :> 2) @@ (2 :> 1)}
MCImported == [v \in MCVideos |-> IF v = 1 THEN no ELSE None]
MCSymmetry == Permutations(Requests) \cup Permutations(Places)
=============================================================================
