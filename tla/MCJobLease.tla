----------------------------- MODULE MCJobLease -----------------------------
(* Two workers and two jobs: job 1 an ingest, job 2 of a kind only w1 can run. *)
EXTENDS JobLease

CONSTANTS w1, w2

MCWorkers == {w1, w2}
MCCapableOf == [w \in MCWorkers |-> IF w = w1 THEN {1, 2} ELSE {1}]
=============================================================================
