---------------------------- MODULE MCWorkerSession ----------------------------
(* Two workers and one ingest job, reconciled by hand after an interruption. *)
EXTENDS WorkerSession

CONSTANTS w1, w2

MCWorkers == {w1, w2}
MCCapableOf == [w \in MCWorkers |-> Jobs]
=============================================================================
