---------------------------- MODULE MCIngestFiles ----------------------------
(* Two ingests of one trip from two cards that agree on their first file. *)
EXTENDS IngestFiles

CONSTANTS i1, i2, c1, c2

MCIngests == {i1, i2}
MCCards == {c1, c2}
MCCardOf == [i \in MCIngests |-> IF i = i1 THEN c1 ELSE c2]
MCFirstData == [c \in MCCards |-> <<<<0, 1>>, IF c = c1 THEN <<0>> ELSE <<1>>>>]
=============================================================================
