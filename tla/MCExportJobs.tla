---------------------------- MODULE MCExportJobs ----------------------------
(* Two candidates, each of a take of its own, and requests that differ in nothing. *)
EXTENDS ExportJobs

MCTwoTakes == <<1, 2>>
=============================================================================
