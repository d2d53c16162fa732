------------------------------ MODULE Selection ------------------------------
(***************************************************************************)
(* What the rest of the system sees of the final selection of a trip: the  *)
(* candidates that are decided to be exported, each with its interval.     *)
(* Only a person's decision changes it; Selects implements this however    *)
(* often candidates are generated again, and ExportJobs is built on it.    *)
(***************************************************************************)
EXTENDS Naturals

CONSTANTS
  Candidates,
  Cuts,          \* the intervals, the whole take among them
  MaxDecisions   \* bound of what people do

VARIABLES
  chosen,     \* chosen[k]: the interval of candidate k; its domain is what is included
  decisions   \* how many things people have done

SelectionInit == chosen = <<>> /\ decisions = 0

Include(k, cut) ==
  chosen' = [x \in DOMAIN chosen \cup {k} |-> IF x = k THEN cut ELSE chosen[x]]

Withdraw(k) ==
  /\ k \in DOMAIN chosen
  /\ chosen' = [x \in DOMAIN chosen \ {k} |-> chosen[x]]

Decide ==
  /\ decisions < MaxDecisions /\ decisions' = decisions + 1
  /\ \E k \in Candidates : Withdraw(k) \/ \E cut \in Cuts : Include(k, cut)

SelectionSpec == SelectionInit /\ [][Decide]_chosen
=============================================================================
