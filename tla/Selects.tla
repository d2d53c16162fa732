------------------------------- MODULE Selects -------------------------------
(***************************************************************************)
(* The candidates of a trip's final selection (selects/repository.py) and  *)
(* the decisions a person takes on them, next to the movement analysis and *)
(* the segments a person confirms, from which candidates are generated     *)
(* again and again.  Every request is one write transaction, so one        *)
(* action; a refused request is no step.                                   *)
(*                                                                         *)
(* Scores are left to chance: which takes a generation recommends is any   *)
(* set of assets.  Selection says what exports see of the table.            *)
(***************************************************************************)
EXTENDS Integers, FiniteSets

CONSTANTS
  Assets,        \* the videos of the trip, numbered in the order of asset_id
  Cuts,          \* the intervals that analyses and people come up with
  Duration,      \* duration_ms of every asset
  MaxDecisions,  \* bound of what people do
  MaxComputed    \* bound of analyses and generations

\* The whole take: -1 and -1 in what is proposed, NULL and NULL in what is decided.
Whole == [from |-> -1, to |-> -1]

ASSUME SelectsAssumption ==
  /\ Assets \subseteq Nat
  /\ Duration \in Nat
  /\ Cuts \subseteq {c \in [from : 0..Duration, to : 0..Duration] : c.from < c.to}
  /\ MaxDecisions \in Nat /\ MaxComputed \in Nat

VARIABLES
  analysis,   \* analysis[a]: the cuts of the current analysis that have a movement
  confirmed,  \* confirmed[a]: the segments a person confirmed, with what name
  cand,       \* cand[k]: the row of candidate k
  decisions,  \* how many things people have done
  computed    \* how many analyses and generations there were

vars == <<analysis, confirmed, cand, decisions, computed>>

Keys == [asset : Assets, cut : Cuts \cup {Whole}]
Statuses == {"ABSENT", "PENDING", "INCLUDE", "REJECT"}
Decided == {"INCLUDE", "REJECT"}
Row == [status : Statuses, final : Cuts \cup {Whole}, active : BOOLEAN, suggested : BOOLEAN]

Absent == [status |-> "ABSENT", final |-> Whole, active |-> FALSE, suggested |-> FALSE]

Decides == decisions < MaxDecisions /\ decisions' = decisions + 1 /\ UNCHANGED computed
Computes == computed < MaxComputed /\ computed' = computed + 1 /\ UNCHANGED decisions

-----------------------------------------------------------------------------
(* Segments *)

Overlap(c, d) == c.from < d.to /\ c.to > d.from

\* A confirmed segment may be confirmed again; any other must not overlap it.
IsFree(a, c) == \A s \in confirmed[a] : s.cut # c => ~Overlap(s.cut, c)

ConfirmSegment(a, c, named) ==
  /\ Decides
  /\ IsFree(a, c)
  /\ confirmed' = [confirmed EXCEPT ![a] =
                     {s \in @ : s.cut # c} \cup {[cut |-> c, named |-> named]}]
  /\ UNCHANGED <<analysis, cand>>

RemoveSegment(a, c) ==
  /\ Decides
  /\ \E s \in confirmed[a] :
       /\ s.cut = c
       /\ confirmed' = [confirmed EXCEPT ![a] = @ \ {s}]
  /\ UNCHANGED <<analysis, cand>>

\* A new analysis supersedes the current one, whatever people decided.
Analyze(a) ==
  /\ Computes
  /\ \E found \in SUBSET Cuts :
       /\ \A c, d \in found : c # d => ~Overlap(c, d)
       /\ analysis' = [analysis EXCEPT ![a] = found]
  /\ UNCHANGED <<confirmed, cand>>

-----------------------------------------------------------------------------
(* Candidates *)

\* People's segments take the place of all that were computed.
Segments(a) ==
  IF confirmed[a] = {} THEN analysis[a] ELSE {s.cut : s \in {t \in confirmed[a] : t.named}}

Longer(c, d) ==
  \/ c.to - c.from > d.to - d.from
  \/ (c.to - c.from = d.to - d.from /\ c.from <= d.from)

\* What is suggested of a recommended asset: its longest segment, the earliest of several.
Best(a) ==
  IF Segments(a) = {} THEN Whole
  ELSE CHOOSE c \in Segments(a) : \A d \in Segments(a) : Longer(c, d)

Offered(k) == k.cut = Whole \/ k.cut \in Segments(k.asset)

\* Faulty variant: what is offered again is up for decision again.
RegeneratedAnew(k, recommended) ==
  [cand[k] EXCEPT !.status = IF Offered(k) THEN "PENDING" ELSE @, !.active = Offered(k),
                  !.suggested = k.asset \in recommended /\ k.cut = Best(k.asset)]
\* Faulty variant: a decided candidate is off the list when its segment is gone.
RegeneratedOff(k, recommended) ==
  IF cand[k].status = "ABSENT" /\ ~Offered(k) THEN cand[k]
  ELSE [cand[k] EXCEPT !.active = Offered(k),
                       !.status = IF @ = "ABSENT" THEN "PENDING" ELSE @]
\* A candidate on which nobody decided follows the segments; a decided one stays.
Regenerated(k, recommended) ==
  IF cand[k].status \in Decided THEN [cand[k] EXCEPT !.active = @ \/ Offered(k)]
  ELSE IF Offered(k)
  THEN [cand[k] EXCEPT !.status = "PENDING", !.active = TRUE,
                       !.suggested = k.asset \in recommended /\ k.cut = Best(k.asset)]
  ELSE [cand[k] EXCEPT !.active = FALSE]

Generate(recommended) ==
  /\ Computes
  /\ cand' = [k \in Keys |-> Regenerated(k, recommended)]
  /\ UNCHANGED <<analysis, confirmed>>

\* A cut is any interval of the take; without one the proposed interval is taken.
Review(k, status, cut) ==
  /\ Decides
  /\ cand[k].active
  /\ status # "INCLUDE" => cut = Whole
  /\ cand' = [cand EXCEPT ![k].status = status, ![k].final = cut]
  /\ UNCHANGED <<analysis, confirmed>>

-----------------------------------------------------------------------------

Init ==
  /\ analysis = [a \in Assets |-> {}]
  /\ confirmed = [a \in Assets |-> {}]
  /\ cand = [k \in Keys |-> Absent]
  /\ decisions = 0 /\ computed = 0

Persons ==
  \/ \E a \in Assets, c \in Cuts, named \in BOOLEAN : ConfirmSegment(a, c, named)
  \/ \E a \in Assets, c \in Cuts : RemoveSegment(a, c)
  \/ \E k \in Keys, status \in Statuses \ {"ABSENT"}, cut \in Cuts \cup {Whole} :
       Review(k, status, cut)

Algorithms ==
  \/ \E a \in Assets : Analyze(a)
  \/ \E recommended \in SUBSET Assets : Generate(recommended)

Next == Persons \/ Algorithms

Spec == Init /\ [][Next]_vars

-----------------------------------------------------------------------------
(* Properties *)

\* A decision, to reject as well as to include, stays what it is and stays on the list
\* until a person decides on that candidate again: no analysis, segment or generation
\* touches it.
DecisionsSurvive ==
  [][\A k \in Keys :
       cand[k].status \in Decided =>
         /\ cand'[k].active
         /\ cand'[k] # cand[k] => \E status \in Statuses, cut \in Cuts \cup {Whole} :
                                    Review(k, status, cut)]_vars

\* What is included, and with which interval, is what people decided and nothing else.
Chosen ==
  [k \in {l \in Keys : cand[l].active /\ cand[l].status = "INCLUDE"} |-> cand[k].final]

Seen == INSTANCE Selection WITH Candidates <- Keys, Cuts <- Cuts \cup {Whole}, chosen <- Chosen

\* The table implements the selection that exports are built on.
ImplementsSelection == Seen!SelectionSpec
=============================================================================
