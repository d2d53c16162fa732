-------------------------- MODULE Telemetry_proofs ---------------------------
(***************************************************************************)
(* What the telemetry of a flight is used for: the moves of the drone that *)
(* the jobs of the server find in it, and the clips that dmm-segments cuts *)
(* with it.                                                                *)
(*                                                                         *)
(* For every set of takes and cuts: decisions survive, and the table of    *)
(* candidates implements the selection that exports are built on.  For any *)
(* number of requests, the jobs that analyse do to that table what Selects *)
(* says and nothing else, a COMPLETE job has analysed every take, and an   *)
(* analysis that nobody overlapped stands alone.                           *)
(*                                                                         *)
(* A generation may put a row back on the list.  It never puts back one    *)
(* that is included, because a decided row never left it: that is the      *)
(* invariant of the table.  The invariant of the jobs follows the runs:    *)
(* what a run has not left to do was analysed since its job began, and     *)
(* unless it is behind, it knows all current analyses of the take that it  *)
(* is about to write.  What a run finds in a take, of any length, is a     *)
(* track whose segments meet where the movement changes.                   *)
(*                                                                         *)
(* For any number of runs, exports and flights, and any step and hold of   *)
(* the detection: a file that a run has written follows from one flight,   *)
(* and what is there is only overwritten by the run that created it.  The  *)
(* invariant says that what a run plans is of one flight, and that a file  *)
(* is as its run created it until the run fills it.                        *)
(***************************************************************************)
EXTENDS MovementJobs, Segments, FiniteSetTheorems, SequenceTheorems, WellFoundedInduction, TLAPS

-----------------------------------------------------------------------------
(* The table of candidates *)

\* Every row has its columns, and what is decided is on the list.
IInv ==
  /\ cand \in [Keys -> Row]
  /\ \A k \in Keys : cand[k].status \in Decided => cand[k].active
  /\ decisions \in Nat

\* A generation leaves the decided rows alone and decides nothing, and its rows keep
\* their columns.
LEMMA GenerateRow ==
  ASSUME IInv, NEW k \in Keys, NEW recommended
  PROVE /\ Regenerated(k, recommended) \in Row
        /\ cand[k].status \in Decided => Regenerated(k, recommended) = cand[k]
        /\ cand[k].status \notin Decided => Regenerated(k, recommended).status \notin Decided
<1> DEFINE row == cand[k]
<1>1. row \in Row
  BY DEF IInv
<1>2. Offered(k) \in BOOLEAN
  BY DEF Offered
<1>3. (k.asset \in recommended /\ k.cut = Best(k.asset)) \in BOOLEAN
  OBVIOUS
<1>4. CASE row.status \in Decided
  <2>1. row.active = TRUE
    BY <1>1, <1>4 DEF Row, IInv
  <2>2. Regenerated(k, recommended) = [row EXCEPT !.active = TRUE]
    BY <1>4, <2>1 DEF Regenerated
  <2>3. Regenerated(k, recommended) = row
    BY <1>1, <2>1, <2>2 DEF Row
  <2> QED BY <1>1, <1>4, <2>3
<1>5. CASE row.status \notin Decided /\ Offered(k)
  <2> DEFINE suggested == k.asset \in recommended /\ k.cut = Best(k.asset)
  <2>1. Regenerated(k, recommended) =
          [row EXCEPT !.status = "PENDING", !.active = TRUE, !.suggested = suggested]
    BY <1>5 DEF Regenerated
  <2>2. suggested \in BOOLEAN
    OBVIOUS
  <2> HIDE DEF suggested
  <2> QED BY <1>1, <1>5, <2>1, <2>2 DEF Row, Statuses, Decided
<1>6. CASE row.status \notin Decided /\ ~Offered(k)
  <2>1. Regenerated(k, recommended) = [row EXCEPT !.active = FALSE]
    BY <1>6 DEF Regenerated
  <2> QED BY <1>1, <1>6, <2>1 DEF Row, Statuses
<1> QED BY <1>4, <1>5, <1>6

\* A review changes one row, that of a candidate on the list.
LEMMA ReviewRow ==
  ASSUME IInv, NEW k \in Keys, NEW status \in Statuses, NEW cut \in Cuts \cup {Whole},
         Review(k, status, cut)
  PROVE /\ cand' \in [Keys -> Row]
        /\ cand[k].active /\ cand'[k].active
        /\ cand'[k].status = status /\ cand'[k].final = cut
        /\ \A l \in Keys : l # k => cand'[l] = cand[l]
<1> DEFINE new == [cand[k] EXCEPT !.status = status, !.final = cut]
<1>1. cand[k] \in Row /\ cand \in [Keys -> Row]
  BY DEF IInv
<1>2. new \in Row /\ new.status = status /\ new.final = cut /\ new.active = cand[k].active
  BY <1>1 DEF Row
<1>3. cand' = [cand EXCEPT ![k] = new]
  BY <1>1 DEF Review
<1>4. cand[k].active
  BY DEF Review
<1> HIDE DEF new
<1> QED BY <1>1, <1>2, <1>3, <1>4

\* What an algorithm or a segment does to the table: decided rows stay, and no other row
\* becomes a decided one.
LEMMA OtherSteps ==
  ASSUME IInv, [Next]_vars,
         ~ \E k \in Keys, status \in Statuses \ {"ABSENT"}, cut \in Cuts \cup {Whole} :
             Review(k, status, cut)
  PROVE /\ cand' \in [Keys -> Row]
        /\ \A k \in Keys : /\ cand[k].status \in Decided => cand'[k] = cand[k]
                           /\ cand[k].status \notin Decided => cand'[k].status \notin Decided
<1>1. CASE cand' = cand
  BY <1>1 DEF IInv
<1>2. ASSUME NEW recommended \in SUBSET Assets, Generate(recommended)
      PROVE  /\ cand' \in [Keys -> Row]
             /\ \A k \in Keys :
                  /\ cand[k].status \in Decided => cand'[k] = cand[k]
                  /\ cand[k].status \notin Decided => cand'[k].status \notin Decided
  <2>1. cand' = [k \in Keys |-> Regenerated(k, recommended)]
    BY <1>2 DEF Generate
  <2>2. \A k \in Keys :
          /\ Regenerated(k, recommended) \in Row
          /\ cand[k].status \in Decided => Regenerated(k, recommended) = cand[k]
          /\ cand[k].status \notin Decided => Regenerated(k, recommended).status \notin Decided
    BY GenerateRow
  <2> QED BY <2>1, <2>2
<1>3. cand' = cand \/ \E recommended \in SUBSET Assets : Generate(recommended)
  BY DEF Next, Persons, Algorithms, ConfirmSegment, RemoveSegment, Analyze, vars
<1> QED BY <1>1, <1>2, <1>3

\* decisions stays a number.
LEMMA DecisionsCount ==
  ASSUME decisions \in Nat, [Next]_vars
  PROVE  decisions' \in Nat
<1>1. decisions' = decisions \/ decisions' = decisions + 1
  BY DEF Next, Persons, Algorithms, ConfirmSegment, RemoveSegment, Analyze, Generate, Review,
         Decides, Computes, vars
<1> QED BY <1>1

\* What is decided is on the list, in every state.
THEOREM CandidatesInvariant == Spec => []IInv
<1>1. Init => IInv
  BY DEF Init, IInv, Absent, Row, Statuses, Decided
<1>2. IInv /\ [Next]_vars => IInv'
  <2> SUFFICES ASSUME IInv, [Next]_vars PROVE IInv'
    OBVIOUS
  <2>1. decisions' \in Nat
    BY DecisionsCount DEF IInv
  <2>2. CASE \E k \in Keys, status \in Statuses \ {"ABSENT"}, cut \in Cuts \cup {Whole} :
               Review(k, status, cut)
    <3> PICK k \in Keys, status \in Statuses \ {"ABSENT"}, cut \in Cuts \cup {Whole} :
          Review(k, status, cut)
      BY <2>2
    <3> QED BY <2>1, ReviewRow DEF IInv
  <2>3. CASE ~ \E k \in Keys, status \in Statuses \ {"ABSENT"}, cut \in Cuts \cup {Whole} :
                 Review(k, status, cut)
    BY <2>1, <2>3, OtherSteps DEF IInv
  <2> QED BY <2>2, <2>3
<1> QED BY <1>1, <1>2, PTL DEF Spec

\* A decision stays what it is, and on the list, until a person decides on that candidate
\* again.
THEOREM Survival == Spec => DecisionsSurvive
<1>1. IInv /\ [Next]_vars =>
        [\A k \in Keys :
           cand[k].status \in Decided =>
             /\ cand'[k].active
             /\ cand'[k] # cand[k] => \E status \in Statuses, cut \in Cuts \cup {Whole} :
                                        Review(k, status, cut)]_vars
  <2> SUFFICES ASSUME IInv, [Next]_vars, NEW k \in Keys, cand[k].status \in Decided
               PROVE  /\ cand'[k].active
                      /\ cand'[k] # cand[k] => \E status \in Statuses, cut \in Cuts \cup {Whole} :
                                                 Review(k, status, cut)
    OBVIOUS
  <2>1. cand[k].active
    BY DEF IInv
  <2>2. CASE \E l \in Keys, status \in Statuses \ {"ABSENT"}, cut \in Cuts \cup {Whole} :
               Review(l, status, cut)
    <3> PICK l \in Keys, status \in Statuses \ {"ABSENT"}, cut \in Cuts \cup {Whole} :
          Review(l, status, cut)
      BY <2>2
    <3>1. cand'[l].active /\ \A m \in Keys : m # l => cand'[m] = cand[m]
      BY ReviewRow
    <3>2. CASE l = k
      BY <3>1, <3>2
    <3>3. CASE l # k
      BY <2>1, <3>1, <3>3
    <3> QED BY <3>2, <3>3
  <2>3. CASE ~ \E l \in Keys, status \in Statuses \ {"ABSENT"}, cut \in Cuts \cup {Whole} :
                 Review(l, status, cut)
    BY <2>1, <2>3, OtherSteps
  <2> QED BY <2>2, <2>3
<1> QED BY <1>1, CandidatesInvariant, PTL DEF Spec, DecisionsSurvive

-----------------------------------------------------------------------------
(* The refinement *)

Included(row) == {k \in Keys : row[k].active /\ row[k].status = "INCLUDE"}

LEMMA ChosenIs ==
  /\ Chosen = [k \in Included(cand) |-> cand[k].final]
  /\ Chosen' = [k \in Included(cand') |-> cand'[k].final]
  /\ DOMAIN Chosen = Included(cand)
BY DEF Chosen, Included

\* A review includes its candidate, withdraws it, or leaves the selection as it is.
LEMMA ReviewDecides ==
  ASSUME IInv, NEW k \in Keys, NEW status \in Statuses, NEW cut \in Cuts \cup {Whole},
         Review(k, status, cut)
  PROVE  [Seen!Decide]_Chosen
<1>1. /\ cand' \in [Keys -> Row]
      /\ cand[k].active /\ cand'[k].active
      /\ cand'[k].status = status /\ cand'[k].final = cut
      /\ \A l \in Keys : l # k => cand'[l] = cand[l]
  BY ReviewRow
<1>2. decisions < MaxDecisions /\ decisions' = decisions + 1
  BY DEF Review, Decides
<1>3. \A l \in Keys : l # k => (l \in Included(cand') <=> l \in Included(cand))
  BY <1>1 DEF Included
<1>4. k \in Included(cand') <=> status = "INCLUDE"
  BY <1>1 DEF Included
<1>5. CASE status = "INCLUDE"
  <2>1. Included(cand') = Included(cand) \cup {k}
    BY <1>3, <1>4, <1>5 DEF Included
  <2>2. Chosen' = [x \in Included(cand) \cup {k} |-> cand'[x].final]
    BY <2>1, ChosenIs
  <2>3. \A x \in Included(cand) \cup {k} :
          cand'[x].final = IF x = k THEN cut ELSE Chosen[x]
    BY <1>1, ChosenIs DEF Included
  <2>4. Chosen' = [x \in DOMAIN Chosen \cup {k} |-> IF x = k THEN cut ELSE Chosen[x]]
    BY <2>2, <2>3, ChosenIs
  <2> QED BY <1>2, <2>4 DEF Seen!Decide, Seen!Include
<1>6. CASE status # "INCLUDE" /\ k \in Included(cand)
  <2>1. Included(cand') = Included(cand) \ {k}
    BY <1>3, <1>4, <1>6 DEF Included
  <2>2. \A x \in Included(cand) \ {k} : cand'[x].final = Chosen[x]
    BY <1>1, ChosenIs DEF Included
  <2>3. Chosen' = [x \in DOMAIN Chosen \ {k} |-> Chosen[x]]
    BY <2>1, <2>2, ChosenIs
  <2>4. k \in DOMAIN Chosen
    BY <1>6, ChosenIs
  <2> QED BY <1>2, <2>3, <2>4 DEF Seen!Decide, Seen!Withdraw
<1>7. CASE status # "INCLUDE" /\ k \notin Included(cand)
  <2>1. Included(cand') = Included(cand)
    BY <1>3, <1>4, <1>7 DEF Included
  <2>2. \A x \in Included(cand) : cand'[x].final = cand[x].final
    BY <1>1, <1>7 DEF Included
  <2> QED BY <2>1, <2>2, ChosenIs
<1> QED BY <1>5, <1>6, <1>7

\* Everything else leaves the selection as it is.
LEMMA OthersStutter ==
  ASSUME IInv, [Next]_vars,
         ~ \E k \in Keys, status \in Statuses \ {"ABSENT"}, cut \in Cuts \cup {Whole} :
             Review(k, status, cut)
  PROVE  Chosen' = Chosen
<1>1. \A k \in Keys : /\ cand[k].status \in Decided => cand'[k] = cand[k]
                      /\ cand[k].status \notin Decided => cand'[k].status \notin Decided
  BY OtherSteps
<1>2. Included(cand') = Included(cand)
  BY <1>1 DEF Included, Decided
<1>3. \A x \in Included(cand) : cand'[x].final = cand[x].final
  BY <1>1 DEF Included, Decided
<1> QED BY <1>2, <1>3, ChosenIs

\* What exports see of the table changes only when a person decides, and as Selection says.
THEOREM Implementation == Spec => ImplementsSelection
<1>1. Init => Seen!SelectionInit
  <2> SUFFICES ASSUME Init PROVE Seen!SelectionInit
    OBVIOUS
  <2>1. Included(cand) = {}
    BY DEF Init, Included, Absent
  <2>2. Chosen = <<>>
    BY <2>1, ChosenIs
  <2> QED BY <2>2 DEF Init, Seen!SelectionInit
<1>2. IInv /\ [Next]_vars => [Seen!Decide]_Chosen
  <2> SUFFICES ASSUME IInv, [Next]_vars PROVE [Seen!Decide]_Chosen
    OBVIOUS
  <2>1. CASE \E k \in Keys, status \in Statuses \ {"ABSENT"}, cut \in Cuts \cup {Whole} :
               Review(k, status, cut)
    BY <2>1, ReviewDecides
  <2>2. CASE ~ \E k \in Keys, status \in Statuses \ {"ABSENT"}, cut \in Cuts \cup {Whole} :
                 Review(k, status, cut)
    BY <2>2, OthersStutter
  <2> QED BY <2>1, <2>2
<1> QED BY <1>1, <1>2, CandidatesInvariant, PTL DEF Spec, ImplementsSelection, Seen!SelectionSpec

-----------------------------------------------------------------------------
(* The jobs that analyse *)

\* A run at work is at work on a job that is there, and on takes of the trip; what is not
\* left of them was analysed since the job began.
Follows(q, jobOf, done) ==
  /\ q.at \in {"begin", "take", "write"} => q.job \in Requests /\ jobOf[q.job] # "ABSENT"
  /\ q.at = "take" => /\ q.left \subseteq Assets
                      /\ Assets \subseteq q.left \cup done[q.job]
  /\ q.at = "write" => /\ q.left \subseteq Assets /\ q.asset \in Assets
                       /\ Assets \subseteq q.left \cup {q.asset} \cup done[q.job]

\* Unless it is behind, a run that is about to write knows what there is.
Knows(q, now) == q.at = "write" => now[q.asset] \subseteq q.old

Functions ==
  /\ DOMAIN run = Requests /\ DOMAIN job = Requests /\ DOMAIN since = Requests
  /\ DOMAIN current = Assets

Analysed(jobOf, done, now) ==
  /\ \A j \in Requests : done[j] \subseteq Assets
  /\ \A j \in Requests : \A a \in done[j] : now[a] # {}
  /\ \A j \in Requests : jobOf[j] = "COMPLETE" => Assets \subseteq done[j]

JInv ==
  /\ Functions
  /\ \A r \in Requests : Follows(run[r], job, since)
  /\ \A r \in Requests \ behind : Knows(run[r], current)
  /\ Analysed(job, since, current)

LEMMA JobsInitHolds ==
  ASSUME JobsInit
  PROVE  JInv
BY DEF JobsInit, JInv, Functions, Follows, Knows, Analysed, NoRun

LEMMA PostKeeps ==
  ASSUME JInv, NEW r \in Requests, Post(r)
  PROVE  JInv'
<1> DEFINE active == {j \in Requests : job[j] \in Active}
<1>1. UNCHANGED <<current, since, behind>> /\ DOMAIN run = Requests /\ DOMAIN job = Requests
  BY DEF Post, JInv, Functions
<1>2. PICK j \in Requests :
        /\ run' = [run EXCEPT ![r] = [at |-> "begin", job |-> j]]
        /\ job'[j] # "ABSENT"
        /\ job' = job \/ job' = [job EXCEPT ![r] = "PENDING"]
  <2>1. CASE active # {}
    BY <2>1, <1>1 DEF Post, Becomes, Active
  <2>2. CASE active = {}
    BY <2>2, <1>1 DEF Post, Becomes
  <2> QED BY <2>1, <2>2
<1>3. \A k \in Requests : job'[k] = job[k] \/ job'[k] = "PENDING"
  BY <1>1, <1>2
<1>4. DOMAIN run' = Requests /\ DOMAIN job' = Requests
  BY <1>1, <1>2
<1>5. \A q \in Requests : run'[q] = run[q] \/ run'[q] = [at |-> "begin", job |-> j]
  BY <1>1, <1>2
<1>6. \A q \in Requests : Follows(run'[q], job', since')
  BY <1>1, <1>2, <1>3, <1>5 DEF JInv, Follows
<1>7. \A q \in Requests \ behind' : Knows(run'[q], current')
  BY <1>1, <1>5 DEF JInv, Knows
<1>8. Analysed(job', since', current')
  BY <1>1, <1>3 DEF JInv, Analysed
<1> QED BY <1>1, <1>4, <1>6, <1>7, <1>8 DEF JInv, Functions

LEMMA BeginKeeps ==
  ASSUME JInv, NEW r \in Requests, Begin(r)
  PROVE  JInv'
<1> DEFINE k == run[r].job
<1>1. /\ UNCHANGED <<current, since, behind>>
      /\ DOMAIN run = Requests /\ DOMAIN job = Requests /\ k \in Requests
  BY DEF Begin, In, JInv, Functions, Follows
<1>2. CASE job[k] = "PENDING"
  <2> DEFINE new == [at |-> "take", job |-> k, left |-> Assets]
  <2>1. job' = [job EXCEPT ![k] = "RUNNING"] /\ run' = [run EXCEPT ![r] = new]
    BY <1>2 DEF Begin, Becomes
  <2>2. \A j \in Requests : job'[j] = job[j] \/ job'[j] = "RUNNING"
    BY <1>1, <2>1
  <2>3. \A q \in Requests : run'[q] = run[q] \/ run'[q] = new
    BY <1>1, <2>1
  <2>4. job'[k] # "ABSENT"
    BY <1>1, <2>1
  <2>5. Follows(new, job', since') /\ Knows(new, current')
    BY <1>1, <2>4 DEF Follows, Knows
  <2> HIDE DEF new, k
  <2>6. \A q \in Requests : Follows(run'[q], job', since')
    BY <1>1, <2>2, <2>3, <2>5 DEF JInv, Follows
  <2>7. \A q \in Requests \ behind' : Knows(run'[q], current')
    BY <1>1, <2>3, <2>5 DEF JInv
  <2>8. Analysed(job', since', current')
    BY <1>1, <2>2 DEF JInv, Analysed
  <2> QED BY <1>1, <2>1, <2>6, <2>7, <2>8 DEF JInv, Functions
<1>3. CASE job[k] # "PENDING"
  <2>1. job' = job /\ run' = [run EXCEPT ![r] = Over]
    BY <1>3 DEF Begin, Becomes
  <2>2. Follows(Over, job, since) /\ Knows(Over, current)
    BY DEF Over, Follows, Knows
  <2>3. \A q \in Requests : run'[q] = run[q] \/ run'[q] = Over
    BY <1>1, <2>1
  <2> QED BY <1>1, <2>1, <2>2, <2>3 DEF JInv, Functions
<1> QED BY <1>2, <1>3

LEMMA ReadTakeKeeps ==
  ASSUME JInv, NEW r \in Requests, ReadTake(r)
  PROVE  JInv'
<1>1. /\ UNCHANGED <<current, job, since>> /\ behind' = behind \ {r}
      /\ DOMAIN run = Requests /\ DOMAIN current = Assets
      /\ run[r].at = "take"
  BY DEF ReadTake, In, JInv, Functions
<1>2. PICK a \in run[r].left :
        run' = [run EXCEPT ![r] = [at |-> "write", job |-> run[r].job,
                                   left |-> run[r].left \ {a}, asset |-> a,
                                   old |-> current[a]]]
  BY DEF ReadTake, Becomes
<1> DEFINE new == [at |-> "write", job |-> run[r].job, left |-> run[r].left \ {a},
                   asset |-> a, old |-> current[a]]
<1>3. Follows(run[r], job, since)
  BY DEF JInv
<1>4. Follows(new, job, since)
  BY <1>1, <1>3 DEF Follows
<1>5. Knows(new, current)
  BY DEF Knows
<1>6. run'[r] = new /\ \A q \in Requests \ {r} : run'[q] = run[q]
  BY <1>1, <1>2
<1> HIDE DEF new
<1>7. \A q \in Requests : Follows(run'[q], job', since')
  BY <1>1, <1>4, <1>6 DEF JInv
<1>8. \A q \in Requests \ behind' : Knows(run'[q], current')
  BY <1>1, <1>5, <1>6 DEF JInv
<1>9. DOMAIN run' = Requests
  BY <1>1, <1>2
<1> QED BY <1>1, <1>7, <1>8, <1>9 DEF JInv, Functions

\* The write of a take leaves an analysis of it, takes it off what is left, and tells of the
\* others who are about to write the same take that they are behind.
LEMMA WriteTakeEffect ==
  ASSUME JInv, NEW r \in Requests, WriteTake(r)
  PROVE /\ run[r].asset \in Assets
        /\ \E found : current' = [current EXCEPT ![run[r].asset] =
                                    (current[run[r].asset] \ run[r].old)
                                       \cup {[by |-> r, cuts |-> found]}]
        /\ since' = [j \in Requests |-> IF job[j] = "ABSENT" THEN since[j]
                                        ELSE since[j] \cup {run[r].asset}]
        /\ behind' = (behind \ {r})
                        \cup {q \in Requests \ {r} : In(q, "write") /\ run[q].asset = run[r].asset}
        /\ run' = [run EXCEPT ![r] = [at |-> "take", job |-> run[r].job, left |-> run[r].left]]
        /\ job' = job /\ run[r].at = "write"
<1>1. run[r].at = "write"
  BY DEF WriteTake, In
<1>2. run[r].asset \in Assets
  BY <1>1 DEF JInv, Follows
<1>3. PICK found \in Found :
        current' = [current EXCEPT ![run[r].asset] =
                      (@ \ Superseded(r)) \cup {[by |-> r, cuts |-> found]}]
  BY DEF WriteTake
<1>4. current' = [current EXCEPT ![run[r].asset] =
                    (current[run[r].asset] \ run[r].old) \cup {[by |-> r, cuts |-> found]}]
  BY <1>3 DEF Superseded
<1> QED BY <1>1, <1>2, <1>4 DEF WriteTake, Becomes

LEMMA WriteTakeKeeps ==
  ASSUME JInv, NEW r \in Requests, WriteTake(r)
  PROVE  JInv'
<1> DEFINE a == run[r].asset
           new == [at |-> "take", job |-> run[r].job, left |-> run[r].left]
<1>1. DOMAIN run = Requests /\ DOMAIN current = Assets /\ a \in Assets /\ job' = job
  BY WriteTakeEffect DEF JInv, Functions
<1>2. current'[a] # {} /\ \A b \in Assets \ {a} : current'[b] = current[b]
  <2>1. PICK found : current' = [current EXCEPT ![a] =
                                   (current[a] \ run[r].old) \cup {[by |-> r, cuts |-> found]}]
    BY WriteTakeEffect
  <2> QED BY <1>1, <2>1
<1>3. \A j \in Requests : /\ since[j] \subseteq since'[j]
                          /\ since'[j] \subseteq since[j] \cup {a}
                          /\ job[j] # "ABSENT" => a \in since'[j]
  BY WriteTakeEffect
<1>4. run'[r] = new /\ \A q \in Requests \ {r} : run'[q] = run[q]
  BY <1>1, WriteTakeEffect
<1>5. DOMAIN run' = Requests /\ DOMAIN current' = Assets /\ DOMAIN since' = Requests
      /\ DOMAIN job' = Requests
  BY <1>1, WriteTakeEffect DEF JInv, Functions
<1>6. Follows(run[r], job, since) /\ run[r].at = "write"
  BY WriteTakeEffect DEF JInv
<1>7. Follows(new, job', since')
  BY <1>1, <1>3, <1>6 DEF Follows
<1>8. Knows(new, current')
  BY DEF Knows
<1>9. ASSUME NEW q \in Requests \ behind'
      PROVE  Knows(run'[q], current')
  <2>1. CASE q = r
    BY <2>1, <1>4, <1>8
  <2>2. CASE q # r /\ run[q].at = "write"
    <3>1. q \notin behind /\ run[q].asset # a
      BY <2>2, <1>9, WriteTakeEffect DEF In
    <3>2. Knows(run[q], current) /\ run[q].asset \in Assets
      BY <2>2, <3>1 DEF JInv, Follows
    <3> QED BY <2>2, <3>1, <3>2, <1>2, <1>4 DEF Knows
  <2>3. CASE q # r /\ run[q].at # "write"
    BY <2>3, <1>4 DEF Knows
  <2> QED BY <2>1, <2>2, <2>3
<1> HIDE DEF new, a
<1>10. ASSUME NEW q \in Requests
       PROVE  Follows(run'[q], job', since')
  <2>1. CASE q = r
    BY <2>1, <1>4, <1>7
  <2>2. CASE q # r
    <3>1. Follows(run[q], job, since) /\ run'[q] = run[q]
      BY <2>2, <1>4 DEF JInv
    <3> QED BY <3>1, <1>1, <1>3 DEF Follows
  <2> QED BY <2>1, <2>2
<1>11. Analysed(job', since', current')
  BY <1>1, <1>2, <1>3 DEF JInv, Analysed
<1> QED BY <1>5, <1>9, <1>10, <1>11 DEF JInv, Functions

LEMMA FinishKeeps ==
  ASSUME JInv, NEW r \in Requests, Finish(r)
  PROVE  JInv'
<1> DEFINE k == run[r].job
<1>1. /\ UNCHANGED <<current, since, behind>>
      /\ DOMAIN run = Requests /\ DOMAIN job = Requests /\ DOMAIN since = Requests
      /\ run[r].at = "take" /\ run[r].left = {}
      /\ job' = [job EXCEPT ![k] = "COMPLETE"] /\ run' = [run EXCEPT ![r] = Over]
  BY DEF Finish, In, Becomes, JInv, Functions
<1>2. k \in Requests /\ Assets \subseteq since[k]
  BY <1>1 DEF JInv, Follows
<1>3. \A j \in Requests : job'[j] = job[j] \/ (job'[j] = "COMPLETE" /\ j = k)
  BY <1>1, <1>2
<1>4. \A q \in Requests : run'[q] = run[q] \/ run'[q] = Over
  BY <1>1
<1>5. \A q \in Requests : Follows(run'[q], job', since')
  BY <1>1, <1>3, <1>4 DEF JInv, Follows, Over
<1>6. \A q \in Requests \ behind' : Knows(run'[q], current')
  BY <1>1, <1>4 DEF JInv, Knows, Over
<1>7. Analysed(job', since', current')
  BY <1>1, <1>2, <1>3 DEF JInv, Analysed
<1> QED BY <1>1, <1>5, <1>6, <1>7 DEF JInv, Functions

LEMMA RaiseKeeps ==
  ASSUME JInv, NEW r \in Requests, Raise(r)
  PROVE  JInv'
<1>1. /\ UNCHANGED <<current, since, behind>>
      /\ DOMAIN run = Requests /\ DOMAIN job = Requests
      /\ run' = [run EXCEPT ![r] = Over]
      /\ job' = job \/ job' = [job EXCEPT ![run[r].job] = "FAILED"]
  BY DEF Raise, Failed, Becomes, JInv, Functions
<1>2. \A j \in Requests : job'[j] = job[j] \/ job'[j] = "FAILED"
  BY <1>1
<1>3. \A q \in Requests : run'[q] = run[q] \/ run'[q] = Over
  BY <1>1
<1>4. \A q \in Requests : Follows(run'[q], job', since')
  BY <1>1, <1>2, <1>3 DEF JInv, Follows, Over
<1>5. \A q \in Requests \ behind' : Knows(run'[q], current')
  BY <1>1, <1>3 DEF JInv, Knows, Over
<1>6. Analysed(job', since', current')
  BY <1>1, <1>2 DEF JInv, Analysed
<1> QED BY <1>1, <1>4, <1>5, <1>6 DEF JInv, Functions

LEMMA RestartKeeps ==
  ASSUME JInv, Restart
  PROVE  JInv'
<1>1. /\ UNCHANGED <<current, since>>
      /\ job' = [j \in Requests |-> IF Interrupted(j) THEN "INTERRUPTED" ELSE job[j]]
      /\ run' = [r \in Requests |-> IF In(r, "idle") THEN run[r] ELSE Over]
  BY DEF Restart
<1>2. \A j \in Requests : job'[j] = job[j] \/ job'[j] = "INTERRUPTED"
  BY <1>1
<1>3. \A q \in Requests : run'[q].at \notin {"begin", "take", "write"}
  BY <1>1 DEF In, Over
<1>4. \A q \in Requests : Follows(run'[q], job', since') /\ Knows(run'[q], current')
  BY <1>3 DEF Follows, Knows
<1>5. Analysed(job', since', current')
  BY <1>1, <1>2 DEF JInv, Analysed
<1> QED BY <1>1, <1>4, <1>5 DEF JInv, Functions

\* What is said of the runs and their jobs holds always.
THEOREM JobsInvariant == JobsSpec => []JInv
<1>1. JobsInit => JInv
  BY JobsInitHolds
<1>2. JInv /\ [JobsNext]_jobVars => JInv'
  <2> SUFFICES ASSUME JInv, [JobsNext]_jobVars PROVE JInv'
    OBVIOUS
  <2>1. ASSUME NEW r \in Requests, Tasks(r) PROVE JInv'
    BY <2>1, PostKeeps, BeginKeeps, ReadTakeKeeps, WriteTakeKeeps, FinishKeeps, RaiseKeeps
    DEF Tasks
  <2>2. CASE UNCHANGED jobs
    BY <2>2 DEF jobs, JInv, Functions
  <2> QED BY <2>1, <2>2, RestartKeeps DEF JobsNext, jobVars
<1> QED BY <1>1, <1>2, PTL DEF JobsSpec

\* CompleteMeansAnalysed: a job shown as COMPLETE has analysed every take, whatever became
\* of other runs of it and of other jobs.
THEOREM CompleteAnalysed == JobsSpec => []CompleteMeansAnalysed
<1>1. JInv => CompleteMeansAnalysed
  BY DEF JInv, Analysed, CompleteMeansAnalysed
<1> QED BY <1>1, JobsInvariant, PTL

Alone ==
  \A r \in Requests :
    WriteTake(r) /\ r \notin behind => \A x \in current'[run[r].asset] : x.by = r

\* AnalysisStandsAlone: an analysis that no other one overlapped leaves itself alone.
THEOREM StandsAlone == JobsSpec => AnalysisStandsAlone
<1>1. JInv => Alone
  <2> SUFFICES ASSUME JInv, NEW r \in Requests, WriteTake(r), r \notin behind
               PROVE  \A x \in current'[run[r].asset] : x.by = r
    BY DEF Alone
  <2>1. Knows(run[r], current) /\ run[r].at = "write"
    BY WriteTakeEffect DEF JInv
  <2>2. current[run[r].asset] \subseteq run[r].old
    BY <2>1 DEF Knows
  <2>3. DOMAIN current = Assets /\ run[r].asset \in Assets
    BY WriteTakeEffect DEF JInv, Functions
  <2>4. PICK found : current' = [current EXCEPT ![run[r].asset] =
                                   (current[run[r].asset] \ run[r].old)
                                      \cup {[by |-> r, cuts |-> found]}]
    BY WriteTakeEffect
  <2>5. current'[run[r].asset] = {[by |-> r, cuts |-> found]}
    BY <2>2, <2>3, <2>4
  <2> QED BY <2>5
<1>2. [JobsNext]_jobVars /\ JInv => [Alone]_jobVars
  BY <1>1
<1> QED BY <1>2, JobsInvariant, PTL DEF JobsSpec, AnalysisStandsAlone, Alone

\* The jobs do to the table of candidates, and to what it is made from, what Selects allows.
THEOREM JobsAreSelects == JobsSpec => Spec
<1>1. JobsInit => Init
  BY DEF JobsInit
<1>2. JInv /\ [JobsNext]_jobVars => [Next]_vars
  <2> SUFFICES ASSUME JInv, [JobsNext]_jobVars, vars' # vars PROVE Next
    OBVIOUS
  <2>1. ASSUME NEW r \in Requests, Tasks(r) PROVE Next
    <3>1. WriteTake(r)
      BY <2>1 DEF Tasks, Post, Begin, ReadTake, Finish, Raise
    <3>2. run[r].asset \in Assets /\ Analyze(run[r].asset)
      BY <3>1, WriteTakeEffect DEF WriteTake
    <3> QED BY <3>2 DEF Next, Algorithms
  <2>2. CASE Persons
    BY <2>2 DEF Next
  <2>3. CASE \E recommended \in SUBSET Assets : Generate(recommended)
    BY <2>3 DEF Next, Algorithms
  <2>4. ~Restart /\ jobVars' # jobVars
    BY DEF Restart, jobVars
  <2> QED BY <2>1, <2>2, <2>3, <2>4 DEF JobsNext
<1> QED BY <1>1, <1>2, JobsInvariant, PTL DEF JobsSpec, Spec

\* DecisionsSurvive, with the jobs at work.
THEOREM JobsSurvival == JobsSpec => DecisionsSurvive
BY JobsAreSelects, Survival

\* ImplementsSelection: what exports read changes by decisions alone, with the jobs at work.
THEOREM JobsImplementation == JobsSpec => ImplementsSelection
BY JobsAreSelects, Implementation

-----------------------------------------------------------------------------
(* Clips and their subtitles *)

\* What may be planned of a target, and what a file of it may hold.
Entries ==
  {[to |-> x, content |-> Content(x, f, probed)] : x \in Targets, f \in Flights, probed \in BOOLEAN}
Written(x, content) ==
  content = None \/ \E f \in Flights, probed \in BOOLEAN : content = Content(x, f, probed)

\* A run knows at most one flight, and has planned what follows from a flight.
Planned(q) ==
  /\ q.at \in {"idle", "plan", "fill"}
  /\ q.at # "idle" =>
       /\ DOMAIN q = {"at", "left", "known", "plan"}
       /\ q.left \subseteq Targets
       /\ q.known = {} \/ \E f \in Flights \cup {None} : q.known = {f}
       /\ q.plan \in Seq(Entries)
  /\ q.at = "fill" => q.plan # <<>>

\* A run that fills a file has created it, and it is as it was created or a person's.
Owns(r, q) ==
  q.at = "fill" => \E by \in {r, Person} : file[Head(q.plan).to] = [by |-> by, content |-> None]

\* Two runs do not fill the same file.
Apart ==
  \A r, s \in Runners : r # s /\ progress[r].at = "fill" /\ progress[s].at = "fill" =>
    Head(progress[r].plan).to # Head(progress[s].plan).to

TypeOK ==
  /\ source \in [{"SRT", "DUMP", "MP4"} -> Flights \cup {None}]
  /\ exported \subseteq Exports
  /\ DOMAIN file = Targets /\ DOMAIN progress = Runners
  /\ changes \in Nat

SegmentsInv ==
  /\ TypeOK
  /\ \A r \in Runners : Planned(progress[r]) /\ Owns(r, progress[r])
  /\ Apart
  /\ \A x \in Targets : Written(x, file[x].content)

-----------------------------------------------------------------------------
(* Numbers *)

LEMMA MaxIs ==
  ASSUME NEW S, S \subseteq Int, NEW m \in S, \A x \in S : x <= m
  PROVE  Max(S) = m
<1>1. \E x \in S : \A y \in S : x >= y
  OBVIOUS
<1>2. Max(S) \in S /\ \A y \in S : Max(S) >= y
  BY <1>1, Zenon DEF Max
<1>3. PICK k : k = Max(S)
  OBVIOUS
<1>4. k \in S /\ \A y \in S : k >= y
  BY <1>2, <1>3
<1>5. k = m
  BY <1>4
<1> QED BY <1>3, <1>5

LEMMA MinIs ==
  ASSUME NEW S, S \subseteq Int, NEW m \in S, \A x \in S : m <= x
  PROVE  Min(S) = m
<1>1. \E x \in S : \A y \in S : x =< y
  OBVIOUS
<1>2. Min(S) \in S /\ \A y \in S : Min(S) =< y
  BY <1>1, Zenon DEF Min
<1>3. PICK k : k = Min(S)
  OBVIOUS
<1>4. k \in S /\ \A y \in S : k =< y
  BY <1>2, <1>3
<1>5. k = m
  BY <1>4
<1> QED BY <1>3, <1>5

LEMMA OfTwo ==
  ASSUME NEW a \in Int, NEW b \in Int
  PROVE  /\ Min({a, b}) = IF a <= b THEN a ELSE b
         /\ Max({a, b}) = IF a <= b THEN b ELSE a
<1>1. CASE a <= b
  BY <1>1, MaxIs, MinIs
<1>2. CASE b < a
  BY <1>2, MaxIs, MinIs
<1> QED BY <1>1, <1>2

\* Of numbers that are not none, there is a smallest.
LEMMA Smallest ==
  ASSUME NEW S, S \subseteq Nat, S # {}
  PROVE  \E m \in S : \A x \in S : m <= x
<1>1. PICK m \in S : \A x \in S : <<x, m>> \notin OpToRel(<, Nat)
  BY NatLessThanWellFounded, WFMin
<1>2. \A x \in S : ~(x < m)
  BY <1>1 DEF OpToRel
<1> QED BY <1>2

LEMMA Largest ==
  ASSUME NEW n \in Nat, NEW S, S \subseteq 0..n, S # {}
  PROVE  \E m \in S : \A x \in S : x <= m
<1> DEFINE back == {y \in Nat : n - y \in S}
<1>1. \A x \in S : x \in Nat /\ x <= n /\ n - x \in Nat /\ n - (n - x) = x
  OBVIOUS
<1>2. back # {}
  BY <1>1
<1>3. PICK b \in back : \A y \in back : b <= y
  <2>1. back \subseteq Nat
    OBVIOUS
  <2> HIDE DEF back
  <2> QED BY <1>2, <2>1, Smallest
<1>4. \A x \in S : n - x \in back
  BY <1>1
<1>5. n - b \in S /\ b \in Nat
  OBVIOUS
<1>6. \A x \in S : x <= n - b
  <2> HIDE DEF back
  <2> QED BY <1>1, <1>3, <1>4, <1>5
<1> QED BY <1>5, <1>6

\* Finitely many numbers have a bound.
LEMMA Bounded ==
  ASSUME NEW n \in Nat, NEW f \in [1..n -> Nat]
  PROVE  \E m \in Nat : \A k \in 1..n : f[k] <= m
<1> DEFINE Fine(i) == \E m \in Nat : \A k \in 1..i : f[k] <= m
           bad == {i \in 0..n : ~Fine(i)}
<1>1. SUFFICES ASSUME bad # {} PROVE FALSE
  <2>1. bad = {} => Fine(n)
    <3> HIDE DEF Fine
    <3> QED OBVIOUS
  <2> QED BY <2>1
<1>2. PICK i \in bad : \A j \in bad : i <= j
  <2>1. bad \subseteq Nat
    OBVIOUS
  <2> HIDE DEF bad
  <2> QED BY <1>1, <2>1, Smallest
<1>3. i \in 0..n /\ ~Fine(i)
  OBVIOUS
<1>4. i # 0
  <2>1. Fine(0)
    <3>1. 1..0 = {}
      OBVIOUS
    <3>2. \A k \in 1..0 : f[k] <= 0
      BY <3>1
    <3> QED BY <3>2
  <2> QED BY <1>3, <2>1
<1>5. i - 1 \in 0..n /\ i - 1 < i /\ i \in 1..n
  BY <1>3, <1>4
<1>6. Fine(i - 1)
  <2> HIDE DEF Fine
  <2> QED BY <1>2, <1>5
<1>7. PICK m \in Nat : \A k \in 1..(i - 1) : f[k] <= m
  BY <1>6
<1>8. PICK top \in Nat : m <= top /\ f[i] <= top
  <2>1. PICK y \in Nat : y = f[i]
    BY <1>5
  <2>2. m + y \in Nat /\ m <= m + y /\ y <= m + y
    OBVIOUS
  <2> QED BY <2>1, <2>2
<1>9. \A k \in 1..i : f[k] <= top
  <2> SUFFICES ASSUME NEW k \in 1..i PROVE f[k] <= top
    OBVIOUS
  <2>1. CASE k = i
    BY <1>8, <2>1
  <2>2. CASE k # i
    <3>1. k \in 1..(i - 1) /\ k \in 1..n
      BY <1>5, <2>2
    <3> QED BY <1>7, <1>8, <3>1
  <2> QED BY <2>1, <2>2
<1> QED BY <1>3, <1>8, <1>9

LEMMA Times ==
  ASSUME NEW a \in Nat, NEW b \in Nat, a <= b
  PROVE  a * Step \in Nat /\ b * Step \in Nat /\ a * Step <= b * Step
BY SegmentsAssumption

LEMMA Divided ==
  ASSUME NEW x \in Nat
  PROVE  (x \div Step) \in Nat /\ (x \div Step) * Step <= x
BY SegmentsAssumption

-----------------------------------------------------------------------------
(* Flights *)

LEMMA FlightIs ==
  ASSUME NEW f \in Flights
  PROVE  /\ f.samples \in Seq(Sample) /\ f.moves \in Seq(BOOLEAN)
         /\ Len(f.moves) = (End(f) + Step - 1) \div Step
BY SegmentsAssumption

LEMMA EndIs ==
  ASSUME NEW f \in Flights
  PROVE  End(f) \in Nat
<1>1. PICK s \in Seq(Sample) : s = f.samples
  BY FlightIs
<1> DEFINE n == Len(s)
           to == [k \in 1..n |-> s[k].to]
           ends == {0} \cup {s[k].to : k \in DOMAIN s}
<1>2. n \in Nat /\ DOMAIN s = 1..n
  OBVIOUS
<1>3. \A k \in 1..n : s[k] \in Sample
  BY <1>2
<1>4. \A k \in 1..n : s[k].to \in Nat
  BY <1>3 DEF Sample
<1>5. to \in [1..n -> Nat]
  BY <1>4
<1>6. PICK m \in Nat : \A k \in 1..n : s[k].to <= m
  <2>1. PICK m \in Nat : \A k \in 1..n : to[k] <= m
    <3> HIDE DEF to, n
    <3> QED BY <1>2, <1>5, Bounded
  <2> QED BY <2>1
<1>7. ends \subseteq 0..m /\ ends # {}
  BY <1>2, <1>4, <1>6
<1> HIDE DEF ends
<1>8. PICK top \in ends : \A x \in ends : x <= top
  BY <1>7, Largest
<1>9. ends \subseteq Int /\ top \in Nat
  BY <1>7
<1>10. Max(ends) = top
  BY <1>8, <1>9, MaxIs
<1>11. End(f) = Max(ends)
  BY <1>1 DEF End, ends
<1> QED BY <1>9, <1>10, <1>11

\* A bucket begins before the flight ends.
LEMMA BucketBegins ==
  ASSUME NEW f \in Flights, NEW b \in Nat, b < Len(f.moves)
  PROVE  b * Step \in Nat /\ b * Step < End(f)
<1>1. PICK e \in Nat : e = End(f)
  BY EndIs
<1>2. Step \in Nat \ {0}
  BY SegmentsAssumption
<1>3. e + Step - 1 \in Nat
  BY <1>2
<1>4. PICK n \in Nat : n = (e + Step - 1) \div Step /\ n * Step <= e + Step - 1
  BY <1>3, Divided
<1>5. b + 1 <= n
  BY <1>1, <1>4, FlightIs
<1>6. (b + 1) * Step <= n * Step /\ n * Step \in Nat /\ (b + 1) * Step \in Nat
  BY <1>5, Times
<1>7. (b + 1) * Step = b * Step + Step /\ b * Step \in Nat
  BY <1>2
<1>8. PICK x \in Nat : x = b * Step
  BY <1>7
<1>9. x + Step <= e + Step - 1
  BY <1>2, <1>4, <1>6, <1>7, <1>8
<1>10. x < e
  BY <1>2, <1>9
<1> QED BY <1>1, <1>8, <1>10

-----------------------------------------------------------------------------
(* Sidecars *)

\* Whatever samples overlap, have gaps or straddle the ends: the slice says of each moment
\* what the samples say of it.
LEMMA SliceFits ==
  ASSUME NEW samples \in Seq(Sample), NEW from \in Nat, NEW to \in Nat, from < to,
         NEW t \in 0..(to - from - 1)
  PROVE  Where(Slice(samples, from, to), t) = Where(samples, from + t)
<1> DEFINE clipped == [k \in DOMAIN samples |->
                         [samples[k] EXCEPT !.from = Max({@, from}) - from,
                                            !.to = Min({@, to}) - from]]
           kept == {k \in DOMAIN clipped : clipped[k].from < clipped[k].to}
           cues == Slice(samples, from, to)
<1>1. DOMAIN cues = kept /\ \A k \in kept : cues[k] = clipped[k]
  BY DEF Slice, RestrictValues, Restrict
<1>2. ASSUME NEW k \in DOMAIN samples
      PROVE  /\ clipped[k].at = samples[k].at
             /\ samples[k].from <= from + t /\ from + t < samples[k].to
                  <=> k \in kept /\ clipped[k].from <= t /\ t < clipped[k].to
  <2>1. PICK s \in Sample : s = samples[k]
    OBVIOUS
  <2>2. PICK a \in Nat, z \in Nat : a = s.from /\ z = s.to
    BY DEF Sample
  <2>3. PICK c : c = [s EXCEPT !.from = Max({@, from}) - from, !.to = Min({@, to}) - from]
    OBVIOUS
  <2>4. clipped[k] = c
    BY <2>1, <2>3
  <2>5. /\ c.from = (IF a <= from THEN from ELSE a) - from
        /\ c.to = (IF z <= to THEN z ELSE to) - from
        /\ c.at = s.at
    <3>1. s.from \in Int /\ s.to \in Int /\ from \in Int /\ to \in Int
      BY DEF Sample
    <3>2. /\ Max({s.from, from}) = IF s.from <= from THEN from ELSE s.from
          /\ Min({s.to, to}) = IF s.to <= to THEN s.to ELSE to
      BY <3>1, OfTwo, Zenon
    <3>3. PICK u, v : u = Max({s.from, from}) - from /\ v = Min({s.to, to}) - from
      OBVIOUS
    <3>4. c.from = u /\ c.to = v /\ c.at = s.at
      BY <2>3, <3>3 DEF Sample
    <3>5. u = (IF a <= from THEN from ELSE a) - from /\ v = (IF z <= to THEN z ELSE to) - from
      BY <2>2, <3>2, <3>3
    <3> QED BY <3>4, <3>5
  <2>6. k \in kept <=> c.from < c.to
    BY <2>4
  <2> HIDE DEF clipped, kept
  <2>7. PICK u \in Int, v \in Int : /\ u = c.from /\ v = c.to
                                    /\ u = (IF a <= from THEN from ELSE a) - from
                                    /\ v = (IF z <= to THEN z ELSE to) - from
    BY <2>5
  <2>8. a <= from + t /\ from + t < z <=> u < v /\ u <= t /\ t < v
    BY <2>7
  <2> QED BY <2>1, <2>2, <2>4, <2>5, <2>6, <2>7, <2>8
<1> HIDE DEF clipped
<1>3. kept \subseteq DOMAIN samples
  BY DEF clipped
<1> HIDE DEF kept, cues
<1>4. Where(cues, t) = {cues[k].at : k \in {k \in kept : clipped[k].from <= t /\ t < clipped[k].to}}
  BY <1>1 DEF Where
<1>5. {k \in kept : clipped[k].from <= t /\ t < clipped[k].to}
        = {k \in DOMAIN samples : samples[k].from <= from + t /\ from + t < samples[k].to}
  BY <1>2, <1>3
<1>6. Where(cues, t) = Where(samples, from + t)
  BY <1>1, <1>2, <1>3, <1>4, <1>5 DEF Where
<1> QED BY <1>6 DEF cues

\* The duration that was measured tells where a segment begins.
LEMMA BeginIs ==
  ASSUME NEW e \in Exports, NEW probed \in BOOLEAN, probed => e.begins + e.lasts = e.to
  PROVE  /\ Begins(e, probed) = IF probed /\ e.from - e.begins <= Tolerance THEN e.begins
                                ELSE e.from
         /\ Begins(e, probed) \in Nat /\ Begins(e, probed) < e.to
BY SegmentsAssumption DEF Begins, Segment

LEMMA SidecarIs ==
  ASSUME NEW e \in Exports, NEW f \in Flights, NEW probed \in BOOLEAN,
         Sidecar(f, e, probed) # None
  PROVE  SidecarFits(e, Sidecar(f, e, probed))
<1> DEFINE from == Begins(e, probed)
           cues == Slice(f.samples, from, e.to)
<1>1. PICK s : s = Sidecar(f, e, probed)
  OBVIOUS
<1>2. s = [of |-> f, probed |-> probed, cues |-> cues]
  <2> HIDE DEF cues
  <2> QED BY <1>1 DEF Sidecar, cues
<1>3. s.of = f /\ s.probed = probed /\ s.cues = cues
  <2> HIDE DEF cues
  <2> QED BY <1>2
<1>4. ASSUME probed => e.begins + e.lasts = e.to
      PROVE  /\ from = IF probed /\ e.from - e.begins <= Tolerance THEN e.begins ELSE e.from
             /\ \A t \in 0..(e.to - from - 1) : Where(cues, t) = Where(f.samples, from + t)
  <2>1. from \in Nat /\ e.to \in Nat /\ from < e.to
    BY <1>4, BeginIs, SegmentsAssumption DEF Segment
  <2>2. f.samples \in Seq(Sample)
    BY FlightIs
  <2>3. from = IF probed /\ e.from - e.begins <= Tolerance THEN e.begins ELSE e.from
    BY <1>4, BeginIs
  <2> HIDE DEF from
  <2>4. ASSUME NEW t \in 0..(e.to - from - 1)
        PROVE  Where(cues, t) = Where(f.samples, from + t)
    BY <2>1, <2>2, SliceFits
  <2> QED BY <2>3, <2>4
<1> HIDE DEF cues, from
<1> QED BY <1>1, <1>3, <1>4 DEF SidecarFits

-----------------------------------------------------------------------------
(* Projects *)

\* The first and the last bucket that begin a held motion, if there are any.
LEMMA MovingIs ==
  ASSUME NEW f \in Flights, Moving(f) # {}
  PROVE  /\ Min(Moving(f)) \in Moving(f) /\ Max(Moving(f)) \in Moving(f)
         /\ \A b \in Moving(f) :
              /\ b \in Nat /\ b < Len(f.moves)
              /\ Min(Moving(f)) <= b /\ b <= Max(Moving(f))
<1>1. PICK n \in Nat : n = Len(f.moves)
  BY FlightIs
<1>2. PICK moving : moving = Moving(f)
  OBVIOUS
<1>3. \A b \in moving : b \in 0..(n - Hold)
  BY <1>1, <1>2 DEF Moving
<1>4. \A b \in moving : b \in Nat /\ b < n /\ b \in 0..n
  BY <1>3, SegmentsAssumption
<1>5. PICK a \in moving : \A b \in moving : a <= b
  BY <1>2, <1>4, Smallest
<1>6. PICK z \in moving : \A b \in moving : b <= z
  BY <1>2, <1>4, Largest
<1>7. moving \subseteq Int
  BY <1>4
<1>8. Min(moving) = a /\ Max(moving) = z
  BY <1>5, <1>6, <1>7, MinIs, MaxIs
<1> QED BY <1>1, <1>2, <1>4, <1>5, <1>6, <1>8

\* Of the moments in a held motion, the first and the last.
LEMMA SustainedIs ==
  ASSUME NEW f \in Flights, Moving(f) # {},
         NEW first \in Int, first = Min(Moving(f)) * Step,
         NEW stop \in Int, stop = Min({(Max(Moving(f)) + Hold) * Step, End(f)})
  PROVE  /\ Min(Sustained(f)) = first /\ Max(Sustained(f)) = stop - 1
         /\ 0 <= first /\ first < stop /\ stop <= End(f)
<1>1. PICK e \in Nat : e = End(f)
  BY EndIs
<1>2. PICK a, z : a = Min(Moving(f)) /\ z = Max(Moving(f))
  OBVIOUS
<1>3. /\ a \in Moving(f) /\ z \in Moving(f)
      /\ \A b \in Moving(f) : b \in Nat /\ b < Len(f.moves) /\ a <= b /\ b <= z
  BY <1>2, MovingIs
<1>4. /\ a \in Nat /\ z \in Nat /\ a <= z /\ Hold \in Nat \ {0} /\ Step \in Nat \ {0}
      /\ z + Hold \in Nat
  BY <1>3, SegmentsAssumption
<1>5. PICK last \in Nat : last = (z + Hold) * Step
  BY <1>4
<1>6. stop = IF last <= e THEN last ELSE e
  BY <1>1, <1>2, <1>5, OfTwo
<1>7. PICK begins \in Nat : begins = z * Step
  BY <1>4
<1>8. first < e /\ first \in Nat /\ begins < e /\ first <= begins
  BY <1>1, <1>2, <1>3, <1>4, <1>7, BucketBegins, Times
<1>9. begins < last
  <2>1. z + 1 \in Nat /\ z + 1 <= z + Hold
    BY <1>4
  <2>2. (z + 1) * Step <= last /\ (z + 1) * Step \in Nat
    BY <1>4, <1>5, <2>1, Times
  <2>3. (z + 1) * Step = begins + Step
    BY <1>4, <1>7
  <2> QED BY <1>4, <2>2, <2>3
<1>10. first < stop /\ begins < stop /\ stop <= e
  BY <1>6, <1>8, <1>9
<1>11. Sustained(f) =
         {t \in 0..(e - 1) : \E b \in Moving(f) : b * Step <= t /\ t < (b + Hold) * Step}
  BY <1>1 DEF Sustained
<1>12. first \in Sustained(f)
  <2>1. a + 1 \in Nat /\ a + Hold \in Nat /\ a + 1 <= a + Hold
    BY <1>4
  <2>2. PICK x \in Nat, y \in Nat : x = (a + 1) * Step /\ y = (a + Hold) * Step /\ x <= y
    BY <2>1, Times
  <2>3. x = first + Step
    BY <1>2, <1>4, <2>2
  <2>4. a * Step <= first /\ first < (a + Hold) * Step
    BY <1>2, <1>4, <1>8, <2>2, <2>3
  <2>5. first \in 0..(e - 1)
    BY <1>8
  <2> QED BY <1>3, <1>11, <2>4, <2>5
<1>13. stop - 1 \in Sustained(f)
  <2>1. stop - 1 \in 0..(e - 1) /\ begins <= stop - 1 /\ stop - 1 < last
    BY <1>6, <1>8, <1>10
  <2> QED BY <1>3, <1>5, <1>7, <1>11, <2>1
<1>14. ASSUME NEW t \in Sustained(f) PROVE first <= t /\ t <= stop - 1
  <2>1. PICK b \in Moving(f) : b * Step <= t /\ t < (b + Hold) * Step
    BY <1>11
  <2>2. t \in 0..(e - 1)
    BY <1>11
  <2>3. b \in Nat /\ a <= b /\ b <= z
    BY <1>3
  <2>4. PICK x \in Nat : x = b * Step /\ first <= x
    BY <1>2, <1>4, <2>3, Times
  <2>5. b + Hold \in Nat /\ b + Hold <= z + Hold
    BY <1>4, <2>3
  <2>6. PICK y \in Nat : y = (b + Hold) * Step /\ y <= last
    BY <1>4, <1>5, <2>5, Times
  <2> QED BY <1>6, <2>1, <2>2, <2>4, <2>6
<1>15. Sustained(f) \subseteq Int
  BY <1>11
<1>16. Min(Sustained(f)) = first
  BY <1>12, <1>14, <1>15, MinIs
<1>17. Max(Sustained(f)) = stop - 1
  BY <1>13, <1>14, <1>15, MaxIs
<1> QED BY <1>1, <1>8, <1>10, <1>16, <1>17

\* The parts follow each other from the first moment to the last, and one is selected.
LEMMA PartsFit ==
  ASSUME NEW start \in Nat, NEW stop \in Nat, NEW end \in Nat, start < stop, stop <= end,
         NEW keep, keep = [from |-> start, to |-> stop],
         NEW t \in 0..(end - 1)
  PROVE  LET parts == Parts(keep, end)
             over == {k \in DOMAIN parts : parts[k].from <= t /\ t < parts[k].to}
         IN \E k \in DOMAIN parts :
              /\ over = {k}
              /\ parts[k].selected <=> start <= t /\ t < stop
<1> DEFINE head == [from |-> 0, to |-> start, selected |-> FALSE]
           middle == [from |-> start, to |-> stop, selected |-> TRUE]
           rest == [from |-> stop, to |-> end, selected |-> FALSE]
<1>1. PICK parts : parts = Parts(keep, end)
  OBVIOUS
<1>2. PICK h, m, r : h = head /\ m = middle /\ r = rest
  OBVIOUS
<1>10. /\ h.from = 0 /\ h.to = start /\ h.selected = FALSE
       /\ m.from = start /\ m.to = stop /\ m.selected = TRUE
       /\ r.from = stop /\ r.to = end /\ r.selected = FALSE
  BY <1>2
<1>3. /\ Cut(0, start, FALSE) = IF 0 < start THEN <<h>> ELSE <<>>
      /\ Cut(start, stop, TRUE) = <<m>>
      /\ Cut(stop, end, FALSE) = IF stop < end THEN <<r>> ELSE <<>>
  BY <1>2 DEF Cut
<1>4. keep.from = start /\ keep.to = stop
  OBVIOUS
<1> HIDE DEF head, middle, rest
<1>5. parts = Cut(0, start, FALSE) \o Cut(start, stop, TRUE) \o Cut(stop, end, FALSE)
  BY <1>1, <1>4 DEF Parts
<1> DEFINE S == {h, m, r}
<1>6. PICK c, d : c = Cut(0, start, FALSE) /\ d = Cut(stop, end, FALSE)
  OBVIOUS
<1>7. /\ c \in Seq(S) /\ Len(c) = (IF 0 < start THEN 1 ELSE 0) /\ (0 < start => c[1] = h)
      /\ d \in Seq(S) /\ Len(d) = (IF stop < end THEN 1 ELSE 0) /\ (stop < end => d[1] = r)
      /\ <<m>> \in Seq(S) /\ Len(<<m>>) = 1 /\ <<m>>[1] = m
  <2>1. \A x \in S : <<x>> \in Seq(S) /\ Len(<<x>>) = 1 /\ <<x>>[1] = x
    <3> HIDE DEF S
    <3> QED OBVIOUS
  <2>2. << >> \in Seq(S) /\ Len(<< >>) = 0
    OBVIOUS
  <2>3. h \in S /\ m \in S /\ r \in S
    OBVIOUS
  <2> HIDE DEF S
  <2>4. c \in Seq(S) /\ Len(c) = (IF 0 < start THEN 1 ELSE 0) /\ (0 < start => c[1] = h)
    <3>1. CASE 0 < start
      BY <1>3, <1>6, <2>1, <2>3, <3>1
    <3>2. CASE ~(0 < start)
      <4>1. c = << >>
        BY <1>3, <1>6, <3>2
      <4> QED BY <2>2, <3>2, <4>1
    <3> QED BY <3>1, <3>2
  <2>5. d \in Seq(S) /\ Len(d) = (IF stop < end THEN 1 ELSE 0) /\ (stop < end => d[1] = r)
    <3>1. CASE stop < end
      BY <1>3, <1>6, <2>1, <2>3, <3>1
    <3>2. CASE ~(stop < end)
      BY <1>3, <1>6, <2>2, <3>2
    <3> QED BY <3>1, <3>2
  <2> QED BY <2>1, <2>3, <2>4, <2>5
<1>8. PICK n \in {0, 1}, l \in {0, 1} : n = Len(c) /\ l = Len(d)
  BY <1>7
<1>9. /\ DOMAIN parts = 1..(n + 1 + l) /\ parts[n + 1] = m
      /\ 0 < start => n = 1 /\ parts[1] = h
      /\ start = 0 => n = 0
      /\ stop < end => l = 1 /\ parts[n + 2] = r
      /\ stop = end => l = 0
  <2>1. parts = c \o <<m>> \o d
    BY <1>3, <1>5, <1>6
  <2> HIDE DEF S
  <2>2. PICK b : b = c \o <<m>>
    OBVIOUS
  <2>3. b \in Seq(S) /\ Len(b) = n + 1 /\ b[n + 1] = m /\ (0 < start => b[1] = h)
    BY <1>7, <1>8, <2>2, ConcatProperties
  <2>4. parts \in Seq(S) /\ Len(parts) = n + 1 + l
    BY <1>7, <1>8, <2>1, <2>2, <2>3, ConcatProperties
  <2>5. parts[n + 1] = m /\ (0 < start => parts[1] = h) /\ (stop < end => parts[n + 2] = r)
    BY <1>7, <1>8, <2>1, <2>2, <2>3, ConcatProperties
  <2> QED BY <1>7, <1>8, <2>4, <2>5
<1> DEFINE Within(k) == parts[k].from <= t /\ t < parts[k].to
<1>11. SUFFICES \E k \in DOMAIN parts :
                  /\ \A j \in DOMAIN parts : Within(j) <=> j = k
                  /\ parts[k].selected <=> start <= t /\ t < stop
  BY <1>1
<1>12. CASE t < start
  <2>1. /\ 1 \in DOMAIN parts /\ \A j \in DOMAIN parts : Within(j) <=> j = 1
        /\ parts[1].selected <=> start <= t /\ t < stop
    BY <1>9, <1>10, <1>12
  <2> QED BY <2>1
<1>13. CASE start <= t /\ t < stop
  <2>1. /\ n + 1 \in DOMAIN parts /\ \A j \in DOMAIN parts : Within(j) <=> j = n + 1
        /\ parts[n + 1].selected <=> start <= t /\ t < stop
    BY <1>9, <1>10, <1>13
  <2> QED BY <2>1
<1>14. CASE stop <= t
  <2>1. /\ n + 2 \in DOMAIN parts /\ \A j \in DOMAIN parts : Within(j) <=> j = n + 2
        /\ parts[n + 2].selected <=> start <= t /\ t < stop
    BY <1>9, <1>10, <1>14
  <2> QED BY <2>1
<1> QED BY <1>12, <1>13, <1>14

LEMMA SuggestionIs ==
  ASSUME NEW f \in Flights, Suggestion(f) # None
  PROVE  ProjectFits(Suggestion(f))
<1>1. PICK keep : keep = Trim(f) /\ keep # None
  BY DEF Suggestion
<1>2. PICK e \in Nat : e = End(f)
  BY EndIs
<1>3. PICK p : p = Suggestion(f)
  OBVIOUS
<1>4. p.of = f /\ p.cuts = Parts(keep, e)
  BY <1>1, <1>2, <1>3 DEF Suggestion
<1>5. Moving(f) # {}
  BY <1>1 DEF Trim
<1>6. PICK a \in Nat, z \in Nat : a = Min(Moving(f)) /\ z = Max(Moving(f))
  BY <1>5, MovingIs
<1>7. Hold \in Nat \ {0} /\ Step \in Nat \ {0} /\ LeadIn \in Nat /\ MinKeep \in Nat \ {0}
  BY SegmentsAssumption
<1>8. PICK first \in Nat, last \in Nat : first = a * Step /\ last = (z + Hold) * Step
  <2>1. a * Step \in Nat /\ (z + Hold) * Step \in Nat
    BY <1>7
  <2> QED BY <2>1
<1>9. PICK start, stop : start = Min({first + LeadIn, e}) /\ stop = Min({last, e})
  OBVIOUS
<1>10. /\ start = IF first + LeadIn <= e THEN first + LeadIn ELSE e
       /\ stop = IF last <= e THEN last ELSE e
  BY <1>7, <1>9, OfTwo
<1>11. start \in Nat /\ stop \in Nat
  BY <1>7, <1>10
<1>12. keep = IF stop - start < MinKeep THEN None ELSE [from |-> start, to |-> stop]
  BY <1>1, <1>2, <1>5, <1>6, <1>8, <1>9 DEF Trim
<1>13. keep = [from |-> start, to |-> stop] /\ start < stop
  BY <1>1, <1>7, <1>11, <1>12
<1>14. start = first + LeadIn /\ stop <= e
  BY <1>7, <1>10, <1>13
<1>15. Min(Sustained(f)) = first /\ Max(Sustained(f)) = stop - 1
  <2>1. first \in Int /\ stop \in Int
    BY <1>11
  <2>2. first = Min(Moving(f)) * Step /\ stop = Min({(Max(Moving(f)) + Hold) * Step, End(f)})
    BY <1>2, <1>6, <1>8, <1>9
  <2> QED BY <1>5, <2>1, <2>2, SustainedIs
<1>16. ASSUME NEW t \in 0..(e - 1)
       PROVE  LET over == {k \in DOMAIN p.cuts : p.cuts[k].from <= t /\ t < p.cuts[k].to}
              IN /\ Cardinality(over) = 1
                 /\ (\E k \in over : p.cuts[k].selected)
                      <=> Min(Sustained(p.of)) + LeadIn <= t /\ t <= Max(Sustained(p.of))
  <2>1. PICK over : over = {k \in DOMAIN p.cuts : p.cuts[k].from <= t /\ t < p.cuts[k].to}
    OBVIOUS
  <2>2. PICK k \in DOMAIN p.cuts :
          over = {k} /\ (p.cuts[k].selected <=> start <= t /\ t < stop)
    BY <1>4, <1>11, <1>13, <1>14, <2>1, PartsFit
  <2>3. Cardinality(over) = 1
    BY <2>2, FS_Singleton
  <2>4. (\E j \in over : p.cuts[j].selected) <=> start <= t /\ t < stop
    BY <2>2
  <2>5. start <= t /\ t < stop
          <=> Min(Sustained(p.of)) + LeadIn <= t /\ t <= Max(Sustained(p.of))
    BY <1>4, <1>11, <1>14, <1>15
  <2> QED BY <2>1, <2>3, <2>4, <2>5
<1> QED BY <1>2, <1>3, <1>4, <1>16 DEF ProjectFits

-----------------------------------------------------------------------------
(* What a run plans *)

\* The telemetry that counts is one of the sources, if it is any.
LEMMA TelemetryIs ==
  ASSUME TypeOK
  PROVE  Telemetry \in Flights \cup {None}
<1> DEFINE usable == {k \in DOMAIN Kinds : Usable(k)}
<1>1. CASE usable = {}
  BY <1>1 DEF Telemetry
<1>2. CASE usable # {}
  <2>1. DOMAIN Kinds = 1..3 /\ \A k \in 1..3 : Kinds[k] \in {"SRT", "DUMP", "MP4"}
    BY DEF Kinds
  <2>2. usable \subseteq Nat /\ usable \subseteq Int
    BY <2>1
  <2> HIDE DEF usable
  <2>3. PICK k \in usable : \A j \in usable : k <= j
    BY <1>2, <2>2, Smallest
  <2>4. Min(usable) = k
    BY <2>2, <2>3, MinIs
  <2>5. k \in 1..3
    BY <2>1 DEF usable
  <2>6. Telemetry = source[Kinds[k]]
    BY <1>2, <2>4, Zenon DEF Telemetry, usable
  <2> QED BY <2>1, <2>5, <2>6 DEF TypeOK
<1> QED BY <1>1, <1>2

\* A set of at most one element as a sequence.
LEMMA FewAreASequence ==
  ASSUME NEW S, NEW T \in SUBSET S, T = {} \/ \E e \in S : T = {e}
  PROVE  SetToSeq(T) \in Seq(S)
<1>1. PICK n \in {0, 1} : n = Cardinality(T) /\ \E f \in [1..n -> T] : IsInjective(f)
  <2>1. CASE T = {}
    <3>1. Cardinality(T) = 0
      BY <2>1, FS_EmptySet
    <3>2. <<>> \in [1..0 -> T] /\ IsInjective(<<>>)
      BY DEF IsInjective
    <3> QED BY <3>1, <3>2
  <2>2. ASSUME NEW e \in S, T = {e}
        PROVE  1 = Cardinality(T) /\ \E f \in [1..1 -> T] : IsInjective(f)
    <3>1. Cardinality(T) = 1
      BY <2>2, FS_Singleton
    <3>2. [i \in 1..1 |-> e] \in [1..1 -> T] /\ IsInjective([i \in 1..1 |-> e])
      BY <2>2 DEF IsInjective
    <3> QED BY <3>1, <3>2
  <2> QED BY <2>1, <2>2
<1>2. PICK s : s = SetToSeq(T)
  OBVIOUS
<1>3. s \in [1..n -> T]
  BY <1>1, <1>2, Zenon DEF SetToSeq
<1>4. s \in Seq(T)
  BY <1>3
<1> QED BY <1>2, <1>4

-----------------------------------------------------------------------------
(* The inductive invariant *)

LEMMA NamesDiffer ==
  /\ None \notin Runners /\ Person \notin Runners
  /\ \A r \in Runners \cup {Person} : [by |-> r, content |-> None] # NoFile
BY SegmentsAssumption DEF NoFile

LEMMA SegmentsBegin ==
  ASSUME SegmentsInit
  PROVE  SegmentsInv
<1>1. \A r \in Runners : progress[r].at = "idle"
  BY DEF SegmentsInit, Idle
<1>2. \A x \in Targets : file[x].content = None
  BY DEF SegmentsInit, NoFile
<1>3. TypeOK
  BY DEF SegmentsInit, TypeOK
<1> QED BY <1>1, <1>2, <1>3 DEF SegmentsInv, Planned, Owns, Apart, Written

\* One run goes on, and no file changes.
LEMMA OneGoesOn ==
  ASSUME SegmentsInv, NEW r \in Runners, NEW q, progress' = [progress EXCEPT ![r] = q],
         Planned(q), q.at # "fill", UNCHANGED <<exported, source, file, changes>>
  PROVE  SegmentsInv'
<1>1. \A s \in Runners : progress'[s] = IF s = r THEN q ELSE progress[s]
  BY DEF SegmentsInv, TypeOK
<1>2. TypeOK'
  BY DEF SegmentsInv, TypeOK
<1>3. ASSUME NEW s \in Runners PROVE Planned(progress[s])' /\ Owns(s, progress[s])'
  <2>1. CASE s = r
    BY <1>1, <2>1 DEF Planned, Owns
  <2>2. CASE s # r
    <3>1. progress'[s] = progress[s] /\ Planned(progress[s]) /\ Owns(s, progress[s])
      BY <1>1, <2>2 DEF SegmentsInv
    <3> QED BY <3>1 DEF Planned, Owns
  <2> QED BY <2>1, <2>2
<1>4. \A x \in Targets : Written(x, file[x].content)'
  BY DEF SegmentsInv, Written
<1>5. Apart'
  BY <1>1 DEF SegmentsInv, Apart
<1> QED BY <1>2, <1>3, <1>4, <1>5 DEF SegmentsInv

LEMMA ListKeeps ==
  ASSUME SegmentsInv, NEW r \in Runners, List(r)
  PROVE  SegmentsInv'
<1>1. PICK left \in {exported, {Project}} :
        progress' = [progress EXCEPT ![r] =
                       [at |-> "plan", left |-> left, known |-> {}, plan |-> << >>]]
  BY DEF List, Goes
<1>2. PICK q : /\ q = [at |-> "plan", left |-> left, known |-> {}, plan |-> << >>]
               /\ progress' = [progress EXCEPT ![r] = q]
  BY <1>1
<1>3. left \subseteq Targets
  BY DEF SegmentsInv, TypeOK, Targets
<1>4. /\ q.at = "plan" /\ q.left = left /\ q.known = {} /\ q.plan = << >>
      /\ DOMAIN q = {"at", "left", "known", "plan"}
  BY <1>2
<1>5. << >> \in Seq(Entries)
  OBVIOUS
<1>6. Planned(q)
  BY <1>3, <1>4, <1>5 DEF Planned
<1> QED BY <1>2, <1>4, <1>6, OneGoesOn DEF List

LEMMA PlanKeeps ==
  ASSUME SegmentsInv, NEW r \in Runners, Plan(r)
  PROVE  SegmentsInv'
<1> DEFINE old == progress[r]
<1>2. Planned(old) /\ old.at = "plan"
  BY DEF SegmentsInv, Plan, At
<1> DEFINE known == IF old.known = {} THEN {Telemetry} ELSE old.known
           flights == known \ {None}
           contents(x, probed) == {Content(x, f, probed) : f \in flights} \ {None}
           entries(x, probed) == {[to |-> x, content |-> c] : c \in contents(x, probed)}
<1>3. PICK x \in old.left, probed \in BOOLEAN :
        progress' = [progress EXCEPT ![r] =
          IF file[x] # NoFile THEN [old EXCEPT !.left = old.left \ {x}]
          ELSE [old EXCEPT !.left = old.left \ {x}, !.known = known,
                           !.plan = old.plan \o SetToSeq(entries(x, probed))]]
  BY Zenon DEF Plan, Goes
<1> HIDE DEF old
<1>4. x \in Targets
  BY <1>2 DEF Planned
<1>5. \E f \in Flights \cup {None} : known = {f}
  <2>1. TypeOK
    BY DEF SegmentsInv
  <2> QED BY <1>2, <2>1, TelemetryIs DEF Planned
<1> HIDE DEF known
<1>6. flights = {} \/ \E f \in Flights : flights = {f}
  BY <1>5
<1> HIDE DEF flights
<1>7. entries(x, probed) = {} \/ \E e \in Entries : entries(x, probed) = {e}
  <2>1. CASE flights = {}
    BY <2>1
  <2>2. ASSUME NEW f \in Flights, flights = {f}
        PROVE  entries(x, probed) = {} \/ \E e \in Entries : entries(x, probed) = {e}
    <3>1. PICK c : c = Content(x, f, probed)
      OBVIOUS
    <3>2. contents(x, probed) = {c} \ {None}
      BY <2>2, <3>1
    <3>3. [to |-> x, content |-> c] \in Entries
      BY <1>4, <3>1 DEF Entries
    <3>4. CASE c = None
      <4>1. contents(x, probed) = {}
        BY <3>2, <3>4
      <4> QED BY <4>1
    <3>5. CASE c # None
      <4>1. contents(x, probed) = {c}
        BY <3>2, <3>5
      <4>2. entries(x, probed) = {[to |-> x, content |-> c]}
        BY <4>1
      <4> QED BY <3>3, <4>2
    <3> QED BY <3>4, <3>5
  <2> QED BY <1>6, <2>1, <2>2
<1>8. PICK new : new = SetToSeq(entries(x, probed))
  OBVIOUS
<1>9. new \in Seq(Entries)
  <2> HIDE DEF entries
  <2>1. entries(x, probed) \in SUBSET Entries
    BY <1>7
  <2> QED BY <1>7, <1>8, <2>1, FewAreASequence
<1>10. old.plan \o new \in Seq(Entries)
  BY <1>2, <1>9, ConcatProperties DEF Planned
<1>11. PICK q :
         /\ progress' = [progress EXCEPT ![r] = q]
         /\ \/ q = [old EXCEPT !.left = old.left \ {x}]
            \/ q = [old EXCEPT !.left = old.left \ {x}, !.known = known,
                               !.plan = old.plan \o new]
  <2> HIDE DEF entries
  <2> QED BY <1>3, <1>8
<1> HIDE DEF contents, entries
<1>12. /\ q.at = "plan" /\ DOMAIN q = DOMAIN old /\ q.left \subseteq old.left
       /\ q.known \in {known, old.known} /\ q.plan \in {old.plan, old.plan \o new}
  <2>1. DOMAIN old = {"at", "left", "known", "plan"}
    BY <1>2 DEF Planned
  <2>2. CASE q = [old EXCEPT !.left = old.left \ {x}]
    BY <1>2, <2>1, <2>2
  <2>3. CASE q = [old EXCEPT !.left = old.left \ {x}, !.known = known, !.plan = old.plan \o new]
    <3>1. PICK plan : plan = old.plan \o new
      OBVIOUS
    <3> QED BY <1>2, <2>1, <2>3, <3>1
  <2> QED BY <1>11, <2>2, <2>3
<1>13. Planned(q)
  BY <1>2, <1>5, <1>10, <1>12 DEF Planned
<1> QED BY <1>11, <1>12, <1>13, OneGoesOn DEF Plan

\* What is next to be written.
LEMMA NextIs ==
  ASSUME NEW q, Planned(q), q.at \in {"plan", "fill"}, q.plan # << >>
  PROVE  /\ Head(q.plan).to \in Targets
         /\ Written(Head(q.plan).to, Head(q.plan).content)
         /\ Tail(q.plan) \in Seq(Entries)
<1>1. q.plan \in Seq(Entries)
  BY DEF Planned
<1>2. PICK e \in Entries : e = Head(q.plan)
  BY <1>1, HeadTailProperties
<1>3. PICK x \in Targets, f \in Flights, probed \in BOOLEAN :
        e = [to |-> x, content |-> Content(x, f, probed)]
  BY DEF Entries
<1>4. e.to = x /\ e.content = Content(x, f, probed)
  BY <1>3
<1>5. Written(x, e.content)
  BY <1>4 DEF Written
<1> QED BY <1>1, <1>2, <1>4, <1>5, HeadTailProperties

LEMMA CreateKeeps ==
  ASSUME SegmentsInv, NEW r \in Runners, Create(r)
  PROVE  SegmentsInv'
<1> DEFINE old == progress[r]
           x == Head(old.plan).to
           at == IF file' = file THEN "plan" ELSE "fill"
           plan == IF file' = file THEN Tail(old.plan) ELSE old.plan
<1>1. Planned(old) /\ old.at = "plan" /\ old.plan # << >>
  BY DEF SegmentsInv, Create, At
<1>2. x \in Targets /\ Tail(old.plan) \in Seq(Entries)
  BY <1>1, NextIs
<1>3. progress' = [progress EXCEPT ![r] = [old EXCEPT !.at = at, !.plan = plan]]
  BY Zenon DEF Create, Goes
<1>4. PICK q : q = [old EXCEPT !.at = at, !.plan = plan] /\ progress' = [progress EXCEPT ![r] = q]
  BY <1>3
<1>5. UNCHANGED <<exported, source, changes>>
  BY DEF Create
<1>6. DOMAIN old = {"at", "left", "known", "plan"}
  BY <1>1 DEF Planned
<1>7. CASE file[x] = NoFile
  <2>1. PICK new : new = [by |-> r, content |-> None] /\ file' = [file EXCEPT ![x] = new]
    BY <1>7, Zenon DEF Create, Open
  <2>2. new # NoFile /\ new.content = None
    BY <2>1, NamesDiffer
  <2>3. file'[x] = new /\ \A y \in Targets \ {x} : file'[y] = file[y]
    BY <1>2, <2>1 DEF SegmentsInv, TypeOK
  <2>4. file' # file
    BY <1>7, <2>2, <2>3
  <2> HIDE DEF old, x
  <2>5. /\ DOMAIN q = {"at", "left", "known", "plan"} /\ q.at = "fill" /\ q.plan = old.plan
        /\ q.left = old.left /\ q.known = old.known
    BY <1>4, <1>6, <2>4
  <2>6. Planned(q)
    BY <1>1, <2>5 DEF Planned
  <2>7. \A s \in Runners : progress'[s] = IF s = r THEN q ELSE progress[s]
    BY <1>4 DEF SegmentsInv, TypeOK
\* Whoever fills a file fills one that is there.
  <2>8. ASSUME NEW s \in Runners, progress[s].at = "fill"
        PROVE  Head(progress[s].plan).to # x
    <3>1. PICK by \in {s, Person} :
            file[Head(progress[s].plan).to] = [by |-> by, content |-> None]
      BY <2>8 DEF SegmentsInv, Owns
    <3>2. [by |-> by, content |-> None] # NoFile
      BY NamesDiffer
    <3> QED BY <1>7, <3>1, <3>2
  <2>9. ASSUME NEW s \in Runners PROVE Planned(progress[s])' /\ Owns(s, progress[s])'
    <3>1. CASE s = r
      <4>1. Head(q.plan).to = x
        BY <2>5 DEF x, old
      <4> QED BY <2>1, <2>3, <2>6, <2>7, <3>1, <4>1 DEF Planned, Owns
    <3>2. CASE s # r
      <4>1. progress'[s] = progress[s] /\ Planned(progress[s]) /\ Owns(s, progress[s])
        BY <2>7, <3>2 DEF SegmentsInv
      <4>2. ASSUME progress[s].at = "fill"
            PROVE  file'[Head(progress[s].plan).to] = file[Head(progress[s].plan).to]
        <5>1. PICK y \in Targets : y = Head(progress[s].plan).to
          BY <4>1, <4>2, NextIs DEF Planned
        <5>2. y # x
          BY <2>8, <4>2, <5>1
        <5> QED BY <2>3, <5>1, <5>2
      <4>3. Owns(s, progress[s])'
        BY <4>1, <4>2 DEF Owns
      <4> QED BY <4>1, <4>3 DEF Planned
    <3> QED BY <3>1, <3>2
  <2>10. TypeOK'
    BY <1>4, <1>5, <2>1 DEF SegmentsInv, TypeOK
  <2>11. \A y \in Targets : Written(y, file[y].content)'
    BY <2>2, <2>3 DEF SegmentsInv, Written
  <2>12. Apart'
    <3>1. Head(q.plan).to = x
      BY <2>5 DEF x, old
    <3>2. \A s \in Runners \ {r} : progress'[s] = progress[s]
      BY <2>7
    <3> QED BY <2>7, <2>8, <3>1, <3>2 DEF SegmentsInv, Apart
  <2> QED BY <2>9, <2>10, <2>11, <2>12 DEF SegmentsInv
<1>8. CASE file[x] # NoFile
  <2>1. UNCHANGED file
    BY <1>8, Zenon DEF Create, Open
  <2> HIDE DEF old, x
  <2>2. /\ DOMAIN q = {"at", "left", "known", "plan"} /\ q.at = "plan"
        /\ q.plan = Tail(old.plan) /\ q.left = old.left /\ q.known = old.known
    BY <1>4, <1>6, <2>1
  <2>3. Planned(q)
    BY <1>1, <1>2, <2>2 DEF Planned
  <2> QED BY <1>4, <1>5, <2>1, <2>2, <2>3, OneGoesOn
<1> QED BY <1>7, <1>8

LEMMA FillKeeps ==
  ASSUME SegmentsInv, NEW r \in Runners, Fill(r)
  PROVE  SegmentsInv'
<1> DEFINE old == progress[r]
           x == Head(old.plan).to
<1>1. Planned(old) /\ old.at = "fill" /\ old.plan # << >> /\ Owns(r, old)
  BY DEF SegmentsInv, Fill, At, Planned
<1>2. x \in Targets /\ Written(x, Head(old.plan).content) /\ Tail(old.plan) \in Seq(Entries)
  BY <1>1, NextIs
<1>3. /\ DOMAIN file' = Targets /\ \A y \in Targets \ {x} : file'[y] = file[y]
      /\ file'[x].content \in {Head(old.plan).content, file[x].content}
  <2>1. CASE file' = [file EXCEPT ![x] = [by |-> r, content |-> Head(old.plan).content]]
    <3>1. PICK new : /\ new = [by |-> r, content |-> Head(old.plan).content]
                     /\ file' = [file EXCEPT ![x] = new]
      BY <2>1
    <3>2. new.content = Head(old.plan).content
      BY <3>1
    <3> QED BY <1>2, <3>1, <3>2 DEF SegmentsInv, TypeOK
  <2>2. CASE UNCHANGED file
    BY <2>2 DEF SegmentsInv, TypeOK
  <2> QED BY <2>1, <2>2 DEF Fill
<1>4. PICK q : /\ q = [old EXCEPT !.at = "plan", !.plan = Tail(old.plan)]
               /\ progress' = [progress EXCEPT ![r] = q]
  BY DEF Fill, Goes
<1>5. UNCHANGED <<exported, source, changes>>
  BY DEF Fill
<1>6. Written(x, file'[x].content)
  BY <1>2, <1>3 DEF SegmentsInv
<1>7. \A s \in Runners \ {r} : progress[s].at = "fill" => Head(progress[s].plan).to # x
  BY <1>1 DEF SegmentsInv, Apart
<1> HIDE DEF old, x
<1>8. /\ DOMAIN q = {"at", "left", "known", "plan"} /\ q.at = "plan"
      /\ q.plan = Tail(old.plan) /\ q.left = old.left /\ q.known = old.known
  BY <1>1, <1>4 DEF Planned
<1>9. Planned(q)
  BY <1>1, <1>2, <1>8 DEF Planned
<1>10. \A s \in Runners : progress'[s] = IF s = r THEN q ELSE progress[s]
  BY <1>4 DEF SegmentsInv, TypeOK
<1>11. ASSUME NEW s \in Runners PROVE Planned(progress[s])' /\ Owns(s, progress[s])'
  <2>1. CASE s = r
    BY <1>8, <1>9, <1>10, <2>1 DEF Planned, Owns
  <2>2. CASE s # r
    <3>1. progress'[s] = progress[s] /\ Planned(progress[s]) /\ Owns(s, progress[s])
      BY <1>10, <2>2 DEF SegmentsInv
    <3>2. ASSUME progress[s].at = "fill"
          PROVE  file'[Head(progress[s].plan).to] = file[Head(progress[s].plan).to]
      <4>1. PICK y \in Targets : y = Head(progress[s].plan).to
        BY <3>1, <3>2, NextIs DEF Planned
      <4> QED BY <1>3, <1>7, <2>2, <3>2, <4>1
    <3>3. Owns(s, progress[s])'
      BY <3>1, <3>2 DEF Owns
    <3> QED BY <3>1, <3>3 DEF Planned
  <2> QED BY <2>1, <2>2
<1>12. TypeOK'
  BY <1>3, <1>4, <1>5 DEF SegmentsInv, TypeOK
<1>13. \A y \in Targets : Written(y, file[y].content)'
  BY <1>3, <1>6 DEF SegmentsInv, Written
<1>14. Apart'
  BY <1>8, <1>10 DEF SegmentsInv, Apart
<1> QED BY <1>11, <1>12, <1>13, <1>14 DEF SegmentsInv

LEMMA LeaveKeeps ==
  ASSUME SegmentsInv, NEW r \in Runners, Leave(r)
  PROVE  SegmentsInv'
<1>1. PICK q : q = Idle /\ progress' = [progress EXCEPT ![r] = q]
  BY DEF Leave, Goes
<1>2. q.at = "idle"
  BY <1>1 DEF Idle
<1>3. Planned(q)
  BY <1>2 DEF Planned
<1> QED BY <1>1, <1>2, <1>3, OneGoesOn DEF Leave

\* What a person saves may be what a run fills.
LEMMA SaveKeeps ==
  ASSUME SegmentsInv, NEW x \in Targets, Save(x)
  PROVE  SegmentsInv'
<1>1. PICK new : new = [by |-> Person, content |-> None] /\ file' = [file EXCEPT ![x] = new]
  BY DEF Save
<1>2. UNCHANGED <<exported, source, progress>> /\ changes' = changes + 1
  BY DEF Save, Changes
<1>3. new.content = None
  BY <1>1
<1>4. file'[x] = new /\ \A y \in Targets \ {x} : file'[y] = file[y]
  BY <1>1 DEF SegmentsInv, TypeOK
<1>5. ASSUME NEW s \in Runners PROVE Planned(progress[s])' /\ Owns(s, progress[s])'
  <2>1. Planned(progress[s]) /\ Owns(s, progress[s])
    BY DEF SegmentsInv
  <2>2. ASSUME progress[s].at = "fill"
        PROVE  \E by \in {s, Person} :
                 file'[Head(progress[s].plan).to] = [by |-> by, content |-> None]
    <3>1. PICK y \in Targets : y = Head(progress[s].plan).to
      BY <2>1, <2>2, NextIs DEF Planned
    <3>2. CASE y = x
      BY <1>1, <1>4, <3>1, <3>2
    <3>3. CASE y # x
      BY <1>4, <2>1, <2>2, <3>1, <3>3 DEF Owns
    <3> QED BY <3>2, <3>3
  <2>3. Owns(s, progress[s])'
    BY <1>2, <2>2 DEF Owns
  <2> QED BY <1>2, <2>1, <2>3 DEF Planned
<1>6. TypeOK'
  BY <1>1, <1>2 DEF SegmentsInv, TypeOK
<1>7. \A y \in Targets : Written(y, file[y].content)'
  BY <1>3, <1>4 DEF SegmentsInv, Written
<1>8. Apart'
  BY <1>2 DEF SegmentsInv, Apart
<1> QED BY <1>5, <1>6, <1>7, <1>8 DEF SegmentsInv

\* The editor exports, and telemetry comes and goes.
LEMMA OthersKeep ==
  ASSUME SegmentsInv, UNCHANGED <<file, progress>>, TypeOK'
  PROVE  SegmentsInv'
<1>1. ASSUME NEW s \in Runners PROVE Planned(progress[s])' /\ Owns(s, progress[s])'
  <2>1. Planned(progress[s]) /\ Owns(s, progress[s])
    BY DEF SegmentsInv
  <2> QED BY <2>1 DEF Planned, Owns
<1>2. \A y \in Targets : Written(y, file[y].content)'
  BY DEF SegmentsInv, Written
<1>3. Apart'
  BY DEF SegmentsInv, Apart
<1> QED BY <1>1, <1>2, <1>3 DEF SegmentsInv

LEMMA SegmentsKeep ==
  ASSUME SegmentsInv, [SegmentsNext]_segmentVars
  PROVE  SegmentsInv'
<1>1. ASSUME NEW e \in Exports, Export(e) PROVE SegmentsInv'
  <2>1. /\ UNCHANGED <<source, file, progress>>
        /\ exported' = exported \cup {e} /\ changes' = changes + 1
    BY <1>1 DEF Export, Changes
  <2>2. TypeOK'
    BY <2>1 DEF SegmentsInv, TypeOK
  <2> QED BY <2>1, <2>2, OthersKeep
<1>2. ASSUME NEW k \in {"SRT", "DUMP", "MP4"}, Move(k) PROVE SegmentsInv'
  <2>1. UNCHANGED <<exported, file, progress>> /\ changes' = changes + 1
    BY <1>2 DEF Move, Changes
  <2>2. source' \in [{"SRT", "DUMP", "MP4"} -> Flights \cup {None}]
    BY <1>2 DEF SegmentsInv, TypeOK, Move
  <2>3. TypeOK'
    BY <2>1, <2>2 DEF SegmentsInv, TypeOK
  <2> QED BY <2>1, <2>3, OthersKeep
<1>3. CASE UNCHANGED segmentVars
  <2>1. TypeOK'
    BY <1>3 DEF SegmentsInv, TypeOK, segmentVars
  <2> QED BY <1>3, <2>1, OthersKeep DEF segmentVars
<1> QED
  BY <1>1, <1>2, <1>3, ListKeeps, PlanKeeps, CreateKeeps, FillKeeps, LeaveKeeps, SaveKeeps
  DEF SegmentsNext, Runs

-----------------------------------------------------------------------------
(* Theorems *)

\* The inductive invariant: what is planned and written follows from a flight, and what a run
\* fills is as it created it.
THEOREM SegmentsInvariant == SegmentsSpec => []SegmentsInv
<1>1. SegmentsInit => SegmentsInv
  BY SegmentsBegin
<1>2. SegmentsInv /\ [SegmentsNext]_segmentVars => SegmentsInv'
  BY SegmentsKeep
<1> QED BY <1>1, <1>2, PTL DEF SegmentsSpec

\* What was written is right for the telemetry it was made from.
THEOREM FilesFollow == SegmentsSpec => []FilesFollowTheFlight
<1>1. ASSUME SegmentsInv PROVE FilesFollowTheFlight
  <2>1. SUFFICES ASSUME NEW x \in Targets, NEW content, content = file[x].content, content # None
                 PROVE  IF x = Project THEN ProjectFits(content) ELSE SidecarFits(x, content)
    BY DEF FilesFollowTheFlight
  <2>2. PICK f \in Flights, probed \in BOOLEAN : content = Content(x, f, probed)
    BY <1>1, <2>1 DEF SegmentsInv, Written
  <2>3. CASE x = Project
    BY <2>1, <2>2, <2>3, SuggestionIs DEF Content
  <2>4. CASE x # Project
    <3>1. x \in Exports /\ content = Sidecar(f, x, probed)
      BY <2>2, <2>4 DEF Content, Targets
    <3> QED BY <2>1, <2>4, <3>1, SidecarIs
  <2> QED BY <2>3, <2>4
<1> QED BY <1>1, SegmentsInvariant, PTL

\* A file that is there is changed by the run that made it, when it fills it, or by a person,
\* of whom it takes only what he saves while it does.
THEOREM FilesAreKept == SegmentsSpec => NothingIsOverwritten
<1> DEFINE Kept ==
      \A x \in Targets :
        file[x] # NoFile /\ file'[x] # file[x] =>
          \/ changes' # changes
          \/ \E r \in Runners : file[x].by \in {r, Person} /\ Filling(r, x) /\ Fill(r)
<1>1. ASSUME SegmentsInv, [SegmentsNext]_segmentVars PROVE Kept
  <2>1. SUFFICES ASSUME NEW x \in Targets, file[x] # NoFile, file'[x] # file[x], changes' = changes
                 PROVE  \E r \in Runners : file[x].by \in {r, Person} /\ Filling(r, x) /\ Fill(r)
    OBVIOUS
  <2>2. changes' # changes + 1
    BY <1>1, <2>1 DEF SegmentsInv, TypeOK
  <2>3. PICK r \in Runners : Create(r) \/ Fill(r)
    BY <1>1, <2>1, <2>2 DEF SegmentsNext, segmentVars, Runs, List, Plan, Leave, Export, Move, Save,
       Changes
  <2>4. Planned(progress[r]) /\ Owns(r, progress[r]) /\ DOMAIN file = Targets
    BY <1>1 DEF SegmentsInv, TypeOK
  <2>5. ~Create(r)
    BY <2>1, <2>4 DEF Create, Open
  <2>6. Fill(r) /\ progress[r].at = "fill"
    BY <2>3, <2>5 DEF Fill, At
  <2>7. PICK y \in Targets : y = Head(progress[r].plan).to
    BY <2>4, <2>6, NextIs DEF Planned
  <2>8. x = y
    BY <2>1, <2>4, <2>6, <2>7 DEF Fill
  <2>9. file[x].by \in {r, Person} /\ Filling(r, x)
    BY <2>4, <2>6, <2>7, <2>8 DEF Owns, Filling, At
  <2> QED BY <2>6, <2>9
<1> HIDE DEF Kept
<1>2. SegmentsInv /\ [SegmentsNext]_segmentVars => [Kept]_segmentVars
  BY <1>1
<1>3. SegmentsSpec => [][Kept]_segmentVars
  BY <1>2, SegmentsInvariant, PTL DEF SegmentsSpec
<1> QED BY <1>3 DEF Kept, NothingIsOverwritten

-----------------------------------------------------------------------------
(* Tracks *)

Span == [from : Nat, to : Nat]

\* A track of the first windows, of which none but the last segment reaches the end.
TrackTo(track, labels, end) ==
  /\ track \in Seq(Span) /\ track # <<>>
  /\ track[1].from = 0 /\ track[Len(track)].to = end
  /\ \A k \in DOMAIN track : track[k].from < track[k].to
  /\ \A k \in DOMAIN track : k # Len(track) => track[k].to < end
  /\ \A k \in 2..Len(track) : track[k].from = track[k - 1].to
  /\ \A n \in 1..(end - 1) :
       labels[n] # labels[n + 1] <=> \E k \in DOMAIN track : track[k].to = n

\* The recursive function of Track over the first windows.
Windows(f, labels, m) ==
  f = [n \in 0..m |-> IF n = 0 THEN <<>> ELSE Extended(f[n - 1], labels, n)]

\* There is one: a least number of windows without it would have one before it.
LEMMA WindowsExist ==
  ASSUME NEW labels
  PROVE  \A m \in Nat : \E f : Windows(f, labels, m)
<1> DEFINE Without == {m \in Nat : ~ \E f : Windows(f, labels, m)}
<1>1. SUFFICES Without = {}
  BY Zenon
<1>2. SUFFICES ASSUME Without # {} PROVE FALSE
  OBVIOUS
<1>3. PICK m \in Without : \A x \in Without : m <= x
  BY <1>2, Smallest, Zenon
<1>4. CASE m = 0
  <2>1. Windows([n \in 0..0 |-> <<>>], labels, 0)
    BY DEF Windows
  <2> QED BY <1>4, <2>1, <1>3
<1>5. CASE m # 0
  <2>1. m \in Nat /\ m - 1 \in Nat /\ m - 1 \notin Without
    BY <1>3, <1>5
  <2>2. PICK f : Windows(f, labels, m - 1)
    BY <2>1
  <2>3. PICK g : g = [n \in 0..m |-> IF n = m THEN Extended(f[m - 1], labels, m) ELSE f[n]]
    OBVIOUS
  <2>4. \A n \in 0..(m - 1) : g[n] = f[n]
    BY <2>1, <2>3
  <2>5. ASSUME NEW n \in 0..m
        PROVE  g[n] = IF n = 0 THEN <<>> ELSE Extended(g[n - 1], labels, n)
    <3>1. CASE n = m
      <4>1. g[n - 1] = f[m - 1] /\ g[n] = Extended(f[m - 1], labels, m)
        BY <2>1, <2>3, <2>4, <3>1
      <4> QED BY <4>1, <3>1, <1>5
    <3>2. CASE n # m /\ n # 0
      <4>1. n \in 0..(m - 1) /\ n - 1 \in 0..(m - 1)
        BY <3>2, <2>1
      <4>2. g[n] = f[n] /\ g[n - 1] = f[n - 1]
        BY <2>4, <4>1
      <4>3. f[n] = Extended(f[n - 1], labels, n)
        BY <2>2, <4>1, <3>2 DEF Windows
      <4> QED BY <4>2, <4>3, <3>2
    <3>3. CASE n # m /\ n = 0
      <4>1. n \in 0..(m - 1)
        BY <3>3, <2>1
      <4>2. f[n] = <<>>
        BY <2>2, <4>1, <3>3 DEF Windows
      <4> QED BY <2>4, <4>1, <4>2, <3>3
    <3> QED BY <3>1, <3>2, <3>3
  <2>6. Windows(g, labels, m)
    <3>1. g = [n \in 0..m |-> g[n]]
      BY <2>3
    <3>2. [n \in 0..m |-> g[n]]
            = [n \in 0..m |-> IF n = 0 THEN <<>> ELSE Extended(g[n - 1], labels, n)]
      BY <2>5, Zenon
    <3> QED BY <3>1, <3>2, Zenon DEF Windows
  <2> QED BY <2>6, <1>3
<1> QED BY <1>4, <1>5

\* Another window makes a track of one window more.
LEMMA ExtendedMeets ==
  ASSUME NEW labels, NEW end \in Nat \ {0}, NEW track, TrackTo(track, labels, end)
  PROVE  TrackTo(Extended(track, labels, end + 1), labels, end + 1)
<1>1. PICK last : last = Len(track)
  OBVIOUS
<1>2. track \in Seq(Span) /\ track # <<>>
  BY DEF TrackTo
<1>3. last \in Nat \ {0} /\ DOMAIN track = 1..last /\ \A k \in 1..last : track[k] \in Span
  BY <1>1, <1>2
<1>4. /\ track[1].from = 0 /\ track[last].to = end
      /\ \A k \in 1..last : track[k].from < track[k].to
      /\ \A k \in 1..last : k # last => track[k].to < end
      /\ \A k \in 2..last : track[k].from = track[k - 1].to
      /\ \A n \in 1..(end - 1) :
           labels[n] # labels[n + 1] <=> \E k \in 1..last : track[k].to = n
  BY <1>1, <1>3, Zenon DEF TrackTo
<1>5. \A k \in 1..last : track[k].from \in Nat /\ track[k].to \in Nat
  BY <1>3 DEF Span
<1>6. \A k \in 1..last : track[k] = [from |-> track[k].from, to |-> track[k].to]
  BY <1>3 DEF Span
<1>7. (end + 1) - 1 = end /\ end + 1 > 1 /\ end \in 1..end
  OBVIOUS
<1>8. CASE labels[end + 1] = labels[end]
  <2>1. PICK t : t = [track EXCEPT ![last].to = end + 1]
    OBVIOUS
  <2>2. Extended(track, labels, end + 1) = t
    BY <1>1, <1>7, <1>8, <2>1 DEF Extended
  <2>3. DOMAIN t = 1..last /\ (\A k \in 1..last : k # last => t[k] = track[k])
    BY <1>3, <2>1
  <2>4. t[last] = [from |-> track[last].from, to |-> end + 1]
    <3>1. t[last] = [track[last] EXCEPT !.to = end + 1]
      BY <1>3, <2>1
    <3> QED BY <3>1, <1>3, <1>6
  <2>5. t \in Seq(Span) /\ Len(t) = last /\ t # <<>>
    <3>1. \A k \in 1..last : t[k] \in Span
      BY <1>3, <1>5, <2>3, <2>4 DEF Span
    <3>2. t = [k \in 1..last |-> t[k]]
      BY <1>3, <2>1
    <3>3. t \in [1..last -> Span]
      BY <3>1, <3>2
    <3>4. t \in Seq(Span)
      BY <3>3, <1>3
    <3>5. Len(t) = last
      BY <3>4, <2>3, <1>3
    <3> QED BY <3>4, <3>5, <1>3
  <2>6. /\ \A k \in 1..last : t[k].from = track[k].from
        /\ \A k \in 1..last : k # last => t[k].to = track[k].to
        /\ t[last].to = end + 1
    BY <2>3, <2>4
  <2>7. \A k \in 1..last : t[k].from < t[k].to
    BY <1>3, <1>4, <1>5, <2>6
  <2>8. \A k \in 1..last : k # last => t[k].to < end
    BY <1>4, <2>6
  <2>9. \A k \in 2..last : t[k].from = t[k - 1].to
    BY <1>3, <1>4, <2>6
  <2>10. ASSUME NEW n \in 1..end
         PROVE  labels[n] # labels[n + 1] <=> \E k \in 1..last : t[k].to = n
    <3>1. CASE n = end
      <4>1. \A k \in 1..last : t[k].to # end
        BY <1>3, <1>5, <2>6, <2>8
      <4> QED BY <3>1, <1>8, <4>1
    <3>2. CASE n # end
      <4>1. n \in 1..(end - 1) /\ n # end + 1
        BY <3>2
      <4>2. \A k \in 1..last : t[k].to = n <=> track[k].to = n
        BY <1>4, <2>6, <3>2, <4>1
      <4> QED BY <4>1, <4>2, <1>4
    <3> QED BY <3>1, <3>2
  <2>11. \A k \in 1..last : k # last => t[k].to < end + 1
    BY <1>5, <2>6, <2>8
  <2>12. t[1].from = 0
    BY <1>3, <1>4, <2>6
  <2>13. \A n \in 1..((end + 1) - 1) :
           labels[n] # labels[n + 1] <=> \E k \in 1..last : t[k].to = n
    BY <1>7, <2>10, Zenon
  <2>14. t[last].to = end + 1
    BY <2>6
  <2>15. TrackTo(t, labels, end + 1)
    BY <2>3, <2>5, <2>7, <2>9, <2>11, <2>12, <2>13, <2>14, Zenon DEF TrackTo
  <2> QED BY <2>2, <2>15, Zenon
<1>9. CASE labels[end + 1] # labels[end]
  <2>1. PICK t : t = Append(track, [from |-> end, to |-> end + 1])
    OBVIOUS
  <2>2. Extended(track, labels, end + 1) = t
    BY <1>7, <1>9, <2>1 DEF Extended
  <2>3. [from |-> end, to |-> end + 1] \in Span
    BY DEF Span
  <2>4. /\ t \in Seq(Span) /\ Len(t) = last + 1 /\ DOMAIN t = 1..(last + 1)
        /\ \A k \in 1..last : t[k] = track[k]
        /\ t[last + 1] = [from |-> end, to |-> end + 1]
    BY <1>1, <1>2, <1>3, <2>1, <2>3
  <2>5. t[last + 1].from = end /\ t[last + 1].to = end + 1
    BY <2>4
  <2>6. \A k \in 1..(last + 1) : t[k].from < t[k].to
    BY <1>3, <1>4, <2>4, <2>5
  <2>7. ASSUME NEW k \in 1..last PROVE t[k].to <= end
    <3>1. t[k].to = track[k].to /\ track[k].to \in Nat
      BY <1>5, <2>4
    <3>2. k = last => track[k].to = end
      BY <1>4
    <3>3. k # last => track[k].to < end
      BY <1>4
    <3> QED BY <3>1, <3>2, <3>3
  <2>8. \A k \in 2..(last + 1) : t[k].from = t[k - 1].to
    BY <1>3, <1>4, <2>4, <2>5
  <2>9. ASSUME NEW n \in 1..end
        PROVE  labels[n] # labels[n + 1] <=> \E k \in 1..(last + 1) : t[k].to = n
    <3>1. CASE n = end
      <4>1. last \in 1..(last + 1) /\ t[last].to = end
        BY <1>3, <1>4, <2>4
      <4> QED BY <3>1, <1>9, <4>1
    <3>2. CASE n # end
      <4>1. n \in 1..(end - 1) /\ n # end + 1
        BY <3>2
      <4>2. \A k \in 1..(last + 1) : t[k].to = n <=> k \in 1..last /\ track[k].to = n
        BY <1>3, <2>4, <2>5, <4>1
      <4>3. 1..last \subseteq 1..(last + 1)
        BY <1>3
      <4> QED BY <4>1, <4>2, <4>3, <1>4
    <3> QED BY <3>1, <3>2
  <2>10. \A k \in 1..(last + 1) : k # last + 1 => t[k].to < end + 1
    BY <1>3, <1>5, <2>4, <2>7
  <2>11. t[1].from = 0 /\ t # <<>>
    BY <1>3, <1>4, <2>4
  <2>12. \A n \in 1..((end + 1) - 1) :
           labels[n] # labels[n + 1] <=> \E k \in 1..(last + 1) : t[k].to = n
    BY <1>7, <2>9, Zenon
  <2>13. TrackTo(t, labels, end + 1)
    BY <2>4, <2>5, <2>6, <2>8, <2>10, <2>11, <2>12, Zenon DEF TrackTo
  <2> QED BY <2>2, <2>13, Zenon
<1> QED BY <1>8, <1>9

LEMMA FirstWindow ==
  ASSUME NEW labels
  PROVE  TrackTo(Extended(<<>>, labels, 1), labels, 1)
<1>1. PICK t : t = <<[from |-> 0, to |-> 1]>>
  OBVIOUS
<1>2. Extended(<<>>, labels, 1) = t
  BY <1>1 DEF Extended
<1>3. t \in Seq(Span) /\ Len(t) = 1 /\ t[1] = [from |-> 0, to |-> 1]
  BY <1>1 DEF Span
<1> QED BY <1>2, <1>3 DEF TrackTo

\* After each window the track is one of the windows so far.
LEMMA WindowsMeet ==
  ASSUME NEW labels, NEW m \in Nat, NEW f, Windows(f, labels, m)
  PROVE  \A n \in 1..m : TrackTo(f[n], labels, n)
<1> DEFINE Bad == {n \in 1..m : ~ TrackTo(f[n], labels, n)}
<1>1. SUFFICES ASSUME Bad # {} PROVE FALSE
  BY Zenon
<1>2. Bad \subseteq Nat
  OBVIOUS
<1>3. PICK n \in Bad : \A x \in Bad : n <= x
  BY <1>1, <1>2, Smallest, Zenon
<1>4. n \in 1..m /\ ~ TrackTo(f[n], labels, n)
  BY <1>3
<1>5. f[n] = Extended(f[n - 1], labels, n)
  BY <1>4 DEF Windows
<1>6. CASE n = 1
  <2>1. f[0] = <<>>
    BY DEF Windows
  <2>2. f[1] = Extended(<<>>, labels, 1)
    BY <1>5, <1>6, <2>1
  <2> QED BY <1>4, <1>6, <2>2, FirstWindow
<1>7. CASE n # 1
  <2>1. n - 1 \in 1..m /\ n - 1 \notin Bad /\ n - 1 \in Nat \ {0} /\ (n - 1) + 1 = n
    BY <1>3, <1>4, <1>7
  <2>2. TrackTo(f[n - 1], labels, n - 1)
    BY <2>1
  <2>3. TrackTo(Extended(f[n - 1], labels, (n - 1) + 1), labels, (n - 1) + 1)
    BY <2>1, <2>2, ExtendedMeets, Zenon
  <2> QED BY <1>4, <1>5, <2>1, <2>3
<1> QED BY <1>6, <1>7

\* What segment_track makes of a take, of any length and with any movements: segments that
\* follow one another and meet just where the movement changes.
THEOREM TrackMeets ==
  ASSUME Duration \in Nat \ {0}, NEW labels \in [1..Duration -> Movements]
  PROVE  Meets(Track(labels), labels)
<1> DEFINE upto[n \in 0..Duration] ==
             IF n = 0 THEN <<>> ELSE Extended(upto[n - 1], labels, n)
<1>1. Track(labels) = upto[Duration]
  BY DEF Track
<1>2. \E f : Windows(f, labels, Duration)
  BY WindowsExist
<1>3. Windows(upto, labels, Duration)
  BY <1>2, Zenon DEF Windows
<1> HIDE DEF upto
<1>4. TrackTo(upto[Duration], labels, Duration)
  BY <1>3, WindowsMeet
<1> QED BY <1>1, <1>4 DEF TrackTo, Meets
=============================================================================
