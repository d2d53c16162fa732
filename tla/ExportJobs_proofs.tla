---------------------------- MODULE ExportJobs_proofs ----------------------------
(***************************************************************************)
(* For every set of candidates, cuts and requests, and however often       *)
(* people change their minds, originals are replaced and the server stops: *)
(* a folder holds what was decided and still wanted, and a job leaves one. *)
(*                                                                         *)
(* Several tasks may hold one job, but only the one that found it pending  *)
(* works on it, though one that could not take it up may call it FAILED    *)
(* under its hands: the invariant says so, what that task has picked and   *)
(* made so far, and that the file it is about to look at again is right or *)
(* its original is gone for good.                                          *)
(***************************************************************************)
EXTENDS ExportJobs, TLAPS

Wanted == UNION {[K -> Cuts] : K \in SUBSET Candidates}
Made == UNION {[K -> [cut : Cuts, good : BOOLEAN]] : K \in SUBSET Candidates}
Statuses == {"ABSENT"} \cup Active \cup Ended
Places == {"idle", "queued", "failing", "done"} \cup Working

JobRow == [status : Statuses, wants : Wanted]
TaskRow == [at : Places, job : Requests \cup {NoJob}, left : SUBSET Candidates,
            picked : Wanted, files : Made]

Type ==
  /\ chosen \in Wanted
  /\ job \in [Requests -> JobRow]
  /\ task \in [Requests -> TaskRow]
  /\ folders \subseteq [job : Requests, by : Requests, files : Made]
  /\ original \in [Assets -> BOOLEAN]

\* A request that was not made yet has no job.
Unasked == \A t \in Requests : task[t].at = "idle" => job[t].status = "ABSENT"

\* Task t has taken its job up and not let go of it.
Holds(t) == task[t].at \in Working

\* A job is taken up by one task, and while that works on it nobody else can take it up:
\* it is running, or has been called failed.
Alone ==
  /\ \A t \in Requests : Holds(t) =>
       task[t].job \in Requests /\ job[task[t].job].status \in {"RUNNING", "FAILED"}
  /\ \A t, u \in Requests : Holds(t) /\ Holds(u) /\ task[t].job = task[u].job => t = u

Waiting(t) ==
  /\ task[t].at \in {"queued", "failing"} =>
       task[t].job \in Requests /\ job[task[t].job].status # "ABSENT"
  /\ task[t].at = "queued" => task[t].picked = <<>> /\ task[t].files = <<>>

\* What the task has picked is what was wanted and, at some time of the run, in force.
Picked(t) ==
  LET r == task[t].job
      K == DOMAIN Wants(t)
  IN /\ task[t].left \subseteq K
     /\ DOMAIN task[t].picked = IF task[t].at = "check" THEN K \ task[t].left ELSE K
     /\ \A k \in DOMAIN task[t].picked : /\ task[t].picked[k] = Wants(t)[k]
                                        /\ <<k, Wants(t)[k]>> \in held[r]

\* File k is cut as it was wanted, from the registered original.
Right(t, k) == task[t].files[k].cut = Wants(t)[k] /\ task[t].files[k].good

\* What the task has made is right, but for the file it has not looked at again: that is
\* right, too, or its original is another one.
Finished(t) ==
  LET K == DOMAIN Wants(t)
      files == task[t].files
  IN /\ task[t].at = "check" => files = <<>>
     /\ task[t].at = "render" =>
          DOMAIN files = K \ task[t].left /\ \A k \in DOMAIN files : Right(t, k)
     /\ task[t].at = "recheck" =>
          \E k \in First(task[t].left) :
            /\ DOMAIN files = (K \ task[t].left) \cup {k}
            /\ \A l \in DOMAIN files \ {k} : Right(t, l)
            /\ files[k].cut = Wants(t)[k]
            /\ files[k].good \/ ~original[AssetOf[k]]
     /\ task[t].at \in {"publish", "commit"} =>
          DOMAIN files = K /\ \A k \in K : Right(t, k)

Progress(t) == task[t].at \in Working => Picked(t) /\ Finished(t)

Decided(f) ==
  /\ DOMAIN f.files = DOMAIN job[f.job].wants
  /\ \A k \in DOMAIN f.files : /\ f.files[k].cut = job[f.job].wants[k]
                               /\ <<k, f.files[k].cut>> \in held[f.job]
                               /\ f.files[k].good

\* The job of a folder has been taken up, and a task that still works on it made that folder.
Left(f) ==
  /\ job[f.job].status \notin {"ABSENT", "PENDING"}
  /\ \A t \in Requests : task[t].at \in Working /\ task[t].job = f.job => task[t].at = "commit"

Folders ==
  /\ \A f \in folders : Decided(f) /\ Left(f)
  /\ \A t \in Requests : task[t].at = "commit" => \E f \in folders : f.job = task[t].job
  /\ OneFolderPerJob

IInv ==
  /\ Type
  /\ Unasked
  /\ Alone
  /\ \A t \in Requests : Waiting(t) /\ Progress(t)
  /\ Folders

-----------------------------------------------------------------------------
(* Maps on candidates *)

Maps(S) == UNION {[K -> S] : K \in SUBSET Candidates}

LEMMA MapsAre == Wanted = Maps(Cuts) /\ Made = Maps([cut : Cuts, good : BOOLEAN])
BY DEF Wanted, Made, Maps

LEMMA MapIs ==
  ASSUME NEW S, NEW f \in Maps(S)
  PROVE /\ DOMAIN f \subseteq Candidates /\ f \in [DOMAIN f -> S]
        /\ \A k \in DOMAIN f : f[k] \in S
BY DEF Maps

LEMMA EmptyMap ==
  ASSUME NEW S
  PROVE <<>> \in Maps(S) /\ DOMAIN <<>> = {}
<1>1. <<>> = [k \in {} |-> {}]
  OBVIOUS
<1>2. <<>> \in [{} -> S] /\ DOMAIN <<>> = {}
  BY <1>1
<1> QED BY <1>2 DEF Maps

LEMMA WithIs ==
  ASSUME NEW S, NEW f \in Maps(S), NEW k \in Candidates, NEW v \in S
  PROVE With(f, k, v) \in Maps(S)
<1>1. DOMAIN f \cup {k} \in SUBSET Candidates
  BY MapIs
<1>2. With(f, k, v) \in [DOMAIN f \cup {k} -> S]
  BY MapIs DEF With
<1> QED BY <1>1, <1>2 DEF Maps

\* A decision leaves a map of candidates to cuts.
LEMMA DecideKeepsType ==
  ASSUME chosen \in Wanted, Decide
  PROVE chosen' \in Wanted
<1>1. PICK k \in Candidates : Withdraw(k) \/ \E cut \in Cuts : Include(k, cut)
  BY DEF Decide
<1>2. chosen \in Maps(Cuts)
  BY MapsAre
<1>3. DOMAIN chosen \subseteq Candidates /\ \A x \in DOMAIN chosen : chosen[x] \in Cuts
  BY <1>2, MapIs
<1>4. CASE Withdraw(k)
  <2>1. chosen' \in [DOMAIN chosen \ {k} -> Cuts]
    BY <1>3, <1>4 DEF Withdraw
  <2> QED BY <1>3, <2>1, MapsAre DEF Maps
<1>5. ASSUME NEW cut \in Cuts, Include(k, cut)
      PROVE chosen' \in Wanted
  <2>1. chosen' \in [DOMAIN chosen \cup {k} -> Cuts]
    BY <1>3, <1>5 DEF Include
  <2> QED BY <1>3, <2>1, MapsAre DEF Maps
<1> QED BY <1>1, <1>4, <1>5

-----------------------------------------------------------------------------
(* What a step leaves as it is *)

\* A job keeps what it wants, the history and the loss of an original stay.
Steady ==
  /\ \A r \in Requests : job[r].status # "ABSENT" =>
       job'[r].wants = job[r].wants /\ job'[r].status # "ABSENT"
  /\ \A r \in Requests : held[r] \subseteq held'[r]
  /\ \A k \in Candidates : ~original[AssetOf[k]] => ~original'[AssetOf[k]]

LEMMA HeldGrows ==
  ASSUME Remember
  PROVE \A r \in Requests : held[r] \subseteq held'[r]
BY DEF Remember

LEMMA WorkerRow ==
  ASSUME IInv, NEW t \in Requests, Holds(t)
  PROVE /\ task[t] \in TaskRow /\ task[t].job \in Requests
        /\ job[task[t].job] \in JobRow /\ job[task[t].job].status \in {"RUNNING", "FAILED"}
        /\ Wants(t) \in Wanted /\ DOMAIN Wants(t) \subseteq Candidates
        /\ \A k \in DOMAIN Wants(t) : Wants(t)[k] \in Cuts
<1>1. /\ task[t] \in TaskRow /\ task[t].job \in Requests
      /\ job[task[t].job] \in JobRow /\ job[task[t].job].status \in {"RUNNING", "FAILED"}
  BY DEF IInv, Type, Alone
<1>2. Wants(t) \in Wanted
  BY <1>1 DEF JobRow, Wants
<1> QED BY <1>1, <1>2, MapsAre, MapIs

\* A task that does nothing is where it was.
LEMMA TaskStays ==
  ASSUME IInv, Steady, NEW t \in Requests, task'[t] = task[t]
  PROVE Waiting(t)' /\ Progress(t)'
<1>1. Waiting(t) /\ Progress(t)
  BY DEF IInv
<1>2. Waiting(t)'
  BY <1>1 DEF Waiting, Steady
<1>3. ASSUME task[t].at \in Working
      PROVE Picked(t)' /\ Finished(t)'
  <2>1. Holds(t) /\ Picked(t) /\ Finished(t)
    BY <1>1, <1>3 DEF Holds, Progress
  <2>2. task[t].job \in Requests /\ job[task[t].job].status \in {"RUNNING", "FAILED"}
    BY <2>1, WorkerRow
  <2>3. Wants(t)' = Wants(t)
    BY <2>2 DEF Wants, Steady
  <2>4. Picked(t)'
    BY <2>1, <2>2, <2>3 DEF Picked, Steady
  <2>5. \A k : Right(t, k)' = Right(t, k)
    BY <2>3 DEF Right
  <2>6. task[t].left \subseteq Candidates
    BY <2>1, WorkerRow DEF TaskRow
  <2>7. Finished(t)'
    BY <2>1, <2>3, <2>5, <2>6 DEF Finished, Steady, First
  <2> QED BY <2>4, <2>7
<1> QED BY <1>2, <1>3 DEF Progress

LEMMA FolderStays ==
  ASSUME IInv, Steady, NEW f \in folders
  PROVE f.job \in Requests /\ Decided(f)'
<1>1. f.job \in Requests /\ Decided(f) /\ Left(f)
  BY DEF IInv, Type, Folders
<1>2. job[f.job].status # "ABSENT"
  BY <1>1 DEF Left
<1> QED BY <1>1, <1>2 DEF Decided, Steady

\* A step of a task that works on, and has no more to say of the folders.
LEMMA WorksOn ==
  ASSUME IInv, NEW t \in Requests, NEW row \in TaskRow, Goes(t, row),
         UNCHANGED <<chosen, job, folders, original>>, Remember,
         task[t].at \in Working, row.job = task[t].job,
         row.at \in (Working \ {"commit"}) \cup {"failing"},
         task[t].at = "commit" => row.at = "failing",
         Progress(t)'
  PROVE IInv'
<1>1. task'[t] = row /\ \A u \in Requests \ {t} : task'[u] = task[u]
  BY DEF Goes, IInv, Type
<1>2. Type'
  BY DEF Goes, IInv, Type
<1>3. Steady
  BY HeldGrows DEF Steady
<1>4. Unasked'
  BY <1>1 DEF IInv, Unasked, Working
<1>5. \A u \in Requests : (Holds(u)' => Holds(u)) /\ task'[u].job = task[u].job
  BY <1>1 DEF Holds
<1>6. Alone'
  BY <1>5 DEF IInv, Alone
<1>7. \A u \in Requests : Waiting(u)' /\ Progress(u)'
  <2>1. Waiting(t)'
    BY <1>1 DEF Waiting, Working, IInv, Alone, Holds
  <2> QED BY <1>1, <1>3, <2>1, TaskStays
<1>8. Folders'
  <2>1. ASSUME NEW f \in folders
        PROVE Left(f)'
    BY <1>1 DEF IInv, Folders, Left, Working
  <2>2. \A u \in Requests : task'[u].at = "commit" =>
          task[u].at = "commit" /\ task'[u].job = task[u].job
    BY <1>1
  <2> QED BY <1>3, <2>1, <2>2, FolderStays DEF IInv, Folders, OneFolderPerJob
<1> QED BY <1>2, <1>4, <1>6, <1>7, <1>8 DEF IInv

LEMMA GivesUp ==
  ASSUME IInv, NEW t \in Requests, task[t].at \in Working, Step(t, "failing"),
         UNCHANGED <<chosen, job, folders, original>>, Remember
  PROVE IInv'
<1> DEFINE row == [task[t] EXCEPT !.at = "failing"]
<1>1. row \in TaskRow /\ row.at = "failing" /\ row.job = task[t].job
  BY DEF IInv, Type, TaskRow, Places
<1>2. Goes(t, row)
  BY DEF Step
<1> HIDE DEF row
<1>3. Progress(t)'
  BY <1>1, <1>2 DEF Goes, IInv, Type, Progress, Working
<1> QED BY <1>1, <1>2, <1>3, WorksOn

-----------------------------------------------------------------------------
(* The work of a task *)

\* Candidates are done one by one.
LEMMA FirstIsOne ==
  ASSUME NEW S \in SUBSET Candidates, NEW k \in First(S)
  PROVE k \in S /\ k \in Candidates /\ \A l \in First(S) : l = k
<1>1. k \in S /\ \A l \in S : k <= l /\ k \in Nat /\ l \in Nat
  BY ExportAssumption DEF First
<1>2. \A l \in First(S) : l \in S /\ l <= k
  BY <1>1 DEF First
<1> QED BY <1>1, <1>2

\* What is in force while a task works on the job goes into the history.
LEMMA InForceIsHeld ==
  ASSUME IInv, Remember, UNCHANGED chosen, NEW t \in Requests, Holds(t),
         Holds(t)', task'[t].job = task[t].job, NEW k \in DOMAIN chosen
  PROVE <<k, chosen[k]>> \in held'[task[t].job]
<1>1. task[t].job \in Requests
  BY WorkerRow
<1>2. <<k, chosen[k]>> \in Pairs(chosen')
  BY DEF Pairs
<1> QED BY <1>1, <1>2 DEF Remember, Holds

LEMMA CheckKeeps ==
  ASSUME IInv, NEW t \in Requests, Check(t), UNCHANGED chosen, Remember
  PROVE IInv'
<1>1. task[t].at = "check" /\ Holds(t) /\ UNCHANGED <<job, folders, original>>
  BY DEF Check, At, Holds, Working
<1>2. PICK k \in First(task[t].left) :
        LET left == task[t].left \ {k} IN
        IF StillWanted(t, k) /\ original[AssetOf[k]]
        THEN Goes(t, [task[t] EXCEPT
                        !.picked = With(@, k, chosen[k]),
                        !.left = IF left = {} THEN DOMAIN Wants(t) ELSE left,
                        !.at = IF left = {} THEN "render" ELSE "check"])
        ELSE Step(t, "failing")
  BY DEF Check
<1>3. CASE Step(t, "failing")
  BY <1>1, <1>3, GivesUp DEF Working
<1>4. CASE StillWanted(t, k) /\ ~Step(t, "failing")
  <2> DEFINE K == DOMAIN Wants(t)
             rest == task[t].left \ {k}
             picked == With(task[t].picked, k, chosen[k])
             left == IF rest = {} THEN K ELSE rest
             at == IF rest = {} THEN "render" ELSE "check"
             row == [task[t] EXCEPT !.picked = picked, !.left = left, !.at = at]
  <2>1. /\ task[t] \in TaskRow /\ K \subseteq Candidates /\ task[t].job \in Requests
        /\ Picked(t) /\ Finished(t)
    BY <1>1, WorkerRow DEF IInv, Progress, Working
  <2>2. k \in task[t].left /\ k \in K /\ k \in Candidates /\ task[t].left \subseteq K
    BY <2>1, FirstIsOne DEF TaskRow, Picked
  <2>3. k \in DOMAIN chosen /\ chosen[k] = Wants(t)[k] /\ chosen[k] \in Cuts
    BY <1>4, MapsAre, MapIs DEF StillWanted, IInv, Type
  <2>4. task[t].picked \in Maps(Cuts)
    BY <2>1, MapsAre DEF TaskRow
  <2>5. /\ picked \in Wanted /\ DOMAIN picked = DOMAIN task[t].picked \cup {k}
        /\ picked[k] = Wants(t)[k]
        /\ \A l \in DOMAIN task[t].picked \ {k} : picked[l] = task[t].picked[l]
    <3>1. picked \in Maps(Cuts)
      BY <2>2, <2>3, <2>4, WithIs
    <3>2. /\ DOMAIN picked = DOMAIN task[t].picked \cup {k}
          /\ picked[k] = chosen[k]
          /\ \A l \in DOMAIN task[t].picked \ {k} : picked[l] = task[t].picked[l]
      BY DEF With
    <3> HIDE DEF picked
    <3> QED BY <2>3, <3>1, <3>2, MapsAre
  <2>6. left \subseteq K /\ left \in SUBSET Candidates /\ at \in {"render", "check"}
        /\ (at = "check" => left = rest) /\ (at = "render" => left = K /\ rest = {})
    BY <2>1, <2>2
  <2>7. Goes(t, row)
    BY <1>2, <1>4
  <2> HIDE DEF picked, left, at
  <2>8. /\ row \in TaskRow /\ row.at = at /\ row.picked = picked /\ row.left = left
        /\ row.job = task[t].job /\ row.files = task[t].files
    BY <2>1, <2>5, <2>6 DEF TaskRow, Places, Working
  <2> HIDE DEF row
  <2>9. task'[t] = row
    BY <2>7 DEF Goes, IInv, Type
  <2>10. Wants(t)' = Wants(t)
    BY <1>1, <2>8, <2>9 DEF Wants
  <2>11. Picked(t)'
    <3>1. DOMAIN task[t].picked = K \ task[t].left
      BY <1>1, <2>1 DEF Picked
    <3>2. DOMAIN picked = K \ rest
      BY <2>2, <2>5, <3>1
    <3>3. ASSUME NEW l \in DOMAIN picked
          PROVE picked[l] = Wants(t)[l] /\ <<l, Wants(t)[l]>> \in held'[task[t].job]
      <4>1. CASE l = k
        <5>1. Holds(t)' /\ task'[t].job = task[t].job
          BY <2>6, <2>8, <2>9 DEF Holds, Working
        <5> QED BY <1>1, <2>3, <2>5, <4>1, <5>1, InForceIsHeld
      <4>2. CASE l # k
        BY <2>1, <2>5, <4>2, HeldGrows DEF Picked
      <4> QED BY <4>1, <4>2
    <3> QED BY <2>6, <2>8, <2>9, <2>10, <3>2, <3>3 DEF Picked
  <2>12. Finished(t)'
    <3>1. task[t].files = <<>>
      BY <1>1, <2>1 DEF Finished
    <3> QED BY <2>6, <2>8, <2>9, <2>10, <3>1, EmptyMap DEF Finished
  <2>13. Progress(t)'
    BY <2>11, <2>12 DEF Progress
  <2> QED BY <1>1, <2>6, <2>7, <2>8, <2>13, WorksOn DEF Working
<1> QED BY <1>2, <1>3, <1>4

LEMMA RenderKeeps ==
  ASSUME IInv, NEW t \in Requests, Render(t), UNCHANGED chosen, Remember
  PROVE IInv'
<1>1. task[t].at = "render" /\ Holds(t) /\ UNCHANGED <<job, folders, original>>
  BY DEF Render, At, Holds, Working
<1>2. PICK k \in First(task[t].left) :
        \/ Step(t, "failing")
        \/ Goes(t, [task[t] EXCEPT
                      !.at = "recheck",
                      !.files = With(@, k, [cut |-> task[t].picked[k],
                                            good |-> original[AssetOf[k]]])])
  BY DEF Render
<1>3. CASE Step(t, "failing")
  BY <1>1, <1>3, GivesUp DEF Working
<1>4. CASE ~Step(t, "failing")
  <2> DEFINE K == DOMAIN Wants(t)
             file == [cut |-> task[t].picked[k], good |-> original[AssetOf[k]]]
             files == With(task[t].files, k, file)
             row == [task[t] EXCEPT !.at = "recheck", !.files = files]
  <2>1. /\ task[t] \in TaskRow /\ K \subseteq Candidates /\ task[t].job \in Requests
        /\ Picked(t) /\ Finished(t) /\ \A l \in K : Wants(t)[l] \in Cuts
    BY <1>1, WorkerRow DEF IInv, Progress, Working
  <2>2. /\ k \in task[t].left /\ k \in K /\ k \in Candidates /\ task[t].left \subseteq K
        /\ task[t].picked[k] = Wants(t)[k] /\ DOMAIN task[t].picked = K
    BY <1>1, <2>1, FirstIsOne DEF TaskRow, Picked
  <2>3. original[AssetOf[k]] \in BOOLEAN
    BY <2>2, ExportAssumption DEF IInv, Type, Assets
  <2>4. /\ file \in [cut : Cuts, good : BOOLEAN] /\ file.cut = Wants(t)[k]
        /\ file.good = original[AssetOf[k]]
    BY <2>1, <2>2, <2>3
  <2>5. Goes(t, row)
    BY <1>2, <1>4
  <2> HIDE DEF file
  <2>6. task[t].files \in Maps([cut : Cuts, good : BOOLEAN])
    BY <2>1, MapsAre DEF TaskRow
  <2>7. /\ files \in Made /\ DOMAIN files = DOMAIN task[t].files \cup {k}
        /\ files[k] = file
        /\ \A l \in DOMAIN task[t].files \ {k} : files[l] = task[t].files[l]
    <3>1. files \in Maps([cut : Cuts, good : BOOLEAN])
      BY <2>2, <2>4, <2>6, WithIs
    <3>2. /\ DOMAIN files = DOMAIN task[t].files \cup {k}
          /\ files[k] = file
          /\ \A l \in DOMAIN task[t].files \ {k} : files[l] = task[t].files[l]
      BY DEF With
    <3> HIDE DEF files
    <3> QED BY <3>1, <3>2, MapsAre
  <2> HIDE DEF files
  <2>8. /\ row \in TaskRow /\ row.at = "recheck" /\ row.picked = task[t].picked
        /\ row.left = task[t].left /\ row.job = task[t].job /\ row.files = files
    BY <2>1, <2>7 DEF TaskRow, Places, Working
  <2> HIDE DEF row
  <2>9. task'[t] = row
    BY <2>5 DEF Goes, IInv, Type
  <2>10. Wants(t)' = Wants(t)
    BY <1>1, <2>8, <2>9 DEF Wants
  <2>11. Picked(t)'
    BY <1>1, <2>1, <2>8, <2>9, <2>10, HeldGrows DEF Picked
  <2>12. Finished(t)'
    <3>1. DOMAIN task[t].files = K \ task[t].left /\ \A l \in DOMAIN task[t].files : Right(t, l)
      BY <1>1, <2>1 DEF Finished
    <3>2. \A l \in DOMAIN files \ {k} : Right(t, l)'
      BY <2>7, <2>8, <2>9, <2>10, <3>1 DEF Right
    <3>3. DOMAIN files = (K \ task[t].left) \cup {k}
      BY <2>7, <3>1
    <3>4. files[k].cut = Wants(t)[k] /\ (files[k].good \/ ~original'[AssetOf[k]])
      BY <1>1, <2>4, <2>7
    <3> QED BY <2>8, <2>9, <2>10, <3>2, <3>3, <3>4 DEF Finished, First
  <2>13. Progress(t)'
    BY <2>11, <2>12 DEF Progress
  <2> QED BY <1>1, <2>5, <2>8, <2>13, WorksOn DEF Working
<1> QED BY <1>3, <1>4

LEMMA RecheckKeeps ==
  ASSUME IInv, NEW t \in Requests, Recheck(t), UNCHANGED chosen, Remember
  PROVE IInv'
<1>1. task[t].at = "recheck" /\ Holds(t) /\ UNCHANGED <<job, folders, original>>
  BY DEF Recheck, At, Holds, Working
<1>2. PICK k \in First(task[t].left) :
        LET left == task[t].left \ {k} IN
        IF Rechecked(AssetOf[k])
        THEN Goes(t, [task[t] EXCEPT !.at = IF left = {} THEN "publish" ELSE "render",
                                     !.left = left])
        ELSE Step(t, "failing")
  BY DEF Recheck
<1>3. CASE Step(t, "failing")
  BY <1>1, <1>3, GivesUp DEF Working
<1>4. CASE Rechecked(AssetOf[k]) /\ ~Step(t, "failing")
  <2> DEFINE K == DOMAIN Wants(t)
             rest == task[t].left \ {k}
             at == IF rest = {} THEN "publish" ELSE "render"
             row == [task[t] EXCEPT !.at = at, !.left = rest]
  <2>1. /\ task[t] \in TaskRow /\ K \subseteq Candidates /\ task[t].job \in Requests
        /\ Picked(t) /\ Finished(t)
    BY <1>1, WorkerRow DEF IInv, Progress, Working
  <2>2. k \in task[t].left /\ k \in K /\ task[t].left \subseteq K /\ rest \subseteq K
    BY <2>1, FirstIsOne DEF TaskRow, Picked
  <2>3. at \in {"publish", "render"} /\ (at = "publish" => rest = {})
    OBVIOUS
  <2>4. Goes(t, row)
    BY <1>2, <1>4
  <2> HIDE DEF at
  <2>5. /\ row \in TaskRow /\ row.at = at /\ row.picked = task[t].picked
        /\ row.left = rest /\ row.job = task[t].job /\ row.files = task[t].files
    BY <2>1, <2>2, <2>3 DEF TaskRow, Places, Working
  <2> HIDE DEF row
  <2>6. task'[t] = row
    BY <2>4 DEF Goes, IInv, Type
  <2>7. Wants(t)' = Wants(t)
    BY <1>1, <2>5, <2>6 DEF Wants
  <2>8. Picked(t)'
    BY <1>1, <2>1, <2>2, <2>3, <2>5, <2>6, <2>7, HeldGrows DEF Picked
  <2>9. DOMAIN task[t].files = K \ rest /\ \A l \in K \ rest : Right(t, l)
    <3>1. PICK j \in First(task[t].left) :
            /\ DOMAIN task[t].files = (K \ task[t].left) \cup {j}
            /\ \A l \in DOMAIN task[t].files \ {j} : Right(t, l)
            /\ task[t].files[j].cut = Wants(t)[j]
            /\ task[t].files[j].good \/ ~original[AssetOf[j]]
      BY <1>1, <2>1 DEF Finished
    <3>2. j = k
      BY <2>1, FirstIsOne DEF TaskRow
    <3>3. Right(t, k)
      BY <1>4, <3>1, <3>2 DEF Right, Rechecked
    <3>4. K \ rest = (K \ task[t].left) \cup {k}
      BY <2>2
    <3> QED BY <3>1, <3>2, <3>3, <3>4
  <2>10. Finished(t)'
    <3>1. \A l \in K \ rest : Right(t, l)'
      BY <2>5, <2>6, <2>7, <2>9 DEF Right
    <3>2. CASE at = "render"
      BY <2>5, <2>6, <2>7, <2>9, <3>1, <3>2 DEF Finished
    <3>3. CASE at = "publish"
      BY <2>3, <2>5, <2>6, <2>7, <2>9, <3>1, <3>3 DEF Finished
    <3> QED BY <2>3, <3>2, <3>3
  <2>11. Progress(t)'
    BY <2>8, <2>10 DEF Progress
  <2> QED BY <1>1, <2>3, <2>4, <2>5, <2>11, WorksOn DEF Working
<1> QED BY <1>2, <1>3, <1>4


\* The folder is the only one of its job, as nobody else has held it.
LEMMA PublishKeeps ==
  ASSUME IInv, NEW t \in Requests, Publish(t), UNCHANGED chosen, Remember
  PROVE IInv'
<1> DEFINE row == [task[t] EXCEPT !.at = "commit"]
<1>1. /\ task[t].at = "publish" /\ Holds(t) /\ UNCHANGED <<job, original>> /\ Goes(t, row)
  BY DEF Publish, At, Holds, Working, Step
<1>2. /\ task[t] \in TaskRow /\ task[t].job \in Requests
      /\ job[task[t].job].status \in {"RUNNING", "FAILED"} /\ Picked(t) /\ Finished(t)
  BY <1>1, WorkerRow DEF IInv, Progress, Working
<1>3. PICK new \in [job : Requests, by : Requests, files : Made] :
        /\ new.job = task[t].job /\ new.files = task[t].files
        /\ folders' = folders \cup {new}
  BY <1>2 DEF TaskRow, Publish
<1>4. /\ row \in TaskRow /\ row.at = "commit" /\ row.picked = task[t].picked
      /\ row.left = task[t].left /\ row.job = task[t].job /\ row.files = task[t].files
  BY <1>2 DEF TaskRow, Places, Working
<1> HIDE DEF row
<1>5. task'[t] = row /\ \A u \in Requests \ {t} : task'[u] = task[u]
  BY <1>1 DEF Goes, IInv, Type
<1>6. Type'
  BY <1>1, <1>3, <1>4 DEF Goes, IInv, Type
<1>7. Steady
  BY <1>1, HeldGrows DEF Steady
<1>8. Unasked'
  BY <1>1, <1>4, <1>5 DEF IInv, Unasked
<1>9. \A u \in Requests : Holds(u)' = Holds(u) /\ (Holds(u) => task'[u].job = task[u].job)
  BY <1>1, <1>4, <1>5 DEF Holds, Working
<1>10. Alone'
  BY <1>1, <1>9 DEF IInv, Alone
<1>11. \A u \in Requests : Waiting(u)' /\ Progress(u)'
  <2>1. Wants(t)' = Wants(t)
    BY <1>1, <1>4, <1>5 DEF Wants
  <2>2. Picked(t)'
    BY <1>1, <1>2, <1>4, <1>5, <2>1, HeldGrows DEF Picked
  <2>3. Finished(t)'
    BY <1>1, <1>2, <1>4, <1>5, <2>1 DEF Finished, Right
  <2>4. Waiting(t)'
    BY <1>4, <1>5 DEF Waiting
  <2> QED BY <1>5, <1>7, <2>2, <2>3, <2>4, TaskStays DEF Progress
<1>12. \A f \in folders : f.job # task[t].job
  BY <1>1 DEF IInv, Folders, Left, Holds
<1>13. Decided(new)'
  <2>1. DOMAIN new.files = DOMAIN Wants(t) /\ DOMAIN task[t].picked = DOMAIN Wants(t)
    BY <1>1, <1>2, <1>3 DEF Finished, Picked
  <2>2. \A k \in DOMAIN Wants(t) : /\ new.files[k].cut = Wants(t)[k] /\ new.files[k].good
                                   /\ <<k, Wants(t)[k]>> \in held'[new.job]
    <3>1. \A k \in DOMAIN Wants(t) : <<k, Wants(t)[k]>> \in held[task[t].job]
      BY <2>1, <1>2 DEF Picked
    <3>2. held[task[t].job] \subseteq held'[new.job]
      BY <1>2, <1>3, HeldGrows
    <3> QED BY <1>1, <1>2, <1>3, <2>1, <3>1, <3>2 DEF Finished, Right
  <2>3. job'[new.job].wants = Wants(t)
    BY <1>1, <1>3 DEF Wants
  <2> QED BY <2>1, <2>2, <2>3 DEF Decided
<1>14. Folders'
  <2>1. ASSUME NEW f \in folders
        PROVE Left(f)'
    BY <1>1, <1>4, <1>5 DEF IInv, Folders, Left
  <2>2. Left(new)'
    <3>1. \A u \in Requests \ {t} : task[u].at \in Working => task[u].job # task[t].job
      BY <1>1 DEF IInv, Alone, Holds
    <3> QED BY <1>1, <1>2, <1>3, <1>4, <1>5, <3>1 DEF Left
  <2>3. \A f \in folders' : Decided(f)' /\ Left(f)'
    BY <1>3, <1>7, <1>13, <2>1, <2>2, FolderStays
  <2>4. \A u \in Requests : task'[u].at = "commit" => \E f \in folders' : f.job = task'[u].job
    BY <1>1, <1>3, <1>4, <1>5 DEF IInv, Folders
  <2>5. OneFolderPerJob'
    <3>1. \A f, g \in folders' : f.job = g.job => f = g
      BY <1>1, <1>3, <1>12 DEF IInv, Folders, OneFolderPerJob
    <3>2. \A r \in Requests : job'[r].status = "COMPLETE" => \E f \in folders' : f.job = r
      BY <1>1, <1>3 DEF IInv, Folders, OneFolderPerJob
    <3> QED BY <3>1, <3>2 DEF OneFolderPerJob
  <2> QED BY <2>3, <2>4, <2>5 DEF Folders
<1> QED BY <1>6, <1>8, <1>10, <1>11, <1>14 DEF IInv

-----------------------------------------------------------------------------
(* The row of a job *)

LEMMA StatusChanges ==
  ASSUME IInv, NEW r \in Requests, NEW s \in Statuses,
         job' = [job EXCEPT ![r].status = s]
  PROVE /\ job' \in [Requests -> JobRow]
        /\ job'[r].status = s /\ job'[r].wants = job[r].wants
        /\ \A q \in Requests \ {r} : job'[q] = job[q]
<1> DEFINE row == [job[r] EXCEPT !.status = s]
<1>1. job \in [Requests -> JobRow]
  BY DEF IInv, Type
<1>2. row \in JobRow /\ row.status = s /\ row.wants = job[r].wants
  BY <1>1 DEF JobRow
<1>3. job' = [job EXCEPT ![r] = row]
  OBVIOUS
<1> HIDE DEF row
<1> QED BY <1>1, <1>2, <1>3

\* A task lets go of what it had, and the row of its job says how it ended: COMPLETE by the
\* task that committed it, FAILED by any.
LEMMA LetsGo ==
  ASSUME IInv, NEW t \in Requests, Step(t, "done"),
         NEW s \in Ended, job' = [job EXCEPT ![task[t].job].status = s],
         \/ s = "COMPLETE" /\ task[t].at = "commit"
         \/ s = "FAILED" /\ task[t].at = "failing",
         UNCHANGED <<chosen, folders, original>>, Remember
  PROVE IInv'
<1> DEFINE r == task[t].job
           row == [task[t] EXCEPT !.at = "done"]
<1>1. task[t] \in TaskRow /\ r \in Requests /\ job[r].status # "ABSENT"
  BY DEF IInv, Type, Alone, Holds, Working, Waiting
<1>2. row \in TaskRow /\ row.at = "done"
  BY <1>1 DEF TaskRow, Places
<1>3. Goes(t, row)
  BY DEF Step
<1> HIDE DEF row
<1>4. task'[t] = row /\ \A u \in Requests \ {t} : task'[u] = task[u]
  BY <1>3 DEF Goes, IInv, Type
<1>5. /\ job' \in [Requests -> JobRow]
      /\ job'[r].status = s /\ job'[r].wants = job[r].wants
      /\ \A q \in Requests \ {r} : job'[q] = job[q]
  BY <1>1, StatusChanges DEF Statuses
<1> HIDE DEF r
<1>6. Type'
  BY <1>2, <1>3, <1>5 DEF Goes, IInv, Type
<1>7. Steady
  BY <1>1, <1>5, HeldGrows DEF Steady, Ended
<1>8. Unasked'
  BY <1>1, <1>2, <1>4, <1>5 DEF IInv, Unasked
<1>9. \A u \in Requests : Holds(u)' =>
        Holds(u) /\ task'[u] = task[u] /\ (task[u].job = r => s = "FAILED")
  BY <1>2, <1>4 DEF Holds, Working, IInv, Alone, r
<1>10. Alone'
  <2>1. \A u \in Requests : Holds(u) =>
          task[u].job \in Requests /\ job[task[u].job].status \in {"RUNNING", "FAILED"}
    BY DEF IInv, Alone
  <2>2. \A u \in Requests : Holds(u)' =>
          task'[u].job \in Requests /\ job'[task'[u].job].status \in {"RUNNING", "FAILED"}
    BY <1>5, <1>9, <2>1
  <2>3. \A u, v \in Requests : Holds(u)' /\ Holds(v)' /\ task'[u].job = task'[v].job => u = v
    BY <1>9 DEF IInv, Alone
  <2> QED BY <2>2, <2>3 DEF Alone
<1>11. \A u \in Requests : Waiting(u)' /\ Progress(u)'
  <2>1. Waiting(t)' /\ Progress(t)'
    BY <1>2, <1>4 DEF Waiting, Progress, Working
  <2> QED BY <1>4, <1>7, <2>1, TaskStays
<1>12. Folders'
  <2>1. ASSUME NEW f \in folders
        PROVE Left(f)'
    <3>1. Left(f) /\ f.job \in Requests
      BY DEF IInv, Folders, Type
    <3>2. job'[f.job].status \notin {"ABSENT", "PENDING"}
      BY <1>5, <3>1 DEF Left, Ended
    <3>3. \A u \in Requests : Holds(u)' => task'[u] = task[u]
      BY <1>9
    <3> QED BY <1>9, <3>1, <3>2, <3>3 DEF Left, Holds
  <2>2. \A u \in Requests : task'[u].at = "commit" => task'[u] = task[u]
    BY <1>2, <1>4
  <2>3. s = "COMPLETE" => \E f \in folders : f.job = r
    BY DEF IInv, Folders, r
  <2>4. OneFolderPerJob'
    BY <1>5, <2>3 DEF IInv, Folders, OneFolderPerJob
  <2> QED BY <1>7, <2>1, <2>2, <2>4, FolderStays DEF IInv, Folders
<1> QED BY <1>6, <1>8, <1>10, <1>11, <1>12 DEF IInv

LEMMA EndKeeps ==
  ASSUME IInv, NEW t \in Requests, Commit(t) \/ Fail(t), UNCHANGED chosen, Remember
  PROVE IInv'
<1>1. CASE Commit(t)
  BY <1>1, LetsGo DEF Commit, At, Ended
<1>2. CASE Fail(t)
  BY <1>2, LetsGo DEF Fail, At, Ended
<1> QED BY <1>1, <1>2

\* A task that has nothing in its hands goes, and nothing is written.
LEMMA GoesQuietly ==
  ASSUME IInv, NEW t \in Requests, task[t].at \in {"queued", "failing"},
         NEW at \in {"failing", "done"}, Step(t, at),
         UNCHANGED <<chosen, job, folders, original>>, Remember
  PROVE IInv'
<1> DEFINE row == [task[t] EXCEPT !.at = at]
<1>1. row \in TaskRow /\ row.at = at /\ row.job = task[t].job
  BY DEF IInv, Type, TaskRow, Places
<1>2. Goes(t, row)
  BY DEF Step
<1> HIDE DEF row
<1>3. task'[t] = row /\ \A u \in Requests \ {t} : task'[u] = task[u]
  BY <1>2 DEF Goes, IInv, Type
<1>4. Type'
  BY <1>1, <1>2 DEF Goes, IInv, Type
<1>5. Steady
  BY HeldGrows DEF Steady
<1>6. Unasked'
  BY <1>1, <1>3 DEF IInv, Unasked
<1>7. \A u \in Requests : Holds(u)' => Holds(u) /\ task'[u] = task[u]
  BY <1>1, <1>3 DEF Holds, Working
<1>8. Alone'
  BY <1>7 DEF IInv, Alone
<1>9. \A u \in Requests : Waiting(u)' /\ Progress(u)'
  <2>1. Waiting(t)' /\ Progress(t)'
    BY <1>1, <1>3 DEF IInv, Waiting, Progress, Working
  <2> QED BY <1>3, <1>5, <2>1, TaskStays
<1>10. Folders'
  <2>1. \A f \in folders : Left(f)'
    BY <1>7 DEF IInv, Folders, Left, Holds
  <2>2. \A u \in Requests : task'[u].at = "commit" => task'[u] = task[u]
    BY <1>1, <1>3
  <2> QED BY <1>5, <2>1, <2>2, FolderStays DEF IInv, Folders, OneFolderPerJob
<1> QED BY <1>4, <1>6, <1>8, <1>9, <1>10 DEF IInv

LEMMA BreakKeeps ==
  ASSUME IInv, NEW t \in Requests, Break(t) \/ Lose(t), UNCHANGED chosen, Remember
  PROVE IInv'
<1>1. CASE Break(t)
  BY <1>1, GivesUp, GoesQuietly DEF Break
<1>2. CASE Lose(t)
  BY <1>2, GoesQuietly DEF Lose, At
<1> QED BY <1>1, <1>2

\* A task that comes too late ends; the first one takes the job up.
LEMMA StartKeeps ==
  ASSUME IInv, NEW t \in Requests, Start(t), UNCHANGED chosen, Remember
  PROVE IInv'
<1> DEFINE r == task[t].job
<1>1. /\ task[t].at = "queued" /\ UNCHANGED <<folders, original>>
      /\ task[t] \in TaskRow /\ r \in Requests /\ job[r] \in JobRow
      /\ task[t].picked = <<>> /\ task[t].files = <<>>
  BY DEF Start, At, IInv, Waiting, Type
<1>2. ASSUME NEW row \in TaskRow, Goes(t, row), row.at \in {"check", "done"}, row.job = r,
             job' \in [Requests -> JobRow],
             \A q \in Requests \ {r} : job'[q] = job[q],
             job'[r].wants = job[r].wants,
             \/ row.at = "done" /\ job'[r] = job[r]
             \/ row.at = "check" /\ job[r].status = "PENDING" /\ job'[r].status = "RUNNING",
             Progress(t)'
      PROVE IInv'
  <2>1. task'[t] = row /\ \A u \in Requests \ {t} : task'[u] = task[u]
    BY <1>2 DEF Goes, IInv, Type
  <2> HIDE DEF r
  <2>2. Type'
    BY <1>1, <1>2 DEF Goes, IInv, Type
  <2>3. Steady
    BY <1>1, <1>2, HeldGrows DEF Steady
  <2>4. Unasked'
    BY <1>1, <1>2, <2>1, <2>3 DEF IInv, Unasked
  <2>5. \A u \in Requests \ {t} : Holds(u)' => Holds(u) /\ task'[u].job = task[u].job
    BY <2>1 DEF Holds
  <2>6. \A u \in Requests : Holds(u) =>
          task[u].job \in Requests /\ job[task[u].job].status \in {"RUNNING", "FAILED"}
    BY DEF IInv, Alone
  <2>7. Holds(t)' => row.at = "check" /\ task'[t].job = r
    BY <1>2, <2>1 DEF Holds, Working
  <2>8. Alone'
    <3>1. \A u \in Requests : Holds(u)' =>
            task'[u].job \in Requests /\ job'[task'[u].job].status \in {"RUNNING", "FAILED"}
      BY <1>1, <1>2, <2>1, <2>5, <2>6, <2>7
    <3>2. ASSUME NEW u \in Requests, NEW v \in Requests, Holds(u)', Holds(v)',
                 task'[u].job = task'[v].job
          PROVE u = v
      BY <1>2, <2>1, <2>5, <2>6, <2>7, <3>2 DEF IInv, Alone
    <3> QED BY <3>1, <3>2 DEF Alone
  <2>9. \A u \in Requests : Waiting(u)' /\ Progress(u)'
    <3>1. Waiting(t)'
      BY <1>2, <2>1 DEF Waiting
    <3> QED BY <1>2, <2>1, <2>3, <3>1, TaskStays
  <2>10. Folders'
    <3>1. ASSUME NEW f \in folders
          PROVE Left(f)'
      <4>1. Left(f) /\ f.job \in Requests
        BY DEF IInv, Folders, Type
      <4>2. f.job # r \/ row.at = "done"
        BY <1>2, <4>1 DEF Left
      <4>3. job'[f.job].status = job[f.job].status
        BY <1>2, <4>1, <4>2
      <4>4. \A u \in Requests : task'[u].at \in Working /\ task'[u].job = f.job =>
              task'[u] = task[u]
        BY <1>2, <2>1, <4>2 DEF Working
      <4> QED BY <4>1, <4>3, <4>4 DEF Left
    <3>2. \A u \in Requests : task'[u].at = "commit" => task'[u] = task[u]
      BY <1>2, <2>1
    <3>3. \A q \in Requests : job'[q].status = "COMPLETE" => job[q].status = "COMPLETE"
      BY <1>2
    <3> QED BY <1>1, <2>3, <3>1, <3>2, <3>3, FolderStays DEF IInv, Folders, OneFolderPerJob
  <2> QED BY <2>2, <2>4, <2>8, <2>9, <2>10 DEF IInv
<1>3. CASE Starts(t)
  <2> DEFINE row == [task[t] EXCEPT !.at = "check", !.left = DOMAIN Wants(t)]
  <2>1. DOMAIN Wants(t) \in SUBSET Candidates
    BY <1>1, MapsAre, MapIs DEF Wants, JobRow
  <2>2. /\ row \in TaskRow /\ row.at = "check" /\ row.job = r /\ row.left = DOMAIN Wants(t)
        /\ row.picked = <<>> /\ row.files = <<>>
    BY <1>1, <2>1 DEF TaskRow, Places, Working
  <2>3. Goes(t, row) /\ job' = [job EXCEPT ![r].status = "RUNNING"] /\ job[r].status = "PENDING"
    BY <1>3 DEF Start, Starts
  <2> HIDE DEF row
  <2>4. /\ job' \in [Requests -> JobRow]
        /\ job'[r].status = "RUNNING" /\ job'[r].wants = job[r].wants
        /\ \A q \in Requests \ {r} : job'[q] = job[q]
    BY <1>1, <2>3, StatusChanges DEF Statuses, Active
  <2>5. Progress(t)'
    <3>1. task'[t] = row /\ Wants(t)' = Wants(t)
      BY <1>1, <2>2, <2>3, <2>4 DEF Goes, IInv, Type, Wants
    <3> QED BY <2>2, <3>1, EmptyMap DEF Progress, Picked, Finished
  <2> QED BY <1>2, <2>2, <2>3, <2>4, <2>5
<1>4. CASE ~Starts(t)
  <2> DEFINE row == [task[t] EXCEPT !.at = "done"]
  <2>1. row \in TaskRow /\ row.at = "done" /\ row.job = r
    BY <1>1 DEF TaskRow, Places
  <2>2. Goes(t, row) /\ job' = job
    BY <1>4 DEF Start, Step
  <2> HIDE DEF row
  <2>3. Progress(t)'
    BY <2>1, <2>2 DEF Progress, Goes, IInv, Type, Working
  <2>4. job' \in [Requests -> JobRow]
    BY <2>2 DEF IInv, Type
  <2> QED BY <1>2, <2>1, <2>2, <2>3, <2>4
<1> QED BY <1>3, <1>4

-----------------------------------------------------------------------------
(* Requests, people, the share and the server *)

LEMMA NoTaskRow == NoTask \in TaskRow
<1>1. <<>> \in Wanted /\ <<>> \in Made
  BY EmptyMap, MapsAre
<1> QED BY <1>1 DEF NoTask, TaskRow, Places

LEMMA ExportKeeps ==
  ASSUME IInv, NEW t \in Requests, Export(t), UNCHANGED chosen, Remember
  PROVE IInv'
<1>1. task[t].at = "idle" /\ job[t].status = "ABSENT" /\ UNCHANGED <<folders, original>>
  BY DEF Export, At, IInv, Unasked
<1>2. ASSUME NEW r \in Requests, Goes(t, [NoTask EXCEPT !.at = "queued", !.job = r]),
             job' \in [Requests -> JobRow],
             \A q \in Requests \ {t} : job'[q] = job[q],
             job'[t].status \in {"ABSENT", "PENDING"}, job'[r].status # "ABSENT"
      PROVE IInv'
  <2> DEFINE row == [NoTask EXCEPT !.at = "queued", !.job = r]
  <2>1. /\ row \in TaskRow /\ row.at = "queued" /\ row.job = r
        /\ row.picked = <<>> /\ row.files = <<>>
    <3>1. /\ row.at = "queued" /\ row.job = r /\ row.left = NoTask.left
          /\ row.picked = <<>> /\ row.files = <<>>
      BY DEF NoTask
    <3> QED BY <3>1, NoTaskRow DEF TaskRow, Places
  <2>2. task' = [task EXCEPT ![t] = row]
    BY <1>2 DEF Goes
  <2> HIDE DEF row
  <2>3. task'[t] = row /\ \A u \in Requests \ {t} : task'[u] = task[u]
    BY <2>2 DEF IInv, Type
  <2>4. Type'
    BY <1>1, <1>2, <2>1, <2>2 DEF IInv, Type
  <2>5. Steady
    BY <1>1, <1>2, HeldGrows DEF Steady
  <2>6. Unasked'
    BY <1>2, <2>1, <2>3 DEF IInv, Unasked
  <2>7. \A u \in Requests : Holds(u)' => Holds(u) /\ task'[u] = task[u] /\ task[u].job # t
    BY <1>1, <2>1, <2>3 DEF Holds, Working, IInv, Alone
  <2>8. Alone'
    BY <1>2, <2>7 DEF IInv, Alone
  <2>9. \A u \in Requests : Waiting(u)' /\ Progress(u)'
    <3>1. Waiting(t)' /\ Progress(t)'
      BY <1>2, <2>1, <2>3 DEF Waiting, Progress, Working
    <3> QED BY <2>3, <2>5, <3>1, TaskStays
  <2>10. Folders'
    <3>1. ASSUME NEW f \in folders
          PROVE Left(f)'
      <4>1. Left(f) /\ f.job \in Requests
        BY DEF IInv, Folders, Type
      <4>2. f.job # t
        BY <1>1, <4>1 DEF Left
      <4>3. job'[f.job].status = job[f.job].status
        BY <1>2, <4>1, <4>2
      <4> QED BY <2>7, <4>1, <4>3 DEF Left, Holds
    <3>2. \A u \in Requests : task'[u].at = "commit" => task'[u] = task[u]
      BY <2>1, <2>3
    <3>3. \A q \in Requests : job'[q].status = "COMPLETE" => job[q].status = "COMPLETE"
      BY <1>2
    <3> QED BY <1>1, <2>5, <3>1, <3>2, <3>3, FolderStays DEF IInv, Folders, OneFolderPerJob
  <2> QED BY <2>4, <2>6, <2>8, <2>9, <2>10 DEF IInv
<1>3. CASE /\ job' = [job EXCEPT ![t] = [status |-> "PENDING", wants |-> chosen]]
           /\ Goes(t, [NoTask EXCEPT !.at = "queued", !.job = t])
  <2>1. [status |-> "PENDING", wants |-> chosen] \in JobRow
    BY DEF IInv, Type, JobRow, Statuses, Active
  <2>2. /\ job' \in [Requests -> JobRow] /\ job'[t].status = "PENDING"
        /\ \A q \in Requests \ {t} : job'[q] = job[q]
    BY <1>3, <2>1 DEF IInv, Type
  <2> QED BY <1>2, <1>3, <2>2
<1>4. ASSUME NEW r \in ActiveJobs, Goes(t, [NoTask EXCEPT !.at = "queued", !.job = r]),
             UNCHANGED job
      PROVE IInv'
  BY <1>1, <1>2, <1>4 DEF ActiveJobs, Active, IInv, Type
<1> QED BY <1>3, <1>4 DEF Export

\* Nobody's task and no job is concerned.
LEMMA OutsideKeeps ==
  ASSUME IInv, Type', UNCHANGED <<job, task, folders>>,
         \A r \in Requests : held[r] \subseteq held'[r],
         \A k \in Candidates : ~original[AssetOf[k]] => ~original'[AssetOf[k]]
  PROVE IInv'
<1>1. Steady
  BY DEF Steady
<1>2. Unasked' /\ Alone'
  BY DEF IInv, Unasked, Alone, Holds
<1>3. \A t \in Requests : Waiting(t)' /\ Progress(t)'
  BY <1>1, TaskStays
<1>4. Folders'
  BY <1>1, FolderStays DEF IInv, Folders, Left, OneFolderPerJob
<1> QED BY <1>2, <1>3, <1>4 DEF IInv

LEMMA PersonsKeep ==
  ASSUME IInv, Persons, Remember
  PROVE IInv'
<1>1. Type'
  BY DecideKeepsType DEF IInv, Type, Persons
<1> QED BY <1>1, HeldGrows, OutsideKeeps DEF Persons

LEMMA ReplaceKeeps ==
  ASSUME IInv, NEW a \in Assets, Replace(a), UNCHANGED chosen, Remember
  PROVE IInv'
<1>1. original' = [original EXCEPT ![a] = FALSE] /\ UNCHANGED <<job, task, folders>>
  BY DEF Replace
<1>2. Type'
  BY <1>1 DEF IInv, Type
<1>3. \A k \in Candidates : AssetOf[k] \in Assets
  BY DEF Assets
<1>4. \A k \in Candidates : ~original[AssetOf[k]] => ~original'[AssetOf[k]]
  BY <1>1, <1>3 DEF IInv, Type
<1> QED BY <1>1, <1>2, <1>4, HeldGrows, OutsideKeeps

LEMMA RestartKeeps ==
  ASSUME IInv, Restart, UNCHANGED chosen, Remember
  PROVE IInv'
<1> DEFINE ended(r) == [job[r] EXCEPT !.status = "INTERRUPTED"]
           gone == [NoTask EXCEPT !.at = "done"]
<1>1. gone \in TaskRow /\ gone.at = "done"
  <2>1. /\ gone.at = "done" /\ gone.job = NoTask.job /\ gone.left = NoTask.left
        /\ gone.picked = NoTask.picked /\ gone.files = NoTask.files
    BY DEF NoTask
  <2> QED BY <2>1, NoTaskRow DEF TaskRow, Places
<1>2. \A r \in Requests : /\ ended(r) \in JobRow /\ ended(r).status = "INTERRUPTED"
                          /\ ended(r).wants = job[r].wants
  BY DEF IInv, Type, JobRow, Statuses, Ended
<1>3. /\ task' = [t \in Requests |-> IF At(t, "idle") THEN task[t] ELSE gone]
      /\ job' = [r \in Requests |-> IF r \in Interrupted THEN ended(r) ELSE job[r]]
      /\ UNCHANGED <<folders, original>>
  BY DEF Restart
<1> HIDE DEF ended, gone
<1>4. ASSUME NEW t \in Requests
      PROVE /\ task'[t] \in TaskRow /\ task'[t].at \in {"idle", "done"}
            /\ task'[t].at = "idle" => task[t].at = "idle"
  BY <1>1, <1>3 DEF At, IInv, Type
<1>5. ASSUME NEW r \in Requests
      PROVE /\ job'[r] \in JobRow /\ job'[r].wants = job[r].wants
            /\ \/ job[r].status \in Active /\ job'[r].status = "INTERRUPTED"
               \/ job[r].status \notin Active /\ job'[r].status = job[r].status
  BY <1>2, <1>3 DEF Interrupted, IInv, Type
<1>6. Type'
  BY <1>3, <1>4, <1>5 DEF IInv, Type
<1>7. Steady
  BY <1>3, <1>5, HeldGrows DEF Steady
<1>8. Unasked'
  BY <1>4, <1>5 DEF IInv, Unasked, Active
<1>9. Alone' /\ \A t \in Requests : Waiting(t)' /\ Progress(t)'
  BY <1>4 DEF Alone, Holds, Waiting, Progress, Working
<1>10. Folders'
  <2>1. ASSUME NEW f \in folders
        PROVE job'[f.job].status \in Ended
    <3>1. Left(f) /\ f.job \in Requests /\ job[f.job] \in JobRow
      BY DEF IInv, Folders, Type
    <3> QED BY <1>5, <3>1 DEF Left, Active, Ended, JobRow, Statuses
  <2>2. \A r \in Requests : job'[r].status = "COMPLETE" => job[r].status = "COMPLETE"
    BY <1>5
  <2>3. \A f \in folders : Left(f)'
    BY <1>4, <2>1 DEF Left, Ended, Working
  <2> QED BY <1>3, <1>4, <1>7, <2>2, <2>3, FolderStays DEF IInv, Folders, OneFolderPerJob
<1> QED BY <1>6, <1>8, <1>9, <1>10 DEF IInv

-----------------------------------------------------------------------------
(* Theorems *)

LEMMA InitInv == Init => IInv
<1> SUFFICES ASSUME Init PROVE IInv
  OBVIOUS
<1>1. <<>> \in Wanted
  BY EmptyMap, MapsAre
<1>2. NoRow \in JobRow /\ NoRow.status = "ABSENT"
  BY <1>1 DEF NoRow, JobRow, Statuses
<1>3. Type
  BY <1>1, <1>2, NoTaskRow DEF Init, SelectionInit, Type
<1>4. \A t \in Requests : task[t].at = "idle" /\ job[t].status = "ABSENT"
  BY <1>2 DEF Init, NoTask
<1> QED BY <1>3, <1>4 DEF IInv, Init, Unasked, Alone, Holds, Waiting, Progress, Working,
                         Folders, OneFolderPerJob

LEMMA NextKeeps == IInv /\ [Next]_vars => IInv'
<1> SUFFICES ASSUME IInv, [Next]_vars PROVE IInv'
  OBVIOUS
<1>1. CASE UNCHANGED vars
  <2>1. Type'
    BY <1>1 DEF vars, IInv, Type
  <2> QED BY <1>1, <2>1, OutsideKeeps DEF vars
<1>2. ASSUME NEW t \in Requests, Server(t)
      PROVE IInv'
  BY <1>2, StartKeeps, CheckKeeps, RenderKeeps, RecheckKeeps, PublishKeeps, EndKeeps
     DEF Server, Runs
<1>3. ASSUME NEW t \in Requests, Export(t) \/ Break(t) \/ Lose(t), UNCHANGED <<chosen, decisions>>, Remember
      PROVE IInv'
  BY <1>3, ExportKeeps, BreakKeeps
<1>4. CASE \/ Persons /\ Remember
           \/ Restart /\ UNCHANGED <<chosen, decisions>> /\ Remember
  BY <1>4, PersonsKeep, RestartKeeps
<1>5. ASSUME NEW a \in Assets, Replace(a), UNCHANGED <<chosen, decisions>>, Remember
      PROVE IInv'
  BY <1>5, ReplaceKeeps
<1> QED BY <1>1, <1>2, <1>3, <1>4, <1>5 DEF Next

\* One task works on a job, and what it made so far is right (selects/repository.py).
THEOREM ExportInvariant == Spec => []IInv
<1>1. Init => IInv
  BY InitInv
<1>2. IInv /\ [Next]_vars => IInv'
  BY NextKeeps
<1> QED BY <1>1, <1>2, PTL DEF Spec

\* Whatever people decide and whoever replaces originals while a job waits and runs, the
\* folder it leaves is what was decided (export_selection in selects/repository.py).
THEOREM FoldersAreAsDecided == Spec => []FolderIsAsDecided
<1>1. IInv => FolderIsAsDecided
  BY DEF IInv, Folders, Decided, FolderIsAsDecided
<1> QED BY <1>1, ExportInvariant, PTL

\* However many tasks are added for a job, it leaves one folder (api/routes/selects.py).
THEOREM JobsLeaveOneFolder == Spec => []OneFolderPerJob
<1>1. IInv => OneFolderPerJob
  BY DEF IInv, Folders
<1> QED BY <1>1, ExportInvariant, PTL
=============================================================================
