------------------------------ MODULE ExportJobs ------------------------------
(***************************************************************************)
(* The export of the selection: jobs that requests enqueue, the background *)
(* tasks of the server that run them, and the folders they leave, while    *)
(* people go on deciding (selects/repository.py, api/routes/selects.py).   *)
(*                                                                         *)
(* A request enqueues a job, or is given the one that is active, and adds  *)
(* a task for it either way.  A task checks every candidate against the    *)
(* decisions of the request, builds the folder under a hidden name,        *)
(* renames it and then commits; originals may be replaced meanwhile, any   *)
(* step may fail, and the server may be restarted under it.                *)
(***************************************************************************)
EXTENDS Selection

CONSTANTS
  AssetOf,    \* AssetOf[k]: the asset of candidate k
  Whole,      \* the cut that is the whole take
  Requests,   \* the export requests; the job a request creates has its name
  NoJob,
  MaxFaults   \* bound of failures, restarts and replaced originals

\* Candidates are numbered in the order of asset and start.
ASSUME ExportAssumption ==
  /\ Candidates \subseteq Nat /\ DOMAIN AssetOf = Candidates /\ Whole \in Cuts
  /\ NoJob \notin Requests
  /\ MaxDecisions \in Nat /\ MaxFaults \in Nat

VARIABLES
  job,       \* job[r]: the row that request r created
  task,      \* task[r]: the background task that request r added
  folders,   \* the folders that have their final name
  original,  \* original[a]: whether the file is the one that was registered
  held,      \* history: held[r]: the decisions in force at some time of the run of job r
  lost,      \* history: jobs of which a task could not even write that it failed
  faults

vars == <<chosen, decisions, job, task, folders, original, held, lost, faults>>

Assets == {AssetOf[k] : k \in Candidates}

Ended == {"COMPLETE", "FAILED", "INTERRUPTED"}
Active == {"PENDING", "RUNNING"}
Working == {"check", "render", "recheck", "publish", "commit"}

NoRow == [status |-> "ABSENT", wants |-> <<>>]
NoTask == [at |-> "idle", job |-> NoJob, left |-> {}, picked |-> <<>>, files |-> <<>>]

At(t, p) == task[t].at = p
Goes(t, row) == task' = [task EXCEPT ![t] = row]
Step(t, p) == Goes(t, [task[t] EXCEPT !.at = p])
Wants(t) == job[task[t].job].wants
With(f, k, v) == [x \in DOMAIN f \cup {k} |-> IF x = k THEN v ELSE f[x]]

Fault == faults < MaxFaults /\ faults' = faults + 1

\* The candidates a task still has to do are done in order.
First(S) == {k \in S : \A l \in S : k <= l}

Pairs(f) == {<<k, f[k]>> : k \in DOMAIN f}

\* The history follows the decisions while a task works on a job.
Remember ==
  held' = [r \in Requests |-> IF \E t \in Requests : task'[t].job = r /\ task'[t].at \in Working
                              THEN held[r] \cup Pairs(chosen') ELSE held[r]]

-----------------------------------------------------------------------------
(* Requests *)

ActiveJobs == {r \in Requests : job[r].status \in Active}

Export(t) ==
  /\ At(t, "idle")
  /\ DOMAIN chosen # {}
  /\ \/ /\ ActiveJobs = {}
        /\ job' = [job EXCEPT ![t] = [status |-> "PENDING", wants |-> chosen]]
        /\ Goes(t, [NoTask EXCEPT !.at = "queued", !.job = t])
     \/ \E r \in ActiveJobs :
          /\ Goes(t, [NoTask EXCEPT !.at = "queued", !.job = r])
          /\ UNCHANGED job
  /\ UNCHANGED <<folders, original, lost, faults>>

-----------------------------------------------------------------------------
(* Tasks *)

\* Faulty variant: a task takes up whatever is not finished.
StartsActive(t) == job[task[t].job].status \in Active
Starts(t) == job[task[t].job].status = "PENDING"

Start(t) ==
  /\ At(t, "queued")
  /\ IF Starts(t)
     THEN /\ job' = [job EXCEPT ![task[t].job].status = "RUNNING"]
          /\ Goes(t, [task[t] EXCEPT !.at = "check", !.left = DOMAIN Wants(t)])
     ELSE Step(t, "done") /\ UNCHANGED job
  /\ UNCHANGED <<folders, original, lost, faults>>

\* Faulty variant: an interval that was changed is as good.
StillIncluded(t, k) == k \in DOMAIN chosen
StillWanted(t, k) == k \in DOMAIN chosen /\ chosen[k] = Wants(t)[k]

\* One candidate is loaded, checked, and its original hashed.
Check(t) ==
  /\ At(t, "check")
  /\ \E k \in First(task[t].left) :
       LET left == task[t].left \ {k} IN
       IF StillWanted(t, k) /\ original[AssetOf[k]]
       THEN Goes(t, [task[t] EXCEPT
                       !.picked = With(@, k, chosen[k]),
                       !.left = IF left = {} THEN DOMAIN Wants(t) ELSE left,
                       !.at = IF left = {} THEN "render" ELSE "check"])
       ELSE Step(t, "failing")
  /\ UNCHANGED <<job, folders, original, lost, faults>>

\* Faulty variant: the original is not looked at again.
NotRechecked(a) == TRUE
Rechecked(a) == original[a]

\* A file is written from the original as it is now; the copy of a whole take is hashed.
Render(t) ==
  /\ At(t, "render")
  /\ \E k \in First(task[t].left) :
       IF task[t].picked[k] = Whole /\ ~original[AssetOf[k]]
       THEN Step(t, "failing")
       ELSE Goes(t, [task[t] EXCEPT
                       !.at = "recheck",
                       !.files = With(@, k, [cut |-> task[t].picked[k],
                                             good |-> original[AssetOf[k]]])])
  /\ UNCHANGED <<job, folders, original, lost, faults>>

\* The original is hashed again, and the file goes into the manifest.
Recheck(t) ==
  /\ At(t, "recheck")
  /\ \E k \in First(task[t].left) :
       LET left == task[t].left \ {k} IN
       IF Rechecked(AssetOf[k])
       THEN Goes(t, [task[t] EXCEPT !.at = IF left = {} THEN "publish" ELSE "render",
                                    !.left = left])
       ELSE Step(t, "failing")
  /\ UNCHANGED <<job, folders, original, lost, faults>>

\* The manifest and the table are written, and the folder is given a name of its own.
Publish(t) ==
  /\ At(t, "publish")
  /\ folders' = folders \cup {[job |-> task[t].job, by |-> t, files |-> task[t].files]}
  /\ Step(t, "commit")
  /\ UNCHANGED <<job, original, lost, faults>>

Commit(t) ==
  /\ At(t, "commit")
  /\ job' = [job EXCEPT ![task[t].job].status = "COMPLETE"]
  /\ Step(t, "done")
  /\ UNCHANGED <<folders, original, lost, faults>>

\* Disk, ffmpeg or database fail in the middle of it, or where the task would take its job up.
Break(t) ==
  /\ task[t].at \in Working \cup {"queued"}
  /\ Fault
  /\ Step(t, "failing")
  /\ UNCHANGED <<job, folders, original, lost>>

\* The failure is recorded, whatever became of the job by other tasks, and what has the
\* hidden name is removed.
Fail(t) ==
  /\ At(t, "failing")
  /\ job' = [job EXCEPT ![task[t].job].status = "FAILED"]
  /\ Step(t, "done")
  /\ UNCHANGED <<folders, original, lost, faults>>

\* The database refuses that, too: the row stays as it is.
Lose(t) ==
  /\ At(t, "failing")
  /\ Fault
  /\ lost' = lost \cup {task[t].job}
  /\ Step(t, "done")
  /\ UNCHANGED <<job, folders, original>>

-----------------------------------------------------------------------------
(* The server and the share *)

\* Faulty variant: only jobs that were running are taken back.
InterruptedRunning == {r \in Requests : job[r].status = "RUNNING"}
Interrupted == {r \in Requests : job[r].status \in Active}

\* The server stops, with its tasks, and starts again.
Restart ==
  /\ Fault
  /\ task' = [t \in Requests |-> IF At(t, "idle") THEN task[t] ELSE [NoTask EXCEPT !.at = "done"]]
  /\ job' = [r \in Requests |->
               IF r \in Interrupted THEN [job[r] EXCEPT !.status = "INTERRUPTED"] ELSE job[r]]
  /\ lost' = {}
  /\ UNCHANGED <<folders, original>>

\* An original on the share is replaced by another file; nobody puts it back.
Replace(a) ==
  /\ Fault
  /\ original[a]
  /\ original' = [original EXCEPT ![a] = FALSE]
  /\ UNCHANGED <<job, task, folders, lost>>

Init ==
  /\ SelectionInit
  /\ job = [r \in Requests |-> NoRow]
  /\ task = [r \in Requests |-> NoTask]
  /\ folders = {}
  /\ original = [a \in Assets |-> TRUE]
  /\ held = [r \in Requests |-> {}]
  /\ lost = {} /\ faults = 0

Runs(t) ==
  \/ Start(t) \/ Check(t) \/ Render(t) \/ Recheck(t) \/ Publish(t) \/ Commit(t) \/ Fail(t)

Persons ==
  /\ Decide
  /\ UNCHANGED <<job, task, folders, original, lost, faults>>

Server(t) == Runs(t) /\ UNCHANGED <<chosen, decisions>> /\ Remember

Next ==
  \/ Persons /\ Remember
  \/ \E t \in Requests : Server(t)
  \/ /\ \/ \E t \in Requests : Export(t) \/ Break(t) \/ Lose(t)
        \/ Restart
        \/ \E a \in Assets : Replace(a)
     /\ UNCHANGED <<chosen, decisions>>
     /\ Remember

Spec ==
  /\ Init /\ [][Next]_vars
  /\ \A t \in Requests : WF_vars(Server(t))

-----------------------------------------------------------------------------
(* Properties *)

\* A folder has exactly the files that were decided when it was asked for, each of them as
\* it was decided at some time of the run: what was withdrawn or changed while the job
\* waited is never exported.  And each is made of the registered original.
FolderIsAsDecided ==
  \A f \in folders :
    /\ DOMAIN f.files = DOMAIN job[f.job].wants
    /\ \A k \in DOMAIN f.files : /\ f.files[k].cut = job[f.job].wants[k]
                                 /\ <<k, f.files[k].cut>> \in held[f.job]
                                 /\ f.files[k].good

\* A job leaves one folder at most, and a COMPLETE job has left it.
OneFolderPerJob ==
  /\ \A f, g \in folders : f.job = g.job => f = g
  /\ \A r \in Requests : job[r].status = "COMPLETE" => \E f \in folders : f.job = r

\* Every export that was asked for ends, and with it the refusal to start another one: after
\* a restart as well, though its tasks are gone - unless a task of it could not even write
\* that it failed; then only a restart of the server, which nothing promises, ends it.
ExportsEnd ==
  \A r \in Requests : job[r].status \in Active ~> (job[r].status \in Ended \/ r \in lost)
=============================================================================
