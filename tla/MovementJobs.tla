----------------------------- MODULE MovementJobs -----------------------------
(***************************************************************************)
(* The analysis of a trip's movements (movement/repository.py) next to the *)
(* candidates and decisions of Selects: a job of the server's own, asked   *)
(* for by requests and run in the background, that analyses one take after *)
(* the other while people confirm segments, generate and decide.           *)
(*                                                                         *)
(* A run reads the telemetry and the current analysis of a take and writes *)
(* its own in the same session, which holds no lock until it writes.  One  *)
(* run begins a job, but another one that is given the same job and fails  *)
(* marks it FAILED, and the next request adds a job that runs next to it.  *)
(***************************************************************************)
EXTENDS Selects, Sequences

CONSTANTS
  Requests,     \* requests for an analysis; the job a request adds has its name
  Movements,    \* what a window of a take may be classified as
  MaxTroubles,  \* bound of failures
  MaxStops      \* bound of stops of the server

ASSUME MovementAssumption == MaxTroubles \in Nat /\ MaxStops \in Nat

VARIABLES
  current,  \* current[a]: the analyses of a that are not superseded
  job,      \* job[j]: the status of job j
  run,      \* run[r]: the run in the background of request r
  since,    \* history: since[j]: the takes that were analysed since j began
  behind,   \* history: runs that read a take before another one wrote it
  troubles, stops

jobs == <<current, job, run, since, behind, troubles, stops>>
jobVars == <<vars, jobs>>

Active == {"PENDING", "RUNNING"}
NoRun == [at |-> "idle"]
Over == [at |-> "over"]

In(r, p) == run[r].at = p
Becomes(r, q) == run' = [run EXCEPT ![r] = q]

-----------------------------------------------------------------------------
(* The segments of a take *)

\* A window of the movement of the one before it makes that longer.
Extended(track, labels, n) ==
  IF n > 1 /\ labels[n] = labels[n - 1]
  THEN [track EXCEPT ![Len(track)].to = n]
  ELSE Append(track, [from |-> n - 1, to |-> n])

\* Window by window.
Track(labels) ==
  LET upto[n \in 0..Duration] ==
        IF n = 0 THEN <<>> ELSE Extended(upto[n - 1], labels, n)
  IN upto[Duration]

\* Each segment is classified anew as a whole, and may turn out to have no movement.
Found == UNION {LET track == Track(labels) IN SUBSET {track[k] : k \in DOMAIN track} :
                  labels \in [1..Duration -> Movements]}

-----------------------------------------------------------------------------
(* Requests and runs *)

\* A request is given the active job, or adds one.
Post(r) ==
  /\ In(r, "idle")
  /\ LET active == {j \in Requests : job[j] \in Active} IN
     IF active # {}
     THEN /\ \E j \in active : Becomes(r, [at |-> "begin", job |-> j])
          /\ UNCHANGED job
     ELSE /\ Becomes(r, [at |-> "begin", job |-> r])
          /\ job' = [job EXCEPT ![r] = "PENDING"]
  /\ UNCHANGED <<vars, current, since, behind, troubles, stops>>

Begin(r) ==
  /\ In(r, "begin")
  /\ LET j == run[r].job IN
     IF job[j] = "PENDING"
     THEN /\ job' = [job EXCEPT ![j] = "RUNNING"]
          /\ Becomes(r, [at |-> "take", job |-> j, left |-> Assets])
     ELSE Becomes(r, Over) /\ UNCHANGED job
  /\ UNCHANGED <<vars, current, since, behind, troubles, stops>>

ReadTake(r) ==
  /\ In(r, "take")
  /\ \E a \in run[r].left :
       Becomes(r, [at |-> "write", job |-> run[r].job, left |-> run[r].left \ {a},
                   asset |-> a, old |-> current[a]])
  /\ behind' = behind \ {r}
  /\ UNCHANGED <<vars, current, job, since, troubles, stops>>

\* Faulty variant: only the analyses of the same job are superseded.
SupersededOwn(r) == {x \in run[r].old : x.by = run[r].job}
Superseded(r) == run[r].old

\* Whoever reads the analysis of a take gets one that is not superseded.
WriteTake(r) ==
  /\ In(r, "write")
  /\ LET a == run[r].asset IN
     /\ Analyze(a)
     /\ \E found \in Found :
          /\ current' = [current EXCEPT ![a] =
                           (@ \ Superseded(r)) \cup {[by |-> r, cuts |-> found]}]
          /\ analysis'[a] \in {x.cuts : x \in current'[a]}
     /\ since' = [j \in Requests |-> IF job[j] = "ABSENT" THEN since[j] ELSE since[j] \cup {a}]
     /\ behind' = (behind \ {r}) \cup {q \in Requests \ {r} : In(q, "write") /\ run[q].asset = a}
  /\ Becomes(r, [at |-> "take", job |-> run[r].job, left |-> run[r].left])
  /\ UNCHANGED <<job, troubles, stops>>

\* The status is written whatever became of the job meanwhile.
Finish(r) ==
  /\ In(r, "take") /\ run[r].left = {}
  /\ job' = [job EXCEPT ![run[r].job] = "COMPLETE"]
  /\ Becomes(r, Over)
  /\ UNCHANGED <<vars, current, since, behind, troubles, stops>>

\* Faulty variant: a take that cannot be analysed is passed over.
PassedOver(r) ==
  IF In(r, "write")
  THEN Becomes(r, [at |-> "take", job |-> run[r].job, left |-> run[r].left]) /\ UNCHANGED job
  ELSE Becomes(r, Over) /\ job' = [job EXCEPT ![run[r].job] = "FAILED"]
\* The failure of a run, also of one that never began the job, is the failure of the job,
\* if it can be written.
Failed(r) ==
  /\ Becomes(r, Over)
  /\ job' \in {job, [job EXCEPT ![run[r].job] = "FAILED"]}

Raise(r) ==
  /\ run[r].at \in {"begin", "take", "write"}
  /\ troubles < MaxTroubles /\ troubles' = troubles + 1
  /\ Failed(r)
  /\ UNCHANGED <<vars, current, since, behind, stops>>

Interrupted(j) == job[j] \in Active

\* The server stops, its tasks with it, and starts again.
Restart ==
  /\ stops < MaxStops /\ stops' = stops + 1
  /\ job' = [j \in Requests |-> IF Interrupted(j) THEN "INTERRUPTED" ELSE job[j]]
  /\ run' = [r \in Requests |-> IF In(r, "idle") THEN run[r] ELSE Over]
  /\ behind' = {}
  /\ UNCHANGED <<vars, current, since, troubles>>

JobsInit ==
  /\ Init
  /\ current = [a \in Assets |-> {}]
  /\ job = [j \in Requests |-> "ABSENT"] /\ run = [r \in Requests |-> NoRun]
  /\ since = [j \in Requests |-> {}] /\ behind = {}
  /\ troubles = 0 /\ stops = 0

Tasks(r) == Post(r) \/ Begin(r) \/ ReadTake(r) \/ WriteTake(r) \/ Finish(r) \/ Raise(r)

JobsNext ==
  \/ \E r \in Requests : Tasks(r)
  \/ Restart
  \/ Persons /\ UNCHANGED jobs
  \/ (\E recommended \in SUBSET Assets : Generate(recommended)) /\ UNCHANGED jobs

JobsSpec == JobsInit /\ [][JobsNext]_jobVars

-----------------------------------------------------------------------------
(* Properties *)

\* What a track is: its segments follow one another from the start to the end of a take,
\* and two of them meet just where the movement changes.
Meets(track, labels) ==
  /\ track[1].from = 0 /\ track[Len(track)].to = Duration
  /\ \A k \in DOMAIN track : track[k].from < track[k].to
  /\ \A k \in 2..Len(track) : track[k].from = track[k - 1].to
  /\ \A n \in 1..(Duration - 1) :
       labels[n] # labels[n + 1] <=> \E k \in DOMAIN track : track[k].to = n

\* A job that is shown as COMPLETE has analysed every take of the trip, whatever other runs
\* of it failed, and whichever of two jobs next to each other wrote last.
CompleteMeansAnalysed ==
  \A j \in Requests :
    job[j] = "COMPLETE" => since[j] = Assets /\ \A a \in Assets : current[a] # {}

\* Two runs that read a take before either wrote it leave two current analyses of it; any
\* other analysis leaves itself alone, also after such two.
AnalysisStandsAlone ==
  [][\A r \in Requests :
       WriteTake(r) /\ r \notin behind =>
         \A x \in current'[run[r].asset] : x.by = r]_jobVars
=============================================================================
