-------------------------------- MODULE Scores --------------------------------
(***************************************************************************)
(* The ranking of a trip's videos (scoring/repository.py): a job of the    *)
(* server's own that is asked for once per profile however often people    *)
(* click, takes the inputs of all videos with the signature of them, looks *)
(* at one video after the other while the catalog, the thumbnails and the  *)
(* telemetry go on changing, and publishes the whole ranking at its end.   *)
(*                                                                         *)
(* A request puts its run of the job in the background; a run of a job     *)
(* that another one has begun ends at once.  Whatever a run raises becomes *)
(* the failure of its job, and the process may stop at any point.          *)
(***************************************************************************)
EXTENDS TripRequests, Integers, FiniteSets

CONSTANTS
  Profiles,
  Weights,
  Contents,    \* contents of thumbnails
  First,       \* what the catalog says of a video at first
  MaxChanges,  \* bound of what others change
  MaxTroubles, \* bound of failures
  MaxStops     \* bound of stops of the server

ASSUME ScoresAssumption ==
  /\ None \notin Requests \cup Contents
  /\ First \in [people : Words, thumb : Contents, trusted : BOOLEAN]
  /\ MaxChanges \in Nat /\ MaxTroubles \in Nat /\ MaxStops \in Nat

VARIABLES
  weights,  \* weights[p]: the row of the profile p
  row,      \* row[v]: what the catalog says of v
  disk,     \* disk[v]: its thumbnail and its subtitle as they are
  job,      \* job[j]: the row of the job j
  up,       \* whether the server is up
  lost,     \* history: jobs whose run could not even write that it failed
  changes, troubles, stops

catalog == <<weights, row, disk>>
bounds == <<changes, troubles, stops>>
scoresVars == <<catalog, job, req, writer, up, lost, bounds>>

\* The catalog's hash of the thumbnail, and whether its record of the subtitle is of trust.
Rows == [people : Words, thumb : Contents, trusted : BOOLEAN]
\* The thumbnail as it is, and whether the subtitle is the one that was imported.
Files == [thumb : Contents \cup {None}, intact : BOOLEAN]

Absent == [status |-> "ABSENT"]
NoRun == [at |-> "idle", job |-> None]
Active == {"PENDING", "RUNNING"}

Ends(r) == Goes(r, [at |-> "done", job |-> req[r].job])
ActiveOf(p) == {j \in Requests : job[j].status \in Active /\ job[j].profile = p}

\* Faulty variant: the transaction begins with its first write.
Deferred(r) == UNCHANGED writer
Immediate(r) == writer = None /\ writer' = r

Frees(r) == writer' = IF writer = r THEN None ELSE writer

-----------------------------------------------------------------------------
(* A request *)

\* What the request finds: the weights of its profile, and whether a job of it is active.
Post(r) ==
  /\ up /\ At(r, "idle")
  /\ Immediate(r)
  /\ \E p \in Profiles :
       Goes(r, [at |-> "enqueue", job |-> None, profile |-> p, weights |-> weights[p],
                found |-> ActiveOf(p)])
  /\ UNCHANGED <<catalog, job, up, lost, bounds>>

Enqueue(r) ==
  /\ At(r, "enqueue") /\ MayWrite(r)
  /\ Frees(r)
  /\ IF req[r].found # {}
     THEN /\ \E j \in req[r].found : Goes(r, [at |-> "begin", job |-> j])
          /\ UNCHANGED job
     ELSE /\ Goes(r, [at |-> "begin", job |-> r])
          /\ job' = [job EXCEPT ![r] = [status |-> "PENDING", profile |-> req[r].profile,
                                        weights |-> req[r].weights]]
  /\ UNCHANGED <<catalog, up, lost, bounds>>

-----------------------------------------------------------------------------
(* A run *)

Begin(r) ==
  /\ At(r, "begin")
  /\ Immediate(r)
  /\ Goes(r, [at |-> IF job[req[r].job].status = "PENDING" THEN "start" ELSE "leave",
              job |-> req[r].job, source |-> row])
  /\ UNCHANGED <<catalog, job, up, lost, bounds>>

\* Another run has begun the job, or it has ended.
Leave(r) ==
  /\ At(r, "leave")
  /\ Frees(r) /\ Ends(r)
  /\ UNCHANGED <<catalog, job, up, lost, bounds>>

Start(r) ==
  /\ At(r, "start") /\ MayWrite(r)
  /\ Frees(r)
  /\ job' = [job EXCEPT ![req[r].job].status = "RUNNING"]
  /\ Goes(r, [at |-> "score", job |-> req[r].job, source |-> req[r].source,
              results |-> [v \in {} |-> 0]])
  /\ UNCHANGED <<catalog, up, lost, bounds>>

\* Only a thumbnail that has the hash of the inputs is scored.
Technical(v, source) == IF disk[v].thumb = source.thumb THEN source.thumb ELSE None

\* Whether there is telemetry, which is of the catalog's hash of the subtitle, the same for
\* ever: from an earlier analysis of that hash, or from the file if it is still that.  The
\* row is read anew, whatever the inputs say of it.
Motion(v, kept) == IF row[v].trusted /\ (kept \/ disk[v].intact) THEN "imported" ELSE None

Score(r) ==
  /\ At(r, "score")
  /\ \E v \in Videos \ DOMAIN req[r].results, kept \in BOOLEAN :
       LET source == req[r].source[v]
           result == [people |-> source.people, technical |-> Technical(v, source),
                      motion |-> Motion(v, kept)]
       IN Goes(r, [req[r] EXCEPT !.results =
                     [u \in DOMAIN @ \cup {v} |-> IF u = v THEN result ELSE @[u]]])
  /\ UNCHANGED <<catalog, job, writer, up, lost, bounds>>

\* Faulty variant: the signature is of the inputs as they are at the end.
SignatureAtEnd(r) == row
Signature(r) == req[r].source

\* The row gets what the run has of the job, whatever became of the row meanwhile.
Finish(r) ==
  /\ At(r, "score") /\ DOMAIN req[r].results = Videos
  /\ writer = None
  /\ LET j == req[r].job
     IN job' = [job EXCEPT ![j] = [status |-> "COMPLETE", profile |-> job[j].profile,
                                   weights |-> job[j].weights, signature |-> Signature(r),
                                   results |-> req[r].results]]
  /\ Ends(r)
  /\ UNCHANGED <<catalog, writer, up, lost, bounds>>

Running(r) == req[r].at \in {"begin", "start", "score"}

\* Whatever a run raises - the lock is not free in time, a row does not parse - is written
\* as the failure of its job, also by a run that never began it.
Raise(r) ==
  /\ Running(r) /\ troubles < MaxTroubles /\ troubles' = troubles + 1
  /\ Frees(r) /\ Ends(r)
  /\ \/ /\ MayWrite(r)
        /\ job' = [job EXCEPT ![req[r].job].status = "FAILED"]
        /\ UNCHANGED lost
     \/ /\ lost' = lost \cup {req[r].job}
        /\ UNCHANGED job
  /\ UNCHANGED <<catalog, up, changes, stops>>

\* A request that fails leaves nothing.
Refuse(r) ==
  /\ At(r, "enqueue") /\ troubles < MaxTroubles /\ troubles' = troubles + 1
  /\ Frees(r) /\ Ends(r)
  /\ UNCHANGED <<catalog, job, up, lost, changes, stops>>

-----------------------------------------------------------------------------
(* The others *)

Stop ==
  /\ up /\ stops < MaxStops /\ stops' = stops + 1
  /\ up' = FALSE /\ writer' = None
  /\ req' = [r \in Requests |-> IF At(r, "idle") THEN req[r]
                                ELSE [at |-> "done", job |-> req[r].job]]
  /\ UNCHANGED <<catalog, job, lost, changes, troubles>>

\* Faulty variant: a job that had not begun is left to begin.
InterruptedRunning(j) == job[j].status = "RUNNING"
Interrupted(j) == job[j].status \in Active

Restart ==
  /\ ~up /\ up' = TRUE
  /\ job' = [j \in Requests |-> IF Interrupted(j)
                                THEN [job[j] EXCEPT !.status = "INTERRUPTED"] ELSE job[j]]
  /\ lost' = {}
  /\ UNCHANGED <<catalog, req, writer, bounds>>

Changes == writer = None /\ changes < MaxChanges /\ changes' = changes + 1

SaveProfile(p) ==
  /\ Changes /\ up
  /\ \E w \in Weights \ {weights[p]} : weights' = [weights EXCEPT ![p] = w]
  /\ UNCHANGED <<row, disk, job, req, writer, up, lost, troubles, stops>>

\* An edit, an import or a new thumbnail.
ChangeRow(v) ==
  /\ Changes
  /\ \E new \in Rows \ {row[v]} : row' = [row EXCEPT ![v] = new]
  /\ UNCHANGED <<weights, disk, job, req, writer, up, lost, troubles, stops>>

ChangeFile(v) ==
  /\ changes < MaxChanges /\ changes' = changes + 1
  /\ \E new \in Files \ {disk[v]} : disk' = [disk EXCEPT ![v] = new]
  /\ UNCHANGED <<weights, row, job, req, writer, up, lost, troubles, stops>>

ScoresInit ==
  /\ weights \in [Profiles -> Weights]
  /\ row = [v \in Videos |-> First]
  /\ disk = [v \in Videos |-> [thumb |-> First.thumb, intact |-> TRUE]]
  /\ job = [j \in Requests |-> Absent] /\ req = [r \in Requests |-> NoRun]
  /\ writer = None /\ up = TRUE /\ lost = {}
  /\ changes = 0 /\ troubles = 0 /\ stops = 0

Steps(r) ==
  Enqueue(r) \/ Begin(r) \/ Leave(r) \/ Start(r) \/ Score(r) \/ Finish(r)

ScoresNext ==
  \/ \E r \in Requests : Post(r) \/ Steps(r) \/ Raise(r) \/ Refuse(r)
  \/ Stop \/ Restart
  \/ \E p \in Profiles : SaveProfile(p)
  \/ \E v \in Videos : ChangeRow(v) \/ ChangeFile(v)

ScoresSpec == ScoresInit /\ [][ScoresNext]_scoresVars

\* What is in the background runs on, for nobody waits with the lock in hand and each asks for
\* it a few times; who stops the server starts it again.
FairScores == ScoresSpec /\ (\A r \in Requests : WF_scoresVars(Steps(r))) /\ WF_scoresVars(Restart)

-----------------------------------------------------------------------------
(* Properties *)

Stale(j) ==
  job[j].signature # row \/ job[j].weights # weights[job[j].profile]

\* A ranking that is not marked as stale is of the catalog as it is: all videos, the
\* people and the weights of now, and thumbnails that have the hash of now or no score -
\* whatever was edited, imported or rendered, there and back, while it was computed.
FreshIsCurrent ==
  \A j \in Requests :
    job[j].status = "COMPLETE" /\ ~Stale(j) =>
      /\ DOMAIN job[j].results = Videos
      /\ \A v \in Videos : LET result == job[j].results[v] IN
           /\ result.people = row[v].people
           /\ result.technical \in {row[v].thumb, None}

\* However often and however close together people click, a profile has one active job,
\* and a job is computed by one run.
OneActiveScoreJob ==
  /\ \A p \in Profiles : Cardinality(ActiveOf(p)) <= 1
  /\ \A r, s \in Requests : At(r, "score") /\ At(s, "score") /\ req[r].job = req[s].job => r = s

\* A job that was asked for ends - complete, failed or interrupted - and with it the
\* refusal to ask for another, unless its run could not write that it failed; then it is
\* active until the server starts again.
JobsEnd ==
  \A j \in Requests : job[j].status \in Active ~> (job[j].status \notin Active \/ j \in lost)
=============================================================================
