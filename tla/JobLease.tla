------------------------------- MODULE JobLease -------------------------------
(***************************************************************************)
(* The job table of the Mac control plane and the operations that change   *)
(* it: claim, renew, progress, complete, fail, the expiry sweep of server  *)
(* start-up and reconciliation (jobs/repository.py), each with the rows    *)
(* its audit hook writes in the same transaction (api/routes/jobs.py): the *)
(* status of the worker and the ingest aggregate that mirrors the job.     *)
(*                                                                         *)
(* Every operation runs inside BEGIN IMMEDIATE, so it is one action.  A    *)
(* request that is rejected rolls back and is no step.  The heartbeat is   *)
(* not: it reads the worker outside a write transaction and writes the     *)
(* columns it changed later, so it is two actions.                         *)
(*                                                                         *)
(* A request may carry any worker, token and revision: a client may be     *)
(* late, may repeat itself or may hold what it was given long ago.         *)
(***************************************************************************)
EXTENDS Integers

CONSTANTS
  Workers,       \* identities a worker process may register
  NoWorker,      \* lease_worker_id IS NULL
  Jobs,          \* numbered in the order (created_at, id)
  IngestJobs,    \* the jobs of kind "ingest"; they have an ingest aggregate
  CapableOf,     \* CapableOf[w]: the jobs whose kind is among w's capabilities
  LeaseSeconds,  \* the lease lengths that are asked for
  Errors,        \* the error codes that fail() is called with
  Units,         \* bytes_total of an ingest, and the resolution of progress
  MaxClock,      \* bound of the clock
  MaxRevision,   \* bound of a job's revision, and so of its attempts
  MaxBeats       \* bound of overlapping heartbeat requests of one worker

ASSUME LeaseAssumption ==
  /\ NoWorker \notin Workers
  /\ Jobs \subseteq Nat
  /\ IngestJobs \subseteq Jobs
  /\ CapableOf \in [Workers -> SUBSET Jobs]
  /\ LeaseSeconds \subseteq Nat \ {0}
  /\ Units \in Nat
  /\ MaxClock \in Nat /\ MaxRevision \in Nat /\ MaxBeats \in Nat

VARIABLES
  now,       \* server time
  job,       \* the rows of table jobs
  worker,    \* status column of table workers
  beats,     \* beats[w]: heartbeat handlers that read w as OFFLINE and have not written
  ingest,    \* the rows of ingest_jobs that mirror an ingest job
  over,      \* history: <<job, token>> of the leases that expired or ended
  accepted   \* history: <<job, token>> of the request this step accepted, if any

vars == <<now, job, worker, beats, ingest, over, accepted>>

JobStatus == {"ABSENT", "PENDING", "LEASED", "RUNNING", "COMPLETE", "INTERRUPTED", "FAILED"}
WorkerStatus == {"ABSENT", "OFFLINE", "ONLINE", "BUSY"}
IngestStatus == {"DISCOVERED", "COPYING", "VERIFIED", "INTERRUPTED", "FAILED"}

\* A token is named by the attempt it was drawn for; 0 is lease_token_digest IS NULL.
Job == [status : JobStatus, worker : Workers \cup {NoWorker}, token : Nat, expires : Nat,
        revision : Nat, attempts : Nat, progress : 0..Units]
Ingest == [status : IngestStatus, verified : 0..Units, itemsVerified : BOOLEAN]

-----------------------------------------------------------------------------
(* Helpers *)


\* The edges of the job lifecycle; "ABSENT" is a job that was not enqueued yet.
Edges ==
  [ABSENT      |-> {},
   PENDING     |-> {"LEASED"},
   LEASED      |-> {"RUNNING", "INTERRUPTED", "FAILED"},
   RUNNING     |-> {"COMPLETE", "INTERRUPTED", "FAILED"},
   INTERRUPTED |-> {"PENDING"},
   COMPLETE    |-> {},
   FAILED      |-> {}]

Active == {"LEASED", "RUNNING"}
Holds(w, j) == job[j].status \in Active /\ job[j].worker = w

\* Faulty variant: a lease counts only while it is unexpired.
FreeOfLiveLeases(w) == \A j \in Jobs : Holds(w, j) => job[j].expires <= now

\* A worker that holds any lease, expired or not, is given no other job.
Free(w) == \A j \in Jobs : ~Holds(w, j)

\* Faulty variant: the expiry is not looked at.
OwnedEvenExpired(j, w, t, r) ==
  Holds(w, j) /\ job[j].token = t /\ job[j].revision = r

\* Faulty variant: whoever reports, whatever lease it was given.
OwnedByAnyone(j, w, t, r) == job[j].status \in Active /\ job[j].expires > now

\* The check every fenced mutation makes first.
Owned(j, w, t, r) ==
  /\ Holds(w, j)
  /\ job[j].token = t
  /\ job[j].revision = r
  /\ job[j].expires > now

Claimable(w) == {j \in CapableOf[w] : job[j].status = "PENDING"}

\* Faulty variant: the holder is not cleared.
FreedButHeld(row) == [row EXCEPT !.token = 0, !.expires = 0]
Freed(row) == [row EXCEPT !.worker = NoWorker, !.token = 0, !.expires = 0]

Bumped(row) == [row EXCEPT !.revision = @ + 1]

\* A new attempt at the job, and the lease it runs under.
Attempted(row) == [Bumped(row) EXCEPT !.status = "LEASED", !.attempts = @ + 1]

Leased(row, w, secs) ==
  [Attempted(row) EXCEPT !.worker = w, !.token = row.attempts + 1, !.expires = now + secs]

Renewed(row, secs) ==
  [Bumped(row) EXCEPT !.expires = IF @ > now + secs THEN @ ELSE now + secs]

\* The ingest row after the hook of progress, complete and fail.
Mirror(j, row) == ingest' = IF j \in IngestJobs THEN [ingest EXCEPT ![j] = row] ELSE ingest

Copying(row, p) ==
  [row EXCEPT !.status = IF @ = "DISCOVERED" THEN "COPYING" ELSE @, !.verified = p]

\* Faulty variant: the ingest is VERIFIED and its items are not.
VerifiedWithoutItems == [status |-> "VERIFIED", verified |-> Units, itemsVerified |-> FALSE]
Verified == [status |-> "VERIFIED", verified |-> Units, itemsVerified |-> TRUE]
Resumable == {"lease_expired", "source_unavailable", "destination_unavailable"}
Broken(row, err) ==
  [row EXCEPT !.status = IF err \in Resumable THEN "INTERRUPTED" ELSE "FAILED"]

CanBump(j) == job[j].revision < MaxRevision

-----------------------------------------------------------------------------
(* Actions *)

Init ==
  /\ now = 0
  /\ job = [j \in Jobs |-> [status |-> "ABSENT", worker |-> NoWorker, token |-> 0,
                            expires |-> 0, revision |-> 0, attempts |-> 0, progress |-> 0]]
  /\ worker = [w \in Workers |-> "ABSENT"]
  /\ beats = [w \in Workers |-> 0]
  /\ ingest = [j \in IngestJobs |->
                 [status |-> "DISCOVERED", verified |-> 0, itemsVerified |-> FALSE]]
  /\ over = {}
  /\ accepted = {}

\* Time passes; the leases it runs out on are noted.
Tick ==
  /\ now < MaxClock
  /\ now' = now + 1
  /\ over' = over \cup {<<j, job[j].token>> : j \in {k \in Jobs : /\ job[k].status \in Active
                                                                 /\ job[k].expires <= now + 1}}
  /\ accepted' = {}
  /\ UNCHANGED <<job, worker, beats, ingest>>

\* confirm_ingest adds the job and its ingest in one transaction; newer jobs come later.
Enqueue(j) ==
  /\ job[j].status = "ABSENT"
  /\ \A k \in Jobs : k < j => job[k].status # "ABSENT"
  /\ job' = [job EXCEPT ![j].status = "PENDING"]
  /\ accepted' = {}
  /\ UNCHANGED <<now, worker, beats, ingest, over>>

Register(w) ==
  /\ worker[w] = "ABSENT"
  /\ worker' = [worker EXCEPT ![w] = "OFFLINE"]
  /\ accepted' = {}
  /\ UNCHANGED <<now, job, beats, ingest, over>>

\* A heartbeat that finds the worker ONLINE or BUSY writes no status: no step here.
HeartbeatRead(w) ==
  /\ worker[w] = "OFFLINE"
  /\ beats[w] < MaxBeats
  /\ beats' = [beats EXCEPT ![w] = @ + 1]
  /\ accepted' = {}
  /\ UNCHANGED <<now, job, worker, ingest, over>>

\* The UPDATE holds the columns that differ from what was read: ONLINE over OFFLINE.
HeartbeatWrite(w) ==
  /\ beats[w] > 0
  /\ beats' = [beats EXCEPT ![w] = @ - 1]
  /\ worker' = [worker EXCEPT ![w] = "ONLINE"]
  /\ accepted' = {}
  /\ UNCHANGED <<now, job, ingest, over>>

\* The oldest claimable job, for a worker that holds none.
Claim(w, secs) ==
  /\ worker[w] # "ABSENT"
  /\ Free(w)
  /\ \E j \in Claimable(w) :
       /\ \A k \in Claimable(w) : j <= k
       /\ CanBump(j)
       /\ job' = [job EXCEPT ![j] = Leased(@, w, secs)]
  /\ worker' = [worker EXCEPT ![w] = "BUSY"]
  /\ accepted' = {}
  /\ UNCHANGED <<now, beats, ingest, over>>

Renew(j, w, t, r, secs) ==
  /\ Owned(j, w, t, r)
  /\ CanBump(j)
  /\ job' = [job EXCEPT ![j] = Renewed(@, secs)]
  /\ accepted' = {<<j, t>>}
  /\ UNCHANGED <<now, worker, beats, ingest, over>>

Progress(j, w, t, r, p) ==
  /\ Owned(j, w, t, r)
  /\ CanBump(j)
  /\ job' = [job EXCEPT ![j] = [Bumped(@) EXCEPT !.status = "RUNNING", !.progress = p]]
  /\ Mirror(j, Copying(ingest[j], p))
  /\ accepted' = {<<j, t>>}
  /\ UNCHANGED <<now, worker, beats, over>>

\* The part that complete and fail share: the lease ends and the worker is free.
Finish(j, w, t, r, row) ==
  /\ Owned(j, w, t, r)
  /\ row.status \in Edges[job[j].status]
  /\ job' = [job EXCEPT ![j] = Freed(Bumped(row))]
  /\ worker' = [worker EXCEPT ![w] = "ONLINE"]
  /\ over' = over \cup {<<j, t>>}
  /\ accepted' = {<<j, t>>}
  /\ UNCHANGED <<now, beats>>

Complete(j, w, t, r) ==
  /\ Finish(j, w, t, r, [job[j] EXCEPT !.status = "COMPLETE", !.progress = Units])
  /\ Mirror(j, Verified)

Fail(j, w, t, r, err) ==
  /\ Finish(j, w, t, r, [job[j] EXCEPT !.status = "FAILED"])
  /\ Mirror(j, Broken(ingest[j], err))

\* Faulty variant: start-up sweeps every lease, as it does the local jobs.
ExpiredOrNot(j) == job[j].status \in Active
Expired(j) == job[j].status \in Active /\ job[j].expires <= now

\* recover_on_startup sweeps every expired lease; the handlers of the old process are gone.
Startup ==
  /\ job' = [j \in Jobs |-> IF Expired(j)
                            THEN Freed(Bumped([job[j] EXCEPT !.status = "INTERRUPTED"]))
                            ELSE job[j]]
  /\ beats' = [w \in Workers |-> 0]
  /\ over' = over \cup {<<j, job[j].token>> : j \in {k \in Jobs : Expired(k)}}
  /\ accepted' = {}
  /\ UNCHANGED <<now, worker, ingest>>

\* No route or command calls it; the repository offers it to the control plane.
Reconcile(j, r) ==
  /\ "PENDING" \in Edges[job[j].status]
  /\ job[j].revision = r
  /\ CanBump(j)
  /\ job' = [job EXCEPT ![j] = [Bumped(@) EXCEPT !.status = "PENDING"]]
  /\ accepted' = {}
  /\ UNCHANGED <<now, worker, beats, ingest, over>>

Mutation(j, w, t, r) ==
  \/ \E secs \in LeaseSeconds : Renew(j, w, t, r, secs)
  \/ \E p \in 0..Units : Progress(j, w, t, r, p)
  \/ Complete(j, w, t, r)
  \/ \E err \in Errors : Fail(j, w, t, r, err)

\* What any client can know of a job: the tokens handed out and the revisions answered.
Issued(j) == 1..job[j].attempts
Told(j) == 0..job[j].revision

Next ==
  \/ Tick
  \/ Startup
  \/ \E j \in Jobs : Enqueue(j)
  \/ \E w \in Workers : Register(w) \/ HeartbeatRead(w) \/ HeartbeatWrite(w)
  \/ \E w \in Workers, secs \in LeaseSeconds : Claim(w, secs)
  \/ \E j \in Jobs : \E r \in Told(j) : Reconcile(j, r)
  \/ \E w \in Workers, j \in Jobs : \E t \in Issued(j), r \in Told(j) : Mutation(j, w, t, r)

Spec == Init /\ [][Next]_vars

-----------------------------------------------------------------------------
(* Properties *)

\* Every column holds a value of its type (the check constraints of the tables).
TypeOK ==
  /\ now \in Nat
  /\ job \in [Jobs -> Job]
  /\ worker \in [Workers -> WorkerStatus]
  /\ beats \in [Workers -> Nat]
  /\ ingest \in [IngestJobs -> Ingest]
  /\ over \subseteq Jobs \X Nat
  /\ accepted \subseteq Jobs \X Nat

\* The three lease columns are set exactly while the job is LEASED or RUNNING, and the
\* token is the one drawn by the latest claim: no finished, swept or reconciled row
\* keeps a piece of a lease that a late request could match.
LeaseColumnsAgree ==
  \A j \in Jobs :
    IF job[j].status \in Active
    THEN job[j].worker \in Workers /\ job[j].token = job[j].attempts
         /\ job[j].token > 0 /\ job[j].expires > 0
    ELSE job[j].worker = NoWorker /\ job[j].token = 0 /\ job[j].expires = 0

\* A worker never holds two jobs, whatever expired, was swept or was handed out again.
OneLeasePerWorker ==
  \A w \in Workers, j, k \in Jobs : Holds(w, j) /\ Holds(w, k) => j = k

\* The ingest aggregate tells the operator what became of the job: VERIFIED exactly when
\* the job is COMPLETE, stopped exactly when it FAILED, and as many bytes verified as the
\* job made progress, through every interruption and new attempt.
IngestMirrorsJob ==
  \A j \in IngestJobs :
    /\ ingest[j].status = "VERIFIED" <=> job[j].status = "COMPLETE"
    /\ ingest[j].itemsVerified <=> job[j].status = "COMPLETE"
    /\ ingest[j].status \in {"INTERRUPTED", "FAILED"} <=> job[j].status = "FAILED"
    /\ ingest[j].status = "DISCOVERED" => job[j].progress = 0
    /\ ingest[j].verified = job[j].progress

\* A token whose lease once ran out or ended is never accepted again: not after a sweep,
\* not before one, not by renewing, and not when the job has been leased anew.
SpentTokensStaySpent == [][accepted' \cap over = {}]_vars

\* Two readings of a job with the same revision saw the same row: every change of a row
\* counts its revision up by one (but for the row being created).
RevisionCountsChanges ==
  [][\A j \in Jobs : job'[j] # job[j] /\ job[j].status # "ABSENT"
                       => job'[j].revision = job[j].revision + 1]_vars

\* A COMPLETE or FAILED job, and what its ingest shows, never changes again.
FinishedStaysFinished ==
  [][\A j \in Jobs : job[j].status \in {"COMPLETE", "FAILED"}
                       => /\ job'[j] = job[j]
                          /\ j \in IngestJobs => ingest'[j] = ingest[j]]_vars

\* While a lease is unexpired only its holder can end it: no restart of the server and no
\* other worker takes it away.
LiveLeaseIsKept ==
  [][\A j \in Jobs :
       job[j].status \in Active /\ job[j].expires > now /\ job'[j].token # job[j].token
         => <<j, job[j].token>> \in accepted']_vars

\* What is left of the table when leases, tokens, revisions and time are forgotten.
PhaseOf(status) ==
  CASE status = "ABSENT"      -> "absent"
    [] status = "PENDING"     -> "waiting"
    [] status \in Active      -> "owned"
    [] status = "INTERRUPTED" -> "parked"
    [] status = "COMPLETE"    -> "done"
    [] status = "FAILED"      -> "failed"

Work == INSTANCE OwnedWork WITH
          Works <- Jobs,
          Shown <- IngestJobs,
          phase <- [j \in Jobs |-> PhaseOf(job[j].status)],
          owner <- [j \in Jobs |-> job[j].worker],
          verified <- {j \in IngestJobs : ingest[j].status = "VERIFIED"}

\* The job table implements exclusive ownership of work: one owner at a time, ended by the
\* owner or taken back, finished once, and shown as VERIFIED only when it was done.
WorkSpec == Work!Spec
=============================================================================
