------------------------- MODULE WorkerSession_proofs -------------------------
(***************************************************************************)
(* Proofs about the job table (JobLease) and the workers in session with   *)
(* it (WorkerSession), for any number of workers and jobs and every bound. *)
(*                                                                         *)
(* The table.  The inductive invariant is IInv: the columns of a lease     *)
(* agree with the status, so a row that is not leased has nothing a late   *)
(* request could match; a worker holds one row at most; the ingest mirrors *)
(* its job; and every lease that ended or expired is behind the job's      *)
(* current one, which is what makes fencing an invariant and not a matter  *)
(* of luck.  From it, and from what a single step may do to a row, follow  *)
(* the action properties of the table and the refinement to OwnedWork.     *)
(*                                                                         *)
(* The session.  For any number of faults and of late requests, what the   *)
(* workers ask of the table is among what JobLease considers, a job is     *)
(* COMPLETE only if its last handler said VERIFIED, and who holds a lease  *)
(* knows the revision of its row.  The invariant SInv follows the lease    *)
(* that a request was made under.  While the client waits it is the lease  *)
(* in hand; once the client gave up, the lease in hand, if any, is another *)
(* one, for a token is never handed out twice.  So a late report may       *)
(* change the row, but not behind the back of a client that is at work     *)
(* under the same lease.                                                   *)
(***************************************************************************)
EXTENDS WorkerSession, TLAPS

-----------------------------------------------------------------------------
(* The job table: the inductive invariant *)

\* A lease in the history is an earlier attempt, or the current one once it is over.
SpentIsBehind ==
  \A j \in Jobs, t \in Nat :
    <<j, t>> \in over =>
      /\ t <= job[j].attempts
      /\ t = job[j].attempts => job[j].status \notin Active \/ job[j].expires <= now

IInv ==
  /\ TypeOK
  /\ LeaseColumnsAgree
  /\ OneLeasePerWorker
  /\ IngestMirrorsJob
  /\ SpentIsBehind

-----------------------------------------------------------------------------
(* Rows: the columns after each update, so that later steps need not expand it *)

Row(row, s, w, t, e, r, a, p) ==
  /\ row \in Job
  /\ row.status = s /\ row.worker = w /\ row.token = t /\ row.expires = e
  /\ row.revision = r /\ row.attempts = a /\ row.progress = p

LEMMA BumpedRow ==
  ASSUME NEW row \in Job
  PROVE  Row(Bumped(row), row.status, row.worker, row.token, row.expires,
             row.revision + 1, row.attempts, row.progress)
BY DEF Job, Bumped, Row

LEMMA FreedRow ==
  ASSUME NEW row \in Job
  PROVE  Row(Freed(row), row.status, NoWorker, 0, 0, row.revision, row.attempts, row.progress)
BY DEF Job, Freed, Row

LEMMA StatusRow ==
  ASSUME NEW row \in Job, NEW s \in JobStatus
  PROVE  Row([row EXCEPT !.status = s], s, row.worker, row.token, row.expires,
             row.revision, row.attempts, row.progress)
BY DEF Job, Row

LEMMA AttemptedRow ==
  ASSUME NEW row \in Job
  PROVE  Row(Attempted(row), "LEASED", row.worker, row.token, row.expires,
             row.revision + 1, row.attempts + 1, row.progress)
<1> DEFINE b == Bumped(row)
<1>1. Row(b, row.status, row.worker, row.token, row.expires,
          row.revision + 1, row.attempts, row.progress)
  BY BumpedRow
<1> HIDE DEF b
<1>2. \A a \in Nat : Row([b EXCEPT !.status = "LEASED", !.attempts = a], "LEASED",
                         row.worker, row.token, row.expires, row.revision + 1, a, row.progress)
  BY <1>1 DEF Row, Job, JobStatus
<1>3. b.attempts + 1 \in Nat /\ b.attempts = row.attempts
  BY <1>1 DEF Row, Job
<1>4. Attempted(row) = [b EXCEPT !.status = "LEASED", !.attempts = b.attempts + 1]
  BY DEF b, Attempted
<1>5. QED
  BY <1>2, <1>3, <1>4

LEMMA LeasedRow ==
  ASSUME NEW row \in Job, NEW w \in Workers, NEW secs \in Nat, now \in Nat
  PROVE  Row(Leased(row, w, secs), "LEASED", w, row.attempts + 1, now + secs,
             row.revision + 1, row.attempts + 1, row.progress)
<1> DEFINE b == Attempted(row)
<1>1. Row(b, "LEASED", row.worker, row.token, row.expires,
          row.revision + 1, row.attempts + 1, row.progress)
  BY AttemptedRow
<1> HIDE DEF b
<1>2. \A a \in Nat : \A e \in Nat :
        Row([b EXCEPT !.worker = w, !.token = a, !.expires = e], "LEASED", w, a, e,
            row.revision + 1, row.attempts + 1, row.progress)
  BY <1>1 DEF Row, Job
<1>3. row.attempts + 1 \in Nat /\ now + secs \in Nat
  BY DEF Job
<1>4. QED
  BY <1>2, <1>3 DEF b, Leased

LEMMA RenewedRow ==
  ASSUME NEW row \in Job, NEW secs \in Nat, now \in Nat,
         NEW e \in Nat, e = IF row.expires > now + secs THEN row.expires ELSE now + secs
  PROVE  Row(Renewed(row, secs), row.status, row.worker, row.token, e, row.revision + 1,
             row.attempts, row.progress)
<1> DEFINE b == Bumped(row)
<1>1. Row(b, row.status, row.worker, row.token, row.expires,
          row.revision + 1, row.attempts, row.progress)
  BY BumpedRow
<1> HIDE DEF b
<1>2. Row([b EXCEPT !.expires = IF @ > now + secs THEN @ ELSE now + secs],
          row.status, row.worker, row.token, e, row.revision + 1, row.attempts, row.progress)
  BY <1>1 DEF Row, Job
<1>3. QED
  BY <1>2 DEF b, Renewed

LEMMA ProgressedRow ==
  ASSUME NEW row \in Job, NEW p \in 0..Units
  PROVE  Row([Bumped(row) EXCEPT !.status = "RUNNING", !.progress = p],
             "RUNNING", row.worker, row.token, row.expires, row.revision + 1, row.attempts, p)
<1> DEFINE b == Bumped(row)
<1>1. Row(b, row.status, row.worker, row.token, row.expires,
          row.revision + 1, row.attempts, row.progress)
  BY BumpedRow
<1> HIDE DEF b
<1>2. Row([b EXCEPT !.status = "RUNNING", !.progress = p],
          "RUNNING", row.worker, row.token, row.expires, row.revision + 1, row.attempts, p)
  BY <1>1 DEF Row, Job, JobStatus
<1>3. QED
  BY <1>2 DEF b

LEMMA DoneRow ==
  ASSUME NEW row \in Job, NEW p \in 0..Units
  PROVE  Row([row EXCEPT !.status = "COMPLETE", !.progress = p], "COMPLETE", row.worker,
             row.token, row.expires, row.revision, row.attempts, p)
BY DEF Job, JobStatus, Row

LEMMA EndedRow ==
  ASSUME NEW row \in Job
  PROVE  Row(Freed(Bumped(row)), row.status, NoWorker, 0, 0, row.revision + 1,
             row.attempts, row.progress)
<1> DEFINE b == Bumped(row)
<1>1. Row(b, row.status, row.worker, row.token, row.expires,
          row.revision + 1, row.attempts, row.progress)
  BY BumpedRow
<1> HIDE DEF b
<1>2. Row(Freed(b), b.status, NoWorker, 0, 0, b.revision, b.attempts, b.progress)
  BY <1>1, FreedRow DEF Row
<1>3. QED
  BY <1>1, <1>2 DEF Row, b

LEMMA ReopenedRow ==
  ASSUME NEW row \in Job
  PROVE  Row([Bumped(row) EXCEPT !.status = "PENDING"], "PENDING", row.worker, row.token,
             row.expires, row.revision + 1, row.attempts, row.progress)
<1> DEFINE b == Bumped(row)
<1>1. Row(b, row.status, row.worker, row.token, row.expires,
          row.revision + 1, row.attempts, row.progress)
  BY BumpedRow
<1> HIDE DEF b
<1>2. Row([b EXCEPT !.status = "PENDING"], "PENDING", b.worker, b.token, b.expires,
          b.revision, b.attempts, b.progress)
  BY <1>1, StatusRow DEF Row, JobStatus
<1>3. QED
  BY <1>1, <1>2 DEF Row, b
-----------------------------------------------------------------------------
(* Effects: what each action that changes a row does to the table *)

Others(j) == \A k \in Jobs : k # j => job'[k] = job[k]

LEMMA EnqueueEffect ==
  ASSUME TypeOK, NEW j \in Jobs, Enqueue(j)
  PROVE  /\ job' \in [Jobs -> Job] /\ Others(j)
         /\ job[j].status = "ABSENT"
         /\ Row(job'[j], "PENDING", job[j].worker, job[j].token, job[j].expires,
                job[j].revision, job[j].attempts, job[j].progress)
<1>1. Row([job[j] EXCEPT !.status = "PENDING"], "PENDING", job[j].worker, job[j].token,
          job[j].expires, job[j].revision, job[j].attempts, job[j].progress)
  BY StatusRow DEF TypeOK, JobStatus
<1>2. job' = [job EXCEPT ![j] = [job[j] EXCEPT !.status = "PENDING"]]
  BY DEF Enqueue
<1>3. QED
  BY <1>1, <1>2 DEF Enqueue, TypeOK, Others, Row

LEMMA ClaimEffect ==
  ASSUME TypeOK, NEW w \in Workers, NEW secs \in LeaseSeconds, Claim(w, secs)
  PROVE  \E j \in Jobs :
           /\ job' \in [Jobs -> Job] /\ Others(j)
           /\ job[j].status = "PENDING"
           /\ Row(job'[j], "LEASED", w, job[j].attempts + 1, now + secs,
                  job[j].revision + 1, job[j].attempts + 1, job[j].progress)
<1>1. PICK j \in Claimable(w) : job' = [job EXCEPT ![j] = Leased(job[j], w, secs)]
  BY DEF Claim
<1>2. j \in Jobs /\ job[j].status = "PENDING"
  BY LeaseAssumption DEF Claimable
<1>3. secs \in Nat
  BY LeaseAssumption
<1>4. Row(Leased(job[j], w, secs), "LEASED", w, job[j].attempts + 1, now + secs,
          job[j].revision + 1, job[j].attempts + 1, job[j].progress)
  BY <1>2, <1>3, LeasedRow DEF TypeOK
<1>5. QED
  BY <1>1, <1>2, <1>4 DEF TypeOK, Others, Row

LEMMA RenewEffect ==
  ASSUME TypeOK, NEW j \in Jobs, NEW w, NEW t, NEW r, NEW secs \in LeaseSeconds,
         Renew(j, w, t, r, secs)
  PROVE  \E e \in Nat :
           /\ job' \in [Jobs -> Job] /\ Others(j)
           /\ e >= job[j].expires
           /\ Row(job'[j], job[j].status, job[j].worker, job[j].token, e,
                  job[j].revision + 1, job[j].attempts, job[j].progress)
<1> DEFINE e == IF job[j].expires > now + secs THEN job[j].expires ELSE now + secs
<1>1. secs \in Nat /\ job[j].expires \in Nat /\ now \in Nat /\ job[j] \in Job
  BY LeaseAssumption DEF TypeOK, Job
<1>2. e \in Nat /\ e >= job[j].expires
  BY <1>1
<1>3. Row(Renewed(job[j], secs), job[j].status, job[j].worker, job[j].token, e,
          job[j].revision + 1, job[j].attempts, job[j].progress)
  BY <1>1, <1>2, RenewedRow
<1> HIDE DEF e
<1>4. job' = [job EXCEPT ![j] = Renewed(job[j], secs)]
  BY DEF Renew
<1>5. QED
  BY <1>2, <1>3, <1>4 DEF TypeOK, Others, Row

LEMMA ProgressEffect ==
  ASSUME TypeOK, NEW j \in Jobs, NEW w, NEW t, NEW r, NEW p \in 0..Units,
         Progress(j, w, t, r, p)
  PROVE  /\ job' \in [Jobs -> Job] /\ Others(j)
         /\ Row(job'[j], "RUNNING", job[j].worker, job[j].token, job[j].expires,
                job[j].revision + 1, job[j].attempts, p)
<1>1. Row([Bumped(job[j]) EXCEPT !.status = "RUNNING", !.progress = p],
          "RUNNING", job[j].worker, job[j].token, job[j].expires, job[j].revision + 1,
          job[j].attempts, p)
  BY ProgressedRow DEF TypeOK
<1>2. job' = [job EXCEPT ![j] = [Bumped(job[j]) EXCEPT !.status = "RUNNING", !.progress = p]]
  BY DEF Progress
<1>3. QED
  BY <1>1, <1>2 DEF TypeOK, Others, Row

LEMMA FinishEffect ==
  ASSUME TypeOK, NEW j \in Jobs, NEW w, NEW t, NEW r, NEW row \in Job, Finish(j, w, t, r, row),
         row.revision = job[j].revision
  PROVE  /\ job' \in [Jobs -> Job] /\ Others(j)
         /\ Row(job'[j], row.status, NoWorker, 0, 0, job[j].revision + 1,
                row.attempts, row.progress)
<1>1. Row(Freed(Bumped(row)), row.status, NoWorker, 0, 0, row.revision + 1,
          row.attempts, row.progress)
  BY EndedRow
<1>2. job' = [job EXCEPT ![j] = Freed(Bumped(row))]
  BY DEF Finish
<1>3. QED
  BY <1>1, <1>2 DEF TypeOK, Others, Row

LEMMA CompleteEffect ==
  ASSUME TypeOK, NEW j \in Jobs, NEW w, NEW t, NEW r, Complete(j, w, t, r)
  PROVE  /\ job' \in [Jobs -> Job] /\ Others(j)
         /\ job[j].status = "RUNNING"
         /\ Row(job'[j], "COMPLETE", NoWorker, 0, 0, job[j].revision + 1,
                job[j].attempts, Units)
<1> DEFINE row == [job[j] EXCEPT !.status = "COMPLETE", !.progress = Units]
<1>0. job[j] \in Job /\ Units \in 0..Units
  BY LeaseAssumption DEF TypeOK
<1>1. Row(row, "COMPLETE", job[j].worker, job[j].token, job[j].expires, job[j].revision,
          job[j].attempts, Units)
  BY <1>0, DoneRow
<1>2. Finish(j, w, t, r, row)
  BY DEF Complete
<1> HIDE DEF row
<1>3. "COMPLETE" \in Edges[job[j].status]
  BY <1>1, <1>2 DEF Finish, Row
<1>4. job[j].status = "RUNNING"
  BY <1>3 DEF Edges, TypeOK, Job, JobStatus
<1>5. QED
  BY <1>1, <1>2, <1>4, FinishEffect DEF Row

LEMMA FailEffect ==
  ASSUME TypeOK, NEW j \in Jobs, NEW w, NEW t, NEW r, NEW err, Fail(j, w, t, r, err)
  PROVE  /\ job' \in [Jobs -> Job] /\ Others(j)
         /\ Row(job'[j], "FAILED", NoWorker, 0, 0, job[j].revision + 1,
                job[j].attempts, job[j].progress)
<1> DEFINE row == [job[j] EXCEPT !.status = "FAILED"]
<1>1. Row(row, "FAILED", job[j].worker, job[j].token, job[j].expires, job[j].revision,
          job[j].attempts, job[j].progress)
  BY StatusRow DEF TypeOK, JobStatus
<1>2. Finish(j, w, t, r, row)
  BY DEF Fail
<1> HIDE DEF row
<1>3. QED
  BY <1>1, <1>2, FinishEffect DEF Row

LEMMA StartupEffect ==
  ASSUME TypeOK, Startup
  PROVE  /\ job' \in [Jobs -> Job]
         /\ \A j \in Jobs : ~Expired(j) => job'[j] = job[j]
         /\ \A j \in Jobs : Expired(j) =>
               Row(job'[j], "INTERRUPTED", NoWorker, 0, 0, job[j].revision + 1,
                   job[j].attempts, job[j].progress)
<1>1. ASSUME NEW j \in Jobs, Expired(j)
      PROVE  Row(job'[j], "INTERRUPTED", NoWorker, 0, 0, job[j].revision + 1,
                 job[j].attempts, job[j].progress)
  <2> DEFINE row == [job[j] EXCEPT !.status = "INTERRUPTED"]
  <2>1. Row(row, "INTERRUPTED", job[j].worker, job[j].token, job[j].expires,
            job[j].revision, job[j].attempts, job[j].progress)
    BY StatusRow DEF TypeOK, JobStatus
  <2>2. job'[j] = Freed(Bumped(row))
    BY <1>1 DEF Startup
  <2> HIDE DEF row
  <2>3. QED
    BY <2>1, <2>2, EndedRow DEF Row
<1>2. ASSUME NEW j \in Jobs, ~Expired(j) PROVE job'[j] = job[j]
  BY <1>2 DEF Startup
<1>3. job' = [j \in Jobs |-> job'[j]]
  BY DEF Startup
<1>4. QED
  BY <1>1, <1>2, <1>3 DEF Row, TypeOK

LEMMA ReconcileEffect ==
  ASSUME TypeOK, NEW j \in Jobs, NEW r, Reconcile(j, r)
  PROVE  /\ job' \in [Jobs -> Job] /\ Others(j)
         /\ job[j].status = "INTERRUPTED"
         /\ Row(job'[j], "PENDING", job[j].worker, job[j].token, job[j].expires,
                job[j].revision + 1, job[j].attempts, job[j].progress)
<1>1. Row([Bumped(job[j]) EXCEPT !.status = "PENDING"], "PENDING", job[j].worker,
          job[j].token, job[j].expires, job[j].revision + 1, job[j].attempts,
          job[j].progress)
  BY ReopenedRow DEF TypeOK
<1>2. job' = [job EXCEPT ![j] = [Bumped(job[j]) EXCEPT !.status = "PENDING"]]
  BY DEF Reconcile
<1>3. job[j].status = "INTERRUPTED"
  BY DEF Reconcile, Edges, TypeOK, Job, JobStatus
<1>4. QED
  BY <1>1, <1>2, <1>3 DEF TypeOK, Others, Row
-----------------------------------------------------------------------------
(* The inductive invariant, one lemma per action *)

LEMMA InitIInv == Init => IInv
BY LeaseAssumption DEF Init, IInv, TypeOK, LeaseColumnsAgree, OneLeasePerWorker,
   IngestMirrorsJob, SpentIsBehind, Job, Ingest, JobStatus, WorkerStatus, IngestStatus,
   Active, Holds

\* A step that leaves the rows and the ingests alone.
LEMMA QuietKeeps ==
  ASSUME IInv, UNCHANGED <<now, job, ingest, over>>, accepted' = {},
         worker' \in [Workers -> WorkerStatus], beats' \in [Workers -> Nat]
  PROVE  IInv'
BY DEF IInv, TypeOK, LeaseColumnsAgree, OneLeasePerWorker, IngestMirrorsJob, SpentIsBehind,
   Holds

LEMMA TickKeeps == ASSUME IInv, Tick PROVE IInv'
<1>1. TypeOK'
  BY DEF IInv, Tick, TypeOK, Job
<1>2. LeaseColumnsAgree' /\ OneLeasePerWorker' /\ IngestMirrorsJob'
  BY DEF IInv, Tick, LeaseColumnsAgree, OneLeasePerWorker, IngestMirrorsJob, Holds
<1>3. SpentIsBehind'
  <2> SUFFICES ASSUME NEW j \in Jobs, NEW t \in Nat, <<j, t>> \in over'
               PROVE  /\ t <= job[j].attempts
                      /\ t = job[j].attempts => job[j].status \notin Active
                                                \/ job[j].expires <= now'
    BY DEF SpentIsBehind, Tick
  <2>1. job[j] \in Job /\ now \in Nat /\ now' = now + 1
    BY DEF IInv, TypeOK, Tick
  <2>2. CASE <<j, t>> \in over
    BY <2>1, <2>2 DEF IInv, SpentIsBehind, Job
  <2>3. CASE t = job[j].token /\ job[j].status \in Active /\ job[j].expires <= now + 1
    BY <2>1, <2>3 DEF IInv, LeaseColumnsAgree, Job
  <2>4. QED
    BY <2>2, <2>3 DEF Tick
<1>4. QED
  BY <1>1, <1>2, <1>3 DEF IInv

LEMMA EnqueueKeeps == ASSUME IInv, NEW j \in Jobs, Enqueue(j) PROVE IInv'
<1>0. TypeOK
  BY DEF IInv
<1>1. /\ job' \in [Jobs -> Job] /\ Others(j)
      /\ job[j].status = "ABSENT"
      /\ Row(job'[j], "PENDING", job[j].worker, job[j].token, job[j].expires,
             job[j].revision, job[j].attempts, job[j].progress)
  BY <1>0, EnqueueEffect
<1>2. UNCHANGED <<now, worker, beats, ingest, over>> /\ accepted' = {}
  BY DEF Enqueue
<1>3. TypeOK'
  BY <1>0, <1>1, <1>2 DEF TypeOK
<1>4. LeaseColumnsAgree'
  BY <1>1 DEF IInv, LeaseColumnsAgree, Others, Row, Active
<1>5. OneLeasePerWorker'
  BY <1>1 DEF IInv, OneLeasePerWorker, Holds, Others, Row, Active
<1>6. IngestMirrorsJob'
  BY <1>1, <1>2, LeaseAssumption DEF IInv, IngestMirrorsJob, Others, Row
<1>7. SpentIsBehind'
  BY <1>1, <1>2 DEF IInv, SpentIsBehind, Others, Row, Active
<1>8. QED
  BY <1>3, <1>4, <1>5, <1>6, <1>7 DEF IInv

LEMMA ClaimKeeps ==
  ASSUME IInv, NEW w \in Workers, NEW secs \in LeaseSeconds, Claim(w, secs) PROVE IInv'
<1>0. TypeOK /\ secs \in Nat \ {0}
  BY LeaseAssumption DEF IInv
<1>1. PICK j \in Jobs :
        /\ job' \in [Jobs -> Job] /\ Others(j)
        /\ job[j].status = "PENDING"
        /\ Row(job'[j], "LEASED", w, job[j].attempts + 1, now + secs,
               job[j].revision + 1, job[j].attempts + 1, job[j].progress)
  BY <1>0, ClaimEffect
<1>2. /\ UNCHANGED <<now, beats, ingest, over>> /\ accepted' = {}
      /\ worker' = [worker EXCEPT ![w] = "BUSY"]
      /\ \A k \in Jobs : ~Holds(w, k)
  BY DEF Claim, Free
<1>3. TypeOK'
  BY <1>0, <1>1, <1>2 DEF TypeOK, WorkerStatus
<1>4. LeaseColumnsAgree'
  BY <1>0, <1>1, <1>2 DEF IInv, TypeOK, Job, LeaseColumnsAgree, Others, Row, Active
<1>5. OneLeasePerWorker'
  BY <1>1, <1>2 DEF IInv, OneLeasePerWorker, Holds, Others, Row
<1>6. IngestMirrorsJob'
  BY <1>1, <1>2, LeaseAssumption DEF IInv, IngestMirrorsJob, Others, Row
<1>7. SpentIsBehind'
  BY <1>0, <1>1, <1>2 DEF IInv, TypeOK, Job, SpentIsBehind, Others, Row
<1>8. QED
  BY <1>3, <1>4, <1>5, <1>6, <1>7 DEF IInv

LEMMA StartupKeeps == ASSUME IInv, Startup PROVE IInv'
<1>0. TypeOK
  BY DEF IInv
<1>1. /\ job' \in [Jobs -> Job]
      /\ \A j \in Jobs : ~Expired(j) => job'[j] = job[j]
      /\ \A j \in Jobs : Expired(j) =>
            Row(job'[j], "INTERRUPTED", NoWorker, 0, 0, job[j].revision + 1,
                job[j].attempts, job[j].progress)
  BY <1>0, StartupEffect
<1>2. /\ UNCHANGED <<now, worker, ingest>> /\ accepted' = {}
      /\ beats' = [w \in Workers |-> 0]
      /\ over' = over \cup {<<j, job[j].token>> : j \in {k \in Jobs : Expired(k)}}
  BY DEF Startup
<1>3. TypeOK'
  <2>1. over' \subseteq Jobs \X Nat
    BY <1>0, <1>2 DEF TypeOK, Job
  <2>2. QED
    BY <1>0, <1>1, <1>2, <2>1 DEF TypeOK
<1>4. LeaseColumnsAgree'
  BY <1>1 DEF IInv, LeaseColumnsAgree, Row, Active
<1>5. OneLeasePerWorker'
  BY <1>1 DEF IInv, OneLeasePerWorker, Holds, Row, Active
<1>6. IngestMirrorsJob'
  <2> SUFFICES ASSUME NEW j \in IngestJobs PROVE IngestMirrorsJob!(j)'
    BY DEF IngestMirrorsJob
  <2>1. j \in Jobs
    BY LeaseAssumption
  <2>2. CASE ~Expired(j)
    BY <1>1, <1>2, <2>1, <2>2 DEF IInv, IngestMirrorsJob
  <2>3. CASE Expired(j)
    BY <1>1, <1>2, <2>1, <2>3 DEF IInv, IngestMirrorsJob, Expired, Active, Row
  <2>4. QED
    BY <2>2, <2>3
<1>7. SpentIsBehind'
  <2> SUFFICES ASSUME NEW j \in Jobs, NEW t \in Nat, <<j, t>> \in over'
               PROVE  /\ t <= job'[j].attempts
                      /\ t = job'[j].attempts => job'[j].status \notin Active
                                                 \/ job'[j].expires <= now'
    BY DEF SpentIsBehind
  <2>1. CASE <<j, t>> \in over
    BY <1>1, <1>2, <2>1 DEF IInv, SpentIsBehind, Row, Active
  <2>2. CASE Expired(j) /\ t = job[j].token
    BY <1>0, <1>1, <2>2 DEF IInv, TypeOK, Job, LeaseColumnsAgree, Expired, Row, Active
  <2>3. QED
    BY <1>2, <2>1, <2>2
<1>8. QED
  BY <1>3, <1>4, <1>5, <1>6, <1>7 DEF IInv

LEMMA ReconcileKeeps ==
  ASSUME IInv, NEW j \in Jobs, NEW r, Reconcile(j, r) PROVE IInv'
<1>0. TypeOK
  BY DEF IInv
<1>1. /\ job' \in [Jobs -> Job] /\ Others(j)
      /\ job[j].status = "INTERRUPTED"
      /\ Row(job'[j], "PENDING", job[j].worker, job[j].token, job[j].expires,
             job[j].revision + 1, job[j].attempts, job[j].progress)
  BY <1>0, ReconcileEffect
<1>2. UNCHANGED <<now, worker, beats, ingest, over>> /\ accepted' = {}
  BY DEF Reconcile
<1>3. TypeOK'
  BY <1>0, <1>1, <1>2 DEF TypeOK
<1>4. LeaseColumnsAgree'
  BY <1>1 DEF IInv, LeaseColumnsAgree, Others, Row, Active
<1>5. OneLeasePerWorker'
  BY <1>1 DEF IInv, OneLeasePerWorker, Holds, Others, Row, Active
<1>6. IngestMirrorsJob'
  BY <1>1, <1>2, LeaseAssumption DEF IInv, IngestMirrorsJob, Others, Row
<1>7. SpentIsBehind'
  BY <1>1, <1>2 DEF IInv, SpentIsBehind, Others, Row, Active
<1>8. QED
  BY <1>3, <1>4, <1>5, <1>6, <1>7 DEF IInv

\* An accepted request names the current lease, and that lease is not spent.
LEMMA OwnedIsCurrent ==
  ASSUME IInv, NEW j \in Jobs, NEW w \in Workers, NEW t, NEW r, Owned(j, w, t, r)
  PROVE  /\ job[j].status \in Active /\ job[j].worker = w
         /\ t = job[j].token /\ t = job[j].attempts /\ t \in Nat
         /\ <<j, t>> \notin over
<1>1. /\ job[j].status \in Active /\ job[j].worker = w /\ job[j].token = t
      /\ job[j].expires > now
  BY DEF Owned, Holds
<1>2. t = job[j].attempts /\ t \in Nat
  BY <1>1 DEF IInv, LeaseColumnsAgree, TypeOK, Job
<1>3. <<j, t>> \notin over
  BY <1>1, <1>2 DEF IInv, SpentIsBehind, TypeOK, Job
<1>4. QED
  BY <1>1, <1>2, <1>3

LEMMA RenewKeeps ==
  ASSUME IInv, NEW j \in Jobs, NEW w \in Workers, NEW t, NEW r, NEW secs \in LeaseSeconds,
         Renew(j, w, t, r, secs)
  PROVE  IInv'
<1>0. TypeOK /\ Owned(j, w, t, r)
  BY DEF IInv, Renew
<1>1. PICK e \in Nat :
        /\ job' \in [Jobs -> Job] /\ Others(j)
        /\ e >= job[j].expires
        /\ Row(job'[j], job[j].status, job[j].worker, job[j].token, e,
               job[j].revision + 1, job[j].attempts, job[j].progress)
  BY <1>0, RenewEffect
<1>2. UNCHANGED <<now, worker, beats, ingest, over>> /\ accepted' = {<<j, t>>}
  BY DEF Renew
<1>3. /\ job[j].status \in Active /\ job[j].token = job[j].attempts /\ t \in Nat
      /\ <<j, job[j].attempts>> \notin over
  BY <1>0, OwnedIsCurrent
<1>4. TypeOK'
  BY <1>0, <1>1, <1>2, <1>3 DEF TypeOK
<1>5. LeaseColumnsAgree'
  <2>1. job[j].expires > 0 /\ job[j].expires \in Nat
    BY <1>0, <1>3 DEF IInv, TypeOK, Job, LeaseColumnsAgree
  <2>2. job'[j].expires > 0
    BY <1>1, <2>1 DEF Row
  <2>3. QED
    BY <1>1, <1>3, <2>2 DEF IInv, LeaseColumnsAgree, Others, Row
<1>6. OneLeasePerWorker'
  BY <1>1 DEF IInv, OneLeasePerWorker, Holds, Others, Row
<1>7. IngestMirrorsJob'
  BY <1>1, <1>2, LeaseAssumption DEF IInv, IngestMirrorsJob, Others, Row
<1>8. SpentIsBehind'
  BY <1>1, <1>2, <1>3 DEF IInv, SpentIsBehind, Others, Row
<1>9. QED
  BY <1>4, <1>5, <1>6, <1>7, <1>8 DEF IInv

LEMMA ProgressKeeps ==
  ASSUME IInv, NEW j \in Jobs, NEW w \in Workers, NEW t, NEW r, NEW p \in 0..Units,
         Progress(j, w, t, r, p)
  PROVE  IInv'
<1>0. TypeOK /\ Owned(j, w, t, r)
  BY DEF IInv, Progress
<1>1. /\ job' \in [Jobs -> Job] /\ Others(j)
      /\ Row(job'[j], "RUNNING", job[j].worker, job[j].token, job[j].expires,
             job[j].revision + 1, job[j].attempts, p)
  BY <1>0, ProgressEffect
<1>2. UNCHANGED <<now, worker, beats, over>> /\ accepted' = {<<j, t>>}
  BY DEF Progress
<1>3. /\ job[j].status \in Active /\ job[j].worker = w /\ job[j].token = job[j].attempts
      /\ t \in Nat /\ <<j, job[j].attempts>> \notin over
  BY <1>0, OwnedIsCurrent
<1>4. /\ \A k \in IngestJobs : k # j => ingest'[k] = ingest[k]
      /\ ingest' \in [IngestJobs -> Ingest]
      /\ j \in IngestJobs => /\ ingest'[j].status # "DISCOVERED"
                             /\ ingest[j].status # "DISCOVERED" =>
                                  ingest'[j].status = ingest[j].status
                             /\ ingest[j].status = "DISCOVERED" =>
                                  ingest'[j].status = "COPYING"
                             /\ ingest'[j].verified = p
                             /\ ingest'[j].itemsVerified = ingest[j].itemsVerified
  BY <1>0 DEF Progress, Mirror, Copying, TypeOK, Ingest, IngestStatus
<1>5. TypeOK'
  BY <1>0, <1>1, <1>2, <1>3, <1>4 DEF TypeOK
<1>6. LeaseColumnsAgree'
  BY <1>1, <1>3 DEF IInv, LeaseColumnsAgree, Others, Row, Active
<1>7. OneLeasePerWorker'
  BY <1>1, <1>3 DEF IInv, OneLeasePerWorker, Holds, Others, Row, Active
<1>8. IngestMirrorsJob'
  <2> SUFFICES ASSUME NEW k \in IngestJobs PROVE IngestMirrorsJob!(k)'
    BY DEF IngestMirrorsJob
  <2>0. k \in Jobs
    BY LeaseAssumption
  <2>1. CASE k # j
    BY <1>1, <1>4, <2>0, <2>1 DEF IInv, IngestMirrorsJob, Others
  <2>2. CASE k = j
    BY <1>1, <1>3, <1>4, <2>2 DEF IInv, IngestMirrorsJob, Row, Active
  <2>3. QED
    BY <2>1, <2>2
<1>9. SpentIsBehind'
  BY <1>1, <1>2, <1>3 DEF IInv, SpentIsBehind, Others, Row, Active
<1>10. QED
  BY <1>5, <1>6, <1>7, <1>8, <1>9 DEF IInv

\* The two ways to end a lease differ in the row and in the ingest only.
LEMMA EndKeeps ==
  ASSUME IInv, NEW j \in Jobs, NEW w \in Workers, NEW t, NEW r, Owned(j, w, t, r),
         NEW s \in {"COMPLETE", "FAILED"}, NEW p \in 0..Units,
         s = "COMPLETE" => p = Units,
         s = "FAILED" => p = job[j].progress,
         job' \in [Jobs -> Job], Others(j),
         Row(job'[j], s, NoWorker, 0, 0, job[j].revision + 1, job[j].attempts, p),
         worker' = [worker EXCEPT ![w] = "ONLINE"], UNCHANGED <<now, beats>>,
         over' = over \cup {<<j, t>>}, accepted' = {<<j, t>>},
         ingest' \in [IngestJobs -> Ingest],
         \A k \in IngestJobs : k # j => ingest'[k] = ingest[k],
         j \in IngestJobs => ingest'[j].verified = p,
         j \in IngestJobs /\ s = "COMPLETE" =>
           ingest'[j].status = "VERIFIED" /\ ingest'[j].itemsVerified,
         j \in IngestJobs /\ s = "FAILED" =>
           ingest'[j].status \in {"INTERRUPTED", "FAILED"} /\ ~ingest'[j].itemsVerified
  PROVE  IInv'
<1>1. t = job[j].attempts /\ t \in Nat
  BY OwnedIsCurrent
<1>2. TypeOK'
  BY <1>1 DEF IInv, TypeOK, WorkerStatus
<1>3. LeaseColumnsAgree'
  BY DEF IInv, LeaseColumnsAgree, Others, Row, Active
<1>4. OneLeasePerWorker'
  BY DEF IInv, OneLeasePerWorker, Holds, Others, Row, Active
<1>5. IngestMirrorsJob'
  <2> SUFFICES ASSUME NEW k \in IngestJobs PROVE IngestMirrorsJob!(k)'
    BY DEF IngestMirrorsJob
  <2>0. k \in Jobs
    BY LeaseAssumption
  <2>1. CASE k # j
    BY <2>0, <2>1 DEF IInv, IngestMirrorsJob, Others
  <2>2. CASE k = j
    <3>1. job'[j].status = s /\ job'[j].progress = p
      BY DEF Row
    <3>2. CASE s = "COMPLETE"
      BY <2>2, <3>1, <3>2
    <3>3. CASE s = "FAILED"
      BY <2>2, <3>1, <3>3
    <3>4. QED
      BY <3>2, <3>3
  <2>3. QED
    BY <2>1, <2>2
<1>6. SpentIsBehind'
  BY <1>1 DEF IInv, TypeOK, Job, SpentIsBehind, Others, Row, Active
<1>7. QED
  BY <1>2, <1>3, <1>4, <1>5, <1>6 DEF IInv

LEMMA CompleteKeeps ==
  ASSUME IInv, NEW j \in Jobs, NEW w \in Workers, NEW t, NEW r, Complete(j, w, t, r)
  PROVE  IInv'
<1>0. TypeOK /\ Owned(j, w, t, r) /\ Units \in 0..Units
  BY LeaseAssumption DEF IInv, Complete, Finish
<1>1. /\ job' \in [Jobs -> Job] /\ Others(j)
      /\ Row(job'[j], "COMPLETE", NoWorker, 0, 0, job[j].revision + 1, job[j].attempts, Units)
  BY <1>0, CompleteEffect
<1>2. /\ worker' = [worker EXCEPT ![w] = "ONLINE"] /\ UNCHANGED <<now, beats>>
      /\ over' = over \cup {<<j, t>>} /\ accepted' = {<<j, t>>}
  BY DEF Complete, Finish
<1>3. /\ ingest' \in [IngestJobs -> Ingest]
      /\ \A k \in IngestJobs : k # j => ingest'[k] = ingest[k]
      /\ j \in IngestJobs => /\ ingest'[j].verified = Units
                             /\ ingest'[j].status = "VERIFIED"
                             /\ ingest'[j].itemsVerified
  BY <1>0 DEF Complete, Mirror, Verified, TypeOK, Ingest, IngestStatus
<1>4. QED
  BY <1>0, <1>1, <1>2, <1>3, EndKeeps

LEMMA FailKeeps ==
  ASSUME IInv, NEW j \in Jobs, NEW w \in Workers, NEW t, NEW r, NEW err, Fail(j, w, t, r, err)
  PROVE  IInv'
<1>0. TypeOK /\ Owned(j, w, t, r) /\ job[j].progress \in 0..Units
  BY DEF IInv, Fail, Finish, TypeOK, Job
<1>1. /\ job' \in [Jobs -> Job] /\ Others(j)
      /\ Row(job'[j], "FAILED", NoWorker, 0, 0, job[j].revision + 1, job[j].attempts,
             job[j].progress)
  BY <1>0, FailEffect
<1>2. /\ worker' = [worker EXCEPT ![w] = "ONLINE"] /\ UNCHANGED <<now, beats>>
      /\ over' = over \cup {<<j, t>>} /\ accepted' = {<<j, t>>}
  BY DEF Fail, Finish
<1>3. job[j].status \in Active
  BY <1>0, OwnedIsCurrent
<1>4. /\ ingest' \in [IngestJobs -> Ingest]
      /\ \A k \in IngestJobs : k # j => ingest'[k] = ingest[k]
      /\ j \in IngestJobs => /\ ingest'[j].verified = ingest[j].verified
                             /\ ingest'[j].status \in {"INTERRUPTED", "FAILED"}
                             /\ ingest'[j].itemsVerified = ingest[j].itemsVerified
  BY <1>0 DEF Fail, Mirror, Broken, TypeOK, Ingest, IngestStatus
<1>5. j \in IngestJobs => ingest[j].verified = job[j].progress /\ ~ingest[j].itemsVerified
  BY <1>3 DEF IInv, IngestMirrorsJob, Active
<1>6. QED
  BY <1>0, <1>1, <1>2, <1>4, <1>5, EndKeeps

LEMMA NextKeeps == IInv /\ [Next]_vars => IInv'
<1> SUFFICES ASSUME IInv, [Next]_vars PROVE IInv'
  OBVIOUS
<1>1. CASE Tick
  BY <1>1, TickKeeps
<1>2. CASE Startup
  BY <1>2, StartupKeeps
<1>3. ASSUME NEW j \in Jobs, Enqueue(j) PROVE IInv'
  BY <1>3, EnqueueKeeps
<1>4. ASSUME NEW w \in Workers, Register(w) \/ HeartbeatRead(w) \/ HeartbeatWrite(w)
      PROVE IInv'
  <2>1. /\ UNCHANGED <<now, job, ingest, over>> /\ accepted' = {}
        /\ worker' \in [Workers -> WorkerStatus] /\ beats' \in [Workers -> Nat]
    BY <1>4 DEF IInv, TypeOK, WorkerStatus, Register, HeartbeatRead, HeartbeatWrite
  <2>2. QED
    BY <2>1, QuietKeeps
<1>5. ASSUME NEW w \in Workers, NEW secs \in LeaseSeconds, Claim(w, secs) PROVE IInv'
  BY <1>5, ClaimKeeps
<1>6. ASSUME NEW j \in Jobs, NEW r \in Told(j), Reconcile(j, r) PROVE IInv'
  BY <1>6, ReconcileKeeps
<1>7. ASSUME NEW w \in Workers, NEW j \in Jobs, NEW t \in Issued(j), NEW r \in Told(j),
             Mutation(j, w, t, r)
      PROVE IInv'
  BY <1>7, RenewKeeps, ProgressKeeps, CompleteKeeps, FailKeeps DEF Mutation
<1>8. CASE UNCHANGED vars
  BY <1>8 DEF vars, IInv, TypeOK, LeaseColumnsAgree, OneLeasePerWorker, IngestMirrorsJob,
     SpentIsBehind, Holds
<1>9. QED
  BY <1>1, <1>2, <1>3, <1>4, <1>5, <1>6, <1>7, <1>8 DEF Next

-----------------------------------------------------------------------------
(* Theorems *)

\* The inductive invariant holds of every behaviour of the job table.
THEOREM Invariant == Spec => []IInv
<1>1. Init => IInv
  BY InitIInv
<1>2. IInv /\ [Next]_vars => IInv'
  BY NextKeeps
<1>3. QED
  BY <1>1, <1>2, PTL DEF Spec

\* Every column of every row always holds a value of its type.
THEOREM TypeCorrect == Spec => []TypeOK
<1>1. IInv => TypeOK
  BY DEF IInv
<1>2. QED
  BY <1>1, Invariant, PTL

\* The lease columns are set exactly while the job is LEASED or RUNNING and the token is
\* that of the latest attempt: claim, complete, fail, sweep and reconcile all keep it so.
THEOREM LeaseColumns == Spec => []LeaseColumnsAgree
<1>1. IInv => LeaseColumnsAgree
  BY DEF IInv
<1>2. QED
  BY <1>1, Invariant, PTL

\* No worker ever holds two leases, expired ones included.
THEOREM OneLease == Spec => []OneLeasePerWorker
<1>1. IInv => OneLeasePerWorker
  BY DEF IInv
<1>2. QED
  BY <1>1, Invariant, PTL

\* The ingest aggregate the audit hook writes always agrees with its job.
THEOREM IngestMirrors == Spec => []IngestMirrorsJob
<1>1. IInv => IngestMirrorsJob
  BY DEF IInv
<1>2. QED
  BY <1>1, Invariant, PTL

-----------------------------------------------------------------------------
(* The life of a row *)

Taken(j) ==
  /\ job[j].status = "PENDING" /\ job'[j].status = "LEASED"
  /\ job'[j].revision = job[j].revision + 1
  /\ job'[j].attempts = job[j].attempts + 1 /\ job'[j].token = job[j].attempts + 1

Kept(j) ==
  /\ job[j].status \in Active /\ job'[j].status \in Active
  /\ job'[j].token = job[j].token /\ job'[j].attempts = job[j].attempts
  /\ job'[j].revision = job[j].revision + 1
  /\ <<j, job[j].token>> \in accepted'

Ended(j) ==
  /\ job[j].status \in Active /\ job'[j].status \in {"COMPLETE", "FAILED"}
  /\ job'[j].revision = job[j].revision + 1 /\ job'[j].attempts = job[j].attempts
  /\ <<j, job[j].token>> \in accepted'

Swept(j) ==
  /\ Expired(j) /\ job'[j].status = "INTERRUPTED"
  /\ job'[j].revision = job[j].revision + 1 /\ job'[j].attempts = job[j].attempts

Released(j) ==
  /\ job[j].status = "INTERRUPTED" /\ job'[j].status = "PENDING"
  /\ job'[j].revision = job[j].revision + 1 /\ job'[j].attempts = job[j].attempts

Published(j) ==
  /\ job[j].status = "ABSENT" /\ job'[j].status = "PENDING"
  /\ job'[j].attempts = job[j].attempts

\* What may become of row j, and no ingest but that of an owned row changes.
RowStep(j) ==
  /\ \/ job'[j] = job[j]
     \/ Published(j) \/ Taken(j) \/ Kept(j) \/ Ended(j) \/ Swept(j) \/ Released(j)
  /\ j \in IngestJobs /\ job[j].status \notin Active => ingest'[j] = ingest[j]

\* A step that changes the table at row j, and its ingest at most there.
LEMMA OneRow ==
  ASSUME NEW j \in Jobs, Others(j), RowStep(j),
         \A k \in IngestJobs : k # j => ingest'[k] = ingest[k]
  PROVE  \A k \in Jobs : RowStep(k)
BY DEF RowStep, Others

LEMMA MutationStep ==
  ASSUME IInv, NEW j \in Jobs, NEW w \in Workers, NEW t, NEW r, Mutation(j, w, t, r)
  PROVE  \A k \in Jobs : RowStep(k)
<1>0. TypeOK
  BY DEF IInv
<1>1. Owned(j, w, t, r) /\ accepted' = {<<j, t>>}
  BY DEF Mutation, Renew, Progress, Complete, Fail, Finish
<1>2. job[j].status \in Active /\ t = job[j].token
  BY <1>1, OwnedIsCurrent
<1>3. \A k \in IngestJobs : k # j => ingest'[k] = ingest[k]
  BY <1>0 DEF Mutation, Renew, Progress, Complete, Fail, Mirror, TypeOK
<1>4. ASSUME NEW secs \in LeaseSeconds, Renew(j, w, t, r, secs) PROVE Others(j) /\ Kept(j)
  BY <1>0, <1>1, <1>2, <1>4, RenewEffect DEF Kept, Row
<1>5. ASSUME NEW p \in 0..Units, Progress(j, w, t, r, p) PROVE Others(j) /\ Kept(j)
  BY <1>0, <1>1, <1>2, <1>5, ProgressEffect DEF Kept, Row, Active
<1>6. CASE Complete(j, w, t, r)
  <2>1. Others(j) /\ Ended(j)
    BY <1>0, <1>1, <1>2, <1>6, CompleteEffect DEF Ended, Row
  <2>2. QED
    BY <1>2, <1>3, <2>1, OneRow DEF RowStep
<1>7. ASSUME NEW err \in Errors, Fail(j, w, t, r, err) PROVE Others(j) /\ Ended(j)
  BY <1>0, <1>1, <1>2, <1>7, FailEffect DEF Ended, Row
<1>8. QED
  BY <1>2, <1>3, <1>4, <1>5, <1>6, <1>7, OneRow DEF RowStep, Mutation

LEMMA EveryStep == ASSUME IInv, [Next]_vars PROVE \A k \in Jobs : RowStep(k)
<1>0. TypeOK
  BY DEF IInv
<1>1. CASE Tick \/ UNCHANGED vars
  BY <1>1 DEF Tick, vars, RowStep
<1>2. CASE Startup
  <2>1. \A k \in Jobs : job'[k] = job[k] \/ Swept(k)
    BY <1>0, <1>2, StartupEffect DEF Swept, Row
  <2>2. UNCHANGED ingest
    BY <1>2 DEF Startup
  <2>3. QED
    BY <2>1, <2>2 DEF RowStep
<1>3. ASSUME NEW j \in Jobs, Enqueue(j) PROVE \A k \in Jobs : RowStep(k)
  <2>1. Others(j) /\ Published(j)
    BY <1>0, <1>3, EnqueueEffect DEF Published, Row
  <2>2. QED
    BY <1>3, <2>1, OneRow DEF Enqueue, RowStep
<1>4. ASSUME NEW w \in Workers, Register(w) \/ HeartbeatRead(w) \/ HeartbeatWrite(w)
      PROVE \A k \in Jobs : RowStep(k)
  BY <1>4 DEF Register, HeartbeatRead, HeartbeatWrite, RowStep
<1>5. ASSUME NEW w \in Workers, NEW secs \in LeaseSeconds, Claim(w, secs)
      PROVE \A k \in Jobs : RowStep(k)
  <2>1. PICK j \in Jobs : Others(j) /\ Taken(j)
    BY <1>0, <1>5, ClaimEffect DEF Taken, Row
  <2>2. UNCHANGED ingest
    BY <1>5 DEF Claim
  <2>3. QED
    BY <2>1, <2>2, OneRow DEF RowStep
<1>6. ASSUME NEW j \in Jobs, NEW r \in Told(j), Reconcile(j, r)
      PROVE \A k \in Jobs : RowStep(k)
  <2>1. Others(j) /\ Released(j)
    BY <1>0, <1>6, ReconcileEffect DEF Released, Row
  <2>2. QED
    BY <1>6, <2>1, OneRow DEF Reconcile, RowStep
<1>7. ASSUME NEW w \in Workers, NEW j \in Jobs, NEW t \in Issued(j), NEW r \in Told(j),
             Mutation(j, w, t, r)
      PROVE \A k \in Jobs : RowStep(k)
  BY <1>7, MutationStep
<1>8. QED
  BY <1>1, <1>2, <1>3, <1>4, <1>5, <1>6, <1>7 DEF Next

-----------------------------------------------------------------------------
(* The action properties *)

\* No request is ever accepted with a token whose lease ran out or ended before: the check
\* of holder, token, revision and expiry fences off every late client.
THEOREM SpentTokens == Spec => SpentTokensStaySpent
<1>1. IInv /\ [Next]_vars => [accepted' \cap over = {}]_vars
  <2> SUFFICES ASSUME IInv, Next PROVE accepted' \cap over = {}
    OBVIOUS
  <2>1. ASSUME NEW w \in Workers, NEW j \in Jobs, NEW t \in Issued(j), NEW r \in Told(j),
               Mutation(j, w, t, r)
        PROVE accepted' \cap over = {}
    <3>1. Owned(j, w, t, r) /\ accepted' = {<<j, t>>}
      BY <2>1 DEF Mutation, Renew, Progress, Complete, Fail, Finish
    <3>2. <<j, t>> \notin over
      BY <3>1, OwnedIsCurrent
    <3>3. QED
      BY <3>1, <3>2
  <2>2. QED
    BY <2>1 DEF Next, Tick, Startup, Enqueue, Register, HeartbeatRead, HeartbeatWrite,
       Claim, Reconcile
<1>2. QED
  BY <1>1, Invariant, PTL DEF Spec, SpentTokensStaySpent

\* Every change of an existing row counts its revision up by one, so that equal revisions
\* mean equal rows.
THEOREM RevisionCounts == Spec => RevisionCountsChanges
<1>1. IInv /\ [Next]_vars =>
        [\A j \in Jobs : job'[j] # job[j] /\ job[j].status # "ABSENT"
                           => job'[j].revision = job[j].revision + 1]_vars
  BY EveryStep DEF RowStep, Published, Taken, Kept, Ended, Swept, Released
<1>2. QED
  BY <1>1, Invariant, PTL DEF Spec, RevisionCountsChanges

\* A finished job and its ingest never change: no late progress, renewal, sweep or
\* reconciliation reaches them.
THEOREM FinishedStays == Spec => FinishedStaysFinished
<1>1. IInv /\ [Next]_vars =>
        [\A j \in Jobs : job[j].status \in {"COMPLETE", "FAILED"}
                       => /\ job'[j] = job[j]
                          /\ j \in IngestJobs => ingest'[j] = ingest[j]]_vars
  BY EveryStep DEF RowStep, Published, Taken, Kept, Ended, Swept, Released, Expired, Active
<1>2. QED
  BY <1>1, Invariant, PTL DEF Spec, FinishedStaysFinished

\* An unexpired lease is ended by its holder alone: neither a restart of the server nor a
\* claim takes it away.
THEOREM LiveLeaseKept == Spec => LiveLeaseIsKept
<1>1. IInv /\ [Next]_vars =>
        [\A j \in Jobs :
           job[j].status \in Active /\ job[j].expires > now /\ job'[j].token # job[j].token
             => <<j, job[j].token>> \in accepted']_vars
  <2> SUFFICES ASSUME IInv, Next, NEW j \in Jobs, job[j].status \in Active,
                      job[j].expires > now, job'[j].token # job[j].token
               PROVE <<j, job[j].token>> \in accepted'
    OBVIOUS
  <2>1. RowStep(j)
    BY EveryStep
  <2>2. ~Expired(j)
    BY DEF IInv, TypeOK, Job, Expired
  <2>3. QED
    BY <2>1, <2>2 DEF RowStep, Published, Taken, Kept, Ended, Swept, Released, Active
<1>2. QED
  BY <1>1, Invariant, PTL DEF Spec, LiveLeaseIsKept

-----------------------------------------------------------------------------
(* The refinement: the mapping keeps, of a row, the phase its status       *)
(* stands for and its worker; IngestMirrorsJob makes the set of VERIFIED   *)
(* ingests the set of COMPLETE ingest jobs, before and after every step    *)

phase == [j \in Jobs |-> PhaseOf(job[j].status)]
owner == [j \in Jobs |-> job[j].worker]
verified == {j \in IngestJobs : ingest[j].status = "VERIFIED"}

LEMMA Phases ==
  /\ PhaseOf("ABSENT") = "absent" /\ PhaseOf("PENDING") = "waiting"
  /\ PhaseOf("LEASED") = "owned" /\ PhaseOf("RUNNING") = "owned"
  /\ PhaseOf("INTERRUPTED") = "parked" /\ PhaseOf("COMPLETE") = "done"
  /\ PhaseOf("FAILED") = "failed"
BY DEF PhaseOf, Active

\* What is shown as VERIFIED is what was completed.
LEMMA VerifiedIsComplete ==
  IInv => verified = {j \in IngestJobs : job[j].status = "COMPLETE"}
BY DEF verified, IInv, IngestMirrorsJob

LEMMA VerifiedIsCompletePrime ==
  IInv' => verified' = {j \in IngestJobs : job'[j].status = "COMPLETE"}
BY DEF verified, IInv, IngestMirrorsJob

\* A step that changes one row changes the phase and the owner there only.
LEMMA OnePhase ==
  ASSUME IInv, IInv', NEW j \in Jobs, Others(j)
  PROVE  /\ phase' = [phase EXCEPT ![j] = PhaseOf(job'[j].status)]
         /\ owner' = [owner EXCEPT ![j] = job'[j].worker]
         /\ phase[j] = PhaseOf(job[j].status) /\ owner[j] = job[j].worker
         /\ job[j].status # "COMPLETE" /\ job'[j].status # "COMPLETE" => verified' = verified
         /\ job'[j].status = "COMPLETE" => verified' = verified \cup ({j} \cap IngestJobs)
<1>1. \A k \in Jobs : k # j => job'[k].status = job[k].status /\ job'[k].worker = job[k].worker
  BY DEF Others
<1>2. /\ phase' = [phase EXCEPT ![j] = PhaseOf(job'[j].status)]
      /\ owner' = [owner EXCEPT ![j] = job'[j].worker]
      /\ phase[j] = PhaseOf(job[j].status) /\ owner[j] = job[j].worker
  BY <1>1 DEF phase, owner
<1>3. /\ verified = {k \in IngestJobs : job[k].status = "COMPLETE"}
      /\ verified' = {k \in IngestJobs : job'[k].status = "COMPLETE"}
  BY VerifiedIsComplete, VerifiedIsCompletePrime
<1>4. QED
  BY <1>1, <1>2, <1>3, LeaseAssumption

\* A step that leaves the rows alone leaves the abstract state alone.
LEMMA NoPhase ==
  ASSUME IInv, IInv', UNCHANGED job
  PROVE  UNCHANGED <<phase, owner, verified>>
<1>1. UNCHANGED <<phase, owner>>
  BY DEF phase, owner
<1>2. UNCHANGED verified
  BY VerifiedIsComplete, VerifiedIsCompletePrime
<1>3. QED
  BY <1>1, <1>2

AbstractStep == Work!Next \/ UNCHANGED <<phase, owner, verified>>

LEMMA PublishStep ==
  ASSUME IInv, IInv', NEW j \in Jobs, Enqueue(j) PROVE AbstractStep
<1>1. /\ Others(j) /\ job[j].status = "ABSENT" /\ job'[j].status = "PENDING"
      /\ job'[j].worker = job[j].worker
  BY EnqueueEffect DEF IInv, Row
<1>2. owner' = owner
  BY <1>1, OnePhase DEF owner
<1>3. /\ phase[j] = "absent" /\ phase' = [phase EXCEPT ![j] = "waiting"]
      /\ verified' = verified
  BY <1>1, OnePhase, Phases
<1>4. Work!Publish(j)
  BY <1>2, <1>3 DEF Work!Publish, phase, owner, verified
<1>5. QED
  BY <1>4 DEF AbstractStep, Work!Next

LEMMA TakeStep ==
  ASSUME IInv, IInv', NEW w \in Workers, NEW secs \in LeaseSeconds, Claim(w, secs)
  PROVE  AbstractStep
<1>1. PICK j \in Jobs : /\ Others(j) /\ job[j].status = "PENDING"
                        /\ job'[j].status = "LEASED" /\ job'[j].worker = w
  BY ClaimEffect DEF IInv, Row
<1>2. \A k \in Jobs : owner[k] # w
  BY LeaseAssumption DEF IInv, LeaseColumnsAgree, Claim, Free, Holds, owner
<1>3. /\ phase[j] = "waiting" /\ phase' = [phase EXCEPT ![j] = "owned"]
      /\ owner' = [owner EXCEPT ![j] = w] /\ verified' = verified
  BY <1>1, OnePhase, Phases
<1>4. Work!Take(j, w)
  BY <1>2, <1>3 DEF Work!Take, phase, owner, verified
<1>5. QED
  BY <1>4 DEF AbstractStep, Work!Next

LEMMA KeepStep ==
  ASSUME IInv, IInv', NEW j \in Jobs, Others(j),
         job[j].status \in Active, job'[j].status \in Active, job'[j].worker = job[j].worker
  PROVE  AbstractStep
<1>1. PhaseOf(job[j].status) = "owned" /\ PhaseOf(job'[j].status) = "owned"
  BY Phases DEF Active
<1>2. /\ phase' = [phase EXCEPT ![j] = phase[j]] /\ owner' = [owner EXCEPT ![j] = owner[j]]
      /\ verified' = verified
  BY <1>1, OnePhase DEF Active
<1>3. phase' = phase /\ owner' = owner
  BY <1>2 DEF phase, owner
<1>4. QED
  BY <1>2, <1>3 DEF AbstractStep

LEMMA EndStep ==
  ASSUME IInv, IInv', NEW j \in Jobs, Others(j), job[j].status \in Active,
         job'[j].status \in {"COMPLETE", "FAILED"}, job'[j].worker = NoWorker
  PROVE  AbstractStep
<1>1. phase[j] = "owned"
  BY Phases DEF phase, Active
<1>2. CASE job'[j].status = "COMPLETE"
  <2>1. /\ phase' = [phase EXCEPT ![j] = "done"] /\ owner' = [owner EXCEPT ![j] = NoWorker]
        /\ verified' = verified \cup ({j} \cap IngestJobs)
    BY <1>2, OnePhase, Phases
  <2>2. Work!Finish(j)
    BY <1>1, <2>1 DEF Work!Finish, phase, owner, verified
  <2>3. QED
    BY <2>2 DEF AbstractStep, Work!Next
<1>3. CASE job'[j].status = "FAILED"
  <2>1. /\ phase' = [phase EXCEPT ![j] = "failed"] /\ owner' = [owner EXCEPT ![j] = NoWorker]
        /\ verified' = verified
    BY <1>3, OnePhase, Phases DEF Active
  <2>2. Work!GiveUp(j)
    BY <1>1, <2>1 DEF Work!GiveUp, phase, owner, verified
  <2>3. QED
    BY <2>2 DEF AbstractStep, Work!Next
<1>4. QED
  BY <1>2, <1>3

LEMMA SweepStep == ASSUME IInv, IInv', Startup PROVE AbstractStep
<1>0. PICK gone \in SUBSET Jobs : gone = {j \in Jobs : Expired(j)}
  OBVIOUS
<1>1. \A j \in Jobs : /\ j \notin gone => job'[j] = job[j]
                      /\ j \in gone => /\ job[j].status \in Active
                                       /\ job'[j].status = "INTERRUPTED"
                                       /\ job'[j].worker = NoWorker
  BY <1>0, StartupEffect DEF IInv, Row, Expired
<1>2. \A j \in gone : phase[j] = "owned"
  BY <1>1, Phases DEF phase, Active
<1>3. \A j \in Jobs : PhaseOf(job'[j].status) = IF j \in gone THEN "parked" ELSE phase[j]
  BY <1>1, Phases DEF phase
<1>4. /\ phase' = [j \in Jobs |-> IF j \in gone THEN "parked" ELSE phase[j]]
      /\ owner' = [j \in Jobs |-> IF j \in gone THEN NoWorker ELSE owner[j]]
  BY <1>1, <1>3 DEF phase, owner
<1>5. verified' = verified
  BY DEF Startup, verified
<1>6. Work!TakeBack(gone)
  <2>1. \A x \in gone : phase[x] = "owned"
    BY <1>2
  <2>2. Work!TakeBack(gone)!2
    BY <1>4 DEF phase
  <2>3. Work!TakeBack(gone)!3
    BY <1>4 DEF owner
  <2>4. QED
    BY <2>1, <2>2, <2>3, <1>5 DEF Work!TakeBack, phase, verified
<1>7. QED
  BY <1>6 DEF AbstractStep, Work!Next

LEMMA ReleaseStep ==
  ASSUME IInv, IInv', NEW j \in Jobs, NEW r, Reconcile(j, r) PROVE AbstractStep
<1>1. /\ Others(j) /\ job[j].status = "INTERRUPTED" /\ job'[j].status = "PENDING"
      /\ job'[j].worker = job[j].worker
  BY ReconcileEffect DEF IInv, Row
<1>2. owner' = owner
  BY <1>1, OnePhase DEF owner
<1>3. /\ phase[j] = "parked" /\ phase' = [phase EXCEPT ![j] = "waiting"]
      /\ verified' = verified
  BY <1>1, OnePhase, Phases
<1>4. Work!Release(j)
  BY <1>2, <1>3 DEF Work!Release, phase, owner, verified
<1>5. QED
  BY <1>4 DEF AbstractStep, Work!Next

LEMMA MutationMaps ==
  ASSUME IInv, IInv', NEW j \in Jobs, NEW w \in Workers, NEW t, NEW r, Mutation(j, w, t, r)
  PROVE  AbstractStep
<1>0. TypeOK
  BY DEF IInv
<1>1. Owned(j, w, t, r)
  BY DEF Mutation, Renew, Progress, Complete, Fail, Finish
<1>2. job[j].status \in Active
  BY <1>1, OwnedIsCurrent
<1>3. ASSUME NEW secs \in LeaseSeconds, Renew(j, w, t, r, secs) PROVE AbstractStep
  <2>1. Others(j) /\ job'[j].status = job[j].status /\ job'[j].worker = job[j].worker
    BY <1>0, <1>3, RenewEffect DEF Row
  <2>2. QED
    BY <1>2, <2>1, KeepStep
<1>4. ASSUME NEW p \in 0..Units, Progress(j, w, t, r, p) PROVE AbstractStep
  <2>1. Others(j) /\ job'[j].status \in Active /\ job'[j].worker = job[j].worker
    BY <1>0, <1>4, ProgressEffect DEF Row, Active
  <2>2. QED
    BY <1>2, <2>1, KeepStep
<1>5. CASE Complete(j, w, t, r)
  <2>1. Others(j) /\ job'[j].status = "COMPLETE" /\ job'[j].worker = NoWorker
    BY <1>0, <1>5, CompleteEffect DEF Row
  <2>2. QED
    BY <1>2, <2>1, EndStep
<1>6. ASSUME NEW err \in Errors, Fail(j, w, t, r, err) PROVE AbstractStep
  <2>1. Others(j) /\ job'[j].status = "FAILED" /\ job'[j].worker = NoWorker
    BY <1>0, <1>6, FailEffect DEF Row
  <2>2. QED
    BY <1>2, <2>1, EndStep
<1>7. QED
  BY <1>3, <1>4, <1>5, <1>6 DEF Mutation

\* The job table implements exclusive ownership of work: leases, tokens, revisions and the
\* start-up sweep never let two workers own one job, one worker own two, a finished job
\* start again, or an ingest be shown VERIFIED that was not completed.
THEOREM ImplementsOwnedWork == Spec => WorkSpec
<1>1. Init => Work!Init
  BY Phases, LeaseAssumption DEF Init, Work!Init
<1>2. IInv /\ IInv' /\ [Next]_vars => [Work!Next]_(Work!vars)
  <2> SUFFICES ASSUME IInv, IInv', [Next]_vars PROVE AbstractStep
    BY DEF AbstractStep, Work!vars, phase, owner, verified
  <2>1. ASSUME UNCHANGED job PROVE AbstractStep
    BY <2>1, NoPhase DEF AbstractStep
  <2>2. CASE Startup
    BY <2>2, SweepStep
  <2>3. ASSUME NEW j \in Jobs, Enqueue(j) PROVE AbstractStep
    BY <2>3, PublishStep
  <2>4. ASSUME NEW w \in Workers, NEW secs \in LeaseSeconds, Claim(w, secs)
        PROVE AbstractStep
    BY <2>4, TakeStep
  <2>5. ASSUME NEW j \in Jobs, NEW r \in Told(j), Reconcile(j, r) PROVE AbstractStep
    BY <2>5, ReleaseStep
  <2>6. ASSUME NEW w \in Workers, NEW j \in Jobs, NEW t \in Issued(j), NEW r \in Told(j),
               Mutation(j, w, t, r)
        PROVE AbstractStep
    BY <2>6, MutationMaps
  <2>7. CASE Tick \/ UNCHANGED vars
    BY <2>1, <2>7 DEF Tick, vars
  <2>8. ASSUME NEW w \in Workers, Register(w) \/ HeartbeatRead(w) \/ HeartbeatWrite(w)
        PROVE AbstractStep
    BY <2>1, <2>8 DEF Register, HeartbeatRead, HeartbeatWrite
  <2>9. QED
    BY <2>2, <2>3, <2>4, <2>5, <2>6, <2>7, <2>8 DEF Next
<1>3. QED
  BY <1>1, <1>2, Invariant, PTL DEF Spec, WorkSpec, Work!Spec

-----------------------------------------------------------------------------
(* The session: the inductive invariant *)

Reports == {"progress", "complete", "fail"}
Busy == {"work", "report", "end"}

SessionTypeOK ==
  /\ client \in [Workers -> Clients]
  /\ net \in [Workers -> Requests \cup {NoRequest}]
  /\ late \subseteq Requests

\* A busy client was given a lease of a job.
Works(c, rows) == c.at \in Busy => c.job \in Jobs /\ c.token <= rows[c.job].attempts

\* A report is about a lease that was given, and says VERIFIED only after the handler did.
Meaningful(q, rows, done) ==
  q.op \in Reports =>
    /\ q.job \in Jobs /\ q.token <= rows[q.job].attempts
    /\ q.op = "complete" => <<q.job, q.token>> \in done
    /\ q.op = "fail" => q.err \in Errors

SameLease(c, q) == c.at \in Busy /\ c.job = q.job /\ c.token = q.token

\* A request that the client of w waits on.
Awaited(w, c, q, rows, done) ==
  q # NoRequest =>
    /\ q.from = w /\ Meaningful(q, rows, done)
    /\ q.op \in Reports => SameLease(c, q) /\ c.at # "work"

\* A request that no client waits on any more.
GivenUpOn(q, c, rows, done) ==
  Meaningful(q, rows, done) /\ (q.op \in Reports => ~SameLease(c, q))

InStep(w, c, rows) ==
  c.at = "work" /\ rows[c.job].status \in Active /\ rows[c.job].worker = w
    /\ rows[c.job].token = c.token
    => c.rev = rows[c.job].revision

SInv ==
  /\ SessionTypeOK
  /\ \A w \in Workers : Works(client[w], job)
  /\ \A w \in Workers : Awaited(w, client[w], net[w], job, copied)
  /\ \A q \in late : GivenUpOn(q, client[q.from], job, copied)
  /\ \A w \in Workers : InStep(w, client[w], job)
  /\ CompleteMeansVerified

-----------------------------------------------------------------------------
(* Rows under the requests of a session *)

\* No step takes an attempt back.
Grows == \A j \in Jobs : job[j].attempts <= job'[j].attempts

LEMMA AttemptsGrow == ASSUME IInv, [Next]_vars PROVE Grows
<1> SUFFICES ASSUME NEW j \in Jobs PROVE job[j].attempts <= job'[j].attempts
  BY DEF Grows
<1>1. RowStep(j) /\ job[j].attempts \in Nat
  BY EveryStep DEF IInv, TypeOK, Job
<1> QED BY <1>1 DEF RowStep, Taken, Kept, Ended, Swept, Released, Published

\* A step that accepts no report neither keeps a lease under a new revision nor ends one.
LEMMA NothingAccepted ==
  ASSUME IInv, [Next]_vars, accepted' = {} \/ UNCHANGED job
  PROVE  /\ \A w \in Workers, c \in Clients :
              Works(c, job) /\ InStep(w, c, job) => InStep(w, c, job')
         /\ \A j \in Jobs : job'[j].status = "COMPLETE" => job'[j] = job[j]
<1>1. \A j \in Jobs : /\ RowStep(j) /\ job[j].attempts \in Nat
                      /\ ~Kept(j) /\ ~Ended(j)
  BY EveryStep DEF IInv, TypeOK, Job, Kept, Ended
<1>2. ASSUME NEW w \in Workers, NEW c \in Clients, Works(c, job), InStep(w, c, job),
             c.at = "work", job'[c.job].status \in Active, job'[c.job].worker = w,
             job'[c.job].token = c.token
      PROVE  c.rev = job'[c.job].revision
  <2>1. c.job \in Jobs /\ c.token <= job[c.job].attempts /\ c.token \in Nat
    BY <1>2 DEF Works, Busy, Clients
  <2>2. ~Taken(c.job) /\ ~Published(c.job) /\ ~Swept(c.job) /\ ~Released(c.job)
    BY <1>1, <1>2, <2>1 DEF Taken, Published, Swept, Released, Active
  <2>3. job'[c.job] = job[c.job]
    BY <1>1, <2>1, <2>2 DEF RowStep
  <2> QED BY <1>2, <2>3 DEF InStep
<1>3. \A w \in Workers, c \in Clients :
        Works(c, job) /\ InStep(w, c, job) => InStep(w, c, job')
  BY <1>2 DEF InStep
<1>4. \A j \in Jobs : job'[j].status = "COMPLETE" => job'[j] = job[j]
  BY <1>1 DEF RowStep, Taken, Published, Swept, Released
<1> QED BY <1>3, <1>4

\* An accepted report is one that JobLease considers.
LEMMA AcceptedIsNext ==
  ASSUME IInv, NEW q \in Requests, Meaningful(q, job, copied), Accepted(q)
  PROVE  /\ Next /\ q.job \in Jobs
         /\ Owned(q.job, q.from, q.token, q.rev)
         /\ q.op = "progress" => Progress(q.job, q.from, q.token, q.rev, q.part)
         /\ q.op = "complete" => Complete(q.job, q.from, q.token, q.rev)
         /\ q.op = "fail" => Fail(q.job, q.from, q.token, q.rev, q.err)
<1>1. /\ q.op \in Reports /\ Served(q) /\ q.job \in Jobs /\ q.from \in Workers
      /\ q.part \in 0..Units /\ q.rev \in Nat /\ q.token \in Nat
      /\ q.op = "fail" => q.err \in Errors
  BY DEF Accepted, Reports, Meaningful, Requests
<1>2. /\ q.op = "progress" => Progress(q.job, q.from, q.token, q.rev, q.part)
      /\ q.op = "complete" => Complete(q.job, q.from, q.token, q.rev)
      /\ q.op = "fail" => Fail(q.job, q.from, q.token, q.rev, q.err)
  BY <1>1 DEF Served
<1>3. Mutation(q.job, q.from, q.token, q.rev)
  BY <1>1, <1>2 DEF Mutation, Reports
<1>4. Owned(q.job, q.from, q.token, q.rev)
  BY <1>3 DEF Mutation, Renew, Progress, Complete, Fail, Finish
<1>5. q.token \in Issued(q.job) /\ q.rev \in Told(q.job)
  BY <1>1, <1>4, OwnedIsCurrent DEF Owned, IInv, TypeOK, Job, LeaseColumnsAgree, Issued, Told
<1>6. Next
  BY <1>1, <1>3, <1>5 DEF Next
<1> QED BY <1>1, <1>2, <1>4, <1>6

\* What an accepted report does to the table; the lease was in the hands of its sender.
LEMMA AcceptedEffect ==
  ASSUME IInv, NEW q \in Requests, Meaningful(q, job, copied), Accepted(q)
  PROVE  /\ Next /\ q.job \in Jobs /\ Others(q.job)
         /\ job[q.job].worker = q.from /\ job[q.job].token = q.token
         /\ job[q.job].attempts = q.token /\ job'[q.job].attempts = q.token
         /\ q.op = "progress" => /\ job'[q.job].status = "RUNNING"
                                 /\ job'[q.job].worker = q.from
                                 /\ job'[q.job].token = q.token
                                 /\ job'[q.job].revision \in Nat
         /\ q.op = "complete" => job'[q.job].status = "COMPLETE"
         /\ q.op = "fail" => job'[q.job].status = "FAILED"
<1>1. /\ Next /\ q.job \in Jobs /\ TypeOK /\ q.op \in Reports /\ q.from \in Workers
      /\ Owned(q.job, q.from, q.token, q.rev) /\ q.part \in 0..Units
  BY AcceptedIsNext DEF IInv, Accepted, Reports, Requests
<1>2. job[q.job].worker = q.from /\ job[q.job].token = q.token /\ job[q.job].attempts = q.token
  BY <1>1, OwnedIsCurrent
<1>3. CASE q.op = "progress"
  BY <1>1, <1>2, <1>3, AcceptedIsNext, ProgressEffect DEF Row, Job
<1>4. CASE q.op = "complete"
  BY <1>1, <1>2, <1>4, AcceptedIsNext, CompleteEffect DEF Row
<1>5. CASE q.op = "fail"
  BY <1>1, <1>2, <1>5, AcceptedIsNext, FailEffect DEF Row
<1> QED BY <1>1, <1>3, <1>4, <1>5 DEF Reports

\* Nobody but its sender is at work under the lease of an accepted report.
LEMMA AcceptedLeaves ==
  ASSUME IInv, NEW q \in Requests, Meaningful(q, job, copied), Accepted(q)
  PROVE  /\ \A w \in Workers, c \in Clients :
              (w # q.from \/ ~SameLease(c, q)) /\ Works(c, job) /\ InStep(w, c, job)
                => InStep(w, c, job')
         /\ CompleteMeansVerified =>
              \A j \in Jobs : job'[j].status = "COMPLETE" => <<j, job'[j].attempts>> \in copied
<1>1. /\ q.job \in Jobs /\ Others(q.job) /\ q.op \in Reports
      /\ job[q.job].worker = q.from /\ job[q.job].token = q.token
      /\ job'[q.job].attempts = q.token
      /\ q.op = "progress" => /\ job'[q.job].status = "RUNNING"
                              /\ job'[q.job].worker = q.from
                              /\ job'[q.job].token = q.token
      /\ q.op = "complete" => job'[q.job].status = "COMPLETE"
      /\ q.op = "fail" => job'[q.job].status = "FAILED"
  BY AcceptedEffect DEF Accepted, Reports
<1>2. ASSUME NEW w \in Workers, NEW c \in Clients, w # q.from \/ ~SameLease(c, q),
             Works(c, job), InStep(w, c, job)
      PROVE  InStep(w, c, job')
  <2>1. CASE c.job # q.job
    BY <1>1, <1>2, <2>1 DEF InStep, Others, Works, Busy
  <2>2. CASE c.job = q.job
    BY <1>1, <1>2, <2>2 DEF InStep, SameLease, Busy, Active, Reports
  <2> QED BY <2>1, <2>2
<1>3. ASSUME CompleteMeansVerified, NEW j \in Jobs, job'[j].status = "COMPLETE"
      PROVE  <<j, job'[j].attempts>> \in copied
  <2>1. CASE j # q.job
    BY <1>1, <1>3, <2>1 DEF CompleteMeansVerified, Others
  <2>2. CASE j = q.job
    BY <1>1, <1>3, <2>2 DEF Meaningful, Reports
  <2> QED BY <2>1, <2>2
<1> QED BY <1>2, <1>3

Executed(q) == Beaten(q) \/ Granted(q) \/ Declined(q) \/ Accepted(q) \/ Refused(q)

\* Whatever a request does to the table, JobLease considers it, and it leaves every client
\* in step but the one that made it.
LEMMA ExecutedEffect ==
  ASSUME IInv, NEW q \in Requests, Meaningful(q, job, copied), Executed(q)
  PROVE  /\ [Next]_vars
         /\ \A w \in Workers, c \in Clients :
              (w # q.from \/ q.op \notin Reports \/ ~SameLease(c, q))
                /\ Works(c, job) /\ InStep(w, c, job) => InStep(w, c, job')
         /\ CompleteMeansVerified =>
              \A j \in Jobs : job'[j].status = "COMPLETE" => <<j, job'[j].attempts>> \in copied
<1>1. CASE Accepted(q)
  <2>1. q.op \in Reports
    BY <1>1 DEF Accepted, Reports
  <2> QED BY <1>1, <2>1, AcceptedEffect, AcceptedLeaves
<1>2. CASE ~Accepted(q)
  <2>0. q.from \in Workers
    BY DEF Requests
  <2>1. [Next]_vars /\ (accepted' = {} \/ UNCHANGED job)
    <3>1. CASE Beaten(q)
      BY <2>0, <3>1 DEF Beaten, HeartbeatWrite, Next, vars
    <3>2. CASE Granted(q)
      BY <2>0, <3>2 DEF Granted, Claim, Next
    <3>3. CASE Declined(q) \/ Refused(q)
      BY <3>3 DEF Declined, Refused, RolledBack, vars
    <3> QED BY <1>2, <3>1, <3>2, <3>3 DEF Executed
  <2>2. CompleteMeansVerified =>
          \A j \in Jobs : job'[j].status = "COMPLETE" => <<j, job'[j].attempts>> \in copied
    BY <2>1, NothingAccepted DEF CompleteMeansVerified
  <2> QED BY <2>1, <2>2, NothingAccepted
<1> QED BY <1>1, <1>2

\* What a claim hands out is a row with a new token.
LEMMA HandedEffect ==
  ASSUME IInv, NEW q \in Requests, Granted(q), NEW w, w = q.from
  PROVE  /\ Handed(w) \in Jobs
         /\ job'[Handed(w)].token = job[Handed(w)].attempts + 1
         /\ job'[Handed(w)].attempts = job[Handed(w)].attempts + 1
         /\ job'[Handed(w)] \in Job
<1>1. PICK secs \in LeaseSeconds : Claim(w, secs) /\ w \in Workers
  BY DEF Granted, Requests
<1>2. PICK j \in Jobs :
        /\ job' \in [Jobs -> Job] /\ Others(j)
        /\ job[j].status = "PENDING"
        /\ Row(job'[j], "LEASED", w, job[j].attempts + 1, now + secs,
               job[j].revision + 1, job[j].attempts + 1, job[j].progress)
  BY <1>1, ClaimEffect DEF IInv
<1>3. job[j].token = 0 /\ job[j].attempts \in Nat
  BY <1>2 DEF IInv, TypeOK, Job, LeaseColumnsAgree, Active
<1>4. job'[j].token # job[j].token
  BY <1>2, <1>3 DEF Row
<1>5. Handed(w) \in Jobs /\ job'[Handed(w)].token # job[Handed(w)].token
  BY <1>4, Zenon DEF Handed
<1>6. Handed(w) = j
  BY <1>2, <1>5 DEF Others
<1> QED BY <1>2, <1>6 DEF Row

-----------------------------------------------------------------------------
(* Steps of a session *)

\* What holds of a row holds while its attempts grow.
LEMMA Staying ==
  ASSUME IInv, IInv', Grows, copied \subseteq copied'
  PROVE  /\ \A c \in Clients : Works(c, job) => Works(c, job')
         /\ \A q \in Requests : Meaningful(q, job, copied) => Meaningful(q, job', copied')
<1>1. \A j \in Jobs : /\ job[j].attempts \in Nat /\ job'[j].attempts \in Nat
                      /\ job[j].attempts <= job'[j].attempts
  BY DEF IInv, TypeOK, Job, Grows
<1>2. ASSUME NEW c \in Clients, Works(c, job) PROVE Works(c, job')
  BY <1>1, <1>2 DEF Works, Clients, Busy
<1>3. ASSUME NEW q \in Requests, Meaningful(q, job, copied)
      PROVE  Meaningful(q, job', copied')
  BY <1>1, <1>3 DEF Meaningful, Requests
<1> QED BY <1>2, <1>3

\* The step of one client, which goes to c and waits on q; what it gave up on may be late.
LEMMA SendsKeeps ==
  ASSUME IInv, IInv', SInv, Grows, copied \subseteq copied', CompleteMeansVerified',
         NEW w \in Workers, NEW c \in Clients, NEW q \in Requests \cup {NoRequest},
         Sends(w, c, q),
         \A v \in Workers \ {w} : InStep(v, client[v], job'),
         Works(c, job'), InStep(w, c, job'), Awaited(w, c, q, job', copied'),
         \A x \in late' : x \in late \/ (x = net[w] /\ x # NoRequest),
         \A x \in late' : x.op \in Reports /\ x.from = w => ~SameLease(c, x)
  PROVE  SInv'
<1>1. /\ client' = [client EXCEPT ![w] = c] /\ net' = [net EXCEPT ![w] = q]
      /\ client \in [Workers -> Clients] /\ net \in [Workers -> Requests \cup {NoRequest}]
      /\ late \subseteq Requests
  BY DEF Sends, SInv, SessionTypeOK
<1>2. SessionTypeOK'
  BY <1>1 DEF SessionTypeOK
<1>3. /\ client'[w] = c /\ net'[w] = q
      /\ \A v \in Workers \ {w} : client'[v] = client[v] /\ net'[v] = net[v]
  BY <1>1
<1>4. \A v \in Workers : Works(client'[v], job')
  BY <1>1, <1>3, Staying DEF SInv
<1>5. ASSUME NEW v \in Workers PROVE Awaited(v, client'[v], net'[v], job', copied')
  <2>1. CASE v = w
    BY <1>3, <2>1
  <2>2. CASE v # w
    <3>1. Awaited(v, client[v], net[v], job, copied)
      BY DEF SInv
    <3> QED BY <1>1, <1>3, <2>2, <3>1, Staying DEF Awaited
  <2> QED BY <2>1, <2>2
<1>6. ASSUME NEW x \in late' PROVE GivenUpOn(x, client'[x.from], job', copied')
  <2>1. x \in Requests /\ x.from \in Workers
    BY <1>2 DEF SessionTypeOK, Requests
  <2>2. Meaningful(x, job, copied)
    BY <1>1 DEF SInv, GivenUpOn, Awaited
  <2>3. x \in late => GivenUpOn(x, client[x.from], job, copied)
    BY DEF SInv
  <2>4. x = net[w] /\ x # NoRequest => x.from = w
    BY DEF SInv, Awaited
  <2>5. x.op \in Reports => ~SameLease(client'[x.from], x)
    BY <1>3, <2>1, <2>3, <2>4 DEF GivenUpOn
  <2> QED BY <2>1, <2>2, <2>5, Staying DEF GivenUpOn
<1>7. \A v \in Workers : InStep(v, client'[v], job')
  BY <1>3
<1> QED BY <1>2, <1>4, <1>5, <1>6, <1>7 DEF SInv

\* The clients stay, and wait on the same requests, of the same lease, or on none.
LEMMA StaysKeeps ==
  ASSUME IInv, IInv', SInv, Grows, CompleteMeansVerified',
         UNCHANGED <<client, copied>>, SessionTypeOK', late' \subseteq late,
         \A v \in Workers : InStep(v, client[v], job'),
         \A v \in Workers : \/ net'[v] \in {net[v], NoRequest}
                            \/ net'[v].op \notin Reports /\ net'[v].from = v
  PROVE  SInv'
<1>1. /\ client \in [Workers -> Clients] /\ net \in [Workers -> Requests \cup {NoRequest}]
      /\ late \subseteq Requests
  BY DEF SInv, SessionTypeOK
<1>2. \A v \in Workers : Works(client[v], job')
  BY <1>1, Staying DEF SInv
<1>3. ASSUME NEW v \in Workers PROVE Awaited(v, client[v], net'[v], job', copied)
  <2>1. Awaited(v, client[v], net[v], job, copied)
    BY DEF SInv
  <2> QED BY <1>1, <2>1, Staying DEF Awaited, Meaningful
<1>4. \A x \in late' : GivenUpOn(x, client[x.from], job', copied)
  BY <1>1, Staying DEF SInv, GivenUpOn
<1> QED BY <1>2, <1>3, <1>4 DEF SInv

\* A step of w alone that leaves the table and goes on with no lease, or the same.
LEMMA LocalKeeps ==
  ASSUME IInv, IInv', SInv, UNCHANGED vars, copied \subseteq copied',
         NEW w \in Workers, NEW c \in Clients, NEW q \in Requests \cup {NoRequest},
         Sends(w, c, q), c.at # "work",
         c.at \in Busy => client[w].at \in Busy /\ c.job = client[w].job
                          /\ c.token = client[w].token,
         Awaited(w, c, q, job, copied'),
         \A x \in late' : x \in late \/ (x = net[w] /\ x # NoRequest /\ c.at \notin Busy)
  PROVE  SInv'
<1>1. UNCHANGED job
  BY DEF vars
<1>2. Grows /\ CompleteMeansVerified'
  BY <1>1 DEF Grows, SInv, CompleteMeansVerified, IInv, TypeOK, Job
<1>3. Works(c, job')
  BY <1>1 DEF SInv, Works
<1>4. InStep(w, c, job') /\ \A v \in Workers \ {w} : InStep(v, client[v], job')
  BY <1>1 DEF InStep, SInv
<1>5. \A x \in late' : x.op \in Reports /\ x.from = w => ~SameLease(c, x)
  BY DEF SInv, GivenUpOn, SameLease
<1>6. Awaited(w, c, q, job', copied')
  BY <1>1
<1>7. \A x \in late' : x \in late \/ (x = net[w] /\ x # NoRequest)
  OBVIOUS
<1> QED BY <1>2, <1>3, <1>4, <1>5, <1>6, <1>7, SendsKeeps

LEMMA LoopIsClient ==
  ASSUME NEW place \in Places
  PROVE  Loop(place) \in Clients /\ Loop(place).at = place
BY LeaseAssumption DEF Loop, Clients

LEMMA PollIsRequest ==
  ASSUME NEW op \in {"heartbeat", "claim"}, NEW w \in Workers
  PROVE  /\ Poll(op, w) \in Requests
         /\ \A c, rows, done : Awaited(w, c, Poll(op, w), rows, done)
<1>1. Poll(op, w) \in Requests
  BY LeaseAssumption DEF Poll, Requests, Ops
<1>2. Poll(op, w).op \notin Reports /\ Poll(op, w).from = w
  BY DEF Poll, Reports
<1> QED BY <1>1, <1>2 DEF Awaited, Meaningful

LEMMA LoopsKeep ==
  ASSUME IInv, IInv', SInv, NEW w \in Workers, Loops(w) PROVE SInv'
<1>1. /\ client \in [Workers -> Clients] /\ net \in [Workers -> Requests \cup {NoRequest}]
  BY DEF SInv, SessionTypeOK
<1>2. CASE Start(w)
  <2>1. /\ Sends(w, Loop("poll"), net[w])
    BY <1>1, <1>2 DEF Start, Sends
  <2>2. Loop("poll") \in Clients /\ Loop("poll").at = "poll"
    BY LoopIsClient DEF Places
  <2>3. Awaited(w, Loop("poll"), net[w], job, copied)
    BY <1>2 DEF SInv, Awaited, SameLease, Busy, Start
  <2> QED BY <1>1, <1>2, <2>1, <2>2, <2>3, LocalKeeps DEF Start, Busy
<1>3. CASE Beat(w)
  <2>1. Loop("beat") \in Clients /\ Loop("beat").at = "beat"
    BY LoopIsClient DEF Places, Waiting
  <2>2. /\ Poll("heartbeat", w) \in Requests
        /\ Awaited(w, Loop("beat"), Poll("heartbeat", w), job, copied)
    BY PollIsRequest
  <2> QED BY <1>3, <2>1, <2>2, LocalKeeps DEF Beat, Busy
<1>4. CASE Timeout(w)
  <2>1. GivenUp(w) \in Clients /\ GivenUp(w).at \in {"poll", "down"}
    BY LoopIsClient DEF GivenUp, Places
  <2>2. Awaited(w, GivenUp(w), NoRequest, job, copied)
    BY DEF Awaited
  <2> QED BY <1>4, <2>1, <2>2, LocalKeeps DEF Timeout, Busy
<1> QED BY <1>2, <1>3, <1>4 DEF Loops

\* A client that is at work reports under the lease it has in hand.
LEMMA ReportsKeep ==
  ASSUME IInv, IInv', SInv, NEW w \in Workers, UNCHANGED <<vars, late>>,
         copied \subseteq copied',
         client[w].at = "work", NEW place \in {"report", "end"}, NEW op \in Reports,
         NEW p \in 0..Units, NEW err \in Errors \cup {NoError},
         op = "complete" => <<client[w].job, client[w].token>> \in copied',
         op = "fail" => err \in Errors,
         Sends(w, [client[w] EXCEPT !.at = place], About(op, w, p, err))
  PROVE  SInv'
<1> DEFINE c == [client[w] EXCEPT !.at = place]
           q == About(op, w, p, err)
<1>1. client[w] \in Clients
  BY DEF SInv, SessionTypeOK
<1>2. /\ c \in Clients /\ c.at = place /\ c.job = client[w].job /\ c.token = client[w].token
  BY <1>1 DEF Clients, Places, Waiting
<1>3. client[w].job \in Jobs /\ client[w].token <= job[client[w].job].attempts
  BY DEF SInv, Works, Busy
<1>4. /\ q \in Requests /\ q.op = op /\ q.from = w /\ q.err = err
      /\ q.job = client[w].job /\ q.token = client[w].token
  BY <1>1, <1>3 DEF About, Requests, Clients, Ops, Reports
<1>5. Sends(w, c, q)
  OBVIOUS
<1> HIDE DEF c, q
<1>6. Awaited(w, c, q, job, copied')
  BY <1>2, <1>3, <1>4 DEF Awaited, Meaningful, SameLease, Busy
<1> QED BY <1>2, <1>4, <1>5, <1>6, LocalKeeps DEF Busy

LEMMA HandlingKeeps ==
  ASSUME IInv, IInv', SInv, NEW w \in Workers, Handling(w) PROVE SInv'
<1>1. ASSUME NEW p \in 0..(Units + 1), Report(w, p) PROVE SInv'
  <2>1. Fraction(p) \in 0..Units
    BY LeaseAssumption DEF Fraction
  <2> QED BY <1>1, <2>1, ReportsKeep DEF Report, Reports
<1>2. CASE HandlerVerified(w)
  <2>1. 0 \in 0..Units
    BY LeaseAssumption
  <2> QED BY <1>2, <2>1, ReportsKeep DEF HandlerVerified, Reports
<1>3. ASSUME NEW err \in Errors, HandlerFailed(w, err) PROVE SInv'
  <2>1. 0 \in 0..Units
    BY LeaseAssumption
  <2> QED BY <1>3, <2>1, ReportsKeep DEF HandlerFailed, Reports
<1> QED BY <1>1, <1>2, <1>3 DEF Handling

\* A client that gives up, while the server may still have its request.
LEMMA GivingUpKeeps ==
  ASSUME IInv, IInv', SInv, NEW w \in Workers, SlowTimeout(w) \/ Die(w) PROVE SInv'
<1>1. \A x \in late' : x \in late \/ (x = net[w] /\ x # NoRequest)
  BY DEF SlowTimeout, Die, Abandon
<1>2. PICK c \in Clients : c.at \in {"poll", "down"} /\ Sends(w, c, NoRequest)
  BY LoopIsClient DEF SlowTimeout, Die, GivenUp, Places
<1>3. Awaited(w, c, NoRequest, job, copied)
  BY DEF Awaited
<1>4. UNCHANGED <<vars, copied>>
  BY DEF SlowTimeout, Die
<1> QED BY <1>1, <1>2, <1>3, <1>4, LocalKeeps DEF Busy

-----------------------------------------------------------------------------
(* The server *)

\* Every request that is to be served is one that the client or a late client made.
LEMMA InFlight ==
  ASSUME IInv, SInv
  PROVE  /\ \A w \in Workers : net[w] # NoRequest =>
              net[w] \in Requests /\ net[w].from = w /\ Meaningful(net[w], job, copied)
         /\ \A q \in late : q \in Requests /\ Meaningful(q, job, copied)
BY DEF SInv, SessionTypeOK, Awaited, GivenUpOn

LEMMA AnswerIsExecuted ==
  ASSUME NEW w \in Workers, Serve(w) \/ ServeUnheard(w)
  PROVE  Executed(net[w])
BY DEF Serve, ServeUnheard, Answer, Executed

LEMMA ServeKeeps ==
  ASSUME IInv, IInv', SInv, NEW w \in Workers, Serve(w) PROVE SInv'
<1> DEFINE q == net[w]
<1>1. /\ q # NoRequest /\ q \in Requests /\ q.from = w /\ Meaningful(q, job, copied)
      /\ Executed(q) /\ Answer(w) /\ UNCHANGED <<late, copied>>
  BY InFlight, AnswerIsExecuted DEF Serve
<1>2. [Next]_vars /\ Grows
  BY <1>1, ExecutedEffect, AttemptsGrow
<1>3. CompleteMeansVerified'
  BY <1>1, ExecutedEffect DEF SInv, CompleteMeansVerified
<1>4. /\ \A v \in Workers : client[v] \in Clients
      /\ \A v \in Workers \ {w} : InStep(v, client[v], job')
      /\ q.op \in Reports => SameLease(client[w], q)
  BY <1>1, ExecutedEffect DEF SInv, SessionTypeOK, Awaited
<1>5. ASSUME NEW c \in Clients, NEW s \in Requests \cup {NoRequest}, Sends(w, c, s),
             Works(c, job'), InStep(w, c, job'), Awaited(w, c, s, job', copied'),
             \A x \in late : x.op \in Reports /\ x.from = w => ~SameLease(c, x)
      PROVE  SInv'
  BY <1>1, <1>2, <1>3, <1>4, <1>5, SendsKeeps
<1>6. ASSUME NEW c \in Clients, NEW s \in Requests \cup {NoRequest}, Sends(w, c, s),
             c.at \notin Busy, Awaited(w, c, s, job', copied')
      PROVE  SInv'
  <2>1. Works(c, job') /\ InStep(w, c, job')
    BY <1>6 DEF Works, InStep, Busy
  <2>2. \A x \in late : ~SameLease(c, x)
    BY <1>6 DEF SameLease
  <2> QED BY <1>5, <1>6, <2>1, <2>2
<1>7. CASE Beaten(q) /\ Sends(w, Loop("claim"), Poll("claim", w))
  <2>1. Loop("claim") \in Clients /\ Loop("claim").at = "claim"
    BY LoopIsClient DEF Places, Waiting
  <2>2. /\ Poll("claim", w) \in Requests
        /\ Awaited(w, Loop("claim"), Poll("claim", w), job', copied')
    BY PollIsRequest
  <2> QED BY <1>6, <1>7, <2>1, <2>2 DEF Busy
<1>8. ASSUME NEW place \in {"poll", "down"}, Sends(w, Loop(place), NoRequest) PROVE SInv'
  <2>1. Loop(place) \in Clients /\ Loop(place).at = place
    BY LoopIsClient DEF Places
  <2>2. Awaited(w, Loop(place), NoRequest, job', copied')
    BY DEF Awaited
  <2> QED BY <1>6, <1>8, <2>1, <2>2 DEF Busy
<1>9. ASSUME Granted(q),
             Sends(w, [Loop("work") EXCEPT !.job = Handed(w), !.token = job'[Handed(w)].token,
                                           !.rev = job'[Handed(w)].revision], NoRequest)
      PROVE  SInv'
  <2> DEFINE j == Handed(w)
             c == [Loop("work") EXCEPT !.job = j, !.token = job'[j].token,
                                       !.rev = job'[j].revision]
  <2>1. /\ j \in Jobs /\ job'[j].token = job[j].attempts + 1
        /\ job'[j].attempts = job[j].attempts + 1 /\ job'[j] \in Job
        /\ job[j].attempts \in Nat
    BY <1>1, <1>9, HandedEffect DEF IInv, TypeOK, Job
  <2> HIDE DEF j
  <2>2. PICK l \in Clients : l = Loop("work") /\ l.at = "work"
    BY LoopIsClient DEF Places
  <2>3. /\ c \in Clients /\ c.at = "work" /\ c.job = j
        /\ c.token = job'[j].token /\ c.rev = job'[j].revision
    <3> DEFINE given(t, r) == [l EXCEPT !.job = j, !.token = t, !.rev = r]
    <3>1. ASSUME NEW t \in Nat, NEW r \in Nat
          PROVE  /\ given(t, r) \in Clients /\ given(t, r).at = "work" /\ given(t, r).job = j
                 /\ given(t, r).token = t /\ given(t, r).rev = r
      BY <2>1, <2>2 DEF Clients
    <3>2. job'[j].token \in Nat /\ job'[j].revision \in Nat
      BY <2>1 DEF Job
    <3>3. c = given(job'[j].token, job'[j].revision)
      BY <2>2
    <3> HIDE DEF c, given
    <3> QED BY <3>1, <3>2, <3>3
  <2>4. Sends(w, c, NoRequest)
    BY <1>9 DEF j
  <2> HIDE DEF c
  <2>5. Works(c, job') /\ InStep(w, c, job') /\ Awaited(w, c, NoRequest, job', copied')
    BY <2>1, <2>3 DEF Works, InStep, Awaited
  <2>6. ASSUME NEW x \in late, x.op \in Reports PROVE ~SameLease(c, x)
    <3>1. x.token <= job[x.job].attempts /\ x.token \in Nat
      BY <2>6, InFlight DEF Meaningful, Requests
    <3>2. x.job = j => x.token # job[j].attempts + 1
      BY <2>1, <3>1
    <3> QED BY <2>1, <2>3, <3>2 DEF SameLease
  <2> QED BY <1>5, <2>3, <2>4, <2>5, <2>6
<1>10. ASSUME Accepted(q), q.op = "progress",
              Sends(w, [client[w] EXCEPT !.at = "work", !.seen = q.part,
                                         !.rev = job'[q.job].revision], NoRequest)
       PROVE  SInv'
  <2> DEFINE c == [client[w] EXCEPT !.at = "work", !.seen = q.part,
                                    !.rev = job'[q.job].revision]
  <2>1. /\ job'[q.job].revision \in Nat /\ job'[q.job].attempts = q.token
        /\ q.job \in Jobs
    BY <1>1, <1>10, AcceptedEffect
  <2>2. SameLease(client[w], q) /\ q.part \in 0..Units /\ client[w] \in Clients
    BY <1>1, <1>4, <1>10 DEF Reports, Requests
  <2>3. \A p \in 0..Units, r \in Nat :
          LET d == [client[w] EXCEPT !.at = "work", !.seen = p, !.rev = r] IN
          d \in Clients /\ d.at = "work" /\ d.job = client[w].job
            /\ d.token = client[w].token /\ d.rev = r
    BY <2>2 DEF Clients, Places
  <2>4. /\ c \in Clients /\ c.at = "work" /\ c.job = q.job /\ c.token = q.token
        /\ c.rev = job'[q.job].revision
    BY <2>1, <2>2, <2>3 DEF SameLease
  <2>5. Sends(w, c, NoRequest)
    BY <1>10
  <2> HIDE DEF c
  <2>6. Works(c, job') /\ InStep(w, c, job') /\ Awaited(w, c, NoRequest, job', copied')
    BY <2>1, <2>4 DEF Works, InStep, Awaited, Clients
  <2>7. \A x \in late : x.op \in Reports /\ x.from = w => ~SameLease(c, x)
    BY <2>2, <2>4 DEF SInv, GivenUpOn, SameLease, Busy
  <2> QED BY <1>5, <2>4, <2>5, <2>6, <2>7
<1> QED BY <1>1, <1>7, <1>8, <1>9, <1>10 DEF Answer, After

\* The server executes a request whose answer nobody hears, or that nobody waits for.
LEMMA UnheardKeeps ==
  ASSUME IInv, IInv', SInv, NEW q \in Requests, Meaningful(q, job, copied), Executed(q),
         q.op \in Reports => client[q.from].at # "work" \/ ~SameLease(client[q.from], q),
         UNCHANGED <<client, copied>>, late' \subseteq late,
         \A v \in Workers : net'[v] \in {net[v], NoRequest}, SessionTypeOK'
  PROVE  SInv'
<1>1. Grows
  BY ExecutedEffect, AttemptsGrow
<1>2. CompleteMeansVerified'
  BY ExecutedEffect DEF SInv, CompleteMeansVerified
<1>3. ASSUME NEW v \in Workers PROVE InStep(v, client[v], job')
  <2>1. client[v] \in Clients /\ Works(client[v], job) /\ InStep(v, client[v], job)
    BY DEF SInv, SessionTypeOK
  <2>2. CASE client[v].at # "work"
    BY <2>2 DEF InStep
  <2>3. CASE client[v].at = "work"
    BY <2>1, <2>3, ExecutedEffect
  <2> QED BY <2>2, <2>3
<1> QED BY <1>1, <1>2, <1>3, StaysKeeps

LEMMA ServingKeeps ==
  ASSUME IInv, IInv', SInv,
         \/ \E w \in Workers : ServeUnheard(w)
         \/ \E q \in late : ServeLate(q)
  PROVE  SInv'
<1>1. /\ client \in [Workers -> Clients] /\ net \in [Workers -> Requests \cup {NoRequest}]
      /\ late \subseteq Requests
  BY DEF SInv, SessionTypeOK
<1>2. ASSUME NEW w \in Workers, ServeUnheard(w) PROVE SInv'
  <2>1. /\ net[w] # NoRequest /\ UNCHANGED <<client, late, copied>>
        /\ net' = [net EXCEPT ![w] = NoRequest]
    BY <1>2 DEF ServeUnheard
  <2>2. /\ net[w] \in Requests /\ net[w].from = w /\ Meaningful(net[w], job, copied)
        /\ Executed(net[w])
        /\ net[w].op \in Reports => client[w].at # "work"
    BY <1>2, <2>1, InFlight, AnswerIsExecuted DEF SInv, Awaited
  <2>3. SessionTypeOK' /\ \A v \in Workers : net'[v] \in {net[v], NoRequest}
    BY <1>1, <2>1 DEF SessionTypeOK
  <2> QED BY <2>1, <2>2, <2>3, UnheardKeeps
<1>3. ASSUME NEW q \in late, ServeLate(q) PROVE SInv'
  <2>1. /\ q \in Requests /\ Meaningful(q, job, copied) /\ Executed(q)
        /\ q.op \in Reports => ~SameLease(client[q.from], q)
        /\ UNCHANGED <<client, net, copied>> /\ late' \subseteq late
    BY <1>3, InFlight DEF ServeLate, Executed, SInv, GivenUpOn
  <2>2. SessionTypeOK'
    BY <1>1, <2>1 DEF SessionTypeOK
  <2> QED BY <2>1, <2>2, UnheardKeeps
<1> QED BY <1>2, <1>3

\* A step of the server or of its surroundings that accepts nothing.
LEMMA SurroundingsKeep ==
  ASSUME IInv, IInv', SInv,
         \/ Environment \/ Restart
         \/ \E w \in Workers : ServeRead(w)
  PROVE  SInv' /\ Next
<1>1. /\ client \in [Workers -> Clients] /\ net \in [Workers -> Requests \cup {NoRequest}]
      /\ late \subseteq Requests
  BY DEF SInv, SessionTypeOK
<1>2. Next /\ accepted' = {}
  <2>1. CASE Environment
    <3>1. ASSUME NEW j \in Jobs, Reconcile(j, job[j].revision) PROVE Next
      <4>1. job[j].revision \in Told(j)
        BY DEF IInv, TypeOK, Job, Told
      <4> QED BY <3>1, <4>1 DEF Next
    <3> QED BY <2>1, <3>1 DEF Environment, Next, Tick, Enqueue, Register, Reconcile
  <2>2. CASE Restart
    BY <2>2 DEF Restart, Startup, Next
  <2>3. ASSUME NEW w \in Workers, ServeRead(w) PROVE Next /\ accepted' = {}
    BY <2>3 DEF ServeRead, HeartbeatRead, Next
  <2> QED BY <2>1, <2>2, <2>3
<1>3. /\ UNCHANGED <<client, copied>> /\ late' \subseteq late
  BY DEF Environment, sessionVars, Restart, ServeRead
<1>4. SessionTypeOK' /\ \A v \in Workers : \/ net'[v] \in {net[v], NoRequest}
                                           \/ net'[v].op \notin Reports /\ net'[v].from = v
  <2>1. CASE Environment \/ Restart
    BY <1>1, <1>3, <2>1 DEF Environment, sessionVars, Restart, SessionTypeOK
  <2>2. ASSUME NEW w \in Workers, ServeRead(w)
        PROVE  /\ SessionTypeOK'
               /\ \A v \in Workers : \/ net'[v] \in {net[v], NoRequest}
                                     \/ net'[v].op \notin Reports /\ net'[v].from = v
    <3>1. net[w] \in Requests /\ net[w].from = w
      BY <2>2, InFlight DEF ServeRead
    <3>2. PICK q : q = [net[w] EXCEPT !.op = "beating"]
      OBVIOUS
    <3>3. q \in Requests /\ q.op = "beating" /\ q.from = w
      BY <3>1, <3>2 DEF Requests, Ops
    <3>4. net' = [net EXCEPT ![w] = q]
      BY <2>2, <3>2 DEF ServeRead
    <3> QED BY <1>1, <1>3, <3>3, <3>4 DEF SessionTypeOK, Reports
  <2> QED BY <2>1, <2>2
<1>5. Grows /\ CompleteMeansVerified'
  BY <1>2, <1>3, AttemptsGrow, NothingAccepted DEF SInv, CompleteMeansVerified
<1>6. \A v \in Workers : InStep(v, client[v], job')
  BY <1>1, <1>2, NothingAccepted DEF SInv
<1> QED BY <1>2, <1>3, <1>4, <1>5, <1>6, StaysKeeps

-----------------------------------------------------------------------------
(* Theorems *)

LEMMA SessionInitHolds == ASSUME SessionInit PROVE SInv
<1>1. \A w \in Workers : client[w] = Loop("down") /\ net[w] = NoRequest
  BY DEF SessionInit
<1>2. Loop("down") \in Clients /\ Loop("down").at = "down"
  BY LoopIsClient DEF Places
<1>3. SessionTypeOK /\ late = {}
  BY <1>2 DEF SessionInit, SessionTypeOK
<1>4. CompleteMeansVerified
  BY DEF SessionInit, Init, CompleteMeansVerified
<1> QED BY <1>1, <1>2, <1>3, <1>4 DEF SInv, Works, Awaited, InStep, Busy

\* What a step of the session does to the table is a step of JobLease, or none.
LEMMA SessionStepIsTableStep ==
  ASSUME IInv, SInv, SessionNext
  PROVE  [Next]_vars
<1>1. ASSUME NEW w \in Workers, Serve(w) \/ ServeUnheard(w) PROVE [Next]_vars
  <2>1. net[w] # NoRequest
    BY <1>1 DEF Serve, ServeUnheard
  <2> QED BY <1>1, <2>1, InFlight, AnswerIsExecuted, ExecutedEffect
<1>2. ASSUME NEW q \in late, ServeLate(q) PROVE [Next]_vars
  <2>1. Executed(q)
    BY <1>2 DEF ServeLate, Executed
  <2> QED BY <2>1, InFlight, ExecutedEffect
<1>3. ASSUME NEW w \in Workers, Loops(w) \/ Handling(w) \/ SlowTimeout(w) \/ Die(w)
      PROVE  [Next]_vars
  BY <1>3 DEF Loops, Handling, Start, Beat, Timeout, Report, HandlerVerified, HandlerFailed,
     SlowTimeout, Die
<1>4. CASE Environment
  <2>1. \A j \in Jobs : job[j].revision \in Told(j)
    BY DEF IInv, TypeOK, Job, Told
  <2> QED BY <1>4, <2>1 DEF Environment, Next
<1>5. CASE Restart
  BY <1>5 DEF Restart, Next
<1>6. ASSUME NEW w \in Workers, ServeRead(w) PROVE [Next]_vars
  BY <1>6 DEF ServeRead, Next
<1> QED BY <1>1, <1>2, <1>3, <1>4, <1>5, <1>6 DEF SessionNext

LEMMA SessionKeeps ==
  ASSUME IInv, SInv, [SessionNext]_allVars
  PROVE  [Next]_vars /\ IInv' /\ SInv'
<1>1. CASE UNCHANGED allVars
  <2>1. UNCHANGED <<vars, client, net, late, copied>>
    BY <1>1 DEF allVars, sessionVars
  <2>2. IInv'
    BY <2>1, NextKeeps
  <2>3. SInv'
    BY <2>1 DEF vars, SInv, SessionTypeOK, CompleteMeansVerified
  <2> QED BY <2>1, <2>2, <2>3
<1>2. CASE SessionNext
  <2>1. [Next]_vars
    BY <1>2, SessionStepIsTableStep
  <2>2. IInv'
    BY <2>1, NextKeeps
  <2>3. SInv'
    BY <1>2, <2>2, SurroundingsKeep, LoopsKeep, HandlingKeeps, GivingUpKeeps, ServeKeeps,
       ServingKeeps DEF SessionNext
  <2> QED BY <2>1, <2>2, <2>3
<1> QED BY <1>1, <1>2

\* What is said of clients, requests and rows holds in every behaviour of the session.
THEOREM SessionInvariant == SessionSpec => [](IInv /\ SInv)
<1>1. SessionInit => IInv /\ SInv
  BY InitIInv, SessionInitHolds DEF SessionInit
<1>2. (IInv /\ SInv) /\ [SessionNext]_allVars => (IInv /\ SInv)'
  BY SessionKeeps
<1> QED BY <1>1, <1>2, PTL DEF SessionSpec

\* CompleteMeansVerified: a job is COMPLETE only if the handler that ran under its last
\* lease returned VERIFIED, through lost answers, late requests, deaths and restarts.
THEOREM CompleteIsVerified == SessionSpec => []CompleteMeansVerified
<1>1. SInv => CompleteMeansVerified
  BY DEF SInv
<1> QED BY <1>1, SessionInvariant, PTL

\* HolderIsInStep: a client at work under a lease that is still its own knows the revision
\* of the row, whatever answers were lost before.
THEOREM HolderKnows == SessionSpec => []HolderIsInStep
<1>1. SInv => HolderIsInStep
  BY DEF SInv, HolderIsInStep, InStep, Holds
<1> QED BY <1>1, SessionInvariant, PTL

\* TableSpec: workers that lose answers, die and repeat themselves do to the job table only
\* what JobLease considers; what is proved of JobLease holds of the session.
THEOREM SessionIsTable == SessionSpec => TableSpec
<1>1. SessionInit => Init
  BY DEF SessionInit
<1>2. (IInv /\ SInv) /\ [SessionNext]_allVars => [Next]_vars
  BY SessionKeeps
<1> QED BY <1>1, <1>2, SessionInvariant, PTL DEF SessionSpec, TableSpec, Spec

\* WorkSpec, of the session: ownership of work is exclusive with the worker processes and
\* their faults in the picture.
THEOREM SessionImplementsOwnedWork == SessionSpec => WorkSpec
BY SessionIsTable, ImplementsOwnedWork DEF TableSpec

\* SpentTokensStaySpent, of the session: no late request of any client revives a lease.
THEOREM SessionSpentTokens == SessionSpec => SpentTokensStaySpent
BY SessionIsTable, SpentTokens DEF TableSpec
=============================================================================
