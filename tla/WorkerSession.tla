----------------------------- MODULE WorkerSession -----------------------------
(***************************************************************************)
(* The worker process (worker/service.py, worker/client.py) against the    *)
(* job table: one polling loop per worker that beats, claims, runs the     *)
(* ingest handler and reports, each request under a total deadline.        *)
(*                                                                         *)
(* A request the client gave up on may still be executed; a reply may be   *)
(* lost; the process may die at any point, and does on every error that    *)
(* run_once does not catch; the server may restart under it.  All of these *)
(* are faults, and MaxFaults bounds how many of them a behaviour has.      *)
(***************************************************************************)
EXTENDS JobLease, FiniteSets

CONSTANTS
  NoError,       \* a request that carries no error code
  NoRequest,     \* nothing of this client is on its way to the server
  EmptyJobs,     \* the ingest jobs without items
  Reconciles,    \* whether the operator reconciles interrupted jobs by hand
  MaxFaults,     \* bound of the faults of a behaviour
  MaxLate        \* bound of the requests given up on and still under way

ASSUME SessionAssumption ==
  /\ EmptyJobs \subseteq Jobs
  /\ Reconciles \in BOOLEAN
  /\ MaxFaults \in Nat /\ MaxLate \in Nat

VARIABLES
  client,   \* client[w]: the process of worker w and the lease it has in hand
  net,      \* net[w]: the request that client w waits on and the server has not served
  late,     \* requests whose client no longer waits
  copied,   \* history: <<job, token>> of the handlers that returned VERIFIED
  faults    \* how many faults there were

sessionVars == <<client, net, late, copied, faults>>
allVars == <<vars, sessionVars>>

Waiting == {"beat", "claim", "report", "end"}
Places == {"down", "poll", "work"} \cup Waiting
Ops == {"heartbeat", "beating", "claim", "progress", "complete", "fail"}

Requests == [op : Ops, from : Workers, job : Jobs \cup {0}, token : Nat, rev : Nat,
             part : 0..Units, err : Errors \cup {NoError}]
Clients == [at : Places, job : Jobs \cup {0}, token : Nat, rev : Nat, seen : 0..Units]

\* A process that has no lease in hand, at a place of its loop.
Loop(place) == [at |-> place, job |-> 0, token |-> 0, rev |-> 0, seen |-> 0]

Poll(op, w) == [op |-> op, from |-> w, job |-> 0, token |-> 0, rev |-> 0,
                part |-> 0, err |-> NoError]

\* A report on the lease in hand, at the revision the client was last told.
About(op, w, p, err) ==
  [op |-> op, from |-> w, job |-> client[w].job, token |-> client[w].token,
   rev |-> client[w].rev, part |-> p, err |-> err]

Fault == faults < MaxFaults /\ faults' = faults + 1

\* Client w goes to c and waits on request q.
Sends(w, c, q) == client' = [client EXCEPT ![w] = c] /\ net' = [net EXCEPT ![w] = q]

-----------------------------------------------------------------------------
(* The server *)

\* Faulty variant: a rejected request still frees the worker.
HalfRolledBack(w) ==
  /\ worker' = [worker EXCEPT ![w] = "ONLINE"]
  /\ UNCHANGED <<now, job, beats, ingest, over, accepted>>
\* A rejected request leaves no row behind.
RolledBack(w) == UNCHANGED vars

Served(q) ==
  CASE q.op = "progress" -> Progress(q.job, q.from, q.token, q.rev, q.part)
    [] q.op = "complete" -> Complete(q.job, q.from, q.token, q.rev)
    [] q.op = "fail"     -> Fail(q.job, q.from, q.token, q.rev, q.err)

Target(q) == CASE q.op = "progress" -> "RUNNING"
               [] q.op = "complete" -> "COMPLETE"
               [] q.op = "fail"     -> "FAILED"

Refusable(q) ==
  \/ ~Owned(q.job, q.from, q.token, q.rev)
  \/ Target(q) \notin Edges[job[q.job].status] \cup ({job[q.job].status} \cap {"RUNNING"})

\* What executing request q does to the table, whoever still waits for it.
Beaten(q) == \/ q.op = "heartbeat" /\ worker[q.from] # "OFFLINE" /\ UNCHANGED vars
             \/ q.op = "beating" /\ HeartbeatWrite(q.from)
Granted(q) == q.op = "claim" /\ \E secs \in LeaseSeconds : Claim(q.from, secs)
Declined(q) == /\ q.op = "claim"
               /\ ~Free(q.from) \/ Claimable(q.from) = {}
               /\ UNCHANGED vars
Accepted(q) == q.op \in {"progress", "complete", "fail"} /\ Served(q)
Refused(q) == q.op \in {"progress", "complete", "fail"} /\ Refusable(q) /\ RolledBack(q.from)

\* The job that worker w came to hold in this step.
Handed(w) == CHOOSE j \in Jobs : job'[j].token # job[j].token

\* Faulty variant: the reporter keeps the revision of the claim.
AfterKeepingRevision(w, q) ==
  IF q.op = "progress" THEN [client[w] EXCEPT !.at = "work", !.seen = q.part] ELSE Loop("poll")
\* Where an accepted report takes the client: on with the job, or back to the loop.
After(w, q) ==
  IF q.op = "progress"
  THEN [client[w] EXCEPT !.at = "work", !.seen = q.part, !.rev = job'[q.job].revision]
  ELSE Loop("poll")

\* The reply reaches the client, which does what run_once does with it.
Answer(w) ==
  LET q == net[w] IN
  \/ Beaten(q) /\ Sends(w, Loop("claim"), Poll("claim", w))
  \/ /\ Granted(q)
     /\ Sends(w, [Loop("work") EXCEPT !.job = Handed(w), !.token = job'[Handed(w)].token,
                                      !.rev = job'[Handed(w)].revision], NoRequest)
  \/ Declined(q) /\ Sends(w, Loop("poll"), NoRequest)
  \/ Accepted(q) /\ Sends(w, After(w, q), NoRequest)
  \/ Refused(q) /\ Sends(w, Loop("down"), NoRequest)

Serve(w) ==
  /\ net[w] # NoRequest
  /\ Answer(w)
  /\ UNCHANGED <<late, copied, faults>>

\* The reply is lost; the client still waits.
ServeUnheard(w) ==
  /\ net[w] # NoRequest
  /\ Beaten(net[w]) \/ Granted(net[w]) \/ Declined(net[w]) \/ Accepted(net[w]) \/ Refused(net[w])
  /\ Fault
  /\ net' = [net EXCEPT ![w] = NoRequest]
  /\ UNCHANGED <<client, late, copied>>

\* The heartbeat handler has read the worker as OFFLINE and will write it ONLINE.
ServeRead(w) ==
  /\ net[w] # NoRequest
  /\ net[w].op = "heartbeat"
  /\ HeartbeatRead(w)
  /\ net' = [net EXCEPT ![w].op = "beating"]
  /\ UNCHANGED <<client, late, copied, faults>>

\* The daemon thread of an abandoned request was not stopped: the server serves it.
ServeLate(q) ==
  /\ q \in late
  /\ Beaten(q) \/ Granted(q) \/ Declined(q) \/ Accepted(q) \/ Refused(q)
  /\ late' = late \ {q}
  /\ UNCHANGED <<client, net, copied, faults>>

\* The server restarts; what it was serving is gone with its connections.
Restart ==
  /\ Startup
  /\ Fault
  /\ net' = [w \in Workers |-> NoRequest]
  /\ late' = {}
  /\ UNCHANGED <<client, copied>>

Environment ==
  /\ \/ Tick
     \/ \E j \in Jobs : Enqueue(j)
     \/ \E w \in Workers : Register(w)
     \/ /\ Reconciles
        /\ \E j \in Jobs : job[j].revision + 1 < MaxRevision /\ Reconcile(j, job[j].revision)
  /\ UNCHANGED sessionVars

-----------------------------------------------------------------------------
(* The worker process *)

Start(w) ==
  /\ client[w].at = "down"
  /\ worker[w] # "ABSENT"
  /\ client' = [client EXCEPT ![w] = Loop("poll")]
  /\ UNCHANGED <<vars, net, late, copied, faults>>

Beat(w) ==
  /\ client[w].at = "poll"
  /\ Sends(w, Loop("beat"), Poll("heartbeat", w))
  /\ UNCHANGED <<vars, late, copied, faults>>

\* Faulty variant: the count is not capped.
Uncapped(p) == p
\* The reporter turns bytes into a fraction of bytes_total, capped at 1: a source that
\* grew since its snapshot yields more bytes than the payload announced.
Fraction(p) == IF p > Units THEN Units ELSE p

\* A chunk was written or an item was checkpointed.
Report(w, p) ==
  /\ client[w].at = "work"
  /\ client[w].job \notin EmptyJobs
  /\ client[w].rev + 1 < MaxRevision
  /\ Sends(w, [client[w] EXCEPT !.at = "report"], About("progress", w, Fraction(p), NoError))
  /\ UNCHANGED <<vars, late, copied, faults>>

\* Every item was checkpointed: the last report was for all bytes.
AllChecked(w) == client[w].seen = Units \/ client[w].job \in EmptyJobs

HandlerVerified(w) ==
  /\ client[w].at = "work"
  /\ AllChecked(w)
  /\ copied' = copied \cup {<<client[w].job, client[w].token>>}
  /\ Sends(w, [client[w] EXCEPT !.at = "end"], About("complete", w, 0, NoError))
  /\ UNCHANGED <<vars, late, faults>>

HandlerFailed(w, err) ==
  /\ client[w].at = "work"
  /\ Sends(w, [client[w] EXCEPT !.at = "end"], About("fail", w, 0, err))
  /\ UNCHANGED <<vars, late, copied, faults>>

\* Faulty variant: the client goes on waiting and asks nobody.
StillWaiting(w) == client[w]
\* Where giving up on a request leaves the client: run_once catches a transport error of
\* heartbeat and claim, and no other.
GivenUp(w) ==
  Loop(IF client[w].at \in {"beat", "claim"} THEN "poll" ELSE "down")

Abandon(w) == late' = IF net[w] # NoRequest /\ Cardinality(late) < MaxLate
                      THEN late \cup {net[w]} ELSE late

\* The deadline of 30 s passes and nothing will come any more.
Timeout(w) ==
  /\ client[w].at \in Waiting
  /\ net[w] = NoRequest
  /\ Sends(w, GivenUp(w), NoRequest)
  /\ UNCHANGED <<vars, late, copied, faults>>

\* The deadline passes, or the connection breaks, while the server has the request.
SlowTimeout(w) ==
  /\ client[w].at \in Waiting
  /\ net[w] # NoRequest
  /\ Fault
  /\ Abandon(w)
  /\ Sends(w, GivenUp(w), NoRequest)
  /\ UNCHANGED <<vars, copied>>

\* The machine powers off, or the handler raises what nobody catches.
Die(w) ==
  /\ client[w].at # "down"
  /\ Fault
  /\ Abandon(w)
  /\ Sends(w, Loop("down"), NoRequest)
  /\ UNCHANGED <<vars, copied>>

-----------------------------------------------------------------------------

SessionInit ==
  /\ Init
  /\ client = [w \in Workers |-> Loop("down")]
  /\ net = [w \in Workers |-> NoRequest]
  /\ late = {}
  /\ copied = {}
  /\ faults = 0

Loops(w) == Start(w) \/ Beat(w) \/ Timeout(w)

Handling(w) ==
  \/ \E p \in 0..(Units + 1) : Report(w, p)
  \/ HandlerVerified(w)
  \/ \E err \in Errors : HandlerFailed(w, err)

SessionNext ==
  \/ Environment
  \/ Restart
  \/ \E w \in Workers : Loops(w) \/ Handling(w) \/ Serve(w) \/ ServeRead(w)
  \/ \E w \in Workers : ServeUnheard(w) \/ SlowTimeout(w) \/ Die(w)
  \/ \E q \in late : ServeLate(q)

\* The loop runs on, deadlines pass, a handler gets through its finitely many chunks, the
\* server serves what it has, and the operator starts a worker process that ended.
\* Faults, the passing of time, restarts of the server and reconciliation are not fair.
SessionSpec ==
  /\ SessionInit /\ [][SessionNext]_allVars
  /\ \A w \in Workers :
       /\ WF_allVars(Loops(w)) /\ WF_allVars(Handling(w))
       /\ WF_allVars(Serve(w) \/ ServeRead(w))

-----------------------------------------------------------------------------
(* Properties *)

\* A job is COMPLETE only if the handler that ran under its last lease returned VERIFIED:
\* no late, repeated or foreign request finishes it in the name of another attempt.
CompleteMeansVerified ==
  \A j \in Jobs : job[j].status = "COMPLETE" => <<j, job[j].attempts>> \in copied

\* A client at work under a lease that is still its own knows the revision of the row, so
\* nothing but the expiry of the lease can make the server refuse its next report.
HolderIsInStep ==
  \A w \in Workers :
    client[w].at = "work" /\ Holds(w, client[w].job) /\ job[client[w].job].token = client[w].token
      => client[w].rev = job[client[w].job].revision

\* The worker's requests are among those JobLease considers, so what is proved of JobLease
\* holds of this system.
TableSpec == Spec

\* Once faults have ceased, a job waits only while every worker able to run it is occupied
\* by a lease.
PendingIsTaken ==
  \A j \in Jobs :
    (job[j].status = "PENDING" /\ \E w \in Workers : j \in CapableOf[w] /\ worker[w] # "ABSENT")
      ~> (job[j].status # "PENDING"
            \/ \A w \in Workers : j \in CapableOf[w] => ~Free(w))
=============================================================================
