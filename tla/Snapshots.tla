------------------------------ MODULE Snapshots ------------------------------
(***************************************************************************)
(* From a source card to a job: dmm-worker submit, which takes the         *)
(* inventory, registers it in a file of the worker and uploads it in pages *)
(* (cli/worker.py, worker/snapshots.py, api/routes/sources.py), and the    *)
(* confirmations that make one ingest with one job of it                   *)
(* (cli/server.py, api/routes/ingests.py).                                 *)
(*                                                                         *)
(* A submit may lose the answer to any request and end, though the server  *)
(* has done what it asked; another submit then makes a snapshot of its     *)
(* own.  Submits may overlap, and the file with the registrations is read  *)
(* at the start of one and written in whole.  The process that takes jobs  *)
(* reads it once, when it starts, and goes by its copy as long as it runs  *)
(* (worker/service.py, worker/handlers/ingest.py).                         *)
(***************************************************************************)
EXTENDS Integers, FiniteSetsExt

CONSTANTS
  Submits,    \* runs of dmm-worker submit; the snapshot of a run has its name
  Confirms,   \* requests to confirm; the ingest a request makes has its name
  Trips,
  Paths,      \* files a card may have
  Stats,      \* sizes and times of a file
  Ids,        \* identities the file system gives to files
  PageSize,
  MaxEdits    \* bound of changes of the card

ASSUME SnapshotAssumption == PageSize \in Nat \ {0} /\ MaxEdits \in Nat

VARIABLES
  card,      \* what the source holds, by path
  submit,    \* submit[p]: the run p
  registry,  \* the file of registrations: snapshots with their inventories
  snap,      \* snap[p]: the row of the snapshot of p with its entries
  expired,   \* the snapshots whose time has passed
  confirm,   \* confirm[c]: the request c
  ingests,   \* the rows of ingests with their items, and of their jobs
  worker,    \* the process that takes jobs: whether it runs, and its copy of the registrations
  crossed,   \* history: registrations that an overlapping submit did not know of
  met,       \* history: the snapshots that were finalized, and not crossed, when it started
  edits

workerVars == <<worker, met>>
vars == <<card, submit, registry, snap, expired, confirm, ingests, crossed, workerVars, edits>>

Inventories == UNION {[P -> Stats \X Ids] : P \in SUBSET Paths}
Empty == [p \in {} |-> 0]

Join(f, g) == [x \in DOMAIN f \cup DOMAIN g |-> IF x \in DOMAIN g THEN g[x] ELSE f[x]]
Only(f, S) == [x \in DOMAIN f \cap S |-> f[x]]

At(p, s) == submit[p].at = s
Goes(p, r) == submit' = [submit EXCEPT ![p] = r]

\* What is hashed of the entries: the identity of a file is not.
Fingerprint(entries) == [x \in DOMAIN entries |-> entries[x][1]]

-----------------------------------------------------------------------------
(* A submit *)

Absent == [status |-> "ABSENT", revision |-> 0, entries |-> Empty]
NotBegun == [at |-> "idle", inventory |-> Empty, known |-> Empty, revision |-> 0,
             left |-> {}]

\* The client has the answer and goes on, or it does not and ends.
Answered(p, r) == Goes(p, r) \/ Goes(p, [submit[p] EXCEPT !.at = "ended"])

Take(p) ==
  /\ At(p, "idle")
  /\ Goes(p, [NotBegun EXCEPT !.at = "create", !.inventory = card])
  /\ UNCHANGED <<card, registry, snap, expired, confirm, ingests, crossed, workerVars, edits>>

Create(p) ==
  /\ At(p, "create")
  /\ snap' = [snap EXCEPT ![p].status = "DRAFT"]
  /\ Answered(p, [submit[p] EXCEPT !.at = "load"])
  /\ UNCHANGED <<card, registry, expired, confirm, ingests, crossed, workerVars, edits>>

Load(p) ==
  /\ At(p, "load")
  /\ Goes(p, [submit[p] EXCEPT !.at = "register", !.known = registry])
  /\ UNCHANGED <<card, registry, snap, expired, confirm, ingests, crossed, workerVars, edits>>

Own(p) == [s \in {p} |-> submit[p].inventory]
\* Faulty variant: the file is written with the last registration alone.
PersistedLast(p) == Own(p)
\* The file is written in whole: what was loaded from it, and the new registration.
Persisted(p) == Join(submit[p].known, Own(p))

Register(p) ==
  /\ At(p, "register")
  /\ registry' = Persisted(p)
  /\ crossed' = crossed \cup (DOMAIN registry \ DOMAIN submit[p].known)
  /\ Goes(p, [submit[p] EXCEPT !.at = "upload", !.left = DOMAIN submit[p].inventory])
  /\ UNCHANGED <<card, snap, expired, confirm, ingests, workerVars, edits>>

Open(p) == snap[p].status = "DRAFT" /\ snap[p].revision = submit[p].revision /\ p \notin expired

Pages(left) == {P \in SUBSET left : Cardinality(P) = Min({PageSize, Cardinality(left)})}

Append(p) ==
  /\ At(p, "upload") /\ submit[p].left # {}
  /\ Open(p)
  /\ \E page \in Pages(submit[p].left) :
       /\ page \cap DOMAIN snap[p].entries = {}
       /\ snap' = [snap EXCEPT ![p].entries = Join(@, Only(submit[p].inventory, page)),
                               ![p].revision = @ + 1]
       /\ Answered(p, [submit[p] EXCEPT !.left = @ \ page, !.revision = @ + 1])
  /\ UNCHANGED <<card, registry, expired, confirm, ingests, crossed, workerVars, edits>>

Finalize(p) ==
  /\ At(p, "upload") /\ submit[p].left = {}
  /\ Open(p)
  /\ Cardinality(DOMAIN snap[p].entries) = Cardinality(DOMAIN submit[p].inventory)
  /\ snap' = [snap EXCEPT ![p].status = "FINALIZED", ![p].revision = @ + 1]
  /\ Goes(p, [submit[p] EXCEPT !.at = "ended"])
  /\ UNCHANGED <<card, registry, expired, confirm, ingests, crossed, workerVars, edits>>

\* A refused request, no answer before anything was done, or a stop.
End(p) ==
  /\ submit[p].at \notin {"idle", "ended"}
  /\ Goes(p, [submit[p] EXCEPT !.at = "ended"])
  /\ UNCHANGED <<card, registry, snap, expired, confirm, ingests, crossed, workerVars, edits>>

-----------------------------------------------------------------------------
(* A confirmation *)

Ask(c) ==
  /\ confirm[c].at = "idle"
  /\ \E s \in Submits, t \in Trips :
       /\ snap[s].status = "FINALIZED" /\ s \notin expired
       /\ ~\E g \in ingests : g.trip = t /\ g.fingerprint = Fingerprint(snap[s].entries)
       /\ confirm' = [confirm EXCEPT ![c] = [at |-> "write", snapshot |-> s, trip |-> t]]
  /\ UNCHANGED <<card, submit, registry, snap, expired, ingests, crossed, workerVars, edits>>

\* Faulty variant: a trip may have the same inventory twice.
NeverTaken(t, f) == FALSE
Taken(t, f) == \E g \in ingests : g.trip = t /\ g.fingerprint = f

\* The ingest, its items and its job, unless another confirmation was first.
Enqueue(c) ==
  /\ confirm[c].at = "write"
  /\ LET s == confirm[c].snapshot
         f == Fingerprint(snap[s].entries)
     IN ingests' = IF Taken(confirm[c].trip, f) THEN ingests
                   ELSE ingests \cup {[id |-> c, trip |-> confirm[c].trip, snapshot |-> s,
                                       fingerprint |-> f, items |-> snap[s].entries]}
  /\ confirm' = [confirm EXCEPT ![c].at = "done"]
  /\ UNCHANGED <<card, submit, registry, snap, expired, crossed, workerVars, edits>>

-----------------------------------------------------------------------------
(* The worker *)

Down == [up |-> FALSE, memory |-> Empty]

StartWorker ==
  /\ ~worker.up
  /\ worker' = [up |-> TRUE, memory |-> registry]
  /\ met' = {p \in Submits : snap[p].status = "FINALIZED"} \ crossed
  /\ UNCHANGED <<card, submit, registry, snap, expired, confirm, ingests, crossed, edits>>

GoesDown ==
  /\ worker' = Down /\ met' = {}
  /\ UNCHANGED <<card, submit, registry, snap, expired, confirm, ingests, crossed, edits>>

\* It is handed a job whose snapshot its copy does not have, and nothing catches that.
Miss(g) == worker.up /\ g.snapshot \notin DOMAIN worker.memory /\ GoesDown

StopWorker == worker.up /\ GoesDown

-----------------------------------------------------------------------------
(* The others *)

\* The card is recorded over, emptied, or put back under other identities.
Edit ==
  /\ edits < MaxEdits /\ edits' = edits + 1
  /\ card' \in Inventories
  /\ UNCHANGED <<submit, registry, snap, expired, confirm, ingests, crossed, workerVars>>

Expire(p) ==
  /\ snap[p].status # "ABSENT" /\ p \notin expired
  /\ expired' = expired \cup {p}
  /\ UNCHANGED <<card, submit, registry, snap, confirm, ingests, crossed, workerVars, edits>>

Init ==
  /\ card \in Inventories
  /\ submit = [p \in Submits |-> NotBegun]
  /\ registry = Empty
  /\ snap = [p \in Submits |-> Absent]
  /\ expired = {}
  /\ confirm = [c \in Confirms |-> [at |-> "idle"]]
  /\ worker = Down /\ met = {}
  /\ ingests = {} /\ crossed = {} /\ edits = 0

Runs(p) ==
  Take(p) \/ Create(p) \/ Load(p) \/ Register(p) \/ Append(p) \/ Finalize(p) \/ End(p)
Confirming(c) == Ask(c) \/ Enqueue(c)

Next ==
  \/ \E p \in Submits : Runs(p) \/ Expire(p)
  \/ \E c \in Confirms : Confirming(c)
  \/ StartWorker \/ StopWorker \/ \E g \in ingests : Miss(g)
  \/ Edit

Spec == Init /\ [][Next]_vars

-----------------------------------------------------------------------------
(* Properties *)

\* The file has the snapshot of every job, with the very inventory the job lists, whichever
\* submits ended half way and whichever of several snapshots of one card the ingest was
\* made from; only a submit that overlapped another may have lost the other's registration.
\* The worker looks in the copy it has since it started: what it finds there is that very
\* inventory, and it finds what was submitted before it started.  What is submitted while
\* it runs it does not find, and handed such a job it goes down (Miss).
JobFindsItsSource ==
  \A g \in ingests :
    /\ g.snapshot \notin crossed => /\ g.snapshot \in DOMAIN registry
                                    /\ registry[g.snapshot] = g.items
    /\ g.snapshot \in DOMAIN worker.memory => worker.memory[g.snapshot] = g.items
    /\ g.snapshot \in met => g.snapshot \in DOMAIN worker.memory

\* However often a card is submitted and confirmed, a trip has one ingest of it.
OneIngestOfAnInventory ==
  \A g, h \in ingests :
    g.trip = h.trip /\ Fingerprint(g.items) = Fingerprint(h.items) => g = h
=============================================================================
