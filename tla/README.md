# A verification project for drone-media-manager

drone-media-manager moves the footage of drone trips from source cards on Windows to a
shared volume (OMV), and catalogues and edits it from a Mac. This directory holds TLA+
specifications of the parts of it whose correctness depends on order, concurrency,
failure or restart; TLC configurations that check them on small instances; and proofs,
checked by TLAPS, that hold for every value of the constants.

Paths such as `jobs/repository.py` are relative to `src/src/drone_media_manager`.
`PROJECT.json` maps every definition to the lines it models, and lists the runs, the
faulty variants that show that each property can fail, and the hazards.

## 1. Inventory

| Component | State | Operations | Modelled by |
|---|---|---|---|
| Job lease protocol: `jobs/`, `api/routes/jobs.py`, `api/routes/workers.py` | rows of `jobs`, `workers`, `ingest_jobs`, `ingest_items` in SQLite | enqueue, register, heartbeat, claim, renew, progress, complete, fail, start-up sweep, reconcile | `JobLease`, promise in `OwnedWork` |
| Worker process: `worker/service.py`, `worker/client.py`, `cli/worker.py` | the lease in hand, the revision last told, one request at a time under a deadline | poll, run the handler, report, give up, die | `WorkerSession` over `JobLease` |
| Ingest handler: `worker/handlers/ingest.py`, `ingest/copy.py`, `verify.py`, `promote.py`, `manifest.py` | partials, published files, manifests on the share; the card | copy or resume, double hash, promote by hard link, write the manifest | `IngestFiles` over `CopyEngine` |
| Windows organizer: `organize.py`, `cli/organize.py` | partials, published files and `MANIFESTO.json` of a trip, no server | plan, apply | `Organize` over `CopyEngine` |
| Snapshots and confirmation: `worker/snapshots.py`, `cli/worker.py`, `api/routes/sources.py`, `ingests.py` | the worker's file of registrations, drafts with their pages, ingests | take, register, upload, end, expire, confirm | `Snapshots` |
| Catalog importer: `catalog/importer.py`, `cli/catalog.py` | trips, assets, files with a status | preview, import with or without hashes | `Catalog` |
| Derivatives: `derivatives/service.py`, `cli/derivatives.py` | thumbnails and proxies in a cache, a row for each | generate, keep, record failure | `Derivatives` |
| Editorial decisions and groups: `editorial/`, `grouping/`, `api/routes/editorial.py` | suggestions, groups, the people in a video | analyse, assign a range, edit | `Editorial` over `TripRequests` |
| Scores: `scoring/`, `api/routes/scoring.py` | weights, rankings in rows of `jobs`, background runs | request, run, save weights, interrupt at start-up | `Scores` over `TripRequests` |
| Movements: `movement/`, `api/routes/movement.py` | analyses, confirmed segments, rows of `jobs`, background runs | request, run, confirm, remove, interrupt at start-up | `MovementJobs` over `Selects` |
| Selects: `selects/repository.py`, `api/routes/selects.py` | candidates and decisions | generate, review | `Selects`, promise in `Selection` |
| Export of the selection: `selects/repository.py` | rows of `jobs`, background tasks, export folders | enqueue, run, fail, interrupt at start-up | `ExportJobs` over `Selection` |
| Segments: `segments/`, `cli/segments.py` | sidecars and projects in a folder | plan, create, fill | `Segments` |
| Browser sessions, triage, downloads, gallery, health, command lines, configuration, backup | of their own, or none | | not modelled, see 6 |

How they interact. The worker asks the control plane for work over HTTPS and is given a
job with a lease (holder, token, expiry, revision). It copies the files of the job to the
share, reports with token and revision, and completes or fails. The control plane mirrors
job and worker state into the ingest the operator sees. The organizer needs no server: it
writes to the same kind of share directly, and its manifest is what the catalog imports.
The documents call the worker's path legacy for new trips and the organizer the normal
one. Derivatives, scores, movements, selects and exports work on the catalog; the last
four as background tasks of the server, whose rows share the table of jobs but not its
leases. Everything in the server is in one SQLite database: a session reads without a
lock, takes the one write lock with its first write, and writes the columns in which its
objects differ from what it loaded. The models of the catalog's components keep to that.

Hard behaviours, each listed with its line under "hazards" in `PROJECT.json`: requests
that are late, lost, repeated or executed after their client gave up; leases that run out
under work; restarts of server and worker between any two steps; cards edited between
inventory, copy and verification; two processes that write the same partial or want the
same name; rows that were loaded long before they are written; files and rows of one
thing that are changed one after the other; a task that fails next to another one.

What makes each component correct:

- *Lease protocol*: one holder per job and one job per holder; a spent token is never
  accepted; a finished job stays finished; the mirror agrees with the job.
- *Worker session*: a job is COMPLETE only by the attempt that verified its files; no
  request blocks the loop; work that waits is taken.
- *Snapshots*: one ingest per trip and inventory, whose job finds its source again.
- *Ingest files* and *organizer*: what has a final name is whole and is never replaced;
  what is shown or listed as VERIFIED stays so; partials are kept; a stop condemns nothing.
- *Catalog*: an import is all or nothing, and what it registered never changes; fields
  people edited are kept; the status of a file is what an import found.
- *Derivatives*: what is READY has its file; a run puts right what others left.
- *Editorial*: the suggestions shown are one whole analysis; groups are as asked for; the
  two places that tell of the people in a video agree.
- *Scores* and *movements*: one active job; a result that is shown as fresh or complete
  is; every job ends.
- *Selects* and *exports*: decisions survive every recomputation; an export folder has
  exactly what was asked for and was still decided while the job ran, made of registered
  originals; every export ends.
- *Segments*: each sidecar says of each moment what the telemetry says of it; nothing is
  overwritten.

## 2. Modules

`JobLease` is the table and every operation that changes it. A write runs inside
`BEGIN IMMEDIATE` and is one action with all the rows its audit hook writes
(`Mirror`, the worker's status). A refused request rolls back and is no step. The
heartbeat reads outside a write transaction, so it is two actions (`HeartbeatRead`,
`HeartbeatWrite`), and `beats` counts those under way. A token is the number of the
attempt it was drawn for: real tokens are random and never equal, and numbers say no more
than that. Two history variables, `over` and `accepted`, exist only for properties.

`OwnedWork` is the promise: work is published, taken by one worker that holds nothing
else, finished by its owner or taken back. `JobLease!WorkSpec` instantiates it with the
phase of each job, its holder and the ingests shown VERIFIED.

`WorkerSession` EXTENDS `JobLease` with the processes: `client[w]` is the place in
`run_once`, the lease in hand, the last revision told and the bytes seen; `net[w]` the
request the client waits on; `late` the requests it gave up on, which the server may
still execute. A request is served in one step with its reply (`Serve`), served without
its reply arriving (`ServeUnheard`), abandoned at the deadline (`Timeout`, `SlowTimeout`)
or served afterwards (`ServeLate`). `TableSpec` says that every step of this system is a
step of `JobLease` or leaves the table alone, so what is proved of `JobLease` holds here.

`Snapshots` is the way from a card to a job. A submit takes the inventory, creates the
draft, loads the worker's file of registrations, writes it back in whole with its own,
uploads pages and finalizes; any answer may be lost and any submit may end. The
fingerprint leaves out the identity of files, as the code does. A confirmation looks for
an ingest and then writes one, in two steps. The worker loads the file once, when it
starts, and goes by that copy as long as it runs; handed a job that is not in it, it goes
down (`Miss`). `crossed` and `met` are history: the registrations that a submit wrote over
because it had loaded the file before they were there, and the snapshots there were when
the worker started.

`CopyEngine` has the operators both file modules share: what `SourceStat` tells of a
file (size and a version for mtime and identity), whether a partial is a prefix of a
source, the next block. A file is a sequence of blocks, and a SHA-256 is the data itself:
equal hashes mean equal data.

`IngestFiles` has one program counter per ingest; an action is what happens between two
moments at which another process, an editor of the card or a stop can interfere. `link`
records that a published name and a partial are one file: `os.link` publishes, and until
`unlink` what is appended to one is appended to the other. A final name belongs to the
trip, a partial to the ingest. `Crash` covers every way an attempt ends without a
verdict. Its job is then claimed and stays so; `Reconcile` makes it PENDING again, and
`Begin` claims what is PENDING.

`Organize` has one program counter per process of the command line. A physical name is a
record of folder, card, slot and id, because the real one has the folder of `--poi` and the
start of the asset id, which hashes the identity and the data of a photo or a video. An SRT
carries the id of its video (`PrimaryOf`), so its name stays when its own data changes.
`meanwhile` is history: what others listed since a run read the manifest. Files that are
open for writing are neither renamed nor removed, and a rename does not replace a file:
the rules of the Windows host, for which this command is written, stated in `Movable` and
`NameIsFree`. A missing manifest, one of the old scheme and one of `neutral-v1` are told
apart.

`Catalog` cuts an import where the world can change under it: after the manifest, after
the row of each asset, after its files (which take hours when they are hashed), after the
rows of its files, and at the one write. `Updated` writes a column only if the plan
differs from what was loaded; `Clashes` is what the unique columns refuse. The status of
a file is computed by `FileState` and `Keep` as in the code. `calm` is history.

`Derivatives` has a run per process: it queries the assets once, and item by item hashes
the original, looks at the row, renders, renames and commits. What the session has loaded
stays known until a failure rolls it back (`known`). A file is told by the content it was
made of, so a row and a file that do not belong together are seen.

`TripRequests` is what `Editorial` and `Scores` share: requests about the videos of a trip
(`req`), and SQLite's write lock where one of them holds it from one step to the next
(`writer`).

`Editorial` has one record per request with what it has loaded. Suggestions are computed
by `Boundary` and `Ranges` in the order that the times of capture on record give
(`order`); an import adds videos and brings new times, and the page lays the ranges of
before out in the order of today (`Within`). `behind` and `split` are history that tell
which requests read before another one wrote. An analysis reads the tracks in one step:
what it finds of one video depends on no other, and what another analysis keeps
meanwhile is among what it may find.

`Scores` has one record per request, which becomes its run in the background. `writer` is
the lock of `BEGIN IMMEDIATE`; with a deferred transaction, the faulty variant, two
requests would both find no job. A result records what it was computed from in place of
numbers. `lost` is history: the jobs whose run could not write that it failed.

`Selection` is what exports need to know of the candidates: which are included, with
which interval, and that only a decision changes it. `Selects` is the table of candidates
with the analyses and the confirmed segments they are generated from; each request is one
transaction and one action. `Generate` rewrites all rows at once (`Regenerated`): a
decided row may only come back to the list, any other follows the segments of its take,
where a segment under the name UNKNOWN counts for hiding the analysis but is no
candidate. Which takes scores recommend is left open.

`MovementJobs` EXTENDS `Selects` with the jobs that analyse: `Analyze` of `Selects` is
the write of one take by a run (`WriteTake`), which had read the analyses before
(`ReadTake`). `Track` is `segment_track`, a recursive function over the windows of a
take. A job may be marked FAILED by a run that never began it, and then another job runs
next to it; `behind` and `since` are history.

`ExportJobs` EXTENDS `Selection`. A request `r` has the row it may create, `job[r]`, and
the task it adds, `task[r]`, which may be for the job of another request. A task is cut
where the world can change under it: after each candidate is checked and hashed, each
file rendered, each original hashed again, and between the rename of the folder and the
commit of the row. A failure may come before the task has its job, and recording it may
fail as well (`Lose`), which `lost` remembers. `held` is history for one property. A
replaced original is not put back: hashing before and after could not tell.

`Segments` has what is computed of telemetry (`Begins`, `Slice`, `Moving`, `Trim`,
`Parts`) and the runs that plan all files of a folder before they create and fill the
first. A flight is its samples in time, overlapping or with gaps, and which buckets of
time move; the thresholds that decide this are left out. A slice keeps the numbers of the
samples it is made of, in place of new ones in the same order. Creating a file and filling it
are two steps, and a run may stop between them.

`MC...` modules give the constants their values, and some check pure algorithms against
references with ASSUME. The `..._proofs` modules hold the proofs. Operators preceded by
"Faulty variant" are not used by the specifications: each is a plausible bug, which put
in the place of the definition after it makes the run find a property violated.

## 3. Runs

| Run | Question | Bounds |
|---|---|---|
| `job_lease` | Does the table fence late clients, keep a worker to one job, mirror the ingest, and implement `OwnedWork`? | 2 workers, 2 jobs (one an ingest), leases of 1 and 2 ticks, clock to 2, revision to 5 |
| `worker_session` | Do real clients keep in step with the table through faults, does every wait end, and is waiting work taken? | 2 workers, 1 ingest job, 2 faults, 1 late request, clock to 1, 3 heartbeats |
| `snapshots` | Is there one ingest of an inventory, and does its job find its source? | 2 submits, 2 confirmations, 2 files in pages of one, 2 identities, 1 edit of the card, a worker that starts and stops at any time |
| `ingest_files` | Are published files whole, kept and lasting, and are stops survived? | 2 ingests from 2 cards that agree on one of two files, 1 edit, 2 stops, any number of reconciliations |
| `organize` | Is what the manifest lists there, intact and at a lasting place, and does APPLIED mean listed? | 2 runs of which one has a `--poi`, a video with its SRT, 1 edit, any number of stops, a new trip and one of the old scheme |
| `catalog` | Is the catalog what was imported, and are people's words kept? | 2 importers, 3 imports, 4 manifests of two trips that contradict each other in part, 1 change or edit |
| `derivatives` | Does READY mean a file, and does a run left alone put things right? | 2 processes, 3 runs, both derivatives of a video, 2 contents, 1 change |
| `editorial` | Are suggestions, groups and people as the last request left them? | 3 requests of any kind, 2 videos in both orders, 2 places, imports and failures |
| `scores` | Is a fresh ranking current, is there one active job, does it end? | 2 requests, 1 video, 2 weights, 2 changes, 1 failure, 1 stop |
| `selects` | Does COMPLETE mean analysed, do analyses supersede each other, do decisions survive? | 3 requests, 1 take of 2 windows with 2 cuts, 2 decisions, 3 analyses or generations, 1 failure, 1 stop |
| `export_jobs` | Does every export end, with one folder that holds what was decided? | 2 requests, 2 takes, 2 intervals, 3 decisions, 2 faults |
| `segments` | Does what is written fit the telemetry, and is nothing overwritten? | 2 runs, 2 segments and a project, 2 flights in 3 kinds of files, 1 change by others, at any time |

Why these are enough for the interesting cases. Leases: two workers and two jobs are
what it takes for a worker to be tempted by a second job, for a job to change hands and
for an old token to meet a new lease; clock and revisions reach two leases of one job,
their expiry and a report afterwards. Sessions: one fault loses a reply and another
kills or delays, so a request of one attempt can arrive in the next. Snapshots: a submit
that ended and one that goes on, or two that overlap; the edit lets them differ, or
differ in identities alone, which the fingerprint does not see; the worker starts
before, between and after the submits. Files: two blocks give a partial that is a true
prefix, two items a stop between items, one edit may come at any of the moments between
inventory, copy and hash, and two stops suffice to stop, resume, and stop in the
resumption. Organizer: with two runs every race of copying, checking and publishing of a
pair occurs; replacing a published file would need a third, and is excluded by proof for
any number. Catalog: the third import sees what two overlapping ones left; the manifests
make a trip grow, contradict a hash, and claim an asset for another trip, and an import
without hashes meets the mismatch that one with hashes left. Derivatives: the third run
finds what one that stopped and one that overtook it left. Editorial: three requests are
an analysis next to another with a third that acts on what it sees; two videos are one
range or two, as the places and the order say, and an import before, during and after an
analysis turns them round. Scores: two changes take an input there and back. Selects:
one cut is half of the other, so confirmed segments overlap; three requests give a
failed job, the retry and the late task next to it. That one take of several fails and
the others keep what was found needs two takes, which with three requests is out of
reach of the run; the theorem `CompleteAnalysed` has any number of them. Exports: two
requests give two tasks for one job, or a second job after the first; two files give a
change between their checks; two faults are a failure and one of recording it, or a
failed job and what the second task makes of it. Segments: a sample without a position,
an overlap, a gap, a segment that begins at an earlier keyframe and one whose end is
missing are all in the two flights and two segments.

Bounded counters (`Max...`) are in the guards of the actions that count, and named in the
constants. Deadlock is checked in `job_lease`, `worker_session` and `organize`; elsewhere
processes end, or people and faults stop at their bound, and the system really may stop.

Pure algorithms, checked by ASSUME when the module of a run is loaded: `TracksMeet`
(`segment_track` yields segments that follow one another and meet just where the movement
changes, for all labels), `SlicesAreRight` (a slice of every short track says at each
moment what the track says there, within the segment), `TrimsAreRight` (for all flights
of up to seven buckets, what is kept is what lies between the first and the last held
motion, or there is none that is long enough).

Fairness. Only where liveness is claimed. `WorkerSession!SessionSpec` is weakly fair to
the loop of a process (it is a `while` without a condition but the stop event), to the
handler (finitely many chunks), to the server answering what reached it, and to an
operator starting a worker that ended. Time, faults, server restarts and reconciliation
are not fair, so a liveness property holds without them. `IngestFiles!Spec` is weakly
fair to each attempt, from the claim of a PENDING job to its verdict. Nobody has to
reconcile: no route or command calls `JobRepository.reconcile`, so `StopsAreSurvived`
lets a stopped ingest wait for good, and says that if and when it goes on it is not
FAILED. `ExportJobs!Spec` and `Scores!FairScores` are weakly fair to each background
task: a thread of the server runs it, and what it waits for has a timeout; `FairScores`
also to the start of a server that was stopped. Failures, stops and people are not fair.

What the properties say beyond their comments. `HolderIsInStep` relates a client to the
row it works on: only expiry can turn a live report down. `CompleteMeansVerified` joins
the handler's verdict with the job's state over late and lost requests.
`PublishedIsWhole` and `NeverReplaced` allow one thing: while the partial of a stopped
attempt is still a second name of the published file, that file may grow.
`VerifiedIsSafe` allows it only where it happens to an ingest that is shown VERIFIED:
the partial is of another ingest, whose card changed since its inventory (see 5.1).
`ListingsAreKept` has two halves: a run keeps what it read, and drops nothing but what
others listed since (see 5.4). `JobFindsItsSource` is about the file, which has what the
job needs, and about the copy of the worker, which has it if the worker started after
the submit (see 5.8). `ListedIsVerified` holds although a corrupt file can be published,
because such a file is read back before the manifest lists it. `CatalogIsImported` has
two directions: what an import that is recorded said is there, and what is there some
recorded import said. `CalmRunPutsRight` and `CalmImportTellsTheShare` are about a run
that nobody disturbed, over whatever disturbed ones left before it; the second adds that
an import without hashes never tells AVAILABLE of a file with a mismatch on record.
`SuggestionsCover` holds while the videos keep the order that the analysis saw (see
5.6). It, `RegroupedAsAsked` and `PeopleAgree` except, by history, just the requests
that had read before another one wrote: the code has no protection there, and loses what
it overwrites. What the last two say is therefore of a request that nothing ran into,
and of whether a later one mends what two left. `AnalysisStandsAlone` excepts two runs
that both read before either wrote. `FolderIsAsDecided` has two halves: the files are
those of the request, and each interval was still decided at some time of the run, so a
change before the task starts fails the job. A change after the check is not seen, and
no property claims it is. `OneFolderPerJob` also says that a COMPLETE job has its
folder; the converse is false, for the folder is renamed first, and a stop before the
commit leaves it under an INTERRUPTED job. `ExportsEnd` and `JobsEnd` except a job whose
failure could not be recorded: only a restart ends it.

## 4. What is proved

Eight modules hold the proofs. Five are of one component and have its name, where
`WorkerSession_proofs` has those of `JobLease` too, on which they rest. The others are of
two: `Records_proofs` of `Snapshots` and `Derivatives`, `Gallery_proofs` of `Editorial` and
`Scores`, `Telemetry_proofs` of `MovementJobs` (with `Selects`, which it extends) and
`Segments`; the two do not refer to each other. What is proved holds for every value of the
constants that the named assumption allows. In each module lemmas about data come first,
then what an action does, then lemmas `...Keeps` that preserve the invariant, one per
action and one step per conjunct, then the theorems. TLC checked every invariant on the
instance of its run before it was proved.

**JobLease**, for every set of workers and jobs, lease lengths and bounds
(`LeaseAssumption`):

- `Invariant`: `Spec => []IInv`, where `IInv` is `TypeOK`, `LeaseColumnsAgree`,
  `OneLeasePerWorker`, `IngestMirrorsJob` and `SpentIsBehind`. None of the history would
  be inductive without `SpentIsBehind`, which says that every lease in `over` is an
  earlier attempt than the current one, or the current one once it has ended or expired.
  Each of the first four follows as a theorem of its own. `LeaseColumnsAgree` is what
  makes fencing work: complete, fail and the sweep each clear three columns by hand.
- From `IInv` and one lemma that describes what any step may do to one row
  (`EveryStep`): `SpentTokens`, `RevisionCounts`, `FinishedStays`, `LiveLeaseKept`.
- `ImplementsOwnedWork`: the refinement to `OwnedWork`, by one lemma per kind of step.

**WorkerSession**, for any number of faults and late requests (from `LeaseAssumption` too):

- `SessionIsTable`: every step of the session is a step of the table or leaves it alone
  (`TableSpec`). So all theorems of `JobLease` hold of the session, and two are stated of
  it: `SessionImplementsOwnedWork` and `SessionSpentTokens`.
- `CompleteIsVerified` and `HolderKnows`, that a job is COMPLETE only after the attempt
  that completed it verified its files, and that whoever still holds the row he works on
  knows its revision. Their invariant `SInv` (`SessionInvariant`) follows the lease under
  which a request was made: while the client waits for the answer, it is the lease in
  hand; once it gave up, the lease in hand is another one, for a token is never given
  twice. A late report can therefore change a row only while nobody works under its lease.

**IngestFiles** (`IngestFilesAssumption`, of which the proofs need that `None` is no
datum and no verdict): `PublishedFilesAreWhole`, `VerifiedFilesAreSafe`,
`PublishedFilesStay`, `PartialsStay`. The invariant (`FilesInvariant`) is what an
attempt that goes on may rely on. The items before the current one are in place. A
source that looks as it was inventoried is what was inventoried. And while a published
name and a partial are one file, the partial is of an ingest whose inventory the file
begins with, and that wants no more than anybody who found the same file in place. That
last part holds of all attempts but those whose card changed, and `VerifiedFilesAreSafe`
needs a second invariant (`Bound`) for them: an attempt that has its verdict left no
second name behind (`Released`), and a published file that is more than a VERIFIED
ingest recorded is the partial of another ingest, whose card is not as it was
inventoried any more and never will be (`Outgrown`).

**Organize**, for any number of runs, cards and slots (from its two assumptions; the
second, what a manifest of an earlier time may list, is used for the first state):
`Replacement` and `Partials` need no invariant, for only a rename publishes and only
under a name that is free. `Listing`, `Listings` and `AppliedListed` rest on one: what a
run read of the manifest is published and fits the plan, and what it planned is either
still to be copied or is published. The manifest is written from these two alone, so
what other runs do to it in between does no harm to what it lists. `Listings` needs
another one: what is listed was read by a run at work, or was listed by others since.

**Selects**, for all takes, cuts and bounds (no assumption is needed): `Survival`, which
is `DecisionsSurvive`, and `Implementation`, the refinement to `Selection`. Both rest on
one invariant (`CandidatesInvariant`): a decided candidate is on the list. Without it a
generation could put an included row back, which would change the selection with nobody
deciding.

**MovementJobs**, for any number of requests and takes: `CompleteAnalysed`, `StandsAlone`,
and that `JobsSpec` implements `Spec` of `Selects` (`JobsAreSelects`), with which
`DecisionsSurvive` and `ImplementsSelection` hold of the jobs too. The invariant `JInv`
follows the runs: every take that a run has not left to do was analysed since its job began,
which is more than "each run analyses all" as several runs share a job; and a run that is
not `behind` knows every current analysis of the take it is about to write. `TrackMeets` is
about what an analysis finds: for takes of any length but 0, the segments follow one another
and meet just where the movement changes. `Track` is recursive, and the library's theorems
on induction cannot be used, so the proof takes a least number of windows without such a
function, or with a track that is none, and shows that the number before it is one too.

**ExportJobs**, for any numbered candidates, cuts and requests (`ExportAssumption`): `FoldersAreAsDecided` and
`JobsLeaveOneFolder`. Several tasks may hold one job, but only the one that found it
PENDING works on it. The invariant (`ExportInvariant`) says so, and what that task has
picked and made so far: all of it is as asked for, was decided at some time of the run and
is of the registered original, except the file it is about to look at again, of which it
says that it is right or its original is gone for good. That is where the second hash
is needed.

**Snapshots**, for any submits, confirmations and paths (no assumption is needed):
`JobsFindTheirSource` and `InventoriesAreIngestedOnce`. There are three copies of an
inventory, and the invariant (`SnapshotInvariant`) ties them together: the server has of
a run exactly what the run has not left to upload, so what is finalized is whole; an
entry of the worker's file, or of the copy a worker has of it, is the inventory of its
run; and a run is in that file before it uploads, or is one of the `crossed`, so that a
worker that starts has all that is finalized then (`met`).

**Catalog**, for any importers, manifests, files and edits (`CatalogAssumption`): `ImportsAreWhole`
(`CatalogIsImported`), `WordsAreLeftAlone`, `CalmImportIsTrue`. Rows are never deleted and
what an asset is registered with never changes. Thus what a run has loaded may be stale in
words, flags and states of files, but not in what its conflicts were decided by; only that
there was no row yet may be stale, and then the unique columns refuse the write. The
invariant (`CatalogInvariant`) says this of every run, and of a calm one also that what it
found of the files is so, what it loaded of them is on record, and what it plans after a
mismatch is not AVAILABLE unless it hashed the file (`Kept`).

**Editorial**, for any number of requests and any finite set of numbered videos
(`EditorialAssumption`): `SuggestionsAreWhole`, `PeopleAreTheSame`, `GroupsAreAsAsked`. The
invariant (`EditorialInvariant`) says that a request that is not `behind` has loaded what
is there, and that groups and suggestions are named after requests that are done, so what
a request makes is its own. That the ranges of an analysis cover every video just once
needs the first and the last video of each run in the order that the analysis read, and
that finite sets of numbers have extremes, which the library's theorem on minima gives
without induction. The page lays them out in another order, perhaps; between two ends that
the analysis read, the two orders have the same of its videos while they agree on these.

**Derivatives**, for any number of runs, derivatives, originals and changes
(`DerivativeAssumption`): `ReadyAreThere` (`ReadyHasAFile`) and `CalmRunIsTrue`
(`CalmRunPutsRight`). The invariant (`DerivativeInvariant`) has a part for every run and
one for calm ones. Whatever others do, what a run holds is of its item, which it has not
left yet; what it rendered is of an original; and when it is about to commit there is a
file under the name. That suffices for the first: a run that was overtaken may commit a row
that is not of the file, but never one without a file. A calm run knows besides what is
available, has loaded the row and hashed the original as they are, and every item it has
left tells the truth, or is among the failed, whose rows say ERROR.

**Scores**, for any number of requests, videos, profiles, changes, failures and stops
(`ScoresAssumption`): `RankingIsCurrent` (`FreshIsCurrent`) and `OneScoreJob`
(`OneActiveScoreJob`). The invariant (`ScoresInvariant`) is about the lock: whoever has
asked for the active jobs of a profile, or has found a job pending, holds it until he has
written, so that what he found is still so. Without that part neither "one active job of a
profile" nor "one run computes a job" is inductive. And what a run has scored so far was
computed from the inputs it began with, with which the complete job is signed.

**Segments**, for any number of runs, exports and flights, and any step, hold, lead-in
and tolerance (`SegmentsAssumption`): `FilesFollow` (`FilesFollowTheFlight`) and
`FilesAreKept` (`NothingIsOverwritten`). The invariant (`SegmentsInvariant`) says that
what is planned and written is the content that follows from one flight, and that a file
which a run is about to fill is as that run created it, or as a person saved it since:
no other run's. What remains is about data: that a slice says of each moment what the
track says there, within the segment; that what a trim keeps begins with the first held
motion and ends with the last; and that the parts of a project cover its video just
once. These are proved for every flight, which needs that a finite set of numbers has a
least and a greatest element, and nothing of recursion, as a slice is a function over
the numbers of the samples that it keeps.

Only model-checked: the four liveness properties (`PendingIsTaken`, `StopsAreSurvived`,
`ExportsEnd`, `JobsEnd`), as reasoning under fairness and ENABLED is beyond the prover.
Every other property that a run checks is stated by a theorem.

## 5. Where the code and its documents differ

Each of these is in the models, which follow the code; no property claims what the
document says. Paths are relative to `src`.

1. `Docs/operations/safe-ingest.md:47-49`: what is interrupted "preserva parciais e arquivos
   já verificados", and a change of size, time or identity "nunca alcança `VERIFIED`". A
   worker that stops between `os.link` and `unlink` (`ingest/promote.py:30-37`) leaves a
   partial that is the published file. If the file of its card has grown when the job runs
   again, the partial is a prefix of it and `ingest/copy.py:55-65` appends to both names,
   though another ingest that had the same file is shown VERIFIED; then the verification of
   the attempt fails, and the published file stays as it grew. `VerifiedIsSafe` states just this
   exception. In the program as it is the second attempt needs a caller of
   `JobRepository.reconcile`.
2. `Docs/operations/safe-ingest.md:42-43`: INTERRUPTED can be resumed, "após a reconciliação
   do lease". An ingest whose source or share went away is shown so, but its job is FAILED
   and no operation runs it again (`api/routes/jobs.py:246-252`); and nothing calls the
   reconciliation of one that stopped (`jobs/repository.py:270`, which
   `Docs/ANALISE_CODEBASE_2026-09-24.md:346` notes).
3. `Docs/superpowers/specs/2026-09-21-distributed-drone-media-manager-design.md:165`: jobs
   become interrupted after their lease expires. They do when the server starts
   (`jobs/recovery.py`), and until then the worker is refused every other job.
   `PendingIsTaken` says what is left of it.
4. `Docs/operations/windows-organize.md:33-34`: APPLY verifies, then promotes. Two applies
   of one card share a partial, so what is renamed need not be what was hashed. It is read
   back before it is listed (`ListedIsVerified`). Two applies of one trip also write the
   manifest without a lock: the second drops what the first listed, or, given another
   `--poi`, lists the same assets in another folder (`organize.py:684-735`).
   `ListingsAreKept` says that no more than that is lost, and the files stay.
5. `tests/integration/test_catalog_import.py:457` (its name): a known mismatch is cleared
   by a new hash alone. An import that finds the file missing forgets the mismatch, and
   the next one without hashes calls the file available again
   (`catalog/importer.py:327-341`). What holds without that detour is in
   `CalmImportTellsTheShare`.
6. `Docs/operations/grouping.md:17-22` and
   `db/migrations/versions/0008_capture_time.py:16`: suggestions of before a change of the
   order are withdrawn, for their ends refer to the order of before. The migration does it
   once; every import rewrites the times of capture (`catalog/importer.py:467`) and
   withdraws none, so after one that changes the order the ranges are not what was
   suggested until the next analysis (`InOrder` in `SuggestionsCover`). And line 33 of the
   same page says that an execution marks the earlier suggestions as replaced: two that run
   into each other leave those of both, and the page adds them up
   (`grouping/repository.py:241-247`; `last.missed`).
7. A run of `dmm-segments` that stops between the creation of a sidecar and its text
   leaves an empty file, which later runs report as EXISTS (`segments/sidecar.py:272`).
8. A worker reads the registrations once (`worker/snapshots.py:36-40`, `cli/worker.py:173`,
   `200`). What is submitted while it runs it does not find: the `KeyError`
   (`worker/snapshots.py:52-54`) ends the process, as
   `Docs/ANALISE_CODEBASE_2026-09-24.md:336` (C3) and `402` (M13) say of other causes, and
   the job stays LEASED (`Miss` in `Snapshots`).
9. The except branch of an export writes to the same database
   (`selects/repository.py:555-565`). If that fails, the job stays RUNNING, and new requests
   are given it, until a restart (`lost` in `ExportsEnd`). It does not look at the row, so a
   second task of a job that fails before it has the job marks one FAILED that another task
   works on, or that is COMPLETE; the working one then writes COMPLETE over FAILED.

## 6. Not modelled

Whole components: browser sessions and the login throttle (a row with an expiry, and a
counter in memory); triage (moves of one process in a local folder); downloads, gallery
and read-only routes (no state, or a set of ids); command lines, configuration, logging,
progress; backup and migrations, which are the library's work; ingest helpers that
nothing reaches.

Within the modelled ones: texts of requests, audit rows, response bodies, paths and slugs
beyond what tells two files apart, TLS and credentials; tags, ratings and free text,
which are written as the people of a video are; names that are looked up for places; the
parsing of telemetry and the probing of videos; the numbers of scores, the choice of
takes and the thresholds of movements. Disk full and permission errors are among the
stops. A lapsed snapshot is only shown as such, and the exception that reports it takes
the status back (`api/routes/ingests.py:81`). The status of a worker is only shown, and
stays BUSY after the sweep took its job (`jobs/recovery.py:29`). `Catalog` leaves the time
of capture out, which an import rewrites; what that does to the order is in `Editorial`.

Left to chance in the code, and in the models as a choice: which of two originals a
derivative was rendered from when one is replaced between hash and rendering
(`derivatives/service.py:232`, `259`); whether the telemetry is that of the video as it
is (`grouping/repository.py:209` reads without a hash).

## 7. Plan

Done: models of all components of the table in 1 but its last row; the proofs of 4, which
state all 36 properties of the runs that are not liveness.

Left: nothing that is planned. When the code changes, `PROJECT.json` tells which definitions
stand for the changed lines; the run of their component says whether the properties still
hold on its instance, and the proofs whether they hold on all.
