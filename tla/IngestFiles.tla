----------------------------- MODULE IngestFiles -----------------------------
(***************************************************************************)
(* The files of the distributed ingest: the handler of worker/handlers/    *)
(* ingest.py with the copy, verification, promotion and manifest it calls, *)
(* against source cards that are edited or unplugged at any moment, other  *)
(* ingests that publish under the same names, and a worker that may stop   *)
(* between any two steps and is started again on the same job.             *)
(*                                                                         *)
(* A final name belongs to the trip and a partial to the ingest.  os.link  *)
(* publishes: until the partial is unlinked both names are one file, which *)
(* link records.                                                           *)
(***************************************************************************)
EXTENDS CopyEngine, FiniteSets

CONSTANTS
  Ingests,     \* the ingests of one trip
  None,        \* no file, no snapshot, no verdict
  Cards,       \* source volumes
  CardOf,      \* CardOf[i]: the card ingest i reads
  ItemCount,   \* how many relative paths every card has
  FirstData,   \* FirstData[c][f]: what the card holds when it is plugged in
  Blocks,      \* what a block may hold
  NewBlocks,   \* what a block that somebody writes later holds
  MaxEdits,    \* bound of the changes of the cards
  MaxCrashes   \* bound of the stops of a worker

Items == 1..ItemCount   \* the relative paths, in payload order
Verdicts == {"VERIFIED", "INTERRUPTED", "FAILED"}

ASSUME IngestFilesAssumption ==
  /\ CardOf \in [Ingests -> Cards]
  /\ ItemCount \in Nat \ {0}
  /\ FirstData \in [Cards -> [Items -> Seq(Blocks)]]
  /\ NewBlocks \subseteq Blocks
  /\ None \notin Ingests \cup Verdicts /\ None \notin Seq(Blocks)
  /\ MaxEdits \in Nat /\ MaxCrashes \in Nat

VARIABLES
  card,      \* card[c]: whether it is plugged in, and its files
  snap,      \* snap[i]: the inventory that was registered, or None
  claimed,   \* claimed[i]: the job of ingest i is PENDING no more
  part,      \* part[i][f]: the partial of item f, or None
  final,     \* final[f]: the published file, or None
  link,      \* link[f]: the ingest whose partial is the same file as final[f], or None
  manifest,  \* manifest[i]: the hashes it lists, or None
  proc,      \* proc[i]: the attempt at ingest i
  result,    \* result[i]: the verdict the control plane accepted, or None
  edits, crashes

vars == <<card, snap, claimed, part, final, link, manifest, proc, result, edits, crashes>>
disk == <<part, final, link, manifest>>
world == <<card, snap, claimed, edits, crashes>>

Places == {"idle", "stat", "resume", "copy", "hash", "compare", "promote", "unlink",
           "manifest", "report"}

Idle == [at |-> "idle", item |-> 1, initial |-> None, hasher |-> <<>>, source |-> <<>>,
         listed |-> <<>>, verdict |-> None]

\* Ingest i is at place p of its current item.
At(i, p) == proc[i].at = p
ItemOf(i) == proc[i].item
Source(i) == card[CardOf[i]].files[ItemOf(i)]
Plugged(i) == card[CardOf[i]].plugged
Expected(i) == SourceStat(snap[i][ItemOf(i)])
Partial(i) == part[i][ItemOf(i)]

Goes(i, row) == proc' = [proc EXCEPT ![i] = row]
Step(i, p) == Goes(i, [proc[i] EXCEPT !.at = p])
Returns(i, v) == Goes(i, [proc[i] EXCEPT !.at = "report", !.verdict = v])

\* The item is done: its hash goes into the payload, and the loop goes on.
NextItem(i) ==
  LET last == ItemOf(i) = ItemCount IN
  Goes(i, [Idle EXCEPT !.at = IF last THEN "manifest" ELSE "stat",
                       !.item = IF last THEN ItemOf(i) ELSE ItemOf(i) + 1,
                       !.listed = Append(proc[i].listed, proc[i].source)])

-----------------------------------------------------------------------------
(* The handler *)

Init ==
  /\ card = [c \in Cards |->
               [plugged |-> TRUE,
                files |-> [f \in Items |-> [data |-> FirstData[c][f], version |-> 0]]]]
  /\ snap = [i \in Ingests |-> None]
  /\ claimed = [i \in Ingests |-> FALSE]
  /\ part = [i \in Ingests |-> [f \in Items |-> None]]
  /\ final = [f \in Items |-> None]
  /\ link = [f \in Items |-> None]
  /\ manifest = [i \in Ingests |-> None]
  /\ proc = [i \in Ingests |-> Idle]
  /\ result = [i \in Ingests |-> None]
  /\ edits = 0 /\ crashes = 0

Inventory(files) == [f \in Items |-> SourceStat(files[f])]

\* A snapshot is submitted and confirmed; the same inventory yields the same ingest.
Confirm(i) ==
  /\ snap[i] = None
  /\ Plugged(i)
  /\ \A k \in Ingests : CardOf[k] = CardOf[i] /\ snap[k] # None
                          => Inventory(snap[k]) # Inventory(card[CardOf[i]].files)
  /\ snap' = [snap EXCEPT ![i] = card[CardOf[i]].files]
  /\ UNCHANGED <<card, claimed, disk, proc, result, edits, crashes>>

\* A worker claims the job.
Begin(i) ==
  /\ snap[i] # None /\ ~claimed[i] /\ result[i] = None /\ At(i, "idle")
  /\ claimed' = [claimed EXCEPT ![i] = TRUE]
  /\ Step(i, "stat")
  /\ UNCHANGED <<card, snap, edits, crashes, disk, result>>

\* The attempt at ingest i has stopped without a verdict.
Waits(i) == claimed[i] /\ At(i, "idle") /\ result[i] = None

\* A job whose attempt stopped is made PENDING again.  No route or command does so.
Reconcile(i) ==
  /\ Waits(i)
  /\ claimed' = [claimed EXCEPT ![i] = FALSE]
  /\ UNCHANGED <<card, snap, edits, crashes, disk, proc, result>>

\* The card is gone: copy_or_resume raises what execute does not catch.
SourceGone(i) ==
  /\ proc[i].at \in {"stat", "resume", "copy"}
  /\ ~Plugged(i)
  /\ Goes(i, Idle)
  /\ UNCHANGED <<world, disk, result>>

StatSource(i) ==
  /\ At(i, "stat") /\ Plugged(i)
  /\ Goes(i, [proc[i] EXCEPT !.at = "resume", !.initial = SourceStat(Source(i))])
  /\ UNCHANGED <<world, disk, result>>

\* An existing partial is continued if it agrees with the source, and kept if not.
Resume(i) ==
  /\ At(i, "resume") /\ Plugged(i)
  /\ \/ /\ Partial(i) = None
        /\ Goes(i, [proc[i] EXCEPT !.at = "copy", !.hasher = <<>>])
        /\ part' = [part EXCEPT ![i][ItemOf(i)] = <<>>]
     \/ /\ Partial(i) # None
        /\ PrefixAgrees(Partial(i), Source(i))
        /\ Goes(i, [proc[i] EXCEPT !.at = "copy", !.hasher = Partial(i)])
        /\ UNCHANGED part
     \/ /\ Partial(i) # None
        /\ ~PrefixAgrees(Partial(i), Source(i))
        /\ Returns(i, "FAILED")
        /\ UNCHANGED part
  /\ UNCHANGED <<world, final, link, manifest, result>>

\* One block is read, appended and fsynced; a published partial grows under both names.
CopyBlock(i) ==
  /\ At(i, "copy") /\ Plugged(i)
  /\ MoreToRead(Source(i), Len(proc[i].hasher))
  /\ LET block == BlockAt(Source(i), Len(proc[i].hasher)) IN
       /\ Goes(i, [proc[i] EXCEPT !.hasher = Append(@, block)])
       /\ part' = [part EXCEPT ![i][ItemOf(i)] = Append(@, block)]
       /\ final' = [final EXCEPT ![ItemOf(i)] =
                      IF link[ItemOf(i)] = i THEN Append(@, block) ELSE @]
  /\ UNCHANGED <<world, link, manifest, result>>

\* The source looks as it did when the copy began.
Unchanged(i) == SourceStat(Source(i)) = proc[i].initial

EndCopy(i) ==
  /\ At(i, "copy") /\ Plugged(i)
  /\ ~MoreToRead(Source(i), Len(proc[i].hasher))
  /\ IF Unchanged(i) THEN Step(i, "hash") ELSE Returns(i, "INTERRUPTED")
  /\ UNCHANGED <<world, disk, result>>

\* Faulty variant: the source is hashed whatever the inventory said of it.
AnySource(i) == TRUE
AsInventoried(i) == SourceStat(Source(i)) = Expected(i)

\* verify_copy hashes the source between two looks at it.
HashSource(i) ==
  /\ At(i, "hash")
  /\ \/ ~Plugged(i) /\ Returns(i, "INTERRUPTED")
     \/ Plugged(i) /\ ~AsInventoried(i) /\ Returns(i, "FAILED")
     \/ /\ Plugged(i) /\ AsInventoried(i)
        /\ Goes(i, [proc[i] EXCEPT !.at = "compare", !.source = Source(i).data])
  /\ UNCHANGED <<world, disk, result>>

\* The three hashes: of what was copied, of the source and of the partial.
AllMatch(i) == proc[i].source = proc[i].hasher /\ Partial(i) = proc[i].source

Compare(i) ==
  /\ At(i, "compare")
  /\ \/ ~Plugged(i) /\ Returns(i, "INTERRUPTED")
     \/ Plugged(i) /\ ~(AsInventoried(i) /\ AllMatch(i)) /\ Returns(i, "FAILED")
     \/ Plugged(i) /\ AsInventoried(i) /\ AllMatch(i) /\ Step(i, "promote")
  /\ UNCHANGED <<world, disk, result>>

\* The partial of the current item is removed; the file it shared keeps its other name.
Unlinked(i) ==
  /\ part' = [part EXCEPT ![i][ItemOf(i)] = None]
  /\ link' = [link EXCEPT ![ItemOf(i)] = IF @ = i THEN None ELSE @]

\* Faulty variant: whatever has the name is replaced.
NobodyThere(i) == TRUE
NameIsFree(i) == final[ItemOf(i)] = None

\* Faulty variant: a file of that name is taken for the same file.
AnyFile(i) == TRUE
Identical(i) == final[ItemOf(i)] = Partial(i)

Promote(i) ==
  /\ At(i, "promote")
  /\ \/ /\ NameIsFree(i)
        /\ final' = [final EXCEPT ![ItemOf(i)] = Partial(i)]
        /\ link' = [link EXCEPT ![ItemOf(i)] = i]
        /\ Step(i, "unlink")
        /\ UNCHANGED part
     \/ /\ ~NameIsFree(i) /\ Identical(i)
        /\ Unlinked(i) /\ NextItem(i)
        /\ UNCHANGED final
     \/ /\ ~NameIsFree(i) /\ ~Identical(i)
        /\ Returns(i, "FAILED")
        /\ UNCHANGED <<part, final, link>>
  /\ UNCHANGED <<world, manifest, result>>

Unlink(i) ==
  /\ At(i, "unlink")
  /\ Unlinked(i) /\ NextItem(i)
  /\ UNCHANGED <<world, final, manifest, result>>

\* Written to a private name and linked, so it is there whole or not at all.
WriteManifest(i) ==
  /\ At(i, "manifest")
  /\ manifest' = [manifest EXCEPT ![i] = IF @ = None THEN proc[i].listed ELSE @]
  /\ Returns(i, IF manifest'[i] = proc[i].listed THEN "VERIFIED" ELSE "FAILED")
  /\ UNCHANGED <<world, part, final, link, result>>

\* The verdict reaches the control plane, which keeps it: a failed job is not run again.
Report(i) ==
  /\ At(i, "report")
  /\ result' = [result EXCEPT ![i] = proc[i].verdict]
  /\ Goes(i, Idle)
  /\ UNCHANGED <<world, disk>>

\* The worker stops, the share goes away or the lease is lost, at any point.
Crash(i) ==
  /\ ~At(i, "idle")
  /\ crashes < MaxCrashes
  /\ crashes' = crashes + 1
  /\ Goes(i, Idle)
  /\ UNCHANGED <<card, snap, claimed, edits, disk, result>>

\* The share goes away while the partial is read back, and the handler notices.
ShareGone(i) ==
  /\ At(i, "compare")
  /\ crashes < MaxCrashes
  /\ crashes' = crashes + 1
  /\ Returns(i, "INTERRUPTED")
  /\ UNCHANGED <<card, snap, claimed, edits, disk, result>>

\* Somebody records over a file, lets it grow, or unplugs the card and plugs it in again.
Edit(c) ==
  /\ edits < MaxEdits
  /\ edits' = edits + 1
  /\ \/ /\ card[c].plugged
        /\ \E f \in Items, b \in NewBlocks :
             LET old == card[c].files[f].data IN
             \E new \in {Append(old, b), Append(SubSeq(old, 2, Len(old)), b)} :
               card' = [card EXCEPT ![c].files[f] = [data |-> new, version |-> @.version + 1]]
     \/ card' = [card EXCEPT ![c].plugged = ~@]
  /\ UNCHANGED <<snap, claimed, disk, proc, result, crashes>>

Attempt(i) ==
  \/ Begin(i) \/ SourceGone(i) \/ StatSource(i) \/ Resume(i) \/ CopyBlock(i) \/ EndCopy(i)
  \/ HashSource(i) \/ Compare(i) \/ Promote(i) \/ Unlink(i) \/ WriteManifest(i) \/ Report(i)

Next ==
  \/ \E i \in Ingests : Attempt(i) \/ Confirm(i) \/ Reconcile(i) \/ Crash(i) \/ ShareGone(i)
  \/ \E c \in Cards : Edit(c)

\* A worker claims what is PENDING and gets on with it.  Nobody has to reconcile a job.
Spec == Init /\ [][Next]_vars /\ \A i \in Ingests : WF_vars(Attempt(i))

-----------------------------------------------------------------------------
(* Properties *)

File == [data : Seq(Blocks), version : Nat]

\* What has a final name is whole: it is the file some inventory recorded, never a part of
\* one or a mixture of two.  Only while the partial of a stopped attempt still names the
\* same file may it have grown beyond that.
PublishedIsWhole ==
  \A f \in Items : final[f] # None =>
    \E i \in Ingests : /\ snap[i] # None
                       /\ IsPrefix(snap[i][f].data, final[f])
                       /\ link[f] = None => final[f] = snap[i][f].data

\* The card of the ingest whose partial is the file named f changed since its inventory.
CardChanged(k, f) == SourceStat(card[CardOf[k]].files[f]) # SourceStat(snap[k][f])

\* When the control plane shows an ingest VERIFIED, its manifest and every file of its
\* inventory are in place, whatever becomes of its own card and of other ingests.  There is
\* one exception, and a file in it begins with what was verified: another ingest stopped
\* between the link and the unlink of this name, its card grew, and it went on with its
\* partial, which is the published file.
VerifiedIsSafe ==
  \A i \in Ingests : result[i] = "VERIFIED" =>
    /\ manifest[i] = [f \in Items |-> snap[i][f].data]
    /\ \A f \in Items :
         /\ final[f] # None /\ IsPrefix(snap[i][f].data, final[f])
         /\ final[f] # snap[i][f].data =>
              \E k \in Ingests \ {i} :
                link[f] = k /\ final[f] = part[k][f] /\ CardChanged(k, f)

\* No step takes a published file away or changes a byte of it.  Only between the link and
\* the unlink of its promotion, while a partial is the same file, can an attempt that goes on
\* with that partial append to it.
NeverReplaced ==
  [][\A f \in Items : final[f] # None =>
       /\ final'[f] # None
       /\ IsPrefix(final[f], final'[f])
       /\ final'[f] # final[f] =>
            link[f] # None /\ final[f] = part[link[f]][f] /\ final'[f] = part'[link[f]][f]]_vars

\* A partial is removed only when the final name holds the same bytes: failures,
\* conflicts and interruptions leave it for the next attempt or for diagnosis.
PartialsAreKept ==
  [][\A i \in Ingests, f \in Items :
       part[i][f] # None /\ part'[i][f] = None => final[f] = part[i][f]]_vars

\* Two ingests want different data under one name.
Contested(i) ==
  \E k \in Ingests, f \in Items :
    snap[i] # None /\ snap[k] # None /\ snap[k][f].data # snap[i][f].data

\* Every attempt comes to its end, and a stop costs only time: an ingest whose card nobody
\* touches and whose names nobody else claims is VERIFIED in the end, or INTERRUPTED if the
\* share went away, or waits, as its worker left it, for somebody to reconcile its job.  However
\* often that happens, it is not FAILED.
StopsAreSurvived ==
  \A i \in Ingests :
    snap[i] # None ~> \/ result[i] \in {"VERIFIED", "INTERRUPTED"} \/ Waits(i)
                      \/ edits > 0 \/ Contested(i)
=============================================================================
