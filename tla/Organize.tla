------------------------------- MODULE Organize -------------------------------
(***************************************************************************)
(* dmm-organize (organize.py): processes that plan and apply the           *)
(* publication of a source card under one trip of the shared OMV root,     *)
(* with no server and no lock between them.  Each may be stopped at any    *)
(* point and started again; the card may be edited meanwhile.              *)
(*                                                                         *)
(* The host is Windows: a file that somebody has open for writing can      *)
(* neither be renamed nor removed, and a rename does not replace a file.   *)
(***************************************************************************)
EXTENDS CopyEngine, FiniteSets

CONSTANTS
  Runs,          \* processes
  Cards, CardOf, \* CardOf[r]: the source of run r
  SlotCount,     \* how many media files a card has
  PrimaryOf,     \* PrimaryOf[s]: the slot of the video whose SRT slot s is, or s itself
  FirstData,     \* FirstData[c][s]: what slot s of card c holds at first
  NewBlocks,     \* what a block that somebody writes later holds
  Folders,       \* the slugs --poi may give
  NoPoi,         \* --poi was not given
  PoiOf,         \* PoiOf[r]: the --poi of run r
  Default,       \* the folder "a-classificar"
  FirstManifests,\* what MANIFESTO.json may hold at first; what it lists is published
  MaxEdits

ASSUME OrganizeAssumption ==
  /\ CardOf \in [Runs -> Cards]
  /\ PoiOf \in [Runs -> Folders \cup {NoPoi}]
  /\ Default \in Folders
  /\ SlotCount \in Nat \ {0}
  /\ PrimaryOf \in [1..SlotCount -> 1..SlotCount]
  /\ MaxEdits \in Nat

ASSUME ManifestAssumption ==
  \A m \in FirstManifests :
    /\ \A n \in m.assets : n = [path |-> n.path, data |-> n.data]
    /\ \A n, o \in m.assets : n.path = o.path => n = o

VARIABLES
  card,      \* card[c][s]: the file in slot s of card c
  part,      \* the partial files: name -> data
  final,     \* the published files: name -> data
  manifest,  \* MANIFESTO.json of the trip
  run,       \* run[r]: the process
  meanwhile, \* history: meanwhile[r] was listed by others since r read the manifest
  edits

vars == <<card, part, final, manifest, run, meanwhile, edits>>
disk == <<part, final, manifest>>

Slots == 1..SlotCount
\* MANIFESTO.json is not there.
NoManifest == [scheme |-> "none", assets |-> {}]
Places == {"down", "read", "check", "stat", "resume", "open", "copy", "verify", "place",
           "rename", "reread", "merge", "APPLIED", "CONFLICT", "ERROR"}
Ended == {"down", "APPLIED", "CONFLICT", "ERROR"}

\* An asset is a photo or a video with its SRT, and has the card, the slot and the data of
\* that photo or video for its id: its files' names lie in the folder of the run and carry it.
\* What is planned or listed of a file is its name and its hash.
Path(folder, c, s, id) == [folder |-> folder, card |-> c, slot |-> s, id |-> id]
File(path, data) == [path |-> path, data |-> data]
SameAsset(n, m) ==
  /\ n.path.card = m.path.card /\ n.path.id = m.path.id
  /\ PrimaryOf[n.path.slot] = PrimaryOf[m.path.slot]

Down == [at |-> "down", item |-> 1, scheme |-> "neutral-v1", files |-> <<>>, stats |-> <<>>,
         old |-> {}, conflict |-> FALSE, todo |-> {}, created |-> FALSE,
         initial |-> <<>>, hasher |-> <<>>]

At(r, p) == run[r].at = p
FileOf(r) == run[r].files[run[r].item]
NameOf(r) == FileOf(r).path
Source(r) == card[CardOf[r]][run[r].item]
Opened(r, n) == At(r, "copy") /\ NameOf(r) = n
OpenedByOther(r, n) == \E q \in Runs \ {r} : Opened(q, n)

Goes(r, row) == run' = [run EXCEPT ![r] = row]
Step(r, p) == Goes(r, [run[r] EXCEPT !.at = p])
Without(f, n) == [m \in DOMAIN f \ {n} |-> f[m]]
With(f, n, data) == [m \in DOMAIN f \cup {n} |-> IF m = n THEN data ELSE f[m]]

Listed == manifest.assets

\* The first slot from s on that is still to be copied; the manifest comes after the last.
Onward(row, s) ==
  LET left == {t \in row.todo : t >= s} IN
  IF left = {} THEN {[row EXCEPT !.at = "merge"]}
  ELSE {[row EXCEPT !.at = "stat", !.item = t] : t \in {u \in left : \A v \in left : u <= v}}

GoesOnward(r, row, s) == \E next \in Onward(row, s) : Goes(r, next)

-----------------------------------------------------------------------------
(* PLAN *)

Init ==
  /\ card = [c \in Cards |-> [s \in Slots |-> [data |-> FirstData[c][s], version |-> 0]]]
  /\ manifest \in FirstManifests
  /\ part = <<>>
  /\ final = [p \in {n.path : n \in Listed} |-> (CHOOSE n \in Listed : n.path = p).data]
  /\ run = [r \in Runs |-> Down]
  /\ meanwhile = [r \in Runs |-> {}]
  /\ edits = 0

SchemeNow == IF manifest = NoManifest THEN "neutral-v1" ELSE manifest.scheme

\* A trip of the old scheme keeps the folder of its assets unless --poi is given.
FoldersFor(r) ==
  IF PoiOf[r] # NoPoi THEN {PoiOf[r]}
  ELSE IF SchemeNow = "legacy" /\ Listed # {} THEN {n.path.folder : n \in Listed}
  ELSE {Default}

FileAt(c, folder, s) ==
  File(Path(folder, c, s, card[c][PrimaryOf[s]].data), card[c][s].data)

\* Every file is hashed between two equal looks at it, and named.
Plan(r) ==
  /\ run[r].at \in Ended
  /\ \E folder \in FoldersFor(r) :
       LET c == CardOf[r] IN
       Goes(r, [Down EXCEPT !.at = "read", !.scheme = SchemeNow,
                            !.files = [s \in Slots |-> FileAt(c, folder, s)],
                            !.stats = [s \in Slots |-> SourceStat(card[c][s])]])
  /\ UNCHANGED <<card, disk, meanwhile, edits>>

-----------------------------------------------------------------------------
(* APPLY *)

Planned(r) == {run[r].files[s] : s \in Slots}
PathsOf(asset, files) == {n.path : n \in {o \in files : SameAsset(o, asset)}}

\* Faulty variant: a published asset may be published again elsewhere.
CompatibleAnywhere(r) == manifest = NoManifest \/ manifest.scheme = run[r].scheme
\* The manifest is of this trip, and has the planned assets it lists where they are planned.
Compatible(r) ==
  \/ manifest = NoManifest
  \/ /\ manifest.scheme = run[r].scheme
     /\ \A m \in Planned(r) : PathsOf(m, Listed) \in {{}, PathsOf(m, Planned(r))}

ReadManifest(r) ==
  /\ At(r, "read")
  /\ Goes(r, [run[r] EXCEPT !.at = "check", !.conflict = ~Compatible(r),
                            !.old = Listed])
  /\ meanwhile' = [meanwhile EXCEPT ![r] = {}]
  /\ UNCHANGED <<card, disk, edits>>

There(r) == NameOf(r) \in DOMAIN final

\* Faulty variant: a file of that name is good enough.
AnyThere(r) == There(r)
AlreadyOk(r) == There(r) /\ final[NameOf(r)] = FileOf(r).data

\* The destination and the source of one planned file; conflicts end the run after the last.
Check(r) ==
  /\ At(r, "check")
  /\ LET s == run[r].item
         row == [run[r] EXCEPT
                   !.conflict = \/ @
                                \/ There(r) /\ ~AlreadyOk(r)
                                \/ SourceStat(Source(r)) # run[r].stats[s],
                   !.todo = IF AlreadyOk(r) THEN @ ELSE @ \cup {s}]
     IN \/ s < SlotCount /\ Goes(r, [row EXCEPT !.item = s + 1])
        \/ s = SlotCount /\ row.conflict /\ Goes(r, [row EXCEPT !.at = "CONFLICT"])
        \/ s = SlotCount /\ ~row.conflict /\ GoesOnward(r, row, 1)
  /\ UNCHANGED <<card, disk, meanwhile, edits>>

StatSource(r) ==
  /\ At(r, "stat")
  /\ Goes(r, [run[r] EXCEPT !.at = "resume", !.initial = SourceStat(Source(r))])
  /\ UNCHANGED <<card, disk, meanwhile, edits>>

Resume(r) ==
  /\ At(r, "resume")
  /\ Step(r, IF NameOf(r) \in DOMAIN part /\ ~PrefixAgrees(part[NameOf(r)], Source(r))
             THEN "ERROR" ELSE "open")
  /\ UNCHANGED <<card, disk, meanwhile, edits>>

\* The size and hash of what is there, and the handle that appends to it.
Open(r) ==
  /\ At(r, "open")
  /\ LET sofar == IF NameOf(r) \in DOMAIN part THEN part[NameOf(r)] ELSE <<>> IN
       /\ Goes(r, [run[r] EXCEPT !.at = "copy", !.hasher = sofar])
       /\ part' = With(part, NameOf(r), sofar)
  /\ UNCHANGED <<card, final, manifest, meanwhile, edits>>

CopyBlock(r) ==
  /\ At(r, "copy")
  /\ MoreToRead(Source(r), Len(run[r].hasher))
  /\ LET block == BlockAt(Source(r), Len(run[r].hasher)) IN
       /\ Goes(r, [run[r] EXCEPT !.hasher = Append(@, block)])
       /\ part' = [part EXCEPT ![NameOf(r)] = Append(@, block)]
  /\ UNCHANGED <<card, final, manifest, meanwhile, edits>>

CopiedAsPlanned(r) ==
  SourceStat(Source(r)) = run[r].initial /\ run[r].hasher = FileOf(r).data

EndCopy(r) ==
  /\ At(r, "copy")
  /\ ~MoreToRead(Source(r), Len(run[r].hasher))
  /\ Step(r, IF CopiedAsPlanned(r) THEN "verify" ELSE "ERROR")
  /\ UNCHANGED <<card, disk, meanwhile, edits>>

PartialIsGood(r) == NameOf(r) \in DOMAIN part /\ part[NameOf(r)] = FileOf(r).data

Verify(r) ==
  /\ At(r, "verify")
  /\ Step(r, IF PartialIsGood(r) THEN "place" ELSE "ERROR")
  /\ UNCHANGED <<card, disk, meanwhile, edits>>

\* The partial can be taken away: it is there and no other process has it open.
Movable(r) == NameOf(r) \in DOMAIN part /\ ~OpenedByOther(r, NameOf(r))

\* The name was taken meanwhile: by the same file, and the partial goes, or by another.
Place(r) ==
  /\ At(r, "place")
  /\ \/ ~There(r) /\ Step(r, "rename") /\ UNCHANGED part
     \/ /\ AlreadyOk(r) /\ Movable(r)
        /\ part' = Without(part, NameOf(r))
        /\ GoesOnward(r, run[r], run[r].item + 1)
     \/ There(r) /\ ~(AlreadyOk(r) /\ Movable(r)) /\ Step(r, "ERROR") /\ UNCHANGED part
  /\ UNCHANGED <<card, final, manifest, meanwhile, edits>>

NameIsFree(r) == ~There(r)

Rename(r) ==
  /\ At(r, "rename")
  /\ IF NameIsFree(r) /\ Movable(r)
     THEN /\ final' = With(final, NameOf(r), part[NameOf(r)])
          /\ part' = Without(part, NameOf(r))
          /\ Goes(r, [run[r] EXCEPT !.at = "reread", !.created = TRUE])
     ELSE Step(r, "ERROR") /\ UNCHANGED <<part, final>>
  /\ UNCHANGED <<card, manifest, meanwhile, edits>>

\* Faulty variant: what was published is not read back.
NotReread(r) == TRUE
PublishedIsGood(r) == final[NameOf(r)] = FileOf(r).data

Reread(r) ==
  /\ At(r, "reread")
  /\ IF PublishedIsGood(r) THEN GoesOnward(r, run[r], run[r].item + 1) ELSE Step(r, "ERROR")
  /\ UNCHANGED <<card, disk, meanwhile, edits>>

\* Faulty variant: as many files as the manifest lists are taken for the same.
AsManyAsOld(r) ==
  /\ run[r].scheme = "legacy" /\ run[r].old # {} /\ ~run[r].created
  /\ Cardinality(run[r].old) = Cardinality(Planned(r))
\* A trip of the old scheme that lists just these assets is left as it is.
NothingNew(r) ==
  /\ run[r].scheme = "legacy" /\ run[r].old # {} /\ ~run[r].created
  /\ \A n \in run[r].old : \E m \in Planned(r) : SameAsset(n, m)
  /\ \A m \in Planned(r) : \E n \in run[r].old : SameAsset(n, m)

Merged(old, new) == {n \in old : \A m \in new : ~SameAsset(n, m)} \cup new

\* MANIFESTO.json is replaced as a whole by what was read at the beginning and the plan.
Merge(r) ==
  /\ At(r, "merge")
  /\ manifest' = IF NothingNew(r) THEN manifest
                 ELSE [scheme |-> run[r].scheme, assets |-> Merged(run[r].old, Planned(r))]
  /\ meanwhile' = [q \in Runs |-> IF run[q].at \in Ended \cup {"read"} THEN {}
                                  ELSE meanwhile[q] \cup (Listed' \ Listed)]
  /\ Step(r, "APPLIED")
  /\ UNCHANGED <<card, part, final, edits>>

\* The process is stopped, or the share or the card goes away under it.
Stop(r) ==
  /\ run[r].at \notin Ended
  /\ Goes(r, Down)
  /\ UNCHANGED <<card, disk, meanwhile, edits>>

Edit(c) ==
  /\ edits < MaxEdits
  /\ edits' = edits + 1
  /\ \E s \in Slots, b \in NewBlocks :
       LET old == card[c][s].data IN
       \E new \in {Append(old, b), Append(SubSeq(old, 2, Len(old)), b)} :
         card' = [card EXCEPT ![c][s] = [data |-> new, version |-> @.version + 1]]
  /\ UNCHANGED <<disk, run, meanwhile>>

Apply(r) ==
  \/ ReadManifest(r) \/ Check(r) \/ StatSource(r) \/ Resume(r) \/ Open(r) \/ CopyBlock(r)
  \/ EndCopy(r) \/ Verify(r) \/ Place(r) \/ Rename(r) \/ Reread(r) \/ Merge(r)

Next ==
  \/ \E r \in Runs : Plan(r) \/ Apply(r) \/ Stop(r)
  \/ \E c \in Cards : Edit(c)

Spec == Init /\ [][Next]_vars

-----------------------------------------------------------------------------
(* Properties *)

\* Storage contract: only a verified copy is listed as VERIFIED.  It stays so: whatever
\* other runs do, each listed file is there with the data its hash was computed from.
ListedIsVerified == \A n \in Listed : n.path \in DOMAIN final /\ final[n.path] = n.data

\* A run that writes the manifest keeps all it read of it, at the same place, whatever --poi
\* it was given.  With no lock it may drop or move other listings, but none that were there
\* to read: only those that another run wrote while it was at work.
ListingsAreKept ==
  [][manifest' # manifest =>
       \E r \in Runs : /\ At(r, "merge") /\ run[r].old \subseteq Listed'
                       /\ Listed \ Listed' \subseteq meanwhile[r]]_vars

\* No step changes or removes a published file.
NeverReplaced ==
  [][\A p \in DOMAIN final : p \in DOMAIN final' /\ final'[p] = final[p]]_vars

\* A partial leaves the disk only by becoming the published file, or because the run that
\* copied it finds the very file it planned published under that name.
PartialsAreKept ==
  [][\A p \in DOMAIN part : p \notin DOMAIN part' =>
       /\ p \in DOMAIN final'
       /\ \/ final'[p] = part[p]
          \/ \E r \in Runs : At(r, "place") /\ NameOf(r) = p /\ final'[p] = FileOf(r).data]_vars

\* A run that ends APPLIED leaves none of its files out: the manifest lists them now, or
\* listed them all when the run began and found nothing to do.
AppliedIsListed ==
  [][\A r \in Runs : run'[r].at = "APPLIED" /\ run[r].at # "APPLIED"
                       => Planned(r) \subseteq Listed' \/ Planned(r) \subseteq run[r].old]_vars

=============================================================================
