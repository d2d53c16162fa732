------------------------------- MODULE Catalog -------------------------------
(***************************************************************************)
(* The catalog and the importers that fill it from the manifests of the    *)
(* share (catalog/importer.py, cli/catalog.py), while the files come and   *)
(* go and people edit what was imported (editorial/repository.py).         *)
(*                                                                         *)
(* An import reads the manifest and the trip, then asset by asset the row  *)
(* of the asset, the files (hours, when it hashes them) and the rows of    *)
(* the files; what it found it writes at the end, in one transaction.      *)
(* Nothing is locked until then, so all of it may be stale by the time.    *)
(* The session writes a column only if it differs from what was loaded.    *)
(***************************************************************************)
EXTENDS Naturals

CONSTANTS
  Importers,  \* processes of dmm-catalog
  Manifests,  \* what the manifests of the share may say
  Contents,   \* what a file of the share may hold; a hash is the content
  Gone,       \* no such file
  NoTrip, NoAsset,
  Words,      \* what people may write into the fields of an asset
  MaxRuns,    \* bound of the imports begun
  MaxChanges  \* bound of changes of the share and edits

Slugs == {m.slug : m \in Manifests}
Names == {m.name : m \in Manifests}
Assets == UNION {DOMAIN m.assets : m \in Manifests}
Entries == UNION {{m.assets[a] : a \in DOMAIN m.assets} : m \in Manifests}
Files == UNION {UNION {{a} \X DOMAIN m.assets[a].sha : a \in DOMAIN m.assets} : m \in Manifests}
Classes == {e.class : e \in Entries}
AllWords == Words \cup {e.words : e \in Entries}

Statuses == {"AVAILABLE", "MISSING", "UNVERIFIED", "HASH_MISMATCH"}
RowType == [slug : Slugs, class : Classes, verified : BOOLEAN, words : AllWords,
            files : UNION {[R -> [sha : Contents, status : Statuses]] :
                             R \in {DOMAIN e.sha : e \in Entries}}]

\* A manifest is accepted only if its trip and assets have this form (load_manifest).
ASSUME CatalogAssumption ==
  /\ Gone \notin Contents
  /\ NoTrip \notin Names
  /\ \A e \in Entries : e.verified \in BOOLEAN /\ \A r \in DOMAIN e.sha : e.sha[r] \in Contents
  /\ NoAsset \notin RowType
  /\ MaxRuns \in Nat /\ MaxChanges \in Nat

VARIABLES
  trip,     \* trip[s]: the name of the trip with slug s
  asset,    \* asset[a]: the row of asset a with the rows of its files
  imports,  \* the manifests that are recorded as imported
  disk,     \* disk[<<a, r>>]: the file of asset a in role r
  run,      \* run[i]: the import that process i works on
  calm,     \* history: calm[i]: nothing has changed since the import of i began
  runs,     \* imports begun
  changes

vars == <<trip, asset, imports, disk, run, calm, runs, changes>>

Put(f, k, v) == [x \in DOMAIN f \cup {k} |-> IF x = k THEN v ELSE f[x]]

At(i, p) == run[i].at = p
Goes(i, row) == run' = [run EXCEPT ![i] = row]
Listed(i) == run[i].manifest.assets[run[i].asset]

Disturbed(I) == calm' = [i \in Importers |-> i \notin I /\ calm[i]]

-----------------------------------------------------------------------------
(* An import *)

\* The manifest is read and checked, then the row of its trip.
Read(i) ==
  /\ At(i, "idle")
  /\ runs < MaxRuns /\ runs' = runs + 1
  /\ \E m \in Manifests, hashes \in BOOLEAN :
       Goes(i, [at |-> IF DOMAIN m.assets = {} THEN "write" ELSE "asset",
                manifest |-> m, hashes |-> hashes, trip |-> trip[m.slug],
                left |-> DOMAIN m.assets, asset |-> NoAsset, row |-> NoAsset,
                found |-> <<>>, plan |-> <<>>])
  /\ calm' = [calm EXCEPT ![i] = TRUE]
  /\ UNCHANGED <<trip, asset, imports, disk, changes>>

LookUp(i) ==
  /\ At(i, "asset")
  /\ \E a \in run[i].left :
       Goes(i, [run[i] EXCEPT !.at = "files", !.asset = a, !.row = asset[a]])
  /\ UNCHANGED <<trip, asset, imports, disk, calm, runs, changes>>

FileState(e, r, content, hashes) ==
  IF content = Gone THEN "MISSING"
  ELSE IF ~e.verified THEN "UNVERIFIED"
  ELSE IF hashes /\ content # e.sha[r] THEN "HASH_MISMATCH"
  ELSE "AVAILABLE"

LookAtFiles(i) ==
  /\ At(i, "files")
  /\ LET a == run[i].asset IN
     Goes(i, [run[i] EXCEPT
                !.at = "rows",
                !.found = [r \in DOMAIN Listed(i).sha |->
                             FileState(Listed(i), r, disk[<<a, r>>], run[i].hashes)]])
  /\ UNCHANGED <<trip, asset, imports, disk, calm, runs, changes>>

\* Faulty variant: what is found is what is told, whatever is on record.
KeepNever(hashes, found, old) == found
\* Faulty variant: a mismatch on record is kept by a run that hashed the file, too.
KeepAlways(hashes, found, old) ==
  IF found = "AVAILABLE" /\ old = "HASH_MISMATCH" THEN old ELSE found
\* Without a hash of its own, an import does not clear a mismatch on record.
Keep(hashes, found, old) ==
  IF ~hashes /\ found = "AVAILABLE" /\ old = "HASH_MISMATCH" THEN old ELSE found

\* The rows of the files, as they are now, of an asset that was there before.
LoadRows(i) ==
  /\ At(i, "rows")
  /\ LET a == run[i].asset
         old == IF run[i].row = NoAsset THEN <<>> ELSE asset[a].files
         status == [r \in DOMAIN run[i].found |->
                      IF r \in DOMAIN old
                      THEN Keep(run[i].hashes, run[i].found[r], old[r].status)
                      ELSE run[i].found[r]]
         left == run[i].left \ {a}
     IN Goes(i, [run[i] EXCEPT
                   !.plan = Put(@, a, [row |-> run[i].row, old |-> old, status |-> status]),
                   !.at = IF left = {} THEN "write" ELSE "asset",
                   !.left = left, !.asset = NoAsset, !.row = NoAsset, !.found = <<>>])
  /\ UNCHANGED <<trip, asset, imports, disk, calm, runs, changes>>

\* The asset is in the catalog, but not as this manifest has it.
ConflictOf(i, a) ==
  LET p == run[i].plan[a]
      e == run[i].manifest.assets[a]
  IN /\ p.row # NoAsset
     /\ \/ run[i].trip = NoTrip
        \/ p.row.slug # run[i].manifest.slug
        \/ p.row.class # e.class
        \/ DOMAIN p.old # DOMAIN e.sha
        \/ \E r \in DOMAIN e.sha : p.old[r].sha # e.sha[r]

Conflict(i) ==
  \/ run[i].trip # NoTrip /\ run[i].trip # run[i].manifest.name
  \/ \E a \in DOMAIN run[i].plan : ConflictOf(i, a)

\* Faulty variant: rows that another import has created are taken as one's own.
NeverClashes(i) == FALSE
\* What another import has created meanwhile cannot be created again: slugs, asset ids.
Clashes(i) ==
  \/ run[i].trip = NoTrip /\ trip[run[i].manifest.slug] # NoTrip
  \/ \E a \in DOMAIN run[i].plan : run[i].plan[a].row = NoAsset /\ asset[a] # NoAsset

Created(i, a) ==
  LET e == run[i].manifest.assets[a] IN
  [slug |-> run[i].manifest.slug, class |-> e.class, verified |-> e.verified,
   words |-> e.words,
   files |-> [r \in DOMAIN e.sha |-> [sha |-> e.sha[r],
                                      status |-> run[i].plan[a].status[r]]]]

Changed(now, loaded, new) == IF new = loaded THEN now ELSE new

\* Faulty variant: the fields of the manifest are taken over again.
UpdatedAnew(i, a) == [Created(i, a) EXCEPT !.slug = asset[a].slug]
Updated(i, a) ==
  LET p == run[i].plan[a]
      now == asset[a]
  IN [now EXCEPT
        !.verified = Changed(now.verified, p.row.verified, run[i].manifest.assets[a].verified),
        !.files = [r \in DOMAIN now.files |->
                     [now.files[r] EXCEPT
                        !.status = Changed(now.files[r].status, p.old[r].status, p.status[r])]]]

\* The end of the run: a conflict is reported, a clash raises, and nothing is written.
Write(i) ==
  /\ At(i, "write")
  /\ ~Conflict(i) /\ ~Clashes(i)
  /\ trip' = [trip EXCEPT ![run[i].manifest.slug] =
                IF run[i].trip = NoTrip THEN run[i].manifest.name ELSE @]
  /\ asset' = [a \in Assets |->
                 IF a \notin DOMAIN run[i].plan THEN asset[a]
                 ELSE IF run[i].plan[a].row = NoAsset THEN Created(i, a)
                 ELSE Updated(i, a)]
  /\ imports' = imports \cup {run[i].manifest}
  /\ Goes(i, [at |-> "idle"])
  /\ Disturbed(Importers)
  /\ UNCHANGED <<disk, runs, changes>>

\* A conflict, a clash, a preview, an error or a stop: the transaction is taken back.
Leave(i) ==
  /\ run[i].at # "idle"
  /\ Goes(i, [at |-> "idle"])
  /\ Disturbed({i})
  /\ UNCHANGED <<trip, asset, imports, disk, runs, changes>>

-----------------------------------------------------------------------------
(* The others *)

\* A file of the share is lost, damaged, brought back or replaced.
Change(f) ==
  /\ changes < MaxChanges /\ changes' = changes + 1
  /\ \E c \in (Contents \cup {Gone}) \ {disk[f]} : disk' = [disk EXCEPT ![f] = c]
  /\ Disturbed(Importers)
  /\ UNCHANGED <<trip, asset, imports, run, runs>>

\* A person writes a field of an asset.
Edit(a) ==
  /\ changes < MaxChanges /\ changes' = changes + 1
  /\ asset[a] # NoAsset
  /\ \E w \in Words : asset' = [asset EXCEPT ![a].words = w]
  /\ UNCHANGED <<trip, imports, disk, run, calm, runs>>

\* A manifest lists files that have been published; what they hold may be anything.
Init ==
  /\ trip = [s \in Slugs |-> NoTrip]
  /\ asset = [a \in Assets |-> NoAsset]
  /\ imports = {}
  /\ disk \in [Files -> Contents]
  /\ run = [i \in Importers |-> [at |-> "idle"]]
  /\ calm = [i \in Importers |-> FALSE]
  /\ runs = 0 /\ changes = 0

Runs(i) == Read(i) \/ LookUp(i) \/ LookAtFiles(i) \/ LoadRows(i) \/ Write(i) \/ Leave(i)

Next ==
  \/ \E i \in Importers : Runs(i)
  \/ \E f \in Files : Change(f)
  \/ \E a \in Assets : Edit(a)

Spec == Init /\ [][Next]_vars

-----------------------------------------------------------------------------
(* Properties *)

Registered(a, m) ==
  /\ asset[a].slug = m.slug
  /\ asset[a].class = m.assets[a].class
  /\ DOMAIN asset[a].files = DOMAIN m.assets[a].sha
  /\ \A r \in DOMAIN asset[a].files : asset[a].files[r].sha = m.assets[a].sha[r]

\* The catalog is what the recorded imports say, all of it and nothing else: however
\* imports overlap, an asset keeps the trip, class, files and hashes it was registered
\* with, and no import is recorded that says otherwise or of which a part is missing.
CatalogIsImported ==
  /\ \A m \in imports : /\ trip[m.slug] = m.name
                        /\ \A a \in DOMAIN m.assets : asset[a] # NoAsset /\ Registered(a, m)
  /\ \A a \in Assets : asset[a] # NoAsset => \E m \in imports : a \in DOMAIN m.assets

\* An import never touches what people may have written into an asset, though it was
\* loaded long before it is saved and the manifest brings words of its own.
WordsArePeoples ==
  [][\A a \in Assets : asset[a] # NoAsset /\ asset'[a].words # asset[a].words
                         => run' = run /\ changes' # changes]_vars

\* What an import with hashes found of a file, and what one without may say of it.
Tells(status, e, r, content, hashes) ==
  /\ (status = "MISSING") = (content = Gone)
  /\ status = "AVAILABLE" => e.verified /\ content # Gone /\ (hashes => content = e.sha[r])
  /\ hashes /\ e.verified /\ content = e.sha[r] => status = "AVAILABLE"

\* After an import during which neither the share nor the catalog changed, the catalog
\* tells of its files what is true, whatever was on record before; and of a file with a
\* mismatch on record an import without hashes does not tell that it is available.
CalmImportTellsTheShare ==
  [][\A i \in Importers :
       Write(i) /\ calm[i] =>
         \A a \in DOMAIN run[i].manifest.assets :
           LET e == run[i].manifest.assets[a] IN
           \A r \in DOMAIN e.sha :
             LET told == asset'[a].files[r].status IN
             /\ Tells(told, e, r, disk[<<a, r>>], run[i].hashes)
             /\ asset[a] # NoAsset /\ asset[a].files[r].status = "HASH_MISMATCH" =>
                  run[i].hashes \/ told # "AVAILABLE"]_vars
=============================================================================
