---------------------------- MODULE Catalog_proofs ----------------------------
(***************************************************************************)
(* For any number of importers, manifests, files and edits: the catalog is *)
(* what the recorded imports say, an import leaves the words of people     *)
(* alone, and one that nothing overlapped tells what is true of the files. *)
(*                                                                         *)
(* Rows are never deleted, and what an asset is registered with never      *)
(* changes.  So what a run has loaded may be stale in its words, flags and *)
(* states of files, but not in what its conflicts are decided by; only     *)
(* that there was no row yet may be stale, and that is a clash.            *)
(***************************************************************************)
EXTENDS Catalog, TLAPS

\* A row was loaded that is there and is registered as the one of now.
Seen(row, now) ==
  row # NoAsset => now # NoAsset /\ row.slug = now.slug /\ row.class = now.class

Planned(p, e, now) ==
  /\ Seen(p.row, now)
  /\ p.row # NoAsset => /\ DOMAIN p.old = DOMAIN now.files
                        /\ \A r \in DOMAIN now.files : p.old[r].sha = now.files[r].sha
  /\ p.status \in [DOMAIN e.sha -> Statuses]

Fields == {"at", "manifest", "hashes", "trip", "left", "asset", "row", "found", "plan"}

\* A run at work: it has a plan for what it has not left, and what it has loaded is stale
\* only in what may change.
Works(q, tripOf, rows) ==
  q.at # "idle" =>
    LET m == q.manifest IN
    /\ DOMAIN q = Fields
    /\ m \in Manifests /\ q.hashes \in BOOLEAN
    /\ q.trip # NoTrip => q.trip = tripOf[m.slug]
    /\ q.left \subseteq DOMAIN m.assets
    /\ DOMAIN q.plan = DOMAIN m.assets \ q.left
    /\ q.at = "write" => q.left = {}
    /\ q.at \in {"files", "rows"} => q.asset \in q.left /\ Seen(q.row, rows[q.asset])
    /\ q.at = "rows" => q.found \in [DOMAIN m.assets[q.asset].sha -> Statuses]
    /\ \A a \in DOMAIN q.plan : Planned(q.plan[a], m.assets[a], rows[a])

\* A run without hashes does not clear a mismatch that it has loaded.
Kept(q, p, r) ==
  r \in DOMAIN p.old /\ p.old[r].status = "HASH_MISMATCH" => q.hashes \/ p.status[r] # "AVAILABLE"

\* A run during which nothing changed: what it has found is so, and what it has loaded of
\* the files is on record.
Current(q, rows, files) ==
  q.at # "idle" =>
    LET m == q.manifest IN
    /\ q.at = "rows" => \A r \in DOMAIN m.assets[q.asset].sha :
                          q.found[r] = FileState(m.assets[q.asset], r, files[<<q.asset, r>>],
                                                 q.hashes)
    /\ \A a \in DOMAIN q.plan :
         /\ q.plan[a].row # NoAsset => \A r \in DOMAIN rows[a].files :
                                         q.plan[a].old[r].status = rows[a].files[r].status
         /\ \A r \in DOMAIN m.assets[a].sha :
              /\ Tells(q.plan[a].status[r], m.assets[a], r, files[<<a, r>>], q.hashes)
              /\ q.plan[a].row # NoAsset => Kept(q, q.plan[a], r)

TypeOK ==
  /\ trip \in [Slugs -> Names \cup {NoTrip}]
  /\ asset \in [Assets -> RowType \cup {NoAsset}]
  /\ imports \subseteq Manifests
  /\ DOMAIN run = Importers
  /\ calm \in [Importers -> BOOLEAN]
  /\ changes \in Nat

IInv ==
  /\ TypeOK
  /\ \A i \in Importers : Works(run[i], trip, asset)
  /\ \A i \in Importers : calm[i] => Current(run[i], asset, disk)
  /\ CatalogIsImported

-----------------------------------------------------------------------------
(* What manifests and rows are made of *)

LEMMA ManifestIs ==
  ASSUME NEW m \in Manifests
  PROVE  /\ m.slug \in Slugs /\ m.name \in Names
         /\ DOMAIN m.assets \subseteq Assets
         /\ \A a \in DOMAIN m.assets : m.assets[a] \in Entries
BY DEF Slugs, Names, Assets, Entries

LEMMA EntryIs ==
  ASSUME NEW e \in Entries
  PROVE  /\ e.class \in Classes /\ e.words \in AllWords /\ e.verified \in BOOLEAN
         /\ \A r \in DOMAIN e.sha : e.sha[r] \in Contents /\ e.sha[r] # Gone
BY CatalogAssumption DEF Classes, AllWords

FileRow == [sha : Contents, status : Statuses]
Roles == {DOMAIN e.sha : e \in Entries}

LEMMA RowIs ==
  ASSUME NEW row \in RowType
  PROVE  /\ row = [slug |-> row.slug, class |-> row.class, verified |-> row.verified,
                   words |-> row.words, files |-> row.files]
         /\ row.slug \in Slugs /\ row.class \in Classes /\ row.verified \in BOOLEAN
         /\ row.words \in AllWords
         /\ DOMAIN row.files \in Roles /\ row.files \in [DOMAIN row.files -> FileRow]
BY DEF RowType, FileRow, Roles

LEMMA RowMakes ==
  ASSUME NEW slug \in Slugs, NEW class \in Classes, NEW verified \in BOOLEAN,
         NEW words \in AllWords, NEW R \in Roles, NEW files \in [R -> FileRow]
  PROVE  [slug |-> slug, class |-> class, verified |-> verified, words |-> words,
          files |-> files] \in RowType
<1>1. files \in UNION {[S -> FileRow] : S \in Roles}
  OBVIOUS
<1> QED BY <1>1 DEF RowType, FileRow, Roles

LEMMA RowChanges ==
  ASSUME NEW row \in RowType, NEW verified, NEW files
  PROVE  [row EXCEPT !.verified = verified, !.files = files]
           = [slug |-> row.slug, class |-> row.class, verified |-> verified,
              words |-> row.words, files |-> files]
<1> DEFINE one == [slug |-> row.slug, class |-> row.class, verified |-> verified,
                   words |-> row.words, files |-> row.files]
           two == [slug |-> row.slug, class |-> row.class, verified |-> verified,
                   words |-> row.words, files |-> files]
<1>1. [row EXCEPT !.verified = verified] = one
  BY RowIs
<1>2. [one EXCEPT !.files = files] = two
  OBVIOUS
<1>3. [row EXCEPT !.verified = verified, !.files = files]
        = [[row EXCEPT !.verified = verified] EXCEPT !.files = files]
  OBVIOUS
<1> HIDE DEF one, two
<1>4. [row EXCEPT !.verified = verified, !.files = files] = two
  BY <1>1, <1>2, <1>3
<1> QED BY <1>4 DEF two

LEMMA NoAssetIsNoRow == NoAsset \notin RowType
BY CatalogAssumption

LEMMA Found ==
  ASSUME NEW e \in Entries, NEW r \in DOMAIN e.sha, NEW content, NEW hashes \in BOOLEAN
  PROVE  /\ FileState(e, r, content, hashes) \in Statuses
         /\ \A old : Keep(hashes, FileState(e, r, content, hashes), old) \in Statuses
BY DEF FileState, Keep, Statuses

\* What an import has found it may say, whatever it keeps of what was on record.
LEMMA KeepTells ==
  ASSUME NEW e, NEW r, NEW content, NEW hashes \in BOOLEAN, NEW found, NEW old,
         Tells(found, e, r, content, hashes)
  PROVE  Tells(Keep(hashes, found, old), e, r, content, hashes)
BY DEF Keep, Tells

LEMMA FoundTells ==
  ASSUME NEW e \in Entries, NEW r \in DOMAIN e.sha, NEW content, NEW hashes \in BOOLEAN
  PROVE  /\ Tells(FileState(e, r, content, hashes), e, r, content, hashes)
         /\ \A old : Tells(Keep(hashes, FileState(e, r, content, hashes), old),
                           e, r, content, hashes)
<1>1. e.sha[r] # Gone
  BY EntryIs
<1>2. Tells(FileState(e, r, content, hashes), e, r, content, hashes)
  BY <1>1 DEF FileState, Tells
<1> QED BY <1>2, KeepTells

-----------------------------------------------------------------------------
(* What every step leaves alone *)

\* The row stays, and with it what the asset is registered with.
Stays(old, new) ==
  old # NoAsset => /\ new # NoAsset /\ new.slug = old.slug /\ new.class = old.class
                   /\ DOMAIN new.files = DOMAIN old.files
                   /\ \A r \in DOMAIN old.files : new.files[r].sha = old.files[r].sha

LEMMA PlannedStays ==
  ASSUME NEW p, NEW e, NEW old, NEW new, Planned(p, e, old), Stays(old, new)
  PROVE  Planned(p, e, new)
BY DEF Planned, Seen, Stays

LEMMA WorksStays ==
  ASSUME NEW q, NEW t, NEW u, NEW rows, NEW new, Works(q, t, rows),
         \A s \in Slugs : t[s] # NoTrip => u[s] = t[s],
         \A a \in Assets : Stays(rows[a], new[a])
  PROVE  Works(q, u, new)
<1> SUFFICES ASSUME q.at # "idle"
             PROVE  Works(q, u, new)
  BY DEF Works
<1> DEFINE m == q.manifest
<1>1. /\ m \in Manifests /\ q.left \subseteq DOMAIN m.assets
      /\ DOMAIN q.plan = DOMAIN m.assets \ q.left
  BY DEF Works
<1>2. m.slug \in Slugs /\ DOMAIN m.assets \subseteq Assets
  BY <1>1, ManifestIs
<1>3. q.trip # NoTrip => q.trip = u[m.slug]
  BY <1>2 DEF Works
<1>4. q.at \in {"files", "rows"} => q.asset \in q.left /\ Seen(q.row, new[q.asset])
  BY <1>1, <1>2 DEF Works, Seen, Stays
<1>5. \A a \in DOMAIN q.plan : Planned(q.plan[a], m.assets[a], new[a])
  BY <1>1, <1>2, PlannedStays DEF Works
<1> QED BY <1>3, <1>4, <1>5 DEF Works

LEMMA CatalogStays ==
  ASSUME CatalogIsImported, TypeOK, imports' = imports,
         \A s \in Slugs : trip[s] # NoTrip => trip'[s] = trip[s],
         \A a \in Assets : Stays(asset[a], asset'[a]),
         \A a \in Assets : asset'[a] # NoAsset => asset[a] # NoAsset
  PROVE  CatalogIsImported'
<1>1. ASSUME NEW m \in imports'
      PROVE  /\ trip'[m.slug] = m.name
             /\ \A a \in DOMAIN m.assets : asset'[a] # NoAsset /\ Registered(a, m)'
  <2>1. m \in imports /\ m \in Manifests
    BY DEF TypeOK
  <2>2. m.slug \in Slugs /\ m.name # NoTrip /\ DOMAIN m.assets \subseteq Assets
    BY <2>1, ManifestIs, CatalogAssumption
  <2>3. trip[m.slug] = m.name
    BY <2>1 DEF CatalogIsImported
  <2>4. ASSUME NEW a \in DOMAIN m.assets
        PROVE  asset'[a] # NoAsset /\ Registered(a, m)'
    <3>1. asset[a] # NoAsset /\ Registered(a, m) /\ Stays(asset[a], asset'[a])
      BY <2>1, <2>2 DEF CatalogIsImported
    <3> QED BY <3>1 DEF Stays, Registered
  <2> QED BY <2>2, <2>3, <2>4
<1>2. ASSUME NEW a \in Assets, asset'[a] # NoAsset
      PROVE  \E m \in imports' : a \in DOMAIN m.assets
  BY <1>2 DEF CatalogIsImported
<1> QED BY <1>1, <1>2 DEF CatalogIsImported

\* One run goes on: the tables stay as they are, and so do the other runs.
LEMMA OneGoesOn ==
  ASSUME IInv, NEW i \in Importers, NEW q,
         run' = [run EXCEPT ![i] = q], UNCHANGED <<trip, asset, imports, disk, changes>>,
         calm' \in [Importers -> BOOLEAN],
         \A j \in Importers : j # i /\ calm'[j] => calm[j],
         Works(q, trip, asset), calm'[i] => Current(q, asset, disk)
  PROVE  IInv'
<1>1. TypeOK'
  BY DEF IInv, TypeOK
<1>2. \A j \in Importers : run'[j] = IF j = i THEN q ELSE run[j]
  BY DEF IInv, TypeOK
<1>3. \A j \in Importers : Works(run'[j], trip', asset')
  BY <1>2 DEF IInv
<1>4. \A j \in Importers : calm'[j] => Current(run'[j], asset', disk')
  BY <1>2 DEF IInv
<1>5. CatalogIsImported'
  BY DEF IInv, CatalogIsImported, Registered
<1> QED BY <1>1, <1>3, <1>4, <1>5 DEF IInv

-----------------------------------------------------------------------------
(* The inductive invariant *)

LEMMA InitHolds ==
  ASSUME Init
  PROVE  IInv
<1>1. \A i \in Importers : run[i].at = "idle" /\ calm[i] = FALSE
  BY DEF Init
<1>2. TypeOK
  BY DEF Init, TypeOK
<1>3. CatalogIsImported
  BY DEF Init, CatalogIsImported
<1> QED BY <1>1, <1>2, <1>3 DEF IInv, Works

LEMMA ReadKeeps ==
  ASSUME IInv, NEW i \in Importers, Read(i)
  PROVE  IInv'
<1>1. PICK m \in Manifests, hashes \in BOOLEAN :
        run' = [run EXCEPT ![i] =
                  [at |-> IF DOMAIN m.assets = {} THEN "write" ELSE "asset",
                   manifest |-> m, hashes |-> hashes, trip |-> trip[m.slug],
                   left |-> DOMAIN m.assets, asset |-> NoAsset, row |-> NoAsset,
                   found |-> <<>>, plan |-> <<>>]]
  BY DEF Read, Goes
<1> DEFINE at == IF DOMAIN m.assets = {} THEN "write" ELSE "asset"
<1> DEFINE q == [at |-> at,
                 manifest |-> m, hashes |-> hashes, trip |-> trip[m.slug],
                 left |-> DOMAIN m.assets, asset |-> NoAsset, row |-> NoAsset,
                 found |-> <<>>, plan |-> <<>>]
<1>2. at \in {"write", "asset"} /\ (at = "write" => DOMAIN m.assets = {})
  OBVIOUS
<1>3. DOMAIN q.plan = {}
  OBVIOUS
<1>4. Works(q, trip, asset) /\ Current(q, asset, disk)
  <2> HIDE DEF at
  <2> QED BY <1>2, <1>3 DEF Works, Current, Fields
<1>5. run' = [run EXCEPT ![i] = q] /\ UNCHANGED <<trip, asset, imports, disk, changes>>
  BY <1>1 DEF Read
<1>6. calm' \in [Importers -> BOOLEAN] /\ \A j \in Importers : j # i => calm'[j] = calm[j]
  BY DEF Read, IInv, TypeOK
<1> HIDE DEF q
<1> QED BY <1>4, <1>5, <1>6, OneGoesOn

\* What a run at work is made of.
LEMMA WorkIs ==
  ASSUME IInv, NEW i \in Importers, run[i].at # "idle"
  PROVE  /\ Works(run[i], trip, asset)
         /\ DOMAIN run[i] = Fields
         /\ run[i].manifest \in Manifests /\ run[i].hashes \in BOOLEAN
         /\ run[i].left \subseteq DOMAIN run[i].manifest.assets
         /\ DOMAIN run[i].plan = DOMAIN run[i].manifest.assets \ run[i].left
         /\ DOMAIN run[i].manifest.assets \subseteq Assets
         /\ \A a \in DOMAIN run[i].manifest.assets : run[i].manifest.assets[a] \in Entries
<1>1. Works(run[i], trip, asset)
  BY DEF IInv
<1>2. run[i].manifest \in Manifests
  BY <1>1 DEF Works
<1> QED BY <1>1, <1>2, ManifestIs DEF Works

LEMMA LookUpKeeps ==
  ASSUME IInv, NEW i \in Importers, LookUp(i)
  PROVE  IInv'
<1>1. PICK a \in run[i].left :
        run' = [run EXCEPT ![i] = [run[i] EXCEPT !.at = "files", !.asset = a, !.row = asset[a]]]
  BY DEF LookUp, Goes
<1> DEFINE q == [run[i] EXCEPT !.at = "files", !.asset = a, !.row = asset[a]]
<1>2. run[i].at = "asset" /\ calm' = calm
  BY DEF LookUp, At
<1>3. /\ DOMAIN q = Fields /\ q.at = "files" /\ q.asset = a /\ q.row = asset[a]
      /\ q.manifest = run[i].manifest /\ q.hashes = run[i].hashes /\ q.trip = run[i].trip
      /\ q.left = run[i].left /\ q.plan = run[i].plan
  BY <1>2, WorkIs DEF Fields
<1>4. run' = [run EXCEPT ![i] = q] /\ UNCHANGED <<trip, asset, imports, disk, changes>>
  BY <1>1 DEF LookUp
<1> HIDE DEF q
<1>5. Works(q, trip, asset)
  BY <1>2, <1>3, WorkIs DEF Works, Seen
<1>6. calm[i] => Current(q, asset, disk)
  BY <1>2, <1>3 DEF IInv, Current, Kept
<1>7. calm \in [Importers -> BOOLEAN]
  BY DEF IInv, TypeOK
<1> QED BY <1>2, <1>4, <1>5, <1>6, <1>7, OneGoesOn

LEMMA LookAtFilesKeeps ==
  ASSUME IInv, NEW i \in Importers, LookAtFiles(i)
  PROVE  IInv'
<1> DEFINE a == run[i].asset
           e == run[i].manifest.assets[a]
           found == [r \in DOMAIN e.sha |-> FileState(e, r, disk[<<a, r>>], run[i].hashes)]
           q == [run[i] EXCEPT !.at = "rows", !.found = found]
<1>1. run[i].at = "files" /\ calm' = calm
  BY DEF LookAtFiles, At
<1>2. run' = [run EXCEPT ![i] = q] /\ UNCHANGED <<trip, asset, imports, disk, changes>>
  BY DEF LookAtFiles, Goes, Listed
<1>3. a \in run[i].left /\ e \in Entries /\ run[i].hashes \in BOOLEAN
  BY <1>1, WorkIs DEF Works
<1>4. found \in [DOMAIN e.sha -> Statuses]
  BY <1>3, Found
<1>5. \A r \in DOMAIN e.sha : found[r] = FileState(e, r, disk[<<a, r>>], run[i].hashes)
  OBVIOUS
<1> HIDE DEF found
<1>6. /\ DOMAIN q = Fields /\ q.at = "rows" /\ q.found = found
      /\ q.asset = run[i].asset /\ q.row = run[i].row
      /\ q.manifest = run[i].manifest /\ q.hashes = run[i].hashes /\ q.trip = run[i].trip
      /\ q.left = run[i].left /\ q.plan = run[i].plan
  BY <1>1, WorkIs DEF Fields
<1> HIDE DEF q
<1>7. Works(q, trip, asset)
  BY <1>1, <1>3, <1>4, <1>6, WorkIs DEF Works
<1>8. calm[i] => Current(q, asset, disk)
  BY <1>1, <1>5, <1>6 DEF IInv, Current, Kept
<1>9. calm \in [Importers -> BOOLEAN]
  BY DEF IInv, TypeOK
<1> QED BY <1>1, <1>2, <1>7, <1>8, <1>9, OneGoesOn

LEMMA LoadRowsKeeps ==
  ASSUME IInv, NEW i \in Importers, LoadRows(i)
  PROVE  IInv'
<1> DEFINE a == run[i].asset
           e == run[i].manifest.assets[a]
           old == IF run[i].row = NoAsset THEN <<>> ELSE asset[a].files
           status == [r \in DOMAIN run[i].found |->
                        IF r \in DOMAIN old
                        THEN Keep(run[i].hashes, run[i].found[r], old[r].status)
                        ELSE run[i].found[r]]
           left == run[i].left \ {a}
           at == IF left = {} THEN "write" ELSE "asset"
           p == [row |-> run[i].row, old |-> old, status |-> status]
           plan == Put(run[i].plan, a, p)
           q == [run[i] EXCEPT !.plan = plan, !.at = at, !.left = left, !.asset = NoAsset,
                               !.row = NoAsset, !.found = <<>>]
<1>1. run[i].at = "rows" /\ calm' = calm
  BY DEF LoadRows, At
<1>2. run' = [run EXCEPT ![i] = q] /\ UNCHANGED <<trip, asset, imports, disk, changes>>
  BY DEF LoadRows, Goes
<1>3. /\ a \in run[i].left /\ e \in Entries /\ run[i].hashes \in BOOLEAN
      /\ Seen(run[i].row, asset[a]) /\ run[i].found \in [DOMAIN e.sha -> Statuses]
  BY <1>1, WorkIs DEF Works
<1>4. p.row = run[i].row /\ p.old = old /\ p.status = status
  OBVIOUS
<1>5. \A r \in DOMAIN e.sha :
        \/ r \notin DOMAIN old /\ status[r] = run[i].found[r]
        \/ status[r] = Keep(run[i].hashes, run[i].found[r], old[r].status)
  BY <1>3
<1>6. status \in [DOMAIN e.sha -> Statuses]
  <2>1. \A was : \A f \in Statuses : Keep(run[i].hashes, f, was) \in Statuses
    BY <1>3 DEF Keep, Statuses
  <2>2. DOMAIN status = DOMAIN e.sha /\ status = [r \in DOMAIN status |-> status[r]]
    BY <1>3
  <2> HIDE DEF status
  <2>3. \A r \in DOMAIN e.sha : run[i].found[r] \in Statuses
    BY <1>3
  <2>4. \A r \in DOMAIN e.sha : status[r] \in Statuses
    BY <1>5, <2>1, <2>3
  <2> HIDE DEF e
  <2> QED BY <2>2, <2>4
<1>7. run[i].row # NoAsset => old = asset[a].files
  OBVIOUS
<1>8. at \in {"write", "asset"} /\ (at = "write" => left = {})
  OBVIOUS
<1> HIDE DEF status, old, at
<1>9. Planned(p, e, asset[a])
  BY <1>3, <1>4, <1>6, <1>7 DEF Planned, Seen
<1>10. calm[i] => /\ p.row # NoAsset => \A r \in DOMAIN asset[a].files :
                                          p.old[r].status = asset[a].files[r].status
                  /\ \A r \in DOMAIN e.sha :
                       /\ Tells(p.status[r], e, r, disk[<<a, r>>], run[i].hashes)
                       /\ Kept(run[i], p, r)
  <2> SUFFICES ASSUME calm[i], NEW r \in DOMAIN e.sha
               PROVE  /\ Tells(status[r], e, r, disk[<<a, r>>], run[i].hashes)
                      /\ Kept(run[i], p, r)
    BY <1>4, <1>7
  <2>1. run[i].found[r] = FileState(e, r, disk[<<a, r>>], run[i].hashes)
    BY <1>1 DEF IInv, Current
  <2>2. Tells(run[i].found[r], e, r, disk[<<a, r>>], run[i].hashes)
    BY <1>3, <2>1, FoundTells
  <2>3. Kept(run[i], p, r)
    BY <1>4, <1>5 DEF Kept, Keep
  <2> QED BY <1>3, <1>5, <2>2, <2>3, KeepTells
<1> HIDE DEF p
<1>11. /\ DOMAIN plan = DOMAIN run[i].plan \cup {a}
       /\ plan[a] = p /\ \A b \in DOMAIN run[i].plan : b # a => plan[b] = run[i].plan[b]
  BY DEF Put
<1> HIDE DEF plan
<1>12. /\ DOMAIN q = Fields /\ q.at = at /\ q.plan = plan /\ q.left = left
       /\ q.manifest = run[i].manifest /\ q.hashes = run[i].hashes /\ q.trip = run[i].trip
  BY <1>1, WorkIs DEF Fields
<1> HIDE DEF q
<1>13. DOMAIN plan = DOMAIN run[i].manifest.assets \ left
  BY <1>1, <1>3, <1>11, WorkIs
<1>14. \A b \in DOMAIN plan : Planned(plan[b], run[i].manifest.assets[b], asset[b])
  BY <1>1, <1>9, <1>11, WorkIs DEF Works
<1>15. Works(q, trip, asset)
  BY <1>1, <1>8, <1>12, <1>13, <1>14, WorkIs DEF Works
<1>16. calm[i] => Current(q, asset, disk)
  BY <1>1, <1>8, <1>10, <1>11, <1>12 DEF IInv, Current, Kept
<1>17. calm \in [Importers -> BOOLEAN]
  BY DEF IInv, TypeOK
<1> QED BY <1>1, <1>2, <1>15, <1>16, <1>17, OneGoesOn

LEMMA LeaveKeeps ==
  ASSUME IInv, NEW i \in Importers, Leave(i)
  PROVE  IInv'
<1> DEFINE q == [at |-> "idle"]
<1>1. Works(q, trip, asset) /\ Current(q, asset, disk)
  BY DEF Works, Current
<1>2. /\ calm' \in [Importers -> BOOLEAN]
      /\ \A j \in Importers : j # i /\ calm'[j] => calm[j]
  BY DEF Leave, Disturbed
<1>3. run' = [run EXCEPT ![i] = q] /\ UNCHANGED <<trip, asset, imports, disk, changes>>
  BY DEF Leave, Goes
<1> HIDE DEF q
<1> QED BY <1>1, <1>2, <1>3, OneGoesOn

\* The tables change as every step may change them.
LEMMA TablesChange ==
  ASSUME IInv, TypeOK',
         \A s \in Slugs : trip[s] # NoTrip => trip'[s] = trip[s],
         \A a \in Assets : Stays(asset[a], asset'[a]),
         \A j \in Importers : run'[j] = run[j] \/ run'[j].at = "idle",
         \A j \in Importers : calm'[j] => Current(run'[j], asset', disk'),
         CatalogIsImported'
  PROVE  IInv'
<1>1. ASSUME NEW j \in Importers
      PROVE  Works(run'[j], trip', asset')
  <2>1. CASE run'[j].at = "idle"
    BY <2>1 DEF Works
  <2>2. CASE run'[j] = run[j]
    <3>1. Works(run[j], trip, asset)
      BY DEF IInv
    <3> QED BY <2>2, <3>1, WorksStays
  <2> QED BY <2>1, <2>2
<1> QED BY <1>1 DEF IInv

LEMMA ChangeKeeps ==
  ASSUME IInv, NEW f \in Files, Change(f)
  PROVE  IInv'
<1>1. /\ UNCHANGED <<trip, asset, imports, run>> /\ changes' = changes + 1
      /\ calm' = [i \in Importers |-> i \notin Importers /\ calm[i]]
  BY DEF Change, Disturbed
<1>2. \A i \in Importers : ~calm'[i]
  BY <1>1
<1>3. TypeOK'
  BY <1>1 DEF IInv, TypeOK
<1>4. CatalogIsImported'
  BY <1>1 DEF IInv, CatalogIsImported, Registered
<1>5. \A a \in Assets : Stays(asset[a], asset'[a])
  BY <1>1 DEF Stays
<1> QED BY <1>1, <1>2, <1>3, <1>4, <1>5, TablesChange

LEMMA EditEffect ==
  ASSUME IInv, NEW a \in Assets, Edit(a)
  PROVE  /\ asset[a] # NoAsset /\ asset'[a] \in RowType /\ Stays(asset[a], asset'[a])
         /\ asset'[a].files = asset[a].files
         /\ asset' = [asset EXCEPT ![a] = asset'[a]]
<1>1. PICK w \in Words : asset' = [asset EXCEPT ![a].words = w]
  BY DEF Edit
<1>2. asset[a] \in RowType
  BY DEF Edit, IInv, TypeOK
<1> DEFINE row == asset[a]
           new == [slug |-> row.slug, class |-> row.class, verified |-> row.verified,
                   words |-> w, files |-> row.files]
<1>3. asset' = [asset EXCEPT ![a] = [asset[a] EXCEPT !.words = w]] /\ DOMAIN asset = Assets
  BY <1>1 DEF IInv, TypeOK
<1>4. [row EXCEPT !.words = w] = new
  BY <1>2, RowIs
<1>5. new \in RowType
  <2>1. w \in AllWords
    BY DEF AllWords
  <2> QED BY <1>2, <2>1, RowIs, RowMakes
<1>6. asset'[a] = new
  BY <1>3, <1>4
<1>7. Stays(row, new)
  BY <1>2, <1>5, NoAssetIsNoRow DEF Stays
<1>8. new.files = row.files
  OBVIOUS
<1> HIDE DEF new
<1> QED BY <1>3, <1>4, <1>5, <1>6, <1>7, <1>8 DEF Edit

LEMMA EditKeeps ==
  ASSUME IInv, NEW a \in Assets, Edit(a)
  PROVE  IInv'
<1>1. UNCHANGED <<trip, imports, disk, run, calm>> /\ changes' = changes + 1
  BY DEF Edit
<1>2. /\ asset[a] # NoAsset /\ asset'[a] \in RowType /\ asset'[a] # NoAsset
      /\ DOMAIN asset' = Assets /\ asset' \in [Assets -> RowType \cup {NoAsset}]
      /\ \A b \in Assets : b # a => asset'[b] = asset[b]
  BY EditEffect, NoAssetIsNoRow DEF IInv, TypeOK
<1>3. TypeOK'
  BY <1>1, <1>2 DEF IInv, TypeOK
<1>4. \A b \in Assets : /\ Stays(asset[b], asset'[b])
                        /\ asset[b] # NoAsset => asset'[b].files = asset[b].files
  BY <1>2, EditEffect DEF Stays
<1>5. CatalogIsImported'
  BY <1>1, <1>2, <1>4, CatalogStays DEF IInv
<1>6. ASSUME NEW j \in Importers, calm[j]
      PROVE  Current(run[j], asset', disk)
  <2>1. Current(run[j], asset, disk)
    BY <1>6 DEF IInv
  <2>2. \A b \in DOMAIN run[j].plan :
          run[j].at # "idle" /\ run[j].plan[b].row # NoAsset => asset'[b].files = asset[b].files
    BY <1>4, WorkIs DEF Works, Planned, Seen
  <2> QED BY <2>1, <2>2 DEF Current
<1> QED BY <1>1, <1>3, <1>4, <1>5, <1>6, TablesChange

-----------------------------------------------------------------------------
(* The end of an import *)

\* What is created is as the manifest has it.
LEMMA CreatedIs ==
  ASSUME IInv, NEW i \in Importers, At(i, "write"), NEW a \in DOMAIN run[i].plan
  PROVE  LET e == run[i].manifest.assets[a]
             new == Created(i, a)
         IN /\ new \in RowType
            /\ new.slug = run[i].manifest.slug /\ new.class = e.class
            /\ DOMAIN new.files = DOMAIN e.sha
            /\ \A r \in DOMAIN e.sha : /\ new.files[r].sha = e.sha[r]
                                       /\ new.files[r].status = run[i].plan[a].status[r]
<1> DEFINE m == run[i].manifest
           e == m.assets[a]
           status == run[i].plan[a].status
           files == [r \in DOMAIN e.sha |-> [sha |-> e.sha[r], status |-> status[r]]]
           new == [slug |-> m.slug, class |-> e.class, verified |-> e.verified,
                   words |-> e.words, files |-> files]
<1>1. m \in Manifests /\ e \in Entries /\ status \in [DOMAIN e.sha -> Statuses]
  BY WorkIs DEF At, Works, Planned
<1>2. Created(i, a) = new
  BY DEF Created
<1> HIDE DEF m, e, status
<1>3. \A r \in DOMAIN e.sha : [sha |-> e.sha[r], status |-> status[r]] \in FileRow
  BY <1>1, EntryIs DEF FileRow
<1>4. files \in [DOMAIN e.sha -> FileRow] /\ DOMAIN e.sha \in Roles
  BY <1>1, <1>3 DEF Roles
<1>5. DOMAIN files = DOMAIN e.sha
      /\ \A r \in DOMAIN e.sha : files[r].sha = e.sha[r] /\ files[r].status = status[r]
  OBVIOUS
<1> HIDE DEF files
<1>6. new \in RowType
  BY <1>1, <1>4, ManifestIs, EntryIs, RowMakes
<1> QED BY <1>2, <1>5, <1>6 DEF m, e, status

\* What is there is as the manifest has it, or the import has a conflict.
LEMMA NoConflict ==
  ASSUME IInv, NEW i \in Importers, At(i, "write"), ~Conflict(i),
         NEW a \in DOMAIN run[i].plan, run[i].plan[a].row # NoAsset
  PROVE  LET e == run[i].manifest.assets[a] IN
         /\ asset[a] \in RowType
         /\ asset[a].slug = run[i].manifest.slug /\ asset[a].class = e.class
         /\ DOMAIN asset[a].files = DOMAIN e.sha /\ DOMAIN run[i].plan[a].old = DOMAIN e.sha
         /\ \A r \in DOMAIN e.sha : asset[a].files[r].sha = e.sha[r]
<1> DEFINE e == run[i].manifest.assets[a]
           p == run[i].plan[a]
<1>1. Planned(p, e, asset[a]) /\ a \in Assets
  BY WorkIs DEF At, Works
<1>2. ~ConflictOf(i, a)
  BY DEF Conflict
<1>3. /\ p.row.slug = run[i].manifest.slug /\ p.row.class = e.class
      /\ DOMAIN p.old = DOMAIN e.sha /\ \A r \in DOMAIN e.sha : p.old[r].sha = e.sha[r]
  BY <1>2 DEF ConflictOf
<1>4. asset[a] \in RowType
  BY <1>1 DEF Planned, Seen, IInv, TypeOK
<1> QED BY <1>1, <1>3, <1>4 DEF Planned, Seen

LEMMA UpdatedIs ==
  ASSUME IInv, NEW i \in Importers, At(i, "write"), ~Conflict(i),
         NEW a \in DOMAIN run[i].plan, run[i].plan[a].row # NoAsset
  PROVE  LET p == run[i].plan[a]
             new == Updated(i, a)
         IN /\ new \in RowType /\ Stays(asset[a], new) /\ new.words = asset[a].words
            /\ \A r \in DOMAIN asset[a].files :
                 new.files[r].status = Changed(asset[a].files[r].status, p.old[r].status,
                                               p.status[r])
<1> DEFINE e == run[i].manifest.assets[a]
           p == run[i].plan[a]
           row == asset[a]
           verified == Changed(row.verified, p.row.verified, e.verified)
           status == [r \in DOMAIN row.files |-> Changed(row.files[r].status, p.old[r].status,
                                                         p.status[r])]
           files == [r \in DOMAIN row.files |-> [row.files[r] EXCEPT !.status = status[r]]]
           new == [slug |-> row.slug, class |-> row.class, verified |-> verified,
                   words |-> row.words, files |-> files]
<1>1. row \in RowType /\ DOMAIN row.files = DOMAIN e.sha
  BY NoConflict
<1>2. e \in Entries /\ p.status \in [DOMAIN e.sha -> Statuses]
  BY WorkIs DEF At, Works, Planned
<1>3. DOMAIN row.files \in Roles /\ row.files \in [DOMAIN row.files -> FileRow]
      /\ row.slug \in Slugs /\ row.class \in Classes /\ row.verified \in BOOLEAN
      /\ row.words \in AllWords
  BY <1>1, RowIs
<1>4. Updated(i, a) = [row EXCEPT !.verified = verified, !.files = files]
  BY DEF Updated
<1>5. verified \in BOOLEAN
  BY <1>2, <1>3, EntryIs DEF Changed
<1>6. \A r \in DOMAIN row.files : status[r] \in Statuses
  BY <1>1, <1>2, <1>3 DEF Changed, FileRow
<1>7. \A r \in DOMAIN row.files :
        status[r] = Changed(row.files[r].status, p.old[r].status, p.status[r])
  OBVIOUS
<1> HIDE DEF verified, status
<1>8. \A r \in DOMAIN row.files : /\ files[r] \in FileRow
                                  /\ files[r].sha = row.files[r].sha /\ files[r].status = status[r]
  BY <1>3, <1>6 DEF FileRow
<1>9. files \in [DOMAIN row.files -> FileRow] /\ DOMAIN files = DOMAIN row.files
  BY <1>8
<1> HIDE DEF files
<1>10. Updated(i, a) = new
  BY <1>1, <1>4, RowChanges
<1>11. new \in RowType
  BY <1>3, <1>5, <1>9, RowMakes
<1>12. Stays(row, new)
  BY <1>8, <1>9, <1>11, NoAssetIsNoRow DEF Stays
<1>13. new.words = row.words /\ new.files = files
  OBVIOUS
<1> HIDE DEF new
<1> QED BY <1>7, <1>8, <1>10, <1>11, <1>12, <1>13

\* What the end of an import makes of the rows.
LEMMA WriteRows ==
  ASSUME IInv, NEW i \in Importers, Write(i), NEW a \in Assets,
         NEW m, m = run[i].manifest
  PROVE  /\ asset'[a] \in RowType \cup {NoAsset} /\ Stays(asset[a], asset'[a])
         /\ asset[a] # NoAsset => asset'[a].words = asset[a].words
         /\ a \in DOMAIN m.assets => asset'[a] # NoAsset /\ Registered(a, m)'
         /\ asset'[a] # NoAsset => asset[a] # NoAsset \/ a \in DOMAIN m.assets
<1>1. /\ At(i, "write") /\ ~Conflict(i) /\ ~Clashes(i)
      /\ DOMAIN run[i].plan = DOMAIN m.assets
  BY WorkIs DEF Write, At, Works
<1>2. asset'[a] = IF a \notin DOMAIN run[i].plan THEN asset[a]
                  ELSE IF run[i].plan[a].row = NoAsset THEN Created(i, a)
                  ELSE Updated(i, a)
  BY DEF Write
<1>3. CASE a \notin DOMAIN run[i].plan
  <2>1. asset[a] \in RowType \cup {NoAsset}
    BY DEF IInv, TypeOK
  <2> QED BY <1>1, <1>2, <1>3, <2>1 DEF Stays
<1>4. CASE a \in DOMAIN run[i].plan /\ run[i].plan[a].row = NoAsset
  <2>1. asset[a] = NoAsset /\ asset'[a] = Created(i, a)
    BY <1>1, <1>2, <1>4 DEF Clashes
  <2> DEFINE e == m.assets[a]
  <2>2. /\ asset'[a] \in RowType
        /\ asset'[a].slug = m.slug /\ asset'[a].class = e.class
        /\ DOMAIN asset'[a].files = DOMAIN e.sha
        /\ \A r \in DOMAIN e.sha : asset'[a].files[r].sha = e.sha[r]
    BY <1>1, <1>4, <2>1, CreatedIs
  <2> QED BY <1>1, <1>4, <2>1, <2>2, NoAssetIsNoRow DEF Stays, Registered
<1>5. CASE a \in DOMAIN run[i].plan /\ run[i].plan[a].row # NoAsset
  <2>1. asset'[a] = Updated(i, a)
    BY <1>2, <1>5
  <2>2. /\ asset'[a] \in RowType /\ Stays(asset[a], asset'[a])
        /\ asset'[a].words = asset[a].words
    BY <1>1, <1>5, <2>1, UpdatedIs
  <2> DEFINE e == m.assets[a]
  <2>3. /\ asset[a] \in RowType
        /\ asset[a].slug = m.slug /\ asset[a].class = e.class
        /\ DOMAIN asset[a].files = DOMAIN e.sha
        /\ \A r \in DOMAIN e.sha : asset[a].files[r].sha = e.sha[r]
    BY <1>1, <1>5, NoConflict
  <2> QED BY <1>1, <1>5, <2>2, <2>3, NoAssetIsNoRow DEF Stays, Registered
<1> QED BY <1>3, <1>4, <1>5

LEMMA WriteTrips ==
  ASSUME IInv, NEW i \in Importers, Write(i)
  PROVE  /\ trip' \in [Slugs -> Names \cup {NoTrip}]
         /\ \A s \in Slugs : trip[s] # NoTrip => trip'[s] = trip[s]
         /\ trip'[run[i].manifest.slug] = run[i].manifest.name
<1> DEFINE m == run[i].manifest
<1>1. m \in Manifests /\ (run[i].trip # NoTrip => run[i].trip = trip[m.slug])
  BY WorkIs DEF Write, At, Works
<1>2. m.slug \in Slugs /\ m.name \in Names
  BY <1>1, ManifestIs
<1>3. /\ run[i].trip # NoTrip => run[i].trip = m.name
      /\ run[i].trip = NoTrip => trip[m.slug] = NoTrip
  BY DEF Write, Conflict, Clashes
<1>4. trip' = [trip EXCEPT ![m.slug] = IF run[i].trip = NoTrip THEN m.name ELSE @]
  BY DEF Write
<1>5. trip \in [Slugs -> Names \cup {NoTrip}]
  BY DEF IInv, TypeOK
<1> HIDE DEF m
<1> QED BY <1>1, <1>2, <1>3, <1>4, <1>5 DEF m

LEMMA WriteKeeps ==
  ASSUME IInv, NEW i \in Importers, Write(i)
  PROVE  IInv'
<1> PICK m : m = run[i].manifest
  OBVIOUS
<1>1. /\ m \in Manifests /\ imports' = imports \cup {m} /\ UNCHANGED <<disk, changes>>
      /\ run' = [run EXCEPT ![i] = [at |-> "idle"]]
      /\ calm' = [j \in Importers |-> j \notin Importers /\ calm[j]]
  BY WorkIs DEF Write, At, Goes, Disturbed
<1>2. /\ trip' \in [Slugs -> Names \cup {NoTrip}] /\ trip'[m.slug] = m.name
      /\ \A s \in Slugs : trip[s] # NoTrip => trip'[s] = trip[s]
  BY WriteTrips
<1>3. asset' \in [Assets -> RowType \cup {NoAsset}]
  <2>1. \A a \in Assets : asset'[a] \in RowType \cup {NoAsset}
    BY WriteRows
  <2>2. DOMAIN asset' = Assets /\ asset' = [a \in Assets |-> asset'[a]]
    BY DEF Write
  <2> QED BY <2>1, <2>2
<1>4. \A a \in Assets :
        /\ Stays(asset[a], asset'[a])
        /\ a \in DOMAIN m.assets => asset'[a] # NoAsset /\ Registered(a, m)'
        /\ asset'[a] # NoAsset => asset[a] # NoAsset \/ a \in DOMAIN m.assets
  BY WriteRows
<1>5. TypeOK'
  BY <1>1, <1>2, <1>3 DEF IInv, TypeOK
<1>6. ASSUME NEW n \in imports'
      PROVE  /\ trip'[n.slug] = n.name
             /\ \A a \in DOMAIN n.assets : asset'[a] # NoAsset /\ Registered(a, n)'
  <2>1. CASE n = m
    BY <1>1, <1>2, <1>4, <2>1, ManifestIs
  <2>2. CASE n \in imports
    <3>1. n \in Manifests
      BY <2>2 DEF IInv, TypeOK
    <3>2. n.slug \in Slugs /\ n.name # NoTrip /\ DOMAIN n.assets \subseteq Assets
      BY <3>1, ManifestIs, CatalogAssumption
    <3>3. trip[n.slug] = n.name
      BY <2>2 DEF IInv, CatalogIsImported
    <3>4. \A a \in DOMAIN n.assets : asset[a] # NoAsset /\ Registered(a, n)
      BY <2>2 DEF IInv, CatalogIsImported
    <3> QED BY <1>2, <1>4, <3>2, <3>3, <3>4 DEF Stays, Registered
  <2> QED BY <1>1, <2>1, <2>2
<1>7. ASSUME NEW a \in Assets, asset'[a] # NoAsset
      PROVE  \E n \in imports' : a \in DOMAIN n.assets
  BY <1>1, <1>4, <1>7 DEF IInv, CatalogIsImported
<1>8. CatalogIsImported'
  BY <1>6, <1>7 DEF CatalogIsImported
<1>9. \A j \in Importers : run'[j] = run[j] \/ run'[j].at = "idle"
  BY <1>1 DEF IInv, TypeOK
<1>10. \A j \in Importers : ~calm'[j]
  BY <1>1
<1> QED BY <1>2, <1>4, <1>5, <1>8, <1>9, <1>10, TablesChange

-----------------------------------------------------------------------------
(* The theorems *)

LEMMA NextKeeps ==
  ASSUME IInv, [Next]_vars
  PROVE  IInv'
<1>1. CASE \E i \in Importers : Runs(i)
  BY <1>1, ReadKeeps, LookUpKeeps, LookAtFilesKeeps, LoadRowsKeeps, WriteKeeps, LeaveKeeps
  DEF Runs
<1>2. CASE \E f \in Files : Change(f)
  BY <1>2, ChangeKeeps
<1>3. CASE \E a \in Assets : Edit(a)
  BY <1>3, EditKeeps
<1>4. CASE UNCHANGED vars
  BY <1>4 DEF vars, IInv, TypeOK, CatalogIsImported, Registered
<1> QED BY <1>1, <1>2, <1>3, <1>4 DEF Next

\* The inductive invariant of the next three.
THEOREM CatalogInvariant == Spec => []IInv
<1>1. Init => IInv
  BY InitHolds
<1>2. IInv /\ [Next]_vars => IInv'
  BY NextKeeps
<1> QED BY <1>1, <1>2, PTL DEF Spec

\* However imports overlap (import_manifest), the trips, assets and files of the catalog
\* are what the recorded imports say, all of it and nothing else.
THEOREM ImportsAreWhole == Spec => []CatalogIsImported
<1>1. IInv => CatalogIsImported
  BY DEF IInv
<1> QED BY <1>1, CatalogInvariant, PTL

WordsStay ==
  \A a \in Assets : asset[a] # NoAsset /\ asset'[a].words # asset[a].words
                      => run' = run /\ changes' # changes

\* An import leaves alone what people have written (editorial/repository.py), whatever it
\* has loaded and whatever its manifest says.
THEOREM WordsAreLeftAlone == Spec => WordsArePeoples
<1>1. IInv /\ [Next]_vars => [WordsStay]_vars
  <2> SUFFICES ASSUME IInv, Next, NEW a \in Assets, asset[a] # NoAsset,
                      asset'[a].words # asset[a].words
               PROVE  run' = run /\ changes' # changes
    BY DEF WordsStay
  <2>1. ASSUME NEW i \in Importers, Runs(i)
        PROVE  FALSE
    <3>1. Write(i)
      BY <2>1 DEF Runs, Read, LookUp, LookAtFiles, LoadRows, Leave
    <3> QED BY <3>1, WriteRows
  <2>2. ASSUME NEW f \in Files, Change(f)
        PROVE  FALSE
    BY <2>2 DEF Change
  <2>3. CASE \E b \in Assets : Edit(b)
    BY <2>3 DEF Edit, IInv, TypeOK
  <2> QED BY <2>1, <2>2, <2>3 DEF Next
<1> QED BY <1>1, CatalogInvariant, PTL DEF Spec, WordsArePeoples, WordsStay

CalmTells ==
  \A i \in Importers :
    Write(i) /\ calm[i] =>
      \A a \in DOMAIN run[i].manifest.assets :
        LET e == run[i].manifest.assets[a] IN
        \A r \in DOMAIN e.sha :
          LET told == asset'[a].files[r].status IN
          /\ Tells(told, e, r, disk[<<a, r>>], run[i].hashes)
          /\ asset[a] # NoAsset /\ asset[a].files[r].status = "HASH_MISMATCH" =>
               run[i].hashes \/ told # "AVAILABLE"

\* What an undisturbed import puts down of the files (_file_state) is true of the share, and
\* without hashes it does not clear a mismatch.
THEOREM CalmImportIsTrue == Spec => CalmImportTellsTheShare
<1>1. IInv /\ [Next]_vars => [CalmTells]_vars
  <2> SUFFICES ASSUME IInv, NEW i \in Importers, Write(i), calm[i],
                      NEW a \in DOMAIN run[i].manifest.assets,
                      NEW r \in DOMAIN run[i].manifest.assets[a].sha
               PROVE  /\ Tells(asset'[a].files[r].status, run[i].manifest.assets[a], r,
                               disk[<<a, r>>], run[i].hashes)
                      /\ asset[a] # NoAsset /\ asset[a].files[r].status = "HASH_MISMATCH" =>
                           run[i].hashes \/ asset'[a].files[r].status # "AVAILABLE"
    BY DEF CalmTells
  <2>1. /\ At(i, "write") /\ ~Conflict(i) /\ a \in Assets
        /\ DOMAIN run[i].plan = DOMAIN run[i].manifest.assets
    BY WorkIs DEF Write, At, Works
  <2>2. /\ run[i].plan[a].row # NoAsset => \A s \in DOMAIN asset[a].files :
             run[i].plan[a].old[s].status = asset[a].files[s].status
        /\ Tells(run[i].plan[a].status[r], run[i].manifest.assets[a], r, disk[<<a, r>>],
                 run[i].hashes)
        /\ run[i].plan[a].row # NoAsset => Kept(run[i], run[i].plan[a], r)
    BY <2>1 DEF At, IInv, Current
  <2>3. CASE run[i].plan[a].row = NoAsset
    <3>1. asset'[a] = Created(i, a)
      BY <2>1, <2>3 DEF Write
    <3>2. asset'[a].files[r].status = run[i].plan[a].status[r]
      BY <2>1, <3>1, CreatedIs
    <3>3. asset[a] = NoAsset
      BY <2>1, <2>3 DEF Write, Clashes
    <3> QED BY <2>2, <3>2, <3>3
  <2>4. CASE run[i].plan[a].row # NoAsset
    <3>1. asset'[a] = Updated(i, a)
      BY <2>1, <2>4 DEF Write
    <3>2. r \in DOMAIN asset[a].files
      BY <2>1, <2>4, NoConflict
    <3>3. asset'[a].files[r].status =
            Changed(asset[a].files[r].status, run[i].plan[a].old[r].status,
                    run[i].plan[a].status[r])
      BY <2>1, <2>4, <3>1, <3>2, UpdatedIs
    <3>4. asset'[a].files[r].status = run[i].plan[a].status[r]
      BY <2>2, <2>4, <3>2, <3>3 DEF Changed
    <3>5. r \in DOMAIN run[i].plan[a].old
      BY <2>1, <2>4, NoConflict
    <3> QED BY <2>2, <2>4, <3>2, <3>4, <3>5 DEF Kept
  <2> QED BY <2>3, <2>4
<1> QED BY <1>1, CatalogInvariant, PTL DEF Spec, CalmImportTellsTheShare, CalmTells
=============================================================================
