--------------------------- MODULE Records_proofs ----------------------------
(***************************************************************************)
(* Records that are made of files: the inventory of a source that the      *)
(* worker sends, and the derivatives of the catalog.                       *)
(*                                                                         *)
(* For every set of submits, confirmations, trips and paths, and whichever *)
(* answers are lost: the source of a job is in the file of the worker, and *)
(* in the copy of one that started after the submit, and an inventory      *)
(* makes one ingest of a trip.  The invariant ties the copies of an        *)
(* inventory together: the one of the run, the entries the server has of   *)
(* it so far, the one in the file and the worker's.  A run whose answers   *)
(* all arrived has left exactly what the server lacks, so that what is     *)
(* finalized is whole, and it has registered before it uploads.            *)
(*                                                                         *)
(* For any number of runs, derivatives, replaced originals and damaged     *)
(* files: what is READY has a file, and a run that nobody disturbed leaves *)
(* rows that tell the truth.  The invariant says that what a run holds is  *)
(* of its item, and that a calm run knows what is so and has put right     *)
(* what it has left.                                                       *)
(***************************************************************************)
EXTENDS Snapshots, Derivatives, TLAPS

-----------------------------------------------------------------------------
(* Inventories *)

Registries == UNION {[S -> Inventories] : S \in SUBSET Submits}

Places == {"idle", "create", "load", "register", "upload", "ended"}
SubmitRow == [at : Places, inventory : Inventories, known : Registries, revision : Nat,
              left : SUBSET Paths]
SnapRow == [status : {"ABSENT", "DRAFT", "FINALIZED"}, revision : Nat, entries : Inventories]
ConfirmRow == [at : {"idle"}] \cup [at : {"write", "done"}, snapshot : Submits, trip : Trips]

Type ==
  /\ card \in Inventories
  /\ submit \in [Submits -> SubmitRow]
  /\ registry \in Registries
  /\ snap \in [Submits -> SnapRow]
  /\ confirm \in [Confirms -> ConfirmRow]
  /\ worker \in [up : BOOLEAN, memory : Registries]

\* A registration is what its run took inventory of.
IsOf(r) == \A q \in DOMAIN r : /\ submit[q].at \in {"upload", "ended"}
                               /\ r[q] = submit[q].inventory

\* What the server has of a run, and that a run registers before it uploads.
Uploaded(p) ==
  /\ submit[p].at \in {"idle", "create", "load", "register"} =>
       snap[p].entries = Empty /\ snap[p].status # "FINALIZED"
  /\ submit[p].at = "upload" =>
       /\ snap[p].entries = Only(submit[p].inventory,
                                 DOMAIN submit[p].inventory \ submit[p].left)
       /\ submit[p].left \subseteq DOMAIN submit[p].inventory
       /\ snap[p].status # "FINALIZED"
       /\ p \in DOMAIN registry \cup crossed
  /\ snap[p].status = "FINALIZED" =>
       /\ snap[p].entries = submit[p].inventory
       /\ p \in DOMAIN registry \cup crossed

\* A confirmation is of a snapshot that is finalized.
Asked(c) ==
  confirm[c].at = "write" => /\ confirm[c].snapshot \in Submits
                             /\ snap[confirm[c].snapshot].status = "FINALIZED"

Made(g) ==
  /\ g.snapshot \in Submits /\ snap[g.snapshot].status = "FINALIZED"
  /\ g.items = snap[g.snapshot].entries
  /\ g.fingerprint = Fingerprint(g.items)

IInv ==
  /\ Type
  /\ IsOf(registry) /\ \A p \in Submits : IsOf(submit[p].known)
  /\ IsOf(worker.memory) /\ met \subseteq DOMAIN worker.memory
  /\ \A p \in Submits : Uploaded(p)
  /\ \A c \in Confirms : Asked(c)
  /\ \A g \in ingests : Made(g)
  /\ OneIngestOfAnInventory

-----------------------------------------------------------------------------
(* Inventories *)

LEMMA InventoryIs ==
  ASSUME NEW f \in Inventories
  PROVE /\ DOMAIN f \in SUBSET Paths /\ f = [x \in DOMAIN f |-> f[x]]
        /\ \A x \in DOMAIN f : f[x] \in Stats \X Ids
BY DEF Inventories

LEMMA EmptyIs == Empty \in Inventories /\ Empty \in Registries /\ DOMAIN Empty = {}
<1>1. \A S : Empty \in [{} -> S]
  BY DEF Empty
<1> QED BY <1>1 DEF Inventories, Registries, Empty

LEMMA OnlyIs ==
  ASSUME NEW f \in Inventories, NEW K \in SUBSET DOMAIN f
  PROVE Only(f, K) \in Inventories /\ DOMAIN Only(f, K) = K
<1>1. DOMAIN f \cap K = K /\ K \in SUBSET Paths
  BY InventoryIs
<1>2. Only(f, K) \in [K -> Stats \X Ids]
  BY <1>1, InventoryIs DEF Only
<1> QED BY <1>1, <1>2 DEF Inventories

LEMMA OnlyAll ==
  ASSUME NEW f \in Inventories
  PROVE Only(f, DOMAIN f) = f
BY InventoryIs DEF Only

LEMMA OnlyNone ==
  ASSUME NEW f \in Inventories
  PROVE Only(f, {}) = Empty
BY DEF Only, Empty

LEMMA JoinPages ==
  ASSUME NEW f \in Inventories, NEW K \in SUBSET DOMAIN f, NEW P \in SUBSET DOMAIN f
  PROVE Join(Only(f, K), Only(f, P)) = Only(f, K \cup P)
<1>1. DOMAIN Only(f, K) = K /\ DOMAIN Only(f, P) = P
  BY OnlyIs
<1>2. DOMAIN f \cap (K \cup P) = K \cup P
  OBVIOUS
<1>3. \A x \in K : Only(f, K)[x] = f[x]
  BY DEF Only
<1>4. \A x \in P : Only(f, P)[x] = f[x]
  BY DEF Only
<1>5. Join(Only(f, K), Only(f, P)) =
        [x \in K \cup P |-> IF x \in P THEN Only(f, P)[x] ELSE Only(f, K)[x]]
  BY <1>1 DEF Join
<1>6. Only(f, K \cup P) = [x \in K \cup P |-> f[x]]
  BY <1>2 DEF Only
<1> QED BY <1>3, <1>4, <1>5, <1>6

-----------------------------------------------------------------------------
(* A run *)

\* The runs that have registered keep their inventories.
LEMMA IsOfStays ==
  ASSUME NEW r, IsOf(r),
         \A q \in DOMAIN r : submit[q].at \in {"upload", "ended"} =>
           submit'[q].at \in {"upload", "ended"} /\ submit'[q].inventory = submit[q].inventory
  PROVE IsOf(r)'
BY DEF IsOf

\* A step of run p is right if it is right for p, and loses no registration unseen.
LEMMA RunKeeps ==
  ASSUME IInv, NEW p \in Submits, NEW entry \in SubmitRow, Goes(p, entry),
         submit[p].at \in {"upload", "ended"} =>
           entry.at \in {"upload", "ended"} /\ entry.inventory = submit[p].inventory,
         NEW now \in SnapRow, snap' = [snap EXCEPT ![p] = now],
         snap[p].status = "FINALIZED" => now = snap[p],
         registry' \in Registries, IsOf(registry)', IsOf(entry.known)',
         DOMAIN registry \cup crossed \subseteq DOMAIN registry' \cup crossed',
         UNCHANGED <<card, confirm, ingests, worker, met>>, Uploaded(p)'
  PROVE IInv'
<1>1. /\ submit'[p] = entry /\ \A q \in Submits \ {p} : submit'[q] = submit[q]
      /\ snap'[p] = now /\ \A q \in Submits \ {p} : snap'[q] = snap[q]
  BY DEF Goes, IInv, Type
<1>2. Type'
  BY DEF Goes, IInv, Type
<1>3. ASSUME NEW q \in Submits
      PROVE IsOf(submit[q].known)'
  <2>1. CASE q = p
    BY <1>1, <2>1
  <2>2. CASE q # p
    <3>1. submit[q].known \in Registries /\ IsOf(submit[q].known)
      BY DEF IInv, Type, SubmitRow
    <3>2. DOMAIN submit[q].known \subseteq Submits
      BY <3>1 DEF Registries
    <3>3. submit'[q].known = submit[q].known
      BY <1>1, <2>2
    <3> QED BY <1>1, <3>1, <3>2, <3>3 DEF IsOf
  <2> QED BY <2>1, <2>2
<1>4. ASSUME NEW q \in Submits
      PROVE Uploaded(q)'
  <2>1. CASE q # p
    BY <1>1, <2>1 DEF IInv, Uploaded
  <2> QED BY <2>1
<1>5. \A q \in Submits : snap[q].status = "FINALIZED" => snap'[q] = snap[q]
  BY <1>1
<1>6. \A c \in Confirms : Asked(c)'
  BY <1>5 DEF IInv, Asked
<1>7. \A g \in ingests : Made(g)'
  BY <1>5 DEF IInv, Made
<1>8. IsOf(worker.memory)'
  <2>1. DOMAIN worker.memory \subseteq Submits /\ IsOf(worker.memory)
    BY DEF IInv, Type, Registries
  <2> QED BY <1>1, <2>1 DEF IsOf
<1> QED BY <1>2, <1>3, <1>4, <1>6, <1>7, <1>8 DEF IInv, OneIngestOfAnInventory

\* A step that leaves the file of registrations alone.
LEMMA RunsOn ==
  ASSUME IInv, NEW p \in Submits, NEW entry \in SubmitRow, Goes(p, entry),
         submit[p].at \in {"upload", "ended"} =>
           entry.at \in {"upload", "ended"} /\ entry.inventory = submit[p].inventory,
         entry.known \in {submit[p].known, registry, Empty},
         NEW now \in SnapRow, snap' = [snap EXCEPT ![p] = now],
         snap[p].status = "FINALIZED" => now = snap[p],
         UNCHANGED <<card, registry, crossed, confirm, ingests, worker, met>>, Uploaded(p)'
  PROVE IInv'
<1>1. submit'[p] = entry /\ \A q \in Submits \ {p} : submit'[q] = submit[q]
  BY DEF Goes, IInv, Type
<1>2. \A q \in Submits : submit[q].at \in {"upload", "ended"} =>
        submit'[q].at \in {"upload", "ended"} /\ submit'[q].inventory = submit[q].inventory
  BY <1>1
<1>3. ASSUME NEW r \in Registries, IsOf(r)
      PROVE IsOf(r)'
  <2>1. DOMAIN r \subseteq Submits
    BY DEF Registries
  <2> QED BY <1>2, <1>3, <2>1 DEF IsOf
<1>4. registry' \in Registries /\ IsOf(registry)'
  BY <1>3 DEF IInv, Type
<1>5. entry.known \in Registries /\ IsOf(entry.known)
  BY EmptyIs DEF IInv, Type, SubmitRow, IsOf
<1>6. IsOf(entry.known)'
  BY <1>3, <1>5
<1> QED BY <1>4, <1>6, RunKeeps

LEMMA TakeKeeps ==
  ASSUME IInv, NEW p \in Submits, Take(p)
  PROVE IInv'
<1> DEFINE entry == [NotBegun EXCEPT !.at = "create", !.inventory = card]
<1>1. submit[p].at = "idle" /\ Goes(p, entry) /\ snap' = snap
      /\ UNCHANGED <<card, registry, crossed, confirm, ingests, worker, met>>
  BY DEF Take, At, workerVars
<1>2. entry \in SubmitRow /\ entry.at = "create" /\ entry.known = Empty
  BY EmptyIs DEF NotBegun, SubmitRow, Places, IInv, Type
<1> HIDE DEF entry
<1>3. submit'[p] = entry
  BY <1>1 DEF Goes, IInv, Type
<1>4. snap[p] \in SnapRow /\ snap' = [snap EXCEPT ![p] = snap[p]]
  BY <1>1 DEF IInv, Type
<1>5. Uploaded(p)'
  BY <1>1, <1>2, <1>3 DEF Uploaded, IInv
<1> QED BY <1>1, <1>2, <1>4, <1>5, RunsOn

\* A run that has not ended and its snapshot.
LEMMA RunRows ==
  ASSUME IInv, NEW p \in Submits
  PROVE /\ submit[p] \in SubmitRow /\ snap[p] \in SnapRow
        /\ submit[p].inventory \in Inventories /\ snap[p].entries \in Inventories
        /\ submit[p].at \notin {"ended"} => Uploaded(p)
BY DEF IInv, Type, SubmitRow, SnapRow

\* The client has no answer: the run ends, whatever the server has done.
LEMMA NoAnswerKeeps ==
  ASSUME IInv, NEW p \in Submits, Goes(p, [submit[p] EXCEPT !.at = "ended"]),
         submit[p].at # "idle",
         NEW now \in SnapRow, snap' = [snap EXCEPT ![p] = now],
         snap[p].status = "FINALIZED" => now = snap[p],
         now.status = "FINALIZED" => now = snap[p],
         UNCHANGED <<card, registry, crossed, confirm, ingests, worker, met>>
  PROVE IInv'
<1> DEFINE entry == [submit[p] EXCEPT !.at = "ended"]
<1>1. /\ entry \in SubmitRow /\ entry.at = "ended" /\ entry.known = submit[p].known
      /\ entry.inventory = submit[p].inventory
  BY RunRows DEF SubmitRow, Places
<1>2. Goes(p, entry)
  OBVIOUS
<1> HIDE DEF entry
<1>3. submit'[p] = entry /\ snap'[p] = now
  BY <1>2 DEF Goes, IInv, Type
<1>4. Uploaded(p)'
  BY <1>1, <1>3 DEF Uploaded, IInv
<1> QED BY <1>1, <1>2, <1>4, RunsOn

LEMMA CreateKeeps ==
  ASSUME IInv, NEW p \in Submits, Create(p)
  PROVE IInv'
<1> DEFINE entry == [submit[p] EXCEPT !.at = "load"]
           now == [snap[p] EXCEPT !.status = "DRAFT"]
<1>1. /\ submit[p].at = "create" /\ snap' = [snap EXCEPT ![p] = now]
      /\ UNCHANGED <<card, registry, crossed, confirm, ingests, worker, met>>
      /\ Goes(p, entry) \/ Goes(p, [submit[p] EXCEPT !.at = "ended"])
  BY DEF Create, At, Answered, workerVars
<1>2. Uploaded(p) /\ snap[p].status # "FINALIZED" /\ snap[p].entries = Empty
  BY <1>1 DEF IInv, Uploaded
<1>3. now \in SnapRow /\ now.status = "DRAFT" /\ now.entries = Empty
  BY <1>2, RunRows DEF SnapRow
<1>4. entry \in SubmitRow /\ entry.at = "load" /\ entry.known = submit[p].known
  BY RunRows DEF SubmitRow, Places
<1> HIDE DEF entry, now
<1>5. CASE Goes(p, entry)
  <2>1. submit'[p] = entry /\ snap'[p] = now
    BY <1>1, <1>5 DEF Goes, IInv, Type
  <2>2. Uploaded(p)'
    BY <1>3, <1>4, <2>1 DEF Uploaded
  <2> QED BY <1>1, <1>2, <1>3, <1>4, <1>5, <2>2, RunsOn
<1>6. CASE Goes(p, [submit[p] EXCEPT !.at = "ended"])
  BY <1>1, <1>2, <1>3, <1>6, NoAnswerKeeps
<1> QED BY <1>1, <1>5, <1>6

LEMMA LoadKeeps ==
  ASSUME IInv, NEW p \in Submits, Load(p)
  PROVE IInv'
<1> DEFINE entry == [submit[p] EXCEPT !.at = "register", !.known = registry]
<1>1. /\ submit[p].at = "load" /\ Goes(p, entry) /\ snap' = snap
      /\ UNCHANGED <<card, registry, crossed, confirm, ingests, worker, met>>
  BY DEF Load, At, workerVars
<1>2. entry \in SubmitRow /\ entry.at = "register" /\ entry.known = registry
  <2>1. registry \in Registries /\ submit[p] \in SubmitRow
    BY RunRows DEF IInv, Type
  <2> QED BY <2>1 DEF SubmitRow, Places
<1> HIDE DEF entry
<1>3. submit'[p] = entry
  BY <1>1 DEF Goes, IInv, Type
<1>4. snap[p] \in SnapRow /\ snap' = [snap EXCEPT ![p] = snap[p]]
  BY <1>1 DEF IInv, Type
<1>5. Uploaded(p)'
  BY <1>1, <1>2, <1>3 DEF Uploaded, IInv
<1> QED BY <1>1, <1>2, <1>4, <1>5, RunsOn

\* The file is written with what was loaded and what is new; the rest is known as crossed.
LEMMA RegisterKeeps ==
  ASSUME IInv, NEW p \in Submits, Register(p)
  PROVE IInv'
<1>1. /\ submit[p].at = "register" /\ snap' = snap
      /\ registry' = Persisted(p)
      /\ crossed' = crossed \cup (DOMAIN registry \ DOMAIN submit[p].known)
      /\ UNCHANGED <<card, confirm, ingests, worker, met>>
  BY DEF Register, At, workerVars
<1>2. PICK inventory \in Inventories : inventory = submit[p].inventory
  BY RunRows
<1>3. PICK known \in Registries : known = submit[p].known
  BY RunRows DEF SubmitRow
<1>4. /\ submit[p] \in SubmitRow /\ snap[p] \in SnapRow
      /\ snap[p].entries = Empty /\ snap[p].status # "FINALIZED"
  BY <1>1, RunRows DEF Uploaded
<1>5. PICK entry \in SubmitRow :
        /\ Goes(p, entry) /\ entry.at = "upload" /\ entry.left = DOMAIN inventory
        /\ entry.known = known /\ entry.inventory = inventory
  <2> DEFINE new == [submit[p] EXCEPT !.at = "upload", !.left = DOMAIN inventory]
  <2>1. /\ new \in SubmitRow /\ new.at = "upload" /\ new.left = DOMAIN inventory
        /\ new.known = known /\ new.inventory = inventory
    BY <1>2, <1>3, <1>4, InventoryIs DEF SubmitRow, Places
  <2>2. Goes(p, new)
    BY <1>2 DEF Register
  <2> QED BY <2>1, <2>2
<1>6. submit'[p] = entry /\ \A q \in Submits \ {p} : submit'[q] = submit[q]
  BY <1>5 DEF Goes, IInv, Type
<1>7. registry' = [x \in DOMAIN known \cup {p} |-> IF x = p THEN inventory ELSE known[x]]
  <2>1. DOMAIN Own(p) = {p} /\ Own(p)[p] = inventory
    BY <1>2 DEF Own
  <2> QED BY <1>1, <1>3, <2>1 DEF Persisted, Join
<1>8. DOMAIN known \subseteq Submits /\ \A q \in DOMAIN known : known[q] \in Inventories
  BY DEF Registries
<1>9. registry' \in Registries
  <2>1. registry' \in [DOMAIN known \cup {p} -> Inventories]
    BY <1>7, <1>8
  <2> QED BY <1>8, <2>1 DEF Registries
<1>10. \A q \in DOMAIN known : /\ submit[q].at \in {"upload", "ended"}
                               /\ known[q] = submit[q].inventory /\ q # p
  BY <1>1, <1>3 DEF IInv, IsOf
<1>11. IsOf(entry.known)'
  BY <1>5, <1>6, <1>8, <1>10 DEF IsOf
<1>12. IsOf(registry)'
  <2>1. DOMAIN registry' = DOMAIN known \cup {p}
    BY <1>7
  <2>2. ASSUME NEW q \in DOMAIN known \cup {p}
        PROVE submit'[q].at \in {"upload", "ended"} /\ registry'[q] = submit'[q].inventory
    BY <1>5, <1>6, <1>7, <1>8, <1>10
  <2> QED BY <2>1, <2>2 DEF IsOf
<1>13. /\ DOMAIN registry \cup crossed \subseteq DOMAIN registry' \cup crossed'
       /\ p \in DOMAIN registry'
  BY <1>1, <1>3, <1>7
<1>14. Uploaded(p)'
  BY <1>1, <1>4, <1>5, <1>6, <1>13, OnlyNone DEF Uploaded
<1>15. snap' = [snap EXCEPT ![p] = snap[p]]
  BY <1>1 DEF IInv, Type
<1> QED BY <1>1, <1>4, <1>5, <1>9, <1>11, <1>12, <1>13, <1>14, <1>15, RunKeeps

LEMMA AppendKeeps ==
  ASSUME IInv, NEW p \in Submits, Append(p)
  PROVE IInv'
<1>1. PICK page \in SUBSET submit[p].left :
        /\ snap' = [snap EXCEPT ![p].entries = Join(@, Only(submit[p].inventory, page)),
                                ![p].revision = @ + 1]
        /\ Answered(p, [submit[p] EXCEPT !.left = @ \ page, !.revision = @ + 1])
  BY DEF Append, Pages
<1>2. /\ submit[p].at = "upload" /\ snap[p].status = "DRAFT"
      /\ UNCHANGED <<card, registry, crossed, confirm, ingests, worker, met>>
  BY DEF Append, At, Open, workerVars
<1>3. /\ submit[p] \in SubmitRow /\ snap[p] \in SnapRow /\ Uploaded(p)
  BY <1>2, RunRows
<1>4. PICK inventory \in Inventories : inventory = submit[p].inventory
  BY RunRows
<1>5. PICK left \in SUBSET DOMAIN inventory : left = submit[p].left
  BY <1>2, <1>3, <1>4 DEF Uploaded
<1>6. PICK now \in SnapRow :
        /\ snap' = [snap EXCEPT ![p] = now] /\ now.status = "DRAFT"
        /\ now.entries = Only(inventory, DOMAIN inventory \ (left \ page))
  <2> DEFINE entries == Join(snap[p].entries, Only(inventory, page))
             revision == snap[p].revision + 1
             new == [snap[p] EXCEPT !.entries = entries, !.revision = revision]
  <2>1. snap[p].entries = Only(inventory, DOMAIN inventory \ left)
    BY <1>2, <1>3, <1>4, <1>5 DEF Uploaded
  <2>2. entries = Only(inventory, (DOMAIN inventory \ left) \cup page)
    BY <1>5, <2>1, JoinPages
  <2>3. (DOMAIN inventory \ left) \cup page = DOMAIN inventory \ (left \ page)
    BY <1>5
  <2>4. Only(inventory, DOMAIN inventory \ (left \ page)) \in Inventories
    BY OnlyIs
  <2>5. snap' = [snap EXCEPT ![p] = new]
    BY <1>1, <1>4 DEF IInv, Type, SnapRow
  <2> HIDE DEF entries
  <2>6. entries \in Inventories /\ revision \in Nat
    <3>1. revision \in Nat
      BY <1>3 DEF SnapRow
    <3> QED BY <2>2, <2>3, <2>4, <3>1
  <2> HIDE DEF revision
  <2>7. new \in SnapRow /\ new.status = "DRAFT" /\ new.entries = entries
    BY <1>2, <1>3, <2>6 DEF SnapRow
  <2> HIDE DEF new
  <2> QED BY <2>2, <2>3, <2>5, <2>7
<1>7. PICK entry \in SubmitRow :
        /\ Answered(p, entry) /\ entry.at = "upload" /\ entry.left = left \ page
        /\ entry.inventory = inventory /\ entry.known = submit[p].known
  <2> DEFINE rest == submit[p].left \ page
             revision == submit[p].revision + 1
             new == [submit[p] EXCEPT !.left = rest, !.revision = revision]
  <2>1. Answered(p, new)
    BY <1>1 DEF SubmitRow
  <2>2. rest = left \ page /\ rest \in SUBSET Paths /\ revision \in Nat
    BY <1>3, <1>5 DEF SubmitRow
  <2> HIDE DEF rest, revision
  <2>3. /\ new \in SubmitRow /\ new.at = "upload" /\ new.left = left \ page
        /\ new.inventory = inventory /\ new.known = submit[p].known
    BY <1>2, <1>3, <1>4, <2>2 DEF SubmitRow
  <2> HIDE DEF new
  <2> QED BY <2>1, <2>3
<1>8. CASE Goes(p, entry)
  <2>1. submit'[p] = entry /\ snap'[p] = now
    BY <1>6, <1>8 DEF Goes, IInv, Type
  <2>2. Uploaded(p)'
    BY <1>2, <1>3, <1>6, <1>7, <2>1 DEF Uploaded
  <2> QED BY <1>2, <1>4, <1>6, <1>7, <1>8, <2>2, RunsOn
<1>9. CASE Goes(p, [submit[p] EXCEPT !.at = "ended"])
  BY <1>2, <1>6, <1>9, NoAnswerKeeps
<1> QED BY <1>7, <1>8, <1>9 DEF Answered

\* What is finalized is whole.
LEMMA FinalizeKeeps ==
  ASSUME IInv, NEW p \in Submits, Finalize(p)
  PROVE IInv'
<1> DEFINE entry == [submit[p] EXCEPT !.at = "ended"]
<1>1. /\ submit[p].at = "upload" /\ submit[p].left = {} /\ snap[p].status = "DRAFT"
      /\ Goes(p, entry) /\ UNCHANGED <<card, registry, crossed, confirm, ingests, worker, met>>
  BY DEF Finalize, At, Open, workerVars
<1>2. /\ submit[p] \in SubmitRow /\ snap[p] \in SnapRow /\ Uploaded(p)
  BY <1>1, RunRows
<1>3. /\ entry \in SubmitRow /\ entry.at = "ended" /\ entry.inventory = submit[p].inventory
      /\ entry.known = submit[p].known
  BY <1>2 DEF SubmitRow, Places
<1> HIDE DEF entry
<1>4. PICK now \in SnapRow :
        /\ snap' = [snap EXCEPT ![p] = now] /\ now.entries = snap[p].entries
  <2> DEFINE revision == snap[p].revision + 1
             new == [snap[p] EXCEPT !.status = "FINALIZED", !.revision = revision]
  <2>1. snap' = [snap EXCEPT ![p] = new]
    BY DEF Finalize, IInv, Type, SnapRow
  <2>2. revision \in Nat
    BY <1>2 DEF SnapRow
  <2> HIDE DEF revision
  <2>3. new \in SnapRow /\ new.entries = snap[p].entries
    BY <1>2, <2>2 DEF SnapRow
  <2> QED BY <2>1, <2>3
<1>5. submit'[p] = entry /\ snap'[p] = now
  BY <1>1, <1>4 DEF Goes, IInv, Type
<1>6. snap[p].entries = submit[p].inventory
  BY <1>1, <1>2, RunRows, OnlyAll DEF Uploaded
<1>7. Uploaded(p)'
  BY <1>1, <1>2, <1>3, <1>4, <1>5, <1>6 DEF Uploaded
<1> QED BY <1>1, <1>3, <1>4, <1>7, RunsOn

LEMMA EndKeeps ==
  ASSUME IInv, NEW p \in Submits, End(p)
  PROVE IInv'
<1>1. snap[p] \in SnapRow /\ snap' = [snap EXCEPT ![p] = snap[p]]
  BY DEF End, IInv, Type
<1> QED BY <1>1, NoAnswerKeeps DEF End, workerVars

-----------------------------------------------------------------------------
(* Confirmations and the others *)

\* Whatever is not a step of a run leaves the runs and their snapshots as they are.
LEMMA OthersKeep ==
  ASSUME IInv, UNCHANGED <<submit, registry, snap, crossed, worker, met>>,
         card' \in Inventories, confirm' \in [Confirms -> ConfirmRow],
         \A c \in Confirms : Asked(c)', \A g \in ingests' : Made(g), OneIngestOfAnInventory'
  PROVE IInv'
<1>1. Type'
  BY DEF IInv, Type
<1>2. IsOf(registry)' /\ (\A p \in Submits : IsOf(submit[p].known)') /\ IsOf(worker.memory)'
  BY DEF IInv, IsOf
<1>3. \A p \in Submits : Uploaded(p)'
  BY DEF IInv, Uploaded
<1>4. \A g \in ingests' : Made(g)'
  BY DEF Made
<1> QED BY <1>1, <1>2, <1>3, <1>4 DEF IInv

LEMMA AskKeeps ==
  ASSUME IInv, NEW c \in Confirms, Ask(c)
  PROVE IInv'
<1>1. PICK s \in Submits, t \in Trips :
        /\ snap[s].status = "FINALIZED"
        /\ confirm' = [confirm EXCEPT ![c] = [at |-> "write", snapshot |-> s, trip |-> t]]
  BY DEF Ask
<1>2. UNCHANGED <<card, submit, registry, snap, crossed, ingests, worker, met>>
  BY DEF Ask, workerVars
<1> DEFINE entry == [at |-> "write", snapshot |-> s, trip |-> t]
<1>3. entry \in ConfirmRow /\ entry.snapshot = s
  BY DEF ConfirmRow
<1> HIDE DEF entry
<1>4. confirm' = [confirm EXCEPT ![c] = entry]
  BY <1>1 DEF entry
<1>5. confirm' \in [Confirms -> ConfirmRow]
  BY <1>3, <1>4 DEF IInv, Type
<1>6. \A d \in Confirms : Asked(d)'
  BY <1>1, <1>2, <1>3, <1>4 DEF Asked, IInv, Type
<1> QED BY <1>2, <1>5, <1>6, OthersKeep DEF IInv, Type, OneIngestOfAnInventory

\* The first confirmation of an inventory makes the ingest, the others find it.
LEMMA EnqueueKeeps ==
  ASSUME IInv, NEW c \in Confirms, Enqueue(c)
  PROVE IInv'
<1> DEFINE s == confirm[c].snapshot
           f == Fingerprint(snap[s].entries)
           new == [id |-> c, trip |-> confirm[c].trip, snapshot |-> s,
                   fingerprint |-> f, items |-> snap[s].entries]
           entry == [confirm[c] EXCEPT !.at = "done"]
<1>1. /\ confirm[c].at = "write" /\ UNCHANGED <<card, submit, registry, snap, crossed, worker, met>>
      /\ ingests' = IF Taken(confirm[c].trip, f) THEN ingests ELSE ingests \cup {new}
      /\ confirm' = [confirm EXCEPT ![c] = entry]
  BY DEF Enqueue, workerVars
<1>2. confirm[c] \in ConfirmRow /\ s \in Submits /\ snap[s].status = "FINALIZED"
  BY <1>1 DEF IInv, Type, Asked
<1>3. entry \in ConfirmRow /\ entry.at = "done"
  BY <1>1, <1>2 DEF ConfirmRow
<1> HIDE DEF entry
<1>4. confirm' \in [Confirms -> ConfirmRow] /\ \A d \in Confirms : Asked(d)'
  BY <1>1, <1>3 DEF IInv, Type, Asked
<1>5. CASE Taken(confirm[c].trip, f)
  BY <1>1, <1>4, <1>5, OthersKeep DEF IInv, Type, OneIngestOfAnInventory
<1>6. CASE ~Taken(confirm[c].trip, f)
  <2>1. Made(new) /\ new.trip = confirm[c].trip /\ new.fingerprint = f
        /\ Fingerprint(new.items) = f
    BY <1>2 DEF Made
  <2> HIDE DEF new, f
  <2>2. ingests' = ingests \cup {new}
    BY <1>1, <1>6
  <2>3. \A g \in ingests : g.trip = new.trip => Fingerprint(g.items) # f
    BY <1>6, <2>1 DEF Taken, IInv, Made
  <2>4. \A g \in ingests' : Made(g)
    BY <2>1, <2>2 DEF IInv
  <2>5. OneIngestOfAnInventory'
    BY <2>1, <2>2, <2>3 DEF IInv, OneIngestOfAnInventory
  <2> QED BY <1>1, <1>4, <2>4, <2>5, OthersKeep DEF IInv, Type
<1> QED BY <1>5, <1>6

\* The worker takes the file as it is, or has nothing.
LEMMA WorkerKeeps ==
  ASSUME IInv, StartWorker \/ GoesDown
  PROVE IInv'
<1>1. UNCHANGED <<card, submit, registry, snap, crossed, confirm, ingests>>
  BY DEF StartWorker, GoesDown
<1>2. /\ worker' \in [up : BOOLEAN, memory : Registries] /\ IsOf(worker'.memory)
      /\ met' \subseteq DOMAIN worker'.memory
  <2>1. CASE StartWorker
    <3>1. worker' = [up |-> TRUE, memory |-> registry] /\ registry \in Registries
      BY <2>1 DEF StartWorker, IInv, Type
    <3>2. \A p \in met' : p \in DOMAIN registry
      BY <2>1 DEF StartWorker, IInv, Uploaded
    <3> QED BY <3>1, <3>2 DEF IInv
  <2>2. CASE GoesDown
    <3>1. worker' = [up |-> FALSE, memory |-> Empty] /\ met' = {}
      BY <2>2 DEF GoesDown, Down
    <3> QED BY <3>1, EmptyIs DEF IsOf
  <2> QED BY <2>1, <2>2
<1>3. Type'
  BY <1>1, <1>2 DEF IInv, Type
<1>4. IsOf(registry)' /\ (\A p \in Submits : IsOf(submit[p].known)') /\ IsOf(worker.memory)'
  BY <1>1, <1>2 DEF IInv, IsOf
<1>5. (\A p \in Submits : Uploaded(p)') /\ (\A c \in Confirms : Asked(c)')
  BY <1>1 DEF IInv, Uploaded, Asked
<1>6. (\A g \in ingests : Made(g)') /\ OneIngestOfAnInventory'
  BY <1>1 DEF IInv, Made, OneIngestOfAnInventory
<1> QED BY <1>1, <1>2, <1>3, <1>4, <1>5, <1>6 DEF IInv

-----------------------------------------------------------------------------
(* Theorems *)

LEMMA InitInv == Init => IInv
<1> SUFFICES ASSUME Init PROVE IInv
  OBVIOUS
<1>1. NotBegun \in SubmitRow /\ NotBegun.known = Empty /\ NotBegun.at = "idle"
  BY EmptyIs DEF NotBegun, SubmitRow, Places
<1>2. Absent \in SnapRow /\ Absent.entries = Empty /\ Absent.status = "ABSENT"
  BY EmptyIs DEF Absent, SnapRow
<1>3. Type
  BY <1>1, <1>2, EmptyIs DEF Init, Type, ConfirmRow, Down
<1> QED BY <1>1, <1>2, <1>3, EmptyIs DEF IInv, Init, IsOf, Uploaded, Asked, Down,
                                         OneIngestOfAnInventory

LEMMA NextKeeps == IInv /\ [Next]_vars => IInv'
<1> SUFFICES ASSUME IInv, [Next]_vars PROVE IInv'
  OBVIOUS
<1>1. CASE \/ UNCHANGED vars \/ Edit
           \/ \E p \in Submits : Expire(p)
  <2>1. UNCHANGED <<submit, registry, snap, crossed, confirm, ingests, worker, met>> /\ card' \in Inventories
    BY <1>1 DEF vars, workerVars, Edit, Expire, IInv, Type
  <2>2. (\A c \in Confirms : Asked(c)') /\ OneIngestOfAnInventory'
    BY <2>1 DEF IInv, Asked, OneIngestOfAnInventory
  <2> QED BY <2>1, <2>2, OthersKeep DEF IInv, Type
<1>2. ASSUME NEW p \in Submits, Runs(p)
      PROVE IInv'
  BY <1>2, TakeKeeps, CreateKeeps, LoadKeeps, RegisterKeeps, AppendKeeps, FinalizeKeeps, EndKeeps
     DEF Runs
<1>3. ASSUME NEW c \in Confirms, Confirming(c)
      PROVE IInv'
  BY <1>3, AskKeeps, EnqueueKeeps DEF Confirming
<1>4. CASE StartWorker \/ StopWorker \/ \E g \in ingests : Miss(g)
  BY <1>4, WorkerKeeps DEF StopWorker, Miss
<1> QED BY <1>1, <1>2, <1>3, <1>4 DEF Next

\* The inventory of a run, the server's copy and the file of the worker agree
\* (worker/snapshots.py, api/routes/sources.py).
THEOREM SnapshotInvariant == Spec => []IInv
<1>1. Init => IInv
  BY InitInv
<1>2. IInv /\ [Next]_vars => IInv'
  BY NextKeeps
<1> QED BY <1>1, <1>2, PTL DEF Spec

\* Whichever answers are lost and whichever submits end half way, the file of the worker has
\* the inventory a job lists, and so has the copy of a worker that started after that was
\* submitted; no copy ever has another one (worker/snapshots.py, cli/worker.py).
THEOREM JobsFindTheirSource == Spec => []JobFindsItsSource
<1>1. IInv => JobFindsItsSource
  <2> SUFFICES ASSUME IInv, NEW g \in ingests
               PROVE /\ g.snapshot \notin crossed =>
                          g.snapshot \in DOMAIN registry /\ registry[g.snapshot] = g.items
                     /\ g.snapshot \in DOMAIN worker.memory =>
                          worker.memory[g.snapshot] = g.items
                     /\ g.snapshot \in met => g.snapshot \in DOMAIN worker.memory
    BY DEF JobFindsItsSource
  <2>1. Made(g) /\ Uploaded(g.snapshot)
    BY DEF IInv, Made
  <2> QED BY <2>1 DEF IInv, Made, Uploaded, IsOf
<1> QED BY <1>1, SnapshotInvariant, PTL

\* Confirmations that overlap make one ingest of an inventory (api/routes/ingests.py).
THEOREM InventoriesAreIngestedOnce == Spec => []OneIngestOfAnInventory
<1>1. IInv => OneIngestOfAnInventory
  BY DEF IInv
<1> QED BY <1>1, SnapshotInvariant, PTL

-----------------------------------------------------------------------------
(* Derivatives *)

Hashes == Contents \cup {Gone}
DerivativeRow == [status : {"READY", "ERROR"}, source : Hashes, output : Hashes]
Fields == {"at", "left", "known", "item", "source", "loaded", "temp", "failed"}

\* A run at work: what it holds is of its item, which it has not left yet, and what it is
\* about to commit has a file.
Works(q, rows, files) ==
  q.at # "idle" =>
    /\ DOMAIN q = Fields
    /\ q.left \subseteq Items /\ q.failed \subseteq Items \ q.left
    /\ q.source \in Hashes /\ q.temp \in Hashes
    /\ DOMAIN q.known \subseteq Assets
    /\ q.at # "next" => q.item \in q.left
    /\ q.at \in {"next", "record"} => q.loaded = NoRow
    /\ q.loaded # NoRow => q.item \in Items /\ rows[q.item] # NoRow /\ q.loaded \in DerivativeRow
    /\ q.at \in {"replace", "commit"} => q.temp \in Contents
    /\ q.at = "commit" => files[q.item] # Gone

\* The row of k tells the truth of it, and the run with these failures will, too.
Right(k, failed, originals, there, r, f) ==
  /\ r # NoRow
  /\ r.status = "READY" <=> k \notin failed
  /\ r.status = "READY" => there[k[1]] /\ r.source = originals[k[1]] /\ f = r.output

\* A run that nobody disturbed knows what is so, and has put right what it left.
Current(q, originals, there, rows, files) ==
  q.at # "idle" =>
    /\ \A a \in DOMAIN q.known : q.known[a] = there[a]
    /\ \A k \in Items \ q.left : Right(k, q.failed, originals, there, rows[k], files[k])
    /\ q.at \in {"record", "render", "replace", "commit"} =>
         there[q.item[1]] /\ q.source = originals[q.item[1]]
    /\ q.at \in {"render", "replace", "commit"} => q.loaded = rows[q.item]
    /\ q.at \in {"replace", "commit"} => q.temp = q.source
    /\ q.at = "commit" => files[q.item] = q.temp

TypeOK ==
  /\ original \in [Assets -> Hashes]
  /\ available \in [Assets -> BOOLEAN]
  /\ row \in [Items -> DerivativeRow \cup {NoRow}]
  /\ file \in [Items -> Hashes \cup {Damaged}]
  /\ DOMAIN run = Runners
  /\ calm \in [Runners -> BOOLEAN]

DerivativeInv ==
  /\ TypeOK
  /\ \A g \in Runners : Works(run[g], row, file)
  /\ \A g \in Runners : calm[g] => Current(run[g], original, available, row, file)
  /\ ReadyHasAFile

-----------------------------------------------------------------------------
(* What a run holds *)

LEMMA Values ==
  /\ Gone \in Hashes /\ Gone \notin Contents /\ Damaged # Gone
  /\ Contents \subseteq Hashes
  /\ NoRow \notin DerivativeRow
BY DerivativeAssumption DEF Hashes, DerivativeRow

LEMMA RowIs ==
  ASSUME NEW status \in {"READY", "ERROR"}, NEW source \in Hashes, NEW output \in Hashes
  PROVE  [status |-> status, source |-> source, output |-> output] \in DerivativeRow
BY DEF DerivativeRow

LEMMA RowHas ==
  ASSUME NEW r \in DerivativeRow
  PROVE  /\ r.status \in {"READY", "ERROR"} /\ r.source \in Hashes /\ r.output \in Hashes
         /\ r # NoRow
BY Values DEF DerivativeRow

\* What a run at work is made of.
LEMMA WorkIs ==
  ASSUME DerivativeInv, NEW g \in Runners, run[g].at # "idle"
  PROVE  /\ Works(run[g], row, file)
         /\ DOMAIN run[g] = Fields
         /\ run[g].left \subseteq Items /\ run[g].failed \subseteq Items \ run[g].left
         /\ run[g].at # "next" => Item(g) \in run[g].left /\ Item(g) \in Items
         /\ DOMAIN run[g].known \subseteq Assets
<1>1. Works(run[g], row, file)
  BY DEF DerivativeInv
<1> QED BY <1>1 DEF Works, Item

LEMMA OnwardIs ==
  ASSUME NEW q, DOMAIN q = Fields
  PROVE  /\ DOMAIN Onward(q) = Fields
         /\ Onward(q).at = "next" /\ Onward(q).left = q.left \ {q.item}
         /\ Onward(q).known = q.known /\ Onward(q).failed = q.failed
         /\ Onward(q).item = Gone /\ Onward(q).source = Gone /\ Onward(q).temp = Gone
         /\ Onward(q).loaded = NoRow
BY DEF Onward, Fields

\* A run that goes on to the next item has nothing to hold but what it knows.
LEMMA OnwardWorks ==
  ASSUME NEW q, NEW rows, NEW files, NEW new, NEW made, Works(q, rows, files),
         q.at # "idle", q.at # "next"
  PROVE  Works(Onward(q), new, made)
<1>1. DOMAIN q = Fields
  BY DEF Works
<1> QED BY <1>1, OnwardIs, Values DEF Works

\* ... and when its item is right, it has put right what it left.
LEMMA OnwardCurrent ==
  ASSUME NEW q, NEW originals, NEW there, NEW rows, NEW files, NEW new, NEW made,
         Works(q, rows, files), q.at # "idle", q.at # "next",
         Current(q, originals, there, rows, files),
         \A k \in Items \ {q.item} : new[k] = rows[k] /\ made[k] = files[k],
         Right(q.item, q.failed, originals, there, new[q.item], made[q.item])
  PROVE  Current(Onward(q), originals, there, new, made)
<1>1. DOMAIN q = Fields
  BY DEF Works
<1>2. \A k \in Items \ (q.left \ {q.item}) :
        Right(k, q.failed, originals, there, new[k], made[k])
  BY DEF Current
<1> QED BY <1>1, <1>2, OnwardIs DEF Current

-----------------------------------------------------------------------------
(* What every step leaves alone *)

\* Nothing takes away a row, and nothing but a person a file.
LEMMA WorksStays ==
  ASSUME NEW q, NEW rows, NEW files, NEW new, NEW made, Works(q, rows, files),
         \A k \in Items : rows[k] # NoRow => new[k] # NoRow,
         \A k \in Items : files[k] # Gone => made[k] # Gone
  PROVE  Works(q, new, made)
BY DEF Works

\* One run goes on; the others are disturbed if it changes anything.
LEMMA OneGoesOn ==
  ASSUME DerivativeInv, NEW g \in Runners, NEW q, run' = [run EXCEPT ![g] = q],
         UNCHANGED <<original, available>>,
         row' \in [Items -> DerivativeRow \cup {NoRow}],
         file' \in [Items -> Hashes \cup {Damaged}],
         \A k \in Items : row[k] # NoRow => row'[k] # NoRow,
         \A k \in Items : file[k] # Gone => file'[k] # Gone,
         ReadyHasAFile',
         calm' \in [Runners -> BOOLEAN],
         \A h \in Runners \ {g} : calm'[h] => calm[h] /\ UNCHANGED <<row, file>>,
         Works(q, row', file'),
         calm'[g] => Current(q, original, available, row', file')
  PROVE  DerivativeInv'
<1>1. TypeOK'
  BY DEF DerivativeInv, TypeOK
<1>2. \A h \in Runners : run'[h] = IF h = g THEN q ELSE run[h]
  BY DEF DerivativeInv, TypeOK
<1>3. ASSUME NEW h \in Runners PROVE Works(run'[h], row', file')
  <2>1. Works(run[h], row, file)
    BY DEF DerivativeInv
  <2>2. Works(run[h], row', file')
    BY <2>1, WorksStays
  <2> QED BY <1>2, <2>2
<1>4. ASSUME NEW h \in Runners, calm'[h]
      PROVE  Current(run'[h], original', available', row', file')
  <2>1. CASE h = g
    BY <1>2, <1>4, <2>1
  <2>2. CASE h # g
    BY <1>2, <1>4, <2>2 DEF DerivativeInv
  <2> QED BY <2>1, <2>2
<1> QED BY <1>1, <1>3, <1>4 DEF DerivativeInv

\* ... and if it changes nothing, they are not.
LEMMA OneLooks ==
  ASSUME DerivativeInv, NEW g \in Runners, NEW q, run' = [run EXCEPT ![g] = q],
         UNCHANGED <<original, available, row, file>>,
         calm' \in [Runners -> BOOLEAN],
         \A h \in Runners \ {g} : calm'[h] => calm[h],
         Works(q, row, file),
         calm'[g] => Current(q, original, available, row, file)
  PROVE  DerivativeInv'
<1>1. /\ row \in [Items -> DerivativeRow \cup {NoRow}]
      /\ file \in [Items -> Hashes \cup {Damaged}]
  BY DEF DerivativeInv, TypeOK
<1>2. ReadyHasAFile'
  BY DEF DerivativeInv, ReadyHasAFile
<1> QED BY <1>1, <1>2, OneGoesOn

-----------------------------------------------------------------------------
(* The inductive invariant *)

LEMMA DerivativesBegin ==
  ASSUME DerivativesInit
  PROVE  DerivativeInv
<1>1. \A g \in Runners : run[g].at = "idle" /\ calm[g] = FALSE
  BY DEF DerivativesInit, Idle
<1>2. TypeOK
  BY Values DEF DerivativesInit, TypeOK
<1>3. ReadyHasAFile
  BY DEF DerivativesInit, ReadyHasAFile
<1> QED BY <1>1, <1>2, <1>3 DEF DerivativeInv, Works

LEMMA QueryKeeps ==
  ASSUME DerivativeInv, NEW g \in Runners, Query(g)
  PROVE  DerivativeInv'
<1> DEFINE q == [at |-> "next", left |-> Items, known |-> available, item |-> Gone,
                 source |-> Gone, loaded |-> NoRow, temp |-> Gone, failed |-> {}]
<1>1. run' = [run EXCEPT ![g] = q] /\ UNCHANGED <<original, available, row, file>>
  BY DEF Query, GoesOn
<1>2. calm' \in [Runners -> BOOLEAN] /\ \A h \in Runners \ {g} : calm'[h] = calm[h]
  BY DEF Query, DerivativeInv, TypeOK
<1>3. DOMAIN available = Assets
  BY DEF DerivativeInv, TypeOK
<1>4. Works(q, row, file) /\ Current(q, original, available, row, file)
  BY <1>3, Values DEF Works, Current, Fields
<1> HIDE DEF q
<1> QED BY <1>1, <1>2, <1>4, OneLooks

LEMMA HashKeeps ==
  ASSUME DerivativeInv, NEW g \in Runners, Hash(g)
  PROVE  DerivativeInv'
<1>1. PICK k \in run[g].left :
        LET a == k[1]
            usable == Known(g, a) /\ original[a] # Gone
        IN run' = [run EXCEPT ![g] =
                     [run[g] EXCEPT !.at = IF usable THEN "record" ELSE "failing", !.item = k,
                                    !.source = IF usable THEN original[a] ELSE Gone,
                                    !.known = Put(run[g].known, a, Known(g, a))]]
  BY DEF Hash, GoesOn
<1> DEFINE a == k[1]
           usable == Known(g, a) /\ original[a] # Gone
           at == IF usable THEN "record" ELSE "failing"
           source == IF usable THEN original[a] ELSE Gone
           known == Put(run[g].known, a, Known(g, a))
           q == [run[g] EXCEPT !.at = at, !.item = k, !.source = source, !.known = known]
<1>2. run[g].at = "next" /\ UNCHANGED <<original, available, row, file, calm>>
  BY DEF Hash, IsAt
<1>3. /\ Works(run[g], row, file) /\ DOMAIN run[g] = Fields /\ k \in Items
      /\ DOMAIN run[g].known \subseteq Assets
  BY <1>2, WorkIs
<1>4. a \in Assets
  BY <1>3 DEF Assets
<1>5. /\ at \in {"record", "failing"} /\ source \in Hashes
      /\ at = "record" => Known(g, a) /\ source = original[a]
  BY <1>4, Values DEF DerivativeInv, TypeOK
<1>6. /\ DOMAIN known = DOMAIN run[g].known \cup {a}
      /\ \A b \in DOMAIN known : known[b] = IF b = a THEN Known(g, a) ELSE run[g].known[b]
  BY DEF Put
<1>7. run' = [run EXCEPT ![g] = q]
  BY <1>1
<1> HIDE DEF usable, at, source, known
<1>8. /\ DOMAIN q = Fields /\ q.at = at /\ q.item = k /\ q.source = source /\ q.known = known
      /\ q.left = run[g].left /\ q.failed = run[g].failed
      /\ q.temp = run[g].temp /\ q.loaded = run[g].loaded
  BY <1>3 DEF Fields
<1> HIDE DEF q, a
<1>9. run[g].loaded = NoRow
  BY <1>2, <1>3 DEF Works
<1>10. Works(q, row, file)
  BY <1>2, <1>3, <1>4, <1>5, <1>6, <1>8, <1>9 DEF Works
<1>11. ASSUME calm[g] PROVE Current(q, original, available, row, file)
  <2>1. Current(run[g], original, available, row, file)
    BY <1>11 DEF DerivativeInv
  <2>2. Known(g, a) = available[a]
    BY <1>2, <2>1 DEF Current, Known
  <2>3. \A b \in DOMAIN known : known[b] = available[b]
    BY <1>2, <1>6, <2>1, <2>2 DEF Current
  <2> QED BY <1>2, <1>5, <1>8, <2>1, <2>2, <2>3 DEF Current, a
<1> QED BY <1>2, <1>7, <1>10, <1>11, OneLooks DEF DerivativeInv, TypeOK

LEMMA RecordKeeps ==
  ASSUME DerivativeInv, NEW g \in Runners, Record(g)
  PROVE  DerivativeInv'
<1> DEFINE k == Item(g)
<1>1. run[g].at = "record" /\ UNCHANGED <<original, available, row, file, calm>>
  BY DEF Record, IsAt
<1>2. Works(run[g], row, file) /\ DOMAIN run[g] = Fields /\ k \in run[g].left /\ k \in Items
  BY <1>1, WorkIs
<1>3. k = run[g].item
  BY DEF Item
<1>4. calm[g] => Current(run[g], original, available, row, file)
  BY DEF DerivativeInv
<1> HIDE DEF k
<1>5. CASE Reuses(g)
  <2> DEFINE q == Onward(run[g])
  <2>1. run' = [run EXCEPT ![g] = q]
    BY <1>5 DEF Record, GoesOn
  <2>2. Works(q, row, file)
    BY <1>1, <1>2, OnwardWorks
  <2>3. ASSUME calm[g] PROVE Current(q, original, available, row, file)
    <3>1. row[k] # NoRow /\ row[k].status = "READY" /\ row[k].source = run[g].source
          /\ file[k] = row[k].output
      BY <1>3, <1>5 DEF Reuses, Item
    <3>2. /\ available[k[1]] /\ run[g].source = original[k[1]]
          /\ run[g].failed \subseteq Items \ run[g].left
      BY <1>1, <1>2, <1>3, <1>4, <2>3 DEF Current, Works
    <3>3. Right(k, run[g].failed, original, available, row[k], file[k])
      BY <1>2, <3>1, <3>2 DEF Right
    <3> QED BY <1>1, <1>2, <1>3, <1>4, <2>3, <3>3, OnwardCurrent
  <2> HIDE DEF q
  <2> QED BY <1>1, <2>1, <2>2, <2>3, OneLooks DEF DerivativeInv, TypeOK
<1>6. CASE ~Reuses(g)
  <2> DEFINE q == [run[g] EXCEPT !.at = "render", !.loaded = row[k]]
  <2>1. run' = [run EXCEPT ![g] = q]
    BY <1>6 DEF Record, GoesOn, k
  <2>2. /\ DOMAIN q = Fields /\ q.at = "render" /\ q.loaded = row[k] /\ q.item = k
        /\ q.source = run[g].source /\ q.known = run[g].known /\ q.left = run[g].left
        /\ q.failed = run[g].failed /\ q.temp = run[g].temp
    BY <1>2, <1>3 DEF Fields
  <2> HIDE DEF q
  <2>3. row[k] \in DerivativeRow \cup {NoRow}
    BY <1>2 DEF DerivativeInv, TypeOK
  <2>4. Works(q, row, file)
    BY <1>1, <1>2, <1>3, <2>2, <2>3 DEF Works
  <2>5. calm[g] => Current(q, original, available, row, file)
    BY <1>1, <1>3, <1>4, <2>2 DEF Current
  <2> QED BY <1>1, <2>1, <2>4, <2>5, OneLooks DEF DerivativeInv, TypeOK
<1> QED BY <1>5, <1>6

\* The run goes to another place, with what it has but perhaps another rendered file.
LEMMA MovesTo ==
  ASSUME DerivativeInv, NEW g \in Runners, NEW at, NEW temp, run[g].at # "idle"
  PROVE  LET q == [run[g] EXCEPT !.at = at, !.temp = temp]
         IN /\ DOMAIN q = Fields /\ q.at = at /\ q.temp = temp
            /\ q.item = run[g].item /\ q.source = run[g].source /\ q.known = run[g].known
            /\ q.left = run[g].left /\ q.failed = run[g].failed /\ q.loaded = run[g].loaded
BY WorkIs DEF Fields

LEMMA FailingWorks ==
  ASSUME DerivativeInv, NEW g \in Runners, run[g].at \in {"render", "replace"},
         run' = [run EXCEPT ![g] = [run[g] EXCEPT !.at = "failing"]],
         UNCHANGED <<original, available, row, file>>,
         calm' \in [Runners -> BOOLEAN], \A h \in Runners : calm'[h] => calm[h]
  PROVE  DerivativeInv'
<1> DEFINE q == [run[g] EXCEPT !.at = "failing"]
<1>1. Works(run[g], row, file) /\ DOMAIN run[g] = Fields
  BY WorkIs
<1>2. /\ DOMAIN q = Fields /\ q.at = "failing" /\ q.loaded = run[g].loaded
      /\ q.item = run[g].item /\ q.source = run[g].source /\ q.known = run[g].known
      /\ q.left = run[g].left /\ q.failed = run[g].failed /\ q.temp = run[g].temp
  BY <1>1 DEF Fields
<1>3. run' = [run EXCEPT ![g] = q]
  OBVIOUS
<1> HIDE DEF q
<1>4. Works(q, row, file)
  BY <1>1, <1>2 DEF Works
<1>5. calm[g] => Current(q, original, available, row, file)
  BY <1>2 DEF DerivativeInv, Current
<1> QED BY <1>3, <1>4, <1>5, OneLooks

LEMMA RenderKeeps ==
  ASSUME DerivativeInv, NEW g \in Runners, Render(g)
  PROVE  DerivativeInv'
<1>1. run[g].at = "render" /\ UNCHANGED <<original, available, row, file, calm>>
  BY DEF Render, IsAt
<1>2. calm' \in [Runners -> BOOLEAN]
  BY <1>1 DEF DerivativeInv, TypeOK
<1>3. CASE Step(g, "failing")
  BY <1>1, <1>2, <1>3, FailingWorks DEF Step, GoesOn
<1>4. CASE /\ original[Item(g)[1]] # Gone
           /\ GoesOn(g, [run[g] EXCEPT !.at = "replace", !.temp = original[Item(g)[1]]])
  <2> DEFINE temp == original[run[g].item[1]]
             q == [run[g] EXCEPT !.at = "replace", !.temp = temp]
  <2>1. run' = [run EXCEPT ![g] = q] /\ temp # Gone
    BY <1>4 DEF GoesOn, Item
  <2>2. Works(run[g], row, file) /\ run[g].item \in Items
    BY <1>1, WorkIs DEF Item
  <2>3. temp \in Contents
    BY <2>1, <2>2 DEF DerivativeInv, TypeOK, Assets, Hashes
  <2>4. /\ DOMAIN q = Fields /\ q.at = "replace" /\ q.temp = temp /\ q.loaded = run[g].loaded
        /\ q.item = run[g].item /\ q.source = run[g].source /\ q.known = run[g].known
        /\ q.left = run[g].left /\ q.failed = run[g].failed
    BY <1>1, MovesTo
  <2> HIDE DEF q
  <2>5. Works(q, row, file)
    BY <1>1, <2>2, <2>3, <2>4, Values DEF Works
  <2>6. calm[g] => Current(q, original, available, row, file)
    BY <1>1, <2>4 DEF DerivativeInv, Current
  <2> QED BY <1>1, <1>2, <2>1, <2>5, <2>6, OneLooks
<1> QED BY <1>3, <1>4 DEF Render

LEMMA ReplaceKeeps ==
  ASSUME DerivativeInv, NEW g \in Runners, Replace(g)
  PROVE  DerivativeInv'
<1>1. run[g].at = "replace" /\ UNCHANGED <<original, available, row>>
  BY DEF Replace, IsAt
<1>2. /\ calm' \in [Runners -> BOOLEAN]
      /\ \A h \in Runners : calm'[h] => calm[h]
      /\ \A h \in Runners \ {g} : ~calm'[h]
  BY DEF Replace, Disturbed, DerivativeInv, TypeOK
<1>3. CASE Step(g, "failing") /\ UNCHANGED file
  BY <1>1, <1>2, <1>3, FailingWorks DEF Step, GoesOn
<1>4. CASE file' = [file EXCEPT ![Item(g)] = run[g].temp] /\ Step(g, "commit")
  <2> DEFINE q == [run[g] EXCEPT !.at = "commit"]
             k == run[g].item
  <2>1. /\ run' = [run EXCEPT ![g] = q]
        /\ file' = [file EXCEPT ![k] = run[g].temp]
    BY <1>4 DEF Step, GoesOn, Item
  <2>2. /\ Works(run[g], row, file) /\ k \in Items /\ DOMAIN run[g] = Fields
        /\ k \in run[g].left /\ run[g].temp \in Contents /\ k = run[g].item
    BY <1>1, WorkIs DEF Item, Works
  <2>3. /\ DOMAIN q = Fields /\ q.at = "commit" /\ q.temp = run[g].temp
        /\ q.item = k /\ q.source = run[g].source /\ q.known = run[g].known
        /\ q.left = run[g].left /\ q.failed = run[g].failed /\ q.loaded = run[g].loaded
    BY <2>2 DEF Fields
  <2>4. /\ file' \in [Items -> Hashes \cup {Damaged}] /\ file'[k] = run[g].temp
        /\ \A l \in Items \ {k} : file'[l] = file[l]
    BY <2>1, <2>2, Values DEF DerivativeInv, TypeOK
  <2> HIDE DEF q, k
  <2>5. run[g].temp # Gone
    BY <2>2, Values
  <2>6. \A l \in Items : file[l] # Gone => file'[l] # Gone
    BY <2>4, <2>5
  <2>7. ReadyHasAFile'
    BY <1>1, <2>6 DEF DerivativeInv, ReadyHasAFile
  <2>8. Works(q, row', file')
    BY <1>1, <2>2, <2>3, <2>4, <2>5 DEF Works
  <2>9. calm[g] => Current(q, original, available, row', file')
    BY <1>1, <2>2, <2>3, <2>4 DEF DerivativeInv, Current
  <2>10. row' \in [Items -> DerivativeRow \cup {NoRow}]
    BY <1>1 DEF DerivativeInv, TypeOK
  <2> QED BY <1>1, <1>2, <2>1, <2>4, <2>6, <2>7, <2>8, <2>9, <2>10, OneGoesOn
<1> QED BY <1>3, <1>4 DEF Replace, Renamed

\* A run that ends holds nothing.
LEMMA EndsKeeps ==
  ASSUME DerivativeInv, NEW g \in Runners, GoesOn(g, Idle), Disturbed({g}),
         UNCHANGED <<original, available, row, file>>
  PROVE  DerivativeInv'
<1>1. run' = [run EXCEPT ![g] = Idle]
  BY DEF GoesOn
<1>2. /\ calm' \in [Runners -> BOOLEAN] /\ ~calm'[g]
      /\ \A h \in Runners \ {g} : calm'[h] => calm[h]
  BY DEF Disturbed, DerivativeInv, TypeOK
<1>3. Works(Idle, row, file)
  BY DEF Works, Idle
<1> QED BY <1>1, <1>2, <1>3, OneLooks

\* The row of the item is written, and the run goes on.
LEMMA WriteKeeps ==
  ASSUME DerivativeInv, NEW g \in Runners, NEW q, NEW r \in DerivativeRow,
         run[g].at \in {"commit", "failing"},
         row' = [row EXCEPT ![Item(g)] = r], run' = [run EXCEPT ![g] = q],
         UNCHANGED <<original, available, file>>, Disturbed(Runners \ {g}),
         r.status = "READY" => file[Item(g)] # Gone,
         Works(q, row', file'),
         calm[g] => Current(q, original, available, row', file')
  PROVE  DerivativeInv'
<1>1. Item(g) \in Items
  BY WorkIs
<1>2. /\ row' \in [Items -> DerivativeRow \cup {NoRow}] /\ row'[Item(g)] = r
      /\ \A k \in Items \ {Item(g)} : row'[k] = row[k]
  BY <1>1 DEF DerivativeInv, TypeOK
<1>3. \A k \in Items : row[k] # NoRow => row'[k] # NoRow
  BY <1>2, RowHas
<1>4. ReadyHasAFile'
  <2>1. SUFFICES ASSUME NEW k \in Items, row'[k] # NoRow /\ row'[k].status = "READY"
                 PROVE  file'[k] # Gone
    BY DEF ReadyHasAFile
  <2>2. CASE k = Item(g)
    BY <1>2, <2>1, <2>2
  <2>3. CASE k # Item(g)
    BY <1>2, <2>1, <2>3 DEF DerivativeInv, ReadyHasAFile
  <2> QED BY <2>2, <2>3
<1>5. /\ calm' \in [Runners -> BOOLEAN] /\ (calm'[g] => calm[g])
      /\ \A h \in Runners \ {g} : ~calm'[h]
  BY DEF Disturbed, DerivativeInv, TypeOK
<1>6. file' \in [Items -> Hashes \cup {Damaged}]
  BY DEF DerivativeInv, TypeOK
<1> QED BY <1>3, <1>4, <1>5, <1>6, <1>2, OneGoesOn

LEMMA CommitKeeps ==
  ASSUME DerivativeInv, NEW g \in Runners, Commit(g)
  PROVE  DerivativeInv'
<1> DEFINE k == Item(g)
           l == run[g].loaded
<1>1. run[g].at = "commit" /\ UNCHANGED <<original, available, file>>
  BY DEF Commit, IsAt
<1>2. /\ Works(run[g], row, file) /\ k \in run[g].left /\ k \in Items /\ k = run[g].item
      /\ run[g].failed \subseteq Items \ run[g].left
  BY <1>1, WorkIs DEF Item
<1>3. CASE l = NoRow /\ row[k] # NoRow
  BY <1>1, <1>3, EndsKeeps DEF Commit
<1>4. CASE ~(l = NoRow /\ row[k] # NoRow)
  <2> DEFINE r == MadeOf(g)
             q == Onward(run[g])
  <2>1. /\ row' = [row EXCEPT ![k] = r] /\ run' = [run EXCEPT ![g] = q]
        /\ Disturbed(Runners \ {g})
    BY <1>4 DEF Commit, GoesOn
  <2>2. /\ run[g].source \in Hashes /\ run[g].temp \in Contents /\ file[k] # Gone
        /\ l # NoRow => l \in DerivativeRow /\ row[k] \in DerivativeRow
    BY <1>1, <1>2 DEF Works, DerivativeInv, TypeOK
  <2>3. /\ r \in DerivativeRow
        /\ l = row[k] => r.status = "READY" /\ r.source = run[g].source /\ r.output = run[g].temp
    <3>1. CASE l = NoRow
      <4>1. r = [status |-> "READY", source |-> run[g].source, output |-> run[g].temp]
        BY <3>1 DEF MadeOf
      <4> HIDE DEF r
      <4> QED BY <2>2, <4>1, RowIs, Values
    <3>2. CASE l # NoRow
      <4> DEFINE status == Changed(row[k].status, l.status, "READY")
                 source == Changed(row[k].source, l.source, run[g].source)
                 output == Changed(row[k].output, l.output, run[g].temp)
      <4>1. r = [status |-> status, source |-> source, output |-> output]
        BY <3>2 DEF MadeOf
      <4>2. /\ status \in {"READY", "ERROR"} /\ source \in Hashes /\ output \in Hashes
            /\ l = row[k] => status = "READY" /\ source = run[g].source /\ output = run[g].temp
        BY <2>2, <3>2, RowHas, Values DEF Changed
      <4> HIDE DEF r, status, source, output
      <4> QED BY <4>1, <4>2, RowIs
    <3> QED BY <3>1, <3>2
  <2>4. Works(q, row', file')
    BY <1>1, <1>2, OnwardWorks
  <2>5. ASSUME calm[g] PROVE Current(q, original, available, row', file')
    <3>1. Current(run[g], original, available, row, file)
      BY <2>5 DEF DerivativeInv
    <3>2. /\ available[k[1]] /\ run[g].source = original[k[1]] /\ l = row[k]
          /\ run[g].temp = run[g].source /\ file[k] = run[g].temp
      BY <1>1, <1>2, <3>1 DEF Current
    <3>3. row'[k] = r /\ \A x \in Items \ {k} : row'[x] = row[x]
      BY <1>2, <2>1 DEF DerivativeInv, TypeOK
    <3>4. r # NoRow
      BY <2>3, RowHas
    <3> HIDE DEF r, q
    <3>5. Right(k, run[g].failed, original, available, row'[k], file'[k])
      BY <1>1, <1>2, <2>3, <3>2, <3>3, <3>4 DEF Right
    <3> HIDE DEF k
    <3> QED BY <1>1, <1>2, <3>1, <3>3, <3>5, OnwardCurrent DEF q
  <2> HIDE DEF r, q, k
  <2> QED BY <1>1, <2>1, <2>2, <2>3, <2>4, <2>5, WriteKeeps DEF k
<1> QED BY <1>3, <1>4

LEMMA FailKeeps ==
  ASSUME DerivativeInv, NEW g \in Runners, Fail(g)
  PROVE  DerivativeInv'
<1> DEFINE k == Item(g)
           r == Failed(row[k], run[g].source)
           o == Onward(run[g])
           failed == o.failed \cup {k}
           q == [o EXCEPT !.failed = failed, !.known = <<>>]
<1>1. run[g].at = "failing" /\ UNCHANGED <<original, available, file>>
  BY DEF Fail, IsAt
<1>2. /\ Works(run[g], row, file) /\ k \in run[g].left /\ k \in Items /\ k = run[g].item
      /\ run[g].left \subseteq Items /\ run[g].failed \subseteq Items \ run[g].left
      /\ DOMAIN run[g] = Fields
  BY <1>1, WorkIs DEF Item
<1>3. /\ row' = [row EXCEPT ![k] = r] /\ run' = [run EXCEPT ![g] = q]
      /\ Disturbed(Runners \ {g})
  BY DEF Fail, GoesOn
<1>4. /\ row' \in [Items -> {r} \cup DerivativeRow \cup {NoRow}] /\ row'[k] = r
      /\ \A x \in Items \ {k} : row'[x] = row[x]
  <2> HIDE DEF k, r
  <2> QED BY <1>2, <1>3 DEF DerivativeInv, TypeOK
<1>5. r \in DerivativeRow /\ r.status = "ERROR"
  <2> DEFINE output == IF row[k] = NoRow THEN Gone ELSE row[k].output
  <2>1. r = [status |-> "ERROR", source |-> run[g].source, output |-> output]
    BY DEF Failed
  <2>2. run[g].source \in Hashes /\ output \in Hashes
    BY <1>1, <1>2, RowHas, Values DEF Works, DerivativeInv, TypeOK
  <2> HIDE DEF r, output, k
  <2> QED BY <2>1, <2>2, RowIs
<1>6. /\ DOMAIN o = Fields
      /\ o.at = "next" /\ o.left = run[g].left \ {k}
      /\ o.failed = run[g].failed
      /\ o.item = Gone /\ o.source = Gone /\ o.temp = Gone /\ o.loaded = NoRow
  BY <1>2, OnwardIs
<1> HIDE DEF o, k, r
<1>7. /\ DOMAIN q = Fields
      /\ q.at = "next" /\ q.left = run[g].left \ {k}
      /\ q.failed = run[g].failed \cup {k} /\ q.known = <<>>
      /\ q.item = Gone /\ q.source = Gone /\ q.temp = Gone /\ q.loaded = NoRow
  BY <1>6 DEF Fields
<1> HIDE DEF q
<1>8. DOMAIN q.known = {}
  BY <1>7
<1>9. Works(q, row', file')
  BY <1>2, <1>7, <1>8, Values DEF Works
<1>10. ASSUME calm[g] PROVE Current(q, original, available, row', file')
  <2>1. \A x \in Items \ run[g].left : Right(x, run[g].failed, original, available, row[x], file[x])
    BY <1>1, <1>10 DEF DerivativeInv, Current
  <2>2. \A x \in Items \ run[g].left : Right(x, q.failed, original, available, row'[x], file'[x])
    BY <1>1, <1>2, <1>4, <1>7, <2>1 DEF Right
  <2>3. Right(k, q.failed, original, available, row'[k], file'[k])
    BY <1>4, <1>5, <1>7, RowHas DEF Right
  <2> QED BY <1>7, <1>8, <2>2, <2>3 DEF Current
<1> QED BY <1>1, <1>3, <1>5, <1>9, <1>10, WriteKeeps DEF k

\* Others change what they like: everybody at work is disturbed.
LEMMA ChangeKeeps ==
  ASSUME DerivativeInv, Change
  PROVE  DerivativeInv'
<1>1. \A g \in Runners : calm'[g] = FALSE
  BY DEF Change, Disturbed
<1>2. UNCHANGED <<row, run>> /\ calm' \in [Runners -> BOOLEAN]
  BY DEF Change, Disturbed
<1>3. /\ original' \in [Assets -> Hashes] /\ available' \in [Assets -> BOOLEAN]
      /\ file' \in [Items -> Hashes \cup {Damaged}]
      /\ \A k \in Items : file[k] # Gone => file'[k] # Gone
  <2>1. CASE \E a \in Assets, c \in Contents \cup {Gone} :
               original' = [original EXCEPT ![a] = c] /\ UNCHANGED <<available, file>>
    BY <2>1 DEF DerivativeInv, TypeOK, Hashes
  <2>2. CASE \E a \in Assets :
               available' = [available EXCEPT ![a] = ~available[a]] /\ UNCHANGED <<original, file>>
    BY <2>2 DEF DerivativeInv, TypeOK
  <2>3. CASE \E k \in Items :
               file' = [file EXCEPT ![k] = Damaged] /\ UNCHANGED <<original, available>>
    BY <2>3, Values DEF DerivativeInv, TypeOK
  <2> QED BY <2>1, <2>2, <2>3 DEF Change
<1>4. TypeOK'
  BY <1>2, <1>3 DEF DerivativeInv, TypeOK
<1>5. ASSUME NEW g \in Runners PROVE Works(run'[g], row', file')
  <2>1. Works(run[g], row, file)
    BY DEF DerivativeInv
  <2>2. Works(run[g], row, file')
    BY <1>3, <2>1, WorksStays
  <2> QED BY <1>2, <2>2
<1>6. ReadyHasAFile'
  BY <1>2, <1>3 DEF DerivativeInv, ReadyHasAFile
<1> QED BY <1>1, <1>4, <1>5, <1>6 DEF DerivativeInv

LEMMA DerivativesKeep ==
  ASSUME DerivativeInv, [DerivativesNext]_derivativeVars
  PROVE  DerivativeInv'
<1>1. ASSUME NEW g \in Runners, Report(g) PROVE DerivativeInv'
  BY <1>1, EndsKeeps DEF Report
<1>2. ASSUME NEW g \in Runners, Stop(g) PROVE DerivativeInv'
  BY <1>2, EndsKeeps DEF Stop
<1>3. CASE UNCHANGED derivativeVars
  BY <1>3 DEF derivativeVars, DerivativeInv, TypeOK, ReadyHasAFile
<1> QED
  BY <1>1, <1>2, <1>3, QueryKeeps, HashKeeps, RecordKeeps, RenderKeeps, ReplaceKeeps,
     CommitKeeps, FailKeeps, ChangeKeeps
  DEF DerivativesNext, RunSteps

-----------------------------------------------------------------------------
(* Theorems *)

\* The inductive invariant: what a run holds, and what it knows if nobody disturbed it.
THEOREM DerivativeInvariant == DerivativesSpec => []DerivativeInv
<1>1. DerivativesInit => DerivativeInv
  BY DerivativesBegin
<1>2. DerivativeInv /\ [DerivativesNext]_derivativeVars => DerivativeInv'
  BY DerivativesKeep
<1> QED BY <1>1, <1>2, PTL DEF DerivativesSpec

\* A derivative that is shown as READY has a file, whatever stops, fails or overtakes.
THEOREM ReadyAreThere == DerivativesSpec => []ReadyHasAFile
<1>1. DerivativeInv => ReadyHasAFile
  BY DEF DerivativeInv
<1> QED BY <1>1, DerivativeInvariant, PTL

\* After a run that nobody disturbed the rows tell the truth of the files and originals.
THEOREM CalmRunIsTrue == DerivativesSpec => CalmRunPutsRight
<1> DEFINE PutsRight ==
       \A g \in Runners : Report(g) /\ calm[g] =>
         \A k \in Items :
           /\ row[k] # NoRow
           /\ row[k].status = "READY" <=> k \notin run[g].failed
           /\ row[k].status = "READY" => /\ available[k[1]]
                                         /\ row[k].source = original[k[1]]
                                         /\ file[k] = row[k].output
<1>1. ASSUME DerivativeInv PROVE PutsRight
  <2>1. SUFFICES ASSUME NEW g \in Runners, Report(g), calm[g], NEW k \in Items
                 PROVE  Right(k, run[g].failed, original, available, row[k], file[k])
    BY DEF Right
  <2>2. run[g].at = "next" /\ run[g].left = {}
    BY <2>1 DEF Report, IsAt
  <2> QED BY <1>1, <2>1, <2>2 DEF DerivativeInv, Current
<1>2. DerivativeInv /\ [DerivativesNext]_derivativeVars => [PutsRight]_derivativeVars
  BY <1>1
<1> QED BY <1>2, DerivativeInvariant, PTL DEF DerivativesSpec, CalmRunPutsRight
=============================================================================
