---------------------------- MODULE Organize_proofs ----------------------------
(***************************************************************************)
(* For any number of runs, cards and files: nothing that is published is   *)
(* replaced, no partial is lost, what the manifest lists is there and      *)
(* verified, and a run that writes it keeps all it read of it and drops    *)
(* only what others listed meanwhile.                                      *)
(*                                                                         *)
(* The manifest is written from what a run read at its beginning and what  *)
(* it planned.  The invariant follows both through the run: what it read   *)
(* is published and fits the plan, and what it planned is still to be      *)
(* copied or is published.                                                 *)
(***************************************************************************)
EXTENDS Organize, TLAPS

-----------------------------------------------------------------------------
(* What is published, and partials: no invariant is needed *)

\* The files of the old name are kept by all steps.
Kept == \A p \in DOMAIN final : p \in DOMAIN final' /\ final'[p] = final[p]

\* Only a rename publishes, and only under a name that is free.
LEMMA StepKeepsFinal ==
  ASSUME [Next]_vars
  PROVE  Kept
<1>1. ASSUME NEW r \in Runs, Rename(r)
      PROVE  Kept
  <2>1. CASE NameIsFree(r) /\ Movable(r)
    <3>1. final' = With(final, NameOf(r), part[NameOf(r)]) /\ NameOf(r) \notin DOMAIN final
      BY <1>1, <2>1 DEF Rename, NameIsFree, There
    <3> QED BY <3>1 DEF With, Kept
  <2>2. CASE ~(NameIsFree(r) /\ Movable(r))
    BY <1>1, <2>2 DEF Rename, Kept
  <2> QED BY <2>1, <2>2
<1>2. final' = final \/ \E r \in Runs : Rename(r)
  BY DEF Next, vars, disk, Plan, Apply, Stop, Edit, ReadManifest, Check, StatSource, Resume,
         Open, CopyBlock, EndCopy, Verify, Place, Reread, Merge
<1>3. CASE final' = final
  BY <1>3 DEF Kept
<1> QED BY <1>1, <1>2, <1>3

\* NeverReplaced: a published file stays as it is, whatever the runs do.
THEOREM Replacement == Spec => NeverReplaced
<1>1. [Next]_vars => Kept
  BY StepKeepsFinal
<1> QED BY <1>1, PTL DEF Spec, NeverReplaced, Kept

PartialsGo ==
  \A p \in DOMAIN part : p \notin DOMAIN part' =>
    /\ p \in DOMAIN final'
    /\ \/ final'[p] = part[p]
       \/ \E r \in Runs : At(r, "place") /\ NameOf(r) = p /\ final'[p] = FileOf(r).data

\* PartialsAreKept: a partial leaves the disk only by becoming the published file, or for
\* the published file that the run which copied it planned.
THEOREM Partials == Spec => PartialsAreKept
<1>1. ASSUME [Next]_vars PROVE PartialsGo
  <2>1. CASE part' = part
    BY <2>1 DEF PartialsGo
  <2>2. ASSUME NEW r \in Runs, Open(r) PROVE PartialsGo
    <3>1. PICK d : part' = With(part, NameOf(r), d)
      BY <2>2 DEF Open
    <3> QED BY <3>1 DEF With, PartialsGo
  <2>3. ASSUME NEW r \in Runs, CopyBlock(r) PROVE PartialsGo
    <3>1. DOMAIN part' = DOMAIN part
      BY <2>3 DEF CopyBlock
    <3> QED BY <3>1 DEF PartialsGo
  <2>4. ASSUME NEW r \in Runs, Place(r), part' # part PROVE PartialsGo
    <3>1. /\ AlreadyOk(r) /\ final' = final /\ At(r, "place")
          /\ part' = Without(part, NameOf(r))
      BY <2>4 DEF Place
    <3>2. NameOf(r) \in DOMAIN final /\ final[NameOf(r)] = FileOf(r).data
      BY <3>1 DEF AlreadyOk, There
    <3> QED BY <3>1, <3>2 DEF Without, PartialsGo
  <2>5. ASSUME NEW r \in Runs, Rename(r), part' # part PROVE PartialsGo
    <3>1. /\ final' = With(final, NameOf(r), part[NameOf(r)])
          /\ part' = Without(part, NameOf(r))
      BY <2>5 DEF Rename
    <3> QED BY <3>1 DEF With, Without, PartialsGo
  <2>6. \/ part' = part
        \/ \E r \in Runs : \/ Open(r) \/ CopyBlock(r)
                           \/ (Place(r) \/ Rename(r)) /\ part' # part
    BY <1>1 DEF Next, vars, disk, Plan, Apply, Stop, Edit, ReadManifest, Check, StatSource,
                Resume, EndCopy, Verify, Reread, Merge
  <2> QED BY <2>1, <2>2, <2>3, <2>4, <2>5, <2>6
<1> QED BY <1>1, PTL DEF Spec, PartialsAreKept, PartialsGo
-----------------------------------------------------------------------------
(* The invariant *)

\* Of published files fin: a planned or listed file is published, as what it says.
Published(n, fin) == n.path \in DOMAIN fin /\ fin[n.path] = n.data
IsFile(n) == n = [path |-> n.path, data |-> n.data]

Fields == DOMAIN Down
Copying == {"stat", "resume", "open", "copy", "verify", "place", "rename", "reread"}
Planning == {"read", "check", "merge"} \cup Copying

FilesOf(row) == {row.files[s] : s \in Slots}
\* A planned asset that was listed is listed where it is planned.
Fits(row) == \A m \in FilesOf(row) : PathsOf(m, row.old) \in {{}, PathsOf(m, FilesOf(row))}

\* What is done of the plan: all but what is still on the list, from slot s on.
DoneBut(row, s, fin) ==
  \A t \in Slots : (t \in row.todo /\ t >= s) \/ Published(row.files[t], fin)
Done(row, fin) == \A t \in Slots : Published(row.files[t], fin)

Row(row, fin) ==
  /\ DOMAIN row = Fields /\ row.at \in Planning \cup Ended
  /\ row.item \in Slots /\ row.todo \subseteq Slots /\ row.conflict \in BOOLEAN
  /\ row.at \in Planning => \A s \in Slots : IsFile(row.files[s])
  /\ row.at \in Planning \ {"read"} => \A n \in row.old : Published(n, fin) /\ IsFile(n)
  /\ row.at = "read" => row.todo = {} /\ row.item = 1
  /\ row.at = "check" => /\ row.conflict \/ Fits(row)
                         /\ \A s \in Slots : s < row.item =>
                              s \in row.todo \/ Published(row.files[s], fin)
  /\ row.at \in Copying => Fits(row) /\ row.item \in row.todo /\ DoneBut(row, row.item, fin)
  /\ row.at = "reread" => row.files[row.item].path \in DOMAIN fin
  /\ row.at = "merge" => Fits(row) /\ Done(row, fin)

IInv ==
  /\ DOMAIN run = Runs /\ \A r \in Runs : Row(run[r], final)
  /\ \A n \in Listed : Published(n, final) /\ IsFile(n)

LEMMA RowStays ==
  ASSUME Kept, NEW row, Row(row, final)
  PROVE  Row(row, final')
<1>1. \A n : Published(n, final) => Published(n, final')
  BY DEF Published, Kept
<1>2. DOMAIN final \subseteq DOMAIN final'
  BY DEF Kept
<1> HIDE DEF Published
<1> QED BY <1>1, <1>2 DEF Row, Fits, Done, DoneBut

LEMMA SlotsAre == 1 \in Slots /\ Slots \subseteq Nat /\ SlotCount \in Slots
BY OrganizeAssumption DEF Slots

\* A row that only goes elsewhere: to an end, or on with the same file.
LEMMA AtRow ==
  ASSUME NEW fin, NEW row, Row(row, fin), NEW p,
         p \in Ended \/ (row.at \in Copying /\ p \in Copying \ {"reread"})
  PROVE  Row([row EXCEPT !.at = p], fin)
<1> DEFINE new == [row EXCEPT !.at = p]
<1> SUFFICES Row(new, fin)
  OBVIOUS
<1>1. /\ DOMAIN new = Fields /\ new.at = p
      /\ new.item = row.item /\ new.todo = row.todo /\ new.conflict = row.conflict
      /\ new.files = row.files /\ new.old = row.old
  BY DEF Row, Fields, Down
<1> HIDE DEF new
<1>2. Fits(row) => Fits(new)
  BY <1>1 DEF Fits, FilesOf
<1>3. DoneBut(row, row.item, fin) => DoneBut(new, new.item, fin)
  BY <1>1 DEF DoneBut
<1>4. CASE p \in Ended
  BY <1>1, <1>4 DEF Row, Ended, Planning, Copying
<1>5. CASE row.at \in Copying /\ p \in Copying \ {"reread"}
  BY <1>1, <1>2, <1>3, <1>5 DEF Row, Planning, Copying
<1> QED BY <1>4, <1>5

\* Where a row goes when all but what is on the list from slot s on is done.
LEMMA OnwardRow ==
  ASSUME NEW fin, NEW row, DOMAIN row = Fields, row.item \in Slots, row.todo \subseteq Slots,
         row.conflict \in BOOLEAN, Fits(row),
         \A s \in Slots : IsFile(row.files[s]),
         \A n \in row.old : Published(n, fin) /\ IsFile(n),
         NEW s \in Nat, DoneBut(row, s, fin),
         NEW next \in Onward(row, s)
  PROVE  Row(next, fin)
<1> DEFINE left == {t \in row.todo : t >= s}
<1>1. CASE left = {}
  <2>1. next = [row EXCEPT !.at = "merge"]
    BY <1>1 DEF Onward
  <2>2. /\ DOMAIN next = Fields /\ next.at = "merge"
        /\ next.item = row.item /\ next.todo = row.todo /\ next.conflict = row.conflict
        /\ next.files = row.files /\ next.old = row.old
    BY <2>1 DEF Fields, Down
  <2>3. Done(next, fin)
    BY <1>1, <2>2 DEF Done, DoneBut
  <2>4. Fits(next)
    BY <2>2 DEF Fits, FilesOf
  <2> QED BY <2>2, <2>3, <2>4 DEF Row, Planning, Copying, Ended
<1>2. CASE left # {}
  <2>1. PICK t \in left : next = [row EXCEPT !.at = "stat", !.item = t] /\ \A u \in left : t <= u
    BY <1>2 DEF Onward
  <2>2. /\ DOMAIN next = Fields /\ next.at = "stat"
        /\ next.item = t /\ next.todo = row.todo /\ next.conflict = row.conflict
        /\ next.files = row.files /\ next.old = row.old
    BY <2>1 DEF Fields, Down
  <2>3. t \in row.todo /\ t \in Slots
    BY <2>1
  <2>4. DoneBut(next, t, fin)
    <3> SUFFICES ASSUME NEW u \in Slots
                 PROVE  (u \in next.todo /\ u >= t) \/ Published(next.files[u], fin)
      BY DEF DoneBut
    <3>1. (u \in row.todo /\ u >= s) \/ Published(row.files[u], fin)
      BY DEF DoneBut
    <3>2. u \in left => u >= t
      BY <2>1, <2>3, SlotsAre
    <3> QED BY <2>2, <3>1, <3>2
  <2>5. Fits(next)
    BY <2>2 DEF Fits, FilesOf
  <2> QED BY <2>2, <2>3, <2>4, <2>5 DEF Row, Planning, Copying, Ended
<1> QED BY <1>1, <1>2

-----------------------------------------------------------------------------
(* The steps *)

\* A step of run r, of which only its own row is left to see, for the manifest is kept.
LEMMA OwnRow ==
  ASSUME IInv, Kept, NEW r \in Runs, NEW new, Goes(r, new), Row(new, final'),
         manifest' = manifest
  PROVE  IInv'
<1>1. DOMAIN run' = Runs /\ run'[r] = new /\ \A q \in Runs \ {r} : run'[q] = run[q]
  BY DEF IInv, Goes
<1>2. \A q \in Runs : Row(run'[q], final')
  BY <1>1, RowStays DEF IInv
<1>3. \A n \in Listed' : Published(n, final') /\ IsFile(n)
  BY DEF IInv, Listed, Published, Kept
<1> QED BY <1>1, <1>2, <1>3 DEF IInv

\* A step to an end, or on with the same file.
LEMMA StepKeeps ==
  ASSUME IInv, Kept, NEW r \in Runs, NEW p, Step(r, p), manifest' = manifest,
         p \in Ended \/ (run[r].at \in Copying /\ p \in Copying \ {"reread"})
  PROVE  IInv'
<1> DEFINE new == [run[r] EXCEPT !.at = p]
<1>1. Row(run[r], final')
  BY RowStays DEF IInv
<1>2. Row(new, final')
  BY <1>1, AtRow
<1>3. Goes(r, new)
  BY DEF Step
<1> HIDE DEF new
<1> QED BY <1>2, <1>3, OwnRow

LEMMA PlanKeeps ==
  ASSUME IInv, Kept, NEW r \in Runs, Plan(r)
  PROVE  IInv'
<1> DEFINE c == CardOf[r]
           files(folder) == [s \in Slots |-> FileAt(c, folder, s)]
           stats == [s \in Slots |-> SourceStat(card[c][s])]
           new(folder) == [Down EXCEPT !.at = "read", !.scheme = SchemeNow,
                                       !.files = files(folder), !.stats = stats]
<1>1. PICK folder : Goes(r, new(folder))
  BY DEF Plan
<1>2. \A s \in Slots : IsFile(files(folder)[s])
  BY DEF IsFile, FileAt, File
<1>3. manifest' = manifest
  BY DEF Plan, disk
<1> HIDE DEF files, stats
<1>4. /\ DOMAIN new(folder) = Fields /\ new(folder).at = "read" /\ new(folder).item = 1
      /\ new(folder).todo = {} /\ new(folder).conflict = FALSE
      /\ new(folder).files = files(folder)
  BY DEF Fields, Down
<1>5. Row(new(folder), final')
  BY <1>2, <1>4, SlotsAre DEF Row, Planning, Copying, Ended
<1> QED BY <1>1, <1>3, <1>5, OwnRow

LEMMA ReadManifestKeeps ==
  ASSUME IInv, Kept, NEW r \in Runs, ReadManifest(r)
  PROVE  IInv'
<1> DEFINE row == run[r]
           conflict == ~Compatible(r)
           new == [row EXCEPT !.at = "check", !.conflict = conflict, !.old = Listed]
<1>1. Row(row, final) /\ row.at = "read"
  BY DEF IInv, ReadManifest, At
<1>2. Goes(r, new) /\ manifest' = manifest /\ final' = final
  BY DEF ReadManifest, disk
<1>3. conflict \in BOOLEAN
  OBVIOUS
<1>4. ~conflict => \A m \in FilesOf(row) : PathsOf(m, Listed) \in {{}, PathsOf(m, FilesOf(row))}
  <2>1. Planned(r) = FilesOf(row)
    BY DEF Planned, FilesOf
  <2>2. CASE manifest = NoManifest
    <3>1. Listed = {}
      BY <2>2 DEF Listed, NoManifest
    <3> QED BY <3>1 DEF PathsOf
  <2>3. CASE manifest # NoManifest
    BY <2>1, <2>3 DEF Compatible
  <2> QED BY <2>2, <2>3
<1> HIDE DEF conflict
<1>5. /\ DOMAIN new = Fields /\ new.at = "check" /\ new.item = row.item
      /\ new.todo = row.todo /\ new.conflict = conflict /\ new.files = row.files
      /\ new.old = Listed
  BY <1>1 DEF Row, Fields, Down
<1> HIDE DEF new
<1>6. new.conflict \/ Fits(new)
  BY <1>3, <1>4, <1>5 DEF Fits, FilesOf
<1>7. \A s \in Slots : ~(s < new.item)
  BY <1>1, <1>5, SlotsAre DEF Row, Slots
<1>8. \A n \in new.old : Published(n, final') /\ IsFile(n)
  BY <1>2, <1>5 DEF IInv
<1>9. Row(new, final')
  BY <1>1, <1>3, <1>5, <1>6, <1>7, <1>8 DEF Row, Planning, Copying, Ended
<1> QED BY <1>2, <1>9, OwnRow

\* After the next file, still in the plan, whatever of row says so was done.
LEMMA GoesOnwardKeeps ==
  ASSUME IInv, Kept, NEW r \in Runs, NEW row, NEW s \in Nat, GoesOnward(r, row, s),
         manifest' = manifest,
         DOMAIN row = Fields, row.item \in Slots, row.todo \subseteq Slots,
         row.conflict \in BOOLEAN, Fits(row),
         \A t \in Slots : IsFile(row.files[t]),
         \A n \in row.old : Published(n, final') /\ IsFile(n),
         DoneBut(row, s, final')
  PROVE  IInv'
<1>1. PICK next \in Onward(row, s) : Goes(r, next)
  BY DEF GoesOnward
<1>2. Row(next, final')
  BY OnwardRow
<1> QED BY <1>1, <1>2, OwnRow

LEMMA CheckKeeps ==
  ASSUME IInv, Kept, NEW r \in Runs, Check(r)
  PROVE  IInv'
<1> DEFINE row == run[r]
           s == row.item
           ok == AlreadyOk(r)
           conflict == \/ row.conflict
                       \/ There(r) /\ ~AlreadyOk(r)
                       \/ SourceStat(Source(r)) # row.stats[s]
           todo == IF ok THEN row.todo ELSE row.todo \cup {s}
           new == [row EXCEPT !.conflict = conflict, !.todo = todo]
<1>1. Row(row, final) /\ row.at = "check" /\ s \in Slots /\ s \in Nat
  BY SlotsAre DEF IInv, Check, At, Row
<1>2. manifest' = manifest /\ final' = final
  BY DEF Check, disk
<1>3. \/ s < SlotCount /\ Goes(r, [new EXCEPT !.item = s + 1])
      \/ s = SlotCount /\ new.conflict /\ Goes(r, [new EXCEPT !.at = "CONFLICT"])
      \/ s = SlotCount /\ ~new.conflict /\ GoesOnward(r, new, 1)
  BY DEF Check
<1>4. conflict \in BOOLEAN /\ (row.conflict => conflict)
  BY <1>1 DEF Row
<1>5. ok => Published(row.files[s], final)
  BY DEF AlreadyOk, There, NameOf, FileOf, Published
<1>6. todo \subseteq Slots /\ row.todo \subseteq todo /\ (~ok => s \in todo)
  BY <1>1 DEF Row
<1> HIDE DEF conflict, todo, ok
<1>7. /\ DOMAIN new = Fields /\ new.at = "check" /\ new.item = s
      /\ new.todo = todo /\ new.conflict = conflict /\ new.files = row.files
      /\ new.old = row.old
  BY <1>1 DEF Row, Fields, Down
<1> HIDE DEF new
<1>8. \A t \in Slots : t < s + 1 => t \in todo \/ Published(row.files[t], final)
  <2> SUFFICES ASSUME NEW t \in Slots, t < s + 1 PROVE t \in todo \/ Published(row.files[t], final)
    OBVIOUS
  <2>1. t < s \/ t = s
    BY <1>1, SlotsAre
  <2>2. CASE t < s
    BY <1>1, <1>6, <2>2 DEF Row
  <2>3. CASE t = s
    BY <1>5, <1>6, <2>3
  <2> QED BY <2>1, <2>2, <2>3
<1>9. conflict \/ Fits(new)
  BY <1>1, <1>4, <1>7 DEF Row, Fits, FilesOf
<1>10. /\ \A t \in Slots : IsFile(row.files[t])
       /\ \A n \in row.old : Published(n, final) /\ IsFile(n)
  BY <1>1 DEF Row, Planning, Copying
<1>11. CASE s < SlotCount /\ Goes(r, [new EXCEPT !.item = s + 1])
  <2> DEFINE on == [new EXCEPT !.item = s + 1]
  <2>1. /\ DOMAIN on = Fields /\ on.at = "check" /\ on.item = s + 1
        /\ on.todo = todo /\ on.conflict = conflict /\ on.files = row.files
        /\ on.old = row.old
    BY <1>7 DEF Fields, Down
  <2>2. Goes(r, on)
    BY <1>11
  <2> HIDE DEF on
  <2>3. s + 1 \in Slots
    BY <1>1, <1>11, OrganizeAssumption DEF Slots
  <2>4. conflict \/ Fits(on)
    BY <1>7, <1>9, <2>1 DEF Fits, FilesOf
  <2>5. Row(on, final')
    BY <1>2, <1>4, <1>6, <1>8, <1>10, <2>1, <2>3, <2>4 DEF Row, Planning, Copying, Ended
  <2> QED BY <1>2, <2>2, <2>5, OwnRow
<1>12. CASE new.conflict /\ Goes(r, [new EXCEPT !.at = "CONFLICT"])
  <2> DEFINE on == [new EXCEPT !.at = "CONFLICT"]
  <2>1. /\ DOMAIN on = Fields /\ on.at = "CONFLICT" /\ on.item = s
        /\ on.todo = todo /\ on.conflict = conflict /\ on.old = row.old
    BY <1>7 DEF Fields, Down
  <2>2. Goes(r, on)
    BY <1>12
  <2> HIDE DEF on
  <2>3. Row(on, final')
    BY <1>1, <1>4, <1>6, <2>1 DEF Row, Planning, Copying, Ended
  <2> QED BY <1>2, <2>2, <2>3, OwnRow
<1>13. CASE s = SlotCount /\ ~new.conflict /\ GoesOnward(r, new, 1)
  <2>1. DoneBut(new, 1, final')
    BY <1>2, <1>7, <1>8, <1>13, SlotsAre, OrganizeAssumption DEF DoneBut, Slots
  <2>2. Fits(new)
    BY <1>7, <1>9, <1>13
  <2> QED BY <1>1, <1>2, <1>4, <1>6, <1>7, <1>10, <1>13, <2>1, <2>2, GoesOnwardKeeps
<1> QED BY <1>3, <1>11, <1>12, <1>13

\* A row that goes on with the same file, whatever else of it is changed.
LEMMA SameFile ==
  ASSUME IInv, Kept, NEW r \in Runs, NEW new, Goes(r, new), manifest' = manifest,
         run[r].at \in Copying, new.at \in Copying, DOMAIN new = Fields,
         new.at = "reread" => NameOf(r) \in DOMAIN final',
         new.item = run[r].item, new.todo = run[r].todo, new.conflict = run[r].conflict,
         new.files = run[r].files, new.old = run[r].old
  PROVE  IInv'
<1>1. Row(run[r], final')
  BY RowStays DEF IInv
<1>2. Fits(new) /\ DoneBut(new, new.item, final')
  BY <1>1 DEF Row, Fits, FilesOf, DoneBut
<1>3. Row(new, final')
  BY <1>1, <1>2 DEF Row, Planning, Copying, NameOf, FileOf
<1> QED BY <1>3, OwnRow

LEMMA CopyKeeps ==
  ASSUME IInv, Kept, NEW r \in Runs,
         StatSource(r) \/ Resume(r) \/ Open(r) \/ CopyBlock(r) \/ EndCopy(r) \/ Verify(r)
  PROVE  IInv'
<1>1. DOMAIN run[r] = Fields
  BY DEF IInv, Row
<1>2. CASE StatSource(r)
  <2> DEFINE initial == SourceStat(Source(r))
             new == [run[r] EXCEPT !.at = "resume", !.initial = initial]
  <2>1. Goes(r, new) /\ run[r].at = "stat" /\ manifest' = manifest
    BY <1>2 DEF StatSource, At, disk
  <2> HIDE DEF initial
  <2>2. /\ DOMAIN new = Fields /\ new.at = "resume"
        /\ new.item = run[r].item /\ new.todo = run[r].todo /\ new.conflict = run[r].conflict
        /\ new.files = run[r].files /\ new.old = run[r].old
    BY <1>1 DEF Fields, Down
  <2> HIDE DEF new
  <2> QED BY <2>1, <2>2, SameFile DEF Copying
<1>3. CASE Resume(r)
  <2>1. /\ run[r].at = "resume" /\ manifest' = manifest
        /\ Step(r, "ERROR") \/ Step(r, "open")
    BY <1>3 DEF Resume, At, disk
  <2> QED BY <2>1, StepKeeps DEF Ended, Copying
<1>4. CASE Open(r)
  <2> DEFINE new(sofar) == [run[r] EXCEPT !.at = "copy", !.hasher = sofar]
  <2>1. PICK sofar : Goes(r, new(sofar))
    BY <1>4 DEF Open
  <2>2. run[r].at = "open" /\ manifest' = manifest
    BY <1>4 DEF Open, At
  <2>3. /\ DOMAIN new(sofar) = Fields /\ new(sofar).at = "copy"
        /\ new(sofar).item = run[r].item /\ new(sofar).todo = run[r].todo
        /\ new(sofar).conflict = run[r].conflict
        /\ new(sofar).files = run[r].files /\ new(sofar).old = run[r].old
    BY <1>1 DEF Fields, Down
  <2> HIDE DEF new
  <2> QED BY <2>1, <2>2, <2>3, SameFile DEF Copying
<1>5. CASE CopyBlock(r)
  <2> DEFINE new(sofar) == [run[r] EXCEPT !.hasher = sofar]
  <2>1. PICK sofar : Goes(r, new(sofar))
    BY <1>5 DEF CopyBlock
  <2>2. run[r].at = "copy" /\ manifest' = manifest
    BY <1>5 DEF CopyBlock, At
  <2>3. /\ DOMAIN new(sofar) = Fields /\ new(sofar).at = "copy"
        /\ new(sofar).item = run[r].item /\ new(sofar).todo = run[r].todo
        /\ new(sofar).conflict = run[r].conflict
        /\ new(sofar).files = run[r].files /\ new(sofar).old = run[r].old
    BY <1>1, <2>2 DEF Fields, Down
  <2> HIDE DEF new
  <2> QED BY <2>1, <2>2, <2>3, SameFile DEF Copying
<1>6. CASE EndCopy(r)
  <2>1. /\ run[r].at = "copy" /\ manifest' = manifest
        /\ Step(r, "ERROR") \/ Step(r, "verify")
    BY <1>6 DEF EndCopy, At, disk
  <2> QED BY <2>1, StepKeeps DEF Ended, Copying
<1>7. CASE Verify(r)
  <2>1. /\ run[r].at = "verify" /\ manifest' = manifest
        /\ Step(r, "ERROR") \/ Step(r, "place")
    BY <1>7 DEF Verify, At, disk
  <2> QED BY <2>1, StepKeeps DEF Ended, Copying
<1> QED BY <1>2, <1>3, <1>4, <1>5, <1>6, <1>7

\* The file in hand is there and good: the run goes on with the next one.
LEMMA NextFileKeeps ==
  ASSUME IInv, Kept, NEW r \in Runs, run[r].at \in Copying, manifest' = manifest,
         Published(FileOf(r), final'),
         GoesOnward(r, run[r], run[r].item + 1)
  PROVE  IInv'
<1> DEFINE row == run[r]
<1>1. Row(row, final') /\ row.item \in Nat
  BY RowStays, SlotsAre DEF IInv, Row
<1>2. DoneBut(row, row.item + 1, final')
  <2> SUFFICES ASSUME NEW t \in Slots
               PROVE  (t \in row.todo /\ t >= row.item + 1) \/ Published(row.files[t], final')
    BY DEF DoneBut
  <2>1. (t \in row.todo /\ t >= row.item) \/ Published(row.files[t], final')
    BY <1>1 DEF Row, DoneBut
  <2>2. t >= row.item => t >= row.item + 1 \/ t = row.item
    BY <1>1, SlotsAre
  <2> QED BY <2>1, <2>2 DEF FileOf
<1>3. row.item + 1 \in Nat
  BY <1>1
<1>4. /\ DOMAIN row = Fields /\ row.item \in Slots /\ row.todo \subseteq Slots
      /\ row.conflict \in BOOLEAN /\ Fits(row)
      /\ \A t \in Slots : IsFile(row.files[t])
      /\ \A n \in row.old : Published(n, final') /\ IsFile(n)
  BY <1>1 DEF Row, Planning, Copying
<1> QED BY <1>2, <1>3, <1>4, GoesOnwardKeeps

LEMMA PublishKeeps ==
  ASSUME IInv, Kept, NEW r \in Runs, Place(r) \/ Rename(r) \/ Reread(r)
  PROVE  IInv'
<1>1. CASE Place(r)
  <2>1. run[r].at = "place" /\ manifest' = manifest /\ final' = final
    BY <1>1 DEF Place, At
  <2>2. CASE Step(r, "rename") \/ Step(r, "ERROR")
    BY <2>1, <2>2, StepKeeps DEF Ended, Copying
  <2>3. CASE AlreadyOk(r) /\ GoesOnward(r, run[r], run[r].item + 1)
    <3>1. Published(FileOf(r), final')
      BY <2>1, <2>3 DEF AlreadyOk, There, NameOf, Published
    <3> QED BY <2>1, <2>3, <3>1, NextFileKeeps DEF Copying
  <2> QED BY <1>1, <2>2, <2>3 DEF Place
<1>2. CASE Rename(r)
  <2>1. run[r].at = "rename" /\ manifest' = manifest
    BY <1>2 DEF Rename, At
  <2>2. CASE Step(r, "ERROR")
    BY <2>1, <2>2, StepKeeps DEF Ended, Copying
  <2> DEFINE new == [run[r] EXCEPT !.at = "reread", !.created = TRUE]
  <2>3. CASE Goes(r, new) /\ final' = With(final, NameOf(r), part[NameOf(r)])
    <3>1. /\ DOMAIN new = Fields /\ new.at = "reread"
          /\ new.item = run[r].item /\ new.todo = run[r].todo
          /\ new.conflict = run[r].conflict
          /\ new.files = run[r].files /\ new.old = run[r].old
      BY DEF IInv, Row, Fields, Down
    <3>2. NameOf(r) \in DOMAIN final'
      BY <2>3 DEF With
    <3> HIDE DEF new
    <3> QED BY <2>1, <2>3, <3>1, <3>2, SameFile DEF Copying
  <2> QED BY <1>2, <2>2, <2>3 DEF Rename
<1>3. CASE Reread(r)
  <2>1. run[r].at = "reread" /\ manifest' = manifest /\ final' = final
    BY <1>3 DEF Reread, At, disk
  <2>2. CASE PublishedIsGood(r) /\ GoesOnward(r, run[r], run[r].item + 1)
    <3>1. NameOf(r) \in DOMAIN final
      BY <2>1 DEF IInv, Row, NameOf, FileOf
    <3> QED BY <2>1, <2>2, <3>1, NextFileKeeps DEF Copying, PublishedIsGood, Published, NameOf
  <2>3. CASE Step(r, "ERROR")
    BY <2>1, <2>3, StepKeeps DEF Ended, Copying
  <2> QED BY <1>3, <2>2, <2>3 DEF Reread
<1> QED BY <1>1, <1>2, <1>3


\* What is listed of a planned asset is what is planned of it, and the other way round.
LEMMA SameFiles ==
  ASSUME NEW fin, NEW row, Fits(row),
         \A n \in row.old : Published(n, fin) /\ IsFile(n),
         \A m \in FilesOf(row) : Published(m, fin) /\ IsFile(m),
         NEW n \in row.old, NEW m \in FilesOf(row), SameAsset(n, m)
  PROVE  n \in FilesOf(row) /\ m \in row.old
<1>1. SameAsset(m, m)
  BY DEF SameAsset
<1>2. n.path \in PathsOf(m, row.old) /\ m.path \in PathsOf(m, FilesOf(row))
  BY <1>1 DEF PathsOf
<1>3. PathsOf(m, row.old) = PathsOf(m, FilesOf(row))
  BY <1>2 DEF Fits
<1>4. PICK o \in FilesOf(row) : o.path = n.path
  BY <1>2, <1>3 DEF PathsOf
<1>5. PICK k \in row.old : k.path = m.path
  BY <1>2, <1>3 DEF PathsOf
<1>6. o = n
  BY <1>4 DEF Published, IsFile
<1>7. k = m
  BY <1>5 DEF Published, IsFile
<1> QED BY <1>6, <1>7

LEMMA AtMerge ==
  ASSUME IInv, NEW r \in Runs, Merge(r)
  PROVE  /\ Planned(r) = FilesOf(run[r]) /\ Fits(run[r])
         /\ \A n \in run[r].old : Published(n, final) /\ IsFile(n)
         /\ \A m \in Planned(r) : Published(m, final) /\ IsFile(m)
<1>1. Row(run[r], final) /\ run[r].at = "merge"
  BY DEF IInv, Merge, At
<1>2. Planned(r) = FilesOf(run[r])
  BY DEF Planned, FilesOf
<1> QED BY <1>1, <1>2 DEF Row, Planning, Copying, Done, FilesOf

\* The manifest is written: what the run read, and what it planned.
LEMMA MergedListing ==
  ASSUME IInv, NEW r \in Runs, Merge(r)
  PROVE  /\ manifest' # manifest => run[r].old \subseteq Listed'
         /\ \A n \in Listed' : Published(n, final') /\ IsFile(n)
<1> DEFINE row == run[r]
<1>1. final' = final
  BY DEF Merge
<1>2. CASE manifest' = manifest
  BY <1>1, <1>2 DEF IInv, Listed
<1>3. CASE manifest' = [scheme |-> row.scheme, assets |-> Merged(row.old, Planned(r))]
  <2>1. Listed' = Merged(row.old, Planned(r))
    BY <1>3 DEF Listed
  <2>2. \A n \in row.old, m \in Planned(r) : SameAsset(n, m) => n \in Planned(r)
    BY AtMerge, SameFiles
  <2>3. row.old \subseteq Merged(row.old, Planned(r))
    BY <2>2 DEF Merged
  <2>4. Merged(row.old, Planned(r)) \subseteq row.old \cup Planned(r)
    BY DEF Merged
  <2> QED BY <1>1, <2>1, <2>3, <2>4, AtMerge
<1> QED BY <1>2, <1>3 DEF Merge

LEMMA MergeKeeps ==
  ASSUME IInv, Kept, NEW r \in Runs, Merge(r)
  PROVE  IInv'
<1> DEFINE new == [run[r] EXCEPT !.at = "APPLIED"]
<1>1. run' = [run EXCEPT ![r] = new] /\ final' = final
  BY DEF Merge, Step, Goes
<1>2. Row(new, final)
  BY AtRow DEF IInv, Ended
<1> HIDE DEF new
<1>3. DOMAIN run' = Runs /\ \A q \in Runs : Row(run'[q], final')
  BY <1>1, <1>2 DEF IInv
<1> QED BY <1>3, MergedListing DEF IInv

LEMMA StopKeeps ==
  ASSUME IInv, Kept, NEW r \in Runs, Stop(r)
  PROVE  IInv'
<1>1. Goes(r, Down) /\ manifest' = manifest
  BY DEF Stop, disk
<1>2. /\ DOMAIN Down = Fields /\ Down.at = "down" /\ Down.item = 1 /\ Down.todo = {}
      /\ Down.conflict = FALSE
  BY DEF Fields, Down
<1>3. Row(Down, final')
  BY <1>2, SlotsAre DEF Row, Ended, Planning, Copying
<1> QED BY <1>1, <1>3, OwnRow

\* The invariant holds at first, and every step keeps it.
LEMMA InitHolds ==
  ASSUME Init PROVE IInv
<1>1. /\ DOMAIN Down = Fields /\ Down.at = "down" /\ Down.item = 1 /\ Down.todo = {}
      /\ Down.conflict = FALSE
  BY DEF Fields, Down
<1>2. Row(Down, final)
  BY <1>1, SlotsAre DEF Row, Ended, Planning, Copying
<1>3. DOMAIN run = Runs /\ \A r \in Runs : run[r] = Down
  BY DEF Init
<1>4. ASSUME NEW n \in Listed PROVE Published(n, final) /\ IsFile(n)
  <2>1. /\ IsFile(n)
        /\ \A m \in Listed : m.path = n.path => m = n
    BY <1>4, ManifestAssumption DEF Init, Listed, IsFile
  <2>2. n.path \in {m.path : m \in Listed}
    OBVIOUS
  <2> DEFINE m == CHOOSE m \in Listed : m.path = n.path
  <2>3. m \in Listed /\ m.path = n.path
    OBVIOUS
  <2>4. final[n.path] = m.data /\ n.path \in DOMAIN final
    BY <2>2 DEF Init
  <2> HIDE DEF m
  <2> QED BY <2>1, <2>3, <2>4 DEF Published
<1> QED BY <1>2, <1>3, <1>4 DEF IInv

LEMMA StepHolds ==
  ASSUME IInv, [Next]_vars PROVE IInv'
<1>1. Kept
  BY StepKeepsFinal
<1>2. CASE run' = run /\ final' = final /\ manifest' = manifest
  BY <1>2 DEF IInv, Listed
<1>3. ASSUME NEW r \in Runs, Apply(r) PROVE IInv'
  BY <1>1, <1>3, ReadManifestKeeps, CheckKeeps, CopyKeeps, PublishKeeps, MergeKeeps DEF Apply
<1>4. \/ run' = run /\ final' = final /\ manifest' = manifest
      \/ \E r \in Runs : Plan(r) \/ Apply(r) \/ Stop(r)
  BY DEF Next, vars, Edit, disk
<1> QED BY <1>1, <1>2, <1>3, <1>4, PlanKeeps, StopKeeps

\* The invariant holds always: the manifest lists what is published and verified, and every
\* run under way remembers of it and plans for it what fits what is there.
THEOREM Invariant == Spec => []IInv
<1>1. Init => IInv
  BY InitHolds
<1>2. IInv /\ [Next]_vars => IInv'
  BY StepHolds
<1> QED BY <1>1, <1>2, PTL DEF Spec

\* ListedIsVerified: what the manifest lists is there with the data its hash is of,
\* however many runs stop, race and overwrite each other's manifest.
THEOREM Listing == Spec => []ListedIsVerified
<1>1. IInv => ListedIsVerified
  BY DEF IInv, ListedIsVerified, Published
<1> QED BY <1>1, Invariant, PTL

Past == Planning \ {"read"}

\* A step moves one run.  Only the step that writes the manifest ends it as APPLIED, and
\* what it knows of the manifest is what it has read.
Moved(r) ==
  /\ \A p \in Runs \ {r} : run'[p] = run[p]
  /\ run'[r].at = "APPLIED" => Merge(r)
  /\ run'[r].at \in Past =>
       ReadManifest(r) \/ (run[r].at \in Past /\ run'[r].old = run[r].old)

LEMMA Moves ==
  ASSUME IInv, NEW r \in Runs, Plan(r) \/ Apply(r) \/ Stop(r)
  PROVE  Moved(r)
<1>1. DOMAIN run = Runs /\ DOMAIN run[r] = Fields
  BY DEF IInv, Row
<1>2. ASSUME NEW row, Goes(r, row) PROVE run'[r] = row /\ \A p \in Runs \ {r} : run'[p] = run[p]
  BY <1>1, <1>2 DEF Goes
<1>3. ASSUME NEW row, Goes(r, row), row.old = run[r].old, run[r].at \in Past,
             row.at # "APPLIED"
      PROVE  Moved(r)
  BY <1>2, <1>3 DEF Moved
<1>4. ASSUME NEW p, Step(r, p), run[r].at \in Past, p # "APPLIED" PROVE Moved(r)
  <2> DEFINE row == [run[r] EXCEPT !.at = p]
  <2>1. Goes(r, row)
    BY <1>4 DEF Step
  <2>2. row.at = p /\ row.old = run[r].old
    BY <1>1 DEF Fields, Down
  <2> HIDE DEF row
  <2> QED BY <1>3, <1>4, <2>1, <2>2
<1>5. ASSUME NEW row, NEW s, DOMAIN row = Fields, row.old = run[r].old, run[r].at \in Past,
             GoesOnward(r, row, s)
      PROVE  Moved(r)
  <2>1. PICK next \in Onward(row, s) : Goes(r, next)
    BY <1>5 DEF GoesOnward
  <2>2. next.at \in {"merge", "stat"} /\ next.old = row.old
    BY <1>5 DEF Onward, Fields, Down
  <2>3. next.old = run[r].old /\ next.at # "APPLIED"
    BY <1>5, <2>2
  <2> QED BY <1>3, <1>5, <2>1, <2>3
<1>6. CASE Plan(r)
  <2> DEFINE new(files, stats) ==
               [Down EXCEPT !.at = "read", !.scheme = SchemeNow, !.files = files, !.stats = stats]
  <2>1. PICK files, stats : Goes(r, new(files, stats))
    BY <1>6 DEF Plan
  <2>2. new(files, stats).at = "read"
    BY DEF Down
  <2> HIDE DEF new
  <2> QED BY <1>2, <2>1, <2>2 DEF Moved, Past
<1>7. CASE ReadManifest(r)
  <2> DEFINE new(conflict, old) ==
        [run[r] EXCEPT !.at = "check", !.conflict = conflict, !.old = old]
  <2>1. PICK conflict, old : Goes(r, new(conflict, old))
    BY <1>7 DEF ReadManifest
  <2>2. new(conflict, old).at = "check"
    BY <1>1 DEF Fields, Down
  <2> HIDE DEF new
  <2> QED BY <1>2, <1>7, <2>1, <2>2 DEF Moved
<1>8. CASE Check(r)
  <2>1. PICK conflict, todo, s :
          LET row == [run[r] EXCEPT !.conflict = conflict, !.todo = todo]
          IN \/ Goes(r, [row EXCEPT !.item = s]) \/ Goes(r, [row EXCEPT !.at = "CONFLICT"])
             \/ GoesOnward(r, row, 1)
    BY <1>8 DEF Check
  <2> DEFINE row == [run[r] EXCEPT !.conflict = conflict, !.todo = todo]
  <2>2. run[r].at = "check" /\ run[r].at \in Past
    BY <1>8 DEF Check, At, Past, Planning
  <2>3. DOMAIN row = Fields /\ row.at = "check" /\ row.old = run[r].old
    BY <1>1, <2>2 DEF Fields, Down
  <2>4. Goes(r, [row EXCEPT !.item = s]) \/ Goes(r, [row EXCEPT !.at = "CONFLICT"])
        \/ GoesOnward(r, row, 1)
    BY <2>1
  <2> HIDE DEF row
  <2> DEFINE on == [row EXCEPT !.item = s]
             end == [row EXCEPT !.at = "CONFLICT"]
  <2>5. /\ on.at = "check" /\ on.old = run[r].old
        /\ end.at = "CONFLICT" /\ end.old = run[r].old
    BY <2>3 DEF Fields, Down
  <2>6. Goes(r, on) \/ Goes(r, end) \/ GoesOnward(r, row, 1)
    BY <2>4
  <2> HIDE DEF on, end
  <2>7. CASE GoesOnward(r, row, 1)
    BY <1>5, <2>2, <2>3, <2>7
  <2>8. CASE Goes(r, on)
    BY <1>3, <2>2, <2>5, <2>8
  <2>9. CASE Goes(r, end)
    BY <1>3, <2>2, <2>5, <2>9
  <2> QED BY <2>6, <2>7, <2>8, <2>9
<1>9. CASE StatSource(r)
  <2> DEFINE new(initial) == [run[r] EXCEPT !.at = "resume", !.initial = initial]
  <2>1. PICK initial : Goes(r, new(initial))
    BY <1>9 DEF StatSource
  <2>2. run[r].at \in Past
    BY <1>9 DEF StatSource, At, Past, Planning, Copying
  <2>3. new(initial).at = "resume" /\ new(initial).old = run[r].old
    BY <1>1 DEF Fields, Down
  <2> HIDE DEF new
  <2> QED BY <1>3, <2>1, <2>2, <2>3
<1>10. CASE Open(r)
  <2> DEFINE new(sofar) == [run[r] EXCEPT !.at = "copy", !.hasher = sofar]
  <2>1. PICK sofar : Goes(r, new(sofar))
    BY <1>10 DEF Open
  <2>2. run[r].at \in Past
    BY <1>10 DEF Open, At, Past, Planning, Copying
  <2>3. new(sofar).at = "copy" /\ new(sofar).old = run[r].old
    BY <1>1 DEF Fields, Down
  <2> HIDE DEF new
  <2> QED BY <1>3, <2>1, <2>2, <2>3
<1>11. CASE CopyBlock(r)
  <2> DEFINE new(sofar) == [run[r] EXCEPT !.hasher = sofar]
  <2>1. PICK sofar : Goes(r, new(sofar))
    BY <1>11 DEF CopyBlock
  <2>2. run[r].at = "copy" /\ run[r].at \in Past
    BY <1>11 DEF CopyBlock, At, Past, Planning, Copying
  <2>3. new(sofar).at = "copy" /\ new(sofar).old = run[r].old
    BY <1>1, <2>2 DEF Fields, Down
  <2> HIDE DEF new
  <2> QED BY <1>3, <2>1, <2>2, <2>3
<1>12. CASE Resume(r) \/ EndCopy(r) \/ Verify(r)
  <2>1. \E p \in {"ERROR", "open", "verify", "place"} : Step(r, p)
    BY <1>12 DEF Resume, EndCopy, Verify
  <2>2. run[r].at \in Past
    BY <1>12 DEF Resume, EndCopy, Verify, At, Past, Planning, Copying
  <2> QED BY <1>4, <2>1, <2>2
<1>13. CASE Place(r) \/ Reread(r)
  <2>1. Step(r, "rename") \/ Step(r, "ERROR") \/ GoesOnward(r, run[r], run[r].item + 1)
    BY <1>13 DEF Place, Reread
  <2>2. run[r].at \in Past
    BY <1>13 DEF Place, Reread, At, Past, Planning, Copying
  <2> QED BY <1>1, <1>4, <1>5, <2>1, <2>2
<1>14. CASE Rename(r)
  <2> DEFINE new == [run[r] EXCEPT !.at = "reread", !.created = TRUE]
  <2>1. Step(r, "ERROR") \/ Goes(r, new)
    BY <1>14 DEF Rename
  <2>2. run[r].at \in Past
    BY <1>14 DEF Rename, At, Past, Planning, Copying
  <2>3. new.at = "reread" /\ new.old = run[r].old
    BY <1>1 DEF Fields, Down
  <2> HIDE DEF new
  <2> QED BY <1>3, <1>4, <2>1, <2>2, <2>3
<1>15. CASE Stop(r)
  <2>1. Goes(r, Down) /\ Down.at = "down"
    BY <1>15 DEF Stop, Down
  <2> QED BY <1>2, <2>1 DEF Moved, Past, Planning, Copying
<1>16. CASE Merge(r)
  <2> DEFINE new == [run[r] EXCEPT !.at = "APPLIED"]
  <2>1. Goes(r, new)
    BY <1>16 DEF Merge, Step
  <2>2. new.at = "APPLIED"
    BY <1>1 DEF Fields, Down
  <2> HIDE DEF new
  <2> QED BY <1>2, <1>16, <2>1, <2>2 DEF Moved, Past, Planning, Copying
<1> QED BY <1>6, <1>7, <1>8, <1>9, <1>10, <1>11, <1>12, <1>13, <1>14, <1>15, <1>16 DEF Apply

\* What is listed and a run at work did not read, others have listed since it read.
Seen ==
  /\ DOMAIN meanwhile = Runs
  /\ \A r \in Runs : run[r].at \in Past => Listed \subseteq run[r].old \cup meanwhile[r]

LEMMA SeenKeeps ==
  ASSUME IInv, Seen, [Next]_vars PROVE Seen'
<1>1. ASSUME run' = run, manifest' = manifest, meanwhile' = meanwhile PROVE Seen'
  BY <1>1 DEF Seen, Listed
<1>2. ASSUME NEW r \in Runs, ReadManifest(r) PROVE Seen'
  <2>1. Moved(r) /\ manifest' = manifest /\ meanwhile' = [meanwhile EXCEPT ![r] = {}]
    BY <1>2, Moves DEF Apply, ReadManifest, disk
  <2>2. run'[r].old = Listed
    BY <1>2 DEF ReadManifest, Goes, IInv, Row, Fields, Down
  <2> QED BY <2>1, <2>2 DEF Seen, Moved, Listed
<1>3. ASSUME NEW r \in Runs, Merge(r) PROVE Seen'
  <2>1. /\ \A p \in Runs \ {r} : run'[p] = run[p]
        /\ run'[r].at \notin Past
    <3>1. Moved(r)
      BY <1>3, Moves DEF Apply
    <3>2. run'[r].at = "APPLIED"
      BY <1>3 DEF Merge, Step, Goes, IInv, Row, Fields, Down
    <3> QED BY <3>1, <3>2 DEF Moved, Past, Planning, Copying
  <2>2. meanwhile' = [q \in Runs |-> IF run[q].at \in Ended \cup {"read"} THEN {}
                                     ELSE meanwhile[q] \cup (Listed' \ Listed)]
    BY <1>3 DEF Merge
  <2>3. ASSUME NEW q \in Runs, run'[q].at \in Past
        PROVE  Listed' \subseteq run'[q].old \cup meanwhile'[q]
    <3>1. run'[q] = run[q] /\ run[q].at \in Past
      BY <2>1, <2>3
    <3>2. run[q].at \notin Ended \cup {"read"}
      BY <3>1 DEF Past, Planning, Copying, Ended
    <3>3. meanwhile'[q] = meanwhile[q] \cup (Listed' \ Listed)
      BY <2>2, <3>2
    <3>4. Listed \subseteq run[q].old \cup meanwhile[q]
      BY <3>1 DEF Seen
    <3> QED BY <3>1, <3>3, <3>4
  <2>4. DOMAIN meanwhile' = Runs
    BY <2>2
  <2> QED BY <2>3, <2>4 DEF Seen
<1>4. ASSUME NEW r \in Runs, Plan(r) \/ Apply(r) \/ Stop(r), ~ReadManifest(r), ~Merge(r)
      PROVE  Seen'
  <2>1. Moved(r)
    BY <1>4, Moves
  <2>2. manifest' = manifest /\ meanwhile' = meanwhile
    BY <1>4 DEF Apply, Plan, Stop, Check, StatSource, Resume, Open, CopyBlock, EndCopy, Verify,
                Place, Rename, Reread, disk
  <2> QED BY <1>4, <2>1, <2>2 DEF Seen, Moved, Listed
<1>5. \/ run' = run /\ manifest' = manifest /\ meanwhile' = meanwhile
      \/ \E r \in Runs : Plan(r) \/ Apply(r) \/ Stop(r)
  BY DEF Next, vars, disk, Edit
<1> QED BY <1>1, <1>2, <1>3, <1>4, <1>5

ListingsGo ==
  manifest' # manifest =>
    \E r \in Runs : /\ At(r, "merge") /\ run[r].old \subseteq Listed'
                    /\ Listed \ Listed' \subseteq meanwhile[r]

\* ListingsAreKept: a run writes back whatever it read, at the place where it was, and what
\* it drops or moves was listed by another run after that.
THEOREM Listings == Spec => ListingsAreKept
<1>1. Init => Seen
  BY DEF Init, Seen, Down, Past, Planning, Copying
<1>2. ASSUME IInv, Seen, [Next]_vars PROVE ListingsGo
  <2>1. ASSUME NEW r \in Runs, Merge(r) PROVE ListingsGo
    <3>1. At(r, "merge") /\ run[r].at \in Past
      BY <2>1 DEF Merge, At, Past, Planning
    <3>2. Listed \subseteq run[r].old \cup meanwhile[r]
      BY <1>2, <3>1 DEF Seen
    <3>3. manifest' # manifest => run[r].old \subseteq Listed'
      BY <1>2, <2>1, MergedListing
    <3> QED BY <3>1, <3>2, <3>3 DEF ListingsGo
  <2>2. manifest' = manifest \/ \E r \in Runs : Merge(r)
    BY <1>2 DEF Next, vars, disk, Plan, Apply, Stop, Edit, ReadManifest, Check, StatSource,
                Resume, Open, CopyBlock, EndCopy, Verify, Place, Rename, Reread
  <2> QED BY <2>1, <2>2 DEF ListingsGo
<1>3. IInv /\ Seen /\ [Next]_vars => Seen'
  BY SeenKeeps
<1>4. IInv /\ Seen /\ [Next]_vars => ListingsGo
  BY <1>2
<1> QED BY <1>1, <1>3, <1>4, Invariant, PTL DEF Spec, ListingsAreKept, ListingsGo

AppliesListed ==
  \A r \in Runs : run'[r].at = "APPLIED" /\ run[r].at # "APPLIED"
                    => Planned(r) \subseteq Listed' \/ Planned(r) \subseteq run[r].old

\* AppliedIsListed: a run that ends APPLIED leaves none of its files out.
THEOREM AppliedListed == Spec => AppliedIsListed
<1>1. ASSUME IInv, NEW r \in Runs, Merge(r)
      PROVE  Planned(r) \subseteq Listed' \/ Planned(r) \subseteq run[r].old
  <2>1. CASE NothingNew(r)
    <3>1. \A m \in Planned(r) : \E n \in run[r].old : SameAsset(n, m)
      BY <2>1 DEF NothingNew
    <3> QED BY <1>1, <3>1, AtMerge, SameFiles
  <2>2. CASE ~NothingNew(r)
    BY <1>1, <2>2 DEF Merge, Merged, Listed
  <2> QED BY <2>1, <2>2
<1>2. ASSUME IInv, [Next]_vars PROVE AppliesListed
  <2> SUFFICES ASSUME NEW q \in Runs, run'[q].at = "APPLIED", run[q].at # "APPLIED"
               PROVE  Planned(q) \subseteq Listed' \/ Planned(q) \subseteq run[q].old
    BY DEF AppliesListed
  <2>1. \E r \in Runs : Plan(r) \/ Apply(r) \/ Stop(r)
    BY <1>2 DEF Next, vars, Edit
  <2>2. Merge(q)
    BY <1>2, <2>1, Moves DEF Moved
  <2> QED BY <1>1, <1>2, <2>2
<1> QED BY <1>2, Invariant, PTL DEF Spec, AppliedIsListed, AppliesListed

=============================================================================
