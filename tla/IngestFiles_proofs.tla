--------------------------- MODULE IngestFiles_proofs ---------------------------
(***************************************************************************)
(* For every set of ingests, cards and paths, and however often a worker   *)
(* stops and a card is edited: what has a final name is whole, a verified  *)
(* ingest has all its files, nothing that is published is replaced and no  *)
(* partial is lost.                                                        *)
(*                                                                         *)
(* The invariant is what an attempt that goes on may rely on: the items    *)
(* before the current one are in place; a source that looks as it was      *)
(* inventoried is what was inventoried; and while a final name shares its  *)
(* file with a partial, that partial belongs to an ingest whose inventory  *)
(* the file begins with and which is no longer than that of anybody who    *)
(* found the same file in place.  The last part is what makes the final    *)
(* file right when the shared name goes, though others relied on it while  *)
(* it could still grow.                                                    *)
(***************************************************************************)
EXTENDS IngestFiles, SequenceTheorems, TLAPS

Data == Seq(Blocks)
Stat == [size : Nat, version : Nat]
CardType == [plugged : BOOLEAN, files : [Items -> File]]
Row == [at : Places, item : Items, initial : Stat \cup {None}, hasher : Data,
        source : Data, listed : Seq(Data), verdict : Verdicts \cup {None}]

Type ==
  /\ card \in [Cards -> CardType]
  /\ snap \in [Ingests -> [Items -> File] \cup {None}]
  /\ part \in [Ingests -> [Items -> Data \cup {None}]]
  /\ final \in [Items -> Data \cup {None}]
  /\ link \in [Items -> Ingests \cup {None}]
  /\ manifest \in [Ingests -> Seq(Data) \cup {None}]
  /\ proc \in [Ingests -> Row]
  /\ result \in [Ingests -> Verdicts \cup {None}]

\* What ingest i has to bring to the name of item f.
Wanted(i, f) == snap[i][f].data

\* A source that looks as it was inventoried holds what it held then.
Recorded(i) ==
  snap[i] # None =>
    \A f \in Items :
      LET now == card[CardOf[i]].files[f] IN
      /\ snap[i][f].version <= now.version
      /\ snap[i][f].version = now.version => Wanted(i, f) = now.data

\* Item f of ingest i is in place: under its name is what the inventory recorded, or a
\* file that begins with it and that somebody, who wanted no more, has yet to let go of.
Placed(i, f) ==
  /\ snap[i] # None /\ final[f] # None
  /\ IsPrefix(Wanted(i, f), final[f])
  /\ link[f] = None => final[f] = Wanted(i, f)
  /\ link[f] # None => Len(Wanted(link[f], f)) <= Len(Wanted(i, f))

\* What has a name was published by an ingest; a shared name is the partial's.
Named(f) ==
  /\ final[f] # None => \E i \in Ingests : Placed(i, f)
  /\ link[f] # None => Placed(link[f], f) /\ final[f] = part[link[f]][f]

\* The first n items are hashed and in place.
Done(i, n) ==
  /\ Len(proc[i].listed) = n
  /\ \A g \in 1..n : proc[i].listed[g] = Wanted(i, g) /\ Placed(i, g)

Whole(i) ==
  /\ manifest[i] = [f \in Items |-> Wanted(i, f)]
  /\ \A f \in Items : Placed(i, f)

\* What an attempt knows at each place.
Knows(i) ==
  /\ proc[i].at = "idle" => ItemOf(i) = 1 /\ proc[i].listed = <<>>
  /\ proc[i].at # "idle" => snap[i] # None /\ result[i] = None
  /\ proc[i].at \notin {"idle", "manifest", "report"} => Done(i, ItemOf(i) - 1)
  /\ proc[i].at = "manifest" => Done(i, ItemCount)
  /\ proc[i].at = "copy" => Partial(i) = proc[i].hasher
  /\ proc[i].at \in {"compare", "promote", "unlink"} => proc[i].source = Wanted(i, ItemOf(i))
  /\ proc[i].at \in {"promote", "unlink"} => Partial(i) = proc[i].source
  /\ proc[i].at = "unlink" => link[ItemOf(i)] = i
  /\ proc[i].at = "report" /\ proc[i].verdict = "VERIFIED" => Whole(i)

Vouched(i) == result[i] = "VERIFIED" => Whole(i)

IInv ==
  /\ Type
  /\ \A f \in Items : Named(f)
  /\ \A i \in Ingests : Recorded(i) /\ Knows(i) /\ Vouched(i)

-----------------------------------------------------------------------------
(* Data *)

LEMMA PrefixByBlock ==
  ASSUME NEW s \in Data, NEW t \in Data
  PROVE IsPrefix(s, t) <=> Len(s) <= Len(t) /\ \A j \in 1..Len(s) : s[j] = t[j]
<1>1. Len(s) \in Nat /\ Len(t) \in Nat
  BY DEF Data
<1>2. SubSeq(s, 1, Len(s)) = s
  BY SubSeqFull DEF Data
<1>3. CASE Len(s) <= Len(t)
  <2>1. /\ Len(SubSeq(t, 1, Len(s))) = Len(s)
        /\ \A j \in 1..Len(s) : SubSeq(t, 1, Len(s))[j] = t[j]
    BY <1>1, <1>3, SubSeqProperties DEF Data
  <2>2. SubSeq(t, 1, Len(s)) \in Data
    BY <1>1, <1>3 DEF Data
  <2>3. (SubSeq(t, 1, Len(s)) = s) <=> \A j \in 1..Len(s) : s[j] = t[j]
    BY <2>1, <2>2 DEF Data
  <2> QED BY <1>2, <1>3, <2>3 DEF IsPrefix
<1> QED BY <1>3 DEF IsPrefix

LEMMA PrefixOfItself ==
  ASSUME NEW s \in Data
  PROVE IsPrefix(s, s)
BY PrefixByBlock DEF Data

\* What a file begins with it still begins with when it has grown.
LEMMA PrefixGrows ==
  ASSUME NEW s \in Data, NEW t \in Data, NEW b \in Blocks, IsPrefix(s, t)
  PROVE Append(t, b) \in Data /\ IsPrefix(s, Append(t, b)) /\ IsPrefix(t, Append(t, b))
<1> DEFINE u == Append(t, b)
<1>1. u \in Data /\ Len(u) = Len(t) + 1
  BY DEF Data
<1>2. \A j \in 1..Len(t) : t[j] = u[j]
  BY DEF Data
<1>3. Len(s) <= Len(t) /\ \A j \in 1..Len(s) : s[j] = t[j]
  BY PrefixByBlock
<1>4. Len(s) \in Nat /\ Len(t) \in Nat
  BY DEF Data
<1> HIDE DEF u
<1>5. IsPrefix(t, u)
  BY <1>1, <1>2, <1>4, PrefixByBlock
<1>6. \A j \in 1..Len(s) : s[j] = u[j]
  BY <1>2, <1>3, <1>4
<1>7. IsPrefix(s, u)
  BY <1>1, <1>3, <1>4, <1>6, PrefixByBlock
<1> QED BY <1>1, <1>5, <1>7 DEF u

LEMMA PrefixAsLong ==
  ASSUME NEW s \in Data, NEW t \in Data, IsPrefix(s, t), Len(t) <= Len(s)
  PROVE s = t
BY PrefixByBlock DEF Data

-----------------------------------------------------------------------------
(* Names *)

\* No file is data.
LEMMA NoneIsNoData == None \notin Data /\ None \notin Ingests /\ None # "VERIFIED"
BY IngestFilesAssumption DEF Data, Verdicts

LEMMA WantedIsData ==
  ASSUME Type, NEW i \in Ingests, snap[i] # None, NEW f \in Items
  PROVE Wanted(i, f) \in Data
<1>1. snap[i] \in [Items -> File]
  BY DEF Type
<1> QED BY <1>1 DEF Wanted, File, Data

\* Inventories are not taken again.
Registered == \A k \in Ingests : snap[k] # None => snap'[k] = snap[k]

\* What a step may do to a name: nothing, give it, let the file grow while it is shared,
\* or end the sharing of a file that is what its ingest wants.
NameMoves(f) ==
  \/ final'[f] = final[f] /\ link'[f] = link[f]
  \/ \E i \in Ingests : /\ final[f] = None /\ snap[i] # None
                        /\ final'[f] = Wanted(i, f) /\ link'[f] = i
  \/ /\ link[f] # None /\ link'[f] = link[f]
     /\ \E b \in Blocks : final'[f] = Append(final[f], b)
  \/ /\ link[f] # None /\ link'[f] = None
     /\ final'[f] = final[f] /\ final[f] = Wanted(link[f], f)

\* Whatever happens to a name, whoever relied on it still may.
LEMMA PlacedStays ==
  ASSUME IInv, Registered, NEW f \in Items, NameMoves(f), NEW k \in Ingests, Placed(k, f)
  PROVE Placed(k, f)'
<1> DEFINE wanted == Wanted(k, f)
<1>1. snap[k] # None /\ snap'[k] = snap[k] /\ Wanted(k, f)' = wanted
  BY DEF Placed, Registered, Wanted
<1>2. wanted \in Data /\ final[f] \in Data /\ IsPrefix(wanted, final[f])
  BY <1>1, WantedIsData DEF Placed, IInv, Type
<1>3. ASSUME link[f] # None
      PROVE /\ link[f] \in Ingests /\ snap[link[f]] # None
            /\ Wanted(link[f], f) \in Data
            /\ snap'[link[f]] = snap[link[f]]
            /\ Len(Wanted(link[f], f)) <= Len(wanted)
  <2>1. link[f] \in Ingests /\ Placed(link[f], f)
    BY <1>3 DEF IInv, Type, Named
  <2>2. snap[link[f]] # None /\ snap'[link[f]] = snap[link[f]]
    BY <2>1 DEF Placed, Registered
  <2> QED BY <1>3, <2>1, <2>2, WantedIsData DEF IInv, Placed
<1>4. CASE final'[f] = final[f] /\ link'[f] = link[f]
  <2>1. link[f] # None => Wanted(link[f], f)' = Wanted(link[f], f)
    BY <1>3, <1>4 DEF Wanted
  <2> QED BY <1>1, <1>4, <2>1 DEF Placed
<1>5. CASE \E i \in Ingests : final[f] = None
  BY <1>5 DEF Placed
<1>6. CASE /\ link[f] # None /\ link'[f] = link[f]
           /\ \E b \in Blocks : final'[f] = Append(final[f], b)
  <2>1. PICK b \in Blocks : final'[f] = Append(final[f], b)
    BY <1>6
  <2>2. final'[f] \in Data /\ IsPrefix(wanted, final'[f])
    BY <1>2, <2>1, PrefixGrows
  <2>3. Wanted(link[f], f)' = Wanted(link[f], f)
    BY <1>3, <1>6 DEF Wanted
  <2>4. final'[f] # None
    BY <2>2, NoneIsNoData
  <2> QED BY <1>1, <1>3, <1>6, <2>2, <2>3, <2>4 DEF Placed
<1>7. CASE /\ link[f] # None /\ link'[f] = None
           /\ final'[f] = final[f] /\ final[f] = Wanted(link[f], f)
  <2>1. wanted = final[f]
    BY <1>2, <1>3, <1>7, PrefixAsLong
  <2> QED BY <1>1, <1>2, <1>7, <2>1 DEF Placed
<1> QED BY <1>4, <1>5, <1>6, <1>7 DEF NameMoves

LEMMA NamedStays ==
  ASSUME IInv, Type', Registered, NEW f \in Items, NameMoves(f),
         link'[f] # None => final'[f] = part'[link'[f]][f]
  PROVE Named(f)'
<1>1. ASSUME NEW i \in Ingests, final[f] = None, snap[i] # None,
             final'[f] = Wanted(i, f), link'[f] = i
      PROVE Placed(i, f)'
  <2>1. snap'[i] = snap[i] /\ Wanted(i, f)' = Wanted(i, f) /\ Wanted(i, f) \in Data
    BY <1>1, WantedIsData DEF Registered, Wanted, IInv
  <2>2. IsPrefix(Wanted(i, f), final'[f]) /\ final'[f] # None
    BY <1>1, <2>1, PrefixOfItself, NoneIsNoData
  <2>3. i # None /\ Len(Wanted(i, f)) <= Len(Wanted(i, f))
    BY <2>1, NoneIsNoData DEF Data
  <2>4. Wanted(link[f], f)' = Wanted(i, f)
    BY <1>1, <2>1 DEF Wanted
  <2> QED BY <1>1, <2>1, <2>2, <2>3, <2>4 DEF Placed
<1>2. CASE \E i \in Ingests : /\ final[f] = None /\ snap[i] # None
                               /\ final'[f] = Wanted(i, f) /\ link'[f] = i
  BY <1>1, <1>2 DEF Named
<1>3. CASE final[f] # None \/ final'[f] = None
  <2>1. \A k \in Ingests : Placed(k, f) => Placed(k, f)'
    BY PlacedStays
  <2>2. link[f] # None => link[f] \in Ingests /\ Placed(link[f], f) /\ final[f] # None
    BY DEF IInv, Type, Named, Placed
  <2>3. ASSUME final'[f] # None
        PROVE \E k \in Ingests : Placed(k, f)'
    BY <1>3, <2>1, <2>3 DEF IInv, Named
  <2>4. ASSUME link'[f] # None
        PROVE Placed(link[f], f)'
    <3>1. CASE link'[f] = link[f]
      BY <2>1, <2>2, <2>4, <3>1 DEF Placed, Wanted
    <3>2. CASE link'[f] # link[f]
      <4>1. PICK i \in Ingests : /\ final[f] = None /\ snap[i] # None
                                 /\ final'[f] = Wanted(i, f) /\ link'[f] = i
        BY <2>4, <3>2 DEF NameMoves
      <4> QED BY <4>1, <1>1
    <3> QED BY <3>1, <3>2
  <2> QED BY <2>3, <2>4 DEF Named
<1>4. CASE final[f] = None /\ final'[f] # None
  <2>1. link[f] = None
    BY <1>4 DEF IInv, Named, Placed
  <2> QED BY <1>2, <1>4, <2>1 DEF NameMoves
<1> QED BY <1>3, <1>4

-----------------------------------------------------------------------------
(* Attempts *)

\* Whoever has nothing to do with a step knows what it knew.
LEMMA OthersKnow ==
  ASSUME IInv, Registered, \A f \in Items : NameMoves(f),
         NEW k \in Ingests,
         proc'[k] = proc[k], part'[k] = part[k], manifest'[k] = manifest[k],
         result'[k] = result[k],
         \A f \in Items : link[f] = k => link'[f] = k
  PROVE Knows(k)' /\ Vouched(k)'
<1>1. \A f \in Items : Placed(k, f) => Placed(k, f)'
  BY PlacedStays
<1>2. 1 \in Items /\ ItemCount \in Nat
  BY IngestFilesAssumption DEF Items
<1>3. Whole(k) => Whole(k)'
  <2>1. Whole(k) => snap[k] # None
    BY <1>2 DEF Whole, Placed
  <2> QED BY <1>1, <2>1 DEF Whole, Wanted, Registered
<1>4. Vouched(k)'
  BY <1>3 DEF IInv, Vouched
<1>5. ItemOf(k) \in Items /\ ItemOf(k)' = ItemOf(k)
  BY DEF IInv, Type, Row, ItemOf
<1>6. CASE snap[k] = None
  <2>1. proc[k].at = "idle" /\ Knows(k)
    BY <1>6 DEF IInv, Knows
  <2> QED BY <1>4, <1>5, <2>1 DEF Knows
<1>7. CASE snap[k] # None
  <2>1. snap'[k] = snap[k]
    BY <1>7 DEF Registered
  <2>2. \A g \in Items : Wanted(k, g)' = Wanted(k, g)
    BY <2>1 DEF Wanted
  <2>3. ASSUME NEW n \in 0..ItemCount, Done(k, n)
        PROVE Done(k, n)'
    <3>1. 1..n \subseteq Items
      BY <1>2 DEF Items
    <3> QED BY <1>1, <2>2, <2>3, <3>1 DEF Done
  <2>4. ItemOf(k) - 1 \in 0..ItemCount /\ ItemCount \in 0..ItemCount
    BY <1>2, <1>5 DEF Items
  <2>5. ItemOf(k)' - 1 = ItemOf(k) - 1
    BY <1>5
  <2>6. /\ proc'[k].at \notin {"idle", "manifest", "report"} => Done(k, ItemOf(k) - 1)'
        /\ proc'[k].at = "manifest" => Done(k, ItemCount)'
    <3>1. Done(k, ItemOf(k) - 1) => Done(k, ItemOf(k) - 1)'
      BY <2>4, <2>3, <1>5 DEF Done
    <3>2. Done(k, ItemCount) => Done(k, ItemCount)'
      BY <2>4, <2>3
    <3> QED BY <3>1, <3>2 DEF IInv, Knows
  <2>7. Partial(k)' = Partial(k)
    BY <1>5 DEF Partial, ItemOf
  <2>8. Knows(k)
    BY DEF IInv
  <2> QED BY <1>3, <1>4, <1>5, <2>1, <2>2, <2>6, <2>7, <2>8 DEF Knows
<1> QED BY <1>6, <1>7

\* What a step of ingest i leaves alone.
Others(i) ==
  \A k \in Ingests \ {i} :
    /\ proc'[k] = proc[k] /\ part'[k] = part[k]
    /\ manifest'[k] = manifest[k] /\ result'[k] = result[k]

\* A step of an attempt is right if it is right for its own ingest and its names.
LEMMA AttemptKeeps ==
  ASSUME IInv, Type', NEW i \in Ingests, UNCHANGED <<card, snap>>, Others(i),
         \A f \in Items : /\ NameMoves(f)
                          /\ link'[f] = link[f] \/ {link[f], link'[f]} \subseteq {i, None}
                          /\ link'[f] # None => final'[f] = part'[link'[f]][f],
         Knows(i)', Vouched(i)'
  PROVE IInv'
<1>1. Registered
  BY DEF Registered
<1>2. ASSUME NEW f \in Items
      PROVE Named(f)'
  BY <1>1, NamedStays
<1>3. ASSUME NEW k \in Ingests
      PROVE Recorded(k)'
  BY DEF IInv, Recorded, Wanted
<1>4. ASSUME NEW k \in Ingests \ {i}
      PROVE Knows(k)' /\ Vouched(k)'
  <2>1. \A f \in Items : link[f] = k => link'[f] = k
    BY NoneIsNoData
  <2> QED BY <1>1, <2>1, OthersKnow DEF Others
<1> QED BY <1>2, <1>3, <1>4 DEF IInv

\* A step that changes no file and no verdict.
LEMMA QuietKeeps ==
  ASSUME IInv, NEW i \in Ingests, NEW row \in Row, Goes(i, row),
         UNCHANGED <<card, snap, disk, result>>, Knows(i)'
  PROVE IInv'
<1>1. Type'
  BY DEF IInv, Type, Goes, disk
<1>2. Others(i)
  BY DEF Others, Goes, disk, IInv, Type
<1>3. Vouched(i)'
  <2>1. Vouched(i)
    BY DEF IInv
  <2> QED BY <2>1 DEF Vouched, Whole, Placed, Wanted, disk
<1>4. ASSUME NEW f \in Items
      PROVE /\ NameMoves(f) /\ link'[f] = link[f]
            /\ link'[f] # None => final'[f] = part'[link'[f]][f]
  BY DEF NameMoves, disk, IInv, Named
<1> QED BY <1>1, <1>2, <1>3, <1>4, AttemptKeeps

\* What is done stays done while no file changes.
LEMMA QuietDone ==
  ASSUME NEW i \in Ingests, NEW n, UNCHANGED <<snap, disk>>,
         proc'[i].listed = proc[i].listed, Done(i, n)
  PROVE Done(i, n)'
BY DEF Done, Placed, Wanted, disk

-----------------------------------------------------------------------------
(* The steps that change no file *)

\* An attempt that has not ended keeps the items it has done.
LEMMA BusyRow ==
  ASSUME IInv, NEW i \in Ingests, proc[i].at \notin {"idle", "manifest", "report"}
  PROVE /\ proc[i] \in Row /\ ItemOf(i) \in Items
        /\ snap[i] \in [Items -> File] /\ snap[i] # None /\ result[i] = None
        /\ Done(i, ItemOf(i) - 1)
<1>1. proc[i] \in Row /\ snap[i] \in [Items -> File] \cup {None}
  BY DEF IInv, Type
<1>2. Knows(i)
  BY DEF IInv
<1> QED BY <1>1, <1>2 DEF Knows, Row, ItemOf

\* The attempt goes to another place of the same item.
LEMMA GoesOn ==
  ASSUME IInv, NEW i \in Ingests, proc[i].at \notin {"idle", "manifest", "report"},
         NEW row \in Row, Goes(i, row), UNCHANGED <<card, snap, disk, result>>,
         row.item = proc[i].item, row.listed = proc[i].listed,
         row.at \in {"resume", "hash", "compare", "promote"},
         row.at = "compare" => row.source = Wanted(i, ItemOf(i)),
         row.at = "promote" => row.source = Wanted(i, ItemOf(i)) /\ Partial(i) = row.source
  PROVE IInv'
<1>1. proc'[i] = row
  BY DEF Goes, IInv, Type
<1>2. Done(i, ItemOf(i) - 1)'
  <2>1. Done(i, ItemOf(i) - 1)
    BY BusyRow
  <2>2. proc'[i].item = proc[i].item /\ proc'[i].listed = proc[i].listed
    BY <1>1
  <2> QED BY <2>1, <2>2 DEF Done, Placed, Wanted, disk, ItemOf
<1>3. snap'[i] # None /\ result'[i] = None
  BY BusyRow
<1>4. Wanted(i, ItemOf(i))' = Wanted(i, ItemOf(i)) /\ Partial(i)' = Partial(i)
  BY <1>1 DEF Wanted, ItemOf, Partial, disk
<1>5. Knows(i)'
  BY <1>1, <1>2, <1>3, <1>4 DEF Knows
<1> QED BY <1>5, QuietKeeps

\* The attempt returns without having verified the ingest.
LEMMA ReturnsKeeps ==
  ASSUME IInv, NEW i \in Ingests, NEW v \in Verdicts \ {"VERIFIED"}, Returns(i, v),
         ~At(i, "idle"), UNCHANGED <<card, snap, disk, result>>
  PROVE IInv'
<1> DEFINE row == [proc[i] EXCEPT !.at = "report", !.verdict = v]
<1>1. proc[i] \in Row /\ Knows(i)
  BY DEF IInv, Type
<1>2. row \in Row /\ row.at = "report" /\ row.verdict = v
  BY <1>1 DEF Row, Places
<1>3. Goes(i, row)
  BY DEF Returns
<1> HIDE DEF row
<1>4. proc'[i] = row
  BY <1>3 DEF Goes, IInv, Type
<1>5. Knows(i)'
  BY <1>1, <1>2, <1>4 DEF Knows, At
<1> QED BY <1>2, <1>3, <1>5, QuietKeeps

\* The attempt is gone.
LEMMA StopKeeps ==
  ASSUME IInv, NEW i \in Ingests, Goes(i, Idle), UNCHANGED <<card, snap, disk, result>>
  PROVE IInv'
<1>1. Idle \in Row
  BY IngestFilesAssumption DEF Idle, Row, Places, Items, Data
<1>2. proc'[i].at = "idle" /\ proc'[i].item = 1 /\ proc'[i].listed = <<>>
  BY DEF Goes, IInv, Type, Idle
<1>3. Knows(i)'
  BY <1>2 DEF Knows, ItemOf
<1> QED BY <1>1, <1>3, QuietKeeps

LEMMA BeginKeeps ==
  ASSUME IInv, NEW i \in Ingests, Begin(i)
  PROVE IInv'
<1> DEFINE row == [proc[i] EXCEPT !.at = "stat"]
<1>1. proc[i] \in Row /\ Knows(i)
  BY DEF IInv, Type
<1>2. row \in Row /\ row.at = "stat" /\ row.item = proc[i].item /\ row.listed = proc[i].listed
  BY <1>1 DEF Row, Places
<1>3. Goes(i, row) /\ UNCHANGED <<card, snap, disk, result>>
  BY DEF Begin, Step
<1>4. proc[i].at = "idle" /\ snap[i] # None /\ result[i] = None
  BY DEF Begin, At
<1>5. row.item = 1 /\ row.listed = <<>>
  BY <1>1, <1>2, <1>4 DEF Knows, ItemOf
<1> HIDE DEF row
<1>6. proc'[i] = row
  BY <1>3 DEF Goes, IInv, Type
<1>7. Knows(i)'
  <2>1. ItemOf(i)' = 1 /\ proc'[i].listed = <<>> /\ proc'[i].at = "stat"
    BY <1>2, <1>5, <1>6 DEF ItemOf
  <2>2. Done(i, 0)'
    BY <2>1 DEF Done
  <2> QED BY <1>3, <1>4, <2>1, <2>2 DEF Knows
<1> QED BY <1>2, <1>3, <1>7, QuietKeeps

LEMMA StatSourceKeeps ==
  ASSUME IInv, NEW i \in Ingests, StatSource(i)
  PROVE IInv'
<1> DEFINE stat == SourceStat(Source(i))
           row == [proc[i] EXCEPT !.at = "resume", !.initial = stat]
<1>1. proc[i] \in Row /\ proc[i].at = "stat"
  BY DEF IInv, Type, StatSource, At
<1>2. Source(i) \in File
  BY <1>1, IngestFilesAssumption DEF IInv, Type, CardType, Source, ItemOf, Row
<1>3. stat \in Stat
  BY <1>2 DEF SourceStat, Stat, File
<1> HIDE DEF stat
<1>4. row \in Row /\ row.at = "resume" /\ row.item = proc[i].item /\ row.listed = proc[i].listed
  BY <1>1, <1>3 DEF Row, Places
<1>5. Goes(i, row) /\ UNCHANGED <<card, snap, disk, result>>
  BY DEF StatSource, world, stat
<1> HIDE DEF row
<1> QED BY <1>1, <1>4, <1>5, GoesOn

LEMMA EndCopyKeeps ==
  ASSUME IInv, NEW i \in Ingests, EndCopy(i)
  PROVE IInv'
<1> DEFINE row == [proc[i] EXCEPT !.at = "hash"]
<1>1. proc[i] \in Row /\ proc[i].at = "copy"
  BY DEF IInv, Type, EndCopy, At
<1>2. UNCHANGED <<card, snap, disk, result>>
  BY DEF EndCopy, world
<1>3. CASE Unchanged(i)
  <2>1. row \in Row /\ row.at = "hash" /\ row.item = proc[i].item /\ row.listed = proc[i].listed
    BY <1>1 DEF Row, Places
  <2>2. Goes(i, row)
    BY <1>3 DEF EndCopy, Step
  <2> HIDE DEF row
  <2> QED BY <1>1, <1>2, <2>1, <2>2, GoesOn
<1>4. CASE ~Unchanged(i)
  BY <1>1, <1>2, <1>4, ReturnsKeeps DEF EndCopy, At, Verdicts
<1> QED BY <1>3, <1>4

\* A source that looks as it was inventoried is what the ingest wants.
LEMMA SourceIsWanted ==
  ASSUME IInv, NEW i \in Ingests, snap[i] # None, AsInventoried(i)
  PROVE Source(i).data = Wanted(i, ItemOf(i)) /\ Source(i).data \in Data
<1>1. ItemOf(i) \in Items /\ snap[i] \in [Items -> File] /\ Recorded(i)
  BY DEF IInv, Type, Row, ItemOf
<1>2. snap[i][ItemOf(i)].version = Source(i).version
  BY DEF AsInventoried, Expected, SourceStat
<1>3. Source(i).data = Wanted(i, ItemOf(i))
  BY <1>1, <1>2 DEF Recorded, Source
<1> QED BY <1>1, <1>3, WantedIsData DEF IInv

LEMMA HashSourceKeeps ==
  ASSUME IInv, NEW i \in Ingests, HashSource(i)
  PROVE IInv'
<1> DEFINE data == Source(i).data
           row == [proc[i] EXCEPT !.at = "compare", !.source = data]
<1>1. proc[i] \in Row /\ proc[i].at = "hash"
  BY DEF IInv, Type, HashSource, At
<1>2. UNCHANGED <<card, snap, disk, result>>
  BY DEF HashSource, world
<1>3. CASE AsInventoried(i) /\ Goes(i, row)
  <2>1. data = Wanted(i, ItemOf(i)) /\ data \in Data
    BY <1>1, <1>3, BusyRow, SourceIsWanted
  <2> HIDE DEF data
  <2>2. /\ row \in Row /\ row.at = "compare" /\ row.source = data
        /\ row.item = proc[i].item /\ row.listed = proc[i].listed
    BY <1>1, <2>1 DEF Row, Places
  <2>3. Goes(i, row)
    BY <1>3
  <2> HIDE DEF row
  <2> QED BY <1>1, <1>2, <2>1, <2>2, <2>3, GoesOn
<1>4. CASE Returns(i, "INTERRUPTED") \/ Returns(i, "FAILED")
  BY <1>1, <1>2, <1>4, ReturnsKeeps DEF At, Verdicts
<1> QED BY <1>3, <1>4 DEF HashSource

LEMMA CompareKeeps ==
  ASSUME IInv, NEW i \in Ingests, Compare(i)
  PROVE IInv'
<1> DEFINE row == [proc[i] EXCEPT !.at = "promote"]
<1>1. proc[i] \in Row /\ proc[i].at = "compare" /\ proc[i].source = Wanted(i, ItemOf(i))
  BY DEF IInv, Type, Compare, At, Knows
<1>2. UNCHANGED <<card, snap, disk, result>>
  BY DEF Compare, world
<1>3. CASE AllMatch(i) /\ Step(i, "promote")
  <2>1. /\ row \in Row /\ row.at = "promote" /\ row.source = proc[i].source
        /\ row.item = proc[i].item /\ row.listed = proc[i].listed
    BY <1>1 DEF Row, Places
  <2>2. Goes(i, row) /\ Partial(i) = proc[i].source
    BY <1>3 DEF Step, AllMatch
  <2> HIDE DEF row
  <2> QED BY <1>1, <1>2, <2>1, <2>2, GoesOn
<1>4. CASE Returns(i, "INTERRUPTED") \/ Returns(i, "FAILED")
  BY <1>1, <1>2, <1>4, ReturnsKeeps DEF At, Verdicts
<1> QED BY <1>3, <1>4 DEF Compare

LEMMA ReportKeeps ==
  ASSUME IInv, NEW i \in Ingests, Report(i)
  PROVE IInv'
<1>1. /\ proc[i] \in Row /\ proc[i].at = "report" /\ Knows(i)
      /\ Goes(i, Idle) /\ UNCHANGED <<card, snap, disk>>
      /\ result' = [result EXCEPT ![i] = proc[i].verdict]
  BY DEF IInv, Type, Report, At, world
<1>2. Idle \in Row
  BY IngestFilesAssumption DEF Idle, Row, Places, Items, Data
<1>3. Type'
  BY <1>1, <1>2 DEF IInv, Type, Goes, disk, Row
<1>4. Others(i)
  BY <1>1 DEF Others, Goes, disk, IInv, Type
<1>5. proc'[i] = Idle /\ result'[i] = proc[i].verdict
  BY <1>1 DEF Goes, IInv, Type
<1>6. Knows(i)'
  BY <1>5 DEF Knows, ItemOf, Idle
<1>7. Vouched(i)'
  <2>1. proc[i].verdict = "VERIFIED" => Whole(i)
    BY <1>1 DEF Knows
  <2> QED BY <1>1, <1>5, <2>1 DEF Vouched, Whole, Placed, Wanted, disk
<1>8. ASSUME NEW f \in Items
      PROVE /\ NameMoves(f) /\ link'[f] = link[f]
            /\ link'[f] # None => final'[f] = part'[link'[f]][f]
  BY <1>1 DEF NameMoves, disk, IInv, Named
<1> QED BY <1>1, <1>3, <1>4, <1>6, <1>7, <1>8, AttemptKeeps

LEMMA CrashKeeps ==
  ASSUME IInv, NEW i \in Ingests, Crash(i) \/ SourceGone(i)
  PROVE IInv'
BY StopKeeps DEF Crash, SourceGone, world

LEMMA ShareGoneKeeps ==
  ASSUME IInv, NEW i \in Ingests, ShareGone(i)
  PROVE IInv'
BY ReturnsKeeps DEF ShareGone, At, Verdicts

-----------------------------------------------------------------------------
(* The steps that change files *)

\* The partial of the current item is made, written or removed.
LEMMA PartialChanges ==
  ASSUME IInv, NEW i \in Ingests, NEW p \in Data \cup {None},
         part' = [part EXCEPT ![i][ItemOf(i)] = p]
  PROVE /\ part' \in [Ingests -> [Items -> Data \cup {None}]]
        /\ part'[i][ItemOf(i)] = p
        /\ \A k \in Ingests, f \in Items : k # i \/ f # ItemOf(i) => part'[k][f] = part[k][f]
        /\ \A k \in Ingests \ {i} : part'[k] = part[k]
<1>1. part \in [Ingests -> [Items -> Data \cup {None}]] /\ ItemOf(i) \in Items
  BY DEF IInv, Type, ItemOf, Row
<1> HIDE DEF Items
<1> QED BY <1>1

LEMMA ResumeKeeps ==
  ASSUME IInv, NEW i \in Ingests, Resume(i)
  PROVE IInv'
<1> DEFINE row(h) == [proc[i] EXCEPT !.at = "copy", !.hasher = h]
<1>1. proc[i] \in Row /\ proc[i].at = "resume"
  BY DEF IInv, Type, Resume, At
<1>2. UNCHANGED <<card, snap, final, link, manifest, result>>
  BY DEF Resume, world
<1>3. CASE Partial(i) # None /\ ~PrefixAgrees(Partial(i), Source(i))
  BY <1>1, <1>2, <1>3, ReturnsKeeps DEF Resume, At, Verdicts, disk
<1>4. ASSUME NEW h \in Data, Goes(i, row(h)),
             \/ Partial(i) = h /\ UNCHANGED part
             \/ Partial(i) = None /\ part' = [part EXCEPT ![i][ItemOf(i)] = h]
      PROVE IInv'
  <2>1. /\ row(h) \in Row /\ row(h).at = "copy" /\ row(h).hasher = h
        /\ row(h).item = proc[i].item /\ row(h).listed = proc[i].listed
    BY <1>1 DEF Row, Places
  <2>2. proc' = [proc EXCEPT ![i] = row(h)]
    BY <1>4 DEF Goes
  <2> HIDE DEF row
  <2>3. proc'[i] = row(h) /\ ItemOf(i)' = ItemOf(i) /\ ItemOf(i) \in Items
    BY <2>1, <2>2 DEF IInv, Type, ItemOf, Row
  <2>4. /\ part' \in [Ingests -> [Items -> Data \cup {None}]]
        /\ part'[i][ItemOf(i)] = h
        /\ \A k \in Ingests, f \in Items :
             part[k][f] # None => part'[k][f] = part[k][f]
        /\ \A k \in Ingests \ {i} : part'[k] = part[k]
    <3>1. CASE Partial(i) = h /\ UNCHANGED part
      BY <3>1 DEF Partial, IInv, Type
    <3>2. CASE Partial(i) = None /\ part' = [part EXCEPT ![i][ItemOf(i)] = h]
      <4>1. /\ part' \in [Ingests -> [Items -> Data \cup {None}]]
            /\ part'[i][ItemOf(i)] = h
            /\ \A k \in Ingests, f \in Items :
                 k # i \/ f # ItemOf(i) => part'[k][f] = part[k][f]
            /\ \A k \in Ingests \ {i} : part'[k] = part[k]
        BY <3>2, PartialChanges
      <4> QED BY <3>2, <4>1 DEF Partial
    <3> QED BY <1>4, <3>1, <3>2
  <2>5. Type'
    BY <1>2, <2>1, <2>2, <2>4 DEF IInv, Type
  <2>6. Others(i)
    BY <1>2, <2>2, <2>4 DEF Others, IInv, Type
  <2>7. ASSUME NEW f \in Items
        PROVE /\ NameMoves(f) /\ link'[f] = link[f]
              /\ link'[f] # None => final'[f] = part'[link'[f]][f]
    <3>1. link[f] # None => /\ link[f] \in Ingests
                            /\ final[f] = part[link[f]][f] /\ final[f] # None
      BY DEF IInv, Type, Named, Placed
    <3> QED BY <1>2, <2>4, <3>1 DEF NameMoves
  <2>8. Knows(i)' /\ Vouched(i)'
    <3>1. Done(i, ItemOf(i) - 1)' /\ snap[i] # None /\ result[i] = None
      <4>1. Done(i, ItemOf(i) - 1) /\ snap[i] # None /\ result[i] = None
        BY <1>1, BusyRow
      <4>2. proc'[i].listed = proc[i].listed
        BY <2>1, <2>3
      <4> QED BY <1>2, <2>3, <4>1, <4>2 DEF Done, Placed, Wanted
    <3>2. Partial(i)' = h
      BY <2>3, <2>4 DEF Partial
    <3> QED BY <1>2, <2>1, <2>3, <3>1, <3>2, NoneIsNoData DEF Knows, Vouched
  <2> QED BY <1>2, <2>5, <2>6, <2>7, <2>8, AttemptKeeps
<1>5. Partial(i) # None => Partial(i) \in Data
  BY <1>1 DEF IInv, Type, Partial, ItemOf, Row
<1>6. <<>> \in Data
  BY DEF Data
<1> QED BY <1>3, <1>4, <1>5, <1>6 DEF Resume

LEMMA BlockIsRead ==
  ASSUME IInv, NEW i \in Ingests, CopyBlock(i)
  PROVE BlockAt(Source(i), Len(proc[i].hasher)) \in Blocks
<1>1. ItemOf(i) \in Items /\ Source(i) \in File /\ proc[i].hasher \in Data
  BY IngestFilesAssumption DEF IInv, Type, CardType, Source, ItemOf, Row
<1>2. Len(proc[i].hasher) \in Nat /\ Len(proc[i].hasher) < Len(Source(i).data)
  BY <1>1 DEF CopyBlock, MoreToRead, Data
<1> QED BY <1>1, <1>2 DEF BlockAt, File

LEMMA CopyBlockKeeps ==
  ASSUME IInv, NEW i \in Ingests, CopyBlock(i)
  PROVE IInv'
<1> DEFINE block == BlockAt(Source(i), Len(proc[i].hasher))
           g == ItemOf(i)
           longer == Append(proc[i].hasher, block)
           row == [proc[i] EXCEPT !.hasher = longer]
<1>1. /\ proc[i] \in Row /\ proc[i].at = "copy" /\ Knows(i) /\ g \in Items
      /\ Partial(i) = proc[i].hasher /\ proc[i].hasher \in Data
  BY DEF IInv, Type, CopyBlock, At, Row, ItemOf, Knows
<1>2. block \in Blocks
  BY BlockIsRead
<1>3. longer \in Data /\ longer # None
  BY <1>1, <1>2, NoneIsNoData DEF Data
<1>4. /\ UNCHANGED <<card, snap, link, manifest, result>>
      /\ Goes(i, row)
      /\ part' = [part EXCEPT ![i][g] = longer]
      /\ final' = [final EXCEPT ![g] = IF link[g] = i THEN longer ELSE @]
  <2>1. part[i][g] = proc[i].hasher
    BY <1>1 DEF Partial
  <2>2. link[g] = i => final[g] = proc[i].hasher
    BY <2>1, <1>1, NoneIsNoData DEF IInv, Named
  <2>3. part' = [part EXCEPT ![i][g] = Append(part[i][g], block)]
    BY DEF CopyBlock
  <2>4. final' = [final EXCEPT ![g] = IF link[g] = i THEN Append(final[g], block) ELSE final[g]]
    BY DEF CopyBlock
  <2>5. UNCHANGED <<card, snap, link, manifest, result>> /\ Goes(i, row)
    BY DEF CopyBlock, world
  <2> HIDE DEF block, g
  <2> QED BY <2>1, <2>2, <2>3, <2>4, <2>5
<1>5. longer = Append(proc[i].hasher, block)
  OBVIOUS
<1>6. /\ row \in Row /\ row.at = "copy" /\ row.hasher = longer
      /\ row.item = proc[i].item /\ row.listed = proc[i].listed
  <2> HIDE DEF longer
  <2> QED BY <1>1, <1>3 DEF Row
<1> HIDE DEF block, longer, row
<1>7. proc'[i] = row /\ ItemOf(i)' = g
  BY <1>4, <1>6 DEF IInv, Type, Goes, ItemOf
<1>8. /\ part' \in [Ingests -> [Items -> Data \cup {None}]]
      /\ part'[i][ItemOf(i)] = longer
      /\ \A k \in Ingests, f \in Items :
           k # i \/ f # ItemOf(i) => part'[k][f] = part[k][f]
      /\ \A k \in Ingests \ {i} : part'[k] = part[k]
  <2>1. longer \in Data \cup {None} /\ part' = [part EXCEPT ![i][ItemOf(i)] = longer]
    BY <1>3, <1>4
  <2> QED BY <2>1, PartialChanges
<1>9. Type'
  <2>1. proc' \in [Ingests -> Row]
    BY <1>4, <1>6 DEF IInv, Type, Goes
  <2>2. final' \in [Items -> Data \cup {None}]
    BY <1>3, <1>4 DEF IInv, Type
  <2> QED BY <1>4, <1>8, <2>1, <2>2 DEF IInv, Type
<1>10. Others(i)
  BY <1>4, <1>8 DEF Others, IInv, Type, Goes
<1>11. ASSUME NEW f \in Items
       PROVE /\ NameMoves(f) /\ link'[f] = link[f]
             /\ link'[f] # None => final'[f] = part'[link'[f]][f]
  <2>1. link[f] # None => /\ link[f] \in Ingests
                          /\ final[f] = part[link[f]][f] /\ final[f] # None
    BY DEF IInv, Type, Named, Placed
  <2>2. final \in [Items -> Data \cup {None}]
    BY DEF IInv, Type
  <2>3. CASE f = g /\ link[f] = i
    <3>1. final'[f] = longer /\ final[f] = proc[i].hasher /\ link[f] # None
      BY <1>1, <1>4, <2>1, <2>2, <2>3, NoneIsNoData DEF Partial
    <3> QED BY <1>2, <1>4, <1>5, <1>8, <2>3, <3>1 DEF NameMoves
  <2>4. CASE f # g \/ link[f] # i
    <3>1. final'[f] = final[f]
      BY <1>4, <2>2, <2>4
    <3> QED BY <1>4, <1>8, <2>1, <2>4, <3>1 DEF NameMoves
  <2> QED BY <2>3, <2>4
<1>12. Registered
  BY <1>4 DEF Registered
<1>13. Knows(i)' /\ Vouched(i)'
  <2>1. Done(i, g - 1) /\ snap[i] # None /\ result[i] = None
    BY <1>1, BusyRow
  <2>2. \A f \in Items : Placed(i, f) => Placed(i, f)'
    BY <1>11, <1>12, PlacedStays
  <2>3. Done(i, g - 1)'
    <3>1. proc'[i].listed = proc[i].listed
      BY <1>6, <1>7
    <3>2. 1..(g - 1) \subseteq Items
      BY <1>1, IngestFilesAssumption DEF Items
    <3>3. \A h \in 1..(g - 1) : Placed(i, h)'
      BY <2>1, <2>2, <3>2 DEF Done
    <3>4. Len(proc'[i].listed) = g - 1 /\ \A h \in 1..(g - 1) : proc'[i].listed[h] = Wanted(i, h)'
      BY <1>4, <2>1, <3>1 DEF Done, Wanted
    <3> QED BY <1>7, <3>3, <3>4 DEF Done
  <2>4. Partial(i)' = longer
    BY <1>7, <1>8 DEF Partial
  <2>5. ItemOf(i)' - 1 = g - 1
    BY <1>7
  <2> QED BY <1>4, <1>6, <1>7, <2>1, <2>3, <2>4, <2>5, NoneIsNoData DEF Knows, Vouched
<1> QED BY <1>4, <1>9, <1>10, <1>11, <1>13, AttemptKeeps

\* The row an attempt goes on with when its item is done.
LEMMA NextItemRow ==
  ASSUME IInv, NEW i \in Ingests, proc[i].at \in {"promote", "unlink"}, NextItem(i)
  PROVE /\ proc' \in [Ingests -> Row]
        /\ \A k \in Ingests \ {i} : proc'[k] = proc[k]
        /\ proc'[i].listed = Append(proc[i].listed, proc[i].source)
        /\ \/ ItemOf(i) = ItemCount /\ proc'[i].at = "manifest"
           \/ ItemOf(i) # ItemCount /\ proc'[i].at = "stat" /\ ItemOf(i)' = ItemOf(i) + 1
<1> DEFINE last == ItemOf(i) = ItemCount
           at == IF last THEN "manifest" ELSE "stat"
           item == IF last THEN ItemOf(i) ELSE ItemOf(i) + 1
           listed == Append(proc[i].listed, proc[i].source)
           row == [Idle EXCEPT !.at = at, !.item = item, !.listed = listed]
<1>1. proc[i] \in Row /\ ItemOf(i) \in 1..ItemCount /\ ItemCount \in Nat
  BY IngestFilesAssumption DEF IInv, Type, Row, ItemOf, Items
<1>2. item \in Items
  BY <1>1 DEF Items
<1>3. at \in Places /\ listed \in Seq(Data)
  BY <1>1 DEF Places, Row
<1>4. proc' = [proc EXCEPT ![i] = row]
  BY DEF NextItem, Goes
<1>5. \/ at = "manifest" /\ last
      \/ at = "stat" /\ ~last /\ item = ItemOf(i) + 1
  OBVIOUS
<1>6. Idle \in Row
  BY IngestFilesAssumption DEF Idle, Row, Places, Items, Data
<1> HIDE DEF at, item, listed
<1>7. row \in Row /\ row.at = at /\ row.item = item /\ row.listed = listed
  BY <1>2, <1>3, <1>6 DEF Row
<1> HIDE DEF row
<1>8. proc'[i] = row
  BY <1>4 DEF IInv, Type
<1>9. proc' \in [Ingests -> Row] /\ \A k \in Ingests \ {i} : proc'[k] = proc[k]
  BY <1>4, <1>7 DEF IInv, Type
<1>10. ItemOf(i)' = item
  BY <1>7, <1>8 DEF ItemOf
<1> QED BY <1>5, <1>7, <1>8, <1>9, <1>10 DEF listed

\* An item that is in place is done, and the loop goes on.
LEMMA NextItemKnows ==
  ASSUME IInv, NEW i \in Ingests, proc[i].at \in {"promote", "unlink"}, NextItem(i),
         UNCHANGED <<snap, result>>, \A f \in Items : NameMoves(f), Placed(i, ItemOf(i))
  PROVE Knows(i)' /\ Vouched(i)'
<1> DEFINE g == ItemOf(i)
           listed == Append(proc[i].listed, proc[i].source)
<1>1. /\ proc[i] \in Row /\ g \in Items /\ snap[i] # None /\ result[i] = None
      /\ Done(i, g - 1) /\ proc[i].source = Wanted(i, g)
  BY BusyRow DEF IInv, Knows
<1>2. g \in 1..ItemCount /\ ItemCount \in Nat
  BY <1>1, IngestFilesAssumption DEF Items
<1>3. Registered
  BY DEF Registered
<1>4. \A f \in Items : Placed(i, f) => Placed(i, f)'
  BY <1>3, PlacedStays
<1>5. Len(listed) = g /\ \A h \in 1..g : listed[h] = Wanted(i, h)
  <2>1. proc[i].listed \in Seq(Data) /\ Len(proc[i].listed) = g - 1
    BY <1>1 DEF Row, Done
  <2>2. \A h \in 1..(g - 1) : proc[i].listed[h] = Wanted(i, h)
    BY <1>1 DEF Done
  <2> HIDE DEF g
  <2> QED BY <1>1, <1>2, <2>1, <2>2
<1>6. \A h \in 1..g : Placed(i, h)
  <2>1. \A h \in 1..(g - 1) : Placed(i, h)
    BY <1>1 DEF Done
  <2> QED BY <1>2, <2>1
<1>7. 1..g \subseteq Items
  BY <1>2 DEF Items
<1>8. proc'[i].listed = listed
  BY NextItemRow
<1>9. \A h \in 1..g : Wanted(i, h)' = Wanted(i, h)
  BY DEF Wanted
<1> HIDE DEF listed
<1>10. ASSUME NEW n, n = g
       PROVE Done(i, n)'
  <2> HIDE DEF g
  <2> QED BY <1>4, <1>5, <1>6, <1>7, <1>8, <1>9, <1>10 DEF Done
<1>11. CASE g = ItemCount /\ proc'[i].at = "manifest"
  BY <1>1, <1>10, <1>11, NoneIsNoData DEF Knows, Vouched
<1>12. CASE g # ItemCount /\ proc'[i].at = "stat" /\ ItemOf(i)' = g + 1
  <2>1. ItemOf(i)' - 1 = g
    BY <1>2, <1>12
  <2>2. Done(i, ItemOf(i) - 1)'
    BY <1>10, <2>1
  <2> QED BY <1>1, <1>12, <2>2, NoneIsNoData DEF Knows, Vouched
<1> QED BY <1>11, <1>12, NextItemRow

\* The partial of an item that is in place goes, and with it the sharing of the name.
LEMMA ReleaseKeeps ==
  ASSUME IInv, NEW i \in Ingests, proc[i].at \in {"promote", "unlink"},
         Unlinked(i), NextItem(i), UNCHANGED <<card, snap, final, manifest, result>>,
         final[ItemOf(i)] = Partial(i)
  PROVE IInv'
<1> DEFINE g == ItemOf(i)
<1>1. /\ proc[i] \in Row /\ g \in Items /\ snap[i] # None
      /\ Partial(i) = Wanted(i, g)
  BY BusyRow DEF IInv, Knows
<1>2. Wanted(i, g) \in Data /\ final[g] = Wanted(i, g) /\ final[g] # None
  BY <1>1, WantedIsData, NoneIsNoData DEF IInv
<1>3. /\ part' \in [Ingests -> [Items -> Data \cup {None}]]
      /\ \A k \in Ingests, f \in Items : k # i \/ f # g => part'[k][f] = part[k][f]
      /\ \A k \in Ingests \ {i} : part'[k] = part[k]
  BY PartialChanges DEF Unlinked
<1>4. /\ link' \in [Items -> Ingests \cup {None}]
      /\ link'[g] = IF link[g] = i THEN None ELSE link[g]
      /\ \A f \in Items : f # g => link'[f] = link[f]
  BY <1>1 DEF Unlinked, IInv, Type
<1>5. /\ proc' \in [Ingests -> Row]
      /\ \A k \in Ingests \ {i} : proc'[k] = proc[k]
  BY NextItemRow
<1> HIDE DEF g
<1>6. Type'
  BY <1>3, <1>4, <1>5 DEF IInv, Type
<1>7. Others(i)
  BY <1>3, <1>5 DEF Others
<1>8. ASSUME NEW f \in Items
      PROVE /\ NameMoves(f)
            /\ link'[f] = link[f] \/ {link[f], link'[f]} \subseteq {i, None}
            /\ link'[f] # None => final'[f] = part'[link'[f]][f]
  <2>1. link[f] # None => link[f] \in Ingests /\ final[f] = part[link[f]][f]
    BY DEF IInv, Type, Named
  <2>2. CASE f = g /\ link[f] = i
    <3>1. link'[f] = None /\ link[f] # None
      BY <1>4, <2>2, NoneIsNoData
    <3> QED BY <1>2, <2>2, <3>1 DEF NameMoves
  <2>3. CASE f # g \/ link[f] # i
    <3>1. link'[f] = link[f]
      BY <1>4, <2>3
    <3> QED BY <1>3, <2>1, <2>3, <3>1 DEF NameMoves
  <2> QED BY <2>2, <2>3
<1>9. Placed(i, g)
  <2>1. ASSUME link[g] # None
        PROVE Len(Wanted(link[g], g)) <= Len(Wanted(i, g))
    <3>1. link[g] \in Ingests /\ Placed(link[g], g)
      BY <1>1, <2>1 DEF IInv, Type, Named
    <3>2. Wanted(link[g], g) \in Data /\ IsPrefix(Wanted(link[g], g), Wanted(i, g))
      BY <1>1, <1>2, <3>1, WantedIsData DEF Placed, IInv
    <3> QED BY <1>2, <3>2, PrefixByBlock
  <2> QED BY <1>1, <1>2, <2>1, PrefixOfItself DEF Placed
<1>10. Knows(i)' /\ Vouched(i)'
  BY <1>8, <1>9, NextItemKnows DEF g
<1> QED BY <1>6, <1>7, <1>8, <1>10, AttemptKeeps

LEMMA UnlinkKeeps ==
  ASSUME IInv, NEW i \in Ingests, Unlink(i)
  PROVE IInv'
<1>1. /\ proc[i].at = "unlink" /\ Unlinked(i) /\ NextItem(i)
      /\ UNCHANGED <<card, snap, final, manifest, result>>
  BY DEF Unlink, At, world
<1>2. final[ItemOf(i)] = Partial(i)
  <2>1. link[ItemOf(i)] = i /\ ItemOf(i) \in Items
    BY <1>1, BusyRow DEF IInv, Knows
  <2> QED BY <2>1, NoneIsNoData DEF IInv, Named, Partial
<1> QED BY <1>1, <1>2, ReleaseKeeps

LEMMA PromoteKeeps ==
  ASSUME IInv, NEW i \in Ingests, Promote(i)
  PROVE IInv'
<1> DEFINE g == ItemOf(i)
           row == [proc[i] EXCEPT !.at = "unlink"]
<1>1. /\ proc[i] \in Row /\ proc[i].at = "promote" /\ g \in Items
      /\ snap[i] # None /\ result[i] = None /\ Done(i, g - 1)
      /\ Partial(i) = Wanted(i, g) /\ proc[i].source = Wanted(i, g)
  BY BusyRow DEF Promote, At, IInv, Knows
<1>2. UNCHANGED <<card, snap, manifest, result>>
  BY DEF Promote, world
<1>3. CASE ~NameIsFree(i) /\ Identical(i) /\ Unlinked(i) /\ NextItem(i) /\ UNCHANGED final
  BY <1>1, <1>2, <1>3, ReleaseKeeps DEF Identical
<1>4. CASE Returns(i, "FAILED") /\ UNCHANGED <<part, final, link>>
  BY <1>1, <1>2, <1>4, ReturnsKeeps DEF At, Verdicts, disk
<1>5. CASE /\ NameIsFree(i)
           /\ final' = [final EXCEPT ![g] = Partial(i)]
           /\ link' = [link EXCEPT ![g] = i]
           /\ Goes(i, row) /\ UNCHANGED part
  <2>1. Wanted(i, g) \in Data
    BY <1>1, WantedIsData DEF IInv
  <2>2. /\ row \in Row /\ row.at = "unlink" /\ row.source = proc[i].source
        /\ row.item = proc[i].item /\ row.listed = proc[i].listed
    BY <1>1 DEF Row, Places
  <2>3. proc' = [proc EXCEPT ![i] = row]
    BY <1>5 DEF Goes
  <2> HIDE DEF row
  <2>4. proc'[i] = row /\ ItemOf(i)' = g
    BY <2>2, <2>3 DEF IInv, Type, ItemOf
  <2>5. Type'
    BY <1>1, <1>2, <1>5, <2>1, <2>2, <2>3 DEF IInv, Type
  <2>6. Others(i)
    BY <1>2, <1>5, <2>3 DEF Others, IInv, Type
  <2>7. ASSUME NEW f \in Items
        PROVE /\ NameMoves(f)
              /\ link'[f] = link[f] \/ {link[f], link'[f]} \subseteq {i, None}
              /\ link'[f] # None => final'[f] = part'[link'[f]][f]
    <3>1. link[f] # None => link[f] \in Ingests /\ Placed(link[f], f) /\ final[f] = part[link[f]][f]
      BY DEF IInv, Type, Named
    <3>2. CASE f = g
      <4>1. final[f] = None /\ link[f] = None
        BY <1>5, <3>1, <3>2 DEF NameIsFree, Placed
      <4>2. final'[f] = Wanted(i, f) /\ link'[f] = i
        BY <1>1, <1>5, <3>2 DEF IInv, Type
      <4>3. final'[f] = part'[i][f]
        BY <1>1, <1>5, <3>2, <4>2 DEF Partial
      <4> QED BY <1>1, <4>1, <4>2, <4>3 DEF NameMoves
    <3>3. CASE f # g
      <4>1. final'[f] = final[f] /\ link'[f] = link[f]
        BY <1>5, <3>3 DEF IInv, Type
      <4> QED BY <1>5, <3>1, <4>1 DEF NameMoves
    <3> QED BY <3>2, <3>3
  <2>8. \A f \in Items : Placed(i, f) => Placed(i, f)'
    <3>1. Registered
      BY <1>2 DEF Registered
    <3> QED BY <2>7, <3>1, PlacedStays
  <2>9. Done(i, g - 1)'
    <3>1. proc'[i].listed = proc[i].listed
      BY <2>2, <2>4
    <3>2. 1..(g - 1) \subseteq Items
      BY <1>1, IngestFilesAssumption DEF Items
    <3>3. \A h \in 1..(g - 1) : Placed(i, h)'
      BY <1>1, <2>8, <3>2 DEF Done
    <3>4. /\ Len(proc'[i].listed) = g - 1
          /\ \A h \in 1..(g - 1) : proc'[i].listed[h] = Wanted(i, h)'
      BY <1>1, <1>2, <3>1 DEF Done, Wanted
    <3> QED BY <2>4, <3>3, <3>4 DEF Done
  <2>10. Partial(i)' = Partial(i) /\ Wanted(i, g)' = Wanted(i, g) /\ link'[g] = i
    BY <1>1, <1>2, <1>5, <2>4 DEF Partial, Wanted, IInv, Type
  <2>11. Knows(i)' /\ Vouched(i)'
    BY <1>1, <1>2, <2>2, <2>4, <2>9, <2>10, NoneIsNoData DEF Knows, Vouched
  <2> QED BY <1>2, <2>5, <2>6, <2>7, <2>11, AttemptKeeps
<1> QED BY <1>3, <1>4, <1>5 DEF Promote, Step

LEMMA WriteManifestKeeps ==
  ASSUME IInv, NEW i \in Ingests, WriteManifest(i)
  PROVE IInv'
<1> DEFINE listed == proc[i].listed
           v == IF manifest'[i] = listed THEN "VERIFIED" ELSE "FAILED"
           row == [proc[i] EXCEPT !.at = "report", !.verdict = v]
<1>1. /\ proc[i] \in Row /\ proc[i].at = "manifest" /\ Knows(i)
      /\ UNCHANGED <<card, snap, part, final, link, result>>
  BY DEF IInv, Type, WriteManifest, At, world
<1>2. Done(i, ItemCount) /\ snap[i] # None /\ result[i] = None
  BY <1>1 DEF Knows
<1>3. v \in Verdicts /\ (v = "VERIFIED" => manifest'[i] = listed)
  BY DEF Verdicts
<1>4. proc' = [proc EXCEPT ![i] = row]
  BY DEF WriteManifest, Returns, Goes
<1>5. manifest' = [manifest EXCEPT ![i] = IF manifest[i] = None THEN listed ELSE manifest[i]]
  BY DEF WriteManifest
<1> HIDE DEF v
<1>6. row \in Row /\ row.at = "report" /\ row.verdict = v
  BY <1>1, <1>3 DEF Row, Places
<1> HIDE DEF row
<1>7. proc'[i] = row
  BY <1>4 DEF IInv, Type
<1>8. Type'
  <2>1. listed \in Seq(Data)
    BY <1>1 DEF Row
  <2> HIDE DEF listed
  <2>2. manifest' \in [Ingests -> Seq(Data) \cup {None}]
    BY <1>5, <2>1 DEF IInv, Type
  <2> QED BY <1>1, <1>4, <1>6, <2>2 DEF IInv, Type
<1>9. Others(i)
  BY <1>1, <1>4, <1>5 DEF Others, IInv, Type
<1>10. ASSUME NEW f \in Items
       PROVE /\ NameMoves(f) /\ link'[f] = link[f]
             /\ link'[f] # None => final'[f] = part'[link'[f]][f]
  BY <1>1 DEF NameMoves, IInv, Named
<1>11. ASSUME v = "VERIFIED"
       PROVE Whole(i)'
  <2>1. listed \in Seq(Data) /\ Len(listed) = ItemCount
    BY <1>1, <1>2 DEF Row, Done
  <2>2. \A f \in Items : listed[f] = Wanted(i, f) /\ Placed(i, f)
    BY <1>2 DEF Done, Items
  <2>3. listed = [f \in Items |-> Wanted(i, f)]
    <3>1. listed = [f \in 1..Len(listed) |-> listed[f]]
      BY <2>1
    <3> QED BY <2>1, <2>2, <3>1 DEF Items
  <2>4. manifest'[i] = listed
    BY <1>3, <1>11
  <2> QED BY <1>1, <2>2, <2>3, <2>4 DEF Whole, Wanted, Placed
<1>12. Knows(i)' /\ Vouched(i)'
  BY <1>1, <1>2, <1>6, <1>7, <1>11, NoneIsNoData DEF Knows, Vouched
<1> QED BY <1>1, <1>8, <1>9, <1>10, <1>12, AttemptKeeps

-----------------------------------------------------------------------------
(* The others *)

\* A step that only takes an inventory or changes a card.
LEMMA WorldKeeps ==
  ASSUME IInv, Type', UNCHANGED <<disk, proc, result>>, Registered,
         \A i \in Ingests : Recorded(i)'
  PROVE IInv'
<1>1. \A f \in Items : NameMoves(f)
  BY DEF NameMoves, disk
<1>2. ASSUME NEW f \in Items
      PROVE Named(f)'
  <2>1. link'[f] # None => final'[f] = part'[link'[f]][f]
    BY DEF disk, IInv, Named
  <2> QED BY <1>1, <2>1, NamedStays
<1>3. ASSUME NEW k \in Ingests
      PROVE Knows(k)' /\ Vouched(k)'
  <2>1. /\ proc'[k] = proc[k] /\ part'[k] = part[k] /\ manifest'[k] = manifest[k]
        /\ result'[k] = result[k] /\ \A f \in Items : link[f] = k => link'[f] = k
    BY DEF disk
  <2> QED BY <1>1, <2>1, OthersKnow
<1> QED BY <1>2, <1>3 DEF IInv

LEMMA ConfirmKeeps ==
  ASSUME IInv, NEW i \in Ingests, Confirm(i)
  PROVE IInv'
<1> DEFINE files == card[CardOf[i]].files
<1>1. files \in [Items -> File]
  BY IngestFilesAssumption DEF IInv, Type, CardType
<1> HIDE DEF files
<1>2. snap[i] = None /\ snap' = [snap EXCEPT ![i] = files] /\ UNCHANGED <<card, disk, proc, result>>
  BY DEF Confirm, files
<1>3. Type'
  BY <1>1, <1>2 DEF IInv, Type, disk
<1>4. Registered
  BY <1>2 DEF Registered, IInv, Type
<1>5. ASSUME NEW k \in Ingests
      PROVE Recorded(k)'
  <2>1. CASE k = i
    <3>1. snap'[k] = files /\ card'[CardOf[k]].files = files
      BY <1>2, <2>1 DEF IInv, Type, files
    <3>2. \A f \in Items : files[f].version <= files[f].version
      BY <1>1 DEF File
    <3> QED BY <3>1, <3>2 DEF Recorded, Wanted
  <2>2. CASE k # i
    <3>1. snap'[k] = snap[k]
      BY <1>2, <2>2 DEF IInv, Type
    <3> QED BY <1>2, <3>1 DEF IInv, Recorded, Wanted
  <2> QED BY <2>1, <2>2
<1> QED BY <1>2, <1>3, <1>4, <1>5, WorldKeeps

\* Whoever changes a file of a card changes its version.
LEMMA EditGrows ==
  ASSUME IInv, NEW c \in Cards, Edit(c)
  PROVE /\ card' \in [Cards -> CardType]
        /\ \A d \in Cards, f \in Items :
             \/ card'[d].files[f] = card[d].files[f]
             \/ card[d].files[f].version < card'[d].files[f].version
<1>1. card \in [Cards -> CardType]
  BY DEF IInv, Type
<1>2. CASE card' = [card EXCEPT ![c].plugged = ~@]
  <2>1. card' \in [Cards -> CardType] /\ \A d \in Cards : card'[d].files = card[d].files
    BY <1>1, <1>2 DEF CardType
  <2> QED BY <2>1
<1>3. ASSUME NEW g \in Items, NEW data \in Data,
             card' = [card EXCEPT ![c].files[g] = [data |-> data, version |-> @.version + 1]]
      PROVE /\ card' \in [Cards -> CardType]
            /\ \A d \in Cards, f \in Items :
                 \/ card'[d].files[f] = card[d].files[f]
                 \/ card[d].files[f].version < card'[d].files[f].version
  <2> DEFINE version == card[c].files[g].version
             file == [data |-> data, version |-> version + 1]
  <2>1. version \in Nat
    BY <1>1 DEF CardType, File
  <2>2. card' = [card EXCEPT ![c].files[g] = file]
    BY <1>3
  <2> HIDE DEF version
  <2>3. file \in File /\ version < file.version
    BY <2>1 DEF File, Data
  <2> HIDE DEF file
  <2> DEFINE files == [card[c].files EXCEPT ![g] = file]
             disk1 == [card[c] EXCEPT !.files = files]
  <2>4. /\ files \in [Items -> File] /\ files[g] = file
        /\ \A f \in Items : f # g => files[f] = card[c].files[f]
    BY <1>1, <2>3 DEF CardType
  <2>5. card' = [card EXCEPT ![c] = disk1]
    BY <1>1, <2>2 DEF CardType
  <2> HIDE DEF files
  <2>6. disk1 \in CardType /\ disk1.files = files
    BY <1>1, <2>4 DEF CardType
  <2> HIDE DEF disk1
  <2>7. card' \in [Cards -> CardType] /\ card'[c].files = files
        /\ \A d \in Cards : d # c => card'[d] = card[d]
    BY <1>1, <2>5, <2>6
  <2>8. ASSUME NEW d \in Cards, NEW f \in Items
        PROVE \/ card'[d].files[f] = card[d].files[f]
              \/ card[d].files[f].version < card'[d].files[f].version
    BY <2>3, <2>4, <2>7 DEF version
  <2> QED BY <2>7, <2>8
<1>4. ASSUME NEW g \in Items, NEW b \in NewBlocks, NEW old \in Data
      PROVE {Append(old, b), Append(SubSeq(old, 2, Len(old)), b)} \subseteq Data
  BY IngestFilesAssumption DEF Data
<1>5. \A g \in Items : card[c].files[g].data \in Data
  BY <1>1 DEF CardType, File, Data
<1>6. CASE \E g \in Items, b \in NewBlocks :
             LET old == card[c].files[g].data IN
             \E new \in {Append(old, b), Append(SubSeq(old, 2, Len(old)), b)} :
               card' = [card EXCEPT ![c].files[g] = [data |-> new, version |-> @.version + 1]]
  <2>1. PICK g \in Items, b \in NewBlocks, new \in Data :
          card' = [card EXCEPT ![c].files[g] = [data |-> new, version |-> @.version + 1]]
    BY <1>4, <1>5, <1>6
  <2> QED BY <2>1, <1>3
<1> QED BY <1>2, <1>6 DEF Edit

LEMMA EditKeeps ==
  ASSUME IInv, NEW c \in Cards, Edit(c)
  PROVE IInv'
<1>1. UNCHANGED <<snap, disk, proc, result>> /\ card \in [Cards -> CardType]
  BY DEF Edit, IInv, Type
<1>2. Registered
  BY <1>1 DEF Registered
<1>3. Type'
  BY <1>1, EditGrows DEF IInv, Type, disk
<1>4. ASSUME NEW k \in Ingests
      PROVE Recorded(k)'
  <2>1. SUFFICES ASSUME snap[k] # None, NEW f \in Items
                 PROVE /\ snap[k][f].version <= card'[CardOf[k]].files[f].version
                       /\ snap[k][f].version = card'[CardOf[k]].files[f].version
                            => snap[k][f].data = card'[CardOf[k]].files[f].data
    BY <1>1 DEF Recorded, Wanted
  <2> DEFINE old == card[CardOf[k]].files[f]
             new == card'[CardOf[k]].files[f]
  <2>2. old \in File /\ new \in File /\ (new = old \/ old.version < new.version)
    BY <1>1, EditGrows, IngestFilesAssumption DEF CardType
  <2>3. snap[k][f] \in File
    BY <2>1 DEF IInv, Type
  <2>4. /\ snap[k][f].version <= old.version
        /\ snap[k][f].version = old.version => snap[k][f].data = old.data
    BY <2>1 DEF IInv, Recorded, Wanted
  <2> HIDE DEF old, new
  <2>5. /\ snap[k][f].version <= new.version
        /\ snap[k][f].version = new.version => snap[k][f].data = new.data
    BY <2>2, <2>3, <2>4 DEF File
  <2> QED BY <2>5 DEF new
<1> QED BY <1>1, <1>2, <1>3, <1>4, WorldKeeps

-----------------------------------------------------------------------------
(* Theorems *)

LEMMA InitInv == Init => IInv
<1> SUFFICES ASSUME Init PROVE IInv
  OBVIOUS
<1>1. Idle \in Row
  BY IngestFilesAssumption DEF Idle, Row, Places, Items, Data
<1>2. card \in [Cards -> CardType]
  <2>1. \A c \in Cards, f \in Items : FirstData[c][f] \in Seq(Blocks)
    BY IngestFilesAssumption
  <2> QED BY <2>1 DEF Init, CardType, File
<1>3. Type
  BY <1>1, <1>2 DEF Init, Type
<1>4. ASSUME NEW i \in Ingests
      PROVE Recorded(i) /\ Knows(i) /\ Vouched(i)
  BY NoneIsNoData DEF Init, Recorded, Knows, Vouched, Idle, ItemOf
<1>5. ASSUME NEW f \in Items
      PROVE Named(f)
  BY DEF Init, Named
<1> QED BY <1>3, <1>4, <1>5 DEF IInv

\* A job is PENDING again, and nothing on the disk shows it.
LEMMA ReconcileKeeps ==
  ASSUME IInv, NEW i \in Ingests, Reconcile(i)
  PROVE IInv'
<1>1. UNCHANGED <<card, snap, disk, proc, result>>
  BY DEF Reconcile
<1>2. Registered /\ Type'
  BY <1>1 DEF Registered, IInv, Type, disk
<1>3. \A k \in Ingests : Recorded(k)'
  BY <1>1 DEF IInv, Recorded, Wanted
<1> QED BY <1>1, <1>2, <1>3, WorldKeeps

LEMMA NextKeeps == IInv /\ [Next]_vars => IInv'
<1> SUFFICES ASSUME IInv, [Next]_vars PROVE IInv'
  OBVIOUS
<1>1. CASE UNCHANGED vars
  BY <1>1 DEF vars, IInv, Type, Named, Placed, Recorded, Knows, Vouched, Whole, Done, Wanted,
              ItemOf, Partial
<1>2. ASSUME NEW i \in Ingests, Attempt(i) \/ Confirm(i) \/ Crash(i) \/ ShareGone(i)
      PROVE IInv'
  BY <1>2, BeginKeeps, CrashKeeps, StatSourceKeeps, ResumeKeeps, CopyBlockKeeps,
     EndCopyKeeps, HashSourceKeeps, CompareKeeps, PromoteKeeps, UnlinkKeeps,
     WriteManifestKeeps, ReportKeeps, ConfirmKeeps, ShareGoneKeeps DEF Attempt
<1>3. ASSUME NEW i \in Ingests, Reconcile(i)
      PROVE IInv'
  BY <1>3, ReconcileKeeps
<1>4. ASSUME NEW c \in Cards, Edit(c)
      PROVE IInv'
  BY <1>4, EditKeeps
<1> QED BY <1>1, <1>2, <1>3, <1>4 DEF Next

\* At any time an attempt may go on with what it knows (worker/handlers/ingest.py).
THEOREM FilesInvariant == Spec => []IInv
<1>1. Init => IInv
  BY InitInv
<1>2. IInv /\ [Next]_vars => IInv'
  BY NextKeeps
<1> QED BY <1>1, <1>2, PTL DEF Spec

\* What promote_file gave a final name is the whole file of an inventory, for any number
\* of ingests, stops and edits of the cards (ingest/copy.py).
THEOREM PublishedFilesAreWhole == Spec => []PublishedIsWhole
<1>1. IInv => PublishedIsWhole
  <2>1. ASSUME IInv, NEW f \in Items, final[f] # None
        PROVE \E i \in Ingests : /\ snap[i] # None
                                 /\ IsPrefix(snap[i][f].data, final[f])
                                 /\ link[f] = None => final[f] = snap[i][f].data
    BY <2>1 DEF IInv, Named, Placed, Wanted
  <2> QED BY <2>1 DEF PublishedIsWhole
<1> QED BY <1>1, FilesInvariant, PTL

-----------------------------------------------------------------------------
(* Verified files *)

\* Ingest i has no more part in a file of an item it is done with.
Released(i) ==
  /\ \A g \in Items : g <= Len(proc[i].listed) => link[g] # i
  /\ proc[i].at = "report" /\ proc[i].verdict = "VERIFIED" => \A g \in Items : link[g] # i
  /\ result[i] = "VERIFIED" => \A g \in Items : link[g] # i

\* A shared file that is more than its ingest wants grew as the card did.
Outgrown(f) ==
  link[f] # None /\ final[f] # snap[link[f]][f].data =>
    snap[link[f]][f].version < card[CardOf[link[f]]].files[f].version

Bound == (\A i \in Ingests : Released(i)) /\ \A f \in Items : Outgrown(f)

\* The attempt goes on, ends without being verified, or is gone.
Passes(i) ==
  /\ \A k \in Ingests \ {i} : proc'[k] = proc[k]
  /\ proc'[i].listed \in {proc[i].listed, <<>>}
  /\ proc'[i].at = "report" => proc'[i].verdict # "VERIFIED"

LEMMA PassesOn ==
  ASSUME IInv, NEW i \in Ingests,
         \/ Goes(i, Idle)
         \/ \E v \in Verdicts \ {"VERIFIED"} : Returns(i, v)
         \/ \E row \in Row : Goes(i, row) /\ row.listed = proc[i].listed /\ row.at # "report"
  PROVE Passes(i)
<1>1. proc \in [Ingests -> Row]
  BY DEF IInv, Type
<1>2. CASE Goes(i, Idle)
  <2>1. Idle.listed = <<>> /\ Idle.at = "idle"
    BY DEF Idle
  <2> QED BY <1>1, <1>2, <2>1 DEF Goes, Passes
<1>3. ASSUME NEW v \in Verdicts \ {"VERIFIED"}, Returns(i, v) PROVE Passes(i)
  <2> DEFINE row == [proc[i] EXCEPT !.at = "report", !.verdict = v]
  <2>1. row.listed = proc[i].listed /\ row.verdict = v
    BY <1>1 DEF Row
  <2>2. Goes(i, row)
    BY <1>3 DEF Returns
  <2> HIDE DEF row
  <2> QED BY <1>1, <1>3, <2>1, <2>2 DEF Goes, Passes
<1>4. ASSUME NEW row \in Row, Goes(i, row), row.listed = proc[i].listed, row.at # "report"
      PROVE Passes(i)
  BY <1>1, <1>4 DEF Goes, Passes
<1> QED BY <1>2, <1>3, <1>4

\* What the steps are that leave all names as they are linked.
LEMMA QuietPasses ==
  ASSUME IInv, NEW i \in Ingests,
         \/ Begin(i) \/ SourceGone(i) \/ StatSource(i) \/ Resume(i) \/ CopyBlock(i) \/ EndCopy(i)
         \/ HashSource(i) \/ Compare(i) \/ Crash(i) \/ ShareGone(i)
         \/ (Promote(i) /\ Returns(i, "FAILED"))
  PROVE Passes(i)
<1>1. proc[i] \in Row
  BY DEF IInv, Type
<1>2. ASSUME NEW p \in Places \ {"report"}, Step(i, p) PROVE Passes(i)
  <2> DEFINE row == [proc[i] EXCEPT !.at = p]
  <2>1. row \in Row /\ row.listed = proc[i].listed /\ row.at = p
    BY <1>1 DEF Row
  <2>2. Goes(i, row)
    BY <1>2 DEF Step
  <2> HIDE DEF row
  <2> QED BY <1>2, <2>1, <2>2, PassesOn
<1>3. CASE Begin(i) \/ Step(i, "hash") \/ Step(i, "promote")
  BY <1>2, <1>3 DEF Begin, Places
<1>4. CASE SourceGone(i) \/ Crash(i)
  BY <1>4, PassesOn DEF SourceGone, Crash
<1>5. CASE Returns(i, "FAILED") \/ Returns(i, "INTERRUPTED")
  BY <1>5, PassesOn DEF Verdicts
<1>6. CASE StatSource(i)
  <2> DEFINE stat == SourceStat(Source(i))
             row == [proc[i] EXCEPT !.at = "resume", !.initial = stat]
  <2>1. Source(i) \in File
    BY <1>1, IngestFilesAssumption DEF IInv, Type, CardType, Source, ItemOf, Row
  <2>2. stat \in Stat
    BY <2>1 DEF SourceStat, Stat, File
  <2>3. Goes(i, row)
    BY <1>6 DEF StatSource
  <2> HIDE DEF stat
  <2>4. row \in Row /\ row.listed = proc[i].listed /\ row.at = "resume"
    BY <1>1, <2>2 DEF Row, Places
  <2> HIDE DEF row
  <2> QED BY <2>3, <2>4, PassesOn
<1>7. ASSUME NEW h \in Data, Goes(i, [proc[i] EXCEPT !.at = "copy", !.hasher = h]) PROVE Passes(i)
  <2> DEFINE row == [proc[i] EXCEPT !.at = "copy", !.hasher = h]
  <2>1. row \in Row /\ row.listed = proc[i].listed /\ row.at = "copy"
    BY <1>1 DEF Row, Places
  <2>2. Goes(i, row)
    BY <1>7
  <2> HIDE DEF row
  <2> QED BY <2>1, <2>2, PassesOn
<1>8. CASE Resume(i)
  <2>1. Partial(i) # None => Partial(i) \in Data
    BY <1>1 DEF IInv, Type, Partial, ItemOf, Row
  <2>2. <<>> \in Data
    BY DEF Data
  <2> QED BY <1>5, <1>7, <1>8, <2>1, <2>2 DEF Resume
<1>9. CASE CopyBlock(i)
  <2> DEFINE longer == Append(proc[i].hasher, BlockAt(Source(i), Len(proc[i].hasher)))
             row == [proc[i] EXCEPT !.hasher = longer]
  <2>1. longer \in Data
    BY <1>1, <1>9, BlockIsRead DEF Data, Row
  <2>2. Goes(i, row) /\ proc[i].at = "copy"
    BY <1>9 DEF CopyBlock, At
  <2> HIDE DEF longer
  <2>3. row \in Row /\ row.listed = proc[i].listed /\ row.at = "copy"
    BY <1>1, <2>1, <2>2 DEF Row
  <2> HIDE DEF row
  <2> QED BY <2>2, <2>3, PassesOn
<1>10. CASE EndCopy(i) \/ Compare(i) \/ ShareGone(i) \/ (Promote(i) /\ Returns(i, "FAILED"))
  BY <1>3, <1>5, <1>10 DEF EndCopy, Compare, ShareGone
<1>11. CASE HashSource(i)
  <2> DEFINE data == Source(i).data
             row == [proc[i] EXCEPT !.at = "compare", !.source = data]
  <2>1. CASE Goes(i, row)
    <3>1. data \in Data
      BY <1>1, IngestFilesAssumption DEF IInv, Type, CardType, Source, ItemOf, Row, File, Data
    <3> HIDE DEF data
    <3>2. row \in Row /\ row.listed = proc[i].listed /\ row.at = "compare"
      BY <1>1, <3>1 DEF Row, Places
    <3>3. Goes(i, row)
      BY <2>1
    <3> HIDE DEF row
    <3> QED BY <3>2, <3>3, PassesOn
  <2> QED BY <1>5, <1>11, <2>1 DEF HashSource
<1> QED BY <1>3, <1>4, <1>6, <1>8, <1>9, <1>10, <1>11

\* A step that takes no ingest's partial for a published file.
LEMMA ReleasedStays ==
  ASSUME IInv, Bound, result' = result, NEW i \in Ingests, Passes(i),
         \A k \in Ingests, g \in Items : link'[g] = k => link[g] = k
  PROVE \A k \in Ingests : Released(k)'
<1> SUFFICES ASSUME NEW k \in Ingests PROVE Released(k)'
  OBVIOUS
<1>1. Released(k)
  BY DEF Bound
<1>2. CASE k # i
  <2>1. proc'[k] = proc[k]
    BY <1>2 DEF Passes
  <2> QED BY <1>1, <2>1 DEF Released
<1>3. CASE k = i
  <2>1. Len(proc'[i].listed) <= Len(proc[i].listed)
    <3>1. Len(proc[i].listed) \in Nat /\ Len(<<>>) = 0
      BY DEF IInv, Type, Row
    <3> QED BY <3>1 DEF Passes
  <2>2. Len(proc'[i].listed) \in Nat /\ Len(proc[i].listed) \in Nat
    BY DEF Passes, IInv, Type, Row
  <2>3. \A g \in Items : g <= Len(proc'[i].listed) => g <= Len(proc[i].listed)
    BY <2>1, <2>2 DEF Items
  <2> QED BY <1>1, <1>3, <2>3 DEF Released, Passes
<1> QED BY <1>2, <1>3

\* What is linked and inventoried stays so, and cards only grow newer.
LEMMA OutgrownStays ==
  ASSUME IInv, Bound, Registered,
         NEW f \in Items, final'[f] = final[f], link'[f] \in {link[f], None},
         \A d \in Cards : \/ card'[d].files[f] = card[d].files[f]
                          \/ card[d].files[f].version < card'[d].files[f].version,
         card' \in [Cards -> CardType]
  PROVE Outgrown(f)'
<1> SUFFICES ASSUME link'[f] # None, final'[f] # snap'[link'[f]][f].data
             PROVE snap'[link'[f]][f].version < card'[CardOf[link'[f]]].files[f].version
  BY DEF Outgrown
<1> DEFINE k == link[f]
           old == card[CardOf[k]].files[f]
           new == card'[CardOf[k]].files[f]
<1>1. link'[f] = k /\ k \in Ingests /\ snap[k] # None /\ snap'[k] = snap[k]
  BY DEF IInv, Type, Named, Placed, Registered
<1>2. final[f] # snap[k][f].data
  BY <1>1
<1>3. snap[k][f].version < old.version
  BY <1>1, <1>2, NoneIsNoData DEF Bound, Outgrown
<1>4. old \in File /\ new \in File /\ snap[k][f] \in File
  BY <1>1, IngestFilesAssumption DEF IInv, Type, CardType
<1>5. new = old \/ old.version < new.version
  BY <1>1, IngestFilesAssumption
<1> HIDE DEF k, old, new
<1>6. snap[k][f].version < new.version
  BY <1>3, <1>4, <1>5 DEF File
<1> QED BY <1>1, <1>6 DEF new

\* A step of an attempt that leaves the files alone, or lets go of one.
LEMMA OutgrownAll ==
  ASSUME IInv, Bound, UNCHANGED <<card, snap, final>>,
         \A f \in Items : link'[f] \in {link[f], None}
  PROVE \A f \in Items : Outgrown(f)'
<1>1. Registered /\ card' \in [Cards -> CardType]
  BY DEF Registered, IInv, Type
<1> QED BY <1>1, OutgrownStays

LEMMA CopyOutgrows ==
  ASSUME IInv, Bound, NEW i \in Ingests, CopyBlock(i)
  PROVE \A f \in Items : Outgrown(f)'
<1>0. PICK g \in Items : g = ItemOf(i)
  BY DEF IInv, Type, ItemOf, Row
<1> DEFINE longer == Append(final[g], BlockAt(Source(i), Len(proc[i].hasher)))
<1>1. UNCHANGED <<card, snap, link>> /\ final \in [Items -> Data \cup {None}]
  BY DEF CopyBlock, world, IInv, Type
<1>2. Registered /\ card' \in [Cards -> CardType]
  BY <1>1 DEF Registered, IInv, Type
<1>3. final' = [final EXCEPT ![g] = IF link[g] = i THEN longer ELSE final[g]]
  BY <1>0 DEF CopyBlock
<1> HIDE DEF longer
<1>4. ASSUME NEW f \in Items, f # g \/ link[f] # i PROVE Outgrown(f)'
  <2>1. final'[f] = final[f]
    BY <1>1, <1>3, <1>4
  <2> QED BY <1>1, <1>2, <2>1, OutgrownStays
<1>5. ASSUME link[g] = i PROVE Outgrown(g)'
  <2>1. /\ snap[i] # None /\ Wanted(i, g) \in Data /\ IsPrefix(Wanted(i, g), final[g])
        /\ final[g] = part[i][g] /\ final[g] \in Data
    BY <1>1, <1>5, NoneIsNoData, WantedIsData DEF IInv, Named, Placed
  <2>2. final[g] = proc[i].hasher /\ Len(proc[i].hasher) < Len(Source(i).data)
    BY <1>0, <2>1 DEF CopyBlock, At, MoreToRead, IInv, Knows, Partial
  <2>3. Len(Wanted(i, g)) <= Len(final[g])
    BY <2>1, PrefixByBlock
  <2>4. Source(i) \in File /\ snap[i][g] \in File
    BY <1>0, <1>1, <2>1, IngestFilesAssumption DEF IInv, Type, CardType, Source
  <2>5. Source(i).data # Wanted(i, g)
    BY <2>1, <2>2, <2>3, <2>4 DEF Data, File
  <2>6. /\ snap[i][g].version <= Source(i).version
        /\ snap[i][g].version = Source(i).version => Wanted(i, g) = Source(i).data
    BY <1>0, <1>1, <2>1 DEF IInv, Recorded, Source
  <2>7. snap[i][g].version < Source(i).version
    BY <2>4, <2>5, <2>6 DEF File
  <2> QED BY <1>0, <1>1, <1>5, <2>7 DEF Outgrown, Source
<1> QED BY <1>4, <1>5

\* An item is done, and its partial gone.
LEMMA ReleaseBinds ==
  ASSUME IInv, Bound, NEW i \in Ingests, proc[i].at \in {"promote", "unlink"},
         Unlinked(i), NextItem(i), UNCHANGED <<card, snap, final, result>>
  PROVE Bound'
<1>0. PICK g \in Items : g = ItemOf(i)
  BY DEF IInv, Type, ItemOf, Row
<1>1. /\ proc[i] \in Row /\ result[i] = None
      /\ Len(proc[i].listed) = g - 1
  BY <1>0, BusyRow DEF Done
<1>2. /\ link' \in [Items -> Ingests \cup {None}]
      /\ link'[g] = IF link[g] = i THEN None ELSE link[g]
      /\ \A f \in Items : f # g => link'[f] = link[f]
  BY <1>0, <1>1 DEF Unlinked, IInv, Type
<1>3. \A f \in Items : Outgrown(f)'
  BY <1>2, OutgrownAll
<1>4. ASSUME NEW k \in Ingests, k # i PROVE Released(k)'
  <2>1. proc'[k] = proc[k]
    BY <1>4, NextItemRow
  <2>2. \A f \in Items : link'[f] = k => link[f] = k
    BY <1>2, NoneIsNoData
  <2> QED BY <2>1, <2>2 DEF Bound, Released
<1>5. Released(i)'
  <2>1. proc'[i].listed = Append(proc[i].listed, proc[i].source) /\ proc'[i].at # "report"
    BY NextItemRow
  <2>2. proc[i].listed \in Seq(Data) /\ proc[i].source \in Data
    BY <1>1 DEF Row
  <2>3. Len(proc'[i].listed) = g
    BY <1>1, <2>1, <2>2, IngestFilesAssumption DEF Items
  <2>4. link'[g] # i
    BY <1>2, NoneIsNoData
  <2>5. ASSUME NEW f \in Items, f <= g, f # g PROVE link'[f] # i
    <3>1. f <= Len(proc[i].listed)
      BY <1>1, <2>5, IngestFilesAssumption DEF Items
    <3> QED BY <1>2, <2>5, <3>1 DEF Bound, Released
  <2> QED BY <1>1, <2>1, <2>3, <2>4, <2>5, NoneIsNoData DEF Released
<1> QED BY <1>3, <1>4, <1>5 DEF Bound

LEMMA PromoteBinds ==
  ASSUME IInv, Bound, NEW i \in Ingests, Promote(i)
  PROVE Bound'
<1>0. PICK g \in Items : g = ItemOf(i)
  BY DEF IInv, Type, ItemOf, Row
<1> DEFINE row == [proc[i] EXCEPT !.at = "unlink"]
<1>1. /\ proc[i] \in Row /\ proc[i].at = "promote" /\ result[i] = None
      /\ snap[i] # None /\ Len(proc[i].listed) = g - 1 /\ Partial(i) = Wanted(i, g)
  BY <1>0, BusyRow DEF Promote, At, IInv, Knows, Done
<1>2. UNCHANGED <<card, snap, result>>
  BY DEF Promote, world
<1>3. CASE Unlinked(i) /\ NextItem(i) /\ UNCHANGED final
  BY <1>1, <1>2, <1>3, ReleaseBinds
<1>4. CASE Returns(i, "FAILED") /\ UNCHANGED <<part, final, link>>
  <2>1. \A k \in Ingests : Released(k)'
    BY <1>2, <1>4, QuietPasses, ReleasedStays
  <2>2. \A f \in Items : Outgrown(f)'
    BY <1>2, <1>4, OutgrownAll
  <2> QED BY <2>1, <2>2 DEF Bound
<1>5. CASE /\ final' = [final EXCEPT ![g] = Partial(i)]
           /\ link' = [link EXCEPT ![g] = i]
           /\ Goes(i, row)
  <2>1. /\ final'[g] = Wanted(i, g) /\ link'[g] = i
        /\ \A f \in Items : f # g => final'[f] = final[f] /\ link'[f] = link[f]
    BY <1>0, <1>1, <1>5 DEF IInv, Type
  <2>2. Outgrown(g)'
    BY <1>2, <2>1 DEF Outgrown, Wanted
  <2>3. ASSUME NEW f \in Items, f # g PROVE Outgrown(f)'
    <3>1. Registered /\ card' \in [Cards -> CardType]
      BY <1>2 DEF Registered, IInv, Type
    <3> QED BY <1>2, <2>1, <2>3, <3>1, OutgrownStays
  <2>4. /\ row.listed = proc[i].listed /\ row.at = "unlink"
        /\ proc'[i] = row /\ \A k \in Ingests \ {i} : proc'[k] = proc[k]
    BY <1>1, <1>5 DEF Goes, IInv, Type, Row
  <2> HIDE DEF row
  <2>5. Released(i)'
    <3>1. ASSUME NEW f \in Items, f <= g - 1 PROVE link'[f] # i
      <4>1. f # g
        BY <1>1, <3>1, IngestFilesAssumption DEF Items
      <4> QED BY <1>1, <2>1, <3>1, <4>1 DEF Bound, Released
    <3> QED BY <1>1, <1>2, <2>4, <3>1, NoneIsNoData DEF Released
  <2>6. ASSUME NEW k \in Ingests, k # i PROVE Released(k)'
    <3>1. proc'[k] = proc[k] /\ \A f \in Items : link'[f] = k => link[f] = k
      BY <2>1, <2>4, <2>6
    <3> QED BY <1>2, <3>1 DEF Bound, Released
  <2> QED BY <2>2, <2>3, <2>5, <2>6 DEF Bound
<1> QED BY <1>0, <1>3, <1>4, <1>5 DEF Promote, Step

\* The manifest is written when all items are done, and the verdict follows it.
LEMMA VerdictBinds ==
  ASSUME IInv, Bound, NEW i \in Ingests, WriteManifest(i) \/ Report(i)
  PROVE Bound'
<1>1. UNCHANGED <<card, snap, final, link>>
  BY DEF WriteManifest, Report, world, disk
<1>2. \A f \in Items : Outgrown(f)'
  BY <1>1, OutgrownAll
<1>3. proc[i] \in Row /\ proc \in [Ingests -> Row] /\ result \in [Ingests -> Verdicts \cup {None}]
  BY DEF IInv, Type
<1>4. CASE WriteManifest(i)
  <2>1. \A g \in Items : link[g] # i
    <3>1. Len(proc[i].listed) = ItemCount
      BY <1>4 DEF WriteManifest, At, IInv, Knows, Done
    <3>2. \A g \in Items : g <= ItemCount
      BY IngestFilesAssumption DEF Items
    <3> QED BY <3>1, <3>2 DEF Bound, Released
  <2>2. \A k \in Ingests \ {i} : proc'[k] = proc[k]
    BY <1>3, <1>4 DEF WriteManifest, Returns, Goes
  <2>3. result' = result
    BY <1>4 DEF WriteManifest
  <2> QED BY <1>1, <1>2, <2>1, <2>2, <2>3 DEF Bound, Released
<1>5. CASE Report(i)
  <2>1. /\ proc[i].at = "report" /\ result'[i] = proc[i].verdict /\ proc'[i] = Idle
        /\ \A k \in Ingests \ {i} : proc'[k] = proc[k] /\ result'[k] = result[k]
    BY <1>3, <1>5 DEF Report, At, Goes
  <2>2. Idle.listed = <<>> /\ Idle.at = "idle" /\ Len(<<>>) = 0
    BY DEF Idle
  <2>3. \A g \in Items : ~(g <= 0)
    BY DEF Items
  <2>4. Released(i)'
    BY <1>1, <2>1, <2>2, <2>3 DEF Bound, Released
  <2>5. \A k \in Ingests \ {i} : Released(k)'
    BY <1>1, <2>1 DEF Bound, Released
  <2> QED BY <1>2, <2>4, <2>5 DEF Bound
<1> QED BY <1>4, <1>5

LEMMA AttemptBinds ==
  ASSUME IInv, Bound, NEW i \in Ingests, Attempt(i) \/ Crash(i) \/ ShareGone(i)
  PROVE Bound'
<1>1. ASSUME \/ Begin(i) \/ SourceGone(i) \/ StatSource(i) \/ Resume(i) \/ EndCopy(i)
             \/ HashSource(i) \/ Compare(i) \/ Crash(i) \/ ShareGone(i)
      PROVE Bound'
  <2>1. UNCHANGED <<card, snap, final, link, result>>
    BY <1>1 DEF Begin, SourceGone, StatSource, Resume, EndCopy, HashSource, Compare, Crash,
                ShareGone, world, disk
  <2>2. \A k \in Ingests : Released(k)'
    BY <1>1, <2>1, QuietPasses, ReleasedStays
  <2>3. \A f \in Items : Outgrown(f)'
    BY <2>1, OutgrownAll
  <2> QED BY <2>2, <2>3 DEF Bound
<1>2. CASE CopyBlock(i)
  <2>1. link' = link /\ result' = result
    BY <1>2 DEF CopyBlock
  <2>2. \A k \in Ingests : Released(k)'
    BY <1>2, <2>1, QuietPasses, ReleasedStays
  <2> QED BY <1>2, <2>2, CopyOutgrows DEF Bound
<1>3. CASE Unlink(i)
  <2>1. /\ proc[i].at = "unlink" /\ Unlinked(i) /\ NextItem(i)
        /\ UNCHANGED <<card, snap, final, result>>
    BY <1>3 DEF Unlink, At, world
  <2> QED BY <2>1, ReleaseBinds
<1> QED BY <1>1, <1>2, <1>3, PromoteBinds, VerdictBinds DEF Attempt

LEMMA WorldBinds ==
  ASSUME IInv, Bound, Registered, UNCHANGED <<disk, proc, result>>,
         card' \in [Cards -> CardType],
         \A d \in Cards, f \in Items :
           \/ card'[d].files[f] = card[d].files[f]
           \/ card[d].files[f].version < card'[d].files[f].version
  PROVE Bound'
<1>1. \A f \in Items : Outgrown(f)'
  BY OutgrownStays DEF disk
<1>2. \A k \in Ingests : Released(k)'
  BY DEF Bound, Released, disk
<1> QED BY <1>1, <1>2 DEF Bound

LEMMA NextBinds == IInv /\ Bound /\ [Next]_vars => Bound'
<1> SUFFICES ASSUME IInv, Bound, [Next]_vars PROVE Bound'
  OBVIOUS
<1>1. card \in [Cards -> CardType] /\ snap \in [Ingests -> [Items -> File] \cup {None}]
  BY DEF IInv, Type
<1>2. ASSUME UNCHANGED <<card, disk, proc, result>>, Registered PROVE Bound'
  BY <1>1, <1>2, WorldBinds
<1>3. ASSUME NEW i \in Ingests, Confirm(i) \/ Reconcile(i) PROVE Bound'
  <2>1. UNCHANGED <<card, disk, proc, result>> /\ Registered
    BY <1>1, <1>3 DEF Confirm, Reconcile, Registered
  <2> QED BY <1>2, <2>1
<1>4. ASSUME NEW c \in Cards, Edit(c) PROVE Bound'
  <2>1. UNCHANGED <<snap, disk, proc, result>> /\ Registered
    BY <1>4 DEF Edit, Registered
  <2> QED BY <1>4, <2>1, EditGrows, WorldBinds
<1>5. CASE UNCHANGED vars
  <2>1. UNCHANGED <<card, disk, proc, result>> /\ Registered
    BY <1>5 DEF vars, disk, Registered
  <2> QED BY <1>2, <2>1
<1> QED BY <1>3, <1>4, <1>5, AttemptBinds DEF Next

\* What the control plane shows as VERIFIED stays so on the disk, but for the file that is
\* also the partial of a stopped ingest whose card grew (worker/handlers/ingest.py).
THEOREM VerifiedFilesAreSafe == Spec => []VerifiedIsSafe
<1>1. Init => Bound
  BY NoneIsNoData DEF Init, Bound, Released, Outgrown, Idle
<1>2. ASSUME IInv, Bound PROVE VerifiedIsSafe
  <2> SUFFICES ASSUME NEW i \in Ingests, result[i] = "VERIFIED"
               PROVE  /\ manifest[i] = [f \in Items |-> snap[i][f].data]
                      /\ \A f \in Items :
                           /\ final[f] # None /\ IsPrefix(snap[i][f].data, final[f])
                           /\ final[f] # snap[i][f].data =>
                                \E k \in Ingests \ {i} :
                                  link[f] = k /\ final[f] = part[k][f] /\ CardChanged(k, f)
    BY DEF VerifiedIsSafe
  <2>1. Whole(i)
    BY <1>2 DEF IInv, Vouched
  <2>2. ASSUME NEW f \in Items, final[f] # snap[i][f].data
        PROVE \E k \in Ingests \ {i} :
                link[f] = k /\ final[f] = part[k][f] /\ CardChanged(k, f)
    <3> DEFINE k == link[f]
    <3>1. Placed(i, f) /\ final[f] # Wanted(i, f) /\ snap[i] # None
      BY <2>1, <2>2 DEF Whole, Placed, Wanted
    <3>2. k # None /\ k # i /\ k \in Ingests
      BY <1>2, <3>1 DEF Placed, Bound, Released, IInv, Type
    <3>3. final[f] = part[k][f] /\ Placed(k, f) /\ snap[k] # None
      BY <1>2, <3>2 DEF IInv, Named, Placed
    <3>4. /\ Wanted(i, f) \in Data /\ Wanted(k, f) \in Data /\ final[f] \in Data
          /\ IsPrefix(Wanted(i, f), final[f]) /\ Len(Wanted(k, f)) <= Len(Wanted(i, f))
      BY <1>2, <3>1, <3>2, <3>3, WantedIsData DEF Placed, IInv, Type
    <3>5. final[f] # snap[k][f].data
      BY <3>1, <3>4, PrefixAsLong DEF Wanted
    <3>6. snap[k][f].version < card[CardOf[k]].files[f].version
      BY <1>2, <3>2, <3>5 DEF Bound, Outgrown
    <3>7. snap[k][f] \in File /\ card[CardOf[k]].files[f] \in File
      BY <1>2, <3>2, <3>3, IngestFilesAssumption DEF IInv, Type, CardType
    <3>8. snap[k][f].version # card[CardOf[k]].files[f].version
      BY <3>6, <3>7 DEF File
    <3>9. CardChanged(k, f)
      BY <3>8 DEF CardChanged, SourceStat
    <3> QED BY <3>2, <3>3, <3>9
  <2> QED BY <2>1, <2>2 DEF Whole, Placed, Wanted
<1> QED BY <1>1, <1>2, NextBinds, FilesInvariant, PTL DEF Spec

-----------------------------------------------------------------------------
(* Steps *)

\* No step of the handler, of another ingest or of a restart replaces a published file
\* (ingest/copy.py).
THEOREM PublishedFilesStay == Spec => NeverReplaced
<1> DEFINE A == \A f \in Items : final[f] # None =>
                  /\ final'[f] # None
                  /\ IsPrefix(final[f], final'[f])
                  /\ final'[f] # final[f] =>
                       link[f] # None /\ final[f] = part[link[f]][f]
                         /\ final'[f] = part'[link[f]][f]
<1>1. IInv /\ [Next]_vars => [A]_vars
  <2> SUFFICES ASSUME IInv, Next, NEW f \in Items, final[f] # None
               PROVE /\ final'[f] # None
                     /\ IsPrefix(final[f], final'[f])
                     /\ final'[f] # final[f] =>
                          link[f] # None /\ final[f] = part[link[f]][f]
                            /\ final'[f] = part'[link[f]][f]
    OBVIOUS
  <2>1. final[f] \in Data /\ IsPrefix(final[f], final[f]) /\ final \in [Items -> Data \cup {None}]
    BY PrefixOfItself DEF IInv, Type
  <2>2. CASE final'[f] = final[f]
    BY <2>1, <2>2
  <2>3. ASSUME NEW i \in Ingests, Promote(i)
        PROVE final'[f] = final[f]
    BY <2>1, <2>3 DEF Promote, NameIsFree
  <2>4. ASSUME NEW i \in Ingests, CopyBlock(i), final'[f] # final[f]
        PROVE /\ final'[f] # None
              /\ IsPrefix(final[f], final'[f])
              /\ link[f] # None
              /\ final[f] = part[link[f]][f] /\ final'[f] = part'[link[f]][f]
    <3> DEFINE block == BlockAt(Source(i), Len(proc[i].hasher))
    <3>1. IInv'
      BY <2>4, CopyBlockKeeps
    <3>2. final' = [final EXCEPT ![ItemOf(i)] =
                      IF link[ItemOf(i)] = i THEN Append(final[ItemOf(i)], block)
                      ELSE final[ItemOf(i)]]
      BY <2>4 DEF CopyBlock
    <3>5. block \in Blocks
      BY <2>4, BlockIsRead
    <3> HIDE DEF block
    <3>3. f = ItemOf(i) /\ link[f] = i /\ final'[f] = Append(final[f], block)
      BY <2>1, <2>4, <3>2
    <3>4. link[f] # None /\ link'[f] = link[f]
      BY <2>4, <3>3, NoneIsNoData DEF CopyBlock
    <3>6. IsPrefix(final[f], final'[f])
      BY <2>1, <3>3, <3>5, PrefixGrows
    <3>7. Named(f) /\ Named(f)'
      BY <3>1 DEF IInv
    <3> QED BY <3>4, <3>6, <3>7 DEF Named, Placed
  <2>5. \/ UNCHANGED final
        \/ \E i \in Ingests : Promote(i) \/ CopyBlock(i)
    BY DEF Next, Attempt, Begin, SourceGone, StatSource, Resume, EndCopy, HashSource, Compare,
           Unlink, WriteManifest, Report, Confirm, Reconcile, Crash, ShareGone, Edit, disk
  <2> QED BY <2>2, <2>3, <2>4, <2>5
<1> QED BY <1>1, FilesInvariant, PTL DEF Spec, NeverReplaced

\* Only a partial whose bytes have the final name is removed (ingest/copy.py).
THEOREM PartialsStay == Spec => PartialsAreKept
<1> DEFINE A == \A i \in Ingests, f \in Items :
                  part[i][f] # None /\ part'[i][f] = None => final[f] = part[i][f]
<1>1. IInv /\ [Next]_vars => [A]_vars
  <2> SUFFICES ASSUME IInv, Next, NEW k \in Ingests, NEW f \in Items,
                      part[k][f] # None, part'[k][f] = None
               PROVE final[f] = part[k][f]
    OBVIOUS
  <2>1. ASSUME NEW i \in Ingests, Unlinked(i), final[ItemOf(i)] = Partial(i)
        PROVE final[f] = part[k][f]
    <3>1. k = i /\ f = ItemOf(i)
      BY <2>1, PartialChanges DEF Unlinked
    <3> QED BY <2>1, <3>1 DEF Partial
  <2>2. ASSUME NEW i \in Ingests, Unlink(i)
        PROVE final[f] = part[k][f]
    <3>1. link[ItemOf(i)] = i /\ ItemOf(i) \in Items
      BY <2>2 DEF IInv, Knows, Type, Row, ItemOf, Unlink, At
    <3>2. final[ItemOf(i)] = Partial(i)
      BY <3>1, NoneIsNoData DEF IInv, Named, Partial
    <3> QED BY <2>1, <2>2, <3>2 DEF Unlink
  <2>3. ASSUME NEW i \in Ingests, Promote(i)
        PROVE final[f] = part[k][f]
    BY <2>1, <2>3 DEF Promote, Identical
  <2>4. ASSUME NEW i \in Ingests, CopyBlock(i)
        PROVE FALSE
    <3> DEFINE longer == Append(part[i][ItemOf(i)], BlockAt(Source(i), Len(proc[i].hasher)))
    <3>1. part' = [part EXCEPT ![i][ItemOf(i)] = longer]
      BY <2>4 DEF CopyBlock
    <3>2. Type' /\ Knows(i)' /\ proc'[i].at = "copy" /\ ItemOf(i)' = ItemOf(i)
      <4> DEFINE hasher == Append(proc[i].hasher, BlockAt(Source(i), Len(proc[i].hasher)))
                 row == [proc[i] EXCEPT !.hasher = hasher]
      <4>1. proc[i] \in Row /\ proc[i].at = "copy" /\ proc' = [proc EXCEPT ![i] = row]
        BY <2>4 DEF IInv, Type, CopyBlock, At, Goes
      <4> HIDE DEF hasher
      <4>2. row.at = "copy" /\ row.item = proc[i].item
        BY <4>1 DEF Row
      <4> HIDE DEF row
      <4>3. proc'[i] = row
        BY <4>1 DEF IInv, Type
      <4> QED BY <2>4, <4>2, <4>3, CopyBlockKeeps DEF IInv, ItemOf
    <3>3. part'[i][ItemOf(i)] = proc'[i].hasher /\ proc'[i].hasher \in Data
      BY <3>2 DEF Knows, Partial, Type, Row
    <3> HIDE DEF longer
    <3>4. k = i /\ f = ItemOf(i)
      BY <3>1 DEF IInv, Type
    <3> QED BY <3>3, <3>4, NoneIsNoData
  <2>5. ASSUME NEW i \in Ingests, Resume(i)
        PROVE FALSE
    <3>1. part' = [part EXCEPT ![i][ItemOf(i)] = <<>>] \/ UNCHANGED part
      BY <2>5 DEF Resume
    <3>2. <<>> \in Data
      BY DEF Data
    <3> QED BY <3>1, <3>2, NoneIsNoData DEF IInv, Type
  <2>6. \/ UNCHANGED part
        \/ \E i \in Ingests : Unlink(i) \/ Promote(i) \/ CopyBlock(i) \/ Resume(i)
    BY DEF Next, Attempt, Begin, SourceGone, StatSource, EndCopy, HashSource, Compare,
           WriteManifest, Report, Confirm, Reconcile, Crash, ShareGone, Edit, disk
  <2> QED BY <2>2, <2>3, <2>4, <2>5, <2>6
<1> QED BY <1>1, FilesInvariant, PTL DEF Spec, PartialsAreKept
=============================================================================
