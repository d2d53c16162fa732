------------------------------ MODULE Editorial ------------------------------
(***************************************************************************)
(* What people decide of a trip's videos on the editorial page: the        *)
(* suggested boundaries of places and the groups people make               *)
(* (grouping/repository.py, grouping/service.py) and who is in a video     *)
(* (editorial/repository.py), as the routes call them.                     *)
(*                                                                         *)
(* A request reads before it holds SQLite's write lock: a session begins   *)
(* its transaction with its first write.  It then writes the columns in    *)
(* which its objects differ from what it loaded, and no others, so what    *)
(* two requests loaded before either wrote decides what is left.           *)
(* Names of groups, tags and free text are left out, and so are gaps in    *)
(* the time of capture, which split a range as the places do.              *)
(***************************************************************************)
EXTENDS TripRequests, Integers, FiniteSets

CONSTANTS
  Places,   \* where telemetry says a video was taken
  Orders,   \* the orders in which the times of capture may put the videos
  Imported  \* Imported[v]: what the manifest says of the people in v

\* Videos have the numbers in the names of their files.
ASSUME EditorialAssumption ==
  /\ Videos \subseteq Nat /\ IsFiniteSet(Videos)
  /\ Orders \subseteq [Videos -> Nat]
  /\ \A o \in Orders : \A u, v \in Videos : o[u] = o[v] => u = v
  /\ None \notin Requests \cup Places \cup Words
  /\ Imported \in [Videos -> Words \cup {None}]

VARIABLES
  videos,  \* the videos in the catalog
  order,   \* order[v]: where the times of capture on record put v
  track,   \* track[v]: the place kept for the present source of v
  active,  \* the suggestions that are not superseded
  groups,  \* the groups there are
  group,   \* group[v]: the group of v
  people,  \* people[v]: the column of the asset
  field,   \* field[v]: the row of kind PEOPLE
  last,    \* history: the last stored analysis, what it read, whether it missed another
  behind,  \* history: requests that read before another one wrote
  split    \* history: videos whose people were last written by such a request

rows == <<videos, order, track, active, groups, group, people, field>>
vars == <<rows, req, writer, last, behind, split>>

Idle == [at |-> "idle"]
Done == [at |-> "done"]

InFlight == {r \in Requests : req[r].at \notin {"idle", "done"}}

\* What r wrote is there for all, and every other request is behind.
Commits(r) ==
  /\ MayWrite(r) /\ writer' = None
  /\ Goes(r, Done)
  /\ behind' = (behind \cup InFlight) \ {r}

\* A request only reads, and goes on.
Reads(r, q) == Goes(r, q) /\ UNCHANGED <<rows, writer, last, behind, split>>

-----------------------------------------------------------------------------
(* Suggestions *)

\* What lies between two videos, in the order o.
Between(S, o, u, w) == {v \in S : o[u] <= o[v] /\ o[v] <= o[w]}

\* The page shows a suggestion in the order of today, whichever end comes first.
Within(s) ==
  Between(videos, order, s.from, s.to) \cup Between(videos, order, s.to, s.from)

AskAnalysis(r) ==
  /\ At(r, "idle")
  /\ Reads(r, [at |-> "read", clips |-> videos, order |-> order])

\* What is kept for a source is not read again; the rest is found on the share, or is not,
\* and what is found is kept at once: from here the request holds the lock.
ReadTracks(r) ==
  /\ At(r, "read")
  /\ \E found \in [{v \in req[r].clips : track[v] = None} -> Places \cup {None}] :
       LET new == {v \in DOMAIN found : found[v] # None}
       IN /\ new # {} => MayWrite(r)
          /\ writer' = IF new = {} THEN writer ELSE r
          /\ Goes(r, [at |-> "tracked", clips |-> req[r].clips, order |-> req[r].order,
                      place |-> [v \in req[r].clips |->
                                   IF v \in DOMAIN found THEN found[v] ELSE track[v]]])
  /\ UNCHANGED <<rows, last, behind, split>>

LoadSuggestions(r) ==
  /\ At(r, "tracked")
  /\ Reads(r, [at |-> "suggest", clips |-> req[r].clips, order |-> req[r].order,
               place |-> req[r].place, old |-> active])

\* Between consecutive videos: a gap or a step back in the numbers of the files, or a
\* change of place.
Boundary(place, u, v) ==
  \/ v < u \/ v - u > 1
  \/ place[u] # None /\ place[v] # None /\ place[u] # place[v]

Follows(S, o, u, v) ==
  u \in S /\ v \in S /\ o[u] < o[v] /\ ~\E w \in S : o[u] < o[w] /\ o[w] < o[v]

Starts(S, o, place) ==
  {v \in S : \A u \in S : Follows(S, o, u, v) => Boundary(place, u, v)}
Stops(S, o, place) ==
  {u \in S : \A v \in S : Follows(S, o, u, v) => Boundary(place, u, v)}

\* From each start to the first stop.
Ranges(r) ==
  LET o == req[r].order
      stops == Stops(req[r].clips, o, req[r].place)
  IN {s \in [by : {r}, from : Starts(req[r].clips, o, req[r].place), to : stops] :
        o[s.from] <= o[s.to] /\ ~\E w \in stops : o[s.from] <= o[w] /\ o[w] < o[s.to]}

\* Faulty variant: only rows of the same boundaries are superseded.
SupersededSame(r) == {s \in req[r].old : \E t \in Ranges(r) : s.from = t.from /\ s.to = t.to}
Superseded(r) == req[r].old

Suggest(r) ==
  /\ At(r, "suggest")
  /\ Commits(r)
  /\ active' = (active \ Superseded(r)) \cup Ranges(r)
  /\ track' = [v \in Videos |-> IF v \in req[r].clips /\ req[r].place[v] # None
                                THEN req[r].place[v] ELSE track[v]]
  /\ last' = [by |-> r, clips |-> req[r].clips, order |-> req[r].order,
              missed |-> active # req[r].old]
  /\ UNCHANGED <<videos, order, groups, group, people, field, split>>

-----------------------------------------------------------------------------
(* Groups *)

AskRange(r) ==
  /\ At(r, "idle")
  /\ \E from, to \in videos, g \in groups \cup {None}, replaces \in BOOLEAN :
       /\ order[from] <= order[to]
       /\ g = None => replaces
       /\ Reads(r, [at |-> "range", range |-> Between(videos, order, from, to),
                    from |-> from, to |-> to, of |-> g, replaces |-> replaces,
                    seen |-> [v \in videos |-> group[v]]])

GroupOf(r) == IF req[r].of = None THEN r ELSE req[r].of
Asked(r) == req[r].range

\* Faulty variant: the members outside the range stay, whatever the mode.
LeavesNone(r) == {}
\* The members of the group that a replacement takes out, as far as the request has seen.
Leaves(r) ==
  IF req[r].of # None /\ req[r].replaces
  THEN {v \in DOMAIN req[r].seen : req[r].seen[v] = req[r].of} \ Asked(r)
  ELSE {}

\* A video that was seen in the group is not written again.
Enters(r) == {v \in Asked(r) : req[r].seen[v] # GroupOf(r)}

AssignRange(r) ==
  /\ At(r, "range")
  /\ Commits(r)
  /\ groups' = groups \cup {GroupOf(r)}
  /\ group' = [v \in Videos |-> IF v \in Enters(r) THEN GroupOf(r)
                                ELSE IF v \in Leaves(r) THEN None ELSE group[v]]
  /\ UNCHANGED <<videos, order, track, active, people, field, last, split>>

-----------------------------------------------------------------------------
(* People in a video *)

\* Who is in a video, or its group, or both: the assets are read first, the rows of the
\* fields after them.
AskEdit(r) ==
  /\ At(r, "idle")
  /\ \E v \in videos, w \in Words \cup {None}, g \in groups \cup {None} :
       /\ w # None \/ g # None
       /\ Reads(r, [at |-> "edit", of |-> v, word |-> w, into |-> g,
                    people |-> people[v], group |-> group[v]])

LoadFields(r) ==
  /\ At(r, "edit")
  /\ Reads(r, [at |-> "write", of |-> req[r].of, word |-> req[r].word, into |-> req[r].into,
               people |-> req[r].people, group |-> req[r].group,
               field |-> field[req[r].of]])

\* What is not said, or was loaded as it is said, is not written.
Written(now, loaded, said) == IF said \in {None, loaded} THEN now ELSE said

\* Faulty variant: the column of the asset is written only when it is empty.
PeopleWhenEmpty(r) ==
  IF req[r].people = None THEN req[r].word ELSE people[req[r].of]
PeopleAfter(r) == Written(people[req[r].of], req[r].people, req[r].word)

\* A second row of a kind for an asset is refused, and the request with it.
UpdateAssets(r) ==
  /\ At(r, "write")
  /\ req[r].word # None /\ req[r].field = None => field[req[r].of] = None
  /\ Commits(r)
  /\ people' = [people EXCEPT ![req[r].of] = PeopleAfter(r)]
  /\ field' = [field EXCEPT ![req[r].of] = Written(@, req[r].field, req[r].word)]
  /\ group' = [group EXCEPT ![req[r].of] = Written(@, req[r].group, req[r].into)]
  /\ split' = IF req[r].word = None THEN split
              ELSE IF r \in behind THEN split \cup {req[r].of} ELSE split \ {req[r].of}
  /\ UNCHANGED <<videos, order, track, active, groups, last>>

-----------------------------------------------------------------------------
(* The others *)

\* The lock is not free in time, the row is refused, or the server stops.
Fail(r) ==
  /\ r \in InFlight
  /\ Goes(r, Done)
  /\ writer' = IF writer = r THEN None ELSE writer
  /\ behind' = behind \ {r}
  /\ UNCHANGED <<rows, last, split>>

\* A video is imported, or imported again: with its SRT gone or back, when what is kept of
\* it is of the other source, or with the times of capture that its manifest has now.
Import(v) ==
  /\ writer = None
  /\ videos' = videos \cup {v}
  /\ order' \in Orders
  /\ track' \in {track, [track EXCEPT ![v] = None]}
  /\ <<videos', order', track'>> # <<videos, order, track>>
  /\ behind' = behind \cup InFlight
  /\ UNCHANGED <<active, groups, group, people, field, req, writer, last, split>>

Init ==
  /\ videos \in SUBSET Videos /\ order \in Orders
  /\ track = [v \in Videos |-> None] /\ active = {}
  /\ groups = {} /\ group = [v \in Videos |-> None]
  /\ people = Imported /\ field = [v \in Videos |-> None]
  /\ req = [r \in Requests |-> Idle]
  /\ writer = None /\ behind = {} /\ split = {}
  /\ last = [by |-> None, clips |-> {}, order |-> order, missed |-> FALSE]

Analyzes(r) == AskAnalysis(r) \/ ReadTracks(r) \/ LoadSuggestions(r) \/ Suggest(r)
Groups(r) == AskRange(r) \/ AssignRange(r)
Edits(r) == AskEdit(r) \/ LoadFields(r) \/ UpdateAssets(r)

Next ==
  \/ \E r \in Requests : Analyzes(r) \/ Groups(r) \/ Edits(r) \/ Fail(r)
  \/ \E v \in Videos : Import(v)

Spec == Init /\ [][Next]_vars

-----------------------------------------------------------------------------
(* Properties *)

\* The videos that the last analysis read are in the order in which it read them.
InOrder ==
  \A u, v \in last.clips : (order[u] < order[v]) = (last.order[u] < last.order[v])

\* The page shows the whole of the last analysis: each video that it read lies in just one
\* of its ranges, and in no range of another analysis unless the two ran into each other,
\* whatever was imported since.  Only when an import brings times of capture that put two
\* of these videos the other way round are the ranges wrong until the next analysis.
SuggestionsCover ==
  InOrder =>
    \A v \in last.clips :
      LET over == {s \in active : v \in Within(s)}
      IN /\ Cardinality({s \in over : s.by = last.by}) = 1
         /\ ~last.missed => Cardinality(over) = 1

\* A person who adds to a group or replaces its members gets the group that the page
\* showed and the request asked for, and no video of another group leaves it but for the
\* range, unless a request was written or videos were imported since this one read.
RegroupedAsAsked ==
  [][\A r \in Requests :
       At(r, "range") /\ group' # group /\ r \notin behind /\ req'[r] = Done =>
         LET g == IF req[r].of = None THEN r ELSE req[r].of
             asked == Between(videos, order, req[r].from, req[r].to)
         IN \A v \in videos :
              /\ v \in asked => group'[v] = g
              /\ v \notin asked /\ group[v] # g => group'[v] = group[v]
              /\ v \notin asked /\ group[v] = g =>
                   group'[v] = IF req[r].replaces THEN None ELSE g]_vars

\* The gallery, which shows the column, and the editorial page, the selection and the
\* scores, which show the row, tell the same of the people in a video, unless the last
\* person who said it had read before another request was written.
PeopleAgree ==
  \A v \in Videos \ split : field[v] # None => people[v] = field[v]
=============================================================================
