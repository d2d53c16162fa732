--------------------------- MODULE Gallery_proofs ----------------------------
(***************************************************************************)
(* What requests of the gallery do to a trip: they group its videos, they  *)
(* say who is in them, and they have them ranked.                          *)
(*                                                                         *)
(* For any number of requests and videos: the suggestions of the last      *)
(* analysis cover what it read, a change of a group is what was asked for, *)
(* and the two records of the people in a video agree, as long as nobody   *)
(* wrote what he had not read.  The invariant follows the requests: one    *)
(* that is not behind has loaded what is there.  Groups and suggestions    *)
(* are named after requests that are done, so that what a request makes is *)
(* its own.                                                                *)
(*                                                                         *)
(* Whatever changes, fails and stops: a ranking that is not marked as      *)
(* stale is current, and a profile has one active job, which one run       *)
(* computes.  The invariant is about the lock: whoever has asked for the   *)
(* jobs of a profile, or found a job pending, holds it until he has        *)
(* written, so that what he found is still so.  What a run has scored is   *)
(* of the inputs it began with, and these are what a complete job is       *)
(* signed with.                                                            *)
(***************************************************************************)
EXTENDS Editorial, Scores, FiniteSetTheorems, TLAPS

-----------------------------------------------------------------------------
(* Groups and people *)

\* What a request works on is of the catalog.
Asks(q, there) ==
  /\ q.at \in {"read", "tracked", "suggest"} => q.clips \subseteq there /\ q.order \in Orders
  /\ q.at \in {"edit", "write"} => q.of \in there
  /\ q.at = "range" /\ q.of = None => q.replaces

\* What a request has loaded is what there is.
Current(q, there, o, groupOf, peopleOf, fieldOf) ==
  /\ q.at = "range" =>
       /\ q.range = Between(there, o, q.from, q.to)
       /\ DOMAIN q.seen = there /\ \A v \in there : q.seen[v] = groupOf[v]
  /\ q.at \in {"edit", "write"} => q.people = peopleOf[q.of]
  /\ q.at = "write" => q.field = fieldOf[q.of]

\* A group is of a request that is done.
Made(g, reqs) == g # None => g \in Requests /\ reqs[g].at = "done"

Uses(q, reqs) ==
  /\ q.at = "range" => Made(q.of, reqs)
  /\ q.at \in {"edit", "write"} => Made(q.into, reqs)

Spans(s, o, v) == o[s.from] <= o[v] /\ o[v] <= o[s.to]

\* The ranges of an analysis, in the order in which it read the videos.
Covered(there, rs, l) ==
  /\ l.clips \subseteq there /\ l.order \in Orders
  /\ \A s \in rs : s.by = l.by =>
       s.from \in l.clips /\ s.to \in l.clips /\ l.order[s.from] <= l.order[s.to]
  /\ \A v \in l.clips :
       /\ \E s \in rs : s.by = l.by /\ Spans(s, l.order, v)
       /\ \A s, t \in rs :
            s.by = l.by /\ t.by = l.by /\ Spans(s, l.order, v) /\ Spans(t, l.order, v) => s = t
       /\ ~l.missed => \A s \in rs : s.by = l.by

TypeOK ==
  /\ videos \subseteq Videos /\ order \in Orders
  /\ DOMAIN group = Videos /\ DOMAIN people = Videos /\ DOMAIN field = Videos
  /\ DOMAIN req = Requests
  /\ active \subseteq [by : Requests, from : Videos, to : Videos]
  /\ last.missed \in BOOLEAN

IInv ==
  /\ TypeOK
  /\ \A r \in Requests : Asks(req[r], videos) /\ Uses(req[r], req)
  /\ \A r \in Requests \ behind : Current(req[r], videos, order, group, people, field)
  /\ \A g \in groups : Made(g, req)
  /\ \A v \in Videos : Made(group[v], req)
  /\ \A s \in active : Made(s.by, req)
  /\ Covered(videos, active, last)
  /\ PeopleAgree

-----------------------------------------------------------------------------
(* The first and the last *)

\* Of finitely many that have numbers, one has the greatest and one the smallest.
LEMMA Extremes ==
  ASSUME NEW S, IsFiniteSet(S), S # {}, NEW o, \A x \in S : o[x] \in Nat
  PROVE  /\ \E x \in S : \A y \in S : o[y] <= o[x]
         /\ \E x \in S : \A y \in S : o[x] <= o[y]
<1> DEFINE Fine(T) == /\ \E x \in T : \A y \in T : o[y] <= o[x]
                      /\ \E x \in T : \A y \in T : o[x] <= o[y]
           Bad == {T \in SUBSET S : T # {} /\ ~Fine(T)}
           Less == StrictSubsetOrdering(S)
<1>1. SUFFICES ASSUME Bad # {} PROVE FALSE
  OBVIOUS
<1>2. IsWellFoundedOn(Less, FiniteSubsetsOf(S))
  BY FS_StrictSubsetOrderingWellFounded
<1>3. FiniteSubsetsOf(S) = SUBSET S
  BY FS_FiniteSubsetsOfFinite
<1> HIDE DEF Less
<1>4. PICK T \in Bad : \A U \in Bad : <<U, T>> \notin Less
  <2>1. Bad \subseteq FiniteSubsetsOf(S)
    BY <1>3
  <2> HIDE DEF Bad
  <2> QED BY <1>1, <1>2, <2>1, WFMin
<1>5. PICK t \in T : TRUE
  OBVIOUS
<1> DEFINE U == T \ {t}
<1>6. U \subseteq S /\ U # T /\ U \subseteq T /\ T \subseteq S
  BY <1>5
<1>7. <<U, T>> \in Less
  BY <1>6 DEF Less, StrictSubsetOrdering
<1>8. U \notin Bad
  BY <1>4, <1>7
<1>9. CASE U = {}
  <2>1. T = {t} /\ o[t] \in Nat
    BY <1>5, <1>9
  <2>2. Fine(T)
    BY <2>1
  <2> QED BY <1>4, <2>2
<1>10. CASE U # {}
  <2>1. Fine(U)
    BY <1>6, <1>8, <1>10
  <2>2. PICK low \in U, high \in U : \A y \in U : o[low] <= o[y] /\ o[y] <= o[high]
    BY <2>1
  <2>3. \A y \in T : o[y] \in Nat /\ (y = t \/ y \in U)
    BY <1>6
  <2>4. \E x \in T : \A y \in T : o[y] <= o[x]
    <3>1. CASE o[t] <= o[high]
      BY <1>6, <2>2, <2>3, <3>1
    <3>2. CASE o[high] <= o[t]
      BY <1>5, <1>6, <2>2, <2>3, <3>2
    <3> QED BY <1>5, <1>6, <2>2, <2>3, <3>1, <3>2
  <2>5. \E x \in T : \A y \in T : o[x] <= o[y]
    <3>1. CASE o[low] <= o[t]
      BY <1>6, <2>2, <2>3, <3>1
    <3>2. CASE o[t] <= o[low]
      BY <1>5, <1>6, <2>2, <2>3, <3>2
    <3> QED BY <1>5, <1>6, <2>2, <2>3, <3>1, <3>2
  <2> QED BY <1>4, <2>4, <2>5
<1> QED BY <1>9, <1>10

-----------------------------------------------------------------------------
(* The ranges of an analysis *)

\* Each video that was analysed lies in one range, and in one only.
LEMMA RangesCover ==
  ASSUME NEW r \in Requests, NEW S, S = req[r].clips, S \subseteq Videos,
         NEW o \in Orders, o = req[r].order, NEW v \in S
  PROVE  \E s \in Ranges(r) : /\ Spans(s, o, v)
                              /\ \A t \in Ranges(r) : Spans(t, o, v) => t = s
<1> DEFINE place == req[r].place
           starts == Starts(S, o, place)
           ends == Stops(S, o, place)
           before == {x \in starts : o[x] <= o[v]}
           after == {x \in ends : o[v] <= o[x]}
<1>1. /\ \A T : T \subseteq S => IsFiniteSet(T)
      /\ \A x \in S : o[x] \in Nat
      /\ \A x, y \in S : o[x] = o[y] => x = y
  BY EditorialAssumption, FS_Subset
<1>2. starts \subseteq S /\ ends \subseteq S
  BY DEF Starts, Stops
\* A video is a start, or the one before it is no stop.
<1>3. ASSUME NEW u \in S, u \notin ends
      PROVE  \E w \in S : Follows(S, o, u, w) /\ ~Boundary(place, u, w)
  BY <1>3 DEF Stops
<1>4. ASSUME NEW u \in S, NEW w \in S, Follows(S, o, u, w)
      PROVE  /\ w \in starts => Boundary(place, u, w)
             /\ u \in ends => Boundary(place, u, w)
  BY <1>4 DEF Starts, Stops
<1>5. ASSUME NEW u \in S, NEW w \in S, Follows(S, o, u, w), Boundary(place, u, w)
      PROVE  u \in ends /\ w \in starts
  <2>1. \A x \in S : Follows(S, o, u, x) => x = w
    BY <1>1, <1>5 DEF Follows
  <2>2. \A x \in S : Follows(S, o, x, w) => x = u
    BY <1>1, <1>5 DEF Follows
  <2> QED BY <1>5, <2>1, <2>2 DEF Starts, Stops
\* There is a next one, unless it is the last, and one before, unless it is the first.
<1>6. ASSUME NEW u \in S, NEW w \in S, o[u] < o[w]
      PROVE  /\ \E x \in S : Follows(S, o, u, x) /\ o[x] <= o[w]
             /\ \E x \in S : Follows(S, o, x, w) /\ o[u] <= o[x]
  <2> DEFINE above == {x \in S : o[u] < o[x]}
             below == {x \in S : o[x] < o[w]}
  <2>1. PICK x \in above : \A y \in above : o[x] <= o[y]
    <3>1. above \subseteq S /\ above # {}
      BY <1>6
    <3> HIDE DEF above
    <3> QED BY <1>1, <3>1, Extremes
  <2>2. PICK z \in below : \A y \in below : o[y] <= o[z]
    <3>1. below \subseteq S /\ below # {}
      BY <1>6
    <3> HIDE DEF below
    <3> QED BY <1>1, <3>1, Extremes
  <2>3. Follows(S, o, u, x) /\ o[x] <= o[w]
    BY <1>1, <1>6, <2>1 DEF Follows
  <2>4. Follows(S, o, z, w) /\ o[u] <= o[z]
    BY <1>1, <1>6, <2>2 DEF Follows
  <2> QED BY <2>3, <2>4
<1> HIDE DEF starts, ends
<1>7. PICK a \in before : \A x \in before : o[x] <= o[a]
  <2>1. PICK first \in S : \A x \in S : o[first] <= o[x]
    BY <1>1, Extremes
  <2>2. first \in starts
    BY <1>1, <2>1 DEF starts, Starts, Follows
  <2>3. before \subseteq S /\ before # {}
    BY <1>2, <2>1, <2>2
  <2> HIDE DEF before
  <2> QED BY <1>1, <2>3, Extremes
<1>8. PICK b \in after : \A x \in after : o[b] <= o[x]
  <2>1. PICK final \in S : \A x \in S : o[x] <= o[final]
    BY <1>1, Extremes
  <2>2. final \in ends
    BY <1>1, <2>1 DEF ends, Stops, Follows
  <2>3. after \subseteq S /\ after # {}
    BY <1>2, <2>1, <2>2
  <2> HIDE DEF after
  <2> QED BY <1>1, <2>3, Extremes
<1>9. /\ a \in starts /\ a \in S /\ o[a] \in Nat /\ o[a] <= o[v]
      /\ b \in ends /\ b \in S /\ o[b] \in Nat /\ o[v] <= o[b]
      /\ o[v] \in Nat
  BY <1>1, <1>2, <1>7, <1>8
<1>10. \A w \in ends : ~(o[a] <= o[w] /\ o[w] < o[b])
  <2> SUFFICES ASSUME NEW w \in ends, o[a] <= o[w], o[w] < o[b]
               PROVE  FALSE
    OBVIOUS
  <2>1. w \in S /\ o[w] \in Nat /\ o[w] < o[v]
    BY <1>1, <1>2, <1>8, <1>9
  <2>2. PICK x \in S : Follows(S, o, w, x) /\ o[x] <= o[v]
    BY <1>6, <2>1
  <2>3. x \in starts /\ o[w] < o[x] /\ o[x] \in Nat
    BY <1>1, <1>4, <1>5, <2>1, <2>2 DEF Follows
  <2> QED BY <1>7, <1>9, <2>1, <2>2, <2>3
<1>11. ASSUME NEW c \in starts, NEW d \in ends, o[c] <= o[v], o[v] <= o[d],
              \A w \in ends : ~(o[c] <= o[w] /\ o[w] < o[d])
       PROVE  c = a /\ d = b
  <2>1. c \in S /\ d \in S /\ o[c] \in Nat /\ o[d] \in Nat
    BY <1>1, <1>2
  <2>2. o[d] = o[b]
    BY <1>8, <1>9, <1>11, <2>1
  <2>3. o[c] <= o[a]
    BY <1>7, <1>11
  <2>4. CASE o[c] < o[a]
    <3>1. PICK x \in S : Follows(S, o, x, a) /\ o[c] <= o[x]
      BY <1>6, <1>9, <2>1, <2>4
    <3>2. x \in ends /\ o[x] < o[a] /\ o[x] \in Nat
      BY <1>1, <1>4, <1>5, <1>9, <3>1 DEF Follows
    <3> QED BY <1>9, <1>11, <2>1, <2>2, <3>1, <3>2
  <2>5. CASE o[c] = o[a]
    BY <1>1, <1>9, <2>1, <2>2, <2>5
  <2> QED BY <1>9, <2>1, <2>3, <2>4, <2>5
<1>12. Ranges(r) = {s \in [by : {r}, from : starts, to : ends] :
                      o[s.from] <= o[s.to] /\ ~\E w \in ends : o[s.from] <= o[w] /\ o[w] < o[s.to]}
  BY DEF Ranges, starts, ends
<1> DEFINE s == [by |-> r, from |-> a, to |-> b]
<1>13. s \in Ranges(r) /\ Spans(s, o, v)
  BY <1>9, <1>10, <1>12 DEF Spans
<1>14. ASSUME NEW t \in Ranges(r), Spans(t, o, v)
       PROVE  t = s
  BY <1>11, <1>12, <1>14 DEF Spans
<1> QED BY <1>13, <1>14

-----------------------------------------------------------------------------
(* What a request that goes on leaves alone *)

\* Whoever is done stays so, whatever another request or this one becomes.
LEMMA DoneStays ==
  ASSUME DOMAIN req = Requests, NEW r \in Requests, NEW q, req' = [req EXCEPT ![r] = q],
         req[r].at # "done"
  PROVE  /\ req'[r] = q /\ \A s \in Requests : s # r => req'[s] = req[s]
         /\ DOMAIN req' = Requests
         /\ \A g : Made(g, req) => Made(g, req')
         /\ \A p : Uses(p, req) => Uses(p, req')
<1>1. /\ req'[r] = q /\ \A s \in Requests : s # r => req'[s] = req[s]
      /\ DOMAIN req' = Requests
  OBVIOUS
<1>2. \A g : Made(g, req) => Made(g, req')
  BY <1>1 DEF Made
<1>3. \A p : Uses(p, req) => Uses(p, req')
  BY <1>2 DEF Uses
<1> QED BY <1>1, <1>2, <1>3

\* A request reads, or ends without having written.
LEMMA GoesOn ==
  ASSUME IInv, NEW r \in Requests, NEW q, req' = [req EXCEPT ![r] = q], req[r].at # "done",
         UNCHANGED <<rows, last, split>>,
         \A s \in Requests : s # r /\ s \notin behind' => s \notin behind,
         Asks(q, videos), Uses(q, req),
         r \notin behind' => Current(q, videos, order, group, people, field)
  PROVE  IInv'
<1>1. UNCHANGED <<videos, order, active, groups, group, people, field, last, split>>
  BY DEF rows
<1>2. /\ req'[r] = q /\ \A s \in Requests : s # r => req'[s] = req[s]
      /\ DOMAIN req' = Requests
      /\ \A g : Made(g, req) => Made(g, req')
      /\ \A p : Uses(p, req) => Uses(p, req')
  BY DoneStays DEF IInv, TypeOK
<1>3. TypeOK'
  BY <1>1, <1>2 DEF IInv, TypeOK
<1>4. \A s \in Requests : Asks(req'[s], videos') /\ Uses(req'[s], req')
  BY <1>1, <1>2 DEF IInv
<1>5. \A s \in Requests \ behind' : Current(req'[s], videos', order', group', people', field')
  BY <1>1, <1>2 DEF IInv
<1>6. /\ \A g \in groups' : Made(g, req')
      /\ \A v \in Videos : Made(group'[v], req')
      /\ \A s \in active' : Made(s.by, req')
  BY <1>1, <1>2 DEF IInv
<1>7. Covered(videos', active', last') /\ PeopleAgree'
  BY <1>1 DEF IInv, PeopleAgree
<1> QED BY <1>3, <1>4, <1>5, <1>6, <1>7 DEF IInv

LEMMA FailKeeps ==
  ASSUME IInv, NEW r \in Requests, Fail(r)
  PROVE  IInv'
<1>1. /\ req' = [req EXCEPT ![r] = Done] /\ req[r].at # "done"
      /\ UNCHANGED <<rows, last, split>> /\ behind' = behind \ {r}
  BY DEF Fail, Goes, InFlight
<1>2. Done.at = "done"
  BY DEF Done
<1>3. Asks(Done, videos) /\ Uses(Done, req) /\ Current(Done, videos, order, group, people, field)
  BY <1>2 DEF Asks, Uses, Current
<1> QED BY <1>1, <1>3, GoesOn

LEMMA AskAnalysisKeeps ==
  ASSUME IInv, NEW r \in Requests, AskAnalysis(r)
  PROVE  IInv'
<1> DEFINE q == [at |-> "read", clips |-> videos, order |-> order]
<1>1. /\ req' = [req EXCEPT ![r] = q] /\ req[r].at # "done"
      /\ UNCHANGED <<rows, last, split, behind>>
  BY DEF AskAnalysis, At, Reads, Goes
<1>2. Asks(q, videos) /\ Uses(q, req) /\ Current(q, videos, order, group, people, field)
  BY DEF Asks, Uses, Current, IInv, TypeOK
<1> HIDE DEF q
<1> QED BY <1>1, <1>2, GoesOn

LEMMA ReadTracksKeeps ==
  ASSUME IInv, NEW r \in Requests, ReadTracks(r)
  PROVE  IInv'
<1>1. PICK place : req' = [req EXCEPT ![r] = [at |-> "tracked", clips |-> req[r].clips,
                                              order |-> req[r].order, place |-> place]]
  BY DEF ReadTracks, Goes
<1> DEFINE q == [at |-> "tracked", clips |-> req[r].clips, order |-> req[r].order,
                 place |-> place]
<1>2. req[r].at = "read" /\ UNCHANGED <<rows, last, split, behind>>
  BY DEF ReadTracks, At
<1>3. req[r].clips \subseteq videos /\ req[r].order \in Orders
  BY <1>2 DEF IInv, Asks
<1>4. Asks(q, videos) /\ Uses(q, req) /\ Current(q, videos, order, group, people, field)
  BY <1>3 DEF Asks, Uses, Current
<1>5. req' = [req EXCEPT ![r] = q]
  BY <1>1
<1> HIDE DEF q
<1> QED BY <1>2, <1>4, <1>5, GoesOn

LEMMA LoadSuggestionsKeeps ==
  ASSUME IInv, NEW r \in Requests, LoadSuggestions(r)
  PROVE  IInv'
<1> DEFINE q == [at |-> "suggest", clips |-> req[r].clips, order |-> req[r].order,
                 place |-> req[r].place, old |-> active]
<1>1. /\ req' = [req EXCEPT ![r] = q] /\ req[r].at = "tracked"
      /\ UNCHANGED <<rows, last, split, behind>>
  BY DEF LoadSuggestions, At, Reads, Goes
<1>2. req[r].clips \subseteq videos /\ req[r].order \in Orders
  BY <1>1 DEF IInv, Asks
<1>3. Asks(q, videos) /\ Uses(q, req) /\ Current(q, videos, order, group, people, field)
  BY <1>2 DEF Asks, Uses, Current
<1> HIDE DEF q
<1> QED BY <1>1, <1>3, GoesOn

LEMMA AskRangeKeeps ==
  ASSUME IInv, NEW r \in Requests, AskRange(r)
  PROVE  IInv'
<1>1. PICK from \in videos, to \in videos, g \in groups \cup {None}, replaces \in BOOLEAN :
        /\ g = None => replaces
        /\ Reads(r, [at |-> "range", range |-> Between(videos, order, from, to),
                     from |-> from, to |-> to, of |-> g, replaces |-> replaces,
                     seen |-> [v \in videos |-> group[v]]])
  BY DEF AskRange
<1> DEFINE range == Between(videos, order, from, to)
           seen == [v \in videos |-> group[v]]
           q == [at |-> "range", range |-> range, from |-> from, to |-> to, of |-> g,
                 replaces |-> replaces, seen |-> seen]
<1>2. /\ req' = [req EXCEPT ![r] = q] /\ req[r].at # "done"
      /\ UNCHANGED <<rows, last, split, behind>>
  BY <1>1 DEF AskRange, At, Reads, Goes
<1>3. DOMAIN seen = videos /\ \A v \in videos : seen[v] = group[v]
  OBVIOUS
<1>4. range = Between(videos, order, from, to)
  OBVIOUS
<1>5. Made(g, req)
  BY DEF IInv, Made
<1> HIDE DEF seen, range
<1>6. Asks(q, videos) /\ Uses(q, req) /\ Current(q, videos, order, group, people, field)
  BY <1>1, <1>3, <1>4, <1>5 DEF Asks, Uses, Current
<1> HIDE DEF q
<1> QED BY <1>2, <1>6, GoesOn

LEMMA AskEditKeeps ==
  ASSUME IInv, NEW r \in Requests, AskEdit(r)
  PROVE  IInv'
<1>1. PICK v \in videos, w \in Words \cup {None}, g \in groups \cup {None} :
        Reads(r, [at |-> "edit", of |-> v, word |-> w, into |-> g,
                  people |-> people[v], group |-> group[v]])
  BY DEF AskEdit
<1> DEFINE q == [at |-> "edit", of |-> v, word |-> w, into |-> g,
                 people |-> people[v], group |-> group[v]]
<1>2. /\ req' = [req EXCEPT ![r] = q] /\ req[r].at # "done"
      /\ UNCHANGED <<rows, last, split, behind>>
  BY <1>1 DEF AskEdit, At, Reads, Goes
<1>3. Made(g, req)
  BY DEF IInv, TypeOK, Made
<1>4. Asks(q, videos) /\ Uses(q, req) /\ Current(q, videos, order, group, people, field)
  BY <1>3 DEF Asks, Uses, Current
<1> HIDE DEF q
<1> QED BY <1>2, <1>4, GoesOn

LEMMA LoadFieldsKeeps ==
  ASSUME IInv, NEW r \in Requests, LoadFields(r)
  PROVE  IInv'
<1> DEFINE q == [at |-> "write", of |-> req[r].of, word |-> req[r].word,
                 into |-> req[r].into, people |-> req[r].people, group |-> req[r].group,
                 field |-> field[req[r].of]]
<1>1. /\ req' = [req EXCEPT ![r] = q] /\ req[r].at = "edit"
      /\ UNCHANGED <<rows, last, split, behind>>
  BY DEF LoadFields, At, Reads, Goes
<1>2. Asks(q, videos) /\ Uses(q, req)
  BY <1>1 DEF IInv, Asks, Uses
<1>3. r \notin behind => Current(q, videos, order, group, people, field)
  BY <1>1 DEF IInv, Current
<1> HIDE DEF q
<1> QED BY <1>1, <1>2, <1>3, GoesOn

-----------------------------------------------------------------------------
(* What a request that commits leaves alone *)

\* Everyone else at work is behind, so nobody is held to what has been loaded.
LEMMA CommitLeaves ==
  ASSUME IInv, NEW r \in Requests, Commits(r), req[r].at \notin {"idle", "done"}
  PROVE  /\ DOMAIN req' = Requests /\ req'[r].at = "done"
         /\ \A g : Made(g, req) => Made(g, req')
         /\ \A s \in Requests : Asks(req'[s], videos) /\ Uses(req'[s], req')
         /\ \A s \in Requests \ behind' : \A there, o, g, p, f : Current(req'[s], there, o, g, p, f)
<1>1. req' = [req EXCEPT ![r] = Done] /\ behind' = (behind \cup InFlight) \ {r}
  BY DEF Commits, Goes
<1>2. /\ req'[r] = Done /\ \A s \in Requests : s # r => req'[s] = req[s]
      /\ DOMAIN req' = Requests
      /\ \A g : Made(g, req) => Made(g, req')
      /\ \A p : Uses(p, req) => Uses(p, req')
  BY <1>1, DoneStays DEF IInv, TypeOK
<1>3. Done.at = "done"
  BY DEF Done
<1>4. \A s \in Requests : Asks(req'[s], videos) /\ Uses(req'[s], req')
  <2>1. Asks(Done, videos) /\ Uses(Done, req')
    BY <1>3 DEF Asks, Uses
  <2> QED BY <1>2, <2>1 DEF IInv
<1>5. \A s \in Requests \ behind' : req'[s].at \in {"idle", "done"}
  BY <1>1, <1>2, <1>3 DEF InFlight
<1>6. \A s \in Requests \ behind' : \A there, o, g, p, f : Current(req'[s], there, o, g, p, f)
  BY <1>5 DEF Current
<1> QED BY <1>2, <1>3, <1>4, <1>6

LEMMA SuggestKeeps ==
  ASSUME IInv, NEW r \in Requests, Suggest(r)
  PROVE  IInv'
<1> PICK old : old = req[r].old
  OBVIOUS
<1> PICK S : S = req[r].clips
  OBVIOUS
<1> PICK o : o = req[r].order
  OBVIOUS
<1> PICK ranges : ranges = Ranges(r)
  OBVIOUS
<1>1. /\ req[r].at = "suggest" /\ Commits(r)
      /\ active' = (active \ old) \cup ranges
      /\ last' = [by |-> r, clips |-> S, order |-> o, missed |-> active # old]
      /\ UNCHANGED <<videos, order, groups, group, people, field, split>>
  BY DEF Suggest, At, Superseded
<1>2. /\ DOMAIN req' = Requests /\ req'[r].at = "done"
      /\ \A g : Made(g, req) => Made(g, req')
      /\ \A s \in Requests : Asks(req'[s], videos) /\ Uses(req'[s], req')
      /\ \A s \in Requests \ behind' : \A there, w, g, p, f : Current(req'[s], there, w, g, p, f)
  BY <1>1, CommitLeaves
<1>3. S \subseteq videos /\ videos \subseteq Videos /\ o \in Orders
  BY <1>1 DEF IInv, Asks, TypeOK
<1>4. ranges \subseteq [by : {r}, from : S, to : S] /\ \A s \in ranges : o[s.from] <= o[s.to]
  BY DEF Ranges, Starts, Stops
<1>5. TypeOK'
  <2>1. ranges \subseteq [by : Requests, from : Videos, to : Videos]
    BY <1>3, <1>4
  <2>2. last'.missed \in BOOLEAN
    BY <1>1
  <2> QED BY <1>1, <1>2, <2>1, <2>2 DEF IInv, TypeOK
<1>6. \A s \in active' : Made(s.by, req')
  <2>1. Made(r, req')
    BY <1>2 DEF Made
  <2>2. \A s \in ranges : s.by = r
    BY <1>4
  <2> QED BY <1>1, <1>2, <2>1, <2>2 DEF IInv
\* What is there of r is what it has made now.
<1>7. \A s \in active' : s.by = r => s \in ranges
  <2>1. \A s \in active : s.by # r
    BY <1>1, EditorialAssumption DEF IInv, Made
  <2> QED BY <1>1, <2>1
<1>8. Covered(videos', active', last')
  <2>1. last'.by = r /\ last'.clips = S /\ last'.order = o /\ (~last'.missed => active = old)
    BY <1>1
  <2>2. ASSUME NEW v \in S
        PROVE  /\ \E s \in active' : s.by = r /\ Spans(s, o, v)
               /\ \A s, t \in active' :
                    s.by = r /\ t.by = r /\ Spans(s, o, v) /\ Spans(t, o, v) => s = t
    <3>1. PICK s \in ranges : Spans(s, o, v) /\ \A t \in ranges : Spans(t, o, v) => t = s
      BY <1>3, RangesCover
    <3>2. s.by = r
      BY <1>4
    <3> QED BY <1>1, <1>7, <3>1, <3>2
  <2>3. active = old => \A s \in active' : s.by = r
    BY <1>1, <1>4
  <2>4. \A s \in active' : s.by = r => s.from \in S /\ s.to \in S /\ o[s.from] <= o[s.to]
    BY <1>4, <1>7
  <2> QED BY <1>1, <1>3, <2>1, <2>2, <2>3, <2>4 DEF Covered
<1>9. /\ \A g \in groups' : Made(g, req')
      /\ \A v \in Videos : Made(group'[v], req')
      /\ PeopleAgree'
  BY <1>1, <1>2 DEF IInv, PeopleAgree
<1> QED BY <1>1, <1>2, <1>5, <1>6, <1>8, <1>9 DEF IInv

\* What is left of a request that commits, when it changes a video.
LEMMA CommitKeeps ==
  ASSUME IInv, NEW r \in Requests, Commits(r), req[r].at \notin {"idle", "done"},
         UNCHANGED <<videos, order, active, last>>,
         DOMAIN group' = Videos, DOMAIN people' = Videos, DOMAIN field' = Videos,
         \A g \in groups' : Made(g, req'), \A v \in Videos : Made(group'[v], req'),
         PeopleAgree'
  PROVE  IInv'
<1>1. /\ DOMAIN req' = Requests /\ req'[r].at = "done"
      /\ \A g : Made(g, req) => Made(g, req')
      /\ \A s \in Requests : Asks(req'[s], videos) /\ Uses(req'[s], req')
      /\ \A s \in Requests \ behind' : \A there, o, g, p, f : Current(req'[s], there, o, g, p, f)
  BY CommitLeaves
<1>2. TypeOK' /\ Covered(videos', active', last') /\ \A s \in active' : Made(s.by, req')
  BY <1>1 DEF IInv, TypeOK
<1> QED BY <1>1, <1>2 DEF IInv

LEMMA AssignRangeKeeps ==
  ASSUME IInv, NEW r \in Requests, AssignRange(r)
  PROVE  IInv'
<1>1. /\ req[r].at = "range" /\ Commits(r)
      /\ DOMAIN group' = Videos
      /\ \A v \in Videos : group'[v] \in {GroupOf(r), None, group[v]}
      /\ groups' = groups \cup {GroupOf(r)}
      /\ UNCHANGED <<videos, order, active, people, field, last, split>>
  BY DEF AssignRange, At
<1>2. req'[r].at = "done" /\ \A g : Made(g, req) => Made(g, req')
  BY <1>1, CommitLeaves
<1>3. Made(GroupOf(r), req')
  BY <1>1, <1>2 DEF IInv, Uses, Made, GroupOf
<1>4. /\ Made(None, req') /\ \A v \in Videos : Made(group[v], req')
      /\ \A g \in groups : Made(g, req')
  BY <1>2 DEF IInv, Made
<1>5. (\A v \in Videos : Made(group'[v], req')) /\ \A g \in groups' : Made(g, req')
  BY <1>1, <1>3, <1>4
<1>6. PeopleAgree' /\ DOMAIN people' = Videos /\ DOMAIN field' = Videos
  BY <1>1 DEF IInv, TypeOK, PeopleAgree
<1> QED BY <1>1, <1>5, <1>6, CommitKeeps

LEMMA UpdateAssetsKeeps ==
  ASSUME IInv, NEW r \in Requests, UpdateAssets(r)
  PROVE  IInv'
<1> PICK v : v = req[r].of
  OBVIOUS
<1> PICK word : word = req[r].word
  OBVIOUS
<1>1. /\ req[r].at = "write" /\ Commits(r) /\ UNCHANGED <<videos, order, active, groups, last>>
      /\ v \in Videos /\ DOMAIN group = Videos /\ DOMAIN people = Videos /\ DOMAIN field = Videos
  BY DEF UpdateAssets, At, IInv, Asks, TypeOK
<1>2. /\ people' = [people EXCEPT ![v] = Written(people[v], req[r].people, word)]
      /\ field' = [field EXCEPT ![v] = Written(field[v], req[r].field, word)]
      /\ group' = [group EXCEPT ![v] = Written(group[v], req[r].group, req[r].into)]
  BY DEF UpdateAssets, PeopleAfter
<1>3. split' = IF word = None THEN split
               ELSE IF r \in behind THEN split \cup {v} ELSE split \ {v}
  BY DEF UpdateAssets
<1>4. DOMAIN group' = Videos /\ DOMAIN people' = Videos /\ DOMAIN field' = Videos
  BY <1>1, <1>2
<1>5. (\A u \in Videos : Made(group'[u], req')) /\ \A g \in groups' : Made(g, req')
  <2>1. \A g : Made(g, req) => Made(g, req')
    BY <1>1, CommitLeaves
  <2>2. Made(req[r].into, req)
    BY <1>1 DEF IInv, Uses
  <2>3. \A u \in Videos : group'[u] = group[u] \/ group'[u] = req[r].into
    BY <1>1, <1>2 DEF Written
  <2> QED BY <1>1, <2>1, <2>2, <2>3 DEF IInv
<1>6. ASSUME NEW u \in Videos, u \notin split', field'[u] # None
      PROVE  people'[u] = field'[u]
  <2>1. PeopleAgree
    BY DEF IInv
  <2>2. CASE u # v
    BY <1>1, <1>2, <1>3, <1>6, <2>1, <2>2 DEF PeopleAgree
  <2>3. CASE u = v /\ word = None
    BY <1>1, <1>2, <1>3, <1>6, <2>1, <2>3 DEF PeopleAgree, Written
  <2>4. CASE u = v /\ word # None
    <3>1. r \notin behind
      BY <1>3, <1>6, <2>4
    <3>2. req[r].people = people[v] /\ req[r].field = field[v]
      BY <1>1, <3>1 DEF IInv, Current
    <3> QED BY <1>1, <1>2, <2>4, <3>2 DEF Written
  <2> QED BY <2>2, <2>3, <2>4
<1>7. PeopleAgree'
  BY <1>6 DEF PeopleAgree
<1> QED BY <1>1, <1>4, <1>5, <1>7, CommitKeeps

LEMMA ImportKeeps ==
  ASSUME IInv, NEW v \in Videos, Import(v)
  PROVE  IInv'
<1>1. /\ videos' = videos \cup {v} /\ order' \in Orders /\ behind' = behind \cup InFlight
      /\ UNCHANGED <<active, groups, group, people, field, req, last, split>>
  BY DEF Import
<1>2. TypeOK' /\ PeopleAgree'
  BY <1>1 DEF IInv, TypeOK, PeopleAgree
<1>3. \A s \in Requests : Asks(req[s], videos')
  BY <1>1 DEF IInv, Asks
<1>4. \A s \in Requests \ behind' : Current(req[s], videos', order', group, people, field)
  BY <1>1 DEF InFlight, Current
<1>5. Covered(videos', active, last)
  BY <1>1 DEF IInv, Covered
<1> QED BY <1>1, <1>2, <1>3, <1>4, <1>5 DEF IInv

-----------------------------------------------------------------------------
(* The theorems *)

LEMMA InitHolds ==
  ASSUME Init
  PROVE  IInv
<1>1. TypeOK
  BY EditorialAssumption DEF Init, TypeOK
<1>2. \A r \in Requests : req[r] = Idle /\ Idle.at = "idle"
  BY DEF Init, Idle
<1>3. \A r \in Requests : /\ Asks(req[r], videos) /\ Uses(req[r], req)
                          /\ Current(req[r], videos, order, group, people, field)
  BY <1>2 DEF Asks, Uses, Current
<1>4. /\ \A g \in groups : Made(g, req)
      /\ \A v \in Videos : Made(group[v], req)
      /\ \A s \in active : Made(s.by, req)
  BY DEF Init, Made
<1>5. Covered(videos, active, last) /\ PeopleAgree
  BY DEF Init, Covered, PeopleAgree
<1> QED BY <1>1, <1>3, <1>4, <1>5 DEF IInv

LEMMA NextKeeps ==
  ASSUME IInv, [Next]_vars
  PROVE  IInv'
<1>1. CASE \E r \in Requests : Analyzes(r) \/ Groups(r) \/ Edits(r) \/ Fail(r)
  BY <1>1, AskAnalysisKeeps, ReadTracksKeeps, LoadSuggestionsKeeps, SuggestKeeps,
     AskRangeKeeps, AssignRangeKeeps, AskEditKeeps, LoadFieldsKeeps, UpdateAssetsKeeps, FailKeeps
  DEF Analyzes, Groups, Edits
<1>2. CASE \E v \in Videos : Import(v)
  BY <1>2, ImportKeeps
<1>3. CASE UNCHANGED vars
  BY <1>3 DEF vars, rows, IInv, TypeOK, PeopleAgree
<1> QED BY <1>1, <1>2, <1>3 DEF Next

\* The inductive invariant of the next three.
THEOREM EditorialInvariant == Spec => []IInv
<1>1. Init => IInv
  BY InitHolds
<1>2. IInv /\ [Next]_vars => IInv'
  BY NextKeeps
<1> QED BY <1>1, <1>2, PTL DEF Spec

\* Each video of the last analysis (analyze_trip) lies in one range of it, and in none of
\* another unless the two ran into each other, as long as no import has put two of these
\* videos the other way round.
THEOREM SuggestionsAreWhole == Spec => []SuggestionsCover
<1>1. IInv => SuggestionsCover
  <2> SUFFICES ASSUME IInv, InOrder, NEW v \in last.clips
               PROVE  LET over == {s \in active : v \in Within(s)}
                      IN /\ Cardinality({s \in over : s.by = last.by}) = 1
                         /\ ~last.missed => Cardinality(over) = 1
    BY DEF SuggestionsCover
  <2> DEFINE over == {s \in active : v \in Within(s)}
             mine == {s \in over : s.by = last.by}
  <2>1. PICK s \in active : s.by = last.by /\ Spans(s, last.order, v)
    BY DEF IInv, Covered
  <2>2. \A u \in last.clips : u \in videos /\ order[u] \in Nat /\ last.order[u] \in Nat
    BY EditorialAssumption DEF IInv, TypeOK, Covered
  <2>3. ASSUME NEW t \in active, t.by = last.by
        PROVE  v \in Within(t) <=> Spans(t, last.order, v)
    <3>1. t.from \in last.clips /\ t.to \in last.clips /\ last.order[t.from] <= last.order[t.to]
      BY <2>3 DEF IInv, Covered
    <3>2. \A u, w \in last.clips : order[u] < order[w] <=> last.order[u] < last.order[w]
      BY DEF InOrder
    <3>3. \A u, w \in last.clips : order[u] <= order[w] <=> last.order[u] <= last.order[w]
      BY <2>2, <3>2
    <3>4. v \in Within(t) <=> \/ order[t.from] <= order[v] /\ order[v] <= order[t.to]
                              \/ order[t.to] <= order[v] /\ order[v] <= order[t.from]
      BY <2>2 DEF Within, Between
    <3> QED BY <2>2, <3>1, <3>3, <3>4 DEF Spans
  <2>4. \A t \in active : t.by = last.by /\ Spans(t, last.order, v) => t = s
    BY <2>1 DEF IInv, Covered
  <2>5. mine = {s}
    BY <2>1, <2>3, <2>4
  <2>6. ~last.missed => over = mine
    BY DEF IInv, Covered
  <2>7. Cardinality({s}) = 1
    BY FS_Singleton
  <2> HIDE DEF over, mine
  <2>8. Cardinality(mine) = 1 /\ (~last.missed => Cardinality(over) = 1)
    BY <2>5, <2>6, <2>7
  <2> QED BY <2>8 DEF over, mine
<1> QED BY <1>1, EditorialInvariant, PTL

\* The column and the row of the people in a video (update_assets) say the same.
THEOREM PeopleAreTheSame == Spec => []PeopleAgree
<1>1. IInv => PeopleAgree
  BY DEF IInv
<1> QED BY <1>1, EditorialInvariant, PTL

AsAsked ==
  \A r \in Requests :
    At(r, "range") /\ group' # group /\ r \notin behind /\ req'[r] = Done =>
      LET g == IF req[r].of = None THEN r ELSE req[r].of
          asked == Between(videos, order, req[r].from, req[r].to)
      IN \A v \in videos :
           /\ v \in asked => group'[v] = g
           /\ v \notin asked /\ group[v] # g => group'[v] = group[v]
           /\ v \notin asked /\ group[v] = g =>
                group'[v] = IF req[r].replaces THEN None ELSE g

\* A group gets the range that was asked for (assign_range), and loses what the page
\* showed to be replaced.
THEOREM GroupsAreAsAsked == Spec => RegroupedAsAsked
<1>1. IInv /\ [Next]_vars => [AsAsked]_vars
  <2> SUFFICES ASSUME IInv, Next, NEW r \in Requests, At(r, "range"), group' # group,
                      r \notin behind, req'[r] = Done,
                      NEW v \in videos
               PROVE  LET g == IF req[r].of = None THEN r ELSE req[r].of
                          asked == Between(videos, order, req[r].from, req[r].to)
                      IN /\ v \in asked => group'[v] = g
                         /\ v \notin asked /\ group[v] # g => group'[v] = group[v]
                         /\ v \notin asked /\ group[v] = g =>
                              group'[v] = IF req[r].replaces THEN None ELSE g
    BY DEF AsAsked
  <2>1. AssignRange(r)
    <3>1. PICK s \in Requests : AssignRange(s) \/ UpdateAssets(s)
      BY DEF Next, Analyzes, Groups, Edits, AskAnalysis, ReadTracks, LoadSuggestions, Suggest,
             AskRange, AskEdit, LoadFields, Fail, Import, Reads, rows
    <3>2. req' = [req EXCEPT ![s] = Done]
      BY <3>1 DEF AssignRange, UpdateAssets, Commits, Goes
    <3>3. req[r].at = "range" /\ Done.at = "done"
      BY DEF At, Done
    <3>4. s = r
      BY <3>2, <3>3 DEF IInv, TypeOK
    <3> QED BY <3>1, <3>3, <3>4 DEF UpdateAssets, At
  <2> PICK q : q = req[r]
    OBVIOUS
  <2> PICK g : g = IF q.of = None THEN r ELSE q.of
    OBVIOUS
  <2> DEFINE asked == Between(videos, order, q.from, q.to)
  <2>2. g = GroupOf(r) /\ g # None
    BY EditorialAssumption DEF GroupOf
  <2>3. /\ DOMAIN q.seen = videos /\ \A u \in videos : q.seen[u] = group[u]
        /\ q.range = asked
    BY DEF At, IInv, Current
  <2>4. Asked(r) = asked
    BY <2>3 DEF Asked
\* A group that is made now had nothing in it.
  <2>5. q.of = None => q.replaces /\ group[v] # g
    <3>1. Made(group[v], req) /\ req[r].at = "range"
      BY DEF At, IInv, TypeOK
    <3>2. group[v] # r
      BY <2>2, <3>1, EditorialAssumption DEF Made
    <3>3. q.of = None => q.replaces
      BY <3>1 DEF IInv, Asks
    <3> QED BY <3>2, <3>3
  <2>6. group'[v] = IF v \in Enters(r) THEN g ELSE IF v \in Leaves(r) THEN None ELSE group[v]
    BY <2>1, <2>2 DEF AssignRange, IInv, TypeOK
  <2>7. v \in Enters(r) <=> v \in asked /\ group[v] # g
    BY <2>2, <2>3, <2>4 DEF Enters
  <2>8. v \in Leaves(r) <=> q.of # None /\ q.replaces /\ group[v] = g /\ v \notin asked
    BY <2>3, <2>4 DEF Leaves
  <2> HIDE DEF asked
  <2>9. /\ v \in asked => group'[v] = g
        /\ v \notin asked /\ group[v] # g => group'[v] = group[v]
        /\ v \notin asked /\ group[v] = g => group'[v] = IF q.replaces THEN None ELSE g
    BY <2>5, <2>6, <2>7, <2>8
  <2> QED BY <2>9 DEF asked
<1> QED BY <1>1, EditorialInvariant, PTL DEF Spec, RegroupedAsAsked, AsAsked

-----------------------------------------------------------------------------
(* The ranking *)

Holding == {"enqueue", "leave", "start"}
AtWork == {"begin", "leave", "start", "score"}
JobFields == {"status", "profile", "weights"}

\* A result is computed of this row of the inputs.
Computed(result, of) == result.people = of.people /\ result.technical \in {of.thumb, None}

\* A request that has not added its job has none.  It holds the lock from its question to
\* its answer, and what it found is so.
Awaits(r, q) ==
  /\ q.at \in {"idle", "enqueue"} => job[r].status = "ABSENT"
  /\ q.at \in Holding <=> writer = r
  /\ q.at = "enqueue" => q.found = ActiveOf(q.profile)

\* A run has a job; one that is about to begin it has the lock, and it is pending; one that
\* has begun it has scored what it has of the inputs it began with.
Works(q) ==
  /\ q.at \in AtWork => q.job \in Requests /\ job[q.job].status # "ABSENT"
  /\ q.at = "start" => job[q.job].status = "PENDING"
  /\ q.at = "score" =>
       /\ job[q.job].status # "PENDING"
       /\ DOMAIN q = {"at", "job", "source", "results"}
       /\ DOMAIN q.results \subseteq Videos
       /\ \A v \in DOMAIN q.results : Computed(q.results[v], q.source[v])

\* A row is as it was added, but for its status; a complete one has all results, each of
\* the inputs that it is signed with.
Ranked(j) ==
  /\ "status" \in DOMAIN job[j]
  /\ job[j].status # "ABSENT" => JobFields \subseteq DOMAIN job[j]
  /\ job[j].status = "COMPLETE" =>
       /\ DOMAIN job[j].results = Videos
       /\ \A v \in Videos : Computed(job[j].results[v], job[j].signature[v])

OneActive ==
  \A j, k \in Requests :
    job[j].status \in Active /\ job[k].status \in Active /\ job[j].profile = job[k].profile => j = k

OneScores ==
  \A r, s \in Requests : At(r, "score") /\ At(s, "score") /\ req[r].job = req[s].job => r = s

Down == ~up => \A r \in Requests : req[r].at \in {"idle", "done"}

ScoresInv ==
  /\ DOMAIN job = Requests /\ DOMAIN req = Requests
  /\ \A r \in Requests : Awaits(r, req[r]) /\ Works(req[r])
  /\ \A j \in Requests : Ranked(j)
  /\ OneActive
  /\ OneScores
  /\ Down

-----------------------------------------------------------------------------
(* What a step leaves alone *)

LEMMA LockIs ==
  /\ None \notin Requests /\ None \notin Contents
  /\ \A r \in Requests : None # r
BY ScoresAssumption

\* Whoever works does so while the server is up.
LEMMA WorkIsUp ==
  ASSUME ScoresInv, NEW r \in Requests, req[r].at \notin {"idle", "done"}
  PROVE  up
BY DEF ScoresInv, Down

\* One run goes on, and no row changes.
LEMMA OneMoves ==
  ASSUME ScoresInv, NEW r \in Requests, NEW q, req' = [req EXCEPT ![r] = q],
         up, UNCHANGED <<job, up>>,
         \A s \in Requests \ {r} : writer' = s <=> writer = s,
         Awaits(r, q)', Works(q)',
         q.at = "score" => req[r].at = "score" /\ q.job = req[r].job
  PROVE  ScoresInv'
<1>1. \A s \in Requests : req'[s] = IF s = r THEN q ELSE req[s]
  BY DEF ScoresInv
<1>2. ASSUME NEW s \in Requests PROVE Awaits(s, req[s])' /\ Works(req[s])'
  <2>1. CASE s = r
    BY <1>1, <2>1
  <2>2. CASE s # r
    <3>1. req'[s] = req[s] /\ Awaits(s, req[s]) /\ Works(req[s])
      BY <1>1, <2>2 DEF ScoresInv
    <3> QED BY <2>2, <3>1 DEF Awaits, Works, ActiveOf
  <2> QED BY <2>1, <2>2
<1>3. \A j \in Requests : Ranked(j)'
  BY DEF ScoresInv, Ranked
<1>4. OneActive'
  BY DEF ScoresInv, OneActive
<1>5. OneScores'
  BY <1>1 DEF ScoresInv, OneScores, At
<1>6. Down'
  BY DEF Down
<1>7. DOMAIN job' = Requests /\ DOMAIN req' = Requests
  BY DEF ScoresInv
<1> QED BY <1>2, <1>3, <1>4, <1>5, <1>6, <1>7 DEF ScoresInv

\* A run ends, and no row changes: it lets go of the lock.
LEMMA OneEnds ==
  ASSUME ScoresInv, NEW r \in Requests, Ends(r), Frees(r), req[r].at \notin {"idle", "done"},
         UNCHANGED <<job, up>>
  PROVE  ScoresInv'
<1>1. PICK q : q = [at |-> "done", job |-> req[r].job] /\ req' = [req EXCEPT ![r] = q]
  BY DEF Ends, Goes
<1>2. up
  BY WorkIsUp
<1>3. writer' # r /\ \A s \in Requests \ {r} : writer' = s <=> writer = s
  BY LockIs DEF Frees
<1>4. q.at = "done"
  BY <1>1
<1>5. Awaits(r, q)' /\ Works(q)'
  BY <1>3, <1>4 DEF Awaits, Works, Holding, AtWork
<1> QED BY <1>1, <1>2, <1>3, <1>4, <1>5, OneMoves

\* Rows that get another status and nothing else.
LEMMA StatusIs ==
  ASSUME ScoresInv, NEW j \in Requests, NEW status
  PROVE  LET jobs == [job EXCEPT ![j].status = status]
         IN /\ DOMAIN jobs = Requests
            /\ jobs[j].status = status /\ DOMAIN jobs[j] = DOMAIN job[j]
            /\ \A f \in DOMAIN job[j] \ {"status"} : jobs[j][f] = job[j][f]
            /\ \A k \in Requests \ {j} : jobs[k] = job[k]
BY DEF ScoresInv, Ranked

-----------------------------------------------------------------------------
(* The inductive invariant *)

LEMMA ScoresBegin ==
  ASSUME ScoresInit
  PROVE  ScoresInv
<1>1. \A r \in Requests : req[r].at = "idle" /\ job[r] = Absent
  BY DEF ScoresInit, NoRun
<1>2. \A j \in Requests : job[j].status = "ABSENT" /\ "status" \in DOMAIN job[j]
  BY <1>1 DEF Absent
<1>3. \A r \in Requests : Awaits(r, req[r]) /\ Works(req[r])
  BY <1>1, <1>2, LockIs DEF Awaits, Works, Holding, AtWork, ScoresInit
<1>4. OneActive /\ OneScores /\ Down /\ \A j \in Requests : Ranked(j)
  BY <1>1, <1>2 DEF OneActive, OneScores, Down, Ranked, Active, At
<1> QED BY <1>3, <1>4 DEF ScoresInit, ScoresInv

LEMMA PostKeeps ==
  ASSUME ScoresInv, NEW r \in Requests, Post(r)
  PROVE  ScoresInv'
<1>1. PICK p \in Profiles :
        req' = [req EXCEPT ![r] = [at |-> "enqueue", job |-> None, profile |-> p,
                                   weights |-> weights[p], found |-> ActiveOf(p)]]
  BY DEF Post, Goes
<1>2. up /\ req[r].at = "idle" /\ writer = None /\ writer' = r /\ UNCHANGED <<job, up>>
  BY DEF Post, At, Immediate
<1>3. PICK q : /\ req' = [req EXCEPT ![r] = q]
               /\ q = [at |-> "enqueue", job |-> None, profile |-> p,
                       weights |-> weights[p], found |-> ActiveOf(p)]
  BY <1>1
<1>4. q.at = "enqueue" /\ q.profile = p /\ q.found = ActiveOf(p)
  BY <1>3
<1>5. job[r].status = "ABSENT"
  BY <1>2 DEF ScoresInv, Awaits
<1>6. Awaits(r, q)' /\ Works(q)'
  BY <1>2, <1>4, <1>5 DEF Awaits, Works, Holding, AtWork, ActiveOf
<1>7. \A s \in Requests \ {r} : writer' = s <=> writer = s
  BY <1>2, LockIs
<1> QED BY <1>2, <1>3, <1>4, <1>6, <1>7, OneMoves

LEMMA BeginKeeps ==
  ASSUME ScoresInv, NEW r \in Requests, Begin(r)
  PROVE  ScoresInv'
<1> DEFINE at == IF job[req[r].job].status = "PENDING" THEN "start" ELSE "leave"
<1>1. PICK q : /\ req' = [req EXCEPT ![r] = q]
               /\ q = [at |-> at, job |-> req[r].job, source |-> row]
  BY DEF Begin, Goes
<1>2. req[r].at = "begin" /\ writer = None /\ writer' = r /\ UNCHANGED <<job, up>>
  BY DEF Begin, At, Immediate
<1>3. /\ req[r].job \in Requests /\ job[req[r].job].status # "ABSENT"
  BY <1>2 DEF ScoresInv, Works, AtWork
<1>4. /\ q.at \in {"start", "leave"} /\ q.job = req[r].job
      /\ q.at = "start" => job[q.job].status = "PENDING"
  BY <1>1
<1>5. Awaits(r, q)' /\ Works(q)'
  BY <1>2, <1>3, <1>4 DEF Awaits, Works, Holding, AtWork
<1>6. up /\ \A s \in Requests \ {r} : writer' = s <=> writer = s
  BY <1>2, LockIs, WorkIsUp
<1> QED BY <1>1, <1>2, <1>4, <1>5, <1>6, OneMoves

LEMMA ScoreKeeps ==
  ASSUME ScoresInv, NEW r \in Requests, Score(r)
  PROVE  ScoresInv'
<1>1. PICK v \in Videos \ DOMAIN req[r].results, kept \in BOOLEAN :
        LET source == req[r].source[v]
            result == [people |-> source.people, technical |-> Technical(v, source),
                       motion |-> Motion(v, kept)]
        IN req' = [req EXCEPT ![r] = [req[r] EXCEPT !.results =
                     [u \in DOMAIN req[r].results \cup {v} |->
                        IF u = v THEN result ELSE req[r].results[u]]]]
  BY DEF Score, Goes
<1> DEFINE source == req[r].source[v]
           result == [people |-> source.people, technical |-> Technical(v, source),
                      motion |-> Motion(v, kept)]
           results == [u \in DOMAIN req[r].results \cup {v} |->
                         IF u = v THEN result ELSE req[r].results[u]]
<1>2. PICK q : q = [req[r] EXCEPT !.results = results] /\ req' = [req EXCEPT ![r] = q]
  BY <1>1
<1>3. req[r].at = "score" /\ UNCHANGED <<job, writer, up>>
  BY DEF Score, At
<1>4. Awaits(r, req[r]) /\ Works(req[r])
  BY DEF ScoresInv
<1>5. Computed(result, source)
  BY DEF Computed, Technical
<1>6. /\ DOMAIN results = DOMAIN req[r].results \cup {v}
      /\ \A u \in DOMAIN results : Computed(results[u], req[r].source[u])
  <2> HIDE DEF result
  <2> QED BY <1>3, <1>4, <1>5 DEF Works
<1> HIDE DEF results
<1>7. /\ DOMAIN q = {"at", "job", "source", "results"} /\ q.at = "score"
      /\ q.job = req[r].job /\ q.source = req[r].source /\ q.results = results
  BY <1>2, <1>3, <1>4 DEF Works
<1>8. Works(q)' /\ Awaits(r, q)'
  BY <1>3, <1>4, <1>6, <1>7 DEF Works, Awaits, AtWork, Holding
<1>9. up
  BY <1>3, WorkIsUp
<1> QED BY <1>2, <1>3, <1>7, <1>8, <1>9, OneMoves

\* One row is written while nobody else holds the lock, and the run that wrote it goes on.
LEMMA OneWrites ==
  ASSUME ScoresInv, NEW r \in Requests, NEW q, req' = [req EXCEPT ![r] = q],
         NEW j \in Requests, NEW new, job' = [job EXCEPT ![j] = new],
         up, UNCHANGED up, writer \in {None, r}, writer' = None,
         q.at \in {"begin", "score", "done"}, Works(q)',
         q.at = "score" =>
           \A s \in Requests \ {r} : req[s].at = "score" => req[s].job # q.job,
         job[j].status = "ABSENT" => j = r,
         new.status # "ABSENT", new.status = "PENDING" => job[j].status = "ABSENT",
         new.status \in Active =>
           \A k \in Requests \ {j} : job[k].status \in Active => job[k].profile # new.profile,
         Ranked(j)'
  PROVE  ScoresInv'
<1>1. \A s \in Requests : req'[s] = IF s = r THEN q ELSE req[s]
  BY DEF ScoresInv
<1>2. \A k \in Requests : job'[k] = IF k = j THEN new ELSE job[k]
  BY DEF ScoresInv
<1>3. ASSUME NEW s \in Requests PROVE Awaits(s, req[s])' /\ Works(req[s])'
  <2>1. CASE s = r
    BY <1>1, <2>1, LockIs DEF Awaits, Holding
  <2>2. CASE s # r
    <3>1. req'[s] = req[s] /\ Awaits(s, req[s]) /\ Works(req[s])
      BY <1>1, <2>2 DEF ScoresInv
    <3>2. writer # s /\ writer' # s
      BY <2>2, LockIs
    <3>3. req[s].at \notin Holding
      BY <3>1, <3>2 DEF Awaits
    <3>4. Awaits(s, req[s])'
      BY <1>2, <2>2, <3>1, <3>2, <3>3 DEF Awaits, Holding
    <3>5. Works(req[s])'
      BY <1>2, <3>1, <3>3 DEF Works, Holding, AtWork
    <3> QED BY <3>1, <3>4, <3>5
  <2> QED BY <2>1, <2>2
<1>4. \A k \in Requests : Ranked(k)'
  BY <1>2 DEF ScoresInv, Ranked
<1>5. OneActive'
  BY <1>2 DEF ScoresInv, OneActive
<1>6. OneScores'
  BY <1>1 DEF ScoresInv, OneScores, At
<1>7. Down'
  BY DEF Down
<1>8. DOMAIN job' = Requests /\ DOMAIN req' = Requests
  BY DEF ScoresInv
<1> QED BY <1>1, <1>3, <1>4, <1>5, <1>6, <1>7, <1>8 DEF ScoresInv

LEMMA EnqueueKeeps ==
  ASSUME ScoresInv, NEW r \in Requests, Enqueue(r)
  PROVE  ScoresInv'
<1>1. /\ req[r].at = "enqueue" /\ writer = r /\ writer' = None /\ up' = up
      /\ req[r].found = ActiveOf(req[r].profile) /\ job[r].status = "ABSENT"
  BY LockIs DEF Enqueue, At, Frees, ScoresInv, Awaits, Holding
<1>2. up
  BY <1>1, WorkIsUp
<1>3. ASSUME NEW j \in req[r].found, UNCHANGED job, Goes(r, [at |-> "begin", job |-> j])
      PROVE  ScoresInv'
  <2>1. PICK q : q = [at |-> "begin", job |-> j] /\ req' = [req EXCEPT ![r] = q]
    BY <1>3 DEF Goes
  <2>2. q.at = "begin" /\ q.job = j
    BY <2>1
  <2>3. j \in Requests /\ job[j].status \in Active
    BY <1>1 DEF ActiveOf
  <2>4. Awaits(r, q)' /\ Works(q)'
    BY <1>1, <1>3, <2>2, <2>3, LockIs DEF Awaits, Works, Holding, AtWork, Active
  <2>5. \A s \in Requests \ {r} : writer' = s <=> writer = s
    BY <1>1, LockIs
  <2> QED BY <1>1, <1>2, <1>3, <2>1, <2>2, <2>4, <2>5, OneMoves
<1>4. ASSUME req[r].found = {}, Goes(r, [at |-> "begin", job |-> r]),
             job' = [job EXCEPT ![r] = [status |-> "PENDING", profile |-> req[r].profile,
                                        weights |-> req[r].weights]]
      PROVE  ScoresInv'
  <2>1. PICK q : q = [at |-> "begin", job |-> r] /\ req' = [req EXCEPT ![r] = q]
    BY <1>4 DEF Goes
  <2>2. PICK new : /\ new = [status |-> "PENDING", profile |-> req[r].profile,
                             weights |-> req[r].weights]
                   /\ job' = [job EXCEPT ![r] = new]
    BY <1>4
  <2>3. q.at = "begin" /\ q.job = r
    BY <2>1
  <2>4. /\ new.status = "PENDING" /\ new.profile = req[r].profile
        /\ DOMAIN new = JobFields
    BY <2>2 DEF JobFields
  <2>5. job'[r] = new
    BY <2>2 DEF ScoresInv
  <2>6. Ranked(r)' /\ Works(q)'
    BY <2>3, <2>4, <2>5 DEF Ranked, Works, AtWork, JobFields
  <2>7. \A k \in Requests \ {r} : job[k].status \in Active => job[k].profile # new.profile
    BY <1>1, <1>4, <2>4 DEF ActiveOf
  <2> QED BY <1>1, <1>2, <2>1, <2>2, <2>3, <2>4, <2>6, <2>7, OneWrites
<1> QED BY <1>3, <1>4 DEF Enqueue

LEMMA StartKeeps ==
  ASSUME ScoresInv, NEW r \in Requests, Start(r)
  PROVE  ScoresInv'
<1>1. PICK j : j = req[r].job
  OBVIOUS
<1>2. /\ req[r].at = "start" /\ writer = r /\ writer' = None /\ up' = up
      /\ j \in Requests /\ job[j].status = "PENDING"
  BY <1>1, LockIs DEF Start, At, Frees, ScoresInv, Awaits, Works, Holding, AtWork
<1>3. PICK q : /\ q = [at |-> "score", job |-> j, source |-> req[r].source,
                       results |-> [v \in {} |-> 0]]
               /\ req' = [req EXCEPT ![r] = q]
  BY <1>1 DEF Start, Goes
<1>4. PICK new : new = [job[j] EXCEPT !.status = "RUNNING"] /\ job' = [job EXCEPT ![j] = new]
  BY <1>1 DEF Start
<1>5. Ranked(j)
  BY <1>2 DEF ScoresInv
<1>6. /\ new.status = "RUNNING" /\ DOMAIN new = DOMAIN job[j]
      /\ new.profile = job[j].profile
  BY <1>2, <1>4, <1>5 DEF Ranked, JobFields
<1>7. job'[j] = new
  BY <1>2, <1>4 DEF ScoresInv
<1>8. /\ q.at = "score" /\ q.job = j /\ DOMAIN q.results = {}
      /\ DOMAIN q = {"at", "job", "source", "results"}
  BY <1>3
<1>9. Ranked(j)'
  BY <1>2, <1>5, <1>6, <1>7 DEF Ranked
<1>10. Works(q)'
  BY <1>2, <1>6, <1>7, <1>8 DEF Works
<1>11. \A s \in Requests \ {r} : req[s].at = "score" => req[s].job # q.job
  BY <1>2, <1>8 DEF ScoresInv, Works
<1>12. \A k \in Requests \ {j} : job[k].status \in Active => job[k].profile # new.profile
  BY <1>2, <1>6 DEF ScoresInv, OneActive, Active
<1>13. up
  BY <1>2, WorkIsUp
<1> QED BY <1>2, <1>3, <1>4, <1>6, <1>8, <1>9, <1>10, <1>11, <1>12, <1>13, OneWrites

LEMMA FinishKeeps ==
  ASSUME ScoresInv, NEW r \in Requests, Finish(r)
  PROVE  ScoresInv'
<1>1. PICK j : j = req[r].job
  OBVIOUS
<1>2. /\ req[r].at = "score" /\ writer = None /\ writer' = None /\ up' = up
      /\ DOMAIN req[r].results = Videos
  BY DEF Finish, At
<1>3. /\ Works(req[r]) /\ j \in Requests /\ job[j].status # "ABSENT"
  BY <1>1, <1>2 DEF ScoresInv, Works, AtWork
<1>4. PICK q : q = [at |-> "done", job |-> req[r].job] /\ req' = [req EXCEPT ![r] = q]
  BY DEF Finish, Ends, Goes
<1>5. PICK new : /\ new = [status |-> "COMPLETE", profile |-> job[j].profile,
                           weights |-> job[j].weights, signature |-> req[r].source,
                           results |-> req[r].results]
                 /\ job' = [job EXCEPT ![j] = new]
  BY <1>1 DEF Finish, Signature
<1>6. /\ new.status = "COMPLETE" /\ JobFields \subseteq DOMAIN new
      /\ new.signature = req[r].source /\ new.results = req[r].results
  BY <1>5 DEF JobFields
<1>7. job'[j] = new
  BY <1>3, <1>5 DEF ScoresInv
<1>8. \A v \in Videos : Computed(new.results[v], new.signature[v])
  BY <1>2, <1>3, <1>6 DEF Works
<1>9. Ranked(j)'
  BY <1>2, <1>6, <1>7, <1>8 DEF Ranked, JobFields
<1>10. q.at = "done" /\ Works(q)'
  BY <1>4 DEF Works, AtWork
<1>11. up
  BY <1>2, WorkIsUp
<1> QED BY <1>2, <1>3, <1>4, <1>5, <1>6, <1>9, <1>10, <1>11, OneWrites DEF Active

LEMMA RaiseKeeps ==
  ASSUME ScoresInv, NEW r \in Requests, Raise(r)
  PROVE  ScoresInv'
<1>1. /\ req[r].at \in {"begin", "start", "score"} /\ up' = up /\ Frees(r) /\ Ends(r)
  BY DEF Raise, Running
<1>2. CASE UNCHANGED job
  BY <1>1, <1>2, OneEnds
<1>3. CASE writer \in {None, r} /\ job' = [job EXCEPT ![req[r].job].status = "FAILED"]
  <2>1. PICK j : j = req[r].job
    OBVIOUS
  <2>2. j \in Requests /\ job[j].status # "ABSENT"
    BY <1>1, <2>1 DEF ScoresInv, Works, AtWork
  <2>3. PICK q : q = [at |-> "done", job |-> req[r].job] /\ req' = [req EXCEPT ![r] = q]
    BY <1>1 DEF Ends, Goes
  <2>4. PICK new : new = [job[j] EXCEPT !.status = "FAILED"] /\ job' = [job EXCEPT ![j] = new]
    BY <1>3, <2>1
  <2>5. Ranked(j)
    BY <2>2 DEF ScoresInv
  <2>6. new.status = "FAILED" /\ DOMAIN new = DOMAIN job[j] /\ job'[j] = new
    BY <2>2, <2>4, <2>5 DEF Ranked, ScoresInv
  <2>7. Ranked(j)'
    BY <2>2, <2>5, <2>6 DEF Ranked
  <2>8. q.at = "done" /\ Works(q)'
    BY <2>3 DEF Works, AtWork
  <2>9. up /\ writer' = None
    BY <1>1, <1>3, WorkIsUp DEF Frees
  <2> QED BY <1>1, <1>3, <2>2, <2>3, <2>4, <2>6, <2>7, <2>8, <2>9, OneWrites DEF Active
<1> QED BY <1>2, <1>3 DEF Raise, MayWrite

LEMMA StopKeeps ==
  ASSUME ScoresInv, Stop
  PROVE  ScoresInv'
<1>1. /\ ~up' /\ writer' = None /\ UNCHANGED job /\ DOMAIN req' = Requests
      /\ \A r \in Requests : req'[r].at \in {"idle", "done"}
                             /\ (req'[r].at = "idle" => req[r].at = "idle")
  BY DEF Stop, At
<1>2. ASSUME NEW r \in Requests PROVE Awaits(r, req[r])' /\ Works(req[r])'
  BY <1>1, LockIs DEF ScoresInv, Awaits, Works, Holding, AtWork
<1>3. \A j \in Requests : Ranked(j)'
  BY <1>1 DEF ScoresInv, Ranked
<1>4. OneActive' /\ OneScores' /\ Down'
  BY <1>1 DEF ScoresInv, OneActive, OneScores, Down, At
<1> QED BY <1>1, <1>2, <1>3, <1>4 DEF ScoresInv

LEMMA RestartKeeps ==
  ASSUME ScoresInv, Restart
  PROVE  ScoresInv'
<1>1. ~up /\ up' /\ UNCHANGED <<req, writer>> /\ DOMAIN job' = Requests
  BY DEF Restart
<1>2. \A r \in Requests : req[r].at \in {"idle", "done"}
  BY <1>1 DEF ScoresInv, Down
<1>3. \A j \in Requests :
        \/ job'[j] = job[j] /\ job[j].status \notin Active
        \/ job'[j] = [job[j] EXCEPT !.status = "INTERRUPTED"] /\ job[j].status \in Active
  BY DEF Restart, Interrupted
<1>4. \A j \in Requests :
        /\ Ranked(j)' /\ job'[j].status \notin Active
        /\ job[j].status = "ABSENT" => job'[j].status = "ABSENT"
  BY <1>3 DEF ScoresInv, Ranked, Active
<1>5. ASSUME NEW r \in Requests PROVE Awaits(r, req[r])' /\ Works(req[r])'
  BY <1>1, <1>2, <1>4 DEF ScoresInv, Awaits, Works, Holding, AtWork
<1>6. OneActive' /\ OneScores' /\ Down'
  BY <1>1, <1>4 DEF ScoresInv, OneActive, OneScores, Down, At
<1> QED BY <1>1, <1>4, <1>5, <1>6 DEF ScoresInv

\* Nothing in the invariant is about what others change.
LEMMA OthersKeep ==
  ASSUME ScoresInv, UNCHANGED <<job, req, writer, up>>
  PROVE  ScoresInv'
<1>1. ASSUME NEW r \in Requests PROVE Awaits(r, req[r])' /\ Works(req[r])'
  BY DEF ScoresInv, Awaits, Works, ActiveOf
<1> QED BY <1>1 DEF ScoresInv, Ranked, OneActive, OneScores, Down, At

LEMMA ScoresKeep ==
  ASSUME ScoresInv, [ScoresNext]_scoresVars
  PROVE  ScoresInv'
<1>1. ASSUME NEW r \in Requests, Leave(r) PROVE ScoresInv'
  BY <1>1, OneEnds DEF Leave, At
<1>2. ASSUME NEW r \in Requests, Refuse(r) PROVE ScoresInv'
  BY <1>2, OneEnds DEF Refuse, At
<1>3. CASE \/ UNCHANGED scoresVars
           \/ \E p \in Profiles : SaveProfile(p)
           \/ \E v \in Videos : ChangeRow(v) \/ ChangeFile(v)
  BY <1>3, OthersKeep DEF scoresVars, SaveProfile, ChangeRow, ChangeFile
<1> QED
  BY <1>1, <1>2, <1>3, PostKeeps, EnqueueKeeps, BeginKeeps, StartKeeps, ScoreKeeps,
     FinishKeeps, RaiseKeeps, StopKeeps, RestartKeeps
  DEF ScoresNext, Steps

-----------------------------------------------------------------------------
(* Theorems *)

\* The inductive invariant: who holds the lock, and what runs and rows are made of.
THEOREM ScoresInvariant == ScoresSpec => []ScoresInv
<1>1. ScoresInit => ScoresInv
  BY ScoresBegin
<1>2. ScoresInv /\ [ScoresNext]_scoresVars => ScoresInv'
  BY ScoresKeep
<1> QED BY <1>1, <1>2, PTL DEF ScoresSpec

\* A ranking that is not marked as stale is of the catalog as it is.
THEOREM RankingIsCurrent == ScoresSpec => []FreshIsCurrent
<1>1. ASSUME ScoresInv PROVE FreshIsCurrent
  BY <1>1 DEF ScoresInv, Ranked, Computed, FreshIsCurrent, Stale
<1> QED BY <1>1, ScoresInvariant, PTL

\* A profile has one active job, and one run computes it.
THEOREM OneScoreJob == ScoresSpec => []OneActiveScoreJob
<1>1. ASSUME ScoresInv PROVE OneActiveScoreJob
  <2>1. ASSUME NEW p \in Profiles PROVE Cardinality(ActiveOf(p)) <= 1
    <3>1. \A j, k \in ActiveOf(p) : j = k
      BY <1>1 DEF ScoresInv, OneActive, ActiveOf
    <3>2. CASE ActiveOf(p) = {}
      BY <3>2, FS_EmptySet
    <3>3. CASE ActiveOf(p) # {}
      <4>1. PICK j : ActiveOf(p) = {j}
        BY <3>1, <3>3
      <4> QED BY <4>1, FS_Singleton
    <3> QED BY <3>2, <3>3
  <2>2. OneScores
    BY <1>1 DEF ScoresInv
  <2> QED BY <2>1, <2>2 DEF OneActiveScoreJob, OneScores
<1> QED BY <1>1, ScoresInvariant, PTL
=============================================================================
