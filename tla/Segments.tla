------------------------------- MODULE Segments -------------------------------
(***************************************************************************)
(* dmm-segments (cli/segments.py, segments/sidecar.py, segments/trim.py):  *)
(* from the telemetry of a video it cuts the SRT of each segment that an   *)
(* editor exported of it, and suggests a project with the stationary ends  *)
(* dropped.                                                                *)
(*                                                                         *)
(* A run plans all files of the folder first and writes them afterwards,   *)
(* each by creating it, which fails where there is one, and then filling   *)
(* it.  Meanwhile the editor exports, people put files in the folder or    *)
(* take the telemetry away, and another run may be at it.                  *)
(*                                                                         *)
(* Times count steps of a clock that is finer than what is measured; the   *)
(* thresholds of what moves are left out.                                  *)
(***************************************************************************)
EXTENDS Integers, SequencesExt

CONSTANTS
  Runners,     \* runs of dmm-segments
  Exports,     \* segments the editor may export of the video
  Project,     \* the project file of the video
  Flights,     \* what a source of telemetry may say of the video
  Step, Hold, LeadIn, MinKeep,  \* the trim rule: a bucket, and how many; times
  Tolerance,   \* how far before its cut a segment may begin
  Places,      \* where a sample may have been taken
  None, Person,
  MaxChanges   \* bound of what the editor and people do

End(flight) == Max({0} \cup {flight.samples[k].to : k \in DOMAIN flight.samples})
Segment == [from : Nat, to : Nat, begins : Nat, lasts : Nat]
Sample == [from : Nat, to : Nat, at : Places \cup {None}]

\* A segment begins where it was cut or before.  A flight: samples in time, possibly without
\* a position, and which buckets move.
ASSUME SegmentsAssumption ==
  /\ \A e \in Exports : e \in Segment /\ e.begins <= e.from /\ e.from < e.to
  /\ Flights \subseteq [samples : Seq(Sample), moves : Seq(BOOLEAN)]
  /\ \A f \in Flights :
       /\ \A k \in DOMAIN f.samples : f.samples[k].from <= f.samples[k].to
       /\ Len(f.moves) = (End(f) + Step - 1) \div Step
  /\ {Step, Hold, MinKeep} \subseteq Nat \ {0} /\ {LeadIn, Tolerance} \subseteq Nat
  /\ Person \notin Runners /\ None \notin Runners \cup Exports \cup Flights \cup {Person}
  /\ MaxChanges \in Nat

Kinds == <<"SRT", "DUMP", "MP4">>
Targets == Exports \cup {Project}

VARIABLES
  exported,  \* the segments in the folder
  source,    \* source[k]: the telemetry of kind k, or None
  file,      \* file[x]: the sidecar or project x, or NoFile
  progress,  \* progress[r]: the run r
  changes

segmentVars == <<exported, source, file, progress, changes>>

Idle == [at |-> "idle"]
NoFile == [by |-> None, content |-> None]
At(r, p) == progress[r].at = p
Goes(r, q) == progress' = [progress EXCEPT ![r] = q]

-----------------------------------------------------------------------------
(* What is computed of the telemetry *)

Located(samples) == \E k \in DOMAIN samples : samples[k].at # None

\* The SRT of the camera counts if it has a position, the others if they can be read.
Usable(k) ==
  /\ source[Kinds[k]] # None
  /\ IF Kinds[k] = "SRT" THEN Located(source[Kinds[k]].samples)
     ELSE source[Kinds[k]].samples # <<>>
Telemetry ==
  IF \E k \in DOMAIN Kinds : Usable(k)
  THEN source[Kinds[Min({k \in DOMAIN Kinds : Usable(k)})]]
  ELSE None

\* Faulty variant: a segment is taken to begin where it was cut.
BeginsAtCut(e, probed) == e.from
\* A lossless cut begins at the keyframe before it, which the duration of the file tells.
Begins(e, probed) ==
  LET begins == e.to - e.lasts IN
  IF probed /\ begins \in 0..e.from /\ e.from - begins <= Tolerance THEN begins ELSE e.from

\* The samples within the segment, clipped to it, in its own time; they keep their numbers.
Slice(samples, from, to) ==
  LET clipped == [k \in DOMAIN samples |->
                    [samples[k] EXCEPT !.from = Max({@, from}) - from, !.to = Min({@, to}) - from]]
  IN RestrictValues(clipped, LAMBDA s : s.from < s.to)

\* The buckets that begin a motion that is held.
Moving(flight) ==
  {b \in 0..(Len(flight.moves) - Hold) : \A h \in 1..Hold : flight.moves[b + h]}

Trim(flight) ==
  LET moving == Moving(flight)
      start == Min({Min(moving) * Step + LeadIn, End(flight)})
      stop == Min({(Max(moving) + Hold) * Step, End(flight)})
  IN IF moving = {} THEN None
     ELSE IF stop - start < MinKeep THEN None
     ELSE [from |-> start, to |-> stop]

Cut(from, to, selected) ==
  IF from < to THEN <<[from |-> from, to |-> to, selected |-> selected]>> ELSE <<>>

\* The dropped head, what is kept, the dropped tail.
Parts(keep, duration) ==
  Cut(0, keep.from, FALSE) \o Cut(keep.from, keep.to, TRUE) \o Cut(keep.to, duration, FALSE)

Sidecar(flight, e, probed) ==
  LET from == Begins(e, probed)
      cues == Slice(flight.samples, from, e.to)
  IN IF Located(cues) THEN [of |-> flight, probed |-> probed, cues |-> cues] ELSE None

Suggestion(flight) ==
  LET keep == Trim(flight) IN
  IF keep = None THEN None ELSE [of |-> flight, cuts |-> Parts(keep, End(flight))]

Content(x, flight, probed) ==
  IF x = Project THEN Suggestion(flight) ELSE Sidecar(flight, x, probed)

-----------------------------------------------------------------------------
(* A run *)

\* The folder is listed once; "srt" is about its segments, "suggest" about the video.
List(r) ==
  /\ At(r, "idle")
  /\ \E left \in {exported, {Project}} :
       Goes(r, [at |-> "plan", left |-> left, known |-> {}, plan |-> <<>>])
  /\ UNCHANGED <<exported, source, file, changes>>

\* In the order of their names, which is that of their times.
IsNext(x, left) ==
  x # Project => \A y \in left : x.from < y.from \/ (x.from = y.from /\ x.to <= y.to)

\* The telemetry of the video is looked for once, for the first file that needs it.
Plan(r) ==
  /\ At(r, "plan")
  /\ \E x \in progress[r].left, probed \in BOOLEAN :
       /\ IsNext(x, progress[r].left)
       /\ LET known == IF progress[r].known = {} THEN {Telemetry} ELSE progress[r].known
              flights == known \ {None}
              contents == {Content(x, f, probed) : f \in flights} \ {None}
          IN Goes(r, IF file[x] # NoFile THEN [progress[r] EXCEPT !.left = @ \ {x}]
                     ELSE [progress[r] EXCEPT
                             !.left = @ \ {x}, !.known = known,
                             !.plan = @ \o SetToSeq({[to |-> x, content |-> c] : c \in contents})])
  /\ UNCHANGED <<exported, source, file, changes>>

\* Faulty variant: what is there is opened and emptied.
OpenAny(r, x) == file' = [file EXCEPT ![x] = [by |-> r, content |-> None]]
\* A file is created, and only if there is none.
Open(r, x) ==
  IF file[x] = NoFile THEN file' = [file EXCEPT ![x] = [by |-> r, content |-> None]]
  ELSE UNCHANGED file

Create(r) ==
  /\ At(r, "plan") /\ progress[r].left = {} /\ progress[r].plan # <<>>
  /\ Open(r, Head(progress[r].plan).to)
  /\ Goes(r, [progress[r] EXCEPT !.at = IF file' = file THEN "plan" ELSE "fill",
                            !.plan = IF file' = file THEN Tail(@) ELSE @])
  /\ UNCHANGED <<exported, source, changes>>

\* The text goes to the file that was created, which a person may have saved over meanwhile,
\* or put another one in the place of.
Fill(r) ==
  /\ At(r, "fill")
  /\ LET next == Head(progress[r].plan) IN
     \/ file' = [file EXCEPT ![next.to] = [by |-> r, content |-> next.content]]
     \/ file[next.to].by = Person /\ UNCHANGED file
  /\ Goes(r, [progress[r] EXCEPT !.at = "plan", !.plan = Tail(@)])
  /\ UNCHANGED <<exported, source, changes>>

\* The report, an error, or a stop: what was created and not filled stays so.
Leave(r) ==
  /\ ~At(r, "idle")
  /\ Goes(r, Idle)
  /\ UNCHANGED <<exported, source, file, changes>>

-----------------------------------------------------------------------------
(* The others *)

Changes == changes < MaxChanges /\ changes' = changes + 1

Export(e) ==
  /\ Changes
  /\ e \notin exported /\ exported' = exported \cup {e}
  /\ UNCHANGED <<source, file, progress>>

\* Telemetry is taken away, replaced, or found.
Move(k) ==
  /\ Changes
  /\ \E new \in (Flights \cup {None}) \ {source[k]} : source' = [source EXCEPT ![k] = new]
  /\ UNCHANGED <<exported, file, progress>>

\* A person makes a sidecar or saves a project, over another one, too.
Save(x) ==
  /\ Changes
  /\ x \in exported \cup {Project}
  /\ file' = [file EXCEPT ![x] = [by |-> Person, content |-> None]]
  /\ UNCHANGED <<exported, source, progress>>

SegmentsInit ==
  /\ exported \in SUBSET Exports
  /\ source \in [{"SRT", "DUMP", "MP4"} -> Flights \cup {None}]
  /\ file = [x \in Targets |-> NoFile]
  /\ progress = [r \in Runners |-> Idle]
  /\ changes = 0

Runs(r) == List(r) \/ Plan(r) \/ Create(r) \/ Fill(r) \/ Leave(r)

SegmentsNext ==
  \/ \E r \in Runners : Runs(r)
  \/ \E e \in Exports : Export(e)
  \/ \E k \in {"SRT", "DUMP", "MP4"} : Move(k)
  \/ \E x \in Targets : Save(x)

SegmentsSpec == SegmentsInit /\ [][SegmentsNext]_segmentVars

-----------------------------------------------------------------------------
(* Properties *)

\* Where the samples say the drone was at a moment.
Where(samples, t) ==
  {samples[k].at : k \in {k \in DOMAIN samples : samples[k].from <= t /\ t < samples[k].to}}

\* At each moment of a segment its sidecar says what the telemetry says of that moment of
\* the flight.  A segment that ends where it was cut, and whose duration was measured, has
\* the moments it really has, from a keyframe before the cut on.
SidecarFits(e, s) ==
  LET near == s.probed /\ e.from - e.begins <= Tolerance
      begins == IF near THEN e.begins ELSE e.from
  IN (s.probed => e.begins + e.lasts = e.to) =>
       \A t \in 0..(e.to - begins - 1) : Where(s.cues, t) = Where(s.of.samples, begins + t)

Sustained(flight) ==
  {t \in 0..(End(flight) - 1) : \E b \in Moving(flight) : b * Step <= t /\ t < (b + Hold) * Step}

\* A moment of the flight is in the part to keep just if it lies between the first and the
\* last moment of a held motion, but for the lead-in, and each is in one part.
ProjectFits(p) ==
  \A t \in 0..(End(p.of) - 1) :
    LET over == {k \in DOMAIN p.cuts : p.cuts[k].from <= t /\ t < p.cuts[k].to} IN
    /\ Cardinality(over) = 1
    /\ (\E k \in over : p.cuts[k].selected)
         <=> Min(Sustained(p.of)) + LeadIn <= t /\ t <= Max(Sustained(p.of))

\* What was written is right for the telemetry it was made from, however the folder and the
\* telemetry change while it is planned and written.
FilesFollowTheFlight ==
  \A x \in Targets :
    file[x].content # None =>
      IF x = Project THEN ProjectFits(file[x].content) ELSE SidecarFits(x, file[x].content)

Filling(r, x) == At(r, "fill") /\ Head(progress[r].plan).to = x

\* A sidecar or project that is there is never changed but by a person or by the run that
\* made it, when that fills it: no other run writes to it, and of what a person does only a
\* save in that very moment may be lost.
NothingIsOverwritten ==
  [][\A x \in Targets :
       file[x] # NoFile /\ file'[x] # file[x] =>
         \/ changes' # changes
         \/ \E r \in Runners : file[x].by \in {r, Person} /\ Filling(r, x) /\ Fill(r)]_segmentVars
=============================================================================
