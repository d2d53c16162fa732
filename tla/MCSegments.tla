----------------------------- MODULE MCSegments -----------------------------
(* A flight of three samples with a gap, one without positions, and two segments. *)
EXTENDS Segments, TLC

CONSTANTS here, there, r1, r2

S(from, to, at) == [from |-> from, to |-> to, at |-> at]
Flight(samples, moves) == [samples |-> samples, moves |-> moves]

MCFlights ==
  { Flight(<<S(0, 3, here), S(2, 4, None), S(5, 8, there)>>, <<FALSE, TRUE, TRUE, FALSE>>),
    Flight(<<S(0, 5, None)>>, <<FALSE, TRUE, FALSE>>) }

(* One that begins at the keyframe before its cut, and one of which the end is missing. *)
MCExports ==
  { [from |-> 2, to |-> 6, begins |-> 1, lasts |-> 5],
    [from |-> 3, to |-> 7, begins |-> 3, lasts |-> 3] }

MCSymmetry == Permutations(Runners)

(* What is computed, against what it is to be: all short tracks and all segments of them, *)
(* all flights of up to seven buckets. *)
Tracks == {<<S(a, b, here), S(c, d, x)>> : <<a, b, c, d, x>> \in
             {y \in (0..4) \X (0..4) \X (0..4) \X (0..4) \X {there, None} :
                y[1] <= y[2] /\ y[3] <= y[4]}}

ASSUME SlicesAreRight ==
  \A track \in Tracks, from \in 0..3, to \in 1..4 : from < to =>
    LET cues == Slice(track, from, to) IN
    /\ \A t \in 0..(to - from - 1) : Where(cues, t) = Where(track, from + t)
    /\ \A k \in DOMAIN cues : 0 <= cues[k].from /\ cues[k].from < cues[k].to
                               /\ cues[k].to <= to - from

ASSUME TrimsAreRight ==
  \A n \in 1..7 : \A moves \in [1..n -> BOOLEAN], short \in 0..(Step - 1) :
    LET flight == Flight(<<S(0, n * Step - short, here)>>, moves)
        p == Suggestion(flight)
    IN IF p = None
       THEN \/ Sustained(flight) = {}
            \/ Max(Sustained(flight)) + 1 - (Min(Sustained(flight)) + LeadIn) < MinKeep
       ELSE ProjectFits(p)
=============================================================================
