------------------------------ MODULE OwnedWork ------------------------------
(***************************************************************************)
(* What the job table promises to whoever looks at it, with the leases,    *)
(* tokens, revisions and clocks that keep the promise left out: work is    *)
(* published, taken by one worker that holds nothing else, ended by its    *)
(* owner or taken back, and what is finished stays finished.  The ingest   *)
(* shown to the operator is VERIFIED for exactly the work that was done.   *)
(*                                                                         *)
(* JobLease implements this specification (JobLease!WorkSpec).             *)
(***************************************************************************)
CONSTANTS
  Workers,     \* who may own work
  NoWorker,    \* the owner of work that nobody owns
  Works,       \* the units of work
  Shown        \* the works whose completion the operator sees

VARIABLES
  phase,       \* phase[x]: where work x stands
  owner,       \* owner[x]: who owns it
  verified     \* the shown works presented as VERIFIED

vars == <<phase, owner, verified>>

Init ==
  /\ phase = [x \in Works |-> "absent"]
  /\ owner = [x \in Works |-> NoWorker]
  /\ verified = {}

Publish(x) ==
  /\ phase[x] = "absent"
  /\ phase' = [phase EXCEPT ![x] = "waiting"]
  /\ UNCHANGED <<owner, verified>>

\* A worker takes waiting work only while it owns nothing.
Take(x, w) ==
  /\ phase[x] = "waiting"
  /\ \A y \in Works : owner[y] # w
  /\ phase' = [phase EXCEPT ![x] = "owned"]
  /\ owner' = [owner EXCEPT ![x] = w]
  /\ UNCHANGED verified

Finish(x) ==
  /\ phase[x] = "owned"
  /\ phase' = [phase EXCEPT ![x] = "done"]
  /\ owner' = [owner EXCEPT ![x] = NoWorker]
  /\ verified' = verified \cup ({x} \cap Shown)

GiveUp(x) ==
  /\ phase[x] = "owned"
  /\ phase' = [phase EXCEPT ![x] = "failed"]
  /\ owner' = [owner EXCEPT ![x] = NoWorker]
  /\ UNCHANGED verified

\* Owned work is taken back, several at a time.
TakeBack(S) ==
  /\ \A x \in S : phase[x] = "owned"
  /\ phase' = [x \in Works |-> IF x \in S THEN "parked" ELSE phase[x]]
  /\ owner' = [x \in Works |-> IF x \in S THEN NoWorker ELSE owner[x]]
  /\ UNCHANGED verified

Release(x) ==
  /\ phase[x] = "parked"
  /\ phase' = [phase EXCEPT ![x] = "waiting"]
  /\ UNCHANGED <<owner, verified>>

Next ==
  \/ \E x \in Works : Publish(x) \/ Finish(x) \/ GiveUp(x) \/ Release(x)
  \/ \E x \in Works, w \in Workers : Take(x, w)
  \/ \E S \in SUBSET Works : TakeBack(S)

Spec == Init /\ [][Next]_vars
=============================================================================
