----------------------------- MODULE TripRequests -----------------------------
(***************************************************************************)
(* Requests about the videos of a trip.  They write to one database, which *)
(* lets one of them write at a time (db/session.py): whoever has begun to  *)
(* write holds the write lock until he commits or rolls back, and the      *)
(* others wait for it.  What a request does is said by the modules that    *)
(* extend this one.                                                        *)
(***************************************************************************)
CONSTANTS
  Requests,  \* requests; what a request makes has its name
  Videos,    \* videos the trip may have
  Words,     \* what is said of the people in a video
  None

VARIABLES
  req,     \* req[r]: how far the request r is, and what it has loaded
  writer   \* who holds the write lock beyond a single step

At(r, s) == req[r].at = s
Goes(r, q) == req' = [req EXCEPT ![r] = q]
MayWrite(r) == writer \in {None, r}
=============================================================================
