----------------------------- MODULE Derivatives -----------------------------
(***************************************************************************)
(* Thumbnails and proxies: the files of the cache, the rows that describe  *)
(* them, and the runs of dmm-derivatives that make both                    *)
(* (derivatives/service.py, cli/derivatives.py).                           *)
(*                                                                         *)
(* A run queries the catalog once.  Item by item it hashes the original,   *)
(* loads the row, keeps a derivative that is as its row says, or renders   *)
(* another under a hidden name, renames it over the old one and commits    *)
(* the row.  Originals are replaced, imports change what is available, the *)
(* cache is damaged, and a run may be stopped or overtaken at any point.   *)
(***************************************************************************)
EXTENDS Naturals

CONSTANTS
  Runners,    \* processes of dmm-derivatives
  Items,      \* the derivatives wanted: pairs of an asset and a kind
  Contents,   \* what an original may hold; a hash is the content
  Gone,       \* no such file, no such hash
  Damaged,    \* a file of the cache that is not one that was made for it
  NoRow,
  MaxRuns,    \* bound of runs begun
  MaxChanges  \* bound of changes of originals, availability and cache

Assets == {k[1] : k \in Items}

ASSUME DerivativeAssumption ==
  /\ Gone \notin Contents /\ Damaged \notin Contents \cup {Gone}
  /\ NoRow \notin [status : {"READY", "ERROR"}, source : Contents \cup {Gone},
                   output : Contents \cup {Gone}]
  /\ MaxRuns \in Nat /\ MaxChanges \in Nat

VARIABLES
  original,   \* original[a]: the file of asset a
  available,  \* available[a]: whether the catalog says AVAILABLE of it
  row,        \* row[k]: the row of derivative k
  file,       \* file[k]: from what content the file of the cache was made
  run,        \* run[g]: the run of process g
  calm,       \* history: calm[g]: nobody else has changed anything since run g began
  runs, changes

derivativeVars == <<original, available, row, file, run, calm, runs, changes>>

Idle == [at |-> "idle"]
Put(f, k, v) == [x \in DOMAIN f \cup {k} |-> IF x = k THEN v ELSE f[x]]

IsAt(g, p) == run[g].at = p
GoesOn(g, r) == run' = [run EXCEPT ![g] = r]
Step(g, p) == GoesOn(g, [run[g] EXCEPT !.at = p])
Item(g) == run[g].item

Disturbed(G) == calm' = [g \in Runners |-> g \notin G /\ calm[g]]

\* The loop goes on with the items that are left.
Onward(r) == [r EXCEPT !.at = "next", !.left = @ \ {r.item}, !.item = Gone, !.source = Gone,
                       !.loaded = NoRow, !.temp = Gone]

-----------------------------------------------------------------------------
(* A run *)

\* Assets with their originals are queried once, for all items.
Query(g) ==
  /\ IsAt(g, "idle")
  /\ runs < MaxRuns /\ runs' = runs + 1
  /\ GoesOn(g, [at |-> "next", left |-> Items, known |-> available, item |-> Gone,
                source |-> Gone, loaded |-> NoRow, temp |-> Gone, failed |-> {}])
  /\ calm' = [calm EXCEPT ![g] = TRUE]
  /\ UNCHANGED <<original, available, row, file, changes>>

\* What the session knows of the original, loaded again if a rollback has expired it.
Known(g, a) == IF a \in DOMAIN run[g].known THEN run[g].known[a] ELSE available[a]

\* The original is looked at and hashed.
Hash(g) ==
  /\ IsAt(g, "next")
  /\ \E k \in run[g].left :
       LET a == k[1]
           usable == Known(g, a) /\ original[a] # Gone
       IN GoesOn(g, [run[g] EXCEPT !.at = IF usable THEN "record" ELSE "failing", !.item = k,
                                   !.source = IF usable THEN original[a] ELSE Gone,
                                   !.known = Put(@, a, Known(g, a))])
  /\ UNCHANGED <<original, available, row, file, calm, runs, changes>>

\* Faulty variant: the row is taken at its word.
ReusesUnseen(g) ==
  LET r == row[Item(g)] IN r # NoRow /\ r.status = "READY" /\ r.source = run[g].source
\* The file is kept if its row is of this original, and it is still the file of its row.
Reuses(g) ==
  LET r == row[Item(g)] IN
  r # NoRow /\ r.status = "READY" /\ r.source = run[g].source /\ file[Item(g)] = r.output

Record(g) ==
  /\ IsAt(g, "record")
  /\ IF Reuses(g)
     THEN GoesOn(g, Onward(run[g]))
     ELSE GoesOn(g, [run[g] EXCEPT !.at = "render", !.loaded = row[Item(g)]])
  /\ UNCHANGED <<original, available, row, file, calm, runs, changes>>

\* The renderer reads the original again, as it is by now.
Render(g) ==
  /\ IsAt(g, "render")
  /\ \/ /\ original[Item(g)[1]] # Gone
        /\ GoesOn(g, [run[g] EXCEPT !.at = "replace", !.temp = original[Item(g)[1]]])
     \/ Step(g, "failing")
  /\ UNCHANGED <<original, available, row, file, calm, runs, changes>>

\* Faulty variant: that the rename failed is not noticed.
RenamedOrNot(g) ==
  /\ file' \in {file, [file EXCEPT ![Item(g)] = run[g].temp]}
  /\ Step(g, "commit")
Renamed(g) ==
  \/ /\ file' = [file EXCEPT ![Item(g)] = run[g].temp]
     /\ Step(g, "commit")
  \/ Step(g, "failing") /\ UNCHANGED file

\* What was rendered is valid, and takes the place of what was there.
Replace(g) ==
  /\ IsAt(g, "replace")
  /\ Renamed(g)
  /\ Disturbed(Runners \ {g})
  /\ UNCHANGED <<original, available, row, runs, changes>>

\* A column is written only if it differs from what was loaded.
Changed(now, loaded, new) == IF new = loaded THEN now ELSE new

MadeOf(g) ==
  LET r == row[Item(g)]
      l == run[g].loaded
  IN IF l = NoRow
     THEN [status |-> "READY", source |-> run[g].source, output |-> run[g].temp]
     ELSE [status |-> Changed(r.status, l.status, "READY"),
           source |-> Changed(r.source, l.source, run[g].source),
           output |-> Changed(r.output, l.output, run[g].temp)]

\* A row that another run has created cannot be created again: the run ends with the error.
Commit(g) ==
  /\ IsAt(g, "commit")
  /\ IF run[g].loaded = NoRow /\ row[Item(g)] # NoRow
     THEN GoesOn(g, Idle) /\ Disturbed({g}) /\ UNCHANGED row
     ELSE /\ row' = [row EXCEPT ![Item(g)] = MadeOf(g)]
          /\ GoesOn(g, Onward(run[g]))
          /\ Disturbed(Runners \ {g})
  /\ UNCHANGED <<original, available, file, runs, changes>>

\* The row of an item that failed says so, and keeps what it says of the file.
Failed(r, source) ==
  [status |-> "ERROR", source |-> source, output |-> IF r = NoRow THEN Gone ELSE r.output]

\* The session is rolled back, which expires all it has loaded, and the failure recorded.
Fail(g) ==
  /\ IsAt(g, "failing")
  /\ row' = [row EXCEPT ![Item(g)] = Failed(@, run[g].source)]
  /\ GoesOn(g, [Onward(run[g]) EXCEPT !.failed = @ \cup {Item(g)}, !.known = <<>>])
  /\ Disturbed(Runners \ {g})
  /\ UNCHANGED <<original, available, file, runs, changes>>

Report(g) ==
  /\ IsAt(g, "next") /\ run[g].left = {}
  /\ GoesOn(g, Idle)
  /\ Disturbed({g})
  /\ UNCHANGED <<original, available, row, file, runs, changes>>

Stop(g) ==
  /\ run[g].at # "idle"
  /\ GoesOn(g, Idle)
  /\ Disturbed({g})
  /\ UNCHANGED <<original, available, row, file, runs, changes>>

-----------------------------------------------------------------------------
(* The others *)

\* An original is replaced, lost or found; an import judges it; the cache is damaged.
Change ==
  /\ changes < MaxChanges /\ changes' = changes + 1
  /\ \/ \E a \in Assets, c \in Contents \cup {Gone} :
          /\ original' = [original EXCEPT ![a] = c]
          /\ UNCHANGED <<available, file>>
     \/ \E a \in Assets :
          /\ available' = [available EXCEPT ![a] = ~@]
          /\ UNCHANGED <<original, file>>
     \/ \E k \in Items :
          /\ file[k] # Gone
          /\ file' = [file EXCEPT ![k] = Damaged]
          /\ UNCHANGED <<original, available>>
  /\ Disturbed(Runners)
  /\ UNCHANGED <<row, run, runs>>

DerivativesInit ==
  /\ original \in [Assets -> Contents]
  /\ available = [a \in Assets |-> TRUE]
  /\ row = [k \in Items |-> NoRow]
  /\ file = [k \in Items |-> Gone]
  /\ run = [g \in Runners |-> Idle]
  /\ calm = [g \in Runners |-> FALSE]
  /\ runs = 0 /\ changes = 0

RunSteps(g) ==
  \/ Query(g) \/ Hash(g) \/ Record(g) \/ Render(g) \/ Replace(g) \/ Commit(g) \/ Fail(g)
  \/ Report(g) \/ Stop(g)

DerivativesNext == (\E g \in Runners : RunSteps(g)) \/ Change

DerivativesSpec == DerivativesInit /\ [][DerivativesNext]_derivativeVars

-----------------------------------------------------------------------------
(* Properties *)

\* A derivative shown as READY has a file, one that was made in whole from some content of
\* an original or was damaged by others: a run that is stopped or fails takes nothing away.
ReadyHasAFile ==
  \A k \in Items : row[k] # NoRow /\ row[k].status = "READY" => file[k] # Gone

\* After a run that nobody disturbed, the rows tell the truth, whatever stopped, failed or
\* overtaken runs and damage have left behind: what is READY is the file that its row
\* says, made for the original as it is, and what is not READY was reported as failed.
CalmRunPutsRight ==
  [][\A g \in Runners : Report(g) /\ calm[g] =>
       \A k \in Items :
         /\ row[k] # NoRow
         /\ row[k].status = "READY" <=> k \notin run[g].failed
         /\ row[k].status = "READY" => /\ available[k[1]]
                                       /\ row[k].source = original[k[1]]
                                       /\ file[k] = row[k].output]_derivativeVars
=============================================================================
