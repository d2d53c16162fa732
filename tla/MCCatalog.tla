----------------------------- MODULE MCCatalog -----------------------------
(* Manifests of one trip as it grows, and some that do not go with them. *)
EXTENDS Catalog, TLC

CONSTANTS a1, a2, right, wrong, said, edited

Entry(sha, verified) == [class |-> "FOTOS", sha |-> sha, verified |-> verified, words |-> said]
Photo(c) == [ORIGINAL |-> c]
Manifest(slug, name, assets) == [slug |-> slug, name |-> name, assets |-> assets]

MCManifests ==
  LET whole == Entry(Photo(right), TRUE) IN
  { Manifest("s", "n", a1 :> whole),
    Manifest("s", "n", a1 :> whole @@ a2 :> Entry(Photo(right), FALSE)),
    Manifest("s", "n", a1 :> Entry(Photo(wrong), TRUE)),
    Manifest("t", "n", a2 :> whole) }

MCSymmetry == Permutations(Importers)
=============================================================================
