------------------------------ MODULE MCOrganize ------------------------------
(* Runs on one card; a trip of the old scheme that lists what the card holds, or a new one. *)
EXTENDS Organize

CONSTANTS r1, c1, poi1, poi2

MCCardOf == [r \in Runs |-> c1]
MCPoiOf == [r \in Runs |-> IF r = r1 THEN NoPoi ELSE poi2]
\* A video and its SRT.
MCPrimaryOf == <<1, 1>>
MCData == <<<<0, 1>>, <<0>>>>
MCFirstData == [c \in {c1} |-> MCData]
MCListed(s) == File(Path(poi2, c1, s, MCData[PrimaryOf[s]]), MCData[s])
MCFirstManifests ==
  {NoManifest, [scheme |-> "legacy", assets |-> {MCListed(s) : s \in Slots}]}
=============================================================================
