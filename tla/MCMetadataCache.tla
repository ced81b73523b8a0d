--------------------------- MODULE MCMetadataCache --------------------------
(* Two zones, of which one has a foreign id of its own and both may claim a  *)
(* shared one, and a trackable of two providers.                              *)
EXTENDS MetadataCache, TLC

CONSTANTS c1, c2, z1, z2, t, own, both, p1, p2, dOwn, dBoth, dP

AllDocs == {dOwn, dBoth, dP}
AllRefs == {own, both, p1, p2}

AllDocsOf == z1 :> {dOwn, dBoth} @@ z2 :> {dBoth} @@ t :> {dP}

ZoneDocsOf == z1 :> {dOwn, dBoth}

AllRefsOf == dOwn :> {own} @@ dBoth :> {both} @@ dP :> {p1, p2}

ZonesThenTrackables == << {z1, z2}, {t} >>

ZonesOnly == << {z1} >>
=============================================================================
