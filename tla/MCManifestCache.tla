--------------------------- MODULE MCManifestCache ---------------------------
(* Two devices of two client versions, and of one; one or two writers.       *)
EXTENDS ManifestCache

CONSTANTS d1, d2, w1, w2, verA, verB, pathA, c1, c2

MCDevice == {d1, d2}
MCOneDevice == {d1}
MCWriter == {w1, w2}
MCOneWriter == {w1}
MCVersion == {verA, verB}
MCOneVersion == {verA}
MCVersionOf == [d \in MCDevice |-> IF d = d1 THEN verA ELSE verB]
MCOneVersionOf == [d \in MCOneDevice |-> verA]
MCPath == {pathA}
MCContent == {c1, c2}
=============================================================================
