--------------------------- MODULE MCRequestServing ---------------------------
(***************************************************************************)
(* The values TLC checks RequestServing with: a release compiled with two  *)
(* layers, and the cold start it replaced.                                 *)
(***************************************************************************)
EXTENDS RequestServing

CONSTANTS cold, compiled

MCReleases == {cold, compiled}
MCLayersOf == [r \in MCReleases |-> IF r = compiled THEN {1, 2} ELSE {}]
MCCached   == MCReleases
OneInput   == {1}
OneVersion == {1}
Versions12 == {1, 2}

=============================================================================
