-------------------------- MODULE MCReleaseRegistry --------------------------
(***************************************************************************)
(* The releases TLC checks ReleaseRegistry with: a cold start, a release   *)
(* compiled on it, one of another contract, and one of a target whose own  *)
(* channels are not explored.                                              *)
(***************************************************************************)
EXTENDS ReleaseRegistry

CONSTANTS cold, first, other, foreign, mine, theirs, l1

MCTargets  == {mine}
MCReleases == {cold, first, other, foreign}
MCPackages == {l1}
MCTargetOf == [r \in MCReleases |-> IF r = foreign THEN theirs ELSE mine]
MCContractOf == [r \in MCReleases |-> IF r \in {other, foreign} THEN "new" ELSE "old"]
MCPackagesOf ==
    [r \in MCReleases |-> IF r = first THEN {l1} ELSE {}]

=============================================================================
