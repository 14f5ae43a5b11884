------------------------- MODULE MCInteractiveCompile -------------------------
(***************************************************************************)
(* The values TLC checks InteractiveCompile with.                          *)
(***************************************************************************)
EXTENDS InteractiveCompile

OneSubmission  == {1}
ThreeSubmissions == {1, 2, 3}
TwoVersions    == {1, 2}
NoVersions     == {}
SecondVersion  == {2}
TwoCoverages   == {0, 1}
FreeAgent      == {0}
PaidAgent      == {0, 1}
OneVersion     == {1}
OneCoverage    == {1}

=============================================================================
