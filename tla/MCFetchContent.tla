--------------------------- MODULE MCFetchContent ---------------------------
(***************************************************************************)
(* Instances of FetchContent for TLC.                                      *)
(***************************************************************************)
EXTENDS FetchContent

OneLimit == {3}
TwoLimits == {2, 5}
AllOfThem == {6}
=============================================================================
