---------------------------- MODULE MCListScraper ----------------------------
(***************************************************************************)
(* Instances of ListScraper for TLC.                                       *)
(***************************************************************************)
EXTENDS ListScraper

SecondOldest == {2}
=============================================================================
