------------------------------ MODULE MCGateway ------------------------------
(***************************************************************************)
(* Instances of Gateway for TLC.                                           *)
(***************************************************************************)
EXTENDS Gateway

CONSTANTS w1, w2

MCWorkers == {w1, w2}
FourPosts == 1..4
ThreePosts == 1..3
None == {}
Smallest == {1}
=============================================================================
