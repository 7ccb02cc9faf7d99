----------------------------- MODULE MCInteract -----------------------------
(***************************************************************************)
(* Instances of Interact for TLC.                                          *)
(***************************************************************************)
EXTENDS Interact, TLC

CONSTANTS b1, b2

MCBots == {b1, b2}
=============================================================================
