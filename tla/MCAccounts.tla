----------------------------- MODULE MCAccounts -----------------------------
(***************************************************************************)
(* Instances of Accounts for TLC.                                          *)
(***************************************************************************)
EXTENDS Accounts

CONSTANT none

ThreeKeys == 1..3
Conf(k) == [id |-> k, file |-> none]

\* Two accounts in either order, one of them alone, and a third configuration
\* between them that has the session file of the first.
MCConfigurations == {<<Conf(1), Conf(2)>>, <<Conf(2), Conf(1)>>, <<Conf(2)>>,
                     <<Conf(1), [id |-> 3, file |-> 1], Conf(2)>>}

ThreeRows == {"a", "b", "c"}
MCAppOf == [c \in ThreeRows |-> IF c = "c" THEN 2 ELSE 1]
=============================================================================
