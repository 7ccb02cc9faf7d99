------------------------------- MODULE Archive -------------------------------
(***************************************************************************)
(* What the BlackHatWorld content pipeline promises, with no gateway, no   *)
(* queue and no failures: posts get their content one by one, each once,   *)
(* content is never lost, and a worker leaves only when nothing is left.   *)
(***************************************************************************)
CONSTANTS Posts, Workers

VARIABLES
  archived,   \* posts that have their content
  quit        \* workers that have returned

avars == <<archived, quit>>

Init == archived = {} /\ quit = {}

Archive(p) ==
  /\ p \notin archived
  /\ archived' = archived \cup {p}
  /\ UNCHANGED quit

Quit(w) ==
  /\ archived = Posts
  /\ w \notin quit
  /\ quit' = quit \cup {w}
  /\ UNCHANGED archived

Next ==
  \/ \E p \in Posts : Archive(p)
  \/ \E w \in Workers : Quit(w)

Spec == Init /\ [][Next]_avars
=============================================================================
