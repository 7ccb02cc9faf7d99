------------------------------ MODULE BidsQueue ------------------------------
(***************************************************************************)
(* The gateway's work list on its own, with requests in any order: who     *)
(* asks, and why an id is removed, are left to module Gateway.  The        *)
(* question here is how long an id can wait in the queue.                  *)
(***************************************************************************)
EXTENDS WorkQueue

VARIABLE waited     \* history: get_black calls since the id was last handed out

queueVars == <<BIDS, waited>>

\* service::init with the ids that some database state is missing.
Loaded(missing) == BIDS \in SortedDesc(missing)

QueueInit ==
  /\ \E missing \in SUBSET Posts : Loaded(missing)
  /\ waited = [p \in Posts |-> 0]

\* get_black
GetBlack ==
  /\ BIDS' = Rotated(BIDS)
  /\ waited' = [p \in Posts |->
                  IF p \in Ids(BIDS) \ Ids(Batch(BIDS)) THEN waited[p] + 1 ELSE 0]

\* remove(&BIDS, id), by whichever handler has inserted the id
RemoveOf(id) ==
  /\ BIDS' = RemoveId(BIDS, id)
  /\ waited' = [waited EXCEPT ![id] = 0]

QueueNext == GetBlack \/ \E id \in Posts : RemoveOf(id)

QueueSpec == QueueInit /\ [][QueueNext]_queueVars

-----------------------------------------------------------------------------
(* Properties.                                                             *)

\* Every variable has its type, and only an id in the queue waits: a removal
\* takes the id it is for and no other (service.rs 16-21).
QueueTypeOK ==
  /\ BIDS \in Seq(Posts)
  /\ waited \in [Posts -> Nat]
  /\ \A p \in Posts \ Ids(BIDS) : waited[p] = 0

\* Each position of the queue pays for one call: a get_black moves an id that
\* it does not hand out at least one position to the front, and no removal
\* moves it back (service.rs 16-21, 36-41).
WaitPlusPosition ==
  \A i \in DOMAIN BIDS : waited[BIDS[i]] + i <= Cardinality(Posts)

\* An id that stays in the queue is handed out at least once in any
\* Cardinality(Posts) calls of get_black, whatever is removed in between: no
\* batch of failing posts can keep it from the workers.
BoundedWait == \A p \in Ids(BIDS) : waited[p] < Cardinality(Posts)
=============================================================================
