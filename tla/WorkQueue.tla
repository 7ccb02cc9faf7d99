------------------------------ MODULE WorkQueue ------------------------------
(***************************************************************************)
(* The work list of the BlackHatWorld gateway, and what one locked section *)
(* of blackhatworld-server/service.rs does to `BIDS`, a Mutex<Vec<i64>>:   *)
(* operators on values.  A queue is a sequence of post ids; index 0 of the *)
(* vector is index 1 here.                                                 *)
(***************************************************************************)
EXTENDS Integers, Sequences, FiniteSets

CONSTANTS
  Posts,     \* ids in blackhatworld.posts
  BATCH      \* the largest hand-out: the literal 50 of get_black

ASSUME PostsAssumption == Posts \subseteq Int /\ IsFiniteSet(Posts)
ASSUME BatchAssumption == BATCH \in Nat \ {0}

VARIABLE BIDS      \* service.rs BIDS: ids still to be handed out

\* The ids a queue holds.
Ids(q) == {q[i] : i \in DOMAIN q}

\* No id is listed twice.
NoDup(q) == \A i, j \in DOMAIN q : q[i] = q[j] => i = j

-----------------------------------------------------------------------------
(* get_black: L = min(50, ceil(len / 2)), rotate_left(L), copy the last L. *)

\* Mutant: the half rounded down.
Handout_Floor(len) == IF len \div 2 < BATCH THEN len \div 2 ELSE BATCH

\* 50.min(len.div_ceil(2))
Handout(len) == LET half == (len + 1) \div 2
                IN  IF half < BATCH THEN half ELSE BATCH

\* Mutants: the batch is copied to the back and stays at the front as well; no
\* rotation.
RotateLeft_Copies(q, l) == q \o SubSeq(q, 1, l)
RotateLeft_Not(q, l) == q

\* guard.rotate_left(l)
RotateLeft(q, l) == SubSeq(q, l + 1, Len(q)) \o SubSeq(q, 1, l)

\* guard[guard.len() - l..].to_vec()
LastOf(q, l) == SubSeq(q, Len(q) - l + 1, Len(q))

\* The vector left behind by one get_black.
Rotated(q) == RotateLeft(q, Handout(Len(q)))

\* The ids one get_black answers with.
Batch(q) == LastOf(Rotated(q), Handout(Len(q)))

-----------------------------------------------------------------------------
(* remove: the first position that holds the id, if there is one.          *)

FirstAt(q, id, i) == /\ i \in DOMAIN q
                     /\ q[i] = id
                     /\ \A j \in DOMAIN q : q[j] = id => i <= j

RemoveId(q, id) ==
  IF id \in Ids(q)
  THEN LET i == CHOOSE i \in DOMAIN q : FirstAt(q, id, i)
       IN  SubSeq(q, 1, i - 1) \o SubSeq(q, i + 1, Len(q))
  ELSE q

-----------------------------------------------------------------------------
(* get_black_ids: `select distinct id ... order by id desc`.  The result   *)
(* is the one sequence that lists the set S from its largest id down.      *)
SortedDesc(S) ==
  {q \in [1..Cardinality(S) -> S] :
      /\ Ids(q) = S
      /\ \A i, j \in 1..Cardinality(S) : i < j => q[j] < q[i]}
=============================================================================
