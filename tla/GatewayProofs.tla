---------------------------- MODULE GatewayProofs ----------------------------
(***************************************************************************)
(* Proofs about the BlackHatWorld gateway, for every set of posts and      *)
(* workers, every batch size and any number of failures: the operators of  *)
(* WorkQueue, how long an id waits in the queue alone (BidsQueue), the     *)
(* safety of the whole pipeline (Gateway), and that it implements Archive. *)
(***************************************************************************)
EXTENDS Gateway, BidsQueue, SequenceTheorems, FiniteSetTheorems, TLAPS

-----------------------------------------------------------------------------
(* The operators of WorkQueue.                                             *)

(***************************************************************************)
(* "SAFETY: (x + 1) / 2 <= x" (service.rs 37): get_black never hands out   *)
(* more than it has, and hands out nothing only when it has nothing.       *)
(***************************************************************************)
THEOREM HandoutBounds ==
  ASSUME NEW n \in Nat
  PROVE  /\ Handout(n) \in Nat
         /\ Handout(n) <= n
         /\ n > 0 => Handout(n) >= 1
BY BatchAssumption DEF Handout

(***************************************************************************)
(* Where each id stands after one get_black.                               *)
(***************************************************************************)
LEMMA RotatedPositions ==
  ASSUME NEW S, NEW q \in Seq(S)
  PROVE  LET n == Len(q)
             l == Handout(n)
         IN  /\ Rotated(q) \in Seq(S)
             /\ Len(Rotated(q)) = n
             /\ \A i \in 1..n :
                  Rotated(q)[i] = IF i <= n - l THEN q[i + l] ELSE q[i - (n - l)]
<1> DEFINE n == Len(q)
           l == Handout(n)
           a == SubSeq(q, l + 1, n)
           b == SubSeq(q, 1, l)
<1>1. n \in Nat /\ l \in Nat /\ l <= n
  BY LenProperties, HandoutBounds
<1>2. \A i \in 1..n : q[i] \in S
  BY ElementOfSeq
<1> HIDE DEF n, l
<1>3. /\ a \in Seq(S)
      /\ Len(a) = n - l
      /\ \A i \in 1..(n - l) : a[i] = q[i + l]
  <2>1. \A i \in (l + 1)..n : q[i] \in S
    BY <1>1, <1>2
  <2>2. /\ a \in Seq(S)
        /\ Len(a) = IF l + 1 <= n THEN n - (l + 1) + 1 ELSE 0
        /\ \A i \in 1..(n - (l + 1) + 1) : a[i] = q[(l + 1) + i - 1]
    BY <1>1, <2>1, SubSeqProperties
  <2> HIDE DEF a
  <2> QED
    BY <1>1, <2>2
<1>4. /\ b \in Seq(S)
      /\ Len(b) = l
      /\ \A i \in 1..l : b[i] = q[i]
  <2>1. \A i \in 1..l : q[i] \in S
    BY <1>1, <1>2
  <2>2. /\ b \in Seq(S)
        /\ Len(b) = IF 1 <= l THEN l - 1 + 1 ELSE 0
        /\ \A i \in 1..(l - 1 + 1) : b[i] = q[1 + i - 1]
    BY <1>1, <2>1, SubSeqProperties
  <2> HIDE DEF b
  <2> QED
    BY <1>1, <2>2
<1>5. Rotated(q) = a \o b
  BY DEF Rotated, RotateLeft, n, l
<1> HIDE DEF a, b
<1>6. /\ a \o b \in Seq(S)
      /\ Len(a \o b) = n
      /\ \A i \in 1..n : (a \o b)[i] = IF i <= n - l THEN a[i] ELSE b[i - (n - l)]
  <2>1. /\ a \o b \in Seq(S)
        /\ Len(a \o b) = Len(a) + Len(b)
        /\ \A i \in 1..(Len(a) + Len(b)) :
             (a \o b)[i] = IF i <= Len(a) THEN a[i] ELSE b[i - Len(a)]
    BY <1>3, <1>4, ConcatProperties
  <2>2. Len(a) + Len(b) = n
    BY <1>1, <1>3, <1>4
  <2> QED
    BY <2>1, <2>2, <1>3
<1>7. \A i \in 1..n :
        (a \o b)[i] = IF i <= n - l THEN q[i + l] ELSE q[i - (n - l)]
  <2> TAKE i \in 1..n
  <2>1. CASE i <= n - l
    BY <2>1, <1>1, <1>3, <1>6
  <2>2. CASE ~(i <= n - l)
    <3>1. i - (n - l) \in 1..l
      BY <2>2, <1>1
    <3> QED
      BY <2>2, <3>1, <1>4, <1>6
  <2> QED
    BY <2>1, <2>2
<1> QED
  BY <1>5, <1>6, <1>7 DEF n, l

(***************************************************************************)
(* One get_black keeps the ids, and keeps them distinct.                   *)
(***************************************************************************)
LEMMA RotatedIds ==
  ASSUME NEW S, NEW q \in Seq(S)
  PROVE  /\ Ids(Rotated(q)) = Ids(q)
         /\ NoDup(q) => NoDup(Rotated(q))
<1> DEFINE n == Len(q)
           l == Handout(n)
           r == Rotated(q)
<1>1. n \in Nat /\ l \in Nat /\ l <= n
  BY LenProperties, HandoutBounds
<1>2. /\ r \in Seq(S)
      /\ Len(r) = n
      /\ \A i \in 1..n : r[i] = IF i <= n - l THEN q[i + l] ELSE q[i - (n - l)]
  BY RotatedPositions
<1>3. DOMAIN q = 1..n /\ DOMAIN r = 1..n
  BY <1>2, LenProperties
<1> HIDE DEF n, l, r
<1>4. Ids(r) \subseteq Ids(q)
  <2> SUFFICES ASSUME NEW i \in 1..n PROVE r[i] \in Ids(q)
    BY <1>3 DEF Ids
  <2>1. CASE i <= n - l
    <3>1. i + l \in 1..n
      BY <1>1, <2>1
    <3> QED
      BY <2>1, <3>1, <1>2, <1>3 DEF Ids
  <2>2. CASE ~(i <= n - l)
    <3>1. i - (n - l) \in 1..n
      BY <1>1, <2>2
    <3> QED
      BY <2>2, <3>1, <1>2, <1>3 DEF Ids
  <2> QED
    BY <2>1, <2>2
<1>5. Ids(q) \subseteq Ids(r)
  <2> SUFFICES ASSUME NEW i \in 1..n PROVE q[i] \in Ids(r)
    BY <1>3 DEF Ids
  <2>1. CASE i <= l
    <3>1. PICK k \in 1..n : k = i + (n - l)
      BY <1>1, <2>1
    <3>2. ~(k <= n - l) /\ k - (n - l) = i
      BY <1>1, <3>1
    <3>3. r[k] = q[i]
      BY <3>2, <1>2
    <3> QED
      BY <3>3, <1>3 DEF Ids
  <2>2. CASE ~(i <= l)
    <3>1. PICK k \in 1..n : k = i - l
      BY <1>1, <2>2
    <3>2. k <= n - l /\ k + l = i
      BY <1>1, <2>2, <3>1
    <3>3. r[k] = q[i]
      BY <3>2, <1>2
    <3> QED
      BY <3>3, <1>3 DEF Ids
  <2> QED
    BY <2>1, <2>2
<1>6. ASSUME NoDup(q), NEW i \in 1..n, NEW j \in 1..n, r[i] = r[j]
      PROVE  i = j
  <2> DEFINE src(k) == IF k <= n - l THEN k + l ELSE k - (n - l)
  <2>1. /\ src(i) \in 1..n /\ r[i] = q[src(i)]
        /\ src(j) \in 1..n /\ r[j] = q[src(j)]
    BY <1>1, <1>2
  <2>2. src(i) = src(j)
    BY <1>6, <2>1, <1>3 DEF NoDup
  <2> QED
    BY <2>2, <1>1
<1> QED
  BY <1>3, <1>4, <1>5, <1>6 DEF NoDup, r

(***************************************************************************)
(* The batch is the front of the queue, where the ids wait longest.        *)
(***************************************************************************)
LEMMA BatchIsFront ==
  ASSUME NEW S, NEW q \in Seq(S)
  PROVE  /\ Batch(q) \in Seq(S)
         /\ Len(Batch(q)) = Handout(Len(q))
         /\ \A i \in 1..Handout(Len(q)) : Batch(q)[i] = q[i]
<1> DEFINE n == Len(q)
           l == Handout(n)
           r == Rotated(q)
           m == n - l + 1
<1>1. n \in Nat /\ l \in Nat /\ l <= n
  BY LenProperties, HandoutBounds
<1>2. /\ r \in Seq(S)
      /\ Len(r) = n
      /\ \A i \in 1..n : r[i] = IF i <= n - l THEN q[i + l] ELSE q[i - (n - l)]
  BY RotatedPositions
<1>3. Batch(q) = SubSeq(r, m, n)
  BY <1>2 DEF Batch, LastOf
<1> HIDE DEF n, l, r
<1>4. \A i \in m..n : r[i] \in S
  <2>1. \A i \in 1..n : r[i] \in S
    BY <1>2, ElementOfSeq
  <2> QED
    BY <1>1, <2>1
<1>5. m \in Int /\ n \in Int
  BY <1>1
<1>6. /\ SubSeq(r, m, n) \in Seq(S)
      /\ Len(SubSeq(r, m, n)) = IF m <= n THEN n - m + 1 ELSE 0
      /\ \A i \in 1..(n - m + 1) : SubSeq(r, m, n)[i] = r[m + i - 1]
  BY <1>4, <1>5, SubSeqProperties
<1>7. Len(SubSeq(r, m, n)) = l
  BY <1>1, <1>6
<1>8. ASSUME NEW i \in 1..l PROVE SubSeq(r, m, n)[i] = q[i]
  <2>1. PICK k \in 1..n : k = m + i - 1
    BY <1>1
  <2>2. i \in 1..(n - m + 1) /\ ~(k <= n - l) /\ k - (n - l) = i
    BY <1>1, <2>1
  <2>3. r[k] = q[i]
    BY <2>2, <1>2
  <2> QED
    BY <2>1, <2>2, <2>3, <1>6
<1> QED
  BY <1>3, <1>6, <1>7, <1>8 DEF n, l

(***************************************************************************)
(* remove takes exactly the id out of a queue without duplicates, and      *)
(* moves no other id back.                                                 *)
(***************************************************************************)
LEMMA RemoveIdProperties ==
  ASSUME NEW S, NEW q \in Seq(S), NoDup(q), NEW id
  PROVE  /\ RemoveId(q, id) \in Seq(S)
         /\ NoDup(RemoveId(q, id))
         /\ Ids(RemoveId(q, id)) = Ids(q) \ {id}
         /\ \A j \in DOMAIN RemoveId(q, id) :
              \E k \in DOMAIN q : j <= k /\ RemoveId(q, id)[j] = q[k]
<1> DEFINE n == Len(q)
<1>1. n \in Nat /\ DOMAIN q = 1..n
  BY LenProperties
<1>2. \A i \in 1..n : q[i] \in S
  BY ElementOfSeq
<1>3. CASE id \notin Ids(q)
  <2>1. RemoveId(q, id) = q
    BY <1>3 DEF RemoveId
  <2> QED
    BY <2>1, <1>1, <1>3
<1>4. CASE id \in Ids(q)
  <2> DEFINE p == CHOOSE i \in DOMAIN q : FirstAt(q, id, i)
             a == SubSeq(q, 1, p - 1)
             b == SubSeq(q, p + 1, n)
             r == a \o b
  <2>1. PICK i \in DOMAIN q : q[i] = id
    BY <1>4 DEF Ids
  <2>2. FirstAt(q, id, i)
    BY <2>1, <1>1 DEF FirstAt, NoDup
  <2>3. p \in 1..n /\ q[p] = id
    BY <2>2, <1>1 DEF FirstAt
  <2>4. RemoveId(q, id) = r
    BY <1>4 DEF RemoveId
  <2> HIDE DEF p, n
  <2>5. /\ a \in Seq(S)
        /\ Len(a) = p - 1
        /\ \A k \in 1..(p - 1) : a[k] = q[k]
    <3>1. \A k \in 1..(p - 1) : q[k] \in S
      BY <1>1, <1>2, <2>3
    <3>2. /\ a \in Seq(S)
          /\ Len(a) = IF 1 <= p - 1 THEN p - 1 - 1 + 1 ELSE 0
          /\ \A k \in 1..(p - 1 - 1 + 1) : a[k] = q[1 + k - 1]
      BY <3>1, <2>3, <1>1, SubSeqProperties
    <3> HIDE DEF a
    <3>3. p \in Nat /\ p >= 1 /\ p - 1 - 1 + 1 = p - 1
      BY <2>3, <1>1
    <3>4. Len(a) = p - 1
      BY <3>2, <3>3
    <3>5. \A k \in 1..(p - 1) : a[k] = q[k]
      BY <3>2, <3>3
    <3> QED
      BY <3>2, <3>4, <3>5
  <2>6. /\ b \in Seq(S)
        /\ Len(b) = n - p
        /\ \A k \in 1..(n - p) : b[k] = q[p + k]
    <3>1. \A k \in (p + 1)..n : q[k] \in S
      BY <1>1, <1>2, <2>3
    <3>2. /\ b \in Seq(S)
          /\ Len(b) = IF p + 1 <= n THEN n - (p + 1) + 1 ELSE 0
          /\ \A k \in 1..(n - (p + 1) + 1) : b[k] = q[(p + 1) + k - 1]
      BY <3>1, <2>3, <1>1, SubSeqProperties
    <3> HIDE DEF b
    <3> QED
      BY <3>2, <2>3, <1>1
  <2> HIDE DEF a, b
  <2>7. /\ r \in Seq(S)
        /\ DOMAIN r = 1..(n - 1)
        /\ \A k \in 1..(n - 1) : r[k] = IF k < p THEN q[k] ELSE q[k + 1]
    <3>1. /\ r \in Seq(S)
          /\ Len(r) = Len(a) + Len(b)
          /\ \A k \in 1..(Len(a) + Len(b)) :
               r[k] = IF k <= Len(a) THEN a[k] ELSE b[k - Len(a)]
      BY <2>5, <2>6, ConcatProperties
    <3>2. Len(a) + Len(b) = n - 1
      BY <1>1, <2>3, <2>5, <2>6
    <3>3. ASSUME NEW k \in 1..(n - 1)
          PROVE  r[k] = IF k < p THEN q[k] ELSE q[k + 1]
      <4>1. CASE k < p
        BY <4>1, <1>1, <2>3, <2>5, <3>1, <3>2
      <4>2. CASE ~(k < p)
        <5>1. /\ ~(k <= p - 1)
              /\ k - (p - 1) \in 1..(n - p)
              /\ p + (k - (p - 1)) = k + 1
          BY <4>2, <1>1, <2>3
        <5>2. r[k] = b[k - (p - 1)]
          BY <5>1, <2>5, <3>1, <3>2
        <5>3. b[k - (p - 1)] = q[p + (k - (p - 1))]
          BY <5>1, <2>6
        <5> QED
          BY <4>2, <5>1, <5>2, <5>3
      <4> QED
        BY <4>1, <4>2
    <3>4. DOMAIN r = 1..(n - 1)
      BY <3>1, <3>2, LenProperties
    <3> QED
      BY <3>1, <3>3, <3>4
  <2> HIDE DEF r
  <2> DEFINE src(k) == IF k < p THEN k ELSE k + 1
  <2>8. \A k \in 1..(n - 1) :
          /\ src(k) \in 1..n
          /\ k <= src(k)
          /\ src(k) # p
          /\ r[k] = q[src(k)]
    BY <1>1, <2>3, <2>7
  <2>9. NoDup(r)
    <3> SUFFICES ASSUME NEW j \in 1..(n - 1), NEW k \in 1..(n - 1), r[j] = r[k]
                 PROVE  j = k
      BY <2>7 DEF NoDup
    <3>1. src(j) = src(k)
      BY <2>8, <1>1 DEF NoDup
    <3> QED
      BY <3>1, <1>1, <2>3
  <2>10. Ids(r) \subseteq Ids(q) \ {id}
    <3> SUFFICES ASSUME NEW k \in 1..(n - 1) PROVE r[k] \in Ids(q) \ {id}
      BY <2>7 DEF Ids
    <3>1. r[k] \in Ids(q)
      BY <2>8, <1>1 DEF Ids
    <3>2. r[k] # id
      BY <2>8, <2>3, <1>1 DEF NoDup
    <3> QED
      BY <3>1, <3>2
  <2>11. Ids(q) \ {id} \subseteq Ids(r)
    <3> SUFFICES ASSUME NEW k \in 1..n, q[k] # id PROVE q[k] \in Ids(r)
      BY <1>1 DEF Ids
    <3>1. CASE k < p
      <4>1. k \in 1..(n - 1)
        BY <3>1, <2>3, <1>1
      <4> QED
        BY <3>1, <4>1, <2>7 DEF Ids
    <3>2. CASE ~(k < p)
      <4>1. k # p
        BY <2>3
      <4>2. k - 1 \in 1..(n - 1) /\ ~(k - 1 < p) /\ k - 1 + 1 = k
        BY <3>2, <4>1, <2>3, <1>1
      <4> QED
        BY <4>2, <2>7 DEF Ids
    <3> QED
      BY <3>1, <3>2
  <2> QED
    BY <2>4, <2>7, <2>8, <2>9, <2>10, <2>11, <1>1
<1> QED
  BY <1>3, <1>4

(***************************************************************************)
(* What a fresh queue is.                                                  *)
(***************************************************************************)
LEMMA SortedDescProperties ==
  ASSUME NEW S, S \subseteq Int, IsFiniteSet(S), NEW q \in SortedDesc(S)
  PROVE  /\ q \in Seq(S)
         /\ Len(q) = Cardinality(S)
         /\ Ids(q) = S
         /\ NoDup(q)
<1>1. Cardinality(S) \in Nat
  BY FS_CardinalityType
<1>2. /\ q \in [1..Cardinality(S) -> S]
      /\ Ids(q) = S
      /\ \A i, j \in 1..Cardinality(S) : i < j => q[j] < q[i]
  BY DEF SortedDesc
<1>3. q \in Seq(S) /\ Len(q) = Cardinality(S)
  BY <1>1, <1>2
<1>4. NoDup(q)
  <2> SUFFICES ASSUME NEW i \in 1..Cardinality(S), NEW j \in 1..Cardinality(S),
                      q[i] = q[j]
               PROVE  i = j
    BY <1>2 DEF NoDup
  <2>1. q[i] \in Int /\ q[j] \in Int
    BY <1>2
  <2>2. ~(i < j) /\ ~(j < i)
    BY <1>2, <2>1
  <2> QED
    BY <2>2, <1>1
<1> QED
  BY <1>2, <1>3, <1>4

-----------------------------------------------------------------------------
(* The queue alone.                                                        *)

\* The inductive invariant: BoundedWait alone does not bound the next step.
QueueInv == QueueTypeOK /\ NoDup(BIDS) /\ WaitPlusPosition

\* The queue starts with the posts of the table, and no wait.
LEMMA QueueInitInv == QueueInit => QueueInv
<1> SUFFICES ASSUME QueueInit PROVE QueueInv
  OBVIOUS
<1>1. PICK missing \in SUBSET Posts : BIDS \in SortedDesc(missing)
  BY DEF QueueInit, Loaded
<1>2. missing \subseteq Int /\ IsFiniteSet(missing)
  BY PostsAssumption, FS_Subset
<1>3. /\ BIDS \in Seq(missing)
      /\ Len(BIDS) = Cardinality(missing)
      /\ NoDup(BIDS)
  BY <1>1, <1>2, SortedDescProperties
<1>4. BIDS \in Seq(Posts)
  BY <1>3, SeqMonotonic
<1>5. Cardinality(missing) <= Cardinality(Posts) /\ Cardinality(Posts) \in Nat
  BY PostsAssumption, FS_Subset, FS_CardinalityType
<1>6. waited = [p \in Posts |-> 0]
  BY DEF QueueInit
<1>7. WaitPlusPosition
  <2> SUFFICES ASSUME NEW i \in DOMAIN BIDS
               PROVE  waited[BIDS[i]] + i <= Cardinality(Posts)
    BY DEF WaitPlusPosition
  <2>1. /\ Len(BIDS) \in Nat
        /\ i \in 1..Len(BIDS)
        /\ BIDS[i] \in Posts
    BY <1>4, LenProperties, ElementOfSeq
  <2>2. waited[BIDS[i]] = 0
    BY <1>6, <2>1
  <2> QED
    BY <1>3, <1>5, <2>1, <2>2
<1> QED
  BY <1>3, <1>4, <1>6, <1>7 DEF QueueInv, QueueTypeOK

\* A hand-out cycles the post to the end and brings the others forward.
LEMMA GetBlackInv ==
  ASSUME QueueInv, GetBlack
  PROVE  QueueInv'
<1> DEFINE n == Len(BIDS)
           l == Handout(n)
           N == Cardinality(Posts)
<1>1. /\ BIDS \in Seq(Posts)
      /\ waited \in [Posts -> Nat]
      /\ NoDup(BIDS)
  BY DEF QueueInv, QueueTypeOK
<1>2. n \in Nat /\ DOMAIN BIDS = 1..n /\ \A i \in 1..n : BIDS[i] \in Posts
  BY <1>1, LenProperties, ElementOfSeq
<1>3. l \in Nat /\ l <= n /\ (n > 0 => l >= 1)
  BY <1>2, HandoutBounds
<1>4. N \in Nat
  BY PostsAssumption, FS_CardinalityType
<1>5. /\ BIDS' \in Seq(Posts)
      /\ Len(BIDS') = n
      /\ \A i \in 1..n :
           BIDS'[i] = IF i <= n - l THEN BIDS[i + l] ELSE BIDS[i - (n - l)]
  BY <1>1, RotatedPositions DEF GetBlack
<1>6. NoDup(BIDS')
  BY <1>1, RotatedIds DEF GetBlack
<1>7. DOMAIN BIDS' = 1..n
  BY <1>5, LenProperties
<1>8. \A i \in 1..l : BIDS[i] \in Ids(Batch(BIDS))
  <2>1. /\ Batch(BIDS) \in Seq(Posts)
        /\ Len(Batch(BIDS)) = l
        /\ \A i \in 1..l : Batch(BIDS)[i] = BIDS[i]
    BY <1>1, BatchIsFront
  <2>2. DOMAIN Batch(BIDS) = 1..l
    BY <2>1, LenProperties
  <2> HIDE DEF l
  <2> QED
    BY <2>1, <2>2 DEF Ids
<1>9. /\ waited' \in [Posts -> Nat]
      /\ \A p \in Posts : waited'[p] <= waited[p] + 1
      /\ \A p \in Posts : p \in Ids(Batch(BIDS)) => waited'[p] = 0
  BY <1>1 DEF GetBlack
<1>10. \A i \in 1..n : waited[BIDS[i]] + i <= N
  BY <1>2 DEF QueueInv, WaitPlusPosition
<1> HIDE DEF n, l, N
<1>11. ASSUME NEW i \in 1..n
       PROVE  waited'[BIDS'[i]] + i <= N
  <2>1. CASE i <= n - l
    <3>1. PICK k \in 1..n : k = i + l
      BY <1>2, <1>3, <2>1
    <3>2. BIDS'[i] = BIDS[k] /\ BIDS[k] \in Posts
      BY <1>2, <1>5, <2>1, <3>1
    <3>3. waited'[BIDS[k]] <= waited[BIDS[k]] + 1
      BY <1>9, <3>2
    <3>4. waited[BIDS[k]] + k <= N
      BY <1>10
    <3>5. waited'[BIDS[k]] \in Nat /\ waited[BIDS[k]] \in Nat
      BY <1>1, <1>9, <3>2
    <3>6. l >= 1
      BY <1>2, <1>3
    <3> QED
      BY <1>2, <1>3, <1>4, <3>1, <3>2, <3>3, <3>4, <3>5, <3>6
  <2>2. CASE ~(i <= n - l)
    <3>1. PICK k \in 1..l : k = i - (n - l)
      BY <1>2, <1>3, <2>2
    <3>2. k \in 1..n /\ BIDS'[i] = BIDS[k] /\ BIDS[k] \in Posts
      BY <1>2, <1>3, <1>5, <2>2, <3>1
    <3>3. waited'[BIDS[k]] = 0
      BY <1>8, <1>9, <3>2
    <3>4. n \in 1..n /\ BIDS[n] \in Posts
      BY <1>2
    <3>5. waited[BIDS[n]] + n <= N /\ waited[BIDS[n]] \in Nat
      BY <1>1, <1>10, <3>4
    <3> QED
      BY <1>2, <1>4, <3>2, <3>3, <3>5
  <2> QED
    BY <2>1, <2>2
<1>12. WaitPlusPosition'
  BY <1>7, <1>11 DEF WaitPlusPosition, N
<1>13. \A p \in Posts \ Ids(BIDS)' : waited'[p] = 0
  <2>1. Ids(BIDS)' = Ids(BIDS)
    BY <1>1, RotatedIds DEF GetBlack
  <2> QED
    BY <2>1 DEF GetBlack
<1> QED
  BY <1>5, <1>6, <1>9, <1>12, <1>13 DEF QueueInv, QueueTypeOK

\* A removal moves the posts behind it forward.
LEMMA RemoveOfInv ==
  ASSUME QueueInv, NEW id \in Posts, RemoveOf(id)
  PROVE  QueueInv'
<1> DEFINE N == Cardinality(Posts)
<1>1. /\ BIDS \in Seq(Posts)
      /\ waited \in [Posts -> Nat]
      /\ NoDup(BIDS)
  BY DEF QueueInv, QueueTypeOK
<1>2. /\ BIDS' \in Seq(Posts)
      /\ NoDup(BIDS')
      /\ \A j \in DOMAIN BIDS' : \E k \in DOMAIN BIDS : j <= k /\ BIDS'[j] = BIDS[k]
  BY <1>1, RemoveIdProperties DEF RemoveOf
<1>3. /\ waited' \in [Posts -> Nat]
      /\ \A p \in Posts : waited'[p] <= waited[p]
  BY <1>1 DEF RemoveOf
<1>4. N \in Nat
  BY PostsAssumption, FS_CardinalityType
<1>5. ASSUME NEW j \in DOMAIN BIDS'
      PROVE  waited'[BIDS'[j]] + j <= N
  <2>1. PICK k \in DOMAIN BIDS : j <= k /\ BIDS'[j] = BIDS[k]
    BY <1>2
  <2>2. k \in Nat /\ j \in Nat /\ BIDS[k] \in Posts
    BY <1>1, <1>2, LenProperties, ElementOfSeq
  <2>3. waited[BIDS[k]] + k <= N
    BY DEF QueueInv, WaitPlusPosition
  <2>4. /\ waited'[BIDS[k]] <= waited[BIDS[k]]
        /\ waited'[BIDS[k]] \in Nat
        /\ waited[BIDS[k]] \in Nat
    BY <1>1, <1>3, <2>2
  <2> HIDE DEF N
  <2> QED
    BY <1>4, <2>1, <2>2, <2>3, <2>4
<1>6. WaitPlusPosition'
  BY <1>5 DEF WaitPlusPosition
<1>7. \A p \in Posts \ Ids(BIDS)' : waited'[p] = 0
  <2>1. Ids(BIDS)' = Ids(BIDS) \ {id}
    BY <1>1, RemoveIdProperties DEF RemoveOf
  <2>2. waited' = [waited EXCEPT ![id] = 0]
    BY DEF RemoveOf
  <2> QED
    BY <1>1, <2>1, <2>2 DEF QueueInv, QueueTypeOK
<1> QED
  BY <1>2, <1>3, <1>6, <1>7 DEF QueueInv, QueueTypeOK

\* Every step of the queue keeps its invariant.
LEMMA QueueNextInv == QueueInv /\ [QueueNext]_queueVars => QueueInv'
<1> SUFFICES ASSUME QueueInv, [QueueNext]_queueVars PROVE QueueInv'
  OBVIOUS
<1>1. CASE GetBlack
  BY <1>1, GetBlackInv
<1>2. CASE \E id \in Posts : RemoveOf(id)
  BY <1>2, RemoveOfInv
<1>3. CASE UNCHANGED queueVars
  BY <1>3 DEF queueVars, QueueInv, QueueTypeOK, WaitPlusPosition, Ids
<1> QED
  BY <1>1, <1>2, <1>3 DEF QueueNext

\* So it holds in every state.
LEMMA QueueInvInvariant == QueueSpec => []QueueInv
BY QueueInitInv, QueueNextInv, PTL DEF QueueSpec

(***************************************************************************)
(* The queue and the waiting times are well-typed in every run.            *)
(***************************************************************************)
THEOREM QueueTypeCorrect == QueueSpec => []QueueTypeOK
<1>1. QueueInv => QueueTypeOK
  BY DEF QueueInv
<1> QED
  BY <1>1, QueueInvInvariant, PTL

(***************************************************************************)
(* Each get_black an id waits through moves it forward (service.rs 36-41). *)
(***************************************************************************)
THEOREM PositionPaysForWait == QueueSpec => []WaitPlusPosition
<1>1. QueueInv => WaitPlusPosition
  BY DEF QueueInv
<1> QED
  BY <1>1, QueueInvInvariant, PTL

(***************************************************************************)
(* No id is starved by get_black, however many posts are in the queue and  *)
(* whatever the batch size.                                                *)
(***************************************************************************)
THEOREM NoStarvation == QueueSpec => []BoundedWait
<1>1. QueueInv => BoundedWait
  <2> SUFFICES ASSUME QueueInv, NEW i \in DOMAIN BIDS
               PROVE  waited[BIDS[i]] < Cardinality(Posts)
    BY DEF BoundedWait, Ids
  <2>1. i \in Nat \ {0} /\ BIDS[i] \in Posts
    BY LenProperties, ElementOfSeq DEF QueueInv, QueueTypeOK
  <2>2. waited[BIDS[i]] \in Nat /\ Cardinality(Posts) \in Nat
    BY <2>1, PostsAssumption, FS_CardinalityType DEF QueueInv, QueueTypeOK
  <2>3. waited[BIDS[i]] + i <= Cardinality(Posts)
    BY DEF QueueInv, WaitPlusPosition
  <2> QED
    BY <2>1, <2>2, <2>3
<1> QED
  BY <1>1, QueueInvInvariant, PTL

-----------------------------------------------------------------------------
(* The gateway.                                                            *)

(***************************************************************************)
(* The inductive invariant.  NoWorkLost and QueueNoDup need each other     *)
(* (removing one position removes the id only when it is listed once),     *)
(* QuitOnlyWhenArchived needs NoWorkLost (an empty queue means nothing is  *)
(* missing), remove runs only once the row is there, and StaleOnlyInFlight *)
(* needs to know that only a failure leaves an INSERT without a handler.   *)
(***************************************************************************)
NoOrphanWithoutFault == faults = 0 => orphans = {}

InsertedIsArchived ==
  \A w \in Workers : pc[w] = "inserted" => Current(w) \in content

IInv ==
  /\ TypeOK
  /\ NoWorkLost
  /\ QueueNoDup
  /\ QuitOnlyWhenArchived
  /\ NoOrphanWithoutFault
  /\ InsertedIsArchived
  /\ StaleOnlyInFlight

-----------------------------------------------------------------------------
(* Facts used by several steps.                                            *)

\* A worker that is busy has a post in hand.
LEMMA CurrentIsPost ==
  ASSUME TypeOK, NEW w \in Workers, Busy(w)
  PROVE  Current(w) \in Posts
<1>1. works[w] \in Seq(Posts) /\ works[w] # <<>>
  BY DEF TypeOK
<1> QED
  BY <1>1, HeadTailProperties DEF Current

\* Moving on to the next id keeps workers and their ids in step.
LEMMA AdvanceTypes ==
  ASSUME TypeOK, NEW w \in Workers, Busy(w), Advance(w)
  PROVE  /\ pc' \in [Workers -> PCs]
         /\ works' \in [Workers -> Seq(Posts)]
         /\ \A v \in Workers : (Busy(v) <=> works[v] # <<>>)'
         /\ \A v \in Workers : v # w => pc'[v] = pc[v] /\ works'[v] = works[v]
         /\ pc'[w] \in {"fetch", "scrape"}
<1>1. /\ works[w] \in Seq(Posts)
      /\ works[w] # <<>>
      /\ Tail(works[w]) \in Seq(Posts)
  BY HeadTailProperties DEF TypeOK
<1>2. /\ pc' = [pc EXCEPT ![w] = IF Tail(works[w]) = <<>> THEN "fetch" ELSE "scrape"]
      /\ works' = [works EXCEPT ![w] = Tail(works[w])]
  BY DEF Advance, Goto
<1>3. pc \in [Workers -> PCs] /\ works \in [Workers -> Seq(Posts)]
  BY DEF TypeOK
<1>4. ASSUME NEW v \in Workers
      PROVE  (Busy(v) <=> works[v] # <<>>)'
  <2>1. CASE v = w
    BY <1>1, <1>2, <1>3, <2>1 DEF Busy
  <2>2. CASE v # w
    BY <1>2, <1>3, <2>2 DEF Busy, TypeOK
  <2> QED
    BY <2>1, <2>2
<1> QED
  BY <1>1, <1>2, <1>3, <1>4 DEF PCs

\* The same for a step that moves a worker without touching its ids.
LEMMA GotoTypes ==
  ASSUME TypeOK, NEW w \in Workers, Busy(w), UNCHANGED works,
         NEW l \in {"scrape", "submit", "handling", "inserted"}, Goto(w, l)
  PROVE  /\ pc' \in [Workers -> PCs]
         /\ works' \in [Workers -> Seq(Posts)]
         /\ \A v \in Workers : (Busy(v) <=> works[v] # <<>>)'
         /\ \A v \in Workers : v # w => pc'[v] = pc[v] /\ works'[v] = works[v]
         /\ pc'[w] = l
<1>1. /\ pc' = [pc EXCEPT ![w] = l]
      /\ works' = works
      /\ pc \in [Workers -> PCs]
      /\ works \in [Workers -> Seq(Posts)]
  BY DEF Goto, TypeOK
<1> QED
  BY <1>1 DEF PCs, Busy, TypeOK

\* One get_black keeps the queue's ids.
LEMMA RotatedQueue ==
  ASSUME TypeOK, QueueNoDup
  PROVE  /\ Rotated(BIDS) \in Seq(Posts)
         /\ NoDup(Rotated(BIDS))
         /\ Ids(Rotated(BIDS)) = Ids(BIDS)
BY RotatedPositions, RotatedIds DEF TypeOK, QueueNoDup

\* A fresh queue is exactly what the table is missing.
LEMMA LoadedQueue ==
  ASSUME NEW q, Load(q)
  PROVE  /\ q \in Seq(Posts)
         /\ NoDup(q)
         /\ Ids(q) = Posts \ content
<1>1. Posts \ content \subseteq Int /\ IsFiniteSet(Posts \ content)
  BY PostsAssumption, FS_Subset
<1>2. /\ q \in Seq(Posts \ content)
      /\ NoDup(q)
      /\ Ids(q) = Posts \ content
  BY <1>1, SortedDescProperties DEF Load
<1> QED
  BY <1>2, SeqMonotonic

\* What a failure does to the counter.
LEMMA FaultCounts ==
  ASSUME TypeOK, Fault
  PROVE  faults' \in 0..MaxFaults /\ faults' # 0 /\ failing' = failing
BY GatewayAssumption DEF TypeOK, Fault

-----------------------------------------------------------------------------
\* The gateway starts with all posts waiting and none stored.
LEMMA InitIInv == Init => IInv
<1> SUFFICES ASSUME Init PROVE IInv
  OBVIOUS
<1>1. BIDS \in Seq(Posts) /\ NoDup(BIDS) /\ Ids(BIDS) = Posts \ content
  BY LoadedQueue DEF Init
<1>2. TypeOK
  BY <1>1, GatewayAssumption DEF Init, TypeOK, PCs, Busy
<1> QED
  BY <1>1, <1>2 DEF Init, IInv, NoWorkLost, QueueNoDup, QuitOnlyWhenArchived,
                    NoOrphanWithoutFault, InsertedIsArchived, StaleOnlyInFlight

\* get_black, answered: an empty batch means an empty queue, which means that
\* no post is missing.
LEMMA FetchWorkIInv ==
  ASSUME IInv, NEW w \in Workers, FetchWork(w)
  PROVE  IInv'
<1> USE DEF IInv
<1>1. /\ Rotated(BIDS) \in Seq(Posts)
      /\ NoDup(Rotated(BIDS))
      /\ Ids(Rotated(BIDS)) = Ids(BIDS)
  BY RotatedQueue
<1>2. /\ up /\ pc[w] = "fetch"
      /\ BIDS' = Rotated(BIDS)
      /\ works' = [works EXCEPT ![w] = Batch(BIDS)]
      /\ pc' = [pc EXCEPT ![w] = IF Batch(BIDS) = <<>> THEN "done" ELSE "scrape"]
      /\ UNCHANGED <<up, content, orphans, faults, failing>>
  BY DEF FetchWork, Goto, NoFault
<1>3. Batch(BIDS) \in Seq(Posts) /\ Len(Batch(BIDS)) = Handout(Len(BIDS))
  BY BatchIsFront DEF TypeOK
<1>4. pc \in [Workers -> PCs] /\ works \in [Workers -> Seq(Posts)]
  BY DEF TypeOK
<1>5. ASSUME NEW v \in Workers
      PROVE  (Busy(v) <=> works[v] # <<>>)'
  <2>1. CASE v = w
    BY <1>2, <1>4, <2>1 DEF Busy
  <2>2. CASE v # w
    BY <1>2, <1>4, <2>2 DEF Busy, TypeOK
  <2> QED
    BY <2>1, <2>2
<1>6. TypeOK'
  <2>1. pc' \in [Workers -> PCs] /\ works' \in [Workers -> Seq(Posts)]
    BY <1>2, <1>3, <1>4 DEF PCs
  <2> QED
    BY <1>1, <1>2, <1>5, <2>1 DEF TypeOK
<1>7. NoWorkLost' /\ QueueNoDup'
  BY <1>1, <1>2 DEF NoWorkLost, QueueNoDup
<1>8. Batch(BIDS) = <<>> => Posts \subseteq content
  <2> SUFFICES ASSUME Batch(BIDS) = <<>> PROVE Posts \subseteq content
    OBVIOUS
  <2>1. Len(BIDS) \in Nat /\ DOMAIN BIDS = 1..Len(BIDS)
    BY LenProperties DEF TypeOK
  <2>2. Handout(Len(BIDS)) = 0
    BY <1>3
  <2>3. Len(BIDS) = 0
    BY <2>1, <2>2, HandoutBounds
  <2>4. Ids(BIDS) = {}
    BY <2>1, <2>3 DEF Ids
  <2> QED
    BY <1>2, <2>4 DEF NoWorkLost
<1>9. QuitOnlyWhenArchived'
  BY <1>2, <1>4, <1>8 DEF QuitOnlyWhenArchived
<1>10. StaleOnlyInFlight'
  <2> SUFFICES ASSUME faults = 0, NEW id \in Ids(BIDS) \cap content
               PROVE  \E v \in Workers : pc'[v] = "inserted" /\ Head(works'[v]) = id
    BY <1>1, <1>2 DEF StaleOnlyInFlight, Current
  <2>1. PICK v \in Workers : pc[v] = "inserted" /\ Head(works[v]) = id
    BY DEF StaleOnlyInFlight, Current
  <2>2. v # w
    BY <1>2, <2>1
  <2> QED
    BY <1>2, <1>4, <2>1, <2>2
<1>11. InsertedIsArchived'
  <2> SUFFICES ASSUME NEW v \in Workers, pc'[v] = "inserted"
               PROVE  Head(works'[v]) \in content
    BY <1>2 DEF InsertedIsArchived, Current
  <2>1. v # w
    BY <1>2, <1>4
  <2> QED
    BY <1>2, <1>4, <2>1 DEF InsertedIsArchived, Current
<1> QED
  BY <1>2, <1>6, <1>7, <1>9, <1>10, <1>11 DEF NoOrphanWithoutFault

\* get_black, with its answer lost.
LEMMA FetchLostIInv ==
  ASSUME IInv, NEW w \in Workers, FetchLost(w)
  PROVE  IInv'
<1>1. /\ Rotated(BIDS) \in Seq(Posts)
      /\ NoDup(Rotated(BIDS))
      /\ Ids(Rotated(BIDS)) = Ids(BIDS)
  BY RotatedQueue DEF IInv
<1>2. faults' \in 0..MaxFaults /\ faults' # 0 /\ failing' = failing
  BY FaultCounts DEF IInv, FetchLost
<1> QED
  BY <1>1, <1>2 DEF IInv, FetchLost, TypeOK, Busy, NoWorkLost, QueueNoDup,
       QuitOnlyWhenArchived, NoOrphanWithoutFault, InsertedIsArchived,
       StaleOnlyInFlight, Current

\* The steps of a worker, or of its handler, that change neither the queue nor
\* the table: where the worker goes is all that matters.
LEMMA QuietIInv ==
  ASSUME IInv, NEW w \in Workers, Busy(w),
         pc' \in [Workers -> PCs],
         works' \in [Workers -> Seq(Posts)],
         \A v \in Workers : (Busy(v) <=> works[v] # <<>>)',
         \A v \in Workers : v # w => pc'[v] = pc[v] /\ works'[v] = works[v],
         pc'[w] \notin {"done", "inserted"},
         pc[w] # "inserted" \/ faults' # 0,
         faults' \in 0..MaxFaults,
         faults' = 0 => faults = 0,
         failing' = failing,
         UNCHANGED <<up, BIDS, content>>,
         orphans' \subseteq Posts,
         orphans' = orphans \/ faults' # 0
  PROVE  IInv'
<1>1. TypeOK'
  BY DEF IInv, TypeOK
<1>2. NoWorkLost' /\ QueueNoDup'
  BY DEF IInv, NoWorkLost, QueueNoDup
<1>3. QuitOnlyWhenArchived'
  BY DEF IInv, QuitOnlyWhenArchived
<1>4. NoOrphanWithoutFault'
  BY DEF IInv, NoOrphanWithoutFault
<1>5. StaleOnlyInFlight'
  <2> SUFFICES ASSUME faults' = 0, NEW id \in Ids(BIDS) \cap content
               PROVE  \E v \in Workers : pc'[v] = "inserted" /\ Head(works'[v]) = id
    BY DEF StaleOnlyInFlight, Current
  <2>1. PICK v \in Workers : pc[v] = "inserted" /\ Head(works[v]) = id
    BY DEF IInv, StaleOnlyInFlight, Current
  <2>2. v # w
    BY <2>1
  <2> QED
    BY <2>1, <2>2
<1>6. InsertedIsArchived'
  BY DEF IInv, InsertedIsArchived, Current
<1> QED
  BY <1>1, <1>2, <1>3, <1>4, <1>5, <1>6 DEF IInv

\* A worker scrapes its post, with or without success.
LEMMA ScrapeIInv ==
  ASSUME IInv, NEW w \in Workers,
         ScrapeOk(w) \/ ScrapeWrong(w) \/ ScrapeFail(w)
  PROVE  IInv'
<1>1. TypeOK /\ Busy(w) /\ pc[w] = "scrape"
  BY DEF IInv, ScrapeOk, ScrapeWrong, ScrapeFail, Busy
<1>2. faults \in 0..MaxFaults /\ orphans \subseteq Posts
  BY <1>1 DEF TypeOK
<1>3. CASE ScrapeOk(w)
  <2>1. Goto(w, "submit") /\ UNCHANGED <<up, BIDS, content, orphans, works, faults, failing>>
    BY <1>3 DEF ScrapeOk, NoFault
  <2> QED
    BY <1>1, <1>2, <2>1, GotoTypes, QuietIInv
<1>4. CASE ScrapeWrong(w)
  <2>1. Advance(w) /\ UNCHANGED <<up, BIDS, content, orphans, faults, failing>>
    BY <1>4 DEF ScrapeWrong, NoFault
  <2> QED
    BY <1>1, <1>2, <2>1, AdvanceTypes, QuietIInv
<1>5. CASE ScrapeFail(w)
  <2>1. Advance(w) /\ Fault /\ UNCHANGED <<up, BIDS, content, orphans>>
    BY <1>5 DEF ScrapeFail
  <2> QED
    BY <1>1, <1>2, <2>1, AdvanceTypes, FaultCounts, QuietIInv
<1> QED
  BY <1>3, <1>4, <1>5

\* A worker submits a post; nothing is stored or removed yet.
LEMMA SubmitIInv ==
  ASSUME IInv, NEW w \in Workers, Submit(w)
  PROVE  IInv'
<1>1. TypeOK /\ Busy(w) /\ pc[w] = "submit"
  BY DEF IInv, Submit, Busy
<1>2. faults \in 0..MaxFaults /\ orphans \subseteq Posts
  BY <1>1 DEF TypeOK
<1>3. Goto(w, "handling") /\ UNCHANGED <<up, BIDS, content, orphans, works, faults, failing>>
  BY DEF Submit, NoFault
<1> QED
  BY <1>1, <1>2, <1>3, GotoTypes, QuietIInv

\* The answers that leave BIDS alone.
LEMMA InsertErrorIInv ==
  ASSUME IInv, NEW w \in Workers,
         InsertDuplicate(w) \/ InsertFail(w) \/ InsertLostAck(w)
  PROVE  IInv'
<1>1. TypeOK /\ Busy(w) /\ Advance(w) /\ UNCHANGED <<up, BIDS, content, orphans>>
  BY DEF IInv, InsertDuplicate, InsertFail, InsertLostAck, Busy
<1>2. faults \in 0..MaxFaults /\ orphans \subseteq Posts
  BY <1>1 DEF TypeOK
<1>3. CASE InsertDuplicate(w)
  <2>1. pc[w] = "handling" /\ UNCHANGED <<faults, failing>>
    BY <1>3 DEF InsertDuplicate, NoFault
  <2> QED
    BY <1>1, <1>2, <2>1, AdvanceTypes, QuietIInv
<1>4. CASE InsertFail(w) \/ InsertLostAck(w)
  <2>1. faults' \in 0..MaxFaults /\ faults' # 0 /\ failing' = failing
    BY <1>1, <1>4, FaultCounts DEF InsertFail, InsertLostAck
  <2> QED
    BY <1>1, <1>2, <2>1, AdvanceTypes, QuietIInv
<1> QED
  BY <1>3, <1>4

\* A connection breaks: the handler is dropped, and its INSERT may still be executed.
LEMMA DisconnectIInv ==
  ASSUME IInv, NEW w \in Workers, Disconnect(w)
  PROVE  IInv'
<1>1. TypeOK /\ Busy(w)
  BY DEF IInv, Disconnect, Busy
<1>2. Goto(w, "submit") /\ UNCHANGED <<up, BIDS, content, works>>
  BY DEF Disconnect
<1>3. faults' \in 0..MaxFaults /\ faults' # 0 /\ failing' = failing
  BY <1>1, FaultCounts DEF Disconnect
<1>4. orphans' \subseteq Posts
  <2>1. \A v \in {w} : pc[v] = "handling" => Current(v) \in Posts
    BY <1>1, CurrentIsPost DEF Busy
  <2> QED
    BY <1>1, <2>1 DEF Disconnect, Dropped, TypeOK
<1> QED
  BY <1>1, <1>2, <1>3, <1>4, GotoTypes, QuietIInv

\* A new row: its handler is about to run remove.
LEMMA InsertOkIInv ==
  ASSUME IInv, NEW w \in Workers, InsertOk(w)
  PROVE  IInv'
<1>1. TypeOK /\ Busy(w) /\ pc[w] = "handling"
  BY DEF IInv, InsertOk, Busy
<1>2. /\ Goto(w, "inserted")
      /\ content' = content \cup {Current(w)}
      /\ UNCHANGED <<up, BIDS, orphans, works, faults, failing>>
  BY DEF InsertOk, NoFault
<1>3. /\ pc' \in [Workers -> PCs]
      /\ works' \in [Workers -> Seq(Posts)]
      /\ \A v \in Workers : (Busy(v) <=> works[v] # <<>>)'
      /\ \A v \in Workers : v # w => pc'[v] = pc[v] /\ works'[v] = works[v]
      /\ pc'[w] = "inserted"
  BY <1>1, <1>2, GotoTypes
<1>4. Current(w) \in Posts
  BY <1>1, CurrentIsPost
<1>5. TypeOK'
  BY <1>1, <1>2, <1>3, <1>4 DEF TypeOK
<1>6. /\ NoWorkLost'
      /\ QueueNoDup'
      /\ QuitOnlyWhenArchived'
      /\ NoOrphanWithoutFault'
  BY <1>2, <1>3 DEF IInv, NoWorkLost, QueueNoDup, QuitOnlyWhenArchived,
                    NoOrphanWithoutFault
<1>7. StaleOnlyInFlight'
  <2> SUFFICES ASSUME faults = 0, NEW id \in Ids(BIDS) \cap content'
               PROVE  \E v \in Workers : pc'[v] = "inserted" /\ Head(works[v]) = id
    BY <1>2 DEF StaleOnlyInFlight, Current
  <2>1. CASE id = Current(w)
    BY <1>3, <2>1 DEF Current
  <2>2. CASE id # Current(w)
    <3>1. PICK v \in Workers : pc[v] = "inserted" /\ Head(works[v]) = id
      BY <1>2, <2>2 DEF IInv, StaleOnlyInFlight, Current
    <3> QED
      BY <1>1, <1>3, <3>1
  <2> QED
    BY <2>1, <2>2
<1>8. InsertedIsArchived'
  <2> SUFFICES ASSUME NEW v \in Workers, pc'[v] = "inserted"
               PROVE  Head(works[v]) \in content'
    BY <1>2 DEF InsertedIsArchived, Current
  <2>1. CASE v = w
    BY <1>2, <2>1 DEF Current
  <2>2. CASE v # w
    BY <1>2, <1>3, <2>2 DEF IInv, InsertedIsArchived, Current
  <2> QED
    BY <2>1, <2>2
<1> QED
  BY <1>5, <1>6, <1>7, <1>8 DEF IInv

\* remove: the id leaves the queue, and it has its content.
LEMMA RemoveIInv ==
  ASSUME IInv, NEW w \in Workers, Remove(w) \/ RemoveLost(w)
  PROVE  IInv'
<1>1. TypeOK /\ QueueNoDup /\ Busy(w) /\ pc[w] = "inserted"
  BY DEF IInv, Remove, RemoveLost, Busy
<1>2. /\ BIDS' = RemoveId(BIDS, Current(w))
      /\ UNCHANGED <<up, content, orphans>>
  BY DEF Remove, RemoveLost
<1>3. /\ faults' \in 0..MaxFaults
      /\ faults' = 0 => faults = 0
      /\ failing' = failing
  BY <1>1, FaultCounts DEF Remove, RemoveLost, NoFault, TypeOK
<1>4. /\ pc' \in [Workers -> PCs]
      /\ works' \in [Workers -> Seq(Posts)]
      /\ \A v \in Workers : (Busy(v) <=> works[v] # <<>>)'
      /\ \A v \in Workers : v # w => pc'[v] = pc[v] /\ works'[v] = works[v]
      /\ pc'[w] \notin {"done", "inserted"}
  <2>1. CASE Remove(w)
    <3>1. Advance(w)
      BY <2>1 DEF Remove
    <3> QED
      BY <1>1, <3>1, AdvanceTypes
  <2>2. CASE RemoveLost(w)
    <3>1. Goto(w, "submit") /\ UNCHANGED works
      BY <2>2 DEF RemoveLost
    <3> QED
      BY <1>1, <3>1, GotoTypes
  <2> QED
    BY <2>1, <2>2
<1>5. /\ BIDS' \in Seq(Posts)
      /\ NoDup(BIDS')
      /\ Ids(BIDS') = Ids(BIDS) \ {Current(w)}
  BY <1>1, <1>2, RemoveIdProperties DEF TypeOK, QueueNoDup
<1>6. TypeOK'
  BY <1>1, <1>2, <1>3, <1>4, <1>5 DEF TypeOK
<1>7. Current(w) \in content
  BY <1>1 DEF IInv, InsertedIsArchived
<1>8. NoWorkLost'
  BY <1>2, <1>5, <1>7 DEF IInv, NoWorkLost
<1>9. /\ QueueNoDup'
      /\ QuitOnlyWhenArchived'
      /\ NoOrphanWithoutFault'
  BY <1>2, <1>3, <1>4, <1>5 DEF IInv, QueueNoDup, QuitOnlyWhenArchived,
                                NoOrphanWithoutFault
<1>10. InsertedIsArchived'
  BY <1>2, <1>4 DEF IInv, InsertedIsArchived, Current
<1>11. StaleOnlyInFlight'
  <2> SUFFICES ASSUME faults' = 0, NEW id \in Ids(BIDS') \cap content
               PROVE  \E v \in Workers : pc'[v] = "inserted" /\ Head(works'[v]) = id
    BY <1>2 DEF StaleOnlyInFlight, Current
  <2>1. id \in Ids(BIDS) /\ id # Head(works[w]) /\ faults = 0
    BY <1>3, <1>5 DEF Current
  <2>2. PICK v \in Workers : pc[v] = "inserted" /\ Head(works[v]) = id
    BY <2>1 DEF IInv, StaleOnlyInFlight, Current
  <2>3. v # w
    BY <2>1, <2>2
  <2> QED
    BY <1>4, <2>2, <2>3
<1> QED
  BY <1>6, <1>8, <1>9, <1>10, <1>11 DEF IInv

\* An orphan adds a row or nothing; it has no handler to run remove, but it
\* exists only after a failure.
LEMMA OrphanInsertIInv ==
  ASSUME IInv, NEW id \in Posts, OrphanInsert(id)
  PROVE  IInv'
<1>1. /\ id \in orphans
      /\ orphans' \subseteq orphans
      /\ content \subseteq content' /\ content' \subseteq Posts
      /\ UNCHANGED <<up, BIDS, pc, works, faults, failing>>
  BY DEF OrphanInsert, NoFault, IInv, TypeOK
<1>2. faults # 0
  BY <1>1 DEF IInv, NoOrphanWithoutFault
<1> QED
  BY <1>1, <1>2 DEF IInv, TypeOK, Busy, NoWorkLost, QueueNoDup,
       QuitOnlyWhenArchived, NoOrphanWithoutFault, InsertedIsArchived,
       StaleOnlyInFlight, Current

\* The queue is gone, the table is not.
LEMMA CrashIInv ==
  ASSUME IInv, Crash
  PROVE  IInv'
<1>1. TypeOK
  BY DEF IInv
<1>2. /\ up' = FALSE
      /\ BIDS' = <<>>
      /\ pc' = [w \in Workers |->
                  IF pc[w] \in {"handling", "inserted"} THEN "submit" ELSE pc[w]]
      /\ UNCHANGED <<content, works>>
  BY DEF Crash
<1>3. faults' \in 0..MaxFaults /\ faults' # 0 /\ failing' = failing
  BY <1>1, FaultCounts DEF Crash
<1>4. orphans' \subseteq Posts
  <2>1. \A v \in Workers : pc[v] = "handling" => Current(v) \in Posts
    BY <1>1, CurrentIsPost DEF Busy
  <2> QED
    BY <1>1, <2>1 DEF Crash, Dropped, TypeOK
<1>5. TypeOK'
  <2>1. pc' \in [Workers -> PCs]
    BY <1>1, <1>2 DEF TypeOK, PCs
  <2>2. \A w \in Workers : (Busy(w) <=> works[w] # <<>>)'
    BY <1>1, <1>2 DEF TypeOK, Busy
  <2>3. BIDS' \in Seq(Posts)
    BY <1>2
  <2> QED
    BY <1>1, <1>2, <1>3, <1>4, <2>1, <2>2, <2>3 DEF TypeOK
<1>6. QueueNoDup'
  BY <1>2 DEF QueueNoDup, NoDup
<1>7. QuitOnlyWhenArchived' /\ InsertedIsArchived'
  BY <1>2 DEF IInv, QuitOnlyWhenArchived, InsertedIsArchived
<1> QED
  BY <1>2, <1>3, <1>5, <1>6, <1>7
     DEF IInv, NoWorkLost, NoOrphanWithoutFault, StaleOnlyInFlight

\* The queue is rebuilt from the table.
LEMMA RestartIInv ==
  ASSUME IInv, Restart
  PROVE  IInv'
<1>1. up' = TRUE /\ UNCHANGED <<content, orphans, pc, works, faults, failing>>
  BY DEF Restart, NoFault
<1>2. BIDS' \in Seq(Posts) /\ NoDup(BIDS') /\ Ids(BIDS') = Posts \ content
  BY LoadedQueue DEF Restart
<1>3. TypeOK'
  BY <1>1, <1>2 DEF IInv, TypeOK, Busy
<1> QED
  BY <1>1, <1>2, <1>3 DEF IInv, NoWorkLost, QueueNoDup, QuitOnlyWhenArchived,
       NoOrphanWithoutFault, InsertedIsArchived, StaleOnlyInFlight, Current

\* Nothing of the model changes.
LEMMA StutterIInv ==
  ASSUME IInv, UNCHANGED vars
  PROVE  IInv'
BY DEF vars, IInv, TypeOK, Busy, NoWorkLost, QueueNoDup, QuitOnlyWhenArchived,
       NoOrphanWithoutFault, InsertedIsArchived, StaleOnlyInFlight, Current

\* Every step keeps the invariant.
LEMMA NextIInv == IInv /\ [Next]_vars => IInv'
<1> SUFFICES ASSUME IInv, [Next]_vars PROVE IInv'
  OBVIOUS
<1>1. CASE \E w \in Workers : WorkerStep(w)
  <2> SUFFICES ASSUME NEW w \in Workers, WorkerStep(w) PROVE IInv'
    BY <1>1
  <2>1. CASE FetchWork(w)
    BY <2>1, FetchWorkIInv
  <2>2. CASE FetchLost(w)
    BY <2>2, FetchLostIInv
  <2>3. CASE ScrapeOk(w) \/ ScrapeWrong(w) \/ ScrapeFail(w)
    BY <2>3, ScrapeIInv
  <2>4. CASE Submit(w)
    BY <2>4, SubmitIInv
  <2>5. CASE InsertOk(w)
    BY <2>5, InsertOkIInv
  <2>6. CASE InsertDuplicate(w) \/ InsertFail(w) \/ InsertLostAck(w)
    BY <2>6, InsertErrorIInv
  <2>7. CASE Remove(w) \/ RemoveLost(w)
    BY <2>7, RemoveIInv
  <2>8. CASE Disconnect(w)
    BY <2>8, DisconnectIInv
  <2> QED
    BY <2>1, <2>2, <2>3, <2>4, <2>5, <2>6, <2>7, <2>8 DEF WorkerStep
<1>2. CASE \E id \in Posts : OrphanInsert(id)
  BY <1>2, OrphanInsertIInv
<1>3. CASE Crash
  BY <1>3, CrashIInv
<1>4. CASE Restart
  BY <1>4, RestartIInv
<1>5. CASE Terminated \/ UNCHANGED vars
  BY <1>5, StutterIInv DEF Terminated
<1> QED
  BY <1>1, <1>2, <1>3, <1>4, <1>5 DEF Next

\* So it holds in every state.
LEMMA IInvInvariant == Spec => []IInv
BY InitIInv, NextIInv, PTL DEF Spec

(***************************************************************************)
(* Every variable keeps its type, and a worker in the middle of its loop   *)
(* has an id in hand (worker.rs 95).                                       *)
(***************************************************************************)
THEOREM TypeCorrect == Spec => []TypeOK
<1>1. IInv => TypeOK
  BY DEF IInv
<1> QED
  BY <1>1, IInvInvariant, PTL

(***************************************************************************)
(* No post is forgotten by a running server, through any number of lost    *)
(* answers, failed INSERTs, crashes and restarts.                          *)
(***************************************************************************)
THEOREM NothingForgotten == Spec => []NoWorkLost
<1>1. IInv => NoWorkLost
  BY DEF IInv
<1> QED
  BY <1>1, IInvInvariant, PTL

(***************************************************************************)
(* No id is listed twice, so remove's first position is the only one.      *)
(***************************************************************************)
THEOREM QueueDistinct == Spec => []QueueNoDup
<1>1. IInv => QueueNoDup
  BY DEF IInv
<1> QED
  BY <1>1, IInvInvariant, PTL

(***************************************************************************)
(* A worker that returns leaves nothing behind.                            *)
(***************************************************************************)
THEOREM QuitIsSafe == Spec => []QuitOnlyWhenArchived
<1>1. IInv => QuitOnlyWhenArchived
  BY DEF IInv
<1> QED
  BY <1>1, IInvInvariant, PTL

(***************************************************************************)
(* Without failures, no archived id stays in the queue.                    *)
(***************************************************************************)
THEOREM StaleIsTransient == Spec => []StaleOnlyInFlight
<1>1. IInv => StaleOnlyInFlight
  BY DEF IInv
<1> QED
  BY <1>1, IInvInvariant, PTL

-----------------------------------------------------------------------------
(* Refinement: each step archives one post, lets one worker go, or is not  *)
(* seen by module Archive at all.                                          *)

Quitters == {w \in Workers : pc[w] = "done"}

\* Initial states of the gateway are initial states of the archive.
LEMMA RefineInit == Init => Archived!Init
BY DEF Init, Archived!Init

\* Every step of the gateway is one of the archive, or leaves it alone.
LEMMA RefineNext == IInv /\ [Next]_vars => [Archived!Next]_<<content, Quitters>>
<1> SUFFICES ASSUME IInv, [Next]_vars
             PROVE  \/ Archived!Next
                    \/ UNCHANGED <<content, Quitters>>
  BY DEF Quitters
<1>t. TypeOK
  BY DEF IInv
<1>1. CASE \E w \in Workers : WorkerStep(w)
  <2> SUFFICES ASSUME NEW w \in Workers, WorkerStep(w)
               PROVE  \/ Archived!Next
                      \/ UNCHANGED <<content, Quitters>>
    BY <1>1
  <2>1. CASE FetchWork(w)
    <3>1. QuitOnlyWhenArchived'
      BY <2>1, FetchWorkIInv DEF IInv
    <3>2. /\ pc[w] = "fetch"
          /\ content' = content
          /\ pc' = [pc EXCEPT ![w] = "done"] \/ pc' = [pc EXCEPT ![w] = "scrape"]
      BY <2>1 DEF FetchWork, Goto
    <3>3. CASE pc' = [pc EXCEPT ![w] = "scrape"]
      <4>1. Quitters' = Quitters
        BY <1>t, <3>2, <3>3 DEF Quitters, TypeOK
      <4> QED
        BY <3>2, <4>1
    <3>4. CASE pc' = [pc EXCEPT ![w] = "done"]
      <4>1. pc'[w] = "done"
        BY <1>t, <3>4 DEF TypeOK
      <4>2. content = Posts
        BY <1>t, <3>1, <3>2, <4>1 DEF QuitOnlyWhenArchived, TypeOK
      <4>3. Quitters' = Quitters \cup {w} /\ w \notin Quitters
        BY <1>t, <3>2, <3>4 DEF Quitters, TypeOK
      <4>4. Archived!Quit(w)
        BY <3>2, <4>2, <4>3 DEF Archived!Quit, Quitters
      <4> QED
        BY <4>4 DEF Archived!Next
    <3> QED
      BY <3>2, <3>3, <3>4
  <2>2. CASE InsertOk(w)
    <3>1. /\ pc[w] = "handling"
          /\ Current(w) \notin content
          /\ content' = content \cup {Current(w)}
          /\ pc' = [pc EXCEPT ![w] = "inserted"]
      BY <2>2 DEF InsertOk, Goto
    <3>2. Current(w) \in Posts
      BY <1>t, <3>1, CurrentIsPost DEF Busy
    <3>3. Quitters' = Quitters
      BY <1>t, <3>1 DEF Quitters, TypeOK
    <3>4. Archived!Archive(Current(w))
      BY <3>1, <3>3 DEF Archived!Archive, Quitters
    <3> QED
      BY <3>2, <3>4 DEF Archived!Next
  <2>3. CASE ~FetchWork(w) /\ ~InsertOk(w)
    <3>1. /\ content' = content
          /\ pc[w] # "done"
          /\ \/ pc' = pc
             \/ \E l \in PCs \ {"done"} : pc' = [pc EXCEPT ![w] = l]
      BY <2>3 DEF WorkerStep, FetchLost, ScrapeOk, ScrapeWrong, ScrapeFail, Submit,
           InsertDuplicate, InsertFail, InsertLostAck, Remove, RemoveLost,
           Disconnect, Advance, Goto, PCs
    <3>2. Quitters' = Quitters
      BY <1>t, <3>1 DEF Quitters, TypeOK
    <3> QED
      BY <3>1, <3>2
  <2> QED
    BY <2>1, <2>2, <2>3
<1>2. CASE \E id \in Posts : OrphanInsert(id)
  <2> SUFFICES ASSUME NEW id \in Posts, OrphanInsert(id)
               PROVE  \/ Archived!Next
                      \/ UNCHANGED <<content, Quitters>>
    BY <1>2
  <2>1. Quitters' = Quitters
    BY DEF OrphanInsert, Quitters
  <2>2. CASE content' = content
    BY <2>1, <2>2
  <2>3. CASE content' # content
    <3>1. id \notin content /\ content' = content \cup {id}
      BY <2>3 DEF OrphanInsert
    <3>2. Archived!Archive(id)
      BY <2>1, <3>1 DEF Archived!Archive, Quitters
    <3> QED
      BY <3>2 DEF Archived!Next
  <2> QED
    BY <2>2, <2>3
<1>3. CASE Crash
  <2>1. content' = content
    BY <1>3 DEF Crash
  <2>2. Quitters' = Quitters
    BY <1>3 DEF Crash, Quitters
  <2> QED
    BY <2>1, <2>2
<1>4. CASE Restart
  BY <1>4 DEF Restart, Quitters
<1>5. CASE Terminated \/ UNCHANGED vars
  BY <1>5 DEF Terminated, vars, Quitters
<1> QED
  BY <1>1, <1>2, <1>3, <1>4, <1>5 DEF Next

(***************************************************************************)
(* The pipeline implements its abstract specification: content only grows, *)
(* one post at a time, and a worker returns only when nothing is missing.  *)
(***************************************************************************)
THEOREM Refinement == Spec => ArchiveSpec
<1>1. Init => Archived!Init
  BY RefineInit
<1>2. IInv /\ [Next]_vars => [Archived!Next]_(Archived!avars)
  BY RefineNext DEF Archived!avars, Quitters
<1> QED
  BY <1>1, <1>2, IInvInvariant, PTL DEF Spec, ArchiveSpec, Archived!Spec
=============================================================================
