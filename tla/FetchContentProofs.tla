------------------------- MODULE FetchContentProofs -------------------------
(***************************************************************************)
(* What `telegram content` guarantees for every channel, page size, limit, *)
(* number of runs and number of failures.                                  *)
(***************************************************************************)
EXTENDS FetchContent, FiniteSetTheorems, TLAPS

-----------------------------------------------------------------------------
(* The inductive invariant.                                                *)

\* The ids that a request with the current offset cannot return.
Passed(m) == offset # 0 /\ offset <= m

\* In the channel at the start of the run, and above the floor.
Wanted(m) == m \in atStart /\ Floor(interval[2]) < m

Covered(m) ==
  \/ m \in stored
  \/ origin[1] <= m /\ m <= origin[2]
  \/ m \in skipped

\* The interval in memory ends in stored messages and contains origin's end.
IntervalInv ==
  /\ interval # NoRange => /\ interval[1] \in stored
                           /\ interval[2] \in stored
                           /\ interval[1] <= interval[2]
  /\ origin[2] <= interval[2]

\* It contains the range in the table, unless the run could not read that.
WiderInv ==
  ~blind /\ range # NoRange =>
    interval[1] <= range[1] /\ range[2] <= interval[2]

\* The stop line is the end of the old range or below the floor; and without a
\* jump ahead, only because none is due.
StopInv ==
  pc \in Running =>
    \/ stop = origin[2] /\ (jumping \/ ~Jumping(origin, limit))
    \/ stop <= Floor(interval[2])

\* Before the jump, the interval begins where the old range or the last page
\* does.
JumpInv ==
  pc \in Running /\ jumping /\ ~last =>
    /\ origin # NoRange
    /\ \/ interval[1] = origin[1]
       \/ offset # 0 /\ offset <= interval[1]

\* Everything wanted that the iterator has passed is covered ...
FetchInv ==
  pc = "fetch" =>
    /\ ~last
    /\ clean => \A m \in Ids : Wanted(m) /\ Passed(m) => Covered(m)

\* ... or in the page at hand, which begins at the next offset.
PageInv ==
  pc \in {"insert", "range"} =>
    /\ ~last => IsMin(buffer, offset)
    /\ clean => \A m \in Ids \ buffer : Wanted(m) /\ (last \/ offset <= m) => Covered(m)

RangeInv ==
  pc = "range" => interval # NoRange /\ buffer \subseteq stored

IInv ==
  /\ TypeOK
  /\ atStart \subseteq live
  /\ IntervalInv
  /\ WiderInv
  /\ HonestRange
  /\ StopInv
  /\ JumpInv
  /\ FetchInv
  /\ PageInv
  /\ RangeInv
  /\ CleanRunCovers

-----------------------------------------------------------------------------
(* Lemmas about the operators.                                             *)

\* A range is a pair of ids, or the empty one, whose sides are zero.
LEMMA RangeParts ==
  ASSUME NEW r \in Ranges
  PROVE  /\ r[1] \in 0..MaxId /\ r[2] \in 0..MaxId
         /\ r = <<r[1], r[2]>>
         /\ r # NoRange => r[1] \in Ids /\ r[2] \in Ids
         /\ r = NoRange <=> r[1] = 0
         /\ r = NoRange <=> r[2] = 0
<1>1. CASE r = NoRange
  BY <1>1, FetchAssumption DEF NoRange
<1>2. CASE r \in Ids \X Ids
  BY <1>2, FetchAssumption DEF NoRange, Ids
<1> QED
  BY <1>1, <1>2 DEF Ranges

\* The floor is an id or 0, and it only rises with the interval.
LEMMA FloorProperties ==
  ASSUME NEW l \in Nat, limit = l, NEW a \in 0..MaxId, NEW b \in 0..MaxId, a <= b
  PROVE  /\ Floor(a) \in 0..MaxId
         /\ Floor(a) <= Floor(b)
         /\ Floor(b) <= b
         /\ b - limit <= Floor(b)
BY FetchAssumption DEF Floor, Maximum

\* No request returns what a shorter page leaves out: a last page is all there
\* was (fill_buffer's `messages[0].id() <= limit`).
LEMMA LastPageIsAll ==
  ASSUME TypeOK, NEW p, IsPage(p), IsLast(p)
  PROVE  p = Older
<1>1. Older \subseteq Ids /\ p \subseteq Older
  BY DEF Older, IsPage, TypeOK
<1>2. IsFiniteSet(Ids)
  BY FS_Interval, FetchAssumption DEF Ids
<1>3. IsFiniteSet(Older) /\ IsFiniteSet(p)
  BY <1>1, <1>2, FS_Subset
<1>4. Cardinality(Older) \in Nat /\ Cardinality(p) \in Nat
  BY <1>3, FS_CardinalityType
<1>5. Cardinality(p) = IF Batch < Cardinality(Older) THEN Batch ELSE Cardinality(Older)
  BY <1>4, FetchAssumption DEF IsPage, Minimum
<1>6. CASE ~(Batch < Cardinality(Older))
  BY <1>1, <1>3, <1>5, <1>6, FS_Subset
<1>7. CASE Batch < Cardinality(Older)
  <2>1. p \subseteq 1..Batch
    BY <1>1, FetchAssumption DEF IsLast, Ids
  <2>2. IsFiniteSet(1..Batch) /\ Cardinality(1..Batch) = Batch
    BY FS_Interval, FetchAssumption
  <2>3. p = 1..Batch
    BY <1>5, <1>7, <2>1, <2>2, FS_Subset
  <2>4. 1 \in p
    BY <2>3, FetchAssumption
  <2>5. \A n \in Older \ p : n < 1
    BY <2>4 DEF IsPage
  <2>6. ASSUME NEW n \in Older, n \notin p PROVE FALSE
    <3>1. n \in 1..MaxId
      BY <1>1, <2>6 DEF Ids
    <3>2. n < 1
      BY <2>5, <2>6
    <3> QED
      BY <3>1, <3>2, FetchAssumption
  <2> QED
    BY <1>1, <2>6
<1> QED
  BY <1>6, <1>7

\* An empty page says that nothing is older than the offset.
LEMMA EmptyPageIsAll ==
  ASSUME TypeOK, IsPage({})
  PROVE  Older = {}
<1>1. IsLast({})
  BY DEF IsLast
<1> QED
  BY <1>1, LastPageIsAll

\* What a failure does to the counter.
LEMMA FaultCounts ==
  ASSUME TypeOK, Fault \/ NoFault
  PROVE  faults' \in 0..MaxFaults
BY FetchAssumption DEF TypeOK, Fault, NoFault

\* The limit of a request is a number of messages.
LEMMA LimitIsNat == TypeOK => limit \in Nat
BY FetchAssumption DEF TypeOK

-----------------------------------------------------------------------------
\* The invariant holds before the first run.
LEMMA InitIInv == Init => IInv
<1> SUFFICES ASSUME Init PROVE IInv
  OBVIOUS
<1>1. TypeOK
  <2>1. /\ live \subseteq Ids /\ stored \subseteq Ids
        /\ atStart \subseteq Ids /\ buffer \subseteq Ids
        /\ range \in Ranges /\ origin \in Ranges /\ interval \in Ranges
        /\ pc \in Between \cup Running
    BY DEF Init, Ranges, Between
  <2>2. /\ limit \in Limits \cup {0}
        /\ stop \in 0..MaxId /\ offset \in 0..MaxId /\ skipped \subseteq 0..MaxId
        /\ nerr \in 0..MaxErr /\ runs \in 0..MaxRuns /\ faults \in 0..MaxFaults
    BY FetchAssumption DEF Init
  <2>3. /\ jumping \in BOOLEAN /\ last \in BOOLEAN
        /\ blind \in BOOLEAN /\ sameLimit \in BOOLEAN /\ clean \in BOOLEAN
    BY DEF Init
  <2> QED
    BY <2>1, <2>2, <2>3 DEF TypeOK
<1>2. IntervalInv /\ WiderInv /\ HonestRange
  BY DEF Init, IntervalInv, WiderInv, HonestRange, NoRange
<1> QED
  BY <1>1, <1>2 DEF Init, IInv, StopInv, JumpInv, FetchInv, PageInv, RangeInv,
                    CleanRunCovers, Running

\* A new message in the channel, whose number is above all others.
LEMMA PostIInv ==
  ASSUME IInv, NEW m \in Ids, Post(m)
  PROVE  IInv'
<1>1. live \subseteq live' /\ live' \subseteq live \cup {m}
  BY DEF Post
<1>2. UNCHANGED <<stored, range, pc, limit, origin, interval, stop, jumping, offset,
                  last, buffer, nerr, runs, faults, atStart, blind, sameLimit, clean, skipped>>
  BY DEF Post, tables, fixed, line, iterator
<1>3. TypeOK'
  BY <1>1, <1>2 DEF IInv, TypeOK
<1> QED
  BY <1>1, <1>2, <1>3 DEF IInv, IntervalInv, WiderInv, HonestRange, StopInv, JumpInv,
       FetchInv, PageInv, RangeInv, CleanRunCovers, Wanted, Passed, Covered, Floor

\* Both ways to start: what the run begins with is the range, or nothing.
LEMMA StartIInv ==
  ASSUME IInv, NEW l \in Limits, Start(l) \/ StartBlind(l)
  PROVE  IInv'
<1> DEFINE o == IF Start(l) THEN range ELSE NoRange
<1>1. /\ pc \in Between
      /\ runs < MaxRuns /\ runs' = runs + 1
      /\ limit' = l /\ origin' = o /\ interval' = o /\ stop' = o[2]
      /\ jumping' = Jumping(o, l)
      /\ offset' = 0 /\ last' = FALSE /\ buffer' = {} /\ nerr' = 0
      /\ atStart' = live /\ clean' = TRUE /\ pc' = "fetch"
      /\ sameLimit' = (runs = 0 \/ (sameLimit /\ l = limit))
      /\ UNCHANGED <<live, stored, range, skipped>>
  BY DEF Start, StartBlind, Begin, tables
<1>2. /\ blind' \in BOOLEAN
      /\ ~blind' => o = range
      /\ o = range \/ o = NoRange
      /\ Fault \/ NoFault
  BY DEF Start, StartBlind
<1>3. TypeOK
  BY DEF IInv
<1>4. o \in Ranges
  BY <1>2, <1>3 DEF TypeOK, Ranges
<1> HIDE DEF o
<1>5. o[2] \in 0..MaxId
  BY <1>4, RangeParts
<1>6. faults' \in 0..MaxFaults
  BY <1>2, <1>3, FaultCounts
<1>7. TypeOK'
  <2>1. runs' \in 0..MaxRuns /\ nerr' \in 0..MaxErr
    BY <1>1, <1>3, FetchAssumption DEF TypeOK
  <2>2. jumping' \in BOOLEAN
    BY <1>1 DEF Jumping
  <2>3. pc' \in Between \cup Running
    BY <1>1 DEF Running
  <2>4. offset' \in 0..MaxId
    BY <1>1, FetchAssumption
  <2>5. sameLimit' \in BOOLEAN
    BY <1>1, <1>3 DEF TypeOK
  <2> QED
    BY <1>1, <1>2, <1>3, <1>4, <1>5, <1>6, <2>1, <2>2, <2>3, <2>4, <2>5 DEF TypeOK
<1>8. HonestRange' /\ WiderInv'
  BY <1>1, <1>2, <1>3, RangeParts DEF IInv, HonestRange, WiderInv, TypeOK
<1>9. IntervalInv'
  BY <1>1, <1>2, <1>5 DEF IInv, HonestRange, IntervalInv
<1>10. StopInv' /\ JumpInv'
  BY <1>1 DEF StopInv, JumpInv, Jumping
<1>11. FetchInv' /\ PageInv' /\ RangeInv' /\ CleanRunCovers'
  BY <1>1 DEF FetchInv, PageInv, RangeInv, CleanRunCovers, Passed
<1> QED
  BY <1>1, <1>7, <1>8, <1>9, <1>10, <1>11 DEF IInv

\* A page arrives.  What was passed stays covered; what the page leaves out
\* is either passed or older than the page.
LEMMA FetchOkIInv ==
  ASSUME IInv, NEW p \in SUBSET live, FetchOk(p)
  PROVE  IInv'
<1>1. /\ pc = "fetch" /\ IsPage(p)
      /\ last' = IsLast(p)
      /\ IsLast(p) => offset' = offset
      /\ ~IsLast(p) => IsMin(p, offset')
      /\ buffer' = p /\ nerr' = 0
      /\ pc' = IF p = {} THEN "complete" ELSE "insert"
      /\ UNCHANGED <<live, stored, range, limit, origin, interval, stop, jumping,
                     runs, faults, atStart, blind, sameLimit, clean, skipped>>
  BY DEF FetchOk, NoFault, tables, fixed, line
<1>2. TypeOK /\ atStart \subseteq live /\ live \subseteq Ids
  BY DEF IInv, TypeOK
<1>3. offset' \in 0..MaxId
  <2>1. CASE IsLast(p)
    BY <1>1, <1>2, <2>1 DEF TypeOK
  <2>2. CASE ~IsLast(p)
    <3>1. offset' \in 1..MaxId
      BY <1>1, <1>2, <2>2 DEF IsMin, Ids
    <3> QED
      BY <3>1, FetchAssumption
  <2> QED
    BY <2>1, <2>2
<1>4. TypeOK'
  <2>1. last' \in BOOLEAN
    BY <1>1 DEF IsLast
  <2>2. pc' \in Between \cup Running
    BY <1>1 DEF Between, Running
  <2>3. nerr' \in 0..MaxErr
    BY <1>1, FetchAssumption
  <2> QED
    BY <1>1, <1>2, <1>3, <2>1, <2>2, <2>3 DEF TypeOK
<1>5. ASSUME clean, NEW m \in Ids \ p, Wanted(m), last' \/ offset' <= m
      PROVE  Covered(m)
  <2>1. Passed(m) => Covered(m)
    BY <1>1, <1>5 DEF IInv, FetchInv
  <2>2. m \in live /\ m \in 1..MaxId /\ offset \in 0..MaxId
    BY <1>2, <1>5 DEF Wanted, TypeOK, Ids
  <2>3. m \notin Older
    <3>1. CASE IsLast(p)
      BY <1>1, <1>2, <1>5, <3>1, LastPageIsAll
    <3>2. CASE ~IsLast(p)
      <4>1. offset' \in p /\ offset' <= m
        BY <1>1, <1>5, <3>2 DEF IsMin
      <4>2. m \in Older => m < offset'
        BY <1>1, <1>5, <4>1 DEF IsPage
      <4> QED
        BY <1>3, <2>2, <4>1, <4>2
    <3> QED
      BY <3>1, <3>2
  <2>4. Passed(m)
    BY <2>2, <2>3 DEF Older, Passed
  <2> QED
    BY <2>1, <2>4
<1>6. PageInv'
  BY <1>1, <1>5 DEF PageInv, Wanted, Covered, Floor
<1>7. CleanRunCovers'
  <2> SUFFICES ASSUME pc' = "complete", clean, NEW m \in atStart,
                      m > interval[2] - limit
               PROVE  Covered(m)
    BY <1>1 DEF CleanRunCovers, Covered
  <2>1. p = {}
    BY <1>1
  <2>2. m \in Ids \ p /\ last'
    BY <1>1, <1>2, <2>1 DEF IsLast
  <2>3. Wanted(m)
    <3>1. m \in Nat /\ m > 0 /\ interval[2] \in 0..MaxId /\ limit \in Nat
      BY <1>2, <2>2, LimitIsNat, RangeParts DEF TypeOK, Ids
    <3> QED
      BY <3>1, FetchAssumption DEF Wanted, Floor, Maximum
  <2> QED
    BY <1>5, <2>2, <2>3
<1>8. JumpInv'
  <2> SUFFICES ASSUME pc' \in Running, jumping, ~last'
               PROVE  /\ origin # NoRange
                      /\ \/ interval[1] = origin[1]
                         \/ offset' # 0 /\ offset' <= interval[1]
    BY <1>1 DEF JumpInv
  <2>1. /\ origin # NoRange
        /\ \/ interval[1] = origin[1]
           \/ offset # 0 /\ offset <= interval[1]
    BY <1>1 DEF IInv, JumpInv, FetchInv, Running
  <2>2. offset' \in Older /\ offset' \in Ids
    BY <1>1, <1>2 DEF IsMin, IsPage, Older
  <2>3. offset # 0 => offset' < offset
    BY <2>2 DEF Older
  <2>4. interval[1] \in 0..MaxId /\ offset \in 0..MaxId
    BY <1>2, RangeParts DEF TypeOK
  <2> QED
    BY <2>1, <2>2, <2>3, <2>4, FetchAssumption DEF Ids
<1>9. StopInv'
  BY <1>1 DEF IInv, StopInv, Running, Floor
<1>10. IntervalInv' /\ WiderInv' /\ HonestRange' /\ FetchInv' /\ RangeInv'
  BY <1>1 DEF IInv, IntervalInv, WiderInv, HonestRange, FetchInv, RangeInv
<1> QED
  BY <1>1, <1>2, <1>4, <1>6, <1>7, <1>8, <1>9, <1>10 DEF IInv

\* A request that fails leaves ranges and rows alone.
LEMMA FetchErrIInv ==
  ASSUME IInv, FetchErr
  PROVE  IInv'
<1>1. /\ nerr' \in 0..MaxErr
      /\ UNCHANGED <<live, stored, range, pc, limit, origin, interval, stop, jumping,
                     offset, last, buffer, runs, faults, atStart, blind, sameLimit, clean, skipped>>
  BY FetchAssumption DEF IInv, TypeOK, FetchErr, NoFault, tables, fixed, line, iterator
<1>2. TypeOK'
  BY <1>1 DEF IInv, TypeOK
<1> QED
  BY <1>1, <1>2 DEF IInv, IntervalInv, WiderInv, HonestRange, StopInv, JumpInv,
       FetchInv, PageInv, RangeInv, CleanRunCovers, Wanted, Passed, Covered, Floor

\* A run that is cut short owes nothing.
LEMMA CutShortIInv ==
  ASSUME IInv, FetchAbort \/ Crash
  PROVE  IInv'
<1>1. /\ pc' \in {"aborted", "idle"}
      /\ UNCHANGED <<live, stored, range, limit, origin, interval, stop, jumping,
                     offset, last, buffer, runs, atStart, blind, sameLimit, skipped>>
  BY DEF FetchAbort, Crash, End, tables, fixed, line, iterator
<1>2. nerr' \in 0..MaxErr /\ clean' \in BOOLEAN
  <2>1. clean' = FALSE \/ clean' = clean
    BY DEF FetchAbort, Crash
  <2>2. nerr' = nerr \/ nerr' = MaxErr
    BY DEF FetchAbort, Crash
  <2>3. nerr \in 0..MaxErr /\ clean \in BOOLEAN
    BY DEF IInv, TypeOK
  <2>4. nerr' \in 0..MaxErr
    BY <2>2, <2>3, FetchAssumption
  <2> QED
    BY <2>1, <2>3, <2>4
<1>3. faults' \in 0..MaxFaults
  BY FaultCounts DEF IInv, FetchAbort, Crash
<1>4. TypeOK'
  BY <1>1, <1>2, <1>3 DEF IInv, TypeOK, Between
<1> QED
  BY <1>1, <1>4 DEF IInv, IntervalInv, WiderInv, HonestRange, StopInv, JumpInv,
       FetchInv, PageInv, RangeInv, CleanRunCovers, Running

\* The page is stored and the interval widened: the floor rises, and before a
\* jump the interval now begins where the old range or this page does.
LEMMA InsertIInv ==
  ASSUME IInv, Insert
  PROVE  IInv'
<1>1. PICK lo \in buffer, hi \in buffer :
        /\ IsMin(buffer, lo) /\ IsMax(buffer, hi)
        /\ interval' = Widened(lo, hi)
  BY DEF Insert
<1>2. /\ pc = "insert" /\ pc' = "range"
      /\ stored' = stored \cup buffer
      /\ UNCHANGED <<live, range, limit, origin, stop, jumping, offset, last, buffer,
                     nerr, runs, faults, atStart, blind, sameLimit, clean, skipped>>
  BY DEF Insert, NoFault, fixed, line, iterator
<1>3. TypeOK
  BY DEF IInv
<1>4. lo \in 1..MaxId /\ hi \in 1..MaxId /\ lo <= hi
  BY <1>1, <1>3 DEF TypeOK, Ids, IsMin
<1>5. /\ interval[1] \in 0..MaxId /\ interval[2] \in 0..MaxId
      /\ origin[1] \in 0..MaxId /\ origin[2] \in 0..MaxId
      /\ interval # NoRange => interval[1] \in 1..MaxId /\ interval[2] \in 1..MaxId
      /\ interval = NoRange => interval[2] = 0
  BY <1>3, RangeParts DEF TypeOK, Ids
<1>6. /\ interval' = <<interval'[1], interval'[2]>>
      /\ interval'[1] = IF interval = NoRange \/ lo < interval[1] THEN lo ELSE interval[1]
      /\ interval'[2] = IF interval = NoRange \/ interval[2] < hi THEN hi ELSE interval[2]
  <2>1. CASE interval = NoRange
    BY <1>1, <2>1 DEF Widened
  <2>2. CASE interval # NoRange
    <3>1. interval' = <<Minimum(interval[1], lo), Maximum(interval[2], hi)>>
      BY <1>1, <2>2 DEF Widened
    <3>2. Minimum(interval[1], lo) = IF lo < interval[1] THEN lo ELSE interval[1]
      BY <1>4, <1>5 DEF Minimum
    <3>3. Maximum(interval[2], hi) = IF interval[2] < hi THEN hi ELSE interval[2]
      BY DEF Maximum
    <3> QED
      BY <2>2, <3>1, <3>2, <3>3
  <2> QED
    BY <2>1, <2>2
<1>7. interval'[1] \in 1..MaxId /\ interval'[2] \in 1..MaxId
  BY <1>4, <1>5, <1>6
<1>8. interval' \in Ids \X Ids
  BY <1>6, <1>7 DEF Ids
<1>9. interval' # NoRange
  BY <1>7, FetchAssumption DEF NoRange
<1>10. interval[2] <= interval'[2]
  BY <1>4, <1>5, <1>6
<1>11. TypeOK'
  <2>1. stored' \subseteq Ids
    BY <1>2, <1>3 DEF TypeOK
  <2>2. interval' \in Ranges
    BY <1>8 DEF Ranges
  <2>3. pc' \in Between \cup Running
    BY <1>2 DEF Running
  <2> QED
    BY <1>2, <1>3, <2>1, <2>2, <2>3 DEF TypeOK
<1>12. IntervalInv'
  <2>1. interval # NoRange => /\ interval[1] \in stored
                              /\ interval[2] \in stored
                              /\ interval[1] <= interval[2]
    BY DEF IInv, IntervalInv
  <2>2. interval'[1] \in stored' /\ interval'[2] \in stored'
    BY <1>2, <1>6, <2>1
  <2>3. interval'[1] <= interval'[2]
    BY <1>4, <1>5, <1>6, <2>1
  <2>4. origin[2] <= interval'[2]
    BY <1>4, <1>5, <1>7, <1>10 DEF IInv, IntervalInv
  <2> QED
    BY <1>2, <2>2, <2>3, <2>4 DEF IntervalInv
<1>13. WiderInv' /\ HonestRange'
  <2>1. HonestRange'
    BY <1>2 DEF IInv, HonestRange
  <2>2. ASSUME ~blind, range # NoRange
        PROVE  interval'[1] <= range[1] /\ range[2] <= interval'[2]
    <3>1. range[1] \in 1..MaxId /\ range[2] \in 1..MaxId
      BY <1>3, <2>2, RangeParts DEF TypeOK, Ids
    <3>2. interval[1] <= range[1] /\ range[2] <= interval[2]
      BY <2>2 DEF IInv, WiderInv
    <3>3. interval # NoRange
      BY <1>5, <3>1, <3>2
    <3>4. interval'[1] <= interval[1]
      BY <1>4, <1>5, <1>6, <3>3
    <3> QED
      BY <1>5, <1>7, <1>10, <3>1, <3>2, <3>4
  <2> QED
    BY <1>2, <2>1, <2>2 DEF WiderInv
<1>14. Floor(interval[2]) <= Floor(interval'[2])
  BY <1>3, <1>5, <1>7, <1>10, LimitIsNat, FloorProperties
<1>15. Floor(interval[2]) \in 0..MaxId /\ Floor(interval'[2]) \in 0..MaxId
  BY <1>3, <1>5, <1>7, LimitIsNat, FloorProperties
<1>16. StopInv'
  <2>1. \/ stop = origin[2] /\ (jumping \/ ~Jumping(origin, limit))
        \/ stop <= Floor(interval[2])
    BY <1>2 DEF IInv, StopInv, Running
  <2>2. stop \in 0..MaxId
    BY <1>3 DEF TypeOK
  <2>3. stop <= Floor(interval[2]) => stop <= Floor(interval'[2])
    BY <1>14, <1>15, <2>2
  <2>4. Floor(interval[2])' = Floor(interval'[2])
    BY <1>2 DEF Floor
  <2>5. Jumping(origin, limit)' = Jumping(origin, limit)
    BY <1>2 DEF Jumping
  <2> QED
    BY <1>2, <2>1, <2>3, <2>4, <2>5 DEF StopInv
<1>17. JumpInv'
  <2> SUFFICES ASSUME jumping, ~last
               PROVE  /\ origin # NoRange
                      /\ \/ interval'[1] = origin[1]
                         \/ offset # 0 /\ offset <= interval'[1]
    BY <1>2 DEF JumpInv
  <2>1. /\ origin # NoRange
        /\ \/ interval[1] = origin[1]
           \/ offset # 0 /\ offset <= interval[1]
    BY <1>2 DEF IInv, JumpInv, Running
  <2>2. interval # NoRange
    <3>1. origin[2] \in 1..MaxId
      BY <1>3, <2>1, RangeParts DEF TypeOK, Ids
    <3>2. origin[2] <= interval[2]
      BY DEF IInv, IntervalInv
    <3> QED
      BY <1>5, <3>1, <3>2
  <2>3. IsMin(buffer, offset)
    BY <1>2 DEF IInv, PageInv
  <2>4. offset = lo
    <3>1. offset <= lo /\ lo <= offset
      BY <1>1, <2>3 DEF IsMin
    <3> QED
      BY <1>3, <1>4, <3>1 DEF TypeOK
  <2> QED
    BY <1>4, <1>5, <1>6, <2>1, <2>2, <2>4
<1>18. PageInv'
  <2>1. ~last => IsMin(buffer, offset)
    BY <1>2 DEF IInv, PageInv
  <2>2. ASSUME clean, NEW m \in Ids \ buffer, m \in atStart,
               Floor(interval'[2]) < m, last \/ offset <= m
        PROVE  m \in stored \/ (origin[1] <= m /\ m <= origin[2]) \/ m \in skipped
    <3>1. Floor(interval[2]) < m
      BY <1>14, <1>15, <2>2 DEF Ids
    <3> QED
      BY <1>2, <2>2, <3>1 DEF IInv, PageInv, Wanted, Covered
  <2>3. Floor(interval[2])' = Floor(interval'[2])
    BY <1>2 DEF Floor
  <2> QED
    BY <1>2, <2>1, <2>2, <2>3 DEF PageInv, Wanted, Covered
<1>19. FetchInv' /\ RangeInv' /\ CleanRunCovers'
  BY <1>2, <1>9 DEF FetchInv, RangeInv, CleanRunCovers
<1> QED
  BY <1>2, <1>11, <1>12, <1>13, <1>16, <1>17, <1>18, <1>19 DEF IInv

-----------------------------------------------------------------------------
(* What follows insert_to_db.                                              *)

\* Where the window ends: a wanted message below the page is in the old range,
\* if the page is at or below the stop line.
LEMMA BelowTheLine ==
  ASSUME IInv, pc = "range", ~last, \A n \in buffer : n <= Line,
         NEW m \in Ids, Wanted(m), m < offset
  PROVE  stop = origin[2] /\ m < origin[2] /\ Floor(interval[2]) < stop
<1>1. TypeOK
  BY DEF IInv
<1>2. offset \in buffer
  BY DEF IInv, PageInv, IsMin
<1>3. offset <= Line
  BY <1>2
<1>4. /\ m \in Nat /\ offset \in Nat /\ stop \in Nat
      /\ interval[2] \in 0..MaxId
  BY <1>1, RangeParts DEF TypeOK, Ids
<1>5. Floor(interval[2]) \in Nat
  BY <1>1, <1>4, LimitIsNat, FloorProperties
<1>6. Floor(interval[2]) < m
  BY DEF Wanted
<1>7. Line = IF stop < Floor(interval[2]) THEN Floor(interval[2]) ELSE stop
  BY DEF Line, Maximum
<1>8. m < stop /\ Floor(interval[2]) < stop
  BY <1>3, <1>4, <1>5, <1>6, <1>7
<1>9. stop = origin[2]
  BY <1>4, <1>5, <1>8 DEF IInv, StopInv, Running
<1> QED
  BY <1>4, <1>8, <1>9

\* The run stops without a jump: the old range reaches down to the floor.
LEMMA StopCovers ==
  ASSUME IInv, pc = "range", ~last, ~jumping, clean,
         \A n \in buffer : n <= Line,
         NEW m \in Ids, Wanted(m)
  PROVE  Covered(m)
<1>1. TypeOK
  BY DEF IInv
<1>2. CASE m \in buffer
  BY <1>2 DEF IInv, RangeInv, Covered
<1>3. CASE m \notin buffer /\ offset <= m
  BY <1>3 DEF IInv, PageInv
<1>4. CASE ~(offset <= m)
  <2>1. m < offset /\ m \in 1..MaxId
    BY <1>1, <1>4 DEF TypeOK, Ids
  <2>2. stop = origin[2] /\ m < origin[2] /\ Floor(interval[2]) < stop
    BY <2>1, BelowTheLine
  <2>3. /\ origin[1] \in 0..MaxId /\ origin[2] \in 0..MaxId
        /\ interval[2] \in 0..MaxId /\ limit \in Nat /\ stop \in 0..MaxId
    BY <1>1, RangeParts, LimitIsNat DEF TypeOK
  <2>4. Floor(interval[2]) \in 0..MaxId /\ interval[2] - limit <= Floor(interval[2])
    BY <2>3, FloorProperties
  <2>5. ~Jumping(origin, limit)
    BY <2>2, <2>3, <2>4 DEF IInv, StopInv, Running
  <2>6. origin # NoRange
    <3>1. origin[2] # 0
      BY <2>1, <2>2, <2>3
    <3> QED
      BY <3>1 DEF NoRange
  <2>7. origin[2] <= interval[2]
    BY DEF IInv, IntervalInv
  <2>8. Floor(interval[2]) < m
    BY DEF Wanted
  <2>9. \/ ~(origin[1] > 1)
        \/ ~(limit > 1)
        \/ ~(origin[2] - origin[1] < limit - 1)
    BY <2>5, <2>6 DEF Jumping
  <2>10. interval[2] - limit < m
    BY <2>1, <2>3, <2>4, <2>8
  <2>11. origin[1] <= m
    <3>1. CASE ~(origin[1] > 1)
      BY <2>1, <2>3, <3>1
    <3>2. CASE ~(limit > 1)
      BY <2>1, <2>2, <2>3, <2>7, <2>10, <3>2
    <3>3. CASE ~(origin[2] - origin[1] < limit - 1)
      BY <2>1, <2>3, <2>7, <2>10, <3>3
    <3> QED
      BY <2>9, <3>1, <3>2, <3>3
  <2> QED
    BY <2>1, <2>2, <2>3, <2>11 DEF Covered
<1> QED
  BY <1>2, <1>3, <1>4

\* The run jumps below its interval: all but the id just below it is covered
\* from there on.
LEMMA JumpCovers ==
  ASSUME IInv, pc = "range", ~last, jumping, clean,
         \A n \in buffer : n <= Line,
         NEW m \in Ids, Wanted(m), interval[1] - 1 <= m
  PROVE  Covered(m) \/ m = interval[1] - 1
<1>1. TypeOK
  BY DEF IInv
<1>2. CASE m \in buffer
  BY <1>2 DEF IInv, RangeInv, Covered
<1>3. CASE m \notin buffer /\ offset <= m
  BY <1>3 DEF IInv, PageInv
<1>4. CASE ~(offset <= m) /\ m # interval[1] - 1
  <2>1. m < offset /\ m \in 1..MaxId /\ offset \in 0..MaxId
    BY <1>1, <1>4 DEF TypeOK, Ids
  <2>2. m < origin[2] /\ origin[2] \in 0..MaxId
    BY <1>1, <2>1, BelowTheLine, RangeParts DEF TypeOK
  <2>3. /\ origin[1] \in 0..MaxId /\ interval[1] \in 0..MaxId
    BY <1>1, RangeParts DEF TypeOK
  <2>4. \/ interval[1] = origin[1]
        \/ offset # 0 /\ offset <= interval[1]
    BY DEF IInv, JumpInv, Running
  <2>5. origin[1] <= m /\ m <= origin[2]
    BY <1>4, <2>1, <2>2, <2>3, <2>4
  <2> QED
    BY <2>5 DEF Covered
<1> QED
  BY <1>2, <1>3, <1>4

\* A step that ends or continues the run after the page's INSERT: ins says
\* that insert_to_db returned the largest id.  The page counts as stored then,
\* and the run has lost a page otherwise.
LEMMA AfterInsertIInv ==
  ASSUME IInv, pc \in {"insert", "range"}, NEW ins \in BOOLEAN, AfterInsert(ins),
         ins => pc = "range" /\ stored' = stored /\ clean' = clean
                /\ range' \in {range, interval},
         ~ins => clean' = FALSE /\ range' = range
                 /\ stored' \in {stored, stored \cup buffer},
         faults' \in 0..MaxFaults,
         UNCHANGED <<live, limit, origin, interval, last, nerr, runs, atStart, blind,
                     sameLimit>>
  PROVE  IInv'
<1>1. TypeOK /\ stored \subseteq stored' /\ stored' \subseteq stored \cup buffer
  BY DEF IInv
<1>2. clean' \in BOOLEAN /\ (clean' => clean /\ ins)
  <2>1. CASE ins
    BY <1>1, <2>1 DEF TypeOK
  <2>2. CASE ~ins
    BY <2>2
  <2> QED
    BY <2>1, <2>2
<1>3. /\ interval[1] \in 0..MaxId /\ interval[2] \in 0..MaxId
      /\ interval # NoRange => interval[1] \in 1..MaxId
      /\ Floor(interval[2]) \in 0..MaxId
      /\ limit \in Nat /\ stop \in 0..MaxId
      /\ interval[2] - limit <= Floor(interval[2])
  BY <1>1, RangeParts, LimitIsNat, FloorProperties DEF TypeOK, Ids
<1>4. Line \in 0..MaxId /\ Line = IF stop < Floor(interval[2]) THEN Floor(interval[2]) ELSE stop
  BY <1>3 DEF Line, Maximum
<1>5. \/ pc' \in {"complete", "panicked"} /\ UNCHANGED <<stop, jumping, offset, buffer, skipped>>
      \/ /\ ~last /\ ins /\ interval # NoRange /\ \A m \in buffer : m <= Line
         /\ jumping /\ jumping' = FALSE
         /\ stop' = Floor(interval[2])
         /\ offset' = interval[1] - 1
         /\ skipped' = skipped \cup {interval[1] - 1}
         /\ buffer' = {} /\ pc' = "fetch"
      \/ /\ ~last
         /\ stop' = Line /\ buffer' = {} /\ pc' = "fetch"
         /\ UNCHANGED <<jumping, offset, skipped>>
  BY DEF AfterInsert, Decide, End, line
<1>6. TypeOK'
  <2>1. stored' \subseteq Ids /\ range' \in Ranges /\ buffer' \subseteq Ids
    BY <1>1, <1>5 DEF TypeOK
  <2>2. pc' \in Between \cup Running
    BY <1>5 DEF Between, Running
  <2>3. stop' \in 0..MaxId
    BY <1>3, <1>4, <1>5
  <2>4. offset' \in 0..MaxId /\ skipped' \subseteq 0..MaxId
    <3>1. interval # NoRange => interval[1] - 1 \in 0..MaxId
      BY <1>3, FetchAssumption
    <3> QED
      BY <1>1, <1>5, <3>1 DEF TypeOK
  <2>5. jumping' \in BOOLEAN
    BY <1>1, <1>5 DEF TypeOK
  <2> QED
    BY <1>1, <1>2, <2>1, <2>2, <2>3, <2>4, <2>5 DEF TypeOK
<1>7. /\ Floor(interval[2])' = Floor(interval[2])
      /\ Jumping(origin, limit)' = Jumping(origin, limit)
  BY DEF Floor, Jumping
<1>8. IntervalInv' /\ WiderInv' /\ HonestRange'
  <2>1. IntervalInv'
    BY <1>1 DEF IInv, IntervalInv
  <2>2. CASE range' = range
    BY <1>1, <2>1, <2>2 DEF IInv, WiderInv, HonestRange
  <2>3. CASE range' = interval
    BY <1>1, <1>3, <2>1, <2>3 DEF IntervalInv, WiderInv, HonestRange
  <2> QED
    BY <2>2, <2>3, <2>1
<1>9. StopInv'
  <2>1. \/ stop = origin[2] /\ (jumping \/ ~Jumping(origin, limit))
        \/ stop <= Floor(interval[2])
    BY DEF IInv, StopInv, Running
  <2>2. ASSUME pc' \in Running
        PROVE  \/ stop' = origin[2] /\ (jumping' \/ ~Jumping(origin, limit))
               \/ stop' <= Floor(interval[2])
    <3>1. CASE stop' = Floor(interval[2])
      BY <1>3, <3>1
    <3>2. CASE stop' = Line /\ jumping' = jumping
      BY <1>3, <1>4, <2>1, <3>2
    <3> QED
      BY <1>5, <2>2, <3>1, <3>2 DEF Running
  <2> QED
    BY <1>7, <2>2 DEF StopInv
<1>10. JumpInv' /\ RangeInv' /\ PageInv'
  BY <1>5 DEF IInv, JumpInv, RangeInv, PageInv, Running
<1>11. FetchInv'
  <2> SUFFICES ASSUME pc' = "fetch"
               PROVE  /\ ~last
                      /\ clean' => \A m \in Ids :
                            m \in atStart /\ Floor(interval[2]) < m
                            /\ offset' # 0 /\ offset' <= m =>
                              \/ m \in stored'
                              \/ origin[1] <= m /\ m <= origin[2]
                              \/ m \in skipped'
    BY <1>7 DEF FetchInv, Wanted, Passed, Covered
  <2>1. ~last
    BY <1>5
  <2>2. ASSUME clean', NEW m \in Ids, m \in atStart, Floor(interval[2]) < m,
               offset' # 0, offset' <= m
        PROVE  \/ m \in stored'
               \/ origin[1] <= m /\ m <= origin[2]
               \/ m \in skipped'
    <3>1. clean /\ ins /\ pc = "range" /\ Wanted(m)
      BY <1>2, <2>2 DEF Wanted
    <3>2. CASE jumping /\ offset' = interval[1] - 1 /\ skipped' = skipped \cup {interval[1] - 1}
               /\ \A n \in buffer : n <= Line
      <4>1. Covered(m) \/ m = interval[1] - 1
        BY <2>1, <2>2, <3>1, <3>2, JumpCovers
      <4> QED
        BY <1>1, <3>2, <4>1 DEF Covered
    <3>3. CASE UNCHANGED <<offset, skipped>>
      <4>1. CASE m \in buffer
        BY <1>1, <3>1, <4>1 DEF IInv, RangeInv
      <4>2. CASE m \notin buffer
        BY <1>1, <2>2, <3>1, <3>3, <4>2 DEF IInv, PageInv, Covered
      <4> QED
        BY <4>1, <4>2
    <3> QED
      BY <1>5, <3>2, <3>3
  <2> QED
    BY <2>1, <2>2
<1>12. CleanRunCovers'
  <2> SUFFICES ASSUME pc' = "complete", clean', NEW m \in atStart,
                      m > interval[2] - limit
               PROVE  \/ m \in stored'
                      \/ origin[1] <= m /\ m <= origin[2]
                      \/ m \in skipped'
    BY DEF CleanRunCovers
  <2>1. clean /\ ins /\ pc = "range" /\ m \in Ids
    BY <1>1, <1>2 DEF IInv, TypeOK
  <2>2. Wanted(m)
    BY <1>3, <2>1 DEF Wanted, Floor, Maximum, Ids
  <2>3. Covered(m)
    <3>1. CASE last
      BY <2>1, <2>2, <3>1 DEF IInv, PageInv, RangeInv, Covered
    <3>2. CASE ~last
      <4>1. ~jumping /\ \A n \in buffer : n <= Line
        BY <3>2 DEF AfterInsert, Decide, End
      <4> QED
        BY <2>1, <2>2, <3>2, <4>1, StopCovers
    <3> QED
      BY <3>1, <3>2
  <2> QED
    BY <1>1, <1>5, <2>3 DEF Covered
<1> QED
  BY <1>6, <1>8, <1>9, <1>10, <1>11, <1>12 DEF IInv

\* Messages whose INSERT failed are not in the range.
LEMMA InsertFailIInv ==
  ASSUME IInv, InsertFail
  PROVE  IInv'
<1>1. faults' \in 0..MaxFaults
  BY FaultCounts DEF IInv, InsertFail
<1>2. /\ pc = "insert" /\ AfterInsert(FALSE) /\ clean' = FALSE
      /\ stored' \in {stored, stored \cup buffer} /\ range' = range
      /\ UNCHANGED <<live, limit, origin, interval, last, nerr, runs, atStart, blind,
                     sameLimit>>
  BY DEF InsertFail, fixed
<1> QED
  BY <1>1, <1>2, AfterInsertIInv

\* The stored range takes in what this fetch has inserted.
LEMMA SetRangeIInv ==
  ASSUME IInv, SetRange
  PROVE  IInv'
<1>1. faults' \in 0..MaxFaults
  BY FaultCounts DEF IInv, SetRange
<1>2. /\ pc = "range" /\ AfterInsert(TRUE) /\ clean' = clean
      /\ stored' = stored /\ range' \in {range, interval}
      /\ UNCHANGED <<live, limit, origin, interval, last, nerr, runs, atStart, blind,
                     sameLimit>>
  BY DEF SetRange, fixed
<1> QED
  BY <1>1, <1>2, AfterInsertIInv

\* Nothing of the model changes.
LEMMA StutterIInv ==
  ASSUME IInv, UNCHANGED vars
  PROVE  IInv'
BY DEF vars, IInv, TypeOK, IntervalInv, WiderInv, HonestRange, StopInv, JumpInv, FetchInv,
       PageInv, RangeInv, CleanRunCovers, Wanted, Passed, Covered, Floor, Jumping

\* Every step keeps the invariant.
LEMMA NextIInv ==
  ASSUME IInv, [Next]_vars
  PROVE  IInv'
<1>1. ASSUME NEW m \in Ids, Post(m) PROVE IInv'
  BY <1>1, PostIInv
<1>2. ASSUME NEW l \in Limits, Start(l) \/ StartBlind(l) PROVE IInv'
  BY <1>2, StartIInv
<1>3. ASSUME NEW p \in SUBSET live, FetchOk(p) PROVE IInv'
  BY <1>3, FetchOkIInv
<1>4. CASE FetchErr
  BY <1>4, FetchErrIInv
<1>5. CASE FetchAbort \/ Crash
  BY <1>5, CutShortIInv
<1>6. CASE Insert
  BY <1>6, InsertIInv
<1>7. CASE InsertFail
  BY <1>7, InsertFailIInv
<1>8. CASE SetRange
  BY <1>8, SetRangeIInv
<1>9. CASE Terminated \/ UNCHANGED vars
  BY <1>9, StutterIInv DEF Terminated
<1> QED
  BY <1>1, <1>2, <1>3, <1>4, <1>5, <1>6, <1>7, <1>8, <1>9 DEF Next, RunStep

\* So it holds in every state.
LEMMA IInvInvariant == Spec => []IInv
<1>1. Init => IInv
  BY InitIInv
<1>2. IInv /\ [Next]_vars => IInv'
  BY NextIInv
<1> QED
  BY <1>1, <1>2, PTL DEF Spec

-----------------------------------------------------------------------------
(* The theorems.                                                           *)

\* Every variable keeps its type: the stop line, the floor and the offsets
\* never leave 0..MaxId (telegram.rs 186, 206-214).
THEOREM TypeCorrect == Spec => []TypeOK
<1>1. IInv => TypeOK
  BY DEF IInv
<1> QED
  BY <1>1, IInvInvariant, PTL

\* The row of a channel never claims a range whose ends are not stored
\* (telegram.rs 135-148), whatever fails between the two statements.
THEOREM RangeIsHonest == Spec => []HonestRange
<1>1. IInv => HonestRange
  BY DEF IInv
<1> QED
  BY <1>1, IInvInvariant, PTL

\* A run that ends normally leaves out nothing but what an earlier run claims
\* and the ids just below a jump (telegram.rs 192-242).
THEOREM CompleteRunsCover == Spec => []CleanRunCovers
<1>1. IInv => CleanRunCovers
  BY DEF IInv
<1> QED
  BY <1>1, IInvInvariant, PTL

\* No run that could read the range ever shrinks it (telegram.rs 138-146).
THEOREM RangeOnlyGrows == Spec => RangeGrows
<1> DEFINE Grows == \/ range = NoRange
                    \/ blind
                    \/ range'[1] <= range[1] /\ range[2] <= range'[2]
<1>1. ASSUME IInv, [Next]_vars, range' # range
      PROVE  Grows
  <2>1. SetRange
    BY <1>1 DEF Next, RunStep, Post, Start, StartBlind, Begin, FetchOk, FetchErr,
                FetchAbort, Insert, InsertFail, Crash, Terminated, tables, vars
  <2>2. range' = interval
    BY <1>1, <2>1 DEF SetRange
  <2> QED
    BY <1>1, <2>2 DEF IInv, WiderInv
<1>2. IInv /\ [Next]_vars => [Grows]_range
  BY <1>1
<1>3. Spec => [][Grows]_range
  BY <1>2, IInvInvariant, PTL DEF Spec
<1> QED
  BY <1>3 DEF RangeGrows

-----------------------------------------------------------------------------
(* UpToDate: what holds as long as nothing has failed.                     *)

\* Without a failure every run has read its range and kept every page, and the
\* range in the table is the interval, but between the INSERT and the UPDATE.
CalmInv ==
  faults = 0 =>
    /\ ~blind /\ clean
    /\ runs = 0 => pc = "idle"
    /\ pc \in {"complete"} \cup Running \/ range = NoRange
    /\ pc # "range" => range = interval

\* The interval of a run takes in its old range, and no jump has skipped anything
\* above that.
SkippedInv ==
  faults = 0 =>
    /\ origin # NoRange => /\ interval # NoRange /\ interval[1] <= origin[1]
                           /\ origin[1] <= origin[2]
    /\ \A m \in skipped : m <= origin[2]

\* In the channel, above the old range and above the floor, and not above what the
\* run has seen.
Seen(m) ==
  /\ m \in live /\ origin[2] < m /\ Floor(interval[2]) < m
  /\ m <= interval[2] \/ \E n \in buffer : m <= n

\* What the run has come past is stored or at hand.
SeenInv ==
  faults = 0 =>
    /\ pc = "fetch" =>
         buffer = {} /\ \A m \in Ids : Seen(m) /\ (offset = 0 \/ offset <= m) => m \in stored
    /\ pc \in {"insert", "range"} =>
         \A m \in Ids \ buffer : Seen(m) /\ (last \/ offset <= m) => m \in stored
    /\ pc = "complete" =>
         \A m \in Ids : m \in live /\ origin[2] < m /\ Floor(interval[2]) < m
                          /\ m <= interval[2] => m \in stored

\* With one limit for all runs the old range is complete down to its own floor.
OriginInv ==
  faults = 0 /\ sameLimit =>
    \A m \in live : origin[2] - limit < m /\ m <= origin[2] => m \in stored

CalmIInv ==
  /\ stored \cup buffer \subseteq live
  /\ CalmInv /\ SkippedInv /\ SeenInv /\ OriginInv

\* After a failure nothing is claimed.
LEMMA FaultEndsCalm ==
  ASSUME TypeOK, Fault, stored' \cup buffer' \subseteq live'
  PROVE  CalmIInv'
<1>1. faults' # 0
  BY DEF TypeOK, Fault
<1> QED
  BY <1>1 DEF CalmIInv, CalmInv, SkippedInv, SeenInv, OriginInv

\* Before the first run there is neither range nor message.
LEMMA InitCalm == Init => CalmIInv
<1> SUFFICES ASSUME Init PROVE CalmIInv
  OBVIOUS
<1>1. CalmInv /\ SkippedInv /\ SeenInv
  BY DEF Init, CalmInv, SkippedInv, SeenInv, Running
<1>2. OriginInv /\ stored \cup buffer \subseteq live
  BY DEF Init, OriginInv
<1> QED
  BY <1>1, <1>2 DEF CalmIInv

\* A new message is above all that the run has seen, and above its old range.
LEMMA PostCalm ==
  ASSUME IInv, CalmIInv, NEW m \in Ids, Post(m)
  PROVE  CalmIInv'
<1>1. /\ live' = live \cup {m} /\ \A n \in live : n < m
      /\ UNCHANGED <<stored, range, pc, limit, origin, interval, stop, jumping, offset,
                     last, buffer, runs, faults, blind, sameLimit, clean, skipped>>
  BY DEF Post, tables, fixed, line, iterator
<1>2. /\ m \in 1..MaxId /\ interval[2] \in 0..MaxId /\ origin[2] \in 0..MaxId
      /\ interval # NoRange => interval[2] \in stored
      /\ interval = NoRange => interval[2] = 0
      /\ origin[2] <= interval[2] /\ buffer \subseteq 1..MaxId
  BY RangeParts DEF IInv, TypeOK, IntervalInv, Ids
<1>3. interval[2] < m /\ \A n \in buffer : n < m
  BY <1>1, <1>2 DEF CalmIInv
<1>4. origin[2] < m
  BY <1>2, <1>3
<1>5. ~(m <= interval[2]) /\ ~(m <= origin[2]) /\ \A n \in buffer : ~(m <= n)
  BY <1>2, <1>3, <1>4
<1>6. \A k : Seen(k)' => Seen(k)
  BY <1>1, <1>5 DEF Seen, Floor
<1>7. SeenInv'
  BY <1>1, <1>5, <1>6 DEF CalmIInv, SeenInv, Floor
<1>8. OriginInv'
  BY <1>1, <1>5 DEF CalmIInv, OriginInv
<1>9. CalmInv' /\ SkippedInv' /\ stored' \cup buffer' \subseteq live'
  BY <1>1 DEF CalmIInv, CalmInv, SkippedInv
<1> QED
  BY <1>7, <1>8, <1>9 DEF CalmIInv

\* A run starts with the range of the last, which has left it complete.
LEMMA StartCalm ==
  ASSUME IInv, CalmIInv, NEW l \in Limits, Start(l)
  PROVE  CalmIInv'
<1>1. /\ pc \in Between /\ runs' = runs + 1 /\ limit' = l
      /\ origin' = range /\ interval' = range /\ offset' = 0 /\ buffer' = {}
      /\ clean' = TRUE /\ blind' = FALSE /\ pc' = "fetch" /\ faults' = faults
      /\ sameLimit' = (runs = 0 \/ (sameLimit /\ l = limit))
      /\ UNCHANGED <<live, stored, range, skipped>>
  BY DEF Start, Begin, NoFault, tables
<1>2. CASE faults # 0
  BY <1>1, <1>2 DEF CalmIInv, CalmInv, SkippedInv, SeenInv, OriginInv
<1>3. CASE faults = 0
  <2>1. /\ range = interval
        /\ pc = "complete" \/ range = NoRange
        /\ runs = 0 => range = NoRange
    BY <1>1, <1>3 DEF CalmIInv, CalmInv, Between, Running
  <2>2. /\ interval[2] \in 0..MaxId /\ origin[2] \in 0..MaxId
        /\ interval[1] \in 0..MaxId /\ limit \in Nat /\ l \in Nat
        /\ origin[2] <= interval[2] /\ live \subseteq 1..MaxId
        /\ Floor(interval[2]) \in 0..MaxId
        /\ range = NoRange => range[2] = 0
    BY FetchAssumption, RangeParts, FloorProperties, LimitIsNat
       DEF IInv, TypeOK, IntervalInv, Ids
  <2>3. CalmInv'
    <3>1. runs' # 0
      BY <1>1 DEF IInv, TypeOK
    <3> QED
      BY <1>1, <2>1, <3>1 DEF CalmInv, Running
  <2>4. SkippedInv'
    <3>1. ASSUME NEW m \in skipped PROVE m <= range[2]
      <4>1. m <= origin[2] /\ m \in 0..MaxId
        BY <1>3 DEF CalmIInv, SkippedInv, IInv, TypeOK
      <4> QED
        BY <2>1, <2>2, <4>1
    <3>2. range[1] <= range[1] /\ (range # NoRange => range[1] <= range[2])
      BY <2>1, <2>2 DEF IInv, HonestRange
    <3> QED
      BY <1>1, <3>1, <3>2 DEF SkippedInv
  <2>5. SeenInv'
    <3>1. ASSUME NEW m \in Ids, Seen(m)' PROVE FALSE
      <4>1. m \in 1..MaxId /\ range[2] < m /\ m <= range[2]
        BY <1>1, <3>1 DEF Seen, Ids
      <4> QED
        BY <2>1, <2>2, <4>1
    <3> QED
      BY <1>1, <3>1 DEF SeenInv
  <2>6. OriginInv'
    <3> SUFFICES ASSUME sameLimit', NEW m \in live, range[2] - l < m, m <= range[2]
                 PROVE  m \in stored
      BY <1>1 DEF OriginInv
    <3>1. m \in 1..MaxId
      BY <2>2
    <3>2. range # NoRange
      BY <2>2, <3>1
    <3>3. pc = "complete" /\ sameLimit /\ l = limit
      BY <1>1, <2>1, <3>2
    <3>4. CASE origin[2] < m
      <4>1. Floor(interval[2]) < m
        BY <2>1, <2>2, <3>1, <3>3 DEF Floor, Maximum
      <4> QED
        BY <1>3, <2>1, <3>1, <3>3, <3>4, <4>1 DEF CalmIInv, SeenInv, Ids
    <3>5. CASE ~(origin[2] < m)
      <4>1. m <= origin[2] /\ origin[2] - limit < m
        BY <2>1, <2>2, <3>1, <3>3, <3>5
      <4> QED
        BY <1>3, <3>3, <4>1 DEF CalmIInv, OriginInv
    <3> QED
      BY <3>4, <3>5
  <2>7. stored' \cup buffer' \subseteq live'
    BY <1>1 DEF CalmIInv
  <2> QED
    BY <2>3, <2>4, <2>5, <2>6, <2>7 DEF CalmIInv
<1> QED
  BY <1>2, <1>3

\* What a page leaves out of what the run has seen then is stored.
LEMMA FetchOkCalm ==
  ASSUME IInv, CalmIInv, NEW p \in SUBSET live, FetchOk(p)
  PROVE  CalmIInv'
<1>1. /\ pc = "fetch" /\ IsPage(p)
      /\ last' = IsLast(p)
      /\ IsLast(p) => offset' = offset
      /\ ~IsLast(p) => IsMin(p, offset')
      /\ buffer' = p
      /\ pc' = IF p = {} THEN "complete" ELSE "insert"
      /\ UNCHANGED <<live, stored, range, limit, origin, interval,
                     runs, faults, atStart, blind, sameLimit, clean, skipped>>
  BY DEF FetchOk, NoFault, tables, fixed, line
<1>2. /\ TypeOK /\ live \subseteq 1..MaxId /\ offset \in 0..MaxId
      /\ interval[2] \in 0..MaxId
  BY RangeParts DEF IInv, TypeOK, Ids
<1>3. /\ CalmInv' /\ SkippedInv'
      /\ stored' \cup buffer' \subseteq live'
  BY <1>1 DEF CalmIInv, CalmInv, SkippedInv, Running
<1>4. OriginInv'
  BY <1>1 DEF CalmIInv, OriginInv
<1>5. SeenInv'
  <2> SUFFICES ASSUME faults = 0 PROVE SeenInv'
    BY <1>1 DEF SeenInv
  <2>1. \A m \in Ids : Seen(m) /\ (offset = 0 \/ offset <= m) => m \in stored
    BY <1>1 DEF CalmIInv, SeenInv
  <2>2. ASSUME NEW m \in Ids \ p, m \in live, origin[2] < m, Floor(interval[2]) < m,
               m <= interval[2] \/ \E n \in p : m <= n,
               IsLast(p) \/ offset' <= m
        PROVE  m \in stored
    <3>1. m \in 1..MaxId /\ m \in live
      BY <2>2 DEF Ids
    <3>2. m \notin Older
      <4>1. CASE IsLast(p)
        BY <1>1, <1>2, <2>2, <4>1, LastPageIsAll
      <4>2. CASE ~IsLast(p)
        <5>1. offset' \in p /\ offset' <= m /\ offset' \in 1..MaxId
          BY <1>1, <1>2, <2>2, <4>2 DEF IsMin
        <5>2. m \in Older => m < offset'
          BY <1>1, <2>2, <5>1 DEF IsPage
        <5> QED
          BY <3>1, <5>1, <5>2
      <4> QED
        BY <4>1, <4>2
    <3>3. offset # 0 /\ offset <= m
      BY <1>2, <3>1, <3>2 DEF Older
    <3>4. ASSUME NEW n \in p PROVE ~(m <= n)
      <4>1. n \in Older /\ n \in 1..MaxId
        BY <1>1, <1>2 DEF IsPage
      <4>2. n < offset
        BY <3>3, <4>1 DEF Older
      <4> QED
        BY <1>2, <3>1, <3>3, <4>1, <4>2
    <3>5. Seen(m)
      BY <2>2, <3>4 DEF Seen
    <3> QED
      BY <2>1, <3>3, <3>5
  <2>3. CASE p = {}
    <3>1. IsLast(p)
      BY <2>3 DEF IsLast
    <3> QED
      BY <1>1, <2>2, <2>3, <3>1 DEF SeenInv, Floor
  <2>4. CASE p # {}
    BY <1>1, <2>2, <2>4 DEF SeenInv, Seen, Floor
  <2> QED
    BY <2>3, <2>4
<1> QED
  BY <1>3, <1>4, <1>5 DEF CalmIInv

\* With the page in the table the interval reaches up to it.
LEMMA InsertCalm ==
  ASSUME IInv, CalmIInv, IInv', Insert
  PROVE  CalmIInv'
<1>1. PICK lo \in buffer, hi \in buffer :
        /\ IsMin(buffer, lo) /\ IsMax(buffer, hi)
        /\ interval' = Widened(lo, hi)
  BY DEF Insert
<1>2. /\ pc = "insert" /\ pc' = "range"
      /\ stored' = stored \cup buffer
      /\ UNCHANGED <<live, range, limit, origin, offset, last, buffer,
                     runs, faults, blind, sameLimit, clean, skipped>>
  BY DEF Insert, NoFault, fixed, line, iterator
<1>3. /\ lo \in 1..MaxId /\ hi \in 1..MaxId /\ limit \in Nat
      /\ interval[1] \in 0..MaxId /\ interval[2] \in 0..MaxId
      /\ interval'[1] \in 0..MaxId /\ interval'[2] \in 0..MaxId
      /\ origin[1] \in 0..MaxId
      /\ interval = NoRange => interval[2] = 0
      /\ interval' # NoRange
  BY <1>1, <1>2, RangeParts, LimitIsNat DEF IInv, TypeOK, RangeInv, Ids
<1>4. /\ interval'[1] = IF interval = NoRange \/ lo < interval[1] THEN lo ELSE interval[1]
      /\ interval'[2] = IF interval = NoRange \/ interval[2] < hi THEN hi ELSE interval[2]
  <2>1. CASE interval = NoRange
    BY <1>1, <2>1 DEF Widened
  <2>2. CASE interval # NoRange
    <3>1. interval' = <<Minimum(interval[1], lo), Maximum(interval[2], hi)>>
      BY <1>1, <2>2 DEF Widened
    <3>2. Minimum(interval[1], lo) = IF lo < interval[1] THEN lo ELSE interval[1]
      BY <1>3 DEF Minimum
    <3>3. Maximum(interval[2], hi) = IF interval[2] < hi THEN hi ELSE interval[2]
      BY DEF Maximum
    <3> QED
      BY <2>2, <3>1, <3>2, <3>3
  <2> QED
    BY <2>1, <2>2
<1>5. CalmInv' /\ stored' \cup buffer' \subseteq live'
  BY <1>2 DEF CalmIInv, CalmInv, Running
<1>6. OriginInv'
  BY <1>2 DEF CalmIInv, OriginInv
<1>7. SkippedInv'
  <2>1. interval # NoRange /\ interval[1] <= origin[1] => interval'[1] <= origin[1]
    BY <1>3, <1>4
  <2> QED
    BY <1>2, <1>3, <2>1 DEF CalmIInv, SkippedInv
<1>8. SeenInv'
  <2>1. interval[2] <= interval'[2]
    BY <1>3, <1>4
  <2>2. /\ Floor(interval[2]) <= Floor(interval'[2])
        /\ Floor(interval[2]) \in 0..MaxId /\ Floor(interval'[2]) \in 0..MaxId
    BY <1>3, <2>1, FloorProperties
  <2>3. Floor(interval[2])' = Floor(interval'[2])
    BY <1>2 DEF Floor
  <2>4. ASSUME NEW m \in Ids, Seen(m)' PROVE Seen(m)
    <3>1. /\ m \in live /\ origin[2] < m /\ Floor(interval'[2]) < m
          /\ m <= interval'[2] \/ \E n \in buffer : m <= n
      BY <1>2, <2>3, <2>4 DEF Seen
    <3>2. Floor(interval[2]) < m
      BY <2>2, <3>1 DEF Ids
    <3>3. m <= interval[2] \/ \E n \in buffer : m <= n
      BY <1>4, <3>1
    <3> QED
      BY <3>1, <3>2, <3>3 DEF Seen
  <2> QED
    BY <1>2, <2>4 DEF CalmIInv, SeenInv
<1> QED
  BY <1>5, <1>6, <1>7, <1>8 DEF CalmIInv

\* At the stop line: whatever the run has seen above the floor is stored.
LEMMA LineCovers ==
  ASSUME IInv, CalmIInv, faults = 0, pc = "range",
         last \/ \A n \in buffer : n <= Line,
         NEW m \in Ids, m \in live, origin[2] < m, Floor(interval[2]) < m, m <= interval[2]
  PROVE  m \in stored
<1>1. Seen(m)
  BY DEF Seen
<1>2. CASE m \in buffer
  BY <1>2 DEF IInv, RangeInv
<1>3. CASE m \notin buffer /\ (last \/ offset <= m)
  BY <1>1, <1>3 DEF CalmIInv, SeenInv
<1>4. CASE m \notin buffer /\ ~(last \/ offset <= m)
  <2>1. TypeOK /\ offset \in buffer
    BY <1>4 DEF IInv, PageInv, IsMin
  <2>2. offset <= Line
    BY <1>4, <2>1
  <2>3. /\ m \in Nat /\ offset \in Nat /\ stop \in Nat /\ origin[2] \in Nat
        /\ interval[2] \in 0..MaxId
    BY <2>1, RangeParts DEF TypeOK, Ids
  <2>4. Floor(interval[2]) \in Nat
    BY <2>1, <2>3, LimitIsNat, FloorProperties
  <2>5. Line = IF stop < Floor(interval[2]) THEN Floor(interval[2]) ELSE stop
    BY DEF Line, Maximum
  <2>6. m < stop
    BY <1>4, <2>2, <2>3, <2>4, <2>5
  <2>7. stop = origin[2] \/ stop <= Floor(interval[2])
    BY DEF IInv, StopInv, Running
  <2> QED
    BY <2>3, <2>4, <2>6, <2>7
<1> QED
  BY <1>2, <1>3, <1>4

\* The UPDATE of the range, and the end of the run, a jump or the next page.
LEMMA SetRangeCalm ==
  ASSUME IInv, CalmIInv, SetRange
  PROVE  CalmIInv'
<1>1. /\ pc = "range" /\ AfterInsert(TRUE)
      /\ (range' = interval /\ NoFault) \/ (range' = range /\ Fault)
      /\ UNCHANGED <<live, stored, limit, origin, interval, last, runs, blind,
                     sameLimit, clean>>
  BY DEF SetRange, fixed
<1>2. \/ pc' = "complete" /\ UNCHANGED <<buffer, skipped>>
      \/ interval = NoRange /\ UNCHANGED <<buffer, skipped>>
      \/ /\ interval # NoRange /\ \A m \in buffer : m <= Line
         /\ jumping /\ ~last
         /\ skipped' = skipped \cup {interval[1] - 1}
         /\ buffer' = {} /\ pc' = "fetch"
      \/ /\ ~last /\ buffer' = {} /\ pc' = "fetch"
         /\ UNCHANGED <<offset, skipped>>
  BY <1>1 DEF AfterInsert, Decide, End, line
<1>3. interval # NoRange
  BY <1>1 DEF IInv, RangeInv
<1>4. stored' \cup buffer' \subseteq live'
  BY <1>1, <1>2 DEF CalmIInv
<1>5. CASE Fault
  BY <1>4, <1>5, FaultEndsCalm DEF IInv
<1>6. CASE faults' = faults /\ faults # 0
  BY <1>4, <1>6 DEF CalmIInv, CalmInv, SkippedInv, SeenInv, OriginInv
<1>7. CASE faults' = faults /\ faults = 0 /\ range' = interval
  <2>1. CalmInv'
    <3>1. pc' \in {"complete", "fetch"}
      BY <1>1 DEF AfterInsert, Decide, End, IInv, RangeInv
    <3>2. runs # 0
      BY <1>1, <1>7 DEF CalmIInv, CalmInv
    <3> QED
      BY <1>1, <1>7, <3>1, <3>2 DEF CalmIInv, CalmInv, Running
  <2>2. OriginInv'
    BY <1>1, <1>7 DEF CalmIInv, OriginInv
  <2>3. SkippedInv'
    <3>1. /\ origin # NoRange => /\ interval # NoRange /\ interval[1] <= origin[1]
                                 /\ origin[1] <= origin[2]
          /\ \A m \in skipped : m <= origin[2]
      BY <1>7 DEF CalmIInv, SkippedInv
    <3>2. CASE skipped' = skipped
      BY <1>1, <3>1, <3>2 DEF SkippedInv
    <3>3. CASE jumping /\ ~last /\ skipped' = skipped \cup {interval[1] - 1}
      <4>1. origin # NoRange
        BY <1>1, <3>3 DEF IInv, JumpInv, Running
      <4>2. origin[1] \in 0..MaxId /\ origin[2] \in 0..MaxId /\ interval[1] \in 0..MaxId
        BY RangeParts DEF IInv, TypeOK
      <4>3. origin[1] <= origin[2]
        BY <3>1, <4>1
      <4>4. interval[1] - 1 <= origin[2]
        BY <3>1, <4>1, <4>2, <4>3
      <4> QED
        BY <1>1, <3>1, <3>3, <4>4 DEF SkippedInv
    <3> QED
      BY <1>2, <1>3, <3>2, <3>3
  <2>4. SeenInv'
    <3>1. \A m \in Ids : m \in live /\ origin[2] < m /\ Floor(interval[2]) < m
            /\ m <= interval[2] /\ (last \/ \A n \in buffer : n <= Line) => m \in stored
      BY <1>1, <1>7, LineCovers
    <3>2. Floor(interval[2])' = Floor(interval[2])
      BY <1>1 DEF Floor
    <3>3. CASE pc' = "complete"
      <4>1. last \/ \A n \in buffer : n <= Line
        BY <1>1, <3>3 DEF AfterInsert, Decide, End
      <4> QED
        BY <1>1, <3>1, <3>2, <3>3, <4>1 DEF SeenInv
    <3>4. CASE pc' = "fetch"
      <4>1. buffer' = {} /\ ~last
        BY <1>1, <3>4 DEF AfterInsert, Decide, End
      <4>2. ASSUME NEW m \in Ids, Seen(m)', offset' = 0 \/ offset' <= m
            PROVE  m \in stored
        <5>1. /\ m \in live /\ origin[2] < m /\ Floor(interval[2]) < m /\ m <= interval[2]
          BY <1>1, <3>2, <4>1, <4>2 DEF Seen
        <5>2. CASE \A n \in buffer : n <= Line
          BY <3>1, <5>1, <5>2
        <5>3. CASE offset' = offset
          <6>1. offset \in buffer
            BY <1>1, <4>1 DEF IInv, PageInv, IsMin
          <6>2. offset # 0
            BY <6>1, FetchAssumption DEF IInv, TypeOK, Ids
          <6>3. CASE m \in buffer
            BY <1>1, <6>3 DEF IInv, RangeInv
          <6>4. CASE m \notin buffer
            <7>1. Seen(m)
              BY <5>1 DEF Seen
            <7> QED
              BY <1>1, <1>7, <4>2, <5>3, <6>2, <6>4, <7>1 DEF CalmIInv, SeenInv
          <6> QED
            BY <6>3, <6>4
        <5> QED
          BY <1>2, <1>3, <3>4, <4>1, <5>2, <5>3
      <4> QED
        BY <1>1, <3>4, <4>1, <4>2 DEF SeenInv
    <3>5. pc' \in {"complete", "fetch"}
      BY <1>1, <1>3 DEF AfterInsert, Decide, End
    <3> QED
      BY <3>3, <3>4, <3>5
  <2> QED
    BY <1>4, <2>1, <2>2, <2>3, <2>4 DEF CalmIInv
<1> QED
  BY <1>1, <1>5, <1>6, <1>7 DEF NoFault

\* A step of the channel or the run that changes nothing of this.
LEMMA StutterCalm ==
  ASSUME CalmIInv, UNCHANGED vars \/ FetchErr
  PROVE  CalmIInv'
<1>1. UNCHANGED <<live, stored, range, pc, limit, origin, interval, offset,
                  last, buffer, runs, faults, blind, sameLimit, clean, skipped>>
  BY DEF vars, FetchErr, NoFault, tables, fixed, iterator
<1> QED
  BY <1>1 DEF CalmIInv, CalmInv, SkippedInv, SeenInv, OriginInv, Seen, Floor

\* Every step keeps it.
LEMMA NextCalm ==
  ASSUME IInv, CalmIInv, [Next]_vars
  PROVE  CalmIInv'
<1>1. ASSUME NEW m \in Ids, Post(m) PROVE CalmIInv'
  BY <1>1, PostCalm
<1>2. ASSUME NEW l \in Limits, Start(l) PROVE CalmIInv'
  BY <1>2, StartCalm
<1>3. ASSUME NEW p \in SUBSET live, FetchOk(p) PROVE CalmIInv'
  BY <1>3, FetchOkCalm
<1>4. CASE UNCHANGED vars \/ FetchErr \/ Terminated
  BY <1>4, StutterCalm DEF Terminated
<1>5. CASE Insert
  <2>1. IInv'
    BY NextIInv
  <2> QED
    BY <1>5, <2>1, InsertCalm
<1>6. CASE SetRange
  BY <1>6, SetRangeCalm
<1>7. CASE FetchAbort \/ InsertFail \/ Crash \/ \E l \in Limits : StartBlind(l)
  <2>1. Fault /\ TypeOK
    BY <1>7 DEF FetchAbort, InsertFail, Crash, StartBlind, IInv
  <2>2. stored' \cup buffer' \subseteq live'
    <3>1. live' = live /\ stored' \subseteq stored \cup buffer
      BY <1>7 DEF FetchAbort, InsertFail, Crash, StartBlind, Begin, tables
    <3>2. buffer' \subseteq buffer
      BY <1>7 DEF FetchAbort, InsertFail, Crash, StartBlind, Begin, End, AfterInsert, Decide
    <3> QED
      BY <3>1, <3>2 DEF CalmIInv
  <2> QED
    BY <2>1, <2>2, FaultEndsCalm
<1> QED
  BY <1>1, <1>2, <1>3, <1>4, <1>5, <1>6, <1>7 DEF Next, RunStep

\* "This command is aim to collecting (and updating) the content" (README.md 358):
\* for every channel, page size and limit, and any number of runs, if nothing fails
\* and the limit stays the same, a run that ends normally leaves the newest `limit`
\* ids of the channel stored (telegram.rs 174-242).  What a jump skips is no
\* exception then: an earlier run has it.
THEOREM RunsBringUpToDate == Spec => []UpToDate
<1>1. Init => CalmIInv
  BY InitCalm
<1>2. IInv /\ CalmIInv /\ [Next]_vars => CalmIInv'
  BY NextCalm
<1>3. IInv /\ CalmIInv => UpToDate
  <2> SUFFICES ASSUME IInv, CalmIInv, pc = "complete", faults = 0, sameLimit,
                      NEW m \in atStart, m > interval[2] - limit
               PROVE  m \in stored
    BY DEF UpToDate
  <2>1. clean /\ m \in live
    BY DEF IInv, CalmIInv, CalmInv
  <2>2. m \in stored \/ m <= origin[2]
    <3>1. m \in stored \/ (origin[1] <= m /\ m <= origin[2]) \/ m \in skipped
      BY <2>1 DEF IInv, CleanRunCovers
    <3> QED
      BY <3>1 DEF CalmIInv, SkippedInv
  <2>3. origin[2] - limit < m
    <3>1. /\ m \in Nat /\ limit \in Nat /\ origin[2] \in 0..MaxId /\ interval[2] \in 0..MaxId
          /\ origin[2] <= interval[2]
      BY <2>1, RangeParts, LimitIsNat DEF IInv, TypeOK, IntervalInv, Ids
    <3> QED
      BY <3>1
  <2> QED
    BY <2>1, <2>2, <2>3 DEF CalmIInv, OriginInv
<1> QED
  BY <1>1, <1>2, <1>3, IInvInvariant, PTL DEF Spec
=============================================================================
