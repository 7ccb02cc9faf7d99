-------------------------- MODULE ListScraperProofs --------------------------
(***************************************************************************)
(* Type correctness of ListScraper, the coverage of undisturbed visits,    *)
(* and that undisturbed runs are up to date, for every number of sections, *)
(* page size, number of posts, runs and failures, and every set of posts   *)
(* that cannot be read.                                                    *)
(***************************************************************************)
EXTENDS ListScraper, SequenceTheorems, TLAPS

Listing == site[section]

\* The ids of a list leave room for those below them, so that it is never
\* longer than MaxId and `Beyond` is past its end.
RoomInv ==
  \A s \in Sections : \A i \in DOMAIN site[s] : site[s][i] >= Len(site[s]) + 1 - i

\* Before the first page of a visit nothing has been stored.
FirstInv == pc = "load" /\ page = 1 => posts = known /\ arrived = 0

\* In an undisturbed visit the posts of its start stay.
StayInv == pc \in Running /\ clean => atStart \subseteq InSeq(Listing)

Wanted(p) == p \in atStart \ Unreadable

\* The pages that have been read reach down to position n of the list: what is
\* wanted above it is in P, and what the visit has stored is above it.
ReadTo(n, P) ==
  /\ \A i \in DOMAIN Listing : Wanted(Listing[i]) /\ i <= n => Listing[i] \in P
  /\ \A i \in DOMAIN Listing : Listing[i] \in P \ known => i <= n

LoadInv == pc = "load" /\ clean => ReadTo((page - 1) * Size + arrived, posts)

\* With a page in hand, and a post on it that the visit has not stored before,
\* unless the list ends here.
InsertInv ==
  pc = "insert" /\ clean =>
    LET n == page * Size + arrived
    IN  /\ ReadTo(n, posts \cup res)
        /\ \/ n >= Len(Listing)
           \/ \E k \in DOMAIN Listing :
                k <= n /\ Listing[k] \in res /\ (Listing[k] \in posts => Listing[k] \in known)

IInv ==
  /\ TypeOK
  /\ RoomInv
  /\ FirstInv
  /\ StayInv
  /\ LoadInv
  /\ InsertInv
  /\ CleanVisitCovers

-----------------------------------------------------------------------------
(* Lists.                                                                  *)

\* A post in front of a listing moves the others down by one.
LEMMA Prepended ==
  ASSUME NEW q \in Seq(Ids), NEW p \in Ids
  PROVE  /\ <<p>> \o q \in Seq(Ids)
         /\ Len(<<p>> \o q) = Len(q) + 1
         /\ (<<p>> \o q)[1] = p
         /\ \A i \in 1..Len(q) : (<<p>> \o q)[i + 1] = q[i]
<1>1. <<p>> \in Seq(Ids) /\ Len(<<p>>) = 1 /\ <<p>>[1] = p
  OBVIOUS
<1>2. Len(q) \in Nat
  BY LenProperties
<1> HIDE DEF Ids
<1>3. /\ <<p>> \o q \in Seq(Ids)
      /\ Len(<<p>> \o q) = 1 + Len(q)
      /\ \A i \in 1..(1 + Len(q)) : (<<p>> \o q)[i] = IF i <= 1 THEN <<p>>[i] ELSE q[i - 1]
  BY <1>1, ConcatProperties
<1>4. ASSUME NEW i \in 1..Len(q) PROVE (<<p>> \o q)[i + 1] = q[i]
  <2>1. i + 1 \in 1..(1 + Len(q)) /\ ~(i + 1 <= 1) /\ i + 1 - 1 = i
    BY <1>2
  <2> QED
    BY <2>1, <1>3
<1> QED
  BY <1>1, <1>2, <1>3, <1>4

\* Without the post at i those behind it move up by one.
LEMMA Removed ==
  ASSUME NEW q \in Seq(Ids), NEW i \in DOMAIN q
  PROVE  /\ Without(q, i) \in Seq(Ids)
         /\ Len(Without(q, i)) = Len(q) - 1
         /\ \A j \in 1..(Len(q) - 1) :
              Without(q, i)[j] = IF j < i THEN q[j] ELSE q[j + 1]
<1> DEFINE n == Len(q)
           r == Without(q, i)
           a == SubSeq(q, 1, i - 1)
           b == SubSeq(q, i + 1, n)
<1>1. n \in Nat /\ DOMAIN q = 1..n /\ i \in 1..n
  BY LenProperties
<1>2. \A k \in 1..n : q[k] \in Ids
  BY <1>1, ElementOfSeq
<1> HIDE DEF n
<1>3. /\ a \in Seq(Ids)
      /\ Len(a) = i - 1
      /\ \A k \in 1..(i - 1) : a[k] = q[k]
  <2>1. \A k \in 1..(i - 1) : q[k] \in Ids
    BY <1>1, <1>2
  <2>2. /\ a \in Seq(Ids)
        /\ Len(a) = IF 1 <= i - 1 THEN i - 1 - 1 + 1 ELSE 0
        /\ \A k \in 1..(i - 1 - 1 + 1) : a[k] = q[1 + k - 1]
    BY <2>1, <1>1, SubSeqProperties
  <2> HIDE DEF a
  <2> QED
    BY <2>2, <1>1
<1>4. /\ b \in Seq(Ids)
      /\ Len(b) = n - i
      /\ \A k \in 1..(n - i) : b[k] = q[i + k]
  <2>1. \A k \in (i + 1)..n : q[k] \in Ids
    BY <1>1, <1>2
  <2>2. /\ b \in Seq(Ids)
        /\ Len(b) = IF i + 1 <= n THEN n - (i + 1) + 1 ELSE 0
        /\ \A k \in 1..(n - (i + 1) + 1) : b[k] = q[i + 1 + k - 1]
    BY <2>1, <1>1, SubSeqProperties
  <2> HIDE DEF b
  <2>3. n - (i + 1) + 1 = n - i
    BY <1>1
  <2>4. Len(b) = n - i
    BY <2>2, <1>1
  <2>5. \A k \in 1..(n - i) : b[k] = q[i + 1 + k - 1] /\ i + 1 + k - 1 = i + k
    BY <2>2, <2>3, <1>1
  <2> QED
    BY <2>2, <2>4, <2>5
<1>5. r = a \o b
  BY DEF n, Without
<1> HIDE DEF a, b, r
<1>6. /\ r \in Seq(Ids)
      /\ Len(r) = Len(a) + Len(b)
      /\ \A k \in 1..(Len(a) + Len(b)) : r[k] = IF k <= Len(a) THEN a[k] ELSE b[k - Len(a)]
  BY <1>3, <1>4, <1>5, ConcatProperties
<1>7. Len(r) = n - 1
  BY <1>1, <1>3, <1>4, <1>6
<1>8. ASSUME NEW j \in 1..(n - 1) PROVE r[j] = IF j < i THEN q[j] ELSE q[j + 1]
  <2>1. r[j] = IF j <= i - 1 THEN a[j] ELSE b[j - (i - 1)]
    BY <1>1, <1>3, <1>4, <1>6
  <2>2. CASE j < i
    BY <2>1, <2>2, <1>1, <1>3
  <2>3. CASE ~(j < i)
    <3>1. j - (i - 1) \in 1..(n - i) /\ i + (j - (i - 1)) = j + 1
      BY <2>3, <1>1
    <3>2. ~(j <= i - 1)
      BY <2>3, <1>1
    <3>3. b[j - (i - 1)] = q[i + (j - (i - 1))]
      BY <3>1, <1>4
    <3> QED
      BY <2>1, <2>3, <3>1, <3>2, <3>3
  <2> QED
    BY <2>2, <2>3
<1> QED
  BY <1>6, <1>7, <1>8 DEF n, r

\* What the types say of one list.
LEMMA ListType ==
  ASSUME TypeOK, NEW s \in Sections
  PROVE  /\ site[s] \in Seq(Ids)
         /\ Len(site[s]) \in Nat
         /\ DOMAIN site[s] = 1..Len(site[s])
         /\ \A i \in DOMAIN site[s] : site[s][i] \in Ids
         /\ \A i, j \in DOMAIN site[s] : site[s][i] = site[s][j] => i = j
<1>1. site[s] \in Seq(Ids)
  BY DEF TypeOK
<1>2. Len(site[s]) \in Nat /\ DOMAIN site[s] = 1..Len(site[s])
  BY <1>1, LenProperties
<1>3. \A i \in DOMAIN site[s] : site[s][i] \in Ids
  BY <1>1, <1>2, ElementOfSeq
<1>4. ASSUME NEW i \in DOMAIN site[s], NEW j \in DOMAIN site[s], site[s][i] = site[s][j]
      PROVE  i = j
  <2>1. i < j => site[s][j] < site[s][i]
    BY DEF TypeOK
  <2>2. j < i => site[s][i] < site[s][j]
    BY DEF TypeOK
  <2> QED
    BY <2>1, <2>2, <1>2, <1>3, <1>4 DEF Ids
<1> QED
  BY <1>1, <1>2, <1>3, <1>4

\* No list is longer than MaxId.
LEMMA ShortList ==
  ASSUME TypeOK, RoomInv, NEW s \in Sections
  PROVE  Len(site[s]) <= MaxId
<1>1. /\ Len(site[s]) \in Nat
      /\ DOMAIN site[s] = 1..Len(site[s])
      /\ \A i \in DOMAIN site[s] : site[s][i] \in Ids
  BY ListType
<1>2. CASE Len(site[s]) = 0
  BY <1>2, ListAssumption
<1>3. CASE Len(site[s]) # 0
  <2>1. 1 \in DOMAIN site[s]
    BY <1>1, <1>3
  <2>2. site[s][1] >= Len(site[s]) + 1 - 1
    BY <2>1 DEF RoomInv
  <2> QED
    BY <2>1, <2>2, <1>1, ListAssumption DEF Ids
<1> QED
  BY <1>2, <1>3

\* A counter of failures stays in its bound; a failure disturbs the visit.
LEMMA FaultCounts ==
  ASSUME TypeOK, Fault
  PROVE  faults' \in 0..MaxFaults /\ clean' = FALSE /\ calm' = FALSE
BY ListAssumption DEF TypeOK, Fault

-----------------------------------------------------------------------------
\* The invariant holds before the first run.
LEMMA InitIInv == Init => IInv
<1> SUFFICES ASSUME Init PROVE IInv
  OBVIOUS
<1>1. \A s \in Sections : site[s] = <<>> /\ DOMAIN site[s] = {}
  BY DEF Init
<1>2. TypeOK
  BY <1>1, ListAssumption DEF Init, TypeOK, Between, Sections, Beyond
<1> QED
  BY <1>1, <1>2
     DEF Init, IInv, RoomInv, FirstInv, StayInv, LoadInv, InsertInv, CleanVisitCovers, Running

-----------------------------------------------------------------------------
(* The site.                                                               *)

\* The list with a new post in front.
LEMMA PostList ==
  ASSUME TypeOK, RoomInv, NEW s \in Sections, NEW p \in Ids, Post(s, p)
  PROVE  /\ site' \in [Sections -> Seq(Ids)]
         /\ \A t \in Sections \ {s} : site'[t] = site[t]
         /\ Len(site'[s]) = Len(site[s]) + 1
         /\ site'[s][1] = p
         /\ \A i \in DOMAIN site[s] : site'[s][i + 1] = site[s][i] /\ site[s][i] < p
         /\ \A i \in DOMAIN site'[s] : i = 1 \/ i - 1 \in DOMAIN site[s]
<1>1. site[s] \in Seq(Ids) /\ Len(site[s]) \in Nat /\ DOMAIN site[s] = 1..Len(site[s])
  BY ListType
<1>2. /\ site'[s] = <<p>> \o site[s]
      /\ \A t \in Sections \ {s} : site'[t] = site[t]
      /\ site' = [site EXCEPT ![s] = <<p>> \o site[s]]
  BY DEF Post, TypeOK
<1>3. /\ site'[s] \in Seq(Ids)
      /\ Len(site'[s]) = Len(site[s]) + 1
      /\ site'[s][1] = p
      /\ \A i \in 1..Len(site[s]) : site'[s][i + 1] = site[s][i]
  BY <1>1, <1>2, Prepended
<1>4. \A i \in DOMAIN site[s] : site[s][i] < p
  BY DEF Post, InSeq
<1>5. DOMAIN site'[s] = 1..(Len(site[s]) + 1)
  BY <1>3, LenProperties
<1>6. site' \in [Sections -> Seq(Ids)]
  BY <1>2, <1>3 DEF TypeOK
<1> QED
  BY <1>1, <1>2, <1>3, <1>4, <1>5, <1>6

\* A new post comes in front of its section, if there is room.
LEMMA PostTypes ==
  ASSUME TypeOK, RoomInv, NEW s \in Sections, NEW p \in Ids, Post(s, p)
  PROVE  TypeOK' /\ RoomInv'
<1>1. /\ site' \in [Sections -> Seq(Ids)]
      /\ \A t \in Sections \ {s} : site'[t] = site[t]
      /\ Len(site'[s]) = Len(site[s]) + 1
      /\ site'[s][1] = p
      /\ \A i \in DOMAIN site[s] : site'[s][i + 1] = site[s][i] /\ site[s][i] < p
      /\ \A i \in DOMAIN site'[s] : i = 1 \/ i - 1 \in DOMAIN site[s]
  BY PostList
<1>2. /\ Len(site[s]) \in Nat
      /\ DOMAIN site[s] = 1..Len(site[s])
      /\ \A i \in DOMAIN site[s] : site[s][i] \in Ids
  BY ListType
<1>3. DOMAIN site'[s] \subseteq Nat
  BY <1>1, LenProperties
<1>4. \A i \in DOMAIN site'[s] :
        \/ i = 1 /\ site'[s][i] = p
        \/ i - 1 \in DOMAIN site[s] /\ site'[s][i] = site[s][i - 1] /\ site'[s][i] < p
  <2> SUFFICES ASSUME NEW i \in DOMAIN site'[s], i # 1
               PROVE  /\ i - 1 \in DOMAIN site[s]
                      /\ site'[s][i] = site[s][i - 1]
                      /\ site'[s][i] < p
    BY <1>1
  <2>1. i - 1 \in DOMAIN site[s] /\ i - 1 + 1 = i
    BY <1>1, <1>3
  <2> QED
    BY <2>1, <1>1
<1>5. ASSUME NEW t \in Sections, NEW i \in DOMAIN site'[t], NEW j \in DOMAIN site'[t], i < j
      PROVE  site'[t][j] < site'[t][i]
  <2>1. CASE t # s
    BY <1>1, <1>5, <2>1 DEF TypeOK
  <2>2. CASE t = s
    <3>1. j # 1 /\ j - 1 \in DOMAIN site[s] /\ site'[s][j] = site[s][j - 1] /\ site'[s][j] < p
      BY <1>1, <1>2, <1>3, <1>4, <1>5, <2>2
    <3>2. CASE i = 1
      BY <1>1, <2>2, <3>1, <3>2
    <3>3. CASE i # 1
      <4>1. i - 1 \in DOMAIN site[s] /\ site'[s][i] = site[s][i - 1] /\ i - 1 < j - 1
        BY <1>3, <1>4, <1>5, <2>2, <3>3
      <4> QED
        BY <3>1, <4>1, <2>2 DEF TypeOK
    <3> QED
      BY <3>2, <3>3
  <2> QED
    BY <2>1, <2>2
<1>6. TypeOK'
  <2>1. UNCHANGED <<posts, pc, section, page, res, runs, faults, atStart, known, clean, calm>>
    BY DEF Post, program, past, NoFault
  <2>2. arrived' \in Nat
    BY DEF Post, TypeOK
  <2> QED
    BY <1>1, <1>5, <2>1, <2>2 DEF TypeOK
<1>7. ASSUME NEW t \in Sections, NEW i \in DOMAIN site'[t]
      PROVE  site'[t][i] >= Len(site'[t]) + 1 - i
  <2>1. CASE t # s
    BY <1>1, <2>1 DEF RoomInv
  <2>2. CASE t = s /\ i = 1
    <3> SUFFICES p >= Len(site[s]) + 1
      BY <1>1, <1>2, <2>2
    <3> p \in Int /\ p >= 1
      BY ListAssumption DEF Ids
    <3>1. CASE Len(site[s]) = 0
      BY <3>1
    <3>2. CASE Len(site[s]) # 0
      <4>1. 1 \in DOMAIN site[s] /\ site[s][1] \in Ids
        BY <1>2, <3>2
      <4>2. site[s][1] >= Len(site[s]) + 1 - 1
        BY <4>1 DEF RoomInv
      <4>3. site[s][1] \in Int /\ site[s][1] < p
        BY <4>1, <1>1, ListAssumption DEF Ids
      <4> QED
        BY <1>2, <4>2, <4>3
    <3> QED
      BY <3>1, <3>2
  <2>3. CASE t = s /\ i # 1
    <3>1. i - 1 \in DOMAIN site[s] /\ site'[s][i] = site[s][i - 1]
      BY <1>4, <2>3
    <3>2. site[s][i - 1] >= Len(site[s]) + 1 - (i - 1)
      BY <3>1 DEF RoomInv
    <3> QED
      BY <1>1, <1>2, <1>3, <2>3, <3>1, <3>2 DEF Ids
  <2> QED
    BY <2>1, <2>2, <2>3
<1> QED
  BY <1>6, <1>7 DEF RoomInv

\* What has been read so far shifts with the list.
LEMMA PostReadTo ==
  ASSUME IInv, NEW p \in Ids, Post(section, p), NEW n \in Int, NEW P,
         ReadTo(n, P), atStart \subseteq InSeq(Listing), n >= 0
  PROVE  /\ \A i \in DOMAIN Listing' : Wanted(Listing'[i]) /\ i <= n + 1 => Listing'[i] \in P
         /\ \A i \in DOMAIN Listing' : Listing'[i] \in P \ known => i <= n + 1
<1> section \in Sections
  BY DEF IInv, TypeOK
<1>1. /\ UNCHANGED section
      /\ Len(site'[section]) = Len(site[section]) + 1
      /\ site'[section][1] = p
      /\ \A i \in DOMAIN site[section] : site'[section][i + 1] = site[section][i]
                                       /\ site[section][i] < p
      /\ \A i \in DOMAIN site'[section] : i = 1 \/ i - 1 \in DOMAIN site[section]
  BY PostList DEF IInv, Post, program
<1>2. DOMAIN site[section] = 1..Len(site[section]) /\ Len(site[section]) \in Nat
  BY ListType DEF IInv
<1>3. p \notin atStart
  BY <1>1 DEF InSeq, Listing, IInv, TypeOK, Ids
<1>4. ASSUME NEW i \in DOMAIN site'[section], i # 1
      PROVE  /\ i - 1 \in DOMAIN site[section]
             /\ i \in Int
             /\ site'[section][i] = site[section][i - 1]
  <2>1. i - 1 \in DOMAIN site[section]
    BY <1>1, <1>4
  <2>2. i \in Int
    <3>1. site'[section] \in Seq(Ids)
      BY PostList DEF IInv
    <3> QED
      BY <3>1, LenProperties
  <2>3. site'[section][(i - 1) + 1] = site[section][i - 1] /\ (i - 1) + 1 = i
    BY <1>1, <2>1, <2>2
  <2> QED
    BY <2>1, <2>2, <2>3
<1>5. ASSUME NEW i \in DOMAIN site'[section]
      PROVE  /\ Wanted(site'[section][i]) /\ i <= n + 1 => site'[section][i] \in P
             /\ site'[section][i] \in P \ known => i <= n + 1
  <2>1. CASE i = 1
    BY <1>1, <1>3, <2>1 DEF Wanted
  <2>2. CASE i # 1
    <3>1. /\ i - 1 \in DOMAIN site[section]
          /\ i \in Int
          /\ site'[section][i] = site[section][i - 1]
      BY <1>4, <2>2
    <3>2. i <= n + 1 <=> i - 1 <= n
      BY <3>1
    <3> QED
      BY <3>1, <3>2 DEF ReadTo, Listing
  <2> QED
    BY <2>1, <2>2
<1> QED
  BY <1>1, <1>5 DEF Listing

\* A new post moves the others down, and `arrived` counts it.
LEMMA PostIInv ==
  ASSUME IInv, NEW s \in Sections, NEW p \in Ids, Post(s, p)
  PROVE  IInv'
<1>1. TypeOK' /\ RoomInv'
  BY PostTypes DEF IInv
<1>2. UNCHANGED <<posts, pc, section, page, res, runs, faults, atStart, known, clean, calm>>
  BY DEF Post, program, past, NoFault
<1> section \in Sections /\ page \in Nat \ {0} /\ arrived \in Nat /\ Size \in Nat \ {0}
  BY ListAssumption DEF IInv, TypeOK, Beyond
<1>3. FirstInv'
  BY <1>2 DEF IInv, FirstInv, Post, UnderWay
<1>4. /\ site' \in [Sections -> Seq(Ids)]
      /\ \A t \in Sections \ {s} : site'[t] = site[t]
      /\ Len(site'[s]) = Len(site[s]) + 1
      /\ \A i \in DOMAIN site[s] : site'[s][i + 1] = site[s][i]
  BY PostList DEF IInv
<1>5. \A i \in DOMAIN site[s] : i \in Nat \ {0} /\ i + 1 \in DOMAIN site'[s]
  <2>1. DOMAIN site[s] = 1..Len(site[s]) /\ Len(site[s]) \in Nat
    BY ListType DEF IInv
  <2>2. DOMAIN site'[s] = 1..Len(site'[s])
    BY <1>4, LenProperties
  <2> QED
    BY <2>1, <2>2, <1>4
<1>6. InSeq(Listing) \subseteq InSeq(Listing')
  <2>1. CASE s # section
    BY <1>2, <1>4, <2>1 DEF Listing
  <2>2. CASE s = section
    BY <1>2, <1>4, <1>5, <2>2 DEF Listing, InSeq
  <2> QED
    BY <2>1, <2>2
<1>7. StayInv'
  BY <1>2, <1>6 DEF IInv, StayInv
<1>8. CleanVisitCovers'
  BY <1>2, <1>6 DEF IInv, CleanVisitCovers, Listing
<1>9. CASE s # section
  <2>1. UNCHANGED <<Listing, arrived>>
    BY <1>2, <1>4, <1>9 DEF Listing, Post
  <2> QED
    BY <1>1, <1>2, <1>3, <1>7, <1>8, <2>1 DEF IInv, LoadInv, InsertInv, ReadTo, Wanted
<1>10. CASE s = section
  <2>1. LoadInv'
    <3> SUFFICES ASSUME pc = "load", clean
                 PROVE  ReadTo((page - 1) * Size + arrived, posts)'
      BY <1>2 DEF LoadInv
    <3> DEFINE n == (page - 1) * Size + arrived
    <3>1. n \in Nat /\ ReadTo(n, posts) /\ atStart \subseteq InSeq(Listing)
      BY DEF IInv, LoadInv, StayInv, Running
    <3>2. CASE page = 1
      <4>1. arrived' = 0 /\ posts \ known = {}
        BY <1>10, <3>2 DEF IInv, FirstInv, Post, UnderWay
      <4>2. (page - 1) * Size + 0 = 0
        BY <3>2
      <4>3. \A i \in DOMAIN Listing' : i \in Nat \ {0}
        BY <1>2, <1>4, LenProperties DEF Listing
      <4>4. (page' - 1) * Size + arrived' = 0
        BY <1>2, <4>1, <4>2
      <4> QED
        BY <1>2, <4>1, <4>3, <4>4 DEF ReadTo
    <3>3. CASE page # 1
      <4>1. arrived' = arrived + 1
        BY <1>10, <3>3 DEF Post, UnderWay
      <4>2. (page' - 1) * Size + arrived' = n + 1
        BY <1>2, <4>1
      <4> HIDE DEF n
      <4>3. /\ \A i \in DOMAIN Listing' : Wanted(Listing'[i]) /\ i <= n + 1 => Listing'[i] \in posts
            /\ \A i \in DOMAIN Listing' : Listing'[i] \in posts \ known => i <= n + 1
        BY <1>10, <3>1, PostReadTo
      <4> QED
        BY <1>2, <4>2, <4>3 DEF ReadTo, Wanted
    <3> QED
      BY <3>2, <3>3
  <2>2. InsertInv'
    <3> SUFFICES ASSUME pc = "insert", clean
                 PROVE  InsertInv'
      BY <1>2 DEF InsertInv
    <3> DEFINE n == page * Size + arrived
    <3>1. /\ n \in Nat /\ ReadTo(n, posts \cup res) /\ atStart \subseteq InSeq(Listing)
          /\ \/ n >= Len(Listing)
             \/ \E k \in DOMAIN Listing :
                  k <= n /\ Listing[k] \in res /\ (Listing[k] \in posts => Listing[k] \in known)
      BY DEF IInv, InsertInv, StayInv, Running
    <3>2. arrived' = arrived + 1
      BY <1>10 DEF Post, UnderWay
    <3>3. page' * Size + arrived' = n + 1
      BY <1>2, <3>2
    <3> HIDE DEF n
    <3>4. /\ \A i \in DOMAIN Listing' :
               Wanted(Listing'[i]) /\ i <= n + 1 => Listing'[i] \in posts \cup res
          /\ \A i \in DOMAIN Listing' : Listing'[i] \in (posts \cup res) \ known => i <= n + 1
      BY <1>10, <3>1, PostReadTo
    <3>5. ReadTo(page * Size + arrived, posts \cup res)'
      BY <1>2, <3>4, <3>3 DEF ReadTo, Wanted
    <3>6. \/ n + 1 >= Len(Listing')
          \/ \E k \in DOMAIN Listing' :
               /\ k <= n + 1 /\ Listing'[k] \in res'
               /\ Listing'[k] \in posts' => Listing'[k] \in known'
      <4>1. CASE n >= Len(Listing)
        <5>1. Len(Listing') = Len(Listing) + 1 /\ Len(Listing) \in Nat
          BY <1>2, <1>4, <1>10, ListType DEF Listing, IInv
        <5> QED
          BY <3>1, <4>1, <5>1
      <4>2. CASE ~(n >= Len(Listing))
        <5>1. PICK k \in DOMAIN Listing :
                k <= n /\ Listing[k] \in res /\ (Listing[k] \in posts => Listing[k] \in known)
          BY <3>1, <4>2
        <5>2. k \in Nat /\ k + 1 \in DOMAIN Listing' /\ Listing'[k + 1] = Listing[k]
          BY <1>2, <1>4, <1>5, <1>10 DEF Listing
        <5> QED
          BY <1>2, <3>1, <5>1, <5>2
      <4> QED
        BY <4>1, <4>2
    <3> QED
      BY <3>3, <3>5, <3>6 DEF InsertInv
  <2> QED
    BY <1>1, <1>3, <1>7, <1>8, <2>1, <2>2 DEF IInv
<1> QED
  BY <1>9, <1>10

\* A disturbed visit has only its types to keep.
LEMMA Disturbed ==
  ASSUME TypeOK', RoomInv', FirstInv', clean' = FALSE
  PROVE  IInv'
BY DEF IInv, StayInv, LoadInv, InsertInv, CleanVisitCovers

\* After a deletion nothing is claimed of the visit, but the types stay.
LEMMA DeleteIInv ==
  ASSUME IInv, NEW s \in Sections, NEW k \in Ids, Delete(s, k)
  PROVE  IInv'
<1> DEFINE n == Len(site[s])
<1>1. /\ site[s] \in Seq(Ids) /\ n \in Nat /\ DOMAIN site[s] = 1..n
      /\ \A i \in DOMAIN site[s] : site[s][i] \in Ids
      /\ k \in DOMAIN site[s]
  BY ListType DEF IInv, Delete
<1>2. /\ site'[s] = Without(site[s], k)
      /\ \A t \in Sections \ {s} : site'[t] = site[t]
      /\ site' = [site EXCEPT ![s] = Without(site[s], k)]
  BY DEF Delete, IInv, TypeOK
<1>3. /\ site'[s] \in Seq(Ids)
      /\ Len(site'[s]) = n - 1
      /\ \A j \in 1..(n - 1) : site'[s][j] = IF j < k THEN site[s][j] ELSE site[s][j + 1]
  BY <1>1, <1>2, Removed
<1>4. DOMAIN site'[s] = 1..(n - 1)
  BY <1>3, LenProperties
<1>5. UNCHANGED <<posts, pc, section, page, res, runs, atStart, known, arrived>> /\ clean' = FALSE
  BY FaultCounts DEF Delete, program, past, IInv
<1> HIDE DEF n
\* Where a position of the new list comes from.
<1>6. ASSUME NEW j \in DOMAIN site'[s]
      PROVE  \E i \in DOMAIN site[s] : /\ site'[s][j] = site[s][i]
                                       /\ i = IF j < k THEN j ELSE j + 1
  <2>1. (IF j < k THEN j ELSE j + 1) \in DOMAIN site[s]
    BY <1>1, <1>4
  <2> QED
    BY <2>1, <1>3, <1>4
<1>7. ASSUME NEW t \in Sections, NEW i \in DOMAIN site'[t], NEW j \in DOMAIN site'[t], i < j
      PROVE  site'[t][j] < site'[t][i]
  <2>1. CASE t # s
    BY <1>2, <1>7, <2>1 DEF IInv, TypeOK
  <2>2. CASE t = s
    <3>1. PICK a \in DOMAIN site[s] : /\ site'[s][i] = site[s][a]
                                      /\ a = IF i < k THEN i ELSE i + 1
      BY <1>6, <2>2
    <3>2. PICK b \in DOMAIN site[s] : /\ site'[s][j] = site[s][b]
                                      /\ b = IF j < k THEN j ELSE j + 1
      BY <1>6, <2>2
    <3>3. a < b
      BY <3>1, <3>2, <1>1, <1>4, <1>7, <2>2
    <3> QED
      BY <2>2, <3>1, <3>2, <3>3 DEF IInv, TypeOK
  <2> QED
    BY <2>1, <2>2
<1>8. site' \in [Sections -> Seq(Ids)]
  BY <1>2, <1>3 DEF IInv, TypeOK
<1>9. TypeOK'
  BY <1>5, <1>7, <1>8, FaultCounts DEF Delete, IInv, TypeOK, Fault
<1>10. ASSUME NEW t \in Sections, NEW j \in DOMAIN site'[t]
       PROVE  site'[t][j] >= Len(site'[t]) + 1 - j
  <2>1. CASE t # s
    BY <1>2, <2>1 DEF IInv, RoomInv
  <2>2. CASE t = s
    <3>1. PICK a \in DOMAIN site[s] : /\ site'[s][j] = site[s][a]
                                      /\ a = IF j < k THEN j ELSE j + 1
      BY <1>6, <2>2
    <3>2. site[s][a] >= n + 1 - a /\ site[s][a] \in Int
      BY <1>1, ListAssumption DEF IInv, RoomInv, Ids, n
    <3>3. j \in Int /\ k \in Int /\ n - 1 + 1 - j <= n + 1 - a
      BY <3>1, <1>1, <1>4, <2>2
    <3> QED
      BY <1>1, <1>3, <2>2, <3>1, <3>2, <3>3
  <2> QED
    BY <2>1, <2>2
<1>11. RoomInv' /\ FirstInv'
  BY <1>5, <1>10 DEF IInv, RoomInv, FirstInv
<1> QED
  BY <1>5, <1>9, <1>11, Disturbed

-----------------------------------------------------------------------------
(* A visit.                                                                *)

\* A visit starts: nothing is read and nothing is stored.
LEMMA VisitIInv ==
  ASSUME IInv, NEW s \in Sections, Visit(s), UNCHANGED <<site, posts, faults, calm>>,
         runs' \in 0..MaxRuns
  PROVE  IInv'
<1>1. TypeOK'
  <2>1. InSeq(site[s]) \subseteq Ids
    BY ListType DEF IInv, InSeq
  <2> QED
    BY <2>1, ListAssumption DEF Visit, IInv, TypeOK, Running, Beyond
<1>2. RoomInv' /\ FirstInv' /\ StayInv'
  BY DEF Visit, IInv, RoomInv, FirstInv, StayInv, Listing
<1>3. LoadInv'
  <2>1. (page' - 1) * Size' + arrived' = 0
    BY ListAssumption DEF Visit
  <2>2. \A i \in DOMAIN Listing' : i \in Nat \ {0}
    BY ListType DEF Visit, Listing, IInv
  <2>3. posts' \ known' = {}
    BY DEF Visit
  <2> QED
    BY <2>1, <2>2, <2>3 DEF LoadInv, ReadTo
<1>4. InsertInv' /\ CleanVisitCovers'
  BY DEF Visit, InsertInv, CleanVisitCovers
<1> QED
  BY <1>1, <1>2, <1>3, <1>4 DEF IInv

\* The next page is the one behind, up to the first that is beyond all posts.
LEMMA ContinueTypes ==
  ASSUME TypeOK, Continue
  PROVE  /\ pc' = "load" /\ res' = {} /\ section' = section
         /\ page' \in 1..Beyond /\ page' # 1
         /\ page' = page + 1 \/ (page' = page /\ page = Beyond)
<1>1. Beyond \in Nat /\ Beyond >= 2 /\ page \in 1..Beyond
  BY ListAssumption DEF TypeOK, Beyond
<1>2. /\ pc' = "load" /\ res' = {} /\ section' = section
      /\ page' = IF page < Beyond THEN page + 1 ELSE page
  BY DEF Continue
<1>3. CASE page < Beyond
  BY <1>1, <1>2, <1>3
<1>4. CASE ~(page < Beyond)
  BY <1>1, <1>2, <1>4
<1> QED
  BY <1>3, <1>4

\* The page in hand is stored, and the next one is due.
LEMMA ReadOn ==
  ASSUME IInv, pc = "insert", Continue, posts' = posts \cup res, runs' = runs,
         UNCHANGED <<site, atStart, known, arrived, faults, clean, calm>>
  PROVE  IInv'
<1>1. /\ pc' = "load" /\ res' = {} /\ section' = section
      /\ page' \in 1..Beyond /\ page' # 1
      /\ page' = page + 1 \/ (page' = page /\ page = Beyond)
  BY ContinueTypes DEF IInv
<1> page \in Nat /\ page' \in Nat /\ arrived \in Nat /\ Size \in Nat \ {0} /\ section \in Sections
  BY <1>1, ListAssumption DEF IInv, TypeOK, Beyond
<1>2. TypeOK'
  BY <1>1 DEF IInv, TypeOK, Running
<1>3. RoomInv' /\ FirstInv' /\ StayInv'
  BY <1>1 DEF IInv, RoomInv, FirstInv, StayInv, Listing, Running
<1>4. InsertInv' /\ CleanVisitCovers'
  BY <1>1 DEF InsertInv, CleanVisitCovers
<1>5. LoadInv'
  <2> SUFFICES ASSUME clean
               PROVE  ReadTo((page - 1) * Size + arrived, posts)'
    BY DEF LoadInv
  <2>1. ReadTo(page * Size + arrived, posts \cup res)
    BY DEF IInv, InsertInv
  <2>2. Listing' = Listing
    BY <1>1 DEF Listing
  <2>3. CASE page' = page + 1
    <3>1. page' - 1 = page
      BY <2>3
    <3> QED
      BY <2>1, <2>2, <3>1 DEF ReadTo, Wanted
  <2>4. CASE page' = page /\ page = Beyond
    <3> DEFINE m == MaxId * Size
    <3>1. m >= MaxId /\ m \in Nat /\ (page' - 1) * Size = m /\ page * Size = m + Size
      BY <2>4, ListAssumption DEF Beyond
    <3>2. \A i \in DOMAIN Listing : i \in Nat /\ i <= MaxId
      BY ShortList, ListType, ListAssumption DEF IInv, Listing
    <3> HIDE DEF m
    <3>3. \A i \in DOMAIN Listing : i <= m + arrived /\ i <= m + Size + arrived
      BY <3>1, <3>2, ListAssumption
    <3> QED
      BY <2>1, <2>2, <3>1, <3>3 DEF ReadTo, Wanted
  <2> QED
    BY <1>1, <2>3, <2>4
<1> QED
  BY <1>2, <1>3, <1>4, <1>5 DEF IInv

\* The page is read.
LEMMA LoadIInv ==
  ASSUME IInv, Load
  PROVE  IInv'
<1> DEFINE q == Listing
           b == (page - 1) * Size
           m == page * Size
<1> section \in Sections
  BY DEF IInv, TypeOK
<1>1. /\ Len(q) \in Nat
      /\ DOMAIN q = 1..Len(q)
      /\ \A i \in DOMAIN q : q[i] \in Ids
      /\ \A i, j \in DOMAIN q : q[i] = q[j] => i = j
  BY ListType DEF IInv, Listing
<1>2. b \in Nat /\ m \in Nat /\ m = b + Size /\ arrived \in Nat /\ Size \in Nat \ {0}
  BY ListAssumption DEF IInv, TypeOK, Beyond
<1>3. /\ pc = "load" /\ pc' = "insert" /\ arrived' = 0
      /\ res' = Read(q, Positions(q, Shown(q, page)))
      /\ clean' = (clean /\ Fresh(q))
      /\ calm' = (calm /\ Fresh(q))
      /\ UNCHANGED <<site, posts, section, page, runs, faults, atStart, known>>
  BY DEF Load, past, Listing
<1>4. Listing' = q
  BY <1>3 DEF Listing
<1>5. TypeOK'
  <2>1. res' \subseteq Ids \ Unreadable
    BY <1>1, <1>3 DEF Read, Positions
  <2>2. Fresh(q) \in BOOLEAN
    BY DEF Fresh
  <2>3. clean' \in BOOLEAN /\ calm' \in BOOLEAN
    BY <1>3, <2>2 DEF IInv, TypeOK
  <2> HIDE DEF q
  <2> QED
    BY <1>3, <2>1, <2>3 DEF IInv, TypeOK, Running
<1>6. RoomInv' /\ FirstInv' /\ StayInv' /\ LoadInv' /\ CleanVisitCovers'
  BY <1>3, <1>4 DEF IInv, RoomInv, FirstInv, StayInv, LoadInv, CleanVisitCovers, Running
<1>7. ASSUME clean'
      PROVE  InsertInv'
  <2>1. Fresh(q) /\ ReadTo(b + arrived, posts)
    BY <1>3, <1>7 DEF IInv, LoadInv
  <2>2. /\ Fresh(q) <=> \/ m >= Len(q)
                        \/ Read(q, {i \in Positions(q, page) : i > b + arrived}) # {}
        /\ Positions(q, page) = {i \in DOMAIN q : b < i /\ i <= m}
        /\ Shown(q, page) = IF b < Len(q) THEN page ELSE LastPage(q)
    BY DEF Fresh, Positions, Shown
  <2>3. /\ \A i \in DOMAIN q : q[i] \in res' => i <= m
        /\ \A i \in DOMAIN q : b < i /\ i <= m /\ q[i] \notin Unreadable => q[i] \in res'
    <3> HIDE DEF q, b, m
    <3>1. CASE b < Len(q)
      BY <3>1, <1>1, <1>2, <1>3, <2>2 DEF Read
    <3>2. CASE ~(b < Len(q))
      BY <3>2, <1>1, <1>2
    <3> QED
      BY <3>1, <3>2
  <2>4. \/ m >= Len(q)
        \/ \E k \in DOMAIN q :
             k <= m /\ k > b + arrived /\ q[k] \in res' /\ (q[k] \in posts => q[k] \in known)
    <3> SUFFICES ASSUME ~(m >= Len(q))
                 PROVE  \E k \in DOMAIN q : /\ k <= m /\ k > b + arrived /\ q[k] \in res'
                                            /\ q[k] \in posts => q[k] \in known
      OBVIOUS
    <3> HIDE DEF q, b, m
    <3>1. PICK k \in DOMAIN q : k > b + arrived /\ b < k /\ k <= m /\ q[k] \notin Unreadable
      BY <2>1, <2>2 DEF Read
    <3>2. q[k] \in res'
      BY <3>1, <2>3
    <3>3. ~(k <= b + arrived)
      BY <3>1, <1>1, <1>2
    <3>4. q[k] \in posts => q[k] \in known
      BY <3>3, <2>1 DEF ReadTo, q
    <3> QED
      BY <3>1, <3>2, <3>4
  <2>5. \A i \in DOMAIN q : Wanted(q[i]) /\ i <= m => q[i] \in posts \cup res'
    <3> SUFFICES ASSUME NEW i \in DOMAIN q, Wanted(q[i]), i <= m
                 PROVE  q[i] \in posts \cup res'
      OBVIOUS
    <3>1. CASE i <= b
      <4>1. i <= b + arrived
        <5> HIDE DEF q, b
        <5> QED
          BY <3>1, <1>1, <1>2
      <4> QED
        BY <4>1, <2>1 DEF ReadTo
    <3>2. CASE ~(i <= b)
      <4> HIDE DEF q, b, m
      <4>1. b < i
        BY <3>2, <1>1, <1>2
      <4> QED
        BY <4>1, <2>3 DEF Wanted
    <3> QED
      BY <3>1, <3>2
  <2>6. \A i \in DOMAIN q : q[i] \in (posts \cup res') \ known => i <= m
    <3> SUFFICES ASSUME NEW i \in DOMAIN q, q[i] \in posts \ known
                 PROVE  i <= m
      BY <2>3
    <3>1. i <= b + arrived
      BY <2>1 DEF ReadTo
    <3> HIDE DEF q, b, m
    <3> QED
      BY <3>1, <2>4, <1>1, <1>2
  <2>7. page' * Size' + arrived' = m
    BY <1>2, <1>3
  <2>8. ReadTo(page * Size + arrived, posts \cup res)'
    <3> HIDE DEF m
    <3> QED
      BY <1>3, <1>4, <2>5, <2>6, <2>7 DEF ReadTo, Wanted
  <2> HIDE DEF m
  <2>9. \/ page' * Size' + arrived' >= Len(Listing')
        \/ \E k \in DOMAIN Listing' :
             /\ k <= page' * Size' + arrived' /\ Listing'[k] \in res'
             /\ Listing'[k] \in posts' => Listing'[k] \in known'
    BY <1>3, <1>4, <2>4, <2>7
  <2> QED
    BY <2>8, <2>9 DEF InsertInv
<1>8. InsertInv'
  BY <1>7 DEF InsertInv
<1> QED
  BY <1>5, <1>6, <1>8 DEF IInv

\* A page or an upsert fails, or a page has nothing to store.
LEMMA OnwardIInv ==
  ASSUME IInv, Continue, Fault, runs' = runs, posts' \in {posts, posts \cup res},
         UNCHANGED <<site, atStart, known, arrived>>
  PROVE  IInv'
<1>1. /\ pc' = "load" /\ res' = {} /\ section' = section
      /\ page' \in 1..Beyond /\ page' # 1
  BY ContinueTypes DEF IInv
<1>2. faults' \in 0..MaxFaults /\ clean' = FALSE /\ calm' = FALSE
  BY FaultCounts DEF IInv
<1>3. TypeOK'
  BY <1>1, <1>2 DEF IInv, TypeOK, Running
<1>4. RoomInv' /\ FirstInv'
  BY <1>1 DEF IInv, RoomInv, FirstInv
<1> QED
  BY <1>2, <1>3, <1>4, Disturbed

\* The upsert of a page, with Break or Continue.
LEMMA InsertIInv ==
  ASSUME IInv, Insert
  PROVE  IInv'
<1>1. /\ pc = "insert" /\ posts' = posts \cup res
      /\ UNCHANGED <<site, runs, atStart, known, arrived, faults, clean, calm>>
  BY DEF Insert, NoFault, past
<1>2. CASE ~NoneNew /\ Continue
  BY <1>1, <1>2, ReadOn
<1>3. CASE NoneNew /\ Break
  <2>1. /\ res \subseteq posts /\ posts' = posts
        /\ pc' = "over" /\ UNCHANGED <<section, page, res>>
    BY <1>1, <1>3 DEF NoneNew, Break
  <2>2. TypeOK'
    BY <1>1, <2>1 DEF IInv, TypeOK, Running
  <2>3. RoomInv' /\ FirstInv' /\ StayInv' /\ LoadInv' /\ InsertInv'
    BY <1>1, <2>1 DEF IInv, RoomInv, FirstInv, StayInv, LoadInv, InsertInv, Listing, Running
  <2>4. CleanVisitCovers'
    <3> SUFFICES ASSUME clean, NEW p \in atStart \ (Unreadable \cup posts)
                 PROVE  \E x \in known \cap InSeq(site[section]) : p < x
      BY <1>1, <2>1 DEF CleanVisitCovers
    <3> DEFINE n == page * Size + arrived
    <3> section \in Sections
      BY DEF IInv, TypeOK
    <3>1. /\ n \in Nat
          /\ Len(Listing) \in Nat /\ DOMAIN Listing = 1..Len(Listing)
      BY ListType, ListAssumption DEF IInv, TypeOK, Beyond, Listing
    <3>2. PICK j \in DOMAIN Listing : p = Listing[j]
      BY <1>1 DEF IInv, StayInv, Running, InSeq
    <3>3. /\ ReadTo(n, posts \cup res)
          /\ \/ n >= Len(Listing)
             \/ \E k \in DOMAIN Listing :
                  k <= n /\ Listing[k] \in res /\ (Listing[k] \in posts => Listing[k] \in known)
      BY <1>1 DEF IInv, InsertInv
    <3> HIDE DEF n
    <3>4. ~(j <= n)
      BY <3>2, <3>3, <2>1 DEF ReadTo, Wanted
    <3>5. PICK k \in DOMAIN Listing : k <= n /\ Listing[k] \in known
      BY <3>1, <3>3, <3>4, <2>1
    <3>6. k < j
      BY <3>1, <3>4, <3>5
    <3>7. Listing[j] < Listing[k]
      BY <3>6 DEF IInv, TypeOK, Listing
    <3> QED
      BY <3>2, <3>5, <3>7 DEF InSeq, Listing
  <2> QED
    BY <2>2, <2>3, <2>4 DEF IInv
<1> QED
  BY <1>2, <1>3 DEF Insert

\* The next section is visited from its first page, or the run ends.
LEMMA NextSectionIInv ==
  ASSUME IInv, NextSection
  PROVE  IInv'
<1>1. CASE section < NSections /\ Visit(section + 1)
  <2>1. section + 1 \in Sections
    BY <1>1, ListAssumption DEF IInv, TypeOK, Sections
  <2>2. runs' \in 0..MaxRuns /\ UNCHANGED <<site, posts, faults, calm>>
    BY DEF NextSection, IInv, TypeOK
  <2> QED
    BY <1>1, <2>1, <2>2, VisitIInv
<1>2. CASE /\ section = NSections
           /\ pc' = "ended"
           /\ UNCHANGED <<section, page, res, past, arrived, clean>>
  <2>1. /\ pc' = "ended"
        /\ UNCHANGED <<site, posts, section, page, res, runs, faults, atStart, known, arrived,
                       clean, calm>>
    BY <1>2 DEF NextSection, past
  <2>2. TypeOK'
    BY <2>1 DEF IInv, TypeOK, Between
  <2>3. RoomInv' /\ FirstInv' /\ StayInv' /\ LoadInv' /\ InsertInv' /\ CleanVisitCovers'
    BY <2>1 DEF IInv, RoomInv, FirstInv, StayInv, LoadInv, InsertInv, CleanVisitCovers, Running
  <2> QED
    BY <2>2, <2>3 DEF IInv
<1> QED
  BY <1>1, <1>2 DEF NextSection

\* A list that never shows ends the visit, and nothing is claimed of it.
LEMMA HangIInv ==
  ASSUME IInv, Hang
  PROVE  IInv'
<1>1. /\ pc' = "waiting"
      /\ UNCHANGED <<site, posts, section, page, res, runs, atStart, known, arrived>>
  BY DEF Hang, past
<1>2. faults' \in 0..MaxFaults /\ clean' = FALSE /\ calm' = FALSE
  BY FaultCounts DEF IInv, Hang
<1>3. TypeOK'
  BY <1>1, <1>2 DEF IInv, TypeOK, Running
<1>4. RoomInv' /\ FirstInv'
  BY <1>1 DEF IInv, RoomInv, FirstInv
<1> QED
  BY <1>2, <1>3, <1>4, Disturbed

\* A crash keeps the rows and loses the place.
LEMMA CrashIInv ==
  ASSUME IInv, Crash
  PROVE  IInv'
<1>1. /\ pc' = "idle"
      /\ UNCHANGED <<site, posts, section, page, res, runs, atStart, known, arrived>>
  BY DEF Crash, past
<1>2. faults' \in 0..MaxFaults /\ clean' = FALSE /\ calm' = FALSE
  BY FaultCounts DEF IInv, Crash
<1>3. TypeOK'
  BY <1>1, <1>2 DEF IInv, TypeOK, Between
<1>4. RoomInv' /\ FirstInv'
  BY <1>1 DEF IInv, RoomInv, FirstInv
<1> QED
  BY <1>2, <1>3, <1>4, Disturbed

-----------------------------------------------------------------------------
\* Every step keeps the invariant.
LEMMA NextIInv == IInv /\ [Next]_vars => IInv'
<1> SUFFICES ASSUME IInv, [Next]_vars PROVE IInv'
  OBVIOUS
<1>1. ASSUME NEW s \in Sections, NEW p \in Ids, Post(s, p) PROVE IInv'
  BY <1>1, PostIInv
<1>2. ASSUME NEW s \in Sections, NEW i \in Ids, Delete(s, i) PROVE IInv'
  BY <1>2, DeleteIInv
<1>3. CASE Start
  <2>1. 1 \in Sections
    BY ListAssumption DEF Sections
  <2>2. runs' \in 0..MaxRuns
    BY <1>3, ListAssumption DEF Start, IInv, TypeOK
  <2> QED
    BY <1>3, <2>1, <2>2, VisitIInv DEF Start
<1>4. CASE Load
  BY <1>4, LoadIInv
<1>5. CASE LoadFail
  BY <1>5, OnwardIInv DEF LoadFail, past
<1>6. CASE InsertNothing
  <2>1. /\ pc = "insert" /\ Continue /\ posts' = posts \cup res /\ runs' = runs
        /\ UNCHANGED <<site, atStart, known, arrived, faults, clean, calm>>
    BY <1>6 DEF InsertNothing, NoFault, past
  <2> QED
    BY <2>1, ReadOn
<1>7. CASE Insert
  BY <1>7, InsertIInv
<1>8. CASE InsertFail
  BY <1>8, OnwardIInv DEF InsertFail, past
<1>9. CASE NextSection
  BY <1>9, NextSectionIInv
<1>10. CASE Crash
  BY <1>10, CrashIInv
<1>11. CASE Hang
  BY <1>11, HangIInv
<1>12. CASE UNCHANGED vars
  <2>1. UNCHANGED <<site, posts, pc, section, page, res, runs, faults, atStart, known,
                    arrived, clean, calm>>
    BY <1>12 DEF vars
  <2>2. TypeOK'
    BY <2>1 DEF IInv, TypeOK
  <2> QED
    BY <2>1, <2>2
       DEF IInv, RoomInv, FirstInv, StayInv, LoadInv, InsertInv, CleanVisitCovers, Listing,
           ReadTo, Wanted
<1> QED
  BY <1>1, <1>2, <1>3, <1>4, <1>5, <1>6, <1>7, <1>8, <1>9, <1>10, <1>11, <1>12
     DEF Next, RunStep, Terminated

\* The inductive invariant holds in every reachable state.
LEMMA SpecIInv == Spec => []IInv
BY InitIInv, NextIInv, PTL DEF Spec

\* The variables of the scraper keep their types, sections stay sorted by date,
\* and the table has only readable posts (main.rs 97-108, scrape.rs 38-164).
THEOREM TypeCorrect == Spec => []TypeOK
<1>1. IInv => TypeOK
  BY DEF IInv
<1> QED
  BY <1>1, SpecIInv, PTL

\* However the pages shift, an undisturbed visit that ends at a page of known
\* posts (scrape.rs 154-156) has stored every post of its start that is newer
\* than all of the section's posts that the table had before.
THEOREM VisitsCover == Spec => []CleanVisitCovers
<1>1. IInv => CleanVisitCovers
  BY DEF IInv
<1> QED
  BY <1>1, SpecIInv, PTL

-----------------------------------------------------------------------------
(* UpToDate: what holds as long as no visit was disturbed.                 *)

\* Ids grow over all sections: no post is in two of them.
Apart == \A s, t \in Sections : s # t => InSeq(site[s]) \cap InSeq(site[t]) = {}

\* What is stored or read is on the site, and no visit is worse than all.
OnSite ==
  calm =>
    /\ \A p \in posts : \E s \in Sections : p \in InSeq(site[s])
    /\ pc = "insert" => res \subseteq InSeq(Listing)
    /\ pc \in Running => clean

\* Below a post of P all readable ones, down to position n, are in P.
ClosedTo(q, n, P) ==
  \A i, j \in DOMAIN q :
    i < j /\ j <= n /\ q[i] \in P /\ q[j] \notin Unreadable => q[j] \in P

Closed(q, P) ==
  \A i, j \in DOMAIN q : i < j /\ q[i] \in P /\ q[j] \notin Unreadable => q[j] \in P

\* The table has everything below a post that it has, but for the section that
\* is being visited: of that it had it when the visit started.
ClosedInv ==
  calm =>
    /\ \A s \in Sections : \/ Closed(site[s], posts)
                           \/ s = section /\ pc \in {"load", "insert", "waiting"}
    /\ pc \in Running => Closed(Listing, known)

\* And it has it down to where the pages have been read.
PagesInv ==
  calm =>
    /\ pc = "load" => ClosedTo(Listing, (page - 1) * Size + arrived, posts)
    /\ pc = "insert" => ClosedTo(Listing, page * Size + arrived, posts \cup res)

CalmInv ==
  /\ Apart
  /\ OnSite
  /\ ClosedInv
  /\ PagesInv

-----------------------------------------------------------------------------
(* Lists that are closed downwards.                                        *)

\* A new post in front, which is not in P, leaves a list closed.
LEMMA ClosedBelowNew ==
  ASSUME TypeOK, RoomInv, NEW s \in Sections, NEW p \in Ids, Post(s, p), NEW P, p \notin P
  PROVE  /\ Closed(site[s], P) => Closed(site'[s], P)
         /\ \A n \in Nat : ClosedTo(site[s], n, P) => ClosedTo(site'[s], n + 1, P)
<1>1. /\ site'[s] \in Seq(Ids)
      /\ site'[s][1] = p
      /\ \A i \in DOMAIN site[s] : site'[s][i + 1] = site[s][i]
      /\ \A i \in DOMAIN site'[s] : i = 1 \/ i - 1 \in DOMAIN site[s]
  BY PostList
<1>2. \A i \in DOMAIN site'[s] : i \in Nat
  BY <1>1, LenProperties
<1>3. ASSUME NEW i \in DOMAIN site'[s], site'[s][i] \in P
      PROVE  i # 1 /\ i - 1 \in DOMAIN site[s] /\ site'[s][i] = site[s][i - 1]
  <2>1. i # 1 /\ i - 1 \in DOMAIN site[s] /\ (i - 1) + 1 = i
    BY <1>1, <1>2, <1>3
  <2> QED
    BY <2>1, <1>1
<1>4. ASSUME NEW i \in DOMAIN site'[s], NEW j \in DOMAIN site'[s], i < j, site'[s][i] \in P
      PROVE  /\ i - 1 \in DOMAIN site[s] /\ site'[s][i] = site[s][i - 1]
             /\ j - 1 \in DOMAIN site[s] /\ site'[s][j] = site[s][j - 1]
             /\ i - 1 < j - 1
             /\ \A n \in Nat : j <= n + 1 => j - 1 <= n
  <2>1. i \in Nat /\ j \in Nat
    BY <1>2
  <2>2. i # 1 /\ i - 1 \in DOMAIN site[s] /\ site'[s][i] = site[s][i - 1]
    BY <1>3, <1>4
  <2>3. i >= 1
    BY <1>1, LenProperties
  <2>4. j # 1
    BY <1>4, <2>1, <2>3
  <2>5. j - 1 \in DOMAIN site[s] /\ (j - 1) + 1 = j
    BY <1>1, <2>1, <2>4
  <2>6. site'[s][j] = site[s][j - 1]
    BY <1>1, <2>5
  <2>7. i - 1 < j - 1 /\ \A n \in Nat : j <= n + 1 => j - 1 <= n
    BY <1>4, <2>1
  <2> QED
    BY <2>2, <2>5, <2>6, <2>7
<1>5. Closed(site[s], P) => Closed(site'[s], P)
  BY <1>4 DEF Closed
<1>6. ASSUME NEW n \in Nat, ClosedTo(site[s], n, P)
      PROVE  ClosedTo(site'[s], n + 1, P)
  BY <1>4, <1>6 DEF ClosedTo
<1> QED
  BY <1>5, <1>6

\* The last page reaches the end of the list.
LEMMA LastPageEnds ==
  ASSUME NEW q, Len(q) \in Nat, q # <<>>
  PROVE  LastPage(q) \in Int /\ LastPage(q) * Size >= Len(q)
<1>1. Size \in Nat \ {0}
  BY ListAssumption
<1> DEFINE x == Len(q) + Size - 1
<1>2. x \in Nat /\ LastPage(q) = x \div Size
  BY <1>1 DEF LastPage
<1>3. x \div Size \in Int /\ x % Size \in 0..(Size - 1) /\ x = Size * (x \div Size) + (x % Size)
  <2> HIDE DEF x
  <2> QED
    BY <1>1, <1>2
<1> DEFINE d == x \div Size
<1>4. Size * d = d * Size /\ d * Size \in Int
  <2> HIDE DEF d
  <2> QED
    BY <1>1, <1>3 DEF d
<1>5. x - d * Size < Size
  BY <1>1, <1>2, <1>3, <1>4
<1> QED
  BY <1>1, <1>2, <1>3, <1>4, <1>5

\* What the visit reads from a page: with the page there, every readable post
\* at its positions; past the end, those of the last page.
LEMMA PageRead ==
  ASSUME IInv, Load, NEW i \in DOMAIN Listing, NEW j \in DOMAIN Listing,
         i < j, Listing[j] \notin Unreadable
  PROVE  /\ (page - 1) * Size < j /\ j <= page * Size => Listing[j] \in res'
         /\ j <= (page - 1) * Size /\ Listing[i] \in res' => Listing[j] \in res'
<1> section \in Sections
  BY DEF IInv, TypeOK
<1> DEFINE q == Listing
           b == (page - 1) * Size
           m == page * Size
<1>1. /\ Len(q) \in Nat
      /\ DOMAIN q = 1..Len(q)
      /\ \A k, l \in DOMAIN q : q[k] = q[l] => k = l
  BY ListType DEF IInv, Listing
<1>2. b \in Nat /\ m \in Nat /\ m = b + Size /\ Size \in Nat \ {0}
  BY ListAssumption DEF IInv, TypeOK, Beyond
<1>3. /\ res' = Read(q, Positions(q, Shown(q, page)))
      /\ Shown(q, page) = IF b < Len(q) THEN page ELSE LastPage(q)
      /\ Positions(q, page) = {k \in DOMAIN q : b < k /\ k <= m}
  BY DEF Load, Listing, Shown, Positions
<1> HIDE DEF b, m
<1>4. CASE b < Len(q)
  <2>1. res' = Read(q, {k \in DOMAIN q : b < k /\ k <= m})
    BY <1>3, <1>4
  <2>2. b < j /\ j <= m => q[j] \in res'
    BY <2>1 DEF Read
  <2>3. j <= b => q[i] \notin res'
    <3> SUFFICES ASSUME j <= b, q[i] \in res' PROVE FALSE
      OBVIOUS
    <3>1. PICK k \in DOMAIN q : b < k /\ q[k] = q[i]
      BY <2>1 DEF Read
    <3>2. k = i /\ i \in Nat /\ j \in Nat
      BY <3>1, <1>1
    <3> QED
      BY <3>1, <3>2, <1>2
  <2> QED
    BY <2>2, <2>3 DEF b, m
<1>5. CASE ~(b < Len(q))
  <2> DEFINE c == (LastPage(q) - 1) * Size
             e == LastPage(q) * Size
  <2>1. j <= b
    BY <1>1, <1>2, <1>5
  <2>2. res' = Read(q, {k \in DOMAIN q : c < k /\ k <= e})
    BY <1>3, <1>5 DEF Positions
  <2>3. q # <<>>
    BY <1>1
  <2>4. LastPage(q) \in Int /\ e >= Len(q)
    BY <2>3, <1>1, LastPageEnds
  <2>5. c \in Int /\ e \in Int
    BY <2>4, <1>2
  <2> HIDE DEF c, e
  <2>6. ASSUME q[i] \in res' PROVE q[j] \in res'
    <3>1. PICK k \in DOMAIN q : c < k /\ q[k] = q[i]
      BY <2>2, <2>6 DEF Read
    <3>2. k = i
      BY <3>1, <1>1
    <3>3. c < j /\ j <= e
      BY <3>1, <3>2, <2>4, <2>5, <1>1
    <3> QED
      BY <3>3, <2>2 DEF Read
  <2> QED
    BY <2>1, <2>6, <1>1, <1>2 DEF b, m
<1> QED
  BY <1>4, <1>5

-----------------------------------------------------------------------------
(* The steps.                                                              *)

\* Nothing is on the site before the first run.
LEMMA InitCalmInv == Init => CalmInv
<1> SUFFICES ASSUME Init PROVE CalmInv
  OBVIOUS
<1>1. /\ \A s \in Sections : site[s] = <<>> /\ DOMAIN site[s] = {} /\ InSeq(site[s]) = {}
      /\ posts = {} /\ pc = "idle"
  BY DEF Init, InSeq
<1> QED
  BY <1>1 DEF CalmInv, Apart, OnSite, ClosedInv, PagesInv, Closed, Running

\* After a failure nothing is claimed but that ids stay apart.
LEMMA FaultCalmInv ==
  ASSUME CalmInv, Fault, site' = site
  PROVE  CalmInv'
BY DEF CalmInv, Apart, OnSite, ClosedInv, PagesInv, Fault

\* A new post has an id that nothing has yet.
LEMMA PostCalmInv ==
  ASSUME IInv, CalmInv, NEW s \in Sections, NEW p \in Ids, Post(s, p)
  PROVE  CalmInv'
<1> TypeOK /\ RoomInv /\ section \in Sections
  BY DEF IInv, TypeOK
<1>1. UNCHANGED <<posts, pc, section, page, res, runs, faults, atStart, known, clean, calm>>
  BY DEF Post, program, past, NoFault
<1>2. /\ \A t \in Sections \ {s} : site'[t] = site[t]
      /\ site'[s] \in Seq(Ids)
      /\ site'[s][1] = p
      /\ \A i \in DOMAIN site[s] : site'[s][i + 1] = site[s][i]
      /\ \A i \in DOMAIN site'[s] : i = 1 \/ i - 1 \in DOMAIN site[s]
  BY PostList
<1>3. \A t \in Sections : p \notin InSeq(site[t])
  <2> SUFFICES ASSUME NEW t \in Sections, p \in InSeq(site[t]) PROVE FALSE
    OBVIOUS
  <2>1. p < p
    BY DEF Post
  <2> QED
    BY <2>1 DEF Ids
<1>4. InSeq(site'[s]) \subseteq InSeq(site[s]) \cup {p}
  <2> SUFFICES ASSUME NEW i \in DOMAIN site'[s], i # 1
               PROVE  site'[s][i] \in InSeq(site[s])
    BY <1>2 DEF InSeq
  <2>1. i \in Nat /\ i - 1 \in DOMAIN site[s]
    BY <1>2, LenProperties
  <2>2. (i - 1) + 1 = i
    BY <2>1
  <2>3. site'[s][i] = site[s][i - 1]
    BY <1>2, <2>1, <2>2
  <2> QED
    BY <2>1, <2>3 DEF InSeq
<1>5. InSeq(site[s]) \subseteq InSeq(site'[s])
  <2> SUFFICES ASSUME NEW i \in DOMAIN site[s]
               PROVE  site[s][i] \in InSeq(site'[s])
    BY DEF InSeq
  <2>1. i + 1 \in DOMAIN site'[s]
    <3>1. DOMAIN site[s] = 1..Len(site[s]) /\ Len(site[s]) \in Nat
      BY ListType
    <3>2. DOMAIN site'[s] = 1..Len(site'[s]) /\ Len(site'[s]) = Len(site[s]) + 1
      BY <1>2, PostList, LenProperties
    <3> QED
      BY <3>1, <3>2
  <2> QED
    BY <2>1, <1>2 DEF InSeq
<1>6. Apart'
  <2> SUFFICES ASSUME NEW t \in Sections, NEW u \in Sections, t # u
               PROVE  InSeq(site'[t]) \cap InSeq(site'[u]) = {}
    BY DEF Apart, InSeq
  <2>1. InSeq(site[t]) \cap InSeq(site[u]) = {}
    BY DEF CalmInv, Apart
  <2> QED
    BY <2>1, <1>2, <1>3, <1>4
<1> SUFFICES ASSUME calm PROVE (OnSite /\ ClosedInv /\ PagesInv)'
  BY <1>1, <1>6 DEF CalmInv, OnSite, ClosedInv, PagesInv
<1>7. \A t \in Sections : InSeq(site[t]) \subseteq InSeq(site'[t])
  BY <1>2, <1>5
<1>8. /\ p \notin posts /\ p \notin known
      /\ pc = "insert" => p \notin posts \cup res
  BY <1>3 DEF CalmInv, OnSite, Listing, IInv, TypeOK
<1>9. OnSite'
  <2>1. Listing' = site'[section]
    BY <1>1 DEF Listing
  <2>2. /\ \A x \in posts : \E t \in Sections : x \in InSeq(site[t])
        /\ pc = "insert" => res \subseteq InSeq(Listing)
        /\ pc \in Running => clean
    BY DEF CalmInv, OnSite
  <2>3. \A x \in posts : \E t \in Sections : x \in InSeq(site'[t])
    BY <2>2, <1>7
  <2>4. pc = "insert" => res \subseteq InSeq(site'[section])
    BY <2>2, <1>7 DEF Listing
  <2> QED
    BY <1>1, <2>1, <2>2, <2>3, <2>4 DEF OnSite, InSeq
<1>10. ClosedInv'
  <2>1. ASSUME NEW t \in Sections, NEW P, p \notin P, Closed(site[t], P)
        PROVE  Closed(site'[t], P)
    BY <2>1, <1>2, ClosedBelowNew
  <2>2. Listing' = site'[section]
    BY <1>1 DEF Listing
  <2>3. pc \in Running => Closed(site'[section], known)
    BY <2>1, <1>8 DEF CalmInv, ClosedInv, Listing
  <2>4. \A t \in Sections : \/ Closed(site'[t], posts)
                            \/ t = section /\ pc \in {"load", "insert", "waiting"}
    BY <2>1, <1>8 DEF CalmInv, ClosedInv
  <2> QED
    BY <1>1, <2>2, <2>3, <2>4 DEF ClosedInv, Closed
<1>11. PagesInv'
  <2> DEFINE b == (page - 1) * Size
             m == page * Size
  <2>1. b \in Nat /\ m \in Nat /\ arrived \in Nat /\ Size \in Nat /\ page \in Nat
    BY ListAssumption DEF IInv, TypeOK, Beyond
  <2>2. Listing' = site'[section]
    BY <1>1 DEF Listing
  <2>3. ASSUME NEW n \in Nat, NEW P, p \notin P, s = section, ClosedTo(Listing, n, P)
        PROVE  ClosedTo(site'[section], n + 1, P)
    BY <2>3, ClosedBelowNew DEF Listing
  <2>4. ASSUME pc = "load" PROVE ClosedTo(site'[section], b + arrived', posts)
    <3>1. ClosedTo(Listing, b + arrived, posts)
      BY <2>4 DEF CalmInv, PagesInv
    <3>2. CASE s # section
      BY <1>2, <3>1, <3>2 DEF Listing, Post
    <3>3. CASE s = section /\ page > 1
      <4>1. arrived' = arrived + 1
        BY <3>3, <2>4 DEF Post, UnderWay
      <4>2. b + arrived \in Nat /\ b + arrived' = (b + arrived) + 1
        BY <2>1, <4>1
      <4> HIDE DEF b
      <4> QED
        BY <1>8, <2>3, <3>1, <3>3, <4>2
    <3>4. CASE s = section /\ ~(page > 1)
      <4>1. page = 1
        BY <3>4, <2>1, ListAssumption DEF IInv, TypeOK, Beyond
      <4>2. arrived' = 0
        BY <4>1, <3>4, <2>4 DEF IInv, FirstInv, Post, UnderWay
      <4>3. b + arrived' = 0
        BY <2>1, <4>1, <4>2
      <4>4. \A j \in DOMAIN site'[section] : j \in Nat /\ ~(j <= 0)
        BY <1>2, <3>4, LenProperties
      <4> QED
        BY <4>3, <4>4 DEF ClosedTo
    <3> QED
      BY <3>2, <3>3, <3>4
  <2>5. ASSUME pc = "insert" PROVE ClosedTo(site'[section], m + arrived', posts \cup res)
    <3>1. ClosedTo(Listing, m + arrived, posts \cup res)
      BY <2>5 DEF CalmInv, PagesInv
    <3>2. CASE s # section
      BY <1>2, <3>1, <3>2 DEF Listing, Post
    <3>3. CASE s = section
      <4>1. arrived' = arrived + 1
        BY <3>3, <2>5 DEF Post, UnderWay
      <4>2. m + arrived \in Nat /\ m + arrived' = (m + arrived) + 1
        BY <2>1, <4>1
      <4> HIDE DEF m
      <4> QED
        BY <1>8, <2>3, <2>5, <3>1, <3>3, <4>2
    <3> QED
      BY <3>2, <3>3
  <2>6. /\ (page' - 1) * Size + arrived' = b + arrived'
        /\ page' * Size + arrived' = m + arrived'
    BY <1>1
  <2> HIDE DEF b, m
  <2>7. pc' = "load" => ClosedTo(Listing', (page' - 1) * Size + arrived', posts')
    BY <1>1, <2>2, <2>4, <2>6
  <2>8. pc' = "insert" => ClosedTo(Listing', page' * Size + arrived', posts' \cup res')
    BY <1>1, <2>2, <2>5, <2>6
  <2> QED
    BY <2>7, <2>8 DEF PagesInv, ClosedTo
<1> QED
  BY <1>9, <1>10, <1>11

\* A deletion is a fault, and takes an id from one section.
LEMMA DeleteCalmInv ==
  ASSUME IInv, CalmInv, NEW s \in Sections, NEW i \in Ids, Delete(s, i)
  PROVE  CalmInv'
<1>1. /\ site' = [site EXCEPT ![s] = Without(site[s], i)]
      /\ i \in DOMAIN site[s] /\ calm' = FALSE
  BY DEF Delete, Fault
<1>2. /\ site'[s] = Without(site[s], i)
      /\ \A t \in Sections \ {s} : site'[t] = site[t]
  BY <1>1 DEF IInv, TypeOK
<1>3. /\ site[s] \in Seq(Ids) /\ Len(site[s]) \in Nat /\ DOMAIN site[s] = 1..Len(site[s])
  BY ListType DEF IInv
<1>4. /\ site'[s] \in Seq(Ids)
      /\ Len(site'[s]) = Len(site[s]) - 1
      /\ \A j \in 1..(Len(site[s]) - 1) :
           site'[s][j] = IF j < i THEN site[s][j] ELSE site[s][j + 1]
  BY <1>1, <1>2, <1>3, Removed
<1>5. InSeq(site'[s]) \subseteq InSeq(site[s])
  <2> SUFFICES ASSUME NEW j \in DOMAIN site'[s]
               PROVE  \E k \in DOMAIN site[s] : site'[s][j] = site[s][k]
    BY DEF InSeq
  <2>1. j \in 1..(Len(site[s]) - 1)
    BY <1>4, LenProperties
  <2>2. j \in DOMAIN site[s] /\ j + 1 \in DOMAIN site[s]
    BY <2>1, <1>3
  <2> QED
    BY <2>1, <2>2, <1>4
<1>6. Apart'
  <2> SUFFICES ASSUME NEW t \in Sections, NEW u \in Sections, t # u
               PROVE  InSeq(site'[t]) \cap InSeq(site'[u]) = {}
    BY DEF Apart, InSeq
  <2>1. InSeq(site[t]) \cap InSeq(site[u]) = {}
    BY DEF CalmInv, Apart
  <2> QED
    BY <2>1, <1>2, <1>5
<1> QED
  BY <1>1, <1>6 DEF CalmInv, OnSite, ClosedInv, PagesInv

\* Between two visits the table is closed in every section, so that a visit
\* starts with everything below what it knows.
LEMMA VisitCalmInv ==
  ASSUME IInv, CalmInv, NEW s \in Sections, Visit(s), pc \in Between \cup {"over"},
         UNCHANGED <<site, posts, calm>>
  PROVE  CalmInv'
<1>1. /\ section' = s /\ page' = 1 /\ pc' = "load" /\ known' = posts
      /\ arrived' = 0 /\ clean' = TRUE /\ Listing' = site[s]
  BY DEF Visit, Listing
<1>2. Apart' /\ OnSite'
  BY <1>1 DEF CalmInv, Apart, OnSite, InSeq
<1>3. calm => \A t \in Sections : Closed(site[t], posts)
  BY DEF CalmInv, ClosedInv, Between
<1>4. ClosedInv'
  BY <1>1, <1>3 DEF ClosedInv, Closed
<1>5. PagesInv'
  <2>1. (page' - 1) * Size + arrived' = 0
    BY <1>1, ListAssumption
  <2>2. \A j \in DOMAIN Listing' : j \in Nat /\ ~(j <= 0)
    BY <1>1, ListType DEF IInv
  <2>3. ClosedTo(Listing', (page' - 1) * Size + arrived', posts')
    BY <2>1, <2>2 DEF ClosedTo
  <2> QED
    BY <1>1, <2>3 DEF PagesInv, ClosedTo
<1> QED
  BY <1>2, <1>4, <1>5 DEF CalmInv

\* A page adds all that is readable on it.
LEMMA LoadCalmInv ==
  ASSUME IInv, CalmInv, Load
  PROVE  CalmInv'
<1> section \in Sections
  BY DEF IInv, TypeOK
<1>1. /\ pc = "load" /\ pc' = "insert" /\ arrived' = 0
      /\ res' = Read(Listing, Positions(Listing, Shown(Listing, page)))
      /\ clean' = (clean /\ Fresh(Listing))
      /\ calm' = (calm /\ Fresh(Listing))
      /\ UNCHANGED <<site, posts, section, page, runs, faults, atStart, known>>
      /\ Listing' = Listing
  BY DEF Load, past, Listing
<1>2. Apart'
  BY <1>1 DEF CalmInv, Apart, InSeq
<1> SUFFICES ASSUME calm' PROVE (OnSite /\ ClosedInv /\ PagesInv)'
  BY <1>2 DEF CalmInv, OnSite, ClosedInv, PagesInv
<1>3. calm /\ Fresh(Listing)
  BY <1>1
<1>4. OnSite'
  <2>1. res' \subseteq InSeq(Listing)
    BY <1>1 DEF Read, Positions, InSeq
  <2>2. clean' /\ \A p \in posts : \E s \in Sections : p \in InSeq(site[s])
    BY <1>1, <1>3 DEF CalmInv, OnSite, Running
  <2> QED
    BY <1>1, <2>1, <2>2 DEF OnSite, InSeq
<1>5. ClosedInv'
  BY <1>1, <1>3 DEF CalmInv, ClosedInv, Closed, Running
<1>6. PagesInv'
  <2> DEFINE b == (page - 1) * Size
             m == page * Size
  <2>1. b \in Nat /\ m \in Nat /\ m = b + Size /\ arrived \in Nat /\ Size \in Nat \ {0}
    BY ListAssumption DEF IInv, TypeOK, Beyond
  <2>2. /\ Len(Listing) \in Nat
        /\ DOMAIN Listing = 1..Len(Listing)
    BY ListType DEF IInv, Listing
  <2>3. ClosedTo(Listing, b + arrived, posts)
    BY <1>1, <1>3 DEF CalmInv, PagesInv
  <2>4. ASSUME NEW i \in DOMAIN Listing, NEW j \in DOMAIN Listing, i < j, j <= m,
               Listing[i] \in posts \cup res', Listing[j] \notin Unreadable
        PROVE  Listing[j] \in posts \cup res'
    <3>1. /\ b < j /\ j <= m => Listing[j] \in res'
          /\ j <= b /\ Listing[i] \in res' => Listing[j] \in res'
      BY <2>4, PageRead
    <3>2. j <= b /\ Listing[i] \in posts => Listing[j] \in posts
      <4>1. j <= b => j <= b + arrived
        <5> HIDE DEF b
        <5> QED
          BY <2>1, <2>2
      <4> QED
        BY <4>1, <2>3, <2>4 DEF ClosedTo
    <3>3. b < j \/ j <= b
      <4> HIDE DEF b
      <4> QED
        BY <2>1, <2>2
    <3> QED
      BY <3>1, <3>2, <3>3, <2>4
  <2>5. page' * Size + arrived' = m
    BY <1>1, <2>1
  <2> HIDE DEF m, b
  <2>6. ClosedTo(Listing', page' * Size + arrived', posts' \cup res')
    BY <1>1, <2>4, <2>5 DEF ClosedTo
  <2> QED
    BY <1>1, <2>6 DEF PagesInv, ClosedTo
<1> QED
  BY <1>4, <1>5, <1>6

\* On to the next page, with the posts of this one stored: other sections have
\* none of them.
LEMMA ReadOnCalmInv ==
  ASSUME IInv, CalmInv, pc = "insert", Continue, posts' = posts \cup res,
         UNCHANGED <<site, known, arrived, clean, calm>>
  PROVE  CalmInv'
<1> section \in Sections
  BY DEF IInv, TypeOK
<1>1. /\ pc' = "load" /\ section' = section
      /\ page' \in {page, page + 1}
      /\ Listing' = Listing
  BY DEF Continue, Listing
<1>2. Apart'
  BY DEF CalmInv, Apart, InSeq
<1> SUFFICES ASSUME calm PROVE (OnSite /\ ClosedInv /\ PagesInv)'
  BY <1>2 DEF CalmInv, OnSite, ClosedInv, PagesInv
<1>3. /\ \A p \in posts : \E s \in Sections : p \in InSeq(site[s])
      /\ res \subseteq InSeq(Listing)
      /\ clean
  BY DEF CalmInv, OnSite, Running
<1>4. OnSite'
  <2>1. \A p \in posts' : \E s \in Sections : p \in InSeq(site[s])
    BY <1>3 DEF Listing
  <2> QED
    BY <1>1, <1>3, <2>1 DEF OnSite, InSeq
<1>5. ClosedInv'
  <2>1. ASSUME NEW s \in Sections, s # section PROVE Closed(site[s], posts')
    <3>1. Closed(site[s], posts)
      BY <2>1 DEF CalmInv, ClosedInv
    <3>2. InSeq(site[s]) \cap res = {}
      BY <1>3, <2>1 DEF CalmInv, Apart, Listing
    <3>3. \A i \in DOMAIN site[s] : site[s][i] \notin res
      BY <3>2 DEF InSeq
    <3> QED
      BY <3>1, <3>3 DEF Closed
  <2>2. Closed(Listing, known)
    BY DEF CalmInv, ClosedInv, Running
  <2> QED
    BY <1>1, <2>1, <2>2 DEF ClosedInv, Closed
<1>6. PagesInv'
  <2> DEFINE m == page * Size
             b == (page' - 1) * Size
  <2>1. m \in Nat /\ b \in Int /\ b <= m /\ arrived \in Nat
    <3>1. page \in Nat \ {0} /\ Size \in Nat \ {0} /\ arrived \in Nat
      BY ListAssumption DEF IInv, TypeOK, Beyond
    <3>2. CASE page' = page + 1
      <4>1. page' - 1 = page
        BY <3>1, <3>2
      <4> QED
        BY <3>1, <4>1
    <3>3. CASE page' = page
      <4>1. b = m - Size
        BY <3>1, <3>3
      <4>2. m \in Nat
        BY <3>1
      <4> HIDE DEF b, m
      <4> QED
        BY <3>1, <4>1, <4>2
    <3> QED
      BY <1>1, <3>2, <3>3
  <2>2. ClosedTo(Listing, m + arrived, posts \cup res)
    BY DEF CalmInv, PagesInv
  <2>3. \A j \in DOMAIN Listing : j \in Nat
    BY ListType DEF IInv, Listing
  <2> HIDE DEF m, b
  <2>4. \A j \in DOMAIN Listing : j <= b + arrived => j <= m + arrived
    BY <2>1, <2>3
  <2>5. ClosedTo(Listing, b + arrived, posts')
    BY <2>2, <2>4 DEF ClosedTo
  <2>6. ClosedTo(Listing', (page' - 1) * Size + arrived', posts')
    BY <1>1, <2>5 DEF b
  <2> QED
    BY <1>1, <2>6 DEF PagesInv, ClosedTo
<1> QED
  BY <1>4, <1>5, <1>6

\* Break: the page brought nothing new.  Either the list ends here, or the page
\* has a post that was known before the visit, and then so is all below it.
LEMMA BreakCalmInv ==
  ASSUME IInv, CalmInv, Insert, NoneNew, Break
  PROVE  CalmInv'
<1> section \in Sections
  BY DEF IInv, TypeOK
<1>1. /\ pc = "insert" /\ pc' = "over" /\ posts' = posts /\ res \subseteq posts
      /\ UNCHANGED <<site, section, page, res, known, arrived, clean, calm>>
      /\ Listing' = Listing
  BY DEF Insert, NoneNew, Break, NoFault, past, Listing
<1>2. Apart' /\ OnSite' /\ PagesInv'
  BY <1>1 DEF CalmInv, Apart, OnSite, PagesInv, Running, InSeq
<1>3. ClosedInv'
  <2> SUFFICES ASSUME calm
               PROVE  /\ \A s \in Sections : Closed(site[s], posts)
                      /\ Closed(Listing, known)
    BY <1>1 DEF ClosedInv, Closed
  <2> DEFINE n == page * Size + arrived
  <2>1. /\ \A s \in Sections \ {section} : Closed(site[s], posts)
        /\ Closed(Listing, known)
        /\ ClosedTo(Listing, n, posts \cup res)
        /\ clean
    BY <1>1 DEF CalmInv, ClosedInv, PagesInv, OnSite, Running
  <2>2. /\ n \in Nat
        /\ Len(Listing) \in Nat /\ DOMAIN Listing = 1..Len(Listing)
    BY ListType, ListAssumption DEF IInv, TypeOK, Beyond, Listing
  <2>3. \/ n >= Len(Listing)
        \/ \E k \in DOMAIN Listing :
             k <= n /\ Listing[k] \in res /\ (Listing[k] \in posts => Listing[k] \in known)
    BY <1>1, <2>1 DEF IInv, InsertInv
  <2>4. known \subseteq posts
    BY DEF IInv, TypeOK
  <2> HIDE DEF n
  <2>5. Closed(Listing, posts)
    <3> SUFFICES ASSUME NEW i \in DOMAIN Listing, NEW j \in DOMAIN Listing, i < j,
                        Listing[i] \in posts, Listing[j] \notin Unreadable
                 PROVE  Listing[j] \in posts
      BY DEF Closed
    <3>1. CASE j <= n
      BY <3>1, <1>1, <2>1 DEF ClosedTo
    <3>2. CASE ~(j <= n)
      <4>1. PICK k \in DOMAIN Listing : k <= n /\ Listing[k] \in known
        BY <3>2, <1>1, <2>2, <2>3
      <4>2. k < j
        BY <3>2, <4>1, <2>2
      <4> QED
        BY <4>1, <4>2, <2>1, <2>4 DEF Closed
    <3> QED
      BY <3>1, <3>2
  <2> QED
    BY <2>1, <2>5 DEF Listing
<1> QED
  BY <1>2, <1>3 DEF CalmInv

\* Every step keeps the table closed while nothing disturbs.
LEMMA NextCalmInv == IInv /\ CalmInv /\ [Next]_vars => CalmInv'
<1> SUFFICES ASSUME IInv, CalmInv, [Next]_vars PROVE CalmInv'
  OBVIOUS
<1>1. ASSUME NEW s \in Sections, NEW p \in Ids, Post(s, p) PROVE CalmInv'
  BY <1>1, PostCalmInv
<1>2. ASSUME NEW s \in Sections, NEW i \in Ids, Delete(s, i) PROVE CalmInv'
  BY <1>2, DeleteCalmInv
<1>3. CASE Start
  <2>1. 1 \in Sections
    BY ListAssumption DEF Sections
  <2> QED
    BY <1>3, <2>1, VisitCalmInv DEF Start
<1>4. CASE Load
  BY <1>4, LoadCalmInv
<1>5. CASE LoadFail \/ InsertFail \/ Hang \/ Crash
  BY <1>5, FaultCalmInv DEF LoadFail, InsertFail, Hang, Crash
<1>6. CASE InsertNothing
  <2>1. pc = "insert" /\ Continue /\ posts' = posts \cup res
        /\ UNCHANGED <<site, known, arrived, clean, calm>>
    BY <1>6 DEF InsertNothing, NoFault, past
  <2> QED
    BY <2>1, ReadOnCalmInv
<1>7. CASE Insert
  <2>1. CASE NoneNew /\ Break
    BY <1>7, <2>1, BreakCalmInv
  <2>2. CASE ~NoneNew /\ Continue
    <3>1. pc = "insert" /\ posts' = posts \cup res
          /\ UNCHANGED <<site, known, arrived, clean, calm>>
      BY <1>7 DEF Insert, NoFault, past
    <3> QED
      BY <2>2, <3>1, ReadOnCalmInv
  <2> QED
    BY <1>7, <2>1, <2>2 DEF Insert
<1>8. CASE NextSection
  <2>1. CASE section < NSections /\ Visit(section + 1)
    <3>1. section + 1 \in Sections
      BY <2>1, ListAssumption DEF IInv, TypeOK, Sections
    <3> QED
      BY <1>8, <2>1, <3>1, VisitCalmInv DEF NextSection
  <2>2. CASE /\ section = NSections
             /\ pc' = "ended"
             /\ UNCHANGED <<section, page, res, past, arrived, clean>>
    <3>1. pc = "over" /\ UNCHANGED <<site, posts, calm>>
      BY <1>8 DEF NextSection
    <3> QED
      BY <2>2, <3>1
         DEF CalmInv, Apart, OnSite, ClosedInv, PagesInv, Closed, InSeq, Running
  <2> QED
    BY <1>8, <2>1, <2>2 DEF NextSection
<1>9. CASE UNCHANGED vars
  BY <1>9 DEF vars, CalmInv, Apart, OnSite, ClosedInv, PagesInv, Closed, ClosedTo, InSeq, Listing
<1> QED
  BY <1>1, <1>2, <1>3, <1>4, <1>5, <1>6, <1>7, <1>8, <1>9
     DEF Next, RunStep, Terminated

\* As long as no visit was disturbed or cut short, a section that is left has
\* every readable post of the start of its visit in the table (scrape.rs 131,
\* 154-163): the stop at known posts skips nothing, over any number of runs.
THEOREM SectionsUpToDate == Spec => []UpToDate
<1>1. IInv /\ CalmInv => UpToDate
  <2> SUFFICES ASSUME IInv, CalmInv, pc = "over", calm,
                      NEW p \in atStart \ Unreadable, p \notin posts
               PROVE  FALSE
    BY DEF UpToDate
  <2> section \in Sections
    BY DEF IInv, TypeOK
  <2>1. clean /\ Closed(Listing, known)
    BY DEF CalmInv, OnSite, ClosedInv, Running
  <2>2. PICK x \in known \cap InSeq(Listing) : p < x
    BY <2>1 DEF IInv, CleanVisitCovers, Listing
  <2>3. p \in InSeq(Listing)
    BY <2>1 DEF IInv, StayInv, Running
  <2>4. PICK i \in DOMAIN Listing, j \in DOMAIN Listing : x = Listing[i] /\ p = Listing[j]
    BY <2>2, <2>3 DEF InSeq
  <2>5. /\ DOMAIN Listing \subseteq Nat
        /\ Listing[i] \in Int /\ Listing[j] \in Int
    BY ListType DEF IInv, Listing, Ids
  <2>6. i < j
    <3>1. j < i => Listing[i] < Listing[j]
      BY DEF IInv, TypeOK, Listing
    <3>2. i # j
      BY <2>2, <2>4, <2>5
    <3> QED
      BY <2>2, <2>4, <2>5, <3>1, <3>2
  <2>7. p \in known
    BY <2>1, <2>2, <2>4, <2>6 DEF Closed
  <2> QED
    BY <2>7 DEF IInv, TypeOK
<1>2. Spec => []CalmInv
  BY InitCalmInv, NextCalmInv, SpecIInv, PTL DEF Spec
<1> QED
  BY <1>1, <1>2, SpecIInv, PTL
=============================================================================
