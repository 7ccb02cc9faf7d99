--------------------------- MODULE ProgramsProofs ---------------------------
(***************************************************************************)
(* Proofs about Market, Panel and Patches: for any pages, price lists and  *)
(* patches, and any number of requests, visits, runs and failures.         *)
(***************************************************************************)
EXTENDS Market, Panel, Patches, TLAPS

\* What the proofs cite by a name of its own.
Rows == Categories \cup Items

-----------------------------------------------------------------------------
(* Panel: the inductive invariant.                                         *)

PanelTypes ==
  /\ rows \in Seq(Rows)
  /\ row \in 1..Len(rows) + 1
  /\ place \in {"off", "walk", "ok", "err"}
  /\ visits \in Nat /\ errors \in Nat

\* While the list is walked, CID is the category above the row, and in the table
\* if there is one.
CidInv ==
  place = "walk" =>
    /\ CID = CategoryAbove(row)
    /\ Above(row) # {} => CID \in categories

\* Items are of visits up to this one; while the list is walked, those of this
\* visit are from rows that the program has passed.
ItemsInv ==
  /\ \A r \in items : r.time \in Nat /\ r.time <= visits
  /\ place = "walk" =>
       \A r \in items : r.time = visits =>
         \E p \in 1..row - 1 : IsItem(p) /\ rows[p].id = r.id

PanelInv ==
  /\ PanelTypes /\ CidInv /\ ItemsInv
  /\ StoredSoFar /\ EndsEarlyOnlyBy

-----------------------------------------------------------------------------
(* Market: the inductive invariant.                                        *)

Numbers == Cats \cup {0}

MarketTypes ==
  /\ front \in Seq(Elements)
  /\ at \in {"walk", "request", "insert", "over"}
  /\ elem \in 1..Len(front) + 1
  /\ id \in Numbers
  /\ futs \in Seq(Nat \X Numbers)
  /\ offers \in Seq(Offers)
  /\ now \in Nat /\ date \in Nat
  /\ \A a \in answers : a[1] \in Nat

\* The lists that are still to be worked on are those of the page, in its order,
\* each with the title above it.
FutsInv ==
  /\ \A k \in DOMAIN futs :
       futs[k][1] \in 1..elem - 1 /\ futs[k][2] = TitleAbove(futs[k][1])
  /\ \A j, k \in DOMAIN futs : j < k => futs[j][1] < futs[k][1]

\* The walk has the number above the element, and nothing is asked for before its
\* end; a request has a list, and an INSERT the answer to it.
StageInv ==
  /\ at = "walk" => id = TitleAbove(elem) /\ market = {}
  /\ at # "walk" => elem = Len(front) + 1
  /\ at \in {"request", "insert"} => futs # <<>>
  /\ at = "over" => futs = <<>>
  /\ at = "insert" => <<futs[1][1], futs[1][2], offers, date>> \in answers

\* A row stems from an answer, to an earlier request than the next.
RowsInv ==
  \A r \in market : \E b \in answers :
    /\ b[4] = r.time /\ \E k \in DOMAIN b[3] : b[3][k] = r.offer
    /\ futs # <<>> => b[1] < futs[1][1]

Waiting(p) == \E k \in DOMAIN futs : futs[k][1] = p

StoredRows(a) ==
  \A k \in DOMAIN a[3] :
    [offer |-> a[3][k], time |-> a[4], category |-> a[2]] \in market

\* The list has its rows, or one of the excuses of ListsComplete.
Handled(p) ==
  \E a \in answers :
    /\ a[1] = p /\ a[2] = TitleAbove(p)
    /\ \/ Repeats(a)
       \/ \E b \in answers : b[1] < p /\ Clash(a, b)
       \/ StoredRows(a)

\* No list of the page so far is forgotten.
AllInv ==
  \A p \in 1..elem - 1 :
    front[p].class = "socs" => Waiting(p) \/ p \in lost \/ Handled(p)

MarketInv == MarketTypes /\ FutsInv /\ StageInv /\ RowsInv /\ AllInv

-----------------------------------------------------------------------------
(* Patches: the inductive invariant.                                       *)

Statuses == {"none", "patched", "clean", "broken", "discard"}

PatchesTypes ==
  /\ tree \in [Packages -> Trees \cup {Gone}]
  /\ patch \in [Packages -> Seq(Hunks) \cup {NoPatch}]
  /\ \A p \in Packages : patch[p] \in PatchesOf[p] \cup {NoPatch}
  /\ stage \in {"off", "download", "scan", "report"}
  /\ queue \subseteq Packages
  /\ target \in {"host", "patch"}
  /\ status \in [Packages -> Statuses]
  /\ fresh \subseteq Packages
  /\ undisturbed \in BOOLEAN
  /\ exit \in {"none", "ok", "err"}

\* A package that is scanned has a patch; one of the library is never broken, and
\* only one of it is discarded.
StatusInv ==
  stage \in {"scan", "report"} =>
    \A p \in Packages :
      /\ stage = "scan" /\ p \in queue => patch[p] # NoPatch
      /\ status[p] # "none" => patch[p] # NoPatch
      /\ status[p] = "broken" => p \in Fetched
      /\ status[p] = "discard" => p \in Std

IsClean(p) == \A k \in DOMAIN patch[p] : Source(tree[p], patch[p][k])

\* `git apply` has come through, but for what was new in an older version.
IsApplied(p) ==
  \A k \in DOMAIN patch[p] : patch[p][k].before = Zero \/ Target(tree[p], patch[p][k])

\* What the status of a package says of its sources after the scan.
ScanInv ==
  /\ stage = "download" => \A p \in Packages : status[p] = "none"
  /\ stage = "scan" =>
       \A p \in Packages :
         /\ status[p] = "patched" => Done(p)
         /\ status[p] = "clean" => tree[p] # Gone /\ IsClean(p)
         /\ status[p] = "broken" => tree[p] = Gone

\* In a run without failures a package that was missing has its original sources
\* until it is scanned, so that it is broken only if its patch is for others.
FreshInv ==
  undisturbed =>
    \A p \in fresh :
      /\ stage = "download" \/ (stage = "scan" /\ p \in queue) => tree[p] = Original[p]
      /\ stage \in {"scan", "report"} /\ status[p] = "broken" => ~Fits(p)

\* The second fetch did not bring it back.
StaysGone(p) == tree[p] = Gone /\ target = "patch"

\* In a run without failures a broken package has its original sources again, or
\* stays gone after a download, and those that are reported have their patch.
ReportInv ==
  stage = "report" /\ undisturbed =>
    \A p \in Packages :
      /\ status[p] = "patched" => Done(p)
      /\ status[p] = "clean" => IF p \in queue THEN tree[p] # Gone /\ IsClean(p)
                                ELSE IsApplied(p)
      /\ status[p] = "broken" =>
           StaysGone(p) \/ IF p \in queue THEN tree[p] = Original[p] ELSE Done(p) \/ ~Fits(p)

PatchesInv ==
  PatchesTypes /\ StatusInv /\ ScanInv /\ FreshInv /\ ReportInv /\ Repaired

-----------------------------------------------------------------------------
(* Panel: lemmas.                                                          *)

\* The current row is one of the list, and behind it there is one more or the end.
LEMMA RowType ==
  ASSUME PanelTypes, place = "walk", row <= Len(rows)
  PROVE  /\ Current \in Rows /\ Current = rows[row]
         /\ row \in DOMAIN rows /\ row + 1 \in 1..Len(rows) + 1
         /\ 1..(row + 1) - 1 = (1..row - 1) \cup {row}
         /\ row \notin 1..row - 1
BY DEF PanelTypes, Current

\* The rows of one kind are not of the other.
LEMMA KindsDiffer ==
  ASSUME NEW r \in Rows
  PROVE  r.kind = "item" => r.kind # "category"
  OBVIOUS

\* The row below a category has it above; the one below an item has above it what
\* the item has.
LEMMA NextCategory ==
  ASSUME PanelTypes, NEW p \in DOMAIN rows
  PROVE  /\ rows[p].kind = "category" =>
              Above(p + 1) # {} /\ CategoryAbove(p + 1) = rows[p].id
         /\ rows[p].kind # "category" =>
              Above(p + 1) = Above(p) /\ CategoryAbove(p + 1) = CategoryAbove(p)
<1>1. p \in Nat /\ 1..(p + 1) - 1 = (1..p - 1) \cup {p}
  BY DEF PanelTypes
<1>2. CASE rows[p].kind = "category"
  <2>1. p \in Above(p + 1) /\ \A t \in Above(p + 1) : t \in Nat /\ t <= p
    BY <1>1, <1>2 DEF Above
  <2>2. (CHOOSE q \in Above(p + 1) : \A t \in Above(p + 1) : t <= q) = p
    <3>1. \A q \in Above(p + 1) : (\A t \in Above(p + 1) : t <= q) <=> q = p
      BY <1>1, <2>1
    <3> QED
      BY <2>1, <3>1
  <2> QED
    BY <1>2, <2>1, <2>2 DEF CategoryAbove
<1>3. CASE rows[p].kind # "category"
  <2>1. Above(p + 1) = Above(p)
    BY <1>1, <1>3 DEF Above
  <2>2. (CHOOSE q \in Above(p + 1) : \A t \in Above(p + 1) : t <= q)
          = CHOOSE q \in Above(p) : \A t \in Above(p) : t <= q
    BY <2>1, Zenon
  <2>3. CASE Above(p) = {}
    BY <1>3, <2>1, <2>3 DEF CategoryAbove
  <2>4. CASE Above(p) # {}
    <3>1. CategoryAbove(p + 1)
            = rows[CHOOSE q \in Above(p + 1) : \A t \in Above(p + 1) : t <= q].id
      BY <2>1, <2>4 DEF CategoryAbove
    <3>2. CategoryAbove(p) = rows[CHOOSE q \in Above(p) : \A t \in Above(p) : t <= q].id
      BY <2>4 DEF CategoryAbove
    <3> QED
      BY <1>3, <2>1, <2>2, <3>1, <3>2
  <2> QED
    BY <2>3, <2>4
<1> QED
  BY <1>2, <1>3

\* What stands above a row depends on the price list alone.
LEMMA SameList ==
  ASSUME UNCHANGED rows
  PROVE  /\ \A p : Above(p)' = Above(p)
         /\ \A p : CategoryAbove(p)' = CategoryAbove(p)
         /\ UNCHANGED layout => \A p : IsItem(p)' = IsItem(p)
<1>1. \A p : Above(p)' = Above(p)
  BY DEF Above
<1>2. ASSUME NEW p PROVE CategoryAbove(p)' = CategoryAbove(p)
  <2>1. Above(p)' = Above(p)
    BY <1>1
  <2>2. (CHOOSE q \in Above(p)' : \A t \in Above(p)' : t <= q)
          = CHOOSE q \in Above(p) : \A t \in Above(p) : t <= q
    BY <2>1, Zenon
  <2> QED
    BY <2>1, <2>2 DEF CategoryAbove
<1>3. UNCHANGED layout => \A p : IsItem(p)' = IsItem(p)
  BY DEF IsItem, Parses, EzkifyParses, DripfeedpanelParses, SmmrapidParses
<1> QED
  BY <1>1, <1>2, <1>3

-----------------------------------------------------------------------------
(* Panel: the initial state and the steps.                                 *)

\* Before the first visit there is no list.
LEMMA PanelStarts ==
  ASSUME PanelInit
  PROVE  PanelInv
<1>1. rows = <<>> /\ place = "off" /\ row = 1 /\ items = {}
  BY DEF PanelInit
<1>2. PanelTypes
  BY DEF PanelInit, PanelTypes
<1>3. CidInv /\ ItemsInv /\ EndsEarlyOnlyBy
  BY <1>1 DEF CidInv, ItemsInv, EndsEarlyOnlyBy
<1>4. StoredSoFar
  BY <1>1 DEF StoredSoFar
<1> QED
  BY <1>2, <1>3, <1>4 DEF PanelInv

\* A visit starts at the top of its list, with a time of its own.
LEMMA StartVisitStep ==
  ASSUME PanelInv, NEW l \in PriceLists, StartVisit(l)
  PROVE  PanelInv'
<1>1. rows' = l /\ row' = 1 /\ CID' = 0 /\ place' = "walk" /\ visits' = visits + 1
        /\ items' = items /\ categories' = categories /\ errors' = errors
  BY DEF StartVisit
<1>2. PanelTypes'
  <2>1. l \in Seq(Rows)
    BY PanelAssumption DEF Rows
  <2> QED
    BY <1>1, <2>1 DEF PanelInv, PanelTypes
<1>3. CidInv'
  <2>1. Above(1)' = {}
    BY DEF Above
  <2>2. CategoryAbove(1)' = 0
    BY <2>1 DEF CategoryAbove
  <2> QED
    BY <1>1, <2>1, <2>2 DEF CidInv
<1>4. ItemsInv'
  <2>1. visits \in Nat
    BY DEF PanelInv, PanelTypes
  <2>2. \A r \in items' : r.time \in Nat /\ r.time <= visits' /\ r.time # visits'
    BY <1>1, <2>1 DEF PanelInv, ItemsInv
  <2> QED
    BY <2>2 DEF ItemsInv
<1>5. StoredSoFar'
  BY <1>1 DEF StoredSoFar
<1>6. EndsEarlyOnlyBy'
  BY <1>1 DEF EndsEarlyOnlyBy
<1> QED
  BY <1>2, <1>3, <1>4, <1>5, <1>6 DEF PanelInv

\* Without a page there is nothing to walk, and an error is counted.
LEMMA NoPageStep ==
  ASSUME PanelInv, NoPage
  PROVE  PanelInv'
<1>1. rows' = <<>> /\ row' = 1 /\ place' = "err" /\ visits' = visits + 1
        /\ errors' = errors + 1 /\ items' = items
  BY DEF NoPage
<1>2. PanelTypes'
  BY <1>1 DEF PanelInv, PanelTypes
<1>3. CidInv'
  BY <1>1 DEF CidInv
<1>4. ItemsInv'
  BY <1>1 DEF PanelInv, PanelTypes, ItemsInv
<1>5. StoredSoFar'
  BY <1>1 DEF StoredSoFar
<1>6. EndsEarlyOnlyBy'
  BY <1>1 DEF PanelInv, PanelTypes, EndsEarlyOnlyBy
<1> QED
  BY <1>2, <1>3, <1>4, <1>5, <1>6 DEF PanelInv

\* A category that is stored is the one above the next row.
LEMMA CategoryStep ==
  ASSUME PanelInv, Category
  PROVE  PanelInv'
<1>1. /\ row' = row + 1 /\ CID' = Current.id /\ categories' = categories \cup {Current.id}
      /\ place = "walk" /\ place' = "walk" /\ row <= Len(rows) /\ Current.kind = "category"
      /\ UNCHANGED <<layout, rows, items, visits, errors>>
  BY DEF Category, Here, StoreCid
<1>2. PanelTypes
  BY DEF PanelInv
<1>3. PanelTypes'
  BY <1>1, <1>2, RowType DEF PanelTypes
<1>4. CidInv'
  BY <1>1, <1>2, RowType, NextCategory, SameList DEF CidInv
<1>5. ItemsInv'
  BY <1>1, <1>2, RowType, SameList DEF PanelInv, ItemsInv
<1>6. StoredSoFar'
  <2>1. ~IsItem(row)
    BY <1>1, <1>2, RowType DEF IsItem
  <2> QED
    BY <1>1, <1>2, <2>1, RowType, SameList DEF PanelInv, StoredSoFar
<1>7. EndsEarlyOnlyBy'
  BY <1>1 DEF EndsEarlyOnlyBy
<1> QED
  BY <1>3, <1>4, <1>5, <1>6, <1>7 DEF PanelInv

\* The program ends at a category that is not whole.
LEMMA CategoryErrorStep ==
  ASSUME PanelInv, CategoryError
  PROVE  PanelInv'
<1>1. /\ place' = "err" /\ Current.kind = "category" /\ ~IsWhole(Current)
      /\ UNCHANGED <<layout, rows, row, CID, categories, items, visits, errors>>
  BY DEF CategoryError, Here
<1>2. PanelTypes'
  BY <1>1 DEF PanelInv, PanelTypes
<1>3. CidInv'
  BY <1>1 DEF CidInv
<1>4. ItemsInv'
  BY <1>1 DEF PanelInv, ItemsInv
<1>5. StoredSoFar'
  BY <1>1, SameList DEF PanelInv, StoredSoFar
<1>6. EndsEarlyOnlyBy'
  BY <1>1 DEF EndsEarlyOnlyBy, Current, IsWhole
<1> QED
  BY <1>2, <1>3, <1>4, <1>5, <1>6 DEF PanelInv

\* A row that does not parse is passed, and changes nothing.
LEMMA UnparsedStep ==
  ASSUME PanelInv, Unparsed
  PROVE  PanelInv'
<1>1. /\ row' = row + 1 /\ ~Parses(Current)
      /\ place = "walk" /\ place' = "walk" /\ row <= Len(rows) /\ Current.kind = "item"
      /\ UNCHANGED <<layout, rows, CID, categories, items, visits, errors>>
  BY DEF Unparsed, Here
<1>2. PanelTypes
  BY DEF PanelInv
<1>3. PanelTypes'
  BY <1>1, <1>2, RowType DEF PanelTypes
<1>4. CidInv'
  BY <1>1, <1>2, RowType, NextCategory, SameList DEF PanelInv, CidInv
<1>5. ItemsInv'
  BY <1>1, <1>2, RowType, SameList DEF PanelInv, ItemsInv
<1>6. StoredSoFar'
  <2>1. ~IsItem(row)
    BY <1>1, <1>2, RowType DEF IsItem
  <2> QED
    BY <1>1, <1>2, <2>1, RowType, SameList DEF PanelInv, StoredSoFar
<1>7. EndsEarlyOnlyBy'
  BY <1>1 DEF EndsEarlyOnlyBy
<1> QED
  BY <1>3, <1>4, <1>5, <1>6, <1>7 DEF PanelInv

\* An item is stored under the category above it.
LEMMA InsertItemStep ==
  ASSUME PanelInv, InsertItem
  PROVE  PanelInv'
<1>1. /\ row' = row + 1 /\ Parses(Current) /\ items' = items \cup {NewItem}
      /\ place = "walk" /\ place' = "walk" /\ row <= Len(rows) /\ Current.kind = "item"
      /\ UNCHANGED <<layout, rows, CID, categories, visits, errors>>
  BY DEF InsertItem, Here
<1>2. PanelTypes
  BY DEF PanelInv
<1>3. PanelTypes'
  BY <1>1, <1>2, RowType DEF PanelTypes
<1>4. CidInv'
  BY <1>1, <1>2, RowType, NextCategory, SameList DEF PanelInv, CidInv
<1>5. IsItem(row) /\ rows[row] = Current
  BY <1>1, <1>2, RowType DEF IsItem
<1>6. NewItem = [id |-> rows[row].id, time |-> visits, category |-> CategoryAbove(row)]
  BY <1>1, <1>5 DEF NewItem, PanelInv, CidInv
<1>7. ItemsInv'
  <2>1. \A r \in items' : r.time \in Nat /\ r.time <= visits'
    BY <1>1, <1>2, <1>6 DEF PanelInv, PanelTypes, ItemsInv
  <2>2. \A r \in items' : r.time = visits' =>
          \E p \in 1..row' - 1 : IsItem(p) /\ rows[p].id = r.id
    BY <1>1, <1>2, <1>5, <1>6, RowType DEF PanelInv, ItemsInv
  <2> QED
    BY <1>1, <2>1, <2>2, SameList DEF ItemsInv
<1>8. StoredSoFar'
  BY <1>1, <1>2, <1>6, RowType, SameList DEF PanelInv, StoredSoFar
<1>9. EndsEarlyOnlyBy'
  BY <1>1 DEF EndsEarlyOnlyBy
<1> QED
  BY <1>3, <1>4, <1>7, <1>8, <1>9 DEF PanelInv

\* The database refuses an item that has no category, or whose id it has: then it
\* is from a row above.
LEMMA ItemRefusedStep ==
  ASSUME PanelInv, ItemRefused
  PROVE  PanelInv'
<1>1. /\ place = "walk" /\ place' = "err" /\ ~Allowed
      /\ UNCHANGED <<layout, rows, row, CID, categories, items, visits, errors>>
  BY DEF ItemRefused, Here
<1>2. PanelTypes'
  BY <1>1 DEF PanelInv, PanelTypes
<1>3. CidInv'
  BY <1>1 DEF CidInv
<1>4. ItemsInv'
  BY <1>1 DEF PanelInv, ItemsInv
<1>5. StoredSoFar'
  BY <1>1, SameList DEF PanelInv, StoredSoFar
<1>6. EndsEarlyOnlyBy'
  <2>1. \/ Above(row) = {}
        \/ \E p \in 1..row - 1 : IsItem(p) /\ rows[p].id = Current.id
    BY <1>1 DEF Allowed, PanelInv, CidInv, ItemsInv
  <2> QED
    BY <1>1, <2>1, SameList DEF EndsEarlyOnlyBy, Current
<1> QED
  BY <1>2, <1>3, <1>4, <1>5, <1>6 DEF PanelInv

\* After a failure nothing but the time of the items is left to show.
LEMMA ErrorStep ==
  ASSUME PanelInv, Error
  PROVE  PanelInv'
<1>1. /\ place' = "err" /\ errors' = errors + 1
      /\ items' \in {items, items \cup {NewItem}}
      /\ UNCHANGED <<layout, rows, row, CID, visits>>
  BY DEF Error
<1>2. PanelTypes /\ PanelTypes'
  BY <1>1 DEF PanelInv, PanelTypes
<1>3. CidInv'
  BY <1>1 DEF CidInv
<1>4. ItemsInv'
  <2>1. \A r \in items' : r.time \in Nat /\ r.time <= visits'
    BY <1>1, <1>2 DEF PanelInv, PanelTypes, ItemsInv, NewItem
  <2> QED
    BY <1>1, <2>1 DEF ItemsInv
<1>5. StoredSoFar'
  BY <1>1, SameList DEF PanelInv, StoredSoFar
<1>6. EndsEarlyOnlyBy'
  BY <1>1, <1>2 DEF PanelTypes, EndsEarlyOnlyBy
<1> QED
  BY <1>2, <1>3, <1>4, <1>5, <1>6 DEF PanelInv

\* A list that is walked to its end stays stored.
LEMMA WalkEndsStep ==
  ASSUME PanelInv, WalkEnds
  PROVE  PanelInv'
<1>1. /\ place' = "ok"
      /\ UNCHANGED <<layout, rows, row, CID, categories, items, visits, errors>>
  BY DEF WalkEnds
<1>2. PanelTypes'
  BY <1>1 DEF PanelInv, PanelTypes
<1>3. CidInv' /\ ItemsInv'
  BY <1>1 DEF CidInv, PanelInv, ItemsInv
<1>4. StoredSoFar'
  BY <1>1, SameList DEF PanelInv, StoredSoFar
<1>5. EndsEarlyOnlyBy'
  BY <1>1 DEF EndsEarlyOnlyBy
<1> QED
  BY <1>2, <1>3, <1>4, <1>5 DEF PanelInv

\* Nothing of the panel changes.
LEMMA PanelStutter ==
  ASSUME PanelInv, UNCHANGED panelVars
  PROVE  PanelInv'
<1>1. UNCHANGED <<layout, rows, place, row, CID, categories, items, visits, errors>>
  BY DEF panelVars
<1>2. PanelTypes'
  BY <1>1 DEF PanelInv, PanelTypes
<1>3. CidInv' /\ ItemsInv'
  BY <1>1, SameList DEF CidInv, PanelInv, ItemsInv
<1>4. StoredSoFar'
  BY <1>1, SameList DEF PanelInv, StoredSoFar
<1>5. EndsEarlyOnlyBy'
  BY <1>1, SameList DEF PanelInv, EndsEarlyOnlyBy, Current, IsWhole
<1> QED
  BY <1>2, <1>3, <1>4, <1>5 DEF PanelInv

\* Whatever price lists the panel sends, a visit stores exactly what stands above
\* the first row that ends the program, each item under the category above it;
\* and without a failure of the database only an item without category, an id that
\* is there twice or a category that is not whole ends it (ezkify/main.rs 137-171).
THEOREM PriceListsAreStored == PanelSpec => []PriceListStored
<1>1. PanelInit => PanelInv
  BY PanelStarts
<1>2. PanelInv /\ [PanelNext]_panelVars => PanelInv'
  BY StartVisitStep, NoPageStep, CategoryStep, CategoryErrorStep, UnparsedStep,
     InsertItemStep, ItemRefusedStep, ErrorStep, WalkEndsStep, PanelStutter
     DEF PanelNext
<1>3. PanelInv => PriceListStored
  BY DEF PanelInv, PriceListStored
<1> QED
  BY <1>1, <1>2, <1>3, PTL DEF PanelSpec

-----------------------------------------------------------------------------
(* Market: lemmas.                                                         *)

\* The heads and tails of the lists that are still to be worked on.
LEMMA TailOf ==
  ASSUME NEW S, NEW s \in Seq(S), s # <<>>
  PROVE  /\ Len(s) \in Nat /\ Len(s) >= 1 /\ 1 \in DOMAIN s /\ s[1] \in S
         /\ Tail(s) \in Seq(S) /\ Len(Tail(s)) = Len(s) - 1
         /\ \A k \in DOMAIN Tail(s) : k + 1 \in DOMAIN s /\ Tail(s)[k] = s[k + 1]
         /\ \A k \in DOMAIN s : k # 1 => k - 1 \in DOMAIN Tail(s) /\ s[k] = Tail(s)[k - 1]
         /\ Tail(s) # <<>> <=> Len(s) > 1
<1>1. Len(s) \in Nat /\ Len(s) >= 1 /\ DOMAIN s = 1..Len(s)
  OBVIOUS
<1>2. Tail(s) \in Seq(S) /\ Len(Tail(s)) = Len(s) - 1 /\ DOMAIN Tail(s) = 1..Len(s) - 1
  BY <1>1
<1>3. \A k \in 1..Len(s) - 1 : Tail(s)[k] = s[k + 1]
  BY <1>1
<1>4. Tail(s) # <<>> <=> Len(s) > 1
  BY <1>1, <1>2
<1>5. \A k \in DOMAIN s : k # 1 => k - 1 \in DOMAIN Tail(s) /\ s[k] = Tail(s)[k - 1]
  <2> TAKE k \in DOMAIN s
  <2> HAVE k # 1
  <2>1. k - 1 \in 1..Len(s) - 1 /\ (k - 1) + 1 = k
    BY <1>1
  <2> QED
    BY <1>2, <1>3, <2>1
<1> QED
  BY <1>1, <1>2, <1>3, <1>4, <1>5

\* A list that is noted goes behind the others.
LEMMA AppendOf ==
  ASSUME NEW S, NEW s \in Seq(S), NEW e \in S
  PROVE  /\ Append(s, e) \in Seq(S) /\ Append(s, e) # <<>>
         /\ Len(s) \in Nat /\ Len(Append(s, e)) = Len(s) + 1
         /\ \A k \in DOMAIN s : k \in DOMAIN Append(s, e) /\ Append(s, e)[k] = s[k]
         /\ Len(s) + 1 \in DOMAIN Append(s, e) /\ Append(s, e)[Len(s) + 1] = e
         /\ \A k \in DOMAIN Append(s, e) : k \in DOMAIN s \/ k = Len(s) + 1
OBVIOUS

\* A title has a number, or one of the two marks.
LEMMA ElementType ==
  ASSUME MarketTypes, NEW p \in DOMAIN front
  PROVE  /\ front[p] \in Elements
         /\ front[p].class = "soc-title" => front[p].id \in Cats \cup {NoHeading, NoNumber}
         /\ p \in Nat /\ p + 1 \in 1..Len(front) + 1
<1>1. front[p] \in Elements /\ p \in Nat /\ p + 1 \in 1..Len(front) + 1
  BY DEF MarketTypes
<1>2. front[p].class = "soc-title" => front[p] \in [class : {"soc-title"}, id : Cats \cup {NoHeading, NoNumber}]
  BY <1>1 DEF Elements
<1> QED
  BY <1>1, <1>2

\* The titles with a heading above an element.
Titles(p) == {q \in 1..p - 1 : front[q].class = "soc-title" /\ front[q].id # NoHeading}

\* What `id` is to be after each element: the number of a title with a heading,
\* and what it was before at any other element.
LEMMA NextTitle ==
  ASSUME MarketTypes, NEW p \in DOMAIN front
  PROVE  TitleAbove(p + 1) =
           IF front[p].class = "soc-title" /\ front[p].id # NoHeading
           THEN Number(front[p]) ELSE TitleAbove(p)
<1>1. p \in Nat /\ 1..(p + 1) - 1 = (1..p - 1) \cup {p}
  BY DEF MarketTypes
<1>2. CASE front[p].class = "soc-title" /\ front[p].id # NoHeading
  <2>1. p \in Titles(p + 1) /\ \A t \in Titles(p + 1) : t \in Nat /\ t <= p
    BY <1>1, <1>2 DEF Titles
  <2>2. (CHOOSE q \in Titles(p + 1) : \A t \in Titles(p + 1) : t <= q) = p
    <3>1. \A q \in Titles(p + 1) : (\A t \in Titles(p + 1) : t <= q) <=> q = p
      BY <1>1, <2>1
    <3> QED
      BY <2>1, <3>1
  <2>3. TitleAbove(p + 1) = IF front[p].id = NoNumber THEN 0 ELSE front[p].id
    BY <2>1, <2>2 DEF TitleAbove, Titles
  <2> QED
    BY <1>2, <2>3 DEF Number
<1>3. CASE ~(front[p].class = "soc-title" /\ front[p].id # NoHeading)
  <2>1. Titles(p + 1) = Titles(p)
    BY <1>1, <1>3 DEF Titles
  <2>2. (CHOOSE q \in Titles(p + 1) : \A t \in Titles(p + 1) : t <= q)
          = CHOOSE q \in Titles(p) : \A t \in Titles(p) : t <= q
    BY <2>1, Zenon
  <2>3. CASE Titles(p) = {}
    BY <1>3, <2>1, <2>3 DEF TitleAbove, Titles
  <2>4. CASE Titles(p) # {}
    <3> DEFINE L(q) == front[q].id
               Shown(q) == IF L(q) = NoNumber THEN 0 ELSE L(q)
    <3>1. TitleAbove(p + 1)
            = Shown(CHOOSE q \in Titles(p + 1) : \A t \in Titles(p + 1) : t <= q)
      BY <2>1, <2>4 DEF TitleAbove, Titles
    <3>2. TitleAbove(p) = Shown(CHOOSE q \in Titles(p) : \A t \in Titles(p) : t <= q)
      BY <2>4 DEF TitleAbove, Titles
    <3> QED
      BY <1>3, <2>2, <3>1, <3>2
  <2> QED
    BY <2>3, <2>4
<1> QED
  BY <1>2, <1>3

\* Above the first element there is no title.
LEMMA FirstTitle == TitleAbove(1) = 0
BY DEF TitleAbove

\* The titles of a page stay where they are.
LEMMA SamePage ==
  ASSUME UNCHANGED front
  PROVE  \A p : TitleAbove(p)' = TitleAbove(p)
<1>1. ASSUME NEW p PROVE TitleAbove(p)' = TitleAbove(p)
  <2>1. Titles(p)' = Titles(p)
    BY DEF Titles
  <2>2. (CHOOSE q \in Titles(p)' : \A t \in Titles(p)' : t <= q)
          = CHOOSE q \in Titles(p) : \A t \in Titles(p) : t <= q
    BY <2>1, Zenon
  <2> QED
    BY <2>1, <2>2 DEF TitleAbove, Titles
<1> QED
  BY <1>1

\* What is handled stays so: rows and answers only grow.
LEMMA StaysHandled ==
  ASSUME UNCHANGED front, market \subseteq market', answers \subseteq answers'
  PROVE  \A p : Handled(p) => Handled(p)'
<1>1. \A a : StoredRows(a) => StoredRows(a)'
  BY DEF StoredRows
<1>2. ASSUME NEW p, Handled(p) PROVE Handled(p)'
  <2>1. PICK a \in answers :
          /\ a[1] = p /\ a[2] = TitleAbove(p)
          /\ Repeats(a) \/ (\E b \in answers : b[1] < p /\ Clash(a, b)) \/ StoredRows(a)
    BY <1>2 DEF Handled
  <2>2. a \in answers' /\ a[2] = TitleAbove(p)'
    BY <2>1, SamePage
  <2>3. Repeats(a) \/ (\E b \in answers' : b[1] < p /\ Clash(a, b)) \/ StoredRows(a)'
    BY <1>1, <2>1
  <2> QED
    BY <2>1, <2>2, <2>3 DEF Handled, Repeats, Clash
<1> QED
  BY <1>2

\* Going on to the next list keeps the others, in their order.
LEMMA NextListKeeps ==
  ASSUME MarketTypes, FutsInv, futs # <<>>, NextList, UNCHANGED <<front, elem>>
  PROVE  /\ futs' \in Seq(Nat \X Numbers)
         /\ at' \in {"request", "over"}
         /\ at' = "request" => futs' # <<>>
         /\ at' = "over" => futs' = <<>>
         /\ FutsInv'
         /\ \A p : Waiting(p) => p = futs[1][1] \/ Waiting(p)'
         /\ futs' # <<>> => futs[1][1] < futs'[1][1] /\ futs'[1][1] \in Nat
         /\ futs[1][1] \in Nat /\ futs[1][2] \in Numbers
<1> DEFINE S == Nat \X Numbers
<1>1. futs \in Seq(S) /\ futs' = Tail(futs)
      /\ at' = IF Len(futs) > 1 THEN "request" ELSE "over"
  BY DEF MarketTypes, NextList
<1>2. /\ futs' \in Seq(S) /\ futs[1] \in S /\ Len(futs) \in Nat /\ 1 \in DOMAIN futs
      /\ Len(futs') = Len(futs) - 1
      /\ \A k \in DOMAIN futs' : k + 1 \in DOMAIN futs /\ futs'[k] = futs[k + 1]
      /\ \A k \in DOMAIN futs : k # 1 => k - 1 \in DOMAIN futs' /\ futs[k] = futs'[k - 1]
      /\ futs' # <<>> <=> Len(futs) > 1
  BY <1>1, TailOf
<1>3. FutsInv'
  <2>1. ASSUME NEW k \in DOMAIN futs'
        PROVE  futs'[k][1] \in 1..elem' - 1 /\ futs'[k][2] = TitleAbove(futs[k][1])'
    <3>1. k + 1 \in DOMAIN futs /\ futs'[k] = futs[k + 1]
      BY <1>2
    <3>2. futs'[k][1] \in 1..elem - 1 /\ futs'[k][2] = TitleAbove(futs'[k][1])
      BY <3>1 DEF FutsInv
    <3>3. \A p : TitleAbove(p)' = TitleAbove(p)
      BY SamePage
    <3> QED
      BY <3>2, <3>3
  <2>2. ASSUME NEW j \in DOMAIN futs', NEW k \in DOMAIN futs', j < k
        PROVE  futs'[j][1] < futs'[k][1]
    <3>1. j \in Nat /\ k \in Nat /\ j + 1 < k + 1
      BY <1>2, <2>2
    <3> QED
      BY <1>2, <3>1 DEF FutsInv
  <2> QED
    BY <2>1, <2>2 DEF FutsInv
<1>4. \A p : Waiting(p) => p = futs[1][1] \/ Waiting(p)'
  BY <1>2 DEF Waiting
<1>5. futs' # <<>> => futs[1][1] < futs'[1][1] /\ futs'[1][1] \in Nat
  <2> SUFFICES ASSUME futs' # <<>> PROVE futs[1][1] < futs'[1][1] /\ futs'[1][1] \in Nat
    OBVIOUS
  <2>1. 1 \in DOMAIN futs' /\ 2 \in DOMAIN futs /\ futs'[1] = futs[2] /\ futs[2] \in S
    BY <1>2
  <2> QED
    BY <1>2, <2>1 DEF FutsInv
<1>6. futs[1][1] \in Nat /\ futs[1][2] \in Numbers
  BY <1>2
<1> QED
  BY <1>1, <1>2, <1>3, <1>4, <1>5, <1>6

\* So a list that is worked on may go, if it is lost or handled.
LEMMA NextListAll ==
  ASSUME MarketInv, futs # <<>>, NextList, UNCHANGED <<front, elem>>,
         market \subseteq market', answers \subseteq answers', lost \subseteq lost',
         NEW l, l = futs[1][1], l \in lost' \/ Handled(l)'
  PROVE  AllInv'
<1>1. ASSUME NEW p \in 1..elem - 1, front[p].class = "socs"
      PROVE  Waiting(p)' \/ p \in lost' \/ Handled(p)'
  <2>1. Waiting(p) \/ p \in lost \/ Handled(p)
    BY <1>1 DEF MarketInv, AllInv
  <2>2. Waiting(p) => p = futs[1][1] \/ Waiting(p)'
    BY NextListKeeps DEF MarketInv
  <2> QED
    BY <2>1, <2>2, StaysHandled, Zenon
<1> QED
  BY <1>1 DEF AllInv

\* Rows keep their answers when the next list is taken.
LEMMA NextListRows ==
  ASSUME MarketInv, futs # <<>>, NextList, UNCHANGED <<front, elem>>,
         answers \subseteq answers',
         \A r \in market' : r \in market \/ \E b \in answers :
            b[1] = futs[1][1] /\ b[4] = r.time /\ \E k \in DOMAIN b[3] : b[3][k] = r.offer
  PROVE  RowsInv'
<1>1. ASSUME NEW r \in market'
      PROVE  \E b \in answers :
               /\ b[4] = r.time /\ \E k \in DOMAIN b[3] : b[3][k] = r.offer
               /\ futs' # <<>> => b[1] < futs'[1][1]
  <2>1. CASE r \in market
    <3>1. PICK b \in answers : /\ b[4] = r.time /\ \E k \in DOMAIN b[3] : b[3][k] = r.offer
                               /\ b[1] < futs[1][1]
      BY <2>1 DEF MarketInv, RowsInv
    <3>2. b[1] \in Nat /\ MarketTypes /\ FutsInv
      BY <3>1 DEF MarketInv, MarketTypes
    <3>3. futs' # <<>> => futs[1][1] < futs'[1][1] /\ futs'[1][1] \in Nat
      BY <3>2, NextListKeeps
    <3>4. futs[1][1] \in Nat
      BY <3>2, NextListKeeps
    <3>5. futs' # <<>> => b[1] < futs'[1][1]
      BY <3>1, <3>2, <3>3, <3>4
    <3> QED
      BY <3>1, <3>5
  <2>2. CASE r \notin market
    BY <1>1, <2>2, NextListKeeps DEF MarketInv
  <2> QED
    BY <2>1, <2>2
<1> QED
  BY <1>1 DEF RowsInv

-----------------------------------------------------------------------------
(* Market: the initial state and the steps.                                *)

\* Before the walk there are no lists, answers or rows.
LEMMA MarketStarts ==
  ASSUME MarketInit
  PROVE  MarketInv
<1>1. /\ at = "walk" /\ elem = 1 /\ id = 0 /\ futs = <<>> /\ market = {} /\ answers = {}
      /\ front \in Seq(Elements) /\ offers = <<>> /\ date = 0 /\ now = 0
  BY MarketAssumption DEF MarketInit
<1>2. MarketTypes
  BY <1>1 DEF MarketTypes, Numbers
<1>3. FutsInv
  BY <1>1 DEF FutsInv
<1>4. StageInv
  BY <1>1, FirstTitle DEF StageInv
<1>5. RowsInv /\ AllInv
  BY <1>1 DEF RowsInv, AllInv
<1> QED
  BY <1>2, <1>3, <1>4, <1>5 DEF MarketInv

\* Time passes, or nothing happens.
LEMMA SecondStep ==
  ASSUME MarketInv, now' \in Nat,
         UNCHANGED <<front, at, elem, id, futs, offers, date, market, losses, answers, lost>>
  PROVE  MarketInv'
<1>1. UNCHANGED <<front, at, elem, id, futs, offers, date, market, answers, lost>>
  OBVIOUS
<1>2. MarketTypes'
  BY <1>1 DEF MarketInv, MarketTypes
<1>3. \A p : TitleAbove(p)' = TitleAbove(p)
  BY <1>1, SamePage
<1>4. FutsInv' /\ StageInv'
  BY <1>1, <1>3 DEF MarketInv, FutsInv, StageInv
<1>5. RowsInv'
  BY <1>1 DEF MarketInv, RowsInv
<1>6. AllInv'
  BY <1>1, StaysHandled DEF MarketInv, AllInv, Waiting
<1> QED
  BY <1>2, <1>4, <1>5, <1>6 DEF MarketInv

\* The walk notes the number of each title, and each list under the last of them.
LEMMA ElementStep ==
  ASSUME MarketInv, Element
  PROVE  MarketInv'
<1> DEFINE e == front[elem]
           S == Nat \X Numbers
<1>1. /\ at = "walk" /\ at' = "walk" /\ elem <= Len(front) /\ elem' = elem + 1
      /\ id' = IF e.class = "soc-title" /\ e.id # NoHeading THEN Number(e) ELSE id
      /\ futs' = IF e.class = "socs" THEN Append(futs, <<elem, id>>) ELSE futs
      /\ UNCHANGED <<front, offers, date, now, market, answers, lost>>
  BY DEF Element
<1>2. MarketTypes /\ FutsInv /\ id = TitleAbove(elem) /\ market = {}
  BY <1>1 DEF MarketInv, StageInv
<1>3. elem \in DOMAIN front /\ elem \in Nat /\ elem + 1 \in 1..Len(front) + 1
  BY <1>1, <1>2 DEF MarketTypes
<1>4. e \in Elements /\ (e.class = "soc-title" => e.id \in Cats \cup {NoHeading, NoNumber})
  BY <1>2, <1>3, ElementType
<1>5. id' \in Numbers
  BY <1>1, <1>2, <1>4 DEF MarketTypes, Numbers, Number
<1>6. futs \in Seq(S) /\ <<elem, id>> \in S
  BY <1>2, <1>3 DEF MarketTypes
<1>7. /\ Len(futs) \in Nat /\ Append(futs, <<elem, id>>) \in Seq(S)
      /\ \A k \in DOMAIN futs : /\ k \in DOMAIN Append(futs, <<elem, id>>)
                               /\ Append(futs, <<elem, id>>)[k] = futs[k]
      /\ Len(futs) + 1 \in DOMAIN Append(futs, <<elem, id>>)
      /\ Append(futs, <<elem, id>>)[Len(futs) + 1] = <<elem, id>>
      /\ \A k \in DOMAIN Append(futs, <<elem, id>>) : k \in DOMAIN futs \/ k = Len(futs) + 1
  BY <1>6, AppendOf
<1>8. MarketTypes'
  <2>1. futs' \in Seq(S)
    BY <1>1, <1>6, <1>7
  <2> QED
    BY <1>1, <1>2, <1>3, <1>5, <2>1 DEF MarketTypes
<1>9. \A p : TitleAbove(p)' = TitleAbove(p)
  BY <1>1, SamePage
<1>10. FutsInv'
  <2>1. CASE e.class # "socs"
    <3>1. futs' = futs /\ 1..elem - 1 \subseteq 1..elem' - 1
      BY <1>1, <1>3, <2>1
    <3> QED
      BY <1>2, <1>9, <3>1 DEF FutsInv
  <2>2. CASE e.class = "socs"
    <3>1. futs' = Append(futs, <<elem, id>>)
      BY <1>1, <2>2
    <3>2. DOMAIN futs = 1..Len(futs) /\ 1..elem - 1 \subseteq 1..elem' - 1 /\ elem \in 1..elem' - 1
      BY <1>1, <1>3, <1>6
    <3>3. ASSUME NEW k \in DOMAIN futs'
          PROVE  futs'[k][1] \in 1..elem' - 1 /\ futs'[k][2] = TitleAbove(futs'[k][1])
      BY <1>2, <1>7, <3>1, <3>2 DEF FutsInv
    <3>4. ASSUME NEW j \in DOMAIN futs', NEW k \in DOMAIN futs', j < k
          PROVE  futs'[j][1] < futs'[k][1]
      <4>1. j \in DOMAIN futs
        BY <1>7, <3>1, <3>2, <3>4
      <4>2. CASE k \in DOMAIN futs
        BY <1>2, <1>7, <3>1, <3>4, <4>1, <4>2 DEF FutsInv
      <4>3. CASE k \notin DOMAIN futs
        <5>1. futs'[k][1] = elem
          BY <1>7, <3>1, <4>3
        <5>2. futs'[j][1] \in 1..elem - 1
          BY <1>2, <1>7, <3>1, <4>1 DEF FutsInv
        <5> QED
          BY <1>3, <5>1, <5>2
      <4> QED
        BY <4>2, <4>3
    <3> QED
      BY <1>9, <3>3, <3>4 DEF FutsInv
  <2> QED
    BY <2>1, <2>2
<1>11. StageInv'
  <2>1. TitleAbove(elem + 1) = id'
    BY <1>1, <1>2, <1>3, NextTitle
  <2> QED
    BY <1>1, <1>2, <1>9, <2>1 DEF StageInv
<1>12. RowsInv'
  BY <1>1, <1>2 DEF RowsInv
<1>13. AllInv'
  <2>1. \A p : Waiting(p) => Waiting(p)'
    BY <1>1, <1>7 DEF Waiting
  <2>2. e.class = "socs" => Waiting(elem)
        \/ \E k \in DOMAIN futs' : futs'[k][1] = elem
    BY <1>1, <1>7
  <2>3. 1..elem' - 1 = (1..elem - 1) \cup {elem}
    BY <1>1, <1>3
  <2>4. ASSUME NEW p \in 1..elem' - 1, front[p].class = "socs"
        PROVE  Waiting(p)' \/ p \in lost' \/ Handled(p)'
    <3>1. CASE p = elem
      BY <2>1, <2>2, <2>4, <3>1 DEF Waiting
    <3>2. CASE p # elem
      <4>1. Waiting(p) \/ p \in lost \/ Handled(p)
        BY <2>3, <2>4, <3>2 DEF MarketInv, AllInv
      <4>2. Handled(p) => Handled(p)'
        BY <1>1, StaysHandled
      <4> QED
        BY <1>1, <2>1, <4>1, <4>2
    <3> QED
      BY <3>1, <3>2
  <2> QED
    BY <1>1, <2>4 DEF AllInv
<1> QED
  BY <1>8, <1>10, <1>11, <1>12, <1>13 DEF MarketInv

\* The walk ends behind the last element, with every list noted.
LEMMA WalkDoneStep ==
  ASSUME MarketInv, WalkDone
  PROVE  MarketInv'
<1>1. /\ at = "walk" /\ elem > Len(front)
      /\ at' = IF futs # <<>> THEN "request" ELSE "over"
      /\ UNCHANGED <<front, elem, id, futs, offers, date, now, market, answers, lost>>
  BY DEF WalkDone
<1>2. MarketTypes'
  BY <1>1 DEF MarketInv, MarketTypes
<1>3. \A p : TitleAbove(p)' = TitleAbove(p)
  BY <1>1, SamePage
<1>4. FutsInv'
  BY <1>1, <1>3 DEF MarketInv, FutsInv
<1>5. StageInv'
  <2>1. elem = Len(front) + 1
    BY <1>1 DEF MarketInv, MarketTypes
  <2> QED
    BY <1>1, <2>1 DEF StageInv
<1>6. RowsInv'
  BY <1>1 DEF MarketInv, RowsInv
<1>7. AllInv'
  BY <1>1, StaysHandled DEF MarketInv, AllInv, Waiting
<1> QED
  BY <1>2, <1>4, <1>5, <1>6, <1>7 DEF MarketInv

\* An answer without offers needs no row.
LEMMA AnswerStep ==
  ASSUME MarketInv, NEW l \in Lists, Answer(l)
  PROVE  MarketInv'
<1> PICK a : a = <<futs[1][1], futs[1][2], l, now>>
  OBVIOUS
<1> PICK p : p = futs[1][1]
  OBVIOUS
<1>1. /\ at = "request" /\ offers' = l /\ date' = now /\ answers' = answers \cup {a}
      /\ (l # <<>> /\ at' = "insert" /\ UNCHANGED futs) \/ (l = <<>> /\ NextList)
      /\ UNCHANGED <<front, elem, id, now, market, lost>>
  BY DEF Answer
<1>2. MarketTypes /\ FutsInv /\ futs # <<>> /\ elem = Len(front) + 1 /\ l \in Seq(Offers)
  BY <1>1, MarketAssumption DEF MarketInv, StageInv
<1>3. futs \in Seq(Nat \X Numbers)
  BY <1>2 DEF MarketTypes
<1>4. 1 \in DOMAIN futs /\ futs[1] \in Nat \X Numbers
  BY <1>2, <1>3, TailOf
<1>5. a[1] = futs[1][1] /\ a[2] = futs[1][2] /\ a[3] = l /\ a[4] = now /\ futs[1][1] \in Nat
  BY <1>4
<1>6. answers \subseteq answers' /\ market \subseteq market' /\ lost \subseteq lost'
      /\ a \in answers'
  BY <1>1
<1>7. \A b \in answers' : b[1] \in Nat
  BY <1>1, <1>2, <1>5 DEF MarketTypes
<1>8. CASE l # <<>>
  <2>1. at' = "insert" /\ futs' = futs
    BY <1>1, <1>8
  <2>2. MarketTypes'
    BY <1>1, <1>2, <1>7, <2>1 DEF MarketTypes
  <2>3. FutsInv'
    BY <1>1, <1>2, <2>1, SamePage DEF FutsInv
  <2>4. StageInv'
    BY <1>1, <1>2, <1>6, <2>1 DEF StageInv
  <2>5. RowsInv'
    BY <1>1, <1>6, <2>1 DEF MarketInv, RowsInv
  <2>6. AllInv'
    BY <1>1, <1>6, <2>1, StaysHandled DEF MarketInv, AllInv, Waiting
  <2> QED
    BY <2>2, <2>3, <2>4, <2>5, <2>6 DEF MarketInv
<1>9. CASE l = <<>>
  <2>1. NextList
    BY <1>1, <1>9
  <2>2. /\ futs' \in Seq(Nat \X Numbers) /\ at' \in {"request", "over"} /\ FutsInv'
        /\ at' = "request" => futs' # <<>>
        /\ at' = "over" => futs' = <<>>
    BY <1>1, <1>2, <2>1, NextListKeeps
  <2>3. MarketTypes'
    BY <1>1, <1>2, <1>7, <2>2 DEF MarketTypes
  <2>4. StageInv'
    BY <1>1, <1>2, <2>2 DEF StageInv
  <2>5. RowsInv'
    BY <1>1, <1>2, <1>6, <2>1, NextListRows
  <2>6. Handled(p)'
    <3>1. StoredRows(a)'
      BY <1>9, <1>5 DEF StoredRows
    <3>2. a[2] = TitleAbove(p)'
      <4>1. a[2] = TitleAbove(p)
        BY <1>2, <1>4, <1>5 DEF FutsInv
      <4> QED
        BY <1>1, <4>1, SamePage
    <3> QED
      BY <1>5, <1>6, <3>1, <3>2 DEF Handled
  <2>7. AllInv'
    BY <1>1, <1>2, <1>6, <2>1, <2>6, NextListAll
  <2> QED
    BY <2>2, <2>3, <2>4, <2>5, <2>7 DEF MarketInv
<1> QED
  BY <1>8, <1>9

\* A request that fails costs its own list.
LEMMA NoAnswerStep ==
  ASSUME MarketInv, NoAnswer
  PROVE  MarketInv'
<1>1. /\ at = "request" /\ NextList /\ lost' = lost \cup {futs[1][1]}
      /\ UNCHANGED <<front, elem, id, offers, date, now, market, answers>>
  BY DEF NoAnswer
<1>2. MarketTypes /\ FutsInv /\ futs # <<>> /\ elem = Len(front) + 1
  BY <1>1 DEF MarketInv, StageInv
<1>3. /\ futs' \in Seq(Nat \X Numbers) /\ at' \in {"request", "over"} /\ FutsInv'
      /\ at' = "request" => futs' # <<>>
      /\ at' = "over" => futs' = <<>>
  BY <1>1, <1>2, NextListKeeps
<1>4. MarketTypes'
  BY <1>1, <1>2, <1>3 DEF MarketTypes
<1>5. StageInv'
  BY <1>1, <1>2, <1>3 DEF StageInv
<1>6. RowsInv'
  BY <1>1, <1>2, NextListRows
<1>7. AllInv'
  BY <1>1, <1>2, NextListAll
<1> QED
  BY <1>3, <1>4, <1>5, <1>6, <1>7 DEF MarketInv

\* The rows of the list in hand.
NewRows == {Row(offers[k]) : k \in DOMAIN offers}

\* A list leaves the loop after its INSERT: with its rows or without, lost or
\* handled.
LEMMA AfterInsert ==
  ASSUME MarketInv, at = "insert", NextList,
         market' \in {market, market \cup NewRows}, lost \subseteq lost',
         NEW p, p = futs[1][1], p \in lost' \/ Handled(p)',
         UNCHANGED <<front, elem, id, offers, date, now, answers>>
  PROVE  MarketInv'
<1>1. UNCHANGED <<front, elem, id, offers, date, now, answers>>
  OBVIOUS
<1>2. MarketTypes /\ FutsInv /\ futs # <<>> /\ elem = Len(front) + 1
  BY DEF MarketInv, StageInv
<1>3. /\ futs' \in Seq(Nat \X Numbers) /\ at' \in {"request", "over"} /\ FutsInv'
      /\ at' = "request" => futs' # <<>>
      /\ at' = "over" => futs' = <<>>
  BY <1>1, <1>2, NextListKeeps
<1>4. MarketTypes'
  BY <1>1, <1>2, <1>3 DEF MarketTypes
<1>5. StageInv'
  BY <1>1, <1>2, <1>3 DEF StageInv
<1>6. RowsInv'
  <2>1. PICK a \in answers : a = <<futs[1][1], futs[1][2], offers, date>>
    BY DEF MarketInv, StageInv
  <2>2. ASSUME NEW r \in market', r \notin market
        PROVE  \E b \in answers :
                 b[1] = futs[1][1] /\ b[4] = r.time /\ \E k \in DOMAIN b[3] : b[3][k] = r.offer
    <3>1. PICK k \in DOMAIN offers : r = Row(offers[k])
      BY <2>2 DEF NewRows
    <3>2. r.offer = offers[k] /\ r.time = date
      BY <3>1 DEF Row
    <3> QED
      BY <2>1, <3>2
  <2> QED
    BY <1>1, <1>2, <2>2, NextListRows
<1>7. AllInv'
  <2>1. market \subseteq market' /\ answers \subseteq answers'
    OBVIOUS
  <2> QED
    BY <1>1, <1>2, <2>1, NextListAll
<1> QED
  BY <1>3, <1>4, <1>5, <1>6, <1>7 DEF MarketInv

\* A list that the primary key refuses repeats an offer, or shares one with an
\* earlier answer of its second; one that it does not has all its rows.
LEMMA InsertListStep ==
  ASSUME MarketInv, InsertList
  PROVE  MarketInv'
<1>1. /\ at = "insert" /\ NextList
      /\ (~Refused /\ market' = market \cup NewRows) \/ (Refused /\ UNCHANGED market)
      /\ UNCHANGED <<front, elem, id, offers, date, now, answers, lost>>
  BY DEF InsertList, AfterRefusal, NewRows
<1>2. MarketTypes /\ FutsInv /\ futs # <<>>
  BY <1>1 DEF MarketInv, StageInv
<1>3. PICK a \in answers : a = <<futs[1][1], futs[1][2], offers, date>>
  BY <1>1 DEF MarketInv, StageInv
<1>4. PICK p : p = futs[1][1]
  OBVIOUS
<1>5. a[1] = p /\ a[2] = futs[1][2] /\ a[3] = offers /\ a[4] = date
  BY <1>3, <1>4
<1>6. a[2] = TitleAbove(p)
  <2>1. 1 \in DOMAIN futs
    BY <1>2, TailOf DEF MarketTypes
  <2> QED
    BY <1>2, <1>4, <1>5, <2>1 DEF FutsInv
<1>7. CASE ~Refused
  <2>1. market' = market \cup NewRows
    BY <1>1, <1>7
  <2>2. StoredRows(a)'
    BY <1>5, <2>1 DEF StoredRows, NewRows, Row
  <2>3. a[2] = TitleAbove(p)' /\ a \in answers'
    BY <1>1, <1>6, SamePage
  <2>4. Handled(p)'
    BY <1>5, <2>2, <2>3 DEF Handled
  <2> QED
    BY <1>1, <1>4, <2>1, <2>4, AfterInsert
<1>8. CASE Refused
  <2>1. market' = market
    BY <1>1, <1>8
  <2>2. Repeats(a) \/ \E b \in answers : b[1] < p /\ Clash(a, b)
    <3>1. CASE \E j, k \in DOMAIN offers : j # k /\ offers[j] = offers[k]
      BY <1>5, <3>1 DEF Repeats
    <3>2. CASE \E r \in market : r.time = date /\ \E k \in DOMAIN offers : offers[k] = r.offer
      <4>1. PICK r \in market : r.time = date /\ \E k \in DOMAIN offers : offers[k] = r.offer
        BY <3>2
      <4>2. PICK b \in answers : /\ b[4] = r.time /\ \E k \in DOMAIN b[3] : b[3][k] = r.offer
                                 /\ b[1] < futs[1][1]
        BY <1>2, <4>1 DEF MarketInv, RowsInv
      <4> QED
        BY <1>4, <1>5, <4>1, <4>2 DEF Clash
    <3> QED
      BY <1>8, <3>1, <3>2 DEF Refused
  <2>3. Handled(p)
    BY <1>5, <1>6, <2>2 DEF Handled
  <2>4. Handled(p)'
    BY <1>1, <2>1, <2>3, StaysHandled
  <2> QED
    BY <1>1, <1>4, <2>1, <2>4, AfterInsert
<1> QED
  BY <1>7, <1>8

\* An INSERT that fails costs its own list, whether it was executed or not.
LEMMA InsertListFailStep ==
  ASSUME MarketInv, InsertListFail
  PROVE  MarketInv'
<1>1. /\ at = "insert" /\ NextList /\ lost' = lost \cup {futs[1][1]}
      /\ market' \in {market, market \cup NewRows}
      /\ UNCHANGED <<front, elem, id, offers, date, now, answers>>
  BY DEF InsertListFail, NewRows
<1>2. PICK p : p = futs[1][1]
  OBVIOUS
<1>3. p \in lost' /\ lost \subseteq lost'
  BY <1>1, <1>2
<1> QED
  BY <1>1, <1>2, <1>3, AfterInsert

\* Whatever the page and the lists, at the end each list was asked for under its
\* title, and has all its rows unless it failed itself or the primary key does not
\* allow it: no list is lost by another's failure (main.rs 34-48, scrape.rs 75-97).
THEOREM NoListIsForgotten == MarketSpec => []ListsComplete
<1>1. MarketInit => MarketInv
  BY MarketStarts
<1>2. MarketInv /\ [MarketNext]_marketVars => MarketInv'
  <2> SUFFICES ASSUME MarketInv, [MarketNext]_marketVars PROVE MarketInv'
    OBVIOUS
  <2>1. CASE Second
    <3>1. now' \in Nat
      BY <2>1 DEF Second, MarketInv, MarketTypes
    <3> QED
      BY <2>1, <3>1, SecondStep DEF Second
  <2>2. CASE UNCHANGED marketVars
    <3>1. now' \in Nat
      BY <2>2 DEF marketVars, MarketInv, MarketTypes
    <3> QED
      BY <2>2, <3>1, SecondStep DEF marketVars
  <2> QED
    BY <2>1, <2>2, ElementStep, WalkDoneStep, AnswerStep, NoAnswerStep, InsertListStep,
       InsertListFailStep DEF MarketNext
<1>3. MarketInv => ListsComplete
  <2> SUFFICES ASSUME MarketInv, at = "over",
                      NEW p \in DOMAIN front, front[p].class = "socs", p \notin lost
               PROVE  Handled(p)
    BY DEF ListsComplete, Handled, StoredRows
  <2>1. p \in 1..elem - 1 /\ futs = <<>>
    BY DEF MarketInv, StageInv, MarketTypes
  <2>2. ~Waiting(p)
    BY <2>1 DEF Waiting
  <2> QED
    BY <2>1, <2>2 DEF MarketInv, AllInv
<1> QED
  BY <1>1, <1>2, <1>3, PTL DEF MarketSpec

-----------------------------------------------------------------------------
(* Patches: lemmas.                                                        *)

\* The sides of a patch.
LEMMA SidesOf ==
  ASSUME NEW t, NEW q
  PROVE  /\ Sides(t, q) \in {"patched", "clean", "broken"}
         /\ Sides(t, q) = "patched" => \A k \in DOMAIN q : Target(t, q[k])
         /\ Sides(t, q) = "clean" => \A k \in DOMAIN q : Source(t, q[k])
         /\ Sides(t, q) = "broken" => \E k \in DOMAIN q : ~Source(t, q[k])
BY DEF Sides

\* Patched sources are sources.
LEMMA AppliedType ==
  ASSUME NEW t \in Trees, NEW q \in Seq(Hunks), NEW S
  PROVE  Applied(t, q, S) \in Trees
<1>1. ASSUME NEW f \in Files, NEW k \in DOMAIN q
      PROVE  q[k].after \in Contents \cup {Zero}
  <2>1. q[k] \in Hunks
    OBVIOUS
  <2> QED
    BY <2>1 DEF Hunks
<1>2. ASSUME NEW f \in Files
      PROVE  (IF f \in S /\ \E k \in DOMAIN q : q[k].file = f /\ q[k].before = t[f]
              THEN q[CHOOSE k \in DOMAIN q : q[k].file = f /\ q[k].before = t[f]].after
              ELSE t[f]) \in Contents \cup {Zero}
  <2>1. t[f] \in Contents \cup {Zero}
    BY DEF Trees
  <2>2. (\E k \in DOMAIN q : q[k].file = f /\ q[k].before = t[f]) =>
          (CHOOSE k \in DOMAIN q : q[k].file = f /\ q[k].before = t[f]) \in DOMAIN q
    OBVIOUS
  <2> QED
    BY <1>1, <2>1, <2>2
<1> QED
  BY <1>2 DEF Applied, Trees

\* `git apply` brings each file that is as the patch expects it to its new contents.
LEMMA AppliedTarget ==
  ASSUME NEW t \in Trees, NEW q \in Seq(Hunks),
         \A j, k \in DOMAIN q : q[j].file = q[k].file => j = k,
         NEW k \in DOMAIN q, q[k].before = t[q[k].file]
  PROVE  Target(Applied(t, q, Files), q[k])
<1> DEFINE f == q[k].file
           j == CHOOSE j \in DOMAIN q : q[j].file = f /\ q[j].before = t[f]
<1>1. f \in Files
  <2>1. q[k] \in Hunks
    OBVIOUS
  <2> QED
    BY <2>1 DEF Hunks
<1>2. j \in DOMAIN q /\ q[j].file = f
  OBVIOUS
<1>3. j = k
  BY <1>2
<1>4. \E i \in DOMAIN q : q[i].file = f /\ q[i].before = t[f]
  OBVIOUS
<1>5. Applied(t, q, Files)[f] = q[j].after
  BY <1>1, <1>4 DEF Applied
<1> QED
  BY <1>3, <1>5 DEF Target

\* A patch that a package has is one that it may get.
LEMMA PatchOf ==
  ASSUME PatchesTypes, NEW p \in Packages, patch[p] # NoPatch
  PROVE  /\ patch[p] \in Seq(Hunks)
         /\ \A j, k \in DOMAIN patch[p] : patch[p][j].file = patch[p][k].file => j = k
BY PatchesAssumption DEF PatchesTypes

\* The original sources are sources.
LEMMA OriginalType == \A p \in Packages : Original[p] \in Trees /\ Original[p] # Gone
BY PatchesAssumption

\* cargo fetches what is gone, all of it for the host, and leaves the rest.
LEMMA CargoFetches ==
  ASSUME PatchesTypes, NEW t, CargoFetch(t)
  PROVE  /\ tree' \in [Packages -> Trees \cup {Gone}]
         /\ \A p \in Packages :
              /\ tree[p] # Gone => tree'[p] = tree[p]
              /\ tree[p] = Gone => tree'[p] \in {Gone, Original[p]}
              /\ tree[p] = Gone /\ t = "host" => tree'[p] = Original[p]
<1>1. PICK S \in SUBSET Missing :
        /\ t = "host" => S = Missing
        /\ tree' = [p \in Packages |-> IF p \in S THEN Original[p] ELSE tree[p]]
  BY DEF CargoFetch
<1>2. \A p \in Packages : p \in Missing <=> tree[p] = Gone
  BY DEF Missing
<1> QED
  BY <1>1, <1>2, OriginalType DEF PatchesTypes

\* A package whose sources and patch stay is as it was.
LEMMA SamePackage ==
  ASSUME NEW p, tree'[p] = tree[p], patch'[p] = patch[p]
  PROVE  /\ Done(p)' <=> Done(p)
         /\ IsClean(p)' <=> IsClean(p)
         /\ IsApplied(p)' <=> IsApplied(p)
         /\ Fits(p)' <=> Fits(p)
BY DEF Done, IsClean, IsApplied, Fits

-----------------------------------------------------------------------------
(* Patches: the initial state and the steps.                               *)

\* Before the first run nothing is claimed.
LEMMA PatchesStarts ==
  ASSUME PatchesInit
  PROVE  PatchesInv
<1>1. PatchesTypes
  <2>1. tree \in [Packages -> Trees \cup {Gone}]
    BY OriginalType DEF PatchesInit
  <2>2. \A p \in Packages : patch[p] \in PatchesOf[p] \cup {NoPatch}
    BY DEF PatchesInit
  <2>3. \A p \in Packages : patch[p] \in Seq(Hunks) \cup {NoPatch}
    BY <2>2, PatchesAssumption
  <2>4. patch \in [Packages -> Seq(Hunks) \cup {NoPatch}]
    BY <2>3 DEF PatchesInit
  <2>5. status \in [Packages -> Statuses]
    BY DEF PatchesInit, Statuses
  <2> QED
    BY <2>1, <2>2, <2>4, <2>5 DEF PatchesInit, PatchesTypes
<1>2. stage = "off" /\ exit = "none"
  BY DEF PatchesInit
<1>3. StatusInv /\ ScanInv /\ FreshInv /\ ReportInv /\ Repaired
  BY <1>2 DEF StatusInv, ScanInv, FreshInv, ReportInv, Repaired
<1> QED
  BY <1>1, <1>3 DEF PatchesInv

\* A state between runs of which nothing is claimed, after an update, a failure or
\* a kill.
LEMMA OffInv ==
  ASSUME PatchesTypes', stage' = "off", exit' # "ok"
  PROVE  PatchesInv'
BY DEF PatchesInv, StatusInv, ScanInv, FreshInv, ReportInv, Repaired

\* Between runs a patch or the library may change, and nothing is claimed of them.
LEMMA UpdateStep ==
  ASSUME PatchesInv, NEW p \in Packages, NEW q \in PatchesOf[p], Update(p, q)
  PROVE  PatchesInv'
<1>1. /\ stage' = "off" /\ exit' = "none"
      /\ UNCHANGED <<target, queue, status, undisturbed, fresh>>
      /\ \/ patch' = [patch EXCEPT ![p] = q] /\ UNCHANGED tree
         \/ tree' = [tree EXCEPT ![p] = Original[p]] /\ UNCHANGED patch
  BY DEF Update
<1>2. q \in Seq(Hunks) /\ Original[p] \in Trees
  BY PatchesAssumption, OriginalType
<1>3. PatchesTypes'
  BY <1>1, <1>2 DEF PatchesInv, PatchesTypes
<1> QED
  BY <1>1, <1>3, OffInv

\* A run starts without a status.
LEMMA BeginStep ==
  ASSUME PatchesInv, Begin
  PROVE  PatchesInv'
<1>1. /\ stage' = "download" /\ queue' \in {Std, {}} /\ status' = [p \in Packages |-> "none"]
      /\ target' = "host" /\ fresh' = Missing
      /\ exit' = "none" /\ patch' = patch
      /\ \/ CargoFetch("host") /\ undisturbed' = TRUE
         \/ UNCHANGED tree /\ undisturbed' = FALSE
  BY DEF Begin, Failure
<1>2. PatchesTypes'
  <2>1. tree' \in [Packages -> Trees \cup {Gone}]
    BY <1>1, CargoFetches DEF PatchesInv, PatchesTypes
  <2>2. status' \in [Packages -> Statuses]
    BY <1>1 DEF Statuses
  <2>3. queue' \subseteq Packages /\ fresh' \subseteq Packages
    BY <1>1 DEF Packages, Missing
  <2> QED
    BY <1>1, <2>1, <2>2, <2>3 DEF PatchesInv, PatchesTypes
<1>3. StatusInv' /\ ScanInv' /\ ReportInv' /\ Repaired'
  BY <1>1 DEF StatusInv, ScanInv, ReportInv, Repaired
<1>4. FreshInv'
  <2>1. ASSUME undisturbed', NEW p \in fresh' PROVE tree'[p] = Original[p]
    <3>1. CargoFetch("host")
      BY <1>1, <2>1
    <3>2. p \in Packages /\ tree[p] = Gone
      BY <1>1 DEF Missing
    <3> QED
      BY <3>1, <3>2, CargoFetches DEF PatchesInv
  <2> QED
    BY <1>1, <2>1 DEF FreshInv
<1> QED
  BY <1>2, <1>3, <1>4 DEF PatchesInv

\* A download changes a patch before anything is scanned.
LEMMA DownloadStep ==
  ASSUME PatchesInv, NEW p \in Std, NEW q \in PatchesOf[p] \cup {patch[p]}, Download(p, q)
  PROVE  PatchesInv'
<1>1. /\ stage = "download" /\ stage' = "download" /\ queue' = queue \ {p}
      /\ \/ patch' = [patch EXCEPT ![p] = q] /\ target' = "patch"
         \/ UNCHANGED <<patch, target>>
      /\ UNCHANGED <<tree, status, undisturbed, fresh, exit>>
  BY DEF Download
<1>2. p \in Packages
  BY DEF Packages
<1>3. q \in Seq(Hunks) \cup {NoPatch} /\ q \in PatchesOf[p] \cup {NoPatch}
  BY <1>2, PatchesAssumption DEF PatchesInv, PatchesTypes
<1>4. PatchesTypes'
  BY <1>1, <1>2, <1>3 DEF PatchesInv, PatchesTypes
<1>5. StatusInv' /\ ScanInv' /\ FreshInv' /\ ReportInv' /\ Repaired'
  BY <1>1 DEF PatchesInv, StatusInv, ScanInv, FreshInv, ReportInv, Repaired
<1> QED
  BY <1>4, <1>5 DEF PatchesInv

\* The packages that are scanned are those with a patch.
LEMMA DownloadedStep ==
  ASSUME PatchesInv, Downloaded
  PROVE  PatchesInv'
<1>1. /\ stage = "download" /\ stage' = "scan" /\ queue' \subseteq Packages
      /\ \A p \in queue' : patch'[p] # NoPatch
      /\ UNCHANGED <<tree, patch, target, status, undisturbed, fresh, exit>>
  BY DEF Downloaded
<1>2. PatchesTypes'
  BY <1>1 DEF PatchesInv, PatchesTypes
<1>3. \A p \in Packages : status'[p] = "none"
  BY <1>1 DEF PatchesInv, ScanInv
<1>4. StatusInv' /\ ScanInv' /\ ReportInv' /\ Repaired'
  BY <1>1, <1>3 DEF StatusInv, ScanInv, ReportInv, Repaired
<1>5. FreshInv'
  <2>1. fresh \subseteq Packages
    BY DEF PatchesInv, PatchesTypes
  <2> QED
    BY <1>1, <1>3, <2>1 DEF PatchesInv, FreshInv
<1> QED
  BY <1>2, <1>4, <1>5 DEF PatchesInv

\* The status of a package says what its sources are; other packages keep theirs.
LEMMA ScanStep ==
  ASSUME PatchesInv, NEW p \in Packages, Scan(p)
  PROVE  PatchesInv'
<1> DEFINE s == Sides(tree[p], patch[p])
<1>1. /\ stage = "scan" /\ stage' = "scan" /\ p \in queue /\ tree[p] # Gone
      /\ queue' = queue \ {p}
      /\ status' = [status EXCEPT ![p] = IF s = "broken" /\ p \in Std THEN "discard" ELSE s]
      /\ tree' = [tree EXCEPT ![p] = IF s = "broken" /\ p \in Fetched THEN Gone ELSE tree[p]]
      /\ UNCHANGED <<patch, target, undisturbed, fresh, exit>>
  BY DEF Scan, NoFailure
<1>2. PatchesTypes
  BY DEF PatchesInv
<1>3. s \in {"patched", "clean", "broken"} /\ p \in Std \cup Fetched
  BY SidesOf DEF Packages
<1>4. PatchesTypes'
  <2>1. status' \in [Packages -> Statuses]
    BY <1>1, <1>2, <1>3 DEF PatchesTypes, Statuses
  <2>2. tree' \in [Packages -> Trees \cup {Gone}]
    BY <1>1, <1>2 DEF PatchesTypes
  <2> QED
    BY <1>1, <1>2, <2>1, <2>2 DEF PatchesTypes
<1>5. /\ status'[p] = IF s = "broken" /\ p \in Std THEN "discard" ELSE s
      /\ tree'[p] = IF s = "broken" /\ p \in Fetched THEN Gone ELSE tree[p]
      /\ \A h \in Packages : h # p => status'[h] = status[h] /\ tree'[h] = tree[h]
  BY <1>1, <1>2 DEF PatchesTypes
<1>6. StatusInv'
  BY <1>1, <1>3, <1>5 DEF PatchesInv, StatusInv
<1>7. ScanInv'
  <2>1. ASSUME NEW h \in Packages, h # p
        PROVE  /\ status'[h] = "patched" => Done(h)'
               /\ status'[h] = "clean" => tree'[h] # Gone /\ IsClean(h)'
               /\ status'[h] = "broken" => tree'[h] = Gone
    <3>1. status'[h] = status[h] /\ tree'[h] = tree[h] /\ patch'[h] = patch[h]
      BY <1>1, <1>5, <2>1
    <3>2. (Done(h)' <=> Done(h)) /\ (IsClean(h)' <=> IsClean(h))
      BY <3>1, SamePackage
    <3> QED
      BY <1>1, <3>1, <3>2 DEF PatchesInv, ScanInv
  <2>2. /\ status'[p] = "patched" => Done(p)'
        /\ status'[p] = "clean" => tree'[p] # Gone /\ IsClean(p)'
        /\ status'[p] = "broken" => tree'[p] = Gone
    <3>1. CASE s = "broken"
      BY <1>3, <1>5, <3>1
    <3>2. CASE s # "broken"
      <4>1. status'[p] = s /\ tree'[p] = tree[p] /\ patch'[p] = patch[p]
        BY <1>1, <1>5, <3>2
      <4>2. (s = "patched" => Done(p)) /\ (s = "clean" => IsClean(p))
        BY <1>1, SidesOf DEF Done, IsClean
      <4>3. (Done(p)' <=> Done(p)) /\ (IsClean(p)' <=> IsClean(p))
        BY <4>1, SamePackage
      <4> QED
        BY <1>1, <3>2, <4>1, <4>2, <4>3
    <3> QED
      BY <3>1, <3>2
  <2> QED
    BY <1>1, <2>1, <2>2 DEF ScanInv
<1>8. ReportInv' /\ Repaired'
  BY <1>1 DEF ReportInv, Repaired
<1>9. FreshInv'
  <2> SUFFICES ASSUME undisturbed', NEW h \in fresh'
               PROVE  /\ h \in queue' => tree'[h] = Original[h]
                      /\ status'[h] = "broken" => ~Fits(h)'
    BY <1>1 DEF FreshInv
  <2>1. /\ h \in Packages /\ (Fits(h)' <=> Fits(h))
        /\ h \in queue => tree[h] = Original[h]
        /\ status[h] = "broken" => ~Fits(h)
    BY <1>1, <1>2 DEF PatchesInv, PatchesTypes, FreshInv, Fits
  <2>2. CASE h # p
    BY <1>1, <1>5, <2>1, <2>2
  <2>3. CASE h = p
    <3>1. h \notin queue' /\ tree[p] = Original[p]
      BY <1>1, <2>1, <2>3
    <3>2. ASSUME status'[p] = "broken" PROVE ~Fits(p)
      <4>1. s = "broken"
        BY <1>3, <1>5, <3>2
      <4>2. PICK k \in DOMAIN patch[p] : ~Source(tree[p], patch[p][k])
        BY <4>1, SidesOf
      <4> QED
        BY <3>1, <4>2 DEF Source, Fits
    <3> QED
      BY <2>1, <2>3, <3>1, <3>2
  <2> QED
    BY <2>2, <2>3
<1> QED
  BY <1>4, <1>6, <1>7, <1>8, <1>9 DEF PatchesInv

\* A package that is not there ends the run with an error.
LEMMA NotFoundStep ==
  ASSUME PatchesInv, NEW p \in Packages, NotFound(p)
  PROVE  PatchesInv'
<1>1. /\ stage' = "off" /\ exit' = "err"
      /\ UNCHANGED <<tree, patch, target, queue, status, undisturbed, fresh>>
  BY DEF NotFound, NoFailure
<1>2. PatchesTypes'
  BY <1>1 DEF PatchesInv, PatchesTypes
<1> QED
  BY <1>1, <1>2, OffInv

\* What was broken is fetched again, or stays gone after a download, and what was
\* not is left alone.
LEMMA ScannedStep ==
  ASSUME PatchesInv, Scanned
  PROVE  PatchesInv'
<1>1. /\ stage = "scan" /\ stage' = "report"
      /\ queue' = {p \in Packages : status[p] # "none"}
      /\ UNCHANGED <<patch, target, status, fresh, exit>>
      /\ \/ CargoFetch(target) /\ UNCHANGED undisturbed
         \/ UNCHANGED tree /\ undisturbed' = FALSE
         \/ /\ \A p \in Packages : status[p] # "broken"
            /\ UNCHANGED tree /\ UNCHANGED undisturbed
  BY DEF Scanned, Failure, NoFailure
<1>2. PatchesTypes
  BY DEF PatchesInv
<1>3. PatchesTypes'
  <2>1. tree' \in [Packages -> Trees \cup {Gone}]
    BY <1>1, <1>2, CargoFetches DEF PatchesTypes
  <2>2. queue' \subseteq Packages
    BY <1>1
  <2>3. undisturbed' \in BOOLEAN
    BY <1>1, <1>2 DEF PatchesTypes
  <2> QED
    BY <1>1, <1>2, <2>1, <2>2, <2>3 DEF PatchesTypes
<1>4. StatusInv'
  BY <1>1 DEF PatchesInv, StatusInv
<1>5. ScanInv' /\ Repaired'
  BY <1>1 DEF ScanInv, Repaired
<1>6. FreshInv'
  BY <1>1 DEF PatchesInv, FreshInv, Fits
<1>7. ReportInv'
  <2> SUFFICES ASSUME undisturbed', NEW p \in Packages
               PROVE  /\ status'[p] = "patched" => Done(p)'
                      /\ status'[p] = "clean" => IF p \in queue' THEN tree'[p] # Gone /\ IsClean(p)'
                                                ELSE IsApplied(p)'
                      /\ status'[p] = "broken" =>
                           StaysGone(p)' \/ IF p \in queue' THEN tree'[p] = Original[p]
                                            ELSE Done(p)' \/ ~Fits(p)'
    BY DEF ReportInv
  <2>1. /\ status[p] = "patched" => tree[p] # Gone /\ Done(p)
        /\ status[p] = "clean" => tree[p] # Gone /\ IsClean(p)
        /\ status[p] = "broken" => tree[p] = Gone
    BY <1>1 DEF PatchesInv, ScanInv, Done
  <2>2. status[p] # "none" => p \in queue'
    BY <1>1
  <2>3. tree[p] # Gone => tree'[p] = tree[p]
    BY <1>1, <1>2, CargoFetches
  <2>4. status[p] = "broken" => StaysGone(p)' \/ tree'[p] = Original[p]
    <3>1. target \in {"host", "patch"} /\ target' = target
      BY <1>1, <1>2 DEF PatchesTypes
    <3>2. status[p] = "broken" => CargoFetch(target) /\ tree[p] = Gone
      BY <1>1, <2>1, <1>2 DEF PatchesTypes
    <3> QED
      BY <1>2, <3>1, <3>2, CargoFetches DEF StaysGone
  <2>5. CASE status[p] \in {"patched", "clean"}
    <3>1. tree'[p] = tree[p] /\ patch'[p] = patch[p]
      BY <1>1, <2>1, <2>3, <2>5
    <3>2. (Done(p)' <=> Done(p)) /\ (IsClean(p)' <=> IsClean(p))
      BY <3>1, SamePackage
    <3> QED
      BY <1>1, <2>1, <2>2, <2>3, <2>5, <3>2
  <2>6. CASE status[p] \notin {"patched", "clean"}
    BY <1>1, <2>2, <2>4, <2>6
  <2> QED
    BY <2>5, <2>6
<1> QED
  BY <1>3, <1>4, <1>5, <1>6, <1>7 DEF PatchesInv

\* A clean package gets its patch, and one that was fetched again gets it if the
\* patch is for its sources.
LEMMA ReportStep ==
  ASSUME PatchesInv, NEW p \in Packages, Report(p)
  PROVE  PatchesInv'
<1>1. /\ stage = "report" /\ stage' = "report" /\ p \in queue /\ queue' = queue \ {p}
      /\ tree' = IF status[p] \in {"clean", "broken"} /\ tree[p] # Gone
                 THEN [tree EXCEPT ![p] = Applied(tree[p], patch[p], Files)] ELSE tree
      /\ UNCHANGED <<patch, target, status, undisturbed, fresh, exit>>
  BY DEF Report, NoFailure
<1>2. PatchesTypes
  BY DEF PatchesInv
<1>3. tree[p] # Gone => tree[p] \in Trees
  BY <1>2 DEF PatchesTypes
<1>4. status[p] # "none" => patch[p] # NoPatch
  BY <1>1 DEF PatchesInv, StatusInv
<1>5. tree[p] # Gone /\ status[p] # "none" => Applied(tree[p], patch[p], Files) \in Trees
  BY <1>2, <1>3, <1>4, PatchOf, AppliedType
<1>6. PatchesTypes'
  <2>1. tree' \in [Packages -> Trees \cup {Gone}]
    BY <1>1, <1>2, <1>5 DEF PatchesTypes
  <2> QED
    BY <1>1, <1>2, <2>1 DEF PatchesTypes
<1>7. StatusInv' /\ ScanInv' /\ FreshInv' /\ Repaired'
  BY <1>1 DEF PatchesInv, StatusInv, ScanInv, FreshInv, Fits, Repaired
<1>8. ReportInv'
  <2> SUFFICES ASSUME undisturbed', NEW h \in Packages
               PROVE  /\ status'[h] = "patched" => Done(h)'
                      /\ status'[h] = "clean" => IF h \in queue' THEN tree'[h] # Gone /\ IsClean(h)'
                                                ELSE IsApplied(h)'
                      /\ status'[h] = "broken" =>
                           StaysGone(h)' \/ IF h \in queue' THEN tree'[h] = Original[h]
                                            ELSE Done(h)' \/ ~Fits(h)'
    BY DEF ReportInv
  <2>1. /\ status[h] = "patched" => Done(h)
        /\ status[h] = "clean" => IF h \in queue THEN tree[h] # Gone /\ IsClean(h)
                                 ELSE IsApplied(h)
        /\ status[h] = "broken" =>
             StaysGone(h) \/ IF h \in queue THEN tree[h] = Original[h]
                             ELSE Done(h) \/ ~Fits(h)
    BY <1>1 DEF PatchesInv, ReportInv
  <2>2. CASE h # p \/ status[h] \notin {"clean", "broken"}
    <3>1. tree'[h] = tree[h] /\ patch'[h] = patch[h] /\ status'[h] = status[h]
          /\ (h # p => (h \in queue' <=> h \in queue))
      BY <1>1, <1>2, <2>2 DEF PatchesTypes
    <3>2. /\ (Done(h)' <=> Done(h)) /\ (IsClean(h)' <=> IsClean(h))
          /\ (IsApplied(h)' <=> IsApplied(h)) /\ (Fits(h)' <=> Fits(h))
          /\ (StaysGone(h)' <=> StaysGone(h))
      BY <1>1, <3>1, SamePackage DEF StaysGone
    <3> QED
      BY <2>1, <2>2, <3>1, <3>2
  <2>3. CASE h = p /\ status[p] = "broken" /\ StaysGone(p)
    <3>1. tree' = tree /\ target' = target
      BY <1>1, <2>3 DEF StaysGone
    <3>2. StaysGone(h)' /\ status'[h] = "broken"
      BY <1>1, <2>3, <3>1 DEF StaysGone
    <3> QED
      BY <3>2
  <2>4. CASE h = p /\ (status[p] = "clean" \/ (status[p] = "broken" /\ ~StaysGone(p)))
    <3>1. tree[p] # Gone /\ status[p] \in {"clean", "broken"}
      BY <1>1, <2>1, <2>4, OriginalType
    <3>2. tree'[p] = Applied(tree[p], patch[p], Files)
      BY <1>1, <1>2, <3>1 DEF PatchesTypes
    <3>3. /\ tree[p] \in Trees /\ patch[p] \in Seq(Hunks)
          /\ \A j, k \in DOMAIN patch[p] : patch[p][j].file = patch[p][k].file => j = k
      BY <1>2, <1>3, <1>4, <3>1, PatchOf
    <3>4. \A k \in DOMAIN patch[p] : patch[p][k].before = tree[p][patch[p][k].file]
                                      => Target(tree'[p], patch[p][k])
      BY <3>2, <3>3, AppliedTarget
    <3>5. p \notin queue' /\ patch' = patch /\ status' = status
      BY <1>1
    <3>6. CASE status[p] = "clean"
      <4>1. IsClean(p)
        BY <1>1, <2>1, <2>4, <3>6
      <4>2. IsApplied(p)'
        BY <3>4, <3>5, <4>1 DEF IsClean, IsApplied, Source
      <4> QED
        BY <2>4, <3>5, <3>6, <4>2
    <3>7. CASE status[p] = "broken"
      <4>1. tree[p] = Original[p]
        BY <1>1, <2>1, <2>4, <3>7
      <4>2. tree'[p] # Gone
        BY <3>2, <3>3, AppliedType, PatchesAssumption
      <4>3. Fits(p) => Done(p)'
        BY <3>4, <3>5, <4>1, <4>2 DEF Fits, Done
      <4>4. Fits(p)' => Fits(p)
        BY <3>5 DEF Fits
      <4> QED
        BY <2>4, <3>5, <3>7, <4>3, <4>4
    <3> QED
      BY <2>4, <3>6, <3>7
  <2> QED
    BY <2>2, <2>3, <2>4
<1> QED
  BY <1>6, <1>7, <1>8 DEF PatchesInv

\* When every package is reported, each has its patch or one of the excuses.
LEMMA ReportedStep ==
  ASSUME PatchesInv, Reported
  PROVE  PatchesInv'
<1>1. /\ stage = "report" /\ queue = {} /\ stage' = "off"
      /\ UNCHANGED <<tree, patch, target, queue, status, undisturbed, fresh>> /\ exit' = "ok"
  BY DEF Reported
<1>2. PatchesTypes'
  BY <1>1 DEF PatchesInv, PatchesTypes
<1>3. StatusInv' /\ ScanInv' /\ FreshInv' /\ ReportInv'
  BY <1>1 DEF StatusInv, ScanInv, FreshInv, ReportInv
<1>4. Repaired'
  <2> SUFFICES ASSUME undisturbed', NEW p \in Packages
               PROVE  \/ status'[p] = "none"
                      \/ Done(p)'
                      \/ p \in Std /\ status'[p] = "discard"
                      \/ p \in Fetched /\ ~Fits(p)'
                      \/ LeftOut(p)'
                      \/ status'[p] = "clean" /\ IsApplied(p)'
    BY DEF Repaired, IsApplied
  <2>1. /\ status[p] = "patched" => Done(p)
        /\ status[p] = "clean" => IsApplied(p)
        /\ status[p] = "broken" => StaysGone(p) \/ Done(p) \/ ~Fits(p)
    BY <1>1 DEF PatchesInv, ReportInv
  <2>2. status[p] \in Statuses
    BY DEF PatchesInv, PatchesTypes
  <2>3. (status[p] = "broken" => p \in Fetched) /\ (status[p] = "discard" => p \in Std)
    BY <1>1 DEF PatchesInv, StatusInv
  <2>4. /\ status'[p] = status[p]
        /\ (Done(p)' <=> Done(p)) /\ (IsApplied(p)' <=> IsApplied(p)) /\ (Fits(p)' <=> Fits(p))
    BY <1>1, SamePackage
  <2>5. status[p] = "broken" /\ StaysGone(p) => LeftOut(p)' \/ ~Fits(p)
    <3>1. p \in fresh /\ status[p] = "broken" => ~Fits(p)
      BY <1>1 DEF PatchesInv, FreshInv
    <3> QED
      BY <1>1, <3>1 DEF LeftOut, StaysGone
  <2> QED
    BY <2>1, <2>2, <2>3, <2>4, <2>5 DEF Statuses
<1> QED
  BY <1>2, <1>3, <1>4 DEF PatchesInv

\* A kill may leave files removed or patched, but sources.
LEMMA KillStep ==
  ASSUME PatchesInv, Kill
  PROVE  PatchesInv'
<1>1. stage' = "off" /\ exit' = "none" /\ undisturbed' = FALSE
      /\ UNCHANGED <<patch, target, queue, status, fresh>>
  BY DEF Kill, Failure
<1>2. PatchesTypes
  BY DEF PatchesInv
<1>3. tree' \in [Packages -> Trees \cup {Gone}]
  <2>1. CASE UNCHANGED tree
    BY <1>2, <2>1 DEF PatchesTypes
  <2>2. ASSUME NEW p \in queue, NEW S \in SUBSET Files, tree[p] # Gone,
               tree' = [tree EXCEPT ![p] = [f \in Files |-> IF f \in S THEN Zero ELSE tree[p][f]]]
        PROVE  tree' \in [Packages -> Trees \cup {Gone}]
    <3>1. p \in Packages /\ tree[p] \in Trees
      BY <1>2, <2>2 DEF PatchesTypes
    <3>2. [f \in Files |-> IF f \in S THEN Zero ELSE tree[p][f]] \in Trees
      BY <3>1 DEF Trees
    <3> QED
      BY <1>2, <2>2, <3>2 DEF PatchesTypes
  <2>3. ASSUME NEW p \in queue, NEW S \in SUBSET Files, tree[p] # Gone,
               stage = "report", status[p] \in {"clean", "broken"},
               tree' = [tree EXCEPT ![p] = Applied(tree[p], patch[p], S)]
        PROVE  tree' \in [Packages -> Trees \cup {Gone}]
    <3>1. p \in Packages /\ tree[p] \in Trees
      BY <1>2, <2>3 DEF PatchesTypes
    <3>2. patch[p] # NoPatch
      BY <2>3, <3>1 DEF PatchesInv, StatusInv
    <3>3. Applied(tree[p], patch[p], S) \in Trees
      BY <1>2, <3>1, <3>2, PatchOf, AppliedType
    <3> QED
      BY <1>2, <2>3, <3>3 DEF PatchesTypes
  <2> QED
    BY <2>1, <2>2, <2>3 DEF Kill
<1>4. PatchesTypes'
  BY <1>1, <1>2, <1>3 DEF PatchesTypes
<1> QED
  BY <1>1, <1>4, OffInv

\* Nothing of the packages changes.
LEMMA PatchesStutter ==
  ASSUME PatchesInv, UNCHANGED patchesVars
  PROVE  PatchesInv'
<1>1. UNCHANGED <<tree, patch, stage, target, queue, status, undisturbed, fresh, exit>>
  BY DEF patchesVars
<1>2. \A p : /\ Done(p)' <=> Done(p)
             /\ LeftOut(p)' <=> LeftOut(p)
             /\ StaysGone(p)' <=> StaysGone(p)
             /\ IsClean(p)' <=> IsClean(p)
             /\ IsApplied(p)' <=> IsApplied(p)
             /\ Fits(p)' <=> Fits(p)
  BY <1>1 DEF Done, LeftOut, StaysGone, IsClean, IsApplied, Fits
<1>3. PatchesTypes' /\ StatusInv'
  BY <1>1 DEF PatchesInv, PatchesTypes, StatusInv
<1>4. ScanInv' /\ FreshInv' /\ ReportInv'
  BY <1>1, <1>2 DEF PatchesInv, ScanInv, FreshInv, ReportInv
<1>5. Repaired'
  BY <1>1, <1>2 DEF PatchesInv, Repaired
<1> QED
  BY <1>3, <1>4, <1>5 DEF PatchesInv

\* Whatever versions of the patches there are, and whatever updates, failures and
\* kills came before: a run in which nothing fails leaves every package patched as
\* its present patch says, with the exceptions that Repaired names; after a download
\* that is each package that was there, did not match and was removed, and never
\* one that the run found missing (apply_patch.py 59-88, 134, 157, 175-202).
THEOREM RunsRepair == PatchesSpec => []Repaired
<1>1. PatchesInit => PatchesInv
  BY PatchesStarts
<1>2. PatchesInv /\ [PatchesNext]_patchesVars => PatchesInv'
  BY UpdateStep, BeginStep, DownloadStep, DownloadedStep, ScanStep, NotFoundStep,
     ScannedStep, ReportStep, ReportedStep, KillStep, PatchesStutter DEF PatchesNext
<1>3. PatchesInv => Repaired
  BY DEF PatchesInv
<1> QED
  BY <1>1, <1>2, <1>3, PTL DEF PatchesSpec
=============================================================================
