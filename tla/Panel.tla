-------------------------------- MODULE Panel --------------------------------
(***************************************************************************)
(* The Ezkify scraper (ezkify/main.rs, parse_item.rs, parse_item/): it     *)
(* walks the price list of a panel, upserts a category, remembers it in    *)
(* the global CID, and inserts each row that can be parsed under it.       *)
(*                                                                         *)
(* The first error of the database ends the program.                       *)
(***************************************************************************)
EXTENDS Integers, Sequences

CONSTANTS
  Layouts,     \* of "smmrapid", "dripfeedpanel" and "ezkify", the default
  PriceLists,  \* the price lists: sequences of rows
  MaxVisits,   \* bound: how often the program is started
  MaxErrors    \* bound: failures

\* A row of a price list is a category or an item.  An item has a number of
\* cells and a set of fields that do not parse.  For smmrapid the pairs of item
\* and modal of all categories are strung together, so that a category comes
\* first.  A category has the id of
\* data-filter-table-category-id or, for smmrapid, the hash of its text; there
\* it must have two children to be whole.
NoId == -1
Fields == {"id", "rate", "min_order", "max_order"}
Categories == [kind : {"category"}, id : Nat \cup {NoId}, whole : BOOLEAN]
Items == [kind : {"item"}, id : Nat, cells : Nat, wrong : SUBSET Fields]

ASSUME PanelAssumption ==
  /\ Layouts \subseteq {"smmrapid", "dripfeedpanel", "ezkify"}
  /\ PriceLists \subseteq Seq(Categories \cup Items)
  /\ MaxVisits \in Nat /\ MaxErrors \in Nat

VARIABLES
  layout,      \* args.key
  rows,        \* tbody
  place,       \* "off", "walk", "ok", "err"
  row,         \* next row
  CID,
  categories,  \* ids in ezkify.categories
  items,       \* rows of ezkify.items: id and time are the primary key
  visits,      \* starts, which have a Date each
  errors

panelVars == <<layout, rows, place, row, CID, categories, items, visits, errors>>

PanelInit ==
  /\ layout \in Layouts
  /\ rows = <<>> /\ place = "off" /\ row = 1 /\ CID = 0
  /\ categories = {} /\ items = {} /\ visits = 0 /\ errors = 0

\* The page is there, with a date; CID is 0 in a new process.
StartVisit(l) ==
  /\ place # "walk"
  /\ visits < MaxVisits
  /\ layout = "smmrapid" /\ l # <<>> => l[1].kind = "category"
  /\ visits' = visits + 1
  /\ rows' = l /\ row' = 1 /\ CID' = 0
  /\ place' = "walk"
  /\ UNCHANGED <<layout, categories, items, errors>>

\* No answer, no date or no price list.
NoPage ==
  /\ place # "walk"
  /\ visits < MaxVisits /\ errors < MaxErrors
  /\ visits' = visits + 1 /\ errors' = errors + 1
  /\ rows' = <<>> /\ row' = 1 /\ CID' = 0
  /\ place' = "err"
  /\ UNCHANGED <<layout, categories, items>>

Current == rows[row]
Here(kind) == place = "walk" /\ row <= Len(rows) /\ Current.kind = kind

\* Mutant: CID is not stored.
StoreCid_Forgotten == UNCHANGED CID

\* CID.store(cid), once the category is in the table.
StoreCid == CID' = Current.id

IsWhole(c) == layout = "smmrapid" => c.whole

\* insert_category upserts.
Category ==
  /\ Here("category")
  /\ IsWhole(Current)
  /\ categories' = categories \cup {Current.id}
  /\ StoreCid
  /\ row' = row + 1
  /\ UNCHANGED <<layout, rows, place, items, visits, errors>>

\* "category error"
CategoryError ==
  /\ Here("category")
  /\ ~IsWhole(Current)
  /\ place' = "err"
  /\ UNCHANGED <<layout, rows, row, CID, categories, items, visits, errors>>

\* The three parse functions: next_chunk takes the first cells, more do not
\* matter; then each field parses or is an error.
EzkifyParses(r) == r.cells >= 6 /\ r.wrong = {}
DripfeedpanelParses(r) == r.cells >= 8 /\ r.wrong = {}
SmmrapidParses(r) == r.cells >= 5 /\ r.wrong = {}

Parses(r) == CASE layout = "ezkify" -> EzkifyParses(r)
               [] layout = "dripfeedpanel" -> DripfeedpanelParses(r)
               [] layout = "smmrapid" -> SmmrapidParses(r)

\* A row that does not parse is logged.
Unparsed ==
  /\ Here("item")
  /\ ~Parses(Current)
  /\ row' = row + 1
  /\ UNCHANGED <<layout, rows, place, CID, categories, items, visits, errors>>

NewItem == [id |-> Current.id, time |-> visits, category |-> CID]

\* The foreign key and the primary key of ezkify.items.
Allowed == /\ CID \in categories
           /\ \A r \in items : r.id # Current.id \/ r.time # visits

\* insert_db
InsertItem ==
  /\ Here("item")
  /\ Parses(Current)
  /\ Allowed
  /\ items' = items \cup {NewItem}
  /\ row' = row + 1
  /\ UNCHANGED <<layout, rows, place, CID, categories, visits, errors>>

\* The database does not allow the row: `?`
ItemRefused ==
  /\ Here("item")
  /\ Parses(Current)
  /\ ~Allowed
  /\ place' = "err"
  /\ UNCHANGED <<layout, rows, row, CID, categories, items, visits, errors>>

\* A statement fails, or is executed and its answer lost.
Error ==
  /\ place = "walk" /\ row <= Len(rows)
  /\ errors < MaxErrors
  /\ errors' = errors + 1
  /\ \/ /\ Here("category") /\ IsWhole(Current)
        /\ categories' \in {categories, categories \cup {Current.id}}
        /\ UNCHANGED items
     \/ /\ Here("item") /\ Parses(Current)
        /\ UNCHANGED items \/ (Allowed /\ items' = items \cup {NewItem})
        /\ UNCHANGED categories
  /\ place' = "err"
  /\ UNCHANGED <<layout, rows, row, CID, visits>>

WalkEnds ==
  /\ place = "walk" /\ row > Len(rows)
  /\ place' = "ok"
  /\ UNCHANGED <<layout, rows, row, CID, categories, items, visits, errors>>

PanelNext ==
  \/ \E l \in PriceLists : StartVisit(l)
  \/ NoPage
  \/ Category
  \/ CategoryError
  \/ Unparsed
  \/ InsertItem
  \/ ItemRefused
  \/ Error
  \/ WalkEnds

PanelSpec == PanelInit /\ [][PanelNext]_panelVars

-----------------------------------------------------------------------------
(* Properties.                                                             *)

Above(p) == {q \in 1..p - 1 : rows[q].kind = "category"}

\* The category a reader of the page sees above a row, and 0 if there is none.
CategoryAbove(p) ==
  IF Above(p) = {} THEN 0
  ELSE rows[CHOOSE q \in Above(p) : \A t \in Above(p) : t <= q].id

IsItem(p) == rows[p].kind = "item" /\ Parses(rows[p])

\* All items that the program has passed are stored, at the time of the visit
\* and under the category above them: an error loses what is behind it, and
\* nothing before (main.rs 147, 157-171).
StoredSoFar ==
  \A p \in 1..row - 1 :
    IsItem(p) =>
      [id |-> rows[p].id, time |-> visits, category |-> CategoryAbove(p)] \in items

\* If the database does what it is asked, only three things on a page end the
\* program early: an item above every category, an id that is there twice, and a
\* category that is not whole (main.rs 137-140, 147, 151, 168).
EndsEarlyOnlyBy ==
  place = "err" /\ errors = 0 =>
    \/ Above(row) = {}
    \/ \E p \in 1..row - 1 : IsItem(p) /\ rows[p].id = Current.id
    \/ Current.kind = "category" /\ ~IsWhole(Current)

\* Both: of a price list exactly what stands before the first thing that ends the
\* program is stored, and that thing is on the page or a failure.
PriceListStored == StoredSoFar /\ EndsEarlyOnlyBy
=============================================================================
