------------------------------- MODULE Market -------------------------------
(***************************************************************************)
(* The AccsMarket scraper (accsmarket/main.rs, scrape.rs): it walks the    *)
(* front page, pairs each list of offers with the title above it, and then *)
(* requests and inserts the lists one by one.                              *)
(*                                                                         *)
(* An offer is its description, whose hash is the id of its row.  Times    *)
(* are those of the Date header, in seconds: several requests fall into    *)
(* one.                                                                    *)
(***************************************************************************)
EXTENDS Integers, Sequences

CONSTANTS
  Cats,         \* numbers of categories
  Offers,
  FrontPages,   \* front pages: sequences of elements
  Lists,        \* the lists that a request may return: sequences of offers
  MaxTime,      \* bound: seconds that a run takes
  MaxLosses     \* bound: failures

\* Elements: a title, with the data-id of its h2; NoHeading is a title without
\* h2, and NoNumber an id that does not parse.
CONSTANTS NoHeading, NoNumber
Elements == [class : {"soc-title"}, id : Cats \cup {NoHeading, NoNumber}]
              \cup [class : {"socs", "other"}]

ASSUME MarketAssumption ==
  /\ 0 \notin Cats
  /\ FrontPages \subseteq Seq(Elements)
  /\ Lists \subseteq Seq(Offers)
  /\ MaxTime \in Nat /\ MaxLosses \in Nat

VARIABLES
  front,   \* the page
  at,      \* "walk", "request", "insert", "over"
  elem,    \* next element of the page
  id,      \* number of the title last seen, 0 before the first
  futs,    \* the lists that are still to be worked on: <<element, number>>
  offers,  \* the list in hand
  date,    \* its time
  now,
  market,  \* rows: offer and time are the primary key
  losses,
  answers, \* history: <<element, number, list, time>> of each answer
  lost     \* history: elements whose request or INSERT failed

marketVars == <<front, at, elem, id, futs, offers, date, now, market, losses,
                answers, lost>>

MarketInit ==
  /\ front \in FrontPages
  /\ at = "walk" /\ elem = 1 /\ id = 0 /\ futs = <<>>
  /\ offers = <<>> /\ date = 0 /\ now = 0
  /\ market = {} /\ losses = 0 /\ answers = {} /\ lost = {}

Loss == losses < MaxLosses /\ losses' = losses + 1

Second ==
  /\ at \in {"request", "insert"}
  /\ now < MaxTime
  /\ now' = now + 1
  /\ UNCHANGED <<front, at, elem, id, futs, offers, date, market, losses, answers, lost>>

\* h2.attr("data-id").and_then(..).unwrap_or(0)
Number(e) == IF e.id = NoNumber THEN 0 ELSE e.id

\* One child of the container.
Element ==
  /\ at = "walk"
  /\ elem <= Len(front)
  /\ LET e == front[elem]
     IN  /\ id' = IF e.class = "soc-title" /\ e.id # NoHeading THEN Number(e) ELSE id
         /\ futs' = IF e.class = "socs" THEN Append(futs, <<elem, id>>) ELSE futs
  /\ elem' = elem + 1
  /\ UNCHANGED <<front, at, offers, date, now, market, losses, answers, lost>>

\* The loop over the futures: `work` of the next one, or the end.
NextList ==
  /\ at' = IF Len(futs) > 1 THEN "request" ELSE "over"
  /\ futs' = Tail(futs)

WalkDone ==
  /\ at = "walk" /\ elem > Len(front)
  /\ at' = IF futs # <<>> THEN "request" ELSE "over"
  /\ UNCHANGED <<front, elem, id, futs, offers, date, now, market, losses, answers, lost>>

\* A list of category futs[1][2], perhaps an empty one.
Answer(l) ==
  /\ at = "request"
  /\ offers' = l
  /\ date' = now
  /\ answers' = answers \cup {<<futs[1][1], futs[1][2], l, now>>}
  /\ \/ l # <<>> /\ at' = "insert" /\ UNCHANGED futs
     \/ l = <<>> /\ NextList
  /\ UNCHANGED <<front, elem, id, now, market, losses, lost>>

\* No answer, or none with a date: `work` returns.
NoAnswer ==
  /\ at = "request"
  /\ NextList
  /\ lost' = lost \cup {futs[1][1]}
  /\ Loss
  /\ UNCHANGED <<front, elem, id, offers, date, now, market, answers>>

Row(o) == [offer |-> o, time |-> date, category |-> futs[1][2]]

\* The primary key does not allow the list.
Refused ==
  \/ \E j, k \in DOMAIN offers : j # k /\ offers[j] = offers[k]
  \/ \E r \in market : r.time = date /\ \E k \in DOMAIN offers : offers[k] = r.offer

\* Mutant: an error ends the program.
AfterRefusal_Ends == at' = "over" /\ futs' = <<>>

\* The error is logged, and the next list follows.
AfterRefusal == NextList

\* One INSERT for the list: all of it or nothing.
InsertList ==
  /\ at = "insert"
  /\ \/ ~Refused /\ market' = market \cup {Row(offers[k]) : k \in DOMAIN offers} /\ NextList
     \/ Refused /\ UNCHANGED market /\ AfterRefusal
  /\ UNCHANGED <<front, elem, id, offers, date, now, losses, answers, lost>>

\* No connection, or the statement fails or is executed and its answer lost.
InsertListFail ==
  /\ at = "insert"
  /\ \/ UNCHANGED market
     \/ ~Refused /\ market' = market \cup {Row(offers[k]) : k \in DOMAIN offers}
  /\ NextList
  /\ lost' = lost \cup {futs[1][1]}
  /\ Loss
  /\ UNCHANGED <<front, elem, id, offers, date, now, answers>>

MarketNext ==
  \/ Second
  \/ Element
  \/ WalkDone
  \/ \E l \in Lists : Answer(l)
  \/ NoAnswer
  \/ InsertList
  \/ InsertListFail

MarketSpec == MarketInit /\ [][MarketNext]_marketVars

-----------------------------------------------------------------------------
(* Properties.                                                             *)

\* The title a reader of the page sees above an element: the last one with a
\* heading, and 0 for one whose number does not parse or when there is none.
TitleAbove(p) ==
  LET titles == {q \in 1..p - 1 : front[q].class = "soc-title" /\ front[q].id # NoHeading}
      last == front[CHOOSE q \in titles : \A t \in titles : t <= q].id
  IN  IF titles = {} \/ last = NoNumber THEN 0 ELSE last

\* Answers of one second that share an offer.
Clash(a, b) ==
  a[4] = b[4] /\ \E j \in DOMAIN a[3], k \in DOMAIN b[3] : a[3][j] = b[3][k]

Repeats(a) == \E j, k \in DOMAIN a[3] : j # k /\ a[3][j] = a[3][k]

\* At the end each list of the page was asked for under the title above it, and
\* is in the table as a whole unless it failed itself, repeats an offer or shares
\* one with an earlier list of the same second: no list is lost by the failure of
\* another (main.rs 34-48, scrape.rs 75-97).
ListsComplete ==
  at = "over" =>
    \A p \in {p \in DOMAIN front : front[p].class = "socs"} \ lost :
      \E a \in answers :
        /\ a[1] = p /\ a[2] = TitleAbove(p)
        /\ \/ Repeats(a)
           \/ \E b \in answers : b[1] < p /\ Clash(a, b)
           \/ \A k \in DOMAIN a[3] :
                [offer |-> a[3][k], time |-> a[4], category |-> a[2]] \in market
=============================================================================
