----------------------------- MODULE ListScraper -----------------------------
(***************************************************************************)
(* The BlackHatWorld list scraper (blackhatworld/main.rs, scrape.rs): it   *)
(* visits the sections one by one, pages through each from its newest post *)
(* to older ones, stores what it can read, and leaves a section at the     *)
(* first page on which the table has every post already.                   *)
(*                                                                         *)
(* Between two pages posts are added at the top, so that the pages shift   *)
(* under the scraper.  A post is its id; a row that cannot be parsed is a  *)
(* member of Unreadable.                                                   *)
(***************************************************************************)
EXTENDS Integers, Sequences, FiniteSets

CONSTANTS
  NSections,   \* entries of CONFIGS
  Size,        \* posts per page: 20
  MaxId,       \* bound: post ids are 1..MaxId
  Unreadable,  \* posts whose row the selectors do not match
  MaxRuns,     \* bound: how often the program is started
  MaxFaults    \* bound: how many failures and deletions a behaviour may have

Ids == 1..MaxId
Sections == 1..NSections

ASSUME ListAssumption ==
  /\ NSections \in Nat \ {0}
  /\ Size \in Nat \ {0}
  /\ MaxId \in Nat \ {0}
  /\ Unreadable \subseteq Ids
  /\ MaxRuns \in Nat
  /\ MaxFaults \in Nat

VARIABLES
  site,     \* by section: its posts, the newest first
  posts,    \* ids in blackhatworld.posts
  \* main and work
  pc,       \* "load", "insert", "over" (after a Break), "waiting" for a list
            \* that never shows, or between runs
  section,
  page,
  res,      \* the posts read from the page
  \* bounds
  runs, faults,
  \* history
  atStart,  \* posts of the section when the visit started
  known,    \* posts in the table when the visit started
  arrived,  \* posts added to the section since the last page was read
  clean,    \* in this visit nothing failed or was deleted, and each page that
            \* others follow had a readable post that it did not get by shifting
  calm      \* the same of all visits so far, and none was cut short

program == <<pc, section, page, res>>
past == <<atStart, known>>
vars == <<site, posts, pc, section, page, res, runs, faults, atStart, known,
          arrived, clean, calm>>

\* Between runs: none yet, killed, or ended.
Between == {"idle", "ended"}
Running == {"load", "insert", "over", "waiting"}

InSeq(q) == {q[i] : i \in DOMAIN q}

Fault == /\ faults < MaxFaults
         /\ faults' = faults + 1
         /\ clean' = FALSE
         /\ calm' = FALSE
NoFault == UNCHANGED <<faults, clean, calm>>

Init ==
  /\ site = [s \in Sections |-> <<>>]
  /\ posts = {}
  /\ pc = "idle" /\ section = 1 /\ page = 1 /\ res = {}
  /\ runs = 0 /\ faults = 0
  /\ atStart = {} /\ known = {} /\ arrived = 0 /\ clean = TRUE /\ calm = TRUE

-----------------------------------------------------------------------------
(* The site.                                                               *)

\* Some page of the visit has been read, and another may follow.
UnderWay == pc = "insert" \/ (pc = "load" /\ page > 1)

\* A new post; ids grow, over all sections.
Post(s, p) ==
  /\ \A t \in Sections : \A q \in InSeq(site[t]) : q < p
  /\ site' = [site EXCEPT ![s] = <<p>> \o @]
  /\ arrived' = IF s = section /\ UnderWay THEN arrived + 1 ELSE arrived
  /\ NoFault
  /\ UNCHANGED <<posts, program, runs, past>>

Without(q, i) == SubSeq(q, 1, i - 1) \o SubSeq(q, i + 1, Len(q))

\* A post is deleted: those below it move up.
Delete(s, i) ==
  /\ i \in DOMAIN site[s]
  /\ site' = [site EXCEPT ![s] = Without(@, i)]
  /\ Fault
  /\ UNCHANGED <<posts, program, runs, past, arrived>>

\* The number of the last page; the first is there even without posts.
LastPage(q) == IF q = <<>> THEN 1 ELSE (Len(q) + Size - 1) \div Size

\* The page that the site shows for page n: a number past the end leads to
\* the last page.
Shown(q, n) == IF (n - 1) * Size < Len(q) THEN n ELSE LastPage(q)

\* The positions of page n.
Positions(q, n) == {i \in DOMAIN q : (n - 1) * Size < i /\ i <= n * Size}

-----------------------------------------------------------------------------
(* A visit of a section.                                                   *)

\* Mutant: the page is not set back.
Visit_PageKept(s) ==
  /\ section' = s
  /\ page' = IF s = 1 THEN 1 ELSE page
  /\ res' = {}
  /\ pc' = "load"
  /\ atStart' = InSeq(site[s])
  /\ known' = posts
  /\ arrived' = 0
  /\ clean' = TRUE

\* `ctx.cfg = config; let mut page = 1`
Visit(s) ==
  /\ section' = s
  /\ page' = 1
  /\ res' = {}
  /\ pc' = "load"
  /\ atStart' = InSeq(site[s])
  /\ known' = posts
  /\ arrived' = 0
  /\ clean' = TRUE

Start ==
  /\ pc \in Between
  /\ runs < MaxRuns
  /\ runs' = runs + 1
  /\ Visit(1)
  /\ UNCHANGED <<site, posts, faults, calm>>

\* Past the end all numbers lead to the same page, so the count of pages may
\* stop there.
Beyond == MaxId + 1

\* Continue: page += 1
Continue ==
  /\ page' = IF page < Beyond THEN page + 1 ELSE page
  /\ res' = {}
  /\ pc' = "load"
  /\ UNCHANGED section

\* Break
Break ==
  /\ pc' = "over"
  /\ UNCHANGED <<section, page, res>>

\* Mutant: what cannot be parsed gets defaults.
Read_Everything(q, I) == {q[i] : i \in I}

\* The readable posts at some positions of a list.
Read(q, I) == {q[i] : i \in I} \ Unreadable

\* Is this the end of the list, or is there something on the page that was not
\* on the one before?
Fresh(q) ==
  \/ page * Size >= Len(q)
  \/ Read(q, {i \in Positions(q, page) : i > (page - 1) * Size + arrived}) # {}

\* The page is there, and the rows that can be parsed are read.
Load ==
  /\ pc = "load"
  /\ LET q == site[section]
     IN  /\ res' = Read(q, Positions(q, Shown(q, page)))
         /\ clean' = (clean /\ Fresh(q))
         /\ calm' = (calm /\ Fresh(q))
  /\ arrived' = 0
  /\ pc' = "insert"
  /\ UNCHANGED <<site, posts, section, page, runs, faults, past>>

\* navigate_to, wait_for_async, find_async or outer_html fails: the page is
\* left out.
LoadFail ==
  /\ pc = "load"
  /\ Continue
  /\ Fault
  /\ UNCHANGED <<site, posts, runs, past, arrived>>

\* wait_for_async polls without a timeout, and the list never shows.
Hang ==
  /\ pc = "load"
  /\ pc' = "waiting"
  /\ Fault
  /\ UNCHANGED <<site, posts, section, page, res, runs, past, arrived>>

\* Nothing to insert: on to the next page.
InsertNothing ==
  /\ pc = "insert"
  /\ res = {}
  /\ Continue
  /\ NoFault
  /\ UNCHANGED <<site, posts, runs, past, arrived>>

\* Mutants: a page that yields fewer posts than it could is taken for the last
\* one; an updated row counts as new.
NoneNew_Short == Cardinality(res) < Size
NoneNew_Never == FALSE

\* n_rows = 0: the upsert has updated every row.
NoneNew == res \subseteq posts

\* The upsert of the page, and Break or Continue.
Insert ==
  /\ pc = "insert"
  /\ res # {}
  /\ posts' = posts \cup res
  /\ \/ NoneNew /\ Break
     \/ ~NoneNew /\ Continue
  /\ NoFault
  /\ UNCHANGED <<site, runs, past, arrived>>

\* No connection, or the upsert fails or its answer is lost: logged, and on to
\* the next page.
InsertFail ==
  /\ pc = "insert"
  /\ res # {}
  /\ posts' \in {posts, posts \cup res}
  /\ Continue
  /\ Fault
  /\ UNCHANGED <<site, runs, past, arrived>>

\* The next entry of CONFIGS, or the end of main.
NextSection ==
  /\ pc = "over"
  /\ \/ section < NSections /\ Visit(section + 1)
     \/ /\ section = NSections
        /\ pc' = "ended"
        /\ UNCHANGED <<section, page, res, past, arrived, clean>>
  /\ UNCHANGED <<site, posts, runs, faults, calm>>

\* The program is killed.
Crash ==
  /\ pc \in Running
  /\ pc' = "idle"
  /\ Fault
  /\ UNCHANGED <<site, posts, section, page, res, runs, past, arrived>>

-----------------------------------------------------------------------------
\* Every start is used, or the scraper waits and nobody kills it.
Terminated ==
  /\ \/ pc \in Between /\ runs = MaxRuns
     \/ pc = "waiting"
  /\ UNCHANGED vars

RunStep ==
  \/ Load
  \/ LoadFail
  \/ InsertNothing
  \/ Insert
  \/ InsertFail
  \/ NextSection

Next ==
  \/ \E s \in Sections, p \in Ids : Post(s, p)
  \/ \E s \in Sections, i \in Ids : Delete(s, i)
  \/ Start
  \/ RunStep
  \/ Hang
  \/ Crash
  \/ Terminated

Spec == Init /\ [][Next]_vars

\* But for a list that never shows, a page or a statement gets an answer, good
\* or bad.
FairSpec == Spec /\ WF_vars(RunStep)

-----------------------------------------------------------------------------
(* Properties.                                                             *)

\* Every variable has its type, and a section lists its posts by date.
TypeOK ==
  /\ site \in [Sections -> Seq(Ids)]
  /\ \A s \in Sections : \A i, j \in DOMAIN site[s] : i < j => site[s][j] < site[s][i]
  /\ posts \subseteq Ids \ Unreadable
  /\ pc \in Between \cup Running
  /\ section \in Sections /\ page \in 1..Beyond /\ res \subseteq Ids \ Unreadable
  /\ runs \in 0..MaxRuns /\ faults \in 0..MaxFaults
  /\ atStart \subseteq Ids /\ known \subseteq posts
  /\ arrived \in Nat /\ clean \in BOOLEAN /\ calm \in BOOLEAN

\* A visit in which nothing fails leaves out only posts that are older than
\* one that the table had before, although the pages shift while it reads them
\* (main.rs 99-107, scrape.rs 154-156).
CleanVisitCovers ==
  pc = "over" /\ clean =>
    \A p \in atStart \ (Unreadable \cup posts) :
      \E q \in known \cap InSeq(site[section]) : p < q

\* "it will take about 2 ~ 4 minutes to track newer posts" (README.md 186): as
\* long as no visit was disturbed, a section that is left has every readable
\* post it had at the start of the visit in the table.
UpToDate == pc = "over" /\ calm => atStart \ Unreadable \subseteq posts

\* No post can be read on the last page of the section.
NothingToRead ==
  LET q == site[section]
  IN  \A i \in Positions(q, LastPage(q)) : q[i] \in Unreadable

\* A run ends, unless it waits for a list that never shows, or pages beyond the
\* end of a section whose last page has nothing to read: only posts that are
\* all known make it stop (scrape.rs 131, 163).
RunsEnd == pc \in Running ~> (pc \in Between \/ pc = "waiting" \/ NothingToRead)
=============================================================================
