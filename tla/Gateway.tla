------------------------------- MODULE Gateway -------------------------------
(***************************************************************************)
(* The BlackHatWorld content pipeline: the gateway server                  *)
(* (blackhatworld-server), which keeps the ids still to be scraped in      *)
(* memory and writes scraped pages to PostgreSQL, and the workers          *)
(* (blackhatworld-worker), which fetch ids from it, scrape the pages and   *)
(* post them back.                                                         *)
(*                                                                         *)
(* The server process, its database connection and the HTTP transport may  *)
(* fail at every point where the code handles (or ignores) a failure.      *)
(* Every failure counts against MaxFaults, the only bound of the model.    *)
(***************************************************************************)
EXTENDS WorkQueue

CONSTANTS
  Unscrapable,   \* the posts whose page may turn out never to pass simple_check
  Workers,       \* the entries of the headers file: one Worker each
  MaxFaults      \* how many failures a behaviour may have

ASSUME GatewayAssumption ==
  /\ Unscrapable \subseteq Posts
  /\ MaxFaults \in Nat

VARIABLES
  up,        \* is the server process running; BIDS is lost when it ends
  content,   \* ids in the table blackhatworld.content (durable)
  orphans,   \* INSERTs sent to PostgreSQL whose handler is gone
  pc,        \* where each worker, or the handler of its request, stands
  works,     \* each worker's ids; the head is the one it works on
  faults,    \* failures so far
  failing    \* the posts whose page does not pass; this never changes

vars == <<up, BIDS, content, orphans, pc, works, faults, failing>>

(***************************************************************************)
(* "fetch"     before, or while waiting for, GET /get/black                *)
(* "scrape"    requesting the page of the head of works                    *)
(* "submit"    page in hand, before POST /send/black                       *)
(* "handling"  send_black runs for this worker, before its INSERT          *)
(* "inserted"  the INSERT is committed, before remove(&BIDS, id)           *)
(* "done"      into_future has returned                                    *)
(***************************************************************************)
PCs == {"fetch", "scrape", "submit", "handling", "inserted", "done"}

Current(w) == Head(works[w])

Goto(w, l) == pc' = [pc EXCEPT ![w] = l]

\* What the code cannot influence: each action has one of these.
Fault == faults < MaxFaults /\ faults' = faults + 1 /\ UNCHANGED failing

NoFault == UNCHANGED <<faults, failing>>

\* main: get_black_ids, then service::init.
Load(q) == q \in SortedDesc(Posts \ content)

Init ==
  /\ up = TRUE
  /\ content = {}
  /\ Load(BIDS)
  /\ orphans = {}
  /\ pc = [w \in Workers |-> "fetch"]
  /\ works = [w \in Workers |-> <<>>]
  /\ faults = 0
  /\ failing \in SUBSET Unscrapable

-----------------------------------------------------------------------------
(* The worker's loop.                                                      *)

\* Mutant: a batch that is not full is taken for the last one.
FetchWork_Short(w) ==
  /\ up
  /\ pc[w] = "fetch"
  /\ BIDS' = Rotated(BIDS)
  /\ works' = [works EXCEPT ![w] = IF Len(Batch(BIDS)) < BATCH
                                   THEN <<>> ELSE Batch(BIDS)]
  /\ Goto(w, IF Len(Batch(BIDS)) < BATCH THEN "done" ELSE "scrape")
  /\ NoFault
  /\ UNCHANGED <<up, content, orphans>>

\* get_black answers and the worker takes the batch; an empty one ends it.
FetchWork(w) ==
  /\ up
  /\ pc[w] = "fetch"
  /\ BIDS' = Rotated(BIDS)
  /\ works' = [works EXCEPT ![w] = Batch(BIDS)]
  /\ Goto(w, IF Batch(BIDS) = <<>> THEN "done" ELSE "scrape")
  /\ NoFault
  /\ UNCHANGED <<up, content, orphans>>

\* get_black has rotated the queue but its answer is lost; the worker sleeps
\* and asks again.
FetchLost(w) ==
  /\ up
  /\ pc[w] = "fetch"
  /\ BIDS' = Rotated(BIDS)
  /\ Fault
  /\ UNCHANGED <<up, content, orphans, pc, works>>

\* The page arrives and passes simple_check.
ScrapeOk(w) ==
  /\ pc[w] = "scrape"
  /\ Current(w) \notin failing
  /\ Goto(w, "submit")
  /\ NoFault
  /\ UNCHANGED <<up, BIDS, content, orphans, works>>

\* Mutant: the next of the batch, without looking whether there is one.
Advance_Unchecked(w) ==
  /\ works' = [works EXCEPT ![w] = Tail(@)]
  /\ Goto(w, "scrape")

\* Done with the current id, whatever became of it: the next of the batch,
\* or a new batch.
Advance(w) ==
  /\ works' = [works EXCEPT ![w] = Tail(@)]
  /\ Goto(w, IF Tail(works[w]) = <<>> THEN "fetch" ELSE "scrape")

\* The page is not the post's and never will be: the id is skipped.
ScrapeWrong(w) ==
  /\ pc[w] = "scrape"
  /\ Current(w) \in failing
  /\ Advance(w)
  /\ NoFault
  /\ UNCHANGED <<up, BIDS, content, orphans>>

\* A page that could have passed fails this time, or the request does.
ScrapeFail(w) ==
  /\ pc[w] = "scrape"
  /\ Current(w) \notin failing
  /\ Advance(w)
  /\ Fault
  /\ UNCHANGED <<up, BIDS, content, orphans>>

\* POST /send/black reaches the server.
Submit(w) ==
  /\ up
  /\ pc[w] = "submit"
  /\ Goto(w, "handling")
  /\ NoFault
  /\ UNCHANGED <<up, BIDS, content, orphans, works>>

-----------------------------------------------------------------------------
(* send_black, in the server.                                              *)

\* The INSERT commits: content.id is the primary key and the id is new.
InsertOk(w) ==
  /\ pc[w] = "handling"
  /\ Current(w) \notin content
  /\ content' = content \cup {Current(w)}
  /\ Goto(w, "inserted")
  /\ NoFault
  /\ UNCHANGED <<up, BIDS, orphans, works>>

\* Mutant: the worker submits again until it hears an empty string.
InsertDuplicate_Retries(w) ==
  /\ pc[w] = "handling"
  /\ Current(w) \in content
  /\ Goto(w, "submit")
  /\ NoFault
  /\ UNCHANGED <<up, BIDS, content, orphans, works>>

\* The id is there already: the INSERT fails, send_black answers with the
\* error and leaves BIDS alone; the worker logs the reason and moves on.
InsertDuplicate(w) ==
  /\ pc[w] = "handling"
  /\ Current(w) \in content
  /\ Advance(w)
  /\ NoFault
  /\ UNCHANGED <<up, BIDS, content, orphans>>

\* Mutant: send_black goes on to remove after an error.
InsertFail_Removes(w) ==
  /\ pc[w] = "handling"
  /\ BIDS' = RemoveId(BIDS, Current(w))
  /\ Advance(w)
  /\ Fault
  /\ UNCHANGED <<up, content, orphans>>

\* No connection, or an INSERT that fails for another reason: same answer.
InsertFail(w) ==
  /\ pc[w] = "handling"
  /\ Advance(w)
  /\ Fault
  /\ UNCHANGED <<up, BIDS, content, orphans>>

\* The INSERT commits but the connection breaks before send_black hears of
\* it: an error for send_black, and for the worker.
InsertLostAck(w) ==
  /\ pc[w] = "inserted"
  /\ Advance(w)
  /\ Fault
  /\ UNCHANGED <<up, BIDS, content, orphans>>

\* Mutant: send_black answers without remove.
Remove_Forgotten(w) ==
  /\ pc[w] = "inserted"
  /\ Advance(w)
  /\ NoFault
  /\ UNCHANGED <<up, BIDS, content, orphans>>

\* remove(&BIDS, id) under the lock, and the empty answer.
Remove(w) ==
  /\ pc[w] = "inserted"
  /\ BIDS' = RemoveId(BIDS, Current(w))
  /\ Advance(w)
  /\ NoFault
  /\ UNCHANGED <<up, content, orphans>>

\* The same, with an answer that never arrives: the worker submits again.
RemoveLost(w) ==
  /\ pc[w] = "inserted"
  /\ BIDS' = RemoveId(BIDS, Current(w))
  /\ Goto(w, "submit")
  /\ Fault
  /\ UNCHANGED <<up, content, orphans, works>>

\* What a handler that is dropped leaves behind: before its INSERT was
\* committed, either nothing or an INSERT that PostgreSQL may still execute.
Dropped(ws) ==
  \E sent \in SUBSET {Current(w) : w \in {v \in ws : pc[v] = "handling"}} :
    orphans' = orphans \cup sent

\* The connection of the worker breaks: its send_black future is dropped
\* where it stands, without remove, and the worker submits again.
Disconnect(w) ==
  /\ pc[w] \in {"handling", "inserted"}
  /\ Dropped({w})
  /\ Goto(w, "submit")
  /\ Fault
  /\ UNCHANGED <<up, BIDS, content, works>>

-----------------------------------------------------------------------------
(* PostgreSQL executes, or gives up on, the INSERT of a dropped handler.   *)

OrphanInsert(id) ==
  /\ id \in orphans
  /\ orphans' = orphans \ {id}
  /\ \/ content' = content \cup {id}
     \/ content' = content
  /\ NoFault
  /\ UNCHANGED <<up, BIDS, pc, works>>

-----------------------------------------------------------------------------
(* The server process.                                                     *)

\* The process ends: BIDS is gone and every handler with it.
Crash ==
  /\ up
  /\ up' = FALSE
  /\ BIDS' = <<>>
  /\ Dropped(Workers)
  /\ pc' = [w \in Workers |->
              IF pc[w] \in {"handling", "inserted"} THEN "submit" ELSE pc[w]]
  /\ Fault
  /\ UNCHANGED <<content, works>>

\* main again: BIDS is what the database says is missing.
Restart ==
  /\ ~up
  /\ up' = TRUE
  /\ Load(BIDS')
  /\ NoFault
  /\ UNCHANGED <<content, orphans, pc, works>>

-----------------------------------------------------------------------------
\* The steps of worker w and its handler that are not failures.
Proceed(w) ==
  \/ FetchWork(w)
  \/ ScrapeOk(w)
  \/ ScrapeWrong(w)
  \/ Submit(w)
  \/ InsertOk(w)
  \/ InsertDuplicate(w)
  \/ Remove(w)

WorkerStep(w) ==
  \/ FetchWork(w)
  \/ FetchLost(w)
  \/ ScrapeOk(w)
  \/ ScrapeWrong(w)
  \/ ScrapeFail(w)
  \/ Submit(w)
  \/ InsertOk(w)
  \/ InsertDuplicate(w)
  \/ InsertFail(w)
  \/ InsertLostAck(w)
  \/ Remove(w)
  \/ RemoveLost(w)
  \/ Disconnect(w)

\* Every worker has returned and PostgreSQL has nothing left to do.
Terminated ==
  /\ \A w \in Workers : pc[w] = "done"
  /\ orphans = {}
  /\ UNCHANGED vars

Next ==
  \/ \E w \in Workers : WorkerStep(w)
  \/ \E id \in Posts : OrphanInsert(id)
  \/ Crash
  \/ Restart
  \/ Terminated

Spec == Init /\ [][Next]_vars

(***************************************************************************)
(* Fairness.  The runtime polls every worker and every handler that can    *)
(* make progress; whoever runs the pipeline starts the server again.       *)
(* Failures are never due.                                                 *)
(***************************************************************************)
Fairness ==
  /\ \A w \in Workers : WF_vars(Proceed(w))
  /\ WF_vars(Restart)

FairSpec == Spec /\ Fairness

-----------------------------------------------------------------------------
(* Properties.                                                             *)

\* The ids of works are read only while the worker has one in hand.
Busy(w) == pc[w] \in {"scrape", "submit", "handling", "inserted"}

\* Every variable has its type, and a worker holds ids exactly while it works
\* on one: `for work in works` never runs out in the middle (worker.rs 95).
TypeOK ==
  /\ up \in BOOLEAN
  /\ BIDS \in Seq(Posts)
  /\ content \subseteq Posts
  /\ orphans \subseteq Posts
  /\ pc \in [Workers -> PCs]
  /\ works \in [Workers -> Seq(Posts)]
  /\ \A w \in Workers : Busy(w) <=> works[w] # <<>>
  /\ faults \in 0..MaxFaults
  /\ failing \subseteq Unscrapable

\* A post without content is never forgotten: whatever is rotated, removed,
\* lost or restarted, while the server runs the post is in BIDS, so some
\* later get_black hands it out (service.rs 34-43, 80-97).
NoWorkLost == up => Posts \ content \subseteq Ids(BIDS)

\* remove takes only the first position of an id (service.rs 18-19), which is
\* enough because no interleaving lists an id twice.
QueueNoDup == NoDup(BIDS)

\* A worker returns only when every post has its content: half of a queue of
\* one is one, so the answer of get_black is empty only when BIDS is
\* (service.rs 36, worker.rs 92-94).
QuitOnlyWhenArchived ==
  \A w \in Workers : pc[w] = "done" => Posts \subseteq content

\* Without failures, an archived id that is still in BIDS is about to leave
\* it: the handler that inserted it has yet to run remove (service.rs 80-97).
\* Whatever else happens, a duplicate submission never leaves it behind.
StaleOnlyInFlight ==
  faults = 0 =>
    \A id \in Ids(BIDS) \cap content :
      \E w \in Workers : pc[w] = "inserted" /\ Current(w) = id

\* "different scrapers (workers) first request to it to get the disjoint
\* work" (README.md 202): no two workers hold the same id.
DisjointWork ==
  \A v, w \in Workers : v # w => Ids(works[v]) \cap Ids(works[w]) = {}

\* Every post that can be scraped is archived in the end, whatever failures
\* happen on the way and however many posts before it in the queue never pass
\* simple_check: the rotation of get_black reaches it (service.rs 41).
EventuallyArchived == <>(Posts \ failing \subseteq content)

\* With every page passing in the end, a worker that never returns has one cause
\* only: every post is archived, and BIDS holds, for good, an id whose handler was
\* interrupted between INSERT and remove, which get_black goes on handing out
\* (service.rs 88-94).
DoneOrStale ==
  \/ <>(failing # {} \/ \A w \in Workers : pc[w] = "done")
  \/ <>[](Posts \subseteq content /\ Ids(BIDS) # {})

-----------------------------------------------------------------------------
(* What the pipeline promises (module Archive), and how it keeps it.       *)
Archived == INSTANCE Archive WITH archived <- content,
                                  quit <- {w \in Workers : pc[w] = "done"}

\* Seen from the table and the workers' exits only, the pipeline archives each
\* post at most once, loses none, and lets a worker go only when all are there,
\* through every crash, lost answer and duplicate submission.
ArchiveSpec == Archived!Spec
=============================================================================
