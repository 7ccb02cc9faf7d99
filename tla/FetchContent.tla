---------------------------- MODULE FetchContent ----------------------------
(***************************************************************************)
(* `telegram content`: fetch_content and insert_to_db of                   *)
(* telegram/telegram.rs for one channel, over several runs of the program. *)
(*                                                                         *)
(* A run pages through the channel from the newest message to older ones,  *)
(* stores each page and widens the range [min, max] that the row of the    *)
(* channel claims to be stored; the next run stops where the range begins. *)
(* A message is its id.  None, the (0, 0) of a new channel, is NoRange.    *)
(***************************************************************************)
EXTENDS Integers, FiniteSets

CONSTANTS
  MaxId,      \* bound: message ids are 1..MaxId
  Batch,      \* messages per page: 100
  Limits,     \* values of --limit the runs are started with
  MaxErr,     \* consecutive failed requests that end a run: 5
  MaxRuns,    \* bound: how often the program is started
  MaxFaults   \* bound: how many failures a behaviour may have

ASSUME FetchAssumption ==
  /\ MaxId \in Nat
  /\ Batch \in Nat \ {0}
  /\ Limits \subseteq Nat
  /\ MaxErr \in Nat \ {0}
  /\ MaxRuns \in Nat
  /\ MaxFaults \in Nat

VARIABLES
  \* Telegram
  live,       \* ids of the messages the channel has
  \* PostgreSQL
  stored,     \* ids in telegram.message
  range,      \* telegram.channel: <<min_message_id, max_message_id>>
  \* the locals of fetch_content
  pc,         \* where the run stands, or how the last one ended
  limit,
  origin,     \* interval_origin
  interval,
  stop,       \* stop_point
  jumping,
  offset,     \* offset_id of the next request, 0: from the newest message
  last,       \* IterBuffer::last_chunk
  buffer,
  nerr,       \* n_err
  \* bounds
  runs, faults,
  \* history
  atStart,    \* live when the run started
  blind,      \* the run could not read its range
  sameLimit,  \* all runs so far had the same limit
  clean,      \* the run has stored every page it fetched
  skipped     \* the ids just below the jumps of all runs

tables == <<stored, range>>
iterator == <<offset, last>>
line == <<stop, jumping>>
fixed == <<limit, origin, atStart, blind, sameLimit>>
vars == <<live, stored, range, pc, limit, origin, interval, stop, jumping, offset,
          last, buffer, nerr, runs, faults, atStart, blind, sameLimit, clean, skipped>>

Ids == 1..MaxId
NoRange == <<0, 0>>

(***************************************************************************)
(* "fetch"  before iter.next();  "insert"  a page is buffered, before the  *)
(* INSERT;  "range"  the INSERT is done, before the UPDATE.  Between runs: *)
(* "idle" (none yet, or killed), "complete", "aborted", "panicked".        *)
(***************************************************************************)
Between == {"idle", "complete", "aborted", "panicked"}
Running == {"fetch", "insert", "range"}

Maximum(a, b) == IF a < b THEN b ELSE a
Minimum(a, b) == IF a < b THEN a ELSE b

IsMax(S, x) == x \in S /\ \A y \in S : y <= x
IsMin(S, x) == x \in S /\ \A y \in S : x <= y

Fault == faults < MaxFaults /\ faults' = faults + 1
NoFault == UNCHANGED faults

Init ==
  /\ live = {} /\ stored = {} /\ range = NoRange
  /\ pc = "idle"
  /\ limit = 0 /\ origin = NoRange /\ interval = NoRange
  /\ stop = 0 /\ jumping = FALSE
  /\ offset = 0 /\ last = FALSE
  /\ buffer = {} /\ nerr = 0
  /\ runs = 0 /\ faults = 0
  /\ atStart = {} /\ blind = FALSE /\ sameLimit = TRUE /\ clean = TRUE
  /\ skipped = {}

-----------------------------------------------------------------------------
(* The channel: a new message has a larger id than every other; ids are    *)
(* left out (they belong to messages that are deleted or of no interest).  *)
Post(m) ==
  /\ \A n \in live : n < m
  /\ live' = live \cup {m}
  /\ UNCHANGED <<tables, pc, fixed, interval, line, iterator, buffer, nerr, runs,
                 faults, clean, skipped>>

-----------------------------------------------------------------------------
(* A run.                                                                  *)

\* Mutant: the run only looks for messages newer than the range.
Jumping_Never(r, l) == FALSE

\* Is there a stored window, shorter than the limit, with room below it?
Jumping(r, l) ==
  /\ r # NoRange
  /\ r[1] > 1
  /\ l > 1
  /\ r[2] - r[1] < l - 1

\* fetch_content up to its loop; o is what the query for the range yields.
Begin(l, o) ==
  /\ pc \in Between
  /\ runs < MaxRuns
  /\ runs' = runs + 1
  /\ limit' = l
  /\ origin' = o
  /\ interval' = o
  /\ stop' = o[2]
  /\ jumping' = Jumping(o, l)
  /\ offset' = 0 /\ last' = FALSE
  /\ buffer' = {} /\ nerr' = 0
  /\ atStart' = live /\ clean' = TRUE
  /\ sameLimit' = (runs = 0 \/ (sameLimit /\ l = limit))
  /\ pc' = "fetch"
  /\ UNCHANGED <<live, tables, skipped>>

Start(l) ==
  /\ Begin(l, range)
  /\ blind' = FALSE
  /\ NoFault

\* The query fails: `.ok()?` turns the error into None.
StartBlind(l) ==
  /\ Begin(l, NoRange)
  /\ blind' = TRUE
  /\ Fault

\* The run is over; nothing else happens to its locals.
End(how) ==
  /\ pc' = how
  /\ UNCHANGED <<line, offset, buffer, skipped>>

-----------------------------------------------------------------------------
(* Requests.                                                               *)

\* The messages a request is for.
Older == IF offset = 0 THEN live ELSE {m \in live : m < offset}

\* The page: the newest Batch of them.
IsPage(p) ==
  /\ p \subseteq Older
  /\ Cardinality(p) = Minimum(Batch, Cardinality(Older))
  /\ \A m \in p, n \in Older \ p : n < m

\* fill_buffer's last_chunk: no page, or no id above the page size.
IsLast(p) == \A m \in p : m <= Batch

\* iter.next() fetches a page, and fetch_content takes it message by message
\* until next_raw has no more.  After the last page there is only the final
\* insert_to_db, which does nothing with an empty buffer.
FetchOk(p) ==
  /\ pc = "fetch"
  /\ IsPage(p)
  /\ last' = IsLast(p)
  /\ \/ IsLast(p) /\ UNCHANGED offset
     \/ ~IsLast(p) /\ IsMin(p, offset')
  /\ buffer' = p
  /\ nerr' = 0
  /\ pc' = IF p = {} THEN "complete" ELSE "insert"
  /\ NoFault
  /\ UNCHANGED <<live, tables, fixed, interval, line, runs, clean, skipped>>

\* An error, and one second of sleep; the buffer is empty here, so there is
\* nothing to insert before the next attempt.
FetchErr ==
  /\ pc = "fetch"
  /\ nerr + 1 < MaxErr
  /\ nerr' = nerr + 1
  /\ NoFault
  /\ UNCHANGED <<live, tables, pc, fixed, interval, line, iterator, buffer, runs,
                 clean, skipped>>

\* RPC error 400, or one error too many: the run is over.
FetchAbort ==
  /\ pc = "fetch"
  /\ End("aborted")
  /\ \/ nerr' = nerr
     \/ nerr + 1 = MaxErr /\ nerr' = MaxErr
  /\ clean' = FALSE
  /\ Fault
  /\ UNCHANGED <<live, tables, fixed, interval, last, runs>>

-----------------------------------------------------------------------------
(* insert_to_db.                                                           *)

\* Mutant: the subtraction does not saturate.
Floor_Wraps(r) == r - limit

\* l_i: nothing at or below it is wanted.
Floor(r) == Maximum(0, r - limit)

\* Mutant: the stop line is taken from the interval that was just widened.
Line_Widened == Maximum(interval[2], Floor(interval[2]))

\* stop_point.max(l_i)
Line == Maximum(stop, Floor(interval[2]))

\* After a flush: panic without an interval, stop, jump, or fetch on.  inserted
\* is whether insert_to_db returned the largest id of the page, or None.
Decide(inserted) ==
  LET reached == inserted /\ \A m \in buffer : m <= Line
  IN  \/ /\ interval = NoRange
         /\ End("panicked")
      \/ /\ interval # NoRange
         /\ reached /\ ~jumping
         /\ End("complete")
      \/ /\ interval # NoRange
         /\ reached /\ jumping
         /\ jumping' = FALSE
         /\ stop' = Floor(interval[2])
         /\ offset' = interval[1] - 1
         /\ skipped' = skipped \cup {interval[1] - 1}
         /\ buffer' = {}
         /\ pc' = "fetch"
      \/ /\ interval # NoRange
         /\ ~reached
         /\ stop' = Line
         /\ buffer' = {}
         /\ pc' = "fetch"
         /\ UNCHANGED <<jumping, offset, skipped>>

\* Mutant: the end of the channel is not noticed.
AfterInsert_Endless(inserted) == Decide(inserted)

\* The rest of the loop after insert_to_db.
AfterInsert(inserted) == IF last THEN End("complete") ELSE Decide(inserted)

\* Mutant: the interval of the last page only.
Widened_Replaced(lo, hi) == <<lo, hi>>

\* The interval with a page from lo to hi.
Widened(lo, hi) ==
  IF interval = NoRange THEN <<lo, hi>>
  ELSE <<Minimum(interval[1], lo), Maximum(interval[2], hi)>>

\* The INSERT of the page, and the interval that now holds.
Insert ==
  /\ pc = "insert"
  /\ stored' = stored \cup buffer
  /\ \E lo, hi \in buffer :
       /\ IsMin(buffer, lo) /\ IsMax(buffer, hi)
       /\ interval' = Widened(lo, hi)
  /\ pc' = "range"
  /\ NoFault
  /\ UNCHANGED <<live, range, fixed, line, iterator, buffer, nerr, runs, clean,
                 skipped>>

\* Mutant: the error is logged and the range widened all the same.
InsertFail_Widens ==
  /\ pc = "insert"
  /\ \E lo, hi \in buffer :
       /\ IsMin(buffer, lo) /\ IsMax(buffer, hi)
       /\ interval' = Widened(lo, hi)
  /\ pc' = "range"
  /\ clean' = FALSE
  /\ Fault
  /\ UNCHANGED <<live, tables, fixed, line, iterator, buffer, nerr, runs, skipped>>

\* The INSERT fails, or its answer is lost: insert_to_db returns None and the
\* page is dropped.
InsertFail ==
  /\ pc = "insert"
  /\ stored' \in {stored, stored \cup buffer}
  /\ AfterInsert(FALSE)
  /\ clean' = FALSE
  /\ Fault
  /\ UNCHANGED <<live, range, fixed, interval, last, nerr, runs>>

\* The UPDATE of the range, and what follows it; an error is only logged.
SetRange ==
  /\ pc = "range"
  /\ \/ range' = interval /\ NoFault
     \/ range' = range /\ Fault
  /\ AfterInsert(TRUE)
  /\ UNCHANGED <<live, stored, fixed, interval, last, nerr, runs, clean>>

\* The program is killed, or another channel's panic ends it.
Crash ==
  /\ pc \in Running
  /\ pc' = "idle"
  /\ Fault
  /\ UNCHANGED <<live, tables, fixed, interval, line, iterator, buffer, nerr, runs,
                 clean, skipped>>

-----------------------------------------------------------------------------
\* Every start is used and the channel is full.
Terminated ==
  /\ pc \in Between
  /\ runs = MaxRuns
  /\ UNCHANGED vars

RunStep ==
  \/ \E p \in SUBSET live : FetchOk(p)
  \/ FetchErr
  \/ FetchAbort
  \/ Insert
  \/ InsertFail
  \/ SetRange

Next ==
  \/ \E m \in Ids : Post(m)
  \/ \E l \in Limits : Start(l) \/ StartBlind(l)
  \/ RunStep
  \/ Crash
  \/ Terminated

Spec == Init /\ [][Next]_vars

\* A run that is waiting for Telegram or PostgreSQL gets an answer, good or bad.
FairSpec == Spec /\ WF_vars(RunStep)

-----------------------------------------------------------------------------
(* Properties.                                                             *)

Ranges == {NoRange} \cup (Ids \X Ids)

\* Every variable has its type.
TypeOK ==
  /\ live \subseteq Ids /\ stored \subseteq Ids
  /\ atStart \subseteq Ids /\ buffer \subseteq Ids
  /\ range \in Ranges /\ origin \in Ranges /\ interval \in Ranges
  /\ pc \in Between \cup Running
  /\ limit \in Limits \cup {0}
  /\ stop \in 0..MaxId /\ offset \in 0..MaxId /\ skipped \subseteq 0..MaxId
  /\ jumping \in BOOLEAN /\ last \in BOOLEAN
  /\ blind \in BOOLEAN /\ sameLimit \in BOOLEAN /\ clean \in BOOLEAN
  /\ nerr \in 0..MaxErr /\ runs \in 0..MaxRuns /\ faults \in 0..MaxFaults

\* The range never claims a message at its ends that is not stored: whatever
\* fails or is killed, the row of a message is there before the range that
\* ends in it (telegram.rs 135-148).
HonestRange ==
  range # NoRange => /\ range[1] \in stored
                     /\ range[2] \in stored
                     /\ range[1] <= range[2]

\* The claimed range only grows, across runs, failures and kills: nothing but
\* a run that could not read it can replace it by a smaller one
\* (telegram.rs 138-146, 174-186).
RangeGrows ==
  [][ \/ range = NoRange
      \/ blind
      \/ range'[1] <= range[1] /\ range[2] <= range'[2] ]_range

\* A run that ends normally has stored every message that was in the channel
\* at its start and is among the newest `limit` ids, unless an earlier run
\* claimed it in the range; the one exception are the ids just below a jump,
\* because `offset_id(l - 1)` asks for ids below l - 1 (telegram.rs 206-215).
CleanRunCovers ==
  pc = "complete" /\ clean =>
    \A m \in atStart :
      m > interval[2] - limit =>
        \/ m \in stored
        \/ origin[1] <= m /\ m <= origin[2]
        \/ m \in skipped

\* "This command is aim to collecting (and updating) the content in
\* corresponding channels" (README.md 358): without failures and with one
\* limit for all runs, after a run that ends normally the newest `limit` ids of
\* the channel are stored.
UpToDate ==
  pc = "complete" /\ faults = 0 /\ sameLimit =>
    \A m \in atStart : m > interval[2] - limit => m \in stored

\* "interval shouldn't be None after insert" (telegram.rs 205).
NoPanic == pc # "panicked"

\* Every run ends, however many requests and statements fail.
RunsEnd == pc \in Running ~> pc \in Between
=============================================================================
