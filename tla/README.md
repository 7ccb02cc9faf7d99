# A verification project for underground-scraper

TLA+ models of the programs in this repository, TLC configurations that check
them on small instances, and TLAPS proofs of the properties that matter most,
for every value of the constants.  `src/` below is the root of the repository:
`service.rs` stands for `src/src/blackhatworld-server/service.rs`, and so on.

## 1. The system

Six binaries collect public listings into one PostgreSQL database.

| Component | Code | State it keeps | Operations | Interacts with |
|---|---|---|---|---|
| BlackHatWorld list scraper | `blackhatworld/` | the section and page it is at, one browser tab | load a list page, read its rows, upsert posts, go on or leave the section | browser, `blackhatworld.posts` |
| BlackHatWorld gateway | `blackhatworld-server/` | `BIDS`, a mutex-guarded `Vec<i64>` | `get_black`, `send_black` (INSERT, then `remove`), loading at start | HTTP clients, `blackhatworld.content` |
| BlackHatWorld content worker | `blackhatworld-worker/` | the batch in hand, cookies of its browser | fetch a batch, request each page, `simple_check`, submit | gateway, the site |
| `telegram ping` | `telegram/ping.rs`, `db.rs`, `main.rs` | a shared list of keys; what each account resolved | resolve names and invites, record them, upsert channels and bots at the end | Telegram, `telegram.invite/channel/bots/interaction` |
| `telegram content` | `telegram/telegram.rs` 88-247 | per channel: interval, stop point, jump flag, page buffer, error count | page through messages, insert a page, widen the range | Telegram, `telegram.message/channel` |
| `telegram interact` | `telegram/telegram.rs` 250-363, `telegram/client.rs` | map from bot to oneshot sender; a listener task | send `/start` and `/help`, register, wait 5 s, record | Telegram, `telegram.interaction` |
| `telegram extract` | `telegram/extract.rs`, `main.rs` 175-186 | a batch of links, the names found, a buffered file | scan the messages, commit links in batches, append the names to a file | `telegram.message/link`, what `ping` has recorded, file system |
| Client set-up and login | `telegram/telegram/client.rs` 46-221, `telegram/main.rs` | map of clients, session files | load, connect, sign in, save; divide a command's rows among the clients; save at the end | Telegram, file system |
| Accsmarket scraper | `accsmarket/` | current title while walking the page, the lists to request | walk the front page, request a list, insert it | the site, `accs.market` |
| Ezkify scraper | `ezkify/` | global `CID` | walk a price list in one of three layouts, upsert categories, insert rows | the sites, `ezkify.categories/items` |
| Database pool, encodings | `db.rs` | connection pool | `get_connection`, binary row format | PostgreSQL |
| Helpers | `util.rs` | none | date conversion, string helpers | |
| Browser and HTTP helpers | `scrape.rs`, `scrape/puppeteer.rs`, `browser.rs` | browser process | wait for elements, request pages | headless browser |
| Build patches | `apply_patch.py` | the sources cargo has fetched, `patches/` | compare, remove, fetch again, apply | cargo, git, the patch server |

### What is hard

* The **gateway** keeps its work list in memory only.  Hand-outs do not take ids
  out of the list, so several workers hold the same id; a submission is an INSERT
  followed by a removal, two steps that a crash, a dropped connection or an error
  can separate; workers repeat a submission whose answer is lost.  Correct means:
  no post is forgotten, no worker leaves early, a failing post keeps no other
  post from being scraped, and everything ends.
* **`telegram content`** pages downwards while it widens a range that later runs
  trust.  Correct means: the range claims only what is there, never shrinks, and
  a run that ends normally has fetched what it was asked for.
* **`telegram interact`** races a timeout with an answer, and a sender left behind
  by a timeout with the next request.  Correct means: nobody waits for a sender
  that is not registered, answers go to their bot's rows, the command ends.
* **`telegram ping`** shares one list between accounts, writes one table at once
  and the others at the end, and skips in later runs what any table knows.
  Correct means: a row names an account that can use it, a clean run adds what it
  was given, every run ends.
* The **list scraper** is sequential, but its pages shift while it reads them, and
  it leaves a section at the first page on which all posts are known.  Correct
  means: what an undisturbed visit leaves out is older than a post the table had
  before, and every run ends.
* **`telegram extract`** takes shortcuts when it looks for links (a jump to each
  `t`, eight bytes behind the head), commits in batches, and appends to a file
  that an earlier run may have left in the middle of a line.  Correct means: it
  finds the links people write and little else, the rest behind the last whole
  batch is committed too, names follow their links, a good end means a whole file.
* The **accounts** are set up concurrently from configurations that may share a
  session file, change between runs, or fail one by one.  Correct means: a failure
  costs no other account its client, a row goes to the account that can use it,
  and nobody signs in twice.
* The **AccsMarket** and **Ezkify** scrapers walk a page with a title or category
  in hand, which a failure, a missing id or an unparsable row could misplace, and
  rely on primary and foreign keys that a page can violate.
* The **patch script** decides from hashes what was done before: by itself, by a
  run that was killed, or with an older patch.

## 2. Modules

| Module | Models | Proofs |
|---|---|---|
| `WorkQueue` | `get_black`, `remove`, `get_black_ids` as operators on sequences | `GatewayProofs` |
| `BidsQueue` | the queue alone, with requests and removals in any order | `GatewayProofs` |
| `Archive` | abstract: each post archived once, workers leave at the end | |
| `Gateway` | server, workers, HTTP, INSERTs, crashes; implements `Archive` | `GatewayProofs` |
| `FetchContent` | `telegram content` for one channel, over several runs | `FetchContentProofs` |
| `Interact` | `telegram interact`, the futures and the listener of one account | `InteractProofs` |
| `Ping` | `telegram ping`, all accounts, over several runs | `PingProofs` |
| `ListScraper` | the list scraper over several runs, and the site that grows under it | `ListScraperProofs` |
| `Links` | `inspect` as operators on texts, and what a link is | `ExtractProofs` |
| `Extract` | `telegram extract` over several runs; extends `Links` | `ExtractProofs` |
| `Accounts` | set-up, division of rows and session files over several runs | `AccountsProofs` |
| `Market` | the AccsMarket scraper | `ProgramsProofs` |
| `Panel` | the Ezkify scraper | `ProgramsProofs` |
| `Patches` | `apply_patch.py` over several runs | `ProgramsProofs` |

`MC*.tla` name the small sets the configurations use.  `MCPrograms` has `BidsQueue`,
`Market`, `Panel` and `Patches` side by side: they share nothing, so a behaviour is
that of one of them, and one run checks all four.  Each `...Proofs` module extends what it
proves about; `GatewayProofs` and `ProgramsProofs` cover three modules each.

### WorkQueue, BidsQueue, Gateway, Archive

`WorkQueue` declares what both queue modules share: the posts, the literal 50 as
`BATCH`, and `BIDS`, the vector.  `Handout` is `50.min(len.div_ceil(2))` with `BATCH` for 50,
`Rotated`/`Batch` are the locked section of `get_black`, `RemoveId` that of
`remove`.  The locked sections contain no await, so each is one step.

In `Gateway`, `pc[w]` is where worker `w`, or the `send_black` handler that works
for it, stands: a worker has one request under way at a time, so one variable
serves both.  `works[w]` is the rest of its batch with the id it works on at the
head.  `FetchWork`, `ScrapeOk/ScrapeWrong/ScrapeFail`, `Submit` and `Advance` are
the loop of `worker.rs`; `InsertOk`, `InsertDuplicate`, `InsertFail`,
`InsertLostAck`, `Remove` are `send_black`.  The two awaits that matter are kept
apart: the INSERT and the removal.  Failures: the answer to `get_black` is lost
after the rotation (`FetchLost`), a page that could pass fails this time
(`ScrapeFail`), the INSERT fails or its acknowledgement is lost, the answer to
`send_black` is lost (`RemoveLost`), the handler is dropped (`Disconnect`) or the
process dies (`Crash`, `Restart`).  An INSERT that was sent by a handler which is
gone may still be executed: those are `orphans`.  Which posts never pass
`simple_check` is `failing`, any subset of `Unscrapable`, the same for a whole
behaviour.

### FetchContent

One channel; a message is its id.  `Start(l)` is `fetch_content` up to its loop,
with the query for the range, the stop point and the jump condition.  `FetchOk`
is a page from Telegram together with the message-by-message loop that moves it
into the buffer; `Insert`, `InsertFail` and `SetRange` are `insert_to_db`;
`AfterInsert` is the rest of the loop: stop, jump to below the stored window, or
go on.  `IsLast` is the iterator's `last_chunk`, external code modelled by what it
does to the loop.  `StartBlind` is the query error that `.ok()?` turns into "no
range".  New messages arrive at any time (`Post`), ids may be missing anywhere,
and the program may be killed between any two steps and started again with
another `--limit`.

### Interact

`Register`, `Receive`, `TimeOut`, `Record` are `interact_inner` and `interact_bot`;
`Deliver` is the listener: it removes the sender of the message's bot and sends.
The timeout may happen at any moment, also when the answer has just arrived: the
5 seconds are abstracted to "at some time".  Bots may send messages unasked, answer
late, several times, or never.

### Ping

`Start` is `main` up to `ping::work`: `Searched` are the maps that `get_searched_peers`
can build from the tables (a name has one entry, whichever row comes last),
`UnknownKeys` and `UnknownIds` what `separate_id_and_names` leaves over, `Fetchable`
what `fetch_channels_by_id` finds.  A row's name is the user name of its peer or,
without one, its title (`NameOf`), which may be spelled like another peer's key.
`Pop` takes a key from the shared list; `RequestOk`/`RequestNo` are
`resolve_username` and then `CheckChatInvite`; `Record` and `RecordCommands` are
the INSERTs into `telegram.invite` and, for users that have commands,
`telegram.interaction`; `Join` and the two `Insert...` are the rest of `main`, where
people who are no bots get no row.  A row that fails aborts its transaction and
`commit` rolls it back without an error (`InsertRolledBack`).

### ListScraper

`site` is the list of each section, the newest post first; a post is its id, and
ids grow.  `Visit`, `Continue`, `Break` and `NextSection` are the two loops of
`main`; `Load`, `LoadFail` and `Hang` are the first half of `work`, `Insert`,
`InsertNothing` and `InsertFail` the second.  `NoneNew` is `n_rows == 0`: the
upsert returns `xmax = 0` for new rows only.  Posts come in at any time (`Post`)
and may be deleted (`Delete`), so that page n need not show what it showed before;
a failed upsert may have been committed.  A page number past the end shows the
last page, so the counter need not go beyond `Beyond`.  `Hang` is `wait_for_async`
on a page whose list never shows: it polls without a timeout.

Three history variables say how far the code can be held to its purpose.
`arrived` counts the posts that came in since the last page was read.  A page is
`Fresh` when it has a readable post that it did not get by shifting, or when it is
the last one; on any other page the code cannot tell a shifted post from a known
one, and it stops.  `clean` says that in this visit nothing failed or was deleted
and all pages were fresh, `calm` that all visits so far were like this.

### Links, Extract

A text is a sequence of pieces, words and marks; only the piece `t` has the letter
that `inspect` looks for.  `AfterHead` strips what `inspect` strips behind a `t`
(an ending of a host, a domain, `joinchat`), `NameIn` takes the first run of words
if it begins within eight bytes, `Taken` unites both over all `t`.  All this compares
letter by letter, as `match_indices` and `strip_prefix` do: `T.me` and `t.ME` have no
head, and `Joinchat` is a name.  Only the names are `UniCase`: `Found` has them
`Folded`.  The reference is `Meant`, links as Telegram's users write them
(`AsWritten`), and `Named`, a name behind a head and few bytes.

In `Extract` a run is `Start` (known peers, file opened), `Query` (the snapshot of
the stream), `Row`, `EndOfStream`, `Commit`, `Write`, `Written`, `Drop`.  `cnt` counts
modulo the batch.  A name goes into the `BufWriter`, whose flush may be cut
anywhere: `AppendLines` appends whole lines and perhaps a part of one, and spoils
its first line if the file was `torn`.  Every `?` is a failure: `Fail`,
`CommitFail`, `WriteFail`; the flush in the drop fails unnoticed (`DropFail`).
Beside a run, messages come in or are edited (`Store`) and peers become known
(`Learn`).

### Accounts

`Start` polls all futures up to their first request, which loads the session
files; `Connect` is the rest of `Client::new`; `SetUp`, `SignIn`, `LoginDone`,
`LoginFail`, `Save`, `SaveFail` are the loop of `init_clients_from_map` over the results.
`Inserted` is `try_insert`.  `Dispatch` reads the rows a command asks for (`Retained`)
and divides them (`JobsOf`), `Serve` hands one to its client, `FinalSave` is the save at the end, reached only
when the command returns `Ok` (`CommandFail`).  Sessions may be revoked from
elsewhere, and a save that is cut leaves a `Broken` file.  `PathIn` says what is
appended to the directory in the shared path buffer.

### Market, Panel, Patches

`Market`: `Element` is one child of the front page, with `id` the number of the title
last seen; `Answer`, `NoAnswer`, `InsertList`, `InsertListFail` are `work`.  The id of an
item is a hash of its description, so an offer is its own key within a second.

`Panel`: `Category` upserts and stores `CID`; `InsertItem` and `ItemRefused` are
`insert_db` under the two keys of its table, `Unparsed` a row that one of the three
parsers (`Parses`) refuses.

`Patches`: `Begin` is the first `cargo fetch`, `Download` the patches of the standard
library (none with `--std-patch-server ''`), `Scan` and `NotFound` are `patch_inner`,
`Scanned` the second fetch, `Report` the end of a package with `git apply`.  `target` is
the script's variable of that name, the host until a download makes it the path
of a patch; `CargoFetch` brings what is missing for the host, and for a path at most
some of it, as cargo gives up.  `fresh` remembers what was missing at the start.  `Sides` compares both sides
of a patch with what is there.  A killed `rmtree` or `git apply` has done any
part of its files.

## 3. Runs

| Run | Shows | Bounds |
|---|---|---|
| `gateway` | types, no post forgotten, no id listed twice, no early exit, stale ids only in flight, implements `Archive`; every scrapable post is archived although one may never pass; workers return, or an id is left behind between INSERT and removal | 4 posts of which one may never pass, 2 workers, hand-outs of 2, 2 failures |
| `gateway_disjoint` | *violated*: two workers hold one id | 3 posts, no failure |
| `fetch` | honest range, coverage of clean runs, up to date without failures, the range grows, every run ends | ids up to 6, pages of 2, limits 2 and 5, 2 runs, 2 failures, 2 errors in a row end a run |
| `fetch_panic` | *violated*: `expect` panics | ids up to 4, 1 run, 1 failure |
| `interact` | the registered sender is current, rows are honest, the command ends | 2 bots, 2 messages per bot, 1 failure |
| `interact_race` | *violated*: "no response" although there was one | 2 bots, 1 message each |
| `ping` | usable credentials, clean runs add and skip only what was added, every run ends | 2 accounts; a channel, a group, a bot, a person; 5 keys, 2 per command line; 2 runs, 1 failure |
| `list_scraper` | undisturbed visits leave out only what is older than a known post, undisturbed runs are up to date, runs end | 2 sections, ids up to 5, pages of 2, one unreadable post, 2 runs, 1 failure, deletion or kill |
| `extract` | links before names, honest links, a whole file after a good end, the right names | 2 channels, 2 message ids, batches of 2, a buffer of 1 name, 2 runs, 1 failure; 1890 single texts beside 8 databases of several messages |
| `accounts` | a client for each good configuration, no second login, every row to its account, files saved at the end | 3 keys, 4 files of configurations, 6 sessions, 2 runs, 2 failures |
| `programs` | an id waits fewer calls than there are posts; lists under their titles and whole, price lists up to what ends the program, packages patched | queue: 5 posts, hand-outs of 2; AccsMarket: 2 or 3 lists, 2 seconds, 1 failure; Ezkify: 3 layouts, 2 visits, 1 failure; patches: a library and 2 packages, 3 runs, 2 failures |
| `patches_target` | *violated*: a run that removes a package does not bring it back | as `programs` |

Why these are enough.  *Gateway*: two workers already hold the same id, submit it
twice and interleave INSERT and removal; four posts give hand-outs of two that
overlap and an odd queue on the way down; two failures let one failure hit the
recovery from another (crash and orphan, lost answer and duplicate); once two
posts are left, a hand-out has one id, and the rotation is all that keeps the
failing post from starving the other.  *FetchContent*: six ids in pages of two give a run three pages, room
for a window in the middle, a jump over it and a rest below; limits 2 and 5 are
one page and nearly the whole channel, in either order; a second run is the first
that trusts a range.  *Interact*:
a timeout and a late second message need two messages per bot, mixing up bots
needs two bots.  *Ping*: two accounts race for a key that leads to the same peer
(a name and an invite of one channel), the group's title is spelled like that
name, bot and person may have commands, one key does not exist.  Two keys or found
ids on a command line are two futures at work at once, or one key and the channel
that shadows it; the second run skips what the first has left.  *ListScraper*: five posts in
pages of two make three pages in one section, or two and one in both; posts that
come in between two pages shift some or all of a page, the second run is the first
that meets known posts, and the unreadable one can fill a page of its own.
*Extract*: three rows make a whole batch and a rest; with a buffer of one name a
second one forces a flush; the second run meets a torn line and links that are
there.  The single texts are every combination of an opening, a head or nearly
one, a domain or not, something in between and an ending, with capitals in the
head, the domain, `joinchat` and the name, so that each strip of `inspect` succeeds
and fails behind each other one.  *Accounts*: the four files of
configurations reorder two accounts, drop one, and put between them a third that
shares a session file; a second run is the first that loads what a first one
saved or spoiled.  *Programs*: the queue of five is odd and
even on its way down; a page of AccsMarket has a title without heading or number before any of its lists, and lists that repeat an offer; an Ezkify page
has items before, between and behind categories, short rows and repeated ids; a
package goes through a patch, another one, and a kill in between.

Every bound is a constant named in the module that uses it (`MaxFaults`,
`MaxRuns`, `MaxId`, `MaxReplies`, `MaxKeys`, `MaxSessions`, and so on; `Market`,
`Panel` and `Patches` have names of their own, as they are composed).  `MaxErr` and
`BATCH`/`Batch` are literals of the code (5, 50, 100), made small.

### Fairness

* `Gateway`: `WF` of the failure-free steps of each worker and its handler (the
  runtime polls a task that is ready), and of `Restart` (somebody starts the
  server again).  Failures and orphaned INSERTs are never due.
* `FetchContent`: `WF(RunStep)`: a request or statement gets an answer, good or bad.
* `Interact`: `WF` of each future's steps, which include the timeout, and of `Stop`.
  No answer of a bot is due.
* `Ping`: `WF` of each future and of `main`.
* `ListScraper`: `WF(RunStep)`: but for a list that never shows (`Hang`), a page or
  statement gets an answer, good or bad.
* `Extract`, `Accounts`, `Market`, `Panel`, `Patches` and `BidsQueue` state safety only:
  each but the last walks a finite list once, so that they end is plain.

Every run checks for deadlock; the states in which a program has really ended,
or waits for good, have the stuttering step `Terminated`.

### What the violated runs say

1. `gateway_disjoint`: README.md 202 promises workers "disjoint work"; ids handed out
   stay in `BIDS`, so with a queue shorter than two batches two workers hold the
   same id.  It costs a request and an INSERT that fails on the primary key;
   `ArchiveSpec` shows it costs nothing else.
2. `fetch_panic`: "interval shouldn't be None after insert" (telegram.rs 205): it is
   None when the INSERT of the first page of a new channel fails.
3. `interact_race`: the sender is registered after the request is sent; an answer
   in between is dropped and reported as "no response".
4. `patches_target`: README.md 54 says one "can just run the script".  Line 157 of
   `apply_patch.py` binds `target`, the host triple of line 131, to the path of the
   downloaded patch, and line 192 passes it to the second `cargo fetch`: a package
   that was removed because it did not match stays gone, `git apply` has no
   directory, and the script ends without an error.  `Repaired` shows what is left
   of the promise: the next run fetches and patches it.

### What the properties excuse

Where the code gives something up that no document promises, the property names
the exception instead of leaving the case out:

* a run of `telegram content` killed after its first page has joined its page to
  the old range, and the next run stops where that range begins: the gap stays.
  `CleanRunCovers` excuses what the range claimed before the run, and the ids just
  below a jump, which asks for `offset_id(interval.0 - 1)`, an exclusive bound.
* `telegram.invite` is written at once and the credentials at the end of
  `telegram ping`; after a kill or a failure in between, later runs take the key for
  known.  `CleanRunAdds` excuses keys that were left out as known, but only once
  something has failed: before that they have their rows (`LeftOutIsThere`).
* a channel without a user name is known by its title: looked up by id, it takes a
  key that is spelled like it off the list (main.rs 106), and its row makes later
  runs leave that key out.  `CleanRunAdds` excuses such keys (`Shadowed`).
* a failed page of the list scraper is never read again once a newer one is known
  (`CleanVisitCovers`, `UpToDate`).
* the first name after a torn line of the file of names is lost (`FileComplete`); in
  `tg://join?invite=HASH` the code finds the word `invite` (`NamesRight` speaks of
  `t.me` and its other domains).
* heads are matched letter by letter: `T.me/NAME` and `t.ME/NAME` are not found, in
  `t.me/Joinchat/HASH` the name is `Joinchat`, and of a name that begins with
  `joinchat` the rest is taken.  `NamesRight` asks for heads in lower case and names
  that do not begin so.
* lists of AccsMarket that repeat an offer, or share one with an earlier list of
  the same second, break the primary key (`ListsComplete`).
* a patch that adds a file counts as clean also when an older version of that
  file is there, and git then rejects it (`Repaired`); no patch here adds one.
  After a download a package that the run has removed stays gone (`LeftOut`, which
  is also what `patches_target` shows), but never one that it found missing.

## 4. Proofs

All constants are arbitrary subject to the assumptions in the modules: finite
sets of posts, integers as ids, positive batch sizes; `Ping` needs at least one
account, that a peer with a user name is known by it, and invites that lead to no
user; `Patches`, that a patch has one part for each file, as git writes it.

An invariant is called `IInv` in its module, or after the module's name where a
module proves about several; each action has a lemma that it preserves it.

* **`GatewayProofs`**, the queue: a hand-out is at most the queue and `BATCH`, and empty
  only for an empty queue (`HandoutBounds`); rotation and removal permute or drop
  exactly what they should (lemmas on positions, used below too).
  `WaitPlusPosition` is inductive with the types and the distinctness of the queue:
  each call that does not hand an id out moves it one place or more to the
  front, and the position is at most the number of posts.  `BoundedWait` follows,
  which the run checks; the other two are theorems only.
* **`GatewayProofs`**, the pipeline: `IInv` is the types, `NoWorkLost`, `QueueNoDup`,
  `QuitOnlyWhenArchived`, `StaleOnlyInFlight`, and what the steps need beside them: the
  id of a handler past its INSERT is in `content` (`InsertedIsArchived`), and only a
  failure leaves an INSERT without a handler (`NoOrphanWithoutFault`).  `NoWorkLost` is not inductive alone: `Remove` needs that the id
  is archived and, since it takes one position, that it is listed once.
  `Refinement` maps each step of `Gateway` to a step or a stutter of `Archive`.
* **`FetchContentProofs`**: `HonestRange` and `RangeGrows` need that the interval of a
  run contains the range in the table (`WiderInv`) and has its ends stored
  (`IntervalInv`).  `CleanRunCovers` needs a loop invariant: every wanted message
  that the iterator has passed is stored, claimed or just below a jump, before a
  request (`FetchInv`) and with a page in hand (`PageInv`); that the run stops or
  jumps in the right place rests on where the stop line can be (`StopInv`) and on
  where the interval begins before the jump (`JumpInv`).
  `UpToDate` ties several runs together.  A second inductive invariant (`CalmIInv`)
  says what holds until the first failure: the interval takes in the old range,
  and a jump skips nothing above it (`SkippedInv`); every message of the channel
  between the old range and what the iterator has come to is stored or in the
  buffer, however many arrive meanwhile (`SeenInv`); and while the limit stays the
  same, the old range is complete down to its own limit (`OriginInv`), which is
  what the last run has left.
* **`InteractProofs`**: `Reachable` is inductive with the types; `HonestRows` needs that
  a message in a channel is of the channel's own bot, and that no answer on
  `/help` exists before `/help` was sent.
* **`PingProofs`**: `HonestCredentials` needs that what futures and `main` hold was
  resolved by the account it is filed under (`FoundInv`); `CleanRunAdds` needs that in
  a run without failures every existing key is in the list, with a future, among
  the results, in the tables or shadowed (`CoverInv`), that a future has a key
  exactly while it works on one (`KeyInv`), and what each phase of `main` implies
  (`PhaseInv`, `CheckInv`); across runs, that without any failure every key in
  `telegram.invite` has its row or is on the way to it (`LeftOutInv`).
* **`ListScraperProofs`**: `CleanVisitCovers` needs to know, at every page, how far
  down the list the visit has read although the list grows at the top: to
  `page * Size` and `arrived` more (`ReadTo`), in `LoadInv` before a page and in
  `InsertInv` with a page in hand, where a fresh post of the page is named too.  At
  a `Break` that post is known, and all that is missing is below it, hence older.
  `RoomInv` bounds the length of a list by the largest id, so that the counter's
  cap is past the end.
  `UpToDate` rests on `CalmInv`: until something disturbs a visit, the table is
  closed downwards in every section: below a post that it has it has every
  readable one (`ClosedInv`).  In the section under way this holds down to where the
  pages have been read (`PagesInv`), and when the visit breaks off either the list
  ends there or a post of the page was known before, under which nothing is
  missing.  No post is in two sections (`Apart`), as ids grow over all of them.
* **`ExtractProofs`**: `LinksFirst` needs that at every row the links found so far are
  committed or in the batch (`LinkInv`), and what each phase implies (`PhaseInv`):
  behind the last commit no row is left and the batch is empty.
  `FileComplete` needs that a name of the run is in the file, in the buffer or
  still to be written, but for one that met a torn line (`FileInv`).  `HonestLinks` is
  inductive with `EsInv`.  Up to here nothing is said of what `Found` computes: these
  proofs hold for any way of finding names.  `NamesRight` needs it, of texts of
  every length: `TakenIsNamed` and `MeantIsTaken` compare the code, which strips
  prefixes off what is left behind a `t`, with the definitions of a link, which
  speak of positions in the text (`AfterHeadAt` and `NameInAt` turn one into the
  other); folding keeps every piece of a text in its place (`FoldedPieces`).
  `DictInv` says that the names of a run are those of the rows it has read.
* **`AccountsProofs`**: `OneClientEach` needs that at every configuration the clients so
  far are the first good ones of those before it (`ClientsInv`), and that what failed
  during the loop is behind it (`PhaseInv`).  `NoSecondLogin` needs that the file of an
  account holds what was saved for it last (`FileInv`: no other account has its
  path), so that a session that was good when the run started is what was
  loaded and still granted (`TrustInv`).  `EveryRowServed` counts rows as served or
  pending (`JobsInv`), `SavedAtEnd` the files that are written so far
  (`ShutdownInv`).
* **`ProgramsProofs`**.  *Panel*: `CID` is the category above the row (`CidInv`), and
  the items of this visit are from rows before it, so that an INSERT can be refused
  only for an id that stands on the page twice (`ItemsInv`); `PriceListStored` is
  inductive with these.  *Market*: each list of the page so far still waits in
  `futs`, was lost, or is handled (`AllInv`); the futures are in the order of the page
  with the title above each (`FutsInv`), and a row in the table stems from an answer
  to an earlier request (`RowsInv`), so that what refuses an INSERT is an excuse
  that `ListsComplete` names.  *Patches*: what the status of a package says about
  its tree in each stage (`StatusInv`, `ScanInv`, `ReportInv`): a package that was
  removed is fetched as cargo has it, or stays gone after a download (`StaysGone`),
  and applying a patch that fits to what was fetched gives what it says
  (`AppliedTarget`).  One that was missing at the start has its original sources
  until it is scanned, and so is removed only if its patch is for others (`FreshInv`).

Every safety invariant and the action property that a passing run checks, and
the refinement of `Archive`, is a theorem.  Model-checked only: liveness
(`EventuallyArchived`, `DoneOrStale`, `RunsEnd`, `EveryoneReturns`), which needs ENABLED
under fairness, and this prover has no rules for that.  The four violated runs
are counterexamples and stay with TLC.

## 5. Abstractions, and what is not modelled

* Page contents, message bodies, descriptions, titles and logging are left out:
  no property depends on them.  `simple_check` is membership in `failing` for posts
  that never pass, plus a failure that may happen to any other.
* `ListScraper` knows of a row only whether the selectors match it.  Threads are
  listed by date alone: those that a forum pins to its first page, above the
  list, are left out.
* `IDS` of the gateway is always empty (`main` passes `Vec::new()`, `get_ids` is dead
  code), so `get`/`send` on it are not modelled.
* One process of `telegram` runs at a time; two commands on one database are not
  interleaved.
* Channels of `telegram content` are independent but for a panic, which ends all of
  them; one channel with `Crash` covers that.
* `Ping` takes the lookup of channels by id as part of `Start`: it precedes the
  futures and writes no table.
* `Links` knows the words and marks that decide what `inspect` does, not all
  characters; of words with capitals it has one for each place of a link.
* `Accounts` takes phone, code and password as one step that succeeds or fails.
* `Market` and `Panel` keep of a row what its key and its parser look at.  In `Panel`
  each visit has a second of its own.
* `Patches` takes the directory of a git package as given (`patch_git` looks for it by
  prefix), and a patch that no longer touches a file leaves that file as the
  old patch made it: `Repaired` speaks of what the present patch says.  The status
  of a download is not looked at: an error page is a patch without hunks.

Not modelled:

* `get` and `send` of the gateway (see above), hence its status "partly".
* `simple_parse` (`util.rs` 9-38), which nothing calls.
* The connection pool and the binary encodings (`db.rs`): a pool set once and three
  conversions without state.  Every module has a connection that cannot be had as
  a failure of the statement.
* `telegram/telegram/types.rs`: records copied field by field from the library's.
* The browser and HTTP helpers (`scrape.rs`, `browser.rs`), which have no state but the
  browser's; `ListScraper` models what a call can do.

Planned next: abstract specifications in the manner of `Archive` for the programs
that run repeatedly, first for `FetchContent`: a set of stored messages and a
claimed range, which a run widens and nothing else changes.
