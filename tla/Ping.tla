-------------------------------- MODULE Ping --------------------------------
(***************************************************************************)
(* `telegram ping`: the keys of the command line are resolved by one       *)
(* future per account (telegram/ping.rs), which share the list of keys;    *)
(* what they found is written to telegram.channel and telegram.bots        *)
(* (telegram/db.rs) once all of them have returned (telegram/main.rs).     *)
(* The description of a peer goes to telegram.invite at once.              *)
(*                                                                         *)
(* A run without --force leaves out every key that some table knows.  The  *)
(* name in a row is the user name of the peer or, without one, its title,  *)
(* which may be spelled like a key of another peer.                        *)
(***************************************************************************)
EXTENDS Integers, FiniteSets, Functions

CONSTANTS
  Clients,    \* the accounts, by the id that app_id refers to
  Peers,      \* ids of channels and users
  Bots,       \* the users that are maybe_bot
  People,     \* the other users
  Names,      \* keys that are the username of a peer
  Hashes,     \* keys that are the hash of an invite to a channel
  PeerOf,     \* the peer of each key that exists
  Titles,     \* spellings that are no keys
  NameOf,     \* by peer: its user name, or its title
  None,       \* no row, no key
  MaxKeys,    \* bound: keys, and ids that are found, on a command line
  MaxRuns,    \* bound: how often the program is started
  MaxFaults   \* bound: how many failures a behaviour may have

Keys == Names \cup Hashes
Known == DOMAIN PeerOf
Users == Bots \cup People
Channels == Peers \ Users

ASSUME PingAssumption ==
  /\ Clients # {}
  /\ Users \subseteq Peers
  /\ Bots \cap People = {}
  /\ Names \cap Hashes = {}
  /\ Known \subseteq Keys
  /\ PeerOf \in [Known -> Peers]
  /\ \A k \in Known \cap Hashes : PeerOf[k] \notin Users
  /\ NameOf \in [Peers -> Keys \cup Titles]
  /\ \A k \in Known \cap Names : NameOf[PeerOf[k]] = k
  /\ None \notin Clients \cup Keys
  /\ MaxKeys \in Nat
  /\ MaxRuns \in Nat
  /\ MaxFaults \in Nat

VARIABLES
  \* PostgreSQL
  invite,    \* keys in telegram.invite
  row,       \* by peer: app_id of its row in telegram.channel or .bots, or None
  \* main
  main,      \* where the run stands, or how the last one ended
  found,     \* by peer: the account it was resolved with, or None
  \* work
  keys,      \* the shared Vec of keys
  pc,        \* where the future of each account stands
  key,       \* the key it has popped
  got,       \* the peers it has resolved
  \* bounds
  runs, faults,
  \* history
  asked,     \* the keys of the command line that were not left out
  clean,     \* nothing has failed in this run
  resolved   \* <<account, peer>>: which account has resolved which peer

tables == <<invite, row>>
futures == <<keys, pc, key, got>>
history == <<asked, resolved>>
vars == <<invite, row, main, found, keys, pc, key, got, runs, faults, asked,
          clean, resolved>>

(***************************************************************************)
(* main: "work" in join_all, "channels" and "users" before the two         *)
(* transactions.  Between runs: "idle" (none yet, or killed), "ended",     *)
(* "error" (main has returned an error).                                   *)
(***************************************************************************)
Between == {"idle", "ended", "error"}
Running == {"work", "channels", "users"}

(***************************************************************************)
(* pc: "pop"      at the head of the loop                                  *)
(*     "resolve"  in resolve_username                                      *)
(*     "check"    in CheckChatInvite                                       *)
(*     "record"   the peer is known, before the INSERT into invite         *)
(*     "commands" the peer is a bot, before the INSERT of its commands     *)
(*     "returned"                                                          *)
(***************************************************************************)
PCs == {"pop", "resolve", "check", "record", "commands", "returned"}

Fault == faults < MaxFaults /\ faults' = faults + 1 /\ clean' = FALSE
NoFault == UNCHANGED <<faults, clean>>

\* The key a future works on, and its peer.
Peer(c) == PeerOf[key[c]]

Init ==
  /\ invite = {}
  /\ row = [p \in Peers |-> None]
  /\ main = "idle"
  /\ found = [p \in Peers |-> None]
  /\ keys = {}
  /\ pc = [c \in Clients |-> "returned"]
  /\ key = [c \in Clients |-> None]
  /\ got = [c \in Clients |-> {}]
  /\ runs = 0 /\ faults = 0
  /\ asked = {} /\ clean = TRUE /\ resolved = {}

-----------------------------------------------------------------------------
(* The start of a run: main up to ping::work.                              *)

CanStart == main \in Between /\ runs < MaxRuns

\* What the tables know: the keys of telegram.invite, and the names in rows.
Entries == {<<k, PeerOf[k]>> : k \in invite}
             \cup {<<NameOf[p], p>> : p \in {p \in Peers : row[p] # None}}
Spellings == {e[1] : e \in Entries}

\* get_searched_peers: a map with one of the peers for each name; --force is an
\* empty one.
Searched == {f \in [Spellings -> Peers] : \A n \in Spellings : <<n, f[n]>> \in Entries}
Forced == [n \in {} |-> None]

\* separate_id_and_names leaves out what is in the map.
UnknownIds(ps, known) == ps \ Range(known)
UnknownKeys(ks, known) == ks \ DOMAIN known

\* fetch_channels_by_id: Telegram may know any of them that are channels.
Fetchable(ps) == SUBSET (ps \cap Channels)

\* ks are the keys of the command line, ids the channels that were found with
\* account c for its ids: what is spelled like their names needs no resolving.
\* With nothing to resolve, work is not called.
Start(ks, ids, c, known) ==
  /\ CanStart
  /\ runs' = runs + 1
  /\ asked' = UnknownKeys(ks, known)
  /\ keys' = asked' \ {NameOf[p] : p \in ids}
  /\ found' = [p \in Peers |-> IF p \in ids THEN c ELSE None]
  /\ resolved' = resolved \cup ({c} \X ids)
  /\ main' = IF keys' = {} THEN "channels" ELSE "work"
  /\ pc' = [d \in Clients |-> IF keys' = {} THEN "returned" ELSE "pop"]
  /\ key' = [d \in Clients |-> None]
  /\ got' = [d \in Clients |-> {}]
  /\ clean' = TRUE
  /\ UNCHANGED <<tables, faults>>

\* get_searched_peers or fetch_channels_by_id fails: main returns the error.
StartFail ==
  /\ CanStart
  /\ runs' = runs + 1
  /\ main' = "error"
  /\ Fault
  /\ UNCHANGED <<tables, found, futures, history>>

-----------------------------------------------------------------------------
(* The future of account c: into_future, access_channel, access_invite.    *)

Goto(c, l) == pc' = [pc EXCEPT ![c] = l]

\* The next key, whatever became of this one.
NextKey(c) == Goto(c, "pop") /\ key' = [key EXCEPT ![c] = None]

\* Mutant: a list that is assigned where it should be appended to.
Resolved_Replaces(c) ==
  /\ got' = [got EXCEPT ![c] = {Peer(c)}]
  /\ NextKey(c)

\* access_channel or access_invite returns the peer.
Resolved(c) ==
  /\ got' = [got EXCEPT ![c] = @ \cup {Peer(c)}]
  /\ NextKey(c)

\* Mutant: the key is read, and stays in the list.
Pop_Reads(c) ==
  /\ pc[c] = "pop"
  /\ \E k \in keys : key' = [key EXCEPT ![c] = k]
  /\ Goto(c, "resolve")
  /\ NoFault
  /\ UNCHANGED <<tables, main, found, keys, got, runs, history>>

\* keys.lock().pop(); the order of the keys is that of a HashSet.
Pop(c) ==
  /\ pc[c] = "pop"
  /\ \E k \in keys :
       /\ keys' = keys \ {k}
       /\ key' = [key EXCEPT ![c] = k]
  /\ Goto(c, "resolve")
  /\ NoFault
  /\ UNCHANGED <<tables, main, found, got, runs, history>>

Return(c) ==
  /\ pc[c] = "pop"
  /\ keys = {}
  /\ Goto(c, "returned")
  /\ NoFault
  /\ UNCHANGED <<tables, main, found, keys, key, got, runs, history>>

\* The keys that a request of access_channel ("resolve") or of access_invite
\* ("check") can find.
Answers(l) == Known \cap IF l = "resolve" THEN Names ELSE Hashes

\* Telegram knows the key.
RequestOk(c) ==
  /\ pc[c] \in {"resolve", "check"}
  /\ key[c] \in Answers(pc[c])
  /\ resolved' = resolved \cup {<<c, Peer(c)>>}
  /\ Goto(c, "record")
  /\ NoFault
  /\ UNCHANGED <<tables, main, found, keys, key, got, runs, asked>>

\* Mutant: a key that is no hash is tried as a user name again.
GiveUp_Retries(c, l) == Goto(c, IF l = "resolve" THEN "check" ELSE "resolve")
                        /\ UNCHANGED key

\* The key is no user name: try it as a hash.  It is no hash either: drop it.
GiveUp(c, l) == IF l = "resolve" THEN Goto(c, "check") /\ UNCHANGED key
                                 ELSE NextKey(c)

\* Telegram does not know the key, or the request fails (a flood wait, too).
RequestNo(c) ==
  /\ pc[c] \in {"resolve", "check"}
  /\ \/ key[c] \notin Answers(pc[c]) /\ NoFault
     \/ key[c] \in Answers(pc[c]) /\ Fault
  /\ GiveUp(c, pc[c])
  /\ UNCHANGED <<tables, main, found, keys, got, runs, history>>

\* get_description: a user may have commands.  A request that fails only leaves
\* another text, without commands.
MayHaveCommands(c) == Peer(c) \in Users

\* The INSERT into telegram.invite; there may be commands to store as well.
Record(c) ==
  /\ pc[c] = "record"
  /\ invite' = invite \cup {key[c]}
  /\ \/ MayHaveCommands(c) /\ Goto(c, "commands") /\ UNCHANGED <<key, got>>
     \/ Resolved(c)
  /\ NoFault
  /\ UNCHANGED <<row, main, found, keys, runs, history>>

\* The request that the key was found with; if its function fails later, the
\* loop goes on as if the request had failed.
Source(c) == IF key[c] \in Names THEN "resolve" ELSE "check"

\* It fails, or its answer is lost: the peer is dropped.
RecordFail(c) ==
  /\ pc[c] = "record"
  /\ invite' \in {invite, invite \cup {key[c]}}
  /\ GiveUp(c, Source(c))
  /\ Fault
  /\ UNCHANGED <<row, main, found, keys, got, runs, history>>

\* The INSERT of the commands.
RecordCommands(c) ==
  /\ pc[c] = "commands"
  /\ Resolved(c)
  /\ NoFault
  /\ UNCHANGED <<tables, main, found, keys, runs, history>>

\* It fails: the bot is dropped, its row in telegram.invite stays.
RecordCommandsFail(c) ==
  /\ pc[c] = "commands"
  /\ GiveUp(c, Source(c))
  /\ Fault
  /\ UNCHANGED <<tables, main, found, keys, got, runs, history>>

-----------------------------------------------------------------------------
(* main after ping::work.                                                  *)

\* Mutant: the app_id of one account for everything that was found.
Join_OneApp ==
  /\ main = "work"
  /\ \A c \in Clients : pc[c] = "returned"
  /\ found' = [p \in Peers |->
                 IF \E c \in Clients : p \in got[c] THEN CHOOSE c \in Clients : TRUE
                 ELSE found[p]]
  /\ main' = "channels"
  /\ NoFault
  /\ UNCHANGED <<tables, futures, runs, history>>

\* Every future has returned: a peer that several accounts have found is
\* inserted into the map several times, and the last one wins.
Join ==
  /\ main = "work"
  /\ \A c \in Clients : pc[c] = "returned"
  /\ found' \in [Peers -> Clients \cup {None}]
  /\ \A p \in Peers :
       LET finders == {c \in Clients : p \in got[c]}
       IN  IF finders = {} THEN found'[p] = found[p] ELSE found'[p] \in finders
  /\ main' = "channels"
  /\ NoFault
  /\ UNCHANGED <<tables, futures, runs, history>>

\* The table with a row for every peer of ps that was found.
Upserted(ps) == [p \in Peers |-> IF p \in ps /\ found[p] # None THEN found[p] ELSE row[p]]

\* insert_channels, then insert_users: ps by account and by step.
Insert(ps, next) ==
  /\ row' = Upserted(ps)
  /\ main' = next
  /\ NoFault

\* A row fails, and is logged: PostgreSQL has aborted the transaction, commit
\* rolls back and says nothing.
InsertRolledBack(next) ==
  /\ main' = next
  /\ Fault
  /\ UNCHANGED row

\* prepare, transaction or commit fails: main returns the error.
InsertFail(ps) ==
  /\ row' \in {row, Upserted(ps)}
  /\ main' = "error"
  /\ Fault

InsertChannels ==
  /\ main = "channels"
  /\ \/ Insert(Channels, "users")
     \/ InsertRolledBack("users")
     \/ InsertFail(Channels)
  /\ UNCHANGED <<invite, found, futures, runs, history>>

\* Of the users only those that are maybe_bot get a row.
MaybeBots == Users \cap Bots

InsertUsers ==
  /\ main = "users"
  /\ \/ Insert(MaybeBots, "ended")
     \/ InsertRolledBack("ended")
     \/ InsertFail(MaybeBots)
  /\ UNCHANGED <<invite, found, futures, runs, history>>

\* The program is killed.
Crash ==
  /\ main \in Running
  /\ main' = "idle"
  /\ keys' = {}
  /\ pc' = [c \in Clients |-> "returned"]
  /\ key' = [c \in Clients |-> None]
  /\ got' = [c \in Clients |-> {}]
  /\ Fault
  /\ UNCHANGED <<tables, found, runs, history>>

-----------------------------------------------------------------------------
Future(c) ==
  \/ Pop(c)
  \/ Return(c)
  \/ RequestOk(c)
  \/ RequestNo(c)
  \/ Record(c)
  \/ RecordFail(c)
  \/ RecordCommands(c)
  \/ RecordCommandsFail(c)

Main == Join \/ InsertChannels \/ InsertUsers

\* Every start is used.
Terminated ==
  /\ main \in Between
  /\ runs = MaxRuns
  /\ UNCHANGED vars

Next ==
  \/ /\ CanStart
     /\ \E known \in Searched \cup {Forced}, ks \in SUBSET Keys, c \in Clients :
          \E ids \in Fetchable(UnknownIds(Peers, known)) :
            /\ Cardinality(ks) + Cardinality(ids) <= MaxKeys
            /\ Start(ks, ids, c, known)
  \/ StartFail
  \/ \E c \in Clients : Future(c)
  \/ Main
  \/ Crash
  \/ Terminated

Spec == Init /\ [][Next]_vars

\* Telegram and PostgreSQL answer, well or badly, and main polls every future.
FairSpec == Spec /\ WF_vars(Main) /\ \A c \in Clients : WF_vars(Future(c))

-----------------------------------------------------------------------------
(* Properties.                                                             *)

\* Every variable has its type, and no key is in two places: in the list, or
\* with one future, from Pop until the future is done with it (ping.rs 290).
TypeOK ==
  /\ invite \subseteq Known
  /\ row \in [Peers -> Clients \cup {None}]
  /\ main \in Between \cup Running
  /\ found \in [Peers -> Clients \cup {None}]
  /\ keys \subseteq Keys
  /\ pc \in [Clients -> PCs]
  /\ key \in [Clients -> Keys \cup {None}]
  /\ got \in [Clients -> SUBSET Peers]
  /\ \A c \in Clients : key[c] # None =>
       /\ key[c] \notin keys
       /\ \A d \in Clients \ {c} : key[d] # key[c]
  /\ runs \in 0..MaxRuns /\ faults \in 0..MaxFaults
  /\ asked \subseteq Keys
  /\ clean \in BOOLEAN
  /\ resolved \subseteq Clients \X Peers

\* An access_hash is only of use to the account it was given to: a row of
\* telegram.channel or telegram.bots names an account that has resolved the
\* peer itself, though several may and the last one wins (main.rs 101-109,
\* 121-126, ping.rs 293-313).
HonestCredentials == \A p \in Peers : row[p] # None => <<row[p], p>> \in resolved

\* The peer has a row, if it is of a kind that gets one.
HasRow(p) == p \in People \/ row[p] # None

\* A channel without a user name whose title is spelled like the key of another
\* peer, and which has a row.
Shadowed(k) == \E p \in Channels \ {PeerOf[k]} : NameOf[p] = k /\ row[p] # None

\* Nothing gets lost between the futures and the tables: a run in which nothing
\* fails leaves a row for every existing key of its command line that it did
\* not leave out (ping.rs 289-316, main.rs 115-133), but for a key that is
\* spelled like the title of a channel that was asked for by id (main.rs 106).
AskedIsAdded ==
  main = "ended" /\ clean =>
    \A k \in asked \cap Known : HasRow(PeerOf[k]) \/ Shadowed(k)

\* As long as nothing has failed, what later runs leave out as a key of
\* telegram.invite has its row (ping.rs 171, 34, main.rs 130-133).
LeftOutIsThere ==
  main = "ended" /\ faults = 0 => \A k \in invite : HasRow(PeerOf[k])

\* Both: a run without failures adds what it was given, and skips only what an
\* earlier one has added.
CleanRunAdds == AskedIsAdded /\ LeftOutIsThere

\* Every run ends, with its keys resolved or dropped.
RunsEnd == main \in Running ~> main \in Between
=============================================================================
