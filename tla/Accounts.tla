------------------------------ MODULE Accounts ------------------------------
(***************************************************************************)
(* The accounts of the `telegram` program (telegram/telegram/client.rs,    *)
(* telegram/main.rs): their set-up from the configurations, the rows that  *)
(* a command hands to each of them, and their session files, over several  *)
(* runs with configurations that change.                                   *)
(*                                                                         *)
(* A session is the number of its authorization key, or Fresh; `granted`   *)
(* are the keys that Telegram knows as signed in.  A file is known by what *)
(* is appended to the directory.                                           *)
(***************************************************************************)
EXTENDS Integers, Sequences

CONSTANTS
  Keys,            \* the i32 that name accounts: ids and session files
  NoFile,          \* no session_file in a configuration
  Configurations,  \* the contents that the file of configurations may have
  Channels,        \* ids of the rows of telegram.channel, or of telegram.bots
  NoRow,           \* an id without a row
  AppOf,           \* their app_id
  MaxSessions,     \* bound: authorization keys that are made
  MaxRuns,         \* bound: how often the program is started
  MaxFaults        \* bound: how many failures a behaviour may have

Configs == [id : Keys, file : Keys \cup {NoFile}]

ASSUME AccountsAssumption ==
  /\ NoFile \notin Keys /\ NoRow \notin Channels
  /\ Configurations \subseteq Seq(Configs)
  /\ AppOf \in [Channels -> Keys]
  /\ MaxSessions \in Nat /\ MaxRuns \in Nat /\ MaxFaults \in Nat

Fresh == 0
Broken == -1
Sessions == 1..MaxSessions

VARIABLES
  \* outside
  files,     \* by path: what a session file holds
  granted,   \* sessions that are signed in
  made,      \* sessions made so far
  \* a run
  configs,
  pc,        \* "connect", "setup", "login", "save", "command", "work",
             \* "shutdown", or between runs
  waiting,   \* configurations whose Client::new is under way
  got,       \* by configuration: the session of its client
  ready,     \* configurations whose client was there and signed in at once
  i,         \* the configuration that is set up
  clients,   \* by key: the configuration and the session of the client
  jobs,      \* by key: rows that are still to be worked on
  left,      \* clients that are still to be saved
  \* bounds
  runs, faults,
  \* history
  bad,       \* configurations that met a failure
  saved,     \* by key: the session that was saved last
  trusted,   \* keys whose last session was good when the run started
  served,    \* <<key, row>> that were worked on
  wanted,    \* rows that the command was asked for
  unsaved,   \* clients whose last save failed
  result     \* "none", "ok", "err"

outside == <<files, granted, made>>
setup == <<configs, waiting, got, ready>>
work == <<jobs, left, served, wanted, unsaved>>
vars == <<files, granted, made, configs, pc, waiting, got, ready, i, clients, jobs,
          left, runs, faults, bad, saved, trusted, served, wanted, unsaved, result>>

Between == {"idle", "ended"}
Running == {"connect", "setup", "login", "save", "command", "work", "shutdown"}

Fault == faults < MaxFaults /\ faults' = faults + 1

\* init_config.session_file.unwrap_or(api_id)
KeyOf(c) == IF c.file = NoFile THEN c.id ELSE c.file
Key(j) == KeyOf(configs[j])

\* Mutant: the buffer of the path is not cut back to the directory.
PathIn_Grows(cs, j) == [k \in 1..j |-> KeyOf(cs[k])]

\* What is appended to the directory for configuration j: the buffer is cut
\* back to the directory before each.
PathIn(cs, j) == <<KeyOf(cs[j])>>

Path(j) == PathIn(configs, j)

At(p) == IF p \in DOMAIN files THEN files[p] ELSE Fresh
Stored(p, s) == [q \in {p} \cup DOMAIN files |-> IF q = p THEN s ELSE files[q]]

Nobody == [k \in {} |-> 0]

Init ==
  /\ files = Nobody /\ granted = {} /\ made = 0
  /\ configs = <<>> /\ pc = "idle" /\ waiting = {} /\ got = <<>> /\ ready = {}
  /\ i = 1 /\ clients = Nobody /\ jobs = Nobody /\ left = {}
  /\ runs = 0 /\ faults = 0
  /\ bad = {} /\ saved = [k \in Keys |-> Fresh] /\ trusted = {}
  /\ served = {} /\ wanted = {} /\ unsaved = {} /\ result = "none"

-----------------------------------------------------------------------------
\* A session is ended from another device.
Revoke(s) ==
  /\ s \in granted
  /\ granted' = granted \ {s}
  /\ trusted' = {k \in trusted : saved[k] # s}
  /\ Fault
  /\ UNCHANGED <<files, made, setup, pc, i, clients, work, runs, bad, saved, result>>

-----------------------------------------------------------------------------
(* Set-up.                                                                 *)

\* All futures of init_clients_from_map are made, and each is polled up to its
\* first request: the sessions are loaded.
Start(cs) ==
  /\ pc \in Between
  /\ runs < MaxRuns
  /\ runs' = runs + 1
  /\ configs' = cs
  /\ got' = [j \in DOMAIN cs |-> At(PathIn(cs, j))]
  /\ bad' = {j \in DOMAIN cs : got'[j] = Broken}
  /\ waiting' = DOMAIN cs \ bad'
  /\ ready' = {} /\ i' = 1 /\ clients' = Nobody
  /\ jobs' = Nobody /\ left' = {} /\ served' = {} /\ wanted' = {} /\ unsaved' = {}
  /\ trusted' = {k \in Keys : saved[k] \in granted}
  /\ result' = "none"
  /\ pc' = "connect"
  /\ UNCHANGED <<outside, faults, saved>>

\* The rest of Client::new: a fresh session gets its key, and Telegram is asked
\* whether it is signed in.
Connect(j) ==
  /\ pc = "connect"
  /\ j \in waiting
  /\ waiting' = waiting \ {j}
  /\ \/ got[j] = Fresh /\ made < MaxSessions /\ made' = made + 1
     \/ got[j] # Fresh /\ UNCHANGED made
  /\ got' = [got EXCEPT ![j] = IF @ = Fresh THEN made' ELSE @]
  /\ ready' = IF got'[j] \in granted THEN ready \cup {j} ELSE ready
  /\ UNCHANGED <<files, granted, configs, pc, i, clients, work, runs, faults, bad,
                 saved, trusted, result>>

\* connect or is_authorized fails.
ConnectFail(j) ==
  /\ pc = "connect"
  /\ j \in waiting
  /\ waiting' = waiting \ {j}
  /\ bad' = bad \cup {j}
  /\ Fault
  /\ UNCHANGED <<outside, configs, pc, got, ready, i, clients, work, runs, saved,
                 trusted, result>>

\* join_all is done.
Connected ==
  /\ pc = "connect" /\ waiting = {}
  /\ pc' = "setup"
  /\ UNCHANGED <<outside, setup, i, clients, work, runs, faults, bad, saved, trusted,
                 result>>

\* The loop over the results: skip an error, sign in, or save at once.
SetUp ==
  /\ pc = "setup"
  /\ i \in DOMAIN configs
  /\ \/ i \in bad /\ i' = i + 1 /\ UNCHANGED pc
     \/ i \in ready /\ pc' = "save" /\ UNCHANGED i
     \/ i \notin bad \cup ready /\ pc' = "login" /\ UNCHANGED i
  /\ UNCHANGED <<outside, setup, clients, work, runs, faults, bad, saved, trusted, result>>

\* `continue`
Skip ==
  /\ pc' = "setup"
  /\ i' = i + 1
  /\ bad' = bad \cup {i}

\* self.inner.is_authorized(), asked again in each round of login.
SignedIn == got[i] \in granted

\* Phone, code and, if there is one, password are entered.
SignIn ==
  /\ pc = "login"
  /\ ~SignedIn
  /\ granted' = granted \cup {got[i]}
  /\ UNCHANGED <<files, made, setup, pc, i, clients, work, runs, faults, bad, saved,
                 trusted, result>>

LoginDone ==
  /\ pc = "login"
  /\ SignedIn
  /\ pc' = "save"
  /\ UNCHANGED <<outside, setup, i, clients, work, runs, faults, bad, saved, trusted,
                 result>>

\* A wrong number, code or password, or no answer from Telegram.
LoginFail ==
  /\ pc = "login"
  /\ Skip
  /\ Fault
  /\ UNCHANGED <<outside, setup, clients, work, runs, saved, trusted, result>>

Client(j) == [conf |-> j, session |-> got[j]]

\* Mutant: insert for try_insert.
Inserted_Last ==
  [k \in {Key(i)} \cup DOMAIN clients |-> IF k = Key(i) THEN Client(i) ELSE clients[k]]

\* try_insert: a client whose key is taken is dropped.
Inserted ==
  [k \in {Key(i)} \cup DOMAIN clients |-> IF k \in DOMAIN clients THEN clients[k] ELSE Client(i)]

\* The client is saved and inserted.
Save ==
  /\ pc = "save"
  /\ files' = Stored(Path(i), got[i])
  /\ saved' = [saved EXCEPT ![Key(i)] = got[i]]
  /\ clients' = Inserted
  /\ i' = i + 1
  /\ pc' = "setup"
  /\ UNCHANGED <<granted, made, setup, work, runs, faults, bad, trusted, result>>

\* The file cannot be opened, or not be written to the end.
SpoilFile(k, p) ==
  \/ UNCHANGED <<files, saved>>
  \/ files' = Stored(p, Broken) /\ saved' = [saved EXCEPT ![k] = Fresh]

SaveFail ==
  /\ pc = "save"
  /\ SpoilFile(Key(i), Path(i))
  /\ Skip
  /\ Fault
  /\ UNCHANGED <<granted, made, setup, clients, work, runs, trusted, result>>

SetUpDone ==
  /\ pc = "setup" /\ i > Len(configs)
  /\ pc' = "command"
  /\ UNCHANGED <<outside, setup, i, clients, work, runs, faults, bad, saved, trusted,
                 result>>

-----------------------------------------------------------------------------
(* A command that works on rows, content or interact, and the shutdown.    *)

\* Mutants: rows of accounts that are not there are not left out; `insert` for
\* `push`.
JobsOf_All(R) ==
  [k \in {k \in Keys : \E c \in R : AppOf[c] = k} |-> {c \in R : AppOf[c] = k}]
JobsOf_One(R) ==
  [k \in {k \in DOMAIN clients : \E c \in R : AppOf[c] = k} |->
    {CHOOSE c \in R : AppOf[c] = k}]

\* channels_by_id, peers_by_id: the rows of each client; rows of a key without
\* a client are left out.
JobsOf(R) ==
  [k \in {k \in DOMAIN clients : \E c \in R : AppOf[c] = k} |->
    {c \in R : AppOf[c] = k}]

\* The rows that the command line asks for: all if it names none, which only
\* content allows.
Retained(filt) == IF filt = {} THEN Channels ELSE Channels \cap filt

\* They are read and divided.
Dispatch(filt) ==
  /\ pc = "command"
  /\ wanted' = Retained(filt)
  /\ jobs' = JobsOf(wanted')
  /\ pc' = "work"
  /\ UNCHANGED <<outside, setup, i, clients, left, served, unsaved, runs, faults, bad,
                 saved, trusted, result>>

\* A future of one client takes its next row (fetch_content, interact_bot).
Serve(k, c) ==
  /\ pc = "work"
  /\ c \in jobs[k]
  /\ jobs' = [jobs EXCEPT ![k] = @ \ {c}]
  /\ served' = served \cup {<<k, c>>}
  /\ UNCHANGED <<outside, setup, pc, i, clients, left, wanted, unsaved, runs, faults,
                 bad, saved, trusted, result>>

\* join_all is done: on to the shutdown.
ServedAll ==
  /\ pc = "work"
  /\ \A k \in DOMAIN jobs : jobs[k] = {}
  /\ left' = DOMAIN clients
  /\ pc' = "shutdown"
  /\ UNCHANGED <<outside, setup, i, clients, jobs, served, wanted, unsaved, runs, faults,
                 bad, saved, trusted, result>>

\* get_connection or a query fails and is returned by `?`, or a row panics
\* (telegram.rs 205): nothing is saved.
CommandFail ==
  /\ pc \in {"command", "work"}
  /\ pc' = "ended" /\ result' = "err"
  /\ Fault
  /\ UNCHANGED <<outside, setup, i, clients, work, runs, bad, saved, trusted>>

\* Mutant: a client is not saved a second time.
FinalSave_Skips(k) ==
  /\ pc = "shutdown" /\ k \in left
  /\ left' = left \ {k}
  /\ UNCHANGED <<outside, setup, pc, i, clients, jobs, served, wanted, unsaved, runs,
                 faults, bad, saved, trusted, result>>

\* client-shutdown(save), in any order.
FinalSave(k) ==
  /\ pc = "shutdown" /\ k \in left
  /\ left' = left \ {k}
  /\ files' = Stored(Path(clients[k].conf), clients[k].session)
  /\ saved' = [saved EXCEPT ![k] = clients[k].session]
  /\ UNCHANGED <<granted, made, setup, pc, i, clients, jobs, served, wanted, unsaved,
                 runs, faults, bad, trusted, result>>

\* This fails: logged, and on to the next client.
FinalSaveFail(k) ==
  /\ pc = "shutdown" /\ k \in left
  /\ left' = left \ {k}
  /\ SpoilFile(k, Path(clients[k].conf))
  /\ unsaved' = unsaved \cup {k}
  /\ Fault
  /\ UNCHANGED <<granted, made, setup, pc, i, clients, jobs, served, wanted, runs, bad,
                 trusted, result>>

End ==
  /\ pc = "shutdown" /\ left = {}
  /\ pc' = "ended" /\ result' = "ok"
  /\ UNCHANGED <<outside, setup, i, clients, work, runs, faults, bad, saved, trusted>>

\* The program is killed, perhaps while it writes a file.
Crash ==
  /\ pc \in Running
  /\ \/ UNCHANGED <<files, saved>>
     \/ pc = "save" /\ SpoilFile(Key(i), Path(i))
     \/ \E k \in left : SpoilFile(k, Path(clients[k].conf))
  /\ pc' = "idle"
  /\ Fault
  /\ UNCHANGED <<granted, made, setup, i, clients, work, runs, bad, trusted, result>>

-----------------------------------------------------------------------------
\* Every start is used.
Terminated ==
  /\ pc \in Between /\ runs = MaxRuns
  /\ UNCHANGED vars

RunStep ==
  \/ \E j \in waiting : Connect(j) \/ ConnectFail(j)
  \/ Connected
  \/ SetUp
  \/ SignIn
  \/ LoginDone
  \/ LoginFail
  \/ Save
  \/ SaveFail
  \/ SetUpDone
  \/ \E filt \in SUBSET (Channels \cup {NoRow}) : Dispatch(filt)
  \/ \E k \in DOMAIN jobs : \E c \in jobs[k] : Serve(k, c)
  \/ ServedAll
  \/ CommandFail
  \/ \E k \in left : FinalSave(k) \/ FinalSaveFail(k)
  \/ End

Next ==
  \/ \E s \in granted : Revoke(s)
  \/ \E cs \in Configurations : Start(cs)
  \/ RunStep
  \/ Crash
  \/ Terminated

Spec == Init /\ [][Next]_vars

-----------------------------------------------------------------------------
(* Properties.                                                             *)

\* Every variable has its type.
TypeOK ==
  /\ \A p \in DOMAIN files : p \in Seq(Keys) /\ files[p] \in Sessions \cup {Broken}
  /\ granted \subseteq 1..made /\ made \in 0..MaxSessions
  /\ configs \in Seq(Configs) /\ DOMAIN got = DOMAIN configs
  /\ \A j \in DOMAIN got : got[j] \in Sessions \cup {Fresh, Broken}
  /\ pc \in Between \cup Running
  /\ waiting \subseteq DOMAIN configs /\ ready \subseteq DOMAIN configs \ waiting
  /\ bad \subseteq DOMAIN configs \ waiting
  /\ i \in 1..Len(configs) + 1
  /\ DOMAIN clients \subseteq Keys
  /\ \A k \in DOMAIN clients : clients[k] \in [conf : DOMAIN configs, session : Sessions]
  /\ DOMAIN jobs \subseteq DOMAIN clients /\ left \subseteq DOMAIN clients
  /\ \A k \in DOMAIN jobs : jobs[k] \subseteq wanted
  /\ runs \in 0..MaxRuns /\ faults \in 0..MaxFaults
  /\ saved \in [Keys -> Sessions \cup {Fresh}] /\ trusted \subseteq Keys
  /\ served \subseteq (DOMAIN clients) \X wanted
  /\ wanted \subseteq Channels /\ unsaved \subseteq DOMAIN clients
  /\ result \in {"none", "ok", "err"}

First(k) == {j \in DOMAIN configs \ bad :
               Key(j) = k /\ \A h \in DOMAIN configs \ bad : Key(h) = k => j <= h}

\* A configuration that cannot be loaded, signed in or saved keeps no other one
\* from its client, and the first good one of those with one session file has
\* it (client.rs 192-219).
OneClientEach ==
  pc \in {"command", "work", "shutdown"} =>
    /\ DOMAIN clients = {Key(j) : j \in DOMAIN configs \ bad}
    /\ \A k \in DOMAIN clients : clients[k].conf \in First(k)

\* Nobody is asked to sign in to an account whose session is good and was saved
\* in an earlier run, however the configurations are changed or reordered in
\* between (client.rs 173-179, 201-206).
NoSecondLogin == pc = "login" /\ ~SignedIn => Key(i) \notin trusted

\* The rows that a command was asked for are all worked on, each by the account
\* of its app_id, when that account is there (main.rs 141-151, 163-173).
EveryRowServed ==
  result = "ok" =>
    served = {<<AppOf[c], c>> : c \in {c \in wanted : AppOf[c] \in DOMAIN clients}}

\* After a good end the file of an account has the session of its client, also
\* where a client that was dropped has written to the same file (client.rs
\* 208-218, main.rs 222-226).
SavedAtEnd ==
  result = "ok" =>
    \A k \in DOMAIN clients \ unsaved : At(<<k>>) = clients[k].session
=============================================================================
