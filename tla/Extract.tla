------------------------------- MODULE Extract -------------------------------
(***************************************************************************)
(* The command `telegram extract` (telegram/extract.rs, main.rs 175-186):  *)
(* it streams the stored messages, commits the links between known peers   *)
(* in batches, and appends all names it has found to a file.               *)
(*                                                                         *)
(* Beside it messages come in or are edited, and peers become known.       *)
(***************************************************************************)
EXTENDS Links

CONSTANTS
  Channels,    \* bare ids of the channels that are scraped
  MessageIds,
  PeerOf,      \* a function: the peer of each name that can become known, as folded
  Batch,       \* rows between two commits: 65536
  Capacity,    \* names that fit in the BufWriter
  Databases,   \* the possible first contents of telegram.message, and known names
  Arrivals,    \* messages that may come in or replace one later
  MaxRuns,     \* bound: how often the command is started
  MaxFaults    \* bound: how many failures a behaviour may have

Names == DOMAIN PeerOf
Peers == {PeerOf[n] : n \in Names}
Messages == [chan : Channels, id : MessageIds, text : Text]

ASSUME ExtractAssumption ==
  /\ PeerOf = [n \in Names |-> PeerOf[n]]
  /\ Batch \in Nat \ {0}
  /\ Capacity \in Nat \ {0}
  /\ Databases \subseteq (SUBSET Messages) \X (SUBSET Names)
  /\ Arrivals \subseteq Messages
  /\ MaxRuns \in Nat
  /\ MaxFaults \in Nat

VARIABLES
  \* the database
  messages,  \* telegram.message
  searched,  \* names in telegram.invite, channel and bots
  link,      \* rows <<c1, message_id, c2>> of telegram.link
  \* the file of names
  file,      \* its whole lines, names folded
  torn,      \* it ends within a line
  \* a run
  pc,        \* "open", "read", "commit", "last" (commit), "write", "drop", or
             \* between runs
  map,       \* names known when the run started
  todo,      \* the rows of the stream that are still to come
  cnt,       \* rows read, modulo Batch
  dict, es,  \* names found; links <<channel, message, name>> not committed yet
  left,      \* names of dict that are still to be written
  buffer,    \* names in the BufWriter
  \* bounds
  runs, faults,
  \* history
  texts,     \* all messages there ever were
  snapshot,  \* the rows of the stream
  wasTorn,   \* the file ended within a line when the run started
  result     \* "none", "ok", "lost" (ended well, but the last flush failed), "err"

others == <<messages, searched, texts>>
disk == <<file, torn>>
scan == <<map, todo, cnt, dict>>
writer == <<left, buffer>>
past == <<runs, snapshot, wasTorn>>
vars == <<messages, searched, link, file, torn, pc, map, todo, cnt, dict, es,
          left, buffer, runs, faults, texts, snapshot, wasTorn, result>>

Between == {"idle", "ended"}
Running == {"open", "read", "commit", "last", "write", "drop"}

Fault == faults < MaxFaults /\ faults' = faults + 1

Init ==
  /\ \E d \in Databases : messages = d[1] /\ searched = d[2]
  /\ texts = messages
  /\ link = {} /\ file = {} /\ torn = FALSE
  /\ pc = "idle" /\ map = {} /\ todo = {} /\ cnt = 0 /\ dict = {} /\ es = {}
  /\ left = {} /\ buffer = {}
  /\ runs = 0 /\ faults = 0
  /\ snapshot = {} /\ wasTorn = FALSE /\ result = "none"

-----------------------------------------------------------------------------
(* The other commands, before and during a run.                            *)

\* `telegram content` stores a message, or a newer version of one.
Store(m) ==
  /\ m \notin messages
  /\ messages' = {x \in messages : x.chan # m.chan \/ x.id # m.id} \cup {m}
  /\ texts' = texts \cup {m}
  /\ UNCHANGED <<searched, link, disk, pc, scan, es, writer, past, result, faults>>

\* `telegram ping` records a peer.
Learn(n) ==
  /\ n \notin searched
  /\ searched' = searched \cup {n}
  /\ UNCHANGED <<messages, texts, link, disk, pc, scan, es, writer, past, result, faults>>

-----------------------------------------------------------------------------
(* The run.                                                                *)

\* get_searched_peers, the file is opened, and Inspector::new.
Start ==
  /\ pc \in Between
  /\ runs < MaxRuns
  /\ runs' = runs + 1
  /\ map' = searched
  /\ dict' = {} /\ es' = {} /\ cnt' = 0 /\ left' = {} /\ buffer' = {} /\ todo' = {}
  /\ snapshot' = {} /\ wasTorn' = torn /\ result' = "none"
  /\ pc' = "open"
  /\ UNCHANGED <<others, link, disk, faults>>

End(r) == pc' = "ended" /\ result' = r

\* An error leaves the command by `?` (also in Start, which changes nothing).
Fail ==
  /\ pc \in {"open", "read"}
  /\ End("err")
  /\ Fault
  /\ UNCHANGED <<others, link, disk, scan, es, writer, past>>

\* The SELECT: a snapshot of the messages that have a 't'.
Query ==
  /\ pc = "open"
  /\ snapshot' = {m \in messages : Matches(m.text) # {}}
  /\ todo' = snapshot'
  /\ pc' = "read"
  /\ UNCHANGED <<others, link, disk, map, cnt, dict, es, writer, runs, wasTorn, result, faults>>

\* Mutant: cnt == Batch for cnt % Batch == 0.
Row_CountsOn(m) ==
  /\ pc = "read"
  /\ m \in todo
  /\ todo' = todo \ {m}
  /\ dict' = dict \cup Found(m.text)
  /\ es' = es \cup {<<m.chan, m.id, n>> : n \in Found(m.text)}
  /\ cnt' = cnt + 1
  /\ pc' = IF cnt' = Batch THEN "commit" ELSE "read"
  /\ UNCHANGED <<others, link, disk, map, writer, past, result, faults>>

\* One row of the stream, whose order is not given: inspect, and a commit after
\* each Batch of them.
Row(m) ==
  /\ pc = "read"
  /\ m \in todo
  /\ todo' = todo \ {m}
  /\ dict' = dict \cup Found(m.text)
  /\ es' = es \cup {<<m.chan, m.id, n>> : n \in Found(m.text)}
  /\ cnt' = (cnt + 1) % Batch
  /\ pc' = IF cnt' = 0 THEN "commit" ELSE "read"
  /\ UNCHANGED <<others, link, disk, map, writer, past, result, faults>>

\* Mutant: what is behind the last whole batch is not committed.
EndOfStream_Forgets ==
  /\ pc = "read" /\ todo = {}
  /\ pc' = "write" /\ left' = dict
  /\ UNCHANGED <<others, link, disk, scan, es, buffer, past, result, faults>>

\* The stream has ended: the last commit.
EndOfStream ==
  /\ pc = "read" /\ todo = {}
  /\ pc' = "last"
  /\ UNCHANGED <<others, link, disk, scan, es, writer, past, result, faults>>

\* Mutant: links of a channel to itself are kept.
Rows_Self ==
  {<<e[1], e[2], PeerOf[e[3]]>> : e \in {e \in es : e[3] \in map}}

\* The rows of a batch: links to known peers, but for those of a channel to
\* itself.
Rows ==
  {<<e[1], e[2], PeerOf[e[3]]>> :
    e \in {e \in es : e[3] \in map /\ PeerOf[e[3]] # e[1]}}

\* What a commit leads to: the next row, or the file.
AfterCommit ==
  \/ pc = "commit" /\ pc' = "read" /\ UNCHANGED left
  \/ pc = "last" /\ pc' = "write" /\ left' = dict

\* es is taken, and its rows are inserted where they are not there yet.
Commit ==
  /\ pc \in {"commit", "last"}
  /\ link' = link \cup Rows
  /\ es' = {}
  /\ AfterCommit
  /\ UNCHANGED <<others, disk, scan, buffer, past, result, faults>>

\* The statement fails, or it is executed and its answer is lost; without rows
\* there is no statement.
CommitFail ==
  /\ pc \in {"commit", "last"}
  /\ Rows # {}
  /\ link' \in {link, link \cup Rows}
  /\ es' = {}
  /\ End("err")
  /\ Fault
  /\ UNCHANGED <<others, disk, scan, writer, past>>

\* The lines of S are appended in some order: a line that the file ends in the
\* middle of spoils the first of them.  If `cut`, part of one more line follows.
AppendLines(S, cut) ==
  /\ \/ S = {} /\ UNCHANGED file
     \/ S # {} /\ ~torn /\ file' = file \cup S
     \/ torn /\ \E n \in S : file' = file \cup (S \ {n})
  /\ torn' = (cut \/ (torn /\ S = {}))

\* write_all_vectored: into the buffer, which is flushed first when it is full.
Write(n) ==
  /\ pc = "write"
  /\ n \in left
  /\ left' = left \ {n}
  /\ \/ /\ Cardinality(buffer) < Capacity
        /\ buffer' = buffer \cup {n}
        /\ UNCHANGED <<file, torn>>
     \/ /\ Cardinality(buffer) >= Capacity
        /\ AppendLines(buffer, FALSE)
        /\ buffer' = {n}
  /\ UNCHANGED <<others, link, pc, scan, es, past, result, faults>>

\* Part of the buffer reaches the file.
PartialFlush ==
  /\ \E S \in SUBSET buffer, cut \in BOOLEAN :
       /\ cut => S # buffer
       /\ AppendLines(S, cut)
  /\ buffer' = {}

\* A flush in a write fails: the error ends the command, and the drop of the
\* BufWriter may write some more.
WriteFail ==
  /\ pc = "write"
  /\ left # {}
  /\ Cardinality(buffer) >= Capacity
  /\ PartialFlush
  /\ End("err")
  /\ Fault
  /\ UNCHANGED <<others, link, scan, es, left, past>>

\* The last name has been written, and extract_content is Ok.
Written ==
  /\ pc = "write" /\ left = {}
  /\ pc' = "drop"
  /\ UNCHANGED <<others, link, disk, scan, es, writer, past, result, faults>>

\* Mutant: the process ends without a drop.
Drop_Exit ==
  /\ pc = "drop"
  /\ buffer' = {}
  /\ End("ok")
  /\ UNCHANGED <<others, link, disk, scan, es, left, past, faults>>

\* The inspector is dropped, and the BufWriter flushed.
Drop ==
  /\ pc = "drop"
  /\ AppendLines(buffer, FALSE)
  /\ buffer' = {}
  /\ End("ok")
  /\ UNCHANGED <<others, link, scan, es, left, past, faults>>

\* This flush fails, which nobody is told.
DropFail ==
  /\ pc = "drop"
  /\ buffer # {}
  /\ PartialFlush
  /\ End("lost")
  /\ Fault
  /\ UNCHANGED <<others, link, scan, es, left, past>>

\* The program is killed; what is in the buffer is gone.
Crash ==
  /\ pc \in Running
  /\ pc' = "idle"
  /\ buffer' = {}
  /\ Fault
  /\ UNCHANGED <<others, link, disk, scan, es, left, past, result>>

-----------------------------------------------------------------------------
\* Every start is used.
Terminated ==
  /\ pc \in Between /\ runs = MaxRuns
  /\ UNCHANGED vars

RunStep ==
  \/ Fail
  \/ Query
  \/ \E m \in todo : Row(m)
  \/ EndOfStream
  \/ Commit
  \/ CommitFail
  \/ \E n \in left : Write(n)
  \/ WriteFail
  \/ Written
  \/ Drop
  \/ DropFail

Next ==
  \/ \E m \in Arrivals : Store(m)
  \/ \E n \in Names : Learn(n)
  \/ Start
  \/ RunStep
  \/ Crash
  \/ Terminated

Spec == Init /\ [][Next]_vars

-----------------------------------------------------------------------------
(* Properties.                                                             *)

NamesSeen == UNION {Found(m.text) : m \in texts}

\* Every variable has its type.
TypeOK ==
  /\ messages \subseteq texts /\ texts \subseteq Messages
  /\ searched \subseteq Names
  /\ link \subseteq Channels \X MessageIds \X Peers
  /\ pc \in Between \cup Running
  /\ map \subseteq Names
  /\ todo \subseteq snapshot /\ snapshot \subseteq texts
  /\ cnt \in 0..Batch - 1
  /\ dict \subseteq NamesSeen /\ file \subseteq NamesSeen
  /\ es \subseteq Channels \X MessageIds \X dict
  /\ left \subseteq dict /\ buffer \subseteq dict
  /\ torn \in BOOLEAN /\ wasTorn \in BOOLEAN
  /\ runs \in 0..MaxRuns /\ faults \in 0..MaxFaults
  /\ result \in {"none", "ok", "lost", "err"}

\* Every link to a known peer in the rows of the stream is in the table.
Linked ==
  \A m \in snapshot : \A n \in Found(m.text) \cap map :
    PeerOf[n] # m.chan => <<m.chan, m.id, PeerOf[n]>> \in link

\* The names of a run reach the file only when all its links are committed, in
\* whole batches and the rest (extract.rs 135-147), and a run that ends well
\* has committed them, whatever earlier runs have left undone.
LinksFirst ==
  (pc \in Running /\ buffer # {}) \/ result \in {"ok", "lost"} => Linked

\* A row of the table was in a message of its channel, and leads elsewhere
\* (extract.rs 98).
HonestLinks ==
  \A l \in link :
    /\ l[3] # l[1]
    /\ \E m \in texts : /\ m.chan = l[1] /\ m.id = l[2]
                        /\ \E n \in Found(m.text) \cap Names : PeerOf[n] = l[3]

\* A run that ends well has all its names in the file, but for one if the file
\* ended within a line before; only a flush in the drop can fail unnoticed
\* (extract.rs 143-150).
FileComplete ==
  result = "ok" =>
    \/ dict \subseteq file
    \/ wasTorn /\ \E n \in dict : dict \ {n} \subseteq file

Read == snapshot \ todo

\* Each link t.me/NAME, t.me/+HASH and t.me/joinchat/HASH, in each of the domains
\* and with the name in any spelling, is found wherever it stands, if the rest is
\* in lower case and the name does not begin with joinchat (extract.rs 40-89).
EveryLinkFound == \A m \in Read : Meant(m.text) \subseteq dict

\* A name that is found stands behind the head of a link, or few bytes after it.
NothingInvented == \A n \in dict : \E m \in Read : Named(m.text, n)

\* Both: the shortcuts of the code (a jump to each 't', eight bytes, a strip of
\* joinchat) find every such link, and little else (extract.rs 39-91).
NamesRight == EveryLinkFound /\ NothingInvented
=============================================================================
