----------------------------- MODULE PingProofs -----------------------------
(***************************************************************************)
(* Proofs about Ping, for any number of accounts, keys, peers, runs and    *)
(* failures: types, the credentials in the tables, that a run without      *)
(* failures writes a row for every key that it did not leave out, and that *)
(* what runs leave out has one while nothing fails.                        *)
(***************************************************************************)
EXTENDS Ping, TLAPS

\* A future has a key exactly while it works on one, and before it records
\* anything it has resolved the peer of the key.
KeyInv ==
  \A c \in Clients :
    /\ key[c] = None <=> pc[c] \in {"pop", "returned"}
    /\ pc[c] \in {"record", "commands"} =>
         key[c] \in Known /\ <<c, Peer(c)>> \in resolved

\* What the futures and main remember was resolved by the account it names.
FoundInv ==
  /\ \A c \in Clients : \A p \in got[c] : <<c, p>> \in resolved
  /\ \A p \in Peers : found[p] # None => <<found[p], p>> \in resolved

\* Futures run only in join_all, and one returns only when no key is left.
PhaseInv ==
  /\ main # "work" => \A c \in Clients : pc[c] = "returned"
  /\ main = "work" => \A c \in Clients : pc[c] = "returned" => keys = {}

\* Without failures, what is tried as a hash is no user name.
CheckInv ==
  clean => \A c \in Clients : pc[c] = "check" => key[c] \notin Known \cap Names

\* A key that is still to be resolved, is being resolved, or whose peer is known.
Covered(k) ==
  \/ k \in keys
  \/ \E c \in Clients : key[c] = k \/ PeerOf[k] \in got[c]
  \/ found[PeerOf[k]] # None

\* A channel that was found is spelled like the key of another peer.
ShadowFound(k) == \E p \in Channels \ {PeerOf[k]} : NameOf[p] = k /\ found[p] # None

\* Where the keys of a run without failures are.
CoverInv ==
  clean => \A k \in asked \cap Known :
    /\ main = "work" => Covered(k) \/ ShadowFound(k)
    /\ main \in {"channels", "users"} => found[PeerOf[k]] # None \/ ShadowFound(k)
    /\ main = "users" => \/ found[PeerOf[k]] # None /\ PeerOf[k] \in Users
                         \/ row[PeerOf[k]] # None
                         \/ Shadowed(k)
    /\ main = "ended" => HasRow(PeerOf[k]) \/ Shadowed(k)

\* The peer of a key is about to get to the results, or is there.
Taken(k) == \E c \in Clients : PeerOf[k] \in got[c] \/ (key[c] = k /\ pc[c] = "commands")

\* Where the peers of telegram.invite are, while nothing has failed.
LeftOutInv ==
  faults = 0 => \A k \in invite :
    \/ HasRow(PeerOf[k])
    \/ main = "work" /\ Taken(k)
    \/ main = "channels" /\ found[PeerOf[k]] # None
    \/ main = "users" /\ found[PeerOf[k]] # None /\ PeerOf[k] \in Users

IInv ==
  /\ TypeOK /\ KeyInv /\ FoundInv /\ HonestCredentials
  /\ PhaseInv /\ CheckInv /\ CoverInv /\ LeftOutInv

-----------------------------------------------------------------------------
\* A key that exists has a peer.
LEMMA PeerType == \A k \in Known : PeerOf[k] \in Peers /\ k \in Keys
  BY PingAssumption

\* A failure is counted within its bound, and seen.
LEMMA FaultSeen ==
  ASSUME TypeOK, Fault
  PROVE  faults' \in 0..MaxFaults /\ faults' # 0 /\ clean' = FALSE
  BY PingAssumption DEF TypeOK, Fault

\* With or without a failure the counters keep their types; without any so far,
\* there was none before.
LEMMA FaultCounts ==
  ASSUME TypeOK, Fault \/ NoFault
  PROVE  /\ faults' \in 0..MaxFaults /\ clean' \in BOOLEAN
         /\ clean' => clean
         /\ faults' = 0 => NoFault /\ faults = 0
<1>1. faults \in 0..MaxFaults /\ clean \in BOOLEAN
  BY DEF TypeOK
<1>2. CASE Fault
  BY <1>2, FaultSeen
<1>3. CASE NoFault
  <2>1. clean' = clean /\ faults' = faults
    BY <1>3 DEF NoFault
  <2> QED
    BY <1>1, <1>3, <2>1, Zenon
<1> QED
  BY <1>2, <1>3

\* The invariant holds at the start.
LEMMA InitIInv == Init => IInv
  BY PingAssumption
  DEF Init, IInv, TypeOK, KeyInv, FoundInv, HonestCredentials, PhaseInv, CheckInv,
      CoverInv, LeftOutInv, PCs, Between

-----------------------------------------------------------------------------
(* The start and the end of a run.                                         *)

\* A run begins with every key in the list, except for what it leaves out and
\* what is spelled like a channel that fetch_channels_by_id has found.
LEMMA StartIInv ==
  ASSUME IInv, NEW known, NEW ks \in SUBSET Keys, NEW ids \in SUBSET Channels,
         NEW d \in Clients, Start(ks, ids, d, known)
  PROVE  IInv'
<1> USE PingAssumption DEF Start, CanStart, UnknownKeys, Channels
<1>1. TypeOK /\ HonestCredentials
  BY DEF IInv
<1>2. /\ asked' \subseteq Keys /\ keys' \subseteq Keys
      /\ runs' \in 0..MaxRuns
      /\ resolved' \subseteq Clients \X Peers
  BY <1>1 DEF TypeOK
<1>3. TypeOK'
  BY <1>1, <1>2 DEF TypeOK, tables, PCs, Between, Running
<1>4. KeyInv'
  BY DEF KeyInv
<1>5. FoundInv' /\ HonestCredentials'
  BY <1>1 DEF FoundInv, HonestCredentials, tables, TypeOK
<1>6. PhaseInv' /\ CheckInv'
  BY DEF PhaseInv, CheckInv
<1>7. CoverInv'
  <2> SUFFICES ASSUME NEW k \in (asked \cap Known)'
               PROVE  /\ main' = "work" => Covered(k)' \/ ShadowFound(k)'
                      /\ main' = "channels" => \/ found'[PeerOf[k]] # None
                                               \/ ShadowFound(k)'
    BY DEF CoverInv
  <2>1. k \in asked' /\ k \in Known /\ PeerOf[k] \in Peers
    OBVIOUS
  <2>2. CASE k \in keys'
    BY <2>2 DEF Covered
  <2>3. CASE k \notin keys'
    <3>1. PICK p \in ids : NameOf[p] = k
      BY <2>1, <2>3
    <3>2. found'[p] = d
      BY <3>1
    <3> QED
      BY <2>1, <3>1, <3>2 DEF Covered, ShadowFound
  <2> QED
    BY <2>2, <2>3
<1>8. LeftOutInv'
  BY DEF IInv, LeftOutInv, HasRow, tables, Between
<1> QED
  BY <1>3, <1>4, <1>5, <1>6, <1>7, <1>8 DEF IInv

\* Failures end a run, or the process, before it can say that it has ended.
LEMMA StopIInv ==
  ASSUME IInv, StartFail \/ Crash
  PROVE  IInv'
<1>1. TypeOK /\ KeyInv /\ FoundInv /\ HonestCredentials /\ PhaseInv
  BY DEF IInv
<1>2. faults' \in 0..MaxFaults /\ clean' = FALSE /\ faults' # 0
  BY <1>1, FaultSeen DEF StartFail, Crash
<1>3. CASE StartFail
  <2>1. /\ main' = "error" /\ runs' \in 0..MaxRuns
        /\ UNCHANGED <<invite, row, found, keys, pc, key, got, asked, resolved>>
    BY <1>1, <1>3, PingAssumption
    DEF TypeOK, StartFail, CanStart, tables, futures, history
  <2>2. TypeOK'
    BY <1>1, <1>2, <2>1 DEF TypeOK, Between
  <2>3. KeyInv' /\ FoundInv' /\ HonestCredentials' /\ PhaseInv'
    BY <1>1, <1>3
    DEF StartFail, CanStart, tables, futures, history, KeyInv, Peer, FoundInv,
        HonestCredentials, PhaseInv, Between
  <2> QED
    BY <1>2, <2>2, <2>3 DEF IInv, CheckInv, CoverInv, LeftOutInv
<1>4. CASE Crash
  <2>1. TypeOK'
    BY <1>1, <1>2, <1>4, PingAssumption
    DEF TypeOK, Crash, tables, history, Between, PCs
  <2>2. KeyInv' /\ FoundInv' /\ HonestCredentials' /\ PhaseInv'
    BY <1>1, <1>4
    DEF Crash, tables, history, KeyInv, FoundInv, HonestCredentials, PhaseInv
  <2> QED
    BY <1>2, <2>1, <2>2 DEF IInv, CheckInv, CoverInv, LeftOutInv
<1> QED
  BY <1>3, <1>4

-----------------------------------------------------------------------------
(* The futures.                                                            *)

\* A step of a future happens in join_all.
LEMMA FutureWorks ==
  ASSUME IInv, NEW c \in Clients, pc[c] # "returned"
  PROVE  main = "work" /\ \A d \in Clients : pc[d] = "returned" => keys = {}
  BY DEF IInv, PhaseInv

\* A client takes a key, which no other client has then.
LEMMA PopIInv ==
  ASSUME IInv, NEW c \in Clients, Pop(c)
  PROVE  IInv'
<1>1. TypeOK /\ KeyInv /\ FoundInv /\ HonestCredentials /\ CheckInv /\ CoverInv
  BY DEF IInv
<1>2. PICK k \in keys : keys' = keys \ {k} /\ key' = [key EXCEPT ![c] = k]
  BY DEF Pop
<1>3. /\ pc[c] = "pop" /\ pc' = [pc EXCEPT ![c] = "resolve"]
      /\ UNCHANGED <<invite, row, main, found, got, runs, faults, clean, asked, resolved>>
  BY DEF Pop, Goto, NoFault, tables, history
<1>4. key[c] = None /\ k \in Keys /\ k # None
  BY <1>1, <1>3, PingAssumption DEF KeyInv, TypeOK
<1>5. TypeOK'
  BY <1>1, <1>2, <1>3, <1>4, PingAssumption DEF TypeOK, PCs
<1>6. KeyInv' /\ FoundInv' /\ HonestCredentials' /\ CheckInv'
  BY <1>1, <1>2, <1>3, <1>4
  DEF KeyInv, FoundInv, HonestCredentials, CheckInv, TypeOK, Peer
<1>7. PhaseInv'
  BY <1>2, <1>3, FutureWorks DEF PhaseInv, IInv, TypeOK
<1>8. CoverInv'
  <2> SUFFICES ASSUME NEW l \in asked \cap Known, Covered(l) PROVE Covered(l)'
    BY <1>1, <1>3, FutureWorks DEF CoverInv, ShadowFound
  <2>1. CASE l = k
    BY <1>1, <1>2, <2>1 DEF Covered, TypeOK
  <2>2. CASE l # k
    <3>1. l # None
      BY PingAssumption
    <3> QED
      BY <1>1, <1>2, <1>3, <1>4, <2>2, <3>1 DEF Covered, TypeOK
  <2> QED
    BY <2>1, <2>2
<1>9. LeftOutInv'
  <2> SUFFICES ASSUME NEW l \in invite, Taken(l) PROVE Taken(l)'
    BY <1>3, FutureWorks DEF IInv, LeftOutInv, HasRow
  <2> QED
    BY <1>1, <1>2, <1>3 DEF Taken, TypeOK
<1> QED
  BY <1>5, <1>6, <1>7, <1>8, <1>9 DEF IInv

\* A client returns when no key is left.
LEMMA ReturnIInv ==
  ASSUME IInv, NEW c \in Clients, Return(c)
  PROVE  IInv'
<1>1. TypeOK /\ KeyInv /\ FoundInv /\ HonestCredentials /\ CheckInv /\ CoverInv
  BY DEF IInv
<1>2. /\ pc[c] = "pop" /\ keys = {} /\ pc' = [pc EXCEPT ![c] = "returned"]
      /\ UNCHANGED <<invite, row, main, found, keys, key, got, runs, faults, clean,
                     asked, resolved>>
  BY DEF Return, Goto, NoFault, tables, history
<1>3. TypeOK'
  BY <1>1, <1>2 DEF TypeOK, PCs
<1>4. KeyInv' /\ FoundInv' /\ HonestCredentials' /\ CheckInv'
  BY <1>1, <1>2 DEF KeyInv, FoundInv, HonestCredentials, CheckInv, TypeOK, Peer
<1>5. PhaseInv'
  BY <1>2, FutureWorks DEF PhaseInv
<1>6. CoverInv'
  BY <1>1, <1>2, FutureWorks DEF CoverInv, Covered, ShadowFound
<1>7. LeftOutInv'
  <2> SUFFICES ASSUME NEW l \in invite, Taken(l) PROVE Taken(l)'
    BY <1>2, FutureWorks DEF IInv, LeftOutInv, HasRow
  <2> QED
    BY <1>1, <1>2 DEF Taken, TypeOK
<1> QED
  BY <1>3, <1>4, <1>5, <1>6, <1>7 DEF IInv

\* A step that goes on to another place with the same key.
LEMMA GoOnIInv ==
  ASSUME IInv, NEW c \in Clients, NEW l \in {"check", "record", "commands"},
         pc[c] \notin {"pop", "returned"}, Goto(c, l), Fault \/ NoFault,
         invite' \subseteq Known, resolved \subseteq resolved',
         resolved' \subseteq Clients \X Peers,
         l # "check" => key[c] \in Known /\ <<c, Peer(c)>> \in resolved',
         l = "check" => key[c] \notin Known \cap Names \/ clean' = FALSE,
         faults' = 0 => /\ pc[c] # "commands"
                        /\ \A k \in invite' \ invite : k = key[c] /\ l = "commands",
         UNCHANGED <<row, main, found, keys, key, got, runs, asked>>
  PROVE  IInv'
<1>1. TypeOK /\ KeyInv /\ FoundInv /\ HonestCredentials /\ CheckInv /\ CoverInv
  BY DEF IInv
<1>2. /\ pc' = [pc EXCEPT ![c] = l] /\ faults' \in 0..MaxFaults
      /\ clean' \in BOOLEAN /\ (clean' => clean)
  BY <1>1, FaultCounts DEF Goto
<1>3. TypeOK'
  BY <1>1, <1>2 DEF TypeOK, PCs
<1>4. KeyInv'
  BY <1>1, <1>2 DEF KeyInv, TypeOK, Peer
<1>5. FoundInv' /\ HonestCredentials'
  BY <1>1 DEF FoundInv, HonestCredentials
<1>6. CheckInv'
  BY <1>1, <1>2 DEF CheckInv, TypeOK
<1>7. PhaseInv'
  BY <1>1, <1>2, FutureWorks DEF PhaseInv, TypeOK
<1>8. CoverInv'
  BY <1>1, <1>2, FutureWorks DEF CoverInv, Covered, ShadowFound
<1>9. LeftOutInv'
  <2> SUFFICES ASSUME faults' = 0, NEW k \in invite',
                      k \in invite => HasRow(PeerOf[k]) \/ Taken(k)
               PROVE  HasRow(PeerOf[k])' \/ Taken(k)'
    BY <1>1, FaultCounts, FutureWorks DEF IInv, LeftOutInv
  <2>1. CASE k \in invite
    BY <1>1, <1>2, <2>1 DEF Taken, HasRow, TypeOK
  <2>2. CASE k \notin invite
    BY <1>1, <1>2, <2>2 DEF Taken, TypeOK
  <2> QED
    BY <2>1, <2>2
<1> QED
  BY <1>3, <1>4, <1>5, <1>6, <1>7, <1>8, <1>9 DEF IInv

\* A step that is done with its key: the peer is among the results, or the key
\* does not exist, or something has failed.
LEMMA DoneIInv ==
  ASSUME IInv, NEW c \in Clients, pc[c] \notin {"pop", "returned"},
         NextKey(c), Fault \/ NoFault, invite' \subseteq Known,
         \/ got' = got /\ (key[c] \notin Known \/ clean' = FALSE)
         \/ /\ pc[c] \in {"record", "commands"}
            /\ got' = [got EXCEPT ![c] = @ \cup {Peer(c)}],
         faults' = 0 => \/ PeerOf[key[c]] \in got'[c] /\ invite' \subseteq invite \cup {key[c]}
                        \/ pc[c] # "commands" /\ invite' = invite,
         UNCHANGED <<row, main, found, keys, runs, asked, resolved>>
  PROVE  IInv'
<1>1. TypeOK /\ KeyInv /\ FoundInv /\ HonestCredentials /\ CheckInv /\ CoverInv
  BY DEF IInv
<1>2. /\ pc' = [pc EXCEPT ![c] = "pop"] /\ key' = [key EXCEPT ![c] = None]
      /\ faults' \in 0..MaxFaults /\ clean' \in BOOLEAN /\ (clean' => clean)
  BY <1>1, FaultCounts DEF NextKey, Goto
<1>3. \/ got' = got /\ (key[c] \notin Known \/ clean' = FALSE)
      \/ /\ got' = [got EXCEPT ![c] = got[c] \cup {PeerOf[key[c]]}]
         /\ PeerOf[key[c]] \in Peers
         /\ <<c, PeerOf[key[c]]>> \in resolved
  BY <1>1, PeerType DEF KeyInv, Peer
<1>4. /\ got' \in [Clients -> SUBSET Peers]
      /\ \A d \in Clients : got[d] \subseteq got'[d]
      /\ \A d \in Clients : \A p \in got'[d] : p \in got[d] \/ <<d, p>> \in resolved
  BY <1>1, <1>3 DEF TypeOK
<1>5. TypeOK'
  BY <1>1, <1>2, <1>4 DEF TypeOK, PCs
<1>6. KeyInv'
  BY <1>1, <1>2 DEF KeyInv, TypeOK, Peer
<1>7. FoundInv' /\ HonestCredentials'
  BY <1>1, <1>4 DEF FoundInv, HonestCredentials
<1>8. CheckInv'
  BY <1>1, <1>2 DEF CheckInv, TypeOK
<1>9. PhaseInv'
  BY <1>1, <1>2, FutureWorks DEF PhaseInv, TypeOK
<1>10. CoverInv'
  <2> SUFFICES ASSUME NEW k \in asked \cap Known, Covered(k), clean' PROVE Covered(k)'
    BY <1>1, <1>2, FutureWorks DEF CoverInv, ShadowFound
  <2>1. CASE key[c] = k
    <3>1. PeerOf[k] \in got'[c]
      BY <1>1, <1>3, <2>1 DEF TypeOK
    <3> QED
      BY <3>1 DEF Covered
  <2>2. CASE key[c] # k
    <3>1. k # None
      BY PingAssumption
    <3> QED
      BY <1>1, <1>2, <1>4, <2>2, <3>1 DEF Covered, TypeOK
  <2> QED
    BY <2>1, <2>2
<1>11. LeftOutInv'
  <2> SUFFICES ASSUME faults' = 0, NEW k \in invite',
                      k \in invite => HasRow(PeerOf[k]) \/ Taken(k)
               PROVE  HasRow(PeerOf[k])' \/ Taken(k)'
    BY <1>1, FaultCounts, FutureWorks DEF IInv, LeftOutInv
  <2>1. CASE k = key[c] /\ PeerOf[k] \in got'[c]
    BY <2>1 DEF Taken
  <2>2. CASE k \in invite /\ (k # key[c] \/ pc[c] # "commands")
    BY <1>1, <1>2, <1>4, <2>2 DEF Taken, HasRow, TypeOK
  <2> QED
    BY <2>1, <2>2
<1> QED
  BY <1>5, <1>6, <1>7, <1>8, <1>9, <1>10, <1>11 DEF IInv

\* A key is given up as a user name, or for good.
LEMMA GiveUpIInv ==
  ASSUME IInv, NEW c \in Clients, NEW l \in {"resolve", "check"},
         pc[c] \notin {"pop", "returned"}, GiveUp(c, l), Fault \/ NoFault,
         invite' \subseteq Known,
         key[c] \in Known => clean' = FALSE \/ (l = "resolve" /\ key[c] \notin Names),
         faults' = 0 => pc[c] # "commands" /\ invite' = invite,
         UNCHANGED <<row, main, found, keys, got, runs, asked, resolved>>
  PROVE  IInv'
<1>1. /\ resolved \subseteq Clients \X Peers
      /\ faults' = 0 => \A k \in invite' \ invite : FALSE
  BY DEF IInv, TypeOK
<1>2. CASE l = "resolve"
  <2>1. Goto(c, "check") /\ UNCHANGED key
    BY <1>2 DEF GiveUp
  <2> QED
    BY <1>1, <1>2, <2>1, GoOnIInv
<1>3. CASE l = "check"
  <2>1. NextKey(c)
    BY <1>3 DEF GiveUp
  <2> QED
    BY <1>3, <2>1, DoneIInv
<1> QED
  BY <1>2, <1>3

\* Every step of a future.
LEMMA FutureIInv ==
  ASSUME IInv, NEW c \in Clients, Future(c)
  PROVE  IInv'
<1>1. /\ TypeOK /\ KeyInv /\ CheckInv
      /\ invite \subseteq Known /\ resolved \subseteq Clients \X Peers
  BY DEF IInv, TypeOK
<1>2. pc[c] \in {"record", "commands"} =>
        /\ key[c] \in Known /\ <<c, Peer(c)>> \in resolved
        /\ Source(c) \in {"resolve", "check"}
  BY <1>1 DEF KeyInv, Source
<1>3. CASE Pop(c)
  BY <1>3, PopIInv
<1>4. CASE Return(c)
  BY <1>4, ReturnIInv
<1>5. CASE RequestOk(c)
  <2>1. key[c] \in Known /\ Peer(c) \in Peers
    BY <1>5, PeerType DEF RequestOk, Answers, Peer
  <2>2. /\ pc[c] \in {"resolve", "check"} /\ Goto(c, "record") /\ NoFault
        /\ resolved' = resolved \cup {<<c, Peer(c)>>}
        /\ UNCHANGED <<invite, row, main, found, keys, key, got, runs, asked>>
    BY <1>5 DEF RequestOk, tables
  <2>3. resolved' \subseteq Clients \X Peers
    BY <1>1, <2>1, <2>2
  <2> QED
    BY <1>1, <2>1, <2>2, <2>3, GoOnIInv
<1>6. CASE RequestNo(c)
  <2>1. /\ key[c] \in Known =>
             clean' = FALSE \/ (pc[c] = "resolve" /\ key[c] \notin Names)
    <3>1. CASE key[c] \in Answers(pc[c])
      BY <1>6, <3>1 DEF RequestNo, Fault
    <3>2. CASE key[c] \notin Answers(pc[c]) /\ pc[c] = "resolve"
      BY <3>2 DEF Answers
    <3>3. CASE key[c] \notin Answers(pc[c]) /\ pc[c] = "check"
      <4>1. key[c] \in Known => key[c] \in Names
        BY <3>3, PeerType DEF Answers, Keys
      <4>2. clean' \in BOOLEAN /\ (clean' => clean)
        BY <1>1, <1>6, FaultCounts DEF RequestNo
      <4> QED
        BY <1>1, <3>3, <4>1, <4>2 DEF CheckInv
    <3> QED
      BY <1>6, <3>1, <3>2, <3>3 DEF RequestNo
  <2>2. /\ GiveUp(c, pc[c]) /\ pc[c] \in {"resolve", "check"}
        /\ Fault \/ NoFault
        /\ UNCHANGED <<invite, row, main, found, keys, got, runs, asked,
                       resolved>>
    BY <1>6 DEF RequestNo, tables, history
  <2> QED
    BY <1>1, <2>1, <2>2, GiveUpIInv
<1>7. CASE Record(c)
  <2>1. /\ pc[c] = "record" /\ invite' \subseteq Known /\ NoFault
        /\ invite' = invite \cup {key[c]}
        /\ UNCHANGED <<row, main, found, keys, runs, asked, resolved>>
    BY <1>1, <1>2, <1>7 DEF Record, history
  <2>2. CASE Goto(c, "commands") /\ UNCHANGED <<key, got>>
    BY <1>1, <1>2, <2>1, <2>2, GoOnIInv
  <2>3. CASE Resolved(c)
    <3>1. PeerOf[key[c]] \in got'[c]
      BY <1>1, <2>3 DEF Resolved, Peer, TypeOK
    <3> QED
      BY <2>1, <2>3, <3>1, DoneIInv DEF Resolved
  <2> QED
    BY <1>7, <2>2, <2>3 DEF Record
<1>8. CASE RecordFail(c) \/ RecordCommandsFail(c)
  <2>1. /\ pc[c] \in {"record", "commands"} /\ GiveUp(c, Source(c)) /\ Fault
        /\ invite' \in {invite, invite \cup {key[c]}}
        /\ UNCHANGED <<row, main, found, keys, got, runs, asked, resolved>>
    BY <1>8 DEF RecordFail, RecordCommandsFail, tables, history
  <2>2. invite' \subseteq Known /\ clean' = FALSE /\ faults' # 0
    BY <1>1, <1>2, <2>1, FaultSeen
  <2> QED
    BY <1>2, <2>1, <2>2, GiveUpIInv
<1>9. CASE RecordCommands(c)
  <2>1. PeerOf[key[c]] \in got'[c]
    BY <1>1, <1>9 DEF RecordCommands, Resolved, Peer, TypeOK
  <2> QED
    BY <1>1, <1>9, <2>1, DoneIInv DEF RecordCommands, Resolved, tables, history
<1> QED
  BY <1>3, <1>4, <1>5, <1>6, <1>7, <1>8, <1>9 DEF Future

-----------------------------------------------------------------------------
(* main after join_all.                                                    *)

\* When every future has returned, no key is left, and each account's finds go
\* to the map.
LEMMA JoinIInv ==
  ASSUME IInv, Join
  PROVE  IInv'
<1>1. /\ TypeOK /\ KeyInv /\ FoundInv /\ HonestCredentials /\ PhaseInv /\ CheckInv
      /\ CoverInv
  BY DEF IInv
<1>2. /\ main = "work" /\ \A c \in Clients : pc[c] = "returned"
      /\ found' \in [Peers -> Clients \cup {None}]
      /\ main' = "channels"
      /\ UNCHANGED <<invite, row, keys, pc, key, got, runs, faults, clean, asked, resolved>>
  BY DEF Join, tables, futures, history, NoFault
<1>3. \A p \in Peers : \/ found'[p] = found[p] /\ \A c \in Clients : p \notin got[c]
                       \/ found'[p] \in Clients /\ p \in got[found'[p]]
  BY DEF Join
<1>4. TypeOK'
  BY <1>1, <1>2 DEF TypeOK, Running
<1>5. KeyInv' /\ HonestCredentials' /\ CheckInv' /\ PhaseInv'
  BY <1>1, <1>2 DEF KeyInv, Peer, HonestCredentials, CheckInv, PhaseInv
<1>6. FoundInv'
  BY <1>1, <1>2, <1>3 DEF FoundInv
<1>7. CoverInv'
  <2>0. \A p \in Peers : found[p] # None => found'[p] # None
    BY <1>3, PingAssumption
  <2> SUFFICES ASSUME NEW k \in asked \cap Known, Covered(k)
               PROVE  found'[PeerOf[k]] # None
    BY <1>1, <1>2, <2>0 DEF CoverInv, ShadowFound, Channels
  <2>1. k \notin keys
    BY <1>1, <1>2, PingAssumption DEF PhaseInv
  <2>2. \A c \in Clients : key[c] # k
    BY <1>1, <1>2, PingAssumption DEF KeyInv
  <2>3. PeerOf[k] \in Peers
    BY PeerType
  <2> QED
    BY <1>3, <2>1, <2>2, <2>3, PingAssumption DEF Covered
<1>8. LeftOutInv'
  <2> SUFFICES ASSUME NEW k \in invite, Taken(k) PROVE found'[PeerOf[k]] # None
    BY <1>2 DEF IInv, LeftOutInv, HasRow
  <2>1. PeerOf[k] \in Peers
    BY <1>1, PeerType DEF TypeOK
  <2> QED
    BY <1>2, <1>3, <2>1, PingAssumption DEF Taken
<1> QED
  BY <1>4, <1>5, <1>6, <1>7, <1>8 DEF IInv

\* A transaction takes over what was found.
LEMMA UpsertHonest ==
  ASSUME IInv, NEW ps
  PROVE  /\ Upserted(ps) \in [Peers -> Clients \cup {None}]
         /\ \A p \in Peers : Upserted(ps)[p] # None => <<Upserted(ps)[p], p>> \in resolved
         /\ \A p \in Peers : row[p] # None => Upserted(ps)[p] # None
         /\ \A p \in Peers : p \in ps /\ found[p] # None => Upserted(ps)[p] # None
  BY DEF Upserted, IInv, TypeOK, FoundInv, HonestCredentials

\* The upserts of channels and users, whatever becomes of them.
LEMMA InsertIInv ==
  ASSUME IInv, InsertChannels \/ InsertUsers
  PROVE  IInv'
<1>1. TypeOK /\ KeyInv /\ FoundInv /\ HonestCredentials /\ PhaseInv /\ CheckInv
  BY DEF IInv
<1>2. /\ main \in {"channels", "users"} /\ main' \in {"users", "ended", "error"}
      /\ row' = row \/ \E ps : row' = Upserted(ps)
      /\ Fault \/ NoFault
      /\ UNCHANGED <<invite, found, keys, pc, key, got, runs, asked, resolved>>
  BY DEF InsertChannels, InsertUsers, Insert, InsertRolledBack, InsertFail, futures,
         history
<1>3. /\ row' \in [Peers -> Clients \cup {None}]
      /\ \A p \in Peers : row'[p] # None => <<row'[p], p>> \in resolved
  BY <1>1, <1>2, UpsertHonest DEF TypeOK, HonestCredentials
<1>4. faults' \in 0..MaxFaults /\ clean' \in BOOLEAN /\ (clean' => clean)
  BY <1>1, <1>2, FaultCounts
<1>5. TypeOK'
  BY <1>1, <1>2, <1>3, <1>4 DEF TypeOK, Between, Running
<1>6. KeyInv' /\ FoundInv' /\ HonestCredentials' /\ PhaseInv' /\ CheckInv'
  BY <1>1, <1>2, <1>3, <1>4
  DEF KeyInv, Peer, FoundInv, HonestCredentials, PhaseInv, CheckInv
<1>7. ASSUME InsertChannels, main' # "error", NoFault
      PROVE  CoverInv' /\ LeftOutInv'
  <2>1. main = "channels" /\ main' = "users" /\ row' = Upserted(Channels)
    BY <1>1, <1>7 DEF InsertChannels, Insert, InsertRolledBack, InsertFail, Fault, NoFault, TypeOK
  <2>2. CoverInv'
    <3> SUFFICES ASSUME clean', NEW k \in asked \cap Known
                 PROVE  /\ found[PeerOf[k]] # None \/ ShadowFound(k)
                        /\ \/ found[PeerOf[k]] # None /\ PeerOf[k] \in Users
                           \/ row'[PeerOf[k]] # None
                           \/ Shadowed(k)'
      BY <1>2, <2>1 DEF CoverInv, ShadowFound
    <3>1. PeerOf[k] \in Peers /\ (found[PeerOf[k]] # None \/ ShadowFound(k))
      BY <1>4, <2>1, PeerType DEF IInv, CoverInv
    <3>2. \A p \in Channels : found[p] # None => row'[p] # None
      BY <2>1, UpsertHonest DEF Channels
    <3>3. ShadowFound(k) => Shadowed(k)'
      BY <3>2 DEF ShadowFound, Shadowed
    <3> QED
      BY <3>1, <3>2, <3>3 DEF Channels
  <2>3. LeftOutInv'
    <3> SUFFICES ASSUME faults = 0, NEW k \in invite
                 PROVE  HasRow(PeerOf[k])' \/ (found[PeerOf[k]] # None /\ PeerOf[k] \in Users)
      BY <1>2, <1>7, <2>1 DEF LeftOutInv, NoFault
    <3>1. /\ HasRow(PeerOf[k]) \/ found[PeerOf[k]] # None
          /\ PeerOf[k] \in Peers
      BY <1>1, <2>1, PeerType DEF IInv, LeftOutInv, TypeOK
    <3> QED
      BY <2>1, <3>1, UpsertHonest DEF HasRow, Channels
  <2> QED
    BY <2>2, <2>3
<1>8. ASSUME InsertUsers, main' # "error", NoFault
      PROVE  CoverInv' /\ LeftOutInv'
  <2>1. main = "users" /\ main' = "ended" /\ row' = Upserted(MaybeBots)
    BY <1>1, <1>8 DEF InsertUsers, Insert, InsertRolledBack, InsertFail, Fault, NoFault, TypeOK
  <2>2. \A p \in Users : p \in Peers /\ (found[p] # None => HasRow(p)')
    BY <2>1, UpsertHonest, PingAssumption DEF HasRow, MaybeBots, Users
  <2>3. \A p \in Peers : row[p] # None => row'[p] # None
    BY <2>1, UpsertHonest
  <2>4. CoverInv'
    <3> SUFFICES ASSUME clean', NEW k \in asked \cap Known
                 PROVE  HasRow(PeerOf[k])' \/ Shadowed(k)'
      BY <1>2, <2>1 DEF CoverInv
    <3>1. /\ PeerOf[k] \in Peers
          /\ \/ found[PeerOf[k]] # None /\ PeerOf[k] \in Users
             \/ row[PeerOf[k]] # None
             \/ Shadowed(k)
      BY <1>4, <2>1, PeerType DEF IInv, CoverInv
    <3> QED
      BY <2>2, <2>3, <3>1 DEF HasRow, Shadowed, Channels
  <2>5. LeftOutInv'
    <3> SUFFICES ASSUME faults = 0, NEW k \in invite PROVE HasRow(PeerOf[k])'
      BY <1>2, <1>8, <2>1 DEF LeftOutInv, NoFault
    <3>1. /\ HasRow(PeerOf[k]) \/ (found[PeerOf[k]] # None /\ PeerOf[k] \in Users)
          /\ PeerOf[k] \in Peers
      BY <1>1, <2>1, PeerType DEF IInv, LeftOutInv, TypeOK
    <3> QED
      BY <2>2, <2>3, <3>1 DEF HasRow
  <2> QED
    BY <2>4, <2>5
<1>9. ASSUME Fault
      PROVE  CoverInv' /\ LeftOutInv'
  <2>1. clean' = FALSE /\ faults' # 0
    BY <1>1, <1>9, FaultSeen
  <2> QED
    BY <2>1 DEF CoverInv, LeftOutInv
<1> QED
  <2>1. Fault \/ (NoFault /\ main' # "error")
    BY <1>2 DEF InsertChannels, InsertUsers, Insert, InsertRolledBack, InsertFail
  <2> QED
    BY <1>5, <1>6, <1>7, <1>8, <1>9, <2>1 DEF IInv

-----------------------------------------------------------------------------
\* The invariant of every behaviour.
THEOREM IInvHolds == Spec => []IInv
<1>1. IInv /\ [Next]_vars => IInv'
  <2> SUFFICES ASSUME IInv, [Next]_vars PROVE IInv'
    OBVIOUS
  <2>1. CASE UNCHANGED vars
    BY <2>1
    DEF vars, IInv, TypeOK, KeyInv, Peer, FoundInv, HonestCredentials, PhaseInv,
        CheckInv, CoverInv, Covered, ShadowFound, Shadowed, HasRow, LeftOutInv, Taken
  <2>2. ASSUME NEW known, NEW ks \in SUBSET Keys, NEW c \in Clients,
               NEW ids \in Fetchable(UnknownIds(Peers, known)),
               Start(ks, ids, c, known)
        PROVE  IInv'
    <3>1. ids \in SUBSET Channels
      BY DEF Fetchable
    <3> QED
      BY <2>2, <3>1, StartIInv
  <2> QED
    BY <2>1, <2>2, StopIInv, FutureIInv, JoinIInv, InsertIInv
    DEF Next, Main, Terminated
<1> QED
  BY InitIInv, <1>1, PTL DEF Spec

\* Types, and no key in two places (ping.rs 290).
THEOREM TypeCorrect == Spec => []TypeOK
  BY IInvHolds, PTL DEF IInv

\* A row names an account that has resolved its peer (main.rs 101-126).
THEOREM RowsAreUsable == Spec => []HonestCredentials
  BY IInvHolds, PTL DEF IInv

\* A run in which nothing fails writes a row for every existing key that it did
\* not leave out (ping.rs 289-316, main.rs 115-133).
THEOREM CleanRunsAdd == Spec => []CleanRunAdds
<1>1. IInv => CleanRunAdds
  BY PeerType
  DEF IInv, CoverInv, LeftOutInv, CleanRunAdds, AskedIsAdded, LeftOutIsThere, TypeOK
<1> QED
  BY IInvHolds, <1>1, PTL
=============================================================================
