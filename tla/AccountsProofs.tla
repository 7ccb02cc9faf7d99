--------------------------- MODULE AccountsProofs ---------------------------
(***************************************************************************)
(* Proofs about Accounts, for any number of accounts, configurations that  *)
(* change from run to run, rows, sessions, runs and failures.              *)
(***************************************************************************)
EXTENDS Accounts, TLAPS

\* Every session is one that was made; a file holds one or is broken; and a
\* configuration that is still of use has one, before it connects perhaps none.
SessionInv ==
  /\ \A p \in DOMAIN files : files[p] \in (1..made) \cup {Broken}
  /\ \A k \in Keys : saved[k] \in 0..made
  /\ \A j \in DOMAIN configs :
       /\ got[j] \in (0..made) \cup {Broken}
       /\ j \notin bad => got[j] # Broken
       /\ j \notin bad \cup waiting => got[j] # Fresh
  /\ \A k \in DOMAIN clients : clients[k].session \in 1..made

\* The file of an account holds what was saved there last, if that was not cut.
FileInv == \A k \in Keys : saved[k] # Fresh => At(<<k>>) = saved[k]

\* What each phase of a run implies; `i` is the configuration that comes next.
PhaseInv ==
  /\ pc \in Running => result = "none"
  /\ pc = "idle" => result = "none"
  /\ pc \notin {"idle", "ended", "connect"} => waiting = {}
  /\ pc = "connect" => i = 1 /\ clients = Nobody
  /\ pc \in Running => \A j \in bad \cap ready : j < i
  /\ pc \in {"login", "save"} => i \in DOMAIN configs \ bad
  /\ pc = "login" => i \notin ready
  /\ pc \in {"command", "work", "shutdown"} => i = Len(configs) + 1
  /\ pc \in {"connect", "setup", "login", "save", "command"} => served = {} /\ wanted = {}
  /\ pc \notin {"shutdown", "idle", "ended"} => left = {} /\ unsaved = {}

\* The configurations that the loop over the results is done with, and that have
\* met no failure.
SetUpSoFar == {j \in 1..i - 1 : j \notin bad}

\* Each client is the first of the good configurations so far with its key.
ClientsInv ==
  pc \in Running =>
    /\ DOMAIN clients = {Key(j) : j \in SetUpSoFar}
    /\ \A k \in DOMAIN clients :
         /\ clients[k].conf \in SetUpSoFar /\ Key(clients[k].conf) = k
         /\ \A h \in SetUpSoFar : Key(h) = k => clients[k].conf <= h

\* A session that was good when the run started is what was loaded from the file
\* of its account; and what is not signed in at once is no such session.
TrustInv ==
  /\ trusted \subseteq Keys
  /\ pc = "connect" =>
       \A j \in waiting : Key(j) \in trusted =>
         got[j] = saved[Key(j)] /\ got[j] \in granted
  /\ pc \in Running =>
       \A j \in DOMAIN configs \ (waiting \cup bad \cup ready) : Key(j) \notin trusted

\* The rows of the clients that are there.
Due == {<<AppOf[c], c>> : c \in {c \in wanted : AppOf[c] \in DOMAIN clients}}

Pending == UNION {{k} \X jobs[k] : k \in DOMAIN jobs}

\* While a command runs, they have been worked on or are still to be.
JobsInv ==
  /\ pc = "work" => served \cup Pending = Due
  /\ pc = "shutdown" \/ result = "ok" => served = Due

\* The clients that were saved at the end.
ShutdownInv ==
  /\ pc = "shutdown" => \A k \in DOMAIN clients \ (left \cup unsaved) :
                          At(<<k>>) = clients[k].session
  /\ SavedAtEnd

IInv ==
  /\ TypeOK /\ SessionInv /\ FileInv /\ PhaseInv /\ ClientsInv /\ TrustInv
  /\ JobsInv /\ ShutdownInv

-----------------------------------------------------------------------------
(* Keys, paths and files.                                                  *)

\* A configuration has a key, and its file is named by the key alone.
LEMMA KeyType ==
  ASSUME configs \in Seq(Configs), NEW j \in DOMAIN configs
  PROVE  /\ Key(j) \in Keys
         /\ Path(j) = <<Key(j)>>
<1>1. configs[j] \in Configs
  OBVIOUS
<1>2. KeyOf(configs[j]) \in Keys
  BY <1>1 DEF Configs, KeyOf
<1> QED
  BY <1>2 DEF Key, Path, PathIn

\* Writing a file changes what is at its path and nothing else.
LEMMA StoredAt ==
  ASSUME NEW p, NEW s, files' = Stored(p, s)
  PROVE  /\ At(p)' = s
         /\ \A q : q # p => At(q)' = At(q)
BY DEF Stored, At

\* What was made is within the bound.
LEMMA MadeAreSessions ==
  ASSUME TypeOK
  PROVE  /\ 1..made \subseteq Sessions
         /\ (1..made) \cup {Broken} \subseteq Sessions \cup {Broken}
         /\ 0..made \subseteq Sessions \cup {Fresh}
         /\ (0..made) \cup {Broken} \subseteq Sessions \cup {Fresh, Broken}
BY AccountsAssumption DEF TypeOK, Sessions, Fresh

\* A file holds what was loaded or made.
LEMMA AtType ==
  ASSUME TypeOK, SessionInv, NEW p
  PROVE  At(p) \in (0..made) \cup {Broken}
BY DEF TypeOK, SessionInv, At, Fresh

\* Different keys have different files.
LEMMA PathsDiffer == \A k, h \in Keys : <<k>> = <<h>> => k = h
  OBVIOUS

\* A good save: the file and the record of it agree, other accounts keep theirs.
LEMMA WriteKeeps ==
  ASSUME TypeOK, SessionInv, FileInv, made' = made,
         NEW k \in Keys, NEW s \in 1..made,
         files' = Stored(<<k>>, s), saved' = [saved EXCEPT ![k] = s]
  PROVE  /\ \A p \in DOMAIN files' : p \in Seq(Keys) /\ files'[p] \in (1..made) \cup {Broken}
         /\ saved' \in [Keys -> 0..made]
         /\ FileInv'
         /\ At(<<k>>)' = s
         /\ \A h \in Keys : h # k => At(<<h>>)' = At(<<h>>)
<1>1. <<k>> \in Seq(Keys)
  OBVIOUS
<1>2. \A p \in DOMAIN files' : p \in Seq(Keys) /\ files'[p] \in (1..made) \cup {Broken}
  BY <1>1 DEF Stored, TypeOK, SessionInv
<1>3. saved' \in [Keys -> 0..made]
  BY DEF TypeOK, SessionInv
<1>4. At(<<k>>)' = s /\ \A h \in Keys : h # k => At(<<h>>)' = At(<<h>>)
  BY StoredAt, PathsDiffer
<1>5. FileInv'
  BY <1>4 DEF FileInv, TypeOK
<1> QED
  BY <1>2, <1>3, <1>4, <1>5

\* A save that is cut, or does not happen: the record of it is gone with the file.
LEMMA SpoilKeeps ==
  ASSUME TypeOK, SessionInv, FileInv, made' = made,
         NEW k \in Keys, SpoilFile(k, <<k>>)
  PROVE  /\ \A p \in DOMAIN files' : p \in Seq(Keys) /\ files'[p] \in (1..made) \cup {Broken}
         /\ saved' \in [Keys -> 0..made]
         /\ FileInv'
         /\ \A h \in Keys : h # k => At(<<h>>)' = At(<<h>>)
<1>1. CASE UNCHANGED <<files, saved>>
  <2>1. saved \in [Keys -> 0..made]
    BY DEF TypeOK, SessionInv
  <2> QED
    BY <1>1, <2>1 DEF TypeOK, SessionInv, FileInv, At
<1>2. CASE files' = Stored(<<k>>, Broken) /\ saved' = [saved EXCEPT ![k] = Fresh]
  <2>1. <<k>> \in Seq(Keys)
    OBVIOUS
  <2>2. \A p \in DOMAIN files' : p \in Seq(Keys) /\ files'[p] \in (1..made) \cup {Broken}
    BY <1>2, <2>1 DEF Stored, TypeOK, SessionInv
  <2>3. saved' \in [Keys -> 0..made]
    BY <1>2 DEF TypeOK, SessionInv, Fresh
  <2>4. \A h \in Keys : h # k => At(<<h>>)' = At(<<h>>)
    BY <1>2, StoredAt, PathsDiffer
  <2>5. FileInv'
    BY <1>2, <2>4 DEF FileInv, TypeOK
  <2> QED
    BY <2>2, <2>3, <2>4, <2>5
<1> QED
  BY <1>1, <1>2 DEF SpoilFile

\* The invariant holds at the start.
LEMMA InitIInv == Init => IInv
  BY AccountsAssumption
  DEF Init, IInv, TypeOK, SessionInv, FileInv, PhaseInv, ClientsInv, TrustInv, JobsInv,
      ShutdownInv, SavedAtEnd, Due, Nobody, Between, Running, At, Fresh, Sessions, Configs

-----------------------------------------------------------------------------
(* Set-up.                                                                 *)

\* A session that ends elsewhere is no longer trusted.
LEMMA RevokeIInv ==
  ASSUME IInv, NEW s \in granted, Revoke(s)
  PROVE  IInv'
<1> USE AccountsAssumption DEF IInv, Revoke, Fault, outside, setup, work, Between, Running
<1>1. TypeOK'
  BY DEF TypeOK
<1>2. SessionInv'
  BY DEF SessionInv
<1>3. FileInv'
  BY DEF FileInv, At
<1>4. PhaseInv'
  BY DEF PhaseInv
<1>5. ClientsInv'
  BY DEF ClientsInv, SetUpSoFar, Key
<1>6. TrustInv'
  BY DEF TrustInv, Key
<1>7. JobsInv'
  BY DEF JobsInv, Pending, Due
<1>8. ShutdownInv'
  BY DEF ShutdownInv, SavedAtEnd, At
<1> QED
  BY <1>1, <1>2, <1>3, <1>4, <1>5, <1>6, <1>7, <1>8

\* A run loads the files of its configurations: what is trusted is there.
LEMMA StartIInv ==
  ASSUME IInv, NEW cs \in Configurations, Start(cs)
  PROVE  IInv'
<1> USE AccountsAssumption DEF IInv, Start, outside, setup, work, Between, Running
<1>0. /\ configs' = cs /\ configs' \in Seq(Configs)
      /\ \A j \in DOMAIN cs : /\ Key(j)' \in Keys
                             /\ got'[j] = At(<<Key(j)'>>)
                             /\ got'[j] \in (0..made) \cup {Broken}
  <2>1. configs' = cs /\ cs \in Seq(Configs)
    OBVIOUS
  <2> SUFFICES ASSUME NEW j \in DOMAIN cs
               PROVE  /\ Key(j)' \in Keys
                      /\ got'[j] = At(<<Key(j)'>>)
                      /\ got'[j] \in (0..made) \cup {Broken}
    BY <2>1
  <2>2. cs[j] \in Configs
    BY <2>1
  <2>3. KeyOf(cs[j]) \in Keys
    BY <2>2 DEF Configs, KeyOf
  <2>4. Key(j)' = KeyOf(cs[j]) /\ got'[j] = At(<<KeyOf(cs[j])>>)
    BY <2>1 DEF Key, PathIn
  <2> QED
    BY <2>3, <2>4, AtType
<1>1. TypeOK'
  <2>2. DOMAIN got' = DOMAIN cs
    OBVIOUS
  <2>3. \A j \in DOMAIN got' : got'[j] \in Sessions \cup {Fresh, Broken}
    BY <1>0, <2>2, MadeAreSessions
  <2>4. i' \in 1..Len(configs') + 1
    BY <1>0
  <2> QED
    BY <1>0, <2>2, <2>3, <2>4 DEF TypeOK, Nobody
<1>2. SessionInv'
  BY <1>0 DEF SessionInv, Nobody, Broken
<1>3. FileInv'
  BY DEF FileInv, At
<1>4. PhaseInv'
  BY DEF PhaseInv
<1>5. ClientsInv'
  <2>1. SetUpSoFar' = {} /\ DOMAIN clients' = {}
    BY DEF SetUpSoFar, Nobody
  <2> QED
    BY <2>1 DEF ClientsInv
<1>6. TrustInv'
  <2>1. ASSUME NEW k \in trusted'
        PROVE  k \in Keys /\ saved[k] \in granted /\ At(<<k>>) = saved[k]
    <3>1. k \in Keys /\ saved[k] \in granted
      OBVIOUS
    <3>2. saved[k] # Fresh
      BY <3>1 DEF TypeOK, Fresh
    <3> QED
      BY <3>1, <3>2 DEF FileInv
  <2>2. ASSUME NEW j \in waiting', Key(j)' \in trusted'
        PROVE  got'[j] = saved'[Key(j)'] /\ got'[j] \in granted'
    <3>1. j \in DOMAIN cs /\ granted' = granted /\ saved' = saved
      BY <1>0
    <3> QED
      BY <1>0, <2>1, <2>2, <3>1
  <2>3. trusted' \subseteq Keys /\ DOMAIN configs' \ (waiting' \cup bad') = {}
    BY <1>0
  <2> QED
    BY <2>2, <2>3 DEF TrustInv
<1>7. JobsInv'
  BY DEF JobsInv, Pending, Due
<1>8. ShutdownInv'
  BY DEF ShutdownInv, SavedAtEnd, At
<1> QED
  BY <1>1, <1>2, <1>3, <1>4, <1>5, <1>6, <1>7, <1>8

\* A client connects: a fresh session is made, a trusted one is signed in.
LEMMA ConnectIInv ==
  ASSUME IInv, NEW j \in waiting, Connect(j)
  PROVE  IInv'
<1> USE AccountsAssumption DEF IInv, Connect, outside, setup, work, Between, Running
<1>0. /\ made \in Nat /\ made' \in made..MaxSessions
      /\ j \in DOMAIN configs /\ j \notin bad
      /\ got'[j] \in 1..made'
      /\ got[j] # Fresh => got'[j] = got[j]
      /\ DOMAIN got' = DOMAIN got
      /\ \A h \in DOMAIN got : h # j => got'[h] = got[h]
  BY DEF TypeOK, SessionInv, Fresh, Broken
<1>1. TypeOK'
  <2>1. granted' \subseteq 1..made' /\ made' \in 0..MaxSessions
    BY <1>0 DEF TypeOK
  <2>2. /\ DOMAIN got' = DOMAIN configs'
        /\ \A h \in DOMAIN got' : got'[h] \in Sessions \cup {Fresh, Broken}
    BY <1>0 DEF TypeOK, Sessions
  <2>3. ready' \subseteq DOMAIN configs \ waiting'
    BY <1>0 DEF TypeOK
  <2> QED
    BY <2>1, <2>2, <2>3 DEF TypeOK
<1>2. SessionInv'
  BY <1>0 DEF SessionInv, TypeOK, Fresh, Broken
<1>3. FileInv'
  BY DEF FileInv, At
<1>4. PhaseInv'
  <2>1. bad' \cap ready' = bad \cap ready
    BY <1>0
  <2> QED
    BY <2>1 DEF PhaseInv
<1>5. ClientsInv'
  BY DEF ClientsInv, SetUpSoFar, Key
<1>6. TrustInv'
  <2>1. trusted' = trusted /\ granted' = granted /\ saved' = saved /\ \A h : Key(h)' = Key(h)
    BY DEF Key
  <2>2. \A h \in waiting' : h # j /\ h \in DOMAIN got
    BY DEF TypeOK
  <2>3. \A h \in waiting' : Key(h)' \in trusted' => got'[h] = saved'[Key(h)'] /\ got'[h] \in granted'
    BY <1>0, <2>1, <2>2 DEF TrustInv
  <2>4. Key(j) \in trusted => j \in ready'
    <3> SUFFICES ASSUME Key(j) \in trusted PROVE j \in ready'
      OBVIOUS
    <3>1. got[j] \in granted
      BY DEF TrustInv
    <3>2. got[j] # Fresh
      BY <3>1 DEF TypeOK, Fresh
    <3> QED
      BY <3>1, <3>2, <1>0
  <2>5. \A h \in DOMAIN configs \ (waiting' \cup bad' \cup ready') : Key(h) \notin trusted
    <3> SUFFICES ASSUME NEW h \in DOMAIN configs \ (waiting' \cup bad' \cup ready')
                 PROVE  Key(h) \notin trusted
      OBVIOUS
    <3>1. CASE h = j
      BY <3>1, <2>4
    <3>2. CASE h # j
      BY <3>2 DEF TrustInv
    <3> QED
      BY <3>1, <3>2
  <2> QED
    BY <2>1, <2>3, <2>5 DEF TrustInv
<1>7. JobsInv'
  BY DEF JobsInv, Pending, Due
<1>8. ShutdownInv'
  BY DEF ShutdownInv, SavedAtEnd, At
<1> QED
  BY <1>1, <1>2, <1>3, <1>4, <1>5, <1>6, <1>7, <1>8

\* One that does not connect is out, the others stay as they are.
LEMMA ConnectFailIInv ==
  ASSUME IInv, NEW j \in waiting, ConnectFail(j)
  PROVE  IInv'
<1> USE AccountsAssumption DEF IInv, ConnectFail, Fault, outside, setup, work, Between, Running
<1>1. TypeOK'
  BY DEF TypeOK
<1>2. SessionInv'
  BY DEF SessionInv
<1>3. FileInv'
  BY DEF FileInv, At
<1>4. PhaseInv'
  <2>1. bad' \cap ready' = bad \cap ready
    BY DEF TypeOK
  <2> QED
    BY <2>1 DEF PhaseInv
<1>5. ClientsInv'
  <2>1. i = 1 /\ DOMAIN clients = {}
    BY DEF PhaseInv, Nobody
  <2>2. SetUpSoFar' = {} /\ clients' = clients
    BY <2>1 DEF SetUpSoFar
  <2> QED
    BY <2>1, <2>2 DEF ClientsInv
<1>6. TrustInv'
  BY DEF TrustInv, Key
<1>7. JobsInv'
  BY DEF JobsInv, Pending, Due
<1>8. ShutdownInv'
  BY DEF ShutdownInv, SavedAtEnd, At
<1> QED
  BY <1>1, <1>2, <1>3, <1>4, <1>5, <1>6, <1>7, <1>8

\* All have been tried: the loop over the results begins.
LEMMA ConnectedIInv ==
  ASSUME IInv, Connected
  PROVE  IInv'
<1> USE AccountsAssumption DEF IInv, Connected, outside, setup, work, Between, Running
<1>1. TypeOK'
  BY DEF TypeOK
<1>2. SessionInv'
  BY DEF SessionInv
<1>3. FileInv'
  BY DEF FileInv, At
<1>4. PhaseInv'
  BY DEF PhaseInv
<1>5. ClientsInv'
  BY DEF ClientsInv, SetUpSoFar, Key
<1>6. TrustInv'
  BY DEF TrustInv, Key
<1>7. JobsInv'
  BY DEF JobsInv, Pending, Due
<1>8. ShutdownInv'
  BY DEF ShutdownInv, SavedAtEnd, At
<1> QED
  BY <1>1, <1>2, <1>3, <1>4, <1>5, <1>6, <1>7, <1>8

\* The next result is skipped, signed in or saved.
LEMMA SetUpIInv ==
  ASSUME IInv, SetUp
  PROVE  IInv'
<1> USE AccountsAssumption DEF IInv, SetUp, outside, setup, work, Between, Running
<1>1. TypeOK'
  BY DEF TypeOK
<1>2. SessionInv'
  BY DEF SessionInv
<1>3. FileInv'
  BY DEF FileInv, At
<1>4. PhaseInv'
  <2>1. i \in DOMAIN configs /\ i \in Nat /\ waiting = {}
    BY DEF PhaseInv, TypeOK
  <2>2. \A j \in bad \cap ready : j \in Nat /\ j < i
    BY DEF PhaseInv, TypeOK
  <2>3. CASE i \in bad
    <3>1. pc' = pc /\ i' = i + 1
      BY <2>1, <2>2, <2>3
    <3> QED
      BY <2>1, <2>2, <3>1 DEF PhaseInv
  <2>4. CASE i \notin bad
    <3>1. pc' \in {"login", "save"} /\ i' = i
      BY <2>4
    <3> QED
      BY <2>1, <2>2, <2>4, <3>1 DEF PhaseInv
  <2> QED
    BY <2>3, <2>4
<1>5. ClientsInv'
  <2>1. i \in Nat /\ i >= 1
    BY DEF TypeOK
  <2>2. i' = i \/ (i' = i + 1 /\ i \in bad)
    OBVIOUS
  <2>3. SetUpSoFar' = SetUpSoFar
    BY <2>1, <2>2 DEF SetUpSoFar
  <2>4. \A h : Key(h)' = Key(h)
    BY DEF Key
  <2> QED
    BY <2>3, <2>4 DEF ClientsInv
<1>6. TrustInv'
  BY DEF TrustInv, Key
<1>7. JobsInv'
  BY DEF JobsInv, Pending, Due
<1>8. ShutdownInv'
  BY DEF ShutdownInv, SavedAtEnd, At
<1> QED
  BY <1>1, <1>2, <1>3, <1>4, <1>5, <1>6, <1>7, <1>8

\* The session of the configuration in hand is signed in.
LEMMA SignInIInv ==
  ASSUME IInv, SignIn
  PROVE  IInv'
<1> USE AccountsAssumption DEF IInv, SignIn, SignedIn, outside, setup, work, Between, Running
<1>1. TypeOK'
  <2>1. i \in DOMAIN configs /\ i \notin bad \cup waiting
    BY DEF PhaseInv
  <2>2. got[i] \in 1..made
    BY <2>1 DEF SessionInv, Fresh, Broken, TypeOK
  <2> QED
    BY <2>2 DEF TypeOK
<1>2. SessionInv'
  BY DEF SessionInv
<1>3. FileInv'
  BY DEF FileInv, At
<1>4. PhaseInv'
  BY DEF PhaseInv
<1>5. ClientsInv'
  BY DEF ClientsInv, SetUpSoFar, Key
<1>6. TrustInv'
  BY DEF TrustInv, Key
<1>7. JobsInv'
  BY DEF JobsInv, Pending, Due
<1>8. ShutdownInv'
  BY DEF ShutdownInv, SavedAtEnd, At
<1> QED
  BY <1>1, <1>2, <1>3, <1>4, <1>5, <1>6, <1>7, <1>8

\* Signed in, it goes on to be saved.
LEMMA LoginDoneIInv ==
  ASSUME IInv, LoginDone
  PROVE  IInv'
<1> USE AccountsAssumption DEF IInv, LoginDone, SignedIn, outside, setup, work, Between, Running
<1>1. TypeOK'
  BY DEF TypeOK
<1>2. SessionInv'
  BY DEF SessionInv
<1>3. FileInv'
  BY DEF FileInv, At
<1>4. PhaseInv'
  BY DEF PhaseInv
<1>5. ClientsInv'
  BY DEF ClientsInv, SetUpSoFar, Key
<1>6. TrustInv'
  BY DEF TrustInv, Key
<1>7. JobsInv'
  BY DEF JobsInv, Pending, Due
<1>8. ShutdownInv'
  BY DEF ShutdownInv, SavedAtEnd, At
<1> QED
  BY <1>1, <1>2, <1>3, <1>4, <1>5, <1>6, <1>7, <1>8

\* Without a login the configuration is skipped.
LEMMA LoginFailIInv ==
  ASSUME IInv, LoginFail
  PROVE  IInv'
<1> USE AccountsAssumption DEF IInv, LoginFail, Fault, Skip, outside, setup, work, Between, Running
<1>0. /\ i \in DOMAIN configs /\ i \notin bad /\ waiting = {}
      /\ i \in 1..Len(configs)
      /\ bad' = bad \cup {i} /\ i' = i + 1
  BY DEF PhaseInv, TypeOK
<1>1. TypeOK'
  <2>1. i' \in 1..Len(configs) + 1 /\ bad' \subseteq DOMAIN configs \ waiting
    BY <1>0 DEF TypeOK
  <2> QED
    BY <2>1 DEF TypeOK
<1>2. SessionInv'
  BY DEF SessionInv
<1>3. FileInv'
  BY DEF FileInv, At
<1>4. PhaseInv'
  <2>1. \A j \in bad' \cap ready' : j < i'
    BY <1>0 DEF PhaseInv, TypeOK
  <2>2. pc' = "setup" /\ result' = result /\ pc \in {"login", "save"}
    OBVIOUS
  <2> QED
    BY <2>1, <2>2 DEF PhaseInv
<1>5. ClientsInv'
  <2>1. SetUpSoFar' = SetUpSoFar
    BY <1>0 DEF SetUpSoFar
  <2>2. \A h : Key(h)' = Key(h)
    BY DEF Key
  <2> QED
    BY <2>1, <2>2 DEF ClientsInv
<1>6. TrustInv'
  BY DEF TrustInv, Key
<1>7. JobsInv'
  BY DEF JobsInv, Pending, Due
<1>8. ShutdownInv'
  BY DEF ShutdownInv, SavedAtEnd, At
<1> QED
  BY <1>1, <1>2, <1>3, <1>4, <1>5, <1>6, <1>7, <1>8

\* A client is saved and takes its key, if no earlier one has it.
LEMMA SaveIInv ==
  ASSUME IInv, Save
  PROVE  IInv'
<1> USE AccountsAssumption DEF IInv, Save, outside, setup, work, Between, Running
<1>0. /\ i \in DOMAIN configs /\ i \notin bad /\ waiting = {}
      /\ i \in 1..Len(configs) /\ i' = i + 1
      /\ Key(i) \in Keys /\ Path(i) = <<Key(i)>>
      /\ got[i] \in 1..made /\ made' = made
  <2>1. i \in DOMAIN configs /\ i \notin bad /\ waiting = {}
    BY DEF PhaseInv
  <2>2. i \in 1..Len(configs) /\ Key(i) \in Keys /\ Path(i) = <<Key(i)>>
    BY <2>1, KeyType DEF TypeOK
  <2>3. got[i] \in 1..made
    BY <2>1 DEF SessionInv, TypeOK, Fresh, Broken
  <2> QED
    BY <2>1, <2>2, <2>3
<1>9. /\ \A p \in DOMAIN files' : p \in Seq(Keys) /\ files'[p] \in (1..made) \cup {Broken}
      /\ saved' \in [Keys -> 0..made]
      /\ FileInv'
  BY <1>0, WriteKeeps
<1>10. /\ DOMAIN clients' = DOMAIN clients \cup {Key(i)}
       /\ \A k \in DOMAIN clients : clients'[k] = clients[k]
       /\ Key(i) \notin DOMAIN clients => clients'[Key(i)] = [conf |-> i, session |-> got[i]]
  BY DEF Inserted, Client
<1>1. TypeOK'
  <2>1. /\ \A p \in DOMAIN files' : p \in Seq(Keys) /\ files'[p] \in Sessions \cup {Broken}
        /\ saved' \in [Keys -> Sessions \cup {Fresh}]
    BY <1>9, MadeAreSessions
  <2>2. i' \in 1..Len(configs') + 1
    BY <1>0 DEF TypeOK
  <2>3. [conf |-> i, session |-> got[i]] \in [conf : DOMAIN configs, session : Sessions]
    BY <1>0, MadeAreSessions
  <2>4. /\ DOMAIN clients' \subseteq Keys
        /\ \A k \in DOMAIN clients' :
             clients'[k] \in [conf : DOMAIN configs, session : Sessions]
    BY <1>0, <1>10, <2>3 DEF TypeOK
  <2>5. UNCHANGED <<granted, made, configs, waiting, got, ready, jobs, left, served, wanted,
                    unsaved, runs, faults, bad, trusted, result>>
    OBVIOUS
  <2> QED
    BY <1>10, <2>1, <2>2, <2>4, <2>5 DEF TypeOK
<1>2. SessionInv'
  <2>1. \A k \in DOMAIN clients' : clients'[k].session \in 1..made
    BY <1>0, <1>10 DEF SessionInv
  <2> QED
    BY <1>0, <1>9, <2>1 DEF SessionInv
<1>3. FileInv'
  BY <1>9
<1>4. PhaseInv'
  <2>1. \A j \in bad' \cap ready' : j < i'
    BY <1>0 DEF PhaseInv, TypeOK
  <2>2. pc' = "setup" /\ result' = result /\ pc \in {"login", "save"}
    OBVIOUS
  <2> QED
    BY <2>1, <2>2 DEF PhaseInv
<1>5. ClientsInv'
  <2>1. SetUpSoFar' = SetUpSoFar \cup {i} /\ \A h \in SetUpSoFar : h < i
    BY <1>0 DEF SetUpSoFar
  <2>2. \A h : Key(h)' = Key(h)
    BY DEF Key
  <2>3. DOMAIN clients' = {Key(j) : j \in SetUpSoFar \cup {i}}
    BY <1>10 DEF ClientsInv
  <2>4. ASSUME NEW k \in DOMAIN clients'
        PROVE  /\ clients'[k].conf \in SetUpSoFar' /\ Key(clients'[k].conf) = k
               /\ \A h \in SetUpSoFar' : Key(h) = k => clients'[k].conf <= h
    <3>1. CASE k \in DOMAIN clients
      <4>1. /\ clients'[k] = clients[k]
            /\ clients[k].conf \in SetUpSoFar /\ Key(clients[k].conf) = k
            /\ \A h \in SetUpSoFar : Key(h) = k => clients[k].conf <= h
        BY <1>10, <3>1 DEF ClientsInv
      <4>2. clients[k].conf \in Nat /\ clients[k].conf <= i
        BY <1>0, <2>1, <4>1 DEF SetUpSoFar
      <4> QED
        BY <2>1, <4>1, <4>2
    <3>2. CASE k \notin DOMAIN clients
      <4>1. k = Key(i) /\ clients'[k].conf = i
        BY <1>10, <3>2
      <4>2. \A h \in SetUpSoFar : Key(h) # k
        BY <3>2 DEF ClientsInv
      <4> QED
        BY <1>0, <2>1, <4>1, <4>2
    <3> QED
      BY <3>1, <3>2
  <2> QED
    BY <2>1, <2>2, <2>3, <2>4 DEF ClientsInv
<1>6. TrustInv'
  BY DEF TrustInv, Key
<1>7. JobsInv'
  BY DEF JobsInv, PhaseInv
<1>8. ShutdownInv'
  BY DEF ShutdownInv, SavedAtEnd, PhaseInv
<1> QED
  BY <1>1, <1>2, <1>3, <1>4, <1>5, <1>6, <1>7, <1>8

\* A client that cannot be saved is skipped, and its file may be broken.
LEMMA SaveFailIInv ==
  ASSUME IInv, SaveFail
  PROVE  IInv'
<1> USE AccountsAssumption DEF IInv, SaveFail, Fault, Skip, outside, setup, work, Between, Running
<1>0. /\ i \in DOMAIN configs /\ i \notin bad /\ waiting = {}
      /\ i \in 1..Len(configs) /\ i' = i + 1 /\ bad' = bad \cup {i}
      /\ Key(i) \in Keys /\ Path(i) = <<Key(i)>>
  <2>1. i \in DOMAIN configs /\ i \notin bad /\ waiting = {}
    BY DEF PhaseInv
  <2>2. i \in 1..Len(configs) /\ Key(i) \in Keys /\ Path(i) = <<Key(i)>>
    BY <2>1, KeyType DEF TypeOK
  <2> QED
    BY <2>1, <2>2
<1>9. /\ \A p \in DOMAIN files' : p \in Seq(Keys) /\ files'[p] \in (1..made) \cup {Broken}
      /\ saved' \in [Keys -> 0..made]
      /\ FileInv'
  BY <1>0, SpoilKeeps
<1>1. TypeOK'
  <2>1. /\ \A p \in DOMAIN files' : p \in Seq(Keys) /\ files'[p] \in Sessions \cup {Broken}
        /\ saved' \in [Keys -> Sessions \cup {Fresh}]
    BY <1>9, MadeAreSessions
  <2>2. i' \in 1..Len(configs') + 1 /\ bad' \subseteq DOMAIN configs \ waiting
    BY <1>0 DEF TypeOK
  <2> QED
    BY <2>1, <2>2 DEF TypeOK
<1>2. SessionInv'
  BY <1>0, <1>9 DEF SessionInv
<1>3. FileInv'
  BY <1>9
<1>4. PhaseInv'
  <2>1. \A j \in bad' \cap ready' : j < i'
    BY <1>0 DEF PhaseInv, TypeOK
  <2>2. pc' = "setup" /\ result' = result /\ pc \in {"login", "save"}
    OBVIOUS
  <2> QED
    BY <2>1, <2>2 DEF PhaseInv
<1>5. ClientsInv'
  <2>1. SetUpSoFar' = SetUpSoFar
    BY <1>0 DEF SetUpSoFar
  <2>2. \A h : Key(h)' = Key(h)
    BY DEF Key
  <2> QED
    BY <2>1, <2>2 DEF ClientsInv
<1>6. TrustInv'
  BY DEF TrustInv, Key
<1>7. JobsInv'
  BY DEF JobsInv, Pending, Due
<1>8. ShutdownInv'
  BY DEF ShutdownInv, SavedAtEnd, PhaseInv
<1> QED
  BY <1>1, <1>2, <1>3, <1>4, <1>5, <1>6, <1>7, <1>8

\* Every configuration has been dealt with.
LEMMA SetUpDoneIInv ==
  ASSUME IInv, SetUpDone
  PROVE  IInv'
<1> USE AccountsAssumption DEF IInv, SetUpDone, outside, setup, work, Between, Running
<1>1. TypeOK'
  BY DEF TypeOK
<1>2. SessionInv'
  BY DEF SessionInv
<1>3. FileInv'
  BY DEF FileInv, At
<1>4. PhaseInv'
  <2>1. i = Len(configs) + 1
    BY DEF TypeOK
  <2> QED
    BY <2>1 DEF PhaseInv
<1>5. ClientsInv'
  BY DEF ClientsInv, SetUpSoFar, Key
<1>6. TrustInv'
  BY DEF TrustInv, Key
<1>7. JobsInv'
  BY DEF JobsInv, Pending, Due
<1>8. ShutdownInv'
  BY DEF ShutdownInv, SavedAtEnd, At
<1> QED
  BY <1>1, <1>2, <1>3, <1>4, <1>5, <1>6, <1>7, <1>8

\* The rows of the clients that are there are due.
LEMMA DispatchIInv ==
  ASSUME IInv, NEW filt, Dispatch(filt)
  PROVE  IInv'
<1> USE AccountsAssumption DEF IInv, Dispatch, Retained, outside, setup, work, Between, Running
<1>0. wanted' \subseteq Channels
  BY DEF Retained
<1>1. TypeOK'
  <2>1. /\ DOMAIN jobs' \subseteq DOMAIN clients
        /\ \A k \in DOMAIN jobs' : jobs'[k] \subseteq wanted'
    BY DEF JobsOf
  <2>2. served' = {} /\ left' = {} /\ unsaved' = {}
    BY DEF PhaseInv
  <2> QED
    BY <1>0, <2>1, <2>2 DEF TypeOK
<1>2. SessionInv'
  BY DEF SessionInv
<1>3. FileInv'
  BY DEF FileInv, At
<1>4. PhaseInv'
  BY DEF PhaseInv
<1>5. ClientsInv'
  BY DEF ClientsInv, SetUpSoFar, Key
<1>6. TrustInv'
  BY DEF TrustInv, Key
<1>7. JobsInv'
  <2>1. served' = {} /\ DOMAIN clients \subseteq Keys
    BY DEF PhaseInv, TypeOK
  <2>2. DOMAIN jobs' = {k \in DOMAIN clients : \E c \in wanted' : AppOf[c] = k}
    BY DEF JobsOf
  <2>3. \A k \in DOMAIN jobs' : jobs'[k] = {c \in wanted' : AppOf[c] = k}
    BY DEF JobsOf
  <2>4. Pending' = Due'
    <3>1. ASSUME NEW x \in Pending' PROVE x \in Due'
      <4>1. PICK k \in DOMAIN jobs' : x \in {k} \X jobs'[k]
        BY DEF Pending
      <4>2. PICK c \in jobs'[k] : x = <<k, c>>
        BY <4>1
      <4>3. k \in DOMAIN clients
        BY <2>2, <4>1
      <4>4. c \in wanted' /\ AppOf[c] = k
        BY <2>3, <4>1, <4>2
      <4> QED
        BY <4>2, <4>3, <4>4 DEF Due
    <3>2. ASSUME NEW x \in Due' PROVE x \in Pending'
      <4>1. PICK c \in wanted' : AppOf[c] \in DOMAIN clients /\ x = <<AppOf[c], c>>
        BY DEF Due
      <4>2. AppOf[c] \in DOMAIN jobs' /\ c \in jobs'[AppOf[c]]
        BY <2>2, <2>3, <4>1
      <4>3. x \in {AppOf[c]} \X jobs'[AppOf[c]]
        BY <4>1, <4>2
      <4> QED
        BY <4>2, <4>3 DEF Pending
    <3> QED
      BY <3>1, <3>2
  <2>5. pc' = "work" /\ result' # "ok"
    BY DEF PhaseInv
  <2> QED
    BY <2>1, <2>4, <2>5 DEF JobsInv
<1>8. ShutdownInv'
  BY DEF ShutdownInv, SavedAtEnd, At
<1> QED
  BY <1>1, <1>2, <1>3, <1>4, <1>5, <1>6, <1>7, <1>8

\* A row goes from those that are to be worked on to those that were.
LEMMA ServeIInv ==
  ASSUME IInv, NEW k \in DOMAIN jobs, NEW c \in jobs[k], Serve(k, c)
  PROVE  IInv'
<1> USE AccountsAssumption DEF IInv, Serve, outside, setup, work, Between, Running
<1>1. TypeOK'
  BY DEF TypeOK
<1>2. SessionInv'
  BY DEF SessionInv
<1>3. FileInv'
  BY DEF FileInv, At
<1>4. PhaseInv'
  BY DEF PhaseInv
<1>5. ClientsInv'
  BY DEF ClientsInv, SetUpSoFar, Key
<1>6. TrustInv'
  BY DEF TrustInv, Key
<1>7. JobsInv'
  BY DEF JobsInv, Pending, Due
<1>8. ShutdownInv'
  BY DEF ShutdownInv, SavedAtEnd, At
<1> QED
  BY <1>1, <1>2, <1>3, <1>4, <1>5, <1>6, <1>7, <1>8

\* No row is left: those that were due have been served.
LEMMA ServedAllIInv ==
  ASSUME IInv, ServedAll
  PROVE  IInv'
<1> USE AccountsAssumption DEF IInv, ServedAll, outside, setup, work, Between, Running
<1>1. TypeOK'
  BY DEF TypeOK
<1>2. SessionInv'
  BY DEF SessionInv
<1>3. FileInv'
  BY DEF FileInv, At
<1>4. PhaseInv'
  BY DEF PhaseInv
<1>5. ClientsInv'
  BY DEF ClientsInv, SetUpSoFar, Key
<1>6. TrustInv'
  BY DEF TrustInv, Key
<1>7. JobsInv'
  BY DEF JobsInv, Pending, Due
<1>8. ShutdownInv'
  BY DEF ShutdownInv, SavedAtEnd, At
<1> QED
  BY <1>1, <1>2, <1>3, <1>4, <1>5, <1>6, <1>7, <1>8

\* A command that fails ends the run without a result to speak of.
LEMMA CommandFailIInv ==
  ASSUME IInv, CommandFail
  PROVE  IInv'
<1> USE AccountsAssumption DEF IInv, CommandFail, Fault, outside, setup, work, Between, Running
<1>1. TypeOK'
  BY DEF TypeOK
<1>2. SessionInv'
  BY DEF SessionInv
<1>3. FileInv'
  BY DEF FileInv, At
<1>4. PhaseInv'
  BY DEF PhaseInv
<1>5. ClientsInv'
  BY DEF ClientsInv, SetUpSoFar, Key
<1>6. TrustInv'
  BY DEF TrustInv, Key
<1>7. JobsInv'
  BY DEF JobsInv, Pending, Due
<1>8. ShutdownInv'
  BY DEF ShutdownInv, SavedAtEnd, At
<1> QED
  BY <1>1, <1>2, <1>3, <1>4, <1>5, <1>6, <1>7, <1>8

\* A client is saved again, in the file of its own key.
LEMMA FinalSaveIInv ==
  ASSUME IInv, NEW k \in left, FinalSave(k)
  PROVE  IInv'
<1> USE AccountsAssumption DEF IInv, FinalSave, outside, setup, work, Between, Running
<1>0. /\ k \in Keys /\ k \in DOMAIN clients
      /\ Path(clients[k].conf) = <<k>>
      /\ clients[k].session \in 1..made
  <2>1. k \in Keys /\ k \in DOMAIN clients
    BY DEF TypeOK
  <2>2. clients[k].conf \in DOMAIN configs /\ Key(clients[k].conf) = k
    BY <2>1 DEF ClientsInv, TypeOK
  <2>3. Path(clients[k].conf) = <<k>>
    BY <2>2, KeyType DEF TypeOK
  <2> QED
    BY <2>1, <2>3 DEF SessionInv
<1>9. /\ \A p \in DOMAIN files' : p \in Seq(Keys) /\ files'[p] \in (1..made) \cup {Broken}
      /\ saved' \in [Keys -> 0..made]
      /\ FileInv'
      /\ At(<<k>>)' = clients[k].session
      /\ \A h \in Keys : h # k => At(<<h>>)' = At(<<h>>)
  BY <1>0, WriteKeeps
<1>1. TypeOK'
  <2>1. /\ \A p \in DOMAIN files' : p \in Seq(Keys) /\ files'[p] \in Sessions \cup {Broken}
        /\ saved' \in [Keys -> Sessions \cup {Fresh}]
    BY <1>9, MadeAreSessions
  <2> QED
    BY <1>0, <2>1 DEF TypeOK
<1>2. SessionInv'
  BY <1>9 DEF SessionInv
<1>3. FileInv'
  BY <1>9
<1>4. PhaseInv'
  BY DEF PhaseInv
<1>5. ClientsInv'
  BY DEF ClientsInv, SetUpSoFar, Key
<1>6. TrustInv'
  BY DEF TrustInv, Key
<1>7. JobsInv'
  BY DEF JobsInv, Pending, Due
<1>8. ShutdownInv'
  <2>1. DOMAIN clients \subseteq Keys /\ clients' = clients /\ pc' = "shutdown" /\ result' # "ok"
    BY DEF TypeOK, PhaseInv
  <2>2. \A h \in DOMAIN clients \ (left' \cup unsaved') : At(<<h>>)' = clients[h].session
    BY <1>9, <2>1 DEF ShutdownInv
  <2> QED
    BY <2>1, <2>2 DEF ShutdownInv, SavedAtEnd
<1> QED
  BY <1>1, <1>2, <1>3, <1>4, <1>5, <1>6, <1>7, <1>8

\* One that cannot be saved counts as unsaved, the other files stay.
LEMMA FinalSaveFailIInv ==
  ASSUME IInv, NEW k \in left, FinalSaveFail(k)
  PROVE  IInv'
<1> USE AccountsAssumption DEF IInv, FinalSaveFail, Fault, outside, setup, work, Between, Running
<1>0. /\ k \in Keys /\ k \in DOMAIN clients
      /\ Path(clients[k].conf) = <<k>>
      /\ clients[k].session \in 1..made
  <2>1. k \in Keys /\ k \in DOMAIN clients
    BY DEF TypeOK
  <2>2. clients[k].conf \in DOMAIN configs /\ Key(clients[k].conf) = k
    BY <2>1 DEF ClientsInv, TypeOK
  <2>3. Path(clients[k].conf) = <<k>>
    BY <2>2, KeyType DEF TypeOK
  <2> QED
    BY <2>1, <2>3 DEF SessionInv
<1>9. /\ \A p \in DOMAIN files' : p \in Seq(Keys) /\ files'[p] \in (1..made) \cup {Broken}
      /\ saved' \in [Keys -> 0..made]
      /\ FileInv'
      /\ \A h \in Keys : h # k => At(<<h>>)' = At(<<h>>)
  BY <1>0, SpoilKeeps
<1>1. TypeOK'
  <2>1. /\ \A p \in DOMAIN files' : p \in Seq(Keys) /\ files'[p] \in Sessions \cup {Broken}
        /\ saved' \in [Keys -> Sessions \cup {Fresh}]
    BY <1>9, MadeAreSessions
  <2> QED
    BY <1>0, <2>1 DEF TypeOK
<1>2. SessionInv'
  BY <1>9 DEF SessionInv
<1>3. FileInv'
  BY <1>9
<1>4. PhaseInv'
  BY DEF PhaseInv
<1>5. ClientsInv'
  BY DEF ClientsInv, SetUpSoFar, Key
<1>6. TrustInv'
  BY DEF TrustInv, Key
<1>7. JobsInv'
  BY DEF JobsInv, Pending, Due
<1>8. ShutdownInv'
  <2>1. DOMAIN clients \subseteq Keys /\ clients' = clients /\ pc' = "shutdown" /\ result' # "ok"
    BY DEF TypeOK, PhaseInv
  <2>2. \A h \in DOMAIN clients \ (left' \cup unsaved') : At(<<h>>)' = clients[h].session
    BY <1>9, <2>1 DEF ShutdownInv
  <2> QED
    BY <2>1, <2>2 DEF ShutdownInv, SavedAtEnd
<1> QED
  BY <1>1, <1>2, <1>3, <1>4, <1>5, <1>6, <1>7, <1>8

\* All clients have been saved or tried.
LEMMA EndIInv ==
  ASSUME IInv, End
  PROVE  IInv'
<1> USE AccountsAssumption DEF IInv, End, outside, setup, work, Between, Running
<1>1. TypeOK'
  BY DEF TypeOK
<1>2. SessionInv'
  BY DEF SessionInv
<1>3. FileInv'
  BY DEF FileInv, At
<1>4. PhaseInv'
  BY DEF PhaseInv
<1>5. ClientsInv'
  BY DEF ClientsInv, SetUpSoFar, Key
<1>6. TrustInv'
  BY DEF TrustInv, Key
<1>7. JobsInv'
  BY DEF JobsInv, Pending, Due
<1>8. ShutdownInv'
  BY DEF ShutdownInv, SavedAtEnd, At
<1> QED
  BY <1>1, <1>2, <1>3, <1>4, <1>5, <1>6, <1>7, <1>8

\* The program is killed: at most the file it was writing is broken.
LEMMA CrashIInv ==
  ASSUME IInv, Crash
  PROVE  IInv'
<1> USE AccountsAssumption DEF IInv, Crash, Fault, outside, setup, work, Between, Running
<1>9. /\ \A p \in DOMAIN files' : p \in Seq(Keys) /\ files'[p] \in (1..made) \cup {Broken}
      /\ saved' \in [Keys -> 0..made]
      /\ FileInv'
  <2>1. CASE UNCHANGED <<files, saved>>
    <3>1. saved \in [Keys -> 0..made]
      BY DEF TypeOK, SessionInv
    <3> QED
      BY <2>1, <3>1 DEF TypeOK, SessionInv, FileInv, At
  <2>2. CASE pc = "save" /\ SpoilFile(Key(i), Path(i))
    <3>1. Key(i) \in Keys /\ Path(i) = <<Key(i)>>
      BY <2>2, KeyType DEF TypeOK, PhaseInv
    <3> QED
      BY <2>2, <3>1, SpoilKeeps
  <2>3. CASE \E k \in left : SpoilFile(k, Path(clients[k].conf))
    <3>0. PICK k \in left : SpoilFile(k, Path(clients[k].conf))
      BY <2>3
    <3>1. k \in Keys /\ clients[k].conf \in DOMAIN configs /\ Key(clients[k].conf) = k
      BY DEF TypeOK, ClientsInv
    <3>2. Path(clients[k].conf) = <<k>>
      BY <3>1, KeyType DEF TypeOK
    <3> QED
      BY <3>0, <3>1, <3>2, SpoilKeeps
  <2> QED
    BY <2>1, <2>2, <2>3
<1>1. TypeOK'
  <2>1. /\ \A p \in DOMAIN files' : p \in Seq(Keys) /\ files'[p] \in Sessions \cup {Broken}
        /\ saved' \in [Keys -> Sessions \cup {Fresh}]
    BY <1>9, MadeAreSessions
  <2> QED
    BY <2>1 DEF TypeOK
<1>2. SessionInv'
  BY <1>9 DEF SessionInv
<1>3. FileInv'
  BY <1>9
<1>4. PhaseInv'
  BY DEF PhaseInv
<1>5. ClientsInv'
  BY DEF ClientsInv, SetUpSoFar, Key
<1>6. TrustInv'
  BY DEF TrustInv, Key
<1>7. JobsInv'
  BY DEF JobsInv, Pending, Due
<1>8. ShutdownInv'
  BY DEF ShutdownInv, SavedAtEnd, PhaseInv
<1> QED
  BY <1>1, <1>2, <1>3, <1>4, <1>5, <1>6, <1>7, <1>8

-----------------------------------------------------------------------------
(* The theorems.                                                           *)

\* Every step of the program, of Telegram and of its users keeps the invariant.
LEMMA NextIInv == IInv /\ [Next]_vars => IInv'
<1> SUFFICES ASSUME IInv, [Next]_vars PROVE IInv'
  OBVIOUS
<1>1. CASE RunStep
  <2>1. CASE \E j \in waiting : Connect(j) \/ ConnectFail(j)
    BY <2>1, ConnectIInv, ConnectFailIInv
  <2>2. CASE Connected \/ SetUp \/ SignIn \/ LoginDone \/ LoginFail
    BY <2>2, ConnectedIInv, SetUpIInv, SignInIInv, LoginDoneIInv, LoginFailIInv
  <2>3. CASE Save \/ SaveFail \/ SetUpDone
    BY <2>3, SaveIInv, SaveFailIInv, SetUpDoneIInv
  <2>4. CASE \E filt \in SUBSET (Channels \cup {NoRow}) : Dispatch(filt)
    BY <2>4, DispatchIInv
  <2>5. CASE \E k \in DOMAIN jobs : \E c \in jobs[k] : Serve(k, c)
    BY <2>5, ServeIInv
  <2>6. CASE ServedAll \/ CommandFail \/ End
    BY <2>6, ServedAllIInv, CommandFailIInv, EndIInv
  <2>7. CASE \E k \in left : FinalSave(k) \/ FinalSaveFail(k)
    BY <2>7, FinalSaveIInv, FinalSaveFailIInv
  <2> QED
    BY <1>1, <2>1, <2>2, <2>3, <2>4, <2>5, <2>6, <2>7 DEF RunStep
<1>2. CASE \E s \in granted : Revoke(s)
  BY <1>2, RevokeIInv
<1>3. CASE \E cs \in Configurations : Start(cs)
  BY <1>3, StartIInv
<1>4. CASE Crash
  BY <1>4, CrashIInv
<1>5. CASE UNCHANGED vars
  BY <1>5
  DEF vars, IInv, TypeOK, SessionInv, FileInv, PhaseInv, ClientsInv, SetUpSoFar, TrustInv,
      JobsInv, Pending, Due, ShutdownInv, SavedAtEnd, At, Key
<1> QED
  BY <1>1, <1>2, <1>3, <1>4, <1>5 DEF Next, Terminated

\* The invariant holds in every behaviour.
LEMMA Invariance == Spec => []IInv
BY InitIInv, NextIInv, PTL DEF Spec

(***************************************************************************)
(* Accounts keeps its types: sessions stay within those that were made,    *)
(* files, clients and rows belong to keys.                                 *)
(***************************************************************************)
THEOREM TypeCorrect == Spec => []TypeOK
<1>1. IInv => TypeOK
  BY DEF IInv
<1> QED
  BY <1>1, Invariance, PTL

(***************************************************************************)
(* Whatever configurations fail, each other one has its client, and of     *)
(* those that share a session file the first (client.rs 192-219).          *)
(***************************************************************************)
THEOREM ClientsAreThere == Spec => []OneClientEach
<1>1. IInv => OneClientEach
  <2> SUFFICES ASSUME IInv, pc \in {"command", "work", "shutdown"}
               PROVE  /\ DOMAIN clients = {Key(j) : j \in DOMAIN configs \ bad}
                      /\ \A k \in DOMAIN clients : clients[k].conf \in First(k)
    BY DEF OneClientEach
  <2>1. SetUpSoFar = DOMAIN configs \ bad
    BY DEF IInv, PhaseInv, TypeOK, SetUpSoFar
  <2> QED
    BY <2>1 DEF IInv, ClientsInv, First, Running
<1> QED
  BY <1>1, Invariance, PTL

(***************************************************************************)
(* A good session that was saved is used again, in whatever order and with *)
(* whatever neighbours its configuration comes back (client.rs 173-206).   *)
(***************************************************************************)
THEOREM SessionsAreReused == Spec => []NoSecondLogin
<1>1. IInv => NoSecondLogin
  <2> SUFFICES ASSUME IInv, pc = "login", ~SignedIn PROVE Key(i) \notin trusted
    BY DEF NoSecondLogin
  <2>1. i \in DOMAIN configs /\ i \notin bad \cup ready /\ waiting = {}
    BY DEF IInv, PhaseInv
  <2> QED
    BY <2>1 DEF IInv, TrustInv, Running
<1> QED
  BY <1>1, Invariance, PTL

(***************************************************************************)
(* A command that ends well has worked on all rows it was asked for, each  *)
(* with the client of its account (main.rs 141-151, 163-173).              *)
(***************************************************************************)
THEOREM RowsAreServed == Spec => []EveryRowServed
<1>1. IInv => EveryRowServed
  BY DEF IInv, JobsInv, Due, EveryRowServed
<1> QED
  BY <1>1, Invariance, PTL

(***************************************************************************)
(* After a good end each client that could be saved is in the file of its  *)
(* account (client.rs 208-218, main.rs 222-226).                           *)
(***************************************************************************)
THEOREM SessionsAreSaved == Spec => []SavedAtEnd
<1>1. IInv => SavedAtEnd
  BY DEF IInv, ShutdownInv
<1> QED
  BY <1>1, Invariance, PTL
=============================================================================
