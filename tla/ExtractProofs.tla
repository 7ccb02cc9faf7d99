---------------------------- MODULE ExtractProofs ----------------------------
(***************************************************************************)
(* The safety of `telegram extract`, for every database, every size of a   *)
(* batch and of the buffer, and every number of runs and failures.  The    *)
(* first part does not look into what a message links to (Found); the      *)
(* second shows of texts of every length that Found finds the links, where *)
(* all but the name is in lower case, and little else.                     *)
(***************************************************************************)
EXTENDS Extract, SequenceTheorems, FiniteSetTheorems, TLAPS

\* A row of the stream has its links in the table, or in the batch.
LinkInv ==
  pc \in {"read", "commit", "last"} =>
    \A m \in snapshot \ todo : \A n \in Found(m.text) \cap map :
      PeerOf[n] # m.chan => \/ <<m.chan, m.id, PeerOf[n]>> \in link
                            \/ <<m.chan, m.id, n>> \in es

\* What each place of the program knows.
PhaseInv ==
  /\ pc = "open" => snapshot = {} /\ todo = {} /\ es = {} /\ dict = {}
  /\ pc \in Running => result = "none"
  /\ pc = "idle" => result = "none"
  /\ pc \in {"open", "read", "commit", "last"} => buffer = {}
  /\ pc \in {"last", "write", "drop"} => todo = {}
  /\ pc \in {"write", "drop"} \/ result \in {"ok", "lost"} => Linked
  /\ pc = "drop" => left = {}

\* The links of a batch were in messages.
EsInv ==
  \A e \in es : \E m \in texts :
    m.chan = e[1] /\ m.id = e[2] /\ e[3] \in Found(m.text)

\* Each name is still to be written, in the buffer or in the file, but for the
\* one that a torn line spoils.
FileInv ==
  /\ pc \in {"open", "read", "commit", "last"} => torn = wasTorn
  /\ pc \in {"write", "drop"} =>
       \/ ~wasTorn /\ ~torn /\ dict \subseteq left \cup buffer \cup file
       \/ wasTorn /\ torn /\ dict \subseteq left \cup buffer
       \/ wasTorn /\ ~torn /\ \E n \in dict : dict \ {n} \subseteq left \cup buffer \cup file

IInv ==
  /\ TypeOK
  /\ LinkInv
  /\ PhaseInv
  /\ EsInv
  /\ HonestLinks
  /\ FileInv
  /\ FileComplete

\* A run starts with nothing written or buffered.
LEMMA InitIInv == Init => IInv
<1> SUFFICES ASSUME Init PROVE IInv
  OBVIOUS
<1>1. PICK d \in Databases : messages = d[1] /\ searched = d[2]
  BY DEF Init
<1>2. messages \subseteq Messages /\ searched \subseteq Names
  BY <1>1, ExtractAssumption
<1>3. 0 \in 0..Batch - 1 /\ 0 \in 0..MaxRuns /\ 0 \in 0..MaxFaults
  BY ExtractAssumption
<1>4. TypeOK
  BY <1>2, <1>3 DEF Init, TypeOK, Between, Running
<1>5. LinkInv /\ PhaseInv /\ EsInv /\ HonestLinks /\ FileInv /\ FileComplete
  BY DEF Init, LinkInv, PhaseInv, EsInv, HonestLinks, FileInv, FileComplete, Running
<1> QED
  BY <1>4, <1>5 DEF IInv

(***************************************************************************)
(* What the steps do to the file.                                          *)
(***************************************************************************)
LEMMA AppendFacts ==
  ASSUME NEW S, NEW cut \in BOOLEAN, torn \in BOOLEAN, AppendLines(S, cut)
  PROVE  /\ torn' \in BOOLEAN
         /\ file \subseteq file'
         /\ file' \subseteq file \cup S
         /\ ~torn => S \subseteq file'
         /\ ~cut => torn' = (torn /\ S = {})
         /\ torn /\ S # {} => \E n \in S : S \ {n} \subseteq file'
BY DEF AppendLines

\* A flush that breaks off has written some of the buffer, perhaps with a torn line.
LEMMA PartialFlushFacts ==
  ASSUME torn \in BOOLEAN, PartialFlush
  PROVE  /\ torn' \in BOOLEAN
         /\ file' \subseteq file \cup buffer
         /\ buffer' = {}
<1>1. PICK S \in SUBSET buffer, cut \in BOOLEAN : AppendLines(S, cut)
  BY DEF PartialFlush
<1>2. torn' \in BOOLEAN /\ file' \subseteq file \cup S
  BY <1>1, AppendFacts
<1> QED
  BY <1>2 DEF PartialFlush

(***************************************************************************)
(* Types.                                                                  *)
(***************************************************************************)
LEMMA TypeStep == TypeOK /\ [Next]_vars => TypeOK'
<1> SUFFICES ASSUME TypeOK, [Next]_vars PROVE TypeOK'
  OBVIOUS
<1> USE DEF TypeOK, Between, Running
<1>1. ASSUME NEW m \in Arrivals, Store(m) PROVE TypeOK'
  <2>1. m \in Messages
    BY ExtractAssumption
  <2>2. NamesSeen \subseteq NamesSeen'
    BY <1>1 DEF Store, NamesSeen
  <2> QED
    BY <1>1, <2>1, <2>2 DEF Store, disk, scan, writer, past
<1> DEFINE Same == texts' = texts
<1>2. Same => NamesSeen' = NamesSeen
  BY DEF NamesSeen
<1> HIDE DEF Same
<1>3. ASSUME NEW n \in Names, Learn(n) PROVE TypeOK'
  <2>1. Same
    BY <1>3 DEF Learn, Same
  <2> QED
    BY <1>3, <1>2, <2>1 DEF Learn, disk, scan, writer, past
<1>4. CASE Start
  <2>1. Same
    BY <1>4 DEF Start, others, Same
  <2> QED
    BY <1>4, <1>2, <2>1, ExtractAssumption DEF Start, others, disk
<1>5. CASE Fail
  <2>1. Same
    BY <1>5 DEF Fail, others, Same
  <2> QED
    BY <1>5, <1>2, <2>1, ExtractAssumption DEF Fail, End, Fault, others, disk, scan, writer, past
<1>6. CASE Query
  <2>1. Same
    BY <1>6 DEF Query, others, Same
  <2>2. snapshot' \subseteq messages
    BY <1>6 DEF Query
  <2> QED
    BY <1>6, <1>2, <2>1, <2>2 DEF Query, others, disk, writer
<1>7. ASSUME NEW m \in todo, Row(m) PROVE TypeOK'
  <2>1. Same
    BY <1>7 DEF Row, others, Same
  <2>2. Found(m.text) \subseteq NamesSeen /\ m \in Messages
    BY DEF NamesSeen
  <2>3. m.chan \in Channels /\ m.id \in MessageIds
    BY <2>2 DEF Messages
  <2>4. es' \subseteq Channels \X MessageIds \X dict'
    BY <1>7, <2>3 DEF Row
  <2>5. cnt' \in 0..Batch - 1
    BY <1>7, ExtractAssumption DEF Row
  <2>6. dict' \subseteq NamesSeen'
    BY <1>7, <2>1, <2>2, <1>2 DEF Row
  <2> QED
    BY <1>7, <1>2, <2>1, <2>4, <2>5, <2>6 DEF Row, others, disk, writer, past
<1>8. CASE EndOfStream
  <2>1. Same
    BY <1>8 DEF EndOfStream, others, Same
  <2> QED
    BY <1>8, <1>2, <2>1 DEF EndOfStream, others, disk, scan, writer, past
<1>9. Rows \subseteq Channels \X MessageIds \X Peers
  BY DEF Rows, Peers
<1>10. CASE Commit
  <2>1. Same
    BY <1>10 DEF Commit, others, Same
  <2> QED
    BY <1>10, <1>2, <1>9, <2>1 DEF Commit, AfterCommit, others, disk, scan, past
<1>11. CASE CommitFail
  <2>1. Same
    BY <1>11 DEF CommitFail, others, Same
  <2> QED
    BY <1>11, <1>2, <1>9, <2>1, ExtractAssumption DEF CommitFail, End, Fault, others, disk, scan, writer, past
<1>12. ASSUME NEW n \in left, Write(n) PROVE TypeOK'
  <2>1. Same
    BY <1>12 DEF Write, others, Same
  <2>2. torn' \in BOOLEAN /\ file' \subseteq file \cup buffer
    <3>1. CASE UNCHANGED <<file, torn>>
      BY <3>1
    <3>2. CASE AppendLines(buffer, FALSE)
      BY <3>2, AppendFacts
    <3> QED
      BY <1>12, <3>1, <3>2 DEF Write
  <2>3. buffer' \subseteq dict
    BY <1>12 DEF Write
  <2> QED
    BY <1>12, <1>2, <2>1, <2>2, <2>3 DEF Write, others, scan, past
<1>13. CASE WriteFail
  <2>1. Same
    BY <1>13 DEF WriteFail, others, Same
  <2>2. torn' \in BOOLEAN /\ file' \subseteq file \cup buffer /\ buffer' = {}
    BY <1>13, PartialFlushFacts DEF WriteFail
  <2> QED
    BY <1>13, <1>2, <2>1, <2>2, ExtractAssumption DEF WriteFail, End, Fault, others, scan, past
<1>14. CASE Written
  <2>1. Same
    BY <1>14 DEF Written, others, Same
  <2> QED
    BY <1>14, <1>2, <2>1 DEF Written, others, disk, scan, writer, past
<1>15. CASE Drop
  <2>1. Same
    BY <1>15 DEF Drop, others, Same
  <2>2. torn' \in BOOLEAN /\ file' \subseteq file \cup buffer
    BY <1>15, AppendFacts DEF Drop
  <2> QED
    BY <1>15, <1>2, <2>1, <2>2 DEF Drop, End, others, scan, past
<1>16. CASE DropFail
  <2>1. Same
    BY <1>16 DEF DropFail, others, Same
  <2>2. torn' \in BOOLEAN /\ file' \subseteq file \cup buffer /\ buffer' = {}
    BY <1>16, PartialFlushFacts DEF DropFail
  <2> QED
    BY <1>16, <1>2, <2>1, <2>2, ExtractAssumption DEF DropFail, End, Fault, others, scan, past
<1>17. CASE Crash
  <2>1. Same
    BY <1>17 DEF Crash, others, Same
  <2> QED
    BY <1>17, <1>2, <2>1, ExtractAssumption DEF Crash, Fault, others, disk, scan, past
<1>18. CASE UNCHANGED vars
  <2>1. Same
    BY <1>18 DEF vars, Same
  <2> QED
    BY <1>18, <1>2, <2>1 DEF vars
<1> QED
  BY <1>1, <1>3, <1>4, <1>5, <1>6, <1>7, <1>8, <1>10, <1>11, <1>12, <1>13, <1>14, <1>15,
     <1>16, <1>17, <1>18 DEF Next, RunStep, Terminated

(***************************************************************************)
(* The links of the rows that were read are in the table or in the batch,  *)
(* and at the end in the table.                                            *)
(***************************************************************************)
LEMMA LinkStep ==
  TypeOK /\ LinkInv /\ PhaseInv /\ [Next]_vars => LinkInv' /\ PhaseInv'
<1> SUFFICES ASSUME TypeOK, LinkInv, PhaseInv, [Next]_vars
             PROVE  LinkInv' /\ PhaseInv'
  OBVIOUS
<1> DEFINE Kept == UNCHANGED <<snapshot, map, link>>
<1>1. Kept => Linked' = Linked
  BY DEF Linked
<1>2. link \subseteq link' /\ UNCHANGED <<snapshot, map>> /\ Linked => Linked'
  BY DEF Linked
<1> HIDE DEF Kept
<1>3. ASSUME NEW m \in Arrivals, Store(m) PROVE LinkInv' /\ PhaseInv'
  <2>1. Kept
    BY <1>3 DEF Store, scan, past, Kept
  <2> QED
    BY <1>3, <2>1, <1>1 DEF Store, disk, scan, writer, past, LinkInv, PhaseInv
<1>4. ASSUME NEW n \in Names, Learn(n) PROVE LinkInv' /\ PhaseInv'
  <2>1. Kept
    BY <1>4 DEF Learn, scan, past, Kept
  <2> QED
    BY <1>4, <2>1, <1>1 DEF Learn, disk, scan, writer, past, LinkInv, PhaseInv
<1>5. CASE Start
  BY <1>5 DEF Start, LinkInv, PhaseInv, Running
<1>6. CASE Fail
  BY <1>6 DEF Fail, End, LinkInv, PhaseInv, Running
<1>7. CASE Query
  BY <1>7 DEF Query, writer, LinkInv, PhaseInv, Running
<1>8. ASSUME NEW m \in todo, Row(m) PROVE LinkInv' /\ PhaseInv'
  <2>1. LinkInv'
    <3> SUFFICES ASSUME NEW x \in snapshot \ todo', NEW n \in Found(x.text) \cap map,
                        PeerOf[n] # x.chan
                 PROVE  \/ <<x.chan, x.id, PeerOf[n]>> \in link
                        \/ <<x.chan, x.id, n>> \in es'
      BY <1>8 DEF Row, past, LinkInv
    <3>1. CASE x = m
      BY <1>8, <3>1 DEF Row
    <3>2. CASE x # m
      BY <1>8, <3>2 DEF Row, LinkInv
    <3> QED
      BY <3>1, <3>2
  <2> QED
    BY <1>8, <2>1 DEF Row, past, writer, PhaseInv, Running
<1>9. CASE EndOfStream
  BY <1>9 DEF EndOfStream, scan, writer, past, LinkInv, PhaseInv, Running
<1>10. pc \in {"commit", "last"} /\ link' = link \cup Rows /\ UNCHANGED <<map, todo, snapshot>> =>
         \A m \in snapshot \ todo : \A n \in Found(m.text) \cap map :
           PeerOf[n] # m.chan => <<m.chan, m.id, PeerOf[n]>> \in link'
  <2> SUFFICES ASSUME pc \in {"commit", "last"}, link' = link \cup Rows,
                      NEW m \in snapshot \ todo, NEW n \in Found(m.text) \cap map,
                      PeerOf[n] # m.chan, <<m.chan, m.id, PeerOf[n]>> \notin link
               PROVE  <<m.chan, m.id, PeerOf[n]>> \in Rows
    OBVIOUS
  <2>1. <<m.chan, m.id, n>> \in es
    BY DEF LinkInv
  <2> DEFINE e == <<m.chan, m.id, n>>
  <2>2. e \in es /\ e[1] = m.chan /\ e[2] = m.id /\ e[3] = n
    BY <2>1
  <2> QED
    BY <2>2 DEF Rows
<1>11. CASE Commit
  <2>1. CASE pc = "commit"
    BY <1>10, <1>11, <2>1 DEF Commit, AfterCommit, scan, past, LinkInv, PhaseInv, Running
  <2>2. CASE pc = "last"
    <3>1. Linked'
      BY <1>10, <1>11, <2>2 DEF Commit, scan, past, PhaseInv, Linked
    <3> QED
      BY <1>11, <2>2, <3>1 DEF Commit, AfterCommit, scan, past, LinkInv, PhaseInv, Running
  <2> QED
    BY <1>11, <2>1, <2>2 DEF Commit
<1>12. CASE CommitFail
  BY <1>12 DEF CommitFail, End, LinkInv, PhaseInv, Running
<1>13. ASSUME NEW n \in left, Write(n) PROVE LinkInv' /\ PhaseInv'
  <2>1. Kept
    BY <1>13 DEF Write, scan, past, Kept
  <2> QED
    BY <1>13, <2>1, <1>1 DEF Write, scan, past, LinkInv, PhaseInv, Running
<1>14. CASE WriteFail
  BY <1>14 DEF WriteFail, End, LinkInv, PhaseInv, Running
<1>15. CASE Written
  <2>1. Kept
    BY <1>15 DEF Written, scan, past, Kept
  <2> QED
    BY <1>15, <2>1, <1>1 DEF Written, scan, writer, past, LinkInv, PhaseInv, Running
<1>16. CASE Drop
  <2>1. Kept
    BY <1>16 DEF Drop, scan, past, Kept
  <2> QED
    BY <1>16, <2>1, <1>1 DEF Drop, End, scan, past, LinkInv, PhaseInv, Running
<1>17. CASE DropFail
  <2>1. Kept
    BY <1>17 DEF DropFail, scan, past, Kept
  <2> QED
    BY <1>17, <2>1, <1>1 DEF DropFail, End, scan, past, LinkInv, PhaseInv, Running
<1>18. CASE Crash
  BY <1>18 DEF Crash, LinkInv, PhaseInv, Running
<1>19. CASE UNCHANGED vars
  <2>1. Kept
    BY <1>19 DEF vars, Kept
  <2> QED
    BY <1>19, <2>1, <1>1 DEF vars, LinkInv, PhaseInv
<1> QED
  BY <1>3, <1>4, <1>5, <1>6, <1>7, <1>8, <1>9, <1>11, <1>12, <1>13, <1>14, <1>15, <1>16,
     <1>17, <1>18, <1>19 DEF Next, RunStep, Terminated

(***************************************************************************)
(* What is in the batch or in the table was in a message.                  *)
(***************************************************************************)
LEMMA HonestStep ==
  TypeOK /\ EsInv /\ HonestLinks /\ [Next]_vars => EsInv' /\ HonestLinks'
<1> SUFFICES ASSUME TypeOK, EsInv, HonestLinks, [Next]_vars
             PROVE  EsInv' /\ HonestLinks'
  OBVIOUS
<1>1. texts \subseteq texts'
  BY DEF Next, Store, Learn, Start, RunStep, Fail, Query, Row, EndOfStream, Commit,
         CommitFail, Write, WriteFail, Written, Drop, DropFail, Crash, Terminated, vars,
         others
<1>2. es' \subseteq es => EsInv'
  BY <1>1 DEF EsInv
<1>3. ASSUME NEW m \in todo, Row(m) PROVE EsInv'
  <2> SUFFICES ASSUME NEW e \in es'
               PROVE  \E x \in texts' : x.chan = e[1] /\ x.id = e[2] /\ e[3] \in Found(x.text)
    BY DEF EsInv
  <2>1. CASE e \in es
    BY <1>1, <2>1 DEF EsInv
  <2>2. CASE e \notin es
    <3>1. PICK n \in Found(m.text) : e = <<m.chan, m.id, n>>
      BY <1>3, <2>2 DEF Row
    <3>2. m \in texts'
      BY <1>1 DEF TypeOK
    <3> QED
      BY <3>1, <3>2
  <2> QED
    BY <2>1, <2>2
<1>4. es' \subseteq es \/ \E m \in todo : Row(m)
  BY DEF Next, Store, Learn, Start, RunStep, Fail, Query, EndOfStream, Commit,
         CommitFail, Write, WriteFail, Written, Drop, DropFail, Crash, Terminated, vars
<1>5. link' \subseteq link \cup Rows
  BY DEF Next, Store, Learn, Start, RunStep, Fail, Query, Row, EndOfStream, Commit,
         CommitFail, Write, WriteFail, Written, Drop, DropFail, Crash, Terminated, vars
<1>6. HonestLinks'
  <2> SUFFICES ASSUME NEW l \in link'
               PROVE  /\ l[3] # l[1]
                      /\ \E m \in texts' : /\ m.chan = l[1] /\ m.id = l[2]
                                           /\ \E n \in Found(m.text) \cap Names : PeerOf[n] = l[3]
    BY DEF HonestLinks
  <2>1. CASE l \in link
    BY <1>1, <2>1 DEF HonestLinks
  <2>2. CASE l \in Rows
    <3>1. PICK e \in es : /\ e[3] \in map /\ PeerOf[e[3]] # e[1]
                          /\ l = <<e[1], e[2], PeerOf[e[3]]>>
      BY <2>2 DEF Rows
    <3>2. PICK m \in texts : m.chan = e[1] /\ m.id = e[2] /\ e[3] \in Found(m.text)
      BY DEF EsInv
    <3>3. e[3] \in Found(m.text) \cap Names
      BY <3>1, <3>2 DEF TypeOK
    <3> QED
      BY <1>1, <3>1, <3>2, <3>3
  <2> QED
    BY <1>5, <2>1, <2>2
<1> QED
  BY <1>2, <1>3, <1>4, <1>6

(***************************************************************************)
(* The names on their way to the file.                                     *)
(***************************************************************************)
LEMMA FileStep ==
  TypeOK /\ PhaseInv /\ FileInv /\ FileComplete /\ [Next]_vars => FileInv' /\ FileComplete'
<1> SUFFICES ASSUME TypeOK, PhaseInv, FileInv, FileComplete, [Next]_vars
             PROVE  FileInv' /\ FileComplete'
  OBVIOUS
<1>1. torn \in BOOLEAN /\ wasTorn \in BOOLEAN
  BY DEF TypeOK
<1> DEFINE Idle == UNCHANGED <<pc, file, torn, dict, left, buffer, wasTorn, result>>
<1>2. Idle => FileInv' /\ FileComplete'
  BY DEF FileInv, FileComplete
<1> HIDE DEF Idle
<1>3. ASSUME NEW m \in Arrivals, Store(m) PROVE Idle
  BY <1>3 DEF Store, disk, scan, writer, past, Idle
<1>4. ASSUME NEW n \in Names, Learn(n) PROVE Idle
  BY <1>4 DEF Learn, disk, scan, writer, past, Idle
<1>5. CASE Start
  BY <1>5 DEF Start, disk, FileInv, FileComplete
<1>6. CASE Fail
  BY <1>6 DEF Fail, End, FileInv, FileComplete
<1>7. CASE Query
  BY <1>7 DEF Query, disk, FileInv, FileComplete, PhaseInv, Running
<1>8. ASSUME NEW m \in todo, Row(m) PROVE FileInv' /\ FileComplete'
  BY <1>8 DEF Row, disk, past, FileInv, FileComplete, PhaseInv, Running
<1>9. CASE EndOfStream
  BY <1>9 DEF EndOfStream, disk, past, FileInv, FileComplete, PhaseInv, Running
<1>10. CASE Commit
  <2>1. FileComplete'
    BY <1>10 DEF Commit, FileComplete, PhaseInv, Running
  <2>2. CASE pc = "commit"
    BY <1>10, <2>1, <2>2 DEF Commit, AfterCommit, disk, past, FileInv
  <2>3. CASE pc = "last"
    <3>1. pc' = "write" /\ left' = dict' /\ torn' = wasTorn' /\ torn' \in BOOLEAN
      BY <1>10, <1>1, <2>3 DEF Commit, AfterCommit, disk, past, scan, FileInv
    <3> QED
      BY <2>1, <3>1 DEF FileInv
  <2> QED
    BY <1>10, <2>2, <2>3 DEF Commit
<1>11. CASE CommitFail
  BY <1>11 DEF CommitFail, End, FileInv, FileComplete
<1>12. ASSUME NEW n \in left, Write(n) PROVE FileInv' /\ FileComplete'
  <2>1. FileComplete'
    BY <1>12 DEF Write, FileComplete, PhaseInv, Running, past
  <2>2. pc = "write" /\ pc' = "write" /\ UNCHANGED <<dict, wasTorn>> /\ left' = left \ {n}
    BY <1>12 DEF Write, scan, past
  <2>3. CASE buffer' = buffer \cup {n} /\ UNCHANGED <<file, torn>>
    BY <2>1, <2>2, <2>3 DEF FileInv
  <2>4. CASE AppendLines(buffer, FALSE) /\ buffer' = {n}
    <3>1. /\ file \subseteq file'
          /\ ~torn => buffer \subseteq file'
          /\ torn' = (torn /\ buffer = {})
          /\ torn /\ buffer # {} => \E x \in buffer : buffer \ {x} \subseteq file'
      BY <1>1, <2>4, AppendFacts
    <3>2. CASE ~torn
      BY <2>1, <2>2, <2>4, <3>1, <3>2 DEF FileInv
    <3>3. CASE torn /\ buffer = {}
      BY <2>1, <2>2, <2>4, <3>1, <3>3 DEF FileInv
    <3>4. CASE torn /\ buffer # {}
      <4>1. PICK x \in buffer : buffer \ {x} \subseteq file'
        BY <3>1, <3>4
      <4>2. x \in dict' /\ dict' \ {x} \subseteq left' \cup buffer' \cup file'
        BY <2>2, <2>4, <3>4, <4>1 DEF FileInv, TypeOK
      <4> QED
        BY <2>1, <2>2, <3>1, <3>4, <4>2 DEF FileInv
    <3> QED
      BY <1>1, <3>2, <3>3, <3>4
  <2> QED
    BY <1>12, <2>3, <2>4 DEF Write
<1>13. CASE WriteFail
  BY <1>13 DEF WriteFail, End, FileInv, FileComplete
<1>14. CASE Written
  BY <1>14 DEF Written, disk, scan, writer, past, FileInv, FileComplete, PhaseInv, Running
<1>15. CASE Drop
  <2>1. pc = "drop" /\ left = {} /\ UNCHANGED <<dict, wasTorn>> /\ AppendLines(buffer, FALSE)
    BY <1>15 DEF Drop, PhaseInv, scan, past
  <2>2. /\ file \subseteq file'
        /\ ~torn => buffer \subseteq file'
        /\ torn /\ buffer # {} => \E x \in buffer : buffer \ {x} \subseteq file'
    BY <1>1, <2>1, AppendFacts
  <2>3. FileInv'
    BY <1>15 DEF Drop, End, FileInv
  <2>4. \/ dict' \subseteq file'
        \/ wasTorn' /\ \E n \in dict' : dict' \ {n} \subseteq file'
    <3>1. CASE ~torn
      BY <2>1, <2>2, <3>1 DEF FileInv
    <3>2. CASE torn /\ buffer = {}
      BY <2>1, <2>2, <3>2 DEF FileInv
    <3>3. CASE torn /\ buffer # {}
      <4>1. PICK x \in buffer : buffer \ {x} \subseteq file'
        BY <2>2, <3>3
      <4>2. x \in dict' /\ dict' \ {x} \subseteq file' /\ wasTorn'
        BY <2>1, <3>3, <4>1 DEF FileInv, TypeOK
      <4> QED
        BY <4>2
    <3> QED
      BY <1>1, <3>1, <3>2, <3>3
  <2> QED
    BY <2>3, <2>4 DEF FileComplete
<1>16. CASE DropFail
  BY <1>16 DEF DropFail, End, FileInv, FileComplete
<1>17. CASE Crash
  BY <1>17 DEF Crash, FileInv, FileComplete, PhaseInv, Running
<1>18. CASE UNCHANGED vars
  BY <1>18, <1>2 DEF vars, Idle
<1> QED
  BY <1>2, <1>3, <1>4, <1>5, <1>6, <1>7, <1>8, <1>9, <1>10, <1>11, <1>12, <1>13, <1>14,
     <1>15, <1>16, <1>17, <1>18 DEF Next, RunStep, Terminated

-----------------------------------------------------------------------------

\* What the proofs below rest on holds in every state of a run.
THEOREM Invariance == Spec => []IInv
<1>1. IInv /\ [Next]_vars => IInv'
  BY TypeStep, LinkStep, HonestStep, FileStep DEF IInv
<1> QED
  BY InitIInv, <1>1, PTL DEF Spec

(***************************************************************************)
(* Types.                                                                  *)
(***************************************************************************)
THEOREM TypeCorrect == Spec => []TypeOK
<1>1. IInv => TypeOK
  BY DEF IInv
<1> QED
  BY <1>1, Invariance, PTL

(***************************************************************************)
(* The names of a run follow its links (extract.rs 135-147): no link of a  *)
(* message is left behind in a batch.                                      *)
(***************************************************************************)
THEOREM LinksAreFirst == Spec => []LinksFirst
<1>1. IInv => LinksFirst
  BY DEF IInv, PhaseInv, LinksFirst, Running
<1> QED
  BY <1>1, Invariance, PTL

(***************************************************************************)
(* No row of telegram.link without a message that has the link, and none   *)
(* from a channel to itself (extract.rs 97-101).                           *)
(***************************************************************************)
THEOREM LinksAreHonest == Spec => []HonestLinks
<1>1. IInv => HonestLinks
  BY DEF IInv
<1> QED
  BY <1>1, Invariance, PTL

(***************************************************************************)
(* A run that ends well has written its names, whatever the buffer's size  *)
(* (extract.rs 143-150).                                                   *)
(***************************************************************************)
THEOREM FileIsComplete == Spec => []FileComplete
<1>1. IInv => FileComplete
  BY DEF IInv
<1> QED
  BY <1>1, Invariance, PTL

-----------------------------------------------------------------------------
(* What inspect finds, in positions of the text rather than suffixes.      *)

Pieces == Words \cup Marks

TgAt(t, i) == i + 2 <= Len(t) /\ t[i] = "g" /\ t[i + 1] = "://" /\ t[i + 2] = "join"

DomainAt(t, i) ==
  i + 2 <= Len(t) /\ t[i] = "." /\ t[i + 1] \in {"me", "dev", "dog", "pe"} /\ t[i + 2] = "/"

JoinAt(t, i) == i + 2 <= Len(t) /\ t[i] = "join" /\ t[i + 1] = "cha" /\ t[i + 2] = "t"

\* Behind elegram, elesco or g, if it is there, and behind joinchat.
SkipTail(t, i) == IF i <= Len(t) /\ t[i] \in Tails THEN i + 1 ELSE i
SkipJoin(t, i) == IF JoinAt(t, i) THEN i + 3 ELSE i

\* A text has pieces.
LEMMA TextType ==
  ASSUME NEW s \in Text
  PROVE  /\ Len(s) \in Nat
         /\ DOMAIN s = 1..Len(s)
         /\ \A j \in 1..Len(s) : s[j] \in Words \cup Marks
<1>1. Len(s) \in Nat /\ DOMAIN s = 1..Len(s)
  BY LenProperties DEF Text
<1>2. \A j \in 1..Len(s) : s[j] \in Words \cup Marks
  BY ElementOfSeq DEF Text
<1> QED
  BY <1>1, <1>2

\* Part of a text.
LEMMA PartOf ==
  ASSUME NEW s \in Text, NEW i \in Nat \ {0}, NEW j \in Nat, j <= Len(s)
  PROVE  /\ SubSeq(s, i, j) \in Text
         /\ Len(SubSeq(s, i, j)) = IF i <= j THEN j - i + 1 ELSE 0
         /\ \A k \in 1..(j - i + 1) : SubSeq(s, i, j)[k] = s[i + k - 1]
<1>1. \A k \in i..j : s[k] \in Words \cup Marks
  BY TextType
<1> QED
  BY <1>1, SubSeqProperties DEF Text

\* The text from a position on.
LEMMA FromHere ==
  ASSUME NEW s \in Text, NEW i \in 1..(Len(s) + 1)
  PROVE  /\ From(s, i) \in Text
         /\ Len(From(s, i)) = Len(s) - i + 1
         /\ \A k \in 1..(Len(s) - i + 1) : From(s, i)[k] = s[i + k - 1]
<1>1. Len(s) \in Nat
  BY TextType
<1>2. i \in Nat \ {0} /\ i <= Len(s) + 1
  BY <1>1
<1> QED
  BY <1>1, <1>2, PartOf DEF From

\* From a position of the rest on.
LEMMA FromFrom ==
  ASSUME NEW s \in Text, NEW i \in 1..(Len(s) + 1), NEW j \in 1..(Len(s) - i + 2)
  PROVE  From(From(s, i), j) = From(s, i + j - 1)
<1>1. Len(s) \in Nat /\ i \in Nat /\ j \in Nat
  BY TextType
<1>2. /\ From(s, i) \in Text
      /\ Len(From(s, i)) = Len(s) - i + 1
      /\ \A k \in 1..(Len(s) - i + 1) : From(s, i)[k] = s[i + k - 1]
  BY FromHere
<1> DEFINE u == From(s, i)
           a == From(u, j)
           b == From(s, i + j - 1)
<1> HIDE DEF u
<1>3. /\ a \in Text
      /\ Len(a) = Len(u) - j + 1
      /\ \A k \in 1..(Len(u) - j + 1) : a[k] = u[j + k - 1]
  <2>1. j \in 1..(Len(u) + 1)
    BY <1>1, <1>2 DEF u
  <2> QED
    BY <2>1, <1>2, FromHere DEF u
<1>4. /\ b \in Text
      /\ Len(b) = Len(s) - i - j + 2
      /\ \A k \in 1..(Len(s) - i - j + 2) : b[k] = s[i + j + k - 2]
  <2>1. i + j - 1 \in 1..(Len(s) + 1)
    BY <1>1
  <2>2. /\ b \in Text
        /\ Len(b) = Len(s) - (i + j - 1) + 1
        /\ \A k \in 1..(Len(s) - (i + j - 1) + 1) : b[k] = s[(i + j - 1) + k - 1]
    BY <2>1, FromHere
  <2> HIDE DEF b
  <2>3. Len(s) - (i + j - 1) + 1 = Len(s) - i - j + 2
    BY <1>1
  <2>4. \A k \in 1..(Len(s) - i - j + 2) : (i + j - 1) + k - 1 = i + j + k - 2
    BY <1>1
  <2> QED
    BY <2>2, <2>3, <2>4
<1> HIDE DEF a, b
<1>5. Len(u) = Len(s) - i + 1
  BY <1>2 DEF u
<1>6. Len(a) = Len(s) - i - j + 2 /\ Len(a) = Len(b)
  BY <1>1, <1>3, <1>4, <1>5
<1>7. ASSUME NEW k \in 1..Len(a) PROVE a[k] = b[k]
  <2>1. k \in 1..(Len(s) - i - j + 2) /\ k \in 1..(Len(u) - j + 1)
    BY <1>1, <1>5, <1>6
  <2>2. j + k - 1 \in 1..(Len(s) - i + 1) /\ i + (j + k - 1) - 1 = i + j + k - 2
    BY <2>1, <1>1
  <2>3. u[j + k - 1] = s[i + (j + k - 1) - 1]
    BY <2>2, <1>2 DEF u
  <2>4. a[k] = u[j + k - 1]
    BY <2>1, <1>3
  <2>5. b[k] = s[i + j + k - 2]
    BY <2>1, <1>4
  <2> QED
    BY <2>2, <2>3, <2>4, <2>5
<1>8. a = b
  BY <1>3, <1>4, <1>6, <1>7, SeqEqual DEF Text
<1> QED
  BY <1>8 DEF a, b, u

\* A text begins with p where its pieces are those of p.
LEMMA Begins ==
  ASSUME NEW s \in Text, NEW p \in Text
  PROVE  StartsWith(s, p) <=> Len(p) <= Len(s) /\ \A k \in 1..Len(p) : s[k] = p[k]
<1>1. Len(s) \in Nat /\ Len(p) \in Nat
  BY TextType
<1> DEFINE u == SubSeq(s, 1, Len(p))
<1>2. ASSUME Len(p) <= Len(s)
      PROVE  u \in Text /\ Len(u) = Len(p) /\ \A k \in 1..Len(p) : u[k] = s[k]
  <2>1. /\ u \in Text
        /\ Len(u) = IF 1 <= Len(p) THEN Len(p) - 1 + 1 ELSE 0
        /\ \A k \in 1..(Len(p) - 1 + 1) : u[k] = s[1 + k - 1]
    BY <1>1, <1>2, PartOf
  <2> HIDE DEF u
  <2>2. Len(u) = Len(p) /\ Len(p) - 1 + 1 = Len(p) /\ \A k \in 1..Len(p) : 1 + k - 1 = k
    BY <2>1, <1>1
  <2> QED
    BY <2>1, <2>2
<1>3. StartsWith(s, p) <=> Len(p) <= Len(s) /\ u = p
  BY DEF StartsWith
<1> HIDE DEF u
<1>4. ASSUME Len(p) <= Len(s), \A k \in 1..Len(p) : s[k] = p[k]
      PROVE  u = p
  BY <1>2, <1>4, SeqEqual DEF Text
<1> QED
  BY <1>2, <1>3, <1>4

\* The same for a position of the text.
LEMMA BeginsAt ==
  ASSUME NEW s \in Text, NEW i \in 1..(Len(s) + 1), NEW p \in Text
  PROVE  StartsWith(From(s, i), p) <=>
           i + Len(p) - 1 <= Len(s) /\ \A k \in 1..Len(p) : s[i + k - 1] = p[k]
<1>1. Len(s) \in Nat /\ i \in Nat /\ Len(p) \in Nat
  BY TextType
<1>2. /\ From(s, i) \in Text
      /\ Len(From(s, i)) = Len(s) - i + 1
      /\ \A k \in 1..(Len(s) - i + 1) : From(s, i)[k] = s[i + k - 1]
  BY FromHere
<1> DEFINE u == From(s, i)
<1> HIDE DEF u
<1>3. StartsWith(u, p) <=> Len(p) <= Len(u) /\ \A k \in 1..Len(p) : u[k] = p[k]
  BY <1>2, Begins DEF u
<1>4. Len(p) <= Len(u) <=> i + Len(p) - 1 <= Len(s)
  BY <1>1, <1>2 DEF u
<1>5. ASSUME Len(p) <= Len(u) PROVE \A k \in 1..Len(p) : u[k] = s[i + k - 1]
  <2>1. 1..Len(p) \subseteq 1..(Len(s) - i + 1)
    BY <1>1, <1>2, <1>5 DEF u
  <2> QED
    BY <2>1, <1>2 DEF u
<1> QED
  BY <1>3, <1>4, <1>5 DEF u

\* A concatenation stands where its parts stand behind each other.
LEMMA ConcatAt ==
  ASSUME NEW s \in Text, NEW i \in 1..(Len(s) + 1), NEW p \in Text, NEW q \in Text
  PROVE  At(s, i, p \o q) <=> At(s, i, p) /\ At(s, i + Len(p), q)
<1>1. Len(s) \in Nat /\ i \in Nat \ {0} /\ Len(p) \in Nat /\ Len(q) \in Nat
  BY TextType
<1> DEFINE r == p \o q
<1>2. /\ r \in Text
      /\ Len(r) = Len(p) + Len(q)
      /\ \A k \in 1..(Len(p) + Len(q)) : r[k] = IF k <= Len(p) THEN p[k] ELSE q[k - Len(p)]
  BY ConcatProperties DEF Text
<1> HIDE DEF r
<1>3. At(s, i, r) <=> i + Len(r) - 1 <= Len(s) /\ \A k \in 1..Len(r) : s[i + k - 1] = r[k]
  BY <1>2, BeginsAt DEF At
<1>4. At(s, i, p) <=> i + Len(p) - 1 <= Len(s) /\ \A k \in 1..Len(p) : s[i + k - 1] = p[k]
  BY BeginsAt DEF At
<1>5. ASSUME i + Len(p) - 1 <= Len(s)
      PROVE  At(s, i + Len(p), q) <=>
               /\ i + Len(p) + Len(q) - 1 <= Len(s)
               /\ \A k \in 1..Len(q) : s[i + Len(p) + k - 1] = q[k]
  <2>1. i + Len(p) \in 1..(Len(s) + 1)
    BY <1>1, <1>5
  <2> QED
    BY <2>1, BeginsAt DEF At
<1>6. ASSUME At(s, i, r) PROVE At(s, i, p) /\ At(s, i + Len(p), q)
  <2>1. i + Len(p) - 1 <= Len(s) /\ i + Len(p) + Len(q) - 1 <= Len(s)
    BY <1>1, <1>2, <1>3, <1>6
  <2>2. \A k \in 1..Len(p) : s[i + k - 1] = p[k]
    BY <1>1, <1>2, <1>3, <1>6
  <2>3. ASSUME NEW k \in 1..Len(q) PROVE s[i + Len(p) + k - 1] = q[k]
    <3>1. /\ Len(p) + k \in 1..(Len(p) + Len(q))
          /\ ~(Len(p) + k <= Len(p))
          /\ (Len(p) + k) - Len(p) = k
          /\ i + (Len(p) + k) - 1 = i + Len(p) + k - 1
      BY <1>1
    <3>2. s[i + (Len(p) + k) - 1] = r[Len(p) + k]
      BY <3>1, <1>2, <1>3, <1>6
    <3>3. r[Len(p) + k] = q[(Len(p) + k) - Len(p)]
      BY <3>1, <1>2
    <3> QED
      BY <3>1, <3>2, <3>3
  <2> QED
    BY <2>1, <2>2, <2>3, <1>4, <1>5
<1>7. ASSUME At(s, i, p), At(s, i + Len(p), q) PROVE At(s, i, r)
  <2>1. i + Len(p) + Len(q) - 1 <= Len(s)
    BY <1>4, <1>5, <1>7
  <2>2. ASSUME NEW k \in 1..(Len(p) + Len(q)) PROVE s[i + k - 1] = r[k]
    <3>1. CASE k <= Len(p)
      BY <3>1, <1>1, <1>2, <1>4, <1>7
    <3>2. CASE ~(k <= Len(p))
      <4>1. k - Len(p) \in 1..Len(q) /\ i + Len(p) + (k - Len(p)) - 1 = i + k - 1
        BY <3>2, <1>1
      <4>2. s[i + Len(p) + (k - Len(p)) - 1] = q[k - Len(p)]
        BY <4>1, <1>4, <1>5, <1>7
      <4> QED
        BY <3>2, <4>1, <4>2, <1>2
    <3> QED
      BY <3>1, <3>2
  <2>3. i + Len(r) - 1 <= Len(s)
    BY <2>1, <1>1, <1>2
  <2> QED
    BY <2>2, <2>3, <1>2, <1>3
<1> QED
  BY <1>6, <1>7 DEF r

\* The literals of inspect are texts.
LEMMA Literals ==
  /\ TgJoin \in Text /\ Len(TgJoin) = 3
  /\ TgJoin[1] = "g" /\ TgJoin[2] = "://" /\ TgJoin[3] = "join"
  /\ JoinChat \in Text /\ Len(JoinChat) = 3
  /\ JoinChat[1] = "join" /\ JoinChat[2] = "cha" /\ JoinChat[3] = "t"
  /\ \A c \in {"me", "dev", "dog", "pe"} :
       LET d == <<".", c, "/">>
       IN  d \in Text /\ Len(d) = 3 /\ d[1] = "." /\ d[2] = c /\ d[3] = "/"
  /\ \A c \in Words \cup Marks : <<c>> \in Text /\ Len(<<c>>) = 1 /\ <<c>>[1] = c
  /\ \A c \in Tails : LET h == <<"t", c>>
                      IN  h \in Text /\ Len(h) = 2 /\ h[1] = "t" /\ h[2] = c
  /\ <<>> \in Text /\ Len(<<>>) = 0
<1>1. ASSUME NEW c \in Words \cup Marks PROVE <<c>> \in Seq(Words \cup Marks)
  OBVIOUS
<1>2. ASSUME NEW c \in Words \cup Marks, NEW d \in Words \cup Marks
      PROVE  <<c, d>> \in Seq(Words \cup Marks)
  OBVIOUS
<1>3. ASSUME NEW c \in Words \cup Marks, NEW d \in Words \cup Marks, NEW e \in Words \cup Marks
      PROVE  <<c, d, e>> \in Seq(Words \cup Marks)
  OBVIOUS
<1>4. TgJoin \in Text /\ JoinChat \in Text
  <2>1. {"g", "://", "join", "cha", "t"} \subseteq Words \cup Marks
    BY DEF Words, Marks
  <2> QED
    BY <1>3, <2>1 DEF Text, TgJoin, JoinChat
<1>5. \A c \in {"me", "dev", "dog", "pe"} : <<".", c, "/">> \in Text
  <2>1. {".", "me", "dev", "dog", "pe", "/"} \subseteq Words \cup Marks
    BY DEF Words, Marks
  <2> QED
    BY <1>3, <2>1 DEF Text
<1>6. \A c \in Tails : <<"t", c>> \in Text
  <2>1. "t" \in Words \cup Marks /\ Tails \subseteq Words \cup Marks
    BY DEF Words, Marks, Tails
  <2> QED
    BY <1>2, <2>1 DEF Text
<1>7. <<>> \in Text
  BY EmptySeq DEF Text
<1>8. /\ Len(TgJoin) = 3 /\ TgJoin[1] = "g" /\ TgJoin[2] = "://" /\ TgJoin[3] = "join"
      /\ Len(JoinChat) = 3
      /\ JoinChat[1] = "join" /\ JoinChat[2] = "cha" /\ JoinChat[3] = "t"
  BY DEF TgJoin, JoinChat
<1> QED
  BY <1>1, <1>4, <1>5, <1>6, <1>7, <1>8 DEF Text

\* Where the literals stand.
LEMMA LiteralsAt ==
  ASSUME NEW s \in Text, NEW i \in 1..(Len(s) + 1)
  PROVE  /\ At(s, i, TgJoin) <=> TgAt(s, i)
         /\ At(s, i, JoinChat) <=> JoinAt(s, i)
         /\ \A c \in {"me", "dev", "dog", "pe"} :
              At(s, i, <<".", c, "/">>) <=> DomainAt(s, i) /\ s[i + 1] = c
         /\ \A c \in Words \cup Marks : At(s, i, <<c>>) <=> i <= Len(s) /\ s[i] = c
         /\ \A c \in Tails : At(s, i, <<"t", c>>)
                             <=> i + 1 <= Len(s) /\ s[i] = "t" /\ s[i + 1] = c
         /\ At(s, i, <<>>)
<1>1. Len(s) \in Nat /\ i \in Nat \ {0}
  BY TextType
<1>2. ASSUME NEW p \in Text, Len(p) = 3
      PROVE  At(s, i, p) <=> i + 2 <= Len(s) /\ s[i] = p[1] /\ s[i + 1] = p[2] /\ s[i + 2] = p[3]
  <2>1. At(s, i, p) <=> i + 3 - 1 <= Len(s) /\ \A k \in 1..3 : s[i + k - 1] = p[k]
    <3>1. At(s, i, p) <=> i + Len(p) - 1 <= Len(s) /\ \A k \in 1..Len(p) : s[i + k - 1] = p[k]
      BY BeginsAt DEF At
    <3> QED
      BY <1>2, <3>1
  <2>2. /\ i + 3 - 1 = i + 2 /\ i + 1 - 1 = i /\ i + 2 - 1 = i + 1
        /\ \A k \in 1..3 : k = 1 \/ k = 2 \/ k = 3
    BY <1>1
  <2>3. 1 \in 1..3 /\ 2 \in 1..3 /\ 3 \in 1..3
    OBVIOUS
  <2> QED
    BY <2>1, <2>2, <2>3
<1>3. ASSUME NEW p \in Text, Len(p) = 2
      PROVE  At(s, i, p) <=> i + 1 <= Len(s) /\ s[i] = p[1] /\ s[i + 1] = p[2]
  <2>1. At(s, i, p) <=> i + 2 - 1 <= Len(s) /\ \A k \in 1..2 : s[i + k - 1] = p[k]
    <3>1. At(s, i, p) <=> i + Len(p) - 1 <= Len(s) /\ \A k \in 1..Len(p) : s[i + k - 1] = p[k]
      BY BeginsAt DEF At
    <3> QED
      BY <1>3, <3>1
  <2>2. i + 1 - 1 = i /\ i + 2 - 1 = i + 1 /\ \A k \in 1..2 : k = 1 \/ k = 2
    BY <1>1
  <2>3. 1 \in 1..2 /\ 2 \in 1..2
    OBVIOUS
  <2> QED
    BY <2>1, <2>2, <2>3
<1>4. ASSUME NEW p \in Text, Len(p) = 1
      PROVE  At(s, i, p) <=> i <= Len(s) /\ s[i] = p[1]
  <2>1. At(s, i, p) <=> i + 1 - 1 <= Len(s) /\ \A k \in 1..1 : s[i + k - 1] = p[k]
    <3>1. At(s, i, p) <=> i + Len(p) - 1 <= Len(s) /\ \A k \in 1..Len(p) : s[i + k - 1] = p[k]
      BY BeginsAt DEF At
    <3> QED
      BY <1>4, <3>1
  <2>2. i + 1 - 1 = i /\ (\A k \in 1..1 : k = 1) /\ 1 \in 1..1
    BY <1>1
  <2> QED
    BY <2>1, <2>2
<1>5. At(s, i, <<>>)
  <2>1. <<>> \in Text /\ Len(<<>>) = 0
    BY Literals
  <2>2. At(s, i, <<>>) <=> i + 0 - 1 <= Len(s) /\ \A k \in 1..0 : s[i + k - 1] = <<>>[k]
    BY <2>1, BeginsAt DEF At
  <2> QED
    BY <2>2, <1>1
<1>6. /\ At(s, i, TgJoin) <=> TgAt(s, i)
      /\ At(s, i, JoinChat) <=> JoinAt(s, i)
  BY <1>2, Literals DEF TgAt, JoinAt
<1>7. ASSUME NEW c \in {"me", "dev", "dog", "pe"}
      PROVE  At(s, i, <<".", c, "/">>) <=> DomainAt(s, i) /\ s[i + 1] = c
  <2> DEFINE d == <<".", c, "/">>
  <2>1. d \in Text /\ Len(d) = 3 /\ d[1] = "." /\ d[2] = c /\ d[3] = "/"
    BY Literals
  <2> HIDE DEF d
  <2>2. At(s, i, d) <=> i + 2 <= Len(s) /\ s[i] = "." /\ s[i + 1] = c /\ s[i + 2] = "/"
    BY <1>2, <2>1
  <2> QED
    BY <2>2 DEF DomainAt, d
<1>8. ASSUME NEW c \in Words \cup Marks
      PROVE  At(s, i, <<c>>) <=> i <= Len(s) /\ s[i] = c
  BY <1>4, Literals
<1>9. ASSUME NEW c \in Tails
      PROVE  At(s, i, <<"t", c>>) <=> i + 1 <= Len(s) /\ s[i] = "t" /\ s[i + 1] = c
  <2> DEFINE h == <<"t", c>>
  <2>1. h \in Text /\ Len(h) = 2 /\ h[1] = "t" /\ h[2] = c
    BY Literals
  <2> HIDE DEF h
  <2>2. At(s, i, h) <=> i + 1 <= Len(s) /\ s[i] = "t" /\ s[i + 1] = c
    BY <1>3, <2>1
  <2> QED
    BY <2>2 DEF h
<1> QED
  BY <1>5, <1>6, <1>7, <1>8, <1>9

\* What follows a head, as a position of the text.
LEMMA AfterHeadAt ==
  ASSUME NEW t \in Text, NEW i \in 1..(Len(t) + 1)
  PROVE  LET e == SkipTail(t, i)
         IN  AfterHead(From(t, i)) = IF TgAt(t, i) THEN {From(t, i + 3)}
                                     ELSE IF DomainAt(t, e) THEN {From(t, SkipJoin(t, e + 3))}
                                     ELSE {}
<1> DEFINE s == From(t, i)
           e == SkipTail(t, i)
           rest == IF s # <<>> /\ s[1] \in Tails THEN Tail(s) ELSE s
<1>1. Len(t) \in Nat /\ i \in Nat \ {0}
  BY TextType
<1>2. /\ s \in Text
      /\ Len(s) = Len(t) - i + 1
      /\ \A k \in 1..(Len(t) - i + 1) : s[k] = t[i + k - 1]
  BY FromHere
<1>3. StartsWith(s, TgJoin) <=> TgAt(t, i)
  BY LiteralsAt DEF At
<1>4. TgAt(t, i) => From(s, 4) = From(t, i + 3)
  <2>1. TgAt(t, i) => 4 \in 1..(Len(t) - i + 2) /\ i + 4 - 1 = i + 3
    BY <1>1 DEF TgAt
  <2> QED
    BY <2>1, FromFrom
<1>5. rest = From(t, e) /\ e \in 1..(Len(t) + 1)
  <2>1. s # <<>> <=> i <= Len(t)
    <3>1. s # <<>> => Len(s) \in Nat \ {0}
      BY <1>2, EmptySeq DEF Text
    <3>2. Len(<<>>) = 0
      OBVIOUS
    <3>3. Len(s) # 0 => s # <<>>
      BY <3>2
    <3> HIDE DEF s
    <3> QED
      BY <3>1, <3>3, <1>1, <1>2
  <2>2. i <= Len(t) => s[1] = t[i]
    <3>1. i <= Len(t) => 1 \in 1..(Len(t) - i + 1) /\ i + 1 - 1 = i
      BY <1>1
    <3> QED
      BY <3>1, <1>2
  <2>3. CASE i <= Len(t) /\ t[i] \in Tails
    <3>1. rest = Tail(s) /\ e = i + 1
      BY <2>1, <2>2, <2>3 DEF SkipTail
    <3>2. Tail(s) = SubSeq(s, 2, Len(s))
      BY <1>2, <2>1, <2>3, TailIsSubSeq DEF Text
    <3>3. 2 \in 1..(Len(t) - i + 2) /\ i + 2 - 1 = i + 1
      BY <1>1, <2>3
    <3>4. From(s, 2) = From(t, i + 1)
      BY <3>3, FromFrom
    <3>5. From(s, 2) = SubSeq(s, 2, Len(s))
      BY DEF From
    <3>6. i + 1 \in 1..(Len(t) + 1)
      BY <1>1, <2>3
    <3> QED
      BY <3>1, <3>2, <3>4, <3>5, <3>6
  <2>4. CASE ~(i <= Len(t) /\ t[i] \in Tails)
    BY <2>1, <2>2, <2>4 DEF SkipTail
  <2> QED
    BY <2>3, <2>4
<1> DEFINE H == {Strip(From(rest, 4), JoinChat) : d \in {d \in Domains : StartsWith(rest, d)}}
<1>6. AfterHead(s) = IF StartsWith(s, TgJoin) THEN {From(s, 4)} ELSE H
  BY Zenon DEF AfterHead
<1> HIDE DEF s, rest
<1> HIDE DEF e
<1>7. (\E d \in Domains : StartsWith(rest, d)) <=> DomainAt(t, e)
  <2>1. \A c \in {"me", "dev", "dog", "pe"} :
          StartsWith(rest, <<".", c, "/">>) <=> DomainAt(t, e) /\ t[e + 1] = c
    BY <1>5, LiteralsAt DEF At
  <2>2. DomainAt(t, e) => t[e + 1] \in {"me", "dev", "dog", "pe"}
    BY DEF DomainAt
  <2> QED
    BY <2>1, <2>2, Zenon DEF Domains
<1>8. ASSUME DomainAt(t, e) PROVE Strip(From(rest, 4), JoinChat) = From(t, SkipJoin(t, e + 3))
  <2>1. e \in Nat /\ 4 \in 1..(Len(t) - e + 2) /\ e + 4 - 1 = e + 3 /\ e + 3 \in 1..(Len(t) + 1)
    BY <1>1, <1>5, <1>8 DEF DomainAt
  <2>2. From(rest, 4) = From(t, e + 3)
    BY <2>1, <1>5, FromFrom
  <2>3. StartsWith(From(t, e + 3), JoinChat) <=> JoinAt(t, e + 3)
    BY <2>1, LiteralsAt DEF At
  <2>4. ASSUME JoinAt(t, e + 3)
        PROVE  From(From(t, e + 3), Len(JoinChat) + 1) = From(t, (e + 3) + 3)
    <3>1. Len(JoinChat) + 1 = 4 /\ 4 \in 1..(Len(t) - (e + 3) + 2)
          /\ (e + 3) + 4 - 1 = (e + 3) + 3
      BY <2>1, <2>4, <1>1, Literals DEF JoinAt
    <3> QED
      BY <3>1, <2>1, FromFrom
  <2> QED
    BY <2>2, <2>3, <2>4 DEF Strip, SkipJoin
<1>9. H = IF DomainAt(t, e) THEN {From(t, SkipJoin(t, e + 3))} ELSE {}
  <2>1. CASE DomainAt(t, e)
    BY <1>7, <1>8, <2>1
  <2>2. CASE ~DomainAt(t, e)
    BY <1>7, <2>2
  <2> QED
    BY <2>1, <2>2
<1> HIDE DEF H
<1>10. AfterHead(s) = IF TgAt(t, i) THEN {From(t, i + 3)}
                      ELSE IF DomainAt(t, e) THEN {From(t, SkipJoin(t, e + 3))} ELSE {}
  BY <1>3, <1>4, <1>6, <1>9, Zenon
<1> QED
  BY <1>10 DEF s, e

\* A run of words of the rest is one of the text.
LEMMA RunFrom ==
  ASSUME NEW t \in Text, NEW e \in 1..(Len(t) + 1),
         NEW x \in 1..Len(From(t, e)), NEW y \in 1..Len(From(t, e))
  PROVE  /\ x + e - 1 \in 1..Len(t) /\ y + e - 1 \in 1..Len(t)
         /\ IsRun(From(t, e), x, y) <=> IsRun(t, x + e - 1, y + e - 1)
         /\ SubSeq(From(t, e), x, y) = SubSeq(t, x + e - 1, y + e - 1)
         /\ (\A k \in 1..(x - 1) : From(t, e)[k] \in Marks)
            <=> (\A k \in e..(x + e - 1 - 1) : t[k] \in Marks)
<1> DEFINE s == From(t, e)
           a == x + e - 1
           b == y + e - 1
<1>1. Len(t) \in Nat /\ e \in Nat \ {0}
  BY TextType
<1>2. /\ s \in Text
      /\ Len(s) = Len(t) - e + 1
      /\ \A k \in 1..(Len(t) - e + 1) : s[k] = t[e + k - 1]
  BY FromHere
<1>3. /\ Len(s) \in Int /\ x \in 1..Len(s) /\ y \in 1..Len(s)
      /\ x \in Nat \ {0} /\ y \in Nat \ {0}
  BY <1>1, <1>2
<1>4. SubSeq(s, x, y) = SubSeq(t, a, b)
  <2>1. /\ e \in 1..Len(t) /\ Len(t) \in 1..Len(t)
        /\ x \in 1..(Len(t) - e + 1) /\ y \in 1..(Len(t) - e + 1)
        /\ e + x - 1 = a /\ e + y - 1 = b
    BY <1>1, <1>2, <1>3
  <2>2. t \in Seq(Words \cup Marks)
    BY DEF Text
  <2>3. SubSeq(SubSeq(t, e, Len(t)), x, y) = SubSeq(t, e + x - 1, e + y - 1)
    <3> HIDE DEF a, b
    <3> QED
      BY <2>1, <2>2, SubSeqOfSubSeq
  <2>4. s = SubSeq(t, e, Len(t))
    BY DEF From
  <2> HIDE DEF s, a, b
  <2> QED
    BY <2>1, <2>3, <2>4
<1> HIDE DEF s
<1>5. a \in 1..Len(t) /\ b \in 1..Len(t) /\ (a <= b <=> x <= y) /\ (b = Len(t) <=> y = Len(s))
  BY <1>1, <1>2, <1>3
<1>6. (\A k \in x..y : s[k] \in Words) <=> (\A k \in a..b : t[k] \in Words)
  <2>1. ASSUME \A k \in x..y : s[k] \in Words, NEW k \in a..b PROVE t[k] \in Words
    <3>1. k - e + 1 \in x..y /\ k - e + 1 \in 1..(Len(t) - e + 1) /\ e + (k - e + 1) - 1 = k
      BY <1>1, <1>2, <1>3
    <3>2. s[k - e + 1] = t[e + (k - e + 1) - 1]
      BY <3>1, <1>2
    <3> QED
      BY <3>1, <3>2, <2>1
  <2>2. ASSUME \A k \in a..b : t[k] \in Words, NEW k \in x..y PROVE s[k] \in Words
    <3>1. k \in 1..(Len(t) - e + 1) /\ e + k - 1 \in a..b
      BY <1>1, <1>2, <1>3
    <3>2. s[k] = t[e + k - 1]
      BY <3>1, <1>2
    <3> QED
      BY <3>1, <3>2, <2>2
  <2> QED
    BY <2>1, <2>2
<1>7. (\A k \in 1..(x - 1) : s[k] \in Marks) <=> (\A k \in e..(a - 1) : t[k] \in Marks)
  <2>1. ASSUME \A k \in 1..(x - 1) : s[k] \in Marks, NEW k \in e..(a - 1) PROVE t[k] \in Marks
    <3>1. k - e + 1 \in 1..(x - 1) /\ k - e + 1 \in 1..(Len(t) - e + 1)
          /\ e + (k - e + 1) - 1 = k
      BY <1>1, <1>2, <1>3
    <3>2. s[k - e + 1] = t[e + (k - e + 1) - 1]
      BY <3>1, <1>2
    <3> QED
      BY <3>1, <3>2, <2>1
  <2>2. ASSUME \A k \in e..(a - 1) : t[k] \in Marks, NEW k \in 1..(x - 1) PROVE s[k] \in Marks
    <3>1. k \in 1..(Len(t) - e + 1) /\ e + k - 1 \in e..(a - 1)
      BY <1>1, <1>2, <1>3
    <3>2. s[k] = t[e + k - 1]
      BY <3>1, <1>2
    <3> QED
      BY <3>1, <3>2, <2>2
  <2> QED
    BY <2>1, <2>2
<1>8. ASSUME y # Len(s) PROVE s[y + 1] = t[b + 1]
  <2>1. y + 1 \in 1..(Len(t) - e + 1) /\ e + (y + 1) - 1 = b + 1
    <3>1. y < Len(s)
      BY <1>3, <1>8
    <3>2. y \in Nat \ {0} /\ y < Len(t) - e + 1
      BY <3>1, <1>2, <1>3
    <3> QED
      BY <3>2, <1>1
  <2>2. s[y + 1] = t[e + (y + 1) - 1]
    BY <2>1, <1>2
  <2> QED
    BY <2>1, <2>2
<1>9. IsRun(s, x, y) <=> IsRun(t, a, b)
  <2>1. y <= Len(s) /\ b <= Len(t)
    BY <1>1, <1>3, <1>5
  <2>2. IsRun(s, x, y) <=> /\ x <= y /\ y <= Len(s) /\ \A k \in x..y : s[k] \in Words
                           /\ y = Len(s) \/ s[y + 1] \in Marks
    BY DEF IsRun
  <2> HIDE DEF a, b
  <2>3. IsRun(t, a, b) <=> /\ a <= b /\ b <= Len(t) /\ \A k \in a..b : t[k] \in Words
                           /\ b = Len(t) \/ t[b + 1] \in Marks
    BY DEF IsRun
  <2> QED
    BY <1>5, <1>6, <1>8, <2>1, <2>2, <2>3
<1> QED
  BY <1>4, <1>5, <1>7, <1>9 DEF s

\* Behind position e, marks and a run of words from a to b.
NameAt(t, e, a, b) ==
  /\ e <= a
  /\ IsRun(t, a, b)
  /\ \A k \in e..(a - 1) : t[k] \in Marks
  /\ Offset(From(t, e), a - e + 1) < 8

\* The name behind a head at position e of the text.
LEMMA NameInAt ==
  ASSUME NEW t \in Text, NEW e \in 1..(Len(t) + 1), NEW n
  PROVE  n \in NameIn(From(t, e)) <=>
           \E a, b \in 1..Len(t) : NameAt(t, e, a, b) /\ n = SubSeq(t, a, b)
<1> DEFINE s == From(t, e)
<1>1. /\ Len(t) \in Nat /\ e \in Nat \ {0}
      /\ Len(s) = Len(t) - e + 1
  BY TextType, FromHere
<1>2. n \in NameIn(s) <=>
        \E x, y \in 1..Len(s) : /\ IsRun(s, x, y)
                                /\ \A k \in 1..(x - 1) : s[k] \in Marks
                                /\ Offset(s, x) < 8
                                /\ n = SubSeq(s, x, y)
  <2> HIDE DEF s
  <2>1. ASSUME n \in NameIn(s)
        PROVE  \E x, y \in 1..Len(s) : /\ IsRun(s, x, y)
                                       /\ \A k \in 1..(x - 1) : s[k] \in Marks
                                       /\ Offset(s, x) < 8
                                       /\ n = SubSeq(s, x, y)
    <3>1. PICK r \in Spans(s) : /\ IsRun(s, r[1], r[2])
                                /\ \A k \in 1..r[1] - 1 : s[k] \in Marks
                                /\ InWindow(s, r[1])
                                /\ n = SubSeq(s, r[1], r[2])
      BY <2>1 DEF NameIn
    <3>2. r[1] \in 1..Len(s) /\ r[2] \in 1..Len(s)
      BY DEF Spans
    <3> QED
      BY <3>1, <3>2 DEF InWindow
  <2>2. ASSUME NEW x \in 1..Len(s), NEW y \in 1..Len(s), IsRun(s, x, y),
               \A k \in 1..(x - 1) : s[k] \in Marks, Offset(s, x) < 8, n = SubSeq(s, x, y)
        PROVE  n \in NameIn(s)
    <3> DEFINE r == <<x, y>>
    <3>1. r \in Spans(s) /\ r[1] = x /\ r[2] = y
      BY DEF Spans
    <3> HIDE DEF r
    <3>2. /\ IsRun(s, r[1], r[2])
          /\ \A k \in 1..r[1] - 1 : s[k] \in Marks
          /\ InWindow(s, r[1])
          /\ n = SubSeq(s, r[1], r[2])
      BY <2>2, <3>1 DEF InWindow
    <3> QED
      BY <3>1, <3>2 DEF NameIn
  <2> QED
    BY <2>1, <2>2
<1>3. ASSUME NEW x \in 1..Len(s), NEW y \in 1..Len(s), IsRun(s, x, y),
             \A k \in 1..(x - 1) : s[k] \in Marks, Offset(s, x) < 8, n = SubSeq(s, x, y)
      PROVE  \E a, b \in 1..Len(t) : NameAt(t, e, a, b) /\ n = SubSeq(t, a, b)
  <2> DEFINE a == x + e - 1
             b == y + e - 1
  <2>1. /\ a \in 1..Len(t) /\ b \in 1..Len(t)
        /\ IsRun(s, x, y) <=> IsRun(t, a, b)
        /\ SubSeq(s, x, y) = SubSeq(t, a, b)
        /\ (\A k \in 1..(x - 1) : s[k] \in Marks) <=> (\A k \in e..(a - 1) : t[k] \in Marks)
    <3>1. /\ x + e - 1 \in 1..Len(t) /\ y + e - 1 \in 1..Len(t)
          /\ IsRun(From(t, e), x, y) <=> IsRun(t, x + e - 1, y + e - 1)
          /\ SubSeq(From(t, e), x, y) = SubSeq(t, x + e - 1, y + e - 1)
          /\ (\A k \in 1..(x - 1) : From(t, e)[k] \in Marks)
             <=> (\A k \in e..(x + e - 1 - 1) : t[k] \in Marks)
      BY RunFrom, Zenon
    <3>2. a \in 1..Len(t) /\ b \in 1..Len(t)
      BY <3>1
    <3>3. (IsRun(s, x, y) <=> IsRun(t, a, b)) /\ SubSeq(s, x, y) = SubSeq(t, a, b)
      BY <3>1
    <3>4. (\A k \in 1..(x - 1) : s[k] \in Marks) <=> (\A k \in e..(a - 1) : t[k] \in Marks)
      BY <3>1
    <3> QED
      BY <3>2, <3>3, <3>4
  <2>2. e <= a /\ a - e + 1 = x
    BY <1>1
  <2> HIDE DEF a, b, s
  <2>3. Offset(s, a - e + 1) < 8
    BY <1>3, <2>2
  <2>4. NameAt(t, e, a, b)
    BY <1>3, <2>1, <2>2, <2>3 DEF NameAt, s
  <2> QED
    BY <1>3, <2>1, <2>4
<1>4. ASSUME NEW a \in 1..Len(t), NEW b \in 1..Len(t), NameAt(t, e, a, b),
             n = SubSeq(t, a, b)
      PROVE  \E x, y \in 1..Len(s) : /\ IsRun(s, x, y)
                                     /\ \A k \in 1..(x - 1) : s[k] \in Marks
                                     /\ Offset(s, x) < 8
                                     /\ n = SubSeq(s, x, y)
  <2> DEFINE x == a - e + 1
             y == b - e + 1
  <2>0. /\ e <= a /\ IsRun(t, a, b) /\ Offset(s, a - e + 1) < 8
        /\ \A k \in e..(a - 1) : t[k] \in Marks
    BY <1>4 DEF NameAt
  <2>1. x \in 1..Len(s) /\ y \in 1..Len(s) /\ x + e - 1 = a /\ y + e - 1 = b
    BY <1>1, <2>0 DEF IsRun
  <2> HIDE DEF x, y
  <2>2. /\ IsRun(s, x, y) <=> IsRun(t, x + e - 1, y + e - 1)
        /\ SubSeq(s, x, y) = SubSeq(t, x + e - 1, y + e - 1)
        /\ (\A k \in 1..(x - 1) : s[k] \in Marks)
           <=> (\A k \in e..(x + e - 1 - 1) : t[k] \in Marks)
    BY <2>1, RunFrom
  <2> HIDE DEF s
  <2>3. Offset(s, x) < 8
    BY <2>0 DEF x
  <2>4. \A k \in e..(x + e - 1 - 1) : t[k] \in Marks
    BY <2>0, <2>1
  <2> QED
    BY <1>4, <2>0, <2>1, <2>2, <2>3, <2>4
<1> QED
  BY <1>2, <1>3, <1>4

\* Only what stands before it counts for the offset of a position.
LEMMA SameOffset ==
  ASSUME NEW s, NEW t, NEW i \in Nat, \A j \in 1..(i - 1) : s[j] = t[j]
  PROVE  Offset(s, i) = Offset(t, i)
<1>1. \A k : {j \in 1..i - 1 : s[j] = k} = {j \in 1..i - 1 : t[j] = k}
  OBVIOUS
<1> QED
  BY <1>1 DEF Offset

\* Nothing, or a plus or a slash, is inside the window.
LEMMA SmallOffset ==
  ASSUME NEW s
  PROVE  /\ Offset(s, 1) < 8
         /\ s[1] \in {"+", "/"} => Offset(s, 2) < 8
<1>1. Cardinality({}) = 0
  BY FS_EmptySet
<1>2. \A k : {j \in 1..1 - 1 : s[j] = k} = {}
  OBVIOUS
<1>3. Offset(s, 1) = 0
  BY <1>1, <1>2 DEF Offset
<1>4. ASSUME s[1] \in {"+", "/"} PROVE Offset(s, 2) = 1
  <2>1. {j \in 1..2 - 1 : s[j] = "://"} = {} /\ {j \in 1..2 - 1 : s[j] = "emoji"} = {}
    BY <1>4
  <2> QED
    BY <1>1, <2>1 DEF Offset
<1> QED
  BY <1>3, <1>4

\* Words and marks do not mix, and what matters here is which is which.
LEMMA WordsOrMarks ==
  /\ Words \cap Marks = {}
  /\ {"join", "cha", "t", "g", "elegram", "elesco", "me"} \subseteq Words
  /\ {".", "/", "+", "://"} \subseteq Marks
BY DEF Words, Marks

\* A text that is folded keeps its length.
LEMMA FoldedPieces ==
  ASSUME NEW s \in Text
  PROVE  /\ Folded(s) \in Text
         /\ Len(Folded(s)) = Len(s)
         /\ \A j \in 1..Len(s) : Folded(s)[j] = Lower(s[j])
<1>1. Len(s) \in Nat /\ DOMAIN s = 1..Len(s) /\ \A j \in 1..Len(s) : s[j] \in Words \cup Marks
  BY TextType
<1>2. ASSUME NEW c \in Words \cup Marks PROVE Lower(c) \in Words \cup Marks
  <2>1. DOMAIN LowerCase = {"T", "ME", "Join", "Alice"}
    BY DEF LowerCase
  <2>2. \A w \in DOMAIN LowerCase : LowerCase[w] \in Words
    BY <2>1 DEF LowerCase, Words
  <2> QED
    BY <1>2, <2>2 DEF Lower
<1> DEFINE L(j) == Lower(s[j])
<1>3. \A j \in 1..Len(s) : L(j) \in Words \cup Marks
  BY <1>1, <1>2
<1>4. Folded(s) = [j \in 1..Len(s) |-> L(j)]
  BY <1>1 DEF Folded
<1> HIDE DEF L
<1>5. Folded(s) \in Text /\ Len(Folded(s)) = Len(s)
  BY <1>1, <1>3, <1>4 DEF Text
<1>6. \A j \in 1..Len(s) : Folded(s)[j] = L(j)
  BY <1>4
<1> QED
  BY <1>5, <1>6 DEF L

\* A name behind a head at k, which ends at e, with marks between them, or
\* joinchat and marks.
LEMMA NamedAt ==
  ASSUME NEW t \in Text, NEW h \in Heads \cup {<<"t">> \o TgJoin}, NEW k \in 1..Len(t),
         At(t, k, h), NEW e \in 1..(Len(t) + 1), e = k + Len(h),
         NEW c \in 1..(Len(t) + 1), c = e \/ (JoinAt(t, e) /\ c = e + 3),
         NEW n, n \in NameIn(From(t, c))
  PROVE  Named(t, Folded(n))
<1>1. Len(t) \in Nat /\ DOMAIN t = 1..Len(t)
  BY TextType
<1>2. PICK a \in 1..Len(t), b \in 1..Len(t) :
        /\ c <= a
        /\ IsRun(t, a, b)
        /\ \A j \in c..(a - 1) : t[j] \in Marks
        /\ Offset(From(t, c), a - c + 1) < 8
        /\ n = SubSeq(t, a, b)
  <2>1. \E a, b \in 1..Len(t) : NameAt(t, c, a, b) /\ n = SubSeq(t, a, b)
    BY NameInAt
  <2> QED
    BY <2>1 DEF NameAt
<1>3. /\ a <= b
      /\ b = Len(t) \/ t[b + 1] \in Marks
      /\ a \in Nat \ {0} /\ b \in Nat /\ b <= Len(t)
      /\ c \in Nat \ {0} /\ e \in Nat \ {0} /\ c <= a
  <2>1. IsRun(t, a, b) /\ c <= a
    BY <1>2
  <2>2. a <= b /\ (b = Len(t) \/ t[b + 1] \in Marks)
    BY <2>1 DEF IsRun
  <2>3. /\ a \in Nat \ {0} /\ b \in Nat /\ b <= Len(t)
        /\ c \in Nat \ {0} /\ e \in Nat \ {0}
    BY <1>1
  <2> QED
    BY <2>1, <2>2, <2>3
<1>4. n \in Text /\ Len(n) = b - a + 1 /\ \A j \in 1..(b - a + 1) : n[j] = t[a + j - 1]
  <2>1. a \in Nat \ {0} /\ b \in Nat /\ b <= Len(t) /\ a <= b
    BY <1>3
  <2>2. /\ SubSeq(t, a, b) \in Text
        /\ Len(SubSeq(t, a, b)) = IF a <= b THEN b - a + 1 ELSE 0
        /\ \A j \in 1..(b - a + 1) : SubSeq(t, a, b)[j] = t[a + j - 1]
    BY <2>1, PartOf
  <2> QED
    BY <1>2, <2>1, <2>2
<1> DEFINE g == SubSeq(t, e, a - 1)
           m == SubSeq(t, c, a - 1)
<1>5. /\ m \in Text
      /\ Len(m) = a - c
      /\ \A j \in 1..(a - c) : m[j] = t[c + j - 1] /\ m[j] \in Marks
  <2>1. c \in Nat \ {0} /\ a - 1 \in Nat /\ a - 1 <= Len(t)
    BY <1>1, <1>2
  <2>2. /\ m \in Text
        /\ Len(m) = IF c <= a - 1 THEN a - 1 - c + 1 ELSE 0
        /\ \A j \in 1..(a - 1 - c + 1) : m[j] = t[c + j - 1]
    BY <2>1, PartOf
  <2> HIDE DEF m
  <2>3. Len(m) = a - c /\ a - 1 - c + 1 = a - c
    BY <2>1, <2>2, <1>2
  <2>4. ASSUME NEW j \in 1..(a - c) PROVE m[j] = t[c + j - 1] /\ m[j] \in Marks
    <3>1. c + j - 1 \in c..(a - 1)
      BY <2>1, <1>2
    <3> QED
      BY <3>1, <1>2, <2>2, <2>3
  <2> QED
    BY <2>2, <2>3, <2>4
<1>6. Strip(g, JoinChat) = m
  <2>1. e \in Nat \ {0} /\ a - 1 \in Nat /\ a - 1 <= Len(t) /\ e <= a
    BY <1>1, <1>2
  <2>2. /\ g \in Text
        /\ Len(g) = IF e <= a - 1 THEN a - 1 - e + 1 ELSE 0
        /\ \A j \in 1..(a - 1 - e + 1) : g[j] = t[e + j - 1]
    BY <2>1, PartOf
  <2> HIDE DEF g, m
  <2>3. Len(g) = a - e /\ \A j \in 1..(a - e) : g[j] = t[e + j - 1]
    <3>1. Len(g) = a - e /\ a - 1 - e + 1 = a - e
      BY <2>1, <2>2, <1>2
    <3> QED
      BY <3>1, <2>2
  <2>4. StartsWith(g, JoinChat) <=> 3 <= Len(g) /\ \A j \in 1..3 : g[j] = JoinChat[j]
    <3>1. StartsWith(g, JoinChat)
          <=> Len(JoinChat) <= Len(g) /\ \A j \in 1..Len(JoinChat) : g[j] = JoinChat[j]
      BY <2>2, Literals, Begins
    <3> QED
      BY <3>1, Literals
  <2>5. CASE c = e
    <3>1. g = m
      BY <2>5 DEF g, m
    <3>2. ~StartsWith(g, JoinChat)
      <4>1. ASSUME StartsWith(g, JoinChat) PROVE FALSE
        <5>1. g[1] = "join" /\ 1 \in 1..(a - c)
          BY <4>1, <2>1, <2>3, <2>4, <2>5, Literals
        <5>2. g[1] \in Marks
          BY <5>1, <3>1, <1>5
        <5> QED
          BY <5>1, <5>2, WordsOrMarks
      <4> QED
        BY <4>1
    <3> QED
      BY <3>1, <3>2 DEF Strip
  <2>6. CASE JoinAt(t, e) /\ c = e + 3
    <3>1. StartsWith(g, JoinChat)
      <4>1. /\ 3 <= Len(g) /\ {1, 2, 3} \subseteq 1..(a - e)
            /\ e + 1 - 1 = e /\ e + 2 - 1 = e + 1 /\ e + 3 - 1 = e + 2
        BY <2>1, <2>3, <2>6, <1>2
      <4>2. g[1] = t[e] /\ g[2] = t[e + 1] /\ g[3] = t[e + 2]
        BY <4>1, <2>3
      <4>3. g[1] = JoinChat[1] /\ g[2] = JoinChat[2] /\ g[3] = JoinChat[3]
        BY <4>2, <2>6, Literals DEF JoinAt
      <4>4. \A j \in 1..3 : j = 1 \/ j = 2 \/ j = 3
        OBVIOUS
      <4> QED
        BY <4>1, <4>3, <4>4, <2>4
    <3>2. Strip(g, JoinChat) = From(g, 4)
      BY <3>1, Literals DEF Strip
    <3>3. /\ From(g, 4) \in Text
          /\ Len(From(g, 4)) = Len(g) - 4 + 1
          /\ \A j \in 1..(Len(g) - 4 + 1) : From(g, 4)[j] = g[4 + j - 1]
      <4>1. 4 \in 1..(Len(g) + 1)
        <5>1. Len(g) \in Nat /\ 3 <= Len(g)
          BY <2>1, <2>3, <2>6, <1>3
        <5> QED
          BY <5>1
      <4> QED
        BY <4>1, <2>2, FromHere
    <3> DEFINE u == From(g, 4)
    <3> HIDE DEF u
    <3>4. Len(u) = a - c /\ Len(g) - 4 + 1 = a - c
      BY <3>3, <2>1, <2>3, <2>6, <1>2 DEF u
    <3>5. ASSUME NEW j \in 1..(a - c) PROVE u[j] = m[j]
      <4>1. 4 + j - 1 \in 1..(a - e) /\ e + (4 + j - 1) - 1 = c + j - 1
        BY <2>1, <2>6, <1>2
      <4>2. u[j] = g[4 + j - 1]
        BY <3>3, <3>4 DEF u
      <4>3. g[4 + j - 1] = t[e + (4 + j - 1) - 1]
        BY <4>1, <2>3
      <4> QED
        BY <4>1, <4>2, <4>3, <1>5 DEF m
    <3>6. u = m
      <4>1. u \in Seq(Words \cup Marks) /\ m \in Seq(Words \cup Marks) /\ Len(u) = Len(m)
        BY <3>3, <3>4, <1>5 DEF u, m, Text
      <4>2. \A j \in 1..Len(u) : u[j] = m[j]
        BY <3>4, <3>5
      <4> QED
        BY <4>1, <4>2, SeqEqual
    <3> QED
      BY <3>2, <3>6 DEF u
  <2> QED
    BY <2>5, <2>6
<1>7. \A j \in DOMAIN m : m[j] \in Marks
  <2>1. DOMAIN m = 1..Len(m)
    BY <1>5, TextType
  <2> HIDE DEF m
  <2> QED
    BY <2>1, <1>5
<1>8. Offset(m, Len(m) + 1) < 8
  <2> DEFINE u == From(t, c)
  <2>1. /\ Len(m) + 1 \in Nat /\ Len(m) + 1 = a - c + 1
        /\ 1..(Len(m) + 1 - 1) = 1..(a - c)
    <3> HIDE DEF m
    <3> QED
      BY <1>1, <1>2, <1>5
  <2>2. \A j \in 1..(a - c) : u[j] = t[c + j - 1]
    <3>1. \A j \in 1..(Len(t) - c + 1) : u[j] = t[c + j - 1]
      BY FromHere
    <3> HIDE DEF u
    <3>2. 1..(a - c) \subseteq 1..(Len(t) - c + 1)
      BY <1>1, <1>2
    <3> QED
      BY <3>1, <3>2
  <2> HIDE DEF m, u
  <2>3. \A j \in 1..(Len(m) + 1 - 1) : m[j] = u[j]
    BY <2>1, <2>2, <1>5
  <2>4. Offset(m, Len(m) + 1) = Offset(u, Len(m) + 1)
    BY <2>1, <2>3, SameOffset
  <2> QED
    BY <2>1, <2>4, <1>2 DEF u
<1> DEFINE v == Folded(t)
           w == Folded(n)
<1>9. At(v, a, w) /\ Len(w) = b - a + 1
  <2>1. v \in Text /\ Len(v) = Len(t) /\ \A j \in 1..Len(t) : v[j] = Lower(t[j])
    BY FoldedPieces
  <2>2. w \in Text /\ Len(w) = Len(n) /\ \A j \in 1..Len(n) : w[j] = Lower(n[j])
    BY <1>4, FoldedPieces
  <2> HIDE DEF v, w
  <2>3. a \in 1..(Len(v) + 1)
    BY <1>1, <2>1
  <2>4. a + Len(w) - 1 <= Len(v) /\ 1..Len(w) = 1..(b - a + 1) /\ Len(w) = b - a + 1
    BY <1>1, <1>4, <2>1, <2>2
  <2>5. ASSUME NEW j \in 1..Len(w) PROVE v[a + j - 1] = w[j]
    <3>1. a + j - 1 \in 1..Len(t)
      BY <1>1, <2>1, <2>4
    <3>2. n[j] = t[a + j - 1] /\ w[j] = Lower(n[j])
      BY <1>4, <2>2, <2>4
    <3>3. v[a + j - 1] = Lower(t[a + j - 1])
      BY <2>1, <3>1
    <3> QED
      BY <3>2, <3>3
  <2>6. StartsWith(From(v, a), w)
        <=> a + Len(w) - 1 <= Len(v) /\ \A j \in 1..Len(w) : v[a + j - 1] = w[j]
    BY <2>1, <2>2, <2>3, BeginsAt
  <2> QED
    BY <2>4, <2>5, <2>6 DEF At
<1> HIDE DEF w
<1>10. a + Len(w) > Len(t) \/ t[a + Len(w)] \in Marks
  <2>1. a + Len(w) = b + 1
    BY <1>1, <1>9
  <2>2. CASE b = Len(t)
    BY <2>1, <2>2, <1>1
  <2>3. CASE t[b + 1] \in Marks
    BY <2>1, <2>3
  <2> QED
    BY <2>2, <2>3, <1>3
<1>11. a \in (k + Len(h))..Len(t)
  BY <1>1, <1>2
<1> HIDE DEF g, m
<1>12. LET gap == Strip(SubSeq(t, k + Len(h), a - 1), JoinChat)
       IN  /\ \A j \in DOMAIN gap : gap[j] \in Marks
           /\ Offset(gap, Len(gap) + 1) < 8
  BY <1>6, <1>7, <1>8 DEF g
<1> QED
  BY <1>1, <1>9, <1>10, <1>11, <1>12 DEF Named, w

\* The heads, put together.
LEMMA HeadIs ==
  ASSUME NEW h \in Heads
  PROVE  \E u \in Text, c \in {"me", "dev", "dog", "pe"} :
           /\ h = u \o <<".", c, "/">>
           /\ u = <<"t">> \/ \E w \in Tails : u = <<"t", w>>
<1>1. PICK u \in Hosts, d \in Domains : h = u \o d
  BY DEF Heads
<1>2. PICK c \in {"me", "dev", "dog", "pe"} : d = <<".", c, "/">>
  BY DEF Domains
<1>3. u \in Text /\ (u = <<"t">> \/ \E w \in Tails : u = <<"t", w>>)
  <2>1. u = <<"t">> \/ \E w \in Tails : u = <<"t", w>>
    BY DEF Hosts
  <2>2. "t" \in Words \cup Marks
    BY WordsOrMarks
  <2> QED
    BY <2>1, <2>2, Literals
<1> QED
  BY <1>1, <1>2, <1>3

\* A head in the text is one that inspect sees.
LEMMA HeadSeen ==
  ASSUME NEW t \in Text, NEW k \in 1..Len(t), NEW h \in Heads, At(t, k, h)
  PROVE  /\ h \in Text /\ Len(h) \in Nat
         /\ t[k] = "t" /\ ~TgAt(t, k + 1)
         /\ DomainAt(t, SkipTail(t, k + 1))
         /\ k + Len(h) = SkipTail(t, k + 1) + 3
<1>1. Len(t) \in Nat /\ k \in Nat \ {0} /\ k \in 1..(Len(t) + 1) /\ k + 1 \in 1..(Len(t) + 1)
  BY TextType
<1>2. PICK u \in Text, c \in {"me", "dev", "dog", "pe"} :
        /\ h = u \o <<".", c, "/">>
        /\ u = <<"t">> \/ \E w \in Tails : u = <<"t", w>>
  BY HeadIs
<1> DEFINE d == <<".", c, "/">>
<1>3. d \in Text /\ Len(d) = 3
  BY Literals
<1>4. /\ At(t, k, u) /\ At(t, k + Len(u), d)
      /\ h \in Text /\ Len(h) = Len(u) + 3
  <2>1. h = u \o d
    BY <1>2
  <2> HIDE DEF d
  <2>2. At(t, k, u) /\ At(t, k + Len(u), d)
    BY <2>1, <1>1, <1>3, ConcatAt
  <2>3. h \in Text /\ Len(h) = Len(u) + Len(d)
    BY <2>1, <1>3, ConcatProperties DEF Text
  <2> QED
    BY <2>2, <2>3, <1>3
<1>5. "t" \in Words \cup Marks
  BY WordsOrMarks
<1>6. CASE u = <<"t">>
  <2>1. Len(u) = 1 /\ t[k] = "t"
    BY <1>1, <1>4, <1>5, <1>6, Literals, LiteralsAt
  <2>2. DomainAt(t, k + 1)
    BY <1>1, <1>4, <2>1, LiteralsAt
  <2>3. t[k + 1] = "."
    BY <2>2 DEF DomainAt
  <2>4. SkipTail(t, k + 1) = k + 1 /\ ~TgAt(t, k + 1)
    BY <2>3 DEF SkipTail, TgAt, Tails
  <2>5. Len(h) \in Nat /\ k + Len(h) = (k + 1) + 3
    BY <1>1, <1>4, <2>1
  <2> QED
    BY <1>4, <2>1, <2>2, <2>4, <2>5
<1>7. ASSUME NEW w \in Tails, u = <<"t", w>>
      PROVE  /\ Len(u) = 2 /\ t[k] = "t" /\ t[k + 1] = w /\ k + 1 <= Len(t)
             /\ DomainAt(t, k + 2)
  <2>1. Len(u) = 2
    BY <1>7, Literals
  <2>2. k + 1 <= Len(t) /\ t[k] = "t" /\ t[k + 1] = w
    BY <1>1, <1>4, <1>7, LiteralsAt
  <2>3. k + 2 \in 1..(Len(t) + 1)
    BY <1>1, <2>2
  <2>4. DomainAt(t, k + 2)
    BY <1>4, <2>1, <2>3, LiteralsAt
  <2> QED
    BY <2>1, <2>2, <2>4
<1>8. CASE \E w \in Tails : u = <<"t", w>>
  <2>1. PICK w \in Tails : u = <<"t", w>>
    BY <1>8
  <2>2. /\ Len(u) = 2 /\ t[k] = "t" /\ t[k + 1] = w /\ k + 1 <= Len(t)
        /\ DomainAt(t, k + 2)
    BY <1>7, <2>1
  <2>3. SkipTail(t, k + 1) = k + 2
    BY <2>2, <1>1 DEF SkipTail
  <2>4. t[k + 2] = "." /\ (k + 1) + 1 = k + 2
    BY <2>2, <1>1 DEF DomainAt
  <2>5. ~TgAt(t, k + 1)
    BY <2>4 DEF TgAt
  <2>6. Len(h) \in Nat /\ k + Len(h) = (k + 2) + 3
    BY <1>1, <1>4, <2>2
  <2> QED
    BY <1>4, <2>2, <2>3, <2>5, <2>6
<1> QED
  BY <1>2, <1>6, <1>8

\* And what inspect sees is a head.
LEMMA SeenHead ==
  ASSUME NEW t \in Text, NEW k \in 1..Len(t), t[k] = "t",
         DomainAt(t, SkipTail(t, k + 1))
  PROVE  \E h \in Heads : At(t, k, h) /\ k + Len(h) = SkipTail(t, k + 1) + 3
<1>1. Len(t) \in Nat /\ k \in Nat \ {0} /\ k \in 1..(Len(t) + 1) /\ k + 1 \in 1..(Len(t) + 1)
  BY TextType
<1> DEFINE e == SkipTail(t, k + 1)
           c == t[e + 1]
           d == <<".", c, "/">>
<1>2. c \in {"me", "dev", "dog", "pe"}
  BY DEF DomainAt
<1>3. d \in Text /\ Len(d) = 3 /\ d \in Domains
  BY <1>2, Literals DEF Domains
<1>4. e = k + 1 \/ (e = k + 2 /\ k + 1 <= Len(t) /\ t[k + 1] \in Tails)
  BY <1>1 DEF SkipTail
<1>5. e \in 1..(Len(t) + 1)
  <2> HIDE DEF e
  <2> QED
    BY <1>1, <1>4
<1>6. At(t, e, d)
  <2> HIDE DEF e
  <2>1. At(t, e, <<".", c, "/">>) <=> DomainAt(t, e) /\ t[e + 1] = c
    BY <1>2, <1>5, LiteralsAt
  <2> QED
    BY <2>1 DEF e
<1> HIDE DEF e, d
<1>7. ASSUME NEW u \in Hosts, u \in Text, At(t, k, u), k + Len(u) = e
      PROVE  \E h \in Heads : At(t, k, h) /\ k + Len(h) = e + 3
  <2> DEFINE h == u \o d
  <2>1. h \in Heads
    <3>1. u \in Hosts /\ d \in Domains
      BY <1>3
    <3> QED
      BY <3>1 DEF Heads
  <2>2. Len(u) \in Nat /\ Len(h) = Len(u) + 3
    <3>1. Len(u) \in Nat
      BY <1>7, TextType
    <3>2. u \in Seq(Words \cup Marks) /\ d \in Seq(Words \cup Marks)
      BY <1>3, <1>7 DEF Text
    <3>3. Len(h) = Len(u) + Len(d)
      BY <3>2, ConcatProperties
    <3> QED
      BY <3>1, <3>3, <1>3
  <2>3. At(t, k, h)
    BY <1>1, <1>3, <1>6, <1>7, ConcatAt
  <2> HIDE DEF h
  <2>4. k + Len(h) = e + 3
    BY <1>1, <1>7, <2>2
  <2> QED
    BY <2>1, <2>3, <2>4
<1>8. CASE e = k + 1
  <2>1. <<"t">> \in Hosts /\ "t" \in Words \cup Marks
    BY WordsOrMarks DEF Hosts
  <2>2. <<"t">> \in Text /\ Len(<<"t">>) = 1
    BY <2>1, Literals
  <2>3. At(t, k, <<"t">>)
    BY <2>1, <1>1, LiteralsAt
  <2>4. \E h \in Heads : At(t, k, h) /\ k + Len(h) = e + 3
    BY <1>7, <1>8, <2>1, <2>2, <2>3
  <2> QED
    BY <2>4 DEF e
<1>9. CASE e = k + 2 /\ k + 1 <= Len(t) /\ t[k + 1] \in Tails
  <2> DEFINE u == <<"t", t[k + 1]>>
  <2>1. u \in Hosts
    BY <1>9 DEF Hosts
  <2>2. u \in Text /\ Len(u) = 2
    BY <1>9, Literals
  <2>3. At(t, k, u)
    BY <1>1, <1>9, LiteralsAt
  <2> HIDE DEF u
  <2>4. \E h \in Heads : At(t, k, h) /\ k + Len(h) = e + 3
    BY <1>7, <1>9, <2>1, <2>2, <2>3
  <2> QED
    BY <2>4 DEF e
<1> QED
  BY <1>4, <1>8, <1>9

\* What is taken for a name stands behind a head.
LEMMA TakenIsNamed ==
  ASSUME NEW t \in Text, NEW n, n \in Taken(t)
  PROVE  Named(t, Folded(n))
<1>1. PICK k \in Matches(t) : \E s \in AfterHead(From(t, k + 1)) : n \in NameIn(s)
  BY DEF Taken
<1>2. PICK s \in AfterHead(From(t, k + 1)) : n \in NameIn(s)
  BY <1>1
<1>3. /\ Len(t) \in Nat /\ k \in 1..Len(t) /\ t[k] = "t"
      /\ k \in Nat \ {0} /\ k \in 1..(Len(t) + 1) /\ k + 1 \in 1..(Len(t) + 1)
  BY TextType DEF Matches
<1> DEFINE e == SkipTail(t, k + 1)
<1>4. AfterHead(From(t, k + 1))
      = IF TgAt(t, k + 1) THEN {From(t, (k + 1) + 3)}
        ELSE IF DomainAt(t, e) THEN {From(t, SkipJoin(t, e + 3))}
        ELSE {}
  BY <1>3, AfterHeadAt
<1>5. CASE TgAt(t, k + 1)
  <2> DEFINE h == <<"t">> \o TgJoin
  <2>1. "t" \in Words \cup Marks
    BY WordsOrMarks
  <2>2. <<"t">> \in Text /\ Len(<<"t">>) = 1 /\ TgJoin \in Text /\ Len(TgJoin) = 3
    BY <2>1, Literals
  <2>3. Len(h) = 4
    <3>1. Len(h) = Len(<<"t">>) + Len(TgJoin)
      BY <2>2, ConcatProperties DEF Text
    <3> QED
      BY <2>2, <3>1
  <2>4. At(t, k, h)
    <3>1. At(t, k, <<"t">>)
      BY <2>1, <1>3, LiteralsAt
    <3>2. At(t, k + Len(<<"t">>), TgJoin)
      BY <2>2, <1>3, <1>5, LiteralsAt
    <3> QED
      BY <3>1, <3>2, <2>2, <1>3, ConcatAt
  <2>5. k + 4 \in 1..(Len(t) + 1) /\ (k + 1) + 3 = k + 4
    BY <1>3, <1>5 DEF TgAt
  <2>6. n \in NameIn(From(t, k + 4))
    BY <1>2, <1>4, <1>5, <2>5
  <2>7. h \in Heads \cup {<<"t">> \o TgJoin}
    OBVIOUS
  <2> HIDE DEF h
  <2> QED
    BY <2>3, <2>4, <2>5, <2>6, <2>7, <1>3, NamedAt
<1>6. CASE ~TgAt(t, k + 1)
  <2>1. DomainAt(t, e) /\ s = From(t, SkipJoin(t, e + 3))
    BY <1>2, <1>4, <1>6
  <2>2. PICK h \in Heads : At(t, k, h) /\ k + Len(h) = e + 3
    BY <2>1, <1>3, SeenHead
  <2> DEFINE f == e + 3
             c == SkipJoin(t, f)
  <2>3. e \in Nat /\ f \in 1..(Len(t) + 1)
    BY <2>1, <1>3 DEF SkipTail, DomainAt
  <2> HIDE DEF e, f
  <2>4. c \in 1..(Len(t) + 1) /\ (c = f \/ (JoinAt(t, f) /\ c = f + 3))
    BY <2>3, <1>3 DEF SkipJoin, JoinAt
  <2>5. n \in NameIn(From(t, c)) /\ f = k + Len(h)
    BY <1>2, <2>1, <2>2 DEF f
  <2> HIDE DEF c
  <2> QED
    BY <1>3, <2>2, <2>3, <2>4, <2>5, NamedAt
<1> QED
  BY <1>5, <1>6

\* The name of a link as people write it is taken.
LEMMA MeantIsTaken ==
  ASSUME NEW t \in Text
  PROVE  AsWritten(t) \subseteq Taken(t)
<1> SUFFICES ASSUME NEW n \in AsWritten(t) PROVE n \in Taken(t)
  OBVIOUS
<1>1. Len(t) \in Nat /\ DOMAIN t = 1..Len(t)
  BY TextType
<1>2. PICK r \in Spans(t), h \in Heads, f \in {<<>>, <<"+">>, JoinChat \o <<"/">>} :
        /\ n = SubSeq(t, r[1], r[2])
        /\ IsRun(t, r[1], r[2])
        /\ LET k == r[1] - Len(h \o f)
           IN  /\ k >= 1
               /\ At(t, k, h \o f)
               /\ f = <<>> => ~At(t, r[1], JoinChat)
  BY DEF AsWritten
<1> DEFINE a == r[1]
           b == r[2]
           k == a - Len(h \o f)
<1>3. a \in 1..Len(t) /\ b \in 1..Len(t)
  BY DEF Spans
<1>4. /\ n = SubSeq(t, a, b) /\ IsRun(t, a, b)
      /\ k >= 1 /\ At(t, k, h \o f)
      /\ f = <<>> => ~At(t, a, JoinChat)
  BY <1>2
<1> HIDE DEF a, b
<1>5. {"+", "/"} \subseteq Words \cup Marks
  BY WordsOrMarks
<1>6. f \in Text /\ h \in Text
  <2>1. <<"/">> \in Text
    BY <1>5, Literals
  <2>2. JoinChat \o <<"/">> \in Text
    BY <2>1, Literals, ConcatProperties DEF Text
  <2>3. f \in Text
    BY <2>2, <1>5, Literals
  <2>4. h \in Text
    <3>1. PICK u \in Text, c \in {"me", "dev", "dog", "pe"} : h = u \o <<".", c, "/">>
      BY HeadIs
    <3>2. <<".", c, "/">> \in Text
      BY Literals
    <3> QED
      BY <3>1, <3>2, ConcatProperties DEF Text
  <2> QED
    BY <2>3, <2>4
<1>7. Len(h) \in Nat /\ Len(f) \in Nat /\ Len(h \o f) = Len(h) + Len(f)
  <2>1. Len(h \o f) = Len(h) + Len(f)
    BY <1>6, ConcatProperties DEF Text
  <2> QED
    BY <2>1, <1>6, TextType
<1>8. k \in 1..Len(t) /\ k + Len(h) + Len(f) = a /\ k \in 1..(Len(t) + 1) /\ k \in Nat \ {0}
  BY <1>1, <1>3, <1>4, <1>7
<1> HIDE DEF k
<1>9. At(t, k, h) /\ At(t, k + Len(h), f)
  BY <1>4, <1>6, <1>8, ConcatAt
<1> DEFINE e == SkipTail(t, k + 1)
           g == e + 3
           c == SkipJoin(t, g)
<1>10. /\ t[k] = "t" /\ ~TgAt(t, k + 1) /\ DomainAt(t, e)
       /\ k + Len(h) = g
  BY <1>8, <1>9, HeadSeen
<1> HIDE DEF e
<1>11. g \in 1..(Len(t) + 1) /\ g \in Nat \ {0} /\ g + Len(f) = a
  <2>1. k + Len(h) = g /\ k + Len(h) \in Nat \ {0} /\ k + Len(h) + Len(f) = a
    BY <1>7, <1>8, <1>10
  <2> HIDE DEF g
  <2> QED
    BY <2>1, <1>1, <1>3, <1>7
<1>12. From(t, c) \in AfterHead(From(t, k + 1))
  <2>1. k + 1 \in 1..(Len(t) + 1)
    BY <1>1, <1>8
  <2>2. AfterHead(From(t, k + 1))
        = IF TgAt(t, k + 1) THEN {From(t, (k + 1) + 3)}
          ELSE IF DomainAt(t, e) THEN {From(t, SkipJoin(t, e + 3))}
          ELSE {}
    BY <2>1, AfterHeadAt DEF e
  <2> QED
    BY <2>2, <1>10
<1> HIDE DEF g
<1>13. At(t, g, f)
  BY <1>9, <1>10
<1>14. c \in 1..(Len(t) + 1) /\ NameAt(t, c, a, b)
  <2>1. CASE f = <<>>
    <3>1. Len(f) = 0 /\ g = a
      BY <2>1, <1>11
    <3>2. ~JoinAt(t, a)
      BY <2>1, <1>4, <1>11, <3>1, LiteralsAt
    <3>3. c = a
      BY <3>1, <3>2 DEF SkipJoin
    <3>4. a - a + 1 = 1 /\ a <= a /\ \A j \in a..(a - 1) : t[j] \in Marks
      BY <1>3
    <3>5. Offset(From(t, a), a - a + 1) < 8
      BY <3>4, SmallOffset
    <3> QED
      BY <3>1, <3>3, <3>4, <3>5, <1>4, <1>11 DEF NameAt
  <2>2. ASSUME NEW x \in Nat \ {0}, x + 1 = a, t[x] \in {"+", "/"}
        PROVE  x \in 1..(Len(t) + 1) /\ NameAt(t, x, a, b)
    <3>1. x \in 1..(Len(t) + 1) /\ a - x + 1 = 2 /\ x <= a /\ 1 \in 1..(Len(t) - x + 1)
          /\ x + 1 - 1 = x
      BY <2>2, <1>1, <1>3
    <3>2. \A j \in x..(a - 1) : j = x
      BY <2>2
    <3>3. t[x] \in Marks
      BY <2>2, WordsOrMarks
    <3>4. From(t, x)[1] = t[x]
      BY <3>1, FromHere
    <3>5. Offset(From(t, x), 2) < 8
      BY <2>2, <3>4, SmallOffset
    <3> QED
      BY <3>1, <3>2, <3>3, <3>5, <1>4 DEF NameAt
  <2>3. CASE f = <<"+">>
    <3>1. Len(f) = 1 /\ t[g] = "+"
      BY <2>3, <1>5, <1>11, <1>13, Literals, LiteralsAt
    <3>2. ~JoinAt(t, g)
      BY <3>1 DEF JoinAt
    <3>3. c = g /\ g + 1 = a
      BY <3>1, <3>2, <1>11 DEF SkipJoin
    <3> QED
      BY <2>2, <3>1, <3>3, <1>11
  <2>4. CASE f = JoinChat \o <<"/">>
    <3>1. <<"/">> \in Text /\ Len(<<"/">>) = 1 /\ JoinChat \in Text /\ Len(JoinChat) = 3
      BY <1>5, Literals
    <3>2. Len(f) = 4
      <4>1. Len(f) = Len(JoinChat) + Len(<<"/">>)
        BY <2>4, <3>1, ConcatProperties DEF Text
      <4> QED
        BY <4>1, <3>1
    <3>3. At(t, g, JoinChat) /\ At(t, g + 3, <<"/">>)
      BY <2>4, <3>1, <1>11, <1>13, ConcatAt
    <3>4. JoinAt(t, g)
      BY <3>3, <1>11, LiteralsAt
    <3>5. c = g + 3 /\ c \in Nat \ {0} /\ c + 1 = a /\ c \in 1..(Len(t) + 1)
      <4>1. c = g + 3
        BY <3>4 DEF SkipJoin
      <4> HIDE DEF c
      <4> QED
        BY <4>1, <3>2, <1>1, <1>3, <1>11
    <3> HIDE DEF c
    <3>6. t[c] = "/"
      BY <3>3, <3>5, <1>5, LiteralsAt
    <3> QED
      BY <2>2, <3>5, <3>6
  <2> QED
    BY <2>1, <2>3, <2>4
<1> HIDE DEF c
<1>15. n \in NameIn(From(t, c))
  BY <1>3, <1>4, <1>14, NameInAt
<1>16. k \in Matches(t)
  BY <1>1, <1>8, <1>10 DEF Matches
<1> QED
  BY <1>12, <1>15, <1>16 DEF Taken

-----------------------------------------------------------------------------
(* NamesRight.                                                             *)

\* The names are those of the rows that have been read.
DictInv == dict = UNION {Found(m.text) : m \in Read}

\* Only the start of a run, its query and its rows bear on that.
LEMMA DictStep == IInv /\ DictInv /\ [Next]_vars => DictInv'
<1> SUFFICES ASSUME IInv, DictInv, [Next]_vars PROVE DictInv'
  OBVIOUS
<1>1. CASE Start
  <2>1. dict' = {} /\ Read' = {}
    BY <1>1 DEF Start, Read
  <2> QED
    BY <2>1 DEF DictInv
<1>2. CASE Query
  <2>1. dict = {} /\ dict' = dict /\ snapshot' = todo'
    BY <1>2 DEF Query, IInv, PhaseInv
  <2>2. Read' = {}
    BY <2>1 DEF Read
  <2> QED
    BY <2>1, <2>2 DEF DictInv
<1>3. ASSUME NEW m \in todo, Row(m) PROVE DictInv'
  <2>1. dict' = dict \cup Found(m.text) /\ todo' = todo \ {m} /\ snapshot' = snapshot
    BY <1>3 DEF Row, past
  <2>2. m \in snapshot
    BY <1>3 DEF IInv, TypeOK
  <2>3. Read' = Read \cup {m}
    BY <2>1, <2>2, <1>3 DEF Read
  <2> QED
    BY <2>1, <2>3 DEF DictInv
<1>4. ASSUME UNCHANGED <<snapshot, todo, dict>> PROVE DictInv'
  BY <1>4 DEF DictInv, Read
<1>5. ASSUME NEW m \in Arrivals, Store(m) PROVE UNCHANGED <<snapshot, todo, dict>>
  BY <1>5 DEF Store, scan, past
<1>6. ASSUME NEW n \in Names, Learn(n) PROVE UNCHANGED <<snapshot, todo, dict>>
  BY <1>6 DEF Learn, scan, past
<1>7. CASE Fail \/ EndOfStream \/ Commit \/ CommitFail
  BY <1>4, <1>7 DEF Fail, EndOfStream, Commit, CommitFail, scan, past
<1>8. ASSUME NEW n \in left, Write(n) PROVE UNCHANGED <<snapshot, todo, dict>>
  BY <1>8 DEF Write, scan, past
<1>9. CASE WriteFail \/ Written \/ Drop \/ DropFail
  BY <1>4, <1>9 DEF WriteFail, Written, Drop, DropFail, scan, past
<1>10. CASE Crash \/ UNCHANGED vars
  BY <1>4, <1>10 DEF Crash, vars, scan, past
<1> QED
  BY <1>1, <1>2, <1>3, <1>4, <1>5, <1>6, <1>7, <1>8, <1>9, <1>10 DEF Next, RunStep, Terminated

(***************************************************************************)
(* In a text of any length, the scan of inspect (extract.rs 39-91) finds   *)
(* every link whose head is in lower case and whose name, in any spelling, *)
(* does not begin with joinchat, and only names that stand behind a head.  *)
(***************************************************************************)
THEOREM NamesAreRight == Spec => []NamesRight
<1>1. Init => DictInv
  BY DEF Init, DictInv, Read
<1>2. Spec => []DictInv
  BY <1>1, DictStep, Invariance, PTL DEF Spec
<1>3. IInv /\ DictInv => NamesRight
  <2> SUFFICES ASSUME IInv, DictInv PROVE NamesRight
    OBVIOUS
  <2>1. \A m \in Read : m.text \in Text
    BY DEF IInv, TypeOK, Read, Messages
  <2>2. ASSUME NEW m \in Read PROVE Meant(m.text) \subseteq Found(m.text)
    <3>1. AsWritten(m.text) \subseteq Taken(m.text)
      BY <2>1, MeantIsTaken
    <3> QED
      BY <3>1 DEF Meant, Found
  <2>3. EveryLinkFound
    BY <2>2 DEF EveryLinkFound, DictInv
  <2>4. ASSUME NEW m \in Read, NEW n \in Found(m.text) PROVE Named(m.text, n)
    <3>1. PICK x \in Taken(m.text) : n = Folded(x)
      BY DEF Found
    <3> QED
      BY <2>1, <3>1, TakenIsNamed
  <2>5. NothingInvented
    BY <2>4 DEF NothingInvented, DictInv
  <2> QED
    BY <2>3, <2>5 DEF NamesRight
<1> QED
  BY <1>2, <1>3, Invariance, PTL
=============================================================================
