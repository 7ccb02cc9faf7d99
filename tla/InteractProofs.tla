--------------------------- MODULE InteractProofs ---------------------------
(***************************************************************************)
(* Proofs about Interact: the type invariant, that a waiting future is     *)
(* reachable, and that no row is for another bot or another request's      *)
(* answer, for any set of bots and any number of messages and failures.    *)
(***************************************************************************)
EXTENDS Interact, TLAPS

\* A oneshot channel holds a message of its own bot, unasked or on a request
\* that was sent.
OwnMessage ==
  \A b \in Bots : slot[b] # None =>
    /\ slot[b].bot = b
    /\ slot[b].re = "unasked" \/ <<b, slot[b].re>> \in sent

\* /help is sent last.
HelpIsLast == \A b \in Bots : <<b, "/help">> \in sent => req[b] = "/help"

IInv == TypeOK /\ Reachable /\ OwnMessage /\ HelpIsLast /\ HonestRows

-----------------------------------------------------------------------------
(* The invariant holds at the start (interact_bot_into_future).            *)
LEMMA InitIInv == Init => IInv
  BY InteractAssumption
  DEF Init, IInv, TypeOK, Reachable, OwnMessage, HelpIsLast, HonestRows, PCs, Requests

\* Every step keeps the types.
LEMMA TypeStep == TypeOK /\ [Next]_vars => TypeOK'
<1> SUFFICES ASSUME TypeOK, [Next]_vars PROVE TypeOK'
  OBVIOUS
<1> USE InteractAssumption DEF TypeOK, PCs, Requests, Goto, NoFault, Fault
<1>1. ASSUME NEW b \in Bots, SendOk(b) PROVE TypeOK'
  BY <1>1 DEF SendOk
<1>2. ASSUME NEW b \in Bots, SendFail(b) PROVE TypeOK'
  BY <1>2 DEF SendFail, NextRequest
<1>3. ASSUME NEW b \in Bots, Register(b) PROVE TypeOK'
  BY <1>3 DEF Register
<1>4. ASSUME NEW b \in Bots, Receive(b) PROVE TypeOK'
  BY <1>4 DEF Receive
<1>5. ASSUME NEW b \in Bots, TimeOut(b) PROVE TypeOK'
  BY <1>5 DEF TimeOut, NextRequest
<1>6. ASSUME NEW b \in Bots, Record(b) PROVE TypeOK'
  <2>1. slot[b] \in Message
    BY <1>6 DEF Record
  <2>2. Row(b) \in [bot : Bots, message : Message, request : Requests]
    BY <2>1 DEF Row
  <2>3. table' \subseteq [bot : Bots, message : Message, request : Requests]
    BY <1>6, <2>2 DEF Record
  <2> QED
    BY <1>6, <2>3 DEF Record, NextRequest
<1>7. ASSUME NEW b \in Bots, RecordFail(b) PROVE TypeOK'
  BY <1>7 DEF RecordFail, NextRequest
<1>8. ASSUME NEW m \in Message, Deliver(m) PROVE TypeOK'
  <2>1. m.bot \in Bots
    BY DEF Message
  <2>2. promises' \in [Bots -> Requests \cup {None}]
    BY <1>8, <2>1 DEF Deliver
  <2>3. slot' \in [Bots -> Message \cup {None}]
    BY <1>8 DEF Deliver
  <2>4. \A b \in Bots : b \in Taken(m) => pc[b] = "wait"
    BY DEF Taken, ReceiverAlive
  <2>5. \A b \in Bots : /\ slot'[b] # None => pc[b] \in {"wait", "record"}
                        /\ pc[b] = "record" => slot'[b] # None
    BY <1>8, <2>4 DEF Deliver
  <2> QED
    BY <1>8, <2>2, <2>3, <2>5 DEF Deliver
<1>9. CASE Stop
  BY <1>9 DEF Stop
<1>10. CASE UNCHANGED vars
  BY <1>10 DEF vars
<1> QED
  BY <1>1, <1>2, <1>3, <1>4, <1>5, <1>6, <1>7, <1>8, <1>9, <1>10
  DEF Next, BotStep, Terminated

\* While a future waits, the registered sender of its bot is its own: only a
\* delivery to this very future unregisters it.
LEMMA ReachableStep == TypeOK /\ Reachable /\ [Next]_vars => Reachable'
<1> SUFFICES ASSUME TypeOK, Reachable, [Next]_vars PROVE Reachable'
  OBVIOUS
<1> USE InteractAssumption DEF TypeOK, Reachable, Goto, NoFault, Fault
<1>1. ASSUME NEW b \in Bots, SendOk(b) PROVE Reachable'
  BY <1>1 DEF SendOk
<1>2. ASSUME NEW b \in Bots, SendFail(b) PROVE Reachable'
  BY <1>2 DEF SendFail, NextRequest
<1>3. ASSUME NEW b \in Bots, Register(b) PROVE Reachable'
  BY <1>3 DEF Register
<1>4. ASSUME NEW b \in Bots, Receive(b) PROVE Reachable'
  BY <1>4 DEF Receive
<1>5. ASSUME NEW b \in Bots, TimeOut(b) PROVE Reachable'
  BY <1>5 DEF TimeOut, NextRequest
<1>6. ASSUME NEW b \in Bots, Record(b) PROVE Reachable'
  BY <1>6 DEF Record, NextRequest
<1>7. ASSUME NEW b \in Bots, RecordFail(b) PROVE Reachable'
  BY <1>7 DEF RecordFail, NextRequest
<1>8. ASSUME NEW m \in Message, Deliver(m) PROVE Reachable'
  <2> SUFFICES ASSUME NEW b \in Bots, pc[b] = "wait", slot'[b] = None
               PROVE  promises'[b] = req[b]
    BY <1>8 DEF Deliver
  <2>1. slot'[b] = IF b \in Taken(m) THEN m ELSE slot[b]
    BY <1>8 DEF Deliver
  <2>2. b \notin Taken(m) /\ slot[b] = None
    BY <2>1
  <2>3. b # m.bot
    BY <2>2 DEF Taken, ReceiverAlive
  <2> QED
    BY <1>8, <2>2, <2>3 DEF Deliver
<1>9. CASE Stop
  BY <1>9 DEF Stop
<1>10. CASE UNCHANGED vars
  BY <1>10 DEF vars
<1> QED
  BY <1>1, <1>2, <1>3, <1>4, <1>5, <1>6, <1>7, <1>8, <1>9, <1>10
  DEF Next, BotStep, Terminated

\* The listener hands a message to nobody but its bot, and a request is sent
\* only while it is the current one.
LEMMA OwnStep ==
  TypeOK /\ OwnMessage /\ HelpIsLast /\ [Next]_vars => OwnMessage' /\ HelpIsLast'
<1> SUFFICES ASSUME TypeOK, OwnMessage, HelpIsLast, [Next]_vars
             PROVE  OwnMessage' /\ HelpIsLast'
  OBVIOUS
<1> USE InteractAssumption
    DEF TypeOK, Requests, OwnMessage, HelpIsLast, Goto, NoFault, Fault
<1>1. ASSUME NEW b \in Bots, SendOk(b) PROVE OwnMessage' /\ HelpIsLast'
  BY <1>1 DEF SendOk
<1>2. ASSUME NEW b \in Bots, SendFail(b) PROVE OwnMessage' /\ HelpIsLast'
  BY <1>2 DEF SendFail, NextRequest
<1>3. ASSUME NEW b \in Bots, Register(b) PROVE OwnMessage' /\ HelpIsLast'
  BY <1>3 DEF Register
<1>4. ASSUME NEW b \in Bots, Receive(b) PROVE OwnMessage' /\ HelpIsLast'
  BY <1>4 DEF Receive
<1>5. ASSUME NEW b \in Bots, TimeOut(b) PROVE OwnMessage' /\ HelpIsLast'
  BY <1>5 DEF TimeOut, NextRequest
<1>6. ASSUME NEW b \in Bots, Record(b) PROVE OwnMessage' /\ HelpIsLast'
  BY <1>6 DEF Record, NextRequest
<1>7. ASSUME NEW b \in Bots, RecordFail(b) PROVE OwnMessage' /\ HelpIsLast'
  BY <1>7 DEF RecordFail, NextRequest
<1>8. ASSUME NEW m \in Message, Deliver(m) PROVE OwnMessage' /\ HelpIsLast'
  <2>1. \A b \in Bots : b \in Taken(m) => b = m.bot
    BY DEF Taken
  <2> QED
    BY <1>8, <2>1 DEF Deliver
<1>9. CASE Stop
  BY <1>9 DEF Stop
<1>10. CASE UNCHANGED vars
  BY <1>10 DEF vars
<1> QED
  BY <1>1, <1>2, <1>3, <1>4, <1>5, <1>6, <1>7, <1>8, <1>9, <1>10
  DEF Next, BotStep, Terminated

\* Rows are written by Record only, from a channel that holds the bot's own
\* message; a row for /start is written before /help is sent.
LEMMA RowsStep ==
  TypeOK /\ OwnMessage /\ HelpIsLast /\ HonestRows /\ [Next]_vars => HonestRows'
<1> SUFFICES ASSUME TypeOK, OwnMessage, HelpIsLast, HonestRows, [Next]_vars
             PROVE  HonestRows'
  OBVIOUS
<1>1. ASSUME NEW b \in Bots, Record(b) PROVE HonestRows'
  <2>1. slot[b] # None /\ req[b] \in Requests
    BY <1>1 DEF Record, TypeOK
  <2>2. slot[b].bot = b
    BY <2>1 DEF OwnMessage
  <2>3. slot[b].re = "/help" => req[b] = "/help"
    BY <2>1 DEF OwnMessage, HelpIsLast
  <2>4. \A r \in table' : r \in table \/ r = Row(b)
    BY <1>1 DEF Record
  <2> QED
    BY <2>2, <2>3, <2>4 DEF HonestRows, Row
<1>2. ASSUME UNCHANGED table PROVE HonestRows'
  BY <1>2 DEF HonestRows
<1> QED
  BY <1>1, <1>2
  DEF Next, BotStep, SendOk, SendFail, Register, Receive, TimeOut, RecordFail,
      Deliver, Stop, Terminated, vars

\* The invariant of every behaviour.
THEOREM IInvHolds == Spec => []IInv
<1>1. IInv /\ [Next]_vars => IInv'
  BY TypeStep, ReachableStep, OwnStep, RowsStep DEF IInv
<1> QED
  BY InitIInv, <1>1, PTL DEF Spec

\* A message left in a oneshot channel has a future that waits for it or
\* records it (telegram.rs 249-277).
THEOREM TypeCorrect == Spec => []TypeOK
  BY IInvHolds, PTL DEF IInv

\* While a future waits for its answer, the sender registered for its bot is
\* its own, whatever an earlier request left there (telegram.rs 260-262).
THEOREM SenderIsCurrent == Spec => []Reachable
  BY IInvHolds, PTL DEF IInv

\* A row of telegram.interaction holds a message of its own bot, and the row
\* of /start never the answer on /help (telegram.rs 327-339).
THEOREM RowsAreHonest == Spec => []HonestRows
  BY IInvHolds, PTL DEF IInv
=============================================================================
