------------------------------ MODULE Interact ------------------------------
(***************************************************************************)
(* `telegram interact` for the bots of one account: the interact_bot       *)
(* futures of telegram/telegram.rs, the listener task and the map of       *)
(* promises of telegram/telegram/client.rs, and the table                  *)
(* telegram.interaction.                                                   *)
(*                                                                         *)
(* A future sends a request, registers a oneshot sender under the id of    *)
(* the bot, and waits 5 seconds.  The listener hands every message of a    *)
(* bot to the sender registered at that moment, whatever it answers.       *)
(*                                                                         *)
(* A message is [bot, re, k]: the k-th message that a bot sends on a       *)
(* request, or unasked.  How long a bot takes, and how often it answers,   *)
(* is open.                                                                *)
(***************************************************************************)
EXTENDS Integers, FiniteSets

CONSTANTS
  Bots,        \* the peers of one account: distinct, by the table's key
  None,        \* no sender, no message
  MaxReplies,  \* bound: messages a bot sends
  MaxFaults    \* bound: how many requests and INSERTs fail

Requests == {"/start", "/help"}

Message == [bot : Bots, re : Requests \cup {"unasked"}, k : 1..MaxReplies]

ASSUME InteractAssumption ==
  /\ None \notin Requests \cup Message
  /\ MaxReplies \in Nat
  /\ MaxFaults \in Nat

VARIABLES
  listening,  \* is listen_fut running
  promises,   \* by bot: the request whose sender is registered, or None
  pc,         \* where the future of each bot stands
  req,        \* its current request
  slot,       \* what its oneshot channel holds
  arrived,    \* messages that the listener has seen
  sent,       \* requests that Telegram has accepted
  table,      \* telegram.interaction: key (bot_id, message_id)
  faults

vars == <<listening, promises, pc, req, slot, arrived, sent, table, faults>>

(***************************************************************************)
(* "send"      before send_message (or its pre_sleep)                      *)
(* "register"  the request is sent, before register                        *)
(* "wait"      in timeout(5 s, rx)                                         *)
(* "record"    a response in hand, before the INSERT                       *)
(* "done"      interact_bot has returned                                   *)
(***************************************************************************)
PCs == {"send", "register", "wait", "record", "done"}

Fault == faults < MaxFaults /\ faults' = faults + 1
NoFault == UNCHANGED faults

Goto(b, l) == pc' = [pc EXCEPT ![b] = l]

\* interact_bot_into_future: start_listen, and one future per bot.
Init ==
  /\ listening = TRUE
  /\ promises = [b \in Bots |-> None]
  /\ pc = [b \in Bots |-> "send"]
  /\ req = [b \in Bots |-> "/start"]
  /\ slot = [b \in Bots |-> None]
  /\ arrived = {} /\ sent = {} /\ table = {}
  /\ faults = 0

-----------------------------------------------------------------------------
(* interact_inner and interact_bot.                                        *)

\* On to /help, or done.
NextRequest(b) ==
  IF req[b] = "/start"
  THEN Goto(b, "send") /\ req' = [req EXCEPT ![b] = "/help"]
  ELSE Goto(b, "done") /\ UNCHANGED req

SendOk(b) ==
  /\ pc[b] = "send"
  /\ sent' = sent \cup {<<b, req[b]>>}
  /\ Goto(b, "register")
  /\ NoFault
  /\ UNCHANGED <<listening, promises, req, slot, arrived, table>>

\* send_message fails, with the request accepted or not; it gets no answer.
SendFail(b) ==
  /\ pc[b] = "send"
  /\ sent' \in {sent, sent \cup {<<b, req[b]>>}}
  /\ NextRequest(b)
  /\ Fault
  /\ UNCHANGED <<listening, promises, slot, arrived, table>>

\* Mutant: a sender that is registered already stays.
Register_Keeps(b) ==
  /\ pc[b] = "register"
  /\ promises' = [promises EXCEPT ![b] = IF @ = None THEN req[b] ELSE @]
  /\ slot' = [slot EXCEPT ![b] = None]
  /\ Goto(b, "wait")
  /\ NoFault
  /\ UNCHANGED <<listening, req, arrived, sent, table>>

\* A new oneshot channel; insert replaces the sender of an earlier request.
Register(b) ==
  /\ pc[b] = "register"
  /\ promises' = [promises EXCEPT ![b] = req[b]]
  /\ slot' = [slot EXCEPT ![b] = None]
  /\ Goto(b, "wait")
  /\ NoFault
  /\ UNCHANGED <<listening, req, arrived, sent, table>>

Receive(b) ==
  /\ pc[b] = "wait"
  /\ slot[b] # None
  /\ Goto(b, "record")
  /\ NoFault
  /\ UNCHANGED <<listening, promises, req, slot, arrived, sent, table>>

\* Mutant: rx is awaited anew after 5 seconds.
TimeOut_Again(b) ==
  /\ pc[b] = "wait"
  /\ UNCHANGED vars

\* The 5 seconds are over.  rx is dropped, with a message that has come in at
\* that very moment; the sender stays in promises.
TimeOut(b) ==
  /\ pc[b] = "wait"
  /\ slot' = [slot EXCEPT ![b] = None]
  /\ NextRequest(b)
  /\ NoFault
  /\ UNCHANGED <<listening, promises, arrived, sent, table>>

\* The row of a response.
Row(b) == [bot |-> b, message |-> slot[b], request |-> req[b]]

\* insert ... on conflict (bot_id, message_id) do update
Record(b) ==
  /\ pc[b] = "record"
  /\ table' = {r \in table : <<r.bot, r.message>> # <<b, slot[b]>>} \cup {Row(b)}
  /\ slot' = [slot EXCEPT ![b] = None]
  /\ NextRequest(b)
  /\ NoFault
  /\ UNCHANGED <<listening, promises, arrived, sent>>

\* The INSERT fails; the error is only logged.
RecordFail(b) ==
  /\ pc[b] = "record"
  /\ slot' = [slot EXCEPT ![b] = None]
  /\ NextRequest(b)
  /\ Fault
  /\ UNCHANGED <<listening, promises, arrived, sent, table>>

-----------------------------------------------------------------------------
(* The listener.                                                           *)

\* Mutant: the receiver outlives its timeout.
ReceiverAlive_Always(b) == promises[b] = req[b]

\* The receiver of the registered sender of b is still there.
ReceiverAlive(b) ==
  /\ pc[b] = "wait"
  /\ promises[b] = req[b]

\* Mutant: any sender that waits is taken.
Taken_ByAnyone(m) == {b \in Bots : ReceiverAlive(b)}

\* The bots whose receivers get m: its own, if it has a live one.
Taken(m) == {b \in {m.bot} : ReceiverAlive(b)}

\* promises.remove(id), then sender.send(message); without a sender, or with
\* one whose receiver is gone, the message is lost.
Deliver(m) ==
  /\ listening
  /\ m.re = "unasked" \/ <<m.bot, m.re>> \in sent
  /\ m \notin arrived
  /\ m.k > 1 => [m EXCEPT !.k = m.k - 1] \in arrived
  /\ Cardinality({n \in arrived : n.bot = m.bot}) < MaxReplies
  /\ arrived' = arrived \cup {m}
  /\ slot' = [b \in Bots |-> IF b \in Taken(m) THEN m ELSE slot[b]]
  /\ promises' = [promises EXCEPT ![m.bot] = None]
  /\ NoFault
  /\ UNCHANGED <<listening, pc, req, sent, table>>

\* Every future has returned: stop_listen.
Stop ==
  /\ listening
  /\ \A b \in Bots : pc[b] = "done"
  /\ listening' = FALSE
  /\ NoFault
  /\ UNCHANGED <<promises, pc, req, slot, arrived, sent, table>>

-----------------------------------------------------------------------------
Terminated == ~listening /\ UNCHANGED vars

BotStep(b) ==
  \/ SendOk(b)
  \/ SendFail(b)
  \/ Register(b)
  \/ Receive(b)
  \/ TimeOut(b)
  \/ Record(b)
  \/ RecordFail(b)

Next ==
  \/ \E b \in Bots : BotStep(b)
  \/ \E m \in Message : Deliver(m)
  \/ Stop
  \/ Terminated

Spec == Init /\ [][Next]_vars

\* A future that can make a step is polled, and the clock runs; no answer of a
\* bot is ever due.
Fairness == WF_vars(Stop) /\ \A b \in Bots : WF_vars(BotStep(b))

FairSpec == Spec /\ Fairness

-----------------------------------------------------------------------------
(* Properties.                                                             *)

\* Every variable has its type; a message in a oneshot channel has a future
\* that waits for it or records it, so a late answer stays nowhere.
TypeOK ==
  /\ listening \in BOOLEAN
  /\ promises \in [Bots -> Requests \cup {None}]
  /\ pc \in [Bots -> PCs]
  /\ req \in [Bots -> Requests]
  /\ slot \in [Bots -> Message \cup {None}]
  /\ \A b \in Bots : /\ slot[b] # None => pc[b] \in {"wait", "record"}
                     /\ pc[b] = "record" => slot[b] # None
  /\ arrived \subseteq Message
  /\ sent \subseteq Bots \X Requests
  /\ table \subseteq [bot : Bots, message : Message, request : Requests]
  /\ faults \in 0..MaxFaults

\* The sender that an earlier request left behind after its timeout never
\* stands in the way: while a future waits for an answer, its own sender is the
\* registered one, and the next message of its bot reaches it
\* (telegram.rs 260-262, client.rs 135-147).
Reachable ==
  \A b \in Bots : pc[b] = "wait" /\ slot[b] = None => promises[b] = req[b]

\* However the messages of the bots interleave, a row holds a message of its
\* own bot, and a row for /start none on /help (telegram.rs 327-339); the row
\* of either may hold an unasked message, and one for /help a late or second
\* answer on /start.
HonestRows ==
  \A r \in table : /\ r.message.bot = r.bot
                   /\ r.request = "/start" => r.message.re # "/help"

\* The command ends, whether the bots answer or not (telegram.rs 262, 360-362).
EveryoneReturns == <>~listening

\* "receiving {text}: no response" (telegram.rs 271): when a future gives up
\* with an empty channel, its bot has not answered the request.
NoResponseIsTrue ==
  [][\A b \in Bots :
       pc[b] = "wait" /\ slot[b] = None /\ pc'[b] \in {"send", "done"} =>
         ~\E m \in arrived : m.bot = b /\ m.re = req[b]]_vars
=============================================================================
