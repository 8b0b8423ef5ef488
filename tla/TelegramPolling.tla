-------------------------- MODULE TelegramPolling --------------------------
(***************************************************************************)
(* The Telegram channel in long-polling mode: a loop that fetches the      *)
(* updates from `offset` on and offers them to a bounded queue, and a pool *)
(* of workers that answer them.  The next request's offset tells the Bot   *)
(* API which updates it may forget.  Offset, queue and workers live in     *)
(* memory: a restart of the gateway begins at offset 0, which confirms     *)
(* nothing and fetches whatever the server still has.                      *)
(*                                                                         *)
(* The Bot API is external: it numbers updates upwards, keeps them until a *)
(* request confirms them, and returns the ones it still has.               *)
(***************************************************************************)
EXTENDS Integers, Sequences, FiniteSets

CONSTANTS
  MaxUpdates,  \* bound: updates that arrive
  QueueCap,    \* capacity of msgCh (100)
  BotWorkers,  \* the worker goroutines (8)
  MaxRestarts  \* bound: restarts of the gateway

ASSUME TelegramConstantsOK ==
  MaxUpdates \in Nat /\ QueueCap \in Nat /\ MaxRestarts \in Nat /\ 0 \notin BotWorkers

VARIABLES
  arrived,   \* updates 1..arrived have reached the Bot API
  hasText,   \* those whose message has a text; the rest are voice, stickers, edits, ...
  forgotten, \* the API has dropped the updates below this number
  offset,
  batch,     \* result.Result of the response being looped over
  msgCh,
  serving,   \* the update each worker is answering, 0 when it waits for one
  restarts,
  answered,  \* observation: how often processMessage ran to its end for each update
  dropped,   \* observation: updates that were offered and not queued
  lost       \* observation: updates a restart took from the queue or a worker

botVars ==
  <<arrived, hasText, forgotten, offset, batch, msgCh, serving, restarts, answered, dropped, lost>>

UpdateIds == 1..MaxUpdates
Queued == {msgCh[i] : i \in DOMAIN msgCh}
Served == {serving[w] : w \in BotWorkers} \ {0}

BotTypeOK ==
  /\ arrived \in 0..MaxUpdates /\ restarts \in 0..MaxRestarts
  /\ hasText \subseteq UpdateIds /\ batch \subseteq UpdateIds
  /\ dropped \subseteq UpdateIds /\ lost \subseteq UpdateIds
  /\ forgotten \in 0..(MaxUpdates + 1) /\ offset \in 0..(MaxUpdates + 1)
  /\ msgCh \in Seq(UpdateIds) /\ Len(msgCh) <= QueueCap
  /\ serving \in [BotWorkers -> 0..MaxUpdates]
  /\ answered \in [UpdateIds -> Nat]

BotInit ==
  /\ arrived = 0 /\ forgotten = 0 /\ offset = 0 /\ restarts = 0
  /\ hasText = {} /\ batch = {} /\ dropped = {} /\ lost = {}
  /\ msgCh = <<>>
  /\ serving = [w \in BotWorkers |-> 0]
  /\ answered = [u \in UpdateIds |-> 0]

-----------------------------------------------------------------------------
Arrive ==
  /\ arrived < MaxUpdates
  /\ arrived' = arrived + 1
  /\ \E text \in BOOLEAN : hasText' = IF text THEN hasText \cup {arrived + 1} ELSE hasText
  /\ UNCHANGED <<forgotten, offset, batch, msgCh, serving, restarts, answered, dropped, lost>>

(* The API on getUpdates?offset=n: it forgets the updates below n.         *)
Confirm == forgotten' = IF offset > forgotten THEN offset ELSE forgotten

(* pollUpdates: the request and its response.                              *)
Poll ==
  /\ batch = {}
  /\ Confirm
  /\ batch' = {u \in 1..arrived : u >= forgotten'}
  /\ UNCHANGED <<arrived, hasText, offset, msgCh, serving, restarts, answered, dropped, lost>>

(* The request reaches the API and its response does not come back, or is  *)
(* not a 200 with ok set: pollUpdates returns.                             *)
PollFails ==
  /\ batch = {}
  /\ Confirm
  /\ UNCHANGED <<arrived, hasText, offset, batch, msgCh, serving, restarts, answered, dropped, lost>>

(* Mutant: the next offset is one too high.                                *)
OfferSkips(u) ==
  /\ u \in batch /\ \A v \in batch : u <= v
  /\ batch' = batch \ {u}
  /\ offset' = IF u >= offset /\ u < MaxUpdates THEN u + 2 ELSE offset
  /\ IF u \in hasText /\ Len(msgCh) < QueueCap
     THEN msgCh' = Append(msgCh, u) /\ UNCHANGED dropped
     ELSE dropped' = dropped \cup {u} /\ UNCHANGED msgCh
  /\ UNCHANGED <<arrived, hasText, forgotten, serving, restarts, answered, lost>>

(* Mutant: the offset is that of the update, not of the next one.          *)
OfferTakesBack(u) ==
  /\ u \in batch /\ \A v \in batch : u <= v
  /\ batch' = batch \ {u}
  /\ offset' = u
  /\ IF u \in hasText /\ Len(msgCh) < QueueCap
     THEN msgCh' = Append(msgCh, u) /\ UNCHANGED dropped
     ELSE dropped' = dropped \cup {u} /\ UNCHANGED msgCh
  /\ UNCHANGED <<arrived, hasText, forgotten, serving, restarts, answered, lost>>

(* The body of pollUpdates' loop: the offset moves past the update before  *)
(* it is offered to the queue, which turns it away when it is full.        *)
Offer(u) ==
  /\ u \in batch /\ \A v \in batch : u <= v
  /\ batch' = batch \ {u}
  /\ offset' = IF u >= offset THEN u + 1 ELSE offset
  /\ IF u \in hasText /\ Len(msgCh) < QueueCap
     THEN msgCh' = Append(msgCh, u) /\ UNCHANGED dropped
     ELSE dropped' = dropped \cup {u} /\ UNCHANGED msgCh
  /\ UNCHANGED <<arrived, hasText, forgotten, serving, restarts, answered, lost>>

(* messageWorker and processMessage, whose last act is to send the answer, *)
(* an apology when the agent failed.                                       *)
Receive(w) ==
  /\ serving[w] = 0 /\ msgCh # <<>>
  /\ serving' = [serving EXCEPT ![w] = Head(msgCh)]
  /\ msgCh' = Tail(msgCh)
  /\ UNCHANGED <<arrived, hasText, forgotten, offset, batch, restarts, answered, dropped, lost>>

Answer(w) ==
  /\ serving[w] # 0
  /\ answered' = [answered EXCEPT ![serving[w]] = @ + 1]
  /\ serving' = [serving EXCEPT ![w] = 0]
  /\ UNCHANGED <<arrived, hasText, forgotten, offset, batch, msgCh, restarts, dropped, lost>>

(* The gateway ends and a new one builds its bot with NewTelegramBot.      *)
GatewayRestart ==
  /\ restarts < MaxRestarts
  /\ restarts' = restarts + 1
  /\ lost' = lost \cup Queued \cup Served
  /\ offset' = 0 /\ batch' = {} /\ msgCh' = <<>>
  /\ serving' = [w \in BotWorkers |-> 0]
  /\ UNCHANGED <<arrived, hasText, forgotten, answered, dropped>>

BotNext ==
  \/ Arrive \/ Poll \/ PollFails \/ GatewayRestart
  \/ \E u \in UpdateIds : Offer(u)
  \/ \E w \in BotWorkers : Receive(w) \/ Answer(w)

BotSpec == BotInit /\ [][BotNext]_botVars

(* The loop goes on and gets a response now and then; workers run.         *)
BotFairness ==
  /\ WF_botVars(Poll)
  /\ WF_botVars(\E u \in UpdateIds : Offer(u))
  /\ \A w \in BotWorkers : WF_botVars(Receive(w)) /\ WF_botVars(Answer(w))

BotFairSpec == BotSpec /\ BotFairness

-----------------------------------------------------------------------------
(* What the server was told to forget had been offered: an update that it  *)
(* no longer has is queued, being answered, answered, turned away or lost  *)
(* by a restart; it never vanishes because a later request confirmed it.   *)
ForgottenWasSeen ==
  \A u \in 1..arrived : u < forgotten =>
     u \in Queued \cup Served \cup dropped \cup lost \/ answered[u] > 0

(* An update is answered at most once in the life of a gateway, so at most *)
(* once more than there were restarts, although every response may repeat  *)
(* updates of the one before.                                              *)
AnsweredOncePerLife == \A u \in UpdateIds : answered[u] <= 1 + restarts

(* A text that reaches the bot's account is answered, unless the queue was *)
(* full or a restart lost it.                                              *)
EveryTextHandled ==
  \A u \in UpdateIds :
     (u \in hasText) ~> (answered[u] > 0 \/ u \in dropped \cup lost)

(* The channel implements UpdateIntake: an update waits as long as neither *)
(* the server nor this gateway has moved past it.                          *)
Waiting == {u \in 1..arrived : u >= forgotten /\ u >= offset}
Working == Queued \cup Served

Intake == INSTANCE UpdateIntake
  WITH Updates <- UpdateIds,
       waiting <- Waiting,
       working <- Working,
       over    <- (1..arrived) \ (Waiting \cup Working)

ImplementsIntake == Intake!IntakeSpec
=============================================================================
