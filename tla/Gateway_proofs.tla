--------------------------- MODULE Gateway_proofs ---------------------------
(***************************************************************************)
(* Proofs about what the gateway lets in and sends out.  RateLimit: quotas *)
(* are kept and resets bounded, for any number of callers, any limits, any *)
(* length of the window and any bounds.  TelegramPolling: updates are seen *)
(* and answered once, for any number of updates, workers and restarts and  *)
(* any capacity of the queue.  WebSocketConns: the counters are exact and  *)
(* the limits hold for any number of connections and addresses and any     *)
(* limits.  WebSocketStream: a client is shown consistent answers and the  *)
(* write mutex always comes back, for any number of chats, answers of any  *)
(* length, and writes that fail anywhere.                                  *)
(***************************************************************************)
EXTENDS RateLimit, TelegramPolling, WebSocketConns, WebSocketStream, FiniteSetTheorems, TLAPS

(* The callers that have seen the window expired and not yet reset it.     *)
Resetting == {c \in Checkers : checker[c] = "reset"}

(* What was allowed is at most what the row has counted and the one        *)
(* request that was not counted, and the row counts no more than the       *)
(* largest limit; without a row nothing was allowed.                       *)
QuotaCounted ==
  IF quota = NoRow THEN granted = 0 /\ ceiling = 0
  ELSE /\ granted <= quota.requests + 1
       /\ quota.requests <= ceiling
       /\ quota.max <= ceiling

(* While the window is not expired, its resets and the callers who may     *)
(* still reset it are together at most all callers.                        *)
ResetsLeft ==
  quota # NoRow /\ ~Expired(quota) => resets + Cardinality(Resetting) <= Cardinality(Checkers)

QuotaInv == QuotaTypeOK /\ QuotaCounted
ResetInv == QuotaTypeOK /\ ResetsLeft

-----------------------------------------------------------------------------
(* SetRateLimit, CountRequest and the others keep the type of every        *)
(* variable.                                                               *)
LEMMA TypeStep == QuotaTypeOK /\ [QuotaNext]_quotaVars => QuotaTypeOK'
<1> SUFFICES ASSUME QuotaTypeOK, [QuotaNext]_quotaVars PROVE QuotaTypeOK'
  OBVIOUS
<1> USE RateLimitConstantsOK DEF QuotaTypeOK, QuotaRow
<1>1. ASSUME NEW max \in QuotaLimits, SetRateLimit(max) PROVE QuotaTypeOK'
  <2>1. max \in Nat
    OBVIOUS
  <2>2. CASE quota = NoRow
    <3>1. quota' = [max |-> max, requests |-> 0, start |-> clock]
      BY <1>1, <2>2 DEF SetRateLimit
    <3> QED
      BY <1>1, <2>1, <2>2, <3>1 DEF SetRateLimit
  <2>3. CASE quota # NoRow
    <3>1. quota \in QuotaRow /\ quota' = [quota EXCEPT !.max = max]
      BY <1>1, <2>3 DEF SetRateLimit
    <3>2. Larger(ceiling, max) \in Nat
      BY <2>1 DEF Larger
    <3> QED
      BY <1>1, <2>1, <2>3, <3>1, <3>2 DEF SetRateLimit
  <2> QED
    BY <2>2, <2>3
<1>2. CASE DeleteRateLimit
  BY <1>2 DEF DeleteRateLimit
<1>3. CASE TickClock
  BY <1>3 DEF TickClock
<1>4. ASSUME NEW c \in Checkers, ReadLimit(c) PROVE QuotaTypeOK'
  BY <1>4 DEF ReadLimit, Goes
<1>5. ASSUME NEW c \in Checkers, ResetWindow(c) PROVE QuotaTypeOK'
  <2>1. CASE quota = NoRow
    BY <1>5, <2>1 DEF ResetWindow, Goes
  <2>2. CASE quota # NoRow
    <3>1. quota \in QuotaRow /\ quota' = [quota EXCEPT !.requests = 0, !.start = clock]
      BY <1>5, <2>2 DEF ResetWindow
    <3>2. quota' = [[quota EXCEPT !.requests = 0] EXCEPT !.start = clock]
      BY <3>1
    <3>3. [quota EXCEPT !.requests = 0] \in QuotaRow /\ clock \in Nat
      BY <3>1
    <3>4. quota' \in QuotaRow
      BY <3>2, <3>3
    <3> QED
      BY <1>5, <2>2, <3>1, <3>4 DEF ResetWindow, Goes
  <2> QED
    BY <2>1, <2>2
<1>6. ASSUME NEW c \in Checkers, CountRequest(c) PROVE QuotaTypeOK'
  <2>1. CASE quota # NoRow /\ quota.requests < quota.max
    <3>1. quota \in QuotaRow /\ quota' = [quota EXCEPT !.requests = @ + 1]
      BY <1>6, <2>1 DEF CountRequest
    <3>2. quota' \in QuotaRow
      BY <3>1
    <3> QED
      BY <1>6, <2>1, <3>2 DEF CountRequest, Goes
  <2>2. CASE ~(quota # NoRow /\ quota.requests < quota.max)
    BY <1>6, <2>2 DEF CountRequest, Goes
  <2> QED
    BY <2>1, <2>2
<1>7. ASSUME NEW c \in Checkers, CheckFails(c) PROVE QuotaTypeOK'
  BY <1>7 DEF CheckFails, Goes
<1>8. CASE UNCHANGED quotaVars
  BY <1>8 DEF quotaVars
<1> QED
  BY <1>1, <1>2, <1>3, <1>4, <1>5, <1>6, <1>7, <1>8 DEF QuotaNext

(* Only the row, the limits in force and the grants matter to QuotaCounted.     *)
LEMMA CountedStep == QuotaInv /\ [QuotaNext]_quotaVars => QuotaCounted'
<1> SUFFICES ASSUME QuotaInv, [QuotaNext]_quotaVars PROVE QuotaCounted'
  OBVIOUS
<1> USE RateLimitConstantsOK DEF QuotaInv, QuotaTypeOK, QuotaRow, QuotaCounted
<1>1. ASSUME NEW max \in QuotaLimits, SetRateLimit(max) PROVE QuotaCounted'
  <2>1. max \in Nat
    OBVIOUS
  <2>2. CASE quota = NoRow
    <3>1. quota' = [max |-> max, requests |-> 0, start |-> clock]
      BY <1>1, <2>2 DEF SetRateLimit
    <3>2. quota' # NoRow /\ ceiling' = max /\ granted' = 0
      BY <1>1, <2>1, <2>2, <3>1 DEF SetRateLimit
    <3> QED
      BY <2>1, <3>1, <3>2
  <2>3. CASE quota # NoRow
    <3>1. quota \in QuotaRow /\ quota' = [quota EXCEPT !.max = max]
      BY <1>1, <2>3 DEF SetRateLimit
    <3>2. quota' \in QuotaRow /\ quota'.max = max /\ quota'.requests = quota.requests
      BY <2>1, <3>1
    <3>3. ceiling' = Larger(ceiling, max) /\ granted' = granted
      BY <1>1, <2>3 DEF SetRateLimit
    <3> QED
      BY <2>1, <2>3, <3>1, <3>2, <3>3 DEF Larger
  <2> QED
    BY <2>2, <2>3
<1>2. CASE DeleteRateLimit
  BY <1>2 DEF DeleteRateLimit
<1>3. ASSUME NEW c \in Checkers, ResetWindow(c) PROVE QuotaCounted'
  <2>1. CASE quota = NoRow
    BY <1>3, <2>1 DEF ResetWindow
  <2>2. CASE quota # NoRow
    <3>1. quota \in QuotaRow /\ quota' = [quota EXCEPT !.requests = 0, !.start = clock]
      BY <1>3, <2>2 DEF ResetWindow
    <3> DEFINE emptied == [quota EXCEPT !.requests = 0]
    <3>2. quota' = [emptied EXCEPT !.start = clock]
      BY <3>1
    <3>3. emptied \in QuotaRow /\ emptied.max = quota.max /\ emptied.requests = 0 /\ clock \in Nat
      BY <3>1
    <3> HIDE DEF emptied
    <3>4. quota' \in QuotaRow /\ quota'.max = quota.max /\ quota'.requests = 0
      BY <3>2, <3>3
    <3>5. ceiling' = quota.max /\ granted' = 1
      BY <1>3, <2>2 DEF ResetWindow
    <3>6. quota' # NoRow /\ quota.max \in Nat
      BY <2>2, <3>4
    <3> QED
      BY <3>4, <3>5, <3>6
  <2> QED
    BY <2>1, <2>2
<1>4. ASSUME NEW c \in Checkers, CountRequest(c) PROVE QuotaCounted'
  <2>1. CASE quota # NoRow /\ quota.requests < quota.max
    <3>1. quota \in QuotaRow /\ quota' = [quota EXCEPT !.requests = @ + 1]
      BY <1>4, <2>1 DEF CountRequest
    <3>2. quota' \in QuotaRow /\ quota'.max = quota.max /\ quota'.requests = quota.requests + 1
      BY <3>1
    <3>3. ceiling' = ceiling /\ granted' = granted + 1
      BY <1>4, <2>1 DEF CountRequest
    <3> QED
      BY <2>1, <3>1, <3>2, <3>3
  <2>2. CASE ~(quota # NoRow /\ quota.requests < quota.max)
    BY <1>4, <2>2 DEF CountRequest
  <2> QED
    BY <2>1, <2>2
<1>5. CASE UNCHANGED <<quota, ceiling, granted>>
  BY <1>5
<1> QED
  BY <1>1, <1>2, <1>3, <1>4, <1>5
  DEF QuotaNext, quotaVars, TickClock, ReadLimit, CheckFails

(* The rate limit is kept by every order of requests, resets and commands, *)
(* for any limits and any number of callers.                               *)
THEOREM RequestsLimited == QuotaSpec => []QuotaKept
<1>1. QuotaInit => QuotaInv
  BY RateLimitConstantsOK DEF QuotaInit, QuotaInv, QuotaTypeOK, QuotaCounted
<1>2. QuotaInv /\ [QuotaNext]_quotaVars => QuotaInv'
  BY TypeStep, CountedStep DEF QuotaInv
<1>3. QuotaInv => QuotaKept
  <2> SUFFICES ASSUME QuotaInv PROVE QuotaKept
    OBVIOUS
  <2>1. CASE quota = NoRow
    BY <2>1 DEF QuotaInv, QuotaCounted, QuotaKept
  <2>2. CASE quota # NoRow
    BY <2>2 DEF QuotaInv, QuotaTypeOK, QuotaRow, QuotaCounted, QuotaKept
  <2> QED
    BY <2>1, <2>2
<1> QED
  BY <1>1, <1>2, <1>3, PTL DEF QuotaSpec

-----------------------------------------------------------------------------
(* The callers about to reset are finitely many, no more than all callers, *)
(* and one that leaves is one fewer.                                       *)
LEMMA ResettingCount ==
  /\ IsFiniteSet(Resetting) /\ Cardinality(Resetting) \in Nat
  /\ Cardinality(Checkers) \in Nat
  /\ Cardinality(Resetting) <= Cardinality(Checkers)
<1>1. Resetting \subseteq Checkers /\ IsFiniteSet(Checkers)
  BY RateLimitConstantsOK DEF Resetting
<1> QED
  BY <1>1, FS_Subset, FS_CardinalityType

(* A caller that leaves the reset step is one fewer.                       *)
LEMMA OneFewer ==
  ASSUME NEW c \in Checkers, QuotaTypeOK, Goes(c, "reset", "idle")
  PROVE  Cardinality(Resetting') = Cardinality(Resetting) - 1
<1>1. Resetting' = Resetting \ {c} /\ c \in Resetting
  BY DEF Resetting, Goes, QuotaTypeOK
<1> QED
  BY <1>1, ResettingCount, FS_RemoveElement

(* Every step keeps ResetsLeft: a window is reset only by a caller that    *)
(* leaves the set of those who may, and this set grows only while the      *)
(* window is expired.                                                      *)
LEMMA ResetStep == ResetInv /\ [QuotaNext]_quotaVars => ResetsLeft'
<1> SUFFICES ASSUME ResetInv, [QuotaNext]_quotaVars, (quota # NoRow /\ ~Expired(quota))'
             PROVE  resets' + Cardinality(Resetting') <= Cardinality(Checkers)
  BY DEF ResetsLeft
<1>t. QuotaTypeOK /\ QuotaTypeOK' /\ ResetsLeft
  BY TypeStep DEF ResetInv
<1>n. /\ Cardinality(Resetting) \in Nat /\ Cardinality(Checkers) \in Nat
      /\ Cardinality(Resetting) <= Cardinality(Checkers)
  BY ResettingCount
<1>r. resets \in Nat /\ clock \in Nat /\ Hour \in Nat
  BY <1>t, RateLimitConstantsOK DEF QuotaTypeOK
<1>same. ASSUME UNCHANGED <<checker, resets, clock>>, quota # NoRow, quota'.start = quota.start
         PROVE  resets' + Cardinality(Resetting') <= Cardinality(Checkers)
  <2>1. ~Expired(quota) /\ Resetting' = Resetting
    BY <1>same DEF Expired, Resetting
  <2> QED
    BY <1>same, <1>t, <2>1 DEF ResetsLeft
<1>1. ASSUME NEW max \in QuotaLimits, SetRateLimit(max)
      PROVE  resets' + Cardinality(Resetting') <= Cardinality(Checkers)
  <2>1. CASE quota = NoRow
    <3>1. resets' = 0 /\ Resetting' = Resetting
      BY <1>1, <2>1 DEF SetRateLimit, Resetting
    <3> QED
      BY <3>1, <1>n
  <2>2. CASE quota # NoRow
    <3>1. quota' = [quota EXCEPT !.max = max] /\ quota \in QuotaRow
      BY <1>1, <1>t, <2>2 DEF SetRateLimit, QuotaTypeOK
    <3>2. quota'.start = quota.start
      BY <3>1 DEF QuotaRow
    <3> QED
      BY <1>1, <1>same, <2>2, <3>2 DEF SetRateLimit
  <2> QED
    BY <2>1, <2>2
<1>2. CASE DeleteRateLimit
  BY <1>2 DEF DeleteRateLimit
<1>3. CASE TickClock
  <2>1. quota' = quota /\ clock' = clock + 1 /\ quota \in QuotaRow
    BY <1>3, <1>t DEF TickClock, QuotaTypeOK
  <2>2. ~Expired(quota)
    BY <1>r, <2>1 DEF Expired, QuotaRow
  <2>3. resets' = resets /\ Resetting' = Resetting
    BY <1>3 DEF TickClock, Resetting
  <2> QED
    BY <1>t, <2>1, <2>2, <2>3 DEF ResetsLeft
<1>4. ASSUME NEW c \in Checkers, ReadLimit(c)
      PROVE  resets' + Cardinality(Resetting') <= Cardinality(Checkers)
  <2>1. quota' = quota /\ clock' = clock /\ resets' = resets
    BY <1>4 DEF ReadLimit
  <2>2. quota # NoRow /\ ~Expired(quota)
    BY <2>1 DEF Expired
  <2>3. checker[c] = "idle" /\ checker' \in {[checker EXCEPT ![c] = "idle"], [checker EXCEPT ![c] = "count"]}
    BY <1>4, <2>2 DEF ReadLimit, Goes
  <2>4. Resetting' = Resetting
    BY <1>t, <2>3 DEF Resetting, QuotaTypeOK
  <2> QED
    BY <1>t, <2>1, <2>2, <2>4 DEF ResetsLeft
<1>5. ASSUME NEW c \in Checkers, ResetWindow(c)
      PROVE  resets' + Cardinality(Resetting') <= Cardinality(Checkers)
  <2>1. Cardinality(Resetting') = Cardinality(Resetting) - 1
    BY <1>5, <1>t, OneFewer DEF ResetWindow
  <2>2. quota # NoRow /\ resets' = IF Expired(quota) THEN 1 ELSE resets + 1
    BY <1>5 DEF ResetWindow
  <2>3. CASE Expired(quota)
    BY <1>n, <2>1, <2>2, <2>3
  <2>4. CASE ~Expired(quota)
    BY <1>n, <1>r, <1>t, <2>1, <2>2, <2>4 DEF ResetsLeft
  <2> QED
    BY <2>3, <2>4
<1>6. ASSUME NEW c \in Checkers, CountRequest(c)
      PROVE  resets' + Cardinality(Resetting') <= Cardinality(Checkers)
  <2>1. quota # NoRow /\ quota \in QuotaRow
    BY <1>6, <1>t DEF CountRequest, QuotaTypeOK
  <2>2. quota'.start = quota.start /\ clock' = clock /\ resets' = resets
    BY <1>6, <2>1 DEF CountRequest, QuotaRow
  <2>3. Resetting' = Resetting
    BY <1>6, <1>t DEF CountRequest, Goes, Resetting, QuotaTypeOK
  <2>4. ~Expired(quota)
    BY <2>2 DEF Expired
  <2> QED
    BY <1>t, <2>1, <2>2, <2>3, <2>4 DEF ResetsLeft
<1>7. ASSUME NEW c \in Checkers, CheckFails(c)
      PROVE  resets' + Cardinality(Resetting') <= Cardinality(Checkers)
  <2>1. quota' = quota /\ clock' = clock /\ resets' = resets
    BY <1>7 DEF CheckFails
  <2>2. quota # NoRow /\ ~Expired(quota)
    BY <2>1 DEF Expired
  <2>3. CASE Goes(c, "reset", "idle")
    BY <1>n, <1>r, <1>t, <2>1, <2>2, <2>3, OneFewer DEF ResetsLeft
  <2>4. CASE Goes(c, "count", "idle")
    <3>1. Resetting' = Resetting
      BY <1>t, <2>4 DEF Goes, Resetting, QuotaTypeOK
    <3> QED
      BY <1>t, <2>1, <2>2, <3>1 DEF ResetsLeft
  <2> QED
    BY <1>7, <2>3, <2>4 DEF CheckFails
<1>8. CASE UNCHANGED quotaVars
  <2>1. quota # NoRow /\ ~Expired(quota) /\ Resetting' = Resetting /\ resets' = resets
    BY <1>8 DEF quotaVars, Expired, Resetting
  <2> QED
    BY <1>t, <2>1 DEF ResetsLeft
<1> QED
  BY <1>1, <1>2, <1>3, <1>4, <1>5, <1>6, <1>7, <1>8 DEF QuotaNext

(* Within the hour after a window expired it is reset at most once per     *)
(* caller, however many callers found it expired together.                 *)
THEOREM ResetsLimited == QuotaSpec => []ResetsBounded
<1>1. QuotaInit => ResetInv
  BY RateLimitConstantsOK DEF QuotaInit, ResetInv, QuotaTypeOK, ResetsLeft
<1>2. ResetInv /\ [QuotaNext]_quotaVars => ResetInv'
  BY TypeStep, ResetStep DEF ResetInv
<1>3. ResetInv => ResetsBounded
  BY ResettingCount DEF ResetInv, QuotaTypeOK, ResetsLeft, ResetsBounded
<1> QED
  BY <1>1, <1>2, <1>3, PTL DEF QuotaSpec

-----------------------------------------------------------------------------
(* Telegram polling.                                                       *)

(* No update is in two places at once.                                     *)
Distinct ==
  /\ \A i, j \in DOMAIN msgCh : msgCh[i] = msgCh[j] => i = j
  /\ \A v, w \in BotWorkers : serving[v] = serving[w] /\ serving[v] # 0 => v = w
  /\ Queued \cap Served = {}

(* The offset separates what is in work from what is to be looked at, and  *)
(* the batch holds what is to be looked at without a gap.                  *)
Order ==
  /\ forgotten <= arrived + 1 /\ offset <= arrived + 1
  /\ \A u \in batch : u <= arrived /\ u >= offset /\ u >= forgotten
  /\ \A u \in batch : \A x \in 1..arrived : x >= offset /\ x >= forgotten /\ x <= u => x \in batch
  /\ \A u \in Working : u < offset

(* Only what this gateway has moved past and finished may have been        *)
(* answered in its life.                                                   *)
NotYetAnswered ==
  \A u \in UpdateIds :
     answered[u] <= IF u < offset /\ u \notin Working THEN restarts + 1 ELSE restarts

(* What the server or this gateway has moved past was offered.             *)
Seen ==
  \A u \in 1..arrived :
     u < forgotten \/ u < offset => u \in Working \cup dropped \cup lost \/ answered[u] > 0

BotInv == BotTypeOK /\ Distinct /\ Order

-----------------------------------------------------------------------------
(* Queue and workers: what Offer, Receive and Answer do to Queued and      *)
(* Served.                                                                 *)

LEMMA AppendQueued ==
  ASSUME NEW u \in UpdateIds, BotTypeOK, Distinct, u \notin Queued, msgCh' = Append(msgCh, u)
  PROVE  /\ Queued' = Queued \cup {u}
         /\ (\A i, j \in DOMAIN msgCh : msgCh[i] = msgCh[j] => i = j)'
<1>1. msgCh \in Seq(UpdateIds) /\ Len(msgCh) \in Nat /\ DOMAIN msgCh = 1..Len(msgCh)
  BY DEF BotTypeOK
<1>2. /\ Len(msgCh') = Len(msgCh) + 1 /\ DOMAIN msgCh' = 1..(Len(msgCh) + 1)
      /\ msgCh'[Len(msgCh) + 1] = u
      /\ \A i \in 1..Len(msgCh) : msgCh'[i] = msgCh[i]
  BY <1>1
<1>3. \A i \in 1..Len(msgCh) : msgCh[i] # u
  BY <1>1 DEF Queued
<1>4. Queued' = Queued \cup {u}
  <2>1. Queued' \subseteq Queued \cup {u}
    BY <1>1, <1>2 DEF Queued
  <2>2. Queued \subseteq Queued'
    BY <1>1, <1>2 DEF Queued
  <2>3. u \in Queued'
    BY <1>1, <1>2 DEF Queued
  <2> QED
    BY <2>1, <2>2, <2>3
<1>5. (\A i, j \in DOMAIN msgCh : msgCh[i] = msgCh[j] => i = j)'
  BY <1>1, <1>2, <1>3 DEF Distinct
<1> QED
  BY <1>4, <1>5

LEMMA HeadLeaves ==
  ASSUME BotTypeOK, Distinct, msgCh # << >>, msgCh' = Tail(msgCh)
  PROVE  /\ Head(msgCh) \in Queued /\ Head(msgCh) \in UpdateIds
         /\ Queued' = Queued \ {Head(msgCh)}
         /\ (\A i, j \in DOMAIN msgCh : msgCh[i] = msgCh[j] => i = j)'
         /\ msgCh' \in Seq(UpdateIds) /\ Len(msgCh') <= QueueCap
<1>1. /\ msgCh \in Seq(UpdateIds) /\ Len(msgCh) \in Nat \ {0} /\ DOMAIN msgCh = 1..Len(msgCh)
      /\ Head(msgCh) = msgCh[1]
  BY DEF BotTypeOK
<1>2. /\ msgCh' \in Seq(UpdateIds) /\ Len(msgCh') = Len(msgCh) - 1
      /\ DOMAIN msgCh' = 1..(Len(msgCh) - 1)
      /\ \A i \in 1..(Len(msgCh) - 1) : msgCh'[i] = msgCh[i + 1]
  BY <1>1
<1>3. Queued' = Queued \ {Head(msgCh)}
  <2>1. Queued' \subseteq Queued \ {Head(msgCh)}
    BY <1>1, <1>2 DEF Queued, Distinct
  <2>2. ASSUME NEW i \in 1..Len(msgCh), msgCh[i] # msgCh[1] PROVE msgCh[i] \in Queued'
    <3>1. i - 1 \in 1..(Len(msgCh) - 1) /\ msgCh'[i - 1] = msgCh[i]
      BY <1>1, <1>2, <2>2
    <3> QED
      BY <1>2, <3>1 DEF Queued
  <2> QED
    BY <1>1, <2>1, <2>2 DEF Queued
<1>4. (\A i, j \in DOMAIN msgCh : msgCh[i] = msgCh[j] => i = j)'
  BY <1>1, <1>2 DEF Distinct
<1>5. Len(msgCh') <= QueueCap
  BY <1>1, <1>2, TelegramConstantsOK DEF BotTypeOK
<1>6. Head(msgCh) \in Queued
  BY <1>1 DEF Queued
<1>7. Head(msgCh) \in UpdateIds
  BY <1>1
<1> QED
  BY <1>2, <1>3, <1>4, <1>5, <1>6, <1>7

(* A worker takes up an update, or is done with it.                        *)
LEMMA ServedGrows ==
  ASSUME NEW w \in BotWorkers, NEW u \in UpdateIds, BotTypeOK, serving[w] = 0,
         serving' = [serving EXCEPT ![w] = u]
  PROVE  Served' = Served \cup {u}
<1>1. serving \in [BotWorkers -> 0..MaxUpdates] /\ u # 0
  BY TelegramConstantsOK DEF BotTypeOK, UpdateIds
<1>2. serving'[w] = u /\ \A v \in BotWorkers \ {w} : serving'[v] = serving[v]
  BY <1>1
<1>3. Served' \subseteq Served \cup {u}
  BY <1>2 DEF Served
<1>4. Served \subseteq Served'
  BY <1>2 DEF Served
<1>5. u \in Served'
  BY <1>1, <1>2 DEF Served
<1> QED
  BY <1>3, <1>4, <1>5

LEMMA ServedShrinks ==
  ASSUME NEW w \in BotWorkers, BotTypeOK, Distinct, serving[w] # 0,
         serving' = [serving EXCEPT ![w] = 0]
  PROVE  serving[w] \in Served /\ Served' = Served \ {serving[w]}
<1>1. serving \in [BotWorkers -> 0..MaxUpdates]
  BY DEF BotTypeOK
<1>2. serving'[w] = 0 /\ \A v \in BotWorkers \ {w} : serving'[v] = serving[v]
  BY <1>1
<1>3. Served' \subseteq Served \ {serving[w]}
  BY <1>2 DEF Served, Distinct
<1>4. Served \ {serving[w]} \subseteq Served'
  BY <1>2 DEF Served
<1> QED
  BY <1>3, <1>4 DEF Served

(* Everything in work has arrived.                                         *)
LEMMA WorkingArrived ==
  BotInv => Working \subseteq 1..arrived /\ Working \subseteq UpdateIds
<1> SUFFICES ASSUME BotInv PROVE Working \subseteq 1..arrived /\ Working \subseteq UpdateIds
  OBVIOUS
<1>1. Queued \subseteq UpdateIds
  BY DEF BotInv, BotTypeOK, Queued
<1>2. Served \subseteq UpdateIds
  BY DEF BotInv, BotTypeOK, Served, UpdateIds
<1> QED
  BY <1>1, <1>2, TelegramConstantsOK DEF BotInv, BotTypeOK, Order, Working, UpdateIds

-----------------------------------------------------------------------------
(* The steps, as moves of an update between the sets.                      *)

(* Offer takes the lowest update at or above the offset and queues it or   *)
(* turns it away.                                                          *)
LEMMA OfferMoves ==
  ASSUME NEW u \in UpdateIds, BotInv, Offer(u)
  PROVE  /\ u \in 1..arrived /\ u >= offset /\ u >= forgotten /\ u \notin Working
         /\ offset' = u + 1 /\ Served' = Served
         /\ BotTypeOK' /\ Distinct'
         /\ \/ Queued' = Queued \cup {u} /\ dropped' = dropped
            \/ Queued' = Queued /\ dropped' = dropped \cup {u}
<1>t. BotTypeOK /\ Distinct /\ Order
  BY DEF BotInv
<1>n. /\ offset \in Nat /\ forgotten \in Nat /\ arrived \in Nat /\ u \in Nat \ {0}
      /\ MaxUpdates \in Nat /\ u <= MaxUpdates
  BY <1>t, TelegramConstantsOK DEF BotTypeOK, UpdateIds
<1>1. u \in batch /\ u <= arrived /\ u >= offset /\ u >= forgotten
  BY <1>t DEF Offer, Order
<1>2. u \notin Working
  BY <1>t, <1>n, <1>1 DEF Order
<1>3. offset' = u + 1 /\ serving' = serving /\ Served' = Served
  BY <1>1 DEF Offer, Served
<1>4. CASE u \in hasText /\ Len(msgCh) < QueueCap
  <2>1. msgCh' = Append(msgCh, u) /\ dropped' = dropped
    BY <1>4 DEF Offer
  <2>2. Queued' = Queued \cup {u} /\ (\A i, j \in DOMAIN msgCh : msgCh[i] = msgCh[j] => i = j)'
    BY <1>t, <1>2, <2>1, AppendQueued DEF Working
  <2>3. msgCh' \in Seq(UpdateIds) /\ Len(msgCh') <= QueueCap
    BY <1>t, <1>4, <2>1, TelegramConstantsOK DEF BotTypeOK
  <2>4. BotTypeOK'
    BY <1>t, <1>n, <1>3, <2>1, <2>3 DEF BotTypeOK, Offer
  <2>5. Distinct'
    BY <1>t, <1>2, <1>3, <2>2 DEF Distinct, Working
  <2> QED
    BY <1>n, <1>1, <1>2, <1>3, <2>1, <2>2, <2>4, <2>5
<1>5. CASE ~(u \in hasText /\ Len(msgCh) < QueueCap)
  <2>1. msgCh' = msgCh /\ dropped' = dropped \cup {u}
    BY <1>5 DEF Offer
  <2>2. Queued' = Queued
    BY <2>1 DEF Queued
  <2>3. BotTypeOK'
    BY <1>t, <1>n, <1>3, <2>1 DEF BotTypeOK, Offer
  <2>4. Distinct'
    BY <1>t, <1>3, <2>1, <2>2 DEF Distinct
  <2> QED
    BY <1>n, <1>1, <1>2, <1>3, <2>1, <2>2, <2>3, <2>4
<1> QED
  BY <1>4, <1>5

(* Receive moves an update from the queue to a worker.                     *)
LEMMA ReceiveMoves ==
  ASSUME NEW w \in BotWorkers, BotInv, Receive(w)
  PROVE  Working' = Working /\ BotTypeOK' /\ Distinct'
<1> DEFINE u == Head(msgCh)
<1>t. BotTypeOK /\ Distinct
  BY DEF BotInv
<1>1. /\ u \in Queued /\ u \in UpdateIds
      /\ Queued' = Queued \ {u}
      /\ (\A i, j \in DOMAIN msgCh : msgCh[i] = msgCh[j] => i = j)'
      /\ msgCh' \in Seq(UpdateIds) /\ Len(msgCh') <= QueueCap
  BY <1>t, HeadLeaves DEF Receive
<1>2. serving[w] = 0 /\ serving' = [serving EXCEPT ![w] = u]
  BY DEF Receive
<1> HIDE DEF u
<1>3. Served' = Served \cup {u}
  BY <1>t, <1>1, <1>2, ServedGrows
<1>4. serving \in [BotWorkers -> 0..MaxUpdates] /\ u \in 1..MaxUpdates /\ MaxUpdates \in Nat
  BY <1>t, <1>1, TelegramConstantsOK DEF BotTypeOK, UpdateIds
<1>5. BotTypeOK'
  <2>1. serving' \in [BotWorkers -> 0..MaxUpdates]
    BY <1>2, <1>4
  <2>2. UNCHANGED <<arrived, hasText, forgotten, offset, batch, restarts, answered, dropped, lost>>
    BY DEF Receive
  <2> QED
    BY <1>t, <1>1, <2>1, <2>2 DEF BotTypeOK
<1>6. \A v \in BotWorkers : serving[v] # u
  BY <1>t, <1>1, <1>4 DEF Distinct, Served
<1>7. (\A v, x \in BotWorkers : serving[v] = serving[x] /\ serving[v] # 0 => v = x)'
  BY <1>t, <1>2, <1>4, <1>6 DEF Distinct
<1>8. Distinct'
  BY <1>t, <1>1, <1>3, <1>7 DEF Distinct
<1> QED
  BY <1>1, <1>3, <1>5, <1>8 DEF Working

(* Answer takes an update out of work.                                     *)
LEMMA AnswerMoves ==
  ASSUME NEW w \in BotWorkers, BotInv, Answer(w)
  PROVE  /\ serving[w] \in Working /\ serving[w] \in UpdateIds
         /\ Working' = Working \ {serving[w]}
         /\ BotTypeOK' /\ Distinct'
<1>t. BotTypeOK /\ Distinct
  BY DEF BotInv
<1>1. /\ serving[w] # 0 /\ serving' = [serving EXCEPT ![w] = 0] /\ msgCh' = msgCh
      /\ Queued' = Queued
  BY DEF Answer, Queued
<1>2. serving[w] \in Served /\ Served' = Served \ {serving[w]}
  BY <1>t, <1>1, ServedShrinks
<1>3. serving \in [BotWorkers -> 0..MaxUpdates] /\ serving[w] \in UpdateIds /\ MaxUpdates \in Nat
  BY <1>t, <1>1, TelegramConstantsOK DEF BotTypeOK, UpdateIds
<1>4. BotTypeOK'
  BY <1>t, <1>1, <1>3 DEF BotTypeOK, Answer
<1>5. (\A v, x \in BotWorkers : serving[v] = serving[x] /\ serving[v] # 0 => v = x)'
  BY <1>t, <1>1, <1>3 DEF Distinct
<1>6. Distinct'
  BY <1>t, <1>1, <1>2, <1>5 DEF Distinct
<1>7. Working' = Working \ {serving[w]}
  BY <1>t, <1>1, <1>2 DEF Distinct, Working
<1> QED
  BY <1>2, <1>3, <1>4, <1>6, <1>7 DEF Working

(* The server forgets what lies below the offset, and nothing else.        *)
LEMMA Confirmed ==
  BotTypeOK /\ Confirm =>
     /\ forgotten' \in 0..(MaxUpdates + 1)
     /\ forgotten' >= offset /\ forgotten' >= forgotten
     /\ forgotten' \in {offset, forgotten}
BY TelegramConstantsOK DEF BotTypeOK, Confirm

(* Steps that leave queue and workers alone.                               *)
LEMMA PlacesKept ==
  UNCHANGED <<msgCh, serving>> => Working' = Working /\ (Distinct => Distinct')
<1> SUFFICES ASSUME UNCHANGED <<msgCh, serving>>
             PROVE  Working' = Working /\ (Distinct => Distinct')
  OBVIOUS
<1>1. Queued' = Queued /\ Served' = Served
  BY DEF Queued, Served
<1> QED
  BY <1>1 DEF Working, Distinct

(* A new gateway has nothing in work.                                      *)
LEMMA RestartMoves ==
  ASSUME BotInv, GatewayRestart
  PROVE  Working' = {} /\ BotTypeOK' /\ Distinct' /\ Order'
<1>1. msgCh' = << >> /\ serving' = [w \in BotWorkers |-> 0]
  BY DEF GatewayRestart
<1>2. Queued' = {} /\ Served' = {}
  BY <1>1 DEF Queued, Served
<1>3. lost' \subseteq UpdateIds
  BY WorkingArrived DEF GatewayRestart, Working, BotInv, BotTypeOK
<1>4. BotTypeOK'
  BY <1>1, <1>3, TelegramConstantsOK DEF BotInv, BotTypeOK, GatewayRestart
<1>5. Distinct'
  BY <1>1, <1>2 DEF Distinct
<1>6. Order'
  BY <1>2, TelegramConstantsOK DEF BotInv, BotTypeOK, Order, GatewayRestart, Working
<1> QED
  BY <1>2, <1>4, <1>5, <1>6 DEF Working

-----------------------------------------------------------------------------
(* BotInv is inductive.                                                    *)
LEMMA BotInvStep == BotInv /\ [BotNext]_botVars => BotInv'
<1> SUFFICES ASSUME BotInv, [BotNext]_botVars PROVE BotInv'
  OBVIOUS
<1>t. BotTypeOK /\ Distinct /\ Order
  BY DEF BotInv
<1>n. /\ offset \in Nat /\ forgotten \in Nat /\ arrived \in Nat /\ arrived <= MaxUpdates
      /\ MaxUpdates \in Nat /\ batch \subseteq UpdateIds
  BY <1>t, TelegramConstantsOK DEF BotTypeOK
<1>1. CASE Arrive
  <2>1. arrived' = arrived + 1 /\ arrived < MaxUpdates /\ Working' = Working /\ Distinct'
    BY <1>1, <1>t, PlacesKept DEF Arrive
  <2>2. BotTypeOK'
    BY <1>1, <1>t, <1>n DEF Arrive, BotTypeOK, UpdateIds
  <2>3. Order'
    BY <1>1, <1>t, <1>n, <2>1 DEF Arrive, Order, UpdateIds
  <2> QED
    BY <2>1, <2>2, <2>3 DEF BotInv
<1>2. CASE Poll
  <2>1. /\ forgotten' \in 0..(MaxUpdates + 1) /\ forgotten' >= offset
        /\ forgotten' \in {offset, forgotten}
    BY <1>2, <1>t, Confirmed DEF Poll
  <2>2. Working' = Working /\ Distinct'
    BY <1>2, <1>t, PlacesKept DEF Poll
  <2>3. BotTypeOK'
    BY <1>2, <1>t, <1>n, <2>1 DEF Poll, BotTypeOK, UpdateIds
  <2>4. Order'
    BY <1>2, <1>t, <1>n, <2>1, <2>2 DEF Poll, Order
  <2> QED
    BY <2>2, <2>3, <2>4 DEF BotInv
<1>3. CASE PollFails
  <2>1. /\ forgotten' \in 0..(MaxUpdates + 1) /\ forgotten' >= offset
        /\ forgotten' \in {offset, forgotten}
    BY <1>3, <1>t, Confirmed DEF PollFails
  <2>2. Working' = Working /\ Distinct'
    BY <1>3, <1>t, PlacesKept DEF PollFails
  <2>3. BotTypeOK'
    BY <1>3, <1>t, <1>n, <2>1 DEF PollFails, BotTypeOK
  <2>4. Order'
    BY <1>3, <1>t, <1>n, <2>1, <2>2 DEF PollFails, Order
  <2> QED
    BY <2>2, <2>3, <2>4 DEF BotInv
<1>4. CASE GatewayRestart
  BY <1>4, RestartMoves DEF BotInv
<1>5. ASSUME NEW u \in UpdateIds, Offer(u) PROVE BotInv'
  <2>1. /\ u \in 1..arrived /\ u >= offset /\ u >= forgotten
        /\ offset' = u + 1 /\ BotTypeOK' /\ Distinct'
        /\ Working' \subseteq Working \cup {u}
    BY <1>5, OfferMoves DEF Working
  <2>2. /\ batch' = batch \ {u} /\ forgotten' = forgotten /\ arrived' = arrived
        /\ \A v \in batch : u <= v
    BY <1>5 DEF Offer
  <2>3. \A v \in batch : v \in Nat
    BY <1>n DEF UpdateIds
  <2>4. Order'
    <3>1. forgotten' <= arrived' + 1 /\ offset' <= arrived' + 1
      BY <1>t, <1>n, <2>1, <2>2 DEF Order
    <3>2. \A v \in batch' : v <= arrived' /\ v >= offset' /\ v >= forgotten'
      BY <1>t, <1>n, <2>1, <2>2, <2>3 DEF Order
    <3>3. ASSUME NEW v \in batch', NEW x \in 1..arrived', x >= offset', x >= forgotten', x <= v
          PROVE  x \in batch'
      <4>1. v \in batch /\ x \in 1..arrived /\ x >= offset /\ x >= forgotten /\ x # u
        BY <1>n, <2>1, <2>2, <3>3
      <4> QED
        BY <1>t, <2>2, <3>3, <4>1 DEF Order
    <3>4. \A v \in Working' : v < offset'
      <4> SUFFICES ASSUME NEW v \in Working' PROVE v < offset'
        OBVIOUS
      <4>1. CASE v = u
        BY <1>n, <2>1, <4>1
      <4>2. CASE v \in Working
        <5>1. v < offset /\ v \in Nat
          BY <1>t, <4>2, WorkingArrived DEF Order, UpdateIds
        <5> QED
          BY <1>n, <2>1, <5>1
      <4> QED
        BY <2>1, <4>1, <4>2
    <3> QED
      BY <3>1, <3>2, <3>3, <3>4 DEF Order
  <2> QED
    BY <2>1, <2>4 DEF BotInv
<1>6. ASSUME NEW w \in BotWorkers, Receive(w) PROVE BotInv'
  <2>1. Working' = Working /\ BotTypeOK' /\ Distinct'
    BY <1>6, ReceiveMoves
  <2>2. Order'
    BY <1>6, <1>t, <2>1 DEF Order, Receive
  <2> QED
    BY <2>1, <2>2 DEF BotInv
<1>7. ASSUME NEW w \in BotWorkers, Answer(w) PROVE BotInv'
  <2>1. Working' \subseteq Working /\ BotTypeOK' /\ Distinct'
    BY <1>7, AnswerMoves
  <2>2. Order'
    BY <1>7, <1>t, <2>1 DEF Order, Answer
  <2> QED
    BY <2>1, <2>2 DEF BotInv
<1>8. CASE UNCHANGED botVars
  <2>1. Working' = Working /\ Distinct'
    BY <1>8, <1>t, PlacesKept DEF botVars
  <2>2. BotTypeOK' /\ Order'
    BY <1>8, <1>t, <2>1 DEF botVars, BotTypeOK, Order
  <2> QED
    BY <2>1, <2>2 DEF BotInv
<1> QED
  BY <1>1, <1>2, <1>3, <1>4, <1>5, <1>6, <1>7, <1>8 DEF BotNext

LEMMA BotInvInit == BotInit => BotInv /\ NotYetAnswered /\ Seen
<1> SUFFICES ASSUME BotInit PROVE BotInv /\ NotYetAnswered /\ Seen
  OBVIOUS
<1>1. Queued = {} /\ Served = {} /\ Working = {}
  BY DEF BotInit, Queued, Served, Working
<1>2. BotTypeOK /\ Distinct /\ Order
  BY <1>1, TelegramConstantsOK DEF BotInit, BotTypeOK, Distinct, Order, UpdateIds
<1>3. NotYetAnswered /\ Seen
  BY <1>1, TelegramConstantsOK DEF BotInit, NotYetAnswered, Seen, UpdateIds
<1> QED
  BY <1>2, <1>3 DEF BotInv

(* An update is answered only while this gateway works on it, after the    *)
(* offset has moved past it.                                               *)
LEMMA AnswersStep == BotInv /\ NotYetAnswered /\ [BotNext]_botVars => NotYetAnswered'
<1> SUFFICES ASSUME BotInv, NotYetAnswered, [BotNext]_botVars, NEW u \in UpdateIds
             PROVE  (answered[u] <= IF u < offset /\ u \notin Working
                                    THEN restarts + 1 ELSE restarts)'
  BY DEF NotYetAnswered
<1>n. /\ offset \in Nat /\ restarts \in Nat /\ u \in Nat /\ answered \in [UpdateIds -> Nat]
      /\ answered[u] \in Nat
  BY TelegramConstantsOK DEF BotInv, BotTypeOK, UpdateIds
<1>a. answered[u] <= IF u < offset /\ u \notin Working THEN restarts + 1 ELSE restarts
  BY DEF NotYetAnswered
<1>1. CASE GatewayRestart
  <2>1. offset' = 0 /\ restarts' = restarts + 1 /\ answered' = answered
    BY <1>1 DEF GatewayRestart
  <2> QED
    BY <1>n, <1>a, <2>1
<1>2. ASSUME NEW v \in UpdateIds, Offer(v)
      PROVE  (answered[u] <= IF u < offset /\ u \notin Working THEN restarts + 1 ELSE restarts)'
  <2>1. /\ v >= offset /\ offset' = v + 1 /\ v \in Nat
        /\ Working' \subseteq Working \cup {v} /\ Working \subseteq Working'
    BY <1>2, OfferMoves DEF Working
  <2>2. answered' = answered /\ restarts' = restarts
    BY <1>2 DEF Offer
  <2> QED
    BY <1>n, <1>a, <2>1, <2>2
<1>3. ASSUME NEW w \in BotWorkers, Receive(w)
      PROVE  (answered[u] <= IF u < offset /\ u \notin Working THEN restarts + 1 ELSE restarts)'
  <2>1. Working' = Working /\ answered' = answered /\ restarts' = restarts /\ offset' = offset
    BY <1>3, ReceiveMoves DEF Receive
  <2> QED
    BY <1>a, <2>1
<1>4. ASSUME NEW w \in BotWorkers, Answer(w)
      PROVE  (answered[u] <= IF u < offset /\ u \notin Working THEN restarts + 1 ELSE restarts)'
  <2>1. serving[w] \in Working /\ Working' = Working \ {serving[w]}
    BY <1>4, AnswerMoves
  <2>2. restarts' = restarts /\ offset' = offset
    BY <1>4 DEF Answer
  <2>3. CASE u = serving[w]
    <3>1. answered'[u] = answered[u] + 1
      BY <1>4, <1>n, <2>3 DEF Answer
    <3>2. u < offset /\ u \in Working
      BY <2>1, <2>3 DEF BotInv, Order
    <3> QED
      BY <1>n, <1>a, <2>1, <2>2, <2>3, <3>1, <3>2
  <2>4. CASE u # serving[w]
    <3>1. answered'[u] = answered[u]
      BY <1>4, <1>n, <2>4 DEF Answer
    <3> QED
      BY <1>a, <2>1, <2>2, <2>4, <3>1
  <2> QED
    BY <2>3, <2>4
<1>5. CASE UNCHANGED <<msgCh, serving, answered, restarts, offset>>
  BY <1>5, <1>a, PlacesKept
<1> QED
  BY <1>1, <1>2, <1>3, <1>4, <1>5
  DEF BotNext, botVars, Arrive, Poll, PollFails

(* No worker answers an update twice in the life of a gateway.             *)
THEOREM AnsweredOnce == BotSpec => []AnsweredOncePerLife
<1>1. BotInv /\ NotYetAnswered => AnsweredOncePerLife
  <2> SUFFICES ASSUME BotInv, NotYetAnswered, NEW u \in UpdateIds PROVE answered[u] <= 1 + restarts
    BY DEF AnsweredOncePerLife
  <2>1. answered[u] \in Nat /\ restarts \in Nat
    BY TelegramConstantsOK DEF BotInv, BotTypeOK
  <2> QED
    BY <2>1 DEF NotYetAnswered
<1> QED
  BY <1>1, BotInvInit, BotInvStep, AnswersStep, PTL DEF BotSpec

(* What was seen stays seen, and the server forgets only what lies below   *)
(* the offset, which was seen.                                             *)
LEMMA SeenStep == BotInv /\ Seen /\ [BotNext]_botVars => Seen'
<1> SUFFICES ASSUME BotInv, Seen, [BotNext]_botVars, NEW u \in 1..arrived',
                    (u < forgotten \/ u < offset)'
             PROVE  (u \in Working \cup dropped \cup lost \/ answered[u] > 0)'
  BY DEF Seen
<1>n. /\ offset \in Nat /\ forgotten \in Nat /\ arrived \in Nat /\ arrived <= MaxUpdates
      /\ MaxUpdates \in Nat /\ answered \in [UpdateIds -> Nat]
      /\ forgotten <= arrived + 1 /\ offset <= arrived + 1
  BY TelegramConstantsOK DEF BotInv, BotTypeOK, Order
<1>s. u \in 1..arrived /\ (u < forgotten \/ u < offset) =>
         u \in Working \cup dropped \cup lost \/ answered[u] > 0
  BY DEF Seen
<1>1. CASE Arrive
  <2>1. Working' = Working /\ arrived' = arrived + 1
    BY <1>1, PlacesKept DEF Arrive
  <2> QED
    BY <1>1, <1>n, <1>s, <2>1 DEF Arrive
<1>2. CASE Poll \/ PollFails
  <2>1. Working' = Working /\ forgotten' \in {offset, forgotten}
    BY <1>2, PlacesKept, Confirmed DEF Poll, PollFails, BotInv
  <2> QED
    BY <1>2, <1>s, <2>1 DEF Poll, PollFails
<1>3. CASE GatewayRestart
  BY <1>3, <1>n, <1>s DEF GatewayRestart, Working
<1>4. ASSUME NEW v \in UpdateIds, Offer(v)
      PROVE  (u \in Working \cup dropped \cup lost \/ answered[u] > 0)'
  <2>1. /\ v \in 1..arrived /\ v >= offset /\ v >= forgotten /\ offset' = v + 1
        /\ Working \subseteq Working' /\ dropped \subseteq dropped'
        /\ v \in Working' \cup dropped'
    BY <1>4, OfferMoves DEF Working
  <2>2. /\ forgotten' = forgotten /\ arrived' = arrived /\ answered' = answered /\ lost' = lost
        /\ v \in batch /\ \A x \in batch : v <= x
    BY <1>4 DEF Offer
  <2>3. u = v \/ u < offset \/ u < forgotten
    <3>1. SUFFICES ASSUME u < v, u >= offset, u >= forgotten PROVE FALSE
      BY <1>n, <2>1, <2>2
    <3>2. u \in batch
      BY <1>n, <2>1, <2>2, <3>1 DEF BotInv, Order
    <3> QED
      BY <2>1, <2>2, <3>1, <3>2
  <2> QED
    BY <1>s, <2>1, <2>2, <2>3
<1>5. ASSUME NEW w \in BotWorkers, Receive(w)
      PROVE  (u \in Working \cup dropped \cup lost \/ answered[u] > 0)'
  BY <1>5, <1>s, ReceiveMoves DEF Receive
<1>6. ASSUME NEW w \in BotWorkers, Answer(w)
      PROVE  (u \in Working \cup dropped \cup lost \/ answered[u] > 0)'
  <2>1. /\ serving[w] \in UpdateIds /\ Working' = Working \ {serving[w]}
        /\ answered' = [answered EXCEPT ![serving[w]] = @ + 1]
    BY <1>6, AnswerMoves DEF Answer
  <2>2. u \in UpdateIds /\ u \in 1..arrived
    BY <1>6, <1>n DEF Answer, UpdateIds
  <2>3. u = serving[w] => answered'[u] > 0
    BY <1>n, <2>1
  <2>4. u # serving[w] => answered'[u] = answered[u]
    BY <1>n, <2>1, <2>2
  <2> QED
    BY <1>6, <1>s, <2>1, <2>2, <2>3, <2>4 DEF Answer
<1>7. CASE UNCHANGED botVars
  BY <1>7, <1>s, PlacesKept DEF botVars
<1> QED
  BY <1>1, <1>2, <1>3, <1>4, <1>5, <1>6, <1>7 DEF BotNext

(* No update vanishes because a later request confirmed it.                *)
THEOREM NothingVanishes == BotSpec => []ForgottenWasSeen
<1>1. BotInv /\ Seen => ForgottenWasSeen
  BY DEF Seen, ForgottenWasSeen, Working
<1> QED
  BY <1>1, BotInvInit, BotInvStep, SeenStep, PTL DEF BotSpec

-----------------------------------------------------------------------------
(* Every step is a step of UpdateIntake or changes nothing it sees.        *)

IntakeOver == (1..arrived) \ (Waiting \cup Working)

LEMMA IntakeStep ==
  BotInv /\ BotInv' /\ [BotNext]_botVars
    => [Intake!IntakeNext]_<<Waiting, Working, IntakeOver>>
<1> SUFFICES ASSUME BotInv, BotInv', [BotNext]_botVars
             PROVE  [Intake!IntakeNext]_<<Waiting, Working, IntakeOver>>
  OBVIOUS
<1>n. /\ offset \in Nat /\ forgotten \in Nat /\ arrived \in Nat /\ arrived <= MaxUpdates
      /\ MaxUpdates \in Nat
      /\ forgotten <= arrived + 1 /\ offset <= arrived + 1
  BY TelegramConstantsOK DEF BotInv, BotTypeOK, Order
<1>w. /\ Working \subseteq 1..arrived /\ Waiting \subseteq 1..arrived
      /\ \A u \in Working : u < offset
      /\ Waiting \cap Working = {}
  <2>1. Working \subseteq 1..arrived /\ Waiting \subseteq 1..arrived /\ \A u \in Working : u < offset
    BY WorkingArrived DEF Waiting, BotInv, Order
  <2>2. ASSUME NEW u \in Waiting, u \in Working PROVE FALSE
    BY <1>n, <2>1, <2>2 DEF Waiting
  <2> QED
    BY <2>1, <2>2
<1>1. CASE Arrive
  <2> DEFINE u == arrived + 1
  <2>1. /\ arrived' = u /\ u \in UpdateIds /\ Working' = Working
        /\ forgotten' = forgotten /\ offset' = offset
    BY <1>1, <1>n, PlacesKept DEF Arrive, UpdateIds
  <2>2. 1..arrived' = (1..arrived) \cup {u} /\ u \notin 1..arrived
    BY <1>n, <2>1
  <2>3. Waiting' = Waiting \cup {u}
    BY <1>n, <2>1, <2>2 DEF Waiting
  <2>4. u \notin Waiting \cup Working \cup IntakeOver
    BY <1>w, <2>2 DEF IntakeOver
  <2>5. IntakeOver' = IntakeOver
    BY <1>w, <2>1, <2>2, <2>3 DEF IntakeOver
  <2>6. Intake!Arrive(u)
    BY <2>1, <2>3, <2>4, <2>5 DEF Intake!Arrive, IntakeOver
  <2> QED
    BY <2>1, <2>6 DEF Intake!IntakeNext
<1>2. CASE Poll \/ PollFails
  <2>1. /\ Working' = Working /\ arrived' = arrived /\ offset' = offset
        /\ forgotten' >= offset /\ forgotten' >= forgotten /\ forgotten' \in {offset, forgotten}
    BY <1>2, PlacesKept, Confirmed DEF Poll, PollFails, BotInv
  <2>2. Waiting' = Waiting
    BY <1>n, <2>1 DEF Waiting
  <2> QED
    BY <2>1, <2>2 DEF IntakeOver
<1>3. CASE GatewayRestart
  <2>1. /\ Working' = {} /\ arrived' = arrived /\ offset' = 0 /\ forgotten' = forgotten
    BY <1>3, RestartMoves DEF GatewayRestart
  <2> DEFINE back == Waiting' \ Waiting
  <2>2. Waiting \subseteq Waiting' /\ Waiting' \subseteq 1..arrived
    BY <1>n, <2>1 DEF Waiting
  <2>3. back \subseteq Working \cup IntakeOver /\ Waiting' = Waiting \cup back
    BY <2>2 DEF IntakeOver
  <2>4. IntakeOver' = (Working \cup IntakeOver) \ back
    BY <1>w, <2>1, <2>2 DEF IntakeOver
  <2>5. Intake!Restart
    BY <2>1, <2>3, <2>4 DEF Intake!Restart, IntakeOver
  <2> QED
    BY <2>5 DEF Intake!IntakeNext
<1>4. ASSUME NEW u \in UpdateIds, Offer(u)
      PROVE  Intake!IntakeNext
  <2>1. /\ u \in 1..arrived /\ u >= offset /\ u >= forgotten /\ u \notin Working
        /\ offset' = u + 1
        /\ Working' = Working \cup {u} \/ Working' = Working
    BY <1>4, OfferMoves DEF Working
  <2>2. /\ arrived' = arrived /\ forgotten' = forgotten
        /\ u \in batch /\ \A x \in batch : u <= x
    BY <1>4 DEF Offer
  <2>3. \A x \in 1..arrived : x >= offset /\ x >= forgotten => x >= u
    <3> SUFFICES ASSUME NEW x \in 1..arrived, x >= offset, x >= forgotten, x < u PROVE FALSE
      BY <1>n, <2>1
    <3>1. x \in batch
      BY <1>n, <2>1, <2>2 DEF BotInv, Order
    <3> QED
      BY <1>n, <2>1, <2>2, <3>1
  <2>4. u \in Waiting /\ Waiting' = Waiting \ {u}
    BY <1>n, <2>1, <2>2, <2>3 DEF Waiting
  <2>5. CASE Working' = Working \cup {u}
    <3>1. IntakeOver' = IntakeOver
      BY <2>1, <2>2, <2>4, <2>5 DEF IntakeOver
    <3>2. Intake!TakeUp(u)
      BY <2>4, <2>5, <3>1 DEF Intake!TakeUp, IntakeOver
    <3> QED
      BY <3>2 DEF Intake!IntakeNext
  <2>6. CASE Working' = Working
    <3>1. IntakeOver' = IntakeOver \cup {u}
      BY <2>1, <2>2, <2>4, <2>6 DEF IntakeOver
    <3>2. Intake!TurnAway(u)
      BY <2>4, <2>6, <3>1 DEF Intake!TurnAway, IntakeOver
    <3> QED
      BY <3>2 DEF Intake!IntakeNext
  <2> QED
    BY <2>1, <2>5, <2>6
<1>5. ASSUME NEW w \in BotWorkers, Receive(w)
      PROVE  UNCHANGED <<Waiting, Working, IntakeOver>>
  <2>1. Working' = Working /\ Waiting' = Waiting /\ arrived' = arrived
    BY <1>5, ReceiveMoves DEF Receive, Waiting
  <2> QED
    BY <2>1 DEF IntakeOver
<1>6. ASSUME NEW w \in BotWorkers, Answer(w)
      PROVE  Intake!IntakeNext
  <2> DEFINE u == serving[w]
  <2>1. u \in Working /\ u \in UpdateIds /\ Working' = Working \ {u}
    BY <1>6, AnswerMoves
  <2>2. Waiting' = Waiting /\ arrived' = arrived
    BY <1>6 DEF Answer, Waiting
  <2> HIDE DEF u
  <2>3. IntakeOver' = IntakeOver \cup {u}
    BY <1>w, <2>1, <2>2 DEF IntakeOver
  <2>4. Intake!Finish(u)
    BY <2>1, <2>2, <2>3 DEF Intake!Finish, IntakeOver
  <2> QED
    BY <2>1, <2>4 DEF Intake!IntakeNext
<1>7. CASE UNCHANGED botVars
  <2>1. Working' = Working /\ Waiting' = Waiting /\ arrived' = arrived
    BY <1>7, PlacesKept DEF botVars, Waiting
  <2> QED
    BY <2>1 DEF IntakeOver
<1> QED
  BY <1>1, <1>2, <1>3, <1>4, <1>5, <1>6, <1>7 DEF BotNext

(* The channel implements UpdateIntake: in the life of a gateway an update *)
(* is taken up once or turned away once, and only a restart brings back    *)
(* what had been taken up before.                                          *)
THEOREM PollingImplementsIntake == BotSpec => ImplementsIntake
<1>1. BotInit => Intake!IntakeInit
  <2> SUFFICES ASSUME BotInit PROVE Intake!IntakeInit
    OBVIOUS
  <2>1. arrived = 0 /\ Queued = {} /\ Served = {}
    BY DEF BotInit, Queued, Served
  <2>2. Waiting = {} /\ Working = {} /\ 1..arrived = {}
    BY <2>1 DEF Waiting, Working
  <2> QED
    BY <2>2 DEF Intake!IntakeInit
<1>2. BotInv /\ BotInv' /\ [BotNext]_botVars => [Intake!IntakeNext]_(Intake!intakeVars)
  BY IntakeStep DEF Intake!intakeVars, IntakeOver
<1> QED
  BY <1>1, <1>2, BotInvInit, BotInvStep, PTL DEF BotSpec, ImplementsIntake, Intake!IntakeSpec

-----------------------------------------------------------------------------
(* The WebSocket connections.                                              *)
(* The requests that have passed the first limit and still hold a slot.    *)
Admitted == {c \in Conns : pc[c] \in {"counted", "upgrading", "failed", "open", "ending"}}

IInv ==
  /\ TypeOK /\ SlotsAccounted
  /\ Cardinality(Admitted) <= MaxWSConns
  /\ \A i \in IPs : wsIPConns[i] <= IPLimit

-----------------------------------------------------------------------------
(* Cardinalities of the sets of goroutines.                                *)
LEMMA Finite ==
  ASSUME NEW S \in SUBSET Conns
  PROVE  IsFiniteSet(S) /\ Cardinality(S) \in Nat
BY ConstantsOK, FS_Subset, FS_CardinalityType

LEMMA AddOne ==
  ASSUME NEW S \in SUBSET Conns, NEW c \in Conns, c \notin S
  PROVE  Cardinality(S \cup {c}) = Cardinality(S) + 1
BY Finite, FS_AddElement

LEMMA RemoveOne ==
  ASSUME NEW S \in SUBSET Conns, NEW c \in S
  PROVE  Cardinality(S \ {c}) = Cardinality(S) - 1
BY Finite, FS_RemoveElement

LEMMA Fewer ==
  ASSUME NEW S \in SUBSET Conns, NEW T \in SUBSET S
  PROVE  Cardinality(T) <= Cardinality(S)
BY Finite, FS_Subset

(* The sets that the counters stand for are sets of goroutines.            *)
LEMMA Sets == Admitted \in SUBSET Conns /\ CountedConns \in SUBSET Conns
              /\ \A i : CountedOf(i) \in SUBSET Conns
BY DEF Admitted, CountedConns, CountedOf

LEMMA InitInv == Init => IInv
<1>. SUFFICES ASSUME Init PROVE IInv
  OBVIOUS
<1>1. TypeOK
  BY DEF Init, TypeOK, PCs
<1>2. CountedConns = {} /\ Admitted = {} /\ \A i \in IPs : CountedOf(i) = {}
  BY DEF Init, CountedConns, Admitted, CountedOf
<1>3. Cardinality({}) = 0
  BY FS_EmptySet
<1>4. SlotsAccounted
  BY <1>2, <1>3 DEF SlotsAccounted, Leftover, Init
<1>5. Cardinality(Admitted) <= MaxWSConns
  BY <1>2, <1>3, ConstantsOK
<1>6. \A i \in IPs : wsIPConns[i] <= IPLimit
  BY ConstantsOK DEF Init
<1>7. QED
  BY <1>1, <1>4, <1>5, <1>6 DEF IInv

-----------------------------------------------------------------------------
(* One lemma per kind of step.                                             *)
LEMMA CountConnInv ==
  ASSUME IInv, NEW c \in Conns, CountConn(c)
  PROVE  IInv'
<1>. USE DEF IInv, CountConn, Goto
<1>1. TypeOK'
  BY DEF TypeOK, PCs
<1>2. CountedConns' = CountedConns \cup {c} /\ c \notin CountedConns
  BY DEF CountedConns, TypeOK
<1>3. wsConnCount' = Cardinality(CountedConns')
  BY <1>2, AddOne, Sets DEF SlotsAccounted
<1>4. \A i \in IPs : CountedOf(i)' = CountedOf(i) /\ Leftover(i)' = Leftover(i)
  BY DEF CountedOf, Leftover, TypeOK
<1>5. SlotsAccounted'
  BY <1>3, <1>4 DEF SlotsAccounted
<1>6. Cardinality(Admitted') <= MaxWSConns
  <2>1. CASE wsConnCount + 1 > MaxWSConns
    <3>1. Admitted' = Admitted
      BY <2>1 DEF Admitted, TypeOK
    <3>2. QED  BY <3>1
  <2>2. CASE ~(wsConnCount + 1 > MaxWSConns)
    <3>1. Admitted' \in SUBSET CountedConns' /\ CountedConns' \in SUBSET Conns
      BY DEF Admitted, CountedConns
    <3>2. Cardinality(Admitted') <= Cardinality(CountedConns')
      BY <3>1, Fewer
    <3>3. Cardinality(Admitted') \in Nat /\ Cardinality(CountedConns') \in Nat
      BY <3>1, Finite
    <3>4. wsConnCount' <= MaxWSConns
      BY <2>2, ConstantsOK DEF TypeOK
    <3>5. QED  BY <3>2, <3>3, <3>4, <1>3, ConstantsOK
  <2>3. QED  BY <2>1, <2>2
<1>7. QED
  BY <1>1, <1>5, <1>6

(* A step that moves goroutine c without a new admission leaves at most    *)
(* as many admitted.                                                       *)
LEMMA NoneAdmitted ==
  ASSUME IInv, Admitted' \in SUBSET Admitted
  PROVE  Cardinality(Admitted') <= MaxWSConns
<1>1. Cardinality(Admitted') <= Cardinality(Admitted)
  BY Sets, Fewer
<1>2. Cardinality(Admitted') \in Nat /\ Cardinality(Admitted) \in Nat
  BY Sets, Finite
<1>3. QED
  BY <1>1, <1>2, ConstantsOK DEF IInv

LEMMA CountIPInv ==
  ASSUME IInv, NEW c \in Conns, CountIP(c)
  PROVE  IInv'
<1>. USE DEF IInv, CountIP, Goto
<1>1. ip[c] \in IPs /\ wsIPConns[ip[c]] \in Nat
  BY DEF TypeOK
<1>2. TypeOK'
  BY <1>1 DEF TypeOK, PCs
<1>3. CountedConns' = CountedConns /\ Admitted' \in SUBSET Admitted
  BY DEF CountedConns, Admitted, TypeOK
<1>4. \A i \in IPs : /\ wsIPConns'[i] = Cardinality(CountedOf(i)') + Leftover(i)'
                     /\ wsIPConns'[i] <= IPLimit
  <2>. SUFFICES ASSUME NEW i \in IPs
                PROVE  /\ wsIPConns'[i] = Cardinality(CountedOf(i)') + Leftover(i)'
                       /\ wsIPConns'[i] <= IPLimit
    OBVIOUS
  <2>0. Leftover(i)' = Leftover(i) /\ Leftover(i) \in Nat /\ Cardinality(CountedOf(i)) \in Nat
    BY Sets, Finite DEF Leftover, TypeOK
  <2>1. CASE i = ip[c] /\ ~(wsIPConns[i] + 1 > IPLimit)
    <3>1. CountedOf(i)' = CountedOf(i) \cup {c} /\ c \notin CountedOf(i)
      BY <2>1 DEF CountedOf, TypeOK
    <3>2. wsIPConns'[i] = wsIPConns[i] + 1
      BY <2>1 DEF TypeOK
    <3>3. Cardinality(CountedOf(i)') = Cardinality(CountedOf(i)) + 1
      BY <3>1, AddOne, Sets
    <3>4. QED  BY <2>0, <2>1, <3>2, <3>3, <1>1, ConstantsOK DEF SlotsAccounted
  <2>2. CASE i # ip[c] \/ wsIPConns[i] + 1 > IPLimit
    <3>1. CountedOf(i)' = CountedOf(i)
      BY <2>2 DEF CountedOf, TypeOK
    <3>2. wsIPConns'[i] = wsIPConns[i]
      BY <2>2 DEF TypeOK
    <3>3. QED  BY <2>0, <3>1, <3>2 DEF SlotsAccounted
  <2>3. QED  BY <2>1, <2>2
<1>5. SlotsAccounted'
  BY <1>3, <1>4 DEF SlotsAccounted
<1>6. QED
  BY <1>2, <1>3, <1>4, <1>5, NoneAdmitted

LEMMA QuietInv ==
  ASSUME IInv, NEW c \in Conns, Upgrade(c) \/ ReadLoopEnds(c)
  PROVE  IInv'
<1>. USE DEF IInv, Upgrade, ReadLoopEnds, Goto
<1>1. TypeOK'
  BY DEF TypeOK, PCs
<1>2. CountedConns' = CountedConns /\ Admitted' \in SUBSET Admitted
      /\ \A i \in IPs : CountedOf(i)' = CountedOf(i) /\ Leftover(i)' = Leftover(i)
  BY DEF CountedConns, Admitted, CountedOf, Leftover, TypeOK
<1>3. SlotsAccounted'
  BY <1>2 DEF SlotsAccounted
<1>4. QED
  BY <1>1, <1>2, <1>3, NoneAdmitted

LEMMA UncountConnInv ==
  ASSUME IInv, NEW c \in Conns, UncountConn(c)
  PROVE  IInv'
<1>. USE DEF IInv, UncountConn, Leaves, Goto
<1>1. TypeOK'
  BY DEF TypeOK, PCs
<1>2. CountedConns' = CountedConns \ {c} /\ c \in CountedConns /\ Admitted' \in SUBSET Admitted
  BY DEF CountedConns, Admitted, TypeOK
<1>3. wsConnCount' = Cardinality(CountedConns')
  BY <1>2, RemoveOne, Sets DEF SlotsAccounted
<1>4. \A i \in IPs : Cardinality(CountedOf(i)') + Leftover(i)' = Cardinality(CountedOf(i)) + Leftover(i)
  <2>. SUFFICES ASSUME NEW i \in IPs
                PROVE  Cardinality(CountedOf(i)') + Leftover(i)' = Cardinality(CountedOf(i)) + Leftover(i)
    OBVIOUS
  <2>1. CASE i = NoAddress /\ ip[c] = NoAddress /\ pc[c] = "ending"
    <3>1. CountedOf(i)' = CountedOf(i) \ {c} /\ c \in CountedOf(i)
      BY <2>1 DEF CountedOf, TypeOK
    <3>2. Cardinality(CountedOf(i)') = Cardinality(CountedOf(i)) - 1
      BY <3>1, RemoveOne, Sets
    <3>3. Cardinality(CountedOf(i)) \in Nat
      BY Sets, Finite
    <3>4. Leftover(i)' = Leftover(i) + 1 /\ Leftover(i) \in Nat
      BY <2>1 DEF Leftover, TypeOK
    <3>5. QED  BY <3>2, <3>3, <3>4
  <2>2. CASE ~(i = NoAddress /\ ip[c] = NoAddress /\ pc[c] = "ending")
    <3>1. CountedOf(i)' = CountedOf(i) /\ Leftover(i)' = Leftover(i)
      BY <2>2 DEF CountedOf, Leftover, TypeOK
    <3>2. QED  BY <3>1
  <2>3. QED  BY <2>1, <2>2
<1>5. SlotsAccounted'
  BY <1>3, <1>4 DEF SlotsAccounted
<1>6. QED
  BY <1>1, <1>2, <1>5, NoneAdmitted

LEMMA UncountIPInv ==
  ASSUME IInv, NEW c \in Conns, UncountIP(c)
  PROVE  IInv'
<1>. USE DEF IInv, UncountIP, Goto
<1>1. ip[c] \in IPs /\ wsIPConns[ip[c]] \in Nat
  BY DEF TypeOK
<1>2. TypeOK'
  BY <1>1 DEF TypeOK, PCs
<1>3. CountedConns' = CountedConns /\ Admitted' \in SUBSET Admitted
  BY DEF CountedConns, Admitted, TypeOK
<1>4. \A i \in IPs : /\ wsIPConns'[i] = Cardinality(CountedOf(i)') + Leftover(i)'
                     /\ wsIPConns'[i] <= IPLimit
  <2>. SUFFICES ASSUME NEW i \in IPs
                PROVE  /\ wsIPConns'[i] = Cardinality(CountedOf(i)') + Leftover(i)'
                       /\ wsIPConns'[i] <= IPLimit
    OBVIOUS
  <2>0. Leftover(i)' = Leftover(i) /\ Leftover(i) \in Nat /\ Cardinality(CountedOf(i)) \in Nat
    BY Sets, Finite DEF Leftover, TypeOK
  <2>1. CASE i = ip[c]
    <3>1. CountedOf(i)' = CountedOf(i) \ {c} /\ c \in CountedOf(i)
      BY <2>1 DEF CountedOf, TypeOK
    <3>2. Cardinality(CountedOf(i)') = Cardinality(CountedOf(i)) - 1
      BY <3>1, RemoveOne, Sets
    <3>3. Cardinality(CountedOf(i)') \in Nat
      BY <3>1, Sets, Finite
    <3>4. wsIPConns'[i] = IF wsIPConns[i] - 1 <= 0 THEN 0 ELSE wsIPConns[i] - 1
      BY <2>1 DEF TypeOK
    <3>5. QED  BY <2>0, <2>1, <3>2, <3>3, <3>4, <1>1, ConstantsOK DEF SlotsAccounted
  <2>2. CASE i # ip[c]
    <3>1. CountedOf(i)' = CountedOf(i) /\ wsIPConns'[i] = wsIPConns[i]
      BY <2>2 DEF CountedOf, TypeOK
    <3>2. QED  BY <2>0, <3>1 DEF SlotsAccounted
  <2>3. QED  BY <2>1, <2>2
<1>5. SlotsAccounted'
  BY <1>3, <1>4 DEF SlotsAccounted
<1>6. QED
  BY <1>2, <1>3, <1>4, <1>5, NoneAdmitted

LEMMA NextInv == IInv /\ [Next]_vars => IInv'
<1>. SUFFICES ASSUME IInv, [Next]_vars PROVE IInv'
  OBVIOUS
<1>1. CASE Next
  <2>. PICK c \in Conns : Handle(c)
    BY <1>1 DEF Next
  <2>1. CASE CountConn(c)
    BY <2>1, CountConnInv
  <2>2. CASE CountIP(c)
    BY <2>2, CountIPInv
  <2>3. CASE Upgrade(c) \/ ReadLoopEnds(c)
    BY <2>3, QuietInv
  <2>4. CASE UncountConn(c)
    BY <2>4, UncountConnInv
  <2>5. CASE UncountIP(c)
    BY <2>5, UncountIPInv
  <2>6. QED
    BY <2>1, <2>2, <2>3, <2>4, <2>5 DEF Handle
<1>2. CASE UNCHANGED vars
  BY <1>2 DEF vars, IInv, TypeOK, SlotsAccounted, Admitted, CountedConns, CountedOf, Leftover
<1>3. QED
  BY <1>1, <1>2

-----------------------------------------------------------------------------
(* The open connections are among those each counter stands for.           *)
LEMMA InvLimits == IInv => LimitsHold
<1>. SUFFICES ASSUME IInv PROVE LimitsHold
  OBVIOUS
<1>1. Cardinality({c \in Conns : pc[c] = "open"}) <= MaxWSConns
  <2>. DEFINE Open == {c \in Conns : pc[c] = "open"}
  <2>1. Open \in SUBSET Admitted
    BY DEF Admitted
  <2>2. Cardinality(Open) <= Cardinality(Admitted)
    BY <2>1, Sets, Fewer
  <2>3. Cardinality(Open) \in Nat /\ Cardinality(Admitted) \in Nat
    BY <2>1, Sets, Finite
  <2>4. QED  BY <2>2, <2>3, ConstantsOK DEF IInv
<1>2. ASSUME NEW i \in IPs
      PROVE  Cardinality({c \in Conns : pc[c] = "open" /\ ip[c] = i}) <= IPLimit
  <2>. DEFINE Open == {c \in Conns : pc[c] = "open" /\ ip[c] = i}
  <2>1. Open \in SUBSET CountedOf(i)
    BY DEF CountedOf
  <2>2. Cardinality(Open) <= Cardinality(CountedOf(i))
    BY <2>1, Sets, Fewer
  <2>3. Cardinality(Open) \in Nat /\ Cardinality(CountedOf(i)) \in Nat
    BY <2>1, Sets, Finite
  <2>4. Leftover(i) \in Nat
    BY DEF Leftover, IInv, TypeOK
  <2>5. QED  BY <2>2, <2>3, <2>4, ConstantsOK DEF IInv, SlotsAccounted
<1>3. QED
  BY <1>1, <1>2 DEF LimitsHold

(* Theorem: the counters of WebSocket connections are exact at every step  *)
(* of HandleWebSocket, so no way out of it leaks a slot, but the end of a  *)
(* connection whose address is empty: each leaves its entry one higher.    *)
THEOREM CountersExact == Spec => [](TypeOK /\ SlotsAccounted)
<1>1. IInv => TypeOK /\ SlotsAccounted
  BY DEF IInv
<1>2. QED
  BY InitInv, NextInv, <1>1, PTL DEF Spec

(* Theorem: never more open connections than maxWSConns, nor more from one *)
(* address than its limit, although counting and checking are two steps.   *)
THEOREM ConnectionsLimited == Spec => []LimitsHold
BY InitInv, NextInv, InvLimits, PTL DEF Spec

-----------------------------------------------------------------------------
(* The open connection.  Until a chat ends, the client was shown pieces    *)
(* only, and all of them unless the connection broke meanwhile.            *)
AllChunks(c) == \A k \in DOMAIN shown[c] : shown[c][k] = <<"chunk", k>>

Pieces(c) ==
  /\ wsAt[c] \in {"none", "starting", "receiving", "locking", "writing", "ended"}
  /\ wsAt[c] # "ended" => AllChunks(c)
  /\ wsAt[c] \in {"locking", "writing"} => frame[c] \in {"chunk", "done", "error"}
  /\ link = "up" =>
       /\ wsAt[c] \in {"none", "starting", "receiving"} => built[c] = Len(shown[c])
       /\ wsAt[c] \in {"locking", "writing"} =>
            /\ frame[c] = "chunk" => built[c] = Len(shown[c]) + 1
            /\ frame[c] = "done" => built[c] = Len(shown[c])

Consistent(c) ==
  \A k \in DOMAIN shown[c] :
    CASE shown[c][k][1] = "chunk" -> shown[c][k][2] = k
      [] shown[c][k][1] = "done"  -> k = Len(shown[c]) /\ shown[c][k][2] = k - 1
      [] OTHER                    -> k = Len(shown[c])

StreamIInv == StreamTypeOK /\ \A c \in WSChats : Pieces(c) /\ Consistent(c)

(* One step of a goroutine.                                                *)
LEMMA MovesTyped ==
  ASSUME StreamTypeOK, NEW w \in Writers,
         NEW to \in {"none", "waiting", "starting", "receiving", "locking", "writing", "closing", "ended"},
         Moves(w, to)
  PROVE  /\ wsAt' \in [Writers -> {"none", "waiting", "starting", "receiving", "locking", "writing",
                                   "closing", "ended"}]
         /\ wsAt'[w] = to /\ \A v \in Writers : v # w => wsAt'[v] = wsAt[v]
BY DEF Moves, StreamTypeOK

LEMMA FrameTyped ==
  ASSUME StreamTypeOK, NEW w \in Writers, NEW kind \in {"none", "ping", "pong", "chunk", "done", "error"},
         frame' = [frame EXCEPT ![w] = kind]
  PROVE  /\ frame' \in [Writers -> {"none", "ping", "pong", "chunk", "done", "error"}]
         /\ frame'[w] = kind /\ \A v \in Writers : v # w => frame'[v] = frame[v]
BY DEF StreamTypeOK

LEMMA ChatsWrite == WSChats \subseteq Writers /\ {"reader", "ping"} \subseteq Writers
                    /\ "reader" \notin WSChats /\ "ping" \notin WSChats
BY StreamConstantsOK DEF Writers

(* What a chat that takes no step keeps, even if the connection breaks.    *)
LEMMA OthersKeep ==
  ASSUME NEW c \in WSChats, Pieces(c), Consistent(c), link' = "up" => link = "up",
         wsAt'[c] = wsAt[c], frame'[c] = frame[c], built'[c] = built[c], shown'[c] = shown[c]
  PROVE  Pieces(c)' /\ Consistent(c)'
BY DEF Pieces, Consistent, AllChunks

LEMMA StreamInitInv == StreamInit => StreamIInv
<1>. SUFFICES ASSUME StreamInit PROVE StreamIInv
  OBVIOUS
<1>1. StreamTypeOK
  BY StreamConstantsOK DEF StreamInit, StreamTypeOK
<1>2. ASSUME NEW c \in WSChats PROVE Pieces(c) /\ Consistent(c)
  <2>1. wsAt[c] = "none" /\ built[c] = 0 /\ shown[c] = << >>
    BY ChatsWrite DEF StreamInit
  <2>2. QED
    BY <2>1 DEF Pieces, Consistent, AllChunks
<1>3. QED
  BY <1>1, <1>2 DEF StreamIInv

(* The peer, the read loop and the pings.                                  *)
LEMMA LoopsInv ==
  ASSUME StreamIInv, PeerVanishes \/ ReadMessage \/ ReadFails \/ HandlerReturns \/ PingTick
  PROVE  StreamIInv'
<1>0. StreamTypeOK /\ \A c \in WSChats : Pieces(c) /\ Consistent(c)
  BY DEF StreamIInv
<1>. USE ChatsWrite, <1>0
<1>1. ASSUME NEW w \in {"reader", "ping"},
             NEW to \in {"none", "waiting", "starting", "receiving", "locking", "writing", "closing", "ended"},
             NEW kind \in {"none", "ping", "pong", "chunk", "done", "error"},
             wsAt' = wsAt \/ Moves(w, to), frame' = frame \/ frame' = [frame EXCEPT ![w] = kind],
             link' \in {"up", "gone", "closed"}, link' = "up" => link = "up",
             UNCHANGED <<room, writeMu, built, shown>>
      PROVE  StreamIInv'
  <2>1. /\ wsAt' \in [Writers -> {"none", "waiting", "starting", "receiving", "locking", "writing",
                                  "closing", "ended"}]
        /\ \A v \in Writers : v # w => wsAt'[v] = wsAt[v]
    BY <1>1, MovesTyped DEF StreamTypeOK
  <2>2. /\ frame' \in [Writers -> {"none", "ping", "pong", "chunk", "done", "error"}]
        /\ \A v \in Writers : v # w => frame'[v] = frame[v]
    BY <1>1, FrameTyped DEF StreamTypeOK
  <2>3. StreamTypeOK'
    BY <1>1, <2>1, <2>2 DEF StreamTypeOK
  <2>4. \A c \in WSChats : Pieces(c)' /\ Consistent(c)'
    BY <1>1, <2>1, <2>2, OthersKeep
  <2>5. QED
    BY <2>3, <2>4 DEF StreamIInv
<1>2. CASE PeerVanishes
  BY <1>1, <1>2 DEF PeerVanishes
<1>3. CASE ReadMessage
  <2>1. ASSUME NEW c \in WSChats, wsAt[c] = "none", Moves(c, "starting"), UNCHANGED frame
        PROVE  StreamIInv'
    <3>1. UNCHANGED <<link, room, writeMu, built, shown>>
      BY <1>3 DEF ReadMessage
    <3>2. /\ wsAt' \in [Writers -> {"none", "waiting", "starting", "receiving", "locking", "writing",
                                    "closing", "ended"}]
          /\ wsAt'[c] = "starting" /\ \A v \in Writers : v # c => wsAt'[v] = wsAt[v]
      BY <2>1, MovesTyped
    <3>3. StreamTypeOK'
      BY <2>1, <3>1, <3>2 DEF StreamTypeOK
    <3>4. Pieces(c)' /\ Consistent(c)'
      BY <2>1, <3>1, <3>2 DEF Pieces, Consistent, AllChunks
    <3>5. \A d \in WSChats : d # c => Pieces(d)' /\ Consistent(d)'
      BY <2>1, <3>1, <3>2, OthersKeep
    <3>6. QED
      BY <3>3, <3>4, <3>5 DEF StreamIInv
  <2>2. ASSUME NEW kind \in {"pong", "error"}, WritesNext("reader", kind) PROVE StreamIInv'
    BY <1>1, <1>3, <2>2 DEF ReadMessage, WritesNext
  <2>3. QED
    BY <1>3, <2>1, <2>2 DEF ReadMessage
<1>4. CASE ReadFails
  BY <1>1, <1>4 DEF ReadFails
<1>5. CASE HandlerReturns
  BY <1>1, <1>5 DEF HandlerReturns, StreamTypeOK
<1>6. CASE PingTick
  BY <1>1, <1>6 DEF PingTick, WritesNext, StreamTypeOK
<1>7. QED
  BY <1>2, <1>3, <1>4, <1>5, <1>6

(* A chat before its writes.                                               *)
LEMMA StreamChatInv ==
  ASSUME StreamIInv, NEW c \in WSChats, ChatSteps(c)
  PROVE  StreamIInv'
<1>0. StreamTypeOK /\ \A d \in WSChats : Pieces(d) /\ Consistent(d)
  BY DEF StreamIInv
<1>. USE ChatsWrite, <1>0
<1>1. ASSUME NEW to \in {"receiving", "locking"}, NEW kind \in {"none", "ping", "pong", "chunk", "done", "error"},
             Moves(c, to), frame' = frame \/ frame' = [frame EXCEPT ![c] = kind],
             built' \in [WSChats -> 0..MaxChunks], \A d \in WSChats : d # c => built'[d] = built[d],
             UNCHANGED <<link, room, writeMu, shown>>, Pieces(c)'
      PROVE  StreamIInv'
  <2>1. /\ wsAt' \in [Writers -> {"none", "waiting", "starting", "receiving", "locking", "writing",
                                  "closing", "ended"}]
        /\ \A v \in Writers : v # c => wsAt'[v] = wsAt[v]
    BY <1>1, MovesTyped
  <2>2. /\ frame' \in [Writers -> {"none", "ping", "pong", "chunk", "done", "error"}]
        /\ \A v \in Writers : v # c => frame'[v] = frame[v]
    BY <1>1, FrameTyped DEF StreamTypeOK
  <2>3. StreamTypeOK'
    BY <1>1, <2>1, <2>2 DEF StreamTypeOK
  <2>4. Consistent(c)'
    BY <1>1 DEF Consistent
  <2>5. \A d \in WSChats : d # c => Pieces(d)' /\ Consistent(d)'
    BY <1>1, <2>1, <2>2, OthersKeep
  <2>6. QED
    BY <1>1, <2>3, <2>4, <2>5 DEF StreamIInv
<1>2. CASE ChatStarts(c)
  <2>1. wsAt[c] = "starting" /\ UNCHANGED <<link, room, writeMu, built, shown>>
    BY <1>2 DEF ChatStarts
  <2>2. CASE WritesNext(c, "error")
    <3>1. wsAt'[c] = "locking" /\ frame'[c] = "error"
      BY <2>2, MovesTyped, FrameTyped DEF WritesNext
    <3>2. Pieces(c)'
      BY <2>1, <3>1 DEF Pieces, AllChunks
    <3>3. QED
      BY <1>1, <2>1, <2>2, <3>2 DEF WritesNext, StreamTypeOK
  <2>3. CASE Moves(c, "receiving") /\ UNCHANGED frame
    <3>1. wsAt'[c] = "receiving"
      BY <2>3, MovesTyped
    <3>2. Pieces(c)'
      BY <2>1, <3>1 DEF Pieces, AllChunks
    <3>3. QED
      BY <1>1, <2>1, <2>3, <3>2 DEF StreamTypeOK
  <2>4. QED
    BY <1>2, <2>2, <2>3 DEF ChatStarts
<1>3. CASE Recv(c)
  <2>1. wsAt[c] = "receiving" /\ UNCHANGED <<link, room, writeMu, shown>>
    BY <1>3 DEF Recv
  <2>2. CASE built[c] < MaxChunks /\ built' = [built EXCEPT ![c] = @ + 1] /\ WritesNext(c, "chunk")
    <3>1. wsAt'[c] = "locking" /\ frame'[c] = "chunk"
      BY <2>2, MovesTyped, FrameTyped DEF WritesNext
    <3>2. /\ built' \in [WSChats -> 0..MaxChunks] /\ built'[c] = built[c] + 1
          /\ \A d \in WSChats : d # c => built'[d] = built[d]
      BY <2>2, StreamConstantsOK DEF StreamTypeOK
    <3>3. Pieces(c)'
      BY <2>1, <3>1, <3>2 DEF Pieces, AllChunks
    <3>4. QED
      BY <1>1, <2>1, <2>2, <3>2, <3>3 DEF WritesNext
  <2>3. CASE WritesNext(c, "done") /\ UNCHANGED built
    <3>1. wsAt'[c] = "locking" /\ frame'[c] = "done"
      BY <2>3, MovesTyped, FrameTyped DEF WritesNext
    <3>2. Pieces(c)'
      BY <2>1, <2>3, <3>1 DEF Pieces, AllChunks
    <3>3. QED
      BY <1>1, <2>1, <2>3, <3>2 DEF WritesNext, StreamTypeOK
  <2>4. QED
    BY <1>3, <2>2, <2>3 DEF Recv
<1>4. QED
  BY <1>2, <1>3 DEF ChatSteps

(* A write of any goroutine.                                               *)
LEMMA WriterInv ==
  ASSUME StreamIInv, NEW w \in Writers, WriterSteps(w)
  PROVE  StreamIInv'
<1>0. StreamTypeOK /\ \A d \in WSChats : Pieces(d) /\ Consistent(d)
  BY DEF StreamIInv
<1>. USE ChatsWrite, <1>0
<1>1. ASSUME NEW to \in {"waiting", "receiving", "locking", "writing", "closing", "ended"},
             NEW kind \in {"none", "ping", "pong", "chunk", "done", "error"},
             Moves(w, to), frame' = frame \/ frame' = [frame EXCEPT ![w] = kind],
             link' \in {"up", "gone", "closed"}, link' = "up" => link = "up",
             room' \in 0..SendRoom, writeMu' \in Writers \cup {"nobody"}, built' = built,
             shown' \in [WSChats -> Seq({"chunk", "done", "error"} \X (0..MaxChunks))],
             \A d \in WSChats : d # w => shown'[d] = shown[d],
             w \in WSChats => Pieces(w)' /\ Consistent(w)'
      PROVE  StreamIInv'
  <2>1. /\ wsAt' \in [Writers -> {"none", "waiting", "starting", "receiving", "locking", "writing",
                                  "closing", "ended"}]
        /\ \A v \in Writers : v # w => wsAt'[v] = wsAt[v]
    BY <1>1, MovesTyped
  <2>2. /\ frame' \in [Writers -> {"none", "ping", "pong", "chunk", "done", "error"}]
        /\ \A v \in Writers : v # w => frame'[v] = frame[v]
    BY <1>1, FrameTyped DEF StreamTypeOK
  <2>3. StreamTypeOK'
    BY <1>1, <2>1, <2>2 DEF StreamTypeOK
  <2>4. \A d \in WSChats : d # w => Pieces(d)' /\ Consistent(d)'
    BY <1>1, <2>1, <2>2, OthersKeep
  <2>5. QED
    BY <1>1, <2>3, <2>4 DEF StreamIInv
<1>2. CASE LockWrites(w)
  <2>1. wsAt[w] = "locking" /\ wsAt'[w] = "writing" /\ UNCHANGED <<link, room, frame, built, shown>>
    BY <1>2, MovesTyped DEF LockWrites
  <2>2. w \in WSChats => Pieces(w)' /\ Consistent(w)'
    BY <2>1 DEF Pieces, Consistent, AllChunks
  <2>3. QED
    BY <1>1, <1>2, <2>2 DEF LockWrites, StreamTypeOK
<1>3. CASE WriteSucceeds(w)
  <2>. DEFINE to == IF w \notin WSChats THEN "waiting" ELSE IF frame[w] = "chunk" THEN "receiving" ELSE "ended"
  <2>1. /\ wsAt[w] = "writing" /\ Moves(w, to) /\ wsAt'[w] = to
        /\ frame' = [frame EXCEPT ![w] = "none"] /\ UNCHANGED <<link, built>>
    BY <1>3, MovesTyped DEF WriteSucceeds
  <2>2. room' \in 0..SendRoom /\ writeMu' = "nobody"
    BY <1>3, StreamConstantsOK DEF WriteSucceeds, StreamTypeOK
  <2>3. CASE link = "up" /\ w \in WSChats
    <3>1. /\ shown[w] \in Seq({"chunk", "done", "error"} \X (0..MaxChunks))
          /\ frame[w] \in {"chunk", "done", "error"} /\ built[w] \in 0..MaxChunks
          /\ AllChunks(w) /\ built[w] \in Nat
      BY <2>1, <2>3, StreamConstantsOK DEF StreamTypeOK, Pieces
    <3>2. shown' = [shown EXCEPT ![w] = Append(@, <<frame[w], built[w]>>)]
      BY <1>3, <2>3 DEF WriteSucceeds
    <3>3. /\ shown' \in [WSChats -> Seq({"chunk", "done", "error"} \X (0..MaxChunks))]
          /\ shown'[w] = Append(shown[w], <<frame[w], built[w]>>)
          /\ \A d \in WSChats : d # w => shown'[d] = shown[d]
      BY <2>3, <3>1, <3>2 DEF StreamTypeOK
    <3>n. Len(shown[w]) \in Nat /\ DOMAIN shown[w] = 1..Len(shown[w])
      BY <3>1
    <3>l. /\ Len(shown'[w]) = Len(shown[w]) + 1 /\ DOMAIN shown'[w] = 1..(Len(shown[w]) + 1)
          /\ shown'[w][Len(shown[w]) + 1] = <<frame[w], built[w]>>
          /\ \A k \in 1..Len(shown[w]) : shown'[w][k] = shown[w][k]
      BY <3>1, <3>3, <3>n
    <3>4. /\ Len(shown'[w]) = Len(shown[w]) + 1
          /\ shown'[w][Len(shown'[w])] = <<frame[w], built[w]>>
          /\ \A k \in DOMAIN shown'[w] :
               /\ k \in Nat
               /\ k = Len(shown'[w]) \/ (k \in DOMAIN shown[w] /\ shown'[w][k] = shown[w][k])
      BY <3>n, <3>l
    <3>5. CASE frame[w] = "chunk"
      <4>1. built[w] = Len(shown'[w]) /\ wsAt'[w] = "receiving"
        BY <2>1, <2>3, <3>4, <3>5 DEF Pieces
      <4>2. AllChunks(w)'
        BY <3>1, <3>4, <3>5, <4>1 DEF AllChunks
      <4>3. Pieces(w)'
        BY <2>1, <4>1, <4>2 DEF Pieces
      <4>4. Consistent(w)'
        BY <4>2 DEF Consistent, AllChunks
      <4>5. QED
        BY <1>1, <2>1, <2>2, <3>3, <4>3, <4>4 DEF StreamTypeOK
    <3>6. CASE frame[w] # "chunk"
      <4>1. wsAt'[w] = "ended" /\ Pieces(w)'
        BY <2>1, <2>3, <3>6 DEF Pieces
      <4>2. frame[w] = "done" => built[w] = Len(shown'[w]) - 1
        BY <2>1, <2>3, <3>1, <3>4 DEF Pieces
      <4>3. Consistent(w)'
        <5>. SUFFICES ASSUME NEW k \in DOMAIN shown'[w]
                      PROVE  CASE shown'[w][k][1] = "chunk" -> shown'[w][k][2] = k
                               [] shown'[w][k][1] = "done"  -> k = Len(shown'[w]) /\ shown'[w][k][2] = k - 1
                               [] OTHER                     -> k = Len(shown'[w])
          BY DEF Consistent
        <5>1. CASE k = Len(shown'[w])
          BY <3>1, <3>4, <3>6, <4>2, <5>1
        <5>2. CASE k # Len(shown'[w])
          BY <3>1, <3>4, <5>2 DEF AllChunks
        <5>3. QED
          BY <5>1, <5>2
      <4>4. QED
        BY <1>1, <2>1, <2>2, <3>3, <4>1, <4>3 DEF StreamTypeOK
    <3>7. QED
      BY <3>5, <3>6
  <2>4. CASE ~(link = "up" /\ w \in WSChats)
    <3>1. shown' = shown
      BY <1>3, <2>4 DEF WriteSucceeds
    <3>2. w \in WSChats => Pieces(w)' /\ Consistent(w)'
      BY <2>1, <2>4, <3>1 DEF Pieces, Consistent, AllChunks
    <3>3. QED
      BY <1>1, <2>1, <2>2, <3>1, <3>2 DEF StreamTypeOK
  <2>5. QED
    BY <2>3, <2>4
<1>4. CASE WriteFails(w)
  <2>1. /\ wsAt[w] = "writing" /\ writeMu' = "nobody" /\ UNCHANGED <<room, built, shown>>
        /\ link' \in {"up", "gone", "closed"} /\ (link' = "up" => link = "up") /\ AfterFailure(w)
    BY <1>4 DEF WriteFails, StreamTypeOK
  <2>2. CASE frame[w] = "chunk"
    <3>1. wsAt'[w] = "locking" /\ frame'[w] = "error"
      BY <2>1, <2>2, MovesTyped, FrameTyped DEF AfterFailure, WritesNext
    <3>2. w \in WSChats => Pieces(w)' /\ Consistent(w)'
      BY <2>1, <3>1 DEF Pieces, Consistent, AllChunks
    <3>3. QED
      BY <1>1, <2>1, <2>2, <3>2 DEF AfterFailure, WritesNext, StreamTypeOK
  <2>3. CASE frame[w] # "chunk"
    <3>. DEFINE to == CASE w \in WSChats -> "ended" [] w = "ping" -> "ended"
                        [] OTHER -> IF frame[w] = "pong" THEN "closing" ELSE "waiting"
    <3>1. Moves(w, to) /\ frame' = [frame EXCEPT ![w] = "none"]
      BY <2>1, <2>3 DEF AfterFailure
    <3>2. to \in {"ended", "closing", "waiting"} /\ (w \in WSChats => to = "ended")
      OBVIOUS
    <3>. HIDE DEF to
    <3>3. w \in WSChats => wsAt'[w] = "ended"
      BY <3>1, <3>2, MovesTyped
    <3>4. w \in WSChats => Pieces(w)' /\ Consistent(w)'
      BY <2>1, <3>3 DEF Pieces, Consistent
    <3>5. QED
      BY <1>1, <2>1, <3>1, <3>2, <3>4 DEF StreamTypeOK
  <2>4. QED
    BY <2>2, <2>3
<1>5. QED
  BY <1>2, <1>3, <1>4 DEF WriterSteps

LEMMA StreamNextInv == StreamIInv /\ [StreamNext]_streamVars => StreamIInv'
<1>1. ASSUME StreamIInv, StreamNext PROVE StreamIInv'
  BY <1>1, LoopsInv, StreamChatInv, WriterInv DEF StreamNext
<1>2. ASSUME StreamIInv, UNCHANGED streamVars PROVE StreamIInv'
  <2>1. StreamTypeOK'
    BY <1>2 DEF StreamIInv, StreamTypeOK, streamVars
  <2>2. \A c \in WSChats : Pieces(c)' /\ Consistent(c)'
    BY <1>2, OthersKeep DEF StreamIInv, streamVars
  <2>3. QED
    BY <2>1, <2>2 DEF StreamIInv
<1>3. QED
  BY <1>1, <1>2

(* Theorem: whatever writes fail and whenever the peer vanishes, a client  *)
(* is shown the pieces of an answer in order and without a gap, at most    *)
(* one last frame, and a done frame only with exactly those pieces.        *)
THEOREM AnswersConsistent == StreamSpec => [](StreamTypeOK /\ DoneMatchesChunks)
<1>1. StreamIInv => StreamTypeOK /\ DoneMatchesChunks
  BY DEF StreamIInv, DoneMatchesChunks, Consistent
<1>2. QED
  BY <1>1, StreamInitInv, StreamNextInv, PTL DEF StreamSpec
-----------------------------------------------------------------------------
(* The write mutex of a connection.                                        *)

HeldByWriter == \A w \in Writers : writeMu = w <=> wsAt[w] = "writing"

LEMMA WritersNamed == "nobody" \notin Writers /\ {"reader", "ping"} \subseteq Writers /\ WSChats \subseteq Writers
BY StreamConstantsOK DEF Writers

(* A goroutine that moves outside of its writes leaves the mutex as it is. *)
LEMMA OutsideMoves ==
  ASSUME StreamTypeOK, HeldByWriter, writeMu' = writeMu, NEW w \in Writers, NEW to, Moves(w, to),
         wsAt[w] # "writing", to # "writing"
  PROVE  HeldByWriter'
BY DEF HeldByWriter, Moves, StreamTypeOK

LEMMA LoopsHeld ==
  ASSUME StreamTypeOK, HeldByWriter,
         PeerVanishes \/ ReadMessage \/ ReadFails \/ HandlerReturns \/ PingTick
           \/ (\E c \in WSChats : ChatSteps(c)) \/ UNCHANGED streamVars
  PROVE  HeldByWriter' /\ writeMu' = writeMu
<1>1. writeMu' = writeMu
  BY DEF PeerVanishes, ReadMessage, ReadFails, HandlerReturns, PingTick, ChatSteps, ChatStarts, Recv, streamVars
<1>2. CASE PeerVanishes \/ UNCHANGED streamVars
  BY <1>1, <1>2 DEF PeerVanishes, streamVars, HeldByWriter
<1>3. CASE ReadMessage
  <2>1. \E w \in Writers : /\ Moves(w, "starting") \/ Moves(w, "locking")
                           /\ wsAt[w] \in {"none", "waiting"}
    BY <1>3, WritersNamed DEF ReadMessage, WritesNext
  <2> QED
    BY <1>1, <2>1, OutsideMoves
<1>4. CASE ReadFails \/ HandlerReturns
  BY <1>1, <1>4, OutsideMoves, WritersNamed DEF ReadFails, HandlerReturns
<1>5. CASE PingTick
  BY <1>1, <1>5, OutsideMoves, WritersNamed DEF PingTick, WritesNext
<1>6. ASSUME NEW c \in WSChats, ChatSteps(c) PROVE HeldByWriter'
  <2>1. c \in Writers /\ wsAt[c] \in {"starting", "receiving"}
    BY <1>6, WritersNamed DEF ChatSteps, ChatStarts, Recv
  <2>2. Moves(c, "locking") \/ Moves(c, "receiving")
    BY <1>6 DEF ChatSteps, ChatStarts, Recv, WritesNext
  <2> QED
    BY <1>1, <2>1, <2>2, OutsideMoves
<1> QED
  BY <1>1, <1>2, <1>3, <1>4, <1>5, <1>6

LEMMA WriterHolds ==
  ASSUME StreamTypeOK, HeldByWriter, NEW w \in Writers, WriterSteps(w)
  PROVE  /\ HeldByWriter'
         /\ \/ wsAt[w] = "locking" /\ writeMu = "nobody" /\ writeMu' = w
            \/ writeMu = w /\ writeMu' = "nobody"
<1>1. CASE LockWrites(w)
  BY <1>1, WritersNamed DEF LockWrites, Moves, HeldByWriter, StreamTypeOK
<1>2. CASE WriteSucceeds(w) \/ WriteFails(w)
  <2>1. wsAt[w] = "writing" /\ writeMu' = "nobody"
    BY <1>2 DEF WriteSucceeds, WriteFails
  <2>2. PICK to : Moves(w, to) /\ to # "writing"
    BY <1>2 DEF WriteSucceeds, WriteFails, AfterFailure, WritesNext
  <2> QED
    BY <2>1, <2>2, WritersNamed DEF Moves, HeldByWriter, StreamTypeOK
<1> QED
  BY <1>1, <1>2 DEF WriterSteps

(* The mutex of a connection is held exactly by the goroutine that writes, *)
(* so one that has ended, or waits for the agent or for the peer to write, *)
(* never keeps it from the others: every way out of a write, the failed    *)
(* ones too, unlocks it, and nobody else does.                             *)
THEOREM WritersTakeTurns ==
  StreamSpec => /\ []HeldByWriter
                /\ [][\A w \in Writers : writeMu = w =>
                        IF WriterSteps(w) THEN writeMu' = "nobody" ELSE writeMu' = w]_streamVars
<1>1. StreamInit => HeldByWriter
  BY WritersNamed DEF StreamInit, HeldByWriter
<1>2. StreamTypeOK /\ HeldByWriter /\ [StreamNext]_streamVars => HeldByWriter'
  BY LoopsHeld, WriterHolds DEF StreamNext
<1>3. ASSUME StreamTypeOK, HeldByWriter, [StreamNext]_streamVars, NEW w \in Writers, writeMu = w
      PROVE  IF WriterSteps(w) THEN writeMu' = "nobody" ELSE writeMu' = w
  <2>1. w # "nobody"
    BY WritersNamed
  <2>2. ASSUME NEW v \in Writers, WriterSteps(v) PROVE v = w /\ writeMu' = "nobody"
    BY <1>3, <2>1, <2>2, WriterHolds
  <2> QED
    BY <1>3, <2>2, LoopsHeld DEF StreamNext
<1>4. StreamTypeOK /\ HeldByWriter /\ [StreamNext]_streamVars =>
        [\A w \in Writers : writeMu = w =>
           IF WriterSteps(w) THEN writeMu' = "nobody" ELSE writeMu' = w]_streamVars
  BY <1>3
<1> QED
  BY <1>1, <1>2, <1>4, AnswersConsistent, PTL DEF StreamSpec
=============================================================================
