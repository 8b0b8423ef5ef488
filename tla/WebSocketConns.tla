-------------------------- MODULE WebSocketConns --------------------------
(***************************************************************************)
(* Admission of WebSocket connections by the gateway: HandleWebSocket      *)
(* counts a connection in wsConnCount (an atomic counter) and in           *)
(* wsIPConns (a map under g.mu) before the upgrade, and every way out of   *)
(* it - either limit, a failed upgrade, the end of the connection - takes  *)
(* back what it has counted, but for one: the end of a connection lowers   *)
(* no entry for the empty address.  The atomic counter and the map are     *)
(* changed by separate steps, so requests see each other half counted.     *)
(***************************************************************************)
EXTENDS Integers, FiniteSets

CONSTANTS
  Conns,      \* goroutines of HandleWebSocket, each serving one request at a time
  IPs,        \* client addresses as getClientIP finds them
  NoAddress,  \* the empty one, which it takes from a header with a blank entry
  MaxWSConns, \* g.maxWSConns (50)
  IPLimit     \* ipLimit (10)

ASSUME ConstantsOK ==
  /\ IsFiniteSet(Conns)
  /\ MaxWSConns \in Nat /\ IPLimit \in Nat

VARIABLES
  pc,          \* how far each goroutine is
  ip,          \* the address of its request
  wsConnCount,
  wsIPConns,   \* an address without an entry has 0
  unnamed      \* observation: connections from NoAddress that have ended

vars == <<pc, ip, wsConnCount, wsIPConns, unnamed>>

Init ==
  /\ pc = [c \in Conns |-> "idle"]
  /\ ip \in [Conns -> IPs]
  /\ wsConnCount = 0
  /\ wsIPConns = [i \in IPs |-> 0]
  /\ unnamed = 0

Goto(c, from, to) == pc[c] = from /\ pc' = [pc EXCEPT ![c] = to]

-----------------------------------------------------------------------------
(* An authenticated upgrade request: atomic.AddInt32(&g.wsConnCount, 1).   *)
CountConn(c) ==
  /\ Goto(c, "idle", IF wsConnCount + 1 > MaxWSConns THEN "refused" ELSE "counted")
  /\ wsConnCount' = wsConnCount + 1
  /\ \E i \in IPs : ip' = [ip EXCEPT ![c] = i]
  /\ UNCHANGED <<wsIPConns, unnamed>>

(* Mutant: the entry of a refused request stays counted.                   *)
CountIPKeeps(c) ==
  /\ Goto(c, "counted", IF wsIPConns[ip[c]] + 1 > IPLimit THEN "refused" ELSE "upgrading")
  /\ wsIPConns' = [wsIPConns EXCEPT ![ip[c]] = @ + 1]
  /\ UNCHANGED <<ip, wsConnCount, unnamed>>

(* Mutant: the limit is compared before the request is counted.            *)
CountIPLate(c) ==
  /\ Goto(c, "counted", IF wsIPConns[ip[c]] > IPLimit THEN "refused" ELSE "upgrading")
  /\ wsIPConns' = [wsIPConns EXCEPT ![ip[c]] = IF @ > IPLimit THEN @ ELSE @ + 1]
  /\ UNCHANGED <<ip, wsConnCount, unnamed>>

(* The check of the address, incremented and taken back under one lock.    *)
CountIP(c) ==
  /\ Goto(c, "counted", IF wsIPConns[ip[c]] + 1 > IPLimit THEN "refused" ELSE "upgrading")
  /\ wsIPConns' = [wsIPConns EXCEPT ![ip[c]] = IF @ + 1 > IPLimit THEN @ ELSE @ + 1]
  /\ UNCHANGED <<ip, wsConnCount, unnamed>>

(* websocket.Accept                                                        *)
Upgrade(c) ==
  /\ Goto(c, "upgrading", "open") \/ Goto(c, "upgrading", "failed")
  /\ UNCHANGED <<ip, wsConnCount, wsIPConns, unnamed>>

(* The read loop returns: a read error, a failed ping or pong.             *)
ReadLoopEnds(c) ==
  /\ Goto(c, "open", "ending")
  /\ UNCHANGED <<ip, wsConnCount, wsIPConns, unnamed>>

(* A request that was counted for its address goes on to lower the entry:  *)
(* after a failed upgrade always, at the end of a connection if clientIP   *)
(* is not empty.                                                           *)
Leaves(c) ==
  \/ Goto(c, "refused", "idle") /\ UNCHANGED unnamed
  \/ Goto(c, "failed", "uncounted") /\ UNCHANGED unnamed
  \/ ip[c] # NoAddress /\ Goto(c, "ending", "uncounted") /\ UNCHANGED unnamed
  \/ ip[c] = NoAddress /\ Goto(c, "ending", "idle") /\ unnamed' = unnamed + 1

(* Mutant: the decrement after a refusal is missing.                       *)
UncountConnOnce(c) ==
  /\ Leaves(c)
  /\ wsConnCount' = IF pc[c] = "refused" THEN wsConnCount ELSE wsConnCount - 1
  /\ UNCHANGED <<ip, wsIPConns>>

(* atomic.AddInt32(&g.wsConnCount, -1), on each of the four ways out       *)
UncountConn(c) ==
  /\ Leaves(c)
  /\ wsConnCount' = wsConnCount - 1
  /\ UNCHANGED <<ip, wsIPConns>>

(* Mutant: an entry may be given back twice, and is not deleted at zero.   *)
UncountIPTwice(c) ==
  /\ Goto(c, "uncounted", "idle") \/ Goto(c, "idle", "idle")
  /\ wsIPConns' = [wsIPConns EXCEPT ![ip[c]] = @ - 1]
  /\ UNCHANGED <<ip, wsConnCount, unnamed>>

(* The entry is decremented, and deleted when it is not positive.          *)
UncountIP(c) ==
  /\ Goto(c, "uncounted", "idle")
  /\ wsIPConns' = [wsIPConns EXCEPT ![ip[c]] = IF @ - 1 <= 0 THEN 0 ELSE @ - 1]
  /\ UNCHANGED <<ip, wsConnCount, unnamed>>

-----------------------------------------------------------------------------
Handle(c) ==
  CountConn(c) \/ CountIP(c) \/ Upgrade(c) \/ ReadLoopEnds(c) \/ UncountConn(c) \/ UncountIP(c)

Next == \E c \in Conns : Handle(c)

Spec == Init /\ [][Next]_vars

-----------------------------------------------------------------------------
(* Properties.                                                             *)

PCs == {"idle", "refused", "counted", "upgrading", "failed", "open", "ending", "uncounted"}

TypeOK ==
  /\ pc \in [Conns -> PCs]
  /\ ip \in [Conns -> IPs]
  /\ wsConnCount \in Int
  /\ wsIPConns \in [IPs -> Nat]
  /\ unnamed \in Nat

(* The goroutines that wsConnCount stands for, refused ones included ...   *)
CountedConns == {c \in Conns : pc[c] \notin {"idle", "uncounted"}}

(* ... and those that the entry of address i stands for, which for the     *)
(* empty address counts the connections that have ended as well.           *)
CountedOf(i) ==
  {c \in Conns : ip[c] = i /\ pc[c] \in {"upgrading", "failed", "open", "ending", "uncounted"}}

Leftover(i) == IF i = NoAddress THEN unnamed ELSE 0

(* No way out of HandleWebSocket leaks a slot or gives one back twice but  *)
(* the end of a connection from the empty address, which keeps its entry   *)
(* raised for good: at every moment each counter is the number of requests *)
(* it stands for.                                                          *)
SlotsAccounted ==
  /\ wsConnCount = Cardinality(CountedConns)
  /\ \A i \in IPs : wsIPConns[i] = Cardinality(CountedOf(i)) + Leftover(i)

(* The limits hold for the connections that are open, of all clients and   *)
(* of one address, although refused requests are counted for a moment.     *)
LimitsHold ==
  /\ Cardinality({c \in Conns : pc[c] = "open"}) <= MaxWSConns
  /\ \A i \in IPs : Cardinality({c \in Conns : pc[c] = "open" /\ ip[c] = i}) <= IPLimit
=============================================================================
