----------------------- MODULE RealtimeSessions_proofs -----------------------
(***************************************************************************)
(* Type correctness of RealtimeSessions, the uniqueness of a session's     *)
(* connection, whose replies a turn may collect, who may hold which mutex, *)
(* and that a turn advances with every step it takes, for any requests,    *)
(* sessions, turns and failures.                                           *)
(***************************************************************************)
EXTENDS RealtimeSessions, TLAPS

(* The steps between the locking and the unlocking of a session's mutex.   *)
Inside == PCs \ {"idle", "lockMu", "lockSess"}

(* Whoever is inside holds the mutex of its session.                       *)
Exclusive == \A r \in Reqs : req[r].pc \in Inside => sessMu[req[r].sess] = r

(* The connection a turn works with exists; one it is about to cache is    *)
(* for its own session.                                                    *)
Using == {"cache", "attach", "send", "touch", "wait", "touchEnd"}

OwnConn ==
  \A r \in Reqs :
    /\ req[r].pc \in Using => req[r].rt \in DOMAIN conns
    /\ req[r].pc = "cache" => conns[req[r].rt].sess = req[r].sess

CachedIsOfSession == \A s \in Sessions : cached[s] # 0 => conns[cached[s]].sess = s

(* Nobody opens a connection while the cached one is alive ...             *)
NoneCached ==
  \A r \in Reqs : req[r].pc \in {"connect", "cache"} => ~Connected(cached[req[r].sess])

(* ... and a connection that is alive is cached or about to be.            *)
Accounted ==
  \A c \in DOMAIN conns :
    conns[c].state # "closed" =>
      cached[conns[c].sess] = c \/ \E r \in Reqs : req[r].pc = "cache" /\ req[r].rt = c

ConnInv == Exclusive /\ OwnConn /\ CachedIsOfSession /\ NoneCached /\ Accounted

IInv == TypeOK /\ ConnInv

-----------------------------------------------------------------------------
(* Sequences as functions.                                                 *)
LEMMA SeqIsFun ==
  ASSUME NEW S, NEW f \in Seq(S)
  PROVE  /\ Len(f) \in Nat /\ DOMAIN f = 1..Len(f)
         /\ f \in [1..Len(f) -> S]
OBVIOUS

LEMMA FunIsSeq ==
  ASSUME NEW S, NEW n \in Nat, NEW f \in [1..n -> S]
  PROVE  f \in Seq(S) /\ Len(f) = n
OBVIOUS

(* Changing one connection, or each of them, keeps the sequence typed.     *)
LEMMA ChangeConn ==
  ASSUME TypeOK, NEW c, NEW new, c \in DOMAIN conns => new \in Conn,
         conns' = [conns EXCEPT ![c] = new]
  PROVE  conns' \in Seq(Conn) /\ Len(conns') = Len(conns) /\ DOMAIN conns' = DOMAIN conns
<1>. DEFINE n == Len(conns)
<1>1. n \in Nat /\ DOMAIN conns = 1..n /\ conns \in [1..n -> Conn]
  BY SeqIsFun DEF TypeOK
<1>2. conns' \in [1..n -> Conn]
  BY <1>1
<1>3. QED
  BY <1>1, <1>2, FunIsSeq

(* What the invariant needs from a step that opens, caches and drops no    *)
(* connection.                                                             *)
Harmless ==
  /\ DOMAIN conns' = DOMAIN conns /\ cached' = cached
  /\ \A c \in DOMAIN conns : /\ conns'[c].sess = conns[c].sess
                             /\ conns[c].state = "closed" => conns'[c].state = "closed"
  /\ \A r \in Reqs :
       /\ req'[r].pc \in Using => req[r].pc \in Using /\ req'[r].rt = req[r].rt
       /\ req'[r].pc \in {"connect", "cache"} => req'[r] = req[r]
       /\ req[r].pc = "cache" => req'[r] = req[r]

LEMMA HarmlessStep ==
  ASSUME TypeOK, TypeOK', ConnInv, Harmless
  PROVE  OwnConn' /\ CachedIsOfSession' /\ NoneCached' /\ Accounted'
<1>0. \A s \in Sessions : cached[s] # 0 => cached[s] \in DOMAIN conns
  BY SeqIsFun DEF TypeOK
<1>1. OwnConn'
  BY DEF OwnConn, ConnInv, Harmless, Using
<1>2. CachedIsOfSession'
  BY <1>0 DEF CachedIsOfSession, ConnInv, Harmless
<1>3. NoneCached'
  <2>. SUFFICES ASSUME NEW r \in Reqs, req'[r].pc \in {"connect", "cache"}
                PROVE  ~Connected(cached[req[r].sess])'
    BY DEF NoneCached, Harmless
  <2>1. req'[r] = req[r] /\ ~Connected(cached[req[r].sess]) /\ req[r].sess \in Sessions
    BY DEF Harmless, ConnInv, NoneCached, TypeOK, Req
  <2>2. QED
    BY <2>1, <1>0 DEF Connected, Harmless
<1>4. Accounted'
  <2>. SUFFICES ASSUME NEW c \in DOMAIN conns, conns'[c].state # "closed"
                PROVE  \/ cached[conns[c].sess] = c
                       \/ \E r \in Reqs : req'[r].pc = "cache" /\ req'[r].rt = c
    BY DEF Accounted, Harmless
  <2>1. \/ cached[conns[c].sess] = c
        \/ \E r \in Reqs : req[r].pc = "cache" /\ req[r].rt = c
    BY DEF Harmless, ConnInv, Accounted
  <2>2. QED
    BY <2>1 DEF Harmless
<1>5. QED
  BY <1>1, <1>2, <1>3, <1>4

-----------------------------------------------------------------------------
LEMMA NoTurnTyped == NoTurn \in Req
BY ConstantsOK DEF NoTurn, Req, PCs

LEMMA InitInv == Init => IInv
<1>. SUFFICES ASSUME Init PROVE IInv
  OBVIOUS
<1>1. conns = <<>> /\ conns \in Seq(Conn) /\ Len(conns) = 0
  BY DEF Init
<1>2. DOMAIN conns = {}
  BY <1>1
<1>3. TypeOK
  <2>1. meta \in [Sessions -> {"absent", "unreadable", "http", "live"}]
    BY ConstantsOK DEF Init
  <2>2. cached \in [Sessions -> 0..Len(conns)]
    BY <1>1 DEF Init
  <2>3. req \in [Reqs -> Req]
    BY NoTurnTyped DEF Init
  <2>4. QED
    BY <1>1, <2>1, <2>2, <2>3 DEF Init, TypeOK
<1>4. \A r \in Reqs : req[r].pc = "idle"
  BY DEF Init, NoTurn
<1>5. Exclusive
  BY <1>4 DEF Exclusive, Inside
<1>6. OwnConn /\ NoneCached
  BY <1>4 DEF OwnConn, NoneCached, Using
<1>7. CachedIsOfSession /\ Accounted
  BY <1>2 DEF Init, CachedIsOfSession, Accounted
<1>8. QED
  BY <1>3, <1>5, <1>6, <1>7 DEF IInv, ConnInv

-----------------------------------------------------------------------------
(* Types.                                                                  *)

(* A step of request r that changes its record only.                       *)
LEMMA ReqTyped ==
  ASSUME TypeOK, NEW r \in Reqs, NEW new \in Req, req' = [req EXCEPT ![r] = new]
  PROVE  req' \in [Reqs -> Req]
BY DEF TypeOK

LEMMA GotoTyped ==
  ASSUME TypeOK, NEW r \in Reqs, NEW pc \in PCs, Goto(r, pc)
  PROVE  req' \in [Reqs -> Req]
<1>1. [req[r] EXCEPT !.pc = pc] \in Req
  BY ZenonT(40) DEF TypeOK, Req
<1>2. QED
  BY <1>1 DEF TypeOK, Goto

LEMMA LockTypes ==
  ASSUME TypeOK, NEW r \in Reqs, LockMu(r) \/ LockSession(r) \/ Return(r)
  PROVE  TypeOK'
<1>. USE DEF cache, counters, PCs
<1>1. CASE LockMu(r)
  BY <1>1, GotoTyped DEF LockMu, TypeOK
<1>2. CASE LockSession(r)
  BY <1>2, GotoTyped DEF LockSession, TypeOK
<1>3. CASE Return(r)
  BY <1>3, ReqTyped, NoTurnTyped DEF Return, TypeOK
<1>4. QED
  BY <1>1, <1>2, <1>3

LEMMA StartTypes ==
  ASSUME TypeOK, NEW r \in Reqs, NEW s \in Sessions, StartTurn(r, s)
  PROVE  TypeOK'
<1>1. [NoTurn EXCEPT !.pc = "lockMu", !.sess = s, !.turn = turns + 1] \in Req
  <2>1. turns + 1 \in Nat
    BY DEF TypeOK
  <2>2. QED
    BY <2>1 DEF NoTurn, Req, PCs
<1>2. req' \in [Reqs -> Req]
  BY <1>1, ReqTyped DEF StartTurn
<1>3. QED
  BY <1>2 DEF StartTurn, TypeOK, locks, cache

(* The connections a step changes keep their types.                        *)
LEMMA ConnTyped ==
  ASSUME TypeOK, NEW c \in DOMAIN conns
  PROVE  /\ conns[c] \in Conn /\ conns[c].due \in Seq(Nat) /\ conns[c].sess \in Sessions
         /\ \A t \in Nat : /\ [conns[c] EXCEPT !.cb = t] \in Conn
                           /\ [conns[c] EXCEPT !.due = Append(@, t)] \in Conn
         /\ [conns[c] EXCEPT !.state = "closed"] \in Conn
         /\ [conns[c] EXCEPT !.state = "failing", !.due = <<>>] \in Conn
         /\ [conns[c] EXCEPT !.state = "closed", !.due = <<>>] \in Conn
         /\ conns[c].due # <<>> => /\ Head(conns[c].due) \in Nat
                                   /\ [conns[c] EXCEPT !.due = Tail(@)] \in Conn
<1>1. conns[c] \in Conn
  BY SeqIsFun DEF TypeOK
<1>2. conns[c].due \in Seq(Nat) /\ conns[c].sess \in Sessions
  BY <1>1 DEF Conn
<1>3. \A t \in Nat : Append(conns[c].due, t) \in Seq(Nat)
  BY <1>2
<1>4. conns[c].due # <<>> => Head(conns[c].due) \in Nat /\ Tail(conns[c].due) \in Seq(Nat)
  BY <1>2
<1>5. <<>> \in Seq(Nat)
  OBVIOUS
<1>6. QED
  BY <1>1, <1>2, <1>3, <1>4, <1>5 DEF Conn

LEMMA CacheTypes ==
  ASSUME TypeOK, OwnConn, NEW r \in Reqs, Lookup(r) \/ Connect(r) \/ CacheRealtime(r)
  PROVE  TypeOK'
<1>. USE DEF locks, cache, counters
<1>0. Len(conns) \in Nat /\ DOMAIN conns = 1..Len(conns) /\ req[r] \in Req /\ req[r].sess \in Sessions
  BY SeqIsFun DEF TypeOK, Req
<1>1. CASE Lookup(r)
  <2>1. cached[req[r].sess] \in Nat
    BY <1>0 DEF TypeOK
  <2>2. [req[r] EXCEPT !.pc = "attach", !.rt = cached[req[r].sess]] \in Req
    BY <1>0, <2>1 DEF Req, PCs
  <2>3. req' \in [Reqs -> Req]
    <3>1. CASE req' = [req EXCEPT ![r].pc = "attach", ![r].rt = cached[req[r].sess]]
      <4>1. req' = [req EXCEPT ![r] = [req[r] EXCEPT !.pc = "attach", !.rt = cached[req[r].sess]]]
        BY <3>1 DEF TypeOK
      <4>2. QED
        BY <2>2, <4>1, ReqTyped
    <3>2. CASE Goto(r, "connect")
      BY <3>2, GotoTyped DEF PCs
    <3>3. QED
      BY <1>1, <3>1, <3>2 DEF Lookup
  <2>4. idle' \in [Sessions -> BOOLEAN]
    BY <1>1 DEF Lookup, TypeOK
  <2>5. QED
    BY <1>1, <2>3, <2>4 DEF Lookup, TypeOK
<1>2. CASE Connect(r)
  <2>. DEFINE new == [state |-> "open", sess |-> req[r].sess, cb |-> 0, due |-> <<>>]
  <2>1. CASE conns' = Append(conns, new) /\ req' = [req EXCEPT ![r].pc = "cache", ![r].rt = Len(conns) + 1]
             /\ UNCHANGED counters
    <3>1. new \in Conn
      BY <1>0 DEF Conn
    <3>2. conns' \in Seq(Conn) /\ Len(conns') = Len(conns) + 1 /\ DOMAIN conns' = 1..(Len(conns) + 1)
      BY <2>1, <3>1 DEF TypeOK
    <3>3. [req[r] EXCEPT !.pc = "cache", !.rt = Len(conns) + 1] \in Req
      <4>1. \A t \in Nat : [req[r] EXCEPT !.pc = "cache", !.rt = t] \in Req
        BY <1>0 DEF Req, PCs
      <4>2. Len(conns) + 1 \in Nat
        BY <1>0
      <4>3. QED
        BY <4>1, <4>2
    <3>4. req' \in [Reqs -> Req]
      BY ZenonT(40), <2>1, <3>3, ReqTyped
    <3>5. cached' \in [Sessions -> 0..Len(conns')]
      BY <1>0, <1>2, <3>2 DEF TypeOK, Connect
    <3>6. late' \subseteq (DOMAIN conns') \X Nat /\ streamed' \subseteq DOMAIN conns'
      BY <1>0, <2>1, <3>2 DEF TypeOK
    <3>7. QED
      BY <1>2, <2>1, <3>2, <3>4, <3>5, <3>6 DEF Connect, TypeOK
  <2>2. CASE Fail /\ Goto(r, "fallback") /\ UNCHANGED conns
    BY <1>2, <2>2, GotoTyped DEF Connect, Fail, TypeOK, PCs
  <2>3. QED
    BY <1>2, <2>1, <2>2 DEF Connect
<1>3. CASE CacheRealtime(r)
  <2>1. req[r].rt \in 0..Len(conns)
    BY <1>0, <1>3 DEF CacheRealtime, At, OwnConn, Using
  <2>2. req' \in [Reqs -> Req]
    BY <1>3, GotoTyped DEF CacheRealtime, PCs
  <2>3. QED
    BY <1>3, <2>1, <2>2 DEF CacheRealtime, TypeOK
<1>4. QED
  BY <1>1, <1>2, <1>3

LEMMA ChangedTypes ==
  ASSUME TypeOK, NEW c \in DOMAIN conns, NEW new \in Conn, conns' = [conns EXCEPT ![c] = new],
         req' \in [Reqs -> Req], events' \in Nat, UNCHANGED <<locks, cache, turns, late, streamed>>,
         meta' \in [Sessions -> {"absent", "unreadable", "http", "live"}]
  PROVE  TypeOK'
<1>1. conns' \in Seq(Conn) /\ Len(conns') = Len(conns) /\ DOMAIN conns' = DOMAIN conns
  BY ChangeConn
<1>2. QED
  BY <1>1 DEF TypeOK, locks, cache

LEMMA TurnTypes ==
  ASSUME TypeOK, OwnConn, NEW r \in Reqs,
         \/ Attach(r) \/ Send(r) \/ Touch(r) \/ Answer(r) \/ Deadline(r) \/ Fallback(r)
         \/ EmptyInput(r)
  PROVE  TypeOK'
<1>. USE DEF locks, cache, counters
<1>0. req[r] \in Req /\ req[r].sess \in Sessions /\ req[r].turn \in Nat
  BY DEF TypeOK, Req
<1>1. CASE Attach(r)
  <2>1. req[r].rt \in DOMAIN conns
    BY <1>1 DEF Attach, At, OwnConn, Using
  <2>2. conns' = [conns EXCEPT ![req[r].rt] = [conns[req[r].rt] EXCEPT !.cb = req[r].turn]]
    BY <1>1 DEF Attach
  <2>3. meta' \in [Sessions -> {"absent", "unreadable", "http", "live"}]
    BY <1>1 DEF Attach, SetProviderLive, TypeOK
  <2>4. req' \in [Reqs -> Req]
    BY <1>1, GotoTyped DEF Attach, PCs
  <2>5. events' \in Nat /\ UNCHANGED <<locks, cache, turns, late, streamed>>
    BY <1>1 DEF Attach, TypeOK
  <2>6. QED
    BY <1>0, <2>1, <2>2, <2>3, <2>4, <2>5, ConnTyped, ChangedTypes
<1>2. CASE Send(r)
  <2>. DEFINE c == req[r].rt
  <2>1. c \in DOMAIN conns
    BY <1>2 DEF Send, At, OwnConn, Using
  <2>2. req' \in [Reqs -> Req]
    BY <1>2, GotoTyped DEF Send, PCs
  <2>3. events' \in Nat /\ UNCHANGED <<locks, cache, meta, turns, late, streamed>>
    BY <1>2 DEF Send, Fail, TypeOK
  <2>4. CASE conns' = [conns EXCEPT ![c].due = Append(@, req[r].turn)]
    <3>1. conns' = [conns EXCEPT ![c] = [conns[c] EXCEPT !.due = Append(@, req[r].turn)]]
      BY <2>4
    <3>2. meta' \in [Sessions -> {"absent", "unreadable", "http", "live"}]
      BY <2>3 DEF TypeOK
    <3>3. QED
      BY <1>0, <2>1, <2>2, <2>3, <3>1, <3>2, ConnTyped, ChangedTypes
  <2>5. CASE UNCHANGED conns
    BY <2>2, <2>3, <2>5 DEF TypeOK
  <2>6. QED
    BY <1>2, <2>4, <2>5 DEF Send
<1>3. CASE Touch(r)
  <2>1. req' \in [Reqs -> Req]
    BY <1>3, GotoTyped DEF Touch, PCs
  <2>2. idle' \in [Sessions -> BOOLEAN]
    BY <1>0, <1>3 DEF Touch, TypeOK
  <2>3. QED
    BY <1>3, <2>1, <2>2 DEF Touch, TypeOK
<1>4. ASSUME At(r, "wait"), EndTurn(r), UNCHANGED <<locks, cache, conns, meta>> PROVE TypeOK'
  <2>1. req[r].rt \in DOMAIN conns
    BY <1>4 DEF At, OwnConn, Using
  <2>2. req' \in [Reqs -> Req]
    BY <1>4, GotoTyped DEF EndTurn, PCs
  <2>3. late' \subseteq (DOMAIN conns) \X Nat
    BY <1>0, <1>4, <2>1 DEF EndTurn, TypeOK
  <2>4. QED
    BY <1>4, <2>2, <2>3 DEF EndTurn, TypeOK
<1>5. CASE Answer(r) \/ Deadline(r)
  <2>1. CASE Goto(r, "fallback") /\ Answer(r) /\ UNCHANGED counters
    <3>1. req' \in [Reqs -> Req]
      BY <2>1, GotoTyped DEF PCs
    <3>2. QED
      BY <2>1, <3>1 DEF Answer, TypeOK
  <2>2. QED
    BY <1>4, <1>5, <2>1 DEF Answer, Deadline
<1>6. CASE Fallback(r)
  <2>1. req' \in [Reqs -> Req]
    BY <1>6, GotoTyped DEF Fallback, PCs
  <2>2. QED
    BY <1>6, <2>1 DEF Fallback, TypeOK
<1>7. CASE EmptyInput(r)
  <2>1. req' \in [Reqs -> Req]
    BY <1>7, GotoTyped DEF EmptyInput, PCs
  <2>2. QED
    BY <1>7, <2>1 DEF EmptyInput, TypeOK
<1>8. QED
  BY <1>1, <1>2, <1>3, <1>4, <1>5, <1>6, <1>7

LEMMA AudioTypes ==
  ASSUME TypeOK, NEW s \in Sessions, EndAudioStream(s)
  PROVE  TypeOK'
<1>. DEFINE c == cached[s]
<1>1. c \in DOMAIN conns
  BY SeqIsFun DEF EndAudioStream, TypeOK
<1>2. conns' = [conns EXCEPT ![c] = [conns[c] EXCEPT !.due = Append(@, 0)]]
  BY DEF EndAudioStream
<1>3. [conns[c] EXCEPT !.due = Append(@, 0)] \in Conn
  BY <1>1, ConnTyped
<1>4. events' \in Nat /\ streamed' \subseteq DOMAIN conns
  BY <1>1 DEF EndAudioStream, TypeOK
<1>. HIDE DEF c
<1>5. conns' \in Seq(Conn) /\ Len(conns') = Len(conns) /\ DOMAIN conns' = DOMAIN conns
  BY <1>1, <1>2, <1>3, ChangeConn
<1>6. QED
  BY <1>4, <1>5 DEF EndAudioStream, TypeOK, locks, cache

LEMMA ConnectionTypes ==
  ASSUME TypeOK, NEW c \in DOMAIN conns, Receive(c) \/ ReplyEnds(c) \/ Break(c) \/ EmitDisconnect(c)
  PROVE  TypeOK'
<1>. USE DEF locks, cache, counters
<1>0. meta \in [Sessions -> {"absent", "unreadable", "http", "live"}] /\ events \in Nat /\ req \in [Reqs -> Req]
  BY DEF TypeOK
<1>1. CASE Receive(c)
  <2>1. Head(conns[c].due) \in Nat
    BY <1>1, ConnTyped DEF Receive
  <2>2. \A r \in Reqs : [req[r] EXCEPT !.text = @ \cup {Head(conns[c].due)}] \in Req
    BY <1>0, <2>1 DEF Req
  <2>3. req' \in [Reqs -> Req]
    BY <1>0, <1>1, <2>2 DEF Receive
  <2>4. QED
    BY <1>1, <2>3 DEF Receive, TypeOK
<1>2. CASE Break(c)
  <2>1. conns' = [conns EXCEPT ![c] = [conns[c] EXCEPT !.state = "failing", !.due = <<>>]]
    BY <1>2 DEF Break
  <2>2. \A r \in Reqs : [req[r] EXCEPT !.err = TRUE] \in Req
    BY <1>0 DEF Req
  <2>3. req' \in [Reqs -> Req]
    BY <1>0, <1>2, <2>2 DEF Break
  <2>4. events' \in Nat /\ UNCHANGED <<locks, cache, meta, turns, late, streamed>>
    BY <1>0, <1>2 DEF Break, Fail
  <2>5. QED
    BY <1>0, <2>1, <2>3, <2>4, ConnTyped, ChangedTypes
<1>3. CASE EmitDisconnect(c)
  <2>1. conns' = [conns EXCEPT ![c] = [conns[c] EXCEPT !.state = "closed"]]
    BY <1>3 DEF EmitDisconnect
  <2>2. QED
    BY <1>0, <1>3, <2>1, ConnTyped, ChangedTypes DEF EmitDisconnect
<1>4. CASE ReplyEnds(c)
  <2>1. [conns[c] EXCEPT !.due = Tail(@)] \in Conn
    BY <1>4, ConnTyped DEF ReplyEnds
  <2>2. conns' = [conns EXCEPT ![c] = [conns[c] EXCEPT !.due = Tail(@)]]
    BY <1>4 DEF ReplyEnds
  <2>3. QED
    BY <1>0, <1>4, <2>1, <2>2, ChangedTypes DEF ReplyEnds
<1>5. QED
  BY <1>1, <1>2, <1>3, <1>4

LEMMA JanitorTypes ==
  ASSUME TypeOK, CloseIdle \/ \E s \in Sessions : TimePasses(s)
  PROVE  TypeOK'
<1>. USE DEF locks, cache, counters
<1>1. CASE CloseIdle
  <2>. DEFINE n == Len(conns)
  <2>1. n \in Nat /\ DOMAIN conns = 1..n
    BY SeqIsFun DEF TypeOK
  <2>2. conns' \in [1..n -> Conn]
    BY <1>1, <2>1, ConnTyped DEF CloseIdle
  <2>3. conns' \in Seq(Conn) /\ Len(conns') = n /\ DOMAIN conns' = 1..n
    BY <2>1, <2>2, FunIsSeq
  <2>4. cached' \in [Sessions -> 0..n] /\ idle' \in [Sessions -> BOOLEAN]
    <3>1. 0 \in 0..n /\ cached \in [Sessions -> 0..n]
      BY <2>1 DEF TypeOK
    <3>2. cached' = [s \in Sessions |-> IF idle[s] THEN 0 ELSE cached[s]]
      BY <1>1 DEF CloseIdle
    <3>3. idle' = [s \in Sessions |-> FALSE]
      BY <1>1 DEF CloseIdle
    <3>4. QED
      BY <3>1, <3>2, <3>3
  <2>5. QED
    BY <1>1, <2>1, <2>3, <2>4 DEF CloseIdle, TypeOK
<1>2. CASE \E s \in Sessions : TimePasses(s)
  BY <1>2 DEF TimePasses, TypeOK
<1>3. QED
  BY <1>1, <1>2

-----------------------------------------------------------------------------
(* The exclusion of a session's turns.                                     *)

(* A step that changes no mutex and moves nobody inside keeps it.          *)
LEMMA ExclusiveKept ==
  ASSUME Exclusive, sessMu' = sessMu,
         \A r \in Reqs : req'[r].pc \in Inside => req[r].pc \in Inside /\ req'[r].sess = req[r].sess
  PROVE  Exclusive'
BY DEF Exclusive

LEMMA LockSessionExclusive ==
  ASSUME TypeOK, Exclusive, NEW r \in Reqs, LockSession(r)
  PROVE  Exclusive'
<1>. SUFFICES ASSUME NEW q \in Reqs, req'[q].pc \in Inside
              PROVE  sessMu'[req'[q].sess] = q
  BY DEF Exclusive
<1>1. req \in [Reqs -> Req] /\ sessMu \in [Sessions -> Reqs \cup {NoReq}] /\ req[q].sess \in Sessions
  BY DEF TypeOK, Req
<1>2. CASE q = r
  BY <1>1, <1>2 DEF LockSession, Goto, Req
<1>3. CASE q # r
  <2>1. req'[q] = req[q] /\ sessMu[req[q].sess] = q
    BY <1>1, <1>3 DEF LockSession, Goto, Exclusive
  <2>2. req[q].sess # req[r].sess
    BY <2>1, ConstantsOK DEF LockSession
  <2>3. QED
    BY <1>1, <2>1, <2>2 DEF LockSession
<1>4. QED
  BY <1>2, <1>3

LEMMA ReturnExclusive ==
  ASSUME TypeOK, Exclusive, NEW r \in Reqs, Return(r)
  PROVE  Exclusive'
<1>. SUFFICES ASSUME NEW q \in Reqs, req'[q].pc \in Inside
              PROVE  sessMu'[req'[q].sess] = q
  BY DEF Exclusive
<1>1. req \in [Reqs -> Req] /\ sessMu \in [Sessions -> Reqs \cup {NoReq}] /\ req[q].sess \in Sessions
  BY DEF TypeOK, Req
<1>2. q # r
  BY <1>1 DEF Return, NoTurn, Inside
<1>3. req'[q] = req[q] /\ sessMu[req[q].sess] = q
  BY <1>1, <1>2 DEF Return, Exclusive
<1>4. sessMu[req[r].sess] = r
  BY DEF Return, At, Exclusive, Inside, PCs
<1>5. QED
  BY <1>1, <1>2, <1>3, <1>4 DEF Return

-----------------------------------------------------------------------------
(* The connections.                                                        *)

(* A move of request r along one of its harmless steps.                    *)
LEMMA HarmlessMove ==
  ASSUME TypeOK, NEW r \in Reqs, NEW pc \in PCs, Goto(r, pc),
         pc \in Using => req[r].pc \in Using,
         req[r].pc # "cache", pc \notin {"connect", "cache"},
         cached' = cached, DOMAIN conns' = DOMAIN conns,
         \A c \in DOMAIN conns : /\ conns'[c].sess = conns[c].sess
                                 /\ conns[c].state = "closed" => conns'[c].state = "closed"
  PROVE  Harmless
<1>1. \A q \in Reqs : q # r => req'[q] = req[q]
  BY DEF Goto, TypeOK
<1>2. req'[r].pc = pc /\ req'[r].rt = req[r].rt
  BY DEF Goto, TypeOK, Req
<1>3. QED
  BY <1>1, <1>2 DEF Harmless

(* One connection changes, stays with its session and does not reopen.     *)
LEMMA OneConnChanged ==
  ASSUME TypeOK, NEW x, NEW new, conns' = [conns EXCEPT ![x] = new],
         x \in DOMAIN conns => /\ new.sess = conns[x].sess
                               /\ conns[x].state = "closed" => new.state = "closed"
  PROVE  /\ DOMAIN conns' = DOMAIN conns
         /\ \A c \in DOMAIN conns : /\ conns'[c].sess = conns[c].sess
                                    /\ conns[c].state = "closed" => conns'[c].state = "closed"
<1>1. conns \in [1..Len(conns) -> Conn] /\ DOMAIN conns = 1..Len(conns)
  BY SeqIsFun DEF TypeOK
<1>2. DOMAIN conns' = DOMAIN conns
  BY <1>1
<1>3. ASSUME NEW c \in DOMAIN conns
      PROVE  /\ conns'[c].sess = conns[c].sess
             /\ conns[c].state = "closed" => conns'[c].state = "closed"
  <2>1. CASE c = x
    <3>1. conns'[c] = new
      BY <1>1, <2>1
    <3>2. QED
      BY <2>1, <3>1
  <2>2. CASE c # x
    <3>1. conns'[c] = conns[c]
      BY <1>1, <2>2
    <3>2. QED
      BY <3>1
  <2>3. QED
    BY <2>1, <2>2
<1>4. QED
  BY <1>2, <1>3

LEMMA TurnHarmless ==
  ASSUME TypeOK, NEW r \in Reqs,
         \/ LockMu(r) \/ LockSession(r) \/ Attach(r) \/ Send(r) \/ Touch(r)
         \/ Answer(r) \/ Deadline(r) \/ Fallback(r) \/ EmptyInput(r)
  PROVE  Harmless
<1>. USE HarmlessMove DEF locks, cache, counters, PCs, At
<1>1. CASE LockMu(r)
  BY <1>1 DEF LockMu, Using
<1>2. CASE LockSession(r)
  BY <1>2 DEF LockSession, Using
<1>3. CASE Attach(r)
  <2>. DEFINE x == req[r].rt
  <2>1. conns' = [conns EXCEPT ![x] = [conns[x] EXCEPT !.cb = req[r].turn]]
    BY <1>3 DEF Attach
  <2>2. x \in DOMAIN conns => [conns[x] EXCEPT !.cb = req[r].turn].sess = conns[x].sess
                             /\ [conns[x] EXCEPT !.cb = req[r].turn].state = conns[x].state
    BY ConnTyped DEF Conn
  <2>3. /\ DOMAIN conns' = DOMAIN conns
        /\ \A c \in DOMAIN conns : /\ conns'[c].sess = conns[c].sess
                                   /\ conns[c].state = "closed" => conns'[c].state = "closed"
    <3>. HIDE DEF x
    <3>. QED  BY <2>1, <2>2, OneConnChanged
  <2>4. QED
    BY <1>3, <2>3 DEF Attach, Using
<1>4. CASE Send(r)
  <2>. DEFINE x == req[r].rt
              new == [conns[x] EXCEPT !.due = Append(@, req[r].turn)]
  <2>1. x \in DOMAIN conns => new.sess = conns[x].sess /\ new.state = conns[x].state
    BY ConnTyped DEF Conn
  <2>2. conns' = [conns EXCEPT ![x] = new] \/ conns' = conns
    BY <1>4 DEF Send
  <2>3. /\ DOMAIN conns' = DOMAIN conns
        /\ \A c \in DOMAIN conns : /\ conns'[c].sess = conns[c].sess
                                   /\ conns[c].state = "closed" => conns'[c].state = "closed"
    <3>. HIDE DEF x, new
    <3>. QED  BY <2>1, <2>2, OneConnChanged
  <2>4. Goto(r, "touch") \/ Goto(r, "fallback")
    BY <1>4 DEF Send
  <2>5. req[r].pc = "send" /\ cached' = cached
    BY <1>4 DEF Send
  <2>. HIDE DEF x, new
  <2>6. CASE Goto(r, "touch")
    BY <2>3, <2>5, <2>6 DEF Using
  <2>7. CASE Goto(r, "fallback")
    BY <2>3, <2>5, <2>7 DEF Using
  <2>8. QED
    BY <2>4, <2>6, <2>7
<1>5. CASE Touch(r)
  BY <1>5 DEF Touch, Using
<1>6. CASE Answer(r)
  BY <1>6 DEF Answer, EndTurn, Using
<1>7. CASE Deadline(r)
  BY <1>7 DEF Deadline, EndTurn, Using
<1>8. CASE Fallback(r)
  BY <1>8 DEF Fallback, Using
<1>9. CASE EmptyInput(r)
  BY <1>9 DEF EmptyInput, Using
<1>10. QED
  BY <1>1, <1>2, <1>3, <1>4, <1>5, <1>6, <1>7, <1>8, <1>9

LEMMA AudioHarmless ==
  ASSUME TypeOK, NEW s \in Sessions, EndAudioStream(s)
  PROVE  Harmless
<1>. DEFINE x == cached[s]
            new == [conns[x] EXCEPT !.due = Append(@, 0)]
<1>1. conns' = [conns EXCEPT ![x] = new] /\ req' = req /\ cached' = cached
  BY DEF EndAudioStream, cache
<1>2. x \in DOMAIN conns => new.sess = conns[x].sess /\ new.state = conns[x].state
  BY ConnTyped DEF Conn
<1>. HIDE DEF x, new
<1>3. /\ DOMAIN conns' = DOMAIN conns
      /\ \A c \in DOMAIN conns : /\ conns'[c].sess = conns[c].sess
                                 /\ conns[c].state = "closed" => conns'[c].state = "closed"
  BY <1>1, <1>2, OneConnChanged
<1>4. QED
  BY <1>1, <1>3 DEF Harmless

(* The first and the last step of a turn, which replace its record.        *)
LEMMA EndsHarmless ==
  ASSUME TypeOK, NEW r \in Reqs, Return(r) \/ \E s \in Sessions : StartTurn(r, s)
  PROVE  Harmless
<1>1. \A q \in Reqs : q # r => req'[q] = req[q]
  BY DEF Return, StartTurn, TypeOK
<1>2. req'[r].pc \in {"idle", "lockMu"} /\ req[r].pc \in {"idle", "return"}
  <2>0. NoTurn.pc = "idle" /\ req \in [Reqs -> Req]
    BY DEF NoTurn, TypeOK
  <2>1. CASE Return(r)
    BY <2>0, <2>1 DEF Return, At
  <2>2. ASSUME NEW s \in Sessions, StartTurn(r, s)
        PROVE  req'[r].pc = "lockMu" /\ req[r].pc = "idle"
    <3>1. [NoTurn EXCEPT !.pc = "lockMu", !.sess = s, !.turn = turns + 1].pc = "lockMu"
      BY NoTurnTyped DEF Req
    <3>2. QED
      BY <2>0, <2>2, <3>1 DEF StartTurn, At
  <2>3. QED
    BY <2>1, <2>2
<1>3. conns' = conns /\ cached' = cached
  BY DEF Return, StartTurn, cache
<1>4. QED
  BY <1>1, <1>2, <1>3 DEF Harmless, Using

LEMMA ConnectionHarmless ==
  ASSUME TypeOK, NEW c \in DOMAIN conns, Receive(c) \/ ReplyEnds(c) \/ Break(c) \/ EmitDisconnect(c)
  PROVE  Harmless
<1>1. cached' = cached
  BY DEF Receive, ReplyEnds, Break, EmitDisconnect, cache
<1>2. req \in [Reqs -> Req] /\ conns[c] \in Conn
  BY ConnTyped DEF TypeOK
<1>3. \A r \in Reqs :
        /\ req'[r].pc = req[r].pc /\ req'[r].rt = req[r].rt
        /\ req[r].pc \in {"connect", "cache"} => req'[r] = req[r]
  <2>. SUFFICES ASSUME NEW r \in Reqs
                PROVE  /\ req'[r].pc = req[r].pc /\ req'[r].rt = req[r].rt
                       /\ req[r].pc \in {"connect", "cache"} => req'[r] = req[r]
    OBVIOUS
  <2>1. r \in Listening(c) => req[r].pc \in {"send", "touch", "wait"}
    BY DEF Listening
  <2>2. \/ req'[r] = req[r]
        \/ r \in Listening(c) /\ req'[r] = [req[r] EXCEPT !.text = @ \cup {Head(conns[c].due)}]
        \/ r \in Listening(c) /\ req'[r] = [req[r] EXCEPT !.err = TRUE]
    BY DEF Receive, ReplyEnds, Break, EmitDisconnect
  <2>3. QED
    BY <1>2, <2>1, <2>2 DEF Req
<1>4. PICK new : /\ conns' = [conns EXCEPT ![c] = new] /\ new.sess = conns[c].sess
                 /\ conns[c].state = "closed" => new.state = "closed"
  <2>0. CASE Receive(c)
    <3>1. conns' = [conns EXCEPT ![c] = conns[c]]
      BY <2>0, SeqIsFun DEF Receive, TypeOK
    <3>2. QED
      BY <3>1
  <2>1. CASE ReplyEnds(c)
    <3>1. conns' = [conns EXCEPT ![c] = [conns[c] EXCEPT !.due = Tail(@)]]
      BY <2>1 DEF ReplyEnds
    <3>2. /\ [conns[c] EXCEPT !.due = Tail(@)].sess = conns[c].sess
          /\ [conns[c] EXCEPT !.due = Tail(@)].state = conns[c].state
      BY <1>2 DEF Conn
    <3>3. QED
      BY <3>1, <3>2
  <2>2. CASE Break(c)
    <3>1. conns' = [conns EXCEPT ![c] = [conns[c] EXCEPT !.state = "failing", !.due = <<>>]]
      BY <2>2 DEF Break
    <3>2. conns[c].state # "closed"
      BY <2>2 DEF Break
    <3>3. [conns[c] EXCEPT !.state = "failing", !.due = <<>>].sess = conns[c].sess
      BY <1>2 DEF Conn
    <3>4. QED
      BY <3>1, <3>2, <3>3
  <2>3. CASE EmitDisconnect(c)
    <3>1. conns' = [conns EXCEPT ![c] = [conns[c] EXCEPT !.state = "closed"]]
      BY <2>3 DEF EmitDisconnect
    <3>2. /\ [conns[c] EXCEPT !.state = "closed"].sess = conns[c].sess
          /\ [conns[c] EXCEPT !.state = "closed"].state = "closed"
      BY <1>2 DEF Conn
    <3>3. QED
      BY <3>1, <3>2
  <2>4. QED
    BY <2>0, <2>1, <2>2, <2>3
<1>5. /\ DOMAIN conns' = DOMAIN conns
      /\ \A d \in DOMAIN conns : /\ conns'[d].sess = conns[d].sess
                                 /\ conns[d].state = "closed" => conns'[d].state = "closed"
  BY <1>4, OneConnChanged
<1>6. \A r \in Reqs :
        /\ req'[r].pc \in Using => req[r].pc \in Using /\ req'[r].rt = req[r].rt
        /\ req'[r].pc \in {"connect", "cache"} => req'[r] = req[r]
        /\ req[r].pc = "cache" => req'[r] = req[r]
  <2>. SUFFICES ASSUME NEW r \in Reqs
                PROVE  /\ req'[r].pc \in Using => req[r].pc \in Using /\ req'[r].rt = req[r].rt
                       /\ req'[r].pc \in {"connect", "cache"} => req'[r] = req[r]
                       /\ req[r].pc = "cache" => req'[r] = req[r]
    OBVIOUS
  <2>. QED
    BY <1>3
<1>7. QED
  BY <1>1, <1>5, <1>6, Zenon DEF Harmless

(* Looking up finds no open connection, or uses it.                        *)
LEMMA LookupConn ==
  ASSUME TypeOK, TypeOK', ConnInv, NEW r \in Reqs, Lookup(r)
  PROVE  OwnConn' /\ CachedIsOfSession' /\ NoneCached' /\ Accounted'
<1>. USE DEF locks, cache, counters
<1>0. req \in [Reqs -> Req] /\ cached \in [Sessions -> 0..Len(conns)] /\ req[r].sess \in Sessions
  BY DEF TypeOK, Req
<1>1. conns' = conns /\ cached' = cached /\ Len(conns) \in Nat /\ DOMAIN conns = 1..Len(conns)
  BY SeqIsFun DEF Lookup, TypeOK
<1>2. \A q \in Reqs : q # r => req'[q] = req[q]
  BY <1>0 DEF Lookup, Goto
<1>3. req[r].pc = "lookup" /\ req'[r].sess = req[r].sess
  BY <1>0 DEF Lookup, Goto, At, Req
<1>4. \/ Connected(cached[req[r].sess]) /\ req'[r].pc = "attach" /\ req'[r].rt = cached[req[r].sess]
      \/ ~Connected(cached[req[r].sess]) /\ req'[r].pc = "connect"
  BY <1>0 DEF Lookup, Goto, Req
<1>5. OwnConn'
  BY <1>0, <1>1, <1>2, <1>4 DEF OwnConn, ConnInv, Connected, Using
<1>6. CachedIsOfSession'
  BY <1>1 DEF CachedIsOfSession, ConnInv
<1>7. NoneCached'
  BY <1>1, <1>2, <1>3, <1>4 DEF NoneCached, ConnInv, Connected
<1>8. Accounted'
  BY <1>1, <1>2, <1>3 DEF Accounted, ConnInv
<1>9. QED
  BY <1>5, <1>6, <1>7, <1>8

(* A new connection is for the session of the request that opened it.      *)
LEMMA ConnectConn ==
  ASSUME TypeOK, TypeOK', ConnInv, NEW r \in Reqs, Connect(r)
  PROVE  OwnConn' /\ CachedIsOfSession' /\ NoneCached' /\ Accounted'
<1>. DEFINE n == Len(conns)
            new == [state |-> "open", sess |-> req[r].sess, cb |-> 0, due |-> <<>>]
<1>0. /\ req \in [Reqs -> Req] /\ cached \in [Sessions -> 0..n] /\ cached' = cached
      /\ n \in Nat /\ DOMAIN conns = 1..n /\ req[r].sess \in Sessions /\ req[r].pc = "connect"
  BY SeqIsFun DEF TypeOK, Req, Connect, cache, At
<1>1. CASE conns' = conns /\ Goto(r, "fallback")
  <2>1. Harmless
    BY <1>0, <1>1, HarmlessMove DEF Using, PCs
  <2>2. QED
    BY <2>1, HarmlessStep
<1>2. CASE /\ conns' = Append(conns, new)
           /\ req' = [req EXCEPT ![r].pc = "cache", ![r].rt = n + 1]
  <2>1. new \in Conn
    BY <1>0 DEF Conn
  <2>2. /\ DOMAIN conns' = 1..(n + 1)
        /\ \A c \in DOMAIN conns : conns'[c] = conns[c]
        /\ conns'[n + 1] = new
    <3>. HIDE DEF new
    <3>. QED  BY <1>0, <1>2, <2>1 DEF TypeOK
  <2>3. \A q \in Reqs : q # r => req'[q] = req[q]
    BY <1>0, <1>2
  <2>4. req'[r].pc = "cache" /\ req'[r].rt = n + 1 /\ req'[r].sess = req[r].sess
    BY <1>0, <1>2 DEF Req
  <2>5. new.sess = req[r].sess
    OBVIOUS
  <2>. HIDE DEF n, new
  <2>6. \A s \in Sessions : cached[s] # 0 => cached[s] \in DOMAIN conns
    BY <1>0
  <2>7. \A c \in DOMAIN conns : c \in DOMAIN conns' /\ c # n + 1
    BY <1>0, <2>2
  <2>8. OwnConn'
    BY <1>0, <2>2, <2>3, <2>4, <2>5, <2>7 DEF OwnConn, ConnInv, Using
  <2>9. CachedIsOfSession'
    BY <1>0, <2>2, <2>6 DEF CachedIsOfSession, ConnInv
  <2>10. NoneCached'
    <3>. SUFFICES ASSUME NEW q \in Reqs, req'[q].pc \in {"connect", "cache"}
                  PROVE  ~Connected(cached[req[q].sess])'
      BY DEF NoneCached
    <3>1. req'[q].sess = req[q].sess /\ req[q].pc \in {"connect", "cache"} /\ req[q].sess \in Sessions
      BY <1>0, <2>3, <2>4 DEF Req
    <3>2. ~Connected(cached[req[q].sess])
      BY <3>1 DEF ConnInv, NoneCached
    <3>3. QED
      BY <1>0, <2>2, <2>6, <3>1, <3>2 DEF Connected
  <2>11. Accounted'
    <3>. SUFFICES ASSUME NEW c \in DOMAIN conns', conns'[c].state # "closed"
                  PROVE  \/ cached'[conns'[c].sess] = c
                         \/ \E q \in Reqs : req'[q].pc = "cache" /\ req'[q].rt = c
      BY DEF Accounted
    <3>1. CASE c = n + 1
      BY <2>4, <3>1
    <3>2. CASE c \in DOMAIN conns
      BY <1>0, <2>2, <2>3, <3>2 DEF ConnInv, Accounted
    <3>3. QED
      BY <1>0, <2>2, <3>1, <3>2
  <2>12. QED
    BY <2>8, <2>9, <2>10, <2>11
<1>3. QED
  BY <1>1, <1>2 DEF Connect

(* Caching replaces a connection that is no longer open; the mutex of the  *)
(* session sees to it that no other request is about to cache one.         *)
LEMMA CacheConn ==
  ASSUME TypeOK, TypeOK', ConnInv, NEW r \in Reqs, CacheRealtime(r)
  PROVE  OwnConn' /\ CachedIsOfSession' /\ NoneCached' /\ Accounted'
<1>. DEFINE s == req[r].sess
<1>0. /\ req \in [Reqs -> Req] /\ cached \in [Sessions -> 0..Len(conns)] /\ Len(conns) \in Nat
      /\ DOMAIN conns = 1..Len(conns) /\ s \in Sessions /\ req[r].pc = "cache" /\ conns' = conns
  BY SeqIsFun DEF TypeOK, Req, CacheRealtime, At
<1>1. cached' = [cached EXCEPT ![s] = req[r].rt]
  BY DEF CacheRealtime
<1>2. \A q \in Reqs : q # r => req'[q] = req[q]
  BY <1>0 DEF CacheRealtime, Goto
<1>3. req'[r].pc = "attach" /\ req'[r].rt = req[r].rt /\ req'[r].sess = s
  BY <1>0 DEF CacheRealtime, Goto, Req
<1>4. req[r].rt \in DOMAIN conns /\ conns[req[r].rt].sess = s
  BY <1>0 DEF ConnInv, OwnConn, Using
<1>5. \A q \in Reqs : q # r /\ req[q].pc \in {"connect", "cache"} => req[q].sess # s
  BY <1>0 DEF ConnInv, Exclusive, Inside, PCs
<1>6. \A c \in DOMAIN conns : conns[c].sess \in Sessions
  BY ConnTyped
<1>. HIDE DEF s
<1>7. OwnConn'
  BY <1>0, <1>2, <1>3, <1>4 DEF OwnConn, ConnInv, Using
<1>8. CachedIsOfSession'
  BY <1>0, <1>1, <1>4 DEF CachedIsOfSession, ConnInv
<1>9. NoneCached'
  <2>. SUFFICES ASSUME NEW q \in Reqs, req'[q].pc \in {"connect", "cache"}
                PROVE  ~Connected(cached[req[q].sess])'
    BY DEF NoneCached
  <2>1. q # r /\ req'[q] = req[q]
    BY <1>2, <1>3
  <2>2. req[q].sess # s /\ req[q].sess \in Sessions
    BY <1>0, <1>5, <2>1 DEF Req
  <2>3. cached'[req[q].sess] = cached[req[q].sess] /\ ~Connected(cached[req[q].sess])
    BY <1>0, <1>1, <2>1, <2>2 DEF ConnInv, NoneCached
  <2>4. QED
    BY <1>0, <2>1, <2>3 DEF Connected
<1>10. Accounted'
  <2>. SUFFICES ASSUME NEW c \in DOMAIN conns, conns[c].state # "closed"
                PROVE  \/ cached'[conns[c].sess] = c
                       \/ \E q \in Reqs : req'[q].pc = "cache" /\ req'[q].rt = c
    BY <1>0 DEF Accounted
  <2>1. CASE cached[conns[c].sess] = c
    <3>1. conns[c].sess # s
      BY <1>0, <2>1 DEF ConnInv, NoneCached, Connected, s
    <3>2. QED
      BY <1>0, <1>1, <1>6, <2>1, <3>1
  <2>2. ASSUME NEW q \in Reqs, req[q].pc = "cache", req[q].rt = c
        PROVE  cached'[conns[c].sess] = c \/ (req'[q].pc = "cache" /\ req'[q].rt = c)
    BY <1>0, <1>1, <1>2, <1>4, <2>2
  <2>3. QED
    BY <2>1, <2>2 DEF ConnInv, Accounted
<1>11. QED
  BY <1>7, <1>8, <1>9, <1>10

(* The janitor drops what it has disconnected.                             *)
LEMMA CloseIdleConn ==
  ASSUME TypeOK, TypeOK', ConnInv, CloseIdle
  PROVE  OwnConn' /\ CachedIsOfSession' /\ NoneCached' /\ Accounted'
<1>0. /\ cached \in [Sessions -> 0..Len(conns)] /\ Len(conns) \in Nat
      /\ DOMAIN conns = 1..Len(conns) /\ req' = req
  BY SeqIsFun DEF TypeOK, CloseIdle
<1>1. cached' = [s \in Sessions |-> IF idle[s] THEN 0 ELSE cached[s]]
  BY DEF CloseIdle
<1>2. DOMAIN conns' = DOMAIN conns
  BY DEF CloseIdle
<1>3. \A c \in DOMAIN conns :
        /\ conns'[c].sess = conns[c].sess
        /\ conns[c].state = "closed" => conns'[c].state = "closed"
        /\ (\E s \in Sessions : idle[s] /\ cached[s] = c) => conns'[c].state = "closed"
  <2>. SUFFICES ASSUME NEW c \in DOMAIN conns
                PROVE  /\ conns'[c].sess = conns[c].sess
                       /\ conns[c].state = "closed" => conns'[c].state = "closed"
                       /\ (\E s \in Sessions : idle[s] /\ cached[s] = c) => conns'[c].state = "closed"
    OBVIOUS
  <2>1. conns[c] \in Conn
    BY ConnTyped
  <2>2. conns'[c] = IF \E s \in Sessions : idle[s] /\ cached[s] = c
                    THEN [conns[c] EXCEPT !.state = "closed", !.due = <<>>] ELSE conns[c]
    BY DEF CloseIdle
  <2>3. QED
    BY <2>1, <2>2 DEF Conn
<1>4. \A c \in DOMAIN conns : conns[c].sess \in Sessions
  BY ConnTyped
<1>5. OwnConn'
  BY <1>0, <1>2, <1>3 DEF OwnConn, ConnInv, Using
<1>6. CachedIsOfSession'
  BY <1>0, <1>1, <1>2, <1>3 DEF CachedIsOfSession, ConnInv
<1>7. NoneCached'
  <2>. SUFFICES ASSUME NEW q \in Reqs, req[q].pc \in {"connect", "cache"}
                PROVE  ~Connected(cached[req[q].sess])'
    BY <1>0 DEF NoneCached
  <2>1. req[q].sess \in Sessions /\ ~Connected(cached[req[q].sess])
    BY DEF ConnInv, NoneCached, TypeOK, Req
  <2>2. QED
    BY <1>0, <1>1, <1>2, <1>3, <2>1 DEF Connected
<1>8. Accounted'
  <2>. SUFFICES ASSUME NEW c \in DOMAIN conns, conns'[c].state # "closed"
                PROVE  \/ cached'[conns[c].sess] = c
                       \/ \E q \in Reqs : req[q].pc = "cache" /\ req[q].rt = c
    BY <1>0, <1>2, <1>3 DEF Accounted
  <2>1. CASE cached[conns[c].sess] = c
    BY <1>1, <1>3, <1>4, <2>1
  <2>2. QED
    BY <1>3, <2>1 DEF ConnInv, Accounted
<1>9. QED
  BY <1>5, <1>6, <1>7, <1>8

-----------------------------------------------------------------------------
(* The invariant is inductive.                                             *)
LEMMA NextInv == IInv /\ [Next]_vars => IInv'
<1>. SUFFICES ASSUME IInv, [Next]_vars PROVE IInv'
  OBVIOUS
<1>. USE DEF IInv
<1>o. OwnConn
  BY DEF ConnInv
<1>1. ASSUME NEW r \in Reqs, Step(r) PROVE IInv'
  <2>1. TypeOK'
    BY <1>o, <1>1, LockTypes, CacheTypes, TurnTypes DEF Step
  <2>2. Exclusive'
    <3>0. Exclusive /\ req \in [Reqs -> Req]
      BY DEF ConnInv, TypeOK
    <3>1. CASE LockSession(r)
      BY <3>0, <3>1, LockSessionExclusive
    <3>2. CASE Return(r)
      BY <3>0, <3>2, ReturnExclusive
    <3>3. CASE LockMu(r)
      BY <3>0, <3>3, ExclusiveKept DEF LockMu, Goto, Inside
    <3>4. CASE Lookup(r) \/ Connect(r) \/ CacheRealtime(r) \/ Attach(r) \/ Send(r) \/ Touch(r)
               \/ Answer(r) \/ Deadline(r) \/ Fallback(r) \/ EmptyInput(r)
      <4>1. sessMu' = sessMu /\ req[r].pc \in Inside /\ \A q \in Reqs : q # r => req'[q] = req[q]
        BY <3>0, <3>4 DEF Lookup, Connect, CacheRealtime, Attach, Send, Touch, Answer, Deadline, EndTurn,
                          Fallback, EmptyInput, locks, At, Goto, Inside, PCs
      <4>2. req'[r].sess = req[r].sess
        BY <3>0, <3>4 DEF Lookup, Connect, CacheRealtime, Attach, Send, Touch, Answer, Deadline, EndTurn,
                          Fallback, EmptyInput, Goto, Req
      <4>3. QED
        BY <3>0, <4>1, <4>2, ExclusiveKept
    <3>5. QED
      BY <1>1, <3>1, <3>2, <3>3, <3>4 DEF Step
  <2>3. OwnConn' /\ CachedIsOfSession' /\ NoneCached' /\ Accounted'
    BY <1>1, <2>1, LookupConn, ConnectConn, CacheConn, TurnHarmless, EndsHarmless, HarmlessStep DEF Step
  <2>4. QED
    BY <2>1, <2>2, <2>3 DEF ConnInv
<1>2. ASSUME NEW r \in Reqs, NEW s \in Sessions, StartTurn(r, s) PROVE IInv'
  <2>1. TypeOK'
    BY <1>2, StartTypes
  <2>2. sessMu' = sessMu /\ req'[r].pc \notin Inside /\ \A q \in Reqs : q # r => req'[q] = req[q]
    <3>1. [NoTurn EXCEPT !.pc = "lockMu", !.sess = s, !.turn = turns + 1].pc = "lockMu"
      BY NoTurnTyped DEF Req
    <3>2. QED
      BY <1>2, <3>1 DEF StartTurn, TypeOK, locks, Inside
  <2>3. Exclusive'
    BY <2>2, ExclusiveKept DEF ConnInv
  <2>4. QED
    BY <1>2, <2>1, <2>3, EndsHarmless, HarmlessStep DEF ConnInv
<1>3. ASSUME NEW c \in DOMAIN conns, Receive(c) \/ ReplyEnds(c) \/ Break(c) \/ EmitDisconnect(c) PROVE IInv'
  <2>1. TypeOK'
    BY <1>3, ConnectionTypes
  <2>2. Exclusive'
    <3>1. sessMu' = sessMu
      BY <1>3 DEF Receive, ReplyEnds, Break, EmitDisconnect, locks
    <3>2. \A q \in Reqs : req'[q].pc = req[q].pc /\ req'[q].sess = req[q].sess
      <4>. SUFFICES ASSUME NEW q \in Reqs
                    PROVE  req'[q].pc = req[q].pc /\ req'[q].sess = req[q].sess
        OBVIOUS
      <4>1. req[q] \in Req
        BY DEF TypeOK
      <4>2. \/ req'[q] = req[q]
            \/ req'[q] = [req[q] EXCEPT !.text = @ \cup {Head(conns[c].due)}]
            \/ req'[q] = [req[q] EXCEPT !.err = TRUE]
        BY <1>3 DEF Receive, ReplyEnds, Break, EmitDisconnect
      <4>3. QED
        BY <4>1, <4>2 DEF Req
    <3>3. QED
      BY <3>1, <3>2, ExclusiveKept DEF ConnInv
  <2>3. QED
    BY <1>3, <2>1, <2>2, ConnectionHarmless, HarmlessStep DEF ConnInv
<1>4. ASSUME CloseIdle \/ \E s \in Sessions : TimePasses(s) PROVE IInv'
  <2>1. TypeOK'
    BY <1>4, JanitorTypes
  <2>2. Exclusive'
    BY <1>4, ExclusiveKept DEF ConnInv, CloseIdle, TimePasses, locks
  <2>3. CASE CloseIdle
    BY <2>1, <2>2, <2>3, CloseIdleConn DEF ConnInv
  <2>4. CASE \E s \in Sessions : TimePasses(s)
    <3>1. Harmless
      BY <2>4 DEF TimePasses, Harmless
    <3>2. QED
      BY <2>1, <2>2, <3>1, HarmlessStep DEF ConnInv
  <2>5. QED
    BY <1>4, <2>3, <2>4
<1>5. ASSUME NEW s \in Sessions, EndAudioStream(s) PROVE IInv'
  <2>1. TypeOK'
    BY <1>5, AudioTypes
  <2>2. Exclusive'
    BY <1>5, ExclusiveKept DEF ConnInv, EndAudioStream, locks
  <2>3. QED
    BY <1>5, <2>1, <2>2, AudioHarmless, HarmlessStep DEF ConnInv
<1>6. CASE UNCHANGED vars
  BY <1>6 DEF vars, locks, cache, counters, TypeOK, ConnInv, Exclusive, OwnConn, CachedIsOfSession,
              NoneCached, Accounted, Connected
<1>7. QED
  BY <1>1, <1>2, <1>3, <1>4, <1>5, <1>6 DEF Next

LEMMA SpecInv == Spec => []IInv
BY InitInv, NextInv, PTL DEF Spec

(* Two open connections of one session: one of them at least is not the    *)
(* cached one, so a request inside is about to cache it, while nothing     *)
(* open is cached and nobody else is inside.                               *)
LEMMA OneOpen == IInv => OneConnPerSession
<1>. SUFFICES ASSUME IInv, NEW c \in DOMAIN conns, NEW d \in DOMAIN conns,
                     conns[c].state # "closed", conns[d].state # "closed", conns[c].sess = conns[d].sess
              PROVE  c = d
  BY DEF OneConnPerSession
<1>. DEFINE s == conns[c].sess
            Caching(r, e) == req[r].pc = "cache" /\ req[r].rt = e
<1>1. \A e \in {c, d} : cached[s] = e \/ \E r \in Reqs : Caching(r, e)
  BY DEF IInv, ConnInv, Accounted
<1>2. \A r \in Reqs, e \in {c, d} :
        Caching(r, e) => req[r].sess = s /\ sessMu[s] = r /\ ~Connected(cached[s])
  BY DEF IInv, ConnInv, OwnConn, Exclusive, NoneCached, Inside, PCs
<1>3. \A e \in {c, d} : cached[s] = e => Connected(cached[s])
  <2>1. 0 \notin DOMAIN conns
    BY SeqIsFun DEF IInv, TypeOK
  <2>2. QED
    BY <2>1 DEF Connected
<1>4. QED
  BY <1>1, <1>2, <1>3
-----------------------------------------------------------------------------
(* Whose replies a turn collects.                                          *)

Unmarked(r) == req[r].text = {} /\ ~req[r].err

OwnSess == \A r \in Reqs : req[r].pc \in Using => conns[req[r].rt].sess = req[r].sess

(* What a turn has collected is gone with it: a fallback that comes back   *)
(* with it waits for the mutex that it holds itself.                       *)
Fresh ==
  \A r \in Reqs :
    /\ Unmarked(r) \/ sessMu[req[r].sess] = r
    /\ req[r].pc \in {"lookup", "connect", "cache", "attach"} => Unmarked(r)

(* A connection that is not open owes nothing, and one that told a turn of *)
(* an error is not open.                                                   *)
Broken ==
  /\ \A c \in DOMAIN conns : conns[c].state # "open" => conns[c].due = <<>>
  /\ \A r \in Reqs : req[r].pc \in {"send", "touch", "wait"} /\ req[r].err =>
       conns[req[r].rt].state # "open"

(* A reply that is due is due to a recording, to a turn that ended without *)
(* it or to the turn that waits for it.                                    *)
Waits(r) == req[r].pc \in {"touch", "wait"}

Owes(c, t) ==
  \/ t = 0 /\ c \in streamed
  \/ <<c, t>> \in late
  \/ \E r \in Reqs : Waits(r) /\ req[r].rt = c /\ req[r].turn = t

Owed == \A c \in DOMAIN conns : \A t \in StillDue(c) : Owes(c, t)

AnswerInv == OwnSess /\ Fresh /\ Broken /\ Owed /\ AnswerIsOwn

(* The mutex of the session keeps two requests off one connection.         *)
LEMMA OneUser ==
  ASSUME IInv, OwnSess, NEW q \in Reqs, NEW r \in Reqs,
         req[q].pc \in Using, req[r].pc \in Using, req[q].rt = req[r].rt
  PROVE  q = r
BY DEF IInv, ConnInv, Exclusive, OwnSess, Using, Inside, PCs

(* Whoever holds a mutex goes on holding it.                               *)
HoldersStay == \A q \in Reqs : sessMu[req[q].sess] = q => sessMu'[req[q].sess] = q

(* Request r moves on and keeps all else.                                  *)
Moves(r, pc) ==
  /\ \A q \in Reqs : q # r => req'[q] = req[q]
  /\ req'[r].pc = pc /\ req'[r].sess = req[r].sess /\ req'[r].turn = req[r].turn
  /\ req'[r].rt = req[r].rt /\ req'[r].text = req[r].text /\ req'[r].err = req[r].err

LEMMA GotoMoves ==
  ASSUME TypeOK, NEW r \in Reqs, NEW pc \in PCs, Goto(r, pc)
  PROVE  Moves(r, pc)
<1>1. req \in [Reqs -> Req] /\ req[r] \in Req
  BY DEF TypeOK
<1>2. req' = [req EXCEPT ![r] = [req[r] EXCEPT !.pc = pc]]
  BY DEF Goto
<1>3. QED
  BY <1>1, <1>2 DEF Moves, Req

(* What is due after a reply is asked for or finished.                     *)
Elems(s) == {s[i] : i \in DOMAIN s}

LEMMA ElemsOf ==
  ASSUME NEW s \in Seq(Nat), NEW t \in Nat
  PROVE  /\ Elems(<<>>) = {}
         /\ Elems(Append(s, t)) \subseteq Elems(s) \cup {t}
         /\ s # <<>> => Head(s) \in Elems(s) /\ Elems(Tail(s)) \subseteq Elems(s)
<1>1. Elems(<<>>) = {}
  BY DEF Elems
<1>2. Elems(Append(s, t)) \subseteq Elems(s) \cup {t}
  <2>. SUFFICES ASSUME NEW i \in 1..(Len(s) + 1)
                PROVE  Append(s, t)[i] \in Elems(s) \cup {t}
    BY DEF Elems
  <2>1. CASE i = Len(s) + 1
    BY <2>1
  <2>2. CASE i \in 1..Len(s)
    BY <2>2 DEF Elems
  <2>3. QED
    BY <2>1, <2>2
<1>3. ASSUME s # <<>>
      PROVE  Head(s) \in Elems(s) /\ Elems(Tail(s)) \subseteq Elems(s)
  <2>1. Head(s) = s[1] /\ 1 \in DOMAIN s
    BY <1>3
  <2>2. ASSUME NEW i \in DOMAIN Tail(s) PROVE Tail(s)[i] = s[i + 1] /\ i + 1 \in DOMAIN s
    BY <1>3, <2>2
  <2>3. QED
    BY <2>1, <2>2 DEF Elems
<1>4. QED
  BY <1>1, <1>2, <1>3

(* What the connections may do while a request moves on: stay with their   *)
(* sessions, not reopen, and owe no more than before but the reply to a    *)
(* message that is sent.                                                   *)
ConnsKept(asked) ==
  /\ DOMAIN conns' = DOMAIN conns
  /\ \A c \in DOMAIN conns :
       /\ conns'[c].sess = conns[c].sess
       /\ conns'[c].state = "open" => conns[c].state = "open"
       /\ conns'[c].state # "open" => conns'[c].due = <<>>
       /\ \A t \in StillDue(c)' : t \in StillDue(c) \/ <<c, t>> \in asked

LEMMA SameConns ==
  ASSUME AnswerInv, conns' = conns
  PROVE  ConnsKept({})
BY DEF AnswerInv, Broken, ConnsKept, StillDue

(* One connection changes.                                                 *)
LEMMA ConnKept ==
  ASSUME TypeOK, AnswerInv, NEW x \in DOMAIN conns, NEW new, NEW asked,
         conns' = [conns EXCEPT ![x] = new],
         new.sess = conns[x].sess, new.state = "open" => conns[x].state = "open",
         new.state # "open" => new.due = <<>>,
         \A t \in Elems(new.due) : t \in Elems(conns[x].due) \/ <<x, t>> \in asked
  PROVE  ConnsKept(asked)
<1>1. /\ DOMAIN conns' = DOMAIN conns /\ conns'[x] = new
      /\ \A c \in DOMAIN conns : c # x => conns'[c] = conns[c]
  BY SeqIsFun DEF TypeOK
<1>2. ASSUME NEW c \in DOMAIN conns
      PROVE  /\ conns'[c].sess = conns[c].sess
             /\ conns'[c].state = "open" => conns[c].state = "open"
             /\ conns'[c].state # "open" => conns'[c].due = <<>>
             /\ \A t \in StillDue(c)' : t \in StillDue(c) \/ <<c, t>> \in asked
  <2>1. CASE c = x
    BY <1>1, <2>1 DEF StillDue, Elems
  <2>2. CASE c # x
    BY <1>1, <2>2 DEF AnswerInv, Broken, StillDue
  <2>3. QED
    BY <2>1, <2>2
<1>3. QED
  BY <1>1, <1>2 DEF ConnsKept

LEMMA UsedExist ==
  ASSUME IInv
  PROVE  \A q \in Reqs : req[q].pc \in Using => req[q].rt \in DOMAIN conns
BY DEF IInv, ConnInv, OwnConn

(* A request moves on.                                                     *)
LEMMA MoveStep ==
  ASSUME IInv, AnswerInv, NEW r \in Reqs, NEW pc, NEW asked, Moves(r, pc), ConnsKept(asked), HoldersStay,
         late \subseteq late', streamed \subseteq streamed',
         asked = {} \/ (asked = {<<req[r].rt, req[r].turn>>} /\ pc = "touch"),
         pc \in Using => req[r].pc \in Using,
         pc \in {"lookup", "connect", "cache", "attach"} => Unmarked(r),
         pc \in {"send", "touch", "wait"} => req[r].pc \in {"send", "touch", "wait"} \/ Unmarked(r),
         Waits(r) => \/ pc \in {"touch", "wait"}
                     \/ req[r].turn \in StillDue(req[r].rt) => <<req[r].rt, req[r].turn>> \in late'
  PROVE  AnswerInv'
<1>0. \A q \in Reqs : req[q].pc \in Using => req[q].rt \in DOMAIN conns
  BY UsedExist
<1>1. OwnSess'
  BY <1>0 DEF AnswerInv, OwnSess, Moves, ConnsKept
<1>2. Fresh'
  BY DEF AnswerInv, Fresh, Moves, HoldersStay, Unmarked
<1>3. Broken'
  <2>1. \A c \in DOMAIN conns' : conns'[c].state # "open" => conns'[c].due = <<>>
    BY DEF ConnsKept
  <2>2. ASSUME NEW q \in Reqs, req'[q].pc \in {"send", "touch", "wait"}, req'[q].err
        PROVE  conns'[req'[q].rt].state # "open"
    <3>1. req[q].pc \in {"send", "touch", "wait"} /\ req[q].err /\ req'[q].rt = req[q].rt
      BY <2>2 DEF Moves, Unmarked
    <3>2. conns[req[q].rt].state # "open" /\ req[q].rt \in DOMAIN conns
      BY <1>0, <3>1 DEF AnswerInv, Broken, Using
    <3>3. QED
      BY <3>1, <3>2 DEF ConnsKept
  <2>3. QED
    BY <2>1, <2>2 DEF Broken
<1>4. Owed'
  <2>. SUFFICES ASSUME NEW c \in DOMAIN conns, NEW t \in StillDue(c)'
                PROVE  Owes(c, t)'
    BY DEF Owed, ConnsKept
  <2>1. CASE <<c, t>> \in asked
    BY <2>1 DEF Owes, Waits, Moves
  <2>2. CASE t \in StillDue(c)
    <3>1. Owes(c, t)
      BY <2>2 DEF AnswerInv, Owed
    <3>2. CASE (t = 0 /\ c \in streamed) \/ <<c, t>> \in late
      BY <3>2 DEF Owes
    <3>3. ASSUME NEW q \in Reqs, Waits(q), req[q].rt = c, req[q].turn = t
          PROVE  Owes(c, t)'
      <4>1. CASE req'[q].pc \in {"touch", "wait"}
        <5>1. req'[q].rt = c /\ req'[q].turn = t
          BY <3>3 DEF Moves
        <5>2. QED
          BY <4>1, <5>1 DEF Owes, Waits
      <4>2. CASE req'[q].pc \notin {"touch", "wait"}
        <5>1. q = r /\ pc \notin {"touch", "wait"}
          BY <3>3, <4>2 DEF Moves, Waits
        <5>2. <<c, t>> \in late'
          BY <2>2, <3>3, <5>1
        <5>3. QED
          BY <5>2 DEF Owes
      <4>3. QED
        BY <4>1, <4>2
    <3>4. QED
      BY <3>1, <3>2, <3>3 DEF Owes
  <2>3. QED
    BY <2>1, <2>2 DEF ConnsKept
<1>5. AnswerIsOwn'
  BY DEF AnswerInv, AnswerIsOwn, Moves
<1>6. QED
  BY <1>1, <1>2, <1>3, <1>4, <1>5 DEF AnswerInv

LEMMA SessMuStays ==
  ASSUME UNCHANGED sessMu
  PROVE  HoldersStay
BY DEF HoldersStay

(* A request moves on without asking for a reply.                          *)
LEMMA QuietStep ==
  ASSUME IInv, AnswerInv, NEW r \in Reqs, NEW pc, Moves(r, pc), ConnsKept({}), HoldersStay,
         late \subseteq late', streamed \subseteq streamed',
         pc \in Using => req[r].pc \in Using,
         pc \in {"lookup", "connect", "cache", "attach"} => Unmarked(r),
         pc \in {"send", "touch", "wait"} => req[r].pc \in {"send", "touch", "wait"} \/ Unmarked(r),
         Waits(r) => \/ pc \in {"touch", "wait"}
                     \/ req[r].turn \in StillDue(req[r].rt) => <<req[r].rt, req[r].turn>> \in late'
  PROVE  AnswerInv'
<1>1. PICK asked : asked = {}
  OBVIOUS
<1>2. ConnsKept(asked)
  BY <1>1
<1>3. QED
  BY <1>1, <1>2, MoveStep

(* The steps that leave the connections alone.                             *)
LEMMA AnswerQuiet ==
  ASSUME IInv, AnswerInv, NEW r \in Reqs,
         \/ LockMu(r) \/ LockSession(r) \/ EmptyInput(r) \/ CacheRealtime(r) \/ Touch(r)
         \/ Answer(r) \/ Deadline(r) \/ Fallback(r)
  PROVE  AnswerInv'
<1>0. /\ TypeOK /\ \A pc \in PCs : Goto(r, pc) => Moves(r, pc)
      /\ conns' = conns => ConnsKept({})
  BY GotoMoves, SameConns DEF IInv
<1>. USE DEF locks, cache, counters, At, PCs, Using, Waits
<1>1. CASE LockMu(r)
  <2>1. Moves(r, "lockSess") /\ ConnsKept({}) /\ UNCHANGED <<late, streamed, sessMu>> /\ req[r].pc = "lockMu"
    BY <1>0, <1>1 DEF LockMu
  <2>2. QED
    BY <2>1, QuietStep, SessMuStays
<1>2. CASE LockSession(r)
  <2>1. Moves(r, "lookup") /\ ConnsKept({}) /\ UNCHANGED <<late, streamed>> /\ req[r].pc = "lockSess"
        /\ sessMu[req[r].sess] = NoReq /\ sessMu' = [sessMu EXCEPT ![req[r].sess] = r]
    BY <1>0, <1>2 DEF LockSession
  <2>2. Unmarked(r)
    BY <2>1, ConstantsOK DEF AnswerInv, Fresh
  <2>3. HoldersStay
    BY <1>0, <2>1, ConstantsOK DEF HoldersStay, TypeOK
  <2>4. QED
    BY <2>1, <2>2, <2>3, QuietStep
<1>3. CASE EmptyInput(r)
  <2>1. Moves(r, "return") /\ ConnsKept({}) /\ UNCHANGED <<late, streamed, sessMu>> /\ req[r].pc = "lookup"
    BY <1>0, <1>3 DEF EmptyInput
  <2>2. QED
    BY <2>1, QuietStep, SessMuStays
<1>4. CASE CacheRealtime(r)
  <2>1. Moves(r, "attach") /\ ConnsKept({}) /\ UNCHANGED <<late, streamed, sessMu>> /\ req[r].pc = "cache"
    BY <1>0, <1>4 DEF CacheRealtime
  <2>2. Unmarked(r)
    BY <2>1 DEF AnswerInv, Fresh
  <2>3. QED
    BY <2>1, <2>2, QuietStep, SessMuStays
<1>5. CASE Touch(r)
  <2>1. ConnsKept({}) /\ UNCHANGED <<late, streamed, sessMu>>
    BY <1>0, <1>5 DEF Touch
  <2>2. \/ Moves(r, "wait") /\ req[r].pc = "touch"
        \/ Moves(r, "return") /\ req[r].pc = "touchEnd"
    BY <1>0, <1>5 DEF Touch
  <2>3. QED
    BY <2>1, <2>2, QuietStep, SessMuStays
<1>6. ASSUME req[r].pc = "wait", EndTurn(r), conns' = conns, sessMu' = sessMu
      PROVE  AnswerInv'
  <2>1. /\ Moves(r, "touchEnd") /\ ConnsKept({}) /\ UNCHANGED <<streamed, sessMu>>
        /\ late \subseteq late'
        /\ req[r].turn \in StillDue(req[r].rt) => <<req[r].rt, req[r].turn>> \in late'
    BY <1>0, <1>6 DEF EndTurn
  <2>2. QED
    BY <1>6, <2>1, QuietStep, SessMuStays
<1>7. CASE Answer(r)
  <2>1. CASE EndTurn(r)
    BY <1>6, <1>7, <2>1 DEF Answer
  <2>2. CASE req[r].err /\ Goto(r, "fallback") /\ UNCHANGED counters
    <3>1. Moves(r, "fallback") /\ ConnsKept({}) /\ UNCHANGED <<late, streamed, sessMu>> /\ req[r].pc = "wait"
      BY <1>0, <1>7, <2>2 DEF Answer
    <3>2. req[r].rt \in DOMAIN conns
      BY <3>1, UsedExist
    <3>3. conns[req[r].rt].due = <<>>
      BY <2>2, <3>1, <3>2 DEF AnswerInv, Broken
    <3>4. req[r].turn \notin StillDue(req[r].rt)
      BY <3>3 DEF StillDue
    <3>5. QED
      BY <3>1, <3>4, QuietStep, SessMuStays
  <2>3. QED
    BY <1>7, <2>1, <2>2 DEF Answer
<1>8. CASE Deadline(r)
  BY <1>6, <1>8 DEF Deadline
<1>9. CASE Fallback(r)
  <2>1. ConnsKept({}) /\ UNCHANGED <<late, streamed, sessMu>> /\ req[r].pc = "fallback"
    BY <1>0, <1>9 DEF Fallback
  <2>2. Moves(r, "lockMu") \/ Moves(r, "return")
    BY <1>0, <1>9 DEF Fallback
  <2>3. QED
    BY <2>1, <2>2, QuietStep, SessMuStays
<1>10. QED
  BY <1>1, <1>2, <1>3, <1>4, <1>5, <1>7, <1>8, <1>9

(* Request r begins or ends a turn, or takes up a connection.              *)
Turns(r) ==
  /\ \A q \in Reqs : q # r => req'[q] = req[q]
  /\ req'[r].text = {} /\ ~req'[r].err

(* The connections stay as they are, and the request, which waits for no   *)
(* reply, has none collected.                                              *)
LEMMA TurnStep ==
  ASSUME IInv, AnswerInv, NEW r \in Reqs, Turns(r), req[r].pc \notin {"touch", "wait"},
         \A q \in Reqs : q # r /\ sessMu[req[q].sess] = q => sessMu'[req[q].sess] = q,
         req'[r].pc \in Using => conns'[req'[r].rt].sess = req'[r].sess,
         UNCHANGED <<late, streamed>>,
         \A c \in DOMAIN conns : c \in DOMAIN conns' /\ conns'[c] = conns[c],
         \A c \in DOMAIN conns' : c \in DOMAIN conns \/ conns'[c].due = <<>>
  PROVE  AnswerInv'
<1>0. \A q \in Reqs : req[q].pc \in Using => req[q].rt \in DOMAIN conns
  BY UsedExist
<1>1. OwnSess'
  BY <1>0 DEF AnswerInv, OwnSess, Turns
<1>2. Fresh'
  BY DEF AnswerInv, Fresh, Turns, Unmarked
<1>3. Broken'
  <2>1. \A c \in DOMAIN conns' : conns'[c].state # "open" => conns'[c].due = <<>>
    BY DEF AnswerInv, Broken
  <2>2. ASSUME NEW q \in Reqs, req'[q].pc \in {"send", "touch", "wait"}, req'[q].err
        PROVE  conns'[req'[q].rt].state # "open"
    <3>1. req'[q] = req[q]
      BY <2>2 DEF Turns
    <3>2. QED
      BY <1>0, <2>2, <3>1 DEF AnswerInv, Broken, Using
  <2>3. QED
    BY <2>1, <2>2 DEF Broken
<1>4. Owed'
  <2>. SUFFICES ASSUME NEW c \in DOMAIN conns', NEW t \in StillDue(c)'
                PROVE  Owes(c, t)'
    BY DEF Owed
  <2>1. c \in DOMAIN conns /\ t \in StillDue(c)
    BY DEF StillDue
  <2>2. Owes(c, t)
    BY <2>1 DEF AnswerInv, Owed
  <2>3. \A q \in Reqs : Waits(q) => req'[q] = req[q]
    BY DEF Turns, Waits
  <2>4. QED
    BY <2>2, <2>3 DEF Owes, Waits
<1>5. AnswerIsOwn'
  BY DEF AnswerInv, AnswerIsOwn, Turns
<1>6. QED
  BY <1>1, <1>2, <1>3, <1>4, <1>5 DEF AnswerInv

LEMMA AnswerEnds ==
  ASSUME IInv, AnswerInv, NEW r \in Reqs, Return(r) \/ \E s \in Sessions : StartTurn(r, s)
  PROVE  AnswerInv'
<1>0. TypeOK /\ req \in [Reqs -> Req] /\ Exclusive
  BY DEF IInv, ConnInv, TypeOK
<1>1. Turns(r) /\ req[r].pc \in {"idle", "return"} /\ req'[r].pc \in {"idle", "lockMu"}
  <2>1. NoTurn \in Req /\ NoTurn.text = {} /\ ~NoTurn.err /\ NoTurn.pc = "idle"
    BY NoTurnTyped DEF NoTurn
  <2>2. CASE Return(r)
    BY <1>0, <2>1, <2>2 DEF Return, Turns, At
  <2>3. ASSUME NEW s \in Sessions, StartTurn(r, s)
        PROVE  Turns(r) /\ req[r].pc = "idle" /\ req'[r].pc = "lockMu"
    <3>1. PICK new : new = [NoTurn EXCEPT !.pc = "lockMu", !.sess = s, !.turn = turns + 1]
      OBVIOUS
    <3>2. new.text = {} /\ ~new.err /\ new.pc = "lockMu"
      BY <2>1, <3>1 DEF Req
    <3>3. req' = [req EXCEPT ![r] = new] /\ req[r].pc = "idle"
      BY <2>3, <3>1 DEF StartTurn, At
    <3>4. QED
      BY <1>0, <3>2, <3>3 DEF Turns
  <2>4. QED
    BY <2>2, <2>3
<1>2. conns' = conns /\ UNCHANGED <<late, streamed>>
  BY DEF Return, StartTurn, counters
<1>3. \A q \in Reqs : q # r /\ sessMu[req[q].sess] = q => sessMu'[req[q].sess] = q
  <2>1. CASE Return(r)
    <3>1. sessMu[req[r].sess] = r /\ sessMu' = [sessMu EXCEPT ![req[r].sess] = NoReq]
      BY <1>0, <2>1 DEF Return, At, Exclusive, Inside, PCs
    <3>2. QED
      BY <1>0, <3>1 DEF TypeOK
  <2>2. CASE \E s \in Sessions : StartTurn(r, s)
    BY <2>2 DEF StartTurn, locks
  <2>3. QED
    BY <2>1, <2>2
<1>4. QED
  BY <1>1, <1>2, <1>3, TurnStep DEF Using

(* A turn finds its connection, or opens one, with nothing collected.      *)
LEMMA AnswerConnect ==
  ASSUME IInv, AnswerInv, NEW r \in Reqs, Lookup(r) \/ Connect(r)
  PROVE  AnswerInv'
<1>0. /\ TypeOK /\ req \in [Reqs -> Req] /\ req[r].sess \in Sessions
      /\ \A pc \in PCs : Goto(r, pc) => Moves(r, pc)
      /\ conns' = conns => ConnsKept({})
  BY GotoMoves, SameConns DEF IInv, TypeOK, Req
<1>1. Unmarked(r) /\ req[r].pc \in {"lookup", "connect"} /\ sessMu' = sessMu
  BY DEF AnswerInv, Fresh, Lookup, Connect, At, locks
<1>2. CASE Goto(r, "connect") /\ Lookup(r)
  <2>1. ConnsKept({}) /\ UNCHANGED <<late, streamed>> /\ Moves(r, "connect")
    BY <1>0, <1>2 DEF Lookup, counters, PCs
  <2>2. QED
    BY <1>1, <2>1, QuietStep, SessMuStays DEF Using, Waits
<1>3. CASE Goto(r, "fallback") /\ conns' = conns /\ Connect(r) /\ Fail
  <2>1. ConnsKept({}) /\ UNCHANGED <<late, streamed>> /\ Moves(r, "fallback")
    BY <1>0, <1>3 DEF Fail, PCs
  <2>2. QED
    BY <1>1, <2>1, QuietStep, SessMuStays DEF Using, Waits
<1>4. CASE /\ Connected(cached[req[r].sess]) /\ Lookup(r)
           /\ req' = [req EXCEPT ![r].pc = "attach", ![r].rt = cached[req[r].sess]]
  <2>1. conns' = conns /\ UNCHANGED <<late, streamed>>
    BY <1>4 DEF Lookup, counters
  <2>2. /\ Turns(r) /\ req'[r].pc = "attach" /\ req'[r].rt = cached[req[r].sess]
        /\ req'[r].sess = req[r].sess
    BY <1>0, <1>1, <1>4 DEF Turns, Unmarked, Req
  <2>3. conns[req'[r].rt].sess = req'[r].sess
    BY <1>0, <1>4, <2>2 DEF IInv, ConnInv, CachedIsOfSession, Connected
  <2>4. QED
    BY <1>0, <1>1, <2>1, <2>2, <2>3, TurnStep
<1>5. CASE /\ conns' = Append(conns, [state |-> "open", sess |-> req[r].sess, cb |-> 0, due |-> <<>>])
           /\ req' = [req EXCEPT ![r].pc = "cache", ![r].rt = Len(conns) + 1] /\ UNCHANGED counters
  <2>. DEFINE new == [state |-> "open", sess |-> req[r].sess, cb |-> 0, due |-> <<>>]
  <2>1. new \in Conn /\ new.sess = req[r].sess /\ new.due = <<>>
    BY <1>0 DEF Conn
  <2>2. /\ Turns(r) /\ req'[r].pc = "cache" /\ req'[r].rt = Len(conns) + 1 /\ req'[r].sess = req[r].sess
    BY <1>0, <1>1, <1>5 DEF Turns, Unmarked, Req
  <2>. HIDE DEF new
  <2>3. /\ \A c \in DOMAIN conns : c \in DOMAIN conns' /\ conns'[c] = conns[c]
        /\ \A c \in DOMAIN conns' : c \in DOMAIN conns \/ c = Len(conns) + 1
        /\ conns'[Len(conns) + 1] = new
    BY <1>0, <1>5, <2>1 DEF TypeOK, new
  <2>4. UNCHANGED <<late, streamed>>
    BY <1>5 DEF counters
  <2>5. QED
    BY <1>0, <1>1, <2>1, <2>2, <2>3, <2>4, TurnStep
<1>6. QED
  BY <1>2, <1>3, <1>4, <1>5 DEF Lookup, Connect

(* A turn takes over the callbacks of its connection.                      *)
LEMMA AnswerAttach ==
  ASSUME IInv, AnswerInv, NEW r \in Reqs, Attach(r)
  PROVE  AnswerInv'
<1>x. PICK x : x = req[r].rt
  OBVIOUS
<1>. DEFINE new == [conns[x] EXCEPT !.cb = req[r].turn]
<1>0. TypeOK /\ req[r].pc = "attach" /\ Unmarked(r) /\ x \in DOMAIN conns /\ Moves(r, "send")
      /\ UNCHANGED <<late, streamed, sessMu>>
  BY <1>x, GotoMoves DEF IInv, ConnInv, OwnConn, Attach, At, AnswerInv, Fresh, Using, PCs, counters, locks
<1>1. conns' = [conns EXCEPT ![x] = new]
  BY <1>x DEF Attach
<1>2. new.due = conns[x].due /\ new.sess = conns[x].sess /\ new.state = conns[x].state
  BY <1>0, ConnTyped DEF Conn
<1>3. conns[x].state # "open" => conns[x].due = <<>>
  BY <1>0 DEF AnswerInv, Broken
<1>. HIDE DEF new
<1>4. ConnsKept({})
  BY <1>0, <1>1, <1>2, <1>3, ConnKept
<1>5. QED
  BY <1>0, <1>4, QuietStep, SessMuStays DEF Using, Waits

LEMMA AnswerSend ==
  ASSUME IInv, AnswerInv, NEW r \in Reqs, Send(r)
  PROVE  AnswerInv'
<1>x. PICK x : x = req[r].rt
  OBVIOUS
<1>0. TypeOK /\ req[r].pc = "send" /\ x \in DOMAIN conns /\ UNCHANGED <<late, streamed, sessMu>>
      /\ \A pc \in PCs : Goto(r, pc) => Moves(r, pc)
  BY <1>x, GotoMoves DEF IInv, ConnInv, OwnConn, Send, At, Fail, Using, PCs, counters, locks
<1>1. CASE conns' = conns
  <2>1. Moves(r, "touch") \/ Moves(r, "fallback")
    BY <1>0 DEF Send, PCs
  <2>2. QED
    BY <1>0, <1>1, <2>1, QuietStep, SameConns, SessMuStays DEF Using, Waits
<1>2. CASE /\ conns[x].state = "open" /\ Goto(r, "touch")
           /\ conns' = [conns EXCEPT ![x].due = Append(@, req[r].turn)]
  <2>. DEFINE new == [conns[x] EXCEPT !.due = Append(@, req[r].turn)]
              asked == {<<req[r].rt, req[r].turn>>}
  <2>1. conns[x] \in Conn /\ conns[x].due \in Seq(Nat) /\ req[r].turn \in Nat /\ Moves(r, "touch")
    BY <1>0, <1>2, ConnTyped DEF PCs, TypeOK, Req
  <2>2. /\ new.due = Append(conns[x].due, req[r].turn)
        /\ new.sess = conns[x].sess /\ new.state = conns[x].state
    BY <2>1 DEF Conn
  <2>3. conns' = [conns EXCEPT ![x] = new]
    BY <1>2
  <2>4. \A t \in Elems(new.due) : t \in Elems(conns[x].due) \/ <<x, t>> \in asked
    BY <1>x, <2>1, <2>2, ElemsOf
  <2>. HIDE DEF new, asked
  <2>5. new.state = "open" /\ conns[x].state = "open" /\ new.sess = conns[x].sess
    BY <1>2, <2>2
  <2>6. TypeOK /\ AnswerInv /\ x \in DOMAIN conns
    BY <1>0
  <2>7. (new.state = "open" => conns[x].state = "open") /\ (new.state # "open" => new.due = <<>>)
    BY <2>5
  <2>8. ConnsKept(asked)
    BY <2>3, <2>4, <2>5, <2>6, <2>7, ConnKept, ZenonT(30)
  <2>9. QED
    BY <1>0, <2>1, <2>8, MoveStep, SessMuStays DEF Using, Waits, asked
<1>3. QED
  BY <1>x, <1>1, <1>2 DEF Send

(* Connections close, lose or finish what is due or are streamed to.       *)
LEMMA ConnsStep ==
  ASSUME IInv, AnswerInv, NEW asked, UNCHANGED <<req, sessMu, late>>, ConnsKept(asked),
         streamed \subseteq streamed', \A c, t : <<c, t>> \in asked => t = 0 /\ c \in streamed'
  PROVE  AnswerInv'
<1>0. \A q \in Reqs : req[q].pc \in Using => req[q].rt \in DOMAIN conns
  BY UsedExist
<1>1. OwnSess'
  BY <1>0 DEF AnswerInv, OwnSess, ConnsKept
<1>2. Fresh'
  BY DEF AnswerInv, Fresh, Unmarked
<1>3. Broken'
  BY <1>0 DEF AnswerInv, Broken, ConnsKept, Using
<1>4. Owed'
  <2>. SUFFICES ASSUME NEW c \in DOMAIN conns, NEW t \in StillDue(c)'
                PROVE  Owes(c, t)'
    BY DEF Owed, ConnsKept
  <2>1. CASE <<c, t>> \in asked
    BY <2>1 DEF Owes
  <2>2. CASE t \in StillDue(c)
    BY <2>2 DEF AnswerInv, Owed, Owes, Waits
  <2>3. QED
    BY <2>1, <2>2 DEF ConnsKept
<1>5. AnswerIsOwn'
  BY DEF AnswerInv, AnswerIsOwn
<1>6. QED
  BY <1>1, <1>2, <1>3, <1>4, <1>5 DEF AnswerInv

LEMMA AnswerConns ==
  ASSUME IInv, AnswerInv,
         \/ CloseIdle
         \/ \E s \in Sessions : EndAudioStream(s) \/ TimePasses(s)
         \/ \E c \in DOMAIN conns : ReplyEnds(c) \/ EmitDisconnect(c)
  PROVE  AnswerInv'
<1>0. TypeOK /\ \A c \in DOMAIN conns : conns[c].state # "open" => conns[c].due = <<>>
  BY DEF IInv, AnswerInv, Broken
<1>. USE DEF locks, counters
<1>1. CASE CloseIdle
  <2>1. DOMAIN conns' = DOMAIN conns /\ UNCHANGED <<req, sessMu, late, streamed>>
    BY <1>1 DEF CloseIdle
  <2>2. ASSUME NEW c \in DOMAIN conns
        PROVE  /\ conns'[c].sess = conns[c].sess
               /\ conns'[c].state = "open" => conns[c].state = "open"
               /\ conns'[c].state # "open" => conns'[c].due = <<>>
               /\ \A t \in StillDue(c)' : t \in StillDue(c)
    <3>1. conns[c] \in Conn
      BY <1>0, ConnTyped
    <3>2. CASE conns'[c] = [conns[c] EXCEPT !.state = "closed", !.due = <<>>]
      <4>1. conns'[c].sess = conns[c].sess /\ conns'[c].state = "closed" /\ conns'[c].due = <<>>
        BY <3>1, <3>2 DEF Conn
      <4>2. QED
        BY <4>1 DEF StillDue
    <3>3. CASE conns'[c] = conns[c]
      BY <1>0, <3>3 DEF StillDue
    <3>4. QED
      BY <1>1, <3>2, <3>3 DEF CloseIdle
  <2>3. ConnsKept({})
    BY <2>1, <2>2 DEF ConnsKept
  <2>4. QED
    BY <2>1, <2>3, ConnsStep
<1>2. ASSUME NEW s \in Sessions, EndAudioStream(s) PROVE AnswerInv'
  <2>x. PICK x \in DOMAIN conns : x = cached[s]
    BY <1>0, <1>2, SeqIsFun DEF EndAudioStream, TypeOK
  <2>. DEFINE new == [conns[x] EXCEPT !.due = Append(@, 0)]
  <2>1. /\ conns' = [conns EXCEPT ![x] = new] /\ conns[x].state = "open"
        /\ streamed' = streamed \cup {x} /\ UNCHANGED <<req, sessMu, late>>
    BY <1>2, <2>x DEF EndAudioStream
  <2>2. conns[x] \in Conn /\ conns[x].due \in Seq(Nat)
    BY <1>0, ConnTyped
  <2>3. new.sess = conns[x].sess /\ new.state = conns[x].state /\ new.due = Append(conns[x].due, 0)
    BY <2>2 DEF Conn
  <2>4. \A t \in Elems(new.due) : t \in Elems(conns[x].due) \/ <<x, t>> \in {<<x, 0>>}
    BY <2>2, <2>3, ElemsOf
  <2>. HIDE DEF new
  <2>5. ConnsKept({<<x, 0>>})
    BY <1>0, <2>1, <2>3, <2>4, ConnKept
  <2>6. QED
    BY <2>1, <2>5, ConnsStep
<1>3. ASSUME NEW s \in Sessions, TimePasses(s) PROVE AnswerInv'
  BY <1>3, SameConns, ConnsStep DEF TimePasses
<1>4. ASSUME NEW x \in DOMAIN conns, ReplyEnds(x) PROVE AnswerInv'
  <2>. DEFINE new == [conns[x] EXCEPT !.due = Tail(@)]
  <2>1. /\ conns' = [conns EXCEPT ![x] = new] /\ conns[x].state = "open" /\ conns[x].due # <<>>
        /\ UNCHANGED <<req, sessMu, late, streamed>>
    BY <1>4 DEF ReplyEnds
  <2>2. conns[x] \in Conn /\ conns[x].due \in Seq(Nat)
    BY <1>0, ConnTyped
  <2>3. new.sess = conns[x].sess /\ new.state = conns[x].state /\ new.due = Tail(conns[x].due)
    BY <2>2 DEF Conn
  <2>4. \A t \in Elems(new.due) : t \in Elems(conns[x].due)
    BY <2>1, <2>2, <2>3, ElemsOf
  <2>. HIDE DEF new
  <2>5. ConnsKept({})
    BY <1>0, <2>1, <2>3, <2>4, ConnKept
  <2>6. QED
    BY <2>1, <2>5, ConnsStep
<1>5. ASSUME NEW x \in DOMAIN conns, EmitDisconnect(x) PROVE AnswerInv'
  <2>. DEFINE new == [conns[x] EXCEPT !.state = "closed"]
  <2>1. /\ conns' = [conns EXCEPT ![x] = new] /\ conns[x].state = "failing"
        /\ UNCHANGED <<req, sessMu, late, streamed>>
    BY <1>5 DEF EmitDisconnect
  <2>2. new.sess = conns[x].sess /\ new.state = "closed" /\ new.due = conns[x].due
    BY <1>0, ConnTyped DEF Conn
  <2>. HIDE DEF new
  <2>3. ConnsKept({})
    BY <1>0, <2>1, <2>2, ConnKept
  <2>4. QED
    BY <2>1, <2>3, ConnsStep
<1>6. QED
  BY <1>1, <1>2, <1>3, <1>4, <1>5

(* The receive loop hands a piece of a reply, or its error, to the turn    *)
(* that listens.                                                           *)
LEMMA AnswerReceive ==
  ASSUME IInv, AnswerInv, NEW x \in DOMAIN conns, Receive(x) \/ Break(x)
  PROVE  AnswerInv'
<1>0. /\ TypeOK /\ req \in [Reqs -> Req] /\ conns[x].due \in Seq(Nat) /\ Exclusive
      /\ \A q \in Reqs : req[q].pc \in Using => req[q].rt \in DOMAIN conns
  BY ConnTyped, UsedExist DEF IInv, ConnInv, TypeOK
<1>1. UNCHANGED <<sessMu, late, streamed>>
  BY DEF Receive, Break, Fail, locks, counters
<1>2. ConnsKept({}) /\ (Break(x) => conns'[x].state = "failing")
  <2>1. CASE Receive(x) /\ ~Break(x)
    BY <2>1, SameConns DEF Receive
  <2>2. CASE Break(x)
    <3>. DEFINE new == [conns[x] EXCEPT !.state = "failing", !.due = <<>>]
    <3>1. conns' = [conns EXCEPT ![x] = new]
      BY <2>2 DEF Break
    <3>2. new.sess = conns[x].sess /\ new.state = "failing" /\ new.due = <<>>
      BY <1>0, ConnTyped DEF Conn
    <3>. HIDE DEF new
    <3>3. \A t \in Elems(new.due) : t \in Elems(conns[x].due)
      BY <3>2 DEF Elems
    <3>4. ConnsKept({})
      BY <1>0, <3>1, <3>2, <3>3, ConnKept
    <3>5. conns'[x] = new
      BY <1>0, <3>1, SeqIsFun DEF TypeOK
    <3>6. QED
      BY <3>2, <3>4, <3>5
  <2>3. QED
    BY <2>1, <2>2
<1>3. ASSUME NEW q \in Reqs
      PROVE  /\ q \notin Listening(x) => req'[q] = req[q]
             /\ req'[q].pc = req[q].pc /\ req'[q].sess = req[q].sess /\ req'[q].turn = req[q].turn
             /\ req'[q].rt = req[q].rt
             /\ req'[q].text = req[q].text \/ (q \in Listening(x) /\ Receive(x)
                                               /\ req'[q].text = req[q].text \cup {Head(conns[x].due)})
             /\ req'[q].err = req[q].err \/ (q \in Listening(x) /\ Break(x))
  <2>1. req[q] \in Req
    BY <1>0
  <2>2. \/ req'[q] = req[q]
        \/ q \in Listening(x) /\ Receive(x) /\ req'[q] = [req[q] EXCEPT !.text = @ \cup {Head(conns[x].due)}]
        \/ q \in Listening(x) /\ Break(x) /\ req'[q] = [req[q] EXCEPT !.err = TRUE]
    BY DEF Receive, Break
  <2>3. q \notin Listening(x) => req'[q] = req[q]
    BY DEF Receive, Break
  <2>4. QED
    BY <2>1, <2>2, <2>3 DEF Req
<1>4. \A q \in Reqs : q \in Listening(x) => req[q].rt = x /\ req[q].pc \in {"send", "touch", "wait"}
  BY DEF Listening
<1>5. OwnSess'
  BY <1>0, <1>2, <1>3 DEF AnswerInv, OwnSess, ConnsKept
<1>6. Fresh'
  BY <1>0, <1>1, <1>3, <1>4 DEF AnswerInv, Fresh, Unmarked, Exclusive, Inside, PCs
<1>7. Broken'
  <2>1. \A c \in DOMAIN conns' : conns'[c].state # "open" => conns'[c].due = <<>>
    BY <1>2 DEF ConnsKept
  <2>2. ASSUME NEW q \in Reqs, req[q].pc \in {"send", "touch", "wait"}, req'[q].err
        PROVE  conns'[req[q].rt].state # "open"
    <3>1. CASE req[q].err
      BY <1>0, <1>2, <2>2, <3>1 DEF AnswerInv, Broken, ConnsKept, Using
    <3>2. CASE ~req[q].err
      BY <1>2, <1>3, <1>4, <2>2, <3>2
    <3>3. QED
      BY <3>1, <3>2
  <2>3. QED
    BY <1>3, <2>1, <2>2 DEF Broken
<1>8. Owed'
  <2>. SUFFICES ASSUME NEW c \in DOMAIN conns, NEW t \in StillDue(c)'
                PROVE  Owes(c, t)'
    BY <1>2 DEF Owed, ConnsKept
  <2>1. Owes(c, t)
    BY <1>2 DEF AnswerInv, Owed, ConnsKept
  <2>2. QED
    BY <1>1, <1>3, <2>1 DEF Owes, Waits
<1>9. AnswerIsOwn'
  <2>. SUFFICES ASSUME NEW q \in Reqs, NEW t \in req'[q].text
                PROVE  \/ t = req[q].turn
                       \/ <<req[q].rt, t>> \in late
                       \/ t = 0 /\ req[q].rt \in streamed
    BY <1>1, <1>3 DEF AnswerIsOwn
  <2>1. CASE t \in req[q].text
    BY <2>1 DEF AnswerInv, AnswerIsOwn
  <2>2. CASE q \in Listening(x) /\ Receive(x) /\ t = Head(conns[x].due)
    <3>1. conns[x].due # <<>>
      BY <2>2 DEF Receive
    <3>2. t \in StillDue(x)
      BY <1>0, <2>2, <3>1, ElemsOf DEF StillDue, Elems
    <3>3. Owes(x, t)
      BY <3>2 DEF AnswerInv, Owed
    <3>4. \A r \in Reqs : Waits(r) /\ req[r].rt = x => r = q
      BY <1>4, <2>2, OneUser DEF AnswerInv, Using, Waits
    <3>5. QED
      BY <1>4, <2>2, <3>3, <3>4 DEF Owes
  <2>3. QED
    BY <1>3, <2>1, <2>2
<1>10. QED
  BY <1>5, <1>6, <1>7, <1>8, <1>9 DEF AnswerInv

LEMMA AnswerInitial == Init => AnswerInv
<1>. SUFFICES ASSUME Init PROVE AnswerInv
  OBVIOUS
<1>1. \A r \in Reqs : req[r].pc = "idle" /\ req[r].text = {} /\ ~req[r].err
  BY DEF Init, NoTurn
<1>2. DOMAIN conns = {}
  BY DEF Init
<1>3. QED
  BY <1>1, <1>2 DEF AnswerInv, OwnSess, Using, Fresh, Unmarked, Broken, Owed, AnswerIsOwn

LEMMA AnswerNext ==
  ASSUME IInv, AnswerInv, [Next]_vars
  PROVE  AnswerInv'
<1>1. CASE Next
  BY <1>1, AnswerQuiet, AnswerEnds, AnswerConnect, AnswerAttach, AnswerSend, AnswerConns, AnswerReceive
  DEF Next, Step
<1>2. CASE UNCHANGED vars
  BY <1>2, SameConns, ConnsStep DEF vars
<1>3. QED
  BY <1>1, <1>2

-----------------------------------------------------------------------------
(* Who holds which mutex.                                                  *)

(* realtimeMu is held across steps only on the way to a session's mutex,   *)
(* and a session's mutex only by a request of that session that is at work.*)
LocksInv ==
  /\ \A r \in Reqs : realtimeMu = r <=> At(r, "lockSess")
  /\ \A s \in Sessions : sessMu[s] # NoReq => req[sessMu[s]].sess = s /\ ~At(sessMu[s], "idle")

(* The steps of a turn.                                                    *)
Edges ==
  {<<"lookup", "return">>, <<"lookup", "attach">>, <<"lookup", "connect">>,
   <<"connect", "cache">>, <<"connect", "fallback">>, <<"cache", "attach">>, <<"attach", "send">>,
   <<"send", "touch">>, <<"send", "fallback">>, <<"touch", "wait">>, <<"wait", "fallback">>,
   <<"wait", "touchEnd">>, <<"touchEnd", "return">>, <<"fallback", "lockMu">>, <<"fallback", "return">>}

(* Request r goes from one step to another, and nobody else does.          *)
Walks(r, from, to) ==
  /\ req[r].pc = from /\ req'[r].pc = to
  /\ \A q \in Reqs : q # r => req'[q] = req[q]

LEMMA WalksOn ==
  ASSUME TypeOK, NEW r \in Reqs, NEW pc \in PCs, Goto(r, pc)
  PROVE  Walks(r, req[r].pc, pc) /\ req'[r].sess = req[r].sess
BY GotoMoves DEF Moves, Walks

(* Every step but those at the locks follows an edge and leaves the locks. *)
LEMMA EdgeWalked ==
  ASSUME TypeOK, NEW r \in Reqs, Step(r), ~LockMu(r), ~LockSession(r), ~Return(r)
  PROVE  /\ \E e \in Edges : Walks(r, e[1], e[2])
         /\ req'[r].sess = req[r].sess /\ UNCHANGED locks
<1>1. UNCHANGED locks
  BY DEF Step, EmptyInput, Lookup, Connect, CacheRealtime, Attach, Send, Touch, Answer, Deadline, Fallback
<1>2. ASSUME NEW to \in PCs, Goto(r, to), <<req[r].pc, to>> \in Edges
      PROVE  (\E e \in Edges : Walks(r, e[1], e[2])) /\ req'[r].sess = req[r].sess
  <2>1. Walks(r, req[r].pc, to) /\ req'[r].sess = req[r].sess
    BY <1>2, WalksOn
  <2> QED
    BY <1>2, <2>1
<1>3. CASE EmptyInput(r) \/ CacheRealtime(r) \/ Attach(r) \/ Fallback(r)
  <2>1. \E to \in PCs : Goto(r, to) /\ <<req[r].pc, to>> \in Edges
    BY <1>3 DEF EmptyInput, CacheRealtime, Attach, Fallback, At, Edges, PCs
  <2> QED
    BY <1>1, <1>2, <2>1
<1>4. CASE Send(r) \/ Touch(r) \/ Answer(r) \/ Deadline(r)
  <2>1. \E to \in PCs : Goto(r, to) /\ <<req[r].pc, to>> \in Edges
    BY <1>4 DEF Send, Touch, Answer, Deadline, EndTurn, At, Edges, PCs
  <2> QED
    BY <1>1, <1>2, <2>1
<1>5. ASSUME NEW to \in PCs, NEW rt, req' = [req EXCEPT ![r].pc = to, ![r].rt = rt], <<req[r].pc, to>> \in Edges
      PROVE  (\E e \in Edges : Walks(r, e[1], e[2])) /\ req'[r].sess = req[r].sess
  <2>1. Walks(r, req[r].pc, to) /\ req'[r].sess = req[r].sess
    BY <1>5 DEF TypeOK, Req, Walks
  <2> QED
    BY <1>5, <2>1
<1>6. CASE Lookup(r)
  <2>1. \/ req' = [req EXCEPT ![r].pc = "attach", ![r].rt = cached[req[r].sess]]
        \/ Goto(r, "connect")
    BY <1>6 DEF Lookup
  <2>2. req[r].pc = "lookup"
    BY <1>6 DEF Lookup, At
  <2> QED
    BY <1>1, <1>2, <1>5, <2>1, <2>2 DEF Edges, PCs
<1>7. CASE Connect(r)
  <2>1. \/ req' = [req EXCEPT ![r].pc = "cache", ![r].rt = Len(conns) + 1]
        \/ Goto(r, "fallback")
    BY <1>7 DEF Connect
  <2>2. req[r].pc = "connect"
    BY <1>7 DEF Connect, At
  <2> QED
    BY <1>1, <1>2, <1>5, <2>1, <2>2 DEF Edges, PCs
<1> QED
  BY <1>3, <1>4, <1>6, <1>7 DEF Step

LEMMA AtLocks ==
  ASSUME TypeOK, NEW r \in Reqs
  PROVE  /\ LockMu(r) => /\ Walks(r, "lockMu", "lockSess") /\ req'[r].sess = req[r].sess
                         /\ realtimeMu = NoReq /\ realtimeMu' = r /\ sessMu' = sessMu
         /\ LockSession(r) =>
              /\ Walks(r, "lockSess", "lookup") /\ req'[r].sess = req[r].sess
              /\ sessMu[req[r].sess] = NoReq /\ sessMu' = [sessMu EXCEPT ![req[r].sess] = r]
              /\ realtimeMu' = NoReq
         /\ Return(r) => /\ Walks(r, "return", "idle") /\ realtimeMu' = realtimeMu
                         /\ sessMu' = [sessMu EXCEPT ![req[r].sess] = NoReq]
<1>1. LockMu(r) => /\ Walks(r, "lockMu", "lockSess") /\ req'[r].sess = req[r].sess
                   /\ realtimeMu = NoReq /\ realtimeMu' = r /\ sessMu' = sessMu
  BY WalksOn DEF LockMu, At, PCs
<1>2. LockSession(r) =>
        /\ Walks(r, "lockSess", "lookup") /\ req'[r].sess = req[r].sess
        /\ sessMu[req[r].sess] = NoReq /\ sessMu' = [sessMu EXCEPT ![req[r].sess] = r]
        /\ realtimeMu' = NoReq
  BY WalksOn DEF LockSession, At, PCs
<1>3. Return(r) => /\ Walks(r, "return", "idle") /\ realtimeMu' = realtimeMu
                   /\ sessMu' = [sessMu EXCEPT ![req[r].sess] = NoReq]
  BY DEF Return, At, NoTurn, Walks, TypeOK
<1> QED
  BY <1>1, <1>2, <1>3

(* The steps of the connections, the recordings and the janitor.           *)
LEMMA OthersStand ==
  ASSUME TypeOK, \/ \E c \in DOMAIN conns : Receive(c) \/ ReplyEnds(c) \/ Break(c) \/ EmitDisconnect(c)
                 \/ \E s \in Sessions : EndAudioStream(s) \/ TimePasses(s)
                 \/ CloseIdle \/ UNCHANGED vars
  PROVE  /\ UNCHANGED locks
         /\ \A r \in Reqs : req'[r].pc = req[r].pc /\ req'[r].sess = req[r].sess
<1>1. UNCHANGED locks
  BY DEF Receive, ReplyEnds, Break, EmitDisconnect, EndAudioStream, TimePasses, CloseIdle, vars, locks
<1>2. ASSUME NEW c \in DOMAIN conns, Receive(c) \/ Break(c), NEW r \in Reqs
      PROVE  req'[r].pc = req[r].pc /\ req'[r].sess = req[r].sess
  <2>1. req \in [Reqs -> Req]
    BY DEF TypeOK
  <2>2. req[r] \in Req
    BY <2>1
  <2>3. CASE Receive(c)
    BY <2>1, <2>2, <2>3 DEF Receive, Req
  <2>4. CASE Break(c)
    BY <2>1, <2>2, <2>4 DEF Break, Req
  <2> QED
    BY <1>2, <2>3, <2>4
<1>3. CASE (\E c \in DOMAIN conns : ReplyEnds(c) \/ EmitDisconnect(c)) \/ (\E s \in Sessions : EndAudioStream(s) \/ TimePasses(s))
           \/ CloseIdle \/ UNCHANGED vars
  <2>1. req' = req
    BY <1>3 DEF ReplyEnds, EmitDisconnect, EndAudioStream, TimePasses, CloseIdle, vars
  <2> QED
    BY <1>1, <2>1
<1> QED
  BY <1>1, <1>2, <1>3

LEMMA StartWalks ==
  ASSUME TypeOK, NEW r \in Reqs, NEW s \in Sessions, StartTurn(r, s)
  PROVE  Walks(r, "idle", "lockMu") /\ UNCHANGED locks
<1>1. req \in [Reqs -> Req] /\ req' = [req EXCEPT ![r] = [NoTurn EXCEPT !.pc = "lockMu", !.sess = s, !.turn = turns + 1]]
  BY DEF StartTurn, TypeOK
<1>2. [NoTurn EXCEPT !.pc = "lockMu", !.sess = s, !.turn = turns + 1].pc = "lockMu"
  BY DEF NoTurn
<1> QED
  BY <1>1, <1>2 DEF StartTurn, At, Walks

LEMMA LocksNext ==
  ASSUME IInv, LocksInv, [Next]_vars
  PROVE  LocksInv'
<1>1. /\ TypeOK /\ Exclusive /\ NoReq \notin Reqs
      /\ realtimeMu \in Reqs \cup {NoReq} /\ sessMu \in [Sessions -> Reqs \cup {NoReq}]
      /\ \A r \in Reqs : req[r].sess \in Sessions /\ req[r].pc \in PCs
  BY ConstantsOK DEF IInv, ConnInv, TypeOK, Req
<1>2. ASSUME NEW r \in Reqs, NEW e \in Edges, Walks(r, e[1], e[2]), req'[r].sess = req[r].sess, UNCHANGED locks
      PROVE  LocksInv'
  <2>1. e[1] \notin {"idle", "lockSess"} /\ e[2] \notin {"idle", "lockSess"}
    BY DEF Edges
  <2> QED
    BY <1>1, <1>2, <2>1 DEF LocksInv, Walks, At, locks
<1>3. ASSUME NEW r \in Reqs, LockMu(r) PROVE LocksInv'
  <2>1. /\ Walks(r, "lockMu", "lockSess") /\ req'[r].sess = req[r].sess
        /\ realtimeMu = NoReq /\ realtimeMu' = r /\ sessMu' = sessMu
    BY <1>1, <1>3, AtLocks
  <2> QED
    BY <1>1, <2>1 DEF LocksInv, Walks, At
<1>4. ASSUME NEW r \in Reqs, LockSession(r) PROVE LocksInv'
  <2>1. /\ Walks(r, "lockSess", "lookup") /\ req'[r].sess = req[r].sess
        /\ sessMu[req[r].sess] = NoReq /\ sessMu' = [sessMu EXCEPT ![req[r].sess] = r]
        /\ realtimeMu' = NoReq
    BY <1>1, <1>4, AtLocks
  <2>2. realtimeMu = r
    BY <2>1 DEF LocksInv, Walks, At
  <2>3. \A q \in Reqs : realtimeMu' = q <=> req'[q].pc = "lockSess"
    BY <1>1, <2>1, <2>2 DEF LocksInv, Walks, At
  <2>4. \A s \in Sessions : sessMu'[s] # NoReq => req'[sessMu'[s]].sess = s /\ req'[sessMu'[s]].pc # "idle"
    BY <1>1, <2>1 DEF LocksInv, Walks, At
  <2> QED
    BY <2>3, <2>4 DEF LocksInv, At
<1>5. ASSUME NEW r \in Reqs, Return(r) PROVE LocksInv'
  <2>1. /\ Walks(r, "return", "idle") /\ realtimeMu' = realtimeMu
        /\ sessMu' = [sessMu EXCEPT ![req[r].sess] = NoReq]
    BY <1>1, <1>5, AtLocks
  <2>2. sessMu[req[r].sess] = r
    BY <1>1, <2>1 DEF Exclusive, Walks, Inside, PCs
  <2>3. \A s \in Sessions : sessMu[s] = r => s = req[r].sess
    BY <1>1 DEF LocksInv
  <2>4. \A q \in Reqs : realtimeMu' = q <=> req'[q].pc = "lockSess"
    BY <1>1, <2>1 DEF LocksInv, Walks, At
  <2>5. \A s \in Sessions : sessMu'[s] # NoReq => req'[sessMu'[s]].sess = s /\ req'[sessMu'[s]].pc # "idle"
    BY <1>1, <2>1, <2>3 DEF LocksInv, Walks, At
  <2> QED
    BY <2>4, <2>5 DEF LocksInv, At
<1>6. ASSUME NEW r \in Reqs, NEW s \in Sessions, StartTurn(r, s) PROVE LocksInv'
  <2>1. Walks(r, "idle", "lockMu") /\ UNCHANGED <<realtimeMu, sessMu>>
    BY <1>1, <1>6, StartWalks DEF locks
  <2>2. \A t \in Sessions : sessMu[t] # r
    BY <1>1, <2>1 DEF LocksInv, Walks, At
  <2> QED
    BY <1>1, <2>1, <2>2 DEF LocksInv, Walks, At
<1>7. CASE \/ \E c \in DOMAIN conns : Receive(c) \/ ReplyEnds(c) \/ Break(c) \/ EmitDisconnect(c)
           \/ \E s \in Sessions : EndAudioStream(s) \/ TimePasses(s)
           \/ CloseIdle \/ UNCHANGED vars
  <2>1. UNCHANGED <<realtimeMu, sessMu>> /\ \A r \in Reqs : req'[r].pc = req[r].pc /\ req'[r].sess = req[r].sess
    BY <1>1, <1>7, OthersStand DEF locks
  <2> QED
    BY <1>1, <2>1 DEF LocksInv, At
<1>8. ASSUME NEW r \in Reqs, Step(r) PROVE LocksInv'
  BY <1>1, <1>2, <1>3, <1>4, <1>5, <1>8, EdgeWalked
<1> QED
  BY <1>6, <1>7, <1>8 DEF Next

LEMMA LocksInit == Init => LocksInv
BY ConstantsOK DEF Init, LocksInv, NoTurn, At

-----------------------------------------------------------------------------
(* How many steps a request has still to take at most.  One that falls     *)
(* back holds its session's mutex when it asks for it again.               *)
Owns(r) == sessMu[req[r].sess] = r

StepsLeft(r) ==
  CASE At(r, "idle") -> 0
    [] At(r, "return") -> 1
    [] At(r, "touchEnd") -> 2
    [] At(r, "lockSess") /\ Owns(r) -> 3
    [] At(r, "lockMu") /\ Owns(r) -> 4
    [] At(r, "fallback") -> 5
    [] At(r, "wait") -> 6
    [] At(r, "touch") -> 7
    [] At(r, "send") -> 8
    [] At(r, "attach") -> 9
    [] At(r, "cache") -> 10
    [] At(r, "connect") -> 11
    [] At(r, "lookup") -> 12
    [] At(r, "lockSess") /\ ~Owns(r) -> 13
    [] At(r, "lockMu") /\ ~Owns(r) -> 14

(* An edge leads on; the end of a fallback holds the mutex.                *)
LEMMA EdgeLeadsOn ==
  ASSUME NEW r \in Reqs, NEW e \in Edges, Walks(r, e[1], e[2]), e[1] = "fallback" => Owns(r)'
  PROVE  StepsLeft(r)' < StepsLeft(r)
BY DEF Edges, Walks, StepsLeft, At

LEMMA LocksLeadOn ==
  ASSUME NEW r \in Reqs,
         \/ Walks(r, "lockMu", "lockSess") /\ (Owns(r)' <=> Owns(r))
         \/ Walks(r, "lockSess", "lookup") /\ ~Owns(r)
         \/ Walks(r, "return", "idle")
  PROVE  StepsLeft(r)' < StepsLeft(r)
BY DEF Walks, StepsLeft, At

LEMMA StandsStill ==
  ASSUME NEW r \in Reqs, req'[r].pc = req[r].pc, Owns(r)' <=> Owns(r), req[r].pc \in PCs
  PROVE  StepsLeft(r)' = StepsLeft(r)
BY DEF StepsLeft, At, PCs

(* Request r leads on, and the others stand.                               *)
LeadsOn(r) ==
  /\ StepsLeft(r)' < StepsLeft(r)
  /\ \A q \in Reqs : q # r => StepsLeft(q)' = StepsLeft(q)

LEMMA StepLeadsOn ==
  ASSUME IInv, LocksInv, NEW r \in Reqs, Step(r)
  PROVE  LeadsOn(r)
<1>1. /\ TypeOK /\ Exclusive /\ NoReq \notin Reqs /\ sessMu \in [Sessions -> Reqs \cup {NoReq}]
      /\ \A q \in Reqs : req[q].sess \in Sessions /\ req[q].pc \in PCs
  BY ConstantsOK DEF IInv, ConnInv, TypeOK, Req
<1>2. CASE ~LockMu(r) /\ ~LockSession(r) /\ ~Return(r)
  <2>1. PICK e \in Edges : Walks(r, e[1], e[2])
    BY <1>1, <1>2, EdgeWalked
  <2>2. req'[r].sess = req[r].sess /\ sessMu' = sessMu
    BY <1>1, <1>2, EdgeWalked DEF locks
  <2>3. e[1] = "fallback" => Owns(r)'
    BY <1>1, <2>1, <2>2 DEF Owns, Exclusive, Inside, PCs, Walks
  <2>4. \A q \in Reqs : q # r => req'[q] = req[q] /\ (Owns(q)' <=> Owns(q))
    BY <2>1, <2>2 DEF Walks, Owns
  <2> QED
    BY <1>1, <2>1, <2>3, <2>4, EdgeLeadsOn, StandsStill DEF LeadsOn
<1>3. CASE LockMu(r)
  <2>1. Walks(r, "lockMu", "lockSess") /\ req'[r].sess = req[r].sess /\ sessMu' = sessMu
    BY <1>1, <1>3, AtLocks
  <2>2. \A q \in Reqs : Owns(q)' <=> Owns(q)
    BY <2>1 DEF Walks, Owns
  <2>3. \A q \in Reqs : q # r => req'[q] = req[q]
    BY <2>1 DEF Walks
  <2> QED
    BY <1>1, <2>1, <2>2, <2>3, LocksLeadOn, StandsStill DEF LeadsOn
<1>4. CASE LockSession(r)
  <2>1. /\ Walks(r, "lockSess", "lookup") /\ req'[r].sess = req[r].sess
        /\ sessMu[req[r].sess] = NoReq /\ sessMu' = [sessMu EXCEPT ![req[r].sess] = r]
    BY <1>1, <1>4, AtLocks
  <2>2. ~Owns(r) /\ \A q \in Reqs : q # r => req'[q] = req[q] /\ (Owns(q)' <=> Owns(q))
    BY <1>1, <2>1 DEF Walks, Owns
  <2> QED
    BY <1>1, <2>1, <2>2, LocksLeadOn, StandsStill DEF LeadsOn
<1>5. CASE Return(r)
  <2>1. Walks(r, "return", "idle") /\ sessMu' = [sessMu EXCEPT ![req[r].sess] = NoReq]
    BY <1>1, <1>5, AtLocks
  <2>2. sessMu[req[r].sess] = r
    BY <1>1, <2>1 DEF Exclusive, Walks, Inside, PCs
  <2>3. \A q \in Reqs : q # r => req'[q] = req[q] /\ (Owns(q)' <=> Owns(q))
    BY <1>1, <2>1, <2>2 DEF Walks, Owns
  <2> QED
    BY <1>1, <2>1, <2>3, LocksLeadOn, StandsStill DEF LeadsOn
<1> QED
  BY <1>2, <1>3, <1>4, <1>5

LEMMA OthersLeadOn ==
  ASSUME IInv, LocksInv, [Next]_vars, NEW r \in Reqs, ~Step(r), ~At(r, "idle")
  PROVE  StepsLeft(r)' = StepsLeft(r)
<1>1. /\ TypeOK /\ NoReq \notin Reqs /\ sessMu \in [Sessions -> Reqs \cup {NoReq}]
      /\ req[r].sess \in Sessions /\ req[r].pc \in PCs
  BY ConstantsOK DEF IInv, TypeOK, Req
<1>2. ASSUME NEW q \in Reqs, Step(q) PROVE StepsLeft(r)' = StepsLeft(r)
  BY <1>2, StepLeadsOn DEF LeadsOn
<1>3. ASSUME NEW q \in Reqs, NEW s \in Sessions, StartTurn(q, s)
      PROVE  StepsLeft(r)' = StepsLeft(r)
  <2>1. Walks(q, "idle", "lockMu") /\ sessMu' = sessMu
    BY <1>1, <1>3, StartWalks DEF locks
  <2>2. req'[r] = req[r]
    BY <2>1 DEF Walks, At
  <2> QED
    BY <1>1, <2>1, <2>2, StandsStill DEF Owns
<1>4. CASE \/ \E c \in DOMAIN conns : Receive(c) \/ ReplyEnds(c) \/ Break(c) \/ EmitDisconnect(c)
           \/ \E s \in Sessions : EndAudioStream(s) \/ TimePasses(s)
           \/ CloseIdle \/ UNCHANGED vars
  <2>1. sessMu' = sessMu /\ req'[r].pc = req[r].pc /\ req'[r].sess = req[r].sess
    BY <1>1, <1>4, OthersStand DEF locks
  <2> QED
    BY <1>1, <2>1, StandsStill DEF Owns
<1> QED
  BY <1>2, <1>3, <1>4 DEF Next

-----------------------------------------------------------------------------
(* Every variable keeps its type.                                          *)
THEOREM TypeCorrect == Spec => []TypeOK
BY SpecInv, PTL DEF IInv

(* A session never has two open connections to the model, although looking *)
(* up, opening and caching one are separate critical sections, and the     *)
(* janitor and broken connections interfere anywhere.                      *)
THEOREM OneConnection == Spec => []OneConnPerSession
BY SpecInv, OneOpen, PTL

(* The mutexes that getRealtimeSessionLock hands out do exclude: two       *)
(* requests between locking and unlocking serve different sessions.        *)
THEOREM TurnsExclude ==
  Spec => [](\A r, q \in Reqs : (req[r].pc \in Inside /\ req[q].pc \in Inside /\ r # q)
                                  => req[r].sess # req[q].sess)
<1>1. IInv => \A r, q \in Reqs : (req[r].pc \in Inside /\ req[q].pc \in Inside /\ r # q)
                                   => req[r].sess # req[q].sess
  BY DEF IInv, ConnInv, Exclusive
<1>2. QED
  BY <1>1, SpecInv, PTL

(* A turn collects pieces of the reply to its own message, of replies that *)
(* turns of the same connection left unfinished, and of replies to a       *)
(* recording, and of no other, whatever breaks, whoever waits and whenever *)
(* the callbacks change hands.                                             *)
THEOREM OwnAnswers == Spec => []AnswerIsOwn
<1>1. IInv /\ AnswerInv /\ [Next]_vars => (IInv /\ AnswerInv)'
  BY NextInv, AnswerNext
<1>2. AnswerInv => AnswerIsOwn
  BY DEF AnswerInv
<1>3. QED
  BY <1>1, <1>2, InitInv, AnswerInitial, PTL DEF Spec

LEMMA SpecLocks == Spec => [](IInv /\ LocksInv)
<1>1. IInv /\ LocksInv /\ [Next]_vars => (IInv /\ LocksInv)'
  BY NextInv, LocksNext
<1> QED
  BY <1>1, InitInv, LocksInit, PTL DEF Spec

AtWork(q, s) == q \in Reqs /\ ~At(q, "idle") /\ req[q].sess = s

HolderAtSession ==
  realtimeMu # NoReq =>
    \E r \in Reqs : /\ realtimeMu = r /\ At(r, "lockSess")
                    /\ sessMu[req[r].sess] = NoReq \/ AtWork(sessMu[req[r].sess], req[r].sess)

(* getRealtimeSessionLock holds realtimeMu while it waits for a session's  *)
(* mutex, and realtimeMu is what every other request, the recordings and   *)
(* the janitor need.  Its holder can go on at once, unless the session's   *)
(* mutex is held by a request of that session that is still at work, which *)
(* may be itself after a fallback: no request that has returned leaves     *)
(* either mutex locked, and realtimeMu is never held anywhere else.        *)
THEOREM HolderGoesOn == Spec => []HolderAtSession
<1>1. ASSUME IInv, LocksInv, realtimeMu # NoReq
      PROVE  HolderAtSession
  <2>1. PICK r \in Reqs : realtimeMu = r /\ At(r, "lockSess")
    BY <1>1 DEF IInv, TypeOK, LocksInv
  <2>2. req[r].sess \in Sessions /\ sessMu[req[r].sess] \in Reqs \cup {NoReq}
    BY <1>1 DEF IInv, TypeOK, Req
  <2>3. sessMu[req[r].sess] = NoReq \/ AtWork(sessMu[req[r].sess], req[r].sess)
    BY <1>1, <2>1, <2>2 DEF LocksInv, AtWork
  <2> QED
    BY <2>1, <2>3 DEF HolderAtSession
<1>2. IInv /\ LocksInv => HolderAtSession
  BY <1>1 DEF HolderAtSession
<1> QED
  BY <1>2, SpecLocks, PTL

(* Whatever breaks, times out, is closed by the janitor or falls back, a   *)
(* request comes nearer to its end with every step it takes, and no other  *)
(* step takes it back: a turn is at most fourteen steps.                   *)
THEOREM TurnsAdvance ==
  Spec => [][\A r \in Reqs : /\ Step(r) => StepsLeft(r)' < StepsLeft(r)
                             /\ ~Step(r) /\ ~At(r, "idle") => StepsLeft(r)' = StepsLeft(r)]_vars
<1>1. ASSUME IInv, LocksInv, [Next]_vars
      PROVE  [\A r \in Reqs : /\ Step(r) => StepsLeft(r)' < StepsLeft(r)
                              /\ ~Step(r) /\ ~At(r, "idle") => StepsLeft(r)' = StepsLeft(r)]_vars
  <2>1. ASSUME NEW r \in Reqs, Step(r) PROVE StepsLeft(r)' < StepsLeft(r)
    BY <1>1, <2>1, StepLeadsOn DEF LeadsOn
  <2>2. ASSUME NEW r \in Reqs, ~Step(r), ~At(r, "idle") PROVE StepsLeft(r)' = StepsLeft(r)
    BY <1>1, <2>2, OthersLeadOn
  <2> QED
    BY <2>1, <2>2
<1> QED
  BY <1>1, SpecLocks, PTL DEF Spec
=============================================================================
