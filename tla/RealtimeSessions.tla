-------------------------- MODULE RealtimeSessions --------------------------
(***************************************************************************)
(* The agent's live (realtime) chat sessions: one connection to the model  *)
(* per session key, cached in realtimeSessions under realtimeMu, one mutex *)
(* per session key so that simultaneous requests take turns, a janitor     *)
(* that closes idle connections, and the fallback to the HTTP chat.        *)
(*                                                                         *)
(* Time is abstract: the janitor finds a session idle only when no request *)
(* is using it (a turn lasts 20 s at most, the idle timeout is 5 min), and *)
(* a turn may end, by a pause in the reply or at its deadline, while the   *)
(* model still has some of the reply to send.                              *)
(***************************************************************************)
EXTENDS Naturals, Sequences

CONSTANTS
  Reqs,        \* goroutines serving chat requests
  Sessions,    \* session keys
  Serves,      \* the sessions each goroutine may be asked to serve
  LiveKeys,    \* the keys with the prefix "live:" or "realtime:"
  InitMeta,    \* the session_meta rows the run may start from
  MayTimeout,  \* may a turn reach its 20 s deadline without an answer?
  MaxTurns,    \* bound: turns ever started
  MaxEvents,   \* bound: failed connects and sends, broken connections and recordings
  NoReq        \* a free mutex

ASSUME ConstantsOK ==
  /\ Sessions # {}
  /\ Serves \in [Reqs -> SUBSET Sessions]
  /\ LiveKeys \subseteq Sessions
  /\ InitMeta \subseteq [Sessions -> {"absent", "unreadable", "http", "live"}]
  /\ MayTimeout \in BOOLEAN
  /\ MaxTurns \in Nat /\ MaxEvents \in Nat
  /\ NoReq \notin Reqs

VARIABLES
  req,         \* what each goroutine is doing
  realtimeMu,  \* the goroutine holding Agent.realtimeMu across steps
  sessMu,      \* the goroutine holding the mutex of each session
  cached,      \* realtimeSessions: the connection of a session, 0 for none
  idle,        \* has the session been unused for realtimeIdleTimeout?
  conns,       \* the connections ever opened
  meta,        \* the session_meta row, see UsesRealtime
  turns, events,
  late,        \* (an observation) the turns that ended with some of their reply still due
  streamed     \* the connections that a recording was streamed to; bound: one each

vars == <<req, realtimeMu, sessMu, cached, idle, conns, meta, turns, events, late, streamed>>
locks == <<realtimeMu, sessMu>>
cache == <<cached, idle>>
counters == <<turns, events, late, streamed>>

PCs == {"idle", "lockMu", "lockSess", "lookup", "connect", "cache", "attach", "send",
        "touch", "wait", "touchEnd", "fallback", "return"}

(* A turn of chatWithRealtimeSession: its number, the connection it uses,  *)
(* the replies its OnText callback collected and whether OnError was run.  *)
Req == [pc : PCs, sess : Sessions, turn : Nat, rt : Nat, text : SUBSET Nat, err : BOOLEAN]

(* A connection: "failing" once its receive loop has reported the error    *)
(* but not yet cleared connected.  cb is the turn whose callbacks are set, *)
(* due the replies the model has not finished, named by the turn that      *)
(* asked, 0 for streamed audio, which no turn asked.                       *)
Conn == [state : {"open", "failing", "closed"}, sess : Sessions, cb : Nat, due : Seq(Nat)]

NoTurn == [pc |-> "idle", sess |-> CHOOSE s \in Sessions : TRUE, turn |-> 0,
           rt |-> 0, text |-> {}, err |-> FALSE]

Init ==
  /\ req = [r \in Reqs |-> NoTurn]
  /\ realtimeMu = NoReq /\ sessMu = [s \in Sessions |-> NoReq]
  /\ cached = [s \in Sessions |-> 0] /\ idle = [s \in Sessions |-> FALSE]
  /\ conns = <<>>
  /\ meta \in InitMeta
  /\ turns = 0 /\ events = 0 /\ late = {} /\ streamed = {}

-----------------------------------------------------------------------------
(* A message without a directive goes to the live path when the key says   *)
(* so or the meta row can be read (its last_summary is not NULL) and has   *)
(* provider_type "live".                                                   *)
UsesRealtime(s) == s \in LiveKeys \/ meta[s] = "live"

(* SetSessionProviderType(s, "live"): an insert leaves last_summary NULL.  *)
SetProviderLive(s) ==
  meta' = [meta EXCEPT ![s] = IF @ \in {"absent", "unreadable"} THEN "unreadable" ELSE "live"]

Connected(c) == c # 0 /\ conns[c].state # "closed"

At(r, pc) == req[r].pc = pc

StillDue(c) == {conns[c].due[i] : i \in DOMAIN conns[c].due}

Goto(r, pc) == req' = [req EXCEPT ![r].pc = pc]

Fail == events < MaxEvents /\ events' = events + 1 /\ UNCHANGED <<turns, late, streamed>>

(* A request that takes the live path, by a directive of its message or by *)
(* UsesRealtime.                                                           *)
StartTurn(r, s) ==
  /\ At(r, "idle") /\ turns < MaxTurns /\ s \in Serves[r]
  /\ turns' = turns + 1
  /\ req' = [req EXCEPT ![r] = [NoTurn EXCEPT !.pc = "lockMu", !.sess = s, !.turn = turns + 1]]
  /\ UNCHANGED <<locks, cache, conns, meta, events, late, streamed>>

(* getRealtimeSessionLock takes realtimeMu ...                             *)
LockMu(r) ==
  /\ At(r, "lockMu") /\ realtimeMu = NoReq
  /\ realtimeMu' = r
  /\ Goto(r, "lockSess")
  /\ UNCHANGED <<sessMu, cache, conns, meta, counters>>

(* Mutant: the session's mutex is looked up but not locked.                *)
LockSessionNot(r) ==
  /\ At(r, "lockSess")
  /\ realtimeMu' = NoReq
  /\ Goto(r, "lookup")
  /\ UNCHANGED <<sessMu, cache, conns, meta, counters>>

(* ... and, still holding it, the session's mutex; its deferred Unlock     *)
(* releases realtimeMu.                                                    *)
LockSession(r) ==
  /\ At(r, "lockSess") /\ sessMu[req[r].sess] = NoReq
  /\ sessMu' = [sessMu EXCEPT ![req[r].sess] = r]
  /\ realtimeMu' = NoReq
  /\ Goto(r, "lookup")
  /\ UNCHANGED <<cache, conns, meta, counters>>

(* A message that is nothing but a directive is answered "empty input".    *)
EmptyInput(r) ==
  /\ At(r, "lookup")
  /\ Goto(r, "return")
  /\ UNCHANGED <<locks, cache, conns, meta, counters>>

(* getCachedRealtime                                                       *)
Lookup(r) ==
  LET s == req[r].sess IN
  /\ At(r, "lookup") /\ realtimeMu = NoReq
  /\ \/ /\ Connected(cached[s])
        /\ idle' = [idle EXCEPT ![s] = FALSE]
        /\ req' = [req EXCEPT ![r].pc = "attach", ![r].rt = cached[s]]
     \/ /\ ~Connected(cached[s])
        /\ Goto(r, "connect") /\ UNCHANGED idle
  /\ UNCHANGED <<locks, cached, conns, meta, counters>>

(* getRealtimeProvider without a cached connection                         *)
Connect(r) ==
  /\ At(r, "connect")
  /\ \/ /\ conns' = Append(conns, [state |-> "open", sess |-> req[r].sess, cb |-> 0, due |-> <<>>])
        /\ req' = [req EXCEPT ![r].pc = "cache", ![r].rt = Len(conns) + 1]
        /\ UNCHANGED counters
     \/ Fail /\ Goto(r, "fallback") /\ UNCHANGED conns
  /\ UNCHANGED <<locks, cache, meta>>

(* Mutant: the slot of the next connection is stored.                      *)
CacheRealtimeNext(r) ==
  /\ At(r, "cache") /\ realtimeMu = NoReq
  /\ cached' = [cached EXCEPT ![req[r].sess] = Len(conns) + 1]
  /\ idle' = [idle EXCEPT ![req[r].sess] = FALSE]
  /\ Goto(r, "attach")
  /\ UNCHANGED <<locks, conns, meta, counters>>

CacheRealtime(r) ==
  /\ At(r, "cache") /\ realtimeMu = NoReq
  /\ cached' = [cached EXCEPT ![req[r].sess] = req[r].rt]
  /\ idle' = [idle EXCEPT ![req[r].sess] = FALSE]
  /\ Goto(r, "attach")
  /\ UNCHANGED <<locks, conns, meta, counters>>

(* The user message is stored, the session marked live and the callbacks   *)
(* of this turn replace those of the turn before.                          *)
Attach(r) ==
  /\ At(r, "attach")
  /\ SetProviderLive(req[r].sess)
  /\ conns' = [conns EXCEPT ![req[r].rt].cb = req[r].turn]
  /\ Goto(r, "send")
  /\ UNCHANGED <<locks, cache, counters>>

(* SendText, or SendAudio and EndAudio for an audio file, which may be     *)
(* unreadable.  On a failing connection the write may still succeed;       *)
(* nobody reads the reply.                                                 *)
Send(r) ==
  LET c == req[r].rt IN
  /\ At(r, "send")
  /\ \/ /\ conns[c].state = "open"
        /\ conns' = [conns EXCEPT ![c].due = Append(@, req[r].turn)]
        /\ Goto(r, "touch") /\ UNCHANGED counters
     \/ /\ conns[c].state = "failing"
        /\ Goto(r, "touch") /\ UNCHANGED <<conns, counters>>
     \/ /\ conns[c].state # "open"
        /\ Goto(r, "fallback") /\ UNCHANGED <<conns, counters>>
     \/ /\ conns[c].state = "open" /\ Fail
        /\ Goto(r, "fallback") /\ UNCHANGED conns
  /\ UNCHANGED <<locks, cache, meta>>

(* touchRealtimeInMemory, after the send and before the answer is returned *)
Touch(r) ==
  LET s == req[r].sess IN
  /\ realtimeMu = NoReq
  /\ \/ At(r, "touch") /\ Goto(r, "wait")
     \/ At(r, "touchEnd") /\ Goto(r, "return")
  /\ idle' = [idle EXCEPT ![s] = @ /\ cached[s] = 0]
  /\ UNCHANGED <<locks, cached, conns, meta, counters>>

(* The turn is over; what is still due of its reply is for the turn that   *)
(* sets the callbacks of the connection next.                              *)
EndTurn(r) ==
  LET c == req[r].rt IN
  /\ Goto(r, "touchEnd")
  /\ late' = IF req[r].turn \in StillDue(c) THEN late \cup {<<c, req[r].turn>>} ELSE late
  /\ UNCHANGED <<turns, events, streamed>>

(* The polling loop: an error is looked at before the text, and a turn     *)
(* with some text is answered once 800 ms pass without more of it.         *)
Answer(r) ==
  /\ At(r, "wait")
  /\ \/ req[r].err /\ Goto(r, "fallback") /\ UNCHANGED counters
     \/ ~req[r].err /\ req[r].text # {} /\ EndTurn(r)
  /\ UNCHANGED <<locks, cache, conns, meta>>

(* The deadline: the turn is answered with the text collected so far,      *)
(* whatever error was reported meanwhile, or "(live) no response received".*)
Deadline(r) ==
  /\ MayTimeout /\ At(r, "wait")
  /\ req[r].err => req[r].text # {}
  /\ EndTurn(r)
  /\ UNCHANGED <<locks, cache, conns, meta>>

(* fallbackToHTTP calls ChatWithSession, which routes the message again.   *)
(* The HTTP chat touches none of this state.                               *)
Fallback(r) ==
  /\ At(r, "fallback")
  /\ Goto(r, IF UsesRealtime(req[r].sess) THEN "lockMu" ELSE "return")
  /\ UNCHANGED <<locks, cache, conns, meta, counters>>

(* Mutant: the deferred unlock is forgotten.                               *)
ReturnLocked(r) ==
  /\ At(r, "return")
  /\ req' = [req EXCEPT ![r] = NoTurn]
  /\ UNCHANGED <<sessMu, realtimeMu, cache, conns, meta, counters>>

(* The deferred unlock of the session's mutex.                             *)
Return(r) ==
  /\ At(r, "return")
  /\ sessMu' = [sessMu EXCEPT ![req[r].sess] = NoReq]
  /\ req' = [req EXCEPT ![r] = NoTurn]
  /\ UNCHANGED <<realtimeMu, cache, conns, meta, counters>>

(* EndAudioStream ends a recording that SendAudioChunk has sent piece by   *)
(* piece.  Neither takes the session's mutex or renews the last use, and   *)
(* on a connection that is not open both only return an error: so does a   *)
(* stream whose connection the janitor closed after it was looked up.      *)
EndAudioStream(s) ==
  LET c == cached[s] IN
  /\ c # 0 /\ conns[c].state = "open" /\ realtimeMu = NoReq
  /\ c \notin streamed /\ events < MaxEvents /\ events' = events + 1
  /\ conns' = [conns EXCEPT ![c].due = Append(@, 0)]
  /\ streamed' = streamed \cup {c}
  /\ UNCHANGED <<req, locks, cache, meta, turns, late>>

-----------------------------------------------------------------------------
(* The receive loop of a connection.                                       *)

(* The turns whose OnText and OnError closures connection c would run.     *)
Listening(c) ==
  {r \in Reqs : req[r].rt = c /\ req[r].turn = conns[c].cb /\ req[r].pc \in {"send", "touch", "wait"}}

(* A piece of a reply arrives; there may be any number of them ...         *)
Receive(c) ==
  /\ conns[c].state = "open" /\ conns[c].due # <<>>
  /\ req' = [r \in Reqs |-> IF r \in Listening(c)
                            THEN [req[r] EXCEPT !.text = @ \cup {Head(conns[c].due)}] ELSE req[r]]
  /\ UNCHANGED <<locks, cache, conns, meta, counters>>

(* ... or none, of a reply that is all audio.  That the reply is complete  *)
(* runs the audio callback only, which no turn sets.                       *)
ReplyEnds(c) ==
  /\ conns[c].state = "open" /\ conns[c].due # <<>>
  /\ conns' = [conns EXCEPT ![c].due = Tail(@)]
  /\ UNCHANGED <<req, locks, cache, meta, counters>>

(* A receive error is reported first ...                                   *)
Break(c) ==
  /\ conns[c].state = "open" /\ Fail
  /\ req' = [r \in Reqs |-> IF r \in Listening(c) THEN [req[r] EXCEPT !.err = TRUE] ELSE req[r]]
  /\ conns' = [conns EXCEPT ![c].state = "failing", ![c].due = <<>>]
  /\ UNCHANGED <<locks, cache, meta>>

(* ... and connected is cleared next.                                      *)
EmitDisconnect(c) ==
  /\ conns[c].state = "failing"
  /\ conns' = [conns EXCEPT ![c].state = "closed"]
  /\ UNCHANGED <<req, locks, cache, meta, counters>>

-----------------------------------------------------------------------------
(* The janitor.                                                            *)

InUse(s) ==
  \E r \in Reqs : req[r].sess = s /\ req[r].pc \in {"attach", "send", "touch", "wait", "touchEnd"}

(* realtimeIdleTimeout passes without a turn on the session.               *)
TimePasses(s) ==
  /\ cached[s] # 0 /\ ~idle[s] /\ ~InUse(s)
  /\ idle' = [idle EXCEPT ![s] = TRUE]
  /\ UNCHANGED <<req, locks, cached, conns, meta, counters>>

(* Mutant: the entry is deleted without disconnecting.                     *)
CloseIdleKeepsConn ==
  /\ realtimeMu = NoReq
  /\ \E s \in Sessions : idle[s]
  /\ cached' = [s \in Sessions |-> IF idle[s] THEN 0 ELSE cached[s]]
  /\ idle' = [s \in Sessions |-> FALSE]
  /\ UNCHANGED <<req, locks, conns, meta, counters>>

(* closeIdleRealtimeSessions                                               *)
CloseIdle ==
  /\ realtimeMu = NoReq
  /\ \E s \in Sessions : idle[s]
  /\ conns' = [c \in DOMAIN conns |->
                 IF \E s \in Sessions : idle[s] /\ cached[s] = c
                 THEN [conns[c] EXCEPT !.state = "closed", !.due = <<>>] ELSE conns[c]]
  /\ cached' = [s \in Sessions |-> IF idle[s] THEN 0 ELSE cached[s]]
  /\ idle' = [s \in Sessions |-> FALSE]
  /\ UNCHANGED <<req, locks, meta, counters>>

-----------------------------------------------------------------------------
Step(r) ==
  \/ LockMu(r) \/ LockSession(r) \/ EmptyInput(r) \/ Lookup(r) \/ Connect(r)
  \/ CacheRealtime(r) \/ Attach(r) \/ Send(r) \/ Touch(r) \/ Answer(r) \/ Deadline(r) \/ Fallback(r) \/ Return(r)

Next ==
  \/ \E r \in Reqs : Step(r) \/ \E s \in Sessions : StartTurn(r, s)
  \/ \E c \in DOMAIN conns : Receive(c) \/ ReplyEnds(c) \/ Break(c) \/ EmitDisconnect(c)
  \/ \E s \in Sessions : EndAudioStream(s) \/ TimePasses(s)
  \/ CloseIdle

Spec == Init /\ [][Next]_vars

(* Goroutines run, the polling loop ends at its deadline, and the janitor  *)
(* ticks every minute.                                                     *)
FairSpec == Spec /\ (\A r \in Reqs : WF_vars(Step(r))) /\ WF_vars(CloseIdle)

-----------------------------------------------------------------------------
(* Properties.                                                             *)

TypeOK ==
  /\ req \in [Reqs -> Req]
  /\ realtimeMu \in Reqs \cup {NoReq}
  /\ sessMu \in [Sessions -> Reqs \cup {NoReq}]
  /\ conns \in Seq(Conn)
  /\ cached \in [Sessions -> 0..Len(conns)]
  /\ idle \in [Sessions -> BOOLEAN]
  /\ meta \in [Sessions -> {"absent", "unreadable", "http", "live"}]
  /\ turns \in Nat /\ events \in Nat /\ late \subseteq (DOMAIN conns) \X Nat
  /\ streamed \subseteq DOMAIN conns

(* The looking up, opening and caching of a connection are three critical  *)
(* sections of realtimeMu with gaps between them; the session's mutex      *)
(* keeps two requests from opening a connection for the same session, and  *)
(* a connection dropped from the cache has been disconnected.              *)
OneConnPerSession ==
  \A c, d \in DOMAIN conns :
    (conns[c].state # "closed" /\ conns[d].state # "closed" /\ conns[c].sess = conns[d].sess) => c = d

(* The callbacks of a connection belong to one turn at a time, but a piece *)
(* of a reply goes to whichever turn's are set when it arrives.  So what a *)
(* turn collects is the reply to its own message, the rest of a reply that *)
(* a turn on the same connection left unfinished when it ended, by the     *)
(* pause of 800 ms or at its deadline, or the reply to a recording; never  *)
(* that of a turn still at work, of one that was answered in full, or of   *)
(* another session.                                                        *)
AnswerIsOwn ==
  \A r \in Reqs : \A t \in req[r].text :
    \/ t = req[r].turn
    \/ <<req[r].rt, t>> \in late
    \/ t = 0 /\ req[r].rt \in streamed

(* A live request returns: with the model's answer, the fallback's, or     *)
(* "no response".                                                          *)
EveryRequestReturns == \A r \in Reqs : req[r].pc = "lockMu" ~> req[r].pc = "idle"

(* A request at work holds the mutex of a session which another request,   *)
(* or its own fallback, waits for under realtimeMu.                        *)
NestedWait ==
  \E r, q \in Reqs : At(r, "lockSess") /\ sessMu[req[r].sess] = q /\ ~At(q, "idle")

(* Nothing but that keeps a live request from returning, whatever fails    *)
(* and whatever the janitor closes, ...                                    *)
OnlyNestedWaitBlocks ==
  \A r \in Reqs : req[r].pc = "lockMu" ~> (req[r].pc = "idle" \/ NestedWait)

(* ... or keeps a session that stays unused from being closed.             *)
IdleSessionsClosed == \A s \in Sessions : idle[s] ~> (~idle[s] \/ NestedWait)
=============================================================================
