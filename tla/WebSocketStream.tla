------------------------- MODULE WebSocketStream -------------------------
(***************************************************************************)
(* One open WebSocket connection of the gateway (handleWSConnection): the  *)
(* read loop, the goroutine that pings every 30 s and one goroutine per    *)
(* chat message (handleWSChat) write to it, each write under writeMu and   *)
(* with 5 s that start before the lock is taken.  The library closes a     *)
(* connection whose write runs out of time; the agent's stream has its own *)
(* timeout and ends with the context of the connection.                    *)
(***************************************************************************)
EXTENDS Naturals, Sequences

CONSTANTS
  WSChats,   \* the goroutines of handleWSChat
  MaxChunks, \* bound: pieces of one answer
  SendRoom   \* bound: frames that fit into the buffers on the way to a peer that is gone

ASSUME StreamConstantsOK ==
  /\ MaxChunks \in Nat /\ SendRoom \in Nat
  /\ WSChats \cap {"reader", "ping", "nobody"} = {}

Writers == WSChats \cup {"reader", "ping"}

VARIABLES
  link,    \* "up", "gone" (the peer vanished without closing) or "closed" on this side
  room,    \* what still fits into the buffers
  writeMu, \* who holds it
  wsAt,    \* how far each goroutine is
  frame,   \* the kind of the frame it is about to write
  built,   \* pieces in the contentBuilder of each chat
  shown    \* the frames of each chat that the client was sent: <<kind, pieces>>

streamVars == <<link, room, writeMu, wsAt, frame, built, shown>>

StreamInit ==
  /\ link = "up" /\ room = SendRoom /\ writeMu = "nobody"
  /\ wsAt = [w \in Writers |-> IF w \in WSChats THEN "none" ELSE "waiting"]
  /\ frame = [w \in Writers |-> "none"]
  /\ built = [c \in WSChats |-> 0]
  /\ shown = [c \in WSChats |-> << >>]

Moves(w, to) == wsAt' = [wsAt EXCEPT ![w] = to]
WritesNext(w, kind) == Moves(w, "locking") /\ frame' = [frame EXCEPT ![w] = kind]

(* The handler has returned and the context of its chats is cancelled.     *)
Cancelled == wsAt["reader"] = "ended"

-----------------------------------------------------------------------------
(* The environment: the peer vanishes.                                     *)
PeerVanishes ==
  /\ link = "up" /\ link' = "gone"
  /\ UNCHANGED <<room, writeMu, wsAt, frame, built, shown>>

(* conn.Read: a chat message starts a goroutine, a ping is answered, an    *)
(* unreadable message is refused, any other is dropped.                    *)
ReadMessage ==
  /\ wsAt["reader"] = "waiting" /\ link = "up"
  /\ \/ \E c \in WSChats : wsAt[c] = "none" /\ Moves(c, "starting") /\ UNCHANGED frame
     \/ \E kind \in {"pong", "error"} : WritesNext("reader", kind)
  /\ UNCHANGED <<link, room, writeMu, built, shown>>

(* conn.Read fails, and the deferred calls close the connection: the peer  *)
(* closed it, or it was closed here.                                       *)
ReadFails ==
  /\ wsAt["reader"] = "waiting" /\ link \in {"up", "closed"}
  /\ link' = "closed" /\ Moves("reader", "closing")
  /\ UNCHANGED <<room, writeMu, frame, built, shown>>

(* handleWSConnection returns and its caller cancels the context.          *)
HandlerReturns ==
  /\ wsAt["reader"] = "closing" /\ Moves("reader", "ended")
  /\ UNCHANGED <<link, room, writeMu, frame, built, shown>>

(* A tick, or the cancelled pingCtx.                                       *)
PingTick ==
  /\ wsAt["ping"] = "waiting"
  /\ IF wsAt["reader"] \in {"closing", "ended"}
       THEN (Moves("ping", "ended") /\ UNCHANGED frame) \/ WritesNext("ping", "ping")
       ELSE WritesNext("ping", "ping")
  /\ UNCHANGED <<link, room, writeMu, built, shown>>

(* The request is unreadable, no agent is connected or ChatStream fails;   *)
(* or the stream is open.                                                  *)
ChatStarts(c) ==
  /\ wsAt[c] = "starting"
  /\ WritesNext(c, "error") \/ (Moves(c, "receiving") /\ UNCHANGED frame)
  /\ UNCHANGED <<link, room, writeMu, built, shown>>

(* stream.Recv: a piece; or Done or any error, which both end the answer.  *)
Recv(c) ==
  /\ wsAt[c] = "receiving"
  /\ \/ /\ ~Cancelled /\ built[c] < MaxChunks
        /\ built' = [built EXCEPT ![c] = @ + 1]
        /\ WritesNext(c, "chunk")
     \/ WritesNext(c, "done") /\ UNCHANGED built
  /\ UNCHANGED <<link, room, writeMu, shown>>

-----------------------------------------------------------------------------
LockWrites(w) ==
  /\ wsAt[w] = "locking" /\ writeMu = "nobody"
  /\ writeMu' = w /\ Moves(w, "writing")
  /\ UNCHANGED <<link, room, frame, built, shown>>

(* conn.Write returns nil and writeMu is unlocked.                         *)
WriteSucceeds(w) ==
  /\ wsAt[w] = "writing" /\ writeMu' = "nobody"
  /\ link = "up" \/ (link = "gone" /\ room > 0)
  /\ w \in WSChats => ~Cancelled
  /\ room' = IF link = "gone" THEN room - 1 ELSE room
  /\ shown' = IF link = "up" /\ w \in WSChats
                THEN [shown EXCEPT ![w] = Append(@, <<frame[w], built[w]>>)] ELSE shown
  /\ Moves(w, IF w \notin WSChats THEN "waiting"
              ELSE IF frame[w] = "chunk" THEN "receiving" ELSE "ended")
  /\ frame' = [frame EXCEPT ![w] = "none"]
  /\ UNCHANGED <<link, built>>

(* A failed ping or pong closes the connection, and ends the loop it is    *)
(* in; after a failed chunk the chat tries to send an error and ends, and  *)
(* a failed error or done frame is only logged.                            *)
AfterFailure(w) ==
  IF frame[w] = "chunk" THEN WritesNext(w, "error")
  ELSE /\ Moves(w, CASE w \in WSChats -> "ended"
                     [] w = "ping" -> "ended"
                     [] OTHER -> IF frame[w] = "pong" THEN "closing" ELSE "waiting")
       /\ frame' = [frame EXCEPT ![w] = "none"]

(* Mutant: a chunk that cannot be written is only logged, too.             *)
WriteFailsGoesOn(w) ==
  /\ wsAt[w] = "writing" /\ writeMu' = "nobody"
  /\ link' = IF frame[w] \in {"ping", "pong"} THEN "closed" ELSE link
  /\ IF frame[w] = "chunk"
     THEN Moves(w, "receiving") /\ frame' = [frame EXCEPT ![w] = "none"]
     ELSE AfterFailure(w)
  /\ UNCHANGED <<room, built, shown>>

(* Mutant: the way out after a failed ping does not unlock writeMu.        *)
WriteFailsLocked(w) ==
  /\ wsAt[w] = "writing" /\ writeMu' = IF w = "ping" THEN w ELSE "nobody"
  /\ link' \in {IF frame[w] \in {"ping", "pong"} THEN "closed" ELSE link, "closed"}
  /\ AfterFailure(w)
  /\ UNCHANGED <<room, built, shown>>

(* conn.Write returns an error and writeMu is unlocked: the connection or  *)
(* the context has ended, the time was used up waiting for writeMu, or     *)
(* the write timed out, and then the library closes the connection.        *)
WriteFails(w) ==
  /\ wsAt[w] = "writing" /\ writeMu' = "nobody"
  /\ link' \in {IF frame[w] \in {"ping", "pong"} THEN "closed" ELSE link, "closed"}
  /\ AfterFailure(w)
  /\ UNCHANGED <<room, built, shown>>

-----------------------------------------------------------------------------
WriterSteps(w) == LockWrites(w) \/ WriteSucceeds(w) \/ WriteFails(w)
ChatSteps(c) == ChatStarts(c) \/ Recv(c)

StreamNext ==
  \/ PeerVanishes \/ ReadMessage \/ ReadFails \/ HandlerReturns \/ PingTick
  \/ \E c \in WSChats : ChatSteps(c)
  \/ \E w \in Writers : WriterSteps(w)

(* Goroutines run; the ticker ticks; Recv and conn.Write return within     *)
(* their timeouts; a Read of a closed connection fails.                    *)
StreamFairness ==
  /\ WF_streamVars(link = "closed" /\ ReadFails) /\ WF_streamVars(HandlerReturns)
  /\ WF_streamVars(PingTick)
  /\ \A c \in WSChats : WF_streamVars(ChatSteps(c))
  /\ \A w \in Writers : WF_streamVars(WriterSteps(w))

StreamSpec == StreamInit /\ [][StreamNext]_streamVars /\ StreamFairness

-----------------------------------------------------------------------------
(* Properties.                                                             *)

StreamTypeOK ==
  /\ link \in {"up", "gone", "closed"} /\ room \in 0..SendRoom
  /\ writeMu \in Writers \cup {"nobody"}
  /\ wsAt \in [Writers -> {"none", "waiting", "starting", "receiving", "locking", "writing",
                           "closing", "ended"}]
  /\ frame \in [Writers -> {"none", "ping", "pong", "chunk", "done", "error"}]
  /\ built \in [WSChats -> 0..MaxChunks]
  /\ shown \in [WSChats -> Seq({"chunk", "done", "error"} \X (0..MaxChunks))]

(* What the client is shown of one answer is consistent although writes    *)
(* may fail one by one: its pieces in their order and without a gap, then  *)
(* at most one last frame, and a done frame carries just those pieces.     *)
DoneMatchesChunks ==
  \A c \in WSChats : \A k \in DOMAIN shown[c] :
    CASE shown[c][k][1] = "chunk" -> shown[c][k][2] = k
      [] shown[c][k][1] = "done"  -> k = Len(shown[c]) /\ shown[c][k][2] = k - 1
      [] OTHER                    -> k = Len(shown[c])

(* The ping goroutine exists to detect dead connections: when the peer is  *)
(* gone or the connection is closed, every goroutine of it ends, however   *)
(* its chats are queued for writeMu.                                       *)
DeadPeerIsDropped ==
  link # "up" ~> /\ writeMu = "nobody"
                 /\ \A w \in Writers : wsAt[w] \in {"none", "ended"}
=============================================================================
