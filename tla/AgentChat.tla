------------------------------ MODULE AgentChat ------------------------------
(***************************************************************************)
(* Chats with the model that call tools: chatInternal, which a request     *)
(* waits for, and chatStreamInternal, which streams; both ask the model,   *)
(* run the tools it asks for, and ask again with the results.  All chats   *)
(* of the agent share one tool-loop detector.  The agent has an API key.   *)
(*                                                                         *)
(* A recorded call has an age instead of a time: 0 when it is made, older  *)
(* by one whenever the clock ticks, TimeWindow when it has left the window *)
(* and only waits to be cleaned up.                                        *)
(***************************************************************************)
EXTENDS Integers, Sequences, FiniteSets, Subsequences

CONSTANTS
  Streams, Waits,  \* the chats of either kind
  ToolCalls,       \* pairs of a tool and its arguments
  MaxBatch,        \* bound: tool calls in one answer of the model
  MaxCalls, SameToolLimit, TimeWindow, \* ToolLoopDetectionConfig
  NoTool

Chats == Streams \cup Waits
Batches == UNION {[1..n -> ToolCalls] : n \in 1..MaxBatch}

ASSUME ChatConstantsOK ==
  /\ Streams \cap Waits = {} /\ IsFiniteSet(Chats)
  /\ MaxBatch \in Nat \ {0} /\ MaxCalls \in Nat \ {0}
  /\ SameToolLimit \in Nat \ {0} /\ TimeWindow \in Nat \ {0}

VARIABLES
  chat,        \* each chat: the step it is at, its depth and the calls of the answer
  waiting,     \* the chats that run as chatInternal
  calls,       \* d.calls: the recorded calls and their ages
  lastTool,
  consecutive, \* d.consecutiveCount
  saved        \* observation: how often each chat stored its turn

chatVars == <<chat, waiting, calls, lastTool, consecutive, saved>>
detectorVars == <<calls, lastTool, consecutive>>

ChatIdle == [at |-> "idle", depth |-> 0, batch |-> <<>>]

ChatTypeOK ==
  /\ chat \in [Chats -> [at : {"idle", "model", "check", "record", "results"},
                         depth : 0..2, batch : Batches \cup {<<>>}]]
  /\ waiting \subseteq Chats
  /\ calls \in Seq([call : ToolCalls, age : 0..TimeWindow])
  /\ lastTool \in {call[1] : call \in ToolCalls} \cup {NoTool}
  /\ consecutive \in Nat
  /\ saved \in [Chats -> Nat]

ChatInit ==
  /\ chat = [c \in Chats |-> ChatIdle]
  /\ waiting = Waits
  /\ calls = <<>> /\ lastTool = NoTool /\ consecutive = 0
  /\ saved = [c \in Chats |-> 0]

ChatAt(c, at) == chat' = [chat EXCEPT ![c].at = at]
ChatEnds(c) == chat' = [chat EXCEPT ![c] = ChatIdle] /\ waiting' = (waiting \ {c}) \cup (Waits \cap {c})
SaveTurn(c) == saved' = [saved EXCEPT ![c] = @ + 1]

-----------------------------------------------------------------------------
(* The detector.                                                           *)

(* Mutant: old records are kept.                                           *)
CleanupNone(records) == records

(* cleanupOldCalls                                                         *)
Cleanup(records) == Kept(records, {i \in DOMAIN records : records[i].age < TimeWindow})

(* Mutant: one call too many in a row is let through.                      *)
LoopDetectedLate(records) ==
  \/ Len(records) >= MaxCalls
  \/ consecutive > SameToolLimit

(* The tests of CheckLoop: too many calls in the window, too many of one   *)
(* tool in a row, whenever they were, and a call that is repeated after    *)
(* another call of its tool.                                               *)
LoopDetected(records) ==
  \/ Len(records) >= MaxCalls
  \/ consecutive >= SameToolLimit
  \/ LET n == Len(records)
     IN  /\ n >= 3
         /\ records[n - 2].call = records[n].call
         /\ records[n - 1].call[1] = records[n].call[1]

(* CheckLoop before a batch of calls: in a loop none of them is executed   *)
(* and each has an error for a result.                                     *)
CheckLoop(c) ==
  /\ chat[c].at = "check"
  /\ calls' = Cleanup(calls)
  /\ ChatAt(c, IF LoopDetected(calls') THEN "results" ELSE "record")
  /\ UNCHANGED <<waiting, lastTool, consecutive, saved>>

(* RecordCall for the next call of the batch.                              *)
RecordCall(c) ==
  /\ chat[c].at = "record"
  /\ LET call == Head(chat[c].batch)
     IN  /\ calls' = Append(Cleanup(calls), [call |-> call, age |-> 0])
         /\ consecutive' = IF call[1] = lastTool THEN consecutive + 1 ELSE 1
         /\ lastTool' = call[1]
  /\ chat' = [chat EXCEPT ![c].batch = Tail(@),
                          ![c].at = IF Len(chat[c].batch) = 1 THEN "results" ELSE "record"]
  /\ UNCHANGED <<waiting, saved>>

-----------------------------------------------------------------------------
(* A turn begins: a command or an edit is answered at once, tool calls in  *)
(* the request itself are executed (by chatInternal only), anything else   *)
(* is for the model.                                                       *)
AnswerAtOnce(c) ==
  /\ chat[c].at = "idle"
  /\ saved' = [saved EXCEPT ![c] = 1]
  /\ UNCHANGED <<chat, waiting, detectorVars>>

RequestTools(c, batch) ==
  /\ chat[c].at = "idle" /\ c \in waiting
  /\ chat' = [chat EXCEPT ![c] = [at |-> "check", depth |-> 0, batch |-> batch]]
  /\ saved' = [saved EXCEPT ![c] = 0]
  /\ UNCHANGED <<waiting, detectorVars>>

AskModel(c) ==
  /\ chat[c].at = "idle"
  /\ ChatAt(c, "model")
  /\ saved' = [saved EXCEPT ![c] = 0]
  /\ UNCHANGED <<waiting, detectorVars>>

(* The model answers in words; nothing is stored for an empty stream.      *)
ModelReplies(c, empty) ==
  /\ chat[c].at = "model"
  /\ ChatEnds(c)
  /\ IF c \notin waiting /\ empty THEN UNCHANGED saved ELSE SaveTurn(c)
  /\ UNCHANGED detectorVars

(* An error is stored as the answer, or streamed and not stored.           *)
ModelFails(c) ==
  /\ chat[c].at = "model"
  /\ ChatEnds(c)
  /\ IF c \in waiting THEN SaveTurn(c) ELSE UNCHANGED saved
  /\ UNCHANGED detectorVars

ModelCallsTools(c, batch) ==
  /\ chat[c].at = "model"
  /\ chat' = [chat EXCEPT ![c].at = "check", ![c].batch = batch]
  /\ UNCHANGED <<waiting, detectorVars, saved>>

(* A stream whose tool calls are all malformed starts over with Chat.      *)
ToolCallsInvalid(c) ==
  /\ chat[c].at = "model" /\ c \notin waiting
  /\ waiting' = waiting \cup {c}
  /\ UNCHANGED <<chat, detectorVars, saved>>

AskAgain(c, depth) ==
  chat' = [chat EXCEPT ![c] = [at |-> "model", depth |-> depth, batch |-> <<>>]]

(* Mutant: the depth is handed on as it is.                                *)
ToolResultsSameDepth(c) ==
  /\ chat[c].at = "results"
  /\ IF c \in waiting /\ chat[c].depth >= 2
     THEN ChatEnds(c) /\ SaveTurn(c)
     ELSE AskAgain(c, chat[c].depth) /\ UNCHANGED <<waiting, saved>>
  /\ UNCHANGED detectorVars

(* Mutant: a stream stores what it has so far before it goes on.           *)
ToolResultsSaved(c) ==
  /\ chat[c].at = "results"
  /\ IF c \in waiting /\ chat[c].depth >= 2
     THEN ChatEnds(c) /\ SaveTurn(c)
     ELSE /\ AskAgain(c, IF c \in waiting THEN chat[c].depth + 1 ELSE 0)
          /\ UNCHANGED waiting
          /\ IF c \in waiting THEN UNCHANGED saved ELSE SaveTurn(c)
  /\ UNCHANGED detectorVars

(* The tools have run, or the detector has refused them: handleToolCalls   *)
(* gives up after the third round and answers with the results;            *)
(* chatStreamInternal calls itself.                                        *)
ToolResults(c) ==
  /\ chat[c].at = "results"
  /\ IF c \in waiting /\ chat[c].depth >= 2
     THEN ChatEnds(c) /\ SaveTurn(c)
     ELSE /\ AskAgain(c, IF c \in waiting THEN chat[c].depth + 1 ELSE 0)
          /\ UNCHANGED <<waiting, saved>>
  /\ UNCHANGED detectorVars

(* Time passes.                                                            *)
TimePasses ==
  /\ \E i \in DOMAIN calls : calls[i].age < TimeWindow
  /\ calls' = [i \in DOMAIN calls |->
                 [calls[i] EXCEPT !.age = IF @ < TimeWindow THEN @ + 1 ELSE @]]
  /\ UNCHANGED <<chat, waiting, lastTool, consecutive, saved>>

TurnBegins(c) ==
  \/ AnswerAtOnce(c) \/ AskModel(c)
  \/ \E batch \in Batches : RequestTools(c, batch)

TurnGoesOn(c) ==
  \/ ModelFails(c) \/ ToolCallsInvalid(c)
  \/ \E empty \in BOOLEAN : ModelReplies(c, empty)
  \/ \E batch \in Batches : ModelCallsTools(c, batch)
  \/ CheckLoop(c) \/ RecordCall(c) \/ ToolResults(c)

ChatNext ==
  \/ \E c \in Chats : TurnBegins(c) \/ TurnGoesOn(c)
  \/ TimePasses

(* A chat that has begun goes on: the model answers, in whatever way, and  *)
(* the tools return.                                                       *)
ChatFairness == WF_chatVars(TimePasses) /\ \A c \in Chats : WF_chatVars(TurnGoesOn(c))

ChatSpec == ChatInit /\ [][ChatNext]_chatVars
ChatFairSpec == ChatSpec /\ ChatFairness

-----------------------------------------------------------------------------
(* However many chats pass the detector before one of them records its     *)
(* calls, no tool is called more often in a row than the limit allows and  *)
(* one batch of every chat adds.                                           *)
RowOfOneToolBounded == consecutive < SameToolLimit + MaxBatch * Cardinality(Chats)

(* A turn is stored at most once, whatever rounds it took and whichever of *)
(* the two functions ended it.                                             *)
TurnStoredOnce == \A c \in Chats : saved[c] <= 1

(* A request that waits for its chat is answered, even if the model        *)
(* answers every time with more tool calls: whenever a chat is waited for  *)
(* it comes to its end, which is the only way it stops being waited for.   *)
WaitingChatReturns == \A c \in Chats : []<>(chat[c].at = "idle" \/ c \notin waiting)

(* The detector lets calls through again when its window has moved on,     *)
(* unless one tool was called SameToolLimit times in a row.                *)
WindowReleases == []<>(consecutive >= SameToolLimit \/ ~LoopDetected(Cleanup(calls)))

(* Every chat ends: a model that goes on calling tools is stopped.         *)
EveryChatReturns == \A c \in Chats : (chat[c].at # "idle") ~> (chat[c].at = "idle")
=============================================================================
