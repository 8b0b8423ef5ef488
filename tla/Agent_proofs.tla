--------------------------- MODULE Agent_proofs ---------------------------
(***************************************************************************)
(* Proofs about the agent.  AgentChat: turns are stored once, calls of one *)
(* tool and of all tools are limited and a request's chat advances, for    *)
(* any number of chats of either kind, any tools, batches and limits of    *)
(* the detector.  VectorMemory: the tables agree, and labels name          *)
(* memories, for any callers, rebuilds and bounds.                         *)
(***************************************************************************)
EXTENDS AgentChat, VectorMemory, FiniteSetTheorems, SequenceTheorems, WellFoundedInduction,
        NaturalsInduction, TLAPS

ChatAts == {"idle", "model", "check", "record", "results"}
Calls == Batches \cup {<<>>}
ChatState == [at : ChatAts, depth : 0..2, batch : Calls]

(* The types that the invariants need; a chat about to check or record has *)
(* calls to record.                                                        *)
ChatTypes ==
  /\ chat \in [Chats -> ChatState]
  /\ \A c \in Chats : chat[c].at \in {"check", "record"} => chat[c].batch \in Batches
  /\ consecutive \in Nat
  /\ saved \in [Chats -> Nat]

(* A chat stores its turn in its last step.                                *)
StoredAtEnd == \A c \in Chats : saved[c] <= IF chat[c].at = "idle" THEN 1 ELSE 0

(* The calls that passed the detector and are still to be recorded.        *)
Pending ==
  {p \in Chats \X (1..MaxBatch) :
     chat[p[1]].at = "record" /\ p[2] <= Len(chat[p[1]].batch)}

Room == Cardinality(Chats \X (1..MaxBatch))

(* What is recorded in a row and what is about to be are bounded together. *)
RowBounded == consecutive + Cardinality(Pending) < SameToolLimit + Room

-----------------------------------------------------------------------------
(* Subsequences.                                                           *)

Before == {ij \in Nat \X Nat : ij[1] < ij[2]}

(* A set of numbers has a least one.                                       *)
LEMMA Smallest ==
  ASSUME NEW T, T \subseteq Nat, T # {}
  PROVE  \E i \in T : \A j \in T : i <= j
<1>1. IsWellFoundedOn(Before, Nat)
  <2>1. Before = OpToRel(<, Nat)
    BY DEF Before, OpToRel
  <2>2. QED
    BY <2>1, NatLessThanWellFounded
<1>2. PICK i \in T : \A j \in T : <<j, i>> \notin Before
  BY <1>1, WFMin
<1>3. \A j \in T : ~(j < i)
  BY <1>2 DEF Before
<1>4. QED
  BY <1>3

UpTo(T, i) == {j \in T : j <= i}

LEMMA UpToFinite ==
  ASSUME NEW T, T \subseteq Nat, IsFiniteSet(T), NEW i
  PROVE  IsFiniteSet(UpTo(T, i)) /\ Cardinality(UpTo(T, i)) \in Nat /\ Cardinality(UpTo(T, i)) <= Cardinality(T)
<1>1. UpTo(T, i) \subseteq T
  BY DEF UpTo
<1> QED
  BY <1>1, FS_Subset, FS_CardinalityType

(* A place that is not the last of T has a next one, with one more up to it. *)
LEMMA NextPlace ==
  ASSUME NEW T, T \subseteq Nat, IsFiniteSet(T), NEW i \in Nat,
         Cardinality(UpTo(T, i)) < Cardinality(T)
  PROVE  \E j \in T : i < j /\ Cardinality(UpTo(T, j)) = Cardinality(UpTo(T, i)) + 1
<1> DEFINE rest == {j \in T : i < j}
<1>1. rest # {}
  <2>1. ASSUME rest = {} PROVE UpTo(T, i) = T
    <3>1. \A j \in T : j \in Nat /\ ~(i < j)
      BY <2>1
    <3>2. \A j \in T : j <= i
      BY <3>1
    <3> QED
      BY <3>2, Zenon DEF UpTo
  <2> QED
    BY <2>1, FS_CardinalityType
<1>2. PICK j \in rest : \A m \in rest : j <= m
  BY <1>1, Smallest
<1>3. UpTo(T, j) = UpTo(T, i) \cup {j} /\ j \notin UpTo(T, i)
  <2>1. j \in T /\ i < j /\ j \in Nat /\ \A m \in T : m \in Nat /\ (i < m => j <= m)
    BY <1>2
  <2>2. \A m \in T : m <= j <=> m <= i \/ m = j
    BY <2>1
  <2>3. ~(j <= i)
    BY <2>1
  <2> QED
    BY <2>1, <2>2, <2>3, Zenon DEF UpTo
<1>4. Cardinality(UpTo(T, j)) = Cardinality(UpTo(T, i)) + 1
  BY <1>3, UpToFinite, FS_AddElement
<1> QED
  BY <1>2, <1>4

(* Every number up to the size of T is the number of places up to one.     *)
LEMMA PlaceOfRank ==
  ASSUME NEW T, T \subseteq Nat, IsFiniteSet(T), NEW k \in 1..Cardinality(T)
  PROVE  \E i \in T : Cardinality(UpTo(T, i)) = k
<1> DEFINE missing == {m \in Nat : m + 1 <= Cardinality(T) /\ \A i \in T : Cardinality(UpTo(T, i)) # m + 1}
<1>0. Cardinality(T) \in Nat
  BY FS_CardinalityType
<1>1. SUFFICES ASSUME missing # {} PROVE FALSE
  <2>1. SUFFICES ASSUME \A i \in T : Cardinality(UpTo(T, i)) # k PROVE missing # {}
    BY <1>1, <2>1
  <2>2. k - 1 \in Nat /\ (k - 1) + 1 = k /\ k <= Cardinality(T)
    BY <1>0
  <2> QED
    BY <2>1, <2>2
<1>2. PICK m \in missing : \A o \in missing : m <= o
  BY <1>1, Smallest
<1>3. CASE m = 0
  <2>1. T # {}
    BY <1>0, <1>2, <1>3, FS_EmptySet
  <2>2. PICK i \in T : \A j \in T : i <= j
    BY <2>1, Smallest
  <2>3. UpTo(T, i) = {i}
    <3>1. \A j \in T : j <= i <=> j = i
      BY <2>2
    <3> QED
      BY <2>2, <3>1, Zenon DEF UpTo
  <2>4. Cardinality(UpTo(T, i)) = 1
    BY <2>3, FS_Singleton
  <2> QED
    BY <1>2, <1>3, <2>4
<1>4. CASE m # 0
  <2>1. m - 1 \in Nat /\ m - 1 \notin missing /\ (m - 1) + 1 = m /\ m < Cardinality(T)
    BY <1>0, <1>2, <1>4
  <2>2. PICK i \in T : Cardinality(UpTo(T, i)) = m
    BY <1>0, <2>1
  <2>3. \E j \in T : Cardinality(UpTo(T, j)) = m + 1
    BY <2>1, <2>2, NextPlace
  <2> QED
    BY <1>2, <2>3
<1> QED
  BY <1>3, <1>4

(* A subsequence is a sequence of elements of s at the kept places.        *)
LEMMA KeptIsSequence ==
  ASSUME NEW S, NEW s \in Seq(S), NEW kept, kept \subseteq DOMAIN s
  PROVE  /\ Kept(s, kept) \in Seq(S)
         /\ IsFiniteSet(kept) /\ Len(Kept(s, kept)) = Cardinality(kept)
         /\ Len(Kept(s, kept)) <= Len(s)
<1>1. Len(s) \in Nat /\ DOMAIN s = 1..Len(s)
  OBVIOUS
<1>2. IsFiniteSet(DOMAIN s) /\ Cardinality(DOMAIN s) = Len(s)
  <2>1. ASSUME NEW l \in Nat PROVE IsFiniteSet(1..l) /\ Cardinality(1..l) = l
    BY FS_Interval
  <2> QED
    BY <1>1, <2>1, Zenon
<1>3. IsFiniteSet(kept) /\ Cardinality(kept) \in Nat /\ Cardinality(kept) <= Len(s)
  BY <1>2, FS_Subset, FS_CardinalityType
<1> DEFINE n == Cardinality(kept)
           place(k) == CHOOSE i \in kept : Cardinality(UpTo(kept, i)) = k
<1>4. ASSUME NEW k \in 1..n PROVE place(k) \in kept
  BY <1>1, <1>3, PlaceOfRank
<1>5. Kept(s, kept) = [k \in 1..n |-> s[place(k)]]
  BY DEF Kept, UpTo
<1> HIDE DEF place
<1>6. \A k \in 1..n : s[place(k)] \in S
  BY <1>1, <1>4
<1>7. Kept(s, kept) \in [1..n -> S]
  BY <1>5, <1>6
<1> HIDE DEF n
<1>8. n \in Nat
  BY <1>3 DEF n
<1>9. Kept(s, kept) \in Seq(S) /\ Len(Kept(s, kept)) = n
  BY <1>7, <1>8
<1> QED
  BY <1>3, <1>9 DEF n

-----------------------------------------------------------------------------
(* Batches.                                                                *)

LEMMA BatchIsSequence ==
  ASSUME NEW S, NEW n \in Nat, NEW f \in [1..n -> S]
  PROVE  f \in Seq(S) /\ Len(f) = n
OBVIOUS

LEMMA SequenceIsFunction ==
  ASSUME NEW S, NEW f \in Seq(S)
  PROVE  Len(f) \in Nat /\ f \in [1..Len(f) -> S]
OBVIOUS

(* A batch without its first call is a batch, or empty.                    *)
LEMMA BatchTail ==
  ASSUME NEW b \in Batches
  PROVE  /\ Len(b) \in 1..MaxBatch
         /\ Len(b) = 1 => Tail(b) = <<>>
         /\ Len(b) # 1 => Tail(b) \in Batches /\ Len(Tail(b)) = Len(b) - 1
<1>1. PICK n \in 1..MaxBatch : b \in [1..n -> ToolCalls]
  BY DEF Batches
<1>2. b \in Seq(ToolCalls) /\ Len(b) = n /\ n \in Nat /\ MaxBatch \in Nat
  BY <1>1, BatchIsSequence, ChatConstantsOK
<1>3. Tail(b) \in Seq(ToolCalls) /\ Len(Tail(b)) = n - 1
  BY <1>1, <1>2
<1>4. Tail(b) \in [1..(n - 1) -> ToolCalls]
  BY <1>3, SequenceIsFunction
<1>5. CASE n = 1
  <2>1. Tail(b) \in Seq(ToolCalls) /\ Len(Tail(b)) = 0
    BY <1>3, <1>5
  <2>2. Tail(b) = <<>>
    BY <2>1, EmptySeq
  <2> QED
    BY <1>1, <1>2, <1>5, <2>2
<1>6. CASE n # 1
  <2>1. n - 1 \in 1..MaxBatch
    BY <1>1, <1>2, <1>6
  <2>2. Tail(b) \in Batches
    BY <1>4, <2>1 DEF Batches
  <2> QED
    BY <1>1, <1>2, <1>3, <1>6, <2>2
<1> QED
  BY <1>5, <1>6

-----------------------------------------------------------------------------
(* Every step changes the state of one chat; the lemmas below say to what. *)

(* A record of a chat's state with one or two of its fields replaced.      *)
LEMMA SetAt ==
  ASSUME NEW s \in ChatState, NEW at \in ChatAts
  PROVE  [s EXCEPT !.at = at] = [at |-> at, depth |-> s.depth, batch |-> s.batch]
BY DEF ChatState

LEMMA SetBatch ==
  ASSUME NEW s \in ChatState, NEW b \in Calls
  PROVE  [s EXCEPT !.batch = b] = [at |-> s.at, depth |-> s.depth, batch |-> b]
BY DEF ChatState

LEMMA SetBoth ==
  ASSUME NEW s \in ChatState, NEW at \in ChatAts, NEW b \in Calls
  PROVE  /\ [s EXCEPT !.at = at, !.batch = b] = [at |-> at, depth |-> s.depth, batch |-> b]
         /\ [s EXCEPT !.batch = b, !.at = at] = [at |-> at, depth |-> s.depth, batch |-> b]
<1>1. /\ [s EXCEPT !.at = at] \in ChatState
      /\ [s EXCEPT !.batch = b] \in ChatState
  BY DEF ChatState
<1>2. [s EXCEPT !.at = at, !.batch = b] = [[s EXCEPT !.at = at] EXCEPT !.batch = b]
  OBVIOUS
<1>3. [s EXCEPT !.batch = b, !.at = at] = [[s EXCEPT !.batch = b] EXCEPT !.at = at]
  OBVIOUS
<1>4. [s EXCEPT !.at = at].depth = s.depth /\ [s EXCEPT !.at = at].at = at
  BY DEF ChatState
<1>5. [s EXCEPT !.batch = b].depth = s.depth /\ [s EXCEPT !.batch = b].batch = b
  BY DEF ChatState
<1> QED
  BY ZenonT(40), <1>1, <1>2, <1>3, <1>4, <1>5, SetAt, SetBatch

(* The chat c goes to state s.                                             *)
Moved(c, s) == chat' = [chat EXCEPT ![c] = s] /\ s \in ChatState

LEMMA AtMoves ==
  ASSUME NEW c \in Chats, ChatTypes, NEW at \in ChatAts, ChatAt(c, at)
  PROVE  Moved(c, [at |-> at, depth |-> chat[c].depth, batch |-> chat[c].batch])
<1>1. chat[c] \in ChatState
  BY DEF ChatTypes
<1>2. chat' = [chat EXCEPT ![c] = [chat[c] EXCEPT !.at = at]]
  BY DEF ChatAt, ChatTypes
<1> QED
  BY <1>1, <1>2, SetAt DEF Moved, ChatState

LEMMA RecordMoves ==
  ASSUME NEW c \in Chats, ChatTypes, RecordCall(c)
  PROVE  /\ chat[c].at = "record" /\ chat[c].batch \in Batches
         /\ Moved(c, [at |-> IF Len(chat[c].batch) = 1 THEN "results" ELSE "record",
                      depth |-> chat[c].depth, batch |-> Tail(chat[c].batch)])
         /\ consecutive' \in {consecutive + 1, 1} /\ saved' = saved
<1>1. chat[c].at = "record" /\ chat[c].batch \in Batches /\ chat[c] \in ChatState
  BY DEF RecordCall, ChatTypes
<1> DEFINE to == IF Len(chat[c].batch) = 1 THEN "results" ELSE "record"
           rest == Tail(chat[c].batch)
<1>2. rest \in Calls
  BY <1>1, BatchTail DEF Calls
<1>3. to \in ChatAts
  BY DEF ChatAts
<1>4. chat' = [chat EXCEPT ![c] = [chat[c] EXCEPT !.batch = rest, !.at = to]]
  BY DEF RecordCall, ChatTypes
<1>5. consecutive' \in {consecutive + 1, 1} /\ saved' = saved
  BY DEF RecordCall
<1> HIDE DEF to, rest
<1>6. Moved(c, [at |-> to, depth |-> chat[c].depth, batch |-> rest])
  BY <1>1, <1>2, <1>3, <1>4, SetBoth DEF Moved, ChatState
<1> QED
  BY <1>1, <1>5, <1>6 DEF to, rest

LEMMA CallsMoves ==
  ASSUME NEW c \in Chats, ChatTypes, NEW b \in Batches, ModelCallsTools(c, b)
  PROVE  Moved(c, [at |-> "check", depth |-> chat[c].depth, batch |-> b])
<1>1. chat[c] \in ChatState /\ b \in Calls /\ "check" \in ChatAts
  BY DEF ChatTypes, Calls, ChatAts
<1>2. chat' = [chat EXCEPT ![c] = [chat[c] EXCEPT !.at = "check", !.batch = b]]
  BY DEF ModelCallsTools, ChatTypes
<1> QED
  BY <1>1, <1>2, SetBoth DEF Moved, ChatState

LEMMA AgainMoves ==
  ASSUME NEW c \in Chats, ChatTypes, ToolResults(c), ~(c \in waiting /\ chat[c].depth >= 2)
  PROVE  \E d \in 0..2 : Moved(c, [at |-> "model", depth |-> d, batch |-> <<>>])
<1>1. chat[c].depth \in 0..2
  BY DEF ChatTypes, ChatState
<1> DEFINE d == IF c \in waiting THEN chat[c].depth + 1 ELSE 0
<1>2. d \in 0..2
  BY <1>1
<1>3. chat' = [chat EXCEPT ![c] = [at |-> "model", depth |-> d, batch |-> <<>>]]
  BY DEF ToolResults, AskAgain
<1> QED
  BY <1>2, <1>3 DEF Moved, ChatState, ChatAts, Calls

LEMMA IdleState == ChatIdle \in ChatState /\ ChatIdle.at = "idle"
BY DEF ChatIdle, ChatState, ChatAts, Calls

-----------------------------------------------------------------------------
(* The invariant.                                                          *)

ChatInv == ChatTypes /\ StoredAtEnd /\ RowBounded

LEMMA RoomSize ==
  /\ IsFiniteSet(Chats \X (1..MaxBatch))
  /\ Room = MaxBatch * Cardinality(Chats) /\ Room \in Nat
<1>1. MaxBatch \in Nat /\ IsFiniteSet(Chats) /\ Cardinality(Chats) \in Nat
  BY ChatConstantsOK, FS_CardinalityType
<1>2. IsFiniteSet(1..MaxBatch) /\ Cardinality(1..MaxBatch) = MaxBatch
  BY SMTT(30), <1>1, FS_Interval
<1>3. /\ IsFiniteSet(Chats \X (1..MaxBatch))
      /\ Room = Cardinality(Chats) * MaxBatch
  BY <1>1, <1>2, FS_Product DEF Room
<1>4. Room \in Nat
  BY <1>3, FS_CardinalityType DEF Room
<1> QED
  BY <1>1, <1>3, <1>4

LEMMA PendingFits == IsFiniteSet(Pending) /\ Cardinality(Pending) \in 0..Room
<1>1. Pending \subseteq Chats \X (1..MaxBatch)
  BY DEF Pending
<1>2. IsFiniteSet(Pending) /\ Cardinality(Pending) <= Room
  BY <1>1, RoomSize, FS_Subset DEF Room
<1> QED
  BY <1>2, RoomSize, FS_CardinalityType

LEMMA PendingFitsNext == IsFiniteSet(Pending') /\ Cardinality(Pending') \in 0..Room
<1>1. Pending' \subseteq Chats \X (1..MaxBatch)
  BY DEF Pending
<1>2. IsFiniteSet(Pending') /\ Cardinality(Pending') <= Room
  BY <1>1, RoomSize, FS_Subset DEF Room
<1> QED
  BY <1>2, RoomSize, FS_CardinalityType

(* A chat that moves anywhere but to the recording of its calls adds none  *)
(* that are pending.                                                       *)
LEMMA MovePending ==
  ASSUME ChatTypes, NEW c \in Chats, NEW s, Moved(c, s), s.at # "record"
  PROVE  Cardinality(Pending') <= Cardinality(Pending)
<1>1. chat'[c] = s /\ \A o \in Chats \ {c} : chat'[o] = chat[o]
  BY DEF ChatTypes, Moved
<1>2. Pending' \subseteq Pending
  BY <1>1 DEF Pending
<1> QED
  BY <1>2, PendingFits, FS_Subset

(* A chat that moves there neither, and has stored its turn only if it has *)
(* ended, keeps the invariant.                                             *)
LEMMA MoveKeeps ==
  ASSUME ChatInv, NEW c \in Chats, NEW s, NEW n \in Nat,
         Moved(c, s), s.at # "record", s.at = "check" => s.batch \in Batches,
         saved' = [saved EXCEPT ![c] = n], n <= IF s.at = "idle" THEN 1 ELSE 0,
         consecutive' = consecutive
  PROVE  ChatInv'
<1>1. /\ chat \in [Chats -> ChatState] /\ chat' \in [Chats -> ChatState]
      /\ chat'[c] = s /\ \A o \in Chats \ {c} : chat'[o] = chat[o]
  BY DEF ChatInv, ChatTypes, Moved
<1>2. /\ saved \in [Chats -> Nat] /\ saved' \in [Chats -> Nat]
      /\ saved'[c] = n /\ \A o \in Chats \ {c} : saved'[o] = saved[o]
  BY DEF ChatInv, ChatTypes
<1>3. ChatTypes'
  BY <1>1, <1>2 DEF ChatInv, ChatTypes
<1>4. StoredAtEnd'
  BY <1>1, <1>2 DEF ChatInv, StoredAtEnd
<1>5. Cardinality(Pending') <= Cardinality(Pending)
  BY MovePending DEF ChatInv
<1>6. RowBounded'
  BY <1>5, PendingFits, PendingFitsNext, RoomSize, ChatConstantsOK DEF ChatInv, ChatTypes, RowBounded, Room
<1> QED
  BY <1>3, <1>4, <1>6 DEF ChatInv

(* A chat in the middle of its turn has not stored it, and may store it    *)
(* now.                                                                    *)
LEMMA Unsaved ==
  ASSUME ChatInv, NEW c \in Chats, chat[c].at # "idle"
  PROVE  /\ saved = [saved EXCEPT ![c] = 0]
         /\ SaveTurn(c) => saved' = [saved EXCEPT ![c] = 1]
<1>1. saved \in [Chats -> Nat] /\ saved[c] = 0
  BY DEF ChatInv, ChatTypes, StoredAtEnd
<1> QED
  BY <1>1 DEF SaveTurn

LEMMA EndKeeps ==
  ASSUME ChatInv, NEW c \in Chats, chat[c].at # "idle", ChatEnds(c),
         SaveTurn(c) \/ UNCHANGED saved, consecutive' = consecutive
  PROVE  ChatInv'
<1>1. Moved(c, ChatIdle) /\ ChatIdle.at = "idle"
  BY IdleState DEF ChatEnds, Moved
<1>2. PICK n \in {0, 1} : saved' = [saved EXCEPT ![c] = n]
  BY Unsaved
<1>3. /\ ChatIdle.at # "record" /\ ~(ChatIdle.at = "check") /\ n \in Nat
      /\ n <= IF ChatIdle.at = "idle" THEN 1 ELSE 0
  BY <1>1, <1>2
<1>4. saved' = [saved EXCEPT ![c] = n]
  BY <1>2
<1> QED
  BY <1>1, <1>3, <1>4, MoveKeeps

(* The detector lets a batch through: fewer than SameToolLimit calls were  *)
(* recorded in a row, and what is pending then fits.                       *)
LEMMA CheckKeeps ==
  ASSUME ChatInv, NEW c \in Chats, CheckLoop(c)
  PROVE  ChatInv'
<1>1. /\ chat[c].at = "check" /\ chat[c].batch \in Batches
      /\ saved' = saved /\ consecutive' = consecutive
  BY DEF CheckLoop, ChatInv, ChatTypes
<1>2. CASE LoopDetected(calls')
  <2>1. Moved(c, [at |-> "results", depth |-> chat[c].depth, batch |-> chat[c].batch])
    BY <1>2, AtMoves DEF CheckLoop, ChatInv, ChatAts
  <2> QED
    BY <1>1, <2>1, Unsaved, MoveKeeps
<1>3. CASE ~LoopDetected(calls')
  <2> DEFINE s == [at |-> "record", depth |-> chat[c].depth, batch |-> chat[c].batch]
  <2>1. Moved(c, s)
    BY <1>3, AtMoves DEF CheckLoop, ChatInv, ChatAts
  <2>2. consecutive \in Nat /\ SameToolLimit \in Nat /\ consecutive < SameToolLimit
    BY <1>3, ChatConstantsOK DEF LoopDetected, ChatInv, ChatTypes
  <2>3. /\ chat \in [Chats -> ChatState] /\ chat' \in [Chats -> ChatState]
        /\ chat'[c] = s /\ \A o \in Chats \ {c} : chat'[o] = chat[o]
    BY <2>1 DEF ChatInv, ChatTypes, Moved
  <2>4. ChatTypes'
    BY <1>1, <2>3 DEF ChatInv, ChatTypes
  <2>5. StoredAtEnd'
    BY <1>1, <2>3 DEF ChatInv, StoredAtEnd
  <2>6. RowBounded'
    BY <1>1, <2>2, PendingFitsNext, RoomSize DEF RowBounded, Room
  <2> QED
    BY <2>4, <2>5, <2>6 DEF ChatInv
<1> QED
  BY <1>2, <1>3

(* Recording a call takes it from the pending ones.                        *)
LEMMA RecordPending ==
  ASSUME ChatTypes, NEW c \in Chats, RecordCall(c)
  PROVE  Cardinality(Pending') <= Cardinality(Pending) - 1
<1> DEFINE b == chat[c].batch
           to == IF Len(b) = 1 THEN "results" ELSE "record"
           s == [at |-> to, depth |-> chat[c].depth, batch |-> Tail(b)]
           e == <<c, Len(b)>>
<1>1. chat[c].at = "record" /\ b \in Batches /\ Moved(c, s)
  BY RecordMoves
<1>2. /\ Len(b) \in 1..MaxBatch
      /\ Len(b) # 1 => Len(Tail(b)) = Len(b) - 1
  BY <1>1, BatchTail
<1>3. chat'[c] = s /\ \A o \in Chats \ {c} : chat'[o] = chat[o]
  BY <1>1 DEF ChatTypes, Moved
<1>4. e \in Pending
  BY <1>1, <1>2, ChatConstantsOK DEF Pending
<1>5. Pending' \subseteq Pending \ {e}
  <2> SUFFICES ASSUME NEW p \in Chats \X (1..MaxBatch), p \in Pending'
               PROVE  p \in Pending /\ p # e
    BY DEF Pending
  <2>1. chat'[p[1]].at = "record" /\ p[2] <= Len(chat'[p[1]].batch) /\ p[1] \in Chats /\ p[2] \in 1..MaxBatch
    BY DEF Pending
  <2>2. CASE p[1] = c
    <3>1. Len(b) # 1 /\ chat'[c].batch = Tail(b)
      BY <1>3, <2>1, <2>2
    <3>2. p[2] <= Len(b) - 1
      BY <1>2, <2>1, <2>2, <3>1
    <3> QED
      BY <1>1, <1>2, <2>1, <2>2, <3>2 DEF Pending
  <2>3. CASE p[1] # c
    BY <1>3, <2>1, <2>3 DEF Pending
  <2> QED
    BY <2>2, <2>3
<1>6. IsFiniteSet(Pending \ {e}) /\ Cardinality(Pending \ {e}) = Cardinality(Pending) - 1
  BY <1>4, PendingFits, FS_RemoveElement
<1> QED
  BY <1>5, <1>6, FS_Subset

LEMMA RecordKeeps ==
  ASSUME ChatInv, NEW c \in Chats, RecordCall(c)
  PROVE  ChatInv'
<1> DEFINE b == chat[c].batch
           to == IF Len(b) = 1 THEN "results" ELSE "record"
           s == [at |-> to, depth |-> chat[c].depth, batch |-> Tail(b)]
<1>1. /\ chat[c].at = "record" /\ b \in Batches /\ Moved(c, s)
      /\ consecutive' \in {consecutive + 1, 1} /\ saved' = saved
  BY RecordMoves DEF ChatInv
<1>2. Len(b) # 1 => Tail(b) \in Batches
  BY <1>1, BatchTail
<1>3. /\ chat \in [Chats -> ChatState] /\ chat' \in [Chats -> ChatState]
      /\ chat'[c] = s /\ \A o \in Chats \ {c} : chat'[o] = chat[o]
  BY <1>1 DEF ChatInv, ChatTypes, Moved
<1>4. consecutive \in Nat /\ consecutive' \in Nat /\ consecutive' <= consecutive + 1
  BY <1>1 DEF ChatInv, ChatTypes
<1>5. ChatTypes'
  <2>1. chat'[c].at \in {"check", "record"} => chat'[c].batch \in Batches
    BY <1>2, <1>3
  <2>2. ASSUME NEW o \in Chats, chat'[o].at \in {"check", "record"}
        PROVE  chat'[o].batch \in Batches
    BY <1>3, <2>1, <2>2 DEF ChatInv, ChatTypes
  <2> QED
    BY <1>1, <1>3, <1>4, <2>2 DEF ChatInv, ChatTypes
<1>6. StoredAtEnd'
  BY SMTT(30), <1>1, <1>3 DEF ChatInv, StoredAtEnd
<1>7. RowBounded'
  <2>1. Cardinality(Pending') <= Cardinality(Pending) - 1
    BY RecordPending DEF ChatInv
  <2>2. Cardinality(Pending) \in Nat /\ Cardinality(Pending') \in Nat
    BY PendingFits, PendingFitsNext, RoomSize
  <2>3. consecutive + Cardinality(Pending) < SameToolLimit + Room /\ SameToolLimit \in Nat
    BY ChatConstantsOK DEF ChatInv, RowBounded
  <2>4. consecutive' + Cardinality(Pending') < SameToolLimit + Room
    BY <1>4, <2>1, <2>2, <2>3, RoomSize
  <2> QED
    BY <2>4 DEF RowBounded, Room
<1> QED
  BY <1>5, <1>6, <1>7 DEF ChatInv

LEMMA ResultsKeep ==
  ASSUME ChatInv, NEW c \in Chats, ToolResults(c)
  PROVE  ChatInv'
<1>1. chat[c].at = "results" /\ consecutive' = consecutive
  BY DEF ToolResults, detectorVars
<1>2. CASE c \in waiting /\ chat[c].depth >= 2
  BY <1>1, <1>2, EndKeeps DEF ToolResults
<1>3. CASE ~(c \in waiting /\ chat[c].depth >= 2)
  <2>1. PICK d \in 0..2 : Moved(c, [at |-> "model", depth |-> d, batch |-> <<>>])
    BY <1>3, AgainMoves DEF ChatInv
  <2>2. saved' = saved
    BY <1>3 DEF ToolResults
  <2> QED
    BY <1>1, <2>1, <2>2, Unsaved, MoveKeeps
<1> QED
  BY <1>2, <1>3

(* A turn answered at once is stored, and its chat stays where it is.      *)
LEMMA AtOnceKeeps ==
  ASSUME ChatInv, NEW c \in Chats, AnswerAtOnce(c)
  PROVE  ChatInv'
<1>1. chat' = chat /\ consecutive' = consecutive /\ chat[c].at = "idle"
  BY DEF AnswerAtOnce, detectorVars
<1>2. saved' = [saved EXCEPT ![c] = 1] /\ saved \in [Chats -> Nat]
  BY DEF AnswerAtOnce, ChatInv, ChatTypes
<1>3. ChatTypes' /\ StoredAtEnd'
  BY <1>1, <1>2 DEF ChatInv, ChatTypes, StoredAtEnd
<1>4. RowBounded'
  BY <1>1 DEF ChatInv, RowBounded, Pending, Room
<1> QED
  BY <1>3, <1>4 DEF ChatInv

LEMMA BeginKeeps ==
  ASSUME ChatInv, NEW c \in Chats, TurnBegins(c)
  PROVE  ChatInv'
<1>1. CASE AnswerAtOnce(c)
  BY <1>1, AtOnceKeeps
<1>2. CASE AskModel(c)
  <2>1. Moved(c, [at |-> "model", depth |-> chat[c].depth, batch |-> chat[c].batch])
    BY <1>2, AtMoves DEF AskModel, ChatInv, ChatAts
  <2>2. saved' = [saved EXCEPT ![c] = 0] /\ consecutive' = consecutive
    BY <1>2 DEF AskModel, detectorVars
  <2>3. 0 \in Nat /\ \A at \in ChatAts : 0 <= IF at = "idle" THEN 1 ELSE 0
    OBVIOUS
  <2> QED
    BY <2>1, <2>2, <2>3, MoveKeeps DEF ChatAts
<1>3. ASSUME NEW b \in Batches, RequestTools(c, b)
      PROVE  ChatInv'
  <2>1. Moved(c, [at |-> "check", depth |-> 0, batch |-> b])
    BY <1>3 DEF RequestTools, Moved, ChatState, ChatAts, Calls
  <2>2. saved' = [saved EXCEPT ![c] = 0] /\ consecutive' = consecutive
    BY <1>3 DEF RequestTools, detectorVars
  <2>3. 0 \in Nat /\ \A at \in ChatAts : 0 <= IF at = "idle" THEN 1 ELSE 0
    OBVIOUS
  <2> QED
    BY <2>1, <2>2, <2>3, MoveKeeps DEF ChatAts
<1> QED
  BY <1>1, <1>2, <1>3 DEF TurnBegins

LEMMA GoOnKeeps ==
  ASSUME ChatInv, NEW c \in Chats, TurnGoesOn(c)
  PROVE  ChatInv'
<1>1. CASE ModelFails(c)
  BY <1>1, EndKeeps DEF ModelFails, detectorVars
<1>2. CASE ToolCallsInvalid(c)
  <2>1. chat' = chat /\ consecutive' = consecutive /\ saved' = saved
    BY <1>2 DEF ToolCallsInvalid, detectorVars
  <2> QED
    BY <2>1 DEF ChatInv, ChatTypes, StoredAtEnd, RowBounded, Pending, Room
<1>3. ASSUME NEW empty \in BOOLEAN, ModelReplies(c, empty)
      PROVE  ChatInv'
  BY <1>3, EndKeeps DEF ModelReplies, detectorVars
<1>4. ASSUME NEW b \in Batches, ModelCallsTools(c, b)
      PROVE  ChatInv'
  <2>1. Moved(c, [at |-> "check", depth |-> chat[c].depth, batch |-> b])
    BY <1>4, CallsMoves DEF ChatInv
  <2>2. chat[c].at # "idle" /\ saved' = saved /\ consecutive' = consecutive
    BY <1>4 DEF ModelCallsTools, detectorVars
  <2> QED
    BY <2>1, <2>2, Unsaved, MoveKeeps
<1>5. CASE CheckLoop(c)
  BY <1>5, CheckKeeps
<1>6. CASE RecordCall(c)
  BY <1>6, RecordKeeps
<1>7. CASE ToolResults(c)
  BY <1>7, ResultsKeep
<1> QED
  BY <1>1, <1>2, <1>3, <1>4, <1>5, <1>6, <1>7 DEF TurnGoesOn

LEMMA ChatInitInv == ChatInit => ChatInv
<1> SUFFICES ASSUME ChatInit PROVE ChatInv
  OBVIOUS
<1>1. ChatTypes /\ StoredAtEnd
  BY IdleState DEF ChatInit, ChatTypes, StoredAtEnd, ChatIdle
<1>2. Pending = {} /\ consecutive = 0
  BY DEF ChatInit, Pending, ChatIdle
<1>3. RowBounded
  BY <1>2, RoomSize, FS_EmptySet, ChatConstantsOK DEF RowBounded
<1> QED
  BY <1>1, <1>3 DEF ChatInv

LEMMA ChatNextInv == ChatInv /\ [ChatNext]_chatVars => ChatInv'
<1> SUFFICES ASSUME ChatInv, [ChatNext]_chatVars PROVE ChatInv'
  OBVIOUS
<1>1. ASSUME NEW c \in Chats, TurnBegins(c) \/ TurnGoesOn(c)
      PROVE  ChatInv'
  BY <1>1, BeginKeeps, GoOnKeeps
<1>2. CASE TimePasses \/ UNCHANGED chatVars
  <2>1. chat' = chat /\ consecutive' = consecutive /\ saved' = saved
    BY <1>2 DEF TimePasses, chatVars
  <2> QED
    BY <2>1 DEF ChatInv, ChatTypes, StoredAtEnd, RowBounded, Pending, Room
<1> QED
  BY <1>1, <1>2 DEF ChatNext

LEMMA Invariance == ChatSpec => []ChatInv
BY ChatInitInv, ChatNextInv, PTL DEF ChatSpec

-----------------------------------------------------------------------------
(* The recorded calls: those that passed the detector are bounded together *)
(* with those in the window.                                               *)

Records == [call : ToolCalls, age : 0..TimeWindow]
Tools == {call[1] : call \in ToolCalls} \cup {NoTool}

WindowBounded == Len(calls) + Cardinality(Pending) < MaxCalls + Room

DetectorInv ==
  /\ waiting \subseteq Chats
  /\ calls \in Seq(Records)
  /\ lastTool \in Tools
  /\ WindowBounded

LEMMA CleanupFits ==
  ASSUME NEW s \in Seq(Records)
  PROVE  Cleanup(s) \in Seq(Records) /\ Len(Cleanup(s)) \in Nat /\ Len(Cleanup(s)) <= Len(s)
<1> DEFINE recent == {i \in DOMAIN s : s[i].age < TimeWindow}
<1>1. recent \subseteq DOMAIN s
  OBVIOUS
<1>2. Cleanup(s) = Kept(s, recent)
  BY DEF Cleanup
<1> HIDE DEF recent
<1>3. Cleanup(s) \in Seq(Records) /\ Len(Cleanup(s)) <= Len(s)
  BY <1>1, <1>2, KeptIsSequence
<1> QED
  BY <1>3

(* A step that records nothing and lets nothing pass.                      *)
LEMMA QuietKeeps ==
  ASSUME ChatInv, DetectorInv, Cardinality(Pending') <= Cardinality(Pending),
         calls' \in Seq(Records), Len(calls') <= Len(calls), lastTool' = lastTool, waiting' \subseteq Chats
  PROVE  DetectorInv'
<1>1. Len(calls) \in Nat /\ Len(calls') \in Nat
  BY DEF DetectorInv
<1>2. Cardinality(Pending) \in Nat /\ Cardinality(Pending') \in Nat /\ MaxCalls \in Nat /\ Room \in Nat
  BY PendingFits, PendingFitsNext, RoomSize, ChatConstantsOK
<1>3. Len(calls) + Cardinality(Pending) < MaxCalls + Room
  BY DEF DetectorInv, WindowBounded
<1>4. Len(calls') + Cardinality(Pending') < MaxCalls + Room
  BY <1>1, <1>2, <1>3
<1> QED
  BY <1>4 DEF DetectorInv, WindowBounded, Room

LEMMA StayKeeps ==
  ASSUME ChatInv, DetectorInv, UNCHANGED detectorVars, waiting' \subseteq Chats,
         Cardinality(Pending') <= Cardinality(Pending)
  PROVE  DetectorInv'
<1>1. calls' = calls /\ lastTool' = lastTool
  BY DEF detectorVars
<1>2. calls' \in Seq(Records) /\ Len(calls') <= Len(calls)
  BY <1>1 DEF DetectorInv
<1> QED
  BY <1>1, <1>2, QuietKeeps

LEMMA SamePending ==
  ASSUME chat' = chat
  PROVE  Cardinality(Pending') <= Cardinality(Pending)
<1>1. Pending' = Pending
  BY DEF Pending
<1> QED
  BY <1>1, PendingFits, RoomSize

LEMMA EndPending ==
  ASSUME ChatInv, DetectorInv, NEW c \in Chats, ChatEnds(c)
  PROVE  Cardinality(Pending') <= Cardinality(Pending) /\ waiting' \subseteq Chats
<1>1. Moved(c, ChatIdle) /\ ChatIdle.at # "record"
  BY IdleState DEF ChatEnds, Moved
<1>2. Cardinality(Pending') <= Cardinality(Pending)
  BY <1>1, MovePending DEF ChatInv
<1>3. waiting' \subseteq Chats
  BY DEF ChatEnds, DetectorInv, Chats
<1> QED
  BY <1>2, <1>3

LEMMA BeginDetector ==
  ASSUME ChatInv, DetectorInv, NEW c \in Chats, TurnBegins(c)
  PROVE  DetectorInv'
<1>1. UNCHANGED detectorVars /\ waiting' \subseteq Chats
  BY DEF TurnBegins, AnswerAtOnce, AskModel, RequestTools, DetectorInv
<1>2. Cardinality(Pending') <= Cardinality(Pending)
  <2>1. CASE AnswerAtOnce(c)
    BY <2>1, SamePending DEF AnswerAtOnce
  <2>2. CASE AskModel(c)
    BY <2>2, AtMoves, MovePending DEF AskModel, ChatInv, ChatAts
  <2>3. ASSUME NEW b \in Batches, RequestTools(c, b)
        PROVE  Cardinality(Pending') <= Cardinality(Pending)
    <3>1. Moved(c, [at |-> "check", depth |-> 0, batch |-> b])
      BY <2>3 DEF RequestTools, Moved, ChatState, ChatAts, Calls
    <3> QED
      BY <3>1, MovePending DEF ChatInv
  <2> QED
    BY <2>1, <2>2, <2>3 DEF TurnBegins
<1> QED
  BY <1>1, <1>2, StayKeeps

(* The detector lets a batch through: fewer than MaxCalls calls are in the *)
(* window then.                                                            *)
LEMMA CheckDetector ==
  ASSUME ChatInv, DetectorInv, NEW c \in Chats, CheckLoop(c)
  PROVE  DetectorInv'
<1>1. calls' = Cleanup(calls) /\ lastTool' = lastTool /\ waiting' = waiting
  BY DEF CheckLoop
<1>2. calls' \in Seq(Records) /\ Len(calls') \in Nat /\ Len(calls') <= Len(calls)
  BY <1>1, CleanupFits DEF DetectorInv
<1>3. CASE LoopDetected(calls')
  <2>1. Moved(c, [at |-> "results", depth |-> chat[c].depth, batch |-> chat[c].batch])
    BY <1>3, AtMoves DEF CheckLoop, ChatInv, ChatAts
  <2>2. Cardinality(Pending') <= Cardinality(Pending)
    BY <2>1, MovePending DEF ChatInv
  <2> QED
    BY <1>1, <1>2, <2>2, QuietKeeps DEF DetectorInv
<1>4. CASE ~LoopDetected(calls')
  <2>1. Len(calls') < MaxCalls
    BY <1>2, <1>4, ChatConstantsOK DEF LoopDetected
  <2>2. WindowBounded'
    BY <1>2, <2>1, PendingFitsNext, RoomSize, ChatConstantsOK DEF WindowBounded, Room
  <2> QED
    BY <1>1, <1>2, <2>2 DEF DetectorInv
<1> QED
  BY <1>3, <1>4

LEMMA RecordDetector ==
  ASSUME ChatInv, DetectorInv, NEW c \in Chats, RecordCall(c)
  PROVE  DetectorInv'
<1> DEFINE call == Head(chat[c].batch)
           new == [call |-> call, age |-> 0]
<1>1. chat[c].batch \in Batches
  BY DEF RecordCall, ChatInv, ChatTypes
<1>2. call \in ToolCalls
  <2>1. PICK n \in 1..MaxBatch : chat[c].batch \in [1..n -> ToolCalls]
    BY <1>1 DEF Batches
  <2>2. chat[c].batch \in Seq(ToolCalls) /\ Len(chat[c].batch) = n /\ n >= 1
    BY <2>1, BatchIsSequence, ChatConstantsOK
  <2> QED
    BY <2>2
<1>3. /\ calls' = Append(Cleanup(calls), new) /\ lastTool' = call[1]
      /\ waiting' = waiting
  BY DEF RecordCall
<1>4. new \in Records
  BY <1>2, ChatConstantsOK DEF Records
<1>5. lastTool' \in Tools
  BY <1>2, <1>3 DEF Tools
<1>6. Cleanup(calls) \in Seq(Records) /\ Len(Cleanup(calls)) \in Nat /\ Len(Cleanup(calls)) <= Len(calls)
  BY CleanupFits DEF DetectorInv
<1> HIDE DEF new
<1>7. calls' \in Seq(Records) /\ Len(calls') = Len(Cleanup(calls)) + 1
  BY <1>3, <1>4, <1>6
<1>8. Cardinality(Pending') <= Cardinality(Pending) - 1
  BY RecordPending DEF ChatInv
<1>9. WindowBounded'
  <2>1. Cardinality(Pending) \in Nat /\ Cardinality(Pending') \in Nat /\ MaxCalls \in Nat /\ Room \in Nat
    BY PendingFits, PendingFitsNext, RoomSize, ChatConstantsOK
  <2>2. Len(calls) + Cardinality(Pending) < MaxCalls + Room /\ Len(calls) \in Nat
    BY DEF DetectorInv, WindowBounded
  <2>3. Len(calls') + Cardinality(Pending') < MaxCalls + Room
    BY <1>6, <1>7, <1>8, <2>1, <2>2
  <2> QED
    BY <2>3 DEF WindowBounded, Room
<1> QED
  BY <1>3, <1>5, <1>7, <1>9 DEF DetectorInv

LEMMA GoOnDetector ==
  ASSUME ChatInv, DetectorInv, NEW c \in Chats, TurnGoesOn(c)
  PROVE  DetectorInv'
<1>1. CASE ModelFails(c) \/ \E empty \in BOOLEAN : ModelReplies(c, empty)
  BY <1>1, EndPending, StayKeeps DEF ModelFails, ModelReplies
<1>2. CASE ToolCallsInvalid(c)
  <2>1. chat' = chat /\ waiting' \subseteq Chats /\ UNCHANGED detectorVars
    BY <1>2 DEF ToolCallsInvalid, DetectorInv
  <2> QED
    BY <2>1, SamePending, StayKeeps
<1>3. ASSUME NEW b \in Batches, ModelCallsTools(c, b)
      PROVE  DetectorInv'
  <2>1. Moved(c, [at |-> "check", depth |-> chat[c].depth, batch |-> b])
    BY <1>3, CallsMoves DEF ChatInv
  <2>2. Cardinality(Pending') <= Cardinality(Pending)
    BY <2>1, MovePending DEF ChatInv
  <2> QED
    BY <1>3, <2>2, StayKeeps DEF ModelCallsTools, DetectorInv
<1>4. CASE ToolResults(c)
  <2>1. UNCHANGED detectorVars
    BY <1>4 DEF ToolResults
  <2>2. CASE c \in waiting /\ chat[c].depth >= 2
    BY <1>4, <2>1, <2>2, EndPending, StayKeeps DEF ToolResults
  <2>3. CASE ~(c \in waiting /\ chat[c].depth >= 2)
    <3>1. PICK d \in 0..2 : Moved(c, [at |-> "model", depth |-> d, batch |-> <<>>])
      BY <1>4, <2>3, AgainMoves DEF ChatInv
    <3>2. Cardinality(Pending') <= Cardinality(Pending)
      BY <3>1, MovePending DEF ChatInv
    <3>3. waiting' \subseteq Chats
      BY <1>4, <2>3 DEF ToolResults, DetectorInv
    <3> QED
      BY <2>1, <3>2, <3>3, StayKeeps
  <2> QED
    BY <2>2, <2>3
<1> QED
  BY <1>1, <1>2, <1>3, <1>4, CheckDetector, RecordDetector DEF TurnGoesOn

(* The clock makes no record older than TimeWindow.                        *)
LEMMA ClockDetector ==
  ASSUME ChatInv, DetectorInv, TimePasses
  PROVE  DetectorInv'
<1> DEFINE older(r) == [r EXCEPT !.age = IF @ < TimeWindow THEN @ + 1 ELSE @]
<1>1. ASSUME NEW r \in Records PROVE older(r) \in Records
  BY ChatConstantsOK DEF Records
<1>2. Len(calls) \in Nat /\ DOMAIN calls = 1..Len(calls) /\ \A i \in 1..Len(calls) : calls[i] \in Records
  BY DEF DetectorInv
<1>3. calls' = [i \in 1..Len(calls) |-> older(calls[i])]
  BY <1>2 DEF TimePasses
<1> HIDE DEF older
<1>4. calls' \in [1..Len(calls) -> Records]
  BY <1>1, <1>2, <1>3
<1>5. calls' \in Seq(Records) /\ Len(calls') <= Len(calls)
  BY <1>2, <1>4
<1>6. chat' = chat /\ waiting' = waiting /\ lastTool' = lastTool
  BY DEF TimePasses
<1> QED
  BY <1>5, <1>6, SamePending, QuietKeeps DEF DetectorInv

LEMMA DetectorInit == ChatInit => DetectorInv
<1> SUFFICES ASSUME ChatInit PROVE DetectorInv
  OBVIOUS
<1>1. waiting \subseteq Chats /\ calls \in Seq(Records) /\ lastTool \in Tools
  BY DEF ChatInit, Chats, Tools
<1>2. Pending = {} /\ Len(calls) = 0
  BY DEF ChatInit, Pending, ChatIdle
<1>3. WindowBounded
  BY <1>2, RoomSize, FS_EmptySet, ChatConstantsOK DEF WindowBounded
<1> QED
  BY <1>1, <1>3 DEF DetectorInv

LEMMA DetectorNext == ChatInv /\ DetectorInv /\ [ChatNext]_chatVars => DetectorInv'
<1> SUFFICES ASSUME ChatInv, DetectorInv, [ChatNext]_chatVars PROVE DetectorInv'
  OBVIOUS
<1>1. CASE UNCHANGED chatVars
  BY <1>1, SamePending, StayKeeps DEF chatVars, detectorVars, DetectorInv
<1> QED
  BY <1>1, BeginDetector, GoOnDetector, ClockDetector DEF ChatNext

LEMMA ChatTyped == ChatInv /\ DetectorInv => ChatTypeOK
BY DEF ChatInv, ChatTypes, DetectorInv, ChatTypeOK, ChatState, ChatAts, Calls, Records, Tools

-----------------------------------------------------------------------------
(* However many chats go on after a model or tool step, and however a turn *)
(* is handed over between chatStreamInternal and chatInternal, it is       *)
(* stored at most once.                                                    *)
THEOREM StoredOnce == ChatSpec => []TurnStoredOnce
<1>1. ChatInv => TurnStoredOnce
  BY DEF ChatInv, ChatTypes, StoredAtEnd, TurnStoredOnce
<1> QED
  BY <1>1, Invariance, PTL

(* The detector is checked before a batch and told call by call after it,  *)
(* by chats that share it: what one of them has not yet recorded the       *)
(* others do not see, and that much, no more, goes past the limit.         *)
THEOREM RowLimited == ChatSpec => []RowOfOneToolBounded
<1>1. ASSUME ChatInv PROVE RowOfOneToolBounded
  <2>1. Cardinality(Pending) >= 0 /\ Cardinality(Pending) \in Nat
    BY PendingFits, RoomSize
  <2>2. consecutive \in Nat /\ consecutive + Cardinality(Pending) < SameToolLimit + Room
    BY <1>1 DEF ChatInv, ChatTypes, RowBounded
  <2> QED
    BY <2>1, <2>2, RoomSize, ChatConstantsOK DEF RowOfOneToolBounded
<1> QED
  BY <1>1, Invariance, PTL

(* The window of the detector is a list that every check and every record  *)
(* cleans and scans: it holds MaxCalls calls and one batch of every chat   *)
(* that passed before they were recorded, and never more.                  *)
THEOREM WindowLimited == ChatSpec => [](Len(calls) < MaxCalls + MaxBatch * Cardinality(Chats))
<1>1. ASSUME ChatInv, DetectorInv PROVE Len(calls) < MaxCalls + MaxBatch * Cardinality(Chats)
  <2>1. Cardinality(Pending) \in Nat /\ Len(calls) \in Nat
    BY <1>1, PendingFits, RoomSize DEF DetectorInv
  <2>2. Len(calls) + Cardinality(Pending) < MaxCalls + Room
    BY <1>1 DEF DetectorInv, WindowBounded
  <2> QED
    BY <2>1, <2>2, RoomSize, ChatConstantsOK
<1>2. ChatSpec => []DetectorInv
  BY ChatInitInv, ChatNextInv, DetectorInit, DetectorNext, PTL DEF ChatSpec
<1> QED
  BY <1>1, <1>2, Invariance, PTL

-----------------------------------------------------------------------------
(* The steps of a chat.                                                    *)

Round == MaxBatch + 4

(* The steps a chat that is waited for has left, if every answer of the    *)
(* model asks for as many tools as it can.                                 *)
ChatStepsLeft(s) ==
  IF s.at = "idle" THEN 0
  ELSE (2 - s.depth) * Round + CASE s.at = "model"   -> MaxBatch + 3
                                 [] s.at = "check"   -> MaxBatch + 2
                                 [] s.at = "record"  -> Len(s.batch) + 1
                                 [] s.at = "results" -> 1

LEMMA Rounds ==
  /\ Round \in Nat /\ Round = MaxBatch + 4 /\ MaxBatch \in Nat \ {0}
  /\ 0 * Round = 0 /\ 1 * Round = Round /\ 2 * Round = Round + Round
BY ChatConstantsOK DEF Round

LEMMA StepsAt ==
  ASSUME NEW s \in ChatState, s.at \in {"check", "record"} => s.batch \in Batches
  PROVE  /\ s.at = "idle" => ChatStepsLeft(s) = 0
         /\ s.at = "model" => ChatStepsLeft(s) = (2 - s.depth) * Round + (MaxBatch + 3)
         /\ s.at = "check" => ChatStepsLeft(s) = (2 - s.depth) * Round + (MaxBatch + 2)
         /\ s.at = "record" => /\ Len(s.batch) \in 1..MaxBatch
                               /\ ChatStepsLeft(s) = (2 - s.depth) * Round + (Len(s.batch) + 1)
         /\ s.at = "results" => ChatStepsLeft(s) = (2 - s.depth) * Round + 1
<1>1. s.at = "record" => Len(s.batch) \in 1..MaxBatch
  BY BatchTail
<1> QED
  BY <1>1 DEF ChatStepsLeft

(* The rounds that are left, at a depth.                                   *)
LEMMA RoundsLeft ==
  ASSUME NEW d \in 0..2
  PROVE  /\ (2 - d) * Round \in 0..(Round + Round)
         /\ d # 2 => d + 1 \in 0..2 /\ (2 - d) * Round = (2 - (d + 1)) * Round + Round
<1>1. CASE d = 0
  BY <1>1, Rounds
<1>2. CASE d = 1
  BY <1>2, Rounds
<1>3. CASE d = 2
  BY <1>3, Rounds
<1> QED
  BY <1>1, <1>2, <1>3

LEMMA StepsBounded ==
  ASSUME ChatTypes, NEW c \in Chats, chat[c].at # "idle"
  PROVE  ChatStepsLeft(chat[c]) \in 1..(3 * Round - 1)
<1> DEFINE s == chat[c]
           left == (2 - s.depth) * Round
<1>1. s \in ChatState /\ (s.at \in {"check", "record"} => s.batch \in Batches) /\ s.depth \in 0..2
  BY DEF ChatTypes, ChatState
<1>2. left \in 0..(Round + Round) /\ s.at \in ChatAts
  BY <1>1, RoundsLeft DEF ChatState
<1>3. \/ ChatStepsLeft(s) = left + (MaxBatch + 3)
      \/ ChatStepsLeft(s) = left + (MaxBatch + 2)
      \/ Len(s.batch) \in 1..MaxBatch /\ ChatStepsLeft(s) = left + (Len(s.batch) + 1)
      \/ ChatStepsLeft(s) = left + 1
  BY <1>1, <1>2, StepsAt DEF ChatAts
<1> HIDE DEF s, left
<1> QED
  BY <1>2, <1>3, Rounds DEF s

(* A step of a chat that is waited for takes it on by one.                 *)
LEMMA GoOnAdvances ==
  ASSUME ChatInv, NEW c \in Chats, c \in waiting, chat[c].at # "idle", TurnGoesOn(c), ChatTypes'
  PROVE  ChatStepsLeft(chat'[c]) < ChatStepsLeft(chat[c])
<1> DEFINE s == chat[c]
           left == (2 - s.depth) * Round
<1>1. ChatTypes /\ s \in ChatState /\ s.depth \in 0..2
      /\ (s.at \in {"check", "record"} => s.batch \in Batches)
  BY DEF ChatInv, ChatTypes, ChatState
<1>2. left \in 0..(Round + Round) /\ ChatStepsLeft(s) \in 1..(3 * Round - 1)
  BY <1>1, RoundsLeft, StepsBounded
<1>3. ASSUME NEW e \in ChatState, Moved(c, e)
      PROVE  chat'[c] = e
  BY <1>1, <1>3 DEF ChatTypes, Moved
<1>4. CASE ChatEnds(c)
  <2>1. chat'[c] = ChatIdle
    BY <1>1, <1>4 DEF ChatEnds, ChatTypes
  <2>2. ChatStepsLeft(chat'[c]) = 0
    BY <2>1, IdleState DEF ChatStepsLeft
  <2> QED
    BY <1>2, <2>2
<1>5. ASSUME NEW b \in Batches, ModelCallsTools(c, b)
      PROVE  ChatStepsLeft(chat'[c]) < ChatStepsLeft(s)
  <2> DEFINE e == [at |-> "check", depth |-> s.depth, batch |-> b]
  <2>1. Moved(c, e) /\ s.at = "model"
    BY <1>1, <1>5, CallsMoves DEF ModelCallsTools
  <2>2. e \in ChatState /\ chat'[c] = e /\ e.at = "check" /\ e.batch \in Batches /\ e.depth = s.depth
    BY <1>3, <2>1 DEF Moved
  <2>3. ChatStepsLeft(e) = left + (MaxBatch + 2)
    BY <2>2, StepsAt
  <2>4. ChatStepsLeft(s) = left + (MaxBatch + 3)
    BY <1>1, <2>1, StepsAt
  <2> HIDE DEF e, left
  <2> QED
    BY <1>2, <2>2, <2>3, <2>4, Rounds
<1>6. CASE CheckLoop(c)
  <2> DEFINE to == IF LoopDetected(calls') THEN "results" ELSE "record"
             e == [at |-> to, depth |-> s.depth, batch |-> s.batch]
  <2>1. s.at = "check" /\ to \in ChatAts /\ ChatAt(c, to)
    BY <1>6 DEF CheckLoop, ChatAts
  <2>2. Moved(c, e)
    BY <1>1, <2>1, AtMoves
  <2>3. e \in ChatState /\ chat'[c] = e /\ e.at = to /\ e.batch \in Batches /\ e.depth = s.depth
    BY <1>1, <1>3, <2>1, <2>2 DEF Moved
  <2>4. ChatStepsLeft(s) = left + (MaxBatch + 2)
    BY <1>1, <2>1, StepsAt
  <2>5. to \in {"results", "record"}
    OBVIOUS
  <2> HIDE DEF to
  <2>6. \/ Len(e.batch) \in 1..MaxBatch /\ ChatStepsLeft(e) = left + (Len(e.batch) + 1)
        \/ ChatStepsLeft(e) = left + 1
    BY <2>3, <2>5, StepsAt
  <2> HIDE DEF e, left
  <2> QED
    BY SMTT(30), <1>2, <2>3, <2>4, <2>6, Rounds
<1>7. CASE RecordCall(c)
  <2> DEFINE to == IF Len(s.batch) = 1 THEN "results" ELSE "record"
             e == [at |-> to, depth |-> s.depth, batch |-> Tail(s.batch)]
  <2>1. s.at = "record" /\ s.batch \in Batches /\ Moved(c, e)
    BY <1>1, <1>7, RecordMoves
  <2>2. /\ Len(s.batch) \in 1..MaxBatch
        /\ Len(s.batch) # 1 => Tail(s.batch) \in Batches /\ Len(Tail(s.batch)) = Len(s.batch) - 1
    BY <2>1, BatchTail
  <2>3. e \in ChatState /\ chat'[c] = e /\ e.at = to /\ e.batch = Tail(s.batch) /\ e.depth = s.depth
    BY <1>3, <2>1 DEF Moved
  <2>4. ChatStepsLeft(s) = left + (Len(s.batch) + 1)
    BY <1>1, <2>1, StepsAt
  <2>5. CASE Len(s.batch) = 1
    <3>1. e.at = "results"
      BY <2>3, <2>5
    <3>2. ChatStepsLeft(e) = left + 1
      BY <2>3, <3>1, StepsAt
    <3> HIDE DEF e, left
    <3> QED
      BY <1>2, <2>3, <2>4, <2>5, <3>2
  <2>6. CASE Len(s.batch) # 1
    <3>1. e.at = "record" /\ e.batch \in Batches /\ Len(e.batch) = Len(s.batch) - 1
      BY <2>2, <2>3, <2>6
    <3>2. ChatStepsLeft(e) = left + (Len(e.batch) + 1)
      BY <2>3, <3>1, StepsAt
    <3> HIDE DEF e, left
    <3> QED
      BY <1>2, <2>2, <2>3, <2>4, <3>1, <3>2
  <2> QED
    BY <2>5, <2>6
<1>8. CASE ToolResults(c) /\ s.depth # 2
  <2> DEFINE d == s.depth + 1
             e == [at |-> "model", depth |-> d, batch |-> <<>>]
  <2>1. s.at = "results" /\ chat' = [chat EXCEPT ![c] = e]
    BY <1>1, <1>8 DEF ToolResults, AskAgain
  <2>2. d \in 0..2 /\ left = (2 - d) * Round + Round
    BY <1>1, <1>8, RoundsLeft
  <2>3. e \in ChatState /\ chat'[c] = e /\ e.at = "model" /\ e.depth = d
    BY <1>1, <2>1, <2>2 DEF ChatState, ChatAts, Calls, ChatTypes
  <2>4. ChatStepsLeft(e) = (2 - d) * Round + (MaxBatch + 3)
    BY <2>3, StepsAt
  <2>5. ChatStepsLeft(s) = left + 1
    BY <1>1, <2>1, StepsAt
  <2>6. (2 - d) * Round \in 0..(Round + Round)
    BY <2>2, RoundsLeft
  <2> DEFINE rest == (2 - d) * Round
  <2>7. rest \in Int /\ left = rest + Round /\ ChatStepsLeft(e) = rest + (MaxBatch + 3)
    BY <2>2, <2>4, <2>6, Rounds
  <2> HIDE DEF e, d, left, rest
  <2> QED
    BY <2>3, <2>5, <2>7, Rounds
<1>9. ToolResults(c) /\ s.depth = 2 => ChatEnds(c)
  BY DEF ToolResults
<1> QED
  BY <1>4, <1>5, <1>6, <1>7, <1>8, <1>9
  DEF TurnGoesOn, ModelFails, ModelReplies, ToolCallsInvalid

(* No other chat, and not the clock, moves a chat that is not idle.        *)
LEMMA OthersLeave ==
  ASSUME ChatInv, NEW c \in Chats, c \in waiting, chat[c].at # "idle", [ChatNext]_chatVars, ~TurnGoesOn(c)
  PROVE  chat'[c] = chat[c] /\ c \in waiting'
<1>1. ChatTypes /\ chat \in [Chats -> ChatState]
  BY DEF ChatInv, ChatTypes
<1>2. CASE TimePasses \/ UNCHANGED chatVars
  BY <1>2 DEF TimePasses, chatVars
<1>3. ASSUME NEW o \in Chats, TurnBegins(o)
      PROVE  chat'[c] = chat[c] /\ c \in waiting'
  <2>1. chat[o].at = "idle" /\ waiting' = waiting
    BY <1>3 DEF TurnBegins, AnswerAtOnce, AskModel, RequestTools
  <2>2. o # c
    BY <2>1
  <2> QED
    BY <1>1, <1>3, <2>1, <2>2 DEF TurnBegins, AnswerAtOnce, AskModel, RequestTools, ChatAt
<1>4. ASSUME NEW o \in Chats, TurnGoesOn(o)
      PROVE  chat'[c] = chat[c] /\ c \in waiting'
  <2>1. o # c
    BY <1>4
  <2>2. CASE ChatEnds(o)
    BY <1>1, <2>1, <2>2 DEF ChatEnds
  <2>3. CASE ModelFails(o) \/ (\E empty \in BOOLEAN : ModelReplies(o, empty))
    BY <2>2, <2>3 DEF ModelFails, ModelReplies
  <2>4. CASE ToolCallsInvalid(o)
    BY <2>4 DEF ToolCallsInvalid
  <2>5. CASE ToolResults(o)
    <3>1. CASE o \in waiting /\ chat[o].depth >= 2
      BY <2>2, <2>5, <3>1 DEF ToolResults
    <3>2. CASE ~(o \in waiting /\ chat[o].depth >= 2)
      BY <1>1, <2>1, <2>5, <3>2 DEF ToolResults, AskAgain
    <3> QED
      BY <3>1, <3>2
  <2>6. CASE CheckLoop(o)
    BY <1>1, <2>1, <2>6 DEF CheckLoop, ChatAt
  <2>7. CASE RecordCall(o)
    BY <1>1, <2>1, <2>7 DEF RecordCall
  <2>8. CASE \E b \in Batches : ModelCallsTools(o, b)
    BY <1>1, <2>1, <2>8 DEF ModelCallsTools
  <2> QED
    BY <1>4, <2>3, <2>4, <2>5, <2>6, <2>7, <2>8 DEF TurnGoesOn
<1> QED
  BY <1>2, <1>3, <1>4 DEF ChatNext

(* A request never waits for more than 3 * MaxBatch + 11 steps of its own  *)
(* chat: whatever the model answers, the chats it shares the detector with *)
(* do and the detector refuses, each of its steps brings it nearer to its  *)
(* end and no other step takes it back.                                    *)
THEOREM WaitingChatsAdvance ==
  ChatSpec => [][\A c \in Chats : c \in waiting /\ chat[c].at # "idle" =>
                   /\ ChatStepsLeft(chat[c]) \in 1..(3 * Round - 1)
                   /\ TurnGoesOn(c) => ChatStepsLeft(chat'[c]) < ChatStepsLeft(chat[c])
                   /\ ~TurnGoesOn(c) => chat'[c] = chat[c] /\ c \in waiting']_chatVars
<1>1. ASSUME ChatInv, [ChatNext]_chatVars, NEW c \in Chats, c \in waiting, chat[c].at # "idle"
      PROVE  /\ ChatStepsLeft(chat[c]) \in 1..(3 * Round - 1)
             /\ TurnGoesOn(c) => ChatStepsLeft(chat'[c]) < ChatStepsLeft(chat[c])
             /\ ~TurnGoesOn(c) => chat'[c] = chat[c] /\ c \in waiting'
  <2>1. ChatTypes /\ ChatTypes'
    BY <1>1, ChatNextInv DEF ChatInv
  <2> QED
    BY <1>1, <2>1, StepsBounded, GoOnAdvances, OthersLeave
<1>2. ChatInv /\ [ChatNext]_chatVars =>
        [\A c \in Chats : c \in waiting /\ chat[c].at # "idle" =>
           /\ ChatStepsLeft(chat[c]) \in 1..(3 * Round - 1)
           /\ TurnGoesOn(c) => ChatStepsLeft(chat'[c]) < ChatStepsLeft(chat[c])
           /\ ~TurnGoesOn(c) => chat'[c] = chat[c] /\ c \in waiting']_chatVars
  BY <1>1
<1> QED
  BY <1>2, Invariance, PTL DEF ChatSpec

-----------------------------------------------------------------------------
(* The full-text table of the vector memory.                               *)

Places == {"idle", "insert", "fts", "map", "save", "ftsUpdate", "rebuild", "ftsDelete", "unmap"}

RowTypes ==
  /\ rows \in Seq(Vectors) /\ fts \subseteq Vectors
  /\ storer \in [Storers -> [at : Places, id : 0..MaxMemories]]
  /\ \A c \in Storers : IF storer[c].at = "idle" THEN storer[c] = StorerIdle
                                                 ELSE storer[c].id \in 1..stored
  /\ stored \in 0..MaxMemories

(* Ids are given in order and never twice ...                              *)
OneRowEach ==
  /\ \A i, j \in DOMAIN rows : rows[i][1] = rows[j][1] => i = j
  /\ RowIds \subseteq 1..stored

(* ... so nobody can know a memory before its row is written.              *)
Unwritten ==
  \A c \in Storers : storer[c].at = "insert" =>
     /\ storer[c].id \notin RowIds
     /\ \A d \in Storers : storer[d].id = storer[c].id => d = c

(* A row without an entry has a Store that is to write one ...             *)
Entered ==
  \A id \in RowIds : \/ id \in torn
                     \/ \E v \in fts : v[1] = id
                     \/ \E c \in Storers : storer[c].at = "fts" /\ storer[c].id = id

(* ... an entry without a row a Delete that is to remove it ...            *)
Named ==
  \A v \in fts : \/ v[1] \in RowIds \cup torn
                 \/ \E c \in Storers : storer[c].at = "ftsDelete" /\ storer[c].id = v[1]

(* ... and neither writes an entry, or removes one, that it should not.    *)
Writing ==
  \A c \in Storers :
     /\ storer[c].at \in {"fts", "ftsUpdate"} => storer[c].id \in RowIds \cup torn
     /\ storer[c].at = "ftsDelete" => storer[c].id \notin RowIds

FtsInv == RowTypes /\ OneRowEach /\ Unwritten /\ Entered /\ Named /\ Writing

(* What a new row, a new version of one and the removal of one do to the   *)
(* ids of the table.                                                       *)
LEMMA RowAppended ==
  ASSUME NEW s \in Seq(Vectors), NEW v \in Vectors
  PROVE  /\ Append(s, v) \in Seq(Vectors)
         /\ DOMAIN Append(s, v) = 1..(Len(s) + 1) /\ DOMAIN s = 1..Len(s)
         /\ \A i \in DOMAIN s : Append(s, v)[i] = s[i]
         /\ Append(s, v)[Len(s) + 1] = v
OBVIOUS

LEMMA RowRemoved ==
  ASSUME NEW s \in Seq(Vectors), NEW k \in DOMAIN s
  PROVE  /\ RemoveAt(s, k) \in Seq(Vectors)
         /\ DOMAIN RemoveAt(s, k) = 1..(Len(s) - 1) /\ DOMAIN s = 1..Len(s)
         /\ \A i \in 1..(Len(s) - 1) : RemoveAt(s, k)[i] = IF i < k THEN s[i] ELSE s[i + 1]
<1>1. k \in 1..Len(s) /\ Len(s) \in Nat
  OBVIOUS
<1> DEFINE a == SubSeq(s, 1, k - 1)
           b == SubSeq(s, k + 1, Len(s))
<1>2. a \in Seq(Vectors) /\ Len(a) = k - 1 /\ \A i \in 1..(k - 1) : a[i] = s[i]
  BY <1>1
<1>3. b \in Seq(Vectors) /\ Len(b) = Len(s) - k /\ \A i \in 1..(Len(s) - k) : b[i] = s[k + i]
  BY <1>1
<1> HIDE DEF a, b
<1>4. /\ a \o b \in Seq(Vectors) /\ Len(a \o b) = Len(s) - 1
      /\ \A i \in 1..(Len(s) - 1) : (a \o b)[i] = IF i < k THEN a[i] ELSE b[i - (k - 1)]
  BY SMTT(30), <1>1, <1>2, <1>3
<1>5. \A i \in 1..(Len(s) - 1) : (a \o b)[i] = IF i < k THEN s[i] ELSE s[i + 1]
  <2> SUFFICES ASSUME NEW i \in 1..(Len(s) - 1)
               PROVE  (a \o b)[i] = IF i < k THEN s[i] ELSE s[i + 1]
    OBVIOUS
  <2>1. CASE i < k
    BY <1>1, <1>2, <1>4, <2>1
  <2>2. CASE ~(i < k)
    <3>1. i - (k - 1) \in 1..(Len(s) - k) /\ k + (i - (k - 1)) = i + 1
      BY <1>1, <2>2
    <3> QED
      BY <1>3, <1>4, <2>2, <3>1
  <2> QED
    BY <2>1, <2>2
<1>6. RemoveAt(s, k) = a \o b
  BY DEF RemoveAt, a, b
<1> QED
  BY <1>1, <1>4, <1>5, <1>6

LEMMA StorerTypes ==
  ASSUME RowTypes, NEW c \in Storers
  PROVE  /\ storer[c].at \in Places /\ storer[c].id \in 0..MaxMemories
         /\ storer[c].at # "idle" => storer[c].id \in 1..stored /\ storer[c].id \in Memories
         /\ stored \in Nat /\ MaxMemories \in Nat
BY MemoryConstantsOK DEF RowTypes, Memories, Places

(* One caller goes to its next step with the memory it has, or returns:    *)
(* the types hold.                                                         *)
LEMMA PlaceKept ==
  ASSUME RowTypes, NEW c \in Storers, NEW w \in [at : Places, id : 0..MaxMemories],
         storer' = [storer EXCEPT ![c] = w],
         IF w.at = "idle" THEN w = StorerIdle ELSE w.id \in 1..stored',
         rows' \in Seq(Vectors), fts' \subseteq Vectors, stored' \in stored..MaxMemories
  PROVE  RowTypes' /\ \A d \in Storers : storer'[d] = IF d = c THEN w ELSE storer[d]
<1>1. \A d \in Storers : storer'[d] = IF d = c THEN w ELSE storer[d]
  BY DEF RowTypes
<1>2. storer' \in [Storers -> [at : Places, id : 0..MaxMemories]]
  BY DEF RowTypes
<1>3. ASSUME NEW d \in Storers
      PROVE  IF storer'[d].at = "idle" THEN storer'[d] = StorerIdle ELSE storer'[d].id \in 1..stored'
  BY <1>1, <1>3, MemoryConstantsOK DEF RowTypes
<1> QED
  BY <1>1, <1>2, <1>3, MemoryConstantsOK DEF RowTypes

LEMMA StepPlace ==
  ASSUME RowTypes, NEW c \in Storers, storer[c].at # "idle", NEW p \in Places \ {"idle"},
         Step(c, p), rows' \in Seq(Vectors), fts' \subseteq Vectors, stored' = stored
  PROVE  /\ RowTypes'
         /\ \A d \in Storers : storer'[d] = IF d = c THEN [at |-> p, id |-> storer[c].id] ELSE storer[d]
<1> DEFINE w == [at |-> p, id |-> storer[c].id]
<1>1. storer' = [storer EXCEPT ![c] = w]
  <2>1. storer[c] \in [at : Places, id : 0..MaxMemories] /\ storer' = [storer EXCEPT ![c].at = p]
    BY DEF RowTypes, Step
  <2>2. [storer[c] EXCEPT !.at = p] = w
    BY <2>1
  <2> QED
    BY <2>1, <2>2
<1>2. w \in [at : Places, id : 0..MaxMemories] /\ w.at = p /\ w.id = storer[c].id
  BY StorerTypes
<1> HIDE DEF w
<1>3. /\ RowTypes' /\ \A d \in Storers : storer'[d] = IF d = c THEN w ELSE storer[d]
  <2>1. stored' \in stored..MaxMemories
    BY MemoryConstantsOK DEF RowTypes
  <2> QED
    BY <1>1, <1>2, <2>1, StorerTypes, PlaceKept
<1> QED
  BY <1>3 DEF w

LEMMA ReturnPlace ==
  ASSUME RowTypes, NEW c \in Storers,
         Return(c), rows' \in Seq(Vectors), fts' \subseteq Vectors, stored' = stored
  PROVE  /\ RowTypes'
         /\ \A d \in Storers : storer'[d] = IF d = c THEN StorerIdle ELSE storer[d]
<1>1. StorerIdle \in [at : Places, id : 0..MaxMemories] /\ StorerIdle.at = "idle"
  BY MemoryConstantsOK DEF StorerIdle, Places
<1>2. stored' \in stored..MaxMemories
  BY MemoryConstantsOK DEF RowTypes
<1> QED
  BY <1>1, <1>2, PlaceKept DEF Return

(* A step that touches neither table keeps the invariant when its caller   *)
(* had no entry to write or remove.                                        *)
LEMMA TablesKept ==
  ASSUME FtsInv, NEW c \in Storers, NEW p \in {"idle", "save", "rebuild"},
         storer[c].at \notin {"idle", "fts", "ftsDelete"},
         IF p = "idle" THEN Return(c) ELSE Step(c, p),
         UNCHANGED <<rows, fts, stored, torn>>
  PROVE  FtsInv'
<1>1. rows' \in Seq(Vectors) /\ fts' \subseteq Vectors /\ RowTypes
  BY DEF FtsInv, RowTypes
<1>2. /\ RowTypes'
      /\ \A d \in Storers : d # c => storer'[d] = storer[d]
      /\ storer'[c].at = p /\ storer'[c].id \in {0, storer[c].id}
      /\ p = "idle" => storer'[c].id = 0
      /\ p # "idle" => storer'[c].id = storer[c].id
  <2>1. CASE p = "idle"
    BY <1>1, <2>1, ReturnPlace DEF StorerIdle
  <2>2. CASE p # "idle"
    <3>1. Step(c, p) /\ p \in Places \ {"idle"} /\ stored' = stored
      BY <2>2 DEF Places
    <3>2. storer'[c] = [at |-> p, id |-> storer[c].id]
      BY <1>1, <3>1, StepPlace
    <3>3. storer'[c].at = p /\ storer'[c].id = storer[c].id
      BY <3>2
    <3> QED
      BY <1>1, <2>2, <3>1, <3>3, StepPlace
  <2> QED
    BY <2>1, <2>2
<1>3. RowIds' = RowIds /\ OneRowEach'
  BY DEF FtsInv, OneRowEach, RowIds
<1>4. Unwritten'
  <2> SUFFICES ASSUME NEW d \in Storers, storer'[d].at = "insert"
               PROVE  /\ storer'[d].id \notin RowIds'
                      /\ \A e \in Storers : storer'[e].id = storer'[d].id => e = d
    BY DEF Unwritten
  <2>1. d # c /\ storer'[d] = storer[d] /\ storer[d].id # 0
    BY <1>1, <1>2, StorerTypes
  <2> QED
    BY <1>2, <1>3, <2>1 DEF FtsInv, Unwritten
<1>5. Entered' /\ Named' /\ Writing'
  BY <1>2, <1>3 DEF FtsInv, Entered, Named, Writing
<1> QED
  BY <1>2, <1>3, <1>4, <1>5 DEF FtsInv

LEMMA AddKeepsFts ==
  ASSUME FtsInv, NEW c \in Storers, StoreAdd(c)
  PROVE  FtsInv'
<1> DEFINE w == [at |-> "insert", id |-> stored + 1]
<1>1. /\ storer[c] = StorerIdle /\ stored' = stored + 1 /\ stored < MaxMemories
      /\ storer' = [storer EXCEPT ![c] = w]
      /\ rows' = rows /\ fts' = fts /\ torn' = torn
  BY DEF StoreAdd
<1>2. /\ RowTypes /\ stored \in Nat /\ MaxMemories \in Nat /\ stored' \in stored..MaxMemories
      /\ w \in [at : Places, id : 0..MaxMemories] /\ w.at = "insert" /\ w.id = stored + 1
      /\ w.id \in 1..stored'
  BY <1>1, MemoryConstantsOK DEF FtsInv, RowTypes, Places
<1>3. storer[c].at = "idle" /\ storer[c].id = 0
  BY <1>1 DEF StorerIdle
<1> HIDE DEF w
<1>4. RowTypes' /\ \A d \in Storers : storer'[d] = IF d = c THEN w ELSE storer[d]
  <2>1. rows' \in Seq(Vectors) /\ fts' \subseteq Vectors
    BY <1>1, <1>2 DEF RowTypes
  <2> QED
    BY <1>1, <1>2, <2>1, PlaceKept
<1>5. RowIds' = RowIds /\ RowIds \subseteq 1..stored
  BY <1>1 DEF RowIds, FtsInv, OneRowEach
<1>6. OneRowEach'
  BY <1>1, <1>2, <1>5 DEF FtsInv, OneRowEach
<1>7. Unwritten'
  <2>1. \A d \in Storers : storer[d].id # stored + 1
    BY <1>2, StorerTypes, StorerIdle.id = 0 DEF RowTypes, StorerIdle
  <2> QED
    BY <1>2, <1>4, <1>5, <2>1 DEF FtsInv, Unwritten
<1>8. Entered' /\ Named' /\ Writing'
  BY <1>1, <1>2, <1>3, <1>4, <1>5 DEF FtsInv, Entered, Named, Writing
<1> QED
  BY <1>4, <1>6, <1>7, <1>8 DEF FtsInv

LEMMA InsertKeepsFts ==
  ASSUME FtsInv, NEW c \in Storers, StoreInsert(c)
  PROVE  FtsInv'
<1> DEFINE id == storer[c].id
<1>1. /\ storer[c].at = "insert" /\ Step(c, "fts")
      /\ rows' = Append(rows, <<id, 1>>) /\ fts' = fts /\ stored' = stored /\ torn' = torn
  BY DEF StoreInsert
<1>2. RowTypes /\ id \in 1..stored /\ <<id, 1>> \in Vectors /\ <<id, 1>>[1] = id
  BY <1>1, StorerTypes DEF FtsInv, Vectors
<1>3. /\ rows' \in Seq(Vectors)
      /\ DOMAIN rows' = 1..(Len(rows) + 1) /\ DOMAIN rows = 1..Len(rows) /\ Len(rows) \in Nat
      /\ \A i \in DOMAIN rows : rows'[i] = rows[i]
      /\ rows'[Len(rows) + 1] = <<id, 1>>
  BY <1>1, <1>2, RowAppended DEF RowTypes
<1>4. /\ RowTypes'
      /\ \A d \in Storers : d # c => storer'[d] = storer[d]
      /\ storer'[c].at = "fts" /\ storer'[c].id = id
  <2>1. /\ RowTypes'
        /\ \A d \in Storers : storer'[d] = IF d = c THEN [at |-> "fts", id |-> id] ELSE storer[d]
    <3>1. fts' \subseteq Vectors /\ "fts" \in Places \ {"idle"}
      BY <1>1, <1>2 DEF RowTypes, Places
    <3> QED
      BY <1>1, <1>2, <1>3, <3>1, StepPlace
  <2> QED
    BY <2>1
<1>5. id \notin RowIds /\ \A d \in Storers : storer[d].id = id => d = c
  BY <1>1 DEF FtsInv, Unwritten
<1> HIDE DEF id
<1>6. RowIds' = RowIds \cup {id}
  <2>1. rows'[Len(rows) + 1][1] = id
    BY <1>2, <1>3
  <2> QED
    BY <1>3, <2>1 DEF RowIds
<1>7. OneRowEach'
  <2>1. \A i \in DOMAIN rows : rows[i][1] # id
    BY <1>5 DEF RowIds
  <2>2. rows'[Len(rows) + 1][1] = id
    BY <1>2, <1>3
  <2>3. \A i, j \in DOMAIN rows' : rows'[i][1] = rows'[j][1] => i = j
    BY <1>3, <2>1, <2>2 DEF FtsInv, OneRowEach
  <2> QED
    BY <1>1, <1>2, <1>6, <2>3 DEF FtsInv, OneRowEach
<1>8. Unwritten'
  BY <1>4, <1>5, <1>6 DEF FtsInv, Unwritten
<1>9. Entered' /\ Named' /\ Writing'
  BY <1>1, <1>4, <1>5, <1>6 DEF FtsInv, Entered, Named, Writing
<1> QED
  BY <1>4, <1>7, <1>8, <1>9 DEF FtsInv

LEMMA FtsKeepsFts ==
  ASSUME FtsInv, NEW c \in Storers, StoreFts(c)
  PROVE  FtsInv'
<1> DEFINE id == storer[c].id
<1>1. /\ storer[c].at = "fts" /\ Step(c, "map")
      /\ rows' = rows /\ stored' = stored
      /\ \/ fts' = fts \cup {<<id, 1>>} /\ torn' = torn
         \/ fts' = fts /\ torn' = torn \cup {id}
  BY DEF StoreFts, FtsFails
<1>2. RowTypes /\ id \in 1..stored /\ <<id, 1>> \in Vectors /\ <<id, 1>>[1] = id
  BY <1>1, StorerTypes DEF FtsInv, Vectors
<1>3. /\ RowTypes'
      /\ \A d \in Storers : d # c => storer'[d] = storer[d]
      /\ storer'[c].at = "map" /\ storer'[c].id = id
  <2>1. /\ RowTypes'
        /\ \A d \in Storers : storer'[d] = IF d = c THEN [at |-> "map", id |-> id] ELSE storer[d]
    <3>1. rows' \in Seq(Vectors) /\ fts' \subseteq Vectors /\ "map" \in Places \ {"idle"}
      BY <1>1, <1>2 DEF RowTypes, Places
    <3> QED
      BY <1>1, <1>2, <3>1, StepPlace
  <2> QED
    BY <2>1
<1>4. id \in RowIds \cup torn
  BY <1>1 DEF FtsInv, Writing
<1> HIDE DEF id
<1>5. RowIds' = RowIds /\ OneRowEach'
  BY <1>1 DEF RowIds, FtsInv, OneRowEach
<1>6. Unwritten' /\ Writing'
  BY <1>1, <1>3, <1>5 DEF FtsInv, Unwritten, Writing, id
<1>7. Entered'
  BY <1>1, <1>2, <1>3, <1>5 DEF FtsInv, Entered, id
<1>8. Named'
  BY <1>1, <1>2, <1>3, <1>4, <1>5 DEF FtsInv, Named
<1> QED
  BY <1>3, <1>5, <1>6, <1>7, <1>8 DEF FtsInv

LEMMA UpdateFtsKeepsFts ==
  ASSUME FtsInv, NEW c \in Storers, UpdateFts(c)
  PROVE  FtsInv'
<1> DEFINE id == storer[c].id
<1>1. /\ storer[c].at = "ftsUpdate" /\ Step(c, "rebuild")
      /\ rows' = rows /\ stored' = stored /\ torn' = torn
      /\ fts' = fts \cup {<<id, 2>>} \/ fts' = fts
  BY DEF UpdateFts, FtsFails
<1>2. RowTypes /\ id \in 1..stored /\ <<id, 2>> \in Vectors /\ <<id, 2>>[1] = id
  BY <1>1, StorerTypes DEF FtsInv, Vectors
<1>3. /\ RowTypes'
      /\ \A d \in Storers : d # c => storer'[d] = storer[d]
      /\ storer'[c].at = "rebuild" /\ storer'[c].id = id
  <2>1. /\ RowTypes'
        /\ \A d \in Storers : storer'[d] = IF d = c THEN [at |-> "rebuild", id |-> id] ELSE storer[d]
    <3>1. rows' \in Seq(Vectors) /\ fts' \subseteq Vectors /\ "rebuild" \in Places \ {"idle"}
      BY <1>1, <1>2 DEF RowTypes, Places
    <3> QED
      BY <1>1, <1>2, <3>1, StepPlace
  <2> QED
    BY <2>1
<1>4. id \in RowIds \cup torn
  BY <1>1 DEF FtsInv, Writing
<1> HIDE DEF id
<1>5. RowIds' = RowIds /\ OneRowEach'
  BY <1>1 DEF RowIds, FtsInv, OneRowEach
<1>6. Unwritten' /\ Writing'
  BY <1>1, <1>3, <1>5 DEF FtsInv, Unwritten, Writing, id
<1>7. Entered' /\ Named'
  BY <1>1, <1>2, <1>3, <1>4, <1>5 DEF FtsInv, Entered, Named
<1> QED
  BY <1>3, <1>5, <1>6, <1>7 DEF FtsInv

(* An idle caller begins to update or delete a memory that has a row.      *)
LEMMA ChangePlace ==
  ASSUME RowTypes, OneRowEach, NEW c \in Storers, NEW id \in RowIds,
         NEW p \in {"ftsUpdate", "ftsDelete"},
         storer' = [storer EXCEPT ![c] = [at |-> p, id |-> id]],
         rows' \in Seq(Vectors), fts' \subseteq Vectors, stored' = stored
  PROVE  /\ RowTypes' /\ id \in 1..stored
         /\ \A d \in Storers : d # c => storer'[d] = storer[d]
         /\ storer'[c].at = p /\ storer'[c].id = id
<1> DEFINE w == [at |-> p, id |-> id]
<1>1. /\ id \in 1..stored /\ stored \in 0..MaxMemories /\ stored' \in stored..MaxMemories
      /\ MaxMemories \in Nat
  <2>1. stored \in 0..MaxMemories
    BY DEF RowTypes
  <2>2. id \in 1..stored
    BY DEF OneRowEach
  <2> QED
    BY <2>1, <2>2, MemoryConstantsOK
<1>2. w \in [at : Places, id : 0..MaxMemories] /\ w.at = p /\ w.id = id
  BY <1>1 DEF Places
<1> HIDE DEF w
<1>3. w.at # "idle" /\ w.id \in 1..stored'
  BY <1>1, <1>2
<1>4. storer' = [storer EXCEPT ![c] = w]
  BY DEF w
<1>5. RowTypes' /\ \A d \in Storers : storer'[d] = IF d = c THEN w ELSE storer[d]
  BY <1>1, <1>2, <1>3, <1>4, PlaceKept
<1> QED
  BY <1>1, <1>2, <1>5

LEMMA UpdateRowKeepsFts ==
  ASSUME FtsInv, NEW c \in Storers, NEW id \in Memories, UpdateRow(c, id)
  PROVE  FtsInv'
<1>1. /\ storer[c] = StorerIdle /\ storer' = [storer EXCEPT ![c] = [at |-> "ftsUpdate", id |-> id]]
      /\ fts' = fts /\ stored' = stored /\ torn' = torn
      /\ \E i \in DOMAIN rows : rows[i] = <<id, 1>> /\ rows' = [rows EXCEPT ![i] = <<id, 2>>]
  BY DEF UpdateRow
<1>2. PICK k \in DOMAIN rows : rows[k] = <<id, 1>> /\ rows' = [rows EXCEPT ![k] = <<id, 2>>]
  BY <1>1
<1>3. /\ rows \in Seq(Vectors) /\ RowTypes /\ OneRowEach /\ fts' \subseteq Vectors
      /\ <<id, 2>> \in Vectors /\ <<id, 2>>[1] = id /\ <<id, 1>>[1] = id
  BY <1>1 DEF FtsInv, RowTypes, Vectors
<1>4. /\ rows' \in Seq(Vectors) /\ DOMAIN rows' = DOMAIN rows
      /\ \A i \in DOMAIN rows : rows'[i][1] = rows[i][1]
  BY <1>2, <1>3
<1>5. RowIds' = RowIds /\ id \in RowIds
  BY <1>2, <1>3, <1>4 DEF RowIds
<1>6. /\ RowTypes'
      /\ \A d \in Storers : d # c => storer'[d] = storer[d]
      /\ storer'[c].at = "ftsUpdate" /\ storer'[c].id = id /\ storer[c].at = "idle"
  <2>1. storer[c].at = "idle"
    BY <1>1 DEF StorerIdle
  <2>2. "ftsUpdate" \in {"ftsUpdate", "ftsDelete"}
    OBVIOUS
  <2> QED
    BY <1>1, <1>3, <1>4, <1>5, <2>1, <2>2, ChangePlace
<1>7. OneRowEach'
  BY <1>1, <1>4, <1>5 DEF FtsInv, OneRowEach
<1>8. Unwritten'
  BY <1>5, <1>6 DEF FtsInv, Unwritten
<1>9. Entered' /\ Named' /\ Writing'
  BY <1>1, <1>5, <1>6 DEF FtsInv, Entered, Named, Writing
<1> QED
  BY <1>6, <1>7, <1>8, <1>9 DEF FtsInv

LEMMA DeleteRowKeepsFts ==
  ASSUME FtsInv, NEW c \in Storers, NEW id \in Memories, DeleteRow(c, id)
  PROVE  FtsInv'
<1>1. /\ storer[c] = StorerIdle /\ storer' = [storer EXCEPT ![c] = [at |-> "ftsDelete", id |-> id]]
      /\ fts' = fts /\ stored' = stored
      /\ \E i \in DOMAIN rows : rows[i][1] = id /\ rows' = RemoveAt(rows, i)
      /\ torn' = IF \E d \in Storers : storer[d].id = id /\ storer[d].at \in {"fts", "ftsUpdate"}
                 THEN torn \cup {id} ELSE torn
  BY DEF DeleteRow
<1>2. PICK k \in DOMAIN rows : rows[k][1] = id /\ rows' = RemoveAt(rows, k)
  BY <1>1
<1>3. rows \in Seq(Vectors) /\ RowTypes /\ OneRowEach /\ fts' \subseteq Vectors
  BY <1>1 DEF FtsInv, RowTypes
<1>4. /\ rows' \in Seq(Vectors) /\ DOMAIN rows' = 1..(Len(rows) - 1)
      /\ DOMAIN rows = 1..Len(rows) /\ Len(rows) \in Nat
      /\ \A i \in 1..(Len(rows) - 1) : rows'[i] = IF i < k THEN rows[i] ELSE rows[i + 1]
  BY <1>2, <1>3, RowRemoved
<1> DEFINE at(i) == IF i < k THEN i ELSE i + 1
<1>5. /\ \A i \in DOMAIN rows' : at(i) \in DOMAIN rows /\ at(i) # k /\ rows'[i] = rows[at(i)]
      /\ \A i, j \in DOMAIN rows' : at(i) = at(j) => i = j
      /\ \A j \in DOMAIN rows \ {k} : \E i \in DOMAIN rows' : at(i) = j
  <2>1. \A j \in DOMAIN rows \ {k} :
           LET i == IF j < k THEN j ELSE j - 1 IN i \in DOMAIN rows' /\ at(i) = j
    BY <1>4
  <2> QED
    BY <1>4, <2>1
<1> HIDE DEF at
<1>6. RowIds' = RowIds \ {id} /\ id \in RowIds
  BY <1>2, <1>3, <1>5 DEF RowIds, OneRowEach
<1>7. /\ RowTypes'
      /\ \A d \in Storers : d # c => storer'[d] = storer[d]
      /\ storer'[c].at = "ftsDelete" /\ storer'[c].id = id /\ storer[c].at = "idle"
  <2>1. storer[c].at = "idle"
    BY <1>1 DEF StorerIdle
  <2>2. "ftsDelete" \in {"ftsUpdate", "ftsDelete"}
    OBVIOUS
  <2> QED
    BY <1>1, <1>3, <1>4, <1>6, <2>1, <2>2, ChangePlace
<1>8. OneRowEach'
  <2>1. \A i, j \in DOMAIN rows' : rows'[i][1] = rows'[j][1] => i = j
    BY <1>3, <1>5 DEF OneRowEach
  <2> QED
    BY <1>1, <1>3, <1>6, <2>1 DEF OneRowEach
<1>9. Unwritten'
  BY <1>6, <1>7 DEF FtsInv, Unwritten
<1>10. Entered' /\ Named' /\ Writing'
  <2>1. torn \subseteq torn'
    BY <1>1
  <2>2. Entered'
    BY <1>1, <1>6, <1>7, <2>1 DEF FtsInv, Entered
  <2>3. Named'
    BY <1>1, <1>6, <1>7, <2>1 DEF FtsInv, Named
  <2>4. Writing'
    BY <1>1, <1>6, <1>7, <2>1 DEF FtsInv, Writing
  <2> QED
    BY <2>2, <2>3, <2>4
<1> QED
  BY <1>7, <1>8, <1>9, <1>10 DEF FtsInv

LEMMA DeleteFtsKeepsFts ==
  ASSUME FtsInv, NEW c \in Storers, DeleteFts(c)
  PROVE  FtsInv'
<1> DEFINE id == storer[c].id
<1>1. /\ storer[c].at = "ftsDelete" /\ Step(c, "unmap")
      /\ rows' = rows /\ stored' = stored
      /\ \/ fts' = {v \in fts : v[1] # id} /\ torn' = torn
         \/ fts' = fts /\ torn' = torn \cup {id}
  BY DEF DeleteFts, FtsFails
<1>2. /\ RowTypes'
      /\ \A d \in Storers : d # c => storer'[d] = storer[d]
      /\ storer'[c].at = "unmap" /\ storer'[c].id = id
  <2>1. /\ RowTypes'
        /\ \A d \in Storers : storer'[d] = IF d = c THEN [at |-> "unmap", id |-> id] ELSE storer[d]
    <3>1. /\ RowTypes /\ rows' \in Seq(Vectors) /\ fts' \subseteq Vectors
          /\ "unmap" \in Places \ {"idle"}
      BY <1>1 DEF FtsInv, RowTypes, Places
    <3> QED
      BY <1>1, <3>1, StepPlace
  <2> QED
    BY <2>1
<1>3. id \notin RowIds
  BY <1>1 DEF FtsInv, Writing
<1> HIDE DEF id
<1>4. RowIds' = RowIds /\ OneRowEach'
  BY <1>1 DEF RowIds, FtsInv, OneRowEach
<1>5. Unwritten' /\ Writing'
  BY <1>1, <1>2, <1>4 DEF FtsInv, Unwritten, Writing, id
<1>6. Entered' /\ Named'
  BY <1>1, <1>2, <1>3, <1>4 DEF FtsInv, Entered, Named, id
<1> QED
  BY <1>2, <1>4, <1>5, <1>6 DEF FtsInv

(* A restart begins with nobody at work; what it cut short is torn, and    *)
(* what it could not enter in an empty table.                              *)
LEMMA ReopenKeepsFts ==
  ASSUME FtsInv, NEW file, Reopen(file)
  PROVE  FtsInv'
<1>0. PICK lost \in SUBSET RowIds :
        /\ fts' = IF fts = {} THEN {rows[i] : i \in {j \in DOMAIN rows : rows[j][1] \notin lost}} ELSE fts
        /\ torn' = torn \cup lost \cup {storer[c].id : c \in Storing}
  BY DEF Reopen, RefillFts
<1>1. /\ rows' = rows /\ stored' = stored /\ storer' = [c \in Storers |-> StorerIdle]
  BY DEF Reopen
<1>2. /\ StorerIdle \in [at : Places, id : 0..MaxMemories] /\ StorerIdle.at = "idle"
  BY MemoryConstantsOK DEF StorerIdle, Places
<1>3. fts' \subseteq Vectors
  <2>1. {rows[i] : i \in {j \in DOMAIN rows : rows[j][1] \notin lost}} \subseteq Vectors
    BY DEF FtsInv, RowTypes
  <2> QED
    BY <1>0, <2>1 DEF FtsInv, RowTypes
<1>4. RowTypes' /\ \A c \in Storers : storer'[c].at = "idle"
  BY <1>1, <1>2, <1>3 DEF FtsInv, RowTypes
<1>5. RowIds' = RowIds /\ OneRowEach'
  BY <1>1 DEF RowIds, FtsInv, OneRowEach
<1>6. \A c \in Storers : storer[c].at # "idle" => storer[c].id \in torn'
  BY <1>0 DEF Storing, StorerIdle
<1>7. Entered'
  <2> SUFFICES ASSUME NEW id \in RowIds
               PROVE  id \in torn' \/ \E v \in fts' : v[1] = id
    BY <1>5 DEF Entered
  <2>1. CASE fts = {}
    BY <1>0, <2>1 DEF RowIds
  <2>2. CASE fts # {}
    BY <1>0, <1>6, <2>2 DEF FtsInv, Entered
  <2> QED
    BY <2>1, <2>2
<1>8. Named'
  <2> SUFFICES ASSUME NEW v \in fts'
               PROVE  v[1] \in RowIds \cup torn'
    BY <1>5 DEF Named
  <2>1. CASE fts = {}
    BY <1>0, <2>1 DEF RowIds
  <2>2. CASE fts # {}
    BY <1>0, <1>6, <2>2 DEF FtsInv, Named
  <2> QED
    BY <2>1, <2>2
<1>9. Unwritten' /\ Writing'
  BY <1>4 DEF Unwritten, Writing
<1> QED
  BY <1>4, <1>5, <1>7, <1>8, <1>9 DEF FtsInv

LEMMA FtsInit == MemoryInit => FtsInv
<1> SUFFICES ASSUME MemoryInit PROVE FtsInv
  OBVIOUS
<1>1. RowTypes /\ \A c \in Storers : storer[c].at = "idle"
  BY MemoryConstantsOK DEF MemoryInit, RowTypes, StorerIdle, Places
<1>2. RowIds = {} /\ rows = <<>> /\ fts = {}
  BY DEF MemoryInit, RowIds
<1> QED
  BY <1>1, <1>2 DEF FtsInv, OneRowEach, Unwritten, Entered, Named, Writing

LEMMA FtsNext == FtsInv /\ [MemoryNext]_memVars => FtsInv'
<1> SUFFICES ASSUME FtsInv, [MemoryNext]_memVars PROVE FtsInv'
  OBVIOUS
<1>1. ASSUME NEW c \in Storers, StoreFails(c) \/ SaveIndex(c) \/ UpdateEnds(c) \/ DeleteUnmap(c)
      PROVE  FtsInv'
  <2>1. /\ storer[c].at \in {"insert", "save", "rebuild", "unmap"} /\ Return(c)
        /\ UNCHANGED <<rows, fts, stored, torn>>
    BY <1>1 DEF StoreFails, SaveIndex, UpdateEnds, DeleteUnmap
  <2> QED
    BY <2>1, TablesKept
<1>2. ASSUME NEW c \in Storers, StoreMap(c)
      PROVE  FtsInv'
  <2>1. storer[c].at = "map" /\ Step(c, "save") /\ UNCHANGED <<rows, fts, stored, torn>>
    BY <1>2 DEF StoreMap
  <2> QED
    BY <2>1, TablesKept
<1>3. ASSUME NEW c \in Storers, StorerNext(c)
      PROVE  FtsInv'
  BY <1>1, <1>2, <1>3, AddKeepsFts, InsertKeepsFts, FtsKeepsFts, UpdateFtsKeepsFts,
     UpdateRowKeepsFts, DeleteRowKeepsFts, DeleteFtsKeepsFts DEF StorerNext
<1>4. CASE (\E g \in Rebuilders : NewIndex(g) \/ LoadVectors(g) \/ SwapIndex(g) \/ RebuildFails(g))
           \/ UNCHANGED memVars
  <2>1. UNCHANGED <<rows, fts, storer, stored, torn>>
    BY <1>4 DEF NewIndex, LoadVectors, SwapIndex, RebuildFails, memVars
  <2>2. RowIds' = RowIds
    BY <2>1 DEF RowIds
  <2> QED
    BY <2>1, <2>2 DEF FtsInv, RowTypes, OneRowEach, Unwritten, Entered, Named, Writing
<1> QED
  BY <1>3, <1>4, ReopenKeepsFts DEF MemoryNext

LEMMA FtsInvariance == MemorySpec => []FtsInv
BY FtsInit, FtsNext, PTL DEF MemorySpec

(* The row and the full-text entry of a memory are written and removed by  *)
(* separate steps of any number of callers, any of which the full-text     *)
(* table may fail without a word, and a rebuild can name a memory that is  *)
(* half stored: still no row is without an entry, and no entry without a   *)
(* row, but those of a memory whose own statement failed, or where a       *)
(* deletion or a restart came in between.                                  *)
THEOREM TablesAgree == MemorySpec => []FtsNamesRows
<1>1. FtsInv => FtsNamesRows
  <2> SUFFICES ASSUME FtsInv, Storing = {}
               PROVE  FtsNamesRows
    BY DEF FtsNamesRows
  <2>1. \A c \in Storers : storer[c].at = "idle"
    BY DEF Storing, StorerIdle
  <2> QED
    BY <2>1 DEF FtsInv, Entered, Named, FtsNamesRows
<1> QED
  BY <1>1, FtsInvariance, PTL

-----------------------------------------------------------------------------
(* The labels of the index and the positions of hnswIDs.                   *)

(* A Store that nothing disturbs has brought the index one vector ahead of *)
(* the rows, or the ids one behind.                                        *)
Underway(c) ==
  \/ /\ storer[c].at = "insert"
     /\ index = Append(rows, <<storer[c].id, 1>>) /\ hnswIDs = Ids(rows)
  \/ /\ storer[c].at \in {"fts", "map"}
     /\ index = rows /\ Append(hnswIDs, storer[c].id) = Ids(rows)
  \/ storer[c].at = "save" /\ index = rows /\ hnswIDs = Ids(rows)

FileIsIndex == indexFile = index \/ indexFile = NoFile

LabelInv ==
  /\ disturbed \in BOOLEAN
  /\ ~disturbed =>
     /\ \A g \in Rebuilders : rebuild[g] = RebuildIdle
     /\ \A c, d \in Storing : c = d
     /\ \A c \in Storing : Underway(c)
     /\ Storing = {} => index = rows /\ hnswIDs = Ids(rows) /\ FileIsIndex

LEMMA IdAppended ==
  ASSUME NEW s \in Seq(Vectors), NEW v \in Vectors
  PROVE  Append(Ids(s), v[1]) = Ids(Append(s, v))
<1>1. v[1] \in Memories /\ \A i \in DOMAIN s : s[i][1] \in Memories
  BY DEF Vectors
<1>2. Len(s) \in Nat /\ DOMAIN s = 1..Len(s)
  OBVIOUS
<1>3. Ids(s) \in Seq(Memories) /\ Len(Ids(s)) = Len(s) /\ \A i \in 1..Len(s) : Ids(s)[i] = s[i][1]
  BY <1>1, <1>2 DEF Ids
<1> DEFINE t == Append(s, v)
<1>4. /\ t \in Seq(Vectors) /\ DOMAIN t = 1..(Len(s) + 1)
      /\ \A i \in 1..Len(s) : t[i] = s[i]
      /\ t[Len(s) + 1] = v
  BY <1>2, RowAppended
<1> HIDE DEF t
<1>5. Ids(t) = [i \in 1..(Len(s) + 1) |-> t[i][1]]
  BY <1>4 DEF Ids
<1>6. Append(Ids(s), v[1]) = [i \in 1..(Len(s) + 1) |-> IF i = Len(s) + 1 THEN v[1] ELSE Ids(s)[i]]
  BY <1>1, <1>2, <1>3
<1>7. \A i \in 1..(Len(s) + 1) : t[i][1] = IF i = Len(s) + 1 THEN v[1] ELSE Ids(s)[i]
  BY <1>2, <1>3, <1>4
<1> QED
  BY <1>5, <1>6, <1>7 DEF t

LEMMA AddKeepsLabels ==
  ASSUME FtsInv, LabelInv, NEW c \in Storers, StoreAdd(c)
  PROVE  LabelInv'
<1> DEFINE w == [at |-> "insert", id |-> stored + 1]
<1>1. /\ storer[c] = StorerIdle /\ storer' = [storer EXCEPT ![c] = w]
      /\ index' = Append(index, <<stored + 1, 1>>) /\ disturbed' = (disturbed \/ Storing # {})
      /\ rows' = rows /\ hnswIDs' = hnswIDs /\ indexFile' = indexFile /\ rebuild' = rebuild
  BY DEF StoreAdd
<1>2. disturbed' \in BOOLEAN
  BY <1>1, Zenon
<1>3. ASSUME ~disturbed'
      PROVE  /\ \A g \in Rebuilders : rebuild'[g] = RebuildIdle
             /\ \A e, d \in Storing' : e = d
             /\ \A d \in Storing' : Underway(d)'
             /\ Storing' # {}
  <2>1. ~disturbed /\ Storing = {}
    BY <1>1, <1>3 DEF LabelInv
  <2>2. index = rows /\ hnswIDs = Ids(rows) /\ \A g \in Rebuilders : rebuild[g] = RebuildIdle
    BY <2>1 DEF LabelInv
  <2>3. w.at = "insert" /\ w.id = stored + 1 /\ w # StorerIdle
    BY DEF StorerIdle
  <2> HIDE DEF w
  <2>4. \A d \in Storers : storer'[d] = IF d = c THEN w ELSE storer[d]
    BY <1>1 DEF FtsInv, RowTypes
  <2>5. Storing' = {c}
    BY <2>1, <2>3, <2>4 DEF Storing
  <2>6. Underway(c)'
    BY <1>1, <2>2, <2>3, <2>4 DEF Underway, Ids
  <2> QED
    BY <1>1, <2>2, <2>5, <2>6
<1> QED
  BY <1>2, <1>3 DEF LabelInv

(* An undisturbed Store is the only one at work, and goes from one state   *)
(* of the index to the next.                                               *)
LEMMA GoOnKeepsLabels ==
  ASSUME FtsInv, LabelInv, NEW c \in Storers,
         StoreInsert(c) \/ StoreFts(c) \/ StoreMap(c)
  PROVE  LabelInv'
<1> DEFINE id == storer[c].id
           p == IF storer[c].at = "insert" THEN "fts" ELSE IF storer[c].at = "fts" THEN "map" ELSE "save"
<1>1. /\ storer[c].at \in {"insert", "fts", "map"} /\ Step(c, p)
      /\ rows' = IF storer[c].at = "insert" THEN Append(rows, <<id, 1>>) ELSE rows
      /\ hnswIDs' = IF storer[c].at = "map" THEN Append(hnswIDs, id) ELSE hnswIDs
      /\ UNCHANGED <<index, indexFile, rebuild, stored, disturbed>>
  BY DEF StoreInsert, StoreFts, StoreMap
<1>2. /\ RowTypes /\ id \in Memories /\ rows \in Seq(Vectors) /\ <<id, 1>> \in Vectors
      /\ <<id, 1>>[1] = id
  BY <1>1, StorerTypes DEF FtsInv, RowTypes, Vectors
<1>3. /\ \A d \in Storers : d # c => storer'[d] = storer[d]
      /\ storer'[c].at = p /\ storer'[c].id = id
  <2>1. storer' = [storer EXCEPT ![c].at = p] /\ storer[c] \in [at : Places, id : 0..MaxMemories]
    BY <1>1, <1>2 DEF Step, RowTypes
  <2>2. storer'[c] = [storer[c] EXCEPT !.at = p] /\ \A d \in Storers : d # c => storer'[d] = storer[d]
    BY <1>2, <2>1 DEF RowTypes
  <2> QED
    BY <2>1, <2>2
<1>4. storer[c] # StorerIdle /\ storer'[c] # StorerIdle
  BY <1>1, <1>3 DEF StorerIdle
<1>5. Storing' = Storing /\ c \in Storing
  BY <1>3, <1>4 DEF Storing
<1>6. ASSUME ~disturbed PROVE Underway(c)'
  <2>1. Underway(c)
    BY <1>5, <1>6 DEF LabelInv
  <2>2. CASE storer[c].at = "insert"
    <3>1. index = Append(rows, <<id, 1>>) /\ hnswIDs = Ids(rows)
      BY <2>1, <2>2 DEF Underway
    <3>2. index' = rows' /\ hnswIDs' = Ids(rows)
      BY <1>1, <2>2, <3>1
    <3>3. Append(Ids(rows), id) = Ids(Append(rows, <<id, 1>>))
      BY <1>2, IdAppended
    <3>4. Append(hnswIDs', storer'[c].id) = Ids(rows')
      BY <1>1, <1>3, <2>2, <3>2, <3>3
    <3> QED
      BY <1>3, <2>2, <3>2, <3>4 DEF Underway, Ids
  <2>3. CASE storer[c].at = "fts"
    <3>1. index = rows /\ Append(hnswIDs, id) = Ids(rows)
      BY <2>1, <2>3 DEF Underway
    <3> QED
      BY <1>1, <1>3, <2>3, <3>1 DEF Underway, Ids
  <2>4. CASE storer[c].at = "map"
    <3>1. index = rows /\ Append(hnswIDs, id) = Ids(rows)
      BY <2>1, <2>4 DEF Underway
    <3> QED
      BY <1>1, <1>3, <2>4, <3>1 DEF Underway, Ids
  <2> QED
    BY <1>1, <2>2, <2>3, <2>4
<1> HIDE DEF p, id
<1>7. ~disturbed => \A d, e \in Storing : d = e
  BY DEF LabelInv
<1> QED
  BY <1>1, <1>5, <1>6, <1>7 DEF LabelInv

LEMMA SaveKeepsLabels ==
  ASSUME FtsInv, LabelInv, NEW c \in Storers, SaveIndex(c)
  PROVE  LabelInv'
<1>0. CASE disturbed' = TRUE
  BY <1>0 DEF LabelInv
<1>1. CASE indexFile' = index /\ disturbed' = disturbed
  <2>1. /\ storer[c].at = "save" /\ storer' = [storer EXCEPT ![c] = StorerIdle] /\ indexFile' = index
        /\ UNCHANGED <<rows, hnswIDs, index, rebuild, disturbed>>
    BY <1>1 DEF SaveIndex, Return
  <2>2. \A d \in Storers : storer'[d] = IF d = c THEN StorerIdle ELSE storer[d]
    BY <2>1 DEF FtsInv, RowTypes
  <2>3. c \in Storing /\ Storing' = Storing \ {c}
    BY <2>1, <2>2 DEF Storing, StorerIdle
  <2>4. ASSUME ~disturbed
        PROVE  Storing' = {} /\ index = rows /\ hnswIDs = Ids(rows)
    BY <2>1, <2>3, <2>4 DEF LabelInv, Underway
  <2>5. ASSUME ~disturbed
        PROVE  index' = rows' /\ hnswIDs' = Ids(rows)' /\ FileIsIndex'
    <3>1. Ids(rows)' = Ids(rows)
      BY <2>1 DEF Ids
    <3>2. FileIsIndex'
      BY <2>1 DEF FileIsIndex
    <3> QED
      BY <2>1, <2>4, <2>5, <3>1, <3>2
  <2> QED
    BY <2>1, <2>4, <2>5 DEF LabelInv
<1> QED
  BY <1>0, <1>1 DEF SaveIndex

(* A Close or a crash between two stores reads the file it has saved.      *)
LEMMA ReopenKeepsLabels ==
  ASSUME FtsInv, LabelInv, NEW file, Reopen(file)
  PROVE  LabelInv'
<1>1. /\ file = indexFile \/ file = index
      /\ index' = IF file # NoFile THEN file ELSE rows
      /\ hnswIDs' = Ids(rows) /\ rows' = rows
      /\ indexFile' \in {file, IF rows = <<>> THEN file ELSE index'}
      /\ storer' = [c \in Storers |-> StorerIdle]
      /\ rebuild' = [g \in Rebuilders |-> RebuildIdle]
      /\ disturbed' = (disturbed \/ Storing # {})
  BY DEF Reopen
<1>2. disturbed' \in BOOLEAN
  BY <1>1, Zenon
<1>3. Storing' = {} /\ \A g \in Rebuilders : rebuild'[g] = RebuildIdle
  BY <1>1 DEF Storing
<1>4. ASSUME ~disturbed'
      PROVE  index' = rows' /\ hnswIDs' = Ids(rows)' /\ FileIsIndex'
  <2>1. index = rows /\ FileIsIndex
    BY <1>1, <1>4 DEF LabelInv
  <2>2. rows # NoFile
    BY MemoryConstantsOK DEF FtsInv, RowTypes
  <2>3. index' = rows
    BY <1>1, <2>1, <2>2 DEF FileIsIndex
  <2>4. FileIsIndex'
    BY <1>1, <2>1, <2>3 DEF FileIsIndex
  <2> QED
    BY <1>1, <2>3, <2>4 DEF Ids
<1> QED
  BY <1>2, <1>3, <1>4 DEF LabelInv

LEMMA LabelInvariance == MemorySpec => []LabelInv
<1>1. ASSUME MemoryInit PROVE LabelInv
  <2>1. \A c \in Storers : storer[c] = StorerIdle
    BY <1>1 DEF MemoryInit
  <2>2. index = rows /\ hnswIDs = Ids(rows)
    BY <1>1 DEF MemoryInit, Ids
  <2> QED
    BY <1>1, <2>1, <2>2 DEF MemoryInit, LabelInv, Storing, FileIsIndex
<1>2. ASSUME FtsInv, LabelInv, [MemoryNext]_memVars PROVE LabelInv'
  <2>1. ASSUME NEW c \in Storers, StorerNext(c)
        PROVE  LabelInv'
    <3>1. CASE \/ StoreFails(c) \/ \E id \in Memories : UpdateRow(c, id) \/ DeleteRow(c, id)
      <4>1. disturbed' = TRUE
        BY <3>1 DEF StoreFails, UpdateRow, DeleteRow
      <4> QED
        BY <4>1 DEF LabelInv
    <3>2. CASE UpdateFts(c) \/ UpdateEnds(c) \/ DeleteFts(c) \/ DeleteUnmap(c)
      <4>1. storer[c].at \in {"ftsUpdate", "rebuild", "ftsDelete", "unmap"} /\ disturbed' = disturbed
        BY <3>2 DEF UpdateFts, UpdateEnds, DeleteFts, DeleteUnmap
      <4>2. c \in Storing /\ ~Underway(c)
        BY <4>1 DEF Storing, StorerIdle, Underway
      <4> QED
        BY <1>2, <4>1, <4>2 DEF LabelInv
    <3> QED
      BY <1>2, <2>1, <3>1, <3>2, AddKeepsLabels, GoOnKeepsLabels, SaveKeepsLabels DEF StorerNext
  <2>2. CASE \E g \in Rebuilders : NewIndex(g) \/ LoadVectors(g) \/ SwapIndex(g) \/ RebuildFails(g)
    <3>1. PICK g \in Rebuilders : NewIndex(g) \/ LoadVectors(g) \/ SwapIndex(g) \/ RebuildFails(g)
      BY <2>2
    <3>2. rebuild[g].at # "idle" /\ disturbed' = disturbed
      BY <3>1 DEF NewIndex, LoadVectors, SwapIndex, RebuildFails
    <3>3. rebuild[g] # RebuildIdle
      BY <3>2 DEF RebuildIdle
    <3> QED
      BY <1>2, <3>2, <3>3 DEF LabelInv
  <2>3. CASE UNCHANGED memVars
    BY <1>2, <2>3 DEF memVars, LabelInv, Storing, Underway, Ids, FileIsIndex
  <2> QED
    BY <1>2, <2>1, <2>2, <2>3, ReopenKeepsLabels DEF MemoryNext
<1> QED
  BY <1>1, <1>2, FtsInvariance, PTL DEF MemorySpec

(* As long as memories are stored one at a time, and over any number of    *)
(* restarts and crashes between them, the label that the index gives a     *)
(* vector is the position of its memory in hnswIDs, whatever the file had. *)
THEOREM LabelsNameMemories == MemorySpec => []LabelsMatchUndisturbed
<1>1. FtsInv /\ LabelInv => LabelsMatchUndisturbed
  <2> SUFFICES ASSUME FtsInv, LabelInv, ~disturbed, Quiet
               PROVE  LabelsMatch
    BY DEF LabelInv, LabelsMatchUndisturbed, LabelsMatch
  <2>1. index = rows /\ hnswIDs = Ids(rows)
    BY DEF LabelInv, Quiet
  <2>2. DOMAIN hnswIDs = DOMAIN rows /\ \A i \in DOMAIN rows : hnswIDs[i] = rows[i][1]
    BY <2>1 DEF Ids
  <2> QED
    BY <2>1, <2>2 DEF LabelsMatch
<1> QED
  BY <1>1, FtsInvariance, LabelInvariance, PTL

-----------------------------------------------------------------------------
(* The types of the vector memory.                                         *)

RebuildState ==
  [at : {"idle", "new", "load", "swap"}, idx : Seq(Vectors), ids : Seq(Memories), for : SUBSET Storers]

IndexTypes ==
  /\ index \in Seq(Vectors) /\ hnswIDs \in Seq(Memories)
  /\ indexFile = NoFile \/ indexFile \in Seq(Vectors)
  /\ deletedCount \in Nat
  /\ rebuild \in [Rebuilders -> RebuildState]
  /\ disturbed \in BOOLEAN /\ torn \subseteq Memories

LEMMA IdsTyped ==
  ASSUME NEW s \in Seq(Vectors)
  PROVE  Ids(s) \in Seq(Memories)
<1>1. Len(s) \in Nat /\ DOMAIN s = 1..Len(s) /\ \A i \in 1..Len(s) : s[i] \in Vectors
  OBVIOUS
<1>2. \A v \in Vectors : v[1] \in Memories
  BY DEF Vectors
<1>3. Ids(s) = [i \in 1..Len(s) |-> s[i][1]]
  BY <1>1 DEF Ids
<1>4. Ids(s) \in [1..Len(s) -> Memories]
  BY <1>1, <1>2, <1>3
<1> QED
  BY <1>1, <1>4

(* A rebuild in any of its steps.                                          *)
LEMMA RebuildFields ==
  ASSUME NEW x \in RebuildState
  PROVE  /\ \A at \in {"idle", "new", "load", "swap"}, w \in SUBSET Storers :
              [x EXCEPT !.at = at, !.for = w] \in RebuildState
         /\ \A at \in {"idle", "new", "load", "swap"}, idx \in Seq(Vectors) :
              [x EXCEPT !.at = at, !.idx = idx] \in RebuildState
         /\ \A at \in {"idle", "new", "load", "swap"}, idx \in Seq(Vectors), ids \in Seq(Memories) :
              [x EXCEPT !.at = at, !.idx = idx, !.ids = ids] \in RebuildState
BY DEF RebuildState

LEMMA StartRebuildTyped ==
  ASSUME IndexTypes, NEW w \in SUBSET Storers, StartRebuild(w)
  PROVE  rebuild' \in [Rebuilders -> RebuildState]
<1>1. PICK g \in Rebuilders : rebuild' = [rebuild EXCEPT ![g] = [rebuild[g] EXCEPT !.at = "new", !.for = w]]
  BY DEF StartRebuild
<1>2. rebuild[g] \in RebuildState
  BY DEF IndexTypes
<1>3. [rebuild[g] EXCEPT !.at = "new", !.for = w] \in RebuildState
  BY <1>2, RebuildFields
<1> QED
  BY <1>1, <1>3 DEF IndexTypes

(* What a Store, an Update and a Delete do to the index and the ids.       *)
LEMMA StorerIndexTypes ==
  ASSUME FtsInv, IndexTypes, NEW c \in Storers, StorerNext(c)
  PROVE  IndexTypes'
<1>1. /\ RowTypes /\ stored \in Nat /\ MaxMemories \in Nat
      /\ storer[c].at # "idle" => storer[c].id \in Memories
  BY StorerTypes DEF FtsInv
<1>2. CASE StoreAdd(c)
  <2>1. /\ index' = Append(index, <<stored + 1, 1>>) /\ stored < MaxMemories
        /\ disturbed' = (disturbed \/ Storing # {})
        /\ UNCHANGED <<hnswIDs, indexFile, deletedCount, rebuild, torn>>
    BY <1>2 DEF StoreAdd
  <2>2. <<stored + 1, 1>> \in Vectors
    BY <1>1, <2>1 DEF Vectors, Memories
  <2>3. index' \in Seq(Vectors)
    BY <2>1, <2>2 DEF IndexTypes
  <2>4. disturbed' \in BOOLEAN
    BY <2>1, Zenon
  <2> QED
    BY <2>1, <2>3, <2>4 DEF IndexTypes
<1>3. CASE StoreInsert(c) \/ StoreFts(c) \/ UpdateEnds(c) \/ DeleteFts(c)
  <2>1. /\ UNCHANGED <<index, hnswIDs, indexFile, deletedCount, rebuild, disturbed>>
        /\ torn' = torn \/ (storer[c].at # "idle" /\ torn' = torn \cup {storer[c].id})
    BY <1>3 DEF StoreInsert, StoreFts, UpdateEnds, DeleteFts, FtsFails
  <2> QED
    BY <1>1, <2>1 DEF IndexTypes
<1>4. CASE StoreFails(c) \/ UpdateFts(c)
  <2>1. /\ UNCHANGED <<index, hnswIDs, indexFile, deletedCount, torn>>
        /\ \E w \in SUBSET Storers : StartRebuild(w)
        /\ disturbed' \in {disturbed, TRUE}
    BY <1>4 DEF StoreFails, UpdateFts, FtsFails
  <2>2. rebuild' \in [Rebuilders -> RebuildState]
    BY <2>1, StartRebuildTyped
  <2> QED
    BY <2>1, <2>2 DEF IndexTypes
<1>5. CASE StoreMap(c)
  <2>1. /\ hnswIDs' = Append(hnswIDs, storer[c].id) /\ storer[c].at = "map"
        /\ UNCHANGED <<index, indexFile, deletedCount, rebuild, disturbed, torn>>
    BY <1>5 DEF StoreMap
  <2>2. hnswIDs' \in Seq(Memories)
    BY <1>1, <2>1 DEF IndexTypes
  <2> QED
    BY <2>1, <2>2 DEF IndexTypes
<1>6. CASE SaveIndex(c)
  BY <1>6 DEF SaveIndex, IndexTypes
<1>7. ASSUME NEW id \in Memories, UpdateRow(c, id) \/ DeleteRow(c, id)
      PROVE  IndexTypes'
  <2>1. /\ UNCHANGED <<index, hnswIDs, indexFile, deletedCount, rebuild>>
        /\ disturbed' = TRUE /\ torn' \in {torn, torn \cup {id}}
    BY <1>7 DEF UpdateRow, DeleteRow
  <2> QED
    BY <1>7, <2>1 DEF IndexTypes
<1>8. CASE DeleteUnmap(c)
  <2> DEFINE keep == {l \in DOMAIN hnswIDs : hnswIDs[l] # storer[c].id}
  <2>1. /\ hnswIDs' = Kept(hnswIDs, keep) /\ deletedCount' \in {deletedCount, deletedCount + 1}
        /\ StartRebuild({}) \/ UNCHANGED rebuild
        /\ UNCHANGED <<index, indexFile, disturbed, torn>>
    BY <1>8 DEF DeleteUnmap
  <2>2. hnswIDs \in Seq(Memories) /\ keep \subseteq DOMAIN hnswIDs
    BY DEF IndexTypes
  <2> HIDE DEF keep
  <2>3. hnswIDs' \in Seq(Memories)
    BY <2>1, <2>2, KeptIsSequence
  <2>4. rebuild' \in [Rebuilders -> RebuildState]
    BY <2>1, StartRebuildTyped DEF IndexTypes
  <2> QED
    BY <2>1, <2>3, <2>4 DEF IndexTypes
<1> QED
  BY <1>2, <1>3, <1>4, <1>5, <1>6, <1>7, <1>8 DEF StorerNext

LEMMA RebuildIndexTypes ==
  ASSUME FtsInv, IndexTypes, NEW g \in Rebuilders,
         NewIndex(g) \/ LoadVectors(g) \/ SwapIndex(g) \/ RebuildFails(g)
  PROVE  IndexTypes'
<1>1. rebuild[g] \in RebuildState /\ rows \in Seq(Vectors) /\ Ids(rows) \in Seq(Memories)
  BY IdsTyped DEF IndexTypes, FtsInv, RowTypes
<1>2. CASE NewIndex(g)
  <2>1. PICK idx : /\ idx = IF indexFile = NoFile THEN <<>> ELSE indexFile
                   /\ rebuild' = [rebuild EXCEPT ![g] = [rebuild[g] EXCEPT !.at = "load", !.idx = idx]]
    BY <1>2 DEF NewIndex
  <2>2. idx \in Seq(Vectors)
    BY <2>1 DEF IndexTypes
  <2>3. [rebuild[g] EXCEPT !.at = "load", !.idx = idx] \in RebuildState
    BY <1>1, <2>2, RebuildFields
  <2>4. UNCHANGED <<index, hnswIDs, indexFile, deletedCount, disturbed, torn>>
    BY <1>2 DEF NewIndex
  <2> QED
    BY <2>1, <2>3, <2>4 DEF IndexTypes
<1>3. CASE LoadVectors(g)
  <2>1. rebuild' = [rebuild EXCEPT ![g] =
          [rebuild[g] EXCEPT !.at = "swap", !.idx = rebuild[g].idx \o rows, !.ids = Ids(rows)]]
    BY <1>3 DEF LoadVectors
  <2>2. rebuild[g].idx \o rows \in Seq(Vectors)
    BY <1>1 DEF RebuildState
  <2>3. [rebuild[g] EXCEPT !.at = "swap", !.idx = rebuild[g].idx \o rows, !.ids = Ids(rows)] \in RebuildState
    BY <1>1, <2>2, RebuildFields
  <2>4. UNCHANGED <<index, hnswIDs, indexFile, deletedCount, disturbed, torn>>
    BY <1>3 DEF LoadVectors
  <2> QED
    BY <2>1, <2>3, <2>4 DEF IndexTypes
<1>4. CASE SwapIndex(g)
  <2>1. /\ index' = rebuild[g].idx /\ hnswIDs' = rebuild[g].ids /\ deletedCount' = 0
        /\ rebuild' = [rebuild EXCEPT ![g] = RebuildIdle]
        /\ UNCHANGED <<indexFile, disturbed, torn>>
    BY <1>4 DEF SwapIndex
  <2>2. RebuildIdle \in RebuildState
    BY DEF RebuildIdle, RebuildState
  <2>3. index' \in Seq(Vectors) /\ hnswIDs' \in Seq(Memories)
    BY <1>1, <2>1 DEF RebuildState
  <2> QED
    BY <2>1, <2>2, <2>3 DEF IndexTypes
<1>5. CASE RebuildFails(g)
  <2>1. RebuildIdle \in RebuildState
    BY DEF RebuildIdle, RebuildState
  <2> QED
    BY <1>5, <2>1 DEF RebuildFails, IndexTypes
<1> QED
  BY <1>2, <1>3, <1>4, <1>5

LEMMA ReopenIndexTypes ==
  ASSUME FtsInv, IndexTypes, NEW file \in {indexFile, index}, Reopen(file)
  PROVE  IndexTypes'
<1>1. /\ index' = IF file # NoFile THEN file ELSE rows
      /\ hnswIDs' = Ids(rows)
      /\ indexFile' \in {file, IF rows = <<>> THEN file ELSE index'}
      /\ rebuild' = [g \in Rebuilders |-> RebuildIdle]
      /\ deletedCount' = 0
      /\ disturbed' = (disturbed \/ Storing # {})
      /\ \E lost \in SUBSET RowIds : torn' = torn \cup lost \cup {storer[c].id : c \in Storing}
  BY DEF Reopen, RefillFts
<1>2. rows \in Seq(Vectors) /\ (file = NoFile \/ file \in Seq(Vectors))
  BY DEF FtsInv, RowTypes, IndexTypes
<1>3. index' \in Seq(Vectors) /\ (indexFile' = NoFile \/ indexFile' \in Seq(Vectors))
  BY <1>1, <1>2
<1>4. hnswIDs' \in Seq(Memories)
  BY <1>1, <1>2, IdsTyped
<1>5. RebuildIdle \in RebuildState
  BY DEF RebuildIdle, RebuildState
<1>6. \A c \in Storing : storer[c].id \in Memories
  BY StorerTypes DEF FtsInv, RowTypes, Storing
<1>7. disturbed' \in BOOLEAN
  BY <1>1, Zenon
<1>8. RowIds \subseteq Memories
  BY DEF FtsInv, RowTypes, RowIds, Vectors
<1>9. torn' \subseteq Memories
  BY <1>1, <1>6, <1>8 DEF IndexTypes
<1> QED
  BY <1>1, <1>3, <1>4, <1>5, <1>7, <1>9 DEF IndexTypes

LEMMA MemoryInitTypes == MemoryInit => IndexTypes
<1> SUFFICES ASSUME MemoryInit PROVE IndexTypes
  OBVIOUS
<1>1. RebuildIdle \in RebuildState
  BY DEF RebuildIdle, RebuildState
<1>2. rebuild \in [Rebuilders -> RebuildState]
  BY <1>1 DEF MemoryInit
<1>3. index \in Seq(Vectors) /\ hnswIDs \in Seq(Memories) /\ indexFile = NoFile /\ deletedCount \in Nat
      /\ torn \subseteq Memories
  BY DEF MemoryInit
<1>4. disturbed \in BOOLEAN
  BY DEF MemoryInit
<1> QED
  BY <1>2, <1>3, <1>4 DEF IndexTypes

LEMMA MemoryNextTypes == FtsInv /\ IndexTypes /\ [MemoryNext]_memVars => IndexTypes'
<1>1. ASSUME IndexTypes, UNCHANGED memVars PROVE IndexTypes'
  BY <1>1 DEF memVars, IndexTypes
<1> QED
  BY <1>1, StorerIndexTypes, RebuildIndexTypes, ReopenIndexTypes DEF MemoryNext

LEMMA MemoryTyped == FtsInv /\ IndexTypes => MemoryTypeOK
<1> SUFFICES ASSUME FtsInv, IndexTypes PROVE MemoryTypeOK
  OBVIOUS
<1>1. \A g \in Rebuilders : rebuild[g] \in RebuildState
  BY DEF IndexTypes
<1>2. \A g \in Rebuilders :
        /\ rebuild[g].at \in {"idle", "new", "load", "swap"}
        /\ rebuild[g].idx \in Seq(Vectors) /\ rebuild[g].ids \in Seq(Memories)
        /\ rebuild[g].for \subseteq Storers
  BY <1>1 DEF RebuildState
<1> QED
  BY <1>2 DEF FtsInv, RowTypes, IndexTypes, MemoryTypeOK, Places
=============================================================================
