------------------------- MODULE ConversationStore -------------------------
(***************************************************************************)
(* The agent's conversation history: the SQLite tables messages,           *)
(* messages_archive and session_meta, and the four operations that rewrite *)
(* them while chat turns keep appending.                                   *)
(*                                                                         *)
(*   maybeCompact      automatic compaction, a goroutine of every turn     *)
(*   runCompact        the /compact command                                *)
(*   runResetSession   the /reset command                                  *)
(*   ResetSession      the idle-session reset of the pulse loop            *)
(*                                                                         *)
(* Each operation is a sequence of SQL statements without a transaction,   *)
(* so every statement is one step.  Only maybeCompact takes compactMu.     *)
(***************************************************************************)
EXTENDS Naturals, FiniteSets

CONSTANTS
  Procs,            \* goroutines that may run one of the operations
  Sessions,         \* session keys
  DefaultSession,   \* the key "default" the two commands always work on
  Ops,              \* the operations this instance lets the goroutines run
  KeepMessages,     \* cfg.KeepMessages
  Window,           \* the LIMIT of GetMessages in the two compactions (500)
  ResetWindow,      \* the LIMIT of GetMessages in /reset (1000)
  MaxBodies,        \* bound: chat messages ever said
  MaxIds,           \* bound: no operation starts once this many row ids are used
  MaxCrashes,       \* bound: process crashes
  MaxSqlErrors,     \* bound: statements that fail
  MaxFaults,        \* bound: crashes and failing statements together
  ArchiveMayFail,   \* may the failing statement be that of ArchiveMessages?
  NoProc            \* compactMu is free

AllOps == {"maybeCompact", "runCompact", "runResetSession", "ResetSession"}

ASSUME ConstantsOK ==
  /\ DefaultSession \in Sessions
  /\ Ops \subseteq AllOps
  /\ NoProc \notin Procs
  /\ {KeepMessages, Window, ResetWindow} \subseteq Nat
  /\ {MaxBodies, MaxIds, MaxCrashes, MaxSqlErrors, MaxFaults} \subseteq Nat
  /\ ArchiveMayFail \in BOOLEAN

VARIABLES
  rows,       \* table messages
  archive,    \* table messages_archive; a copied row keeps its source id
  nextId,     \* the AUTOINCREMENT sequence of messages
  meta,       \* table session_meta: is the row readable, and the watermark
  compactMu,  \* the goroutine holding Agent.compactMu
  op,         \* the operation each goroutine is executing
  bodies,     \* how many chat messages have been said
  crashes, sqlErrors

vars == <<rows, archive, nextId, meta, compactMu, op, bodies, crashes, sqlErrors>>
tables == <<rows, archive, nextId, meta>>

(* A row's body identifies the chat message it holds; summaries and reset  *)
(* markers have body 0.                                                    *)
Row == [id : Nat, sess : Sessions, kind : {"chat", "summary", "marker"}, body : Nat]

(* "unreadable": the row was inserted by the realtime path without a       *)
(* last_summary, and scanning that NULL makes GetSessionMeta fail.         *)
Meta == [row : {"absent", "unreadable", "ok"}, wm : Nat]

(* The statements of each operation, in the order the code issues them.    *)
After ==
  [maybeCompact    |-> [getMeta |-> "read", read |-> "saveTokens", saveTokens |-> "archive",
                        archive |-> "saveMeta", saveMeta |-> "clear", clear |-> "reinsert",
                        reinsert |-> "summary", summary |-> "done"],
   runCompact      |-> [read |-> "getMeta", getMeta |-> "archive", archive |-> "clear",
                        clear |-> "summary", summary |-> "saveMeta", saveMeta |-> "done"],
   runResetSession |-> [read |-> "archive", archive |-> "clear", clear |-> "marker",
                        marker |-> "getMeta", getMeta |-> "saveMeta", saveMeta |-> "done"],
   ResetSession    |-> [clear |-> "zeroMeta", zeroMeta |-> "done"]]

PCs == {"idle", "getMeta", "read", "saveTokens", "archive", "saveMeta", "clear", "reinsert",
        "summary", "marker", "zeroMeta", "done"}

(* A running operation: its next statement, session, the watermark in its  *)
(* copy of the meta row, the rows it read and those it will re-insert, and *)
(* (an observation, not in the code) the id sequence when it read them.    *)
Op == [kind : AllOps \cup {"none"}, pc : PCs, sess : Sessions, seen : Nat,
       snap : SUBSET Row, keep : SUBSET Row, asOf : Nat]

(* The program counters of an operation of the given kind.                 *)
Program(kind) == DOMAIN After[kind] \cup {"done"}

Idle == [kind |-> "none", pc |-> "idle", sess |-> DefaultSession, seen |-> 0,
         snap |-> {}, keep |-> {}, asOf |-> 0]

Init ==
  /\ rows = {} /\ archive = {} /\ nextId = 1
  /\ meta = [s \in Sessions |-> [row |-> "absent", wm |-> 0]]
  /\ compactMu = NoProc
  /\ op = [p \in Procs |-> Idle]
  /\ bodies = 0 /\ crashes = 0 /\ sqlErrors = 0

-----------------------------------------------------------------------------
(* SQL statements.                                                         *)

RowsOf(s) == {r \in rows : r.sess = s}

(* SELECT ... ORDER BY created_at ASC LIMIT n: the oldest n rows.          *)
GetMessages(s, n) ==
  {r \in RowsOf(s) : Cardinality({q \in RowsOf(s) : q.id < r.id}) < n}

AddMessage(s, kind, body) ==
  /\ rows' = rows \cup {[id |-> nextId, sess |-> s, kind |-> kind, body |-> body]}
  /\ nextId' = nextId + 1
  /\ UNCHANGED <<archive, meta>>

(* Mutant: the upper bound is exclusive.                                   *)
ArchiveMessagesExclusive(s, beforeID) ==
  /\ archive' = archive \cup {r \in RowsOf(s) : /\ r.id > meta[s].wm
                                                /\ r.id < beforeID
                                                /\ r.kind # "summary"}
  /\ UNCHANGED <<rows, nextId, meta>>

(* INSERT OR IGNORE of the rows above the watermark, up to beforeID,       *)
(* without the summaries.  Ids are unique, so a copied row is its own key. *)
ArchiveMessages(s, beforeID) ==
  /\ archive' = archive \cup {r \in RowsOf(s) : /\ r.id > meta[s].wm
                                                /\ r.id <= beforeID
                                                /\ r.kind # "summary"}
  /\ UNCHANGED <<rows, nextId, meta>>

ClearMessages(s) ==
  /\ rows' = {r \in rows : r.sess # s}
  /\ UNCHANGED <<archive, nextId, meta>>

UpsertSessionMeta(s, wm) ==
  /\ meta' = [meta EXCEPT ![s] = [row |-> "ok", wm |-> wm]]
  /\ UNCHANGED <<rows, archive, nextId>>

(* The last KeepMessages rows of a compaction's snapshot.                  *)
KeepRows(snap) ==
  {r \in snap : Cardinality({q \in snap : q.id > r.id}) < KeepMessages}

(* Mutant: the kept rows are archived with the old ones.                   *)
OldRowsAll(p) == op[p].snap

(* stored[:cut], what the summary replaces.                                *)
OldRows(p) == op[p].snap \ op[p].keep

-----------------------------------------------------------------------------
(* Control flow of an operation.                                           *)

At(p, pc) == op[p].pc = pc /\ op[p].kind # "none"

(* Mutant: the statements of /compact and the resets in maybeCompact's order. *)
Next1SameOrder(p) == After["maybeCompact"][op[p].pc]

Next1(p) == After[op[p].kind][op[p].pc]

Advance(p) == op' = [op EXCEPT ![p].pc = Next1(p)]

Quiet == UNCHANGED <<compactMu, bodies, crashes, sqlErrors>>

(* Mutant: an early return that forgets the mutex.                         *)
ReturnLocked(p) ==
  /\ op' = [op EXCEPT ![p] = Idle]
  /\ UNCHANGED <<compactMu, bodies, crashes, sqlErrors>>

(* The operation returns; the deferred Unlock of maybeCompact runs.        *)
Return(p) ==
  /\ op' = [op EXCEPT ![p] = Idle]
  /\ compactMu' = IF compactMu = p THEN NoProc ELSE compactMu
  /\ UNCHANGED <<bodies, crashes, sqlErrors>>

Start(p, kind, pc, s) ==
  /\ kind \in Ops
  /\ nextId <= MaxIds
  /\ op[p] = Idle
  /\ op' = [op EXCEPT ![p] = [Idle EXCEPT !.kind = kind, !.pc = pc, !.sess = s]]
  /\ UNCHANGED tables
  /\ UNCHANGED <<bodies, crashes, sqlErrors>>

(* TryLock: a goroutine that finds the mutex taken returns at once.        *)
StartMaybeCompact(p, s) ==
  /\ compactMu = NoProc
  /\ Start(p, "maybeCompact", "getMeta", s)
  /\ compactMu' = p

StartRunCompact(p) ==
  Start(p, "runCompact", "read", DefaultSession) /\ UNCHANGED compactMu

StartRunResetSession(p) ==
  Start(p, "runResetSession", "read", DefaultSession) /\ UNCHANGED compactMu

(* One pulse loop; GetSessionsForReset skips the rows it cannot scan.      *)
StartResetSession(p, s) ==
  /\ \A q \in Procs : op[q].kind # "ResetSession"
  /\ meta[s].row = "ok"
  /\ Start(p, "ResetSession", "clear", s) /\ UNCHANGED compactMu

-----------------------------------------------------------------------------
(* The statements as steps of the operations.                              *)

(* GetSessionMeta.  maybeCompact gives up on an unreadable row, /compact   *)
(* goes on with an empty one, /reset then leaves the meta row alone.       *)
ReadMeta(p) ==
  /\ At(p, "getMeta")
  /\ UNCHANGED tables
  /\ \/ /\ meta[op[p].sess].row # "unreadable"
        /\ op' = [op EXCEPT ![p].pc = Next1(p), ![p].seen = meta[op[p].sess].wm]
        /\ Quiet
     \/ /\ meta[op[p].sess].row = "unreadable"
        /\ op[p].kind = "runCompact"
        /\ Advance(p) /\ Quiet
     \/ /\ meta[op[p].sess].row = "unreadable"
        /\ op[p].kind # "runCompact"
        /\ Return(p)

Limit(p) == IF op[p].kind = "runResetSession" THEN ResetWindow ELSE Window

(* /compact returns when there is nothing to compress, /reset goes on to   *)
(* clear without archiving.                                                *)
Read(p) ==
  LET got == GetMessages(op[p].sess, Limit(p)) IN
  /\ At(p, "read")
  /\ UNCHANGED tables
  /\ IF got = {} /\ op[p].kind = "runCompact" THEN Return(p)
     ELSE /\ op' = [op EXCEPT ![p].snap = got, ![p].asOf = nextId,
                              ![p].pc = IF got = {} /\ op[p].kind = "runResetSession"
                                        THEN "clear" ELSE Next1(p)]
          /\ Quiet

(* The compaction proper: all but the last KeepMessages rows are old. *)
PastThreshold(p) ==
  /\ Cardinality(op[p].snap) > KeepMessages
  /\ op' = [op EXCEPT ![p].pc = Next1(p), ![p].keep = KeepRows(op[p].snap)]

(* The token count is written back with the rest of the meta row as it was *)
(* read.  Whether the tokens reach the threshold depends on the texts.     *)
SaveTokens(p) ==
  /\ At(p, "saveTokens")
  /\ UpsertSessionMeta(op[p].sess, op[p].seen)
  /\ Return(p) \/ (PastThreshold(p) /\ Quiet)

(* Mutant: the watermark covers the whole snapshot, kept rows included.    *)
AfterArchiveSnapshot(p, beforeID) ==
  op' = [op EXCEPT ![p].pc = Next1(p),
                   ![p].seen = CHOOSE i \in {r.id : r \in op[p].snap} :
                                 \A r \in op[p].snap : r.id <= i]

(* In memory the watermark of the two compactions becomes beforeID.        *)
AfterArchive(p, beforeID) ==
  op' = [op EXCEPT ![p].pc = Next1(p),
                   ![p].seen = IF op[p].kind = "runResetSession" THEN @ ELSE beforeID]

(* Mutant: old[0].ID instead of old[len(old)-1].ID.                        *)
IsFirst(r, S) == r \in S /\ \A q \in S : q.id >= r.id

IsLast(r, S) == r \in S /\ \A q \in S : q.id <= r.id

Archive(p) ==
  /\ At(p, "archive")
  /\ \E last \in OldRows(p) :
       /\ IsLast(last, OldRows(p))
       /\ ArchiveMessages(op[p].sess, last.id)
       /\ AfterArchive(p, last.id)
  /\ Quiet

SaveMeta(p) ==
  /\ At(p, "saveMeta")
  /\ UpsertSessionMeta(op[p].sess, op[p].seen)
  /\ Advance(p) /\ Quiet

Clear(p) ==
  /\ At(p, "clear")
  /\ ClearMessages(op[p].sess)
  /\ op' = [op EXCEPT ![p].pc = Next1(p), ![p].snap = {}, ![p].asOf = 0]
  /\ Quiet

(* for _, m := range keep { AddMessage }: the kept rows get fresh ids.     *)
Reinsert(p) ==
  /\ At(p, "reinsert")
  /\ \/ /\ op[p].keep = {}
        /\ UNCHANGED tables /\ Advance(p)
     \/ \E r \in op[p].keep :
          /\ \A q \in op[p].keep : r.id <= q.id
          /\ AddMessage(op[p].sess, r.kind, r.body)
          /\ op' = [op EXCEPT ![p].keep = @ \ {r}]
  /\ Quiet

(* An LLM may answer /compact with an empty summary, which is not stored.  *)
AddSummary(p) ==
  /\ At(p, "summary")
  /\ \/ AddMessage(op[p].sess, "summary", 0)
     \/ op[p].kind = "runCompact" /\ UNCHANGED tables
  /\ Advance(p) /\ Quiet

AddMarker(p) ==
  /\ At(p, "marker")
  /\ AddMessage(op[p].sess, "marker", 0)
  /\ Advance(p) /\ Quiet

(* The second statement of ResetSession, an UPDATE.                        *)
ZeroMeta(p) ==
  /\ At(p, "zeroMeta")
  /\ IF meta[op[p].sess].row = "absent" THEN UNCHANGED tables
                                        ELSE UpsertSessionMeta(op[p].sess, 0)
  /\ Advance(p) /\ Quiet

Done(p) == At(p, "done") /\ UNCHANGED tables /\ Return(p)

-----------------------------------------------------------------------------
(* The rest of the agent, and failures.                                    *)

(* finalize of a chat turn stores a message.                               *)
StoreMessage(s) ==
  /\ bodies < MaxBodies
  /\ bodies' = bodies + 1
  /\ AddMessage(s, "chat", bodies + 1)
  /\ UNCHANGED <<compactMu, op, crashes, sqlErrors>>

(* The realtime path creates the meta row without a last_summary; on an    *)
(* existing row it changes columns this module does not keep.              *)
TouchRealtimeSession(s) ==
  /\ meta[s].row = "absent"
  /\ meta' = [meta EXCEPT ![s].row = "unreadable"]
  /\ UNCHANGED <<rows, archive, nextId, compactMu, op, bodies, crashes, sqlErrors>>

(* A failing statement.  The operations discard the error of every write,  *)
(* and ResetSession returns after its failed DELETE.                       *)
WriteError(p) ==
  /\ \/ At(p, "archive") /\ ArchiveMayFail /\
          \E last \in OldRows(p) : IsLast(last, OldRows(p)) /\ AfterArchive(p, last.id)
     \/ At(p, "clear") /\ op[p].kind # "ResetSession" /\
          op' = [op EXCEPT ![p].pc = Next1(p), ![p].snap = {}, ![p].asOf = 0]
     \/ At(p, "clear") /\ op[p].kind = "ResetSession" /\
          op' = [op EXCEPT ![p].pc = "done"]
     \/ At(p, "saveTokens") /\ (PastThreshold(p) \/ op' = [op EXCEPT ![p].pc = "done"])
     \/ \E r \in op[p].keep :
          /\ At(p, "reinsert") /\ (\A q \in op[p].keep : r.id <= q.id)
          /\ op' = [op EXCEPT ![p].keep = @ \ {r}]
     \/ \E pc \in {"saveMeta", "summary", "marker", "zeroMeta"} : At(p, pc) /\ Advance(p)

(* A failing read ends the operation, except that /reset ignores that of   *)
(* GetMessages and /compact goes on with an empty meta row.                *)
ReadError(p) ==
  \/ At(p, "read") /\ op[p].kind # "runResetSession" /\ op' = [op EXCEPT ![p].pc = "done"]
  \/ At(p, "read") /\ op[p].kind = "runResetSession" /\ op' = [op EXCEPT ![p].pc = "clear"]
  \/ At(p, "getMeta") /\ op[p].kind # "runCompact" /\ op' = [op EXCEPT ![p].pc = "done"]
  \/ At(p, "getMeta") /\ op[p].kind = "runCompact" /\ Advance(p)

SqlError(p) ==
  /\ sqlErrors < MaxSqlErrors /\ crashes + sqlErrors < MaxFaults
  /\ sqlErrors' = sqlErrors + 1
  /\ WriteError(p) \/ ReadError(p)
  /\ UNCHANGED tables
  /\ UNCHANGED <<compactMu, bodies, crashes>>

(* The agent process dies and is started again: only the tables survive.   *)
Crash ==
  /\ crashes < MaxCrashes /\ crashes + sqlErrors < MaxFaults
  /\ crashes' = crashes + 1
  /\ op' = [p \in Procs |-> Idle]
  /\ compactMu' = NoProc
  /\ UNCHANGED tables /\ UNCHANGED <<bodies, sqlErrors>>

Step(p) ==
  \/ ReadMeta(p) \/ Read(p) \/ SaveTokens(p) \/ Archive(p) \/ SaveMeta(p) \/ Clear(p)
  \/ Reinsert(p) \/ AddSummary(p) \/ AddMarker(p) \/ ZeroMeta(p) \/ Done(p)

Begin(p) ==
  \/ \E s \in Sessions : StartMaybeCompact(p, s) \/ StartResetSession(p, s)
  \/ StartRunCompact(p) \/ StartRunResetSession(p)

Next ==
  \/ \E p \in Procs : Begin(p) \/ Step(p) \/ SqlError(p)
  \/ \E s \in Sessions : StoreMessage(s) \/ TouchRealtimeSession(s)
  \/ Crash

Spec == Init /\ [][Next]_vars

(* Every statement of a started operation is eventually executed: the      *)
(* driver returns, and the summary request has the client's timeout.       *)
FairSpec == Spec /\ \A p \in Procs : WF_vars(Step(p))

-----------------------------------------------------------------------------
(* Properties.                                                             *)

TypeOK ==
  /\ rows \subseteq Row /\ archive \subseteq Row
  /\ nextId \in Nat \ {0}
  /\ meta \in [Sessions -> Meta]
  /\ compactMu \in Procs \cup {NoProc}
  /\ op \in [Procs -> Op]
  /\ \A p \in Procs : op[p].kind # "none" => op[p].pc \in Program(op[p].kind)
  /\ {bodies, crashes, sqlErrors} \subseteq Nat

(* Every row of the session up to id b that is not a summary is archived.  *)
ArchivedUpTo(s, b) ==
  \A r \in rows : (r.sess = s /\ r.id <= b /\ r.kind # "summary") => r \in archive

(* ArchiveMessages skips every row at or below the stored watermark.  That *)
(* is safe, in every interleaving and after every crash, because each such *)
(* row is already in the archive: no operation writes a watermark before   *)
(* the rows under it have been copied, however stale its copy of the meta  *)
(* row is.                                                                 *)
WatermarkSound == \A s \in Sessions : ArchivedUpTo(s, meta[s].wm)

(* What an operation deletes with ClearMessages although it had read it is *)
(* a summary, has been archived, or is about to be re-inserted.            *)
ClearKeepsWhatWasRead ==
  [][\A p \in Procs :
       (op[p].pc = "clear" /\ op'[p].pc \in {"reinsert", "summary", "marker"})
         => \A r \in (op[p].snap \cap rows) \ rows' :
              r.kind = "summary" \/ r \in archive \/ r \in op[p].keep]_vars

(* The stronger promise: what the session held when the operation read it  *)
(* is not deleted unless archived, kept or a summary.  It holds when the   *)
(* read returned fewer rows than its LIMIT; a longer session loses what    *)
(* the read cut off.                                                       *)
ClearKeepsWhatExisted ==
  [][\A p \in Procs :
       (/\ op[p].pc = "clear" /\ op'[p].pc \in {"reinsert", "summary", "marker"}
        /\ Cardinality(op[p].snap) < Limit(p))
         => \A r \in rows \ rows' :
              \/ r.id >= op[p].asOf
              \/ r.kind = "summary" \/ r \in archive \/ r \in op[p].keep]_vars

(* One chat message is archived under one source id only, so the archive   *)
(* can be read as the conversation.                                        *)
ArchivedOnce ==
  \A r, q \in archive : (r.kind = "chat" /\ q.kind = "chat" /\ r.body = q.body) => r.id = q.id

(* Every chat message ever stored can still be found: live, archived, or   *)
(* in the hands of a compaction that will re-insert it.                    *)
Recoverable ==
  \A b \in 1..bodies :
    \E r \in rows \cup archive \cup UNION {op[p].keep : p \in Procs} : r.body = b

(* Automatic compaction is never locked out for good: whatever happens to  *)
(* the goroutine that holds compactMu, the mutex becomes free again.       *)
CompactMuReleased == []<>(compactMu = NoProc)
=============================================================================
