---------------------- MODULE ConversationStore_proofs ----------------------
(***************************************************************************)
(* Proofs about ConversationStore, for any number of goroutines, sessions  *)
(* and messages, any interleaving of the four operations, and any crashes: *)
(* type correctness and the watermark (IInv), what a DELETE may take       *)
(* (ClearInv), the single archived copy of a message (OnceInv), and the    *)
(* mutex of the automatic compaction (MuInv).                              *)
(***************************************************************************)
EXTENDS ConversationStore, FiniteSetTheorems, WellFoundedInduction, TLAPS

(* Everything that names a row id was issued by the sequence.              *)
IdsIssued ==
  /\ \A r \in rows : 0 < r.id /\ r.id < nextId
  /\ \A s \in Sessions : meta[s].wm < nextId
  /\ \A p \in Procs : op[p].seen < nextId /\ \A r \in op[p].snap : r.id < nextId

(* The watermark in an operation's own copy of the meta row is as safe to  *)
(* store as the one in the table, although the copy may be stale.          *)
SeenSound == \A p \in Procs : ArchivedUpTo(op[p].sess, op[p].seen)

IInv == TypeOK /\ IdsIssued /\ WatermarkSound /\ SeenSound

-----------------------------------------------------------------------------
(* A statement of an operation leads to a statement of the same operation. *)
LEMMA ProgramClosed ==
  ASSUME NEW kind \in AllOps, NEW pc \in DOMAIN After[kind]
  PROVE  After[kind][pc] \in Program(kind) /\ After[kind][pc] \in PCs
<1>1. CASE kind = "maybeCompact"
  BY <1>1 DEF After, Program, PCs
<1>2. CASE kind = "runCompact"
  BY <1>2 DEF After, Program, PCs
<1>3. CASE kind = "runResetSession"
  BY <1>3 DEF After, Program, PCs
<1>4. CASE kind = "ResetSession"
  BY <1>4 DEF After, Program, PCs
<1>5. QED  BY <1>1, <1>2, <1>3, <1>4 DEF AllOps

LEMMA IdleTyped == Idle \in Op
BY ConstantsOK DEF Idle, Op, PCs

LEMMA InitInv == Init => IInv
<1>. SUFFICES ASSUME Init PROVE IInv
  OBVIOUS
<1>1. TypeOK
  BY ConstantsOK, IdleTyped DEF Init, TypeOK, Meta, Idle
<1>2. QED
  BY <1>1, ConstantsOK DEF Init, IInv, IdsIssued, WatermarkSound, SeenSound, ArchivedUpTo, Idle

(* Advancing an operation keeps it typed.                                  *)
LEMMA AdvanceTyped ==
  ASSUME TypeOK, NEW p \in Procs, NEW pc, At(p, pc), pc # "done"
  PROVE  /\ Next1(p) \in PCs
         /\ Next1(p) \in Program(op[p].kind)
<1>1. op[p].kind \in AllOps /\ op[p].pc \in DOMAIN After[op[p].kind]
  BY DEF TypeOK, At, Op, Program
<1>2. QED
  BY <1>1, ProgramClosed DEF Next1

LEMMA StartTyped ==
  ASSUME TypeOK, NEW p \in Procs, NEW s \in Sessions, NEW kind \in AllOps,
         NEW pc \in DOMAIN After[kind], pc \in PCs, Start(p, kind, pc, s),
         compactMu' \in Procs \cup {NoProc}
  PROVE  TypeOK'
<1>1. [Idle EXCEPT !.kind = kind, !.pc = pc, !.sess = s] \in Op
  BY IdleTyped DEF Idle, Op
<1>2. op' \in [Procs -> Op]
  BY <1>1 DEF Start, TypeOK
<1>3. \A q \in Procs : op'[q].kind # "none" => op'[q].pc \in Program(op'[q].kind)
  BY DEF Start, TypeOK, Idle, Program
<1>4. QED
  BY <1>2, <1>3 DEF TypeOK, Start, tables

LEMMA PastThresholdTyped ==
  ASSUME TypeOK, NEW p \in Procs, PastThreshold(p),
         Next1(p) \in PCs, Next1(p) \in Program(op[p].kind)
  PROVE  /\ op' \in [Procs -> Op]
         /\ \A q \in Procs : op'[q].kind # "none" => op'[q].pc \in Program(op'[q].kind)
<1>1. [op[p] EXCEPT !.pc = Next1(p), !.keep = KeepRows(op[p].snap)] \in Op
  BY DEF TypeOK, Op, KeepRows
<1>2. op' = [op EXCEPT ![p] = [op[p] EXCEPT !.pc = Next1(p), !.keep = KeepRows(op[p].snap)]]
  BY DEF PastThreshold, TypeOK
<1>3. QED  BY <1>1, <1>2 DEF TypeOK, Op

LEMMA ReturnTyped ==
  ASSUME TypeOK, NEW p \in Procs, Return(p),
         rows' \subseteq Row, archive' \subseteq Row, nextId' \in Nat \ {0},
         meta' \in [Sessions -> Meta]
  PROVE  TypeOK'
BY IdleTyped DEF TypeOK, Return, Idle

LEMMA TypeNext == TypeOK /\ [Next]_vars => TypeOK'
<1>. SUFFICES ASSUME TypeOK, [Next]_vars PROVE TypeOK'
  OBVIOUS
<1>1. ASSUME NEW p \in Procs, Begin(p) PROVE TypeOK'
  <2>1. ASSUME NEW s \in Sessions, StartMaybeCompact(p, s) PROVE TypeOK'
    BY <2>1, StartTyped DEF StartMaybeCompact, AllOps, After, PCs
  <2>2. ASSUME NEW s \in Sessions, StartResetSession(p, s) PROVE TypeOK'
    BY <2>2, StartTyped DEF StartResetSession, AllOps, After, PCs, TypeOK
  <2>3. CASE StartRunCompact(p)
    BY <2>3, StartTyped, ConstantsOK DEF StartRunCompact, AllOps, After, PCs, TypeOK
  <2>4. CASE StartRunResetSession(p)
    BY <2>4, StartTyped, ConstantsOK DEF StartRunResetSession, AllOps, After, PCs, TypeOK
  <2>5. QED  BY <1>1, <2>1, <2>2, <2>3, <2>4 DEF Begin
<1>2. ASSUME NEW p \in Procs, Step(p) PROVE TypeOK'
  <2>1. CASE ReadMeta(p)
    <3>1. Next1(p) \in PCs /\ Next1(p) \in Program(op[p].kind)
      BY <2>1, AdvanceTyped DEF ReadMeta
    <3>2. CASE Return(p)
      BY <2>1, <3>2, ReturnTyped DEF ReadMeta, TypeOK, tables
    <3>3. CASE Advance(p) /\ Quiet
      BY <2>1, <3>1, <3>3 DEF ReadMeta, TypeOK, Op, tables, Quiet, Advance
    <3>4. CASE op' = [op EXCEPT ![p].pc = Next1(p), ![p].seen = meta[op[p].sess].wm] /\ Quiet
      <4>1. meta[op[p].sess].wm \in Nat
        BY DEF TypeOK, Op, Meta
      <4>2. op' \in [Procs -> Op]
        BY ZenonT(40), <3>1, <3>4, <4>1 DEF TypeOK, Op
      <4>3. \A q \in Procs : op'[q].kind # "none" => op'[q].pc \in Program(op'[q].kind)
        BY <3>1, <3>4 DEF TypeOK, Op
      <4>4. QED  BY <2>1, <3>4, <4>2, <4>3 DEF ReadMeta, TypeOK, tables, Quiet
    <3>5. QED  BY <2>1, <3>2, <3>3, <3>4 DEF ReadMeta
  <2>2. CASE Read(p)
    <3>1. Next1(p) \in PCs /\ Next1(p) \in Program(op[p].kind)
      BY <2>2, AdvanceTyped DEF Read
    <3> DEFINE got == GetMessages(op[p].sess, Limit(p))
               skip == got = {} /\ op[p].kind = "runResetSession"
               pc == IF skip THEN "clear" ELSE Next1(p)
    <3>2. CASE Return(p)
      BY <2>2, <3>2, ReturnTyped DEF Read, TypeOK, tables
    <3>3. CASE op' = [op EXCEPT ![p].snap = got, ![p].asOf = nextId, ![p].pc = pc] /\ Quiet
      <4>1. got \subseteq Row
        BY DEF GetMessages, RowsOf, TypeOK
      <4>2. skip => pc \in PCs /\ pc \in Program(op[p].kind)
        BY DEF PCs, Program, After
      <4>3. pc \in PCs /\ pc \in Program(op[p].kind)
        BY <3>1, <4>2
      <4> HIDE DEF got, pc
      <4>4. op' \in [Procs -> Op]
        <5>1. nextId \in Nat
          BY DEF TypeOK
        <5>2. [op[p] EXCEPT !.snap = got, !.asOf = nextId, !.pc = pc] \in Op
          BY <4>1, <4>3, <5>1 DEF TypeOK, Op
        <5>3. QED  BY <3>3, <5>2 DEF TypeOK
      <4>5. \A q \in Procs : op'[q].kind # "none" => op'[q].pc \in Program(op'[q].kind)
        BY <3>3, <4>3 DEF TypeOK, Op
      <4>6. QED  BY <2>2, <3>3, <4>4, <4>5 DEF Read, TypeOK, tables, Quiet
    <3>4. QED  BY <2>2, <3>2, <3>3 DEF Read
  <2>3. CASE SaveTokens(p)
    <3>1. Next1(p) \in PCs /\ Next1(p) \in Program(op[p].kind)
      BY <2>3, AdvanceTyped DEF SaveTokens
    <3>2. meta' \in [Sessions -> Meta] /\ UNCHANGED <<rows, archive, nextId>>
      BY <2>3 DEF SaveTokens, UpsertSessionMeta, TypeOK, Op, Meta
    <3>3. CASE Return(p)
      BY <3>2, <3>3, ReturnTyped DEF TypeOK
    <3>4. CASE PastThreshold(p) /\ Quiet
      BY <3>1, <3>2, <3>4, PastThresholdTyped DEF TypeOK, Quiet
    <3>5. QED  BY <2>3, <3>3, <3>4 DEF SaveTokens
  <2>4. CASE Archive(p)
    <3>1. Next1(p) \in PCs /\ Next1(p) \in Program(op[p].kind)
      BY <2>4, AdvanceTyped DEF Archive
    <3>2. PICK last \in OldRows(p) : ArchiveMessages(op[p].sess, last.id) /\ AfterArchive(p, last.id)
      BY <2>4 DEF Archive
    <3>3. last.id \in Nat
      BY DEF OldRows, TypeOK, Op, Row
    <3>4. op' \in [Procs -> Op] /\ \A q \in Procs : op'[q].kind # "none" => op'[q].pc \in Program(op'[q].kind)
      BY ZenonT(40), <3>1, <3>2, <3>3 DEF AfterArchive, TypeOK, Op
    <3>5. archive' \subseteq Row /\ UNCHANGED <<rows, nextId, meta>>
      BY <3>2 DEF ArchiveMessages, RowsOf, TypeOK
    <3>6. QED  BY <2>4, <3>4, <3>5 DEF Archive, TypeOK, Quiet
  <2>5. CASE SaveMeta(p)
    BY ZenonT(40), <2>5, AdvanceTyped DEF SaveMeta, TypeOK, Op, Meta, UpsertSessionMeta, Advance, Quiet
  <2>6. CASE Clear(p)
    <3>1. Next1(p) \in PCs /\ Next1(p) \in Program(op[p].kind)
      BY <2>6, AdvanceTyped DEF Clear
    <3>2. [op[p] EXCEPT !.pc = Next1(p), !.snap = {}, !.asOf = 0] \in Op
      BY <3>1 DEF TypeOK, Op
    <3>3. op' \in [Procs -> Op]
      BY <2>6, <3>2 DEF Clear, TypeOK
    <3>4. \A q \in Procs : op'[q].kind # "none" => op'[q].pc \in Program(op'[q].kind)
      BY <2>6, <3>1 DEF Clear, TypeOK, Op
    <3>5. QED  BY <2>6, <3>3, <3>4 DEF Clear, TypeOK, ClearMessages, Quiet
  <2>7. CASE Reinsert(p)
    BY <2>7, AdvanceTyped DEF Reinsert, TypeOK, Op, Row, AddMessage, Advance, Quiet, tables
  <2>8. CASE AddSummary(p)
    <3>1. Next1(p) \in PCs /\ Next1(p) \in Program(op[p].kind)
      BY <2>8, AdvanceTyped DEF AddSummary
    <3>2. rows' \subseteq Row /\ nextId' \in Nat \ {0} /\ UNCHANGED <<archive, meta>>
      BY <2>8 DEF AddSummary, AddMessage, TypeOK, Op, Row, tables
    <3>3. QED  BY <2>8, <3>1, <3>2 DEF AddSummary, TypeOK, Op, Advance, Quiet
  <2>9. CASE AddMarker(p)
    BY <2>9, AdvanceTyped DEF AddMarker, TypeOK, Op, Row, AddMessage, Advance, Quiet
  <2>10. CASE ZeroMeta(p)
    <3>1. Next1(p) \in PCs /\ Next1(p) \in Program(op[p].kind)
      BY <2>10, AdvanceTyped DEF ZeroMeta
    <3>2. meta' \in [Sessions -> Meta] /\ UNCHANGED <<rows, archive, nextId>>
      BY <2>10 DEF ZeroMeta, UpsertSessionMeta, TypeOK, Op, Meta, tables
    <3>3. QED  BY <2>10, <3>1, <3>2 DEF ZeroMeta, TypeOK, Op, Advance, Quiet
  <2>11. CASE Done(p)
    BY <2>11, ReturnTyped DEF Done, TypeOK, tables
  <2>12. QED
    BY <1>2, <2>1, <2>2, <2>3, <2>4, <2>5, <2>6, <2>7, <2>8, <2>9, <2>10, <2>11 DEF Step
<1>3. ASSUME NEW p \in Procs, SqlError(p) PROVE TypeOK'
  <2>1. CASE WriteError(p)
    <3>1. op[p].kind \in AllOps /\ op[p].pc \in DOMAIN After[op[p].kind]
      BY <2>1 DEF WriteError, At, TypeOK, Op, Program
    <3>2. Next1(p) \in PCs /\ Next1(p) \in Program(op[p].kind)
      BY <3>1, ProgramClosed DEF Next1
    <3>3. "done" \in PCs /\ "done" \in Program(op[p].kind)
      BY DEF PCs, Program
    <3>4. \A r \in OldRows(p) : r.id \in Nat
      BY DEF OldRows, TypeOK, Op, Row
    <3>5. op' \in [Procs -> Op] /\ \A q \in Procs : op'[q].kind # "none" => op'[q].pc \in Program(op'[q].kind)
      <4>1. CASE PastThreshold(p)
        BY <3>2, <4>1, PastThresholdTyped
      <4>2. CASE ~PastThreshold(p)
        BY <2>1, <3>2, <3>3, <3>4, <4>2 DEF WriteError, TypeOK, Op, AfterArchive, Advance, IsLast
      <4>3. QED  BY <4>1, <4>2
    <3>6. QED  BY <1>3, <3>5 DEF SqlError, TypeOK, tables
  <2>2. CASE ReadError(p)
    <3>1. Next1(p) \in PCs /\ Next1(p) \in Program(op[p].kind)
      BY <2>2, AdvanceTyped DEF ReadError
    <3>2. "done" \in PCs /\ "done" \in Program(op[p].kind)
      BY DEF PCs, Program
    <3>3. "clear" \in PCs /\ "clear" \in Program("runResetSession")
      BY DEF PCs, Program, After
    <3>4. QED  BY <1>3, <2>2, <3>1, <3>2, <3>3 DEF ReadError, SqlError, TypeOK, Op, Advance, tables
  <2>3. QED  BY <1>3, <2>1, <2>2 DEF SqlError
<1>4. ASSUME NEW s \in Sessions, StoreMessage(s) PROVE TypeOK'
  BY <1>4 DEF StoreMessage, AddMessage, TypeOK, Row
<1>5. ASSUME NEW s \in Sessions, TouchRealtimeSession(s) PROVE TypeOK'
  BY <1>5 DEF TouchRealtimeSession, TypeOK, Meta
<1>6. CASE Crash
  BY <1>6, IdleTyped DEF Crash, TypeOK, tables, Idle
<1>7. CASE UNCHANGED vars
  BY <1>7 DEF TypeOK, vars
<1>8. QED
  BY <1>1, <1>2, <1>3, <1>4, <1>5, <1>6, <1>7 DEF Next

-----------------------------------------------------------------------------
(* What one step may do to the tables: rows appear only under fresh ids,   *)
(* and the archive only grows.                                             *)
TablesGrow ==
  /\ archive \subseteq archive'
  /\ nextId <= nextId'
  /\ \A r \in rows' : r \in rows \/ (r.id = nextId /\ nextId' = nextId + 1)

LEMMA AddMessageGrows ==
  ASSUME TypeOK, NEW s, NEW kind, NEW body, AddMessage(s, kind, body)
  PROVE  TablesGrow
BY DEF TypeOK, AddMessage, TablesGrow

LEMMA TablesSame == ASSUME TypeOK, UNCHANGED tables PROVE TablesGrow
BY DEF TypeOK, tables, TablesGrow

LEMMA UpsertGrows ==
  ASSUME TypeOK, NEW s, NEW wm, UpsertSessionMeta(s, wm) PROVE TablesGrow
BY DEF TypeOK, UpsertSessionMeta, TablesGrow

LEMMA StepTables == TypeOK /\ [Next]_vars => TablesGrow
<1>. SUFFICES ASSUME TypeOK, [Next]_vars PROVE TablesGrow
  OBVIOUS
<1>1. ASSUME NEW p \in Procs, Begin(p) PROVE TablesGrow
  BY <1>1, TablesSame DEF Begin, Start, StartMaybeCompact, StartRunCompact, StartRunResetSession,
     StartResetSession
<1>2. ASSUME NEW p \in Procs, Step(p) PROVE TablesGrow
  <2>1. CASE ReadMeta(p) \/ Read(p) \/ Done(p)
    BY <2>1, TablesSame DEF ReadMeta, Read, Done
  <2>2. CASE SaveTokens(p) \/ SaveMeta(p) \/ ZeroMeta(p)
    BY <2>2, TablesSame, UpsertGrows DEF SaveTokens, SaveMeta, ZeroMeta
  <2>3. CASE Archive(p)
    BY <2>3 DEF Archive, ArchiveMessages, TypeOK, TablesGrow
  <2>4. CASE Clear(p)
    BY <2>4 DEF Clear, ClearMessages, TypeOK, TablesGrow
  <2>5. CASE Reinsert(p) \/ AddSummary(p) \/ AddMarker(p)
    BY <2>5, TablesSame, AddMessageGrows DEF Reinsert, AddSummary, AddMarker
  <2>6. QED  BY <1>2, <2>1, <2>2, <2>3, <2>4, <2>5 DEF Step
<1>3. ASSUME NEW p \in Procs, SqlError(p) PROVE TablesGrow
  BY <1>3, TablesSame DEF SqlError
<1>4. ASSUME NEW s \in Sessions, StoreMessage(s) PROVE TablesGrow
  BY <1>4, AddMessageGrows DEF StoreMessage
<1>5. ASSUME NEW s \in Sessions, TouchRealtimeSession(s) PROVE TablesGrow
  BY <1>5 DEF TouchRealtimeSession, TypeOK, TablesGrow
<1>6. CASE Crash \/ UNCHANGED vars
  BY <1>6, TablesSame DEF Crash, vars, tables
<1>7. QED  BY <1>1, <1>2, <1>3, <1>4, <1>5, <1>6 DEF Next

(* ArchivedUpTo in the next state, of a session and an id of any state.    *)
ArchivedNext(s, b) ==
  \A r \in rows' : (r.sess = s /\ r.id <= b /\ r.kind # "summary") => r \in archive'

(* A step never turns an archived prefix of a session into an unarchived   *)
(* one, because the rows it adds lie above every issued id.                *)
LEMMA ArchivedUpToStable ==
  ASSUME TypeOK, TablesGrow, NEW s \in Sessions, NEW b \in Nat, b < nextId, ArchivedUpTo(s, b)
  PROVE  ArchivedNext(s, b)
<1>1. ASSUME NEW r \in rows', r.sess = s, r.id <= b, r.kind # "summary" PROVE r \in archive'
  <2>1. r \in rows
    BY <1>1 DEF TablesGrow, TypeOK
  <2>2. QED  BY <1>1, <2>1 DEF ArchivedUpTo, TablesGrow
<1>2. QED  BY <1>1 DEF ArchivedNext

-----------------------------------------------------------------------------
(* Where a stored watermark comes from.                                    *)
WatermarkOrigin(s) ==
  \/ meta'[s].wm = meta[s].wm
  \/ meta'[s].wm = 0
  \/ \E p \in Procs : op[p].sess = s /\ meta'[s].wm = op[p].seen

LEMMA StepWatermark ==
  ASSUME TypeOK, [Next]_vars, NEW s \in Sessions PROVE WatermarkOrigin(s)
<1>1. CASE UNCHANGED meta
  BY <1>1 DEF WatermarkOrigin
<1>2. ASSUME NEW p \in Procs, NEW wm, UpsertSessionMeta(op[p].sess, wm), wm = op[p].seen \/ wm = 0
      PROVE  WatermarkOrigin(s)
  BY <1>2 DEF UpsertSessionMeta, WatermarkOrigin, TypeOK
<1>3. ASSUME NEW p \in Procs, Step(p) PROVE WatermarkOrigin(s)
  <2>1. CASE ReadMeta(p) \/ Read(p) \/ Done(p) \/ Archive(p) \/ Clear(p)
    BY <1>1, <2>1 DEF ReadMeta, Read, Done, Archive, Clear, ArchiveMessages, ClearMessages, tables
  <2>2. CASE SaveTokens(p) \/ SaveMeta(p) \/ ZeroMeta(p)
    BY <1>1, <1>2, <2>2 DEF SaveTokens, SaveMeta, ZeroMeta, tables
  <2>3. CASE Reinsert(p) \/ AddSummary(p) \/ AddMarker(p)
    BY <1>1, <2>3 DEF Reinsert, AddSummary, AddMarker, AddMessage, tables
  <2>4. QED  BY <1>3, <2>1, <2>2, <2>3 DEF Step
<1>4. ASSUME NEW p \in Procs, Begin(p) \/ SqlError(p) PROVE WatermarkOrigin(s)
  BY <1>1, <1>4 DEF Begin, Start, StartMaybeCompact, StartRunCompact, StartRunResetSession,
     StartResetSession, SqlError, tables
<1>5. ASSUME NEW t \in Sessions, StoreMessage(t) \/ TouchRealtimeSession(t) PROVE WatermarkOrigin(s)
  BY <1>1, <1>5 DEF StoreMessage, AddMessage, TouchRealtimeSession, WatermarkOrigin, TypeOK, Meta
<1>6. CASE Crash \/ UNCHANGED vars
  BY <1>1, <1>6 DEF Crash, vars, tables
<1>7. QED  BY <1>3, <1>4, <1>5, <1>6 DEF Next

(* Where the watermark in an operation's copy of the meta row comes from.  *)
SeenOrigin(p) ==
  \/ op'[p].sess = op[p].sess /\ op'[p].seen = op[p].seen
  \/ op'[p].seen = 0
  \/ op'[p].sess = op[p].sess /\ op'[p].seen = meta[op[p].sess].wm
  \/ op'[p].sess = op[p].sess /\ Archive(p)

LEMMA StepSeen ==
  ASSUME TypeOK, [Next]_vars, ArchiveMayFail = FALSE, NEW q \in Procs PROVE SeenOrigin(q)
<1>1. CASE op'[q] = op[q] \/ op'[q] = Idle
  BY <1>1 DEF SeenOrigin, Idle
<1>2. ASSUME NEW p \in Procs, Begin(p) PROVE SeenOrigin(q)
  BY ZenonT(40), <1>1, <1>2 DEF Begin, Start, StartMaybeCompact, StartRunCompact, StartRunResetSession,
     StartResetSession, SeenOrigin, TypeOK, Idle
<1>3. ASSUME NEW p \in Procs, Step(p) PROVE SeenOrigin(q)
  <2>1. CASE ReadMeta(p)
    BY <1>1, <2>1 DEF ReadMeta, SeenOrigin, TypeOK, Op, Advance, Return
  <2>2. CASE Read(p)
    BY <1>1, <2>2 DEF Read, SeenOrigin, TypeOK, Op, Return
  <2>3. CASE SaveTokens(p) \/ Done(p)
    BY <1>1, <2>3 DEF SaveTokens, Done, SeenOrigin, PastThreshold, TypeOK, Op, Return
  <2>4. CASE Archive(p)
    <3>1. PICK b : AfterArchive(p, b)
      BY <2>4 DEF Archive
    <3>2. op'[q].sess = op[q].sess
      BY <3>1 DEF AfterArchive, TypeOK, Op
    <3>3. q # p => op'[q] = op[q]
      BY <3>1 DEF AfterArchive, TypeOK
    <3>4. QED  BY <1>1, <2>4, <3>2, <3>3 DEF SeenOrigin
  <2>5. CASE SaveMeta(p) \/ Clear(p) \/ ZeroMeta(p)
    BY <1>1, <2>5 DEF SaveMeta, Clear, ZeroMeta, Advance, SeenOrigin, TypeOK, Op
  <2>6. CASE Reinsert(p) \/ AddSummary(p) \/ AddMarker(p)
    BY <1>1, <2>6 DEF Reinsert, AddSummary, AddMarker, Advance, SeenOrigin, TypeOK, Op
  <2>7. QED  BY <1>3, <2>1, <2>2, <2>3, <2>4, <2>5, <2>6 DEF Step
<1>4. ASSUME NEW p \in Procs, SqlError(p) PROVE SeenOrigin(q)
  BY <1>1, <1>4 DEF SqlError, WriteError, ReadError, Advance, SeenOrigin, PastThreshold, TypeOK, Op
<1>5. CASE Crash \/ UNCHANGED vars \/ UNCHANGED op
  BY <1>1, <1>5 DEF Crash, vars
<1>6. QED  BY <1>2, <1>3, <1>4, <1>5 DEF Next, StoreMessage, TouchRealtimeSession

-----------------------------------------------------------------------------
(* ArchiveMessages(beforeID) leaves every row up to beforeID archived: the *)
(* rows at or below the watermark already were, it copies the others.      *)
LEMMA ArchiveSound ==
  ASSUME IInv, NEW p \in Procs, Archive(p)
  PROVE  op'[p].seen < nextId' /\ ArchivedNext(op[p].sess, op'[p].seen)
<1>. DEFINE s == op[p].sess
<1>1. PICK last \in OldRows(p) : ArchiveMessages(s, last.id) /\ AfterArchive(p, last.id)
  BY DEF Archive
<1>2. s \in Sessions /\ last.id \in Nat /\ last.id < nextId
  BY DEF IInv, IdsIssued, TypeOK, Op, OldRows, Row
<1>3. ArchivedNext(s, last.id)
  BY <1>1, <1>2 DEF ArchiveMessages, ArchivedNext, ArchivedUpTo, IInv, WatermarkSound, RowsOf, TypeOK, Row, Meta
<1>4. nextId' = nextId
  BY <1>1 DEF ArchiveMessages
<1>5. op'[p].seen = op[p].seen \/ op'[p].seen = last.id
  BY <1>1 DEF AfterArchive, IInv, TypeOK, Op
<1>6. ArchivedNext(s, op[p].seen)
  BY <1>1 DEF IInv, SeenSound, ArchivedNext, ArchivedUpTo, ArchiveMessages
<1>7. op[p].seen < nextId
  BY DEF IInv, IdsIssued
<1>8. QED  BY <1>2, <1>3, <1>4, <1>5, <1>6, <1>7

LEMMA NothingBelowOne ==
  ASSUME TypeOK, IdsIssued, TablesGrow, NEW s PROVE ArchivedNext(s, 0)
<1>1. \A r \in rows' : r.id \in Nat /\ 0 < r.id
  BY DEF TypeOK, IdsIssued, TablesGrow, Row
<1>2. QED  BY <1>1 DEF ArchivedNext

(* The rows an operation remembers were live when it read them.            *)
LEMMA StepSnap ==
  ASSUME TypeOK, [Next]_vars, NEW q \in Procs PROVE op'[q].snap \subseteq op[q].snap \cup rows
<1>1. CASE op'[q] = op[q] \/ op'[q] = Idle \/ op'[q].snap = op[q].snap \/ op'[q].snap = {}
  BY <1>1 DEF Idle
<1>2. ASSUME NEW p \in Procs, Begin(p) PROVE op'[q] = op[q] \/ op'[q].snap = {}
  BY ZenonT(40), <1>2 DEF Begin, Start, StartMaybeCompact, StartRunCompact, StartRunResetSession,
     StartResetSession, TypeOK, Idle
<1>3. ASSUME NEW p \in Procs, Step(p) PROVE op'[q].snap \subseteq op[q].snap \cup rows
  <2>1. CASE ReadMeta(p) \/ SaveTokens(p) \/ Done(p)
    BY <1>1, <2>1 DEF ReadMeta, SaveTokens, Done, PastThreshold, TypeOK, Op, Advance, Return
  <2>2. CASE Read(p)
    <3>1. GetMessages(op[p].sess, Limit(p)) \subseteq rows
      BY DEF GetMessages, RowsOf
    <3>2. op'[q] = op[q] \/ op'[q] = Idle \/ op'[q].snap = GetMessages(op[p].sess, Limit(p))
      BY <2>2 DEF Read, TypeOK, Op, Return
    <3>3. QED  BY <1>1, <3>1, <3>2
  <2>3. CASE Archive(p)
    BY <1>1, <2>3 DEF Archive, AfterArchive, TypeOK, Op
  <2>4. CASE SaveMeta(p) \/ Clear(p) \/ ZeroMeta(p)
    BY <1>1, <2>4 DEF SaveMeta, Clear, ZeroMeta, Advance, TypeOK, Op
  <2>5. CASE Reinsert(p) \/ AddSummary(p) \/ AddMarker(p)
    BY <1>1, <2>5 DEF Reinsert, AddSummary, AddMarker, Advance, TypeOK, Op
  <2>6. QED  BY <1>3, <2>1, <2>2, <2>3, <2>4, <2>5 DEF Step
<1>4. ASSUME NEW p \in Procs, SqlError(p) PROVE op'[q].snap \subseteq op[q].snap \cup rows
  BY <1>1, <1>4 DEF SqlError, WriteError, ReadError, AfterArchive, Advance, PastThreshold, TypeOK, Op
<1>5. CASE Crash \/ UNCHANGED vars \/ UNCHANGED op
  BY <1>1, <1>5 DEF Crash, vars
<1>6. QED  BY <1>1, <1>2, <1>3, <1>4, <1>5 DEF Next, StoreMessage, TouchRealtimeSession

LEMMA NextInv == ArchiveMayFail = FALSE /\ IInv /\ [Next]_vars => IInv'
<1>. SUFFICES ASSUME ArchiveMayFail = FALSE, IInv, [Next]_vars PROVE IInv'
  OBVIOUS
<1>1. TypeOK /\ TypeOK' /\ TablesGrow
  BY TypeNext, StepTables DEF IInv
<1>2. ASSUME NEW p \in Procs
      PROVE  op'[p].seen < nextId' /\ ArchivedNext(op'[p].sess, op'[p].seen)
  <2>1. SeenOrigin(p) /\ op[p].sess \in Sessions /\ op[p].seen \in Nat
    BY <1>1, StepSeen DEF TypeOK, Op
  <2>2. CASE op'[p].sess = op[p].sess /\ op'[p].seen = op[p].seen
    BY <1>1, <2>1, <2>2, ArchivedUpToStable DEF IInv, IdsIssued, SeenSound, TablesGrow, TypeOK
  <2>3. CASE op'[p].seen = 0
    BY <1>1, <2>3, NothingBelowOne DEF IInv, TypeOK
  <2>4. CASE op'[p].sess = op[p].sess /\ op'[p].seen = meta[op[p].sess].wm
    <3>1. meta[op[p].sess].wm \in Nat
      BY <1>1, <2>1 DEF TypeOK, Meta
    <3>2. QED
      BY <1>1, <2>1, <2>4, <3>1, ArchivedUpToStable
      DEF IInv, IdsIssued, WatermarkSound, TablesGrow, TypeOK
  <2>5. CASE op'[p].sess = op[p].sess /\ Archive(p)
    BY <2>5, ArchiveSound
  <2>6. QED  BY <2>1, <2>2, <2>3, <2>4, <2>5 DEF SeenOrigin
<1>3. ASSUME NEW s \in Sessions
      PROVE  meta'[s].wm < nextId' /\ ArchivedNext(s, meta'[s].wm)
  <2>1. WatermarkOrigin(s) /\ meta[s].wm \in Nat
    BY <1>1, StepWatermark DEF TypeOK, Meta
  <2>2. CASE meta'[s].wm = meta[s].wm
    BY <1>1, <2>1, <2>2, ArchivedUpToStable DEF IInv, IdsIssued, WatermarkSound, TablesGrow, TypeOK
  <2>3. CASE meta'[s].wm = 0
    BY <1>1, <2>3, NothingBelowOne DEF IInv, TypeOK
  <2>4. ASSUME NEW p \in Procs, op[p].sess = s, meta'[s].wm = op[p].seen
        PROVE  meta'[s].wm < nextId' /\ ArchivedNext(s, meta'[s].wm)
    <3>1. op[p].seen \in Nat /\ op[p].seen < nextId /\ ArchivedUpTo(s, op[p].seen)
      BY <2>4 DEF IInv, IdsIssued, SeenSound, TypeOK, Op
    <3>2. QED  BY <1>1, <2>4, <3>1, ArchivedUpToStable DEF TablesGrow, TypeOK
  <2>5. QED  BY <2>1, <2>2, <2>3, <2>4 DEF WatermarkOrigin
<1>4. IdsIssued'
  <2>1. \A r \in rows' : 0 < r.id /\ r.id < nextId'
    BY <1>1 DEF IInv, IdsIssued, TablesGrow, TypeOK, Row
  <2>2. ASSUME NEW p \in Procs, NEW r \in op'[p].snap PROVE r.id < nextId'
    <3>1. r \in op[p].snap \/ r \in rows
      BY <1>1, StepSnap
    <3>2. r.id \in Nat /\ r.id < nextId
      BY <1>1, <3>1 DEF IInv, IdsIssued, TypeOK, Op, Row
    <3>3. QED  BY <1>1, <3>2 DEF TablesGrow, TypeOK
  <2>3. QED  BY <1>2, <1>3, <2>1, <2>2 DEF IdsIssued
<1>5. QED  BY <1>1, <1>2, <1>3, <1>4 DEF IInv, WatermarkSound, SeenSound, ArchivedUpTo, ArchivedNext

-----------------------------------------------------------------------------
(* What an operation read: rows of its session, older than the read; an    *)
(* operation that has read nothing holds none.                             *)
SnapOK(o, n) ==
  /\ o.asOf <= n
  /\ \A r \in o.snap : r.sess = o.sess /\ r.id < o.asOf
  /\ (o.pc = "read" \/ (o.pc = "getMeta" /\ o.kind = "maybeCompact")) => o.snap = {}
  /\ o.kind = "ResetSession" => o.snap = {}
  /\ o.kind = "none" => o = Idle

SnapInv == IsFiniteSet(rows) /\ \A p \in Procs : SnapOK(op[p], nextId)

(* From the archiving to the clearing, a row that was read and is still    *)
(* live has been archived, will be re-inserted, or is a summary.           *)
Past(o) == o.pc = "clear" \/ (o.kind = "maybeCompact" /\ o.pc = "saveMeta")

Copied ==
  \A p \in Procs :
    Past(op[p]) => \A r \in op[p].snap \cap rows : r.kind = "summary" \/ r \in archive \/ r \in op[p].keep

(* A read that returned fewer rows than its LIMIT returned the session.    *)
Complete ==
  \A p \in Procs :
    Cardinality(op[p].snap) < Limit(p)
      => \A r \in rows : (r.sess = op[p].sess /\ r.id < op[p].asOf) => r \in op[p].snap

ClearInv == SnapInv /\ Copied /\ Complete

(* A goroutine's step leaves the operations of the others alone.           *)
LEMMA OthersStay ==
  ASSUME TypeOK, NEW p \in Procs, Begin(p) \/ Step(p) \/ SqlError(p), NEW q \in Procs, q # p
  PROVE  op'[q] = op[q]
<1>1. CASE Begin(p)
  BY <1>1 DEF Begin, Start, StartMaybeCompact, StartRunCompact, StartRunResetSession,
     StartResetSession, TypeOK
<1>2. CASE Step(p)
  BY <1>2 DEF Step, ReadMeta, Read, SaveTokens, Archive, SaveMeta, Clear, Reinsert, AddSummary, AddMarker,
     ZeroMeta, Done, Advance, Return, PastThreshold, AfterArchive, TypeOK
<1>3. CASE SqlError(p)
  BY <1>3 DEF SqlError, WriteError, ReadError, Advance, PastThreshold, AfterArchive, TypeOK
<1>4. QED
  BY <1>1, <1>2, <1>3

(* What a goroutine's step does to its operation: it ends ...              *)
Ended(p) == op'[p] = Idle

(* ... or starts ...                                                       *)
Started(p) ==
  /\ op[p] = Idle /\ UNCHANGED tables
  /\ op'[p].snap = {} /\ op'[p].keep = {} /\ op'[p].asOf = 0 /\ op'[p].kind \in Ops
  /\ \/ op'[p].kind = "maybeCompact" /\ op'[p].pc = "getMeta" /\ compactMu = NoProc /\ compactMu' = p
     \/ op'[p].kind = "ResetSession" /\ op'[p].pc = "clear" /\ compactMu' = compactMu
     \/ op'[p].kind \in {"runCompact", "runResetSession"} /\ op'[p].pc = "read" /\ compactMu' = compactMu

(* ... or reads the session ...                                            *)
Took(p) ==
  /\ op[p].pc = "read" /\ op[p].kind \in {"maybeCompact", "runCompact", "runResetSession"}
  /\ op'[p].snap = GetMessages(op[p].sess, Limit(p)) /\ op'[p].asOf = nextId
  /\ op'[p].sess = op[p].sess /\ op'[p].kind = op[p].kind /\ op'[p].keep = op[p].keep
  /\ op'[p].pc = Next1(p) \/ (op'[p].pc = "clear" /\ op'[p].snap = {} /\ op[p].kind = "runResetSession")
  /\ UNCHANGED tables /\ compactMu' = compactMu

(* ... or forgets what it read, with the DELETE ...                        *)
Dropped(p) ==
  /\ op[p].pc = "clear" /\ op[p].kind # "none" /\ op'[p].pc = Next1(p)
  /\ op'[p].snap = {} /\ op'[p].asOf = 0
  /\ op'[p].sess = op[p].sess /\ op'[p].kind = op[p].kind /\ op'[p].keep = op[p].keep
  /\ compactMu' = compactMu

(* ... or goes on with what it has read.                                   *)
Went(p) ==
  /\ op[p].kind # "none" /\ compactMu' = compactMu
  /\ op'[p].snap = op[p].snap /\ op'[p].asOf = op[p].asOf
  /\ op'[p].sess = op[p].sess /\ op'[p].kind = op[p].kind
  /\ \/ op'[p].pc = Next1(p) /\ op[p].pc # "read" /\ op[p].pc \in DOMAIN After[op[p].kind]
     \/ op'[p].pc = "done"
     \/ op'[p].pc = "clear" /\ op[p].pc = "read" /\ op[p].kind = "runResetSession"
     \/ op'[p].pc = "reinsert" /\ op[p].pc = "reinsert"
  /\ op[p].pc \in {"saveTokens", "reinsert"} \/ op'[p].keep = op[p].keep
  /\ op[p].pc = "archive" => Archive(p) \/ ArchiveMayFail

Moves(p) == Ended(p) \/ Started(p) \/ Took(p) \/ Dropped(p) \/ Went(p)

LEMMA BeginMoves ==
  ASSUME TypeOK, NEW p \in Procs, Begin(p)
  PROVE  Started(p)
<1>1. ASSUME NEW kind, NEW pc, NEW s, Start(p, kind, pc, s)
      PROVE  /\ op[p] = Idle /\ UNCHANGED tables /\ kind \in Ops
             /\ op'[p].snap = {} /\ op'[p].keep = {} /\ op'[p].asOf = 0
             /\ op'[p].kind = kind /\ op'[p].pc = pc
  BY <1>1 DEF Start, TypeOK, Idle
<1>2. ASSUME NEW s \in Sessions, StartMaybeCompact(p, s) PROVE Started(p)
  BY <1>2, <1>1 DEF StartMaybeCompact, Started
<1>3. ASSUME NEW s \in Sessions, StartResetSession(p, s) PROVE Started(p)
  BY <1>3, <1>1 DEF StartResetSession, Started
<1>4. CASE StartRunCompact(p)
  BY <1>4, <1>1 DEF StartRunCompact, Started
<1>5. CASE StartRunResetSession(p)
  BY <1>5, <1>1 DEF StartRunResetSession, Started
<1>6. QED
  BY <1>2, <1>3, <1>4, <1>5 DEF Begin

LEMMA ReadMoves ==
  ASSUME TypeOK, NEW p \in Procs, Read(p)
  PROVE  Took(p) \/ Return(p)
<1>1. At(p, "read") /\ UNCHANGED tables /\ op[p] \in Op /\ op[p].pc \in Program(op[p].kind)
  BY DEF Read, At, TypeOK
<1>2. CASE Return(p)
  BY <1>2
<1>3. CASE ~Return(p)
  <2>. DEFINE got == GetMessages(op[p].sess, Limit(p))
              pc == IF got = {} /\ op[p].kind = "runResetSession" THEN "clear" ELSE Next1(p)
  <2>1. op' = [op EXCEPT ![p] = [op[p] EXCEPT !.snap = got, !.asOf = nextId, !.pc = pc]] /\ Quiet
    BY <1>3 DEF Read
  <2>2. op[p].kind \in {"maybeCompact", "runCompact", "runResetSession"}
    BY <1>1 DEF At, Op, AllOps, Program, After
  <2>3. pc = Next1(p) \/ (pc = "clear" /\ got = {} /\ op[p].kind = "runResetSession")
    OBVIOUS
  <2>. HIDE DEF got, pc
  <2>4. op'[p] = [op[p] EXCEPT !.snap = got, !.asOf = nextId, !.pc = pc]
    BY <2>1 DEF TypeOK
  <2>5. /\ op'[p].snap = got /\ op'[p].asOf = nextId /\ op'[p].pc = pc
        /\ op'[p].sess = op[p].sess /\ op'[p].kind = op[p].kind /\ op'[p].keep = op[p].keep
    BY <1>1, <2>4 DEF Op
  <2>6. QED
    BY <1>1, <2>1, <2>2, <2>3, <2>5 DEF Took, At, got, Quiet
<1>4. QED
  BY <1>2, <1>3

(* The forms in which the operations change their records.                 *)
LEMMA PcMoves ==
  ASSUME TypeOK, NEW p \in Procs, NEW pc, op' = [op EXCEPT ![p].pc = pc]
  PROVE  /\ op'[p].snap = op[p].snap /\ op'[p].asOf = op[p].asOf /\ op'[p].sess = op[p].sess
         /\ op'[p].kind = op[p].kind /\ op'[p].pc = pc /\ op'[p].keep = op[p].keep
BY DEF TypeOK, Op

LEMMA SeenMoves ==
  ASSUME TypeOK, NEW p \in Procs, NEW pc, NEW seen, op' = [op EXCEPT ![p].pc = pc, ![p].seen = seen]
  PROVE  /\ op'[p].snap = op[p].snap /\ op'[p].asOf = op[p].asOf /\ op'[p].sess = op[p].sess
         /\ op'[p].kind = op[p].kind /\ op'[p].pc = pc /\ op'[p].keep = op[p].keep
BY DEF TypeOK, Op

LEMMA KeepMoves ==
  ASSUME TypeOK, NEW p \in Procs, NEW pc, NEW keep, op' = [op EXCEPT ![p].pc = pc, ![p].keep = keep]
  PROVE  /\ op'[p].snap = op[p].snap /\ op'[p].asOf = op[p].asOf /\ op'[p].sess = op[p].sess
         /\ op'[p].kind = op[p].kind /\ op'[p].pc = pc /\ op'[p].keep = keep
BY DEF TypeOK, Op

LEMMA ClearMoves ==
  ASSUME TypeOK, NEW p \in Procs, At(p, "clear"), compactMu' = compactMu,
         op' = [op EXCEPT ![p].pc = Next1(p), ![p].snap = {}, ![p].asOf = 0]
  PROVE  Dropped(p)
<1>. DEFINE o1 == [op[p] EXCEPT !.pc = Next1(p)]
            o2 == [o1 EXCEPT !.snap = {}]
            o3 == [o2 EXCEPT !.asOf = 0]
<1>1. op' = [op EXCEPT ![p] = o3] /\ op[p] \in Op
  BY DEF TypeOK
<1>2. /\ o1 = [kind |-> op[p].kind, pc |-> Next1(p), sess |-> op[p].sess, seen |-> op[p].seen,
               snap |-> op[p].snap, keep |-> op[p].keep, asOf |-> op[p].asOf]
  BY <1>1 DEF Op
<1>. HIDE DEF o1
<1>3. o2 = [kind |-> op[p].kind, pc |-> Next1(p), sess |-> op[p].sess, seen |-> op[p].seen,
            snap |-> {}, keep |-> op[p].keep, asOf |-> op[p].asOf]
  BY <1>2
<1>. HIDE DEF o2
<1>4. /\ o3.snap = {} /\ o3.asOf = 0 /\ o3.sess = op[p].sess
      /\ o3.kind = op[p].kind /\ o3.pc = Next1(p) /\ o3.keep = op[p].keep
  BY <1>3
<1>. HIDE DEF o3
<1>5. op'[p] = o3
  BY <1>1 DEF TypeOK
<1>6. QED
  BY <1>4, <1>5 DEF Dropped, At

LEMMA AdvanceMoves ==
  ASSUME TypeOK, NEW p \in Procs, NEW pc \in PCs, At(p, pc), pc \notin {"read", "archive", "done"},
         Advance(p), compactMu' = compactMu
  PROVE  Went(p)
<1>1. op[p].pc \in DOMAIN After[op[p].kind]
  BY DEF TypeOK, At, Program
<1>2. QED
  BY ZenonT(40), <1>1, PcMoves DEF At, Advance, Went

LEMMA ArchiveMoves ==
  ASSUME TypeOK, NEW p \in Procs, NEW b, At(p, "archive"), AfterArchive(p, b), compactMu' = compactMu,
         Archive(p) \/ ArchiveMayFail
  PROVE  Went(p)
<1>1. op[p].pc \in DOMAIN After[op[p].kind]
  BY DEF TypeOK, At, Program
<1>2. PICK seen : op' = [op EXCEPT ![p].pc = Next1(p), ![p].seen = seen]
  BY DEF AfterArchive
<1>3. QED
  BY <1>1, <1>2, SeenMoves DEF At, Went

LEMMA ThresholdMoves ==
  ASSUME TypeOK, NEW p \in Procs, At(p, "saveTokens"), PastThreshold(p), compactMu' = compactMu
  PROVE  Went(p) /\ op'[p].keep = KeepRows(op[p].snap) /\ op'[p].pc = Next1(p)
<1>1. op[p].pc \in DOMAIN After[op[p].kind]
  BY DEF TypeOK, At, Program
<1>. DEFINE pc == Next1(p)
            keep == KeepRows(op[p].snap)
<1>2. op' = [op EXCEPT ![p].pc = pc, ![p].keep = keep]
  BY DEF PastThreshold
<1>. HIDE DEF pc, keep
<1>3. /\ op'[p].snap = op[p].snap /\ op'[p].asOf = op[p].asOf /\ op'[p].sess = op[p].sess
      /\ op'[p].kind = op[p].kind /\ op'[p].pc = pc /\ op'[p].keep = keep
  BY <1>2 DEF TypeOK, Op
<1>4. QED
  BY <1>1, <1>3 DEF At, Went, pc, keep

(* The pending row leaves the hands of the compaction.                     *)
LEMMA ReinsertMoves ==
  ASSUME TypeOK, NEW p \in Procs, NEW r, At(p, "reinsert"), compactMu' = compactMu,
         op' = [op EXCEPT ![p].keep = @ \ {r}]
  PROVE  Went(p) /\ op'[p].keep = op[p].keep \ {r} /\ op'[p].pc = "reinsert"
BY DEF TypeOK, Op, Went, At

LEMMA EndMoves ==
  ASSUME TypeOK, NEW p \in Procs, Return(p) PROVE Ended(p)
BY DEF Return, Ended, TypeOK

LEMMA StepReturns ==
  ASSUME TypeOK, NEW p \in Procs, Step(p)
  PROVE  Return(p) \/ Took(p) \/ Dropped(p) \/ Went(p)
<1>1. CASE ReadMeta(p)
  <2>1. At(p, "getMeta") /\ "getMeta" \in PCs /\ op[p].pc \in DOMAIN After[op[p].kind]
    BY <1>1 DEF ReadMeta, At, TypeOK, Program, PCs
  <2>2. CASE op' = [op EXCEPT ![p].pc = Next1(p), ![p].seen = meta[op[p].sess].wm] /\ Quiet
    BY <2>1, <2>2, SeenMoves DEF Went, Quiet, At
  <2>3. CASE Advance(p) /\ Quiet
    BY <2>1, <2>3, AdvanceMoves DEF Quiet
  <2>4. QED
    BY <1>1, <2>2, <2>3 DEF ReadMeta
<1>2. CASE Read(p)
  BY <1>2, ReadMoves
<1>3. CASE SaveTokens(p)
  BY <1>3, ThresholdMoves DEF SaveTokens, Quiet
<1>4. CASE Archive(p)
  BY <1>4, ArchiveMoves DEF Archive, Quiet
<1>5. CASE SaveMeta(p) \/ ZeroMeta(p) \/ AddSummary(p) \/ AddMarker(p)
  BY <1>5, AdvanceMoves DEF SaveMeta, ZeroMeta, AddSummary, AddMarker, Quiet, PCs
<1>6. CASE Clear(p)
  BY <1>6, ClearMoves DEF Clear, Quiet
<1>7. CASE Reinsert(p)
  <2>1. At(p, "reinsert") /\ "reinsert" \in PCs /\ compactMu' = compactMu
    BY <1>7 DEF Reinsert, Quiet, PCs
  <2>2. CASE Advance(p)
    BY <2>1, <2>2, AdvanceMoves
  <2>3. ASSUME NEW r, op' = [op EXCEPT ![p].keep = @ \ {r}] PROVE Went(p)
    BY <2>1, <2>3, ReinsertMoves
  <2>4. QED
    BY <1>7, <2>2, <2>3 DEF Reinsert
<1>8. CASE Done(p)
  BY <1>8 DEF Done
<1>9. QED
  BY <1>1, <1>2, <1>3, <1>4, <1>5, <1>6, <1>7, <1>8 DEF Step

LEMMA StepMoves ==
  ASSUME TypeOK, NEW p \in Procs, Step(p)
  PROVE  Ended(p) \/ Took(p) \/ Dropped(p) \/ Went(p)
BY StepReturns, EndMoves

LEMMA ErrorMoves ==
  ASSUME TypeOK, NEW p \in Procs, SqlError(p)
  PROVE  UNCHANGED tables /\ (Dropped(p) \/ Went(p))
<1>0. UNCHANGED tables /\ compactMu' = compactMu
  BY DEF SqlError
<1>1. CASE ReadError(p)
  <2>1. PICK pc : op' = [op EXCEPT ![p].pc = pc]
    BY <1>1 DEF ReadError, Advance
  <2>2. CASE op[p].pc = "read"
    BY <1>0, <1>1, <2>2, PcMoves DEF ReadError, At, Went
  <2>3. CASE op[p].pc = "getMeta" /\ op[p].kind # "runCompact"
    BY <1>0, <1>1, <2>3, PcMoves DEF ReadError, At, Went
  <2>4. CASE op[p].pc = "getMeta" /\ op[p].kind = "runCompact"
    BY <1>0, <1>1, <2>4, AdvanceMoves DEF ReadError, At, PCs
  <2>5. QED
    BY <1>0, <1>1, <2>2, <2>3, <2>4 DEF ReadError, At
<1>2. CASE WriteError(p)
  <2>1. CASE At(p, "archive") /\ ArchiveMayFail
    BY <1>0, <1>2, <2>1, ArchiveMoves DEF WriteError, At
  <2>2. CASE At(p, "clear") /\ op[p].kind # "ResetSession"
    BY <1>0, <1>2, <2>2, ClearMoves DEF WriteError, At
  <2>3. CASE At(p, "clear") /\ op[p].kind = "ResetSession"
    BY <1>0, <1>2, <2>3, PcMoves DEF WriteError, At, Went
  <2>4. CASE At(p, "saveTokens")
    BY <1>0, <1>2, <2>4, PcMoves, ThresholdMoves DEF WriteError, At, Went
  <2>5. CASE At(p, "reinsert")
    BY <1>0, <1>2, <2>5, ReinsertMoves DEF WriteError, At
  <2>6. ASSUME NEW pc \in {"saveMeta", "summary", "marker", "zeroMeta"}, At(p, pc) PROVE Went(p)
    <3>1. pc \in PCs /\ Advance(p)
      BY <1>2, <2>6 DEF WriteError, At, PCs
    <3>2. QED
      BY <1>0, <2>6, <3>1, AdvanceMoves
  <2>7. QED
    BY <1>0, <1>2, <2>1, <2>2, <2>3, <2>4, <2>5, <2>6 DEF WriteError
<1>3. QED
  BY <1>0, <1>1, <1>2 DEF SqlError

LEMMA NextMoves ==
  ASSUME TypeOK, [Next]_vars, NEW q \in Procs
  PROVE  op'[q] = op[q] \/ Moves(q)
<1>1. ASSUME NEW p \in Procs, Begin(p) \/ Step(p) \/ SqlError(p) PROVE op'[q] = op[q] \/ Moves(q)
  <2>1. CASE q = p
    BY <1>1, <2>1, BeginMoves, StepMoves, ErrorMoves DEF Moves
  <2>2. CASE q # p
    BY <1>1, <2>2, OthersStay
  <2>3. QED
    BY <2>1, <2>2
<1>2. CASE Crash
  BY <1>2 DEF Crash, Moves, Ended
<1>3. ASSUME NEW s \in Sessions, StoreMessage(s) \/ TouchRealtimeSession(s) PROVE op'[q] = op[q]
  BY <1>3 DEF StoreMessage, TouchRealtimeSession
<1>4. CASE UNCHANGED vars
  BY <1>4 DEF vars
<1>5. QED
  BY <1>1, <1>2, <1>3, <1>4 DEF Next

-----------------------------------------------------------------------------
(* A nonempty set of ids has a least one.                                  *)
Less == {ij \in Nat \X Nat : ij[1] < ij[2]}

LEMMA LeastId ==
  ASSUME NEW T, T \subseteq Nat, T # {}
  PROVE  \E i \in T : \A j \in T : i <= j
<1>1. IsWellFoundedOn(Less, Nat)
  <2>1. Less = OpToRel(<, Nat)
    BY DEF Less, OpToRel
  <2>2. QED
    BY <2>1, NatLessThanWellFounded
<1>2. PICK i \in T : \A j \in T : <<j, i>> \notin Less
  BY <1>1, WFMin
<1>3. \A j \in T : ~(j < i)
  BY <1>2 DEF Less
<1>4. QED
  BY <1>3

LEMMA Counted ==
  ASSUME NEW S, IsFiniteSet(S), NEW T, T \subseteq S
  PROVE  /\ IsFiniteSet(T) /\ Cardinality(T) \in Nat /\ Cardinality(S) \in Nat
         /\ Cardinality(T) <= Cardinality(S)
<1>1. T \in SUBSET S
  OBVIOUS
<1>2. QED
  BY <1>1, FS_Subset, FS_CardinalityType

(* GetMessages that returns fewer rows than its LIMIT returns them all.    *)
LEMMA ReadComplete ==
  ASSUME TypeOK, IsFiniteSet(rows), NEW s, NEW n \in Nat, Cardinality(GetMessages(s, n)) < n
  PROVE  RowsOf(s) \subseteq GetMessages(s, n)
<1>. DEFINE cut == RowsOf(s) \ GetMessages(s, n)
            ids == {r.id : r \in cut}
<1>1. SUFFICES ASSUME cut # {} PROVE FALSE
  OBVIOUS
<1>2. \A r \in RowsOf(s) : r.id \in Nat
  BY DEF RowsOf, TypeOK, Row
<1>3. ids \subseteq Nat /\ ids # {}
  BY <1>1, <1>2
<1>4. PICK i \in ids : \A j \in ids : i <= j
  BY <1>3, LeastId
<1>5. PICK r \in cut : r.id = i
  BY <1>4
<1>. DEFINE below == {q \in RowsOf(s) : q.id < r.id}
<1>6. below \subseteq GetMessages(s, n)
  BY <1>2, <1>4, <1>5
<1>7. IsFiniteSet(GetMessages(s, n))
  BY Counted DEF GetMessages, RowsOf
<1>8. Cardinality(below) < n
  BY <1>6, <1>7, Counted
<1>9. r \in GetMessages(s, n)
  BY <1>5, <1>8 DEF GetMessages
<1>10. QED
  BY <1>5, <1>9

(* A step adds at most one row.                                            *)
AddsOne == \E x : rows' \subseteq rows \cup {x}

LEMMA StepAdds == TypeOK /\ [Next]_vars => AddsOne
<1>. SUFFICES ASSUME TypeOK, [Next]_vars PROVE AddsOne
  OBVIOUS
<1>0. rows' \subseteq rows => AddsOne
  BY DEF AddsOne
<1>a. \A s, kind, body : AddMessage(s, kind, body) => AddsOne
  BY DEF AddMessage, AddsOne
<1>1. ASSUME NEW p \in Procs, Begin(p) PROVE AddsOne
  BY <1>0, <1>1, BeginMoves DEF Started, tables
<1>2. ASSUME NEW p \in Procs, Step(p) PROVE AddsOne
  <2>1. CASE ReadMeta(p) \/ Read(p) \/ Done(p)
    BY <1>0, <2>1 DEF ReadMeta, Read, Done, tables
  <2>2. CASE SaveTokens(p) \/ SaveMeta(p) \/ ZeroMeta(p)
    BY <1>0, <2>2 DEF SaveTokens, SaveMeta, ZeroMeta, UpsertSessionMeta, tables
  <2>3. CASE Archive(p) \/ Clear(p)
    BY <1>0, <2>3 DEF Archive, ArchiveMessages, Clear, ClearMessages
  <2>4. CASE Reinsert(p) \/ AddSummary(p) \/ AddMarker(p)
    BY <1>0, <1>a, <2>4 DEF Reinsert, AddSummary, AddMarker, tables
  <2>5. QED
    BY <1>2, <2>1, <2>2, <2>3, <2>4 DEF Step
<1>3. ASSUME NEW p \in Procs, SqlError(p) PROVE AddsOne
  BY <1>0, <1>3 DEF SqlError, tables
<1>4. ASSUME NEW s \in Sessions, StoreMessage(s) \/ TouchRealtimeSession(s) PROVE AddsOne
  BY <1>0, <1>a, <1>4 DEF StoreMessage, TouchRealtimeSession
<1>5. CASE Crash \/ UNCHANGED vars
  BY <1>0, <1>5 DEF Crash, vars, tables
<1>6. QED
  BY <1>1, <1>2, <1>3, <1>4, <1>5 DEF Next

(* The statements around the read and the DELETE of each operation.        *)
LEMMA Order ==
  ASSUME NEW kind \in AllOps, NEW pc \in DOMAIN After[kind]
  PROVE  /\ After[kind][pc] = "read" => kind = "maybeCompact" /\ pc = "getMeta"
         /\ kind = "maybeCompact" => After[kind][pc] # "getMeta"
         /\ After[kind][pc] = "clear" => pc = "archive" \/ (kind = "maybeCompact" /\ pc = "saveMeta")
         /\ (kind = "maybeCompact" /\ After[kind][pc] = "saveMeta") => pc = "archive"
         /\ pc = "read" => /\ After[kind][pc] \notin {"read", "clear", "saveMeta"}
                           /\ kind = "maybeCompact" => After[kind][pc] = "saveTokens"
<1>1. CASE kind = "maybeCompact"
  BY <1>1 DEF After
<1>2. CASE kind = "runCompact"
  BY <1>2 DEF After
<1>3. CASE kind = "runResetSession"
  BY <1>3 DEF After
<1>4. CASE kind = "ResetSession"
  BY <1>4 DEF After
<1>5. QED
  BY <1>1, <1>2, <1>3, <1>4 DEF AllOps

LEMMA SnapNext ==
  ASSUME TypeOK, IdsIssued, SnapInv, [Next]_vars
  PROVE  SnapInv'
<1>0. TablesGrow /\ AddsOne /\ nextId \in Nat /\ nextId' \in Nat
  BY StepTables, StepAdds, TypeNext DEF TypeOK
<1>1. IsFiniteSet(rows')
  <2>1. PICK x : rows' \subseteq rows \cup {x}
    BY <1>0 DEF AddsOne
  <2>2. IsFiniteSet(rows \cup {x})
    BY FS_AddElement DEF SnapInv
  <2>3. QED
    BY <2>1, <2>2, Counted
<1>2. ASSUME NEW q \in Procs PROVE SnapOK(op'[q], nextId')
  <2>1. SnapOK(op[q], nextId) /\ op[q] \in Op /\ op[q].asOf \in Nat
    BY DEF SnapInv, TypeOK, Op
  <2>2. SnapOK(op[q], nextId')
    BY <1>0, <2>1 DEF SnapOK, TablesGrow
  <2>3. CASE Ended(q)
    BY <1>0, <2>3 DEF Ended, SnapOK, Idle
  <2>4. CASE Started(q)
    BY <1>0, <2>4, ConstantsOK DEF Started, SnapOK, AllOps
  <2>5. CASE Took(q)
    <3>1. op[q].sess = op'[q].sess /\ UNCHANGED nextId /\ op'[q].asOf = nextId
      BY <2>5 DEF Took, tables
    <3>2. \A r \in op'[q].snap : r.sess = op'[q].sess /\ r.id < op'[q].asOf
      BY <2>5, <3>1 DEF Took, GetMessages, RowsOf, IdsIssued
    <3>3. op[q].kind \in AllOps /\ "read" \in DOMAIN After[op[q].kind]
      BY <2>5 DEF Took, AllOps, After
    <3>4. op'[q].pc # "read" /\ ~(op'[q].pc = "getMeta" /\ op'[q].kind = "maybeCompact")
      BY <2>5, <3>3, Order DEF Took, Next1
    <3>5. op'[q].kind # "ResetSession" /\ op'[q].kind # "none"
      BY <2>5 DEF Took
    <3>6. QED
      BY <1>0, <3>1, <3>2, <3>4, <3>5 DEF SnapOK
  <2>6. CASE Dropped(q)
    BY <1>0, <2>6 DEF Dropped, SnapOK
  <2>7. CASE Went(q)
    <3>1. /\ op'[q].snap = op[q].snap /\ op'[q].asOf = op[q].asOf
          /\ op'[q].sess = op[q].sess /\ op'[q].kind = op[q].kind /\ op[q].kind # "none"
          /\ op[q].kind \in AllOps
      BY <2>1, <2>7 DEF Went, Op
    <3>2. (op'[q].pc = "read" \/ (op'[q].pc = "getMeta" /\ op'[q].kind = "maybeCompact")) => op[q].snap = {}
      <4>1. CASE op'[q].pc = Next1(q) /\ op[q].pc \in DOMAIN After[op[q].kind]
        BY <2>1, <3>1, <4>1, Order DEF SnapOK, Next1
      <4>2. QED
        BY <2>7, <4>1 DEF Went
    <3>3. QED
      BY <2>2, <3>1, <3>2 DEF SnapOK
  <2>8. QED
    BY <2>2, <2>3, <2>4, <2>5, <2>6, <2>7, NextMoves DEF Moves
<1>3. QED
  BY <1>1, <1>2 DEF SnapInv

(* Archiving copies all that a compaction or a reset is about to delete.   *)
LEMMA ArchiveCopies ==
  ASSUME IInv, SnapInv, NEW p \in Procs, Archive(p), NEW r \in op[p].snap \cap rows, r \notin op[p].keep
  PROVE  r.kind = "summary" \/ r \in archive'
<1>1. PICK last \in OldRows(p) : IsLast(last, OldRows(p)) /\ ArchiveMessages(op[p].sess, last.id)
  BY DEF Archive
<1>2. r \in OldRows(p) /\ r.sess = op[p].sess /\ r \in RowsOf(op[p].sess) /\ r.id <= last.id
  BY <1>1 DEF OldRows, RowsOf, IsLast, SnapInv, SnapOK
<1>3. r.id \in Nat /\ last.id \in Nat /\ op[p].sess \in Sessions /\ meta[op[p].sess].wm \in Nat
  BY <1>1 DEF OldRows, IInv, TypeOK, Op, Row, Meta
<1>4. CASE r.id <= meta[op[p].sess].wm
  <2>1. r.kind = "summary" \/ r \in archive
    BY <1>2, <1>3, <1>4 DEF IInv, WatermarkSound, ArchivedUpTo
  <2>2. QED
    BY <1>1, <2>1 DEF ArchiveMessages
<1>5. CASE r.id > meta[op[p].sess].wm
  BY <1>1, <1>2, <1>3, <1>5 DEF ArchiveMessages
<1>6. QED
  BY <1>3, <1>4, <1>5

LEMMA CopiedNext ==
  ASSUME IInv, SnapInv, Copied, ArchiveMayFail = FALSE, [Next]_vars
  PROVE  Copied'
<1>0. TypeOK /\ IdsIssued /\ TablesGrow
  BY StepTables DEF IInv
<1>1. ASSUME NEW q \in Procs, Past(op[q]), op'[q].snap = op[q].snap, op'[q].keep = op[q].keep,
             NEW r \in op'[q].snap \cap rows'
      PROVE  r.kind = "summary" \/ r \in archive' \/ r \in op'[q].keep
  <2>1. r \in op[q].snap /\ r.id < nextId /\ r.id \in Nat
    BY <1>0, <1>1 DEF IdsIssued, TypeOK, Op, Row
  <2>2. r \in rows
    BY <1>0, <1>1, <2>1 DEF TablesGrow, TypeOK
  <2>3. QED
    BY <1>0, <1>1, <2>1, <2>2 DEF Copied, TablesGrow
<1>2. ASSUME NEW q \in Procs, Archive(q), op'[q].snap = op[q].snap, op'[q].keep = op[q].keep,
             NEW r \in op'[q].snap \cap rows'
      PROVE  r.kind = "summary" \/ r \in archive' \/ r \in op'[q].keep
  <2>1. rows' = rows
    BY <1>2 DEF Archive, ArchiveMessages
  <2>2. QED
    BY <1>2, <2>1, ArchiveCopies
<1>3. ASSUME NEW q \in Procs, Past(op'[q]), NEW r \in op'[q].snap \cap rows'
      PROVE  r.kind = "summary" \/ r \in archive' \/ r \in op'[q].keep
  <2>0. SnapOK(op[q], nextId) /\ op[q] \in Op
    BY <1>0 DEF SnapInv, TypeOK
  <2>1. CASE op'[q] = op[q]
    BY <1>1, <1>3, <2>1
  <2>2. CASE Ended(q)
    BY <1>3, <2>2 DEF Ended, Idle
  <2>3. CASE Started(q) \/ Dropped(q)
    BY <1>3, <2>3 DEF Started, Dropped
  <2>4. CASE Took(q)
    <3>1. op[q].kind \in AllOps /\ "read" \in DOMAIN After[op[q].kind]
      BY <2>4 DEF Took, AllOps, After
    <3>2. Next1(q) \notin {"clear", "saveMeta"}
      BY <2>4, <3>1, Order DEF Took, Next1
    <3>3. QED
      BY <1>3, <2>4, <3>2 DEF Took, Past
  <2>5. CASE Went(q)
    <3>1. op'[q].snap = op[q].snap /\ op'[q].kind = op[q].kind /\ op[q].kind \in AllOps
      BY <2>0, <2>5 DEF Went, Op
    <3>2. CASE op'[q].pc = Next1(q) /\ op[q].pc \in DOMAIN After[op[q].kind]
      <4>1. op[q].pc = "archive" \/ (op[q].kind = "maybeCompact" /\ op[q].pc = "saveMeta")
        BY <1>3, <3>1, <3>2, Order DEF Past, Next1
      <4>2. op'[q].keep = op[q].keep
        BY <2>5, <4>1 DEF Went
      <4>3. Archive(q) \/ Past(op[q])
        BY <2>5, <4>1 DEF Went, Past
      <4>4. QED
        BY <1>1, <1>2, <1>3, <3>1, <4>2, <4>3
    <3>3. CASE op'[q].pc = "clear" /\ op[q].pc = "read"
      BY <1>3, <2>0, <3>1, <3>3 DEF SnapOK
    <3>4. QED
      BY <1>3, <2>5, <3>2, <3>3 DEF Went, Past
  <2>6. QED
    BY <1>0, <2>1, <2>2, <2>3, <2>4, <2>5, NextMoves DEF Moves
<1>4. QED
  BY <1>3 DEF Copied

LEMMA CompleteNext ==
  ASSUME TypeOK, IdsIssued, SnapInv, Complete, [Next]_vars
  PROVE  Complete'
<1>0. TablesGrow /\ \A r \in rows' : r.id \in Nat
  BY StepTables, TypeNext DEF TypeOK, Row
<1>1. ASSUME NEW q \in Procs, Cardinality(op'[q].snap) < Limit(q)',
             NEW r \in rows', r.sess = op'[q].sess, r.id < op'[q].asOf
      PROVE  r \in op'[q].snap
  <2>0. SnapOK(op[q], nextId) /\ op[q].asOf \in Nat /\ r.id \in Nat /\ nextId \in Nat
    BY <1>0 DEF SnapInv, TypeOK, Op
  <2>1. CASE op'[q].asOf = 0
    BY <1>1, <2>0, <2>1
  <2>2. CASE op'[q].snap = op[q].snap /\ op'[q].asOf = op[q].asOf
             /\ op'[q].sess = op[q].sess /\ op'[q].kind = op[q].kind
    <3>1. r \in rows
      BY <1>0, <1>1, <2>0, <2>2 DEF TablesGrow, SnapOK
    <3>2. QED
      BY <1>1, <2>2, <3>1 DEF Complete, Limit
  <2>3. CASE Took(q)
    <3>1. Limit(q)' = Limit(q) /\ Limit(q) \in Nat
      BY <2>3, ConstantsOK DEF Took, Limit
    <3>2. Cardinality(GetMessages(op[q].sess, Limit(q))) < Limit(q)
      BY <1>1, <2>3, <3>1 DEF Took
    <3>3. r \in RowsOf(op[q].sess)
      BY <1>1, <2>3 DEF Took, tables, RowsOf
    <3>4. QED
      BY <2>3, <3>1, <3>2, <3>3, ReadComplete DEF Took, SnapInv
  <2>4. QED
    BY <2>1, <2>2, <2>3, NextMoves DEF Moves, Ended, Started, Dropped, Went, Idle
<1>2. QED
  BY <1>1 DEF Complete

LEMMA ClearInit == Init => ClearInv
<1>. SUFFICES ASSUME Init PROVE ClearInv
  OBVIOUS
<1>1. \A p \in Procs : op[p] = Idle
  BY DEF Init
<1>2. SnapInv
  BY <1>1, FS_EmptySet DEF Init, SnapInv, SnapOK, Idle
<1>3. QED
  BY <1>1, <1>2 DEF Init, ClearInv, Copied, Complete, Past, Idle

LEMMA ClearNext ==
  ASSUME IInv, ClearInv, ArchiveMayFail = FALSE, [Next]_vars
  PROVE  ClearInv'
BY SnapNext, CopiedNext, CompleteNext DEF IInv, ClearInv

(* Only the DELETE itself, or its failure, gets an operation past it.      *)
LEMMA Clears ==
  ASSUME TypeOK, SnapInv, [Next]_vars, NEW p \in Procs,
         op[p].pc = "clear", op'[p].pc \in {"reinsert", "summary", "marker"}
  PROVE  Clear(p) \/ rows' = rows
<1>1. op[p].kind # "none" /\ op'[p] # op[p] /\ op'[p] # Idle
  BY DEF SnapInv, SnapOK, Idle
<1>2. ASSUME NEW q \in Procs, Begin(q) \/ Step(q) \/ SqlError(q) PROVE q = p
  BY <1>1, <1>2, OthersStay
<1>3. CASE Begin(p)
  BY <1>3, BeginMoves DEF Started, Idle
<1>4. CASE Step(p)
  BY <1>4 DEF Step, ReadMeta, Read, SaveTokens, Archive, SaveMeta, Clear, Reinsert, AddSummary, AddMarker,
     ZeroMeta, Done, At
<1>5. CASE SqlError(p)
  BY <1>5 DEF SqlError, tables
<1>6. CASE Crash \/ UNCHANGED vars
  BY <1>1, <1>6 DEF Crash, vars
<1>7. ASSUME NEW s \in Sessions, StoreMessage(s) \/ TouchRealtimeSession(s) PROVE FALSE
  BY <1>1, <1>7 DEF StoreMessage, TouchRealtimeSession
<1>8. QED
  BY <1>2, <1>3, <1>4, <1>5, <1>6, <1>7 DEF Next

-----------------------------------------------------------------------------
(* Automatic compactions and idle resets, without failing statements,      *)
(* archive a chat message once.  Two rows hold the same chat message:      *)
SameChat(r, q) == r.kind = "chat" /\ q.kind = "chat" /\ r.body = q.body

Stored == rows \cup archive

(* A chat message has one row, live or archived, and no archived row is    *)
(* among those the next automatic compaction would re-insert, however the  *)
(* last one was cut short.                                                 *)
NotKept == \A s \in Sessions : KeepRows(GetMessages(s, Window)) \cap archive = {}

TablesInv ==
  /\ \A r \in archive : r.id < nextId
  /\ \A r \in Stored : r.kind = "chat" => r.body <= bodies
  /\ \A r, q \in Stored : SameChat(r, q) => r = q
  /\ NotKept

(* What a compaction read is what is stored, each message once, and what   *)
(* it keeps is not archived ...                                            *)
SnapOnce(p) ==
  /\ \A k \in op[p].snap, r \in Stored \cup op[p].snap : SameChat(r, k) => r = k
  /\ KeepRows(op[p].snap) \cap archive = {}
  /\ op[p].pc # "saveTokens" => op[p].keep = KeepRows(op[p].snap)

(* ... the rows it read still begin the session, unless a reset deleted    *)
(* them all ...                                                            *)
SnapStands(p) ==
  \/ \A r \in RowsOf(op[p].sess) : r.id >= op[p].asOf
  \/ /\ op[p].snap \subseteq GetMessages(op[p].sess, Window)
     /\ \A r \in GetMessages(op[p].sess, Window) : r.id < op[p].asOf => r \in op[p].snap

(* ... and what it still has to re-insert is stored nowhere else.          *)
KeepOnce(p) ==
  \A k \in op[p].keep : /\ \A r \in Stored : ~SameChat(r, k)
                        /\ \A l \in op[p].keep : SameChat(l, k) => l = k

HandInv(p) ==
  op[p].kind = "maybeCompact" =>
    /\ compactMu = p
    /\ \A r \in op[p].snap \cup op[p].keep : r.kind = "chat" => r.body <= bodies
    /\ op[p].pc \in {"saveTokens", "archive", "saveMeta", "clear"} => SnapOnce(p)
    /\ op[p].pc \in {"saveTokens", "archive"} => SnapStands(p)
    /\ op[p].pc = "reinsert" => KeepOnce(p)

OnlyAutomatic == \A p \in Procs : op[p].kind \in {"none", "maybeCompact", "ResetSession"}

OnceInv == OnlyAutomatic /\ TablesInv /\ \A p \in Procs : HandInv(p)

-----------------------------------------------------------------------------
(* Counting rows.                                                          *)

(* The last rows of a longer snapshot are the last rows of a shorter one.  *)
LEMMA KeepShrinks ==
  ASSUME NEW T, IsFiniteSet(T), NEW S, S \subseteq T, NEW r \in S, r \in KeepRows(T)
  PROVE  r \in KeepRows(S)
<1>. DEFINE later(U) == {q \in U : q.id > r.id}
<1>1. IsFiniteSet(later(T)) /\ later(S) \subseteq later(T)
  BY Counted
<1>2. Cardinality(later(S)) <= Cardinality(later(T)) /\ Cardinality(later(S)) \in Nat
      /\ Cardinality(later(T)) \in Nat
  BY <1>1, Counted
<1>3. Cardinality(later(T)) < KeepMessages
  BY DEF KeepRows
<1>4. QED
  BY <1>2, <1>3, ConstantsOK DEF KeepRows

(* The rows before a kept one, in a snapshot, are not all kept, ...        *)
LEMMA KeptAreLast ==
  ASSUME NEW S, IsFiniteSet(S), \A r \in S : r.id \in Nat,
         NEW last \in S, last \notin KeepRows(S), NEW r \in S, r.id <= last.id
  PROVE  r \notin KeepRows(S)
<1>. DEFINE later(x) == {q \in S : q.id > x.id}
<1>1. later(last) \subseteq later(r) /\ IsFiniteSet(later(r))
  BY Counted
<1>2. Cardinality(later(last)) <= Cardinality(later(r)) /\ Cardinality(later(last)) \in Nat
      /\ Cardinality(later(r)) \in Nat
  BY <1>1, Counted
<1>3. ~(Cardinality(later(last)) < KeepMessages)
  BY DEF KeepRows
<1>4. ~(Cardinality(later(r)) < KeepMessages)
  BY <1>2, <1>3, ConstantsOK
<1>5. QED
  BY <1>4 DEF KeepRows

(* ... and a read returns every row before one that it returns.            *)
LEMMA ReadIsPrefix ==
  ASSUME TypeOK, IsFiniteSet(rows), NEW s, NEW n \in Nat,
         NEW last \in GetMessages(s, n), NEW r \in RowsOf(s), r.id <= last.id
  PROVE  r \in GetMessages(s, n)
<1>. DEFINE below(x) == {q \in RowsOf(s) : q.id < x.id}
<1>0. last \in RowsOf(s) /\ Cardinality(below(last)) < n
  BY DEF GetMessages
<1>1. \A q \in RowsOf(s) : q.id \in Nat
  BY DEF RowsOf, TypeOK, Row
<1>2. below(r) \subseteq below(last) /\ IsFiniteSet(below(last))
  <2>1. below(last) \subseteq rows
    BY DEF RowsOf
  <2>2. QED
    BY <1>0, <1>1, <2>1, Counted
<1>3. Cardinality(below(r)) <= Cardinality(below(last)) /\ Cardinality(below(r)) \in Nat
      /\ Cardinality(below(last)) \in Nat
  BY <1>2, Counted
<1>4. Cardinality(below(r)) < n
  BY <1>0, <1>3
<1>5. QED
  BY <1>4 DEF GetMessages

LEMMA ReadFinite ==
  ASSUME IsFiniteSet(rows), NEW s, NEW n
  PROVE  IsFiniteSet(GetMessages(s, n))
<1>1. GetMessages(s, n) \subseteq rows
  BY DEF GetMessages, RowsOf
<1>2. QED
  BY <1>1, Counted

(* A new row comes last, so a read returns what it would have returned and *)
(* perhaps the new row.                                                    *)
LEMMA ReadAfterAdd ==
  ASSUME TypeOK, IdsIssued, NEW s, NEW kind, NEW body, AddMessage(s, kind, body), NEW t, NEW n
  PROVE  /\ GetMessages(t, n) \subseteq GetMessages(t, n)'
         /\ \A r \in GetMessages(t, n)' : r.id < nextId => r \in GetMessages(t, n)
<1>. DEFINE below(r) == {q \in RowsOf(t) : q.id < r.id}
            new == [id |-> nextId, sess |-> s, kind |-> kind, body |-> body]
<1>1. rows' = rows \cup {new} /\ \A q \in rows : q.id \in Nat /\ q.id < nextId
  BY DEF AddMessage, IdsIssued, TypeOK, Row
<1>2. RowsOf(t)' = RowsOf(t) \cup (IF s = t THEN {new} ELSE {})
  BY <1>1 DEF RowsOf
<1>3. ASSUME NEW r \in rows PROVE {q \in RowsOf(t)' : q.id < r.id} = below(r)
  <2>1. r.id < nextId /\ r.id \in Nat /\ nextId \in Nat
    BY <1>1 DEF TypeOK
  <2>2. ~(new.id < r.id)
    BY <2>1
  <2>3. QED
    BY <1>2, <2>2
<1>4. \A r \in rows : r \in RowsOf(t)' <=> r \in RowsOf(t)
  BY <1>1 DEF RowsOf
<1>5. \A r \in rows : r \in GetMessages(t, n)' <=> r \in GetMessages(t, n)
  BY <1>3, <1>4 DEF GetMessages
<1>6. \A r \in GetMessages(t, n) : r \in rows
  BY DEF GetMessages, RowsOf
<1>7. \A r \in GetMessages(t, n)' : r \in rows \/ r.id = nextId
  BY <1>1 DEF GetMessages, RowsOf
<1>8. nextId \in Nat
  BY DEF TypeOK
<1>9. QED
  BY <1>5, <1>6, <1>7, <1>8

LEMMA ReadAfterClear ==
  ASSUME NEW s, ClearMessages(s), NEW t, NEW n
  PROVE  /\ RowsOf(s)' = {} /\ GetMessages(s, n)' = {}
         /\ t # s => RowsOf(t)' = RowsOf(t) /\ GetMessages(t, n)' = GetMessages(t, n)
<1>1. rows' = {r \in rows : r.sess # s}
  BY DEF ClearMessages
<1>2. RowsOf(s)' = {} /\ (t # s => RowsOf(t)' = RowsOf(t))
  BY <1>1 DEF RowsOf
<1>3. QED
  BY <1>2 DEF GetMessages

-----------------------------------------------------------------------------
(* What the statements do to the tables.                                   *)
LEMMA OnceSame ==
  ASSUME TablesInv, rows' = rows, archive' = archive, nextId' = nextId, bodies' = bodies
  PROVE  TablesInv'
BY DEF TablesInv, Stored, NotKept, GetMessages, RowsOf, KeepRows

LEMMA OnceCleared ==
  ASSUME TablesInv, NEW s, ClearMessages(s), bodies' = bodies
  PROVE  TablesInv'
<1>1. rows' \subseteq rows /\ archive' = archive /\ nextId' = nextId
  BY DEF ClearMessages
<1>2. NotKept'
  <2>1. ASSUME NEW t \in Sessions PROVE KeepRows(GetMessages(t, Window)') \cap archive' = {}
    <3>1. CASE t = s
      <4>1. GetMessages(t, Window)' = {}
        BY <3>1, ReadAfterClear
      <4>2. QED
        BY <4>1 DEF KeepRows
    <3>2. CASE t # s
      <4>1. GetMessages(t, Window)' = GetMessages(t, Window)
        BY <3>2, ReadAfterClear
      <4>2. QED
        BY <1>1, <4>1 DEF TablesInv, NotKept
    <3>3. QED
      BY <3>1, <3>2
  <2>2. QED
    BY <2>1 DEF NotKept, KeepRows
<1>3. QED
  BY <1>1, <1>2 DEF TablesInv, Stored

LEMMA OnceAdded ==
  ASSUME TypeOK, IdsIssued, IsFiniteSet(rows), IsFiniteSet(rows'), TablesInv,
         NEW s, NEW kind, NEW body, AddMessage(s, kind, body), bodies' \in Nat, bodies <= bodies',
         kind = "chat" => body <= bodies' /\ \A r \in Stored : ~(r.kind = "chat" /\ r.body = body)
  PROVE  TablesInv'
<1>. DEFINE new == [id |-> nextId, sess |-> s, kind |-> kind, body |-> body]
<1>1. rows' = rows \cup {new} /\ archive' = archive /\ nextId' = nextId + 1
      /\ nextId \in Nat /\ \A r \in archive : r.id \in Nat
  BY DEF AddMessage, TypeOK, Row
<1>2. Stored' = Stored \cup {new}
  BY <1>1 DEF Stored
<1>3. \A r \in archive' : r.id < nextId'
  BY <1>1 DEF TablesInv
<1>4. \A r \in Stored' : r.kind = "chat" => r.body <= bodies'
  <2>1. \A r \in Stored : r.body \in Nat
    BY DEF Stored, TypeOK, Row
  <2>2. bodies \in Nat
    BY DEF TypeOK
  <2>3. QED
    BY <1>2, <2>1, <2>2 DEF TablesInv
<1>5. \A r, q \in Stored' : SameChat(r, q) => r = q
  BY <1>2 DEF TablesInv, SameChat
<1>6. NotKept'
  <2>1. ASSUME NEW t \in Sessions, NEW r \in KeepRows(GetMessages(t, Window)'), r \in archive PROVE FALSE
    <3>1. r \in GetMessages(t, Window)' /\ r.id < nextId
      BY <2>1 DEF KeepRows, TablesInv
    <3>2. r \in GetMessages(t, Window) /\ GetMessages(t, Window) \subseteq GetMessages(t, Window)'
      BY <3>1, ReadAfterAdd
    <3>3. IsFiniteSet(GetMessages(t, Window)')
      <4>1. GetMessages(t, Window)' \subseteq rows'
        BY DEF GetMessages, RowsOf
      <4>2. QED
        BY <4>1, Counted
    <3>. DEFINE T == GetMessages(t, Window)'
    <3>4. r \in KeepRows(T)
      BY <2>1
    <3>. HIDE DEF T
    <3>5. r \in KeepRows(GetMessages(t, Window))
      BY <3>2, <3>3, <3>4, KeepShrinks DEF T
    <3>6. QED
      BY <2>1, <3>5 DEF TablesInv, NotKept
  <2>2. QED
    BY <1>1, <2>1 DEF NotKept, KeepRows
<1>7. QED
  BY <1>3, <1>4, <1>5, <1>6 DEF TablesInv

(* A compaction archives old rows of its snapshot and nothing else, though *)
(* it names them by an upper bound and a reset may have interfered.        *)
LEMMA ArchivesOld ==
  ASSUME TypeOK, IdsIssued, SnapInv, OnceInv, NEW p \in Procs, op[p].kind = "maybeCompact", Archive(p),
         NEW r \in archive', r \notin archive
  PROVE  /\ r \in rows /\ r \in op[p].snap /\ r.sess = op[p].sess /\ r \notin KeepRows(op[p].snap)
         /\ op[p].snap \subseteq GetMessages(op[p].sess, Window)
<1>0. /\ SnapOK(op[p], nextId) /\ SnapOnce(p) /\ SnapStands(p) /\ op[p].pc = "archive"
      /\ op[p].keep = KeepRows(op[p].snap) /\ op[p].sess \in Sessions /\ op[p].asOf \in Nat
      /\ \A q \in rows \cup op[p].snap : q.id \in Nat
  BY DEF SnapInv, OnceInv, HandInv, SnapOnce, Archive, At, TypeOK, Op, Row
<1>1. PICK last \in OldRows(p) : ArchiveMessages(op[p].sess, last.id)
  BY DEF Archive
<1>2. last \in op[p].snap /\ last \notin KeepRows(op[p].snap) /\ last.id < op[p].asOf /\ last.id \in Nat
  BY <1>0, <1>1 DEF OldRows, SnapOK
<1>3. r \in RowsOf(op[p].sess) /\ r.id <= last.id /\ r \in rows /\ r.sess = op[p].sess
  BY <1>1 DEF ArchiveMessages, RowsOf
<1>4. r.id < op[p].asOf /\ r.id \in Nat
  BY <1>0, <1>2, <1>3
<1>5. /\ op[p].snap \subseteq GetMessages(op[p].sess, Window)
      /\ \A q \in GetMessages(op[p].sess, Window) : q.id < op[p].asOf => q \in op[p].snap
  BY <1>0, <1>3, <1>4 DEF SnapStands
<1>6. last \in GetMessages(op[p].sess, Window)
  BY <1>2, <1>5
<1>7. r \in GetMessages(op[p].sess, Window)
  BY <1>3, <1>6, ReadIsPrefix, ConstantsOK DEF SnapInv
<1>8. r \in op[p].snap
  BY <1>4, <1>5, <1>7
<1>9. IsFiniteSet(op[p].snap)
  BY <1>5, ReadFinite, Counted DEF SnapInv
<1>10. r \notin KeepRows(op[p].snap)
  BY <1>0, <1>2, <1>3, <1>8, <1>9, KeptAreLast
<1>11. QED
  BY <1>3, <1>5, <1>8, <1>10

LEMMA OnceArchived ==
  ASSUME TypeOK, IdsIssued, SnapInv, OnceInv, NEW p \in Procs, op[p].kind = "maybeCompact", Archive(p)
  PROVE  /\ TablesInv' /\ KeepRows(op[p].snap) \cap archive' = {} /\ Stored' = Stored
         /\ rows' = rows /\ bodies' = bodies
<1>1. rows' = rows /\ nextId' = nextId /\ bodies' = bodies /\ archive \subseteq archive'
  BY DEF Archive, ArchiveMessages, Quiet
<1>2. KeepRows(op[p].snap) \cap archive = {} /\ TablesInv
  BY DEF OnceInv, HandInv, SnapOnce, Archive, At
<1>3. KeepRows(op[p].snap) \cap archive' = {}
  BY <1>2, ArchivesOld
<1>4. Stored' = Stored
  BY <1>1, ArchivesOld DEF Stored
<1>5. \A r \in archive' : r.id < nextId'
  BY <1>1, <1>2, ArchivesOld DEF TablesInv, IdsIssued
<1>6. NotKept'
  <2>1. ASSUME NEW t \in Sessions, NEW r \in KeepRows(GetMessages(t, Window)), r \in archive' PROVE FALSE
    <3>1. r \notin archive /\ r \in GetMessages(t, Window) /\ r.sess = t
      BY <1>2, <2>1 DEF TablesInv, NotKept, KeepRows, GetMessages, RowsOf
    <3>2. /\ r \in op[p].snap /\ t = op[p].sess /\ r \notin KeepRows(op[p].snap)
          /\ op[p].snap \subseteq GetMessages(t, Window)
      BY <2>1, <3>1, ArchivesOld
    <3>3. QED
      BY <2>1, <3>2, ReadFinite, KeepShrinks DEF SnapInv
  <2>2. QED
    BY <1>1, <2>1 DEF NotKept, GetMessages, RowsOf, KeepRows
<1>7. TablesInv'
  BY <1>1, <1>2, <1>4, <1>5, <1>6 DEF TablesInv
<1>8. QED
  BY <1>1, <1>3, <1>4, <1>7

-----------------------------------------------------------------------------
(* What the statements of others mean for a compaction.                    *)
TablesStay == rows' = rows /\ archive' = archive /\ nextId' = nextId /\ bodies' = bodies

LEMMA HandSame ==
  ASSUME OnceInv, NEW q \in Procs, op'[q] = op[q], compactMu = q => compactMu' = q, TablesStay
  PROVE  HandInv(q)'
BY DEF OnceInv, HandInv, TablesStay, SnapOnce, SnapStands, KeepOnce, Stored, KeepRows, GetMessages, RowsOf

LEMMA HandCleared ==
  ASSUME OnceInv, NEW q \in Procs, op'[q] = op[q], compactMu = q => compactMu' = q,
         NEW s, ClearMessages(s), bodies' = bodies
  PROVE  HandInv(q)'
<1>1. rows' \subseteq rows /\ archive' = archive
  BY DEF ClearMessages
<1>2. HandInv(q)
  BY DEF OnceInv
<1>3. SnapOnce(q) => SnapOnce(q)'
  BY <1>1 DEF SnapOnce, Stored, KeepRows
<1>4. KeepOnce(q) => KeepOnce(q)'
  BY <1>1 DEF KeepOnce, Stored
<1>5. SnapStands(q) => SnapStands(q)'
  <2>1. CASE op[q].sess = s
    BY <2>1, ReadAfterClear DEF SnapStands
  <2>2. CASE op[q].sess # s
    <3>1. /\ RowsOf(op[q].sess)' = RowsOf(op[q].sess)
          /\ GetMessages(op[q].sess, Window)' = GetMessages(op[q].sess, Window)
      BY <2>2, ReadAfterClear
    <3>2. QED
      BY <3>1 DEF SnapStands
  <2>3. QED
    BY <2>1, <2>2
<1>6. QED
  BY <1>2, <1>3, <1>4, <1>5 DEF HandInv

(* A new chat message is none of those a compaction has in its hands.      *)
LEMMA HandAdded ==
  ASSUME TypeOK, IdsIssued, SnapInv, OnceInv, NEW q \in Procs, op'[q] = op[q], compactMu' = compactMu,
         NEW s, AddMessage(s, "chat", bodies + 1), bodies' = bodies + 1
  PROVE  HandInv(q)'
<1>. DEFINE new == [id |-> nextId, sess |-> s, kind |-> "chat", body |-> bodies + 1]
<1>1. rows' = rows \cup {new} /\ archive' = archive /\ nextId \in Nat /\ bodies \in Nat
  BY DEF AddMessage, TypeOK
<1>2. HandInv(q) /\ SnapOK(op[q], nextId) /\ op[q].asOf \in Nat
      /\ \A r \in op[q].snap \cup op[q].keep : r.body \in Nat
  BY DEF OnceInv, SnapInv, TypeOK, Op, Row
<1>3. CASE op[q].kind = "maybeCompact"
  <2>1. \A r \in op[q].snap \cup op[q].keep : r.kind = "chat" => r.body <= bodies
    BY <1>2, <1>3 DEF HandInv
  <2>2. \A r \in op[q].snap \cup op[q].keep : ~SameChat(new, r)
    BY <1>1, <1>2, <2>1 DEF SameChat
  <2>3. Stored' = Stored \cup {new}
    BY <1>1 DEF Stored
  <2>4. SnapOnce(q) => SnapOnce(q)'
    BY <1>1, <2>2, <2>3 DEF SnapOnce, KeepRows
  <2>5. KeepOnce(q) => KeepOnce(q)'
    BY <2>2, <2>3 DEF KeepOnce
  <2>6. SnapStands(q) => SnapStands(q)'
    <3>1. ASSUME \A r \in RowsOf(op[q].sess) : r.id >= op[q].asOf
          PROVE  \A r \in RowsOf(op[q].sess)' : r.id >= op[q].asOf
      <4>1. nextId >= op[q].asOf
        BY <1>1, <1>2 DEF SnapOK
      <4>2. QED
        BY <1>1, <3>1, <4>1 DEF RowsOf
    <3>2. ASSUME /\ op[q].snap \subseteq GetMessages(op[q].sess, Window)
                 /\ \A r \in GetMessages(op[q].sess, Window) : r.id < op[q].asOf => r \in op[q].snap
          PROVE  /\ op[q].snap \subseteq GetMessages(op[q].sess, Window)'
                 /\ \A r \in GetMessages(op[q].sess, Window)' : r.id < op[q].asOf => r \in op[q].snap
      <4>1. /\ GetMessages(op[q].sess, Window) \subseteq GetMessages(op[q].sess, Window)'
            /\ \A r \in GetMessages(op[q].sess, Window)' :
                 r.id < nextId => r \in GetMessages(op[q].sess, Window)
        BY ReadAfterAdd
      <4>2. \A r \in GetMessages(op[q].sess, Window)' : r.id < op[q].asOf => r.id < nextId
        <5>1. \A r \in rows' : r.id \in Nat
          BY <1>1 DEF TypeOK, Row
        <5>2. QED
          BY <1>1, <1>2, <5>1 DEF GetMessages, RowsOf, SnapOK
      <4>3. QED
        BY <3>2, <4>1, <4>2
    <3>3. QED
      BY <3>1, <3>2 DEF SnapStands
  <2>7. \A r \in op[q].snap \cup op[q].keep : r.kind = "chat" => r.body <= bodies'
    BY <1>1, <1>2, <2>1
  <2>8. QED
    BY <1>2, <2>4, <2>5, <2>6, <2>7 DEF HandInv
<1>4. QED
  BY <1>3 DEF HandInv

(* What the statements of a compaction mean for itself.                    *)
LEMMA AutoOrder ==
  /\ After["maybeCompact"]["getMeta"] = "read" /\ After["maybeCompact"]["read"] = "saveTokens"
  /\ After["maybeCompact"]["saveTokens"] = "archive" /\ After["maybeCompact"]["archive"] = "saveMeta"
  /\ After["maybeCompact"]["saveMeta"] = "clear" /\ After["maybeCompact"]["clear"] = "reinsert"
  /\ After["maybeCompact"]["reinsert"] = "summary" /\ After["maybeCompact"]["summary"] = "done"
BY DEF After

LEMMA NotCompacting ==
  ASSUME NEW q, op'[q].kind # "maybeCompact" PROVE HandInv(q)'
BY DEF HandInv

LEMMA AutoReads ==
  ASSUME TypeOK, IdsIssued, SnapInv, OnceInv, NEW p \in Procs, op[p].kind = "maybeCompact",
         Took(p), bodies' = bodies
  PROVE  TablesStay /\ HandInv(p)'
<1>1. TablesStay
  BY DEF Took, tables, TablesStay
<1>2. HandInv(p) /\ TablesInv /\ Limit(p) = Window /\ op[p].sess \in Sessions
  BY DEF OnceInv, Limit, TypeOK, Op
<1>3. /\ op'[p].snap = GetMessages(op[p].sess, Window) /\ op'[p].asOf = nextId
      /\ op'[p].sess = op[p].sess /\ op'[p].keep = op[p].keep /\ op'[p].pc = "saveTokens"
      /\ compactMu' = compactMu
  BY <1>2, AutoOrder DEF Took, Next1
<1>4. op'[p].snap \subseteq rows
  BY <1>3 DEF GetMessages, RowsOf
<1>5. SnapOnce(p)'
  <2>1. Stored' = Stored /\ archive' = archive
    BY <1>1 DEF TablesStay, Stored
  <2>2. \A k \in op'[p].snap, r \in Stored \cup op'[p].snap : SameChat(r, k) => r = k
    BY <1>2, <1>4 DEF TablesInv, Stored
  <2>3. KeepRows(op'[p].snap) \cap archive = {}
    BY <1>2, <1>3 DEF TablesInv, NotKept
  <2>4. QED
    BY <1>3, <2>1, <2>2, <2>3 DEF SnapOnce, KeepRows
<1>6. SnapStands(p)'
  BY <1>1, <1>3 DEF SnapStands, TablesStay, GetMessages, RowsOf
<1>7. \A r \in op'[p].snap \cup op'[p].keep : r.kind = "chat" => r.body <= bodies'
  BY <1>2, <1>3, <1>4 DEF TablesInv, Stored, HandInv
<1>8. QED
  BY <1>1, <1>2, <1>3, <1>5, <1>6, <1>7 DEF HandInv

(* A statement that leaves the tables alone.                               *)
LEMMA AutoGoes ==
  ASSUME TypeOK, OnceInv, NEW p \in Procs, op[p].kind = "maybeCompact", Went(p), TablesStay,
         op'[p].keep = op[p].keep, op[p].pc \in {"getMeta", "saveMeta", "summary"}
  PROVE  HandInv(p)'
<1>1. /\ HandInv(p) /\ op'[p].snap = op[p].snap /\ op'[p].asOf = op[p].asOf /\ op'[p].sess = op[p].sess
      /\ op'[p].kind = op[p].kind /\ compactMu' = compactMu
      /\ op'[p].pc \in {"read", "done"} \/ (op[p].pc = "saveMeta" /\ op'[p].pc = "clear")
  BY AutoOrder DEF OnceInv, Went, Next1
<1>2. op[p].pc = "saveMeta" => SnapOnce(p)
  BY <1>1 DEF HandInv
<1>3. (op[p].pc = "saveMeta" /\ op'[p].pc = "clear") => SnapOnce(p)'
  BY <1>1, <1>2 DEF SnapOnce, TablesStay, Stored, KeepRows
<1>4. QED
  BY <1>1, <1>3 DEF HandInv, TablesStay

LEMMA AutoThreshold ==
  ASSUME TypeOK, OnceInv, NEW p \in Procs, op[p].kind = "maybeCompact", At(p, "saveTokens"),
         PastThreshold(p), TablesStay, compactMu' = compactMu
  PROVE  HandInv(p)'
<1>1. /\ Went(p) /\ op'[p].keep = KeepRows(op[p].snap) /\ op'[p].pc = "archive"
      /\ HandInv(p) /\ op[p].pc = "saveTokens"
  BY ThresholdMoves, AutoOrder DEF OnceInv, Next1, At
<1>2. /\ op'[p].snap = op[p].snap /\ op'[p].asOf = op[p].asOf /\ op'[p].sess = op[p].sess
      /\ op'[p].kind = op[p].kind /\ compactMu = p /\ SnapOnce(p) /\ SnapStands(p)
  BY <1>1 DEF Went, HandInv
<1>3. SnapOnce(p)'
  BY <1>1, <1>2 DEF SnapOnce, TablesStay, Stored, KeepRows
<1>4. SnapStands(p)'
  BY <1>2 DEF SnapStands, TablesStay, GetMessages, RowsOf
<1>5. KeepRows(op[p].snap) \subseteq op[p].snap
  BY DEF KeepRows
<1>6. QED
  BY <1>1, <1>2, <1>3, <1>4, <1>5 DEF HandInv, TablesStay

LEMMA AutoArchives ==
  ASSUME TypeOK, IdsIssued, SnapInv, OnceInv, NEW p \in Procs, op[p].kind = "maybeCompact", Archive(p)
  PROVE  TablesInv' /\ HandInv(p)'
<1>1. Went(p) /\ op[p].pc = "archive" /\ HandInv(p)
  BY ArchiveMoves DEF Archive, Quiet, At, OnceInv
<1>2. /\ op'[p].snap = op[p].snap /\ op'[p].keep = op[p].keep /\ op'[p].kind = op[p].kind
      /\ op'[p].pc \in {"saveMeta", "done"} /\ compactMu' = compactMu
  BY <1>1, AutoOrder DEF Went, Next1
<1>3. /\ TablesInv' /\ KeepRows(op[p].snap) \cap archive' = {} /\ Stored' = Stored /\ bodies' = bodies
  BY OnceArchived
<1>4. SnapOnce(p)'
  BY <1>1, <1>2, <1>3 DEF HandInv, SnapOnce, KeepRows
<1>5. QED
  BY <1>1, <1>2, <1>3, <1>4 DEF HandInv

(* With the session cleared, the kept rows are stored nowhere.             *)
LEMMA AutoClears ==
  ASSUME TypeOK, SnapInv, OnceInv, NEW p \in Procs, op[p].kind = "maybeCompact", Clear(p)
  PROVE  TablesInv' /\ HandInv(p)'
<1>1. /\ Dropped(p) /\ HandInv(p) /\ SnapOK(op[p], nextId) /\ ClearMessages(op[p].sess)
      /\ bodies' = bodies /\ op[p].pc = "clear" /\ TablesInv
  BY ClearMoves DEF Clear, Quiet, OnceInv, SnapInv, At
<1>2. /\ op'[p].snap = {} /\ op'[p].keep = op[p].keep /\ op'[p].kind = op[p].kind
      /\ op'[p].pc = "reinsert" /\ compactMu' = compactMu
  BY <1>1, AutoOrder DEF Dropped, Next1
<1>3. SnapOnce(p) /\ op[p].keep = KeepRows(op[p].snap) /\ op[p].keep \subseteq op[p].snap
  BY <1>1 DEF HandInv, SnapOnce, KeepRows
<1>4. KeepOnce(p)'
  <2>1. rows' = {r \in rows : r.sess # op[p].sess} /\ archive' = archive
    BY <1>1 DEF ClearMessages
  <2>2. ASSUME NEW k \in op[p].keep, NEW r \in Stored', SameChat(r, k) PROVE FALSE
    <3>1. r \in Stored /\ k \in op[p].snap
      BY <1>3, <2>1, <2>2 DEF Stored
    <3>2. r = k
      BY <1>3, <2>2, <3>1 DEF SnapOnce
    <3>3. k.sess = op[p].sess
      BY <1>1, <3>1 DEF SnapOK
    <3>4. k \in archive
      BY <2>1, <2>2, <3>2, <3>3 DEF Stored
    <3>5. QED
      BY <1>3, <2>2, <3>4 DEF SnapOnce
  <2>3. \A k, l \in op[p].keep : SameChat(l, k) => l = k
    BY <1>3 DEF SnapOnce
  <2>4. QED
    BY <1>2, <2>2, <2>3 DEF KeepOnce
<1>5. TablesInv'
  BY <1>1, OnceCleared
<1>6. QED
  BY <1>1, <1>2, <1>4, <1>5 DEF HandInv

LEMMA AutoReinserts ==
  ASSUME TypeOK, IdsIssued, SnapInv, SnapInv', OnceInv, NEW p \in Procs,
         op[p].kind = "maybeCompact", Reinsert(p)
  PROVE  TablesInv' /\ HandInv(p)'
<1>0. /\ At(p, "reinsert") /\ op[p].pc = "reinsert" /\ compactMu' = compactMu /\ bodies' = bodies
      /\ HandInv(p) /\ TablesInv /\ "reinsert" \in PCs /\ compactMu = p /\ KeepOnce(p)
      /\ bodies \in Nat
  BY DEF Reinsert, Quiet, At, OnceInv, HandInv, PCs, TypeOK
<1>1. CASE UNCHANGED tables /\ Advance(p)
  <2>1. Went(p) /\ op'[p].pc = Next1(p)
    BY <1>0, <1>1, AdvanceMoves, PcMoves DEF Advance
  <2>2. /\ op'[p].pc = "summary" /\ op'[p].snap = op[p].snap /\ op'[p].kind = op[p].kind
        /\ op'[p].keep = op[p].keep
    BY <1>0, <1>1, <2>1, AutoOrder, PcMoves DEF Next1, Advance
  <2>3. TablesInv'
    BY <1>0, <1>1, OnceSame DEF tables
  <2>4. QED
    BY <1>0, <2>2, <2>3 DEF HandInv
<1>2. ASSUME NEW k \in op[p].keep, AddMessage(op[p].sess, k.kind, k.body),
             op' = [op EXCEPT ![p].keep = @ \ {k}]
      PROVE  TablesInv' /\ HandInv(p)'
  <2>. DEFINE new == [id |-> nextId, sess |-> op[p].sess, kind |-> k.kind, body |-> k.body]
  <2>1. /\ Went(p) /\ op'[p].keep = op[p].keep \ {k} /\ op'[p].pc = "reinsert"
        /\ op'[p].snap = op[p].snap /\ op'[p].kind = op[p].kind
    BY <1>0, <1>2, ReinsertMoves DEF Went
  <2>2. k.kind = "chat" => k.body <= bodies /\ \A r \in Stored : ~(r.kind = "chat" /\ r.body = k.body)
    BY <1>0, <1>2 DEF HandInv, KeepOnce, SameChat
  <2>3. TablesInv'
    BY <1>0, <1>2, <2>2, OnceAdded DEF SnapInv
  <2>4. Stored' = Stored \cup {new}
    BY <1>2 DEF AddMessage, Stored
  <2>5. KeepOnce(p)'
    <3>1. ASSUME NEW l \in op[p].keep \ {k} PROVE ~SameChat(new, l)
      BY <1>0, <3>1 DEF KeepOnce, SameChat
    <3>2. QED
      BY <1>0, <2>1, <2>4, <3>1 DEF KeepOnce
  <2>6. QED
    BY <1>0, <2>1, <2>3, <2>5 DEF HandInv
<1>3. QED
  BY <1>1, <1>2 DEF Reinsert

LEMMA AutoSummarises ==
  ASSUME TypeOK, IdsIssued, SnapInv, SnapInv', OnceInv, NEW p \in Procs,
         op[p].kind = "maybeCompact", AddSummary(p)
  PROVE  TablesInv' /\ HandInv(p)'
<1>0. /\ At(p, "summary") /\ op[p].pc = "summary" /\ compactMu' = compactMu /\ bodies' = bodies
      /\ HandInv(p) /\ TablesInv /\ Advance(p) /\ bodies \in Nat
      /\ AddMessage(op[p].sess, "summary", 0)
  BY DEF AddSummary, Quiet, At, OnceInv, TypeOK
<1>1. TablesInv'
  BY <1>0, OnceAdded DEF SnapInv
<1>2. /\ op'[p].pc = "done" /\ op'[p].snap = op[p].snap /\ op'[p].kind = op[p].kind
      /\ op'[p].keep = op[p].keep
  <2>1. /\ op'[p].pc = Next1(p) /\ op'[p].snap = op[p].snap /\ op'[p].kind = op[p].kind
        /\ op'[p].keep = op[p].keep
    BY <1>0, PcMoves DEF Advance
  <2>2. QED
    BY <1>0, <2>1, AutoOrder DEF Next1
<1>3. QED
  BY <1>0, <1>1, <1>2 DEF HandInv

LEMMA AutoStep ==
  ASSUME TypeOK, IdsIssued, SnapInv, SnapInv', OnceInv, NEW p \in Procs,
         op[p].kind = "maybeCompact", Step(p)
  PROVE  TablesInv' /\ HandInv(p)'
<1>0. /\ HandInv(p) /\ TablesInv /\ op[p].pc \in Program("maybeCompact")
      /\ TablesStay => TablesInv'
  BY OnceSame DEF OnceInv, TypeOK, TablesStay
<1>1. Ended(p) => HandInv(p)'
  BY NotCompacting DEF Ended, Idle
<1>2. CASE ReadMeta(p)
  <2>1. TablesStay /\ op[p].pc = "getMeta" /\ At(p, "getMeta") /\ op[p].pc \in DOMAIN After[op[p].kind]
    BY <1>0, <1>2 DEF ReadMeta, tables, Quiet, Return, TablesStay, At, Program
  <2>2. CASE Return(p)
    BY <1>0, <1>1, <2>1, <2>2, EndMoves
  <2>3. CASE op' = [op EXCEPT ![p].pc = Next1(p), ![p].seen = meta[op[p].sess].wm] /\ Quiet
    <3>1. Went(p) /\ op'[p].keep = op[p].keep
      BY <2>1, <2>3, SeenMoves DEF Went, Quiet, At
    <3>2. QED
      BY <1>0, <2>1, <3>1, AutoGoes
  <2>4. QED
    BY <1>2, <2>2, <2>3 DEF ReadMeta
<1>3. CASE Read(p)
  <2>1. bodies' = bodies /\ TablesStay
    BY <1>3 DEF Read, Return, Quiet, tables, TablesStay
  <2>2. QED
    BY <1>0, <1>1, <1>3, <2>1, ReadMoves, EndMoves, AutoReads
<1>4. CASE SaveTokens(p)
  <2>1. TablesStay /\ At(p, "saveTokens")
    BY <1>4 DEF SaveTokens, UpsertSessionMeta, Return, Quiet, TablesStay
  <2>2. QED
    BY <1>0, <1>1, <1>4, <2>1, EndMoves, AutoThreshold DEF SaveTokens, Quiet
<1>5. CASE Archive(p)
  BY <1>5, AutoArchives
<1>6. CASE SaveMeta(p)
  <2>1. TablesStay /\ op[p].pc = "saveMeta" /\ Went(p) /\ op'[p].keep = op[p].keep
    BY <1>6, AdvanceMoves, PcMoves DEF SaveMeta, UpsertSessionMeta, Quiet, TablesStay, At, Advance, PCs
  <2>2. QED
    BY <1>0, <2>1, AutoGoes
<1>7. CASE Clear(p)
  BY <1>7, AutoClears
<1>8. CASE Reinsert(p)
  BY <1>8, AutoReinserts
<1>9. CASE AddSummary(p)
  BY <1>9, AutoSummarises
<1>10. CASE Done(p)
  <2>1. TablesStay
    BY <1>10 DEF Done, Return, tables, TablesStay
  <2>2. QED
    BY <1>0, <1>1, <1>10, <2>1, EndMoves DEF Done
<1>11. ~AddMarker(p) /\ ~ZeroMeta(p)
  BY <1>0 DEF AddMarker, ZeroMeta, At, Program, After
<1>12. QED
  BY <1>2, <1>3, <1>4, <1>5, <1>6, <1>7, <1>8, <1>9, <1>10, <1>11 DEF Step

(* A step of the idle reset deletes a session or leaves the rows alone.    *)
LEMMA ResetStep ==
  ASSUME TypeOK, NEW p \in Procs, op[p].kind = "ResetSession", Step(p)
  PROVE  \/ TablesStay
         \/ ClearMessages(op[p].sess) /\ bodies' = bodies
<1>1. op[p].pc \in {"clear", "zeroMeta", "done"}
  BY DEF TypeOK, Program, After
<1>2. CASE Clear(p)
  BY <1>2 DEF Clear, Quiet
<1>3. CASE ZeroMeta(p)
  BY <1>3 DEF ZeroMeta, UpsertSessionMeta, Quiet, tables, TablesStay
<1>4. CASE Done(p)
  BY <1>4 DEF Done, Return, tables, TablesStay
<1>5. QED
  BY <1>1, <1>2, <1>3, <1>4 DEF Step, ReadMeta, Read, SaveTokens, Archive, SaveMeta, Reinsert, AddSummary,
     AddMarker, At

LEMMA MuStays ==
  ASSUME TypeOK, NEW p \in Procs, Begin(p) \/ Step(p), NEW q \in Procs, q # p, compactMu = q
  PROVE  compactMu' = q
<1>1. CASE Begin(p)
  BY <1>1, BeginMoves, ConstantsOK DEF Started
<1>2. CASE Step(p)
  BY <1>2 DEF Step, ReadMeta, Read, SaveTokens, Archive, SaveMeta, Clear, Reinsert, AddSummary, AddMarker,
     ZeroMeta, Done, Return, Quiet
<1>3. QED
  BY <1>1, <1>2

(* The instance of the claim: automatic compactions and idle resets, and   *)
(* no statement fails.                                                     *)
Automatic == Ops \subseteq {"maybeCompact", "ResetSession"} /\ MaxSqlErrors = 0

LEMMA OnceNext ==
  ASSUME Automatic, TypeOK, IdsIssued, SnapInv, SnapInv', OnceInv, [Next]_vars
  PROVE  OnceInv'
<1>0. /\ TablesInv /\ \A q \in Procs : HandInv(q) /\ op[q].kind \in {"none", "maybeCompact", "ResetSession"}
      /\ TablesStay => TablesInv'
  BY OnceSame DEF OnceInv, OnlyAutomatic, TablesStay
<1>1. OnlyAutomatic'
  BY <1>0, NextMoves DEF Moves, Ended, Started, Took, Dropped, Went, Idle, OnlyAutomatic, Automatic
<1>2. ASSUME NEW p \in Procs, Begin(p) PROVE TablesInv' /\ \A q \in Procs : HandInv(q)'
  <2>1. Started(p) /\ TablesStay
    BY <1>2, BeginMoves DEF Begin, Start, StartMaybeCompact, StartRunCompact, StartRunResetSession,
       StartResetSession, tables, TablesStay
  <2>2. HandInv(p)'
    BY <2>1, ConstantsOK DEF Started, HandInv
  <2>3. ASSUME NEW q \in Procs, q # p PROVE HandInv(q)'
    BY <1>2, <2>1, <2>3, OthersStay, MuStays, HandSame
  <2>4. QED
    BY <1>0, <2>1, <2>2, <2>3
<1>3. ASSUME NEW p \in Procs, Step(p) PROVE TablesInv' /\ \A q \in Procs : HandInv(q)'
  <2>1. op[p].kind # "none"
    BY <1>3 DEF Step, ReadMeta, Read, SaveTokens, Archive, SaveMeta, Clear, Reinsert, AddSummary, AddMarker,
       ZeroMeta, Done, At
  <2>2. CASE op[p].kind = "maybeCompact"
    <3>1. ASSUME NEW q \in Procs, q # p PROVE HandInv(q)'
      <4>1. op'[q] = op[q] /\ op[q].kind # "maybeCompact"
        BY <1>0, <1>3, <2>2, <3>1, OthersStay DEF HandInv
      <4>2. QED
        BY <4>1, NotCompacting
    <3>2. QED
      BY <1>3, <2>2, <3>1, AutoStep
  <2>3. CASE op[p].kind = "ResetSession"
    <3>1. HandInv(p)'
      BY <1>3, <2>3, StepMoves, NotCompacting DEF Ended, Took, Dropped, Went, Idle
    <3>2. ASSUME NEW q \in Procs, q # p PROVE HandInv(q)'
      BY <1>3, <2>3, <3>2, ResetStep, OthersStay, MuStays, HandSame, HandCleared
    <3>3. TablesInv'
      BY <1>0, <1>3, <2>3, ResetStep, OnceCleared
    <3>4. QED
      BY <3>1, <3>2, <3>3
  <2>4. QED
    BY <1>0, <2>1, <2>2, <2>3
<1>4. ASSUME NEW p \in Procs, SqlError(p) PROVE FALSE
  BY <1>4 DEF SqlError, Automatic, TypeOK
<1>5. ASSUME NEW s \in Sessions, StoreMessage(s) PROVE TablesInv' /\ \A q \in Procs : HandInv(q)'
  <2>1. /\ AddMessage(s, "chat", bodies + 1) /\ bodies' = bodies + 1 /\ bodies \in Nat
        /\ op' = op /\ compactMu' = compactMu
    BY <1>5 DEF StoreMessage, TypeOK
  <2>2. \A r \in Stored : ~(r.kind = "chat" /\ r.body = bodies + 1)
    BY <1>0, <2>1 DEF TablesInv, Stored, TypeOK, Row
  <2>3. TablesInv'
    BY <1>0, <2>1, <2>2, OnceAdded DEF SnapInv
  <2>4. QED
    BY <2>1, <2>3, HandAdded
<1>6. ASSUME NEW s \in Sessions, TouchRealtimeSession(s) PROVE TablesInv' /\ \A q \in Procs : HandInv(q)'
  <2>1. TablesStay /\ op' = op /\ compactMu' = compactMu
    BY <1>6 DEF TouchRealtimeSession, TablesStay
  <2>2. QED
    BY <1>0, <2>1, HandSame
<1>7. ASSUME Crash PROVE TablesInv' /\ \A q \in Procs : HandInv(q)'
  <2>1. TablesStay /\ \A q \in Procs : op'[q].kind # "maybeCompact"
    BY <1>7 DEF Crash, tables, TablesStay, Idle
  <2>2. QED
    BY <1>0, <2>1, NotCompacting
<1>8. ASSUME UNCHANGED vars PROVE TablesInv' /\ \A q \in Procs : HandInv(q)'
  <2>1. TablesStay /\ op' = op /\ compactMu' = compactMu
    BY <1>8 DEF vars, TablesStay
  <2>2. QED
    BY <1>0, <2>1, HandSame
<1>9. TablesInv' /\ \A q \in Procs : HandInv(q)'
  BY <1>2, <1>3, <1>4, <1>5, <1>6, <1>7, <1>8 DEF Next
<1>10. QED
  BY <1>1, <1>9 DEF OnceInv

LEMMA OnceInit == Init => OnceInv
<1>. SUFFICES ASSUME Init PROVE OnceInv
  OBVIOUS
<1>1. rows = {} /\ archive = {} /\ \A p \in Procs : op[p].kind = "none"
  BY DEF Init, Idle
<1>2. TablesInv
  BY <1>1 DEF TablesInv, Stored, NotKept
<1>3. QED
  BY <1>1, <1>2 DEF OnceInv, OnlyAutomatic, HandInv

-----------------------------------------------------------------------------
(* The mutex of the automatic compaction.                                  *)

(* The mutex is held by the automatic compaction, and by it alone.         *)
MuInv == \A p \in Procs : op[p].kind = "maybeCompact" <=> compactMu = p

(* The statements of the automatic compaction are numbered in their order. *)
Place(pc) ==
  CASE pc = "getMeta" -> 1 [] pc = "read" -> 2 [] pc = "saveTokens" -> 3 [] pc = "archive" -> 4
    [] pc = "saveMeta" -> 5 [] pc = "clear" -> 6 [] pc = "reinsert" -> 7 [] pc = "summary" -> 8
    [] pc = "done" -> 9

(* The compaction still holds the mutex and has come nearer to its end:    *)
(* its next statement comes later, or fewer rows are left to re-insert.    *)
Nearer(p) ==
  /\ compactMu' = p
  /\ \/ Place(op'[p].pc) > Place(op[p].pc)
     \/ op'[p].pc = op[p].pc /\ op'[p].keep \subseteq op[p].keep /\ op'[p].keep # op[p].keep

LEMMA PlacesOrdered ==
  ASSUME NEW pc \in Program("maybeCompact")
  PROVE  /\ pc # "done" => /\ Place(After["maybeCompact"][pc]) > Place(pc)
                           /\ Place("done") > Place(pc)
         /\ pc \notin {"reinsert", "done"} => After["maybeCompact"][pc] # pc
BY DEF Program, After, Place

(* A step of a goroutine returns from the operation or leaves the mutex.   *)
LEMMA MuMoves ==
  ASSUME TypeOK, NEW p \in Procs, Step(p) \/ SqlError(p)
  PROVE  Return(p) \/ (compactMu' = compactMu /\ op'[p].kind = op[p].kind /\ op[p].kind # "none")
<1>1. Return(p) \/ Took(p) \/ Dropped(p) \/ Went(p)
  BY StepReturns, ErrorMoves
<1> QED
  BY <1>1 DEF Took, Dropped, Went

LEMMA MuInit == Init => MuInv
BY ConstantsOK DEF Init, MuInv, Idle

LEMMA MuNext ==
  ASSUME TypeOK, MuInv, [Next]_vars
  PROVE  MuInv'
<1>1. ASSUME NEW p \in Procs, Begin(p) PROVE MuInv'
  <2>1. Started(p) /\ op[p].kind = "none"
    BY <1>1, BeginMoves DEF Started, Idle
  <2>2. op'[p].kind = "maybeCompact" <=> compactMu' = p
    BY <2>1 DEF Started, MuInv
  <2>3. ASSUME NEW q \in Procs, q # p PROVE op'[q].kind = "maybeCompact" <=> compactMu' = q
    <3>1. op'[q] = op[q]
      BY <1>1, <2>3, OthersStay
    <3>2. compactMu' = compactMu \/ (compactMu = NoProc /\ compactMu' = p)
      BY <2>1 DEF Started
    <3> QED
      BY <2>3, <3>1, <3>2, ConstantsOK DEF MuInv
  <2> QED
    BY <2>2, <2>3 DEF MuInv
<1>2. ASSUME NEW p \in Procs, Step(p) \/ SqlError(p) PROVE MuInv'
  <2>1. \A q \in Procs : q # p => op'[q] = op[q]
    BY <1>2, OthersStay
  <2>2. CASE Return(p)
    <3>1. op'[p].kind = "none" /\ compactMu' = IF compactMu = p THEN NoProc ELSE compactMu
      <4>1. op'[p] = Idle
        BY <2>2, EndMoves DEF Ended
      <4> QED
        BY <2>2, <4>1 DEF Return, Idle
    <3> QED
      BY <2>1, <3>1, ConstantsOK DEF MuInv
  <2>3. CASE compactMu' = compactMu /\ op'[p].kind = op[p].kind
    BY <2>1, <2>3 DEF MuInv
  <2> QED
    BY <1>2, <2>2, <2>3, MuMoves
<1>3. CASE Crash
  BY <1>3, ConstantsOK DEF Crash, MuInv, Idle
<1>4. CASE (\E s \in Sessions : StoreMessage(s) \/ TouchRealtimeSession(s)) \/ UNCHANGED vars
  BY <1>4 DEF StoreMessage, TouchRealtimeSession, vars, MuInv
<1> QED
  BY <1>1, <1>2, <1>3, <1>4 DEF Next

(* The re-insertion takes the kept rows one by one.                        *)
LEMMA ReinsertNearer ==
  ASSUME TypeOK, NEW p \in Procs, Step(p) \/ SqlError(p), op[p].pc = "reinsert", op[p].kind = "maybeCompact"
  PROVE  \/ op'[p].pc = "summary"
         \/ op'[p].pc = "reinsert" /\ op'[p].keep \subseteq op[p].keep /\ op'[p].keep # op[p].keep
<1>1. At(p, "reinsert") /\ op[p] \in Op
  BY DEF At, TypeOK
<1>2. compactMu' = compactMu /\ (Reinsert(p) \/ (SqlError(p) /\ WriteError(p)))
  BY <1>1 DEF Step, SqlError, ReadError, ReadMeta, Read, SaveTokens, Archive, SaveMeta, Clear, Reinsert,
     AddSummary, AddMarker, ZeroMeta, Done, At, Quiet
<1>3. ASSUME NEW r \in op[p].keep, op' = [op EXCEPT ![p].keep = @ \ {r}]
      PROVE  op'[p].pc = "reinsert" /\ op'[p].keep \subseteq op[p].keep /\ op'[p].keep # op[p].keep
  BY <1>1, <1>2, <1>3, ReinsertMoves
<1>4. Advance(p) => op'[p].pc = "summary"
  <2>1. Advance(p) => op'[p].pc = Next1(p)
    BY PcMoves DEF Advance
  <2> QED
    BY <2>1 DEF Next1, After
<1> QED
  BY <1>1, <1>2, <1>3, <1>4 DEF Reinsert, WriteError, At

(* The holder of the mutex goes on or gives it back.                       *)
LEMMA HolderAdvances ==
  ASSUME TypeOK, MuInv, NEW p \in Procs, compactMu = p, Step(p) \/ SqlError(p)
  PROVE  compactMu' = NoProc \/ Nearer(p)
<1>1. op[p].kind = "maybeCompact" /\ op[p].pc \in Program("maybeCompact")
  BY DEF MuInv, TypeOK
<1>2. CASE Return(p)
  BY <1>2 DEF Return
<1>3. CASE ~Return(p)
  <2>1. Took(p) \/ Dropped(p) \/ Went(p)
    BY <1>3, StepReturns, ErrorMoves
  <2>2. compactMu' = p
    BY <2>1 DEF Took, Dropped, Went
  <2>3. op[p].pc # "done"
    BY <1>1, <1>3 DEF Step, SqlError, WriteError, ReadError, ReadMeta, Read, SaveTokens, Archive, SaveMeta,
       Clear, Reinsert, AddSummary, AddMarker, ZeroMeta, Done, At
  <2>4. CASE op[p].pc = "reinsert"
    <3>1. Place("summary") > Place("reinsert")
      BY DEF Place
    <3> QED
      BY <1>1, <2>2, <2>4, <3>1, ReinsertNearer DEF Nearer
  <2>5. CASE op[p].pc # "reinsert"
    <3>1. op'[p].pc = After["maybeCompact"][op[p].pc] \/ op'[p].pc = "done"
      BY <1>1, <2>1, <2>5 DEF Took, Dropped, Went, Next1
    <3> QED
      BY <1>1, <2>2, <2>3, <3>1, PlacesOrdered DEF Nearer
  <2> QED
    BY <2>4, <2>5
<1> QED
  BY <1>2, <1>3

(* Nobody else touches the mutex or the operation of its holder.           *)
LEMMA HolderStays ==
  ASSUME TypeOK, MuInv, NEW p \in Procs, compactMu = p, [Next]_vars, ~(Step(p) \/ SqlError(p) \/ Crash)
  PROVE  compactMu' = p /\ op'[p] = op[p]
<1>1. op[p].kind = "maybeCompact" /\ p # NoProc
  BY ConstantsOK DEF MuInv
<1>2. ASSUME NEW q \in Procs, Begin(q) \/ Step(q) \/ SqlError(q)
      PROVE  compactMu' = p /\ op'[p] = op[p]
  <2>1. q # p
    BY <1>1, <1>2, BeginMoves DEF Started, Idle
  <2>2. op'[p] = op[p]
    BY <1>2, <2>1, OthersStay
  <2>3. compactMu' = p
    BY <1>2, <2>1, MuStays DEF SqlError
  <2> QED
    BY <2>2, <2>3
<1>3. CASE (\E s \in Sessions : StoreMessage(s) \/ TouchRealtimeSession(s)) \/ UNCHANGED vars
  BY <1>3 DEF StoreMessage, TouchRealtimeSession, vars
<1> QED
  BY <1>2, <1>3 DEF Next

-----------------------------------------------------------------------------
(* The variables keep their types in every behaviour: in particular every  *)
(* operation only ever reaches statements of its own program.              *)
THEOREM TypeCorrect == Spec => []TypeOK
<1>1. Init => TypeOK
  BY InitInv DEF IInv
<1>2. QED  BY <1>1, TypeNext, PTL DEF Spec

(* If no ArchiveMessages statement fails, skipping the rows at or below    *)
(* the watermark never skips an unarchived one, in any interleaving of     *)
(* automatic compactions, /compact, /reset and idle resets, across any     *)
(* crashes and any failures of the other statements.                       *)
THEOREM WatermarkIsSound == ArchiveMayFail = FALSE => (Spec => []WatermarkSound)
<1>. SUFFICES ASSUME ArchiveMayFail = FALSE PROVE Spec => []WatermarkSound
  OBVIOUS
<1>1. Init => IInv
  BY InitInv
<1>2. IInv /\ [Next]_vars => IInv'
  BY NextInv
<1>3. IInv => WatermarkSound
  BY DEF IInv
<1>4. QED  BY <1>1, <1>2, <1>3, PTL DEF Spec

(* If no ArchiveMessages statement fails, an operation that rewrites a     *)
(* session deletes nothing that it has read and that is not archived, kept *)
(* or a summary, whatever the other operations did since it read.          *)
THEOREM NothingReadIsLost == ArchiveMayFail = FALSE => (Spec => ClearKeepsWhatWasRead)
<1>. SUFFICES ASSUME ArchiveMayFail = FALSE PROVE Spec => ClearKeepsWhatWasRead
  OBVIOUS
<1>. DEFINE Kept1 == \A p \in Procs :
       (op[p].pc = "clear" /\ op'[p].pc \in {"reinsert", "summary", "marker"})
         => \A r \in (op[p].snap \cap rows) \ rows' :
              r.kind = "summary" \/ r \in archive \/ r \in op[p].keep
<1>1. IInv /\ ClearInv /\ [Next]_vars => (IInv /\ ClearInv)'
  BY NextInv, ClearNext
<1>2. IInv /\ ClearInv /\ [Next]_vars => [Kept1]_vars
  BY DEF ClearInv, Copied, Past
<1>3. QED
  BY <1>1, <1>2, InitInv, ClearInit, PTL DEF Spec, ClearKeepsWhatWasRead

(* And when the read was not cut off by its LIMIT, nothing that the        *)
(* session held at that moment is lost by the DELETE.                      *)
THEOREM NothingOldIsLost == ArchiveMayFail = FALSE => (Spec => ClearKeepsWhatExisted)
<1>. SUFFICES ASSUME ArchiveMayFail = FALSE PROVE Spec => ClearKeepsWhatExisted
  OBVIOUS
<1>. DEFINE Kept1 == \A p \in Procs :
       (/\ op[p].pc = "clear" /\ op'[p].pc \in {"reinsert", "summary", "marker"}
        /\ Cardinality(op[p].snap) < Limit(p))
         => \A r \in rows \ rows' :
              \/ r.id >= op[p].asOf
              \/ r.kind = "summary" \/ r \in archive \/ r \in op[p].keep
<1>1. IInv /\ ClearInv /\ [Next]_vars => (IInv /\ ClearInv)'
  BY NextInv, ClearNext
<1>2. IInv /\ ClearInv /\ [Next]_vars => [Kept1]_vars
  <2>. SUFFICES ASSUME IInv, ClearInv, [Next]_vars, NEW p \in Procs,
                       op[p].pc = "clear", op'[p].pc \in {"reinsert", "summary", "marker"},
                       Cardinality(op[p].snap) < Limit(p),
                       NEW r \in rows \ rows', ~(r.id >= op[p].asOf)
                PROVE  r.kind = "summary" \/ r \in archive \/ r \in op[p].keep
    OBVIOUS
  <2>1. r.id \in Nat /\ op[p].asOf \in Nat /\ TypeOK
    BY DEF IInv, TypeOK, Row, Op
  <2>2. r.sess = op[p].sess
    BY <2>1, Clears DEF ClearInv, Clear, ClearMessages
  <2>3. r \in op[p].snap
    BY <2>1, <2>2 DEF ClearInv, Complete
  <2>4. QED
    BY <2>3 DEF ClearInv, Copied, Past
<1>3. QED
  BY <1>1, <1>2, InitInv, ClearInit, PTL DEF Spec, ClearKeepsWhatExisted

(* Where only automatic compactions and idle resets rewrite sessions and   *)
(* no statement fails, a chat message is archived under one id only,       *)
(* across any crashes and however a reset cuts into a compaction.          *)
THEOREM OneArchivedCopy == Automatic /\ ArchiveMayFail = FALSE => (Spec => []ArchivedOnce)
<1>. SUFFICES ASSUME Automatic, ArchiveMayFail = FALSE PROVE Spec => []ArchivedOnce
  OBVIOUS
<1>1. IInv /\ ClearInv /\ OnceInv /\ [Next]_vars => (IInv /\ ClearInv /\ OnceInv)'
  <2>. SUFFICES ASSUME IInv, ClearInv, OnceInv, [Next]_vars PROVE (IInv /\ ClearInv /\ OnceInv)'
    OBVIOUS
  <2>1. IInv' /\ ClearInv'
    BY NextInv, ClearNext
  <2>2. QED
    BY <2>1, OnceNext DEF IInv, ClearInv
<1>2. OnceInv => ArchivedOnce
  BY DEF OnceInv, TablesInv, Stored, SameChat, ArchivedOnce
<1>3. QED
  BY <1>1, <1>2, InitInv, ClearInit, OnceInit, PTL DEF Spec
(* Automatic compaction is never locked out for good by one that has gone: *)
(* the mutex is held by a compaction under way and by no other goroutine.  *)
(* Whatever statement fails, row is unreadable or answer is empty, every   *)
(* step of that compaction returns and unlocks, reaches a later statement  *)
(* or leaves fewer rows to re-insert, and no other step but a restart of   *)
(* the agent interferes.                                                   *)
THEOREM CompactionAdvances ==
  Spec => /\ []MuInv
          /\ [][\A p \in Procs : compactMu = p =>
                  /\ Step(p) \/ SqlError(p) => compactMu' = NoProc \/ Nearer(p)
                  /\ ~(Step(p) \/ SqlError(p) \/ Crash) => compactMu' = p /\ op'[p] = op[p]]_vars
<1>1. Init => TypeOK /\ MuInv
  BY InitInv, MuInit DEF IInv
<1>2. TypeOK /\ MuInv /\ [Next]_vars => (TypeOK /\ MuInv)'
  BY TypeNext, MuNext
<1>3. TypeOK /\ MuInv /\ [Next]_vars =>
        [\A p \in Procs : compactMu = p =>
           /\ Step(p) \/ SqlError(p) => compactMu' = NoProc \/ Nearer(p)
           /\ ~(Step(p) \/ SqlError(p) \/ Crash) => compactMu' = p /\ op'[p] = op[p]]_vars
  BY HolderAdvances, HolderStays
<1> QED
  BY <1>1, <1>2, <1>3, PTL DEF Spec
=============================================================================
