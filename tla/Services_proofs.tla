-------------------------- MODULE Services_proofs --------------------------
(***************************************************************************)
(* Proofs about the components that MCServices puts side by side, for any  *)
(* constants: each keeps its invariant in its own steps and is left alone  *)
(* by the steps of the others.                                             *)
(***************************************************************************)
EXTENDS MCServices, Agent_proofs, CronExpr_proofs, Gateway_proofs, Processes_proofs

(* What each component's types follow from.                                *)
AllInv ==
  /\ ProcIInv /\ BotInv /\ QuotaTypeOK /\ SvcTInv
  /\ FtsInv /\ IndexTypes
  /\ ChatInv /\ DetectorInv
  /\ SearchInv /\ now \in Starts
  /\ IInv /\ StreamIInv

LEMMA AllInit == ServicesInit => AllInv
<1> SUFFICES ASSUME ServicesInit PROVE AllInv
  OBVIOUS
<1>1. ProcIInv /\ SvcTInv
  BY ProcInitInv, SvcTypesInit DEF ServicesInit
<1>2. BotInv /\ QuotaTypeOK /\ IInv /\ StreamIInv
  <2>1. QuotaTypeOK
    BY RateLimitConstantsOK DEF ServicesInit, QuotaInit, QuotaTypeOK
  <2> QED
    BY <2>1, BotInvInit, InitInv, StreamInitInv DEF ServicesInit
<1>3. FtsInv /\ IndexTypes /\ ChatInv /\ DetectorInv
  BY FtsInit, MemoryInitTypes, ChatInitInv, DetectorInit DEF ServicesInit
<1>4. SearchInv /\ now \in Starts
  BY SearchStarts DEF ServicesInit, ExprInit
<1> QED
  BY <1>1, <1>2, <1>3, <1>4 DEF AllInv

LEMMA AllNext == AllInv /\ [ServicesNext]_allVars => AllInv'
<1> SUFFICES ASSUME AllInv, [ServicesNext]_allVars PROVE AllInv'
  OBVIOUS
<1>1. /\ [ProcNext]_procVars /\ [BotNext]_botVars /\ [QuotaNext]_quotaVars /\ [ServiceNext]_svcVars
      /\ [MemoryNext]_memVars /\ [ChatNext]_chatVars /\ [ExprNext]_exprVars
      /\ [Next]_vars /\ [StreamNext]_streamVars
  BY DEF ServicesNext, allVars
<1>2. ProcIInv' /\ SvcTInv'
  BY <1>1, ProcNextInv, SvcTypesNext DEF AllInv
<1>3. BotInv' /\ QuotaTypeOK' /\ IInv' /\ StreamIInv'
  BY <1>1, BotInvStep, TypeStep, NextInv, StreamNextInv DEF AllInv
<1>4. FtsInv' /\ IndexTypes' /\ ChatInv' /\ DetectorInv'
  BY <1>1, FtsNext, MemoryNextTypes, ChatNextInv, DetectorNext DEF AllInv
<1>5. SearchInv' /\ (now \in Starts)'
  BY <1>1, SearchStep, StartStays DEF AllInv
<1> QED
  BY <1>2, <1>3, <1>4, <1>5 DEF AllInv

LEMMA AllTyped == AllInv => ServicesTypeOK
<1> SUFFICES ASSUME AllInv PROVE ServicesTypeOK
  OBVIOUS
<1>1. ProcTypeOK /\ ServiceTypeOK
  BY DEF AllInv, ProcIInv, Basic, SvcTInv
<1>2. BotTypeOK /\ QuotaTypeOK /\ TypeOK /\ StreamTypeOK
  BY DEF AllInv, BotInv, IInv, StreamIInv
<1>3. MemoryTypeOK /\ ChatTypeOK /\ ExprTypeOK
  BY MemoryTyped, ChatTyped, SearchTyped DEF AllInv
<1> QED
  BY <1>1, <1>2, <1>3 DEF ServicesTypeOK

(* Whatever callers, messages, clocks, crashes and restarts do, every      *)
(* variable of every component stays within its type: indices within their *)
(* sequences, counters within the natural numbers, steps within those of   *)
(* the code.                                                               *)
THEOREM ServicesTypes == ServicesSpec => []ServicesTypeOK
BY AllInit, AllNext, AllTyped, PTL DEF ServicesSpec
=============================================================================
