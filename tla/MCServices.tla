------------------------------ MODULE MCServices ------------------------------
(***************************************************************************)
(* Small instances of the components that share no state with each other,  *)
(* checked side by side: `part` says which of them a behaviour is about,   *)
(* and the others stay in an initial state.                                *)
(***************************************************************************)
EXTENDS ProcessTool, TelegramPolling, RateLimit, ServiceManager, VectorMemory, AgentChat,
        CronExpr, WebSocketConns, WebSocketStream

VARIABLE part

OneStar == [minute |-> Star, hour |-> Star, day |-> Star, month |-> Star, weekday |-> Star]
One(n) == List(<<n>>)

(* The values of constants that a .cfg cannot write.                       *)
TwoTools == {<<"read", 1>>, <<"exec", 1>>}
TwoServices == <<"agent", "embedding">>
TwoYears == <<0, 4, 6, 10, 14, 17, 21>>
SomeExpressions ==
  [minute : {Star, One(1), List(<<1, 0>>)}, hour : {Star, One(1)},
   day : {Star, One(1), FromTo(2, 3)}, month : {Star, One(2), List(<<1, 3>>)},
   weekday : {Star, Every(2)}]

allVars == <<part, procVars, botVars, quotaVars, svcVars, memVars, chatVars, exprVars, vars, streamVars>>

ServicesInit ==
  /\ part \in {"process", "telegram", "quota", "service", "memory", "chat", "cron", "websocket",
              "stream"}
  /\ ProcInit /\ BotInit /\ QuotaInit /\ ServiceInit /\ MemoryInit /\ ChatInit /\ StreamInit
  /\ ExprInit /\ (part = "cron" \/ (expr = OneStar /\ \A t \in Starts : now <= t))
  /\ Init /\ (part = "websocket" \/ \A c, d \in Conns : ip[c] = CHOOSE i \in IPs : TRUE)

ServicesNext ==
  \/ /\ part = "process" /\ ProcNext
     /\ UNCHANGED <<part, botVars, quotaVars, svcVars, memVars, chatVars, exprVars, vars, streamVars>>
  \/ /\ part = "telegram" /\ BotNext
     /\ UNCHANGED <<part, procVars, quotaVars, svcVars, memVars, chatVars, exprVars, vars, streamVars>>
  \/ /\ part = "quota" /\ QuotaNext
     /\ UNCHANGED <<part, procVars, botVars, svcVars, memVars, chatVars, exprVars, vars, streamVars>>
  \/ /\ part = "service" /\ ServiceNext
     /\ UNCHANGED <<part, procVars, botVars, quotaVars, memVars, chatVars, exprVars, vars, streamVars>>
  \/ /\ part = "memory" /\ MemoryNext
     /\ UNCHANGED <<part, procVars, botVars, quotaVars, svcVars, chatVars, exprVars, vars, streamVars>>
  \/ /\ part = "chat" /\ ChatNext
     /\ UNCHANGED <<part, procVars, botVars, quotaVars, svcVars, memVars, exprVars, vars, streamVars>>
  \/ /\ part = "cron" /\ ExprNext
     /\ UNCHANGED <<part, procVars, botVars, quotaVars, svcVars, memVars, chatVars, vars, streamVars>>
  \/ /\ part = "websocket" /\ Next
     /\ UNCHANGED <<part, procVars, botVars, quotaVars, svcVars, memVars, chatVars, exprVars, streamVars>>
  \/ /\ part = "stream" /\ StreamNext
     /\ UNCHANGED <<part, procVars, botVars, quotaVars, svcVars, memVars, chatVars, exprVars, vars>>

(* The fairness of each component, owed only by the behaviours about it.   *)
ServicesFairness ==
  /\ WF_procVars(part = "process" /\ MonitorNext)
  /\ \A c \in ToolCallers : WF_procVars(part = "process" /\ (KillDelete(c) \/ RestartSpawn(c)))
  /\ \A k \in 1..MaxSpawn : WF_procVars(part = "process" /\ k \in DOMAIN os /\ Reap(k))
  /\ WF_botVars(part = "telegram" /\ Poll)
  /\ WF_botVars(part = "telegram" /\ \E u \in UpdateIds : Offer(u))
  /\ \A w \in BotWorkers : /\ WF_botVars(part = "telegram" /\ Receive(w))
                           /\ WF_botVars(part = "telegram" /\ Answer(w))
  /\ WF_chatVars(part = "chat" /\ TimePasses)
  /\ \A c \in Chats : WF_chatVars(part = "chat" /\ TurnGoesOn(c))
  /\ WF_streamVars(part = "stream" /\ link = "closed" /\ ReadFails)
  /\ WF_streamVars(part = "stream" /\ HandlerReturns)
  /\ WF_streamVars(part = "stream" /\ PingTick)
  /\ \A c \in WSChats : WF_streamVars(part = "stream" /\ ChatSteps(c))
  /\ \A w \in Writers : WF_streamVars(part = "stream" /\ WriterSteps(w))

ServicesSpec == ServicesInit /\ [][ServicesNext]_allVars /\ ServicesFairness

(* Every variable of every component keeps its type.                       *)
ServicesTypeOK ==
  /\ ProcTypeOK /\ BotTypeOK /\ QuotaTypeOK /\ ServiceTypeOK /\ MemoryTypeOK /\ ChatTypeOK
  /\ ExprTypeOK /\ TypeOK /\ StreamTypeOK
=============================================================================
