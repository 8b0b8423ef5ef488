-------------------------- MODULE Processes_proofs --------------------------
(***************************************************************************)
(* The background processes of the process tool and the services of the    *)
(* ocg command: what the sessions own, for any sessions, callers and       *)
(* bounds, and what the pid files name, for any services, process numbers  *)
(* and commands.                                                           *)
(***************************************************************************)
EXTENDS ProcessTool, ServiceManager, TLAPS

(* Whoever works on a session without holding the lock.                    *)
MonitorOn(s) == monitor.s = s \/ s \in monitor.todo

WorkedOn(s) == (\E c \in ToolCallers : caller[c].s = s) \/ MonitorOn(s) \/ s \in toDelete

(* A session that was never started.                                       *)
Untouched(s) ==
  /\ s \notin processes /\ ~WorkedOn(s) /\ tries[s] = 0
  /\ \A k \in DOMAIN os : os[k].s # s

(* The operations name a session exactly while they are at work on it, and *)
(* a session that was started has a process that was started.              *)
Shape ==
  /\ \A s \in Sessions : proc[s].cmd <= Len(os) /\ (proc[s].cmd = 0 => Untouched(s))
  /\ monitor.pc = "idle" => monitor.todo = {}
  /\ IF monitor.pc = "delay" THEN monitor.s \in Sessions ELSE monitor.s = NoSession
  /\ monitor.s \notin monitor.todo
  /\ \A c \in ToolCallers :
        IF caller[c].op = "none" THEN caller[c] = NoCall ELSE caller[c].s \in Sessions

(* Every automatic restart, also one that failed and the one that is under *)
(* way, was counted and was within the limit.                              *)
RestartsCounted ==
  configs = 0 => \A s \in Sessions :
    LET n == tries[s] + (IF monitor.s = s THEN 1 ELSE 0)
    IN  n <= proc[s].CurrentRetries /\ n <= proc[s].MaxRetries

(* Until two of the operations overlap on a session, it is in the hands of *)
(* one, which has seen its process dead or has killed it.                  *)
Alone(s) ==
  /\ \A c, d \in ToolCallers : caller[c].s = s /\ caller[d].s = s => c = d
  /\ \A c \in ToolCallers : caller[c].s = s => ~MonitorOn(s) /\ s \notin toDelete
  /\ MonitorOn(s) => s \notin toDelete

Owned(s) ==
  /\ Alone(s)
  /\ WorkedOn(s) => State(s) # "running"
  /\ \A k \in DOMAIN os : os[k].s = s /\ os[k].st = "running" => proc[s].cmd = k /\ s \in processes

AllOwned == \A s \in Sessions \ overlapped : Owned(s)

Basic == ProcTypeOK /\ Shape

ProcIInv == Basic /\ RestartsCounted /\ AllOwned

-----------------------------------------------------------------------------
(* What the steps are made of.                                             *)
ProcInfo == [cmd : 0..MaxSpawn, AutoRestart : BOOLEAN, MaxRetries : Nat, CurrentRetries : 0..RetryCap]
Process == [s : Sessions, st : ProcStates]

LEMMA Typed ==
  ASSUME ProcTypeOK
  PROVE  /\ os \in Seq(Process) /\ Len(os) \in Nat /\ DOMAIN os = 1..Len(os) /\ Len(os) <= MaxSpawn
         /\ \A k \in DOMAIN os : os[k] \in Process /\ os[k].s \in Sessions /\ os[k].st \in ProcStates
         /\ proc \in [Sessions -> ProcInfo]
         /\ \A s \in Sessions : /\ proc[s] \in ProcInfo
                                /\ proc[s].cmd \in Nat /\ proc[s].CurrentRetries \in Nat
                                /\ proc[s].MaxRetries \in Nat /\ tries[s] \in Nat
         /\ NoSession \notin Sessions /\ MaxSpawn \in Nat /\ RetryCap \in Nat /\ MaxConfigs \in Nat
<1>1. os \in Seq(Process) /\ Len(os) <= MaxSpawn /\ proc \in [Sessions -> ProcInfo]
  BY DEF ProcTypeOK, Process, ProcInfo
<1>2. NoSession \notin Sessions /\ MaxSpawn \in Nat /\ RetryCap \in Nat /\ MaxConfigs \in Nat
  BY ProcConstantsOK
<1>3. \A k \in DOMAIN os : os[k] \in Process /\ os[k].s \in Sessions /\ os[k].st \in ProcStates
  <2>1. \A k \in DOMAIN os : os[k] \in Process
    BY <1>1
  <2>2. QED
    BY <2>1 DEF Process
<1>4. \A s \in Sessions : /\ proc[s] \in ProcInfo
                          /\ proc[s].cmd \in Nat /\ proc[s].CurrentRetries \in Nat
                          /\ proc[s].MaxRetries \in Nat /\ tries[s] \in Nat
  BY <1>1, <1>2 DEF ProcInfo, ProcTypeOK
<1>5. QED
  BY <1>1, <1>2, <1>3, <1>4

(* The processes keep their sessions, and none of them starts to run; or   *)
(* one is started for a session.                                           *)
OsKept ==
  /\ os' \in Seq(Process) /\ Len(os') = Len(os) /\ DOMAIN os' = DOMAIN os
  /\ \A i \in DOMAIN os : os'[i].s = os[i].s /\ (os'[i].st = "running" => os[i].st = "running")

OsGrows(s) ==
  /\ os' \in Seq(Process) /\ Len(os') = Len(os) + 1 /\ Len(os') <= MaxSpawn
  /\ DOMAIN os' = DOMAIN os \cup {Len(os) + 1} /\ os'[Len(os) + 1] = [s |-> s, st |-> "running"]
  /\ \A i \in DOMAIN os : os'[i] = os[i] /\ i # Len(os) + 1

(* The state of one process changes.                                       *)
LEMMA StateChanged ==
  ASSUME ProcTypeOK, NEW k \in DOMAIN os, NEW st \in ProcStates, os' = [os EXCEPT ![k].st = st]
  PROVE  /\ os' \in Seq(Process) /\ Len(os') = Len(os) /\ DOMAIN os' = DOMAIN os
         /\ \A i \in DOMAIN os : /\ os'[i].s = os[i].s
                                 /\ os'[i].st = IF i = k THEN st ELSE os[i].st
<1>1. os \in Seq(Process) /\ os[k] \in Process
  BY Typed
<1>2. [os[k] EXCEPT !.st = st] \in Process
  BY <1>1 DEF Process
<1>3. os' = [os EXCEPT ![k] = [os[k] EXCEPT !.st = st]]
  OBVIOUS
<1>4. os' \in Seq(Process) /\ Len(os') = Len(os) /\ DOMAIN os' = DOMAIN os
  BY <1>1, <1>2, <1>3
<1>5. QED
  BY <1>1, <1>3, <1>4 DEF Process

LEMMA Signalled ==
  ASSUME Basic, NEW s \in processes, Signal(proc[s].cmd)
  PROVE  OsKept /\ proc[s].cmd \in DOMAIN os /\ os'[proc[s].cmd].st # "running"
<1>1. s \in Sessions /\ proc[s].cmd # 0 /\ proc[s].cmd <= Len(os)
  BY DEF Basic, Shape, Untouched, ProcTypeOK
<1>2. proc[s].cmd \in DOMAIN os
  BY <1>1, Typed DEF Basic
<1>. DEFINE st == IF os[proc[s].cmd].st = "running" THEN "signaled" ELSE os[proc[s].cmd].st
<1>3. st \in ProcStates /\ st # "running"
  BY <1>2, Typed DEF Basic, ProcStates
<1>4. os' = [os EXCEPT ![proc[s].cmd].st = st]
  BY DEF Signal
<1>. HIDE DEF st
<1>5. /\ os' \in Seq(Process) /\ Len(os') = Len(os) /\ DOMAIN os' = DOMAIN os
      /\ \A i \in DOMAIN os : /\ os'[i].s = os[i].s
                              /\ os'[i].st = IF i = proc[s].cmd THEN st ELSE os[i].st
  BY <1>2, <1>3, <1>4, StateChanged DEF Basic
<1>6. QED
  BY <1>2, <1>3, <1>5 DEF OsKept

LEMMA Appended ==
  ASSUME ProcTypeOK, NEW s \in Sessions, Len(os) < MaxSpawn,
         os' = Append(os, [s |-> s, st |-> "running"])
  PROVE  OsGrows(s) /\ Len(os) + 1 \in 0..MaxSpawn
<1>1. os \in Seq(Process) /\ [s |-> s, st |-> "running"] \in Process /\ MaxSpawn \in Nat
  BY Typed DEF Process, ProcStates
<1>2. QED
  BY <1>1 DEF OsGrows

(* The session that owns the new process is in the map, whatever was there *)
(* before; a restart does not touch its retries, and one that fails        *)
(* touches nothing.                                                        *)
Spawned(s) ==
  /\ OsGrows(s) /\ processes' = processes \cup {s}
  /\ proc' \in [Sessions -> ProcInfo] /\ proc'[s].cmd = Len(os) + 1
  /\ \A t \in Sessions : t # s => proc'[t] = proc[t]

NotSpawned == UNCHANGED <<os, proc, processes>>

LEMMA Restarted ==
  ASSUME ProcTypeOK, NEW s \in Sessions, RestartProcess(s)
  PROVE  /\ Spawned(s) \/ NotSpawned
         /\ \A t \in Sessions : /\ proc'[t].CurrentRetries = proc[t].CurrentRetries
                                /\ proc'[t].MaxRetries = proc[t].MaxRetries
<1>. SUFFICES ASSUME ~NotSpawned
              PROVE  Spawned(s) /\ \A t \in Sessions : /\ proc'[t].CurrentRetries = proc[t].CurrentRetries
                                                       /\ proc'[t].MaxRetries = proc[t].MaxRetries
  BY DEF NotSpawned
<1>1. Len(os) < MaxSpawn /\ os' = Append(os, [s |-> s, st |-> "running"])
      /\ processes' = processes \cup {s}
      /\ proc' = [proc EXCEPT ![s].cmd = Len(os) + 1]
  BY DEF RestartProcess, NotSpawned
<1>2. Len(os) + 1 \in 0..MaxSpawn /\ proc[s] \in ProcInfo
  BY <1>1, Typed, Appended
<1>3. [proc[s] EXCEPT !.cmd = Len(os) + 1] \in ProcInfo
  BY <1>2 DEF ProcInfo
<1>4. proc' = [proc EXCEPT ![s] = [proc[s] EXCEPT !.cmd = Len(os) + 1]]
  BY <1>1
<1>5. proc \in [Sessions -> ProcInfo]
  BY Typed
<1>6. /\ proc' \in [Sessions -> ProcInfo] /\ proc'[s].cmd = Len(os) + 1
      /\ \A t \in Sessions : /\ t # s => proc'[t] = proc[t]
                             /\ proc'[t].CurrentRetries = proc[t].CurrentRetries
                             /\ proc'[t].MaxRetries = proc[t].MaxRetries
  BY <1>2, <1>3, <1>4, <1>5 DEF ProcInfo
<1>7. QED
  BY <1>1, <1>6, Appended DEF Spawned

(* Who is working on a session is what NoteOverlap asks.                   *)
LEMMA BusyIsWorking == \A s : Busy(s) # {} <=> WorkedOn(s)
BY DEF Busy, WorkedOn, MonitorOn

LEMMA Noted ==
  ASSUME ProcTypeOK, NEW S \in SUBSET Sessions, NoteOverlap(S)
  PROVE  /\ overlapped' \subseteq Sessions /\ overlapped \subseteq overlapped'
         /\ \A s \in S : s \notin overlapped' => ~WorkedOn(s)
BY BusyIsWorking DEF NoteOverlap, ProcTypeOK

-----------------------------------------------------------------------------
(* Types, and what the operations name.                                    *)

LEMMA ProcInitInv == ProcInit => ProcIInv
<1>. SUFFICES ASSUME ProcInit PROVE ProcIInv
  OBVIOUS
<1>1. NoProc \in ProcInfo /\ NoProc.cmd = 0 /\ NoProc.CurrentRetries = 0 /\ NoProc.MaxRetries = 0
  BY ProcConstantsOK DEF NoProc, ProcInfo
<1>2. /\ NoCall \in [op : {"none", "kill", "restart"}, s : Sessions \cup {NoSession}, cmd : 0..MaxSpawn]
      /\ NoCall.op = "none" /\ NoCall.s = NoSession
  BY ProcConstantsOK DEF NoCall
<1>3. NoSession \notin Sessions
  BY ProcConstantsOK
<1>4. ProcTypeOK
  <2>1. proc \in [Sessions -> ProcInfo]
    BY <1>1 DEF ProcInit
  <2>2. os \in Seq([s : Sessions, st : ProcStates]) /\ Len(os) <= MaxSpawn
    BY ProcConstantsOK DEF ProcInit
  <2>3. monitor \in [pc : {"idle", "busy", "delay"}, todo : SUBSET Sessions, s : Sessions \cup {NoSession}]
    BY DEF ProcInit
  <2>4. caller \in [ToolCallers -> [op : {"none", "kill", "restart"}, s : Sessions \cup {NoSession},
                                    cmd : 0..MaxSpawn]]
    BY <1>2 DEF ProcInit
  <2>5. configs \in 0..MaxConfigs /\ tries \in [Sessions -> Nat]
    BY ProcConstantsOK DEF ProcInit
  <2>6. processes \subseteq Sessions /\ toDelete \subseteq Sessions /\ overlapped \subseteq Sessions
    BY DEF ProcInit
  <2>7. QED
    BY <2>1, <2>2, <2>3, <2>4, <2>5, <2>6 DEF ProcTypeOK, ProcInfo
<1>5. ASSUME NEW s \in Sessions
      PROVE  proc[s].cmd = 0 /\ Untouched(s) /\ monitor.s # s /\ Len(os) = 0 /\ DOMAIN os = {}
  BY <1>1, <1>2, <1>3, <1>5 DEF ProcInit, Untouched, WorkedOn, MonitorOn
<1>6. Shape
  BY <1>2, <1>5 DEF ProcInit, Shape
<1>7. RestartsCounted
  BY <1>1, <1>5 DEF ProcInit, RestartsCounted
<1>8. AllOwned
  BY <1>5 DEF AllOwned, Owned, Alone, Untouched, WorkedOn
<1>9. QED
  BY <1>4, <1>6, <1>7, <1>8 DEF ProcIInv, Basic

LEMMA UntouchedKept ==
  ASSUME NEW t \in Sessions, Untouched(t), t \notin processes', ~WorkedOn(t)', tries'[t] = 0,
         OsKept \/ os' = os \/ \E s \in Sessions \ {t} : OsGrows(s)
  PROVE  Untouched(t)'
<1>1. \A k \in DOMAIN os' : os'[k].s # t
  <2>1. CASE OsKept \/ os' = os
    BY <2>1 DEF OsKept, Untouched
  <2>2. ASSUME NEW s \in Sessions \ {t}, OsGrows(s) PROVE \A k \in DOMAIN os' : os'[k].s # t
    <3>1. os'[Len(os) + 1].s # t
      BY <2>2 DEF OsGrows
    <3>2. QED
      BY <2>2, <3>1 DEF OsGrows, Untouched
  <2>3. QED
    BY <2>1, <2>2
<1>2. QED
  BY <1>1 DEF Untouched

(* A process exits, is signalled or reaped.                                *)
LEMMA OSStep ==
  ASSUME ProcTypeOK, OSNext
  PROVE  /\ UNCHANGED <<processes, proc, monitor, toDelete, caller, configs, tries, overlapped>>
         /\ OsKept
<1>1. ASSUME NEW k \in DOMAIN os, NEW st \in ProcStates \ {"running"}, os' = [os EXCEPT ![k].st = st]
      PROVE  OsKept
  <2>1. /\ os' \in Seq(Process) /\ Len(os') = Len(os) /\ DOMAIN os' = DOMAIN os
        /\ \A i \in DOMAIN os : /\ os'[i].s = os[i].s
                                /\ os'[i].st = IF i = k THEN st ELSE os[i].st
    BY <1>1, StateChanged
  <2>2. QED
    BY <2>1 DEF OsKept
<1>2. ASSUME NEW k \in DOMAIN os, Terminate(k)
      PROVE  \E st \in ProcStates \ {"running"} : os' = [os EXCEPT ![k].st = st]
  BY <1>2 DEF Terminate, ProcStates
<1>3. ASSUME NEW k \in DOMAIN os, Reap(k)
      PROVE  \E st \in ProcStates \ {"running"} : os' = [os EXCEPT ![k].st = st]
  BY <1>3 DEF Reap, ProcStates
<1>4. QED
  BY <1>1, <1>2, <1>3 DEF OSNext, Terminate, Reap

LEMMA OSBasic ==
  ASSUME Basic, OSNext
  PROVE  Basic'
<1>0. ProcTypeOK /\ Shape
  BY DEF Basic
<1>1. /\ OsKept
      /\ UNCHANGED <<processes, proc, monitor, toDelete, caller, configs, tries, overlapped>>
  BY <1>0, OSStep
<1>2. ProcTypeOK'
  BY <1>0, <1>1 DEF ProcTypeOK, Process, OsKept
<1>3. \A t \in Sessions : Untouched(t) => Untouched(t)'
  BY <1>1 DEF OsKept, Untouched, WorkedOn, MonitorOn
<1>4. Shape'
  BY <1>0, <1>1, <1>3 DEF Shape, OsKept
<1>5. QED
  BY <1>2, <1>4 DEF Basic

(* A session is given a new process by whoever is entitled to.             *)
LEMMA SpawnShape ==
  ASSUME ProcTypeOK, Shape, NEW s \in Sessions, Spawned(s), NEW t \in Sessions,
         t # s /\ tries[t] = 0 => tries'[t] = 0, t # s /\ ~WorkedOn(t) => ~WorkedOn(t)'
  PROVE  proc'[t].cmd <= Len(os') /\ (proc'[t].cmd = 0 => Untouched(t)')
<1>0. Len(os) \in Nat /\ proc[t].cmd \in Nat
  BY Typed
<1>1. CASE t = s
  BY <1>0, <1>1 DEF Spawned, OsGrows
<1>2. CASE t # s
  <2>1. proc'[t] = proc[t] /\ Len(os') = Len(os) + 1 /\ processes' = processes \cup {s} /\ OsGrows(s)
    BY <1>2 DEF Spawned, OsGrows
  <2>2. proc[t].cmd <= Len(os) /\ (proc[t].cmd = 0 => Untouched(t))
    BY DEF Shape
  <2>3. Untouched(t) => Untouched(t)'
    <3>1. ASSUME Untouched(t) PROVE Untouched(t)'
      <4>1. t \notin processes' /\ ~WorkedOn(t)' /\ tries'[t] = 0
        BY <1>2, <2>1, <3>1 DEF Untouched
      <4>2. QED
        BY <1>2, <2>1, <3>1, <4>1, UntouchedKept
    <3>2. QED
      BY <3>1
  <2>4. QED
    BY <1>0, <2>1, <2>2, <2>3
<1>3. QED
  BY <1>1, <1>2

LEMMA NotSpawnedShape ==
  ASSUME Shape, NotSpawned, NEW t \in Sessions,
         tries[t] = 0 /\ ~WorkedOn(t) => tries'[t] = 0 /\ ~WorkedOn(t)'
  PROVE  proc'[t].cmd <= Len(os') /\ (proc'[t].cmd = 0 => Untouched(t)')
<1>1. Untouched(t) => Untouched(t)'
  BY DEF Untouched, NotSpawned
<1>2. QED
  BY <1>1 DEF Shape, NotSpawned

LEMMA SpawnTyped ==
  ASSUME ProcTypeOK, NEW s \in Sessions, Spawned(s)
  PROVE  /\ processes' \subseteq Sessions
         /\ proc' \in [Sessions -> [cmd : 0..MaxSpawn, AutoRestart : BOOLEAN,
                                    MaxRetries : Nat, CurrentRetries : 0..RetryCap]]
         /\ os' \in Seq([s : Sessions, st : ProcStates]) /\ Len(os') <= MaxSpawn
BY DEF ProcTypeOK, Spawned, OsGrows, Process, ProcInfo

(* start                                                                   *)
LEMMA Started ==
  ASSUME Basic, NEW s \in Sessions, Start(s)
  PROVE  /\ proc[s].cmd = 0 /\ Untouched(s) /\ Spawned(s)
         /\ UNCHANGED <<monitor, toDelete, caller, configs, tries, overlapped>>
         /\ proc'[s].CurrentRetries = 0 /\ proc'[s].MaxRetries \in Nat
<1>1. PICK auto \in BOOLEAN, max \in RetryLimits :
        proc' = [proc EXCEPT ![s] = [cmd |-> Len(os) + 1, AutoRestart |-> auto,
                                     MaxRetries |-> max, CurrentRetries |-> 0]]
  BY DEF Start
<1>2. Len(os) < MaxSpawn /\ os' = Append(os, [s |-> s, st |-> "running"]) /\ ProcTypeOK
  BY DEF Start, Basic
<1>. DEFINE new == [cmd |-> Len(os) + 1, AutoRestart |-> auto, MaxRetries |-> max, CurrentRetries |-> 0]
<1>3. new \in ProcInfo /\ new.cmd = Len(os) + 1 /\ new.CurrentRetries = 0 /\ new.MaxRetries \in Nat
  <2>1. Len(os) + 1 \in 0..MaxSpawn
    BY <1>2, Appended
  <2>2. 0 \in 0..RetryCap /\ max \in Nat
    BY ProcConstantsOK
  <2>3. QED
    BY <2>1, <2>2 DEF ProcInfo
<1>4. proc \in [Sessions -> ProcInfo] /\ proc' = [proc EXCEPT ![s] = new]
  BY <1>1, <1>2, Typed
<1>. HIDE DEF new
<1>5. /\ proc' \in [Sessions -> ProcInfo] /\ proc'[s].cmd = Len(os) + 1
      /\ proc'[s].CurrentRetries = 0 /\ proc'[s].MaxRetries \in Nat
      /\ \A t \in Sessions : t # s => proc'[t] = proc[t]
  BY <1>3, <1>4
<1>6. proc[s].cmd = 0 /\ Untouched(s)
  BY DEF Start, Basic, Shape
<1>7. OsGrows(s) /\ processes' = processes \cup {s}
  BY <1>2, Appended DEF Start
<1>8. QED
  BY <1>5, <1>6, <1>7 DEF Start, Spawned

LEMMA StartBasic ==
  ASSUME Basic, NEW s \in Sessions, Start(s)
  PROVE  Basic'
<1>0. ProcTypeOK /\ Shape
  BY DEF Basic
<1>1. Spawned(s) /\ UNCHANGED <<monitor, toDelete, caller, configs, tries, overlapped>>
  BY Started
<1>2. ProcTypeOK'
  BY <1>0, <1>1, SpawnTyped DEF ProcTypeOK
<1>3. \A t \in Sessions : proc'[t].cmd <= Len(os') /\ (proc'[t].cmd = 0 => Untouched(t)')
  <2>1. \A t \in Sessions : WorkedOn(t)' <=> WorkedOn(t)
    BY <1>1 DEF WorkedOn, MonitorOn
  <2>2. QED
    BY <1>0, <1>1, <2>1, SpawnShape
<1>4. Shape'
  BY <1>0, <1>1, <1>3 DEF Shape
<1>5. QED
  BY <1>2, <1>4 DEF Basic

(* kill and restart up to the point where they give the lock away.         *)
CallTypes == [op : {"none", "kill", "restart"}, s : Sessions \cup {NoSession}, cmd : 0..MaxSpawn]

CallEffect(s, c) ==
  /\ s \in processes /\ NoteOverlap({s}) /\ OsKept
  /\ proc[s].cmd \in DOMAIN os /\ os'[proc[s].cmd].st # "running"
  /\ UNCHANGED <<processes, proc, monitor, toDelete, configs, tries>>
  /\ caller' \in [ToolCallers -> CallTypes]
  /\ caller[c].s = NoSession /\ caller'[c].s = s /\ caller'[c].op # "none"
  /\ \A d \in ToolCallers : d # c => caller'[d] = caller[d]

LEMMA CallStep ==
  ASSUME Basic, NEW s \in Sessions, NEW c \in ToolCallers, Kill(c, s) \/ Restart(c, s)
  PROVE  CallEffect(s, c)
<1>1. PICK op \in {"kill", "restart"} :
        caller' = [caller EXCEPT ![c] = [op |-> op, s |-> s, cmd |-> proc[s].cmd]]
  BY DEF Kill, Restart
<1>2. /\ s \in processes /\ NoteOverlap({s}) /\ Signal(proc[s].cmd) /\ caller[c].op = "none"
      /\ UNCHANGED <<processes, proc, monitor, toDelete, configs, tries>>
  BY DEF Kill, Restart
<1>3. proc[s].cmd \in 0..MaxSpawn
  BY Typed DEF Basic, ProcInfo
<1>4. caller[c].s = NoSession
  BY <1>2 DEF Basic, Shape, NoCall
<1>5. OsKept /\ proc[s].cmd \in DOMAIN os /\ os'[proc[s].cmd].st # "running"
  BY <1>2, Signalled
<1>6. caller' \in [ToolCallers -> CallTypes]
  BY <1>1, <1>3 DEF Basic, ProcTypeOK, CallTypes
<1>7. /\ caller'[c].s = s /\ caller'[c].op # "none"
      /\ \A d \in ToolCallers : d # c => caller'[d] = caller[d]
  BY <1>1 DEF Basic, ProcTypeOK
<1>8. QED
  BY <1>2, <1>4, <1>5, <1>6, <1>7 DEF CallEffect

LEMMA CallBasic ==
  ASSUME Basic, NEW s \in Sessions, NEW c \in ToolCallers, Kill(c, s) \/ Restart(c, s)
  PROVE  Basic'
<1>0. ProcTypeOK /\ Shape /\ CallEffect(s, c) /\ s \notin {NoSession}
  BY CallStep, ProcConstantsOK DEF Basic
<1>1. overlapped' \subseteq Sessions
  BY <1>0, Noted DEF CallEffect
<1>2. ProcTypeOK'
  BY <1>0, <1>1 DEF ProcTypeOK, Process, CallEffect, CallTypes, OsKept
<1>3. ASSUME NEW t \in Sessions PROVE Untouched(t) => Untouched(t)'
  BY <1>0 DEF Untouched, WorkedOn, MonitorOn, CallEffect, OsKept
<1>4. Shape'
  BY <1>0, <1>3 DEF Shape, CallEffect, OsKept
<1>5. QED
  BY <1>2, <1>4 DEF Basic

(* ... and what they do when they have it again.                           *)
FreedEffect(c) ==
  /\ caller' \in [ToolCallers -> CallTypes]
  /\ caller'[c] = NoCall /\ NoCall.op = "none" /\ NoCall.s = NoSession /\ NoSession \notin Sessions
  /\ \A d \in ToolCallers : d # c => caller'[d] = caller[d]

LEMMA CallerFreed ==
  ASSUME ProcTypeOK, NEW c \in ToolCallers, caller' = [caller EXCEPT ![c] = NoCall]
  PROVE  FreedEffect(c) /\ \A t \in Sessions : \A d \in ToolCallers : caller'[d].s = t => caller[d].s = t
<1>1. NoCall \in CallTypes /\ NoCall.op = "none" /\ NoCall.s = NoSession /\ NoSession \notin Sessions
  BY ProcConstantsOK DEF NoCall, CallTypes
<1>2. caller \in [ToolCallers -> CallTypes]
  BY DEF ProcTypeOK, CallTypes
<1>3. QED
  BY <1>1, <1>2 DEF FreedEffect

LEMMA KillDeleteBasic ==
  ASSUME Basic, NEW c \in ToolCallers, KillDelete(c)
  PROVE  Basic'
<1>0. ProcTypeOK /\ Shape
  BY DEF Basic
<1>1. caller' = [caller EXCEPT ![c] = NoCall] /\ processes' \subseteq processes
      /\ UNCHANGED <<proc, os, monitor, toDelete, configs, tries, overlapped>>
  BY DEF KillDelete
<1>2. FreedEffect(c) /\ \A t \in Sessions : \A d \in ToolCallers : caller'[d].s = t => caller[d].s = t
  BY <1>0, <1>1, CallerFreed
<1>3. ProcTypeOK'
  BY <1>0, <1>1, <1>2 DEF ProcTypeOK, FreedEffect, CallTypes
<1>4. ASSUME NEW t \in Sessions PROVE Untouched(t) => Untouched(t)'
  BY <1>1, <1>2 DEF Untouched, WorkedOn, MonitorOn
<1>5. Shape'
  BY <1>0, <1>1, <1>2, <1>4 DEF Shape, FreedEffect
<1>6. QED
  BY <1>3, <1>5 DEF Basic

LEMMA RestartSpawnBasic ==
  ASSUME Basic, NEW c \in ToolCallers, RestartSpawn(c)
  PROVE  Basic'
<1>. DEFINE s == caller[c].s
<1>0. ProcTypeOK /\ Shape
  BY DEF Basic
<1>1. /\ caller' = [caller EXCEPT ![c] = NoCall] /\ RestartProcess(s) /\ s \in Sessions
      /\ UNCHANGED <<monitor, toDelete, configs, tries, overlapped>>
  BY DEF RestartSpawn, Basic, Shape
<1>. HIDE DEF s
<1>2. FreedEffect(c) /\ \A t \in Sessions : \A d \in ToolCallers : caller'[d].s = t => caller[d].s = t
  BY <1>0, <1>1, CallerFreed
<1>3. Spawned(s) \/ NotSpawned
  BY <1>0, <1>1, Restarted
<1>4. ProcTypeOK'
  <2>1. caller' \in [ToolCallers -> CallTypes]
    BY <1>2 DEF FreedEffect
  <2>2. CASE Spawned(s)
    BY <1>0, <1>1, <2>1, <2>2, SpawnTyped DEF ProcTypeOK, CallTypes
  <2>3. CASE NotSpawned
    BY <1>0, <1>1, <2>1, <2>3 DEF ProcTypeOK, CallTypes, NotSpawned
  <2>4. QED
    BY <1>3, <2>2, <2>3
<1>5. \A t \in Sessions : proc'[t].cmd <= Len(os') /\ (proc'[t].cmd = 0 => Untouched(t)')
  <2>1. \A t \in Sessions : WorkedOn(t)' => WorkedOn(t)
    BY <1>1, <1>2 DEF WorkedOn, MonitorOn
  <2>2. QED
    BY <1>0, <1>1, <1>3, <2>1, SpawnShape, NotSpawnedShape
<1>6. Shape'
  BY <1>0, <1>1, <1>2, <1>5 DEF Shape, FreedEffect
<1>7. QED
  BY <1>4, <1>6 DEF Basic

(* autostart                                                               *)
SetEffect(s) ==
  /\ proc' \in [Sessions -> ProcInfo] /\ \A t \in Sessions : proc'[t].cmd = proc[t].cmd
  /\ configs' = configs + 1 /\ configs' \in 0..MaxConfigs
  /\ tries' \in [Sessions -> Nat]
  /\ \A t \in Sessions : tries[t] = 0 => tries'[t] = 0
  /\ UNCHANGED <<processes, os, monitor, toDelete, caller, overlapped>>

LEMMA SetStep ==
  ASSUME ProcTypeOK, NEW s \in Sessions, SetAutoRestart(s)
  PROVE  SetEffect(s)
<1>1. PICK enable \in BOOLEAN, max \in RetryLimits :
        proc' = [proc EXCEPT ![s].AutoRestart = enable, ![s].MaxRetries = max,
                             ![s].CurrentRetries = IF enable THEN @ ELSE 0]
  BY DEF SetAutoRestart
<1>. DEFINE new == [proc[s] EXCEPT !.AutoRestart = enable, !.MaxRetries = max,
                                   !.CurrentRetries = IF enable THEN @ ELSE 0]
<1>2. proc[s] \in ProcInfo /\ proc \in [Sessions -> ProcInfo] /\ max \in Nat /\ 0 \in 0..RetryCap
  BY Typed, ProcConstantsOK
<1>3. new \in ProcInfo /\ new.cmd = proc[s].cmd
  BY <1>2 DEF ProcInfo
<1>4. proc' = [proc EXCEPT ![s] = new]
  BY <1>1, <1>2 DEF ProcInfo
<1>. HIDE DEF new
<1>5. proc' \in [Sessions -> ProcInfo] /\ \A t \in Sessions : proc'[t].cmd = proc[t].cmd
  BY <1>2, <1>3, <1>4
<1>6. configs' = configs + 1 /\ configs' \in 0..MaxConfigs
  BY Typed DEF SetAutoRestart, ProcTypeOK
<1>7. tries' \in [Sessions -> Nat] /\ \A t \in Sessions : tries[t] = 0 => tries'[t] = 0
  BY DEF SetAutoRestart, ProcTypeOK
<1>8. QED
  BY <1>5, <1>6, <1>7 DEF SetAutoRestart, SetEffect

LEMMA SetBasic ==
  ASSUME Basic, NEW s \in Sessions, SetAutoRestart(s)
  PROVE  Basic'
<1>0. ProcTypeOK /\ Shape /\ SetEffect(s)
  BY SetStep DEF Basic
<1>1. ProcTypeOK'
  BY <1>0 DEF ProcTypeOK, SetEffect, ProcInfo
<1>2. ASSUME NEW t \in Sessions PROVE Untouched(t) => Untouched(t)'
  BY <1>0 DEF Untouched, WorkedOn, MonitorOn, SetEffect
<1>3. Shape'
  BY <1>0, <1>2 DEF Shape, SetEffect
<1>4. QED
  BY <1>1, <1>3 DEF Basic

(* The monitor counts a restart and decides whether it is within the limit.*)
Again(s) == proc[s].CurrentRetries + 1 <= proc[s].MaxRetries

PickEffect(s) ==
  /\ monitor.pc = "busy" /\ s \in monitor.todo /\ s \in processes
  /\ proc' \in [Sessions -> ProcInfo]
  /\ \A t \in Sessions :
       /\ proc'[t].cmd = proc[t].cmd /\ proc'[t].MaxRetries = proc[t].MaxRetries
       /\ proc'[t].CurrentRetries = proc[t].CurrentRetries + (IF t = s THEN 1 ELSE 0)
  /\ monitor' = [pc |-> IF Again(s) THEN "delay" ELSE "busy", todo |-> monitor.todo \ {s},
                 s |-> IF Again(s) THEN s ELSE NoSession]
  /\ UNCHANGED <<processes, os, toDelete, caller, configs, tries, overlapped>>

LEMMA PickStep ==
  ASSUME ProcTypeOK, NEW s \in Sessions, MonitorPick(s)
  PROVE  PickEffect(s)
<1>1. proc[s] \in ProcInfo /\ proc \in [Sessions -> ProcInfo] /\ proc[s].CurrentRetries \in Nat /\ RetryCap \in Nat
  BY Typed
<1>. DEFINE new == [proc[s] EXCEPT !.CurrentRetries = proc[s].CurrentRetries + 1]
<1>2. /\ new \in ProcInfo /\ new.cmd = proc[s].cmd /\ new.MaxRetries = proc[s].MaxRetries
      /\ new.CurrentRetries = proc[s].CurrentRetries + 1
  BY <1>1 DEF ProcInfo, MonitorPick
<1>3. proc' = [proc EXCEPT ![s] = new]
  BY DEF MonitorPick
<1>. HIDE DEF new
<1>4. /\ proc' \in [Sessions -> ProcInfo] /\ proc'[s] = new
      /\ \A t \in Sessions : t # s => proc'[t] = proc[t]
  BY <1>1, <1>2, <1>3
<1>5. \A t \in Sessions :
       /\ proc'[t].cmd = proc[t].cmd /\ proc'[t].MaxRetries = proc[t].MaxRetries
       /\ proc'[t].CurrentRetries = proc[t].CurrentRetries + (IF t = s THEN 1 ELSE 0)
  BY <1>2, <1>4, Typed
<1>6. monitor' = [pc |-> IF Again(s) THEN "delay" ELSE "busy", todo |-> monitor.todo \ {s},
                  s |-> IF Again(s) THEN s ELSE NoSession]
  BY DEF MonitorPick, ProcTypeOK, Again
<1>7. QED
  BY <1>4, <1>5, <1>6 DEF MonitorPick, PickEffect

LEMMA MonitorBasic ==
  ASSUME Basic, MonitorNext
  PROVE  Basic'
<1>0. ProcTypeOK /\ Shape /\ NoSession \notin Sessions
  BY ProcConstantsOK DEF Basic
<1>1. CASE MonitorCollect
  <2>. DEFINE todo == {s \in processes : Exited(s) /\ proc[s].AutoRestart}
  <2>1. /\ monitor.pc = "idle" /\ monitor' = [pc |-> "busy", s |-> NoSession, todo |-> todo]
        /\ NoteOverlap(todo) /\ UNCHANGED <<processes, proc, os, toDelete, caller, configs, tries>>
        /\ todo \subseteq processes
    BY <1>1 DEF MonitorCollect
  <2>. HIDE DEF todo
  <2>2. todo \subseteq Sessions
    BY <1>0, <2>1 DEF ProcTypeOK
  <2>3. overlapped' \subseteq Sessions
    BY <1>0, <2>1, <2>2, Noted
  <2>4. ProcTypeOK'
    BY <1>0, <2>1, <2>2, <2>3 DEF ProcTypeOK
  <2>5. ASSUME NEW t \in Sessions PROVE Untouched(t) => Untouched(t)'
    BY <1>0, <2>1 DEF Untouched, WorkedOn, MonitorOn
  <2>6. Shape'
    BY <1>0, <2>1, <2>2, <2>5 DEF Shape
  <2>7. QED
    BY <2>4, <2>6 DEF Basic
<1>2. CASE MonitorRestart
  <2>. DEFINE s == monitor.s
  <2>1. /\ monitor.pc = "delay" /\ RestartProcess(s) /\ s \in Sessions
        /\ tries' = [tries EXCEPT ![s] = @ + 1]
        /\ monitor' = [monitor EXCEPT !.pc = "busy", !.s = NoSession]
        /\ UNCHANGED <<toDelete, caller, configs, overlapped>>
    BY <1>0, <1>2 DEF MonitorRestart, Shape
  <2>2. monitor' = [pc |-> "busy", todo |-> monitor.todo, s |-> NoSession] /\ monitor.todo \subseteq Sessions
    BY <1>0, <2>1 DEF ProcTypeOK
  <2>3. Spawned(s) \/ NotSpawned
    BY <1>0, <2>1, Restarted
  <2>4. tries' \in [Sessions -> Nat] /\ \A t \in Sessions : t # s => tries'[t] = tries[t]
    BY <1>0, <2>1 DEF ProcTypeOK
  <2>5. \A t \in Sessions : WorkedOn(t)' => WorkedOn(t)
    BY <1>0, <2>1, <2>2 DEF WorkedOn, MonitorOn
  <2>s. s = monitor.s
    OBVIOUS
  <2>. HIDE DEF s
  <2>6. ProcTypeOK'
    <3>1. CASE Spawned(s)
      BY <1>0, <2>1, <2>2, <2>4, <3>1, SpawnTyped DEF ProcTypeOK
    <3>2. CASE NotSpawned
      BY <1>0, <2>1, <2>2, <2>4, <3>2 DEF ProcTypeOK, NotSpawned
    <3>3. QED
      BY <2>3, <3>1, <3>2
  <2>7. \A t \in Sessions : proc'[t].cmd <= Len(os') /\ (proc'[t].cmd = 0 => Untouched(t)')
    <3>1. CASE Spawned(s)
      BY <1>0, <2>1, <2>4, <2>5, <3>1, SpawnShape
    <3>2. CASE NotSpawned
      <4>1. WorkedOn(s)
        BY <2>s DEF WorkedOn, MonitorOn
      <4>2. QED
        BY <1>0, <2>4, <2>5, <3>2, <4>1, NotSpawnedShape
    <3>3. QED
      BY <2>3, <3>1, <3>2
  <2>8. Shape'
    BY <1>0, <2>1, <2>2, <2>7 DEF Shape
  <2>9. QED
    BY <2>6, <2>8 DEF Basic
<1>3. CASE MonitorSleep
  <2>1. /\ monitor' = [pc |-> "idle", todo |-> {}, s |-> monitor.s] /\ monitor.pc = "busy" /\ monitor.todo = {}
        /\ UNCHANGED <<processes, proc, os, toDelete, caller, configs, tries, overlapped>>
    BY <1>0, <1>3 DEF MonitorSleep, ProcTypeOK
  <2>2. ProcTypeOK'
    BY <1>0, <2>1 DEF ProcTypeOK
  <2>3. ASSUME NEW t \in Sessions PROVE Untouched(t) => Untouched(t)'
    BY <2>1 DEF Untouched, WorkedOn, MonitorOn
  <2>4. Shape'
    BY <1>0, <2>1, <2>3 DEF Shape
  <2>5. QED
    BY <2>2, <2>4 DEF Basic
<1>4. ASSUME NEW s \in Sessions, MonitorPick(s) PROVE Basic'
  <2>1. PickEffect(s)
    BY <1>0, <1>4, PickStep
  <2>2. ProcTypeOK'
    BY <1>0, <2>1 DEF ProcTypeOK, PickEffect, ProcInfo
  <2>3. ASSUME NEW t \in Sessions PROVE Untouched(t) => Untouched(t)'
    BY <1>0, <2>1 DEF Untouched, WorkedOn, MonitorOn, PickEffect
  <2>4. Shape'
    BY <1>0, <2>1, <2>3 DEF Shape, PickEffect
  <2>5. QED
    BY <2>2, <2>4 DEF Basic
<1>5. ASSUME NEW s \in Sessions, MonitorSkip(s) PROVE Basic'
  <2>1. /\ monitor' = [pc |-> monitor.pc, todo |-> monitor.todo \ {s}, s |-> monitor.s] /\ monitor.pc = "busy"
        /\ UNCHANGED <<processes, proc, os, toDelete, caller, configs, tries, overlapped>>
    BY <1>0, <1>5 DEF MonitorSkip, ProcTypeOK
  <2>2. ProcTypeOK'
    BY <1>0, <2>1 DEF ProcTypeOK
  <2>3. ASSUME NEW t \in Sessions PROVE Untouched(t) => Untouched(t)'
    BY <2>1 DEF Untouched, WorkedOn, MonitorOn
  <2>4. Shape'
    BY <1>0, <2>1, <2>3 DEF Shape
  <2>5. QED
    BY <2>2, <2>4 DEF Basic
<1>6. QED
  BY <1>1, <1>2, <1>3, <1>4, <1>5 DEF MonitorNext

LEMMA CleanupBasic ==
  ASSUME Basic, CleanupCollect \/ CleanupDelete
  PROVE  Basic'
<1>0. ProcTypeOK /\ Shape
  BY DEF Basic
<1>1. CASE CleanupCollect
  <2>1. /\ NoteOverlap(toDelete') /\ toDelete' \subseteq processes
        /\ UNCHANGED <<processes, proc, os, monitor, caller, configs, tries>>
    BY <1>1 DEF CleanupCollect
  <2>2. overlapped' \subseteq Sessions /\ toDelete' \subseteq Sessions
    BY <1>0, <2>1, Noted DEF ProcTypeOK
  <2>3. ProcTypeOK'
    BY <1>0, <2>1, <2>2 DEF ProcTypeOK
  <2>4. ASSUME NEW t \in Sessions PROVE Untouched(t) => Untouched(t)'
    BY <2>1 DEF Untouched, WorkedOn, MonitorOn
  <2>5. Shape'
    BY <1>0, <2>1, <2>4 DEF Shape
  <2>6. QED
    BY <2>3, <2>5 DEF Basic
<1>2. CASE CleanupDelete
  <2>1. /\ processes' \subseteq processes /\ toDelete' = {}
        /\ UNCHANGED <<proc, os, monitor, caller, configs, tries, overlapped>>
    BY <1>2 DEF CleanupDelete
  <2>2. ProcTypeOK'
    BY <1>0, <2>1 DEF ProcTypeOK
  <2>3. ASSUME NEW t \in Sessions PROVE Untouched(t) => Untouched(t)'
    BY <2>1 DEF Untouched, WorkedOn, MonitorOn
  <2>4. Shape'
    BY <1>0, <2>1, <2>3 DEF Shape
  <2>5. QED
    BY <2>2, <2>4 DEF Basic
<1>3. QED
  BY <1>1, <1>2

LEMMA ProcNextBasic ==
  ASSUME Basic, ProcNext
  PROVE  Basic'
BY OSBasic, MonitorBasic, KillDeleteBasic, RestartSpawnBasic, CleanupBasic, StartBasic, SetBasic,
   CallBasic DEF ProcNext, CallerNext

-----------------------------------------------------------------------------
(* The restarts that the monitor has counted.                              *)

LEMMA CountedSame ==
  ASSUME RestartsCounted, configs' = configs, tries' = tries, monitor'.s = monitor.s,
         \A s \in Sessions : /\ proc'[s].CurrentRetries = proc[s].CurrentRetries
                             /\ proc'[s].MaxRetries = proc[s].MaxRetries
  PROVE  RestartsCounted'
BY DEF RestartsCounted

LEMMA MonitorCounted ==
  ASSUME Basic, RestartsCounted, MonitorNext
  PROVE  RestartsCounted'
<1>0. ProcTypeOK /\ Shape /\ NoSession \notin Sessions
  BY ProcConstantsOK DEF Basic
<1>1. CASE MonitorCollect
  <2>1. monitor'.s = monitor.s /\ UNCHANGED <<proc, configs, tries>>
    BY <1>0, <1>1 DEF MonitorCollect, Shape
  <2>2. QED
    BY <2>1, CountedSame
<1>2. CASE MonitorSleep
  <2>1. monitor'.s = monitor.s /\ UNCHANGED <<proc, configs, tries>>
    BY <1>0, <1>2 DEF MonitorSleep, ProcTypeOK
  <2>2. QED
    BY <2>1, CountedSame
<1>3. ASSUME NEW s \in Sessions, MonitorSkip(s) PROVE RestartsCounted'
  <2>1. monitor'.s = monitor.s /\ UNCHANGED <<proc, configs, tries>>
    BY <1>0, <1>3 DEF MonitorSkip, ProcTypeOK
  <2>2. QED
    BY <2>1, CountedSame
<1>4. ASSUME NEW s \in Sessions, MonitorPick(s) PROVE RestartsCounted'
  <2>1. PickEffect(s) /\ monitor.s = NoSession
    BY <1>0, <1>4, PickStep DEF Shape, PickEffect
  <2>2. ASSUME configs = 0, NEW t \in Sessions
        PROVE  LET n == tries'[t] + (IF monitor'.s = t THEN 1 ELSE 0)
               IN  n <= proc'[t].CurrentRetries /\ n <= proc'[t].MaxRetries
    <3>1. /\ tries[t] <= proc[t].CurrentRetries /\ tries[t] <= proc[t].MaxRetries
          /\ tries[t] \in Nat /\ proc[t].CurrentRetries \in Nat /\ proc[t].MaxRetries \in Nat
      BY <1>0, <2>1, <2>2, Typed DEF RestartsCounted
    <3>2. /\ proc'[t].CurrentRetries = proc[t].CurrentRetries + (IF t = s THEN 1 ELSE 0)
          /\ proc'[t].MaxRetries = proc[t].MaxRetries /\ tries'[t] = tries[t]
          /\ monitor'.s = t => t = s /\ proc[t].CurrentRetries + 1 <= proc[t].MaxRetries
      BY <1>0, <2>1 DEF PickEffect, Again
    <3>3. QED
      BY <3>1, <3>2
  <2>3. QED
    BY <2>1, <2>2 DEF RestartsCounted, PickEffect
<1>5. CASE MonitorRestart
  <2>. DEFINE s == monitor.s
  <2>1. /\ s \in Sessions /\ RestartProcess(s) /\ monitor'.s = NoSession /\ configs' = configs
        /\ tries' = [tries EXCEPT ![s] = @ + 1]
    BY <1>0, <1>5 DEF MonitorRestart, Shape, ProcTypeOK
  <2>2. ASSUME NEW t \in Sessions
        PROVE  tries'[t] = tries[t] + (IF s = t THEN 1 ELSE 0) /\ tries[t] \in Nat
    BY <1>0, <2>1 DEF ProcTypeOK
  <2>3. \A t \in Sessions : /\ proc'[t].CurrentRetries = proc[t].CurrentRetries
                            /\ proc'[t].MaxRetries = proc[t].MaxRetries
    BY <1>0, <2>1, Restarted
  <2>4. QED
    BY <1>0, <2>1, <2>2, <2>3 DEF RestartsCounted
<1>6. QED
  BY <1>1, <1>2, <1>3, <1>4, <1>5 DEF MonitorNext

LEMMA ProcNextCounted ==
  ASSUME Basic, RestartsCounted, ProcNext
  PROVE  RestartsCounted'
<1>0. ProcTypeOK /\ Shape /\ NoSession \notin Sessions
  BY ProcConstantsOK DEF Basic
<1>1. CASE OSNext
  BY <1>0, <1>1, OSStep, CountedSame
<1>2. CASE MonitorNext
  BY <1>2, MonitorCounted
<1>3. ASSUME NEW c \in ToolCallers, KillDelete(c) PROVE RestartsCounted'
  BY <1>3, CountedSame DEF KillDelete
<1>4. ASSUME NEW c \in ToolCallers, RestartSpawn(c) PROVE RestartsCounted'
  <2>1. RestartProcess(caller[c].s) /\ caller[c].s \in Sessions /\ UNCHANGED <<monitor, configs, tries>>
    BY <1>0, <1>4 DEF RestartSpawn, Shape
  <2>2. QED
    BY <1>0, <2>1, Restarted, CountedSame
<1>5. CASE CleanupCollect \/ CleanupDelete
  BY <1>5, CountedSame DEF CleanupCollect, CleanupDelete
<1>6. ASSUME NEW s \in Sessions, Start(s) PROVE RestartsCounted'
  <2>1. /\ Untouched(s) /\ Spawned(s) /\ UNCHANGED <<monitor, configs, tries>>
        /\ proc'[s].CurrentRetries = 0 /\ proc'[s].MaxRetries \in Nat
    BY <1>6, Started
  <2>2. ASSUME configs = 0, NEW t \in Sessions
        PROVE  LET n == tries'[t] + (IF monitor'.s = t THEN 1 ELSE 0)
               IN  n <= proc'[t].CurrentRetries /\ n <= proc'[t].MaxRetries
    <3>1. CASE t = s
      BY <2>1, <3>1 DEF Untouched, WorkedOn, MonitorOn
    <3>2. CASE t # s
      BY <2>1, <2>2, <3>2 DEF Spawned, RestartsCounted
    <3>3. QED
      BY <3>1, <3>2
  <2>3. QED
    BY <2>1, <2>2 DEF RestartsCounted
<1>7. ASSUME NEW s \in Sessions, SetAutoRestart(s) PROVE RestartsCounted'
  <2>1. configs' = configs + 1 /\ configs \in Nat
    BY <1>0, <1>7, SetStep, ProcConstantsOK DEF SetEffect, ProcTypeOK
  <2>2. QED
    BY <2>1 DEF RestartsCounted
<1>8. ASSUME NEW s \in Sessions, NEW c \in ToolCallers, Kill(c, s) \/ Restart(c, s) PROVE RestartsCounted'
  BY <1>8, CountedSame DEF Kill, Restart
<1>9. QED
  BY <1>1, <1>2, <1>3, <1>4, <1>5, <1>6, <1>7, <1>8 DEF ProcNext, CallerNext

-----------------------------------------------------------------------------
(* What a session owns.                                                    *)

(* Nobody sets to work on the session, and it leaves the map only dead.    *)
LEMMA OwnedKept ==
  ASSUME Basic, NEW s \in Sessions, Owned(s), OsKept \/ os' = os, proc'[s].cmd = proc[s].cmd,
         \A c \in ToolCallers : caller'[c].s = s => caller[c].s = s,
         MonitorOn(s)' => MonitorOn(s), s \in toDelete' => s \in toDelete,
         s \in processes \ processes' => State(s) # "running"
  PROVE  Owned(s)'
<1>1. Alone(s)' /\ (WorkedOn(s)' => WorkedOn(s))
  BY DEF Owned, Alone, WorkedOn
<1>2. proc[s].cmd = 0 \/ proc[s].cmd \in DOMAIN os
  BY Typed DEF Basic, Shape
<1>3. State(s)' = "running" => State(s) = "running"
  BY <1>2 DEF State, OsKept
<1>4. \A k \in DOMAIN os' : k \in DOMAIN os /\ os'[k].s = os[k].s /\ (os'[k].st = "running" => os[k].st = "running")
  BY DEF OsKept
<1>5. ASSUME NEW k \in DOMAIN os', os'[k].s = s, os'[k].st = "running"
      PROVE  proc'[s].cmd = k /\ s \in processes'
  <2>1. proc[s].cmd = k /\ s \in processes /\ k \in DOMAIN os /\ os[k].st = "running"
    BY <1>4, <1>5 DEF Owned
  <2>2. k # 0
    BY <2>1, Typed DEF Basic
  <2>3. State(s) = "running"
    BY <2>1, <2>2 DEF State
  <2>4. QED
    BY <2>1, <2>3
<1>6. QED
  BY <1>1, <1>3, <1>5 DEF Owned

(* A session gets a new process when no other of its processes runs, and   *)
(* nobody else is at work on it.                                           *)
LEMMA OwnedSpawned ==
  ASSUME Basic, NEW s \in Sessions, Spawned(s), ~WorkedOn(s)',
         \A k \in DOMAIN os : os[k].s = s => os[k].st # "running"
  PROVE  Owned(s)'
<1>1. Alone(s)'
  BY DEF Alone, WorkedOn
<1>2. QED
  BY <1>1 DEF Owned, Spawned, OsGrows

LEMMA OwnedOther ==
  ASSUME Basic, NEW s \in Sessions, Spawned(s), NEW t \in Sessions \ {s}, Owned(t),
         \A c \in ToolCallers : caller'[c].s = t => caller[c].s = t,
         MonitorOn(t)' => MonitorOn(t), t \in toDelete' => t \in toDelete
  PROVE  Owned(t)'
<1>1. Alone(t)' /\ (WorkedOn(t)' => WorkedOn(t))
  BY DEF Owned, Alone, WorkedOn
<1>2. proc[t].cmd = 0 \/ proc[t].cmd \in DOMAIN os
  BY Typed DEF Basic, Shape
<1>3. State(t)' = State(t)
  BY <1>2 DEF State, Spawned, OsGrows
<1>4. QED
  BY <1>1, <1>3 DEF Owned, Spawned, OsGrows

(* No process of a session runs when its own does not.                     *)
LEMMA NoneRuns ==
  ASSUME Basic, NEW s \in Sessions, Owned(s), State(s) # "running"
  PROVE  \A k \in DOMAIN os : os[k].s = s => os[k].st # "running"
BY Typed DEF Basic, Owned, State

LEMMA SpawnOwned ==
  ASSUME Basic, AllOwned, NEW s \in Sessions, Spawned(s), overlapped' = overlapped,
         s \notin overlapped => /\ ~WorkedOn(s)'
                                /\ \A k \in DOMAIN os : os[k].s = s => os[k].st # "running",
         \A t \in Sessions \ {s} : /\ \A c \in ToolCallers : caller'[c].s = t => caller[c].s = t
                                   /\ MonitorOn(t)' => MonitorOn(t)
                                   /\ t \in toDelete' => t \in toDelete
  PROVE  AllOwned'
<1>. SUFFICES ASSUME NEW t \in Sessions \ overlapped PROVE Owned(t)'
  BY DEF AllOwned
<1>1. CASE t = s
  BY <1>1, OwnedSpawned
<1>2. CASE t # s
  BY <1>2, OwnedOther DEF AllOwned
<1>3. QED
  BY <1>1, <1>2

(* A restart that fails leaves the session as it was, in fewer hands.      *)
LEMMA NotSpawnedOwned ==
  ASSUME Basic, AllOwned, NotSpawned, UNCHANGED <<toDelete, overlapped>>,
         \A t \in Sessions : /\ \A c \in ToolCallers : caller'[c].s = t => caller[c].s = t
                             /\ MonitorOn(t)' => MonitorOn(t)
  PROVE  AllOwned'
<1>. SUFFICES ASSUME NEW t \in Sessions \ overlapped PROVE Owned(t)'
  BY DEF AllOwned
<1>1. Owned(t)
  BY DEF AllOwned
<1>2. QED
  BY <1>1, OwnedKept DEF NotSpawned

LEMMA CallOwned ==
  ASSUME Basic, AllOwned, NEW s \in Sessions, NEW c \in ToolCallers, Kill(c, s) \/ Restart(c, s)
  PROVE  AllOwned'
<1>0. CallEffect(s, c) /\ ProcTypeOK /\ Shape /\ NoSession \notin Sessions
  BY CallStep, ProcConstantsOK DEF Basic
<1>1. overlapped \subseteq overlapped' /\ (s \notin overlapped' => ~WorkedOn(s))
  BY <1>0, Noted DEF CallEffect
<1>. SUFFICES ASSUME NEW t \in Sessions \ overlapped' PROVE Owned(t)'
  BY DEF AllOwned
<1>2. Owned(t)
  BY <1>1 DEF AllOwned
<1>3. CASE t # s
  BY <1>0, <1>2, <1>3, OwnedKept DEF CallEffect, MonitorOn
<1>4. CASE t = s
  <2>1. ~WorkedOn(s) /\ \A d \in ToolCallers : caller'[d].s = s => d = c
    BY <1>0, <1>1, <1>4 DEF CallEffect, WorkedOn
  <2>2. Alone(s)'
    BY <1>0, <2>1 DEF CallEffect, WorkedOn, Alone, MonitorOn
  <2>3. State(s)' # "running"
    BY <1>0 DEF CallEffect, State, Shape, Untouched
  <2>4. \A k \in DOMAIN os' : os'[k].s = s /\ os'[k].st = "running" => proc'[s].cmd = k /\ s \in processes'
    BY <1>0, <1>2, <1>4 DEF CallEffect, OsKept, Owned
  <2>5. QED
    BY <1>4, <2>2, <2>3, <2>4 DEF Owned
<1>5. QED
  BY <1>3, <1>4

(* Who has a session in hand when the lock is taken again.                 *)
LEMMA CallerEndOwned ==
  ASSUME Basic, AllOwned, NEW c \in ToolCallers, KillDelete(c) \/ RestartSpawn(c)
  PROVE  AllOwned'
<1>0. ProcTypeOK /\ Shape /\ NoSession \notin Sessions
  BY ProcConstantsOK DEF Basic
<1>s. PICK s \in Sessions : s = caller[c].s
  BY <1>0 DEF KillDelete, RestartSpawn, Shape
<1>1. caller' = [caller EXCEPT ![c] = NoCall] /\ UNCHANGED <<monitor, toDelete, overlapped>>
  BY DEF KillDelete, RestartSpawn
<1>2. FreedEffect(c) /\ \A t \in Sessions : \A d \in ToolCallers : caller'[d].s = t => caller[d].s = t
  BY <1>0, <1>1, CallerFreed
<1>3. s \notin overlapped => Owned(s) /\ WorkedOn(s) /\ State(s) # "running"
  BY <1>s DEF AllOwned, Owned, WorkedOn
<1>4. CASE KillDelete(c)
  <2>1. processes' = processes \ {s} /\ UNCHANGED <<proc, os>>
    BY <1>s, <1>4 DEF KillDelete
  <2>2. ASSUME NEW t \in Sessions \ overlapped PROVE Owned(t)'
    <3>1. Owned(t) /\ (t \in processes \ processes' => State(t) # "running")
      BY <1>3, <2>1 DEF AllOwned
    <3>2. MonitorOn(t)' => MonitorOn(t)
      BY <1>1 DEF MonitorOn
    <3>3. QED
      BY <1>1, <1>2, <2>1, <3>1, <3>2, OwnedKept
  <2>3. QED
    BY <1>1, <2>2 DEF AllOwned
<1>5. CASE RestartSpawn(c)
  <2>1. Spawned(s) \/ NotSpawned
    BY <1>0, <1>s, <1>5, Restarted DEF RestartSpawn
  <2>2. ASSUME s \notin overlapped PROVE ~WorkedOn(s)'
    <3>1. ~MonitorOn(s)' /\ s \notin toDelete'
      BY <1>s, <1>1, <1>3, <2>2 DEF Owned, Alone, MonitorOn
    <3>2. \A d \in ToolCallers : caller'[d].s # s
      BY <1>s, <1>0, <1>2, <1>3, <2>2 DEF Owned, Alone, FreedEffect
    <3>3. QED
      BY <3>1, <3>2 DEF WorkedOn
  <2>3. s \notin overlapped => \A k \in DOMAIN os : os[k].s = s => os[k].st # "running"
    BY <1>1, <1>3, NoneRuns
  <2>4. \A t \in Sessions : MonitorOn(t)' => MonitorOn(t)
    BY <1>1 DEF MonitorOn
  <2>5. CASE Spawned(s)
    BY <1>1, <1>2, <2>2, <2>3, <2>4, <2>5, SpawnOwned
  <2>6. CASE NotSpawned
    BY <1>1, <1>2, <2>4, <2>6, NotSpawnedOwned
  <2>7. QED
    BY <2>1, <2>5, <2>6
<1>6. QED
  BY <1>4, <1>5

LEMMA MonitorOwned ==
  ASSUME Basic, AllOwned, MonitorNext
  PROVE  AllOwned'
<1>0. ProcTypeOK /\ Shape /\ NoSession \notin Sessions
  BY ProcConstantsOK DEF Basic
<1>1. CASE MonitorCollect
  <2>. DEFINE todo == {s \in processes : Exited(s) /\ proc[s].AutoRestart}
  <2>1. /\ monitor.pc = "idle" /\ monitor' = [pc |-> "busy", s |-> NoSession, todo |-> todo]
        /\ NoteOverlap(todo) /\ UNCHANGED <<processes, proc, os, toDelete, caller, configs, tries>>
        /\ todo \subseteq processes /\ \A s \in todo : State(s) = "exited"
    BY <1>1 DEF MonitorCollect, Exited
  <2>. HIDE DEF todo
  <2>2. todo \subseteq Sessions
    BY <1>0, <2>1 DEF ProcTypeOK
  <2>3. overlapped \subseteq overlapped' /\ \A s \in todo : s \notin overlapped' => ~WorkedOn(s)
    BY <1>0, <2>1, <2>2, Noted
  <2>4. ASSUME NEW t \in Sessions \ overlapped' PROVE Owned(t)'
    <3>1. Owned(t)
      BY <2>3 DEF AllOwned
    <3>2. CASE t \notin todo
      <4>1. ~MonitorOn(t)'
        BY <1>0, <2>1, <3>2 DEF MonitorOn
      <4>2. QED
        BY <2>1, <3>1, <4>1, OwnedKept
    <3>3. CASE t \in todo
      <4>1. ~WorkedOn(t) /\ State(t) = "exited" /\ State(t)' = State(t)
        BY <2>1, <2>3, <3>3 DEF State
      <4>2. Alone(t)'
        BY <2>1, <4>1 DEF Alone, WorkedOn
      <4>3. QED
        BY <2>1, <3>1, <4>1, <4>2 DEF Owned
    <3>4. QED
      BY <3>2, <3>3
  <2>5. QED
    BY <2>4 DEF AllOwned
<1>2. CASE MonitorRestart
  <2>s. PICK s \in Sessions : s = monitor.s
    BY <1>0, <1>2 DEF MonitorRestart, Shape
  <2>1. /\ monitor.pc = "delay" /\ RestartProcess(s) /\ s \notin monitor.todo
        /\ monitor' = [monitor EXCEPT !.pc = "busy", !.s = NoSession]
        /\ UNCHANGED <<toDelete, caller, overlapped>>
    BY <1>0, <1>2, <2>s DEF MonitorRestart, Shape
  <2>2. monitor'.todo = monitor.todo /\ monitor'.s = NoSession
    BY <1>0, <2>1 DEF ProcTypeOK
  <2>3. Spawned(s) \/ NotSpawned
    BY <1>0, <2>1, Restarted
  <2>4. MonitorOn(s) /\ ~MonitorOn(s)' /\ \A t \in Sessions : MonitorOn(t)' => MonitorOn(t)
    BY <1>0, <2>s, <2>1, <2>2 DEF MonitorOn
  <2>5. s \notin overlapped => Owned(s) /\ State(s) # "running"
    BY <2>1, <2>4 DEF AllOwned, Owned, WorkedOn
  <2>6. s \notin overlapped => ~WorkedOn(s)'
    BY <2>1, <2>4, <2>5 DEF Owned, Alone, WorkedOn
  <2>7. s \notin overlapped => \A k \in DOMAIN os : os[k].s = s => os[k].st # "running"
    BY <2>1, <2>5, NoneRuns
  <2>8. CASE Spawned(s)
    BY <2>1, <2>4, <2>6, <2>7, <2>8, SpawnOwned
  <2>9. CASE NotSpawned
    BY <2>1, <2>4, <2>9, NotSpawnedOwned
  <2>10. QED
    BY <2>3, <2>8, <2>9
<1>3. ASSUME UNCHANGED <<processes, os, toDelete, caller, overlapped>>,
             \A t \in Sessions : proc'[t].cmd = proc[t].cmd /\ (MonitorOn(t)' => MonitorOn(t))
      PROVE  AllOwned'
  BY <1>3, OwnedKept DEF AllOwned
<1>4. CASE MonitorSleep
  <2>1. monitor'.todo = monitor.todo /\ monitor'.s = monitor.s
    BY <1>0, <1>4 DEF MonitorSleep, ProcTypeOK
  <2>2. QED
    BY <1>3, <1>4, <2>1 DEF MonitorSleep, MonitorOn
<1>5. ASSUME NEW s \in Sessions, MonitorSkip(s) PROVE AllOwned'
  <2>1. monitor'.todo \subseteq monitor.todo /\ monitor'.s = monitor.s
    BY <1>0, <1>5 DEF MonitorSkip, ProcTypeOK
  <2>2. QED
    BY <1>3, <1>5, <2>1 DEF MonitorSkip, MonitorOn
<1>6. ASSUME NEW s \in Sessions, MonitorPick(s) PROVE AllOwned'
  <2>1. PickEffect(s)
    BY <1>0, <1>6, PickStep
  <2>2. \A t \in Sessions : MonitorOn(t)' => MonitorOn(t)
    BY <1>0, <2>1 DEF PickEffect, MonitorOn
  <2>3. QED
    BY <1>3, <2>1, <2>2 DEF PickEffect
<1>7. QED
  BY <1>1, <1>2, <1>4, <1>5, <1>6 DEF MonitorNext

LEMMA CleanupOwned ==
  ASSUME Basic, AllOwned, CleanupCollect \/ CleanupDelete
  PROVE  AllOwned'
<1>0. ProcTypeOK
  BY DEF Basic
<1>1. CASE CleanupCollect
  <2>1. /\ NoteOverlap(toDelete') /\ toDelete' \subseteq processes /\ toDelete' \subseteq Sessions
        /\ \A s \in toDelete' : State(s) = "exited"
        /\ UNCHANGED <<processes, proc, os, monitor, caller>> /\ toDelete = {}
    BY <1>0, <1>1 DEF CleanupCollect, Exited, ProcTypeOK
  <2>2. overlapped \subseteq overlapped' /\ \A s \in toDelete' : s \notin overlapped' => ~WorkedOn(s)
    BY <1>0, <2>1, Noted
  <2>3. ASSUME NEW t \in Sessions \ overlapped' PROVE Owned(t)'
    <3>1. Owned(t) /\ (MonitorOn(t)' <=> MonitorOn(t)) /\ State(t)' = State(t)
      BY <2>1, <2>2 DEF AllOwned, MonitorOn, State
    <3>2. CASE t \notin toDelete'
      BY <2>1, <3>1, <3>2, OwnedKept
    <3>3. CASE t \in toDelete'
      <4>1. ~WorkedOn(t) /\ State(t) = "exited"
        BY <2>1, <2>2, <3>3
      <4>2. Alone(t)'
        BY <2>1, <3>1, <4>1 DEF Alone, WorkedOn
      <4>3. QED
        BY <2>1, <3>1, <4>1, <4>2 DEF Owned
    <3>4. QED
      BY <3>2, <3>3
  <2>4. QED
    BY <2>3 DEF AllOwned
<1>2. CASE CleanupDelete
  <2>1. /\ processes' = processes \ toDelete /\ toDelete' = {}
        /\ UNCHANGED <<proc, os, monitor, caller, overlapped>>
    BY <1>2 DEF CleanupDelete
  <2>2. ASSUME NEW t \in Sessions \ overlapped PROVE Owned(t)'
    <3>1. Owned(t) /\ (MonitorOn(t)' <=> MonitorOn(t))
      BY <2>1 DEF AllOwned, MonitorOn
    <3>2. t \in toDelete => State(t) # "running"
      BY <3>1 DEF Owned, WorkedOn
    <3>3. QED
      BY <2>1, <3>1, <3>2, OwnedKept
  <2>3. QED
    BY <2>1, <2>2 DEF AllOwned
<1>3. QED
  BY <1>1, <1>2

LEMMA ProcNextOwned ==
  ASSUME Basic, AllOwned, ProcNext
  PROVE  AllOwned'
<1>0. ProcTypeOK /\ Shape
  BY DEF Basic
<1>1. CASE OSNext
  BY <1>0, <1>1, OSStep, OwnedKept DEF AllOwned, MonitorOn
<1>2. ASSUME NEW s \in Sessions, Start(s) PROVE AllOwned'
  <2>1. Untouched(s) /\ Spawned(s) /\ UNCHANGED <<monitor, toDelete, caller, overlapped>>
    BY <1>2, Started
  <2>2. \A t \in Sessions : (MonitorOn(t)' <=> MonitorOn(t)) /\ (WorkedOn(t)' <=> WorkedOn(t))
    BY <2>1 DEF MonitorOn, WorkedOn
  <2>3. QED
    BY <2>1, <2>2, SpawnOwned DEF Untouched
<1>3. ASSUME NEW s \in Sessions, SetAutoRestart(s) PROVE AllOwned'
  <2>1. SetEffect(s)
    BY <1>0, <1>3, SetStep
  <2>2. QED
    BY <2>1, OwnedKept DEF AllOwned, MonitorOn, SetEffect
<1>4. QED
  BY <1>1, <1>2, <1>3, MonitorOwned, CallerEndOwned, CleanupOwned, CallOwned DEF ProcNext, CallerNext

LEMMA ProcNextInv ==
  ASSUME ProcIInv, [ProcNext]_procVars
  PROVE  ProcIInv'
<1>1. CASE ProcNext
  BY <1>1, ProcNextBasic, ProcNextCounted, ProcNextOwned DEF ProcIInv
<1>2. CASE UNCHANGED procVars
  <2>1. UNCHANGED <<processes, proc, os, monitor, toDelete, caller, configs, tries, overlapped>>
    BY <1>2 DEF procVars
  <2>2. Basic'
    BY <2>1 DEF ProcIInv, Basic, ProcTypeOK, Shape, Untouched, WorkedOn, MonitorOn
  <2>3. RestartsCounted'
    BY <2>1 DEF ProcIInv, RestartsCounted
  <2>4. AllOwned'
    BY <2>1 DEF ProcIInv, AllOwned, Owned, Alone, WorkedOn, MonitorOn, State
  <2>5. QED
    BY <2>2, <2>3, <2>4 DEF ProcIInv
<1>3. QED
  BY <1>1, <1>2

-----------------------------------------------------------------------------
(* The sessions, their processes and the operations that are under way are *)
(* of their types in every reachable state.                                *)
THEOREM ProcTypeCorrect == ProcSpec => []ProcTypeOK
<1>1. ProcIInv => ProcTypeOK
  BY DEF ProcIInv, Basic
<1>2. QED
  BY <1>1, ProcInitInv, ProcNextInv, PTL DEF ProcSpec

(* Whatever kills and restarts come in between, the monitor restarts a     *)
(* session that no autostart call has touched at most maxRetries times.    *)
THEOREM MonitorRestartsBounded == ProcSpec => []RetriesBounded
<1>1. ProcIInv => RetriesBounded
  <2>. SUFFICES ASSUME ProcIInv, configs = 0, NEW s \in Sessions
                PROVE  tries[s] <= proc[s].MaxRetries
    BY DEF RetriesBounded
  <2>1. tries[s] \in Nat /\ proc[s].MaxRetries \in Nat
    BY Typed DEF ProcIInv, Basic
  <2>2. tries[s] + (IF monitor.s = s THEN 1 ELSE 0) <= proc[s].MaxRetries
    BY DEF ProcIInv, RestartsCounted
  <2>3. QED
    BY <2>1, <2>2
<1>2. QED
  BY <1>1, ProcInitInv, ProcNextInv, PTL DEF ProcSpec

(* Every process that still runs is the one its tracked session owns,      *)
(* except on a session on which two of kill, restart, the monitor and the  *)
(* cleanup overlapped.                                                     *)
THEOREM NothingRunsUnowned == ProcSpec => []OneLiveProcess
<1>1. ProcIInv => OneLiveProcess
  <2>. SUFFICES ASSUME ProcIInv, NEW k \in DOMAIN os, os[k].st = "running", os[k].s \notin overlapped
                PROVE  proc[os[k].s].cmd = k /\ os[k].s \in processes
    BY DEF OneLiveProcess
  <2>1. os[k].s \in Sessions
    BY Typed DEF ProcIInv, Basic
  <2>2. QED
    BY <2>1 DEF ProcIInv, AllOwned, Owned
<1>2. QED
  BY <1>1, ProcInitInv, ProcNextInv, PTL DEF ProcSpec

(* Only those who hold a session, and an API call that finds it in the     *)
(* map, can do anything to it.                                             *)
LEMMA ForgottenStays ==
  ASSUME Basic, ProcNext, NEW s \in Sessions, Forgotten(s)
  PROVE  Forgotten(s)'
<1>0. ProcTypeOK /\ Shape /\ NoSession \notin Sessions
  BY ProcConstantsOK DEF Basic
<1>. USE DEF Forgotten
<1>1. CASE OSNext
  BY <1>0, <1>1, OSStep
<1>2. CASE MonitorNext
  <2>1. CASE MonitorCollect
    BY <1>0, <2>1 DEF MonitorCollect
  <2>2. CASE MonitorRestart
    <3>1. PICK m \in Sessions : m = monitor.s
      BY <1>0, <2>2 DEF MonitorRestart, Shape
    <3>2. (Spawned(m) \/ NotSpawned) /\ m # s
      BY <1>0, <2>2, <3>1, Restarted DEF MonitorRestart
    <3>3. monitor'.s = NoSession /\ UNCHANGED caller
      BY <1>0, <2>2 DEF MonitorRestart, ProcTypeOK
    <3>4. QED
      BY <1>0, <3>2, <3>3 DEF Spawned, NotSpawned
  <2>3. CASE MonitorSleep
    BY <1>0, <2>3 DEF MonitorSleep, ProcTypeOK
  <2>4. ASSUME NEW t \in Sessions, MonitorPick(t) PROVE Forgotten(s)'
    <3>1. PickEffect(t)
      BY <1>0, <2>4, PickStep
    <3>2. QED
      BY <1>0, <3>1 DEF PickEffect
  <2>5. ASSUME NEW t \in Sessions, MonitorSkip(t) PROVE Forgotten(s)'
    BY <1>0, <2>5 DEF MonitorSkip, ProcTypeOK
  <2>6. QED
    BY <1>2, <2>1, <2>2, <2>3, <2>4, <2>5 DEF MonitorNext
<1>3. ASSUME NEW c \in ToolCallers, KillDelete(c) \/ RestartSpawn(c) PROVE Forgotten(s)'
  <2>1. caller' = [caller EXCEPT ![c] = NoCall] /\ UNCHANGED monitor
    BY <1>3 DEF KillDelete, RestartSpawn
  <2>2. \A d \in ToolCallers : caller'[d].s # s
    BY <1>0, <2>1, CallerFreed
  <2>3. CASE KillDelete(c)
    BY <2>1, <2>2, <2>3 DEF KillDelete
  <2>4. CASE RestartSpawn(c)
    <3>1. PICK t \in Sessions : t = caller[c].s
      BY <1>0, <2>4 DEF RestartSpawn, Shape
    <3>2. (Spawned(t) \/ NotSpawned) /\ t # s
      BY <1>0, <2>4, <3>1, Restarted DEF RestartSpawn
    <3>3. QED
      BY <2>1, <2>2, <3>2 DEF Spawned, NotSpawned
  <2>5. QED
    BY <1>3, <2>3, <2>4
<1>4. CASE CleanupCollect \/ CleanupDelete
  BY <1>4 DEF CleanupCollect, CleanupDelete
<1>5. ASSUME NEW t \in Sessions, Start(t) PROVE Forgotten(s)'
  <2>1. Spawned(t) /\ UNCHANGED <<monitor, caller>> /\ t # s
    BY <1>0, <1>5, Started DEF Start
  <2>2. QED
    BY <2>1 DEF Spawned
<1>6. ASSUME NEW t \in Sessions, SetAutoRestart(t) PROVE Forgotten(s)'
  <2>1. SetEffect(t)
    BY <1>0, <1>6, SetStep
  <2>2. QED
    BY <2>1 DEF SetEffect
<1>7. ASSUME NEW t \in Sessions, NEW c \in ToolCallers, Kill(c, t) \/ Restart(c, t) PROVE Forgotten(s)'
  <2>1. CallEffect(t, c)
    BY <1>7, CallStep
  <2>2. QED
    BY <2>1 DEF CallEffect
<1>8. QED
  BY <1>1, <1>2, <1>3, <1>4, <1>5, <1>6, <1>7 DEF ProcNext, CallerNext

(* A session that left the map while nobody was restarting or killing it   *)
(* is never tracked again.                                                 *)
THEOREM KillIsFinal == ProcSpec => KilledStaysGone
<1>1. ASSUME ProcIInv, [ProcNext]_procVars
      PROVE  [\A s \in Sessions : Forgotten(s) => Forgotten(s)']_procVars
  <2>1. CASE ProcNext
    BY <1>1, <2>1, ForgottenStays DEF ProcIInv
  <2>2. CASE UNCHANGED procVars
    BY <2>2
  <2>3. QED
    BY <1>1, <2>1, <2>2
<1>2. QED
  BY <1>1, ProcInitInv, ProcNextInv, PTL DEF ProcSpec, KilledStaysGone

-----------------------------------------------------------------------------
(* ServiceManager: commands that are run one by one, whatever they are     *)
(* told to do and wherever they are interrupted.                           *)
AtWork(c) == cmd[c].at \notin {"idle", "foreground"}

CmdTypes == [op : {"idle", "start", "stop", "restart"},
             i  : 0..Len(StartOrder) + Len(StopOrder),
             at : {"idle", "check", "exec", "write", "wait", "foreground",
                   "term", "int", "kill", "remove"},
             pid : Pids \cup {0}]

(* A command is at a step of its operation and at a service of its order.  *)
Placed(r) ==
  /\ r.at = "idle" => r = Idle
  /\ \/ r.at \in {"idle", "foreground"}
     \/ r.op = "start" /\ r.at \in {"check", "exec", "write", "wait"} /\ r.i \in DOMAIN StartOrder
     \/ r.op \in Stopping /\ r.at \in {"check", "term", "int", "kill", "remove"} /\ r.i \in DOMAIN StopOrder

(* A child of a command that runs is not waited for, so that its number is *)
(* not free.                                                               *)
Children ==
  /\ \A c \in Commands : \A p \in child[c] : running[p] # "none"
  /\ \A c, d \in Commands : \A p \in child[c] : p \in child[d] => c = d

OneAtWork == \A c, d \in Commands : AtWork(c) /\ AtWork(d) => c = d

(* The pid file that is about to be written names no running process of    *)
(* the service, and the one that is about to be removed neither.           *)
Replaces(c) ==
  LET q == pidFile[ServiceOf(c)] IN q = 0 \/ q = cmd[c].pid \/ running[q] # ServiceOf(c)

InHand(c) ==
  /\ At(c, {"start"}, "exec") => cmd[c].pid = 0 /\ Replaces(c)
  /\ At(c, {"start"}, "write") =>
       /\ cmd[c].pid \in child[c] /\ running[cmd[c].pid] \in {ServiceOf(c), "zombie"} /\ Replaces(c)
  /\ cmd[c].at \in {"term", "int", "kill", "remove"} => pidFile[ServiceOf(c)] = cmd[c].pid /\ cmd[c].pid # 0
  /\ cmd[c].at = "remove" => running[cmd[c].pid] # ServiceOf(c)

SvcIInv ==
  /\ ServiceTypeOK /\ OneAtWork /\ Children /\ Tracked
  /\ \A c \in Commands : Placed(cmd[c]) /\ InHand(c)

-----------------------------------------------------------------------------
LEMMA SvcTyped ==
  ASSUME ServiceTypeOK
  PROVE  /\ cmd \in [Commands -> CmdTypes] /\ pidFile \in [Services -> Pids \cup {0}]
         /\ running \in [Pids -> Services \cup {"none", "other", "zombie"}]
         /\ child \in [Commands -> SUBSET Pids] /\ stray \subseteq Pids
         /\ \A c \in Commands : cmd[c] \in CmdTypes /\ cmd[c].pid \in Pids \cup {0}
         /\ 0 \notin Pids /\ "none" \notin Services /\ "other" \notin Services /\ "zombie" \notin Services
         /\ Len(StartOrder) \in Nat /\ DOMAIN StartOrder = 1..Len(StartOrder) /\ 1 \in DOMAIN StartOrder
         /\ Len(StopOrder) \in Nat /\ DOMAIN StopOrder = 1..Len(StopOrder) /\ 1 \in DOMAIN StopOrder
<1>1. cmd \in [Commands -> CmdTypes]
  BY DEF ServiceTypeOK, CmdTypes
<1>2. \A c \in Commands : cmd[c] \in CmdTypes /\ cmd[c].pid \in Pids \cup {0}
  BY <1>1 DEF CmdTypes
<1>3. /\ StartOrder \in Seq(Services) /\ StopOrder \in Seq(Services)
      /\ DOMAIN StartOrder # {} /\ DOMAIN StopOrder # {}
  BY ServiceConstantsOK DEF Services
<1>4. /\ Len(StartOrder) \in Nat /\ DOMAIN StartOrder = 1..Len(StartOrder) /\ 1 \in DOMAIN StartOrder
      /\ Len(StopOrder) \in Nat /\ DOMAIN StopOrder = 1..Len(StopOrder) /\ 1 \in DOMAIN StopOrder
  BY <1>3
<1>5. 0 \notin Pids /\ "none" \notin Services /\ "other" \notin Services /\ "zombie" \notin Services
  BY ServiceConstantsOK
<1>6. QED
  BY <1>1, <1>2, <1>4, <1>5 DEF ServiceTypeOK

LEMMA ServiceNamed ==
  ASSUME ServiceTypeOK, NEW c \in Commands, Placed(cmd[c]), AtWork(c)
  PROVE  ServiceOf(c) \in Services
<1>1. CASE cmd[c].op = "start" /\ cmd[c].i \in DOMAIN StartOrder
  BY <1>1 DEF ServiceOf, Services
<1>2. CASE cmd[c].op \in Stopping /\ cmd[c].i \in DOMAIN StopOrder
  BY <1>2, ServiceConstantsOK DEF ServiceOf, Stopping
<1>3. QED
  BY <1>1, <1>2 DEF Placed, AtWork

(* The command c goes on to r.                                             *)
CmdGoes(c, r) ==
  /\ cmd' \in [Commands -> CmdTypes] /\ cmd'[c] = r
  /\ \A d \in Commands : d # c => cmd'[d] = cmd[d]

LEMMA GoesTo ==
  ASSUME ServiceTypeOK, NEW c \in Commands, NEW r \in CmdTypes, cmd' = [cmd EXCEPT ![c] = r]
  PROVE  CmdGoes(c, r)
BY SvcTyped DEF CmdGoes

(* A command in all its fields.                                            *)
LEMMA CmdFields ==
  ASSUME NEW x \in CmdTypes
  PROVE  /\ \A at, pid : [[x EXCEPT !.at = at] EXCEPT !.pid = pid]
                           = [op |-> x.op, i |-> x.i, at |-> at, pid |-> pid]
         /\ \A i : [x EXCEPT !.i = i] = [op |-> x.op, i |-> i, at |-> x.at, pid |-> x.pid]
<1>1. \E o, j, a, q : x = [op |-> o, i |-> j, at |-> a, pid |-> q]
  BY DEF CmdTypes
<1>2. ASSUME NEW at, NEW pid
      PROVE  [[x EXCEPT !.at = at] EXCEPT !.pid = pid] = [op |-> x.op, i |-> x.i, at |-> at, pid |-> pid]
  <2>1. PICK y : y = [x EXCEPT !.at = at]
    OBVIOUS
  <2>2. y = [op |-> x.op, i |-> x.i, at |-> at, pid |-> x.pid]
    BY <1>1, <2>1
  <2>3. [y EXCEPT !.pid = pid] = [op |-> x.op, i |-> x.i, at |-> at, pid |-> pid]
    BY <2>2
  <2>4. QED
    BY <2>1, <2>3
<1>3. ASSUME NEW i PROVE [x EXCEPT !.i = i] = [op |-> x.op, i |-> i, at |-> x.at, pid |-> x.pid]
  BY <1>1
<1>4. QED
  BY <1>2, <1>3, Zenon

CmdAts == {"idle", "check", "exec", "write", "wait", "foreground", "term", "int", "kill", "remove"}

LEMMA GoesOn ==
  ASSUME ServiceTypeOK, NEW c \in Commands, NEW at \in CmdAts, NEW pid \in Pids \cup {0}, GoOn(c, at, pid)
  PROVE  /\ CmdGoes(c, [op |-> cmd[c].op, i |-> cmd[c].i, at |-> at, pid |-> pid])
         /\ [op |-> cmd[c].op, i |-> cmd[c].i, at |-> at, pid |-> pid] \in CmdTypes
<1>. DEFINE r == [op |-> cmd[c].op, i |-> cmd[c].i, at |-> at, pid |-> pid]
<1>1. cmd[c] \in CmdTypes /\ cmd \in [Commands -> CmdTypes]
  BY SvcTyped
<1>2. r \in CmdTypes
  BY <1>1 DEF CmdTypes, CmdAts
<1>3. cmd' = [cmd EXCEPT ![c] = [[cmd[c] EXCEPT !.at = at] EXCEPT !.pid = pid]]
  BY <1>1 DEF GoOn
<1>4. [[cmd[c] EXCEPT !.at = at] EXCEPT !.pid = pid] = r
  BY <1>1, CmdFields
<1>5. QED
  BY <1>2, <1>3, <1>4, GoesTo

(* No process of a service comes into being.                               *)
NoneStarts ==
  /\ running' \in [Pids -> Services \cup {"none", "other", "zombie"}]
  /\ child' \in [Commands -> SUBSET Pids]
  /\ \A p \in Pids : running'[p] \in Services => running'[p] = running[p]
  /\ \A d \in Commands : /\ child'[d] \subseteq child[d]
                         /\ \A q \in child'[d] : running'[q] \in {running[q], "zombie"}

LEMMA ChildrenKept ==
  ASSUME ServiceTypeOK, Children, NoneStarts
  PROVE  Children'
BY SvcTyped DEF Children, NoneStarts

LEMMA NothingStarts ==
  ASSUME ServiceTypeOK, UNCHANGED <<running, child>>
  PROVE  NoneStarts
BY DEF ServiceTypeOK, NoneStarts

LEMMA Dies ==
  ASSUME ServiceTypeOK, NEW p \in Pids, running' = [running EXCEPT ![p] = Dead(p)], child' = child
  PROVE  NoneStarts /\ running'[p] \in {"none", "zombie"}
<1>1. Dead(p) \in {"none", "zombie"} /\ \A d \in Commands : p \in child[d] => Dead(p) = "zombie"
  BY DEF Dead
<1>2. \A q \in Pids : running'[q] = IF q = p THEN Dead(p) ELSE running[q]
  BY DEF ServiceTypeOK
<1>3. running' \in [Pids -> Services \cup {"none", "other", "zombie"}] /\ child' \in [Commands -> SUBSET Pids]
  BY <1>1 DEF ServiceTypeOK
<1>4. QED
  BY <1>1, <1>2, <1>3, SvcTyped DEF NoneStarts

(* The command ends, after its last process was killed or without that.    *)
LEMMA Exits ==
  ASSUME ServiceTypeOK, Children, NEW c \in Commands,
         NEW procs \in [Pids -> Services \cup {"none", "other", "zombie"}], Exit(c, procs),
         \A p \in Pids : procs[p] \in {running[p], "zombie"}
  PROVE  NoneStarts /\ CmdGoes(c, Idle) /\ Idle \in CmdTypes
         /\ \A p \in Pids : running'[p] \in Services => procs[p] = running'[p]
<1>1. /\ running' \in [Pids -> Services \cup {"none", "other", "zombie"}]
      /\ \A p \in Pids : running'[p] = IF p \in child[c] /\ procs[p] = "zombie" THEN "none" ELSE procs[p]
  BY DEF Exit
<1>2. child' \in [Commands -> SUBSET Pids] /\ \A d \in Commands : child'[d] = IF d = c THEN {} ELSE child[d]
  BY DEF Exit, ServiceTypeOK
<1>3. Idle \in CmdTypes
  BY SvcTyped DEF Idle, CmdTypes
<1>4. NoneStarts
  BY <1>1, <1>2, SvcTyped DEF NoneStarts, Children
<1>5. QED
  BY <1>1, <1>3, <1>4, GoesTo, SvcTyped DEF Exit

-----------------------------------------------------------------------------
(* A command that is the only one at work takes a step.                    *)
OnlyOne(c) == \A d \in Commands : d # c => ~AtWork(d)

LEMMA StepOfOne ==
  ASSUME SvcIInv, NEW c \in Commands, OnlyOne(c), NEW r \in CmdTypes, CmdGoes(c, r), Placed(r),
         running' \in [Pids -> Services \cup {"none", "other", "zombie"}],
         child' \in [Commands -> SUBSET Pids], pidFile' \in [Services -> Pids \cup {0}],
         stray' \subseteq Pids, Children', InHand(c)', Tracked'
  PROVE  SvcIInv'
<1>1. ServiceTypeOK'
  BY DEF ServiceTypeOK, CmdGoes, CmdTypes
<1>2. \A d \in Commands : d # c => ~AtWork(d)'
  BY DEF OnlyOne, AtWork, CmdGoes
<1>3. OneAtWork'
  BY <1>2 DEF OneAtWork
<1>4. \A d \in Commands : Placed(cmd[d])'
  BY DEF SvcIInv, CmdGoes, Placed, Idle, Stopping
<1>5. \A d \in Commands : InHand(d)'
  BY <1>2 DEF InHand, AtWork, At
<1>6. QED
  BY <1>1, <1>3, <1>4, <1>5 DEF SvcIInv

LEMMA TrackedKept ==
  ASSUME SvcIInv, NoneStarts, pidFile' = pidFile,
         \A p \in stray : p \in stray' \/ running'[p] \notin Services,
         \A c \in Commands : At(c, {"start"}, "write") =>
            \/ cmd'[c] = cmd[c]
            \/ running'[cmd[c].pid] \notin Services
            \/ cmd[c].pid \in stray'
  PROVE  Tracked'
<1>. SUFFICES ASSUME NEW p \in Pids, running'[p] \in Services
              PROVE  \/ pidFile'[running'[p]] = p
                     \/ \E c \in Commands : At(c, {"start"}, "write")' /\ cmd'[c].pid = p
                     \/ p \in stray'
  BY DEF Tracked
<1>1. running'[p] = running[p]
  BY DEF NoneStarts
<1>2. CASE pidFile[running[p]] = p
  BY <1>1, <1>2
<1>3. ASSUME NEW c \in Commands, At(c, {"start"}, "write"), cmd[c].pid = p
      PROVE  p \in stray' \/ (At(c, {"start"}, "write")' /\ cmd'[c].pid = p)
  BY <1>3 DEF At
<1>4. CASE p \in stray
  BY <1>4
<1>5. QED
  BY <1>1, <1>2, <1>3, <1>4 DEF SvcIInv, Tracked

(* A step after which the command has no service in hand.                  *)
LEMMA PlainStep ==
  ASSUME SvcIInv, NEW c \in Commands, OnlyOne(c), NEW r \in CmdTypes, CmdGoes(c, r), Placed(r), NoneStarts,
         r.at \in {"idle", "check", "wait", "foreground"}, UNCHANGED <<pidFile, stray>>,
         At(c, {"start"}, "write") => running'[cmd[c].pid] \notin Services
  PROVE  SvcIInv'
<1>1. InHand(c)'
  BY DEF InHand, At, CmdGoes
<1>2. \A d \in Commands : At(d, {"start"}, "write") => d = c
  BY DEF OnlyOne, AtWork, At
<1>3. Tracked'
  BY <1>2, TrackedKept
<1>4. ServiceTypeOK /\ Children'
  BY ChildrenKept DEF SvcIInv
<1>5. QED
  BY <1>1, <1>3, <1>4, StepOfOne DEF NoneStarts, ServiceTypeOK

LEMMA NextStartStep ==
  ASSUME SvcIInv, NEW c \in Commands, cmd[c].op = "start", cmd[c].i \in DOMAIN StartOrder, NextStart(c)
  PROVE  NoneStarts /\ \E r \in CmdTypes : /\ CmdGoes(c, r) /\ Placed(r)
                                           /\ r.at \in {"idle", "check", "foreground"}
<1>0. ServiceTypeOK /\ Children
  BY DEF SvcIInv
<1>1. CASE Exit(c, running)
  <2>1. running \in [Pids -> Services \cup {"none", "other", "zombie"}]
    BY <1>0 DEF ServiceTypeOK
  <2>2. NoneStarts /\ CmdGoes(c, Idle) /\ Idle \in CmdTypes
    BY <1>0, <1>1, <2>1, Exits
  <2>3. QED
    BY <2>2 DEF Placed, Idle
<1>2. CASE GoOn(c, "foreground", 0) /\ UNCHANGED <<running, child>>
  <2>. DEFINE r == [op |-> cmd[c].op, i |-> cmd[c].i, at |-> "foreground", pid |-> 0]
  <2>1. CmdGoes(c, r) /\ r \in CmdTypes
    BY <1>0, <1>2, GoesOn DEF CmdAts
  <2>2. Placed(r) /\ r.at = "foreground"
    BY DEF Placed
  <2>. HIDE DEF r
  <2>3. QED
    BY <1>0, <1>2, <2>1, <2>2, NothingStarts
<1>3. CASE cmd[c].i < Len(StartOrder) /\ ~Exit(c, running) /\ ~GoOn(c, "foreground", 0)
  <2>. DEFINE r == [op |-> "start", i |-> cmd[c].i + 1, at |-> "check", pid |-> 0]
  <2>1. r \in CmdTypes /\ Placed(r) /\ r.at = "check"
    BY <1>0, <1>3, SvcTyped DEF CmdTypes, Placed
  <2>2. cmd' = [cmd EXCEPT ![c] = r] /\ UNCHANGED <<running, child>>
    BY <1>3 DEF NextStart
  <2>. HIDE DEF r
  <2>3. QED
    BY <1>0, <2>1, <2>2, GoesTo, NothingStarts
<1>4. QED
  BY <1>1, <1>2, <1>3 DEF NextStart

LEMMA NextStopStep ==
  ASSUME SvcIInv, NEW c \in Commands, cmd[c].op \in Stopping, cmd[c].i \in DOMAIN StopOrder, NextStop(c)
  PROVE  NoneStarts /\ \E r \in CmdTypes : /\ CmdGoes(c, r) /\ Placed(r)
                                           /\ r.at \in {"idle", "check", "foreground"}
<1>0. ServiceTypeOK /\ Children
  BY DEF SvcIInv
<1>1. CASE cmd[c].i < Len(StopOrder)
  <2>. DEFINE r == [op |-> cmd[c].op, i |-> cmd[c].i + 1, at |-> "check", pid |-> 0]
  <2>1. r \in CmdTypes /\ Placed(r) /\ r.at = "check"
    BY <1>0, <1>1, SvcTyped DEF CmdTypes, Placed, Stopping
  <2>2. cmd[c] \in CmdTypes /\ cmd \in [Commands -> CmdTypes]
    BY <1>0, SvcTyped
  <2>3. cmd' = [cmd EXCEPT ![c] = [[[cmd[c] EXCEPT !.i = cmd[c].i + 1] EXCEPT !.at = "check"] EXCEPT !.pid = 0]]
        /\ UNCHANGED <<running, child>>
    BY <1>1, <2>2 DEF NextStop
  <2>4. [[[cmd[c] EXCEPT !.i = cmd[c].i + 1] EXCEPT !.at = "check"] EXCEPT !.pid = 0] = r
    <3>1. PICK x : x = [cmd[c] EXCEPT !.i = cmd[c].i + 1]
      OBVIOUS
    <3>2. x = [op |-> cmd[c].op, i |-> cmd[c].i + 1, at |-> cmd[c].at, pid |-> cmd[c].pid]
      BY <2>2, <3>1, CmdFields
    <3>3. x \in CmdTypes
      BY <1>0, <1>1, <2>2, <3>2, SvcTyped DEF CmdTypes
    <3>4. [[x EXCEPT !.at = "check"] EXCEPT !.pid = 0]
            = [op |-> x.op, i |-> x.i, at |-> "check", pid |-> 0]
      BY <3>3, CmdFields
    <3>5. QED
      BY <3>1, <3>2, <3>4
  <2>. HIDE DEF r
  <2>5. QED
    BY <1>0, <2>1, <2>3, <2>4, GoesTo, NothingStarts
<1>2. CASE ~(cmd[c].i < Len(StopOrder)) /\ cmd[c].op = "restart"
  <2>. DEFINE r == [op |-> "start", i |-> 1, at |-> "check", pid |-> 0]
  <2>1. r \in CmdTypes /\ Placed(r) /\ r.at = "check"
    BY <1>0, SvcTyped DEF CmdTypes, Placed
  <2>2. cmd' = [cmd EXCEPT ![c] = r] /\ UNCHANGED <<running, child>>
    BY <1>2 DEF NextStop
  <2>. HIDE DEF r
  <2>3. QED
    BY <1>0, <2>1, <2>2, GoesTo, NothingStarts
<1>3. CASE ~(cmd[c].i < Len(StopOrder)) /\ cmd[c].op # "restart"
  <2>1. running \in [Pids -> Services \cup {"none", "other", "zombie"}] /\ Exit(c, running)
    BY <1>0, <1>3 DEF ServiceTypeOK, NextStop
  <2>2. NoneStarts /\ CmdGoes(c, Idle) /\ Idle \in CmdTypes
    BY <1>0, <2>1, Exits
  <2>3. QED
    BY <2>2 DEF Placed, Idle
<1>4. QED
  BY <1>1, <1>2, <1>3

-----------------------------------------------------------------------------
(* Starting                                                                *)
LEMMA AloneAtWork ==
  ASSUME SvcIInv, NEW c \in Commands, AtWork(c)
  PROVE  OnlyOne(c)
BY DEF SvcIInv, OneAtWork, OnlyOne

(* A command is begun when no other is at work.                            *)
LEMMA BeginInv ==
  ASSUME OneByOne, SvcIInv, NEW c \in Commands, NEW op \in {"start", "stop", "restart"}, Begin(c, op)
  PROVE  SvcIInv'
<1>. DEFINE r == [op |-> op, i |-> 1, at |-> "check", pid |-> 0]
<1>1. OnlyOne(c) /\ cmd[c] = Idle /\ cmd' = [cmd EXCEPT ![c] = r]
      /\ UNCHANGED <<running, child, pidFile, stray>>
  BY DEF Begin, OnlyOne, AtWork
<1>2. r \in CmdTypes /\ Placed(r) /\ r.at = "check"
  BY SvcTyped DEF SvcIInv, CmdTypes, Placed, Stopping
<1>3. ~At(c, {"start"}, "write")
  BY <1>1 DEF At, Idle
<1>. HIDE DEF r
<1>4. CmdGoes(c, r) /\ NoneStarts
  BY <1>1, <1>2, GoesTo, NothingStarts DEF SvcIInv
<1>5. QED
  BY <1>1, <1>2, <1>3, <1>4, PlainStep

LEMMA StartCheckInv ==
  ASSUME SvcIInv, NEW c \in Commands, StartCheck(c)
  PROVE  SvcIInv'
<1>0. ServiceTypeOK /\ Children /\ cmd[c].op = "start" /\ cmd[c].at = "check" /\ Placed(cmd[c])
  BY DEF SvcIInv, StartCheck, At
<1>. DEFINE s == ServiceOf(c)
            alive == PidAlive(pidFile[s])
            r == [op |-> cmd[c].op, i |-> cmd[c].i, at |-> IF alive THEN "wait" ELSE "exec", pid |-> 0]
<1>1. OnlyOne(c) /\ UNCHANGED <<running, child, pidFile, stray>>
  BY <1>0, AloneAtWork DEF AtWork, StartCheck
<1>2. CmdGoes(c, r) /\ r \in CmdTypes
  <2>1. (IF alive THEN "wait" ELSE "exec") \in CmdAts
    BY DEF CmdAts
  <2>2. QED
    BY <1>0, <2>1, GoesOn DEF StartCheck
<1>3. Placed(r) /\ NoneStarts
  BY <1>0, <1>1, NothingStarts DEF Placed, Stopping
<1>4. CASE alive
  BY <1>0, <1>1, <1>2, <1>3, <1>4, PlainStep DEF At
<1>5. CASE ~alive
  <2>1. ServiceOf(c)' = s /\ cmd'[c].pid = 0 /\ cmd'[c].at = "exec" /\ s \in Services
    BY <1>0, <1>2, <1>5, ServiceNamed DEF ServiceOf, CmdGoes, AtWork
  <2>2. Replaces(c)'
    BY <1>0, <1>1, <1>5, <2>1, SvcTyped DEF Replaces, PidAlive
  <2>3. InHand(c)'
    BY <2>1, <2>2 DEF InHand, At
  <2>4. \A d \in Commands : At(d, {"start"}, "write") => cmd'[d] = cmd[d]
    BY <1>0, <1>2 DEF At, CmdGoes
  <2>. HIDE DEF r
  <2>5. Tracked'
    BY <1>1, <1>3, <2>4, TrackedKept
  <2>6. QED
    BY <1>0, <1>1, <1>2, <1>3, <2>3, <2>5, StepOfOne, ChildrenKept DEF NoneStarts, ServiceTypeOK
<1>6. QED
  BY <1>4, <1>5

LEMMA ExecInv ==
  ASSUME SvcIInv, NEW c \in Commands, Exec(c)
  PROVE  SvcIInv'
<1>0. /\ ServiceTypeOK /\ Children /\ cmd[c].op = "start" /\ cmd[c].at = "exec" /\ Placed(cmd[c])
      /\ InHand(c) /\ Tracked
  BY DEF SvcIInv, Exec, At
<1>1. OnlyOne(c) /\ UNCHANGED pidFile
  BY <1>0, AloneAtWork DEF AtWork, Exec
<1>s. PICK s \in Services : s = ServiceOf(c)
  BY <1>0, ServiceNamed DEF AtWork
<1>p. PICK p \in Pids : /\ running[p] = "none" /\ running' = [running EXCEPT ![p] = s]
                        /\ child' = [child EXCEPT ![c] = @ \cup {p}]
                        /\ GoOn(c, "write", p) /\ stray' = stray \ {p}
  BY <1>s DEF Exec
<1>. DEFINE r == [op |-> cmd[c].op, i |-> cmd[c].i, at |-> "write", pid |-> p]
<1>2. CmdGoes(c, r) /\ r \in CmdTypes
  BY <1>0, <1>p, GoesOn DEF CmdAts
<1>3. Placed(r) /\ cmd'[c] = r /\ r.op = "start" /\ r.at = "write" /\ r.pid = p
  BY <1>0, <1>2 DEF Placed, Stopping, CmdGoes
<1>4. /\ running' \in [Pids -> Services \cup {"none", "other", "zombie"}]
      /\ \A q \in Pids : running'[q] = IF q = p THEN s ELSE running[q]
      /\ child' \in [Commands -> SUBSET Pids]
      /\ \A d \in Commands : child'[d] = IF d = c THEN child[d] \cup {p} ELSE child[d]
  BY <1>0, <1>p DEF ServiceTypeOK
<1>5. ServiceOf(c)' = s
  BY <1>s, <1>2 DEF ServiceOf, CmdGoes
<1>. HIDE DEF r
<1>6. Children'
  BY <1>0, <1>p, <1>4, SvcTyped DEF Children
<1>7. InHand(c)'
  <2>1. Replaces(c)'
    BY <1>0, <1>1, <1>s, <1>p, <1>3, <1>4, <1>5, SvcTyped DEF InHand, At, Replaces
  <2>2. QED
    BY <1>3, <1>4, <1>5, <2>1 DEF InHand, At
<1>8. Tracked'
  <2>1. \A d \in Commands : d # c => ~At(d, {"start"}, "write")
    BY <1>1 DEF OnlyOne, AtWork, At
  <2>2. ~At(c, {"start"}, "write") /\ At(c, {"start"}, "write")' /\ cmd'[c].pid = p
    BY <1>0, <1>3 DEF At
  <2>3. ASSUME NEW q \in Pids, q # p, running'[q] \in Services
        PROVE  pidFile'[running'[q]] = q \/ q \in stray'
    BY <1>0, <1>1, <1>p, <1>4, <2>1, <2>2, <2>3 DEF Tracked
  <2>4. QED
    BY <2>2, <2>3 DEF Tracked
<1>9. pidFile' \in [Services -> Pids \cup {0}] /\ stray' \subseteq Pids
  BY <1>0, <1>1, <1>p DEF ServiceTypeOK
<1>10. QED
  BY <1>1, <1>2, <1>3, <1>4, <1>6, <1>7, <1>8, <1>9, StepOfOne

LEMMA WritePidInv ==
  ASSUME SvcIInv, NEW c \in Commands, WritePid(c)
  PROVE  SvcIInv'
<1>0. /\ ServiceTypeOK /\ Children /\ cmd[c].op = "start" /\ cmd[c].at = "write" /\ Placed(cmd[c])
      /\ InHand(c) /\ Tracked
  BY DEF SvcIInv, WritePid, At
<1>1. OnlyOne(c) /\ UNCHANGED <<running, child, stray>>
  BY <1>0, AloneAtWork DEF AtWork, WritePid
<1>s. PICK s \in Services : s = ServiceOf(c)
  BY <1>0, ServiceNamed DEF AtWork
<1>p. PICK p \in Pids : p = cmd[c].pid /\ running[p] \in {s, "zombie"}
  BY <1>0, <1>s DEF InHand, At, ServiceTypeOK
<1>. DEFINE r == [op |-> cmd[c].op, i |-> cmd[c].i, at |-> "wait", pid |-> 0]
<1>2. CmdGoes(c, r) /\ r \in CmdTypes
  BY <1>0, GoesOn DEF CmdAts, WritePid
<1>3. Placed(r) /\ cmd'[c] = r /\ r.at = "wait"
  BY <1>0, <1>2 DEF Placed, Stopping, CmdGoes
<1>4. /\ pidFile' \in [Services -> Pids \cup {0}]
      /\ \A t \in Services : pidFile'[t] = IF t = s THEN p ELSE pidFile[t]
  BY <1>0, <1>s, <1>p DEF ServiceTypeOK, WritePid
<1>. HIDE DEF r
<1>5. InHand(c)'
  BY <1>3 DEF InHand, At
<1>6. Tracked'
  <2>. SUFFICES ASSUME NEW q \in Pids, running[q] \in Services
                PROVE  pidFile'[running[q]] = q \/ q \in stray
    BY <1>1 DEF Tracked
  <2>1. \A d \in Commands : At(d, {"start"}, "write") => d = c
    BY <1>1 DEF OnlyOne, AtWork, At
  <2>2. \/ pidFile[running[q]] = q \/ q = p \/ q \in stray
    BY <1>0, <1>p, <2>1 DEF Tracked
  <2>3. CASE q = p
    BY <1>p, <1>4, <2>3, SvcTyped, <1>0
  <2>4. CASE q # p /\ pidFile[running[q]] = q
    <3>1. running[q] # s
      BY <1>0, <1>s, <1>p, <2>4, SvcTyped DEF InHand, At, Replaces
    <3>2. QED
      BY <1>4, <2>4, <3>1
  <2>5. QED
    BY <2>2, <2>3, <2>4
<1>7. QED
  BY <1>0, <1>1, <1>2, <1>3, <1>4, <1>5, <1>6, StepOfOne DEF ServiceTypeOK, Children

(* What could not be recorded is killed.                                   *)
LEMMA StartFailsInv ==
  ASSUME SvcIInv, NEW c \in Commands, StartFails(c)
  PROVE  SvcIInv'
<1>0. /\ ServiceTypeOK /\ Children /\ cmd[c].op = "start" /\ cmd[c].at \in {"exec", "write"} /\ Placed(cmd[c])
      /\ InHand(c)
  BY DEF SvcIInv, StartFails, At
<1>1. OnlyOne(c) /\ UNCHANGED <<pidFile, stray>>
  BY <1>0, AloneAtWork DEF AtWork, StartFails
<1>. DEFINE procs == IF cmd[c].at = "write" /\ running[cmd[c].pid] = ServiceOf(c)
                     THEN [running EXCEPT ![cmd[c].pid] = "zombie"] ELSE running
<1>2. Exit(c, procs) \/ (GoOn(c, "foreground", 0) /\ running' = procs /\ UNCHANGED child)
  BY DEF StartFails
<1>3. /\ procs \in [Pids -> Services \cup {"none", "other", "zombie"}]
      /\ \A p \in Pids : procs[p] \in {running[p], "zombie"}
  BY <1>0 DEF ServiceTypeOK
<1>4. At(c, {"start"}, "write") => cmd[c].pid \in Pids /\ procs[cmd[c].pid] \notin Services
  BY <1>0, SvcTyped DEF InHand, At, ServiceTypeOK
<1>. HIDE DEF procs
<1>5. CASE Exit(c, procs)
  <2>1. /\ NoneStarts /\ CmdGoes(c, Idle) /\ Idle \in CmdTypes
        /\ \A p \in Pids : running'[p] \in Services => procs[p] = running'[p]
    BY <1>0, <1>3, <1>5, Exits
  <2>2. Placed(Idle) /\ Idle.at = "idle"
    BY DEF Placed, Idle
  <2>3. QED
    BY <1>1, <1>4, <2>1, <2>2, PlainStep
<1>6. CASE GoOn(c, "foreground", 0) /\ running' = procs /\ UNCHANGED child
  <2>. DEFINE r == [op |-> cmd[c].op, i |-> cmd[c].i, at |-> "foreground", pid |-> 0]
  <2>1. CmdGoes(c, r) /\ r \in CmdTypes
    BY <1>0, <1>6, GoesOn DEF CmdAts
  <2>2. Placed(r) /\ r.at = "foreground"
    BY DEF Placed
  <2>. HIDE DEF r
  <2>3. NoneStarts
    BY <1>0, <1>3, <1>6, SvcTyped DEF NoneStarts
  <2>4. QED
    BY <1>1, <1>4, <1>6, <2>1, <2>2, <2>3, PlainStep
<1>7. QED
  BY <1>2, <1>5, <1>6

LEMMA WaitInv ==
  ASSUME SvcIInv, NEW c \in Commands, Answers(c) \/ WaitTimesOut(c)
  PROVE  SvcIInv'
<1>0. /\ ServiceTypeOK /\ Children /\ cmd[c].op = "start" /\ cmd[c].at = "wait" /\ Placed(cmd[c])
      /\ cmd[c].i \in DOMAIN StartOrder /\ ~At(c, {"start"}, "write")
  BY DEF SvcIInv, Answers, WaitTimesOut, At, Placed, Stopping
<1>1. OnlyOne(c) /\ UNCHANGED <<pidFile, stray>>
  BY <1>0, AloneAtWork DEF AtWork, Answers, WaitTimesOut
<1>2. CASE NextStart(c)
  <2>1. NoneStarts /\ \E r \in CmdTypes : CmdGoes(c, r) /\ Placed(r) /\ r.at \in {"idle", "check", "foreground"}
    BY <1>0, <1>2, NextStartStep
  <2>2. QED
    BY <1>0, <1>1, <2>1, PlainStep
<1>3. CASE Exit(c, running)
  <2>1. NoneStarts /\ CmdGoes(c, Idle) /\ Idle \in CmdTypes
    BY <1>0, <1>3, Exits DEF ServiceTypeOK
  <2>2. Placed(Idle) /\ Idle.at = "idle"
    BY DEF Placed, Idle
  <2>3. QED
    BY <1>0, <1>1, <2>1, <2>2, PlainStep
<1>4. QED
  BY <1>2, <1>3 DEF Answers, WaitTimesOut

-----------------------------------------------------------------------------
(* Stopping                                                                *)
LEMMA StopCheckInv ==
  ASSUME SvcIInv, NEW c \in Commands, StopCheck(c)
  PROVE  SvcIInv'
<1>0. /\ ServiceTypeOK /\ Children /\ cmd[c].op \in Stopping /\ cmd[c].at = "check" /\ Placed(cmd[c])
      /\ cmd[c].i \in DOMAIN StopOrder /\ ~At(c, {"start"}, "write") /\ cmd[c].op # "start"
  BY DEF SvcIInv, StopCheck, At, Placed, Stopping
<1>1. OnlyOne(c) /\ UNCHANGED <<pidFile, stray>>
  BY <1>0, AloneAtWork DEF AtWork, StopCheck
<1>2. CASE NextStop(c)
  <2>1. NoneStarts /\ \E r \in CmdTypes : CmdGoes(c, r) /\ Placed(r) /\ r.at \in {"idle", "check", "foreground"}
    BY <1>0, <1>2, NextStopStep
  <2>2. QED
    BY <1>0, <1>1, <2>1, PlainStep
<1>3. CASE /\ pidFile[ServiceOf(c)] # 0
           /\ GoOn(c, "term", pidFile[ServiceOf(c)]) /\ UNCHANGED <<running, child>>
  <2>. DEFINE p == pidFile[ServiceOf(c)]
              r == [op |-> cmd[c].op, i |-> cmd[c].i, at |-> "term", pid |-> p]
  <2>1. p \in Pids \cup {0}
    BY <1>0, ServiceNamed DEF AtWork, ServiceTypeOK
  <2>2. CmdGoes(c, r) /\ r \in CmdTypes
    BY <1>0, <1>3, <2>1, GoesOn DEF CmdAts
  <2>3. Placed(r) /\ NoneStarts /\ ServiceOf(c)' = ServiceOf(c)
    BY <1>0, <1>3, <2>2, NothingStarts DEF Placed, Stopping, ServiceOf, CmdGoes
  <2>4. cmd'[c].at = "term" /\ cmd'[c].pid = p
    BY <2>2 DEF CmdGoes
  <2>5. InHand(c)'
    BY <1>1, <1>3, <2>3, <2>4 DEF InHand, At
  <2>6. \A d \in Commands : At(d, {"start"}, "write") => cmd'[d] = cmd[d]
    BY <1>0, <2>2 DEF CmdGoes
  <2>. HIDE DEF r
  <2>7. Tracked'
    BY <1>1, <2>3, <2>6, TrackedKept
  <2>8. QED
    BY <1>0, <1>1, <2>2, <2>3, <2>5, <2>7, StepOfOne, ChildrenKept DEF NoneStarts, ServiceTypeOK
<1>4. QED
  BY <1>2, <1>3 DEF StopCheck

(* The process that the pid file names is sent a signal.                   *)
LEMMA HitInv ==
  ASSUME SvcIInv, NEW c \in Commands, SignalService(c) \/ KillService(c)
  PROVE  SvcIInv'
<1>0. /\ ServiceTypeOK /\ Children /\ cmd[c].op \in Stopping /\ cmd[c].at \in {"term", "int", "kill"}
      /\ Placed(cmd[c]) /\ InHand(c) /\ ~At(c, {"start"}, "write")
  BY DEF SvcIInv, SignalService, KillService, At, Stopping
<1>1. OnlyOne(c) /\ UNCHANGED <<child, pidFile, stray>>
  BY <1>0, AloneAtWork DEF AtWork, SignalService, KillService
<1>s. PICK s \in Services : s = ServiceOf(c)
  BY <1>0, ServiceNamed DEF AtWork
<1>p. PICK p \in Pids : p = cmd[c].pid /\ p = pidFile[s] /\ p # 0
  BY <1>0, <1>s DEF InHand, ServiceTypeOK
<1>2. running' = [running EXCEPT ![p] = Dead(p)] \/ running' = running
  BY <1>p DEF SignalService, KillService
<1>3. NoneStarts
  BY <1>0, <1>1, <1>2, Dies, NothingStarts
<1>4. PICK at \in {"int", "kill", "remove"} : GoOn(c, at, p) /\ (at = "remove" => running'[p] # s)
  <2>1. CASE SignalService(c)
    BY <1>0, <1>p, <2>1, SvcTyped DEF SignalService
  <2>2. CASE KillService(c)
    <3>1. GoOn(c, "remove", p)
      BY <1>p, <2>2 DEF KillService
    <3>2. CASE PidAlive(p)
      <4>1. running'[p] \in {"none", "zombie"}
        BY <1>0, <1>1, <1>p, <2>2, <3>2, Dies DEF KillService
      <4>2. QED
        BY <1>0, <3>1, <4>1, SvcTyped
    <3>3. CASE ~PidAlive(p)
      BY <1>0, <1>p, <2>2, <3>1, <3>3, SvcTyped DEF KillService, PidAlive
    <3>4. QED
      BY <3>2, <3>3
  <2>3. QED
    BY <2>1, <2>2
<1>. DEFINE r == [op |-> cmd[c].op, i |-> cmd[c].i, at |-> at, pid |-> p]
<1>5. CmdGoes(c, r) /\ r \in CmdTypes
  BY <1>0, <1>4, GoesOn DEF CmdAts
<1>6. Placed(r) /\ ServiceOf(c)' = s /\ cmd'[c].at = at /\ cmd'[c].pid = p
  BY <1>0, <1>s, <1>5 DEF Placed, Stopping, ServiceOf, CmdGoes
<1>7. InHand(c)'
  BY <1>1, <1>p, <1>4, <1>6 DEF InHand, At
<1>8. \A d \in Commands : At(d, {"start"}, "write") => cmd'[d] = cmd[d]
  BY <1>0, <1>5 DEF CmdGoes
<1>. HIDE DEF r
<1>9. Tracked'
  BY <1>1, <1>3, <1>8, TrackedKept
<1>10. QED
  BY <1>0, <1>1, <1>3, <1>5, <1>6, <1>7, <1>9, StepOfOne, ChildrenKept DEF NoneStarts, ServiceTypeOK

LEMMA RemovePidFileInv ==
  ASSUME SvcIInv, NEW c \in Commands, RemovePidFile(c)
  PROVE  SvcIInv'
<1>0. /\ ServiceTypeOK /\ Children /\ cmd[c].op \in Stopping /\ cmd[c].at = "remove" /\ Placed(cmd[c])
      /\ InHand(c) /\ Tracked /\ cmd[c].i \in DOMAIN StopOrder
  BY DEF SvcIInv, RemovePidFile, At, Placed, Stopping
<1>1. OnlyOne(c) /\ UNCHANGED stray /\ NextStop(c)
  BY <1>0, AloneAtWork DEF AtWork, RemovePidFile
<1>s. PICK s \in Services : s = ServiceOf(c)
  BY <1>0, ServiceNamed DEF AtWork
<1>2. PICK r \in CmdTypes : CmdGoes(c, r) /\ Placed(r) /\ r.at \in {"idle", "check", "foreground"}
  BY <1>0, <1>1, NextStopStep
<1>3. NoneStarts
  BY <1>0, <1>1, NextStopStep
<1>4. /\ pidFile' \in [Services -> Pids \cup {0}]
      /\ \A t \in Services : pidFile'[t] = IF t = s THEN 0 ELSE pidFile[t]
  BY <1>0, <1>s DEF ServiceTypeOK, RemovePidFile
<1>5. InHand(c)'
  BY <1>2 DEF InHand, At, CmdGoes
<1>6. Tracked'
  <2>. SUFFICES ASSUME NEW q \in Pids, running'[q] \in Services
                PROVE  pidFile'[running'[q]] = q \/ q \in stray'
    BY DEF Tracked
  <2>1. running'[q] = running[q]
    BY <1>3 DEF NoneStarts
  <2>2. \A d \in Commands : ~At(d, {"start"}, "write")
    BY <1>0, <1>1 DEF OnlyOne, AtWork, At
  <2>3. pidFile[running[q]] = q \/ q \in stray
    BY <1>0, <2>1, <2>2 DEF Tracked
  <2>4. pidFile[running[q]] = q => running[q] # s
    BY <1>0, <1>s DEF InHand
  <2>5. QED
    BY <1>1, <1>4, <2>1, <2>3, <2>4
<1>7. QED
  BY <1>0, <1>1, <1>2, <1>3, <1>4, <1>5, <1>6, StepOfOne, ChildrenKept DEF NoneStarts, ServiceTypeOK

-----------------------------------------------------------------------------
(* What happens around the commands                                        *)

(* A command that nothing happens to keeps what it has in hand.            *)
LEMMA InHandKept ==
  ASSUME SvcIInv, NoneStarts, pidFile' = pidFile, NEW c \in Commands, cmd'[c] = cmd[c],
         \A p \in child[c] : p \in child'[c]
  PROVE  InHand(c)'
<1>0. /\ ServiceTypeOK /\ Placed(cmd[c]) /\ InHand(c)
  BY DEF SvcIInv
<1>1. ServiceOf(c)' = ServiceOf(c) /\ (\A at, op : At(c, op, at)' <=> At(c, op, at))
  BY DEF ServiceOf, At
<1>2. AtWork(c) => ServiceOf(c) \in Services
  BY <1>0, ServiceNamed
<1>3. AtWork(c) /\ Replaces(c) => Replaces(c)'
  BY <1>0, <1>1, <1>2 DEF Replaces, NoneStarts, ServiceTypeOK
<1>4. At(c, {"start"}, "write") =>
        /\ cmd[c].pid \in child'[c] /\ running'[cmd[c].pid] \in {ServiceOf(c), "zombie"}
  BY <1>0 DEF InHand, NoneStarts
<1>5. cmd[c].at = "remove" => running'[cmd[c].pid] # ServiceOf(c)
  BY <1>0, <1>2 DEF InHand, AtWork, NoneStarts, ServiceTypeOK
<1>6. QED
  BY <1>0, <1>1, <1>3, <1>4, <1>5 DEF InHand, At, AtWork

LEMMA InterruptInv ==
  ASSUME SvcIInv, NEW c \in Commands, Interrupt(c)
  PROVE  SvcIInv'
<1>0. ServiceTypeOK /\ Children /\ Exit(c, running) /\ UNCHANGED pidFile /\ InHand(c)
  BY DEF SvcIInv, Interrupt
<1>1. NoneStarts /\ CmdGoes(c, Idle) /\ Idle \in CmdTypes
  BY <1>0, Exits DEF ServiceTypeOK
<1>2. /\ stray' \subseteq Pids /\ stray \subseteq stray'
      /\ At(c, {"start"}, "write") => cmd[c].pid \in stray'
  BY <1>0 DEF Interrupt, InHand, At, ServiceTypeOK
<1>3. Tracked'
  BY <1>0, <1>1, <1>2, TrackedKept DEF CmdGoes
<1>4. ServiceTypeOK'
  BY <1>0, <1>1, <1>2 DEF ServiceTypeOK, CmdGoes, CmdTypes, NoneStarts
<1>5. \A d \in Commands : child[d] = child'[d] \/ d = c
  BY <1>0 DEF Exit, ServiceTypeOK
<1>6. ASSUME NEW d \in Commands PROVE Placed(cmd[d])' /\ InHand(d)' /\ (AtWork(d)' => AtWork(d))
  <2>1. CASE d = c
    BY <1>1, <2>1 DEF CmdGoes, Placed, Idle, InHand, At, AtWork
  <2>2. CASE d # c
    <3>1. cmd'[d] = cmd[d] /\ child'[d] = child[d]
      BY <1>1, <1>5, <2>2 DEF CmdGoes
    <3>2. InHand(d)'
      BY <1>0, <1>1, <3>1, InHandKept
    <3>3. QED
      BY <3>1, <3>2 DEF SvcIInv, Placed, AtWork
  <2>3. QED
    BY <2>1, <2>2
<1>7. QED
  BY <1>0, <1>1, <1>3, <1>4, <1>6, ChildrenKept DEF SvcIInv, OneAtWork

LEMMA AroundInv ==
  ASSUME SvcIInv, \E p \in Pids : Ends(p) \/ OtherStarts(p)
  PROVE  SvcIInv'
<1>0. ServiceTypeOK /\ Children
  BY DEF SvcIInv
<1>1. PICK p \in Pids : Ends(p) \/ OtherStarts(p)
  OBVIOUS
<1>2. UNCHANGED <<child, pidFile, cmd>>
  BY <1>1 DEF Ends, OtherStarts
<1>3. NoneStarts /\ stray' \subseteq Pids /\ \A q \in stray : q \in stray' \/ running'[q] \notin Services
  <2>1. CASE Ends(p)
    BY <1>0, <2>1, Dies DEF Ends, ServiceTypeOK
  <2>2. CASE OtherStarts(p)
    <3>1. /\ running' \in [Pids -> Services \cup {"none", "other", "zombie"}]
          /\ \A q \in Pids : running'[q] = IF q = p THEN "other" ELSE running[q]
          /\ running[p] = "none" /\ stray' = stray \ {p}
      BY <1>0, <2>2 DEF OtherStarts, ServiceTypeOK
    <3>2. \A d \in Commands : p \notin child[d]
      BY <1>0, <3>1 DEF Children
    <3>3. QED
      BY <1>0, <1>2, <3>1, <3>2, SvcTyped DEF NoneStarts
  <2>3. QED
    BY <1>1, <2>1, <2>2
<1>4. Tracked'
  BY <1>2, <1>3, TrackedKept
<1>5. ServiceTypeOK'
  BY <1>0, <1>2, <1>3 DEF ServiceTypeOK, NoneStarts
<1>6. \A d \in Commands : InHand(d)'
  BY <1>2, <1>3, InHandKept
<1>7. QED
  BY <1>0, <1>2, <1>3, <1>4, <1>5, <1>6, ChildrenKept DEF SvcIInv, OneAtWork, AtWork, Placed

LEMMA RebootInv ==
  ASSUME SvcIInv, Reboot
  PROVE  SvcIInv'
<1>0. ServiceTypeOK
  BY DEF SvcIInv
<1>1. Idle \in CmdTypes /\ Placed(Idle) /\ Idle.at = "idle"
  BY <1>0, SvcTyped DEF Idle, CmdTypes, Placed
<1>2. /\ \A p \in Pids : running'[p] = "none"
      /\ \A c \in Commands : cmd'[c] = Idle /\ child'[c] = {}
  BY DEF Reboot
<1>3. ServiceTypeOK'
  BY <1>0, <1>1 DEF Reboot, ServiceTypeOK, CmdTypes
<1>4. Tracked' /\ Children' /\ OneAtWork'
  BY <1>0, <1>1, <1>2, SvcTyped DEF Tracked, Children, OneAtWork, AtWork
<1>5. \A c \in Commands : Placed(cmd[c])' /\ InHand(c)'
  BY <1>1, <1>2 DEF Placed, Idle, InHand, At
<1>6. QED
  BY <1>3, <1>4, <1>5 DEF SvcIInv

-----------------------------------------------------------------------------
LEMMA ServiceInitInv == ServiceInit => SvcIInv
<1>. SUFFICES ASSUME ServiceInit PROVE SvcIInv
  OBVIOUS
<1>1. Idle \in [op : {"idle", "start", "stop", "restart"}, i : 0..Len(StartOrder) + Len(StopOrder),
                at : {"idle", "check", "exec", "write", "wait", "foreground",
                      "term", "int", "kill", "remove"}, pid : Pids \cup {0}]
  <2>1. StartOrder \in Seq(Services) /\ StopOrder \in Seq(Services)
    BY ServiceConstantsOK
  <2>2. Len(StartOrder) \in Nat /\ Len(StopOrder) \in Nat
    BY <2>1
  <2>3. QED
    BY <2>2 DEF Idle
<1>2. ServiceTypeOK
  BY <1>1 DEF ServiceInit, ServiceTypeOK
<1>3. Tracked /\ Children /\ OneAtWork
  BY <1>2, SvcTyped DEF ServiceInit, Tracked, Children, OneAtWork, AtWork, Idle
<1>4. \A c \in Commands : Placed(cmd[c]) /\ InHand(c)
  BY DEF ServiceInit, Placed, Idle, InHand, At
<1>5. QED
  BY <1>2, <1>3, <1>4 DEF SvcIInv

LEMMA ServiceNextInv ==
  ASSUME OneByOne, SvcIInv, [ServiceNext]_svcVars
  PROVE  SvcIInv'
<1>1. CASE ServiceNext
  BY <1>1, RebootInv, AroundInv, BeginInv, InterruptInv, StartCheckInv, ExecInv, WritePidInv,
     StartFailsInv, WaitInv, StopCheckInv, HitInv, RemovePidFileInv
  DEF ServiceNext, StartStep, StopStep
<1>2. CASE UNCHANGED svcVars
  <2>1. UNCHANGED <<running, child, pidFile, cmd, stray>>
    BY <1>2 DEF svcVars
  <2>2. ServiceTypeOK' /\ OneAtWork' /\ Children' /\ Tracked'
    BY <2>1 DEF SvcIInv, ServiceTypeOK, OneAtWork, AtWork, Children, Tracked, At
  <2>3. \A c \in Commands : Placed(cmd[c])' /\ InHand(c)'
    BY ZenonT(40), <2>1 DEF SvcIInv, Placed, InHand, At, Replaces, ServiceOf
  <2>4. QED
    BY <2>2, <2>3 DEF SvcIInv
<1>3. QED
  BY <1>1, <1>2

(* If each command is begun only when the others are done or in the        *)
(* foreground, then whatever fails, dies, is interrupted or comes back     *)
(* after a reboot, a process of a service is the one its pid file names or *)
(* is about to name, or was left behind by an interrupted command.         *)
THEOREM ServicesTracked ==
  ASSUME OneByOne
  PROVE  ServiceSpec => []Tracked
<1>1. ASSUME SvcIInv, [ServiceNext]_svcVars PROVE SvcIInv'
  BY <1>1, ServiceNextInv
<1>2. SvcIInv => Tracked
  BY DEF SvcIInv
<1>3. QED
  BY <1>1, <1>2, ServiceInitInv, PTL DEF ServiceSpec

-----------------------------------------------------------------------------
(* The types of the service manager, whether or not its commands are run   *)
(* one by one.                                                             *)
PidGiven(r) == r.at = "write" => r.pid \in Pids

SvcTInv == ServiceTypeOK /\ \A c \in Commands : Placed(cmd[c]) /\ PidGiven(cmd[c])

Runs == Services \cup {"none", "other", "zombie"}

(* The command c goes on to a step of its operation.                       *)
GoesPlaced(c) ==
  /\ \E r \in CmdTypes : CmdGoes(c, r) /\ Placed(r) /\ PidGiven(r)
  /\ running' \in [Pids -> Runs] /\ child' \in [Commands -> SUBSET Pids]

LEMMA PlacedStep ==
  ASSUME SvcTInv, NEW c \in Commands, GoesPlaced(c),
         pidFile' \in [Services -> Pids \cup {0}], stray' \subseteq Pids
  PROVE  SvcTInv'
<1>1. PICK r \in CmdTypes : CmdGoes(c, r) /\ Placed(r) /\ PidGiven(r)
  BY DEF GoesPlaced
<1>2. ServiceTypeOK'
  BY <1>1 DEF GoesPlaced, CmdGoes, CmdTypes, Runs, ServiceTypeOK
<1>3. \A d \in Commands : Placed(cmd[d])' /\ PidGiven(cmd[d])'
  BY <1>1 DEF SvcTInv, CmdGoes, Placed, PidGiven, Idle, Stopping
<1> QED
  BY <1>2, <1>3 DEF SvcTInv

LEMMA PlacedOn ==
  ASSUME SvcTInv, NEW c \in Commands, NEW at \in CmdAts, NEW pid \in Pids \cup {0}, GoOn(c, at, pid),
         \/ at = "foreground"
         \/ cmd[c].op = "start" /\ at \in {"check", "exec", "write", "wait"} /\ cmd[c].i \in DOMAIN StartOrder
         \/ cmd[c].op \in Stopping /\ at \in {"check", "term", "int", "kill", "remove"}
            /\ cmd[c].i \in DOMAIN StopOrder,
         at = "write" => pid \in Pids,
         running' \in [Pids -> Runs], child' \in [Commands -> SUBSET Pids]
  PROVE  GoesPlaced(c)
<1> DEFINE r == [op |-> cmd[c].op, i |-> cmd[c].i, at |-> at, pid |-> pid]
<1>1. CmdGoes(c, r) /\ r \in CmdTypes
  BY GoesOn DEF SvcTInv
<1>2. Placed(r) /\ PidGiven(r)
  BY DEF Placed, PidGiven
<1> QED
  BY <1>1, <1>2 DEF GoesPlaced

LEMMA PlacedTo ==
  ASSUME SvcTInv, NEW c \in Commands, NEW r \in CmdTypes, cmd' = [cmd EXCEPT ![c] = r], Placed(r), PidGiven(r),
         running' \in [Pids -> Runs], child' \in [Commands -> SUBSET Pids]
  PROVE  GoesPlaced(c)
BY GoesTo DEF SvcTInv, GoesPlaced

LEMMA PlacedExit ==
  ASSUME SvcTInv, NEW c \in Commands, NEW procs \in [Pids -> Runs], Exit(c, procs)
  PROVE  GoesPlaced(c)
<1>1. Idle \in CmdTypes /\ Placed(Idle) /\ PidGiven(Idle)
  BY SvcTyped DEF SvcTInv, Idle, CmdTypes, Placed, PidGiven
<1>2. running' \in [Pids -> Runs] /\ child' \in [Commands -> SUBSET Pids] /\ cmd' = [cmd EXCEPT ![c] = Idle]
  BY DEF Exit, Runs, SvcTInv, ServiceTypeOK
<1> QED
  BY <1>1, <1>2, PlacedTo

LEMMA PlacedNextStart ==
  ASSUME SvcTInv, NEW c \in Commands, cmd[c].op = "start", cmd[c].i \in DOMAIN StartOrder, NextStart(c)
  PROVE  GoesPlaced(c)
<1>1. running \in [Pids -> Runs] /\ child \in [Commands -> SUBSET Pids]
  BY DEF SvcTInv, ServiceTypeOK, Runs
<1>2. CASE Exit(c, running)
  BY <1>1, <1>2, PlacedExit
<1>3. CASE GoOn(c, "foreground", 0) /\ UNCHANGED <<running, child>>
  BY <1>1, <1>3, PlacedOn DEF CmdAts
<1>4. CASE cmd[c].i < Len(StartOrder)
  <2> DEFINE r == [op |-> "start", i |-> cmd[c].i + 1, at |-> "check", pid |-> 0]
  <2>1. cmd' = [cmd EXCEPT ![c] = r] /\ UNCHANGED <<running, child>>
    BY <1>4 DEF NextStart
  <2>2. r \in CmdTypes /\ Placed(r) /\ PidGiven(r)
    BY <1>4, SvcTyped DEF SvcTInv, CmdTypes, Placed, PidGiven
  <2> QED
    BY <1>1, <2>1, <2>2, PlacedTo
<1> QED
  BY <1>2, <1>3, <1>4 DEF NextStart

LEMMA PlacedNextStop ==
  ASSUME SvcTInv, NEW c \in Commands, cmd[c].op \in Stopping, cmd[c].i \in DOMAIN StopOrder, NextStop(c)
  PROVE  GoesPlaced(c)
<1>1. running \in [Pids -> Runs] /\ child \in [Commands -> SUBSET Pids]
  BY DEF SvcTInv, ServiceTypeOK, Runs
<1>2. CASE cmd[c].i < Len(StopOrder)
  <2> DEFINE r == [op |-> cmd[c].op, i |-> cmd[c].i + 1, at |-> "check", pid |-> 0]
  <2>1. /\ cmd' = [cmd EXCEPT ![c] = [[[cmd[c] EXCEPT !.i = cmd[c].i + 1] EXCEPT !.at = "check"] EXCEPT !.pid = 0]]
        /\ UNCHANGED <<running, child>>
    BY <1>2, SvcTyped DEF NextStop, SvcTInv
  <2>2. cmd[c] \in CmdTypes
    BY SvcTyped DEF SvcTInv
  <2>3. PICK x : x = [cmd[c] EXCEPT !.i = cmd[c].i + 1]
    OBVIOUS
  <2>4. [[[cmd[c] EXCEPT !.i = cmd[c].i + 1] EXCEPT !.at = "check"] EXCEPT !.pid = 0] = r
    <3>1. x = [op |-> cmd[c].op, i |-> cmd[c].i + 1, at |-> cmd[c].at, pid |-> cmd[c].pid]
      BY <2>2, <2>3, CmdFields
    <3>2. x \in CmdTypes
      BY <1>2, <2>2, <3>1, SvcTyped DEF SvcTInv, CmdTypes
    <3>3. [[x EXCEPT !.at = "check"] EXCEPT !.pid = 0] = [op |-> x.op, i |-> x.i, at |-> "check", pid |-> 0]
      BY <3>2, CmdFields
    <3> QED
      BY <2>3, <3>1, <3>3
  <2>5. r \in CmdTypes /\ Placed(r) /\ PidGiven(r)
    BY <1>2, <2>2, SvcTyped DEF SvcTInv, CmdTypes, Placed, PidGiven, Stopping
  <2> QED
    BY <1>1, <2>1, <2>4, <2>5, PlacedTo
<1>3. CASE ~(cmd[c].i < Len(StopOrder)) /\ cmd[c].op = "restart"
  <2> DEFINE r == [op |-> "start", i |-> 1, at |-> "check", pid |-> 0]
  <2>1. cmd' = [cmd EXCEPT ![c] = r] /\ UNCHANGED <<running, child>>
    BY <1>3 DEF NextStop
  <2>2. r \in CmdTypes /\ Placed(r) /\ PidGiven(r)
    BY SvcTyped DEF SvcTInv, CmdTypes, Placed, PidGiven
  <2> QED
    BY <1>1, <2>1, <2>2, PlacedTo
<1>4. CASE ~(cmd[c].i < Len(StopOrder)) /\ cmd[c].op # "restart"
  BY <1>1, <1>4, PlacedExit DEF NextStop
<1> QED
  BY <1>2, <1>3, <1>4

LEMMA SvcTypesStart ==
  ASSUME SvcTInv, NEW c \in Commands, StartStep(c)
  PROVE  SvcTInv'
<1>1. /\ running \in [Pids -> Runs] /\ child \in [Commands -> SUBSET Pids]
      /\ pidFile \in [Services -> Pids \cup {0}] /\ stray \subseteq Pids
      /\ cmd[c].pid \in Pids \cup {0}
  BY SvcTyped DEF SvcTInv, Runs
<1>2. cmd[c].op = "start" /\ cmd[c].at \in {"check", "exec", "write", "wait"}
  BY DEF StartStep, StartCheck, Exec, WritePid, StartFails, Answers, WaitTimesOut, At
<1>3. cmd[c].i \in DOMAIN StartOrder /\ ServiceOf(c) \in Services
  BY <1>2, ServiceNamed DEF SvcTInv, Placed, Stopping, AtWork
<1>4. CASE StartCheck(c)
  <2>1. PICK at \in {"wait", "exec"} : GoOn(c, at, 0)
    BY <1>4 DEF StartCheck
  <2>2. GoesPlaced(c)
    BY <1>1, <1>2, <1>3, <1>4, <2>1, PlacedOn DEF StartCheck, CmdAts
  <2> QED
    BY <1>1, <1>4, <2>2, PlacedStep DEF StartCheck
<1>5. CASE Exec(c)
  <2>1. PICK p \in Pids : /\ running' = [running EXCEPT ![p] = ServiceOf(c)]
                          /\ child' = [child EXCEPT ![c] = child[c] \cup {p}]
                          /\ GoOn(c, "write", p) /\ stray' = stray \ {p} /\ pidFile' = pidFile
    BY <1>5 DEF Exec
  <2>2. running' \in [Pids -> Runs] /\ child' \in [Commands -> SUBSET Pids]
    BY <1>1, <1>3, <2>1 DEF Runs
  <2>3. GoesPlaced(c)
    BY <1>2, <1>3, <2>1, <2>2, PlacedOn DEF CmdAts
  <2> QED
    BY <1>1, <2>1, <2>3, PlacedStep
<1>6. CASE WritePid(c)
  <2>1. GoOn(c, "wait", 0) /\ UNCHANGED <<running, child, stray>>
        /\ pidFile' = [pidFile EXCEPT ![ServiceOf(c)] = cmd[c].pid]
    BY <1>6 DEF WritePid
  <2>2. GoesPlaced(c)
    BY <1>1, <1>2, <1>3, <2>1, PlacedOn DEF CmdAts
  <2> QED
    BY <1>1, <1>3, <2>1, <2>2, PlacedStep
<1>7. CASE StartFails(c)
  <2> DEFINE procs == IF cmd[c].at = "write" /\ running[cmd[c].pid] = ServiceOf(c)
                      THEN [running EXCEPT ![cmd[c].pid] = "zombie"] ELSE running
  <2>1. procs \in [Pids -> Runs]
    BY <1>1 DEF Runs
  <2>2. \/ Exit(c, procs)
        \/ GoOn(c, "foreground", 0) /\ running' = procs /\ UNCHANGED child
    BY <1>7 DEF StartFails
  <2> HIDE DEF procs
  <2>3. GoesPlaced(c)
    BY <1>1, <2>1, <2>2, PlacedExit, PlacedOn DEF CmdAts
  <2> QED
    BY <1>1, <1>7, <2>3, PlacedStep DEF StartFails
<1>8. CASE Answers(c) \/ WaitTimesOut(c)
  <2>1. NextStart(c) \/ Exit(c, running)
    BY <1>8 DEF Answers, WaitTimesOut
  <2>2. GoesPlaced(c)
    BY <1>1, <1>2, <1>3, <2>1, PlacedExit, PlacedNextStart
  <2>3. UNCHANGED <<pidFile, stray>>
    BY <1>8 DEF Answers, WaitTimesOut
  <2> QED
    BY <1>1, <2>2, <2>3, PlacedStep
<1> QED
  BY <1>4, <1>5, <1>6, <1>7, <1>8 DEF StartStep

LEMMA SvcTypesStop ==
  ASSUME SvcTInv, NEW c \in Commands, StopStep(c)
  PROVE  SvcTInv'
<1>1. /\ running \in [Pids -> Runs] /\ child \in [Commands -> SUBSET Pids]
      /\ pidFile \in [Services -> Pids \cup {0}] /\ stray \subseteq Pids
      /\ cmd[c].pid \in Pids \cup {0}
  BY SvcTyped DEF SvcTInv, Runs
<1>2. cmd[c].op \in Stopping /\ cmd[c].at \in {"check", "term", "int", "kill", "remove"}
  BY DEF StopStep, StopCheck, SignalService, KillService, RemovePidFile, At
<1>3. cmd[c].i \in DOMAIN StopOrder /\ ServiceOf(c) \in Services
  BY <1>2, ServiceNamed DEF SvcTInv, Placed, Stopping, AtWork
<1>4. CASE StopCheck(c)
  <2>1. \/ NextStop(c)
        \/ GoOn(c, "term", pidFile[ServiceOf(c)]) /\ UNCHANGED <<running, child>>
    BY <1>4 DEF StopCheck
  <2>2. pidFile[ServiceOf(c)] \in Pids \cup {0}
    BY <1>1, <1>3
  <2>3. GoesPlaced(c)
    BY <1>1, <1>2, <1>3, <2>1, <2>2, PlacedOn, PlacedNextStop DEF CmdAts
  <2> QED
    BY <1>1, <1>4, <2>3, PlacedStep DEF StopCheck
<1>5. CASE SignalService(c) \/ KillService(c)
  <2>1. PICK at \in {"int", "kill", "remove"} : GoOn(c, at, cmd[c].pid)
    BY <1>5 DEF SignalService, KillService
  <2>2. /\ running' = running \/ running' = [running EXCEPT ![cmd[c].pid] = Dead(cmd[c].pid)]
        /\ UNCHANGED <<child, pidFile, stray>>
    BY <1>5 DEF SignalService, KillService
  <2>3. Dead(cmd[c].pid) \in Runs
    BY DEF Dead, Runs
  <2>4. running' \in [Pids -> Runs]
    BY <1>1, <2>2, <2>3
  <2>5. GoesPlaced(c)
    BY <1>1, <1>2, <1>3, <2>1, <2>2, <2>4, PlacedOn DEF CmdAts
  <2> QED
    BY <1>1, <2>2, <2>5, PlacedStep
<1>6. CASE RemovePidFile(c)
  <2>1. /\ pidFile' = [pidFile EXCEPT ![ServiceOf(c)] = 0]
        /\ NextStop(c) /\ stray' = stray
    BY <1>6 DEF RemovePidFile
  <2>2. GoesPlaced(c)
    BY <1>2, <1>3, <2>1, PlacedNextStop
  <2> QED
    BY <1>1, <1>3, <2>1, <2>2, PlacedStep
<1> QED
  BY <1>4, <1>5, <1>6 DEF StopStep

LEMMA SvcTypesInit == ServiceInit => SvcTInv
<1> SUFFICES ASSUME ServiceInit PROVE SvcTInv
  OBVIOUS
<1>1. ServiceTypeOK /\ \A c \in Commands : Placed(cmd[c])
  BY ServiceInitInv DEF SvcIInv
<1>2. \A c \in Commands : PidGiven(cmd[c])
  BY DEF ServiceInit, PidGiven, Idle
<1> QED
  BY <1>1, <1>2 DEF SvcTInv

LEMMA SvcTypesNext == SvcTInv /\ [ServiceNext]_svcVars => SvcTInv'
<1> SUFFICES ASSUME SvcTInv, [ServiceNext]_svcVars PROVE SvcTInv'
  OBVIOUS
<1>1. /\ running \in [Pids -> Runs] /\ child \in [Commands -> SUBSET Pids]
      /\ pidFile \in [Services -> Pids \cup {0}] /\ stray \subseteq Pids
      /\ cmd \in [Commands -> CmdTypes]
  BY SvcTyped DEF SvcTInv, Runs
<1>2. CASE Reboot
  <2>1. Idle \in CmdTypes /\ Placed(Idle) /\ PidGiven(Idle)
    BY SvcTyped DEF SvcTInv, Idle, CmdTypes, Placed, PidGiven
  <2>2. ServiceTypeOK'
    BY <1>1, <1>2, <2>1 DEF Reboot, ServiceTypeOK, CmdTypes
  <2>3. \A c \in Commands : Placed(cmd[c])' /\ PidGiven(cmd[c])'
    BY <1>2, <2>1 DEF Reboot, Placed, PidGiven, Idle
  <2> QED
    BY <2>2, <2>3 DEF SvcTInv
<1>3. ASSUME NEW p \in Pids, Ends(p) \/ OtherStarts(p)
      PROVE  SvcTInv'
  <2>1. /\ running' = [running EXCEPT ![p] = Dead(p)] \/ running' = [running EXCEPT ![p] = "other"]
        /\ stray' \subseteq stray /\ UNCHANGED <<child, pidFile, cmd>>
    BY <1>3 DEF Ends, OtherStarts
  <2>2. Dead(p) \in Runs /\ "other" \in Runs
    BY DEF Dead, Runs
  <2>3. ServiceTypeOK'
    BY <1>1, <2>1, <2>2 DEF ServiceTypeOK, CmdTypes, Runs
  <2>4. \A c \in Commands : Placed(cmd[c])' /\ PidGiven(cmd[c])'
    BY <2>1 DEF SvcTInv, Placed, PidGiven, Idle
  <2> QED
    BY <2>3, <2>4 DEF SvcTInv
<1>4. ASSUME NEW c \in Commands, NEW op \in {"start", "stop", "restart"}, Begin(c, op)
      PROVE  SvcTInv'
  <2> DEFINE r == [op |-> op, i |-> 1, at |-> "check", pid |-> 0]
  <2>1. cmd' = [cmd EXCEPT ![c] = r] /\ UNCHANGED <<running, child, pidFile, stray>>
    BY <1>4 DEF Begin
  <2>2. r \in CmdTypes /\ Placed(r) /\ PidGiven(r)
    BY SvcTyped DEF SvcTInv, CmdTypes, Placed, PidGiven, Stopping
  <2>3. GoesPlaced(c)
    BY <1>1, <2>1, <2>2, PlacedTo
  <2> QED
    BY <1>1, <2>1, <2>3, PlacedStep
<1>5. ASSUME NEW c \in Commands, Interrupt(c)
      PROVE  SvcTInv'
  <2>1. GoesPlaced(c)
    BY <1>1, <1>5, PlacedExit DEF Interrupt
  <2>2. At(c, {"start"}, "write") => cmd[c].pid \in Pids
    BY DEF At, SvcTInv, PidGiven
  <2>3. stray' \subseteq Pids
    BY <1>1, <1>5, <2>2 DEF Interrupt
  <2> QED
    BY <1>1, <1>5, <2>1, <2>3, PlacedStep DEF Interrupt
<1>6. CASE UNCHANGED svcVars
  BY <1>6 DEF svcVars, SvcTInv, ServiceTypeOK, Placed, PidGiven, Idle
<1> QED
  BY <1>2, <1>3, <1>4, <1>5, <1>6, SvcTypesStart, SvcTypesStop DEF ServiceNext
=============================================================================
