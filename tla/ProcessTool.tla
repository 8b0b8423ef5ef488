---------------------------- MODULE ProcessTool ----------------------------
(***************************************************************************)
(* The background processes of package processtool: the map of tracked     *)
(* sessions under procMutex, the operating-system process each session     *)
(* currently owns, the API (start, kill, restart, autostart), the monitor  *)
(* that restarts what has exited and the cleanup that forgets it.          *)
(*                                                                         *)
(* kill, restart, the monitor and the cleanup all look a session up under  *)
(* the lock, go on without it and take it again to publish what they did,  *)
(* so each is several actions here and they overlap on one session.        *)
(* Output buffers, stdin and the PTY of a process are left out.            *)
(***************************************************************************)
EXTENDS Integers, Sequences, FiniteSets

CONSTANTS
  Sessions,    \* session ids the API hands out
  ToolCallers, \* goroutines of HTTP handlers inside kill or restart
  RetryLimits, \* values of maxRetries
  MaxSpawn,    \* bound: processes started in a run
  MaxConfigs,  \* bound: calls of autostart
  RetryCap,    \* bound: CurrentRetries, which the monitor raises at every pass over a dead session
  NoSession

ASSUME ProcConstantsOK ==
  /\ NoSession \notin Sessions
  /\ RetryLimits \subseteq Nat /\ RetryCap \in Nat /\ MaxSpawn \in Nat /\ MaxConfigs \in Nat

VARIABLES
  processes, \* keys of the map: the tracked sessions
  proc,      \* *ProcessInfo of each session; whoever holds the pointer uses it after the key is gone
  os,        \* processes ever started: whose, and "running", "zombie" or reaped with what
  monitor,   \* checkAndRestartProcesses: sessions still to look at, and the one in RestartDelay
  toDelete,  \* cleanupProcesses: keys collected under the read lock
  caller,    \* calls of kill and restart between their two critical sections
  configs,   \* calls of autostart so far
  tries,   \* observation: automatic restarts of a session, failed ones included, since
             \*   auto-restart was last switched off
  overlapped \* observation: sessions on which two of the operations overlapped

procVars == <<processes, proc, os, monitor, toDelete, caller, configs, tries, overlapped>>

ProcStates == {"running", "exiting", "signaled", "exited", "reapedSignaled"}
NoProc == [cmd |-> 0, AutoRestart |-> FALSE, MaxRetries |-> 0, CurrentRetries |-> 0]
NoCall == [op |-> "none", s |-> NoSession, cmd |-> 0]

ProcTypeOK ==
  /\ processes \subseteq Sessions
  /\ proc \in [Sessions -> [cmd : 0..MaxSpawn, AutoRestart : BOOLEAN,
                            MaxRetries : Nat, CurrentRetries : 0..RetryCap]]
  /\ os \in Seq([s : Sessions, st : ProcStates]) /\ Len(os) <= MaxSpawn
  /\ monitor \in [pc : {"idle", "busy", "delay"}, todo : SUBSET Sessions, s : Sessions \cup {NoSession}]
  /\ toDelete \subseteq Sessions
  /\ caller \in [ToolCallers -> [op : {"none", "kill", "restart"}, s : Sessions \cup {NoSession},
                                 cmd : 0..MaxSpawn]]
  /\ configs \in 0..MaxConfigs
  /\ tries \in [Sessions -> Nat]
  /\ overlapped \subseteq Sessions

ProcInit ==
  /\ processes = {} /\ os = <<>> /\ toDelete = {} /\ configs = 0 /\ overlapped = {}
  /\ proc = [s \in Sessions |-> NoProc]
  /\ monitor = [pc |-> "idle", todo |-> {}, s |-> NoSession]
  /\ caller = [c \in ToolCallers |-> NoCall]
  /\ tries = [s \in Sessions |-> 0]

-----------------------------------------------------------------------------
(* ProcessState of the command a session owns: nil until the goroutine     *)
(* that waits for it has reaped it; Exited() is false after a signal.      *)
State(s) == IF proc[s].cmd = 0 THEN "none" ELSE os[proc[s].cmd].st

Exited(s) == State(s) = "exited"

Signal(k) == os' = [os EXCEPT ![k].st = IF @ = "running" THEN "signaled" ELSE @]

(* Who is working on a session without holding the lock.                   *)
Busy(s) ==
  {c \in ToolCallers : caller[c].s = s}
    \cup (IF monitor.s = s \/ s \in monitor.todo THEN {"monitor"} ELSE {})
    \cup (IF s \in toDelete THEN {"cleanup"} ELSE {})

(* Recorded when somebody sets to work on a session that another is        *)
(* working on already.                                                     *)
NoteOverlap(S) == overlapped' = overlapped \cup {s \in S : Busy(s) # {}}

(* restartProcess: a new process with the saved command, and the entry put *)
(* back into the map whatever has happened to it meanwhile.  The caller    *)
(* keeps its place in procMutex only for the assignments.  A command that  *)
(* cannot be parsed or started is an error before any of them; the session *)
(* keeps the process it had, which is dead.                                *)
RestartProcess(s) ==
  \/ /\ Len(os) < MaxSpawn
     /\ os' = Append(os, [s |-> s, st |-> "running"])
     /\ proc' = [proc EXCEPT ![s].cmd = Len(os) + 1]
     /\ processes' = processes \cup {s}
  \/ UNCHANGED <<os, proc, processes>>

-----------------------------------------------------------------------------
(* The operating system.                                                   *)
Terminate(k) ==
  /\ os[k].st = "running"
  /\ \E how \in {"exiting", "signaled"} : os' = [os EXCEPT ![k].st = how]
  /\ UNCHANGED <<processes, proc, monitor, toDelete, caller, configs, tries, overlapped>>

(* cmd.Wait returns in the goroutine that start and restartProcess leave   *)
(* behind, and sets ProcessState.                                          *)
Reap(k) ==
  /\ os[k].st \in {"exiting", "signaled"}
  /\ os' = [os EXCEPT ![k].st = IF @ = "exiting" THEN "exited" ELSE "reapedSignaled"]
  /\ UNCHANGED <<processes, proc, monitor, toDelete, caller, configs, tries, overlapped>>

-----------------------------------------------------------------------------
(* The API.                                                                *)
Start(s) ==
  /\ proc[s].cmd = 0 /\ Len(os) < MaxSpawn
  /\ os' = Append(os, [s |-> s, st |-> "running"])
  /\ \E auto \in BOOLEAN, max \in RetryLimits :
        proc' = [proc EXCEPT ![s] = [cmd |-> Len(os) + 1, AutoRestart |-> auto,
                                     MaxRetries |-> max, CurrentRetries |-> 0]]
  /\ processes' = processes \cup {s}
  /\ UNCHANGED <<monitor, toDelete, caller, configs, tries, overlapped>>

(* Mutant: kill leaves the process alone and only forgets the session.     *)
KillForgets(c, s) ==
  /\ caller[c].op = "none" /\ s \in processes
  /\ caller' = [caller EXCEPT ![c] = [op |-> "kill", s |-> s, cmd |-> proc[s].cmd]]
  /\ NoteOverlap({s})
  /\ UNCHANGED <<processes, proc, os, monitor, toDelete, configs, tries>>

Kill(c, s) ==
  /\ caller[c].op = "none" /\ s \in processes
  /\ caller' = [caller EXCEPT ![c] = [op |-> "kill", s |-> s, cmd |-> proc[s].cmd]]
  /\ Signal(proc[s].cmd)
  /\ NoteOverlap({s})
  /\ UNCHANGED <<processes, proc, monitor, toDelete, configs, tries>>

KillDelete(c) ==
  /\ caller[c].op = "kill"
  /\ processes' = processes \ {caller[c].s}
  /\ caller' = [caller EXCEPT ![c] = NoCall]
  /\ UNCHANGED <<proc, os, monitor, toDelete, configs, tries, overlapped>>

Restart(c, s) ==
  /\ caller[c].op = "none" /\ s \in processes
  /\ caller' = [caller EXCEPT ![c] = [op |-> "restart", s |-> s, cmd |-> proc[s].cmd]]
  /\ Signal(proc[s].cmd)
  /\ NoteOverlap({s})
  /\ UNCHANGED <<processes, proc, monitor, toDelete, configs, tries>>

(* proc.Cmd.Wait() returns once the killed process is gone, with an error  *)
(* that is ignored when the other goroutine has reaped it.  If the new     *)
(* process cannot be started the caller gets the error and the session     *)
(* stays killed.                                                           *)
RestartSpawn(c) ==
  /\ caller[c].op = "restart"
  /\ RestartProcess(caller[c].s)
  /\ caller' = [caller EXCEPT ![c] = NoCall]
  /\ UNCHANGED <<monitor, toDelete, configs, tries, overlapped>>

SetAutoRestart(s) ==
  /\ s \in processes /\ configs < MaxConfigs
  /\ \E enable \in BOOLEAN, max \in RetryLimits :
        proc' = [proc EXCEPT ![s].AutoRestart = enable, ![s].MaxRetries = max,
                             ![s].CurrentRetries = IF enable THEN @ ELSE 0]
  /\ configs' = configs + 1
  /\ tries' = [tries EXCEPT ![s] = IF proc'[s].AutoRestart THEN @ ELSE 0]
  /\ UNCHANGED <<processes, os, monitor, toDelete, caller, overlapped>>

-----------------------------------------------------------------------------
(* checkAndRestartProcesses: what is collected under the read lock ...     *)
MonitorCollect ==
  /\ monitor.pc = "idle"
  /\ monitor' = [pc |-> "busy", s |-> NoSession,
                 todo |-> {s \in processes : Exited(s) /\ proc[s].AutoRestart}]
  /\ NoteOverlap(monitor'.todo)
  /\ UNCHANGED <<processes, proc, os, toDelete, caller, configs, tries>>

(* Mutant: a session that has left the map meanwhile is restarted.         *)
MonitorPickAny(s) ==
  /\ monitor.pc = "busy" /\ s \in monitor.todo
  /\ proc[s].CurrentRetries < RetryCap
  /\ LET retries == proc[s].CurrentRetries + 1
         again   == retries <= proc[s].MaxRetries
     IN  /\ proc' = [proc EXCEPT ![s].CurrentRetries = retries]
         /\ monitor' = [monitor EXCEPT !.todo = @ \ {s}, !.pc = IF again THEN "delay" ELSE "busy",
                                       !.s = IF again THEN s ELSE NoSession]
  /\ UNCHANGED <<processes, os, toDelete, caller, configs, tries, overlapped>>

(* Mutant: one restart more than the limit.                                *)
MonitorPickOneMore(s) ==
  /\ monitor.pc = "busy" /\ s \in monitor.todo /\ s \in processes
  /\ proc[s].CurrentRetries < RetryCap
  /\ LET again == proc[s].CurrentRetries <= proc[s].MaxRetries
     IN  /\ proc' = [proc EXCEPT ![s].CurrentRetries = @ + 1]
         /\ monitor' = [monitor EXCEPT !.todo = @ \ {s}, !.pc = IF again THEN "delay" ELSE "busy",
                                       !.s = IF again THEN s ELSE NoSession]
  /\ UNCHANGED <<processes, os, toDelete, caller, configs, tries, overlapped>>

(* Mutant: the last retry is not used.                                     *)
MonitorPickOneLess(s) ==
  /\ monitor.pc = "busy" /\ s \in monitor.todo /\ s \in processes
  /\ proc[s].CurrentRetries < RetryCap
  /\ LET again == proc[s].CurrentRetries + 1 < proc[s].MaxRetries
     IN  /\ proc' = [proc EXCEPT ![s].CurrentRetries = @ + 1]
         /\ monitor' = [monitor EXCEPT !.todo = @ \ {s}, !.pc = IF again THEN "delay" ELSE "busy",
                                       !.s = IF again THEN s ELSE NoSession]
  /\ UNCHANGED <<processes, os, toDelete, caller, configs, tries, overlapped>>

(* ... is looked up again one by one under the lock, counted and, within   *)
(* the limit, restarted after RestartDelay; that the process is still dead *)
(* and auto-restart still on is not looked at again.                       *)
MonitorPick(s) ==
  /\ monitor.pc = "busy" /\ s \in monitor.todo /\ s \in processes
  /\ proc[s].CurrentRetries < RetryCap
  /\ LET retries == proc[s].CurrentRetries + 1
         again   == retries <= proc[s].MaxRetries
     IN  /\ proc' = [proc EXCEPT ![s].CurrentRetries = retries]
         /\ monitor' = [monitor EXCEPT !.todo = @ \ {s}, !.pc = IF again THEN "delay" ELSE "busy",
                                       !.s = IF again THEN s ELSE NoSession]
  /\ UNCHANGED <<processes, os, toDelete, caller, configs, tries, overlapped>>

MonitorSkip(s) ==
  /\ monitor.pc = "busy" /\ s \in monitor.todo \ processes
  /\ monitor' = [monitor EXCEPT !.todo = @ \ {s}]
  /\ UNCHANGED <<processes, proc, os, toDelete, caller, configs, tries, overlapped>>

(* The restart has been counted before it is tried; that it failed is only *)
(* logged.                                                                 *)
MonitorRestart ==
  /\ monitor.pc = "delay"
  /\ RestartProcess(monitor.s)
  /\ tries' = [tries EXCEPT ![monitor.s] = @ + 1]
  /\ monitor' = [monitor EXCEPT !.pc = "busy", !.s = NoSession]
  /\ UNCHANGED <<toDelete, caller, configs, overlapped>>

MonitorSleep ==
  /\ monitor.pc = "busy" /\ monitor.todo = {}
  /\ monitor' = [monitor EXCEPT !.pc = "idle"]
  /\ UNCHANGED <<processes, proc, os, toDelete, caller, configs, tries, overlapped>>

-----------------------------------------------------------------------------
(* cleanupProcesses: the keys are collected under the read lock and        *)
(* deleted, unseen, under the write lock.                                  *)
CleanupCollect ==
  /\ toDelete = {}
  /\ toDelete' = {s \in processes : Exited(s) /\ ~proc[s].AutoRestart}
  /\ toDelete' # {}
  /\ NoteOverlap(toDelete')
  /\ UNCHANGED <<processes, proc, os, monitor, caller, configs, tries>>

CleanupDelete ==
  /\ toDelete # {}
  /\ processes' = processes \ toDelete
  /\ toDelete' = {}
  /\ UNCHANGED <<proc, os, monitor, caller, configs, tries, overlapped>>

-----------------------------------------------------------------------------
MonitorNext ==
  \/ MonitorCollect \/ MonitorRestart \/ MonitorSleep
  \/ \E s \in Sessions : MonitorPick(s) \/ MonitorSkip(s)

CallerNext == \E c \in ToolCallers : KillDelete(c) \/ RestartSpawn(c)

OSNext == \E k \in DOMAIN os : Terminate(k) \/ Reap(k)

ProcNext ==
  \/ OSNext \/ MonitorNext \/ CallerNext \/ CleanupCollect \/ CleanupDelete
  \/ \E s \in Sessions :
        \/ Start(s) \/ SetAutoRestart(s)
        \/ \E c \in ToolCallers : Kill(c, s) \/ Restart(c, s)

ProcSpec == ProcInit /\ [][ProcNext]_procVars

(* The monitor's loop keeps running, and so do the goroutines that wait    *)
(* for processes and the handlers that are in the middle of a call.        *)
ProcFairness ==
  /\ WF_procVars(MonitorNext)
  /\ \A c \in ToolCallers : WF_procVars(KillDelete(c) \/ RestartSpawn(c))
  /\ \A k \in 1..MaxSpawn : WF_procVars(k \in DOMAIN os /\ Reap(k))

ProcFairSpec == ProcSpec /\ ProcFairness

-----------------------------------------------------------------------------
(* Unless two of kill, restart, the monitor's restart and the cleanup      *)
(* overlapped on a session, every process of it that still runs is the one *)
(* its tracked entry owns: kill leaves nothing behind, a restart replaces, *)
(* and cleanup forgets only what has exited.                               *)
OneLiveProcess ==
  \A k \in DOMAIN os : os[k].st = "running" /\ os[k].s \notin overlapped =>
     /\ proc[os[k].s].cmd = k
     /\ os[k].s \in processes

(* For a session that no autostart call has touched the monitor tries a    *)
(* restart at most maxRetries times over its whole life, whatever restarts *)
(* and kills come in between.                                              *)
RetriesBounded ==
  configs = 0 => \A s \in Sessions : tries[s] <= proc[s].MaxRetries

(* A session that has left the map while nobody was restarting or killing  *)
(* it is never tracked again, even when the monitor had it on its list:    *)
(* sessions are looked up again before they are restarted.                 *)
Forgotten(s) ==
  /\ proc[s].cmd # 0 /\ s \notin processes /\ monitor.s # s
  /\ \A c \in ToolCallers : caller[c].s # s

KilledStaysGone == [][\A s \in Sessions : Forgotten(s) => Forgotten(s)']_procVars

(* A session whose process has exited by itself while auto-restart is on   *)
(* does not stay dead with fewer than maxRetries restarts tried: the       *)
(* monitor tries again, also after a restart that failed, unless the       *)
(* session is killed or configured anew first.                             *)
RetriesLeft(s) ==
  s \in processes /\ Exited(s) /\ proc[s].AutoRestart /\ tries[s] < proc[s].MaxRetries

CrashedIsRetried == \A s \in Sessions : []<>~RetriesLeft(s)
=============================================================================
