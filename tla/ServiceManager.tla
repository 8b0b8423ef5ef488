--------------------------- MODULE ServiceManager ---------------------------
(***************************************************************************)
(* `ocg start`, `ocg stop` and `ocg restart`: the command starts the       *)
(* services in order, each as a detached process whose number it writes to *)
(* a pid file, and stops them by the numbers it finds there.  Processes    *)
(* and files outlive the command, which may be interrupted anywhere; a     *)
(* process number is free again once the process is gone and waited for,   *)
(* and children of a command that still runs are never waited for.         *)
(*                                                                         *)
(* The operating system is external: it hands out numbers, ends processes, *)
(* and restarts without its processes but with its files.                  *)
(***************************************************************************)
EXTENDS Integers, Sequences

CONSTANTS
  Commands,   \* ocg processes that may run at the same time
  OneByOne,   \* whether a command is begun only when the others are done or in the foreground
  Pids,       \* process numbers
  StartOrder, \* <<"agent", "gateway", "embedding">>
  StopOrder,  \* <<"gateway", "agent", "embedding">>
  Optional    \* the services whose failure to start is only a warning

Services == {StartOrder[i] : i \in DOMAIN StartOrder}

ASSUME ServiceConstantsOK ==
  /\ 0 \notin Pids /\ OneByOne \in BOOLEAN
  /\ StartOrder \in Seq(Services) /\ StopOrder \in Seq(Services) /\ Services # {}
  /\ Services = {StopOrder[i] : i \in DOMAIN StopOrder} /\ Optional \subseteq Services
  /\ Services \cap {"none", "other", "zombie"} = {}

VARIABLES
  running,    \* what runs under each number; a zombie is dead and not waited for
  child,   \* the processes each command has started
  pidFile, \* the number in each service's pid file, 0 when there is no file
  cmd,     \* each command: what it does, at which service of its order, and where
  stray    \* observation: processes a command started and could not record

svcVars == <<running, child, pidFile, cmd, stray>>

Idle == [op |-> "idle", i |-> 0, at |-> "idle", pid |-> 0]

ServiceTypeOK ==
  /\ running \in [Pids -> Services \cup {"none", "other", "zombie"}]
  /\ child \in [Commands -> SUBSET Pids]
  /\ pidFile \in [Services -> Pids \cup {0}]
  /\ stray \subseteq Pids
  /\ cmd \in [Commands -> [op : {"idle", "start", "stop", "restart"},
                           i  : 0..Len(StartOrder) + Len(StopOrder),
                           at : {"idle", "check", "exec", "write", "wait", "foreground",
                                 "term", "int", "kill", "remove"},
                           pid : Pids \cup {0}]]

ServiceInit ==
  /\ running = [p \in Pids |-> "none"]
  /\ child = [c \in Commands |-> {}]
  /\ pidFile = [s \in Services |-> 0]
  /\ cmd = [c \in Commands |-> Idle]
  /\ stray = {}

(* pidAlive sends signal 0, which a zombie and a stranger receive as well. *)
PidAlive(p) == p # 0 /\ running[p] # "none"

ServiceOf(c) == IF cmd[c].op = "start" THEN StartOrder[cmd[c].i] ELSE StopOrder[cmd[c].i]

At(c, op, at) == cmd[c].at = at /\ cmd[c].op \in op

Stopping == {"stop", "restart"}

GoOn(c, at, pid) == cmd' = [cmd EXCEPT ![c].at = at, ![c].pid = pid]

(* The command is gone and its dead children are waited for by init.       *)
Exit(c, procs) ==
  /\ cmd' = [cmd EXCEPT ![c] = Idle]
  /\ child' = [child EXCEPT ![c] = {}]
  /\ running' = [p \in Pids |-> IF p \in child[c] /\ procs[p] = "zombie" THEN "none" ELSE procs[p]]

(* A process ends; one that a running command started becomes a zombie.    *)
Dead(p) == IF \E c \in Commands : p \in child[c] THEN "zombie" ELSE "none"

-----------------------------------------------------------------------------
(* startCmd, and stopCmd, which restartCmd calls first.                    *)
Begin(c, op) ==
  /\ cmd[c] = Idle
  /\ OneByOne => \A d \in Commands : cmd[d].at \in {"idle", "foreground"}
  /\ cmd' = [cmd EXCEPT ![c] = [op |-> op, i |-> 1, at |-> "check", pid |-> 0]]
  /\ UNCHANGED <<running, child, pidFile, stray>>

(* The next service of a start, or its end.                                *)
NextStart(c) ==
  IF cmd[c].i < Len(StartOrder)
  THEN /\ cmd' = [cmd EXCEPT ![c] = [op |-> "start", i |-> @.i + 1, at |-> "check", pid |-> 0]]
       /\ UNCHANGED <<running, child>>
  ELSE \/ Exit(c, running)
       \/ GoOn(c, "foreground", 0) /\ UNCHANGED <<running, child>>

(* Mutant: a service is started whether it runs or not.                    *)
StartAnyway(c) ==
  /\ At(c, {"start"}, "check")
  /\ GoOn(c, "exec", 0)
  /\ UNCHANGED <<running, child, pidFile, stray>>

(* isRunning in startOne                                                   *)
StartCheck(c) ==
  /\ At(c, {"start"}, "check")
  /\ GoOn(c, IF PidAlive(pidFile[ServiceOf(c)]) THEN "wait" ELSE "exec", 0)
  /\ UNCHANGED <<running, child, pidFile, stray>>

(* startProcess up to cmd.Start                                            *)
Exec(c) ==
  /\ At(c, {"start"}, "exec")
  /\ \E p \in Pids :
        /\ running[p] = "none"
        /\ running' = [running EXCEPT ![p] = ServiceOf(c)]
        /\ child' = [child EXCEPT ![c] = @ \cup {p}]
        /\ GoOn(c, "write", p)
        /\ stray' = stray \ {p}
  /\ UNCHANGED pidFile

(* The rest of startProcess: the pid file.                                 *)
WritePid(c) ==
  /\ At(c, {"start"}, "write")
  /\ pidFile' = [pidFile EXCEPT ![ServiceOf(c)] = cmd[c].pid]
  /\ GoOn(c, "wait", 0)
  /\ UNCHANGED <<running, child, stray>>

(* startProcess returns an error, after killing what it could not record:  *)
(* the command ends, unless the service is optional.                       *)
StartFails(c) ==
  /\ At(c, {"start"}, "exec") \/ At(c, {"start"}, "write")
  /\ LET procs == IF cmd[c].at = "write" /\ running[cmd[c].pid] = ServiceOf(c)
                  THEN [running EXCEPT ![cmd[c].pid] = "zombie"] ELSE running
     IN IF ServiceOf(c) \in Optional
        THEN \/ Exit(c, procs)
             \/ GoOn(c, "foreground", 0) /\ running' = procs /\ UNCHANGED child
        ELSE Exit(c, procs)
  /\ UNCHANGED <<pidFile, stray>>

(* waitFor...Ready: the service answers before the deadline.               *)
Answers(c) ==
  /\ At(c, {"start"}, "wait")
  /\ \E p \in Pids : running[p] = ServiceOf(c)
  /\ NextStart(c)
  /\ UNCHANGED <<pidFile, stray>>

WaitTimesOut(c) ==
  /\ At(c, {"start"}, "wait")
  /\ IF ServiceOf(c) \in Optional THEN NextStart(c) ELSE Exit(c, running)
  /\ UNCHANGED <<pidFile, stray>>

-----------------------------------------------------------------------------
(* The next service of a stop, or its end, or the start of a restart.      *)
NextStop(c) ==
  IF cmd[c].i < Len(StopOrder)
  THEN /\ cmd' = [cmd EXCEPT ![c].i = @ + 1, ![c].at = "check", ![c].pid = 0]
       /\ UNCHANGED <<running, child>>
  ELSE IF cmd[c].op = "restart"
  THEN /\ cmd' = [cmd EXCEPT ![c] = [op |-> "start", i |-> 1, at |-> "check", pid |-> 0]]
       /\ UNCHANGED <<running, child>>
  ELSE Exit(c, running)

(* readPidInfo in stopProcess: without a file, "not running".              *)
StopCheck(c) ==
  /\ At(c, Stopping, "check")
  /\ IF pidFile[ServiceOf(c)] = 0
     THEN NextStop(c)
     ELSE GoOn(c, "term", pidFile[ServiceOf(c)]) /\ UNCHANGED <<running, child>>
  /\ UNCHANGED <<pidFile, stray>>

(* SIGTERM, then SIGINT, each with a wait: the process ends, or it has not *)
(* ended when the wait is over.                                            *)
SignalService(c) ==
  /\ At(c, Stopping, "term") \/ At(c, Stopping, "int")
  /\ LET p == cmd[c].pid
     IN \/ /\ PidAlive(p)
           /\ GoOn(c, IF cmd[c].at = "term" THEN "int" ELSE "kill", p)
           /\ UNCHANGED running
        \/ /\ running' = IF PidAlive(p) THEN [running EXCEPT ![p] = Dead(p)] ELSE running
           /\ running'[p] = "none"
           /\ GoOn(c, "remove", p)
  /\ UNCHANGED <<child, pidFile, stray>>

(* SIGKILL ends the process within the wait; a zombie stays one.           *)
KillService(c) ==
  /\ At(c, Stopping, "kill")
  /\ LET p == cmd[c].pid
     IN running' = IF PidAlive(p) THEN [running EXCEPT ![p] = Dead(p)] ELSE running
  /\ GoOn(c, "remove", cmd[c].pid)
  /\ UNCHANGED <<child, pidFile, stray>>

RemovePidFile(c) ==
  /\ At(c, Stopping, "remove")
  /\ pidFile' = [pidFile EXCEPT ![ServiceOf(c)] = 0]
  /\ NextStop(c)
  /\ UNCHANGED stray

-----------------------------------------------------------------------------
(* Ctrl-C, or a kill of the command itself; the services have a process    *)
(* group of their own.                                                     *)
Interrupt(c) ==
  /\ cmd[c] # Idle
  /\ stray' = IF At(c, {"start"}, "write") THEN stray \cup {cmd[c].pid} ELSE stray
  /\ Exit(c, running)
  /\ UNCHANGED pidFile

(* A process ends by itself ...                                            *)
Ends(p) ==
  /\ running[p] \notin {"none", "zombie"}
  /\ running' = [running EXCEPT ![p] = Dead(p)]
  /\ UNCHANGED <<child, pidFile, cmd, stray>>

(* ... another program of the user is given a free number ...              *)
OtherStarts(p) ==
  /\ running[p] = "none"
  /\ running' = [running EXCEPT ![p] = "other"]
  /\ stray' = stray \ {p}
  /\ UNCHANGED <<child, pidFile, cmd>>

(* ... and the machine restarts; the pid files stay.                       *)
Reboot ==
  /\ running' = [p \in Pids |-> "none"]
  /\ child' = [c \in Commands |-> {}]
  /\ cmd' = [c \in Commands |-> Idle]
  /\ stray' = {}
  /\ UNCHANGED pidFile

StartStep(c) ==
  StartCheck(c) \/ Exec(c) \/ WritePid(c) \/ StartFails(c) \/ Answers(c) \/ WaitTimesOut(c)

StopStep(c) == StopCheck(c) \/ SignalService(c) \/ KillService(c) \/ RemovePidFile(c)

ServiceNext ==
  \/ Reboot
  \/ \E p \in Pids : Ends(p) \/ OtherStarts(p)
  \/ \E c \in Commands :
        \/ \E op \in {"start", "stop", "restart"} : Begin(c, op)
        \/ StartStep(c) \/ StopStep(c) \/ Interrupt(c)

ServiceSpec == ServiceInit /\ [][ServiceNext]_svcVars

-----------------------------------------------------------------------------
(* With commands one by one, every process of a service is the one its   *)
(* pid file names, or about to be written there; only a command that was   *)
(* interrupted between the two leaves a process that no `ocg stop` finds,  *)
(* and so no service runs twice.                                           *)
Tracked ==
  \A p \in Pids : running[p] \in Services =>
     \/ pidFile[running[p]] = p
     \/ \E c \in Commands : At(c, {"start"}, "write") /\ cmd[c].pid = p
     \/ p \in stray
=============================================================================
