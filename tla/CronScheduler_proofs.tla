------------------------ MODULE CronScheduler_proofs ------------------------
(***************************************************************************)
(* Proofs about CronScheduler, for any jobs, schedules and executions and  *)
(* any number of updates, manual runs and crashes.                         *)
(***************************************************************************)
EXTENDS CronScheduler, TLAPS

(* Nothing of the store or of its goroutines outlives a crash.             *)
DownIsQuiet ==
  ~up => /\ DOMAIN jobs = {} /\ DOMAIN gone = {}
         /\ tick.pc = "idle" /\ tick.due = {} /\ upd.pc = "idle"
         /\ \A e \in Execs : exec[e] = Free

(* The goroutines of a tick execute different jobs, and none of those that *)
(* the tick has yet to look at.                                            *)
LoopDistinct ==
  /\ tick.pc = "idle" => tick.due = {}
  /\ \A e \in Execs : exec[e].byTick =>
       /\ tick.pc = "spawn" /\ exec[e].job \notin tick.due
       /\ \A f \in Execs : exec[f].byTick /\ exec[f].job = exec[e].job => e = f

(* A job has the schedule it was last given, in memory and in the file.    *)
Given(j, s) == planned[j] # <<>> /\ s = planned[j][Len(planned[j])]

LastGiven ==
  /\ \A j \in DOMAIN jobs : Given(j, jobs[j].sched)
  /\ \A j \in DOMAIN file : Given(j, file[j].sched)
  /\ \A j \in DOMAIN gone : planned[j] # <<>>
  /\ \A j \in JobIds : planned[j] = <<>> => fired[j] = 0

(* How often the loop may still start a job that is given no other time:   *)
(* once for a time that is still ahead, once for a next run that is not    *)
(* the time of its schedule, and once if a tick has found it due.  What    *)
(* next says does not count while a tick's execution is going to           *)
(* recalculate it.                                                         *)
OnlyTimes(j) == \A i \in DOMAIN planned[j] : planned[j][i].kind = "at"

Ahead(s) == IF s.t > now THEN 1 ELSE 0

Armed(job) ==
  (IF job.sched.t > now \/ job.next = job.sched.t THEN 1 ELSE 0)
    + (IF job.next > 0 /\ job.next # job.sched.t THEN 1 ELSE 0)

Unfinished(j) ==
  \E e \in Execs : exec[e].byTick /\ exec[e].job = j /\ exec[e].pc \in {"spawned", "start", "running"}

Left(j) ==
  IF j \in tick.due THEN 1 + Ahead(jobs[j].sched)
  ELSE IF Unfinished(j) THEN Ahead(jobs[j].sched) ELSE Armed(jobs[j])

ShotsLeft ==
  \A j \in JobIds : OnlyTimes(j) =>
    /\ j \in DOMAIN jobs => fired[j] + Left(j) <= Len(planned[j])
    /\ ~up /\ j \in DOMAIN file => fired[j] + Ahead(file[j].sched) <= Len(planned[j])

(* The inductive invariant.  Its second part needs only the types, the     *)
(* last one the two others.                                                *)
StoreInv == DownIsQuiet /\ Durable /\ LoopDistinct /\ LastGiven

IInv == TypeOK /\ StoreInv /\ OnlyStaleNotExecuted /\ ShotsLeft

-----------------------------------------------------------------------------
(* What the operators return.                                              *)
ExecPCs == {"free", "spawned", "marked", "start", "running", "save", "record"}

LEMMA NextRun ==
  ASSUME NEW s \in Schedules, now \in Nat
  PROVE  /\ s.kind \in {"at", "every"} /\ s.t \in Nat /\ s.t > 0
         /\ CalculateNextRun(s) \in Nat
         /\ s.kind = "at" => CalculateNextRun(s) = IF s.t > now THEN s.t ELSE 0
<1>1. s \in [kind : {"at", "every"}, t : Nat \ {0}]
  BY ConstantsOK
<1>2. s.kind \in {"at", "every"} /\ s.t \in Nat /\ s.t > 0
  BY <1>1
<1>3. CASE s.kind = "at"
  BY <1>2, <1>3 DEF CalculateNextRun
<1>4. CASE s.kind = "every"
  BY <1>2, <1>4 DEF CalculateNextRun
<1>5. QED
  BY <1>2, <1>3, <1>4

(* The changes that the code makes to a job keep it one.                   *)
LEMMA JobTyped ==
  ASSUME NEW job \in Job, now \in Nat
  PROVE  /\ job.sched \in Schedules /\ job.next \in Nat /\ job.enabled \in BOOLEAN
         /\ [job EXCEPT !.next = CalculateNextRun(job.sched)] \in Job
         /\ [job EXCEPT !.status = "running"] \in Job
         /\ \A b \in BOOLEAN : [job EXCEPT !.enabled = b] \in Job
         /\ \A s \in Schedules : [job EXCEPT !.sched = s] \in Job
<1>1. job.sched \in Schedules
  BY DEF Job
<1>2. CalculateNextRun(job.sched) \in Nat
  BY <1>1, NextRun
<1>3. QED
  BY <1>1, <1>2 DEF Job

LEMMA FinishedTyped ==
  ASSUME NEW job \in Job, now \in Nat, NEW status \in {"ok", "error"}
  PROVE  LET done == [job EXCEPT !.status = status, !.next = CalculateNextRun(job.sched),
                                 !.enabled = @ /\ ~(job.sched.kind = "at" /\ job.once)]
         IN  /\ done \in Job /\ done.status = status /\ done.sched = job.sched
             /\ done.next = CalculateNextRun(job.sched)
<1>1. CalculateNextRun(job.sched) \in Nat
  BY JobTyped, NextRun
<1>2. (job.enabled /\ ~(job.sched.kind = "at" /\ job.once)) \in BOOLEAN
  OBVIOUS
<1>3. QED
  BY <1>1, <1>2 DEF Job

LEMMA DerefTyped ==
  ASSUME TypeOK, NEW j \in DOMAIN jobs \cup DOMAIN gone
  PROVE  Deref(j) \in Job /\ j \in JobIds
BY DEF TypeOK, Ids, Deref

(* An assignment through a pointer changes that job only.                  *)
LEMMA AssignJob ==
  ASSUME TypeOK, NEW j \in DOMAIN jobs \cup DOMAIN gone, NEW new \in Job, Assign(j, new)
  PROVE  /\ Ids(jobs') /\ Ids(gone') /\ DOMAIN jobs' = DOMAIN jobs /\ DOMAIN gone' = DOMAIN gone
         /\ \A i \in DOMAIN jobs : jobs'[i] = IF i = j THEN new ELSE jobs[i]
<1>1. CASE j \in DOMAIN jobs
  BY <1>1 DEF Assign, TypeOK, Ids
<1>2. CASE j \notin DOMAIN jobs
  BY <1>2 DEF Assign, TypeOK, Ids
<1>3. QED
  BY <1>1, <1>2

LEMMA JobChanged ==
  ASSUME TypeOK, NEW j \in DOMAIN jobs, NEW new \in Job, jobs' = [jobs EXCEPT ![j] = new]
  PROVE  /\ Ids(jobs') /\ DOMAIN jobs' = DOMAIN jobs
         /\ \A i \in DOMAIN jobs : jobs'[i] = IF i = j THEN new ELSE jobs[i]
BY DEF TypeOK, Ids

LEMMA GotoExec ==
  ASSUME TypeOK, NEW e \in Execs, NEW pc \in ExecPCs, Goto(e, pc)
  PROVE  /\ exec' \in [Execs -> Exec]
         /\ exec'[e].pc = pc /\ exec'[e].job = exec[e].job /\ exec'[e].byTick = exec[e].byTick
         /\ \A f \in Execs : f # e => exec'[f] = exec[f]
<1>1. exec[e] \in Exec /\ [exec[e] EXCEPT !.pc = pc] \in Exec
  BY ZenonT(40) DEF TypeOK, Exec, ExecPCs
<1>2. exec' = [exec EXCEPT ![e] = [exec[e] EXCEPT !.pc = pc]]
  BY DEF Goto
<1>3. QED
  BY <1>1, <1>2 DEF TypeOK, Exec

LEMMA FreeTyped == Free \in Exec /\ Free.pc = "free" /\ Free.job = NoJob /\ Free.byTick = FALSE
BY DEF Free, Exec

-----------------------------------------------------------------------------
(* Types.                                                                  *)

LEMMA InitTypes == Init => TypeOK
<1>. SUFFICES ASSUME Init PROVE TypeOK
  OBVIOUS
<1>1. DOMAIN jobs = {} /\ DOMAIN gone = {} /\ DOMAIN file = {}
  BY DEF Init
<1>2. Ids(jobs) /\ Ids(gone) /\ Ids(file)
  BY <1>1 DEF Init, Ids
<1>3. exec \in [Execs -> Exec]
  BY FreeTyped DEF Init
<1>4. \A e \in Execs : exec[e].pc = "free"
  BY FreeTyped DEF Init
<1>5. runs \in [JobIds -> 0..KeepRuns]
  BY ConstantsOK DEF Init
<1>6. planned \in [JobIds -> Seq(Schedules)]
  BY DEF Init
<1>7. tick \in [pc : {"idle", "spawn"}, due : SUBSET (DOMAIN jobs \cup DOMAIN gone)]
  BY DEF Init
<1>8. upd \in [pc : {"idle", "next", "save"}, job : JobIds \cup {NoJob}] /\ upd.pc = "idle"
  BY DEF Init
<1>9. now \in Nat /\ {manual, updates, crashes} \subseteq Nat
  BY DEF Init
<1>10. acked \subseteq JobIds
  BY DEF Init
<1>11. fired \in [JobIds -> Nat] /\ stale \subseteq JobIds
  BY DEF Init
<1>12. up \in BOOLEAN
  BY Zenon DEF Init
<1>13. QED
  BY <1>2, <1>3, <1>4, <1>5, <1>6, <1>7, <1>8, <1>9, <1>10, <1>11, <1>12 DEF TypeOK

(* A step of execution e.                                                  *)
LEMMA ExecuteTypes ==
  ASSUME TypeOK, NEW e \in Execs, Execute(e)
  PROVE  TypeOK'
<1>0. now \in Nat /\ exec[e] \in Exec
  BY DEF TypeOK
<1>1. CASE Acquire(e)
  <2>1. exec' \in [Execs -> Exec] /\ \A f \in Execs : exec'[f].pc # "free" =>
                                       exec[f].pc # "free" /\ exec'[f].job = exec[f].job
    BY <1>1, GotoExec DEF Acquire, ExecPCs
  <2>2. QED
    BY <1>1, <2>1 DEF Acquire, TypeOK, store, seen, bounds, Ids
<1>2. ASSUME NEW new \in Job, Assign(exec[e].job, new), exec[e].pc # "free",
             Goto(e, "running") \/ Goto(e, "save"),
             UNCHANGED <<up, now, file, runs, tick, upd, seen, bounds>>
      PROVE  TypeOK'
  <2>1. exec[e].job \in DOMAIN jobs \cup DOMAIN gone
    BY <1>2 DEF TypeOK
  <2>2. Ids(jobs') /\ Ids(gone') /\ DOMAIN jobs' = DOMAIN jobs /\ DOMAIN gone' = DOMAIN gone
    BY <1>2, <2>1, AssignJob
  <2>3. exec' \in [Execs -> Exec] /\ \A f \in Execs : exec'[f].pc # "free" =>
                                       exec[f].pc # "free" /\ exec'[f].job = exec[f].job
    BY <1>2, GotoExec DEF ExecPCs
  <2>4. QED
    BY <1>2, <2>2, <2>3 DEF TypeOK, seen, bounds, Ids
<1>3. CASE Begin(e)
  <2>1. Pointed(e) \in Job
    BY <1>3, DerefTyped DEF Begin, Pointed, TypeOK
  <2>2. [Pointed(e) EXCEPT !.status = "running"] \in Job
    BY <1>0, <2>1, JobTyped
  <2>3. QED
    BY <1>2, <1>3, <2>2 DEF Begin
<1>4. ASSUME NEW status \in {"ok", "error"}, Finish(e, status) PROVE TypeOK'
  <2>1. Pointed(e) \in Job
    BY <1>4, DerefTyped DEF Finish, Pointed, TypeOK
  <2>2. QED
    BY <1>0, <1>2, <1>4, <2>1, FinishedTyped DEF Finish
<1>5. CASE Save(e)
  <2>1. exec' \in [Execs -> Exec] /\ \A f \in Execs : exec'[f].pc # "free" =>
                                       exec[f].pc # "free" /\ exec'[f].job = exec[f].job
    BY <1>5, GotoExec DEF Save, ExecPCs
  <2>2. QED
    BY <1>5, <2>1 DEF Save, TypeOK, seen, bounds, Ids
<1>6. CASE Record(e)
  <2>1. exec' \in [Execs -> Exec] /\ \A f \in Execs : exec'[f].pc # "free" => exec'[f] = exec[f]
    BY <1>6, FreeTyped DEF Record, TypeOK
  <2>2. runs' \in [JobIds -> 0..KeepRuns]
    <3>1. \A n \in 0..KeepRuns : (IF n < KeepRuns THEN n + 1 ELSE n) \in 0..KeepRuns
      BY ConstantsOK
    <3>2. exec[e].job \in JobIds
      BY <1>6 DEF Record, TypeOK, Ids
    <3>3. QED
      BY <1>6, <3>1, <3>2 DEF Record, TypeOK
  <2>3. QED
    BY <1>6, <2>1, <2>2 DEF Record, TypeOK, seen, bounds, Ids
<1>7. QED
  BY <1>1, <1>3, <1>4, <1>5, <1>6 DEF Execute

(* A step of the scheduling loop.                                          *)
LEMMA LoopTypes ==
  ASSUME TypeOK, Loop
  PROVE  TypeOK'
<1>. USE DEF store, seen, bounds, Ids
<1>1. CASE GetDueJobs
  BY <1>1 DEF GetDueJobs, TypeOK
<1>2. ASSUME NEW j \in JobIds, SpawnOrSkip(j) PROVE TypeOK'
  <2>1. tick' \in [pc : {"idle", "spawn"}, due : SUBSET (DOMAIN jobs \cup DOMAIN gone)]
    BY <1>2 DEF SpawnOrSkip, TypeOK
  <2>2. CASE UNCHANGED <<exec, fired>>
    BY <1>2, <2>1, <2>2 DEF SpawnOrSkip, TypeOK
  <2>3. ASSUME NEW e \in Execs, exec[e] = Free,
               exec' = [exec EXCEPT ![e] = [pc |-> "spawned", job |-> j, byTick |-> TRUE]],
               fired' = [fired EXCEPT ![j] = @ + 1]
        PROVE  TypeOK'
    <3>1. exec' \in [Execs -> Exec]
      BY <2>3 DEF TypeOK, Exec
    <3>2. j \in DOMAIN jobs \cup DOMAIN gone
      BY <1>2 DEF SpawnOrSkip, TypeOK
    <3>3. \A f \in Execs : exec'[f].pc # "free" => exec'[f].job \in DOMAIN jobs \cup DOMAIN gone
      BY <2>3, <3>2 DEF TypeOK
    <3>4. fired' \in [JobIds -> Nat]
      BY <2>3 DEF TypeOK
    <3>5. QED
      BY <1>2, <2>1, <3>1, <3>3, <3>4 DEF SpawnOrSkip, TypeOK
  <2>4. QED
    BY <1>2, <2>2, <2>3 DEF SpawnOrSkip
<1>3. CASE TickEnds
  BY <1>3 DEF TickEnds, TypeOK
<1>4. QED
  BY <1>1, <1>2, <1>3 DEF Loop

(* An operation of the API.                                                *)
LEMMA AddTypes ==
  ASSUME TypeOK, NEW j \in JobIds, NEW s \in Schedules, NEW once \in BOOLEAN, AddJob(j, s, once)
  PROVE  TypeOK'
<1>. DEFINE new == [sched |-> s, once |-> once, enabled |-> TRUE, next |-> CalculateNextRun(s),
                    status |-> "new"]
<1>1. new \in Job
  BY NextRun DEF TypeOK, Job
<1>2. jobs' = [i \in DOMAIN jobs \cup {j} |-> IF i = j THEN new ELSE jobs[i]]
  BY DEF AddJob
<1>. HIDE DEF new
<1>3. Ids(jobs') /\ DOMAIN jobs' = DOMAIN jobs \cup {j}
  BY <1>1, <1>2 DEF TypeOK, Ids
<1>4. planned' \in [JobIds -> Seq(Schedules)]
  BY DEF AddJob, TypeOK
<1>5. QED
  BY <1>3, <1>4 DEF AddJob, TypeOK, bounds, Ids

LEMMA RemoveTypes ==
  ASSUME TypeOK, NEW j \in JobIds, RemoveJob(j)
  PROVE  TypeOK'
<1>1. /\ Ids(jobs') /\ DOMAIN jobs' = DOMAIN jobs \ {j}
      /\ Ids(gone') /\ DOMAIN gone' = DOMAIN gone \cup {j}
  BY DEF RemoveJob, TypeOK, Ids
<1>2. DOMAIN jobs' \cup DOMAIN gone' = DOMAIN jobs \cup DOMAIN gone
  BY <1>1 DEF RemoveJob
<1>3. QED
  BY <1>1, <1>2 DEF RemoveJob, TypeOK, bounds, Ids

LEMMA UpdateTypes ==
  ASSUME TypeOK, NEW j \in JobIds, UpdateJob(j)
  PROVE  TypeOK'
<1>0. j \in DOMAIN jobs /\ jobs[j] \in Job /\ now \in Nat
  BY DEF UpdateJob, TypeOK, Ids
<1>1. Ids(jobs') /\ DOMAIN jobs' = DOMAIN jobs /\ planned' \in [JobIds -> Seq(Schedules)]
  <2>1. ASSUME NEW b \in BOOLEAN, jobs' = [jobs EXCEPT ![j].enabled = b], UNCHANGED planned
        PROVE  Ids(jobs') /\ DOMAIN jobs' = DOMAIN jobs /\ planned' \in [JobIds -> Seq(Schedules)]
    <3>1. [jobs[j] EXCEPT !.enabled = b] \in Job
      BY <1>0, JobTyped
    <3>2. jobs' = [jobs EXCEPT ![j] = [jobs[j] EXCEPT !.enabled = b]]
      BY <2>1
    <3>3. QED
      BY <1>0, <2>1, <3>1, <3>2, JobChanged DEF TypeOK
  <2>2. ASSUME NEW s \in Schedules, jobs' = [jobs EXCEPT ![j].sched = s],
               planned' = [planned EXCEPT ![j] = Append(@, s)]
        PROVE  Ids(jobs') /\ DOMAIN jobs' = DOMAIN jobs /\ planned' \in [JobIds -> Seq(Schedules)]
    <3>1. [jobs[j] EXCEPT !.sched = s] \in Job
      BY <1>0, JobTyped
    <3>2. jobs' = [jobs EXCEPT ![j] = [jobs[j] EXCEPT !.sched = s]]
      BY <2>2
    <3>3. Append(planned[j], s) \in Seq(Schedules)
      BY DEF TypeOK
    <3>4. planned' \in [JobIds -> Seq(Schedules)]
      BY <2>2, <3>3 DEF TypeOK
    <3>5. QED
      BY <1>0, <3>1, <3>2, <3>4, JobChanged
  <2>3. QED
    BY <2>1, <2>2 DEF UpdateJob
<1>2. upd' \in [pc : {"idle", "next", "save"}, job : JobIds \cup {NoJob}] /\ upd'.job = j
  BY DEF UpdateJob
<1>3. QED
  BY <1>0, <1>1, <1>2 DEF UpdateJob, TypeOK, Ids

LEMMA UpdateNextTypes ==
  ASSUME TypeOK, UpdateNext \/ UpdateSave
  PROVE  TypeOK'
<1>1. CASE UpdateNext
  <2>1. upd.job \in DOMAIN jobs \cup DOMAIN gone /\ now \in Nat
    BY <1>1 DEF UpdateNext, TypeOK
  <2>2. Deref(upd.job) \in Job
    BY <2>1, DerefTyped
  <2>3. [Deref(upd.job) EXCEPT !.next = CalculateNextRun(Deref(upd.job).sched)] \in Job
    BY <2>1, <2>2, JobTyped
  <2>4. Ids(jobs') /\ Ids(gone') /\ DOMAIN jobs' = DOMAIN jobs /\ DOMAIN gone' = DOMAIN gone
    BY <1>1, <2>1, <2>3, AssignJob DEF UpdateNext
  <2>5. upd' \in [pc : {"idle", "next", "save"}, job : JobIds \cup {NoJob}] /\ upd'.job = upd.job
    BY <1>1 DEF UpdateNext, TypeOK
  <2>6. QED
    BY <1>1, <2>1, <2>4, <2>5 DEF UpdateNext, TypeOK, seen, bounds, Ids
<1>2. CASE UpdateSave
  BY <1>2 DEF UpdateSave, TypeOK, seen, bounds, Ids
<1>3. QED
  BY <1>1, <1>2

LEMMA RunTypes ==
  ASSUME TypeOK, NEW j \in JobIds, NEW e \in Execs, RunJob(j, e)
  PROVE  TypeOK'
<1>0. j \in DOMAIN jobs /\ jobs[j] \in Job /\ now \in Nat
  BY DEF RunJob, TypeOK, Ids
<1>1. [jobs[j] EXCEPT !.status = "running"] \in Job
  BY <1>0, JobTyped
<1>2. jobs' = [jobs EXCEPT ![j] = [jobs[j] EXCEPT !.status = "running"]]
  BY DEF RunJob
<1>3. Ids(jobs') /\ DOMAIN jobs' = DOMAIN jobs
  BY <1>0, <1>1, <1>2, JobChanged
<1>4. exec' \in [Execs -> Exec]
  BY DEF RunJob, TypeOK, Exec
<1>5. \A f \in Execs : exec'[f].pc # "free" => exec'[f].job \in DOMAIN jobs \cup DOMAIN gone
  BY <1>0 DEF RunJob, TypeOK
<1>6. QED
  BY SMTT(30), <1>3, <1>4, <1>5 DEF RunJob, TypeOK, seen, Ids

(* Start and end of the gateway, and the clock.                            *)
LEMMA GatewayTypes ==
  ASSUME TypeOK, DownIsQuiet, Boot \/ Crash \/ ClockTicks
  PROVE  TypeOK'
<1>1. CASE Boot
  <2>1. \A j \in DOMAIN file : [file[j] EXCEPT !.next = CalculateNextRun(file[j].sched)] \in Job
    BY JobTyped DEF TypeOK, Ids
  <2>2. Ids(jobs') /\ DOMAIN jobs' = DOMAIN file
    BY <1>1, <2>1 DEF Boot, TypeOK, Ids
  <2>3. tick.due = {} /\ upd.pc = "idle" /\ \A e \in Execs : exec[e].pc = "free"
    BY <1>1, FreeTyped DEF Boot, DownIsQuiet
  <2>4. tick' \in [pc : {"idle", "spawn"}, due : SUBSET (DOMAIN jobs' \cup DOMAIN gone')]
    BY <1>1, <2>3 DEF Boot, TypeOK
  <2>5. QED
    BY <1>1, <2>2, <2>3, <2>4 DEF Boot, TypeOK, bounds, Ids
<1>2. CASE Crash
  <2>1. Ids(jobs') /\ Ids(gone')
    BY <1>2 DEF Crash, Ids
  <2>2. exec' \in [Execs -> Exec] /\ \A e \in Execs : exec'[e].pc = "free"
    BY <1>2, FreeTyped DEF Crash
  <2>3. tick' \in [pc : {"idle", "spawn"}, due : SUBSET (DOMAIN jobs' \cup DOMAIN gone')]
    BY <1>2 DEF Crash
  <2>4. upd' \in [pc : {"idle", "next", "save"}, job : JobIds \cup {NoJob}] /\ upd'.pc = "idle"
    BY <1>2 DEF Crash
  <2>5. {manual', updates', crashes'} \subseteq Nat
    BY <1>2 DEF Crash, TypeOK
  <2>6. QED
    BY <1>2, <2>1, <2>2, <2>3, <2>4, <2>5 DEF Crash, TypeOK, seen, Ids
<1>3. CASE ClockTicks
  BY <1>3 DEF ClockTicks, TypeOK, store, seen, bounds, Ids
<1>4. QED
  BY <1>1, <1>2, <1>3

LEMMA NextTypes ==
  ASSUME TypeOK, DownIsQuiet, Next
  PROVE  TypeOK'
BY GatewayTypes, LoopTypes, ExecuteTypes, AddTypes, RemoveTypes, UpdateTypes, UpdateNextTypes,
   RunTypes DEF Next, Api

-----------------------------------------------------------------------------
(* The store and the file.                                                 *)

LEMMA InitStore == Init => StoreInv
<1>. SUFFICES ASSUME Init PROVE StoreInv
  OBVIOUS
<1>1. DOMAIN jobs = {} /\ DOMAIN gone = {} /\ DOMAIN file = {}
  BY DEF Init
<1>2. \A e \in Execs : exec[e] = Free /\ ~exec[e].byTick
  BY FreeTyped DEF Init
<1>3. DownIsQuiet
  BY <1>1, <1>2 DEF Init, DownIsQuiet
<1>4. Durable
  BY <1>1 DEF Init, Durable
<1>5. LoopDistinct
  BY <1>2 DEF Init, LoopDistinct
<1>6. LastGiven
  BY <1>1 DEF Init, LastGiven
<1>7. QED
  BY <1>3, <1>4, <1>5, <1>6 DEF StoreInv

(* What a step of an execution does to the store.                          *)
LEMMA ExecuteEffect ==
  ASSUME TypeOK, NEW e \in Execs, Execute(e)
  PROVE  /\ UNCHANGED <<up, now, tick, upd, acked, planned, fired, stale>>
         /\ DOMAIN jobs' = DOMAIN jobs /\ DOMAIN gone' = DOMAIN gone
         /\ \A j \in DOMAIN jobs : jobs'[j].sched = jobs[j].sched
         /\ file' = file \/ file' = jobs'
         /\ exec[e].pc # "free" /\ exec[e].job \in DOMAIN jobs \cup DOMAIN gone
         /\ \A f \in Execs : f # e => exec'[f] = exec[f]
         /\ exec'[e].byTick => exec[e].byTick /\ exec'[e].job = exec[e].job
<1>0. /\ now \in Nat /\ exec[e] \in Exec
      /\ exec[e].pc # "free" => exec[e].job \in DOMAIN jobs \cup DOMAIN gone
  BY DEF TypeOK
<1>1. CASE Acquire(e) \/ Save(e)
  <2>1. \E pc \in ExecPCs : Goto(e, pc)
    BY <1>1 DEF Acquire, Save, ExecPCs
  <2>2. QED
    BY <1>0, <1>1, <2>1, GotoExec DEF Acquire, Save, store, seen
<1>2. ASSUME NEW new \in Job, new.sched = Pointed(e).sched, exec[e].pc # "free",
             Assign(exec[e].job, new),
             Goto(e, "running") \/ Goto(e, "save")
      PROVE  /\ DOMAIN jobs' = DOMAIN jobs /\ DOMAIN gone' = DOMAIN gone
             /\ \A j \in DOMAIN jobs : jobs'[j].sched = jobs[j].sched
             /\ \A f \in Execs : f # e => exec'[f] = exec[f]
             /\ exec'[e].byTick = exec[e].byTick /\ exec'[e].job = exec[e].job
  <2>1. exec[e].job \in DOMAIN jobs \cup DOMAIN gone
    BY <1>0, <1>2
  <2>2. /\ DOMAIN jobs' = DOMAIN jobs /\ DOMAIN gone' = DOMAIN gone
        /\ \A i \in DOMAIN jobs : jobs'[i] = IF i = exec[e].job THEN new ELSE jobs[i]
    BY <1>2, <2>1, AssignJob
  <2>3. \A j \in DOMAIN jobs : jobs'[j].sched = jobs[j].sched
    BY <1>2, <2>2 DEF Pointed, Deref
  <2>4. QED
    BY <1>2, <2>2, <2>3, GotoExec DEF ExecPCs
<1>3. CASE Begin(e)
  <2>1. Pointed(e) \in Job
    BY <1>0, <1>3, DerefTyped DEF Begin, Pointed
  <2>2. /\ [Pointed(e) EXCEPT !.status = "running"] \in Job
        /\ [Pointed(e) EXCEPT !.status = "running"].sched = Pointed(e).sched
    BY <1>0, <2>1, JobTyped DEF Job
  <2>3. QED
    BY <1>0, <1>2, <1>3, <2>2 DEF Begin, seen
<1>4. ASSUME NEW status \in {"ok", "error"}, Finish(e, status)
      PROVE  /\ DOMAIN jobs' = DOMAIN jobs /\ DOMAIN gone' = DOMAIN gone
             /\ \A j \in DOMAIN jobs : jobs'[j].sched = jobs[j].sched
             /\ \A f \in Execs : f # e => exec'[f] = exec[f]
             /\ exec'[e].byTick = exec[e].byTick /\ exec'[e].job = exec[e].job
             /\ UNCHANGED <<up, now, tick, upd, acked, planned, fired, stale, file>>
             /\ exec[e].pc # "free"
  <2>1. Pointed(e) \in Job
    BY <1>0, <1>4, DerefTyped DEF Finish, Pointed
  <2>2. QED
    BY ZenonT(40), <1>0, <1>2, <1>4, <2>1, FinishedTyped DEF Finish, seen
<1>5. CASE Record(e)
  BY <1>0, <1>5, FreeTyped DEF Record, seen, TypeOK
<1>6. QED
  BY <1>0, <1>1, <1>3, <1>4, <1>5 DEF Execute

LEMMA ExecuteStore ==
  ASSUME TypeOK, StoreInv, NEW e \in Execs, Execute(e)
  PROVE  StoreInv'
<1>. USE ExecuteEffect DEF StoreInv
<1>0. up
  BY FreeTyped DEF DownIsQuiet
<1>1. DownIsQuiet'
  BY <1>0 DEF DownIsQuiet
<1>2. Durable'
  BY <1>0 DEF Durable
<1>3. LoopDistinct'
  BY DEF LoopDistinct
<1>4. LastGiven'
  BY DEF LastGiven, Given
<1>5. QED
  BY <1>1, <1>2, <1>3, <1>4

LEMMA LoopStore ==
  ASSUME TypeOK, StoreInv, Loop
  PROVE  StoreInv'
<1>. USE DEF StoreInv, store, seen, bounds
<1>1. UNCHANGED <<up, jobs, gone, file, upd, planned, acked>>
  BY DEF Loop, GetDueJobs, SpawnOrSkip, TickEnds
<1>2. Durable'
  BY <1>1 DEF Durable
<1>3. up
  BY DEF Loop, GetDueJobs, SpawnOrSkip, TickEnds, DownIsQuiet
<1>4. DownIsQuiet'
  BY <1>1, <1>3 DEF DownIsQuiet
<1>5. \A e \in Execs : exec[e].byTick \in BOOLEAN
  BY DEF TypeOK, Exec
<1>6. CASE GetDueJobs
  <2>1. tick' = [pc |-> "spawn", due |-> {j \in DOMAIN jobs : IsDue(jobs[j])}]
    BY <1>6 DEF GetDueJobs
  <2>2. \A e \in Execs : ~exec[e].byTick
    BY <1>6 DEF GetDueJobs, LoopDistinct
  <2>3. LoopDistinct' /\ LastGiven'
    BY <1>1, <1>6, <2>1, <2>2 DEF GetDueJobs, LoopDistinct, LastGiven, Given
  <2>4. QED
    BY <1>2, <1>4, <2>3
<1>7. CASE TickEnds
  <2>1. tick'.pc = "idle" /\ tick'.due = {}
    BY <1>7 DEF TickEnds, TypeOK
  <2>2. LoopDistinct' /\ LastGiven'
    BY <1>1, <1>7, <2>1 DEF TickEnds, LoopDistinct, LastGiven, Given
  <2>3. QED
    BY <1>2, <1>4, <2>2
<1>8. ASSUME NEW j \in JobIds, SpawnOrSkip(j) PROVE StoreInv'
  <2>1. tick'.pc = tick.pc /\ tick'.due = tick.due \ {j} /\ tick.pc = "spawn" /\ j \in tick.due
    BY <1>8 DEF SpawnOrSkip, TypeOK, LoopDistinct
  <2>2. CASE UNCHANGED <<exec, fired>>
    <3>1. LoopDistinct' /\ LastGiven'
      BY <1>1, <2>1, <2>2 DEF LoopDistinct, LastGiven, Given
    <3>2. QED
      BY <1>2, <1>4, <3>1
  <2>3. ASSUME NEW e \in Execs, exec[e] = Free,
               exec' = [exec EXCEPT ![e] = [pc |-> "spawned", job |-> j, byTick |-> TRUE]],
               fired' = [fired EXCEPT ![j] = @ + 1]
        PROVE  StoreInv'
    <3>1. exec'[e].job = j /\ \A f \in Execs : f # e => exec'[f] = exec[f]
      BY <2>3 DEF TypeOK
    <3>2. \A f \in Execs : f # e /\ exec[f].byTick => exec[f].job # j
      BY <2>1 DEF LoopDistinct
    <3>3. LoopDistinct'
      BY <2>1, <3>1, <3>2 DEF LoopDistinct
    <3>4. planned[j] # <<>>
      BY <1>8 DEF SpawnOrSkip, TypeOK, LastGiven, Given
    <3>5. LastGiven'
      BY <1>1, <2>3, <3>4 DEF LastGiven, Given, TypeOK
    <3>6. QED
      BY <1>2, <1>4, <3>3, <3>5
  <2>4. QED
    BY <1>8, <2>2, <2>3 DEF SpawnOrSkip
<1>9. QED
  BY <1>6, <1>7, <1>8 DEF Loop

(* An operation of the API changes the file with the store, or a field     *)
(* that the file may lag behind in.                                        *)
LEMMA AddStore ==
  ASSUME TypeOK, StoreInv, NEW j \in JobIds, NEW s \in Schedules, NEW once \in BOOLEAN,
         AddJob(j, s, once)
  PROVE  StoreInv'
<1>. USE DEF StoreInv
<1>0. up /\ UNCHANGED <<up, gone, tick, exec, upd, fired>> /\ planned[j] = <<>>
  BY DEF AddJob
<1>1. /\ DOMAIN jobs' = DOMAIN jobs \cup {j} /\ file' = jobs' /\ acked' = acked \cup {j}
      /\ jobs'[j].sched = s /\ \A i \in DOMAIN jobs : i # j => jobs'[i] = jobs[i]
  BY DEF AddJob
<1>2. planned'[j] = <<s>> /\ \A i \in JobIds : i # j => planned'[i] = planned[i]
  BY DEF AddJob, TypeOK
<1>3. DOMAIN jobs \subseteq JobIds /\ DOMAIN gone \subseteq JobIds
  BY DEF TypeOK, Ids
<1>4. DownIsQuiet'
  BY <1>0 DEF DownIsQuiet
<1>5. Durable'
  BY <1>0, <1>1 DEF Durable
<1>6. LoopDistinct'
  BY <1>0 DEF LoopDistinct
<1>7. LastGiven'
  <2>1. Given(j, s)' /\ planned'[j] # <<>>
    BY <1>2 DEF Given
  <2>2. \A i \in DOMAIN jobs \cup DOMAIN gone : planned'[i] # <<>>
    BY <1>2, <1>3, <2>1 DEF LastGiven, Given
  <2>3. \A i \in DOMAIN jobs' : Given(i, jobs[i].sched)'
    BY <1>1, <1>2, <1>3, <2>1 DEF LastGiven, Given
  <2>4. \A i \in JobIds : planned'[i] = <<>> => fired'[i] = 0
    BY <1>0, <1>2 DEF LastGiven
  <2>5. QED
    BY <1>0, <1>1, <2>2, <2>3, <2>4 DEF LastGiven, Given
<1>8. QED
  BY <1>4, <1>5, <1>6, <1>7

LEMMA RemoveStore ==
  ASSUME TypeOK, StoreInv, NEW j \in JobIds, RemoveJob(j)
  PROVE  StoreInv'
<1>. USE DEF StoreInv
<1>0. up /\ UNCHANGED <<up, tick, exec, upd, fired, planned>> /\ j \in DOMAIN jobs
  BY DEF RemoveJob
<1>1. /\ DOMAIN jobs' = DOMAIN jobs \ {j} /\ file' = jobs' /\ acked' = acked \ {j}
      /\ DOMAIN gone' = DOMAIN gone \cup {j} /\ \A i \in DOMAIN jobs' : jobs'[i] = jobs[i]
  BY DEF RemoveJob
<1>2. DownIsQuiet'
  BY <1>0 DEF DownIsQuiet
<1>3. Durable'
  BY <1>0, <1>1 DEF Durable
<1>4. LoopDistinct'
  BY <1>0 DEF LoopDistinct
<1>5. LastGiven'
  BY <1>0, <1>1 DEF LastGiven, Given
<1>6. QED
  BY <1>2, <1>3, <1>4, <1>5

LEMMA UpdateStore ==
  ASSUME TypeOK, StoreInv, NEW j \in JobIds, UpdateJob(j)
  PROVE  StoreInv'
<1>. USE DEF StoreInv
<1>0. up /\ UNCHANGED <<up, gone, tick, exec, acked, fired>> /\ j \in DOMAIN jobs /\ file' = jobs'
  BY DEF UpdateJob
<1>1. DOMAIN jobs' = DOMAIN jobs /\ jobs[j] \in Job /\ DOMAIN jobs \subseteq JobIds /\ now \in Nat
  BY DEF UpdateJob, TypeOK, Ids
<1>2. DownIsQuiet'
  BY <1>0 DEF DownIsQuiet
<1>3. Durable'
  BY <1>0, <1>1 DEF Durable
<1>4. LoopDistinct'
  BY <1>0 DEF LoopDistinct
<1>5. LastGiven'
  <2>1. ASSUME NEW b \in BOOLEAN, jobs' = [jobs EXCEPT ![j].enabled = b], UNCHANGED planned
        PROVE  LastGiven'
    <3>1. \A i \in DOMAIN jobs : jobs'[i].sched = jobs[i].sched
      BY <1>1, <2>1 DEF TypeOK, Ids, Job
    <3>2. QED
      BY <1>0, <1>1, <2>1, <3>1 DEF LastGiven, Given
  <2>2. ASSUME NEW s \in Schedules, jobs' = [jobs EXCEPT ![j].sched = s],
               planned' = [planned EXCEPT ![j] = Append(@, s)]
        PROVE  LastGiven'
    <3>1. planned[j] \in Seq(Schedules) /\ planned'[j] = Append(planned[j], s)
      BY <1>1, <2>2 DEF TypeOK
    <3>2. planned'[j] # <<>> /\ planned'[j][Len(planned'[j])] = s
      BY <3>1
    <3>3. \A i \in JobIds : i # j => planned'[i] = planned[i]
      BY <2>2 DEF TypeOK
    <3>4. jobs'[j].sched = s /\ \A i \in DOMAIN jobs : i # j => jobs'[i] = jobs[i]
      BY <1>0, <1>1, <2>2 DEF TypeOK, Ids, Job
    <3>5. \A i \in DOMAIN jobs : Given(i, jobs[i].sched)'
      BY <1>1, <3>2, <3>3, <3>4 DEF LastGiven, Given
    <3>6. \A i \in DOMAIN gone : planned'[i] # <<>>
      BY <3>2, <3>3 DEF LastGiven, TypeOK, Ids
    <3>7. \A i \in JobIds : planned'[i] = <<>> => fired'[i] = 0
      BY <1>0, <3>2, <3>3 DEF LastGiven
    <3>8. QED
      BY <1>0, <1>1, <3>5, <3>6, <3>7 DEF LastGiven, Given
  <2>3. QED
    BY <2>1, <2>2 DEF UpdateJob
<1>6. QED
  BY <1>2, <1>3, <1>4, <1>5

LEMMA UpdateNextStore ==
  ASSUME TypeOK, StoreInv, UpdateNext \/ UpdateSave
  PROVE  StoreInv'
<1>. USE DEF StoreInv
<1>0. up /\ UNCHANGED <<up, tick, exec, acked, planned, fired>>
  BY DEF UpdateNext, UpdateSave, DownIsQuiet, seen
<1>1. /\ DOMAIN jobs' = DOMAIN jobs /\ DOMAIN gone' = DOMAIN gone
      /\ \A i \in DOMAIN jobs : jobs'[i].sched = jobs[i].sched
      /\ file' = file \/ file' = jobs'
  <2>1. CASE UpdateNext
    <3>1. upd.job \in DOMAIN jobs \cup DOMAIN gone /\ now \in Nat
      BY <2>1 DEF UpdateNext, TypeOK
    <3>2. Deref(upd.job) \in Job
      BY <3>1, DerefTyped
    <3>. DEFINE new == [Deref(upd.job) EXCEPT !.next = CalculateNextRun(Deref(upd.job).sched)]
    <3>3. new \in Job /\ new.sched = Deref(upd.job).sched
      BY <3>1, <3>2, JobTyped DEF Job
    <3>4. /\ DOMAIN jobs' = DOMAIN jobs /\ DOMAIN gone' = DOMAIN gone
          /\ \A i \in DOMAIN jobs : jobs'[i] = IF i = upd.job THEN new ELSE jobs[i]
      BY <2>1, <3>1, <3>3, AssignJob DEF UpdateNext
    <3>5. \A i \in DOMAIN jobs : jobs'[i].sched = jobs[i].sched
      BY <3>3, <3>4 DEF Deref
    <3>6. QED
      BY <2>1, <3>4, <3>5 DEF UpdateNext
  <2>2. CASE UpdateSave
    BY <2>2 DEF UpdateSave
  <2>3. QED
    BY <2>1, <2>2
<1>2. DownIsQuiet'
  BY <1>0 DEF DownIsQuiet
<1>3. Durable'
  BY <1>0, <1>1 DEF Durable
<1>4. LoopDistinct'
  BY <1>0 DEF LoopDistinct
<1>5. LastGiven'
  BY <1>0, <1>1 DEF LastGiven, Given
<1>6. QED
  BY <1>2, <1>3, <1>4, <1>5

LEMMA RunStore ==
  ASSUME TypeOK, StoreInv, NEW j \in JobIds, NEW e \in Execs, RunJob(j, e)
  PROVE  StoreInv'
<1>. USE DEF StoreInv
<1>0. up /\ UNCHANGED <<up, gone, file, tick, acked, planned, fired>> /\ j \in DOMAIN jobs
  BY DEF RunJob, seen
<1>1. DOMAIN jobs' = DOMAIN jobs /\ \A i \in DOMAIN jobs : jobs'[i].sched = jobs[i].sched
  BY DEF RunJob, TypeOK, Ids, Job
<1>2. ~exec'[e].byTick /\ \A f \in Execs : f # e => exec'[f] = exec[f]
  BY DEF RunJob, TypeOK
<1>3. DownIsQuiet'
  BY <1>0 DEF DownIsQuiet
<1>4. Durable'
  BY <1>0, <1>1 DEF Durable
<1>5. LoopDistinct'
  BY <1>0, <1>2 DEF LoopDistinct
<1>6. LastGiven'
  BY <1>0, <1>1 DEF LastGiven, Given
<1>7. QED
  BY <1>3, <1>4, <1>5, <1>6

LEMMA GatewayStore ==
  ASSUME TypeOK, StoreInv, Boot \/ Crash \/ ClockTicks
  PROVE  StoreInv'
<1>. USE DEF StoreInv
<1>0. UNCHANGED <<acked, planned, fired>>
  BY DEF Boot, Crash, ClockTicks, seen
<1>1. CASE Boot
  <2>1. /\ DOMAIN jobs' = DOMAIN file /\ file' = jobs' /\ up' /\ UNCHANGED <<gone, tick, exec>>
        /\ jobs' = [j \in DOMAIN file |-> [file[j] EXCEPT !.next = CalculateNextRun(file[j].sched)]]
    BY <1>1 DEF Boot
  <2>2. \A j \in DOMAIN file : file[j] \in Job
    BY DEF TypeOK, Ids
  <2>3. \A j \in DOMAIN file : jobs'[j].sched = file[j].sched
    BY <2>1, <2>2 DEF Job
  <2>4. DownIsQuiet'
    BY <2>1 DEF DownIsQuiet
  <2>5. Durable'
    BY <1>0, <2>1, <2>3 DEF Durable
  <2>6. LoopDistinct'
    BY <2>1 DEF LoopDistinct
  <2>7. LastGiven'
    BY <1>0, <2>1, <2>3 DEF LastGiven, Given
  <2>8. QED
    BY <2>4, <2>5, <2>6, <2>7
<1>2. CASE Crash
  <2>1. /\ ~up' /\ file' = file /\ DOMAIN jobs' = {} /\ DOMAIN gone' = {}
        /\ tick'.pc = "idle" /\ tick'.due = {} /\ upd'.pc = "idle"
        /\ \A e \in Execs : exec'[e] = Free
    BY <1>2 DEF Crash
  <2>2. DownIsQuiet'
    BY <2>1 DEF DownIsQuiet
  <2>3. Durable'
    BY <1>0, <2>1 DEF Durable
  <2>4. LoopDistinct'
    BY <2>1, FreeTyped DEF LoopDistinct
  <2>5. LastGiven'
    BY <1>0, <2>1 DEF LastGiven, Given
  <2>6. QED
    BY <2>2, <2>3, <2>4, <2>5
<1>3. CASE ClockTicks
  BY <1>3 DEF ClockTicks, store, seen, DownIsQuiet, Durable, LoopDistinct, LastGiven, Given
<1>4. QED
  BY <1>1, <1>2, <1>3

LEMMA NextStore ==
  ASSUME TypeOK, StoreInv, Next
  PROVE  StoreInv'
BY GatewayStore, LoopStore, ExecuteStore, AddStore, RemoveStore, UpdateStore, UpdateNextStore,
   RunStore DEF Next, Api

-----------------------------------------------------------------------------
(* Only executed jobs, and those a restart found so, have the status       *)
(* "running".                                                              *)
LEMMA ExecuteStale ==
  ASSUME TypeOK, OnlyStaleNotExecuted, NEW e \in Execs, Execute(e)
  PROVE  OnlyStaleNotExecuted'
<1>0. /\ now \in Nat /\ exec[e] \in Exec
      /\ exec[e].pc # "free" => exec[e].job \in DOMAIN jobs \cup DOMAIN gone
  BY DEF TypeOK
<1>1. stale' = stale /\ DOMAIN jobs' = DOMAIN jobs /\ \A f \in Execs : f # e => exec'[f] = exec[f]
  BY ExecuteEffect
<1>2. ASSUME jobs' = jobs,
             exec[e].pc \in {"marked", "start", "running"} =>
               exec'[e].pc \in {"marked", "start", "running"} /\ exec'[e].job = exec[e].job
      PROVE  OnlyStaleNotExecuted'
  BY <1>1, <1>2 DEF OnlyStaleNotExecuted, Executed
<1>3. CASE Acquire(e)
  BY <1>2, <1>3, GotoExec DEF Acquire, store, ExecPCs
<1>4. CASE Save(e)
  <2>1. Goto(e, IF exec[e].pc = "save" THEN "record" ELSE "start") /\ exec[e].pc \in {"save", "marked"}
    BY <1>4 DEF Save
  <2>2. QED
    BY <1>2, <1>4, <2>1, GotoExec DEF Save, ExecPCs
<1>5. CASE Record(e)
  BY <1>2, <1>5 DEF Record
<1>6. CASE Begin(e)
  <2>1. exec'[e].pc = "running" /\ exec'[e].job = exec[e].job
    BY <1>6, GotoExec DEF Begin, ExecPCs
  <2>2. Pointed(e) \in Job
    BY <1>0, <1>6, DerefTyped DEF Begin, Pointed
  <2>3. \A j \in DOMAIN jobs : j # exec[e].job => jobs'[j] = jobs[j]
    BY <1>0, <1>6, <2>2, JobTyped, AssignJob DEF Begin
  <2>4. QED
    BY <1>1, <2>1, <2>3 DEF OnlyStaleNotExecuted, Executed
<1>7. ASSUME NEW status \in {"ok", "error"}, Finish(e, status) PROVE OnlyStaleNotExecuted'
  <2>1. Pointed(e) \in Job
    BY <1>0, <1>7, DerefTyped DEF Finish, Pointed
  <2>. DEFINE done == [Pointed(e) EXCEPT !.status = status, !.next = CalculateNextRun(Pointed(e).sched),
                          !.enabled = @ /\ ~(Pointed(e).sched.kind = "at" /\ Pointed(e).once)]
  <2>2. done \in Job /\ done.status # "running"
    BY <1>0, <2>1, FinishedTyped
  <2>3. Assign(exec[e].job, done) /\ exec[e].pc # "free"
    BY <1>7 DEF Finish
  <2>. HIDE DEF done
  <2>4. \A j \in DOMAIN jobs : jobs'[j] = IF j = exec[e].job THEN done ELSE jobs[j]
    BY <1>0, <2>2, <2>3, AssignJob
  <2>5. QED
    BY <1>1, <2>2, <2>4 DEF OnlyStaleNotExecuted, Executed
<1>8. QED
  BY <1>3, <1>4, <1>5, <1>6, <1>7 DEF Execute

LEMMA NextStale ==
  ASSUME TypeOK, OnlyStaleNotExecuted, Next
  PROVE  OnlyStaleNotExecuted'
<1>. USE DEF OnlyStaleNotExecuted, Executed, store, seen
<1>0. now \in Nat /\ \A j \in DOMAIN jobs : j \in JobIds /\ jobs[j] \in Job
  BY DEF TypeOK, Ids
<1>1. CASE Boot
  <2>1. /\ DOMAIN jobs' = DOMAIN file /\ stale' = {j \in DOMAIN file : file[j].status = "running"}
        /\ jobs' = [j \in DOMAIN file |-> [file[j] EXCEPT !.next = CalculateNextRun(file[j].sched)]]
    BY <1>1 DEF Boot
  <2>2. \A j \in DOMAIN file : file[j] \in Job
    BY DEF TypeOK, Ids
  <2>3. \A j \in DOMAIN file : jobs'[j].status = file[j].status
    BY <2>1, <2>2 DEF Job
  <2>4. QED
    BY <2>1, <2>3
<1>2. CASE Crash
  BY <1>2 DEF Crash
<1>3. CASE ClockTicks
  BY <1>3 DEF ClockTicks
<1>4. CASE Loop
  <2>1. jobs' = jobs /\ stale' = stale
    BY <1>4 DEF Loop, GetDueJobs, SpawnOrSkip, TickEnds
  <2>2. \A e \in Execs : exec[e] # Free => exec'[e] = exec[e]
    BY <1>4 DEF Loop, GetDueJobs, SpawnOrSkip, TickEnds, TypeOK
  <2>3. QED
    BY <2>1, <2>2, FreeTyped
<1>5. ASSUME NEW e \in Execs, Execute(e) PROVE OnlyStaleNotExecuted'
  BY <1>5, ExecuteStale
<1>6. ASSUME NEW j \in JobIds, NEW s \in Schedules, NEW once \in BOOLEAN, AddJob(j, s, once)
      PROVE  OnlyStaleNotExecuted'
  <2>1. /\ DOMAIN jobs' = DOMAIN jobs \cup {j} /\ jobs'[j].status = "new"
        /\ \A i \in DOMAIN jobs : i # j => jobs'[i] = jobs[i]
        /\ UNCHANGED <<exec, stale>>
    BY <1>6 DEF AddJob
  <2>2. QED
    BY <2>1
<1>7. ASSUME NEW j \in JobIds, RemoveJob(j) PROVE OnlyStaleNotExecuted'
  <2>1. /\ DOMAIN jobs' = DOMAIN jobs \ {j} /\ UNCHANGED <<exec, stale>>
        /\ \A i \in DOMAIN jobs' : jobs'[i] = jobs[i]
    BY <1>7 DEF RemoveJob
  <2>2. QED
    BY <2>1
<1>8. ASSUME NEW j \in JobIds, UpdateJob(j) PROVE OnlyStaleNotExecuted'
  <2>1. UNCHANGED <<exec, stale>> /\ DOMAIN jobs' = DOMAIN jobs
    BY <1>8 DEF UpdateJob
  <2>2. \A i \in DOMAIN jobs : jobs'[i].status = jobs[i].status
    BY <1>0, <1>8 DEF UpdateJob, Job
  <2>3. QED
    BY <2>1, <2>2
<1>9. CASE UpdateNext
  <2>1. upd.job \in DOMAIN jobs \cup DOMAIN gone
    BY <1>9 DEF UpdateNext, TypeOK
  <2>2. Deref(upd.job) \in Job
    BY <2>1, DerefTyped
  <2>. DEFINE new == [Deref(upd.job) EXCEPT !.next = CalculateNextRun(Deref(upd.job).sched)]
  <2>3. new \in Job /\ new.status = Deref(upd.job).status
    BY <1>0, <2>2, JobTyped DEF Job
  <2>4. Assign(upd.job, new) /\ UNCHANGED <<exec, stale>>
    BY <1>9 DEF UpdateNext
  <2>5. /\ DOMAIN jobs' = DOMAIN jobs
        /\ \A i \in DOMAIN jobs : jobs'[i].status = jobs[i].status
    <3>. HIDE DEF new
    <3>1. DOMAIN jobs' = DOMAIN jobs /\ \A i \in DOMAIN jobs : jobs'[i] = IF i = upd.job THEN new ELSE jobs[i]
      BY <2>1, <2>3, <2>4, AssignJob
    <3>2. QED
      BY <2>3, <3>1 DEF Deref
  <2>6. QED
    BY <2>4, <2>5
<1>10. CASE UpdateSave
  BY <1>10 DEF UpdateSave
<1>11. ASSUME NEW j \in JobIds, NEW e \in Execs, RunJob(j, e) PROVE OnlyStaleNotExecuted'
  <2>1. /\ exec'[e].pc = "marked" /\ exec'[e].job = j /\ stale' = stale /\ DOMAIN jobs' = DOMAIN jobs
        /\ \A f \in Execs : f # e => exec'[f] = exec[f]
        /\ exec[e].pc = "free"
    BY <1>11, FreeTyped DEF RunJob, TypeOK
  <2>2. \A i \in DOMAIN jobs : i # j => jobs'[i] = jobs[i]
    BY <1>11 DEF RunJob
  <2>3. QED
    BY <2>1, <2>2
<1>12. QED
  BY <1>1, <1>2, <1>3, <1>4, <1>5, <1>6, <1>7, <1>8, <1>9, <1>10, <1>11 DEF Next, Api

-----------------------------------------------------------------------------
(* Counting the starts of one-shot jobs.                                   *)

LEMMA OnlyTimesAt ==
  ASSUME TypeOK, NEW j \in JobIds, OnlyTimes(j), NEW s \in Schedules, Given(j, s)
  PROVE  s.kind = "at" /\ s.t \in Nat /\ s.t > 0
<1>1. planned[j] \in Seq(Schedules) /\ Len(planned[j]) \in DOMAIN planned[j]
  BY DEF TypeOK, Given
<1>2. QED
  BY <1>1, NextRun DEF OnlyTimes, Given, TypeOK

(* What a job is armed with, between what is ahead and one more.           *)
LEMMA ArmedRange ==
  ASSUME NEW job \in Job, now \in Nat
  PROVE  /\ Ahead(job.sched) \in {0, 1} /\ Armed(job) \in Nat
         /\ Ahead(job.sched) <= Armed(job) /\ Armed(job) <= 1 + Ahead(job.sched)
<1>1. job.sched.t \in Nat /\ job.next \in Nat
  BY JobTyped, NextRun
<1>2. QED
  BY <1>1 DEF Ahead, Armed

(* Recalculating leaves what is ahead.                                     *)
LEMMA ArmedNextRun ==
  ASSUME NEW job \in Job, now \in Nat, job.sched.kind = "at", job.next = CalculateNextRun(job.sched)
  PROVE  Armed(job) = Ahead(job.sched)
<1>1. job.sched.t \in Nat /\ job.sched.t > 0 /\ job.next = IF job.sched.t > now THEN job.sched.t ELSE 0
  BY JobTyped, NextRun
<1>2. QED
  BY <1>1 DEF Ahead, Armed

LEMMA LeftRange ==
  ASSUME TypeOK, NEW j \in DOMAIN jobs
  PROVE  Left(j) \in Nat /\ Ahead(jobs[j].sched) \in {0, 1} /\ Ahead(jobs[j].sched) <= Left(j)
<1>1. jobs[j] \in Job /\ now \in Nat
  BY DEF TypeOK, Ids
<1>2. QED
  BY <1>1, ArmedRange DEF Left

(* A step that gives no new time and does not leave more starts.           *)
LEMMA FewerLeft ==
  ASSUME TypeOK, TypeOK', ShotsLeft, up, up', UNCHANGED <<planned, fired>>, DOMAIN jobs' \subseteq DOMAIN jobs,
         \A j \in DOMAIN jobs' : OnlyTimes(j) => Left(j)' <= Left(j)
  PROVE  ShotsLeft'
<1>. SUFFICES ASSUME NEW j \in JobIds, OnlyTimes(j), j \in DOMAIN jobs'
              PROVE  fired[j] + Left(j)' <= Len(planned[j])
  BY DEF ShotsLeft, OnlyTimes
<1>1. Left(j)' <= Left(j) /\ fired[j] + Left(j) <= Len(planned[j])
  BY DEF ShotsLeft
<1>2. fired[j] \in Nat /\ Len(planned[j]) \in Nat
  BY DEF TypeOK
<1>3. Left(j) \in Nat
  BY LeftRange
<1>4. Left(j)' \in Nat
  <2>1. jobs'[j] \in Job /\ now' \in Nat
    BY DEF TypeOK, Ids
  <2>2. (Ahead(jobs[j].sched) \in {0, 1} /\ Armed(jobs[j]) \in Nat)'
    BY <2>1, NextRun, JobTyped DEF Ahead, Armed
  <2>3. QED
    BY <2>2 DEF Left
<1>5. QED
  BY <1>1, <1>2, <1>3, <1>4

LEMMA InitShots == Init => ShotsLeft
<1>. SUFFICES ASSUME Init PROVE ShotsLeft
  OBVIOUS
<1>1. DOMAIN jobs = {} /\ DOMAIN file = {}
  BY DEF Init
<1>2. QED
  BY <1>1 DEF ShotsLeft

(* A job keeps its time, and its next run or gets it recalculated.         *)
LEMMA NotMoreLeft ==
  ASSUME TypeOK, NEW j \in DOMAIN jobs, jobs'[j] \in Job, now' = now, tick'.due = tick.due,
         jobs'[j].sched = jobs[j].sched,
         \/ jobs[j].sched.kind = "at" /\ jobs'[j].next = CalculateNextRun(jobs[j].sched)
         \/ jobs'[j].next = jobs[j].next /\ (Unfinished(j) => Unfinished(j)')
  PROVE  Left(j)' <= Left(j)
<1>0. jobs[j] \in Job /\ now \in Nat
  BY DEF TypeOK, Ids
<1>1. /\ Ahead(jobs[j].sched)' = Ahead(jobs[j].sched)
      /\ Ahead(jobs[j].sched) \in {0, 1} /\ Ahead(jobs[j].sched) <= Armed(jobs[j])
      /\ Armed(jobs[j]) \in Nat
  BY <1>0, ArmedRange DEF Ahead
<1>2. Ahead(jobs[j].sched) <= Left(j) /\ Left(j) \in Nat
  BY LeftRange
<1>3. CASE jobs[j].sched.kind = "at" /\ jobs'[j].next = CalculateNextRun(jobs[j].sched)
  <2>1. Armed(jobs'[j]) = Ahead(jobs[j].sched)
    BY <1>0, <1>3, ArmedNextRun
  <2>2. Armed(jobs[j])' = Armed(jobs'[j])
    BY DEF Armed
  <2>3. QED
    BY <1>1, <1>2, <2>1, <2>2 DEF Left
<1>4. CASE jobs'[j].next = jobs[j].next /\ (Unfinished(j) => Unfinished(j)')
  <2>1. Armed(jobs[j])' = Armed(jobs[j])
    BY <1>4 DEF Armed
  <2>2. QED
    BY <1>1, <1>4, <2>1 DEF Left
<1>5. QED
  BY <1>3, <1>4

(* A job with times only.                                                  *)
LEMMA AtJob ==
  ASSUME TypeOK, LastGiven, NEW j \in DOMAIN jobs, OnlyTimes(j)
  PROVE  j \in JobIds /\ jobs[j] \in Job /\ jobs[j].sched.kind = "at"
<1>1. j \in JobIds /\ jobs[j] \in Job /\ Given(j, jobs[j].sched)
  BY DEF TypeOK, Ids, LastGiven
<1>2. QED
  BY <1>1, OnlyTimesAt, ConstantsOK DEF Job

(* An execution of the tick stays unfinished until it recalculates.        *)
LEMMA ExecuteShots ==
  ASSUME TypeOK, TypeOK', StoreInv, ShotsLeft, NEW e \in Execs, Execute(e)
  PROVE  ShotsLeft'
<1>0. /\ UNCHANGED <<up, now, tick, planned, fired>> /\ up
      /\ DOMAIN jobs' = DOMAIN jobs /\ \A j \in DOMAIN jobs : jobs'[j].sched = jobs[j].sched
      /\ exec[e].job \in DOMAIN jobs \cup DOMAIN gone
      /\ \A f \in Execs : f # e => exec'[f] = exec[f]
  BY ExecuteEffect, FreeTyped DEF StoreInv, DownIsQuiet
<1>1. now \in Nat /\ exec[e] \in Exec
  BY DEF TypeOK
<1>. SUFFICES ASSUME NEW j \in DOMAIN jobs, OnlyTimes(j) PROVE Left(j)' <= Left(j)
  BY <1>0, FewerLeft
<1>2. j \in JobIds /\ jobs[j].sched.kind = "at" /\ jobs'[j] \in Job
  BY <1>0, AtJob DEF StoreInv, TypeOK, Ids
<1>3. ASSUME jobs'[j].next = jobs[j].next,
             exec[e].pc \in {"spawned", "start", "running"} =>
               /\ exec'[e].pc \in {"spawned", "start", "running"}
               /\ exec'[e].job = exec[e].job /\ exec'[e].byTick = exec[e].byTick
      PROVE  Left(j)' <= Left(j)
  <2>1. Unfinished(j) => Unfinished(j)'
    BY <1>0, <1>3 DEF Unfinished
  <2>2. QED
    BY <1>0, <1>2, <1>3, <2>1, NotMoreLeft
<1>4. CASE Acquire(e)
  <2>1. exec'[e].pc = "start" /\ exec'[e].job = exec[e].job /\ exec'[e].byTick = exec[e].byTick
    BY <1>4, GotoExec DEF Acquire, ExecPCs
  <2>2. QED
    BY <1>3, <1>4, <2>1 DEF Acquire, store
<1>5. CASE Save(e) \/ Record(e)
  BY <1>3, <1>5 DEF Save, Record
<1>6. CASE Begin(e)
  <2>1. exec'[e].pc = "running" /\ exec'[e].job = exec[e].job /\ exec'[e].byTick = exec[e].byTick
    BY <1>6, GotoExec DEF Begin, ExecPCs
  <2>2. Pointed(e) \in Job
    BY <1>0, DerefTyped DEF Pointed
  <2>. DEFINE new == [Pointed(e) EXCEPT !.status = "running"]
  <2>3. new \in Job /\ new.next = Pointed(e).next
    BY <1>1, <2>2, JobTyped DEF Job
  <2>4. Assign(exec[e].job, new)
    BY <1>6 DEF Begin
  <2>. HIDE DEF new
  <2>5. jobs'[j] = IF j = exec[e].job THEN new ELSE jobs[j]
    BY <1>0, <2>3, <2>4, AssignJob
  <2>6. jobs'[j].next = jobs[j].next
    BY <2>3, <2>5 DEF Pointed, Deref
  <2>7. QED
    BY <1>3, <2>1, <2>6
<1>7. ASSUME NEW status \in {"ok", "error"}, Finish(e, status) PROVE Left(j)' <= Left(j)
  <2>1. Pointed(e) \in Job
    BY <1>0, DerefTyped DEF Pointed
  <2>. DEFINE done == [Pointed(e) EXCEPT !.status = status, !.next = CalculateNextRun(Pointed(e).sched),
                          !.enabled = @ /\ ~(Pointed(e).sched.kind = "at" /\ Pointed(e).once)]
  <2>2. done \in Job /\ done.next = CalculateNextRun(Pointed(e).sched)
    BY <1>1, <2>1, FinishedTyped
  <2>3. Assign(exec[e].job, done)
    BY <1>7 DEF Finish
  <2>. HIDE DEF done
  <2>4. jobs'[j] = IF j = exec[e].job THEN done ELSE jobs[j]
    BY <1>0, <2>2, <2>3, AssignJob
  <2>5. CASE j = exec[e].job
    <3>1. jobs'[j].next = CalculateNextRun(jobs[j].sched)
      BY <2>2, <2>4, <2>5 DEF Pointed, Deref
    <3>2. QED
      BY <1>0, <1>2, <3>1, NotMoreLeft
  <2>6. CASE j # exec[e].job
    <3>1. Unfinished(j) => Unfinished(j)'
      BY <1>0, <2>6 DEF Unfinished
    <3>2. QED
      BY <1>0, <1>2, <2>4, <2>6, <3>1, NotMoreLeft
  <2>7. QED
    BY <2>5, <2>6
<1>8. QED
  BY <1>4, <1>5, <1>6, <1>7 DEF Execute

LEMMA LoopShots ==
  ASSUME TypeOK, TypeOK', StoreInv, ShotsLeft, Loop
  PROVE  ShotsLeft'
<1>0. UNCHANGED <<up, now, jobs, planned>> /\ up
  BY DEF Loop, GetDueJobs, SpawnOrSkip, TickEnds, store, seen, StoreInv, DownIsQuiet
<1>1. ASSUME NEW j \in DOMAIN jobs
      PROVE  /\ jobs[j] \in Job /\ now \in Nat /\ j \in JobIds
             /\ Ahead(jobs[j].sched)' = Ahead(jobs[j].sched) /\ Armed(jobs[j])' = Armed(jobs[j])
             /\ Ahead(jobs[j].sched) \in {0, 1} /\ Armed(jobs[j]) \in Nat
             /\ Ahead(jobs[j].sched) <= Armed(jobs[j]) /\ Armed(jobs[j]) <= 1 + Ahead(jobs[j].sched)
  BY <1>0, ArmedRange DEF TypeOK, Ids, Ahead, Armed
<1>2. CASE GetDueJobs
  <2>1. /\ tick.due = {} /\ \A j \in JobIds : ~Unfinished(j) /\ ~Unfinished(j)'
        /\ tick'.due = {j \in DOMAIN jobs : IsDue(jobs[j])} /\ fired' = fired
    BY <1>2 DEF GetDueJobs, StoreInv, LoopDistinct, Unfinished, seen
  <2>2. ASSUME NEW j \in DOMAIN jobs PROVE Left(j)' <= Left(j)
    <3>1. Left(j) = Armed(jobs[j])
      BY <1>1, <2>1, <2>2 DEF Left
    <3>2. CASE IsDue(jobs[j])
      <4>1. Left(j)' = 1 + Ahead(jobs[j].sched)
        BY <1>0, <1>1, <2>1, <3>2 DEF Left
      <4>2. 0 < jobs[j].next /\ jobs[j].next <= now /\ jobs[j].next \in Nat /\ jobs[j].sched.t \in Nat
        BY <1>1, <3>2, JobTyped, NextRun DEF IsDue
      <4>3. 1 + Ahead(jobs[j].sched) <= Armed(jobs[j])
        BY <1>1, <4>2 DEF Ahead, Armed
      <4>4. QED
        BY <3>1, <4>1, <4>3
    <3>3. CASE ~IsDue(jobs[j])
      BY <1>1, <2>1, <3>1, <3>3 DEF Left
    <3>4. QED
      BY <3>2, <3>3
  <2>3. QED
    BY <1>0, <2>1, <2>2, FewerLeft
<1>3. CASE TickEnds
  <2>1. tick'.due = tick.due /\ UNCHANGED <<exec, fired>>
    BY <1>3 DEF TickEnds, TypeOK, seen
  <2>2. \A j \in DOMAIN jobs : Left(j)' = Left(j)
    BY <1>0, <1>1, <2>1 DEF Left, Unfinished
  <2>3. \A j \in DOMAIN jobs : Left(j)' <= Left(j)
    BY <2>2, LeftRange
  <2>4. QED
    BY <1>0, <2>1, <2>3, FewerLeft
<1>4. ASSUME NEW j \in JobIds, SpawnOrSkip(j) PROVE ShotsLeft'
  <2>1. j \in tick.due /\ tick'.due = tick.due \ {j}
    BY <1>4 DEF SpawnOrSkip, TypeOK
  <2>2. CASE UNCHANGED <<exec, fired>>
    <3>1. ASSUME NEW i \in DOMAIN jobs PROVE Left(i)' <= Left(i)
      <4>1. Unfinished(i)' = Unfinished(i)
        BY <2>2 DEF Unfinished
      <4>2. QED
        BY <1>1, <2>1, <4>1 DEF Left
    <3>2. QED
      BY <1>0, <2>2, <3>1, FewerLeft
  <2>3. ASSUME NEW e \in Execs, exec[e] = Free,
               exec' = [exec EXCEPT ![e] = [pc |-> "spawned", job |-> j, byTick |-> TRUE]],
               fired' = [fired EXCEPT ![j] = @ + 1]
        PROVE  ShotsLeft'
    <3>1. /\ exec'[e] = [pc |-> "spawned", job |-> j, byTick |-> TRUE]
          /\ \A f \in Execs : f # e => exec'[f] = exec[f]
      BY <2>3 DEF TypeOK
    <3>2. ASSUME NEW i \in DOMAIN jobs, OnlyTimes(i) PROVE fired'[i] + Left(i)' <= Len(planned[i])
      <4>0. /\ fired[i] + Left(i) <= Len(planned[i]) /\ Left(i) \in Nat
            /\ fired[i] \in Nat /\ Len(planned[i]) \in Nat
        <5>1. i \in JobIds /\ Left(i) \in Nat
          BY <1>1, <3>2, LeftRange
        <5>2. fired[i] + Left(i) <= Len(planned[i])
          BY <3>2, <5>1 DEF ShotsLeft
        <5>3. planned[i] \in Seq(Schedules) /\ fired[i] \in Nat
          BY <5>1 DEF TypeOK
        <5>4. QED
          BY <5>1, <5>2, <5>3
      <4>1. CASE i = j
        <5>1. Unfinished(j)'
          BY <3>1 DEF Unfinished
        <5>2. Left(i)' = Ahead(jobs[i].sched) /\ Left(i) = 1 + Ahead(jobs[i].sched)
          BY <1>0, <1>1, <2>1, <4>1, <5>1 DEF Left
        <5>3. fired'[i] = fired[i] + 1
          BY <1>1, <2>3, <4>1 DEF TypeOK
        <5>4. QED
          BY <1>1, <4>0, <5>2, <5>3
      <4>2. CASE i # j
        <5>1. Unfinished(i)' = Unfinished(i)
          BY <2>3, <3>1, <4>2, FreeTyped DEF Unfinished
        <5>2. Left(i)' = Left(i)
          BY <1>1, <2>1, <4>2, <5>1 DEF Left
        <5>3. fired'[i] = fired[i]
          BY <1>1, <2>3, <4>2 DEF TypeOK
        <5>4. QED
          BY <4>0, <5>2, <5>3
      <4>3. QED
        BY <4>1, <4>2
    <3>3. QED
      BY <1>0, <3>2 DEF ShotsLeft, OnlyTimes
  <2>4. QED
    BY <1>4, <2>2, <2>3 DEF SpawnOrSkip
<1>5. QED
  BY <1>2, <1>3, <1>4 DEF Loop

(* A new job was never started and has one time.                           *)
LEMMA AddShots ==
  ASSUME TypeOK, StoreInv, ShotsLeft,
         NEW j \in JobIds, NEW s \in Schedules, NEW once \in BOOLEAN, AddJob(j, s, once)
  PROVE  ShotsLeft'
<1>0. /\ up /\ UNCHANGED <<up, now, tick, exec, fired>> /\ planned[j] = <<>>
      /\ DOMAIN jobs' = DOMAIN jobs \cup {j} /\ \A i \in DOMAIN jobs : i # j => jobs'[i] = jobs[i]
      /\ jobs'[j].sched = s /\ jobs'[j].next = CalculateNextRun(s)
  BY DEF AddJob
<1>1. planned'[j] = <<s>> /\ \A i \in JobIds : i # j => planned'[i] = planned[i]
  BY DEF AddJob, TypeOK
<1>2. SUFFICES ASSUME NEW i \in JobIds, OnlyTimes(i)', i \in DOMAIN jobs'
               PROVE  fired'[i] + Left(i)' <= Len(planned'[i])
  BY <1>0 DEF ShotsLeft
<1>3. CASE i = j
  <2>1. j \notin DOMAIN jobs \cup DOMAIN gone /\ fired[j] = 0
    BY <1>0 DEF StoreInv, LastGiven, Given
  <2>2. j \notin tick.due /\ ~Unfinished(j)
    BY <2>1 DEF TypeOK, Unfinished
  <2>3. s.kind = "at"
    BY <1>1, <1>2, <1>3 DEF OnlyTimes
  <2>4. s.t \in Nat /\ s.t > 0 /\ CalculateNextRun(s) = (IF s.t > now THEN s.t ELSE 0) /\ now \in Nat
    BY <2>3, NextRun DEF TypeOK
  <2>5. Left(j)' = Armed(jobs[j])'
    BY <1>0, <2>2 DEF Left, Unfinished
  <2>6. Armed(jobs[j])' \in {0, 1}
    BY <1>0, <2>4 DEF Armed
  <2>7. QED
    BY SMTT(30), <1>0, <1>1, <1>3, <2>1, <2>5, <2>6
<1>4. CASE i # j
  <2>1. i \in DOMAIN jobs /\ jobs'[i] = jobs[i] /\ planned'[i] = planned[i] /\ OnlyTimes(i)
    BY <1>0, <1>1, <1>2, <1>4 DEF OnlyTimes
  <2>2. Left(i)' = Left(i)
    BY <1>0, <2>1 DEF Left, Unfinished, Ahead, Armed
  <2>3. QED
    BY <1>0, <2>1, <2>2 DEF ShotsLeft
<1>5. QED
  BY <1>3, <1>4

LEMMA RemoveShots ==
  ASSUME TypeOK, TypeOK', StoreInv, ShotsLeft, NEW j \in JobIds, RemoveJob(j)
  PROVE  ShotsLeft'
<1>1. /\ up /\ UNCHANGED <<up, now, tick, exec, fired, planned>>
      /\ DOMAIN jobs' \subseteq DOMAIN jobs /\ \A i \in DOMAIN jobs' : jobs'[i] = jobs[i]
  BY DEF RemoveJob
<1>2. \A i \in DOMAIN jobs' : Left(i)' = Left(i)
  BY <1>1 DEF Left, Unfinished, Ahead, Armed
<1>3. \A i \in DOMAIN jobs' : Left(i)' <= Left(i)
  BY <1>1, <1>2, LeftRange
<1>4. QED
  BY <1>1, <1>3, FewerLeft

(* A new time may leave one start more than the old one.                   *)
LEMMA UpdateShots ==
  ASSUME TypeOK, TypeOK', StoreInv, ShotsLeft, NEW j \in JobIds, UpdateJob(j)
  PROVE  ShotsLeft'
<1>0. up /\ UNCHANGED <<up, now, tick, exec, fired>> /\ j \in DOMAIN jobs
  BY DEF UpdateJob
<1>1. jobs[j] \in Job /\ now \in Nat
  BY <1>0 DEF TypeOK, Ids
<1>2. \A i \in JobIds : Unfinished(i)' = Unfinished(i)
  BY <1>0 DEF Unfinished
<1>3. ASSUME NEW b \in BOOLEAN, jobs' = [jobs EXCEPT ![j].enabled = b], UNCHANGED planned
      PROVE  ShotsLeft'
  <2>0. jobs' = [jobs EXCEPT ![j] = [jobs[j] EXCEPT !.enabled = b]] /\ [jobs[j] EXCEPT !.enabled = b] \in Job
    BY <1>0, <1>1, <1>3, JobTyped
  <2>1. /\ DOMAIN jobs' = DOMAIN jobs
        /\ \A i \in DOMAIN jobs : jobs'[i].sched = jobs[i].sched /\ jobs'[i].next = jobs[i].next
    BY <1>0, <1>1, <2>0, JobChanged DEF Job
  <2>2. ASSUME NEW i \in DOMAIN jobs PROVE Left(i)' <= Left(i)
    <3>1. i \in JobIds /\ jobs'[i] \in Job
      BY <2>1 DEF TypeOK, Ids
    <3>2. QED
      BY <1>0, <1>2, <2>1, <3>1, NotMoreLeft
  <2>3. QED
    BY <1>0, <1>3, <2>1, <2>2, FewerLeft
<1>4. ASSUME NEW s \in Schedules, jobs' = [jobs EXCEPT ![j].sched = s],
             planned' = [planned EXCEPT ![j] = Append(@, s)]
      PROVE  ShotsLeft'
  <2>1. /\ DOMAIN jobs' = DOMAIN jobs /\ jobs'[j].sched = s /\ jobs'[j].next = jobs[j].next
        /\ \A i \in DOMAIN jobs : i # j => jobs'[i] = jobs[i]
    BY <1>0, <1>1, <1>4 DEF Job
  <2>2. /\ planned[j] \in Seq(Schedules) /\ planned'[j] = Append(planned[j], s)
        /\ \A i \in JobIds : i # j => planned'[i] = planned[i]
    BY <1>4 DEF TypeOK
  <2>3. SUFFICES ASSUME NEW i \in JobIds, OnlyTimes(i)', i \in DOMAIN jobs
                 PROVE  fired[i] + Left(i)' <= Len(planned'[i])
    BY <1>0, <2>1 DEF ShotsLeft
  <2>4. CASE i # j
    <3>1. OnlyTimes(i) /\ planned'[i] = planned[i] /\ jobs'[i] = jobs[i]
      BY <2>1, <2>2, <2>3, <2>4 DEF OnlyTimes
    <3>2. Left(i)' = Left(i)
      BY <1>0, <1>2, <3>1 DEF Left, Ahead, Armed
    <3>3. QED
      BY <2>3, <3>1, <3>2 DEF ShotsLeft
  <2>5. CASE i = j
    <3>1. Len(planned'[j]) = Len(planned[j]) + 1 /\ OnlyTimes(j)
      <4>1. \A k \in DOMAIN planned[j] : k \in DOMAIN planned'[j] /\ planned'[j][k] = planned[j][k]
        BY <2>2
      <4>2. QED
        BY <2>2, <2>3, <2>5, <4>1 DEF OnlyTimes
    <3>2. fired[j] + Left(j) <= Len(planned[j]) /\ fired[j] \in Nat /\ Len(planned[j]) \in Nat
      BY <1>0, <3>1 DEF ShotsLeft, TypeOK
    <3>3. /\ jobs[j].sched.t \in Nat /\ jobs[j].next \in Nat /\ s.t \in Nat
          /\ Ahead(jobs[j].sched) \in {0, 1} /\ Armed(jobs[j]) \in Nat
      BY <1>1, JobTyped, NextRun, ArmedRange
    <3>4. (Ahead(jobs[j].sched)' = IF s.t > now THEN 1 ELSE 0) /\ Ahead(jobs[j].sched)' \in {0, 1}
      BY <1>0, <2>1 DEF Ahead
    <3>5. Armed(jobs[j])' \in Nat /\ Armed(jobs[j])' <= 1 + Armed(jobs[j])
      BY <1>0, <1>1, <2>1, <3>3 DEF Armed
    <3>6. Left(j)' \in Nat /\ Left(j) \in Nat /\ Left(j)' <= 1 + Left(j)
      BY <1>0, <1>2, <3>3, <3>4, <3>5 DEF Left
    <3>7. QED
      BY <2>5, <3>1, <3>2, <3>6
  <2>6. QED
    BY <2>4, <2>5
<1>5. QED
  BY <1>3, <1>4 DEF UpdateJob

LEMMA UpdateNextShots ==
  ASSUME TypeOK, TypeOK', StoreInv, ShotsLeft, UpdateNext \/ UpdateSave
  PROVE  ShotsLeft'
<1>0. up /\ UNCHANGED <<up, now, tick, exec, planned, fired>>
  BY DEF UpdateNext, UpdateSave, StoreInv, DownIsQuiet, seen
<1>1. \A i \in JobIds : Unfinished(i)' = Unfinished(i)
  BY <1>0 DEF Unfinished
<1>2. CASE UpdateNext
  <2>1. upd.job \in DOMAIN jobs \cup DOMAIN gone /\ now \in Nat
    BY <1>2 DEF UpdateNext, TypeOK
  <2>2. Deref(upd.job) \in Job
    BY <2>1, DerefTyped
  <2>. DEFINE new == [Deref(upd.job) EXCEPT !.next = CalculateNextRun(Deref(upd.job).sched)]
  <2>3. new \in Job /\ new.sched = Deref(upd.job).sched /\ new.next = CalculateNextRun(Deref(upd.job).sched)
    BY <2>1, <2>2, JobTyped DEF Job
  <2>4. Assign(upd.job, new)
    BY <1>2 DEF UpdateNext
  <2>. HIDE DEF new
  <2>5. /\ DOMAIN jobs' = DOMAIN jobs
        /\ \A i \in DOMAIN jobs : jobs'[i] = IF i = upd.job THEN new ELSE jobs[i]
    BY <2>1, <2>3, <2>4, AssignJob
  <2>6. ASSUME NEW j \in DOMAIN jobs, OnlyTimes(j) PROVE Left(j)' <= Left(j)
    <3>1. j \in JobIds /\ jobs[j].sched.kind = "at" /\ jobs'[j] \in Job
      BY <2>5, <2>6, AtJob DEF StoreInv, TypeOK, Ids
    <3>2. CASE j = upd.job
      <4>1. jobs'[j].sched = jobs[j].sched /\ jobs'[j].next = CalculateNextRun(jobs[j].sched)
        BY <2>3, <2>5, <3>2 DEF Deref
      <4>2. QED
        BY <1>0, <3>1, <4>1, NotMoreLeft
    <3>3. CASE j # upd.job
      BY <1>0, <1>1, <2>5, <3>1, <3>3, NotMoreLeft
    <3>4. QED
      BY <3>2, <3>3
  <2>7. QED
    BY <1>0, <2>5, <2>6, FewerLeft
<1>3. CASE UpdateSave
  <2>1. jobs' = jobs
    BY <1>3 DEF UpdateSave
  <2>2. \A j \in DOMAIN jobs : jobs'[j] \in Job /\ j \in JobIds
    BY <2>1 DEF TypeOK, Ids
  <2>3. \A j \in DOMAIN jobs : Left(j)' <= Left(j)
    BY <1>0, <1>1, <2>1, <2>2, NotMoreLeft
  <2>4. QED
    BY <1>0, <2>1, <2>3, FewerLeft
<1>4. QED
  BY <1>2, <1>3

LEMMA RunShots ==
  ASSUME TypeOK, TypeOK', StoreInv, ShotsLeft, NEW j \in JobIds, NEW e \in Execs, RunJob(j, e)
  PROVE  ShotsLeft'
<1>0. up /\ UNCHANGED <<up, now, tick, planned, fired>>
  BY DEF RunJob, seen
<1>1. /\ DOMAIN jobs' = DOMAIN jobs
      /\ \A i \in DOMAIN jobs : jobs'[i].sched = jobs[i].sched /\ jobs'[i].next = jobs[i].next
  <2>1. j \in DOMAIN jobs /\ jobs[j] \in Job /\ now \in Nat
    BY DEF RunJob, TypeOK, Ids
  <2>2. /\ jobs' = [jobs EXCEPT ![j] = [jobs[j] EXCEPT !.status = "running"]]
        /\ [jobs[j] EXCEPT !.status = "running"] \in Job
    BY <2>1, JobTyped DEF RunJob
  <2>3. QED
    BY <2>1, <2>2, JobChanged DEF Job
<1>2. exec[e] = Free /\ \A f \in Execs : f # e => exec'[f] = exec[f]
  BY DEF RunJob, TypeOK
<1>3. ASSUME NEW i \in DOMAIN jobs PROVE Left(i)' <= Left(i)
  <2>1. i \in JobIds /\ jobs'[i] \in Job
    BY <1>1 DEF TypeOK, Ids
  <2>2. Unfinished(i) => Unfinished(i)'
    BY <1>2, FreeTyped DEF Unfinished
  <2>3. QED
    BY <1>0, <1>1, <2>1, <2>2, NotMoreLeft
<1>4. QED
  BY <1>0, <1>1, <1>3, FewerLeft

(* A restart reads the schedules of the file and recalculates from them.   *)
LEMMA GatewayShots ==
  ASSUME TypeOK, TypeOK', StoreInv, ShotsLeft, Boot \/ Crash \/ ClockTicks
  PROVE  ShotsLeft'
<1>0. UNCHANGED <<planned, fired>> /\ now \in Nat
  BY DEF Boot, Crash, ClockTicks, seen, TypeOK
<1>1. ASSUME NEW j \in JobIds
      PROVE  (OnlyTimes(j)' <=> OnlyTimes(j)) /\ fired[j] \in Nat /\ Len(planned[j]) \in Nat
  BY <1>0 DEF OnlyTimes, TypeOK
<1>2. CASE Boot
  <2>1. /\ ~up /\ up' /\ UNCHANGED <<now, tick, exec>> /\ DOMAIN jobs' = DOMAIN file
        /\ jobs' = [j \in DOMAIN file |-> [file[j] EXCEPT !.next = CalculateNextRun(file[j].sched)]]
    BY <1>2 DEF Boot
  <2>2. ASSUME NEW j \in DOMAIN file, OnlyTimes(j)
        PROVE  Left(j)' = Ahead(file[j].sched)
    <3>1. file[j] \in Job /\ j \in JobIds /\ Given(j, file[j].sched)
      BY DEF TypeOK, Ids, StoreInv, LastGiven
    <3>2. file[j].sched.kind = "at"
      BY <2>2, <3>1, OnlyTimesAt, JobTyped, <1>0
    <3>3. jobs'[j] \in Job /\ jobs'[j].sched = file[j].sched /\ jobs'[j].next = CalculateNextRun(file[j].sched)
      BY <1>0, <2>1, <3>1, JobTyped DEF Job
    <3>4. Armed(jobs'[j]) = Ahead(file[j].sched)
      BY <1>0, <3>2, <3>3, ArmedNextRun
    <3>5. Armed(jobs[j])' = Armed(jobs'[j])
      BY <2>1 DEF Armed
    <3>6. tick.due = {} /\ ~Unfinished(j)
      BY <2>1, FreeTyped DEF StoreInv, DownIsQuiet, Unfinished
    <3>7. j \notin tick'.due /\ ~Unfinished(j)'
      BY <2>1, <3>6 DEF Unfinished
    <3>8. QED
      BY <3>4, <3>5, <3>7 DEF Left
  <2>3. QED
    BY <1>0, <1>1, <2>1, <2>2 DEF ShotsLeft
<1>3. CASE Crash
  <2>1. up /\ ~up' /\ UNCHANGED <<now, file>> /\ DOMAIN jobs' = {}
    BY <1>3 DEF Crash
  <2>2. ASSUME NEW j \in DOMAIN file, OnlyTimes(j), j \in JobIds
        PROVE  fired[j] + Ahead(file[j].sched) <= Len(planned[j])
    <3>1. j \in DOMAIN jobs /\ file[j].sched = jobs[j].sched
      BY <2>1 DEF StoreInv, Durable
    <3>2. /\ fired[j] + Left(j) <= Len(planned[j])
          /\ Left(j) \in Nat /\ Ahead(jobs[j].sched) \in {0, 1} /\ Ahead(jobs[j].sched) <= Left(j)
      BY <2>2, <3>1, LeftRange DEF ShotsLeft
    <3>3. QED
      BY <1>1, <2>2, <3>1, <3>2
  <2>3. ASSUME NEW j \in DOMAIN file PROVE Ahead(file[j].sched)' = Ahead(file[j].sched)
    BY <2>1 DEF Ahead
  <2>4. QED
    BY <1>0, <1>1, <2>1, <2>2, <2>3 DEF ShotsLeft
<1>4. CASE ClockTicks
  <2>1. now' = now + 1 /\ UNCHANGED <<up, jobs, file, tick, exec>>
    BY <1>4 DEF ClockTicks, store
  <2>2. ASSUME NEW s \in Schedules
        PROVE  Ahead(s)' \in {0, 1} /\ Ahead(s) \in {0, 1} /\ Ahead(s)' <= Ahead(s)
    BY <1>0, <2>1, NextRun DEF Ahead
  <2>3. CASE up
    <3>1. ASSUME NEW j \in DOMAIN jobs PROVE Left(j)' <= Left(j)
      <4>1. jobs[j] \in Job /\ jobs[j].sched \in Schedules
        BY <1>0, JobTyped DEF TypeOK, Ids
      <4>2. /\ Ahead(jobs[j].sched)' \in {0, 1} /\ Ahead(jobs[j].sched) \in {0, 1}
            /\ Ahead(jobs[j].sched)' <= Ahead(jobs[j].sched)
        <5>1. (Ahead(jobs[j].sched))' = IF jobs[j].sched.t > now' THEN 1 ELSE 0
          BY <2>1 DEF Ahead
        <5>2. jobs[j].sched.t \in Nat
          BY <4>1, NextRun, <1>0
        <5>3. QED
          BY <1>0, <2>1, <5>1, <5>2 DEF Ahead
      <4>3. /\ Armed(jobs[j])' \in Nat /\ Armed(jobs[j]) \in Nat
            /\ Armed(jobs[j])' <= Armed(jobs[j])
        BY <1>0, <2>1, <4>1, JobTyped, NextRun DEF Armed
      <4>4. Unfinished(j)' = Unfinished(j)
        BY <2>1 DEF Unfinished
      <4>5. QED
        BY <2>1, <4>2, <4>3, <4>4 DEF Left
    <3>2. QED
      BY <1>0, <2>1, <2>3, <3>1, FewerLeft
  <2>4. CASE ~up
    <3>1. DOMAIN jobs = {}
      BY <2>4 DEF StoreInv, DownIsQuiet
    <3>2. ASSUME NEW j \in DOMAIN file, OnlyTimes(j), j \in JobIds
          PROVE  fired[j] + Ahead(file[j].sched)' <= Len(planned[j])
      <4>1. file[j].sched.t \in Nat
        BY <1>0, JobTyped, NextRun DEF TypeOK, Ids
      <4>2. (Ahead(file[j].sched))' = IF file[j].sched.t > now' THEN 1 ELSE 0
        BY <2>1 DEF Ahead
      <4>3. fired[j] + Ahead(file[j].sched) <= Len(planned[j])
        BY <2>4, <3>2 DEF ShotsLeft
      <4>4. QED
        BY <1>0, <1>1, <2>1, <3>2, <4>1, <4>2, <4>3 DEF Ahead
    <3>3. QED
      BY <1>0, <1>1, <2>1, <2>4, <3>1, <3>2 DEF ShotsLeft
  <2>5. QED
    BY <2>3, <2>4
<1>5. QED
  BY <1>2, <1>3, <1>4

LEMMA NextShots ==
  ASSUME TypeOK, TypeOK', StoreInv, ShotsLeft, Next
  PROVE  ShotsLeft'
BY GatewayShots, LoopShots, ExecuteShots, AddShots, RemoveShots, UpdateShots, UpdateNextShots,
   RunShots DEF Next, Api

-----------------------------------------------------------------------------
(* The theorems.                                                           *)

LEMMA Inductive == Spec => []IInv
<1>. USE DEF IInv
<1>1. Init => IInv
  <2>1. Init => OnlyStaleNotExecuted
    BY DEF Init, OnlyStaleNotExecuted
  <2>2. QED
    BY <2>1, InitTypes, InitStore, InitShots
<1>2. IInv /\ [Next]_vars => IInv'
  <2>1. ASSUME IInv, Next PROVE IInv'
    <3>1. TypeOK'
      BY <2>1, NextTypes DEF StoreInv
    <3>2. QED
      BY <2>1, <3>1, NextStore, NextStale, NextShots
  <2>2. ASSUME IInv, UNCHANGED vars PROVE IInv'
    <3>1. TypeOK'
      BY <2>2 DEF vars, TypeOK, Ids
    <3>2. StoreInv'
      BY <2>2 DEF vars, StoreInv, DownIsQuiet, Durable, LoopDistinct, LastGiven, Given
    <3>3. OnlyStaleNotExecuted'
      BY <2>2 DEF vars, OnlyStaleNotExecuted, Executed
    <3>4. ShotsLeft'
      BY <2>2 DEF vars, ShotsLeft, OnlyTimes, Left, Unfinished, Ahead, Armed
    <3>5. QED
      BY <3>1, <3>2, <3>3, <3>4
  <2>3. QED
    BY <2>1, <2>2
<1>3. QED
  BY <1>1, <1>2, PTL DEF Spec

(* Type correctness.                                                       *)
THEOREM TypeCorrect == Spec => []TypeOK
BY Inductive, PTL DEF IInv

(* Whatever executions, updates of removed jobs, manual runs and crashes   *)
(* do, a restart finds the jobs that callers were told are there, with the *)
(* schedules they were last given.                                         *)
THEOREM JobsDurable == Spec => []Durable
<1>1. StoreInv => Durable
  BY DEF StoreInv
<1>2. QED
  BY <1>1, Inductive, PTL DEF IInv

(* The loop starts a job that is only given times no more often than it    *)
(* was given one.                                                          *)
THEOREM StartedOncePerTime == Spec => []OneShotOnce
<1>1. TypeOK /\ ShotsLeft => OneShotOnce
  <2>. SUFFICES ASSUME TypeOK, ShotsLeft, NEW j \in DOMAIN jobs, OnlyTimes(j)
                PROVE  fired[j] <= Len(planned[j])
    BY DEF OneShotOnce, OnlyTimes
  <2>1. j \in JobIds
    BY DEF TypeOK, Ids
  <2>2. fired[j] + Left(j) <= Len(planned[j]) /\ Left(j) \in Nat
    BY <2>1, LeftRange DEF ShotsLeft
  <2>3. fired[j] \in Nat /\ planned[j] \in Seq(Schedules)
    BY <2>1 DEF TypeOK
  <2>4. QED
    BY <2>2, <2>3
<1>2. QED
  BY <1>1, Inductive, PTL DEF IInv

(* Two goroutines that the loop started never execute one job together,    *)
(* although a job is marked running only after its goroutine was started.  *)
THEOREM LoopExcludes == Spec => []LoopNeverOverlaps
<1>1. StoreInv => LoopNeverOverlaps
  BY DEF StoreInv, LoopDistinct, LoopNeverOverlaps, Overlap
<1>2. QED
  BY <1>1, Inductive, PTL DEF IInv

(* The only jobs that stay marked running without an execution are those   *)
(* that a restart found so in the file.                                    *)
THEOREM OnlyStaleStuck == Spec => []OnlyStaleNotExecuted
BY Inductive, PTL DEF IInv
=============================================================================
