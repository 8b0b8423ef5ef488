--------------------------- MODULE CronScheduler ---------------------------
(***************************************************************************)
(* The gateway's cron service: the job store (jobs in memory, a jobs file  *)
(* rewritten whole by every save, the run history), the scheduling loop    *)
(* that starts the due jobs and waits for them, and the HTTP operations    *)
(* that add, update, remove and run jobs meanwhile.                        *)
(*                                                                         *)
(* A critical section of the store's mutex is one step.  The executions    *)
(* hold a pointer to their job, so a removed job lives on in them.         *)
(* Schedules are of the kinds "at" and "every", in abstract time units.    *)
(***************************************************************************)
EXTENDS Naturals, FiniteSets, Sequences

CONSTANTS
  JobIds,         \* generated job ids, each used once
  Schedules,      \* the schedules jobs are created with and moved to
  Execs,          \* bound: goroutines running executeJob at one time
  MaxConcurrent,  \* the semaphore of a tick (4)
  KeepRuns,       \* history entries kept per job (100)
  MaxTime,        \* bound: the clock
  MaxManual,      \* bound: RunJob calls
  MaxUpdates,     \* bound: UpdateJob calls
  MaxCrashes,     \* bound: crashes of the gateway
  NoJob

ASSUME ConstantsOK ==
  /\ Schedules \subseteq [kind : {"at", "every"}, t : Nat \ {0}]
  /\ {MaxConcurrent, KeepRuns} \subseteq Nat \ {0}
  /\ {MaxTime, MaxManual, MaxUpdates, MaxCrashes} \subseteq Nat
  /\ NoJob \notin JobIds

VARIABLES
  up,       \* is the gateway running?
  now,      \* the clock
  jobs,     \* JobStore.jobs
  gone,     \* jobs removed from the map that an execution still points to
  file,     \* the jobs file
  runs,     \* entries in the run history (persisted by every AddRun)
  tick,     \* the scheduling loop: its step and the due jobs not looked at yet
  exec,     \* the goroutines of executeJob
  upd,      \* the UpdateJob call in progress
  \* observations, not in the code:
  acked,    \* jobs added and not removed, as the callers know it
  planned,  \* per job, the schedules it was given
  fired,    \* per job, how often the loop started it
  stale,    \* jobs that the last restart found with the status "running"
  manual, updates, crashes

vars == <<up, now, jobs, gone, file, runs, tick, exec, upd, acked, planned, fired,
          stale, manual, updates, crashes>>
store == <<jobs, gone, file, runs>>
seen == <<acked, planned, fired, stale>>
bounds == <<manual, updates, crashes>>

Job == [sched : Schedules, once : BOOLEAN, enabled : BOOLEAN, next : Nat,
        status : {"new", "running", "ok", "error"}]

(* "spawned": waiting for the semaphore; "marked": RunJob has marked the   *)
(* job and will save; "start": about to enter executeJob.                  *)
Exec == [pc : {"free", "spawned", "marked", "start", "running", "save", "record"},
         job : JobIds \cup {NoJob}, byTick : BOOLEAN]

Free == [pc |-> "free", job |-> NoJob, byTick |-> FALSE]

Init ==
  /\ up = FALSE /\ now = 1
  /\ jobs = <<>> /\ gone = <<>> /\ file = <<>>
  /\ runs = [j \in JobIds |-> 0]
  /\ tick = [pc |-> "idle", due |-> {}]
  /\ exec = [e \in Execs |-> Free]
  /\ upd = [pc |-> "idle", job |-> NoJob]
  /\ acked = {} /\ planned = [j \in JobIds |-> <<>>] /\ fired = [j \in JobIds |-> 0]
  /\ stale = {} /\ manual = 0 /\ updates = 0 /\ crashes = 0

-----------------------------------------------------------------------------
(* The job store.                                                          *)

(* Mutant: the loop that looks for times in the past is missing.           *)
CalculateNextRunPast(s) ==
  CASE s.kind = "at"    -> s.t
    [] s.kind = "every" -> now + s.t

(* CalculateNextRun: an "at" in the past never runs.                       *)
CalculateNextRun(s) ==
  CASE s.kind = "at"    -> IF s.t > now THEN s.t ELSE 0
    [] s.kind = "every" -> now + s.t

(* The job behind a pointer, in the map or no longer.                      *)
Deref(j) == IF j \in DOMAIN jobs THEN jobs[j] ELSE gone[j]

(* An assignment through a pointer.                                        *)
Assign(j, job) ==
  IF j \in DOMAIN jobs THEN jobs' = [jobs EXCEPT ![j] = job] /\ UNCHANGED gone
                       ELSE gone' = [gone EXCEPT ![j] = job] /\ UNCHANGED jobs

Pointed(e) == Deref(exec[e].job)

Goto(e, pc) == exec' = [exec EXCEPT ![e].pc = pc]

IsDue(job) == job.enabled /\ job.next > 0 /\ job.next <= now

-----------------------------------------------------------------------------
(* NewJobStore reads the files, Start recalculates every next run and      *)
(* saves.  The HTTP server listens only after that.                        *)
Boot ==
  /\ ~up
  /\ up' = TRUE
  /\ jobs' = [j \in DOMAIN file |-> [file[j] EXCEPT !.next = CalculateNextRun(file[j].sched)]]
  /\ file' = jobs'
  /\ stale' = {j \in DOMAIN file : file[j].status = "running"}
  /\ UNCHANGED <<now, gone, runs, tick, exec, upd, acked, planned, fired, bounds>>

Crash ==
  /\ up /\ crashes < MaxCrashes
  /\ up' = FALSE /\ crashes' = crashes + 1
  /\ jobs' = <<>> /\ gone' = <<>>
  /\ tick' = [pc |-> "idle", due |-> {}]
  /\ exec' = [e \in Execs |-> Free]
  /\ upd' = [pc |-> "idle", job |-> NoJob]
  /\ UNCHANGED <<now, file, runs, seen, manual, updates>>

ClockTicks ==
  /\ now < MaxTime /\ now' = now + 1
  /\ UNCHANGED <<up, store, tick, exec, upd, seen, bounds>>

-----------------------------------------------------------------------------
(* The scheduling loop.                                                    *)

(* GetDueJobs, under the read lock.                                        *)
GetDueJobs ==
  /\ up /\ tick.pc = "idle"
  /\ \E j \in DOMAIN jobs : IsDue(jobs[j])
  /\ tick' = [pc |-> "spawn", due |-> {j \in DOMAIN jobs : IsDue(jobs[j])}]
  /\ UNCHANGED <<up, now, store, exec, upd, seen, bounds>>

(* The status is read without the lock, on a job that may have changed or  *)
(* gone since it was found due.                                            *)
SpawnOrSkip(j) ==
  /\ j \in tick.due
  /\ tick' = [tick EXCEPT !.due = @ \ {j}]
  /\ IF Deref(j).status = "running" THEN UNCHANGED <<exec, fired>>
     ELSE \E e \in Execs :
            /\ exec[e] = Free
            /\ exec' = [exec EXCEPT ![e] = [pc |-> "spawned", job |-> j, byTick |-> TRUE]]
            /\ fired' = [fired EXCEPT ![j] = @ + 1]
  /\ UNCHANGED <<up, now, store, upd, acked, planned, stale, bounds>>

(* Mutant: the tick does not wait for its goroutines.                      *)
TickEndsEarly ==
  /\ tick.pc = "spawn" /\ tick.due = {}
  /\ tick' = [tick EXCEPT !.pc = "idle"]
  /\ UNCHANGED <<up, now, store, exec, upd, seen, bounds>>

(* wg.Wait                                                                 *)
TickEnds ==
  /\ tick.pc = "spawn" /\ tick.due = {}
  /\ \A e \in Execs : ~exec[e].byTick
  /\ tick' = [tick EXCEPT !.pc = "idle"]
  /\ UNCHANGED <<up, now, store, exec, upd, seen, bounds>>

-----------------------------------------------------------------------------
(* executeJob                                                              *)

Acquire(e) ==
  /\ exec[e].pc = "spawned"
  /\ Cardinality({f \in Execs : exec[f].byTick /\ exec[f].pc # "spawned"}) < MaxConcurrent
  /\ Goto(e, "start")
  /\ UNCHANGED <<up, now, store, tick, upd, seen, bounds>>

(* The job is marked running without looking at its status again.          *)
Begin(e) ==
  /\ exec[e].pc = "start"
  /\ Assign(exec[e].job, [Pointed(e) EXCEPT !.status = "running"])
  /\ Goto(e, "running")
  /\ UNCHANGED <<up, now, file, runs, tick, upd, seen, bounds>>

(* Mutant: an error leaves the status as it is.                            *)
FinishKeepsStatus(e, status) ==
  /\ exec[e].pc = "running"
  /\ LET j == Pointed(e) IN
     Assign(exec[e].job,
            [j EXCEPT !.status = IF status = "error" THEN @ ELSE status,
                      !.next = CalculateNextRun(j.sched),
                      !.enabled = @ /\ ~(j.sched.kind = "at" /\ j.once)])
  /\ Goto(e, "save")
  /\ UNCHANGED <<up, now, file, runs, tick, upd, seen, bounds>>

(* The callbacks have returned: the result is recorded in the job, the     *)
(* next run calculated, and a one-shot job disabled.                       *)
Finish(e, status) ==
  /\ exec[e].pc = "running"
  /\ LET j == Pointed(e) IN
     Assign(exec[e].job,
            [j EXCEPT !.status = status, !.next = CalculateNextRun(j.sched),
                      !.enabled = @ /\ ~(j.sched.kind = "at" /\ j.once)])
  /\ Goto(e, "save")
  /\ UNCHANGED <<up, now, file, runs, tick, upd, seen, bounds>>

Save(e) ==
  /\ exec[e].pc \in {"save", "marked"}
  /\ file' = jobs
  /\ Goto(e, IF exec[e].pc = "save" THEN "record" ELSE "start")
  /\ UNCHANGED <<up, now, jobs, gone, runs, tick, upd, seen, bounds>>

(* Mutant: the history is not cut.                                         *)
RecordAll(e) ==
  /\ exec[e].pc = "record"
  /\ runs' = [runs EXCEPT ![exec[e].job] = @ + 1]
  /\ exec' = [exec EXCEPT ![e] = Free]
  /\ UNCHANGED <<up, now, jobs, gone, file, tick, upd, seen, bounds>>

(* AddRun, of a removed job as well; the goroutine ends.                   *)
Record(e) ==
  /\ exec[e].pc = "record"
  /\ runs' = [runs EXCEPT ![exec[e].job] = IF @ < KeepRuns THEN @ + 1 ELSE @]
  /\ exec' = [exec EXCEPT ![e] = Free]
  /\ UNCHANGED <<up, now, jobs, gone, file, tick, upd, seen, bounds>>

-----------------------------------------------------------------------------
(* The HTTP operations.                                                    *)

AddJob(j, s, once) ==
  /\ up /\ planned[j] = <<>>
  /\ jobs' = [i \in DOMAIN jobs \cup {j} |->
                IF i = j THEN [sched |-> s, once |-> once, enabled |-> TRUE,
                               next |-> CalculateNextRun(s), status |-> "new"]
                         ELSE jobs[i]]
  /\ file' = jobs'
  /\ acked' = acked \cup {j} /\ planned' = [planned EXCEPT ![j] = <<s>>]
  /\ UNCHANGED <<up, now, gone, runs, tick, exec, upd, fired, stale, bounds>>

(* Mutant: the job is taken from the map without a save.                   *)
RemoveJobUnsaved(j) ==
  /\ up /\ j \in DOMAIN jobs
  /\ jobs' = [i \in DOMAIN jobs \ {j} |-> jobs[i]]
  /\ gone' = [i \in DOMAIN gone \cup {j} |-> IF i = j THEN jobs[j] ELSE gone[i]]
  /\ acked' = acked \ {j}
  /\ UNCHANGED <<up, now, file, runs, tick, exec, upd, planned, fired, stale, bounds>>

RemoveJob(j) ==
  /\ up /\ j \in DOMAIN jobs
  /\ jobs' = [i \in DOMAIN jobs \ {j} |-> jobs[i]]
  /\ gone' = [i \in DOMAIN gone \cup {j} |-> IF i = j THEN jobs[j] ELSE gone[i]]
  /\ file' = jobs'
  /\ acked' = acked \ {j}
  /\ UNCHANGED <<up, now, runs, tick, exec, upd, planned, fired, stale, bounds>>

(* JobStore.Update: the patch is applied and saved under the lock, ...     *)
UpdateJob(j) ==
  /\ up /\ j \in DOMAIN jobs /\ upd.pc = "idle" /\ updates < MaxUpdates
  /\ updates' = updates + 1
  /\ \/ \E b \in BOOLEAN : jobs' = [jobs EXCEPT ![j].enabled = b] /\ UNCHANGED planned
     \/ \E s \in Schedules : /\ jobs' = [jobs EXCEPT ![j].sched = s]
                             /\ planned' = [planned EXCEPT ![j] = Append(@, s)]
  /\ file' = jobs'
  /\ upd' = [pc |-> "next", job |-> j]
  /\ UNCHANGED <<up, now, gone, runs, tick, exec, acked, fired, stale, manual, crashes>>

(* ... the next run is assigned without it, ...                            *)
UpdateNext ==
  /\ upd.pc = "next"
  /\ LET j == Deref(upd.job) IN Assign(upd.job, [j EXCEPT !.next = CalculateNextRun(j.sched)])
  /\ upd' = [upd EXCEPT !.pc = "save"]
  /\ UNCHANGED <<up, now, file, runs, tick, exec, seen, bounds>>

(* ... and the store saved once more.                                      *)
UpdateSave ==
  /\ upd.pc = "save"
  /\ file' = jobs
  /\ upd' = [pc |-> "idle", job |-> NoJob]
  /\ UNCHANGED <<up, now, jobs, gone, runs, tick, exec, seen, bounds>>

(* RunJob: the check and the mark are one critical section.                *)
RunJob(j, e) ==
  /\ up /\ manual < MaxManual
  /\ j \in DOMAIN jobs /\ jobs[j].status # "running" /\ exec[e] = Free
  /\ jobs' = [jobs EXCEPT ![j].status = "running"]
  /\ exec' = [exec EXCEPT ![e] = [pc |-> "marked", job |-> j, byTick |-> FALSE]]
  /\ manual' = manual + 1
  /\ UNCHANGED <<up, now, gone, file, runs, tick, upd, seen, updates, crashes>>

-----------------------------------------------------------------------------
Loop == GetDueJobs \/ (\E j \in JobIds : SpawnOrSkip(j)) \/ TickEnds

Execute(e) ==
  Acquire(e) \/ Begin(e) \/ Finish(e, "ok") \/ Finish(e, "error") \/ Save(e) \/ Record(e)

Api ==
  \/ \E j \in JobIds, s \in Schedules, once \in BOOLEAN : AddJob(j, s, once)
  \/ \E j \in JobIds : RemoveJob(j) \/ UpdateJob(j) \/ \E e \in Execs : RunJob(j, e)
  \/ UpdateNext \/ UpdateSave

Next == Boot \/ Crash \/ ClockTicks \/ Loop \/ (\E e \in Execs : Execute(e)) \/ Api

Spec == Init /\ [][Next]_vars

(* The loop's ticker fires every second, goroutines run, the callbacks     *)
(* return (their HTTP and RPC clients have timeouts), UpdateJob completes. *)
FairSpec ==
  /\ Spec
  /\ WF_vars(Boot) /\ WF_vars(Loop) /\ WF_vars(UpdateNext) /\ WF_vars(UpdateSave)
  /\ \A e \in Execs : WF_vars(Execute(e))

-----------------------------------------------------------------------------
(* Properties.                                                             *)

Ids(f) == DOMAIN f \subseteq JobIds /\ f \in [DOMAIN f -> Job]

TypeOK ==
  /\ up \in BOOLEAN /\ now \in Nat
  /\ Ids(jobs) /\ Ids(gone) /\ Ids(file)
  /\ runs \in [JobIds -> 0..KeepRuns]
  /\ tick \in [pc : {"idle", "spawn"}, due : SUBSET (DOMAIN jobs \cup DOMAIN gone)]
  /\ exec \in [Execs -> Exec]
  /\ \A e \in Execs : exec[e].pc # "free" => exec[e].job \in DOMAIN jobs \cup DOMAIN gone
  /\ upd \in [pc : {"idle", "next", "save"}, job : JobIds \cup {NoJob}]
  /\ upd.pc # "idle" => upd.job \in DOMAIN jobs \cup DOMAIN gone
  /\ acked \subseteq JobIds
  /\ planned \in [JobIds -> Seq(Schedules)] /\ fired \in [JobIds -> Nat]
  /\ stale \subseteq JobIds
  /\ {manual, updates, crashes} \subseteq Nat

(* What a caller was told is what a restart finds: the file holds exactly  *)
(* the jobs added and not removed, with the schedule last given to them,   *)
(* whatever executions and updates of removed jobs are still under way.    *)
Durable ==
  /\ DOMAIN file = acked
  /\ up => DOMAIN jobs = acked /\ \A j \in acked : file[j].sched = jobs[j].sched

(* The loop starts a job that was only ever given times at most once for   *)
(* each of them, over manual runs, updates and restarts.                   *)
OneShotOnce ==
  \A j \in DOMAIN jobs :
    (\A i \in DOMAIN planned[j] : planned[j][i].kind = "at") => fired[j] <= Len(planned[j])

Overlap(e, f) ==
  e # f /\ exec[e].pc = "running" /\ exec[f].pc = "running" /\ exec[e].job = exec[f].job

(* A job is executed by one goroutine at a time.                           *)
OneAtATime == \A e, f \in Execs : ~Overlap(e, f)

(* The loop keeps this between its own goroutines, although it marks a job *)
(* running only some time after it has decided to start it.                *)
LoopNeverOverlaps == \A e, f \in Execs : exec[e].byTick /\ exec[f].byTick => ~Overlap(e, f)

Executed(j) == \E e \in Execs : exec[e].job = j /\ exec[e].pc \in {"marked", "start", "running"}

(* A job whose status is "running", which the loop skips and RunJob        *)
(* refuses, is being executed, ...                                         *)
RunningIsExecuted == \A j \in DOMAIN jobs : jobs[j].status = "running" => Executed(j)

(* ... unless it was so when the gateway started.                          *)
OnlyStaleNotExecuted ==
  \A j \in DOMAIN jobs : jobs[j].status = "running" => Executed(j) \/ j \in stale

Due(j) == j \in DOMAIN jobs /\ IsDue(jobs[j])

(* Every other due job is dealt with: it runs, or is disabled, moved or    *)
(* removed.                                                                *)
DueJobsRun == \A j \in JobIds : Due(j) ~> (~Due(j) \/ j \in stale)
=============================================================================
