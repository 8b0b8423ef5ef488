# TLA+ models of OCG

This directory holds TLA+ specifications of the parts of OCG whose
correctness depends on the order in which things happen, the TLC
configurations that model-check them, and machine-checked proofs of some of
their properties. Everything is translated from the Go code; paths below are
relative to the root of the repository.

How to run, inside this directory:

    tlc -workers 2 -config ConversationStore_safety.cfg MCConversationStore.tla
    tlapm Gateway_proofs.tla

`PROJECT.json` lists the components, the runs, the hazards and the properties
that cover them, the theorems, a mutant for every property (a plausible bug
the property must find), and for every definition the lines it models.

Liveness, ENABLED and whatever needs induction over data stay with TLC;
recursion is written with folds, and no module declares a RECURSIVE operator.

## 1. The system

OCG is four programs that share a SQLite database, a configuration directory
and a few ports on one machine:

    ocg (CLI) --starts, pid files--> embedding server   (vectors over HTTP)
                                     agent              (gRPC server)
                                     gateway            (HTTP, WebSocket, channels, cron)
    browser / CLI / chat network --HTTP, WS, polling--> gateway --gRPC--> agent --HTTP, WS--> LLM
                                                                     agent --SQL--> database

### 1.1 Inventory

For each component: where it lives, the state it keeps, its operations, what is
hard about it, and what makes it correct.

**Conversation history** - `agent/agent_compact.go`, `agent/agent_session.go`,
`agent/pulse.go`, `storage/storage.go`.
State: the tables `messages`, `messages_archive`, `session_meta`; the mutex
`compactMu`. Operations: appending a message at the end of a chat turn;
`maybeCompact` (a goroutine spawned by every turn), `/compact`, `/reset`, and the
idle reset of the pulse loop. Hard: each operation is five to eight SQL
statements without a transaction, most errors are discarded, only one of the four
takes the mutex, and the process may die between any two statements. Correct
when: a message deleted from the session is in the archive or put back, the
watermark that lets later archivings skip rows never covers a row that was not
archived, a message is archived once, and compaction is never locked out.

**Live sessions** - `agent/realtime_manager.go`, `agent/agent_chat.go`,
`pkg/llm/providers/google/realtime/provider.go`.
State: one cached connection and one mutex per session key, both maps under
`realtimeMu`; the callbacks installed in the connection; `provider_type` in
`session_meta`. Operations: a live turn, the connection's receive loop, the
one-minute janitor, streamed recordings, the fallback to the HTTP chat. Hard: two mutexes taken inside
each other, callbacks run by another goroutine, look-up, connect and cache in
three critical sections, replies that arrive in pieces and go on after their turn has ended.
Correct when: one open connection per session, an answer is the reply to its question and at
most what an ended turn or a recording left over, every request returns, idle connections are closed.

**Cron service** - `cron/cron.go`, `gateway/gateway.go`.
State: the job map under a read-write mutex, the jobs file (rewritten whole and
renamed), the run history, pointers to jobs in running goroutines. Operations:
add, update, remove, run now; a loop that every second starts the due jobs, at
most four at once, and waits for all of them. Hard: the loop looks at jobs outside
the mutex, `RunJob` and the loop start the same job, updates assign to a job that
is running, crashes between execution and save. Correct when: what callers were
told survives a restart, one-shot jobs run once, a job does not overlap itself,
due jobs run.

**WebSocket chat of the gateway** - `gateway/websocket.go`.
State: an atomic connection counter, a map of counters per address under `g.mu`;
per connection a write mutex, a ping goroutine and one goroutine per chat, each with
the pieces of its answer. Operations: admission, the read loop, pings, streamed
answers, and every way for a connection to end. Hard: counters changed in two
steps, four ways out; a write's 5 s begin before the mutex is taken, so single
frames fail on a connection that goes on. Correct when: each counter stands for the requests
it should (one entry, that of the empty address, does not), limits hold, an answer shown as done is the answer whose pieces were shown, and a connection
whose peer has vanished is given up by all its goroutines.

**HTTP rate limits** - `storage/storage.go` (`CheckRateLimit`),
`gateway/gateway.go` (`rateLimit`). State: the table `rate_limits`, also changed by
the `ocg ratelimit` command in a process of its own. Hard: reading the row and
resetting or counting it are separate statements. Correct when: a window allows no
more than `max_requests` and the request that began it.

**Telegram long polling** - `gateway/channels/telegram/channel.go`. State: the
update offset (memory only), a queue of 100, eight workers. Hard: the offset is
confirmed before an update is processed, a full queue drops, workers reorder, a
restart begins at offset 0. Correct when: an update is answered at most once per life
of the gateway, and what is lost was turned away by a full queue or by a restart.

**Background processes** - `processtool/process.go`. State: a map of processes
under a mutex, per process an output buffer, a status and a retry count.
Operations: start, kill, restart, autostart, a monitor that restarts what exited, a
cleanup that forgets it. Hard: all of them look a session up under the lock, go on
without it and take it again. Correct when: a killed process stays dead, a session
owns one process, restarts are bounded, and after a crash as many are tried as are allowed.

**Process manager** - `cmd/ocg/main.go` (`start`, `stop`, `restart`). State: one pid
file per service, the processes themselves. Hard: processes and files outlive the
command, which may be interrupted between the two; process numbers are used again.
Correct when: every service process can be found by its pid file.

**Vector memory** - `memory/vector_store.go`. State: a table, a full-text table, an
HNSW index whose labels are insertion positions, a list that maps positions to ids, a
saved index. Operations: store, update, delete, rebuild, close and reopen. Hard: the
four are changed by separate steps, failures of the full-text table are passed over, and a
rebuild begins with the saved file. Correct when: a label leads to the memory whose vector it
is, and a failure harms no memory but its own.

**Tool-loop detector** - `agent/tool_loop_detection.go`. One window of recent calls and
one count of calls in a row, shared by all chats. Hard: the check and the records of a
batch are separate critical sections, and the count does not age. Correct when: a tool is
not called in a row much more often than the limit says, and calls are let through again.

**User tasks and pulse events** - `agent/task_split.go`, `agent/pulse.go`,
`storage/storage.go`. State: tables of tasks, subtasks and events with a status
each. Operations: create, claim, complete, fail, retry, clean up. Hard: claims are
a read and a write. Correct when: no two workers own one item and none stays
claimed for ever.

**Cron expressions** - `cron/cron.go` (`parseCronExpression` and below). A search for the
next matching minute, bounded in minutes, with a short cut over months. Correct when: it
ends, and with the first match.

**Agent chat loop** - `agent/agent_chat.go`, `agent/agent_stream.go`, `agent/agent_tools.go`.
A loop of model calls and tool calls in two variants: `chatInternal`, for a request that
waits, and `chatStreamInternal`; state: the round and the answer of each chat. Hard: two
functions that hand over to each other, with different limits and different rules for what is stored.
Correct when: a chat returns, and its turn is stored once.

**The rest** - in-memory sessions (`agent/session.go`, used by tests only), LLM
providers (`pkg/llm`), LLM health and failover (`pkg/llmhealth`, reached from CLI
commands only), embedding server
(`cmd/embedding-server`, `pkg/binddb`), key-value store (`pkg/kv`), HTTP server, authentication and
configuration reload (`gateway/gateway.go`, `pkg/config`), webhooks and hooks
(`gateway/webhook.go`, `pkg/hooks`), the other eighteen channels
(`gateway/channels`), file, shell, web and browser tools (`tools/`), plugins and
skills (`tools/plugins`, `pkg/skills`), RPC (`agent/grpc_service.go`, `rpcproto`).
Section 5 and `PROJECT.json` say of each why it is not modelled.

### 1.2 How the components meet

- The gateway calls the agent by gRPC for every chat, command and cron job; each
  call is a goroutine in the agent, so requests of one session run concurrently.
- A chat turn ends by storing its messages and spawning `maybeCompact`: appends
  and compactions of one session overlap (ConversationStore).
- A live turn writes `session_meta` as well: its insert leaves `last_summary`
  NULL, which makes the row unreadable for compaction and for routing. Both
  ConversationStore and RealtimeSessions carry this state (`"unreadable"`).
- The live path's fallback calls the HTTP chat function, which may route back to
  the live path (RealtimeSessions).
- Cron jobs and HTTP handlers share the job store (CronScheduler), whose next run of a job
  of kind `cron` is computed by the search of CronExpr, under the store's mutex.
- `chatStreamInternal` hands a turn over to `chatInternal`; all chats share one
  detector (AgentChat). What a stored turn then does to the history is ConversationStore.
- A WebSocket connection is admitted (WebSocketConns) and then served (WebSocketStream);
  the counters are touched by nothing in between.
- The remaining components share no state with each other and are checked side by side
  (`MCServices`).

## 2. Modules

| module | models | state |
| --- | --- | --- |
| `ConversationStore` | the history tables and the operations that rewrite them | `rows`, `archive`, `meta`, `nextId`; `compactMu`; `op[p]`, the statement each goroutine is about to issue |
| `RealtimeSessions` | live turns, connections, janitor, fallback | `req[r]`, `realtimeMu`, `sessMu`, `cached`, `idle`, `conns`, `meta`; `late`, `streamed` |
| `CronScheduler` | job store, file, loop, executions, API | `jobs`, `gone`, `file`, `runs`, `tick`, `exec`, `upd` |
| `CronExpr` | the search for the next match of a cron expression | `expr`, `now`, `next`, `iterations`, `at` |
| `AgentChat` | chats that call tools, and the tool-loop detector | `chat[c]`, `waiting`; `calls`, `lastTool`, `consecutive` |
| `WebSocketConns` | admission of connections | `pc`, `ip`, `wsConnCount`, `wsIPConns`; `unnamed` |
| `WebSocketStream` | one open connection | `link`, `room`, `writeMu`, `wsAt`, `frame`, `built`, `shown` |
| `RateLimit` | one row of `rate_limits` | `quota`, `clock`, `checker` |
| `TelegramPolling` | polling loop, queue, workers | `arrived`, `forgotten`, `offset`, `batch`, `msgCh`, `serving` |
| `UpdateIntake` | abstract: what a channel does with updates | `waiting`, `working`, `over` |
| `ProcessTool` | background processes, monitor, cleanup | `processes`, `proc`, `os`, `monitor`, `toDelete`, `caller` |
| `ServiceManager` | `ocg start`, `stop`, `restart` | `running`, `child`, `pidFile`, `cmd` |
| `VectorMemory` | vector memories and their index | `rows`, `fts`, `index`, `hnswIDs`, `indexFile`, `storer`, `rebuild` |
| `Subsequences` | `Kept`, the elements of a sequence at some of its places, as Go code filters a slice (the detector's window, the ids left after a deletion, the values of a cron field) | |
| `MC...` | instances for TLC: symmetry sets and the values a `.cfg` cannot write; `MCServices` puts components without shared state side by side | |
| `..._proofs` | theorems and proofs: `ConversationStore`, `RealtimeSessions`, `CronScheduler` and `CronExpr` each in one module, `Gateway_proofs` for RateLimit, TelegramPolling and both WebSocket modules, `Processes_proofs` for ProcessTool and ServiceManager, `Agent_proofs` for AgentChat and VectorMemory (and lemmas about `Subsequences`), `Services_proofs` for the types of everything `MCServices` puts side by side | |

Definitions called *mutant* in a comment are not part of any specification: each
is the form an action or operator would have with a plausible bug in it.
Variables called *observations* are not in the code: they record what happened so
that a property can speak of it, and no guard reads them, except those of
counters that bound a run.

### 2.1 ConversationStore

One step is one SQL statement. `After` gives the order of the statements of each of
the four operations, as the code issues them:

    maybeCompact     GetSessionMeta, GetMessages, UpsertSessionMeta (tokens),
                     ArchiveMessages, UpsertSessionMeta, ClearMessages,
                     AddMessage for each kept row, AddMessage (summary)
    runCompact       GetMessages, GetSessionMeta, ArchiveMessages, ClearMessages,
                     AddMessage (summary), UpsertSessionMeta
    runResetSession  GetMessages, ArchiveMessages, ClearMessages,
                     AddMessage (marker), GetSessionMeta, UpsertSessionMeta
    ResetSession     ClearMessages, UPDATE session_meta

The actions `Read`, `ReadMeta`, `Archive`, `Clear` and so on are these statements
with the early returns that follow them; `seen`, `snap` and `keep` are the local
variables `meta.LastCompactedMessageID`, `stored` and `keep`. `SqlError` is any of
the statements failing, with what the code then does (mostly: go on). `Crash` loses
everything but the tables. Abstracted: texts (a row is an id and the number of the
chat message it holds), and token counts (whether the threshold is reached, and
whether `/compact` gets an empty summary, is a choice). The row number is
AUTOINCREMENT and never reused; `created_at` orders rows as ids do.

### 2.2 RealtimeSessions

A turn goes through `lockMu`, `lockSess`, `lookup`, `connect`, `cache`, `attach`, `send`,
`touch`, `wait`, `touchEnd`, `return`; each is one critical section or one call that
other goroutines may overtake. `LockMu` and `LockSession` are one Go function, in
two steps because the second waits while holding the first's mutex. A connection
is `open`, `failing` (its receive loop has reported an error and not yet cleared
`connected`) or `closed`; `due` are the replies the model has not finished. A reply arrives in any
number of pieces (`Receive`, each a call of `OnText`) until `ReplyEnds`. A turn that has some text may
end at any time (`Answer`: 800 ms pass without more of it), and at its deadline with whatever it
has (`Deadline`); what is still due then goes to the turn that sets the connection's callbacks
next. The observation `late` holds the turns that ended so, with their connection. `Fallback` is
`fallbackToHTTP` followed by the routing at the head of `ChatWithSession`.
`EndAudioStream` stands for a whole recording: `SendAudioChunk` and the closing call look the
connection up and write to it, without the session's mutex and without renewing its last use,
so the janitor may close the connection under a recording, and the model's reply to one goes to
whichever turn has its callbacks installed; the replies owed for recordings have the number 0.
Abstracted: time (a pause or the deadline may come at any moment; the janitor finds a
session idle only when no turn uses it, since a turn lasts 20 s and the idle timeout is five
minutes), the content of audio, and the texts: of a piece only the question it replies to is kept.

### 2.3 CronScheduler

A critical section of the store's mutex is one step. `Deref` and `Assign` go through
the pointer an execution holds, so a removed job lives on in `gone`. `GetDueJobs`,
`SpawnOrSkip` and `TickEnds` are a tick; `Acquire`, `Begin`, `Finish`, `Save`, `Record` an
execution; `UpdateJob`, `UpdateNext`, `UpdateSave` the three parts of an update.
`UpdateNext` computes the next time and assigns it in one step; in the code the assignment follows
the computation without the mutex. Updates are serialised: one is under way at a time.
`Boot` and `Crash` restart the gateway from `file` and `runs`. Schedules are a time or
a period in abstract units; what a job does is a step with an outcome.

### 2.4 WebSocketConns and WebSocketStream

*WebSocketConns* is `HandleWebSocket` from the atomic increment to the deferred
decrements; an address is chosen by the request, and may be empty (`NoAddress`: `getClientIP` takes it
from a header with a blank entry). `Upgrade` may fail. The two decrements at the end are two steps
(`UncountConn`, `UncountIP`), the connection counter first. A failed upgrade always takes both, the end of a connection
lowers the entry only of an address that is not empty (`Leaves`); `unnamed` counts the connections
that ended without.

*WebSocketStream* is `handleWSConnection`, `handleWSChat` and `writeWSMessage` on one open
connection. A goroutine that writes is `locking`, then `writing`, then where its code goes after a
success or a failure; a write may fail before it has the mutex (its context runs out) or in
the library, which then closes the connection. `room` is what still fits into the buffers
towards a peer that is gone (`PeerVanishes`), so writes to it succeed for a while. `Recv` is a
piece, the end or an error of the agent's stream; the code treats the last two alike.

### 2.5 AgentChat

A chat is `idle`, waits for the `model`, is about to `check` the tool calls of an answer,
`record`s them one by one, or has their `results`. `ToolResults` is the end of `handleToolCalls`
(three rounds, then the results are the answer) for chats in `waiting`, and the call of
`chatStreamInternal` to itself for the others. `ToolCallsInvalid` is the stream whose tool
calls are all malformed: it starts over with `Chat`. The detector is `Cleanup`, `LoopDetected` and
`RecordCall`, each under its mutex. A call's age replaces its time. The model, the tools and the
texts are choices.

### 2.6 CronExpr

One step is one iteration of the search, or one month of the short cut, over a calendar whose
lengths are constants: a month is given by its first day. `ParseField` gives the values of a field in the order they are written
in, which the short cut relies on. `DateAfter` carries a day beyond the month's end over, as
`time.Date` does. `ReturnsFirstMatch` compares what the search returns with a declarative first match
after `now`.

### 2.7 RateLimit

`ReadLimit`, `ResetWindow` and `CountRequest` are the three statements of `CheckRateLimit`,
`SetRateLimit` and `DeleteRateLimit` those of the command. `granted`, `ceiling` and `resets` are observations.

### 2.8 TelegramPolling and UpdateIntake

`Poll` is a request of `pollUpdates` with its response, `Offer` the body of the loop over the response, `Receive` and
`Answer` a worker; `GatewayRestart` loses what is in memory. The Bot API (external) forgets what a
request confirms and returns the rest. *UpdateIntake* knows no offset, queue or workers: an update waits,
is worked on, or is over, and a restart may bring any that were taken up back. The refinement mapping
takes for waiting what neither the server nor this gateway's offset has moved past.

### 2.9 ProcessTool

`Kill`/`KillDelete` and `Restart`/`RestartSpawn` are the two critical sections of those calls,
`MonitorCollect`, `MonitorPick`, `MonitorSkip`, `MonitorSleep` and `MonitorRestart` a pass of
`checkAndRestartProcesses` with its delay, `CleanupCollect` and `CleanupDelete` one of `cleanupProcesses`. A process
of the operating system `exits` or dies of a signal and is then reaped; `Exited()` is false after
a signal, as in Go, so the monitor and the cleanup leave such sessions alone. `RestartProcess` may fail, of
the monitor and of a caller: the session then keeps its dead process. The monitor has counted the
retry before; `tries` (an observation) counts its restarts, the failed ones included.

### 2.10 ServiceManager

A command goes through the services in order: `StartCheck`, `Exec`, `WritePid`, the wait for readiness; or
`StopCheck`, `SignalService`, `KillService`, `RemovePidFile`. `Interrupt`, `Ends`, `OtherStarts` and `Reboot` are
what the user, the services and the machine do meanwhile. A dead child of a command that still
runs is a zombie, which signal 0 finds alive. With `OneByOne` a command is begun only
when the others are done or in the foreground; without it two commands may start a service twice.

### 2.11 VectorMemory

`StoreAdd`, `StoreInsert`, `StoreFts` and `StoreMap` are the four steps of `Store`, in its order; `NewIndex`, `LoadVectors`
and `SwapIndex` a rebuild; `Reopen` the end of the agent, orderly or not, with its next start. A vector
is the memory and the version of its text. Steps may fail where the code goes on: the statements of the
full-text table (`FtsFails`, and single rows in `RefillFts` at a start) and the writing of the index file go unnoticed, a failed insertion
starts a rebuild, and a failed rebuild (`RebuildFails`) changes nothing. `disturbed` is an observation that
goes up on a failed insertion or save and on everything else but one store at a time; `torn` is another, and holds the memories whose deletion found them
between the row and the full-text entry, those that a restart cut short, and those whose
full-text statement failed.

## 3. What is checked

| run | module | shows |
| --- | --- | --- |
| `history_safety` | ConversationStore | `WatermarkSound`, `ClearKeepsWhatWasRead`, `ClearKeepsWhatExisted` |
| `history_auto` | ConversationStore | `ArchivedOnce`, `CompactMuReleased` for automatic compaction and idle resets |
| `live_turns` | RealtimeSessions | `OneConnPerSession`, `AnswerIsOwn`, `OnlyNestedWaitBlocks`, `IdleSessionsClosed` |
| `cron_job` | CronScheduler | `Durable`, `OneShotOnce`, `LoopNeverOverlaps`, `OnlyStaleNotExecuted`, `DueJobsRun` |
| `services` | nine components | see the next table |
| `history_append_race` | ConversationStore | *violated*: `Recoverable` |
| `history_duplicate` | ConversationStore | *violated*: `ArchivedOnce` with `/compact` |
| `live_simultaneous` | RealtimeSessions | *violated*: `EveryRequestReturns` |
| `cron_overlap` | CronScheduler | *violated*: `OneAtATime` |
| `cron_stuck` | CronScheduler | *violated*: `RunningIsExecuted` |
| `cron_search_endless` | CronExpr | *violated*: `SearchEnds` |
| `chat_endless` | AgentChat | *violated*: `EveryChatReturns` |

The run `services` checks nine components that share no state. A variable `part` says which
of them a behaviour is about; its actions are that component's and the others stay in an initial
state, so the states of the run are the sum, not the product, of the components' states. A property
that names one component's variables is checked in all of that component's behaviours and holds
in the initial states of the others. Each component's fairness is owed only by its own behaviours.

| part | properties |
| --- | --- |
| ProcessTool | `OneLiveProcess`, `RetriesBounded`, `KilledStaysGone`, `CrashedIsRetried` |
| TelegramPolling | `ForgottenWasSeen`, `AnsweredOncePerLife`, `EveryTextHandled`, `ImplementsIntake` (refinement) |
| RateLimit | `QuotaKept`, `ResetsBounded` |
| ServiceManager | `Tracked` |
| VectorMemory | `LabelsMatchUndisturbed`, `FtsNamesRows` |
| AgentChat | `RowOfOneToolBounded`, `TurnStoredOnce`, `WaitingChatReturns`, `WindowReleases` |
| CronExpr | `ReturnsFirstMatch` |
| WebSocketConns | `SlotsAccounted`, `LimitsHold` |
| WebSocketStream | `DoneMatchesChunks`, `DeadPeerIsDropped` |

The seven violated properties each state what a comment or a document of the repository
says; `PROJECT.json` quotes the line under `findings`. In each case a neighbouring
property that does hold is checked in a passing run, which shows how far the promise
goes: `LoopNeverOverlaps` next to `OneAtATime`, `OnlyStaleNotExecuted` next to
`RunningIsExecuted`, `OnlyNestedWaitBlocks` next to `EveryRequestReturns`, `WaitingChatReturns`
and `RowOfOneToolBounded` next to `EveryChatReturns`, `ReturnsFirstMatch` next to `SearchEnds`, the three
safety properties of the history next to `Recoverable`.

### 3.1 Bounds, and why they are enough

- *ConversationStore*. Two goroutines, one session: operations only interact through
  the rows of one session and the mutex, and every interleaving of a pair of
  operations, the same one twice included, is covered. Two chat messages, `KeepMessages` 1 and an id limit of 3
  for starting an operation allow a compaction to find the summary and re-inserted
  rows of an earlier one; `Window` 2 (500 in the code) is smaller than the session can
  get, `ResetWindow` 9 is not. One fault, a crash or a failing statement (`MaxFaults`),
  hits every point.
  `history_auto` has four messages and seven ids, so that a message is kept, re-inserted
  and archived by a later compaction. `MaxIds` bounds the starts, not the statements of
  an operation already started.
- *RealtimeSessions*. Two requests, two sessions of which one is shared; two turns, so
  that a second turn meets the leftovers of a first; two events, each a failing connect or send, a broken
  connection or a recording (one per connection), so that something fails during and after the fallback,
  and a recording's reply meets a turn. The shared session is new, the other had a chat over HTTP (`InitMeta`).
- *CronScheduler*. One job with schedules `at 2` and `every 1`, clock up to 3, three executions:
  a tick's, a manual one, and one that outlives its job; one update and one crash at any point.
- *ProcessTool*. One session (sessions meet only in the monitor's list), one caller next to the
  monitor and the cleanup, three processes: the first, an automatic restart and a manual one. One automatic
  restart is allowed, and any restart may fail.
- *TelegramPolling*. Two updates, a queue of one and two workers: the second is turned away while the
  first is still queued, and both are worked on at once; one restart. The theorems are for any numbers.
- *RateLimit*. Two callers, limits 0 (unlimited), 1 and 2, three calls of the command, a window of one tick and a clock of
  four: windows expire while callers are between their statements.
- *ServiceManager*. Two services of which one may fail, two commands, two process numbers, so that
  numbers are used again at once.
- *VectorMemory*. Two storing goroutines, a rebuild, two memories, one restart, and two updates, deletions or failing steps (`MaxChanges`): one change may start a
  rebuild that names a memory which is half stored, and the other delete it; or a failed entry meets a deletion or a failed refill.
- *AgentChat*. One chat of either kind, two tools, limits of four calls and four in a row, so
  that both kinds of loop are reached within and across rounds.
- *CronExpr*. Six months of two to four days in two years of three months, weeks of three days, days of
  two hours of two minutes: month lengths, the year's end and the drift of weekdays differ from
  each other as in the real calendar. Eight starts, one of them in the last minute of a month and one near the cycle's
  end; fields of every form the parser has.
- *WebSocketConns*. Three handlers, two addresses and the empty one, limits 2 and 1: both limits are reached with
  requests in flight at each step, and so is that of the empty address after its connections have ended.
- *WebSocketStream*. Two chats next to the reader and the pings, so that three writers queue for the mutex
  behind a fourth.

Deadlock is not checked where a run ends because its bounds are used up
(`CHECK_DEADLOCK FALSE`); progress is what the liveness properties are for.

### 3.2 Fairness

- `ConversationStore!FairSpec`: weak fairness of each goroutine's next statement. The
  SQLite driver returns (with an error at worst) and the summary request has the
  timeout of its HTTP client. Starting operations, chat turns, errors and crashes are
  not fair.
- `RealtimeSessions!FairSpec`: weak fairness of each request's next step and of the
  janitor, a ticker. Go mutexes hand over to a waiter after a millisecond at most, and a step that waits
  for a mutex is only enabled when it is free. No fairness for the model's replies:
  the polling loop has a deadline.
- `CronScheduler!FairSpec`: weak fairness of the start-up, the loop (a one-second ticker), each
  execution (its callbacks are RPC and HTTP calls with timeouts) and the remaining steps of an
  update. None for crashes, the API or the clock.
- `ProcessTool`: the monitor's loop, the second half of a call already begun, and the goroutine
  that waits for a process that has died. Processes need not die, and no restart need succeed.
- `TelegramPolling`: the polling loop gets a response now and then; the loop over it and the
  workers run, and the agent answers or its call fails.
- `AgentChat`: the clock, and each chat that has begun: the model answers in whatever way, the
  tools return (both have timeouts). Which answer the model gives is not fair: it may call tools for ever.
- `WebSocketStream`: goroutines run, the ticker ticks, `Recv` and writes end within their
  timeouts, and reading a closed connection fails. A peer need not vanish.
- `CronExpr`: the search goes on (it is one function).

### 3.3 Known limits the models made explicit

Besides the violated runs, exploring the models with other constants shows:

- A crash between `ClearMessages` and the last re-insertion of `maybeCompact` loses the
  kept rows, which were deliberately not archived.
- With `ArchiveMayFail` TRUE, `WatermarkSound` fails: the error of `ArchiveMessages` is
  discarded, the watermark advances, and the rows are cleared.
- A session longer than the LIMIT of a read loses what the read cut off when it is
  cleared; `ClearKeepsWhatExisted` therefore assumes a read that returned fewer rows
  than its limit.
- The fallback of a session that is routed to the live path locks a mutex its own
  goroutine holds, so that request never returns (the second case of `NestedWait`).
- A live turn ends when its reply pauses for 800 ms, or at the deadline; the rest of the reply is answered to
  the next turn on the connection, and so is the reply to a recording streamed to it. Hence
  the clauses `late` and `streamed` of `AnswerIsOwn`, which say that nothing else is.
- The end of a WebSocket connection does not lower the entry of the empty address (`gateway/websocket.go:121`). After `IPLimit`
  such connections (ten) every further one is refused until the gateway is restarted. Hence
  `unnamed` in `SlotsAccounted`.
- `CurrentRetries` is raised before a restart is tried, so a session whose command cannot be
  started stays dead after `maxRetries` tries: `CrashedIsRetried` promises the tries only. The retries are used up the same way
  by every pass that finds it dead, so allowing more of them later gives fewer than it says.
- A discarded error of the full-text table leaves a row without its entry, or an entry without its
  row, for good (`memory/vector_store.go:1133`, `:1535-1540`): such memories are `torn`.
- `QuotaKept` allows one request more than the limit: the one that resets a window is not counted.
- `LabelsMatch` fails after an update, a deletion, a failed insertion, two stores at once, or a crash
  in the middle of one: a rebuild starts from the saved file and appends every row to it. Hence `disturbed`.
- Without `torn`, `FtsNamesRows` fails from two changes on: a rebuild reads the row of a memory whose full-text entry is not
  yet written, its id becomes known, the memory is deleted, and the entry is written after that. One change is not
  enough to see it; the attempt to prove the property showed it.
- With `OneByOne` FALSE, two `ocg` commands at once start a service twice or remove a pid file just
  written, and `Tracked` fails. A stale pid file makes `stop` signal whatever process has the number now.
- A process that died of a signal is neither restarted nor cleaned up (`Exited()` is false).
- One tool called `SameToolLimit` times in a row is refused, for all sessions and at any later
  time, until another tool is recorded, which the same test prevents: hence the exception in `WindowReleases`.
- The short cut of the cron search ignores the weekday and may return a day the month does not have;
  `ReturnsFirstMatch` leaves these expressions out.

## 4. What is proved

TLAPS proves for every value of the constants (under the `ConstantsOK` assumption of
the module, which TLC evaluates in every run):

- `ConversationStore_proofs!TypeCorrect`: `Spec => []TypeOK`. `TypeOK` includes
  that an operation is only ever at a statement of its own program, without which
  `Next1` is undefined; the proof has one step per action.
- `ConversationStore_proofs!WatermarkIsSound`: `ASSUME ~ArchiveMayFail PROVE Spec =>
  []WatermarkSound`, for any number of goroutines, sessions, messages, crashes and other
  errors. `WatermarkSound` is not inductive: a goroutine writes back a watermark it read
  or computed earlier. The invariant adds `SeenSound` (the watermark in the hands of an
  operation is as sound as the stored one) and `IdsIssued` (every id, watermark and copy of a
  watermark is below `nextId`); the second is what makes a stale watermark harmless, because a
  row inserted or re-inserted later gets an id above everything it covers.
- `ConversationStore_proofs!NothingReadIsLost` and `NothingOldIsLost`: the action properties `ClearKeepsWhatWasRead` and
  `ClearKeepsWhatExisted`, also under `~ArchiveMayFail`. The invariant `ClearInv` follows what was read (`SnapInv`) to the
  moment where all of it is archived, kept or a summary (`Copied`), and says that a read below its LIMIT was a read of the
  whole session as of then (`Complete`). Since archiving skips the rows below the watermark, it needs `IInv`.
- `ConversationStore_proofs!OneArchivedCopy`: `Spec => []ArchivedOnce` when only `maybeCompact` and `ResetSession` run and no
  statement fails (`Automatic`, `~ArchiveMayFail`), over any crashes. These hypotheses are those of the run `history_auto`: with `/compact` or
  `/reset` the property is false (run `history_duplicate`), and a failed DELETE is followed by the re-insertions all
  the same, which leaves two rows of a message. The invariant `OnceInv` says that a chat message has one row, live or archived
  (`TablesInv`); that no archived row is one that the next compaction would keep, wherever the last one was cut short
  (`NotKept`); and that what a compaction holds is as stored (`SnapOnce`), still begins the session unless a reset deleted
  it (`SnapStands`), and is stored nowhere else once it is deleted (`KeepOnce`).
- `RealtimeSessions_proofs!TypeCorrect`: `Spec => []TypeOK`; `OneConnection`: `Spec =>
  []OneConnPerSession`; and `TurnsExclude`, the mutual exclusion of a session's turns. The invariant
  says: a request past the lock holds its session's mutex (`Exclusive`); a request about to open
  or cache a connection has found no open one cached, and nobody else can have cached one since
  (`NoneCached`, from `Exclusive`); every open connection is cached under its session or in the hands
  of a request about to cache it (`Accounted`). So a second open connection would need a
  second request inside. Steps that neither open, cache nor drop a connection are shown
  `Harmless` once and for all.
- `RealtimeSessions_proofs!OwnAnswers`: `Spec => []AnswerIsOwn`. What is due on a connection is due to a recording, to a turn
  that ended without it, or to the turn that waits for it (`Owed`), and the turn whose callbacks are installed is the only one of its
  session that waits; a connection that broke owes nothing (`Broken`), so no fallback leaves a reply behind; and what a
  turn has collected goes with it, even into a fallback that waits for its own mutex (`Fresh`).
- `Gateway_proofs!CountersExact`: `Spec => []SlotsAccounted` (the entry of the empty address exceeds its requests by `unnamed`), and
  `ConnectionsLimited`: `Spec => []LimitsHold`. The invariant adds that the requests that
  passed the first limit are at most `MaxWSConns` and that no map entry exceeds
  `IPLimit`. The global limit needs the exact counter: a request is admitted only when the
  count, refused requests included, is within the limit. Cardinality facts come from
  FiniteSetTheorems.
- `Gateway_proofs!AnswersConsistent`: `StreamSpec => []DoneMatchesChunks`, for any number of chats, pieces and buffers. What a
  client was shown is only tied to what the chat has built while the connection is up (`Pieces`): after a failed write that
  closed it, the chat goes on building, but nothing is shown any more.
- `Gateway_proofs!RequestsLimited`: `QuotaSpec => []QuotaKept`, and `ResetsLimited`: `QuotaSpec =>
  []ResetsBounded`, for any number of callers. The first holds because the statement that counts compares and counts at once: the
  invariant relates `granted` to the row's own count. The second counts the callers that may still reset the
  window: `resets` and they together are at most the number of callers.
- `Gateway_proofs!AnsweredOnce`, `NothingVanishes` and `PollingImplementsIntake`: `AnsweredOncePerLife`,
  `ForgottenWasSeen` and `ImplementsIntake`, for any queue, workers and restarts. The invariant says that queue
  and workers hold different updates (`Distinct`), that these lie below the offset and the rest of a response at or
  above it without a gap (`Order`), and that an update the server or the offset has moved past was offered (`Seen`) and one the
  offset has not moved past was not answered in this life (`NotYetAnswered`). The refinement proof maps
  `Offer` to taking up or turning away, `Answer` to finishing, `GatewayRestart` to a restart, and every other action to
  an arrival or a stutter.
- `CronScheduler_proofs`: `TypeCorrect`, `JobsDurable` (`Durable`), `StartedOncePerTime` (`OneShotOnce`), `LoopExcludes`
  (`LoopNeverOverlaps`) and `OnlyStaleStuck` (`OnlyStaleNotExecuted`), for any jobs, schedules, executions, updates and crashes.
  The types say where a job's pointer leads: to the map, or to a removed job that an execution or an update still holds.
  `OneShotOnce` needs a ranking: `ShotsLeft` bounds the starts of a job by the times it was given, less those the loop may
  still use (`Left`): a time that lies ahead, a next run that is not that time, a tick that has found the job due.
- `Processes_proofs`: `ProcTypeCorrect`, `MonitorRestartsBounded` (`RetriesBounded`), `NothingRunsUnowned`
  (`OneLiveProcess`) and `KillIsFinal` (the action property `KilledStaysGone`). The invariant says that until two of kill, restart, the monitor and the
  cleanup overlap on a session it is in the hands of at most one of them, which has seen its process dead or has killed it
  (`Owned`), and counts the automatic restart that is under way, which may fail (`RestartsCounted`); a restart
  that fails leaves everything as it was (`NotSpawned`).
- `Processes_proofs!ServicesTracked`: `ASSUME OneByOne PROVE ServiceSpec => []Tracked`, for any services, orders, numbers and commands.
  The invariant adds that a child of a command that runs keeps its number (`Children`), and that the pid file about to be
  written replaces none that names a running process (`InHand`). Without `OneByOne` the property is false.
- `Agent_proofs!StoredOnce`: `ChatSpec => []TurnStoredOnce`, since only a chat's last step stores (`StoredAtEnd`), and
  `RowLimited`: `ChatSpec => []RowOfOneToolBounded`, for any number of chats, any batches and limits. The
  bound is not inductive: the invariant adds to the count the calls that have passed the detector and are not yet recorded
  (`Pending`, at most one batch of every chat); recording moves a call from one to the other, and
  passing the detector requires a count below the limit.
- `Agent_proofs!LabelsNameMemories`: `MemorySpec => []LabelsMatchUndisturbed`. While nothing disturbs a store, the index is
  one vector ahead of the rows or the ids one behind, and the file is as the index was before (`LabelInv`).
- `Agent_proofs!TablesAgree`: `MemorySpec => []FtsNamesRows`, for any callers, rebuilds, changes and restarts. A row without an entry has a `Store` that
  is to write it (`Entered`), an entry without a row a `Delete` that is to remove it (`Named`), and neither writes or removes an
  entry for nothing (`Writing`), since ids are never used twice and nobody knows one before its row is written (`Unwritten`). The
  exception for `torn` is per memory: a statement that fails takes no other memory's row or entry with it.

- `CronExpr_proofs!FirstMatch`: `ExprSpec => []ReturnsFirstMatch`, for any calendar (`CalendarOK`), expressions and starts. The invariant
  `SearchInv` counts what was passed: in the search `next` is `iterations` minutes after `now`, and no time up to it matches. A step
  of the short cut passes the rest of a month that does not match, and in the next month the days before the
  one named and the minutes before the first hour and minute (`SkipPasses`, where the expression is one the
  short cut is right for, `SkipsWell`). The rest is arithmetic: a time is a day and a minute of it in one way only
  (`Parts`, `InMonth`), and going round the cycle changes nothing (`CycleRemainder`).

- `CronExpr_proofs!SearchTypes`: `ExprSpec => []ExprTypeOK`, from the same invariant: in particular the search never takes more
  iterations than its limit.
- `Agent_proofs!WindowLimited`: the detector's window holds fewer than `MaxCalls + MaxBatch * Cardinality(Chats)` calls. As
  for `RowLimited`, the calls that passed the check and are not yet recorded (`Pending`) are counted with those in the window.
- `Services_proofs!ServicesTypes`: `ServicesSpec => []ServicesTypeOK`, the types of the components that share no state, from the
  invariants of each. It holds without `OneByOne`, so the types of ServiceManager have an invariant of
  their own (`SvcTInv`: a number a command works with was given to a process, `PidGiven`). What the detector and the
  vector memory filter is a subsequence: `KeptIsSequence` is proved from a rank among the places kept, because
  tlapm has no facts about `SelectSeq`.

Some theorems are the safety half of a liveness property: every step of the actor lowers a measure, and no step of another
raises it. Together with the fairness that TLC's runs assume, such a measure is why the property holds for every value
of the constants and not only in the instance.

- `RealtimeSessions_proofs!TurnsAdvance` (of `OnlyNestedWaitBlocks`): a turn has at most fourteen steps left, whatever breaks or times out. The measure
  counts the end of a fallback apart from a turn's beginning, by whether the request owns its session's mutex.
  `HolderGoesOn` adds what it may wait for: `realtimeMu` is held across steps only by a request that locks its session's mutex, and
  that mutex is free or held by a request of the session that is still at work (`LocksInv`).
- `Agent_proofs!WaitingChatsAdvance` (of `WaitingChatReturns`): a chat that a request waits for has fewer than `3 * (MaxBatch + 4)` steps left
  (`ChatStepsLeft`), even if the model answers every time with as many tool calls as it can.
- `ConversationStore_proofs!CompactionAdvances` (of `CompactMuReleased`): `compactMu` is held by a compaction under way and by nobody else (`MuInv`);
  each of its steps, a failing statement included, returns and unlocks, reaches a later statement, or leaves fewer rows to re-insert.
- `Gateway_proofs!WritersTakeTurns` (of `DeadPeerIsDropped`): `writeMu` is held by the goroutine that is writing and by nobody else
  (`HeldByWriter`), and the end of its write unlocks it, whether it succeeds or fails.

Every safety property of the passing runs is proved. Liveness under fairness itself (and ENABLED) is out of the prover's reach and stays with
TLC, and so does what a recursive definition computes for every input.

## 5. Not modelled

Inside modelled components (status `partly`, with the details in `PROJECT.json`): staggering and anchors of jobs, failing writes of the cron files; the
sixth field of cron expressions, time zones; output buffers and stdin of processes; similarity in
vector memory, index files cut short and a start that cannot read the rows; the prompt of a chat turn, with the two-second wait of `handleContextOverflow`.

Components that are not modelled, and why:

- *User tasks, subtasks and pulse events*: their rows are inserted with NULL columns (`storage/storage.go:1087-1093`)
  that the readers scan into Go strings (`:1271-1290`), which fails. So no event is ever processed and listing,
  executing and retrying tasks end with an error; there is no behaviour after the insertion to model. `Trigger` in `agent/pulse.go`
  locks a mutex it holds, and nothing calls it.
- *Webhooks and hooks*: `cmd/gateway/main.go` builds its configuration without the webhook section, so
  they are never enabled.
- *HTTP server, authentication, configuration reload*: routing and parsing; the reload changes a
  window that is only logged and a log size.
- *Sessions in memory, LLM health, key-value store*: used by tests, by commands that end at once, or for single calls only.
- *LLM providers, channels, RPC*: formats of remote APIs and one-call wrappers, without shared state; Telegram
  and the realtime provider are modelled on their own.
- *Embedding server, binddb*: pass requests on; encrypt a file.
- *File, shell, web and browser tools, plugins and skills*: I/O, string algorithms and start-up scans. The browser's idle
  cleanup closes browsers by the time their status was last asked, a rule no document promises more of.

## 6. Plan

Done: every module with a run; proofs of every safety property of the passing runs, and of the measures behind four liveness properties.

Next: failing writes of the jobs file and staggering in CronScheduler.
