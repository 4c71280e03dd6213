# Verification of the Hermes tool layer

`src/hermes/hermes-agent/` is the tool layer of the Hermes agent: about 97 000
lines of Python that run shell commands, background processes, subagents,
approvals, browsers and MCP servers for a language-model agent.  `src/.github/`
holds one workflow that keeps a running instance alive and backs its state up.
The agent loop (`agent/`), the gateway (`gateway/`) and the command line
(`hermes_cli/`) that call the tools are not in the repository; where a model
needs them they are external, and enter as what the code in `src/` lets them do.

This directory holds TLA+ models of the parts in which threads, crashes and
clocks meet, TLC runs of small instances, and TLAPS proofs for all instances.
Twelve modules model the system, four instantiate them for TLC, eight hold proofs.

## Inventory

| component | state it keeps | operations | hard behaviour | what makes it correct |
|---|---|---|---|---|
| Background processes (`process_registry.py`, `terminal_tool_background.py`) | `_running`, `_finished`, flags of each session, consumed marks, completion queue, checkpoint file | spawn, adopt, poll, wait, read_log, kill, kill_all, drain, prune, recover | one reader thread per session, any number of tool threads, crash and recovery, TTL and cap | one completion per exit, no exit lost, no output delivered twice, a live process lost sight of only when it outlives its own kill, a kill keeps its reason |
| Watch-pattern limiter (`process_registry.py` 448-595) | cooldown, strikes, hits, global window | match, promote, trip, release | clocks, several readers at the global breaker | a silenced session says so once, a promise of one final notice is kept, drops are counted |
| Asynchronous delegation (`async_delegation.py`, the unit loop of `delegate_tool_dispatch.py`, `daemon_pool.py`) | records in memory, SQLite ledger, thread pool, monitor thread | dispatch, submit, finalize, stall sweep, force-finalize, prune, claim, acknowledge, recover, restore | worker against monitor, several calls at the cap, crash between persist and queue, failing database calls | one event per unit, an accepted unit's outcome stays in the ledger and is given again only after a crash, the cap on slots holds, a stalled unit ends |
| Delivery of results (`async_delegation.py` 294-424) | claim, attempts and state of each ledger row | claim, complete, release, drop, restore | several processes on one ledger, leases, restarts, rows deleted under a consumer | one consumer of a row at a time, no second injection within a lease while there is a row |
| Approval queue (`approval.py`, `approval_gateway_wait.py`) | queue of entries per session, notify callbacks, approved patterns | await, resolve, unregister, clear, remember | timeouts and interrupts racing an answer, followers of an identical request | nothing runs without a human's choice for it; every waiter can be answered |
| Clarify and slash confirmations (`clarify_gateway.py`, `slash_confirm.py`) | pending prompts | register, wait, resolve, clear | a late answer, a replaced prompt, a double click | an accepted reply is returned, a handler runs once |
| File state (`file_state.py`, `file_tools.py`, `file_tools_read_tracking.py`) | read stamps, last writers, path locks, dedup records | read, edit, stamp, check, lock | two agents on one file, edits from outside, reads without content, several locks | a stale write is warned of, "unchanged" is true, no deadlock |
| MCP sessions (`mcp_tool_server_run.py`, `mcp_tool_transport.py`, `mcp_tool_handlers.py`, `mcp_tool_health.py`) | session, events, retry budgets, in-flight calls | connect, discover, call, probe, recycle, reconnect, park, shut down | requests to reconnect while the task is elsewhere, calls in flight during a recycle | a flapping server is parked, a request to reconnect is not lost |
| Session kernels (`code_kernel.py`) | table of kernels, attachments, pipes | acquire, run a cell, give up, discard, clear a session | parallel cells on one kernel, timeouts, deaths, sweeps | no interpreter without an owner, a cell gets its own reply |
| File synchronisation (`environments/file_sync.py`) | pushed keys and hashes, transactions | push cycle, roll back, sync back | writes on either side during a transaction, partial failure, a resumed sandbox | no older save of the host comes back over a newer one, credentials go one way |
| Execution environments (`environments/`) | back-end handles | start, execute, clean up | external back ends | - |
| Checkpoint manager (`checkpoint_manager.py`) | shadow repositories | snapshot, restore, prune | failure of one git command of several | a restore never loses the current tree |
| Backup workflow (`.github/workflows/ssh.yml`) | the repository as a backup | copy, commit, pull, push | two runs, partial failure | what was created in a run survives it |
| The rest | - | browser, voice, vision, web, skills, messaging | I/O of external services | - |

They interact in four ways.  Tool calls run on the agent's threads and call into
the registries under their locks.  The registries' own threads (readers,
pollers, delegation workers and their monitor) report through one
`completion_queue` that the conversation drains.  The gateway answers approvals
and clarifications from its own threads.  State that must survive a crash goes
through files: the process checkpoint, the delegation ledger, the allow-list in
the configuration.

`PROJECT.json` lists all components and the hazards of the code at their lines.

## Modules

| module | what it is |
|---|---|
| `ProcessRegistry` | the background-process registry and its spawn handler |
| `AsyncDelegation` | background delegation: calls, records, ledger, pool, workers, monitor, crashes |
| `ResultContract` | what delegation promises of results, the abstract specification |
| `DelegationDelivery` | claims on finished delegations by several processes |
| `WatchLimiter` | the limits on watch notifications |
| `ApprovalQueue` | approval of flagged commands through the gateway |
| `ClarifyPrompts`, `SlashConfirm` | the two other prompts of the gateway |
| `FileState` | reads and edits of files by several agents |
| `MCPSession` | the connection to one MCP server |
| `CodeKernel` | interpreters that outlive the cells run in them |
| `FileSync` | synchronisation of files with a remote sandbox |
| `MCProcessRegistry`, `MCAsyncDelegation` | values of the constants for TLC |
| `MCServices` | `ApprovalQueue`, `ClarifyPrompts`, `SlashConfirm`, `FileState`, `MCPSession` in one run |
| `MCExecution` | `AsyncDelegation`, `DelegationDelivery`, `CodeKernel`, `FileSync`, `WatchLimiter` in one run |
| `ProcessRegistryProofs`, `AsyncDelegationProofs`, `ApprovalQueueProofs`, `FileStateProofs`, `MCPSessionProofs`, `SandboxProofs` | theorems with their proofs |
| `ServicesProofs`, `ExecutionProofs` | the same for the smaller components of `MCServices` and `MCExecution`, and for all of them together |

The components of `MCServices`, and those of `MCExecution`, share no variable.  A
behaviour of all of them is therefore one of each, interleaved, and a property
about one holds of all exactly if it holds of that one alone; `ServicesProofs` and
`ExecutionProofs` prove this of the properties below.  A variable
(`focus`, `part`) chosen at the start says whose steps are taken, so that TLC
sees the sum of the state spaces and not their product; nothing is lost, because
no property is about two components.  What two components do have in common is
modelled inside one of them: the end of a session in `WatchLimiter` is the
registry's move, the rows of `DelegationDelivery` are the terminal rows of
`AsyncDelegation`.

### ProcessRegistry

*State.*  `running` and `finished` are the two tables; `exited`, `reason`,
`notify`, `detached` the fields of a session other threads read; `consumed` and
`observed` the two sets of marks; `queue` the completion queue, by session;
`file` the checkpoint on disk; `pc`, `job`, `popped`, `snap` what each thread is
in the middle of.  A session's age is `rank` (the order of `started_at`) with
`old`, the number of sessions older than the TTL.  `announced`, `delivered`,
`inHand`, `dropped` are history for the properties and are never read by an
action.  Age is counted from the start, as `_prune_if_needed` does
(`process_registry.py:1884`), although the comment at line 42 says "keep finished
processes 30 minutes": a session that ran for longer is dropped by the next spawn
after it ended.  No property claims otherwise.

*Threads.*  A reader (or, for sandbox sessions, a poller) goes by its session's
id; tool threads come from `Tool`.  A step is what a thread does between two
points where another may run: one lock section, one file write, one assignment
others can read.  The body of `mark_exited` is one step, because it contains no
call and no backward jump, which is where CPython switches threads; a
free-threaded build is outside the model.

*Correspondence.*  `Spawn`, `Register`, `SetFlags` and the checkpoint steps
`CollectEntries` and `WriteFile` are a spawn, in the code's order: the reader
starts before the session is in the table, the flags follow the checkpoint.
`ReaderEnds` and the `Poller` actions are the reader threads.  A descendant that
goes on writing (`noisy`, for the sessions in `Orphans`) resets the reader's
count of idle rounds (`process_registry.py:1019-1024`) and keeps it reading
after the process has ended, until it falls silent (`FallsSilent`), which
nothing says it does.  `Move` and `QueueCompletion` are `_move_to_finished`,
with the two checkpoint steps between them.  `Call`, `Look`, `Mark` are the
lookup and the reconciliation every query starts with; then `PollReturns`,
`WaitReturns`, `WaitGoesOn`, `LogReturns`, `KillFindsExited`, `KillStarts`,
`Signal`, `SignalFindsGone`, `MarkKilled`. `Signal` may leave the process alive:
`_terminate_host_pid` (684-735) refuses a pid that is not its own, lets signals
fail quietly and, with no grace configured, sends no SIGKILL; `kill_process`
marks the session killed and moves it all the same. `kill_all` is the call
`reap`: a kill that marks nothing consumed.  A PTY session is a `local` one: its
reader differs only in how it reads, and a reconciling query may do for it what
the code does for pipes only, so the model has a few behaviours more.  `Drain`
takes any set of sessions as the ones the draining conversation owns.  `Restart`
loses memory at any point and runs `recover_from_checkpoint` before any tool
thread starts.

*Properties.*  `CompletionOnce`: racing movers queue one completion.
`LiveIsTracked`: a live host process that holds its output open and that nobody
has killed stays in `_running`, unmarked; one that outlives its own kill is lost
from sight, and excepted by name (`Expected`).  `KillSticks`: nothing overwrites
the reason of a recorded kill of a host session (for a sandbox session the
poller does, as written). `NoDuplicate`: output a call returned under the full
id is not delivered again before a prune drops the session.  `Announced`: a
session registered with its flag before anybody saw its exit is announced once
its process has ended and nobody writes to its output any more, or somebody
polls or waits for it. `EvictBeforeGrow`: a registration beyond the cap happens
only when no finished session is left to drop.  `RunningAttended`: no session is
forgotten in `_running`; its reader or, after a recovery, the queries watch it,
and once its end is recorded a thread is about to move it.  Only a session that
was moved before it was registered has nobody (`registry_notify` below).

### AsyncDelegation and ResultContract

*State.*  `rec`, `stamp`, `slot`, `started` are the fields of a record in
`_records` that other threads read; `quiet` and `overdue` are the two facts the
monitor computes from clocks, "the progress token has been frozen for the
threshold" and "the grace window is over".  `row` is the ledger's `state` and
`delivery_state` in one: a row is `running`, holds an outcome that is `pending`,
or was `delivered` or `dropped`.  `pool`, `threads`, `backlog` are the executor;
`call`, `nth`, `live` what each dispatching thread is in the middle of; `pc`,
`at`, `expiring`, `anyLeft` the same for workers and the monitor; `queue` counts
the events of a unit in `completion_queue`, `hand` is what a consumer that
drained one has done: claimed the result, injected it, or left its claim behind
in a crash.  `published`, `delivered`, `purged`, `inline` are history, and so is
`dispatched` but for the slot key, which the caller takes from the first unit it
was told is dispatched.

*Correspondence.*  A call goes through `Admit` or `Reject` (one lock section:
capacity check and insertion), `PersistDispatch` with the prune of the ledger,
`GrowPool`, `Submit`, `EnsureMonitor`, for each unit of its `Plan` in turn.
`PersistDispatchFails`, `SubmitFails`, `DeleteRow`, `DeleteRowFails` are its
error paths.  `submit` may raise after it has queued the unit, when the pool's
new thread does not start; then the unit runs inline and later once more.
`Start` and `RunnerReturns` are `_worker`; `Claim`, `Persist`, `Publish`,
`Settle` are `_finalize` and `_push_completion_event`, run by a worker or by the
monitor.  `Sweep`, `TakeUp`, `EndPass`, `Leave` are the monitor's loop; between
`EndPass` and `Leave` the thread has decided to return and is still alive.
A consumer takes three steps, and the program may die between any two:
`TakeEvent` drains an event and claims the result (or lets go of an event it cannot
claim; a row that is gone is claimed by whoever asks), `HandOver`, which is
external, injects it into a conversation, `Acknowledge` is
`complete_completion_delivery`.  `PutBack` gives a claimed result back, or drops it
when its attempts are used up or its session is gone.  The clock of leases, the
counting of attempts and several processes are `DelegationDelivery`; here a claim
left by a dead run may or may not stand.  `Restart` loses everything but the ledger
at any point and runs the recovery and the restoration, which drops any set of
pending rows as older than 48 hours (`async_delegation.py:315-325`).

*Abstractions.*  The insert and the prune of `_persist_dispatch` are two
transactions and one step; that the prune may not have happened is an outcome of
`PersistDispatchFails`.  Rows with equal delivery state may be pruned in any
order, where the code orders them by `updated_at`.  A unit's interrupt changes
nothing the registry keeps.  The cap on pending rows (1000) is left out: the cap
on terminal rows (50) runs before it in the same function and counts pending
rows too, so the second never finds more than 50.

*ResultContract* says at what `stage` the result of each unit is, how often it was
`given`, and whom it was `promised` to.  A result is worked for, falls due, is
taken, is given, and is settled for; between giving and settling it is in doubt,
and only a crash then makes it due again.  Who has taken a result may return it, and
it is due again or dropped.  To take a unit on, others may be forgotten: settled
ones, or, when none of those is left, any until `Cap` remain.  One whose event is
out is adrift when it is forgotten, and may still be given once.  A dispatch may be
withdrawn as long as it was not promised.  `AsyncDelegation` implements the contract
by `Standing`, which reads the stage from row, hand and queue: a step of a call,
worker or monitor that no stage shows must be a stutter, forced finalizations and
failed calls among them; a restart is the contract's `Crash`.

*Properties.*  `PublishedOnce`: worker and monitor together publish one event
per unit.  `Survives`: an accepted unit's outcome was given, or is in the
ledger, pending or dropped, or was deleted by the cap, and an event on the queue
has its outcome on disk (`PersistedFirst`).  It does not say that an outcome is
given in the end: the code gives up those whose consumer failed too often or
whose session is gone, and at a start those older than 48 hours; they stay
queryable.  `SlotsBounded`: the cap holds although units of one call share a
slot and units end between dispatches.  `RecordsAttended`: no record is left
open with nobody to end it, in particular a stalling one never outlives the
monitor. `PoolServes`: a unit that waits for a thread is not taken for stalled
(`QueuedRuns`), and it waits only while every thread of a full pool is at work
or a call is about to submit, although the calls size the pool by counts of live
units that are old by then.  `KeepsContract`: the refinement, so that a result
is given twice only over a crash between its injection and its acknowledgement.
`Reported` and `StallEnds`: a runner that returned is reported, a stalled unit
is ended. Excepted from `RecordsAttended` and `PoolServes` are programs in which
a call raised (`failures`): a failed insert or submit may leave a record or a
queued unit behind.

### DelegationDelivery

*State.*  `delivery`, `claim`, `claimedAt`, `attempts` are the columns of a row;
`inbox` the completion queue of each process that is `up`; `work`, `item`,
`token`, `took` what its consumer is doing, with which claim, since when.
`injected`, `takeovers` and `strays` are history.

*Correspondence.*  A step is one transaction: `ClaimEvent`, `Complete`,
`MarkDelivered`, `Release`, `DropDelivery`, and `Restore` at the start of a
process.  `ClaimEvent` has the three outcomes of `claim_completion_delivery`: a
row that is free or past its lease is claimed (`ClaimRow`), one that is claimed
or done with is skipped (`Skip`), and without a row whoever asks is told that it
has the claim (`ClaimRowless`, `async_delegation.py:352-355`).  `Purge` is the
prune of a process that dispatches other units; it may delete the row at any
time.  What a consumer does between two of them, `Inject`, is outside the
repository.  A process dies with its queue while its claims stay (`Die`).  All
rows completed at time 0; a claim id is the number of the attempt, which is as
unique as the random id of the code.

*Properties.*  `LeaseHeld`: two consumers that claimed the row of a completion are
at work on it only when the second took it over after the lease of the first.
`InjectedOnce`: a result enters conversations once, and once more at most per claim
that outlived its lease and per process that claimed it without a row, whatever is
released, copied, deleted, dropped or restored.  A claim without a row keeps nobody
away; both properties say what is left of exclusivity then, and no more.

### WatchLimiter

*State.*  The fields of the limiter of each session, the four of the global
breaker, and where the reader of a session is between its two lock sections
(`scan`, with the time it took before the first, `seenAt`).  `exitNotes`,
`silenced`, `pledged`, `toldDrops`, `dropped`, `trips`, `releases` count events
for the properties.

*Correspondence.*  `Scan` is a chunk with a match; `Strike` and `Hit` the section
under the session's lock; `Admit` the one under the breaker's; `EndSession` a
poll, a kill or the reader that marks the session exited; `Move` the section that
decides whether an exit is announced.  Text, line counts and the order in the
queue are left out.

*Properties.*  `SilenceExplained`: a session whose watching was disabled has said
so exactly once, also when the breaker drops the very match that disabled it.
`PromiseKept`: a session promised one final notification gets exactly one.
`FloodAccounted`: every match the breaker dropped is reported or counted for the
next report.  A session that ends between the limiter's look at `exited`
(`process_registry.py:459`) and its promise is announced, as the move reads the
flag later; one that was moved by then is promised in vain, so `pledged` counts
the promises given before the move.

### ApprovalQueue

*State.*  `step` is where each guarded call is, with what it carries: `keys`,
`lead` (on whose entry it waits), `choice`, `snapshot`.  `queued`, `arrival`,
`result`, `fired` are the entries of the session, `hand` and `verdict` what a
thread of the gateway has taken out and still has to answer; `approved`,
`permanent`, `saved` the three places an answer is remembered in.  `issued` and
`ground` are history: which choice a human gave to an entry, why a call was let
through.

*Correspondence.*  A step is one lock section, or one write outside it that
another thread can see.  `Start`, `MatchKey`, `Matched`, `Judge`, `Route` are the
guard up to the decision to ask a human.  `Look` and `Enter` are two sections, so
that two identical requests may both prompt; a follower waits on its leader's
event (`Wakes`, `Adopt`).  `TimesOut`, `Interrupted`, `DropEntry`, `Finish` end a
wait in the code's order, in which an answer may arrive between any two.
`PersistKey`, `LoadConfig`, `SaveConfig` remember a choice key by key.  `Take` is
a human's answer to one, the oldest or all entries, `Answer` the write of result
and event that follows for each of them; `Unregister` and `ClearSession` empty
the queue the same way.  Yolo mode and the notify callback are inputs: they may
change at any time.

*Properties.*  `Consented`: what runs on an answer runs on a choice a human gave
to an identical request; silence, a failed notification, the end of the run and
`clear_session` are never consent.  `OnceForOne`: a "once" lets one call through
however many identical ones wait.  `KeysEarned`: every remembered key was granted
by a human who saw it, for that long, and a content finding never for good.
`Answerable`: a waiting request is in the queue, or its answer is on its way, or
its event is set.  `AnswersArrive`: whoever was answered stops waiting without
the help of a deadline.

Not claimed, because the code does not promise it: a follower whose leader timed
out or failed to notify waits for its own deadline, since nobody sets the event
it waits on (`approval_gateway_wait.py:88`); two calls that save the allow-list
at once may each write what it read before the other (`approval.py:342`), so the
file may lack a key that memory has, until it is next saved.

### ClarifyPrompts and SlashConfirm

*State.*  `entries`, `index`, `since` are the tables of `clarify_gateway.py`,
`answered`, `response`, `awaiting` the fields of an entry, `asker` and `typist`
where the asking threads and the handlers of typed messages are.  `told` is
history: what kind of reply was told it was accepted.  `SlashConfirm` keeps the
pending confirmation of each session with its age, and the callbacks that run.

*Correspondence.*  A typed reply is looked up, judged and applied in three lock
sections (`TypeReply`, `JudgeReply`, `ApplyReply`), so that a button, a clearing
or the deadline may come between.  Its text is one of three kinds, which is what
the coercion tells apart.  `StopWaiting` and `Collect` are the end of a wait and
the section that reads the response.  In `SlashConfirm`, `TakeConfirm` takes the
entry under the lock and `RunHandler` runs its handler after it.

*Properties.*  `AcceptedIsReturned`: whoever was told that a reply was accepted
is right, and a thread returns no reply nobody was told of.  `PromptFindable`: a
waiting prompt is answered or can be found by every way to answer it.
`HandlerOnce`: a handler runs once at most and never for a withdrawn prompt.
Excepted from the first is a prompt cleared between its registration and the
start of its wait: its thread finds no entry and returns no reply.

### FileState

*State.*  `version` is content and mtime of a file.  `stamp`, `partly`,
`lastWriter`, `newer` are the records of `file_state.py`; `readTimes`, `dedup`,
`served` those of the read tracker; `lockOf`, `users`, `joined`, `held` the path
locks with their bookkeeping; `phase`, `files`, `part`, `want`, `warned` what an
agent's call is in the middle of.  `view`, `shown`, `slipped`, `excused` are
history of what the agents have really seen.

*Correspondence.*  A read is `StartRead` (or `ReadStub`), `Fetch` or
`FetchNothing`, `Track`, `StampRead`.  `FetchNothing` is a read whose answer has
no content, an error or the "BLOCKED" of a region read again and again: the code
records it as it records any other (`file_tools.py:612-613, 638-646`), unless
the back end raised; an edit `StartEdit`, `Join` and `Acquire` for each path in
sorted order, `EditWarnings`, `Write` or `WriteFails`, `Note`, `Unlock` and
`Leave`. `Compact` is the compression of a conversation that forgets what was
served, and `EditOutside` an editor or a shell command, which takes no lock.

*Properties.* `PathExclusive`: no two agents hold one path, although its lock
object is dropped and made anew while others may wait for the old one.
`ClobberWarned`: who replaces a version it has not seen is warned.
`StubIsCurrent`: who is told that a region is unchanged was served its current
content. `SomeoneMoves`: while calls are under way, one of them is not blocked by
a lock, so the file tools never come to a stand. Excepted from the second and
third, by name (`excused`, `slipped`), are records of versions the agent was not
shown: of files that change between the read and the look at their mtime
(`file_tools.py:513`, after the read), and of reads answered without content.  For
these the next read may be told "unchanged" of content the agent never saw, and its
next edit is not warned.  What the two properties show is that nothing else leads
there: no edit of a sibling or from outside, no patch that failed half way, no
compression.

### MCPSession

*State.*  `pc` and `why` say what the run task is doing; `session`, `ready`,
`wake`, `stop`, `recycled` are the fields and events other tasks look at; `ever`,
`proven`, `race`, `graceUsed`, `retries`, `initial` the budgets; `holder` and
`orphan` the request under `_rpc_lock`; `doing` and `clears` the calling threads.

*Correspondence.*  A step is what one task of the event loop does between two
awaits, or a calling thread before its callback reaches the loop.  `Handshake`,
`DiscoverStarts`, `Discovered`, `EndServing`, `Unwound`, `Fails`, `PauseEnds`,
`ParkEnds`, `WakeUp` are `run` and the transports; `Recycle` and the `Probe`
actions the health loop; the `Call` actions and `Asks` a tool call and its request
to reconnect; `Nudge` a reconnect requested from elsewhere; `Shutdown` and
`ShutdownEnds` the two halves of a shutdown.  Server and SDK are external: they
answer, fail or stay silent.

*Properties.*  `FlapperParks`: a server that handshakes and drops, or never
connects, is parked after a bounded number of attempts, whichever route each drop
takes.  `RequestsKept`: a request to reconnect is not lost whatever the task is in
the middle of; a recycled server has no timer and only that request wakes it.

What reading the code for this module showed and no property claims:
`ensure_healthy` (`mcp_tool_health.py:224`) is called by nothing, although
`mark_suspect` and `mcp_tool.py:356` say the next call verifies; requests made
through `_make_utility_handler` and `_refresh_tools` are not counted as in flight,
so a recycle does not wait for them; `_refresh_tools` holds `_rpc_lock` without a
timeout; a reconnect requested late tears down the session that replaced the
one it was about.

### CodeKernel

*State.*  `registered` and `older` are the table and its order of use; `proc`,
`attached`, `stdin`, `responses` a kernel with its pipes; `cellPc`, `used`,
`doomed`, `reply` the calls; `closing` what a clearing has taken out.  A kernel is
named for the call that made it.

*Correspondence.* `AcquireKernel` is the section under the registry's lock with
its idle sweep, cap and replacement of a dead or reset kernel; `Reap` a teardown
after it. `EnterKernel`, `SpawnKernel`, `WriteCell`, `Receive`, `GiveUp`,
`Drop`, `Discarded`, `ReleaseKernel` are a cell under the lock of its kernel;
`LeaveKernel` and `Bury` the detachment of the last one. `Reply` and `Dies` are
the interpreter. `CloseOwners` and `Close` clear a session. Idle time is not
counted: any of the longest unused kernels may have been idle for too long.  A
teardown ends the process and closes its pipes in one step.  The code sends SIGTERM,
waits five seconds and then sends SIGKILL without waiting
(`code_execution_tool.py:751-756`); what the process does in the five seconds is a
step of the model before the teardown, and the model assumes that a process sent
SIGKILL has gone by the time the next cell that waits for the kernel's lock writes
to it.  If it had not, that cell could find in the pipe what the cell given up
before it replied in those seconds: `OwnReply` rests on this assumption.

*Properties.*  `KernelsOwned`: a live interpreter is in the table, attached to, or
about to be torn down by a thread that took it out, and a sweep takes none that
has a cell.  `OwnReply`: a cell returns the reply of its own code or none.

Seen while modelling, and within the properties: a cell that waits on a kernel
whose spawn failed spawns it again after its teardown; more than `MaxKernels` idle
kernels may stay until the next acquisition.

### FileSync

*State.*  `host` and `sandbox` are the files of both sides, by who wrote them and
when; `synced`, `pushed`, `uploadOnly` what the manager remembers; `syncPc`,
`newKeys`, `toUpload`, `toDelete`, `staged`, `mapped`, `guarded`, `attempt` the
transaction that holds its lock.  `torn` is history.  A new manager has no records,
while its sandbox may be resumed with files of an earlier session (`Earlier`;
`environments/daytona.py:53-71`, `ssh.py:80-84`).

*Correspondence.*  `Plan`, `Stage`, `PushStarts`, `Upload`, `Commit` are a push
cycle and `Rollback` its failure at any of these points; `Pull`, `Download`,
`Apply`, `PullEnds` the sync-back with its retries.  `HostWrites` and
`SandboxWrites` happen at any time: the manager's lock keeps nobody from a file.

*Properties.*  `SavesKept` joins three.  `HostKept`: a sync-back writes to the
host only what the sandbox wrote since the push, which wins over a save of the host
(last write wins, `file_sync.py:358-360`); no older save of the host comes back over
a newer one.  `CredentialKept`: a credential that was pushed is never written back,
also after its mount is gone.  `SyncedIsCurrent`: a save during a cycle is pushed by
the next.  Excepted from the first, by name, are two kinds of file of which the
manager has no hash: what a failed cycle has left in the sandbox, whose hashes are
rolled back (`file_sync.py:183-187`; `torn`), and what a resumed sandbox has from an
earlier session as long as this manager has not pushed the file (`Earlier`).  A
sync-back takes either for a change of the sandbox, and may bring an older version,
or a file since removed, back.

## Runs

| run | instance | result |
|---|---|---|
| `registry_threads` | 1 host session that may leave a descendant behind, 2 tool threads that poll, wait, read, kill and reap, 1 crash | `TypeOK`, `CompletionOnce`, `LiveIsTracked`, `KillSticks`, `NoDuplicate`, `RunningAttended`, `Announced` hold (486 000 states) |
| `registry_prune` | 1 sandbox and 1 adopted session that may close its output early, cap 1, 1 session older than the TTL, waits | `EvictBeforeGrow` holds (1.6 million states) |
| `agent_services` | see below | `ServicesTypeOK` and 14 properties of the five components of `MCServices` hold (556 000 states) |
| `registry_notify` | 1 host session, 1 tool thread | violated: a fast exit is never announced |
| `registry_prefix` | the agent names the session by a prefix | violated: consumed output is delivered again |
| `registry_routing` | 2 sessions | violated: the file lacks the flag of a session that runs |
| `delegation_units` | a call of 2 units and a call of 1 monitored unit, 1 slot, 1 record and 1 terminal row kept; the other components of `MCExecution` see below | `TypeOK`, `PublishedOnce`, `SlotsBounded`, `PoolServes` and 8 properties of the others hold (1.07 million states) |
| `delegation_ends` | 2 calls of 1 monitored unit, 1 slot, no terminal row kept by a dispatch, 2 calls that raise, 1 crash, consumers for the events of one of the units | `KeepsContract`, `Survives`, `RecordsAttended`, `Reported`, `StallEnds` hold (144 000 states) |
| `delegation_monitor` | 2 calls of 1 monitored unit, 1 slot | violated: a unit is dispatched and nobody watches it |
| `delegation_pool` | 2 calls of 1 monitored unit, 1 slot | violated: an admitted unit never starts |
| `delegation_prune` | 2 calls of 1 monitored unit, 1 record kept | violated: a stalling record is dropped |
| `delegation_slot` | a call of 2 units and a call of 1, 1 slot | violated: the second unit is rejected |

*Bounds of the registry.* Every race of the registry is about one session and
the threads that work on it: its reader and at most two tool threads give every
pair of movers, every pair of markers, and every order of a kill, a query that
returns the output, the queued completion and its drain; the proofs below cover more. The
table is contended by two sessions and a cap of one place, where the cap, the
TTL and the eviction of the oldest all take effect. `MaxOld` bounds how many
sessions outlive the TTL and `MaxCrashes` how often the program restarts; ids
are never reused, so a session is spawned once. `Orphans` has the one session of
`registry_threads`, whose descendant may be silent at the process's end, fall silent
later or never do. Deadlock is not checked: with
every session ended and nothing asked for, the registry rests.

*Bounds of delegation.* Two calls contend for a slot, one of them with two
units, so that a slot is shared, given back between two dispatches and asked for
by the other; a cap of one place makes every prune of three units delete
something, and a cap of none (`delegation_ends`) every prune of two. Ids are
fresh, so a unit is dispatched once, and the ledger of `delegation_units` sees
three. One crash reaches every point of every thread, also of one whose calls
raise. `MaxFailures` bounds the calls that raise: two let the error path fail as
well. `Drained` names the units whose events are drained: one of the two in
`delegation_ends`. A consumer's steps touch the queue, the hand and the row of their
unit alone, so the other unit contributes its dispatch, prune and finalization, and
the proof holds for every `Drained`; none is needed in `delegation_units`, whose
properties do not look at what was delivered. Deadlock is not checked: when the calls
are over and every event is taken in, delegation rests.

*Bounds of the composed runs.*  Each component of `MCServices`, and each of
`MCExecution` next to delegation, has the smallest instance in which its races
happen:

| component | instance |
|---|---|
| `ApprovalQueue` | 2 checks of one command with an ordinary and a content finding, smart mode, 1 thread of the gateway: leader and follower, or two leaders; one answer, deadline, interrupt, unregistration or clearing between any two steps of either |
| `ClarifyPrompts` | 2 prompts of one chat, one open-ended, one without a deadline; a typed reply to either |
| `SlashConfirm` | 2 confirmations of one session, 2 callbacks at a time, stale after 1 second of 3 |
| `DelegationDelivery` | 1 row that may be deleted, 2 processes, lease 1, 3 attempts, replay age 3, time up to 4, 3 starts: a lease expires twice and both processes restart |
| `WatchLimiter` | 2 sessions, one promised a notice at its spawn, 2 strikes, 3 hits, breaker of 1 per 2 seconds with a pause of 2, time up to 4: the breaker trips and releases, a session is disabled by strikes and one by the cap |
| `FileState` | 2 agents, 2 files, one of them edited from outside, edits of one or both, 3 calls or outside edits: read, stale edit and second look |
| `MCPSession` | both transports, 1 caller, budgets of 1: every budget is used up, and a caller, a refresh and the task compete for the session |
| `CodeKernel` | 2 cells, 2 keys of different owners, cap of 1 kernel: two cells on one kernel, or two kernels for one place |
| `FileSync` | 2 files, one of them a credential, each on the host, in the sandbox, on both sides in one or two versions, or nowhere at the start, 2 attempts, 4 writes |

More cells, keys and files are covered by the proofs. After what the host has at
the start there are three saves, of either side and at any point of a cycle or a
sync-back, and two attempts allow a sync-back that fails and is made again.
`MaxCalls`, `MaxNow`, `MaxClock`, `MaxSeconds`, `MaxStarts`, `MaxWrites` are
bounds of the models; all else is a constant of the code or an actor. No theorem
assumes more of a bound than that it is a number. Deadlock is not checked, as
agents and humans may do nothing more.

*Fairness.* For the registry, weak fairness of each reader and of each tool
thread inside a call: the operating system schedules threads that have something
to do. Nothing is assumed of the agent, the processes, their descendants, the
clock, the drain or crashes: a reader that a descendant's output keeps is not
made to end, and `Announced` does not count on it. For delegation, weak fairness
of the steps of a call in progress, of each worker except for the return of its
runner, of the monitor, and of the end of a grace window, which is time passing.
Agents, children, conversations and crashes owe nothing. For approvals, weak
fairness of the steps of each guard call (its thread runs on, and polls its
event) and of `Answer` (a gateway thread that has taken entries out finishes its
loop). Humans, deadlines, interrupts, the end of a run and clearings may never
come. Of the other components no liveness is claimed: their waits end by
deadlines or by what an outside party does.

*What the violated runs show.*

1. `_track_started` starts the reader before it registers the session
   (`process_registry.py:790`), and `spawn_background_process` sets
   `notify_on_complete` after that.  A command that ends in between is moved by
   a reader that finds nothing to pop: no completion, and the session is then
   registered as running, in both tables.
2. `wait`, `read_log` and `kill_process` mark the name the agent used, and `get`
   accepts a unique prefix.  The drain looks for the full id.
3. The checkpoint of a spawn is written before the routing and the flag are set
   (`terminal_tool_background.py:176`), and nothing writes it again until another
   session moves or spawns.
4. The pool is sized by live units (`async_delegation.py:586`).  A unit the
   monitor has force-finalized is not live, but its runner still holds its thread:
   the next unit is admitted and waits behind it for good.
5. `_prune_completed_locked` (`async_delegation.py:509`) drops every record that
   is not `running`.  A stalling one has no `completed_at`, so it is among the
   oldest; neither its worker nor the monitor then finds it.
6. A call's slot is its own only while one of its units is active
   (`async_delegation.py:578`): a later unit can be capacity-rejected, which
   `delegate_tool_dispatch.py:400` excludes.
7. The monitor decides to return from what its last sweep saw, and
   `_ensure_stale_monitor` goes by `is_alive()` under another lock
   (`async_delegation.py:794`).  A unit dispatched in between finds the thread
   alive and starts none; nobody watches it until the next monitored dispatch.
   It is no exception to `RecordsAttended`: a record that is already stalling
   keeps the monitor alive, one that is running has its worker.

## Proofs

`ProcessRegistryProofs` proves, for all sessions, threads, kinds and bounds that
satisfy `RegistryAssumption` (which TLC evaluates in every run):

| theorem | states |
|---|---|
| `TypeCorrect` | `Spec => []TypeOK` |
| `AnnouncedOnce` | `Spec => []CompletionOnce` |
| `KillsStick` | `Spec => KillSticks` |
| `LiveTracked` | `Spec => []LiveIsTracked` |
| `ReturnedOnce` | `Spec => NoDuplicate` |
| `RoomIsMade` | `Spec => EvictBeforeGrow` |
| `NobodyForgotten` | `Spec => []RunningAttended` |

The argument.  None of these invariants is inductive: each is about a moment
between two steps of a thread that has taken a decision and not yet acted.
`JobInv` says which session a busy thread works on and that a session never
spawned is nowhere.  On it rest

- `OnceInv`: the right to announce a session is held in one place: by the thread
  about to register it, by the table `_running`, by the one thread that took it
  out (`popped`), or it has been spent.  Every step hands the right on or leaves
  it (`Keeps`), so nobody can spend it twice.
- `LiveInv`: no thread is at a step that declares a live host process dead but the
  one that kills it, so every other declaration is preceded by the death it declares,
  and a kill leaves its reason.
- `MarkInv`: a thread that looks at a session looks at one the tables hold or a
  prune dropped, and output returned under an id stays marked under it until
  then, so the drain skips it.
- `FiniteInv`: the tables are finite, although `Session` need not be.  So a
  finished session that is oldest exists (`OldestExists`, by well-foundedness of
  the strict subsets of a finite set), and the prune that the cap calls for always
  finds one to drop.
- `AttendInv`: what is registered, or about to be, has its reader, the queries or a
  mover.  A step that leaves a session (`Attends`) leaves it moved, about to be
  moved, or as it was.

Each is shown for the initial states, for a step of a thread (lemmas
`ThreadAdvances`, `ThreadTouches`, `ThreadKeeps`, `ThreadKeepsKill`,
`ThreadSpares`, `ThreadRetains`, one step per action), for a new call and for
the environment.  `KillsStick` and `ReturnedOnce` are action properties that
follow from these invariants.

`AsyncDelegationProofs` proves, for all units, calls, plans and caps that satisfy
`DelegationAssumption`:

| theorem | states |
|---|---|
| `TypeCorrect` | `Spec => []TypeOK` |
| `OneEventPerUnit` | `Spec => []PublishedOnce` |
| `OutcomesSurvive` | `Spec => []Survives` |
| `SlotsStayBounded` | `Spec => []SlotsBounded` |
| `Implements` | `Spec => KeepsContract` |
| `NoRecordLeftOpen` | `Spec => []RecordsAttended` |
| `PoolKeepsUp` | `Spec => []PoolServes` |

The argument.  One inductive invariant, `Inv`, carries all but the last two; its
parts need each other.

- `FreshInv`: nothing has happened to the units a call has yet to dispatch
  (`Ahead`).  Ids are fresh, so no two calls dispatch one unit.
- `DispatchInv`: the unit a call is dispatching is running, unstarted and
  nobody's but the call's until it is submitted; after a failed submit it has no
  record, so that a worker which runs it all the same cannot claim it; once its
  row is written it is there.
- `RowInv`: an active unit that was submitted has its row, running.
- `StallInv`: only started units are stalled and taken up by the monitor, so the
  monitor never claims a unit that waits for a thread (`QueuedInv`).
- `ClaimInv`: an active record means that nothing of the unit was seen by anyone
  (`Clean`); at most one thread has claimed a unit and not published it
  (`Finalizes`), and then the record is not active.
- `SpentInv`: an event is published once and drained once; who has claimed or
  injected a result holds the only copy of its event, and its row is pending or gone;
  a delivered row has no event left; what is on the queue, in a hand, or promised has
  its row, or had it deleted by a prune (`Owed`).

The right to publish a unit's result is thus in one place: with its active
record, with the one thread that claimed it, or spent.  `Kept` says what a step
leaves of a unit it is not about (its row or its record may be pruned), and
`StepKeeps` that the invariant of such units survives; a step of a call is then
about the call's current unit (`CallKeeps`), a step of a worker, the monitor or a
conversation about a unit something has happened to (`WorkKeeps`, `Aside`), or
about none (`QuietKeeps`).  `SlotsBounded` grows at `Admit` only.  For
`Implements`, each step maps to a step of `ResultContract` or a stutter
(`ContractStep`, one lemma for each action that moves a stage): the invariant
excludes that a finalizer turns a settled or taken row back into a pending one and
that a result is claimed while another consumer of the same run has it; a prune
forgets settled rows, or keeps exactly the cap (`PruneForgets`); a dispatch that is
taken back was promised to nobody (`DeleteRowWithdraws`).

The last two add an invariant each to `Inv`.  `AttendInv` says who is at an open
record: a step hands its own record on (to the pool, the worker, the monitor or
the thread that claimed it) and leaves the others to whoever was at them
(`Attends`).  That a stalling record keeps the monitor needs `anyLeft`, what its
pass has found: set whenever it stalls a record, cleared only by a sweep
that finds none.

`PoolInv` is about counts that calls read under the lock and use after it.
`Coming` are the units admitted and not yet submitted, and `Above(n)` those among
them whose call counted more than `n` live units.  `AboveInv`: for every `n` from
the size of the pool on, at most `n` plus the number of `Above(n)` units are live,
and no call on its way counted more; for of the units beyond the `n`th each raised
the count its own call read.  `ServedInv`: when units wait and no thread is free,
the pool is no larger than its threads with those to come, and so is every
count.  Once no unit is coming, every thread the pool may have is there.  `SizedInv`
and `GrownInv` are the first pool and the order of growing and submitting.
`ServedInv` alone is not inductive: a call that counted early may grow the pool
late, and only `AboveInv` says by how much.

The smaller components have their theorems, each for all instances that satisfy
the assumption of the module (`ApprovalAssumption` and so on):

| module | theorem | states |
|---|---|---|
| `ApprovalQueueProofs` | `ApprovalTyped` | the type invariant |
| | `AnswersAreConsent` | `ApprovalSpec => []Consented` |
| | `OnceIsOnce` | `ApprovalSpec => []OnceForOne` |
| | `MemoryIsEarned` | `ApprovalSpec => []KeysEarned` |
| | `WaitsAreAnswerable` | `ApprovalSpec => []Answerable` |
| `ServicesProofs` | `RepliesAreReturned` | `ClarifySpec => []AcceptedIsReturned` |
| | `PromptsAreFindable` | `ClarifySpec => []PromptFindable` |
| | `HandlersRunOnce` | `SlashSpec => []HandlerOnce` |
| | `ServicesTyped` | `ServicesSpec => []ServicesTypeOK` |
| | `OneAtATime` | `ServicesSpec => TogetherSpec` |
| | `PromisesHold` | `TogetherSpec => []Promises` |
| `FileStateProofs` | `PathsAreExclusive` | `FileSpec => []PathExclusive` |
| | `ClobbersAreWarned` | `FileSpec => []ClobberWarned` |
| | `StubsAreCurrent` | `FileSpec => []StubIsCurrent` |
| | `LocksNeverStand` | `FileSpec => []SomeoneMoves` |
| `MCPSessionProofs` | `McpTyped` | the type invariant |
| | `FlappersPark` | `McpSpec => []FlapperParks` |
| | `ReadyIsFresh` | `_ready` is clear while an HTTP server connects |
| | `RequestsAreKept` | `McpSpec => []RequestsKept` |
| `SandboxProofs` | `SyncTyped`, `KernelTyped` | the type invariants |
| | `SavesAreKept` | `SyncSpec => []SavesKept` |
| | `KernelsAreOwned` | `KernelSpec => []KernelsOwned` |
| | `RepliesAreOwn` | `KernelSpec => []OwnReply` |
| `ExecutionProofs` | `SilenceIsExplained` | `WatchSpec => []SilenceExplained` |
| | `PromiseIsKept` | `WatchSpec => []PromiseKept` |
| | `FloodIsAccounted` | `WatchSpec => []FloodAccounted` |
| | `DeliveryTyped` | the type invariant |
| | `LeaseIsExclusive` | `DeliverySpec => []LeaseHeld` |
| | `DeliveredOncePerLease` | `DeliverySpec => []InjectedOnce` |
| | `PartByPart` | `ExecutionSpec => SideBySide` |
| | `PledgesHold` | `SideBySide => []Pledges /\ KeepsContract` |

Their arguments, by the inductive invariant of each:

- *Approvals.*  The right to a grant is followed from the human to the command.
  `FreshOK`: a check without an entry is nowhere and was answered by nobody.
  `QueueOK`: what is queued has not been answered and is in no hand.  `HandOK`: a
  grant that a gateway thread hands out was issued for each entry it holds, and
  `ResultOK`: so was a grant found in an entry.  `FollowOK`: a follower's request is
  identical to one that was entered; `OwnOK`: from its own entry on a check waits
  for itself.  `GrantOK` then gives `Consented`, and that a "once" stays with the
  leader; `SavingOK` and `KeysOK` carry the grant into memory and file, `ReachOK`
  keeps a waiting entry within reach.
- *Prompts.*  `ClarifyInv` ties an accepted reply to the response that is kept from
  then on (`ResponseOK`) and a waiting thread to its place in both tables
  (`PlaceOK`, `ChatOwnOK`); `OrderOK` keeps the prompts registered so far finite, so
  that their numbers are defined.  `SlashInv`: the handler of a pending prompt was
  not run and nobody is about to run it, so that the one who takes it out is the
  only one.
- *Notifications.*  `WatchInv`: between its two lock sections a reader that has
  disabled its session owes exactly one explanation (`SilenceOK`); who disabled a
  session set its flag before the move could read it (`PledgeOK`).  For the lease:
  a token is an attempt made, later tokens were taken later, and an earlier one is
  still held only if its lease was over (`TokenOK`, `TokensDiffer`); an injection
  is charged to the first claim, to a takeover, or to the process that claimed without
  a row (`SpentOK`), which does so once, since nobody queues a row that is gone.
- *Files.*  `EntryOK` and `JoinOK`: the users of a path count those who joined its
  present lock object, so the object is dropped only when nobody holds or awaits
  it.  `RankOK`: what an edit holds comes before what it wants; with `WaitOK`, that
  who waits has joined a lock, the agent that waits for the highest path waits for
  one that moves, which is `SomeoneMoves` without any bound on agents or paths.
  `SeenOK`, `WarnOK`, `ShownOK` relate every record to what its agent has really
  seen, or to the exceptions.
- *MCP.*  `BudgetOK` bounds the attempts by the counters of the code and the state
  of the task; `FirstOK` says what holds before the first session, `HttpOK` what
  `_ready` may be while a server connects.
- *Synchronisation.*  `SandboxOK`: what lies in the sandbox was written there, or
  is what the manager has uploaded, or is `torn`; `PulledOK` says the same of what a
  sync-back applies.  `KeysOK`: a cycle uploads the files it has new keys of.
  `CurrentOK` with `FreshOK` (the next write differs from all seen so far): a key
  that is still the file's stands for the copy taken since.  `MountsOK`: credentials
  that were or are being pushed are remembered.
- *Kernels.*  `CountOK`: `attached` is the number of calls between acquisition and
  detachment.  `SweptOK`: what a sweep took out has none of them, is out of the
  table and so never gets one.  `LockOK` lets one cell at a time inside a kernel, so
  that `PipesOK`: the pipes hold the code or the reply of that cell only, since
  every way to leave without the reply ends the process; `HeardOK`: what a cell
  hears first is its own reply or the end of the output.  `NewOK`, `OneKeyOK`,
  `OwnedOK` account for every process.

- *Together.*  `TogetherSpec` and `SideBySide` are the components side by side,
  their steps in any order, also two at once.  `OneAtATime` and `PartByPart`: what
  `MCServices` and `MCExecution` do is such an order, so what is proved of a
  component is proved of the very specification its run checks.  `Promises` and
  `Pledges` are the conjunctions of what the components promise.  Fairness plays no
  part in them: `ApprovalSafe` and `DelegationSafe` do without it.

Model-checked only: `Announced`, `Reported`, `StallEnds` and `AnswersArrive`,
which are liveness properties.  Every other property of a passing run is stated
by a theorem.  The type invariants of `ClarifyPrompts`, `SlashConfirm` and
`FileState` are parts of `ServicesTyped`, that of `WatchLimiter` of its inductive
invariant.  The seven violated claims are counterexamples.

## Not modelled

The modules stand for about 3 700 of the 97 000 lines of the tool layer.  Most of
the rest has no state of its own that two actors share: clients of browsers,
speech, images, search and messaging services, parsing and formatting of their
data, schemas of tools, configuration, detection patterns, guidance text, skills'
scripts that each do one request and end.  For those a model would restate the
code, and a test reaches them.  What does keep shared state and is left out:

- Of the registry: output text and its truncation, exit codes, pids and their
  reuse, stdin writes, the read-only listings, systemd scopes, wording.
- Of delegation: the partial results a multi-child unit records before it ends,
  interim failure notices, interrupts, an import that fails while an event is
  pushed.
- Of approvals: the panel of the command line, plugin transports, unattended
  contexts, the denial tally, the other callers of the same queue.
- Of file state: eviction at the caps, the not-found cache, the counters that stop
  loops, `forget_task`, `writes_since`, the shell back ends that read and write.
- Of MCP: the circuit breaker, OAuth, the pids of stdio children and their reaping,
  the ping fallback, servers without tools, servers connected lazily from a cached
  schema, suspicion, the cancellation of an HTTP task group.
- Of kernels: tool calls of a cell and the authority they run under, output
  buffers, the watchdog for a dead parent, the Windows paths, remote kernels.
- Of synchronisation: the file lock between managers, the deferral of SIGINT, the
  cap on a download, the rate limit; the directories of files are one.

The components marked `not_modelled` in `PROJECT.json` give their reasons there;
those the plan names follow.

## Plan

1. The cache of environments of `terminal_tool_lifecycle.py` with its idle reaper,
   of the shape of `CodeKernel`.
2. `StateSync`: two overlapping runs of the backup workflow.
3. The partial results of `record_unit_child` and the interim notices.
4. Eviction in `FileState` against a reference definition of a stale write.
5. The authority under which a tool call of a given-up cell runs.
