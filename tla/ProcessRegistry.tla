--------------------------- MODULE ProcessRegistry ---------------------------
(***************************************************************************)
(* The background-process registry of the tool layer (process_registry.py) *)
(* and the tool handler that spawns into it (terminal_tool_background.py): *)
(* sessions, the reader thread of each, the tool threads that spawn, poll, *)
(* wait for, read and kill them, the completion queue that a conversation  *)
(* drains, the pruning of finished sessions, and the crash-recovery        *)
(* checkpoint.                                                             *)
(*                                                                         *)
(* A step is what a thread does between two points where another thread    *)
(* may run: one lock section, one file write, one assignment that other    *)
(* threads read.  Output text, exit codes, pids and clock values are left  *)
(* out; a session's age is the pair of abstract facts "started more than   *)
(* the TTL ago" and "finished more than the TTL ago".                      *)
(***************************************************************************)
EXTENDS Integers, FiniteSets

CONSTANTS
  Session,        \* ids of the sessions that may be spawned (proc_...)
  Tool,           \* threads that run tool calls
  Kind,           \* Kind[s]: how s is started, see Kinds
  ClosesOutput,   \* local sessions whose program closes its stdout and runs on
  Orphans,        \* host sessions that leave descendants which write to its output
  Queries,        \* how the agent may name a session: its id or a unique prefix
  Calls,          \* the calls an agent makes: subset of poll, wait, log, kill, reap
  MaxProcesses,   \* MAX_PROCESSES
  MaxOld,         \* bound: how many sessions become older than the TTL
  MaxCrashes      \* bound: how often the whole program dies and restarts

Kinds == {"local", "adopted", "sandbox"}

ASSUME RegistryAssumption ==
  /\ Session \cap Tool = {}
  /\ Session # {}
  /\ Kind \in [Session -> Kinds]
  /\ ClosesOutput \subseteq {s \in Session : Kind[s] # "sandbox"}
  /\ Orphans \subseteq {s \in Session : Kind[s] # "sandbox"}
  /\ Queries \subseteq {"id", "prefix"}
  /\ Calls \subseteq {"poll", "wait", "log", "kill", "reap"}
  /\ MaxProcesses \in Nat \ {0}
  /\ MaxOld \in Nat
  /\ MaxCrashes \in Nat

\* The reader (or sandbox poller) thread of a session goes by the session's id.
Thread == Session \cup Tool

Reason == {"exited", "killed", "lost", "failed_start"}
Entry  == {"absent", "silent", "notify"}
Query  == Session \X {"id", "prefix"}

VARIABLES
  running,     \* _running: ids of the sessions believed to run
  finished,    \* _finished: ids of the sessions known to have ended
  exited,      \* sessions whose flag "exited" is set
  reason,      \* reason[s]: completion_reason
  notify,      \* sessions whose flag "notify_on_complete" is set
  detached,    \* sessions recovered from the checkpoint
  rank,        \* rank[s]: position of s in the order of started_at, 0 if never spawned
  spawned,     \* how many sessions were spawned so far
  old,         \* sessions of rank 1..old were started more than the TTL ago
  alive,       \* sessions whose operating-system process runs
  consumed,    \* _completion_consumed: the names under which output was fetched
  observed,    \* _poll_observed: the names under which poll reported an exit
  queue,       \* queue[s]: completion events of s in completion_queue
  file,        \* the checkpoint file: file[s] is the entry of s
  pc,          \* pc[t]: the next step of thread t
  job,         \* job[t]: what t works on
  popped,      \* threads whose move took the session out of _running
  snap,        \* snap[t]: the checkpoint t has taken and not yet written
  noisy,       \* sessions whose descendants write on when the process has ended
  crashes,     \* restarts so far
  announced,   \* history: completion events of s ever queued in this run of the program
  delivered,   \* history: completion events of s handed to the conversation
  inHand,      \* history: names under which a call returned the final output
  dropped      \* history: sessions a prune has removed

store   == <<running, finished>>
flags   == <<exited, reason, notify, detached>>
age     == <<rank, spawned, old, dropped>>
marks   == <<consumed, observed, inHand>>
events  == <<queue, announced, delivered>>
threads == <<pc, job, popped, snap>>
vars    == <<store, flags, age, alive, marks, events, file, threads, noisy, crashes>>

Ops == {"exit", "spawn", "poll", "wait", "log", "kill", "reap", "killed", "gone"}
PCs == {"idle", "register", "checkpoint", "store", "flags", "look", "mark", "act",
        "signal", "markKilled", "move", "snapshot", "save", "queue", "reading",
        "polling"}

Job    == [s : Session, op : Ops, q : {"id", "prefix"}, want : BOOLEAN]
NoJob  == [s |-> CHOOSE s \in Session : TRUE, op |-> "poll", q |-> "id", want |-> FALSE]
NoFile == [s \in Session |-> "absent"]

TypeOK ==
  /\ running \subseteq Session /\ finished \subseteq Session
  /\ exited \subseteq Session /\ notify \subseteq Session /\ detached \subseteq Session
  /\ reason \in [Session -> Reason]
  /\ rank \in [Session -> Nat] /\ spawned \in Nat /\ old \in Nat
  /\ alive \subseteq Session
  /\ consumed \subseteq Query /\ observed \subseteq Query /\ inHand \subseteq Query
  /\ queue \in [Session -> Nat]
  /\ announced \in [Session -> Nat] /\ delivered \in [Session -> Nat]
  /\ file \in [Session -> Entry]
  /\ pc \in [Thread -> PCs]
  /\ job \in [Thread -> Job]
  /\ popped \subseteq Thread
  /\ snap \in [Thread -> [Session -> Entry]]
  /\ noisy \subseteq Session /\ crashes \in Nat
  /\ dropped \subseteq Session

Init ==
  /\ running = {} /\ finished = {}
  /\ exited = {} /\ notify = {} /\ detached = {}
  /\ reason = [s \in Session |-> "exited"]
  /\ rank = [s \in Session |-> 0] /\ spawned = 0 /\ old = 0
  /\ dropped = {}
  /\ alive = {}
  /\ consumed = {} /\ observed = {} /\ inHand = {}
  /\ queue = [s \in Session |-> 0]
  /\ announced = [s \in Session |-> 0] /\ delivered = [s \in Session |-> 0]
  /\ file = NoFile
  /\ pc = [t \in Thread |-> "idle"]
  /\ job = [t \in Thread |-> NoJob]
  /\ popped = {} /\ snap = [t \in Thread |-> NoFile]
  /\ noisy = Orphans /\ crashes = 0

-----------------------------------------------------------------------------
(* Helpers *)

Tracked == running \cup finished
Goto(t, step) == pc' = [pc EXCEPT ![t] = step]
Return(t) == Goto(t, "idle") /\ job' = [job EXCEPT ![t] = NoJob]
Mine(t) == job[t].s
Name(t) == <<job[t].s, job[t].q>>

\* Mutant of MarkExited: the reason is overwritten without a look at what it was.
MarkExitedBlindly(s) == exited' = exited \cup {s} /\ reason' = [reason EXCEPT ![s] = "exited"]

\* mark_exited: a kill that was recorded first keeps its reason.
MarkExited(s) ==
  /\ exited' = exited \cup {s}
  /\ reason' = [reason EXCEPT ![s] = IF @ = "killed" THEN "killed" ELSE "exited"]

\* _prune_if_needed: drop the sessions past the TTL, which is counted from
\* started_at, then the oldest survivor if the table is full; forget the marks
\* of names that are no longer (full) ids of tracked sessions.
Overdue == {s \in finished : rank[s] <= old}

\* Mutant of OverCap: room is made only once the tables hold more than the maximum.
OverCapLate == Cardinality(running) + Cardinality(finished) - Cardinality(Overdue) > MaxProcesses

OverCap == Cardinality(running) + Cardinality(finished) - Cardinality(Overdue) >= MaxProcesses
Oldest(S) == {s \in S : \A u \in S : rank[s] <= rank[u]}
Dropped == Overdue \cup (IF OverCap THEN Oldest(finished \ Overdue) ELSE {})

Prune ==
  LET kept == {<<s, "id">> : s \in running \cup (finished \ Dropped)}
  IN  /\ finished' = finished \ Dropped
      /\ consumed' = consumed \cap kept
      /\ observed' = observed \cap kept
      /\ dropped' = dropped \cup Dropped

\* What _write_checkpoint collects under the lock.
Snapshot ==
  [s \in Session |-> IF s \in running \ exited
                     THEN IF s \in notify THEN "notify" ELSE "silent"
                     ELSE "absent"]

-----------------------------------------------------------------------------
(* Spawning *)

NewSession(s) ==
  /\ rank[s] = 0
  /\ rank' = [rank EXCEPT ![s] = spawned + 1]
  /\ spawned' = spawned + 1
  /\ UNCHANGED <<old, dropped>>

\* spawn_local, spawn_via_env and adopt_local up to _track_started: the process
\* runs and its reader thread is started, the registry does not know it yet.
Spawn(t, s, want) ==
  /\ pc[t] = "idle"
  /\ NewSession(s)
  /\ alive' = alive \cup {s}
  /\ pc' = [pc EXCEPT ![t] = "register", ![s] = "reading"]
  /\ job' = [job EXCEPT ![t] = [s |-> s, op |-> "spawn", q |-> "id", want |-> want],
                        ![s] = [s |-> s, op |-> "exit", q |-> "id", want |-> FALSE]]
  /\ notify' = IF Kind[s] = "adopted" THEN notify \cup {s} ELSE notify
  /\ UNCHANGED <<store, exited, reason, detached, marks, events, file, popped, snap, noisy, crashes>>

\* spawn_via_env when the sandbox returns no pid: the session is handed out
\* without a reader and without being stored.
SpawnFails(t, s, want) ==
  /\ pc[t] = "idle"
  /\ Kind[s] = "sandbox"
  /\ rank[s] = 0
  /\ rank' = [rank EXCEPT ![s] = spawned + 1]
  /\ spawned' = spawned + 1
  /\ exited' = exited \cup {s}
  /\ reason' = [reason EXCEPT ![s] = "failed_start"]
  /\ Prune
  /\ Goto(t, "flags")
  /\ job' = [job EXCEPT ![t] = [s |-> s, op |-> "spawn", q |-> "id", want |-> want]]
  /\ UNCHANGED <<running, notify, detached, old, alive, inHand, events, file, popped,
                 snap, noisy, crashes>>

\* The locked section of _track_started.
Register(t) ==
  /\ pc[t] = "register"
  /\ Prune
  /\ running' = running \cup {Mine(t)}
  /\ Goto(t, "checkpoint")
  /\ UNCHANGED <<flags, rank, spawned, old, alive, inHand, events, file, job, popped,
                 snap, noisy, crashes>>

\* spawn_background_process after the spawn: only now is the flag set.  For an
\* adopted session the flag is set already; it is cleared when the conversation
\* cannot be called back.
SetFlags(t) ==
  /\ pc[t] = "flags"
  /\ \/ Kind[Mine(t)] = "adopted" /\ notify' = notify \ {Mine(t)}
     \/ Kind[Mine(t)] # "adopted" /\ job[t].want /\ notify' = notify \cup {Mine(t)}
     \/ (Kind[Mine(t)] = "adopted" \/ ~job[t].want) /\ UNCHANGED notify
  /\ Return(t)
  /\ UNCHANGED <<store, exited, reason, detached, age, alive, marks, events, file,
                 popped, snap, noisy, crashes>>

-----------------------------------------------------------------------------
(* The checkpoint: collected under the lock, written outside it *)

\* "snapshot" is the write of a move, "checkpoint" the one of a spawn or the
\* second one of a kill.
CollectEntries(t) ==
  /\ \/ pc[t] = "snapshot"   /\ Goto(t, "save")
     \/ pc[t] = "checkpoint" /\ Goto(t, "store")
  /\ snap' = [snap EXCEPT ![t] = Snapshot]
  /\ UNCHANGED <<store, flags, age, alive, marks, events, file, job, popped, noisy, crashes>>

WriteFile(t) ==
  /\ \/ pc[t] = "save" /\ Goto(t, "queue") /\ UNCHANGED job
     \/ pc[t] = "store" /\ job[t].op = "spawn" /\ Goto(t, "flags") /\ UNCHANGED job
     \/ pc[t] = "store" /\ job[t].op # "spawn" /\ Return(t)
  /\ file' = snap[t]
  /\ snap' = [snap EXCEPT ![t] = NoFile]
  /\ UNCHANGED <<store, flags, age, alive, marks, events, popped, noisy, crashes>>

-----------------------------------------------------------------------------
(* _move_to_finished, called by readers, reconciliation and kills *)

\* Mutant of Move: every move may announce, not only the one that took the
\* session out of _running.
MoveAnnounces(t) ==
  /\ pc[t] = "move"
  /\ popped' = popped \cup {t}
  /\ running' = running \ {Mine(t)} /\ finished' = finished \cup {Mine(t)}
  /\ Goto(t, "snapshot")
  /\ UNCHANGED <<flags, age, alive, marks, events, file, job, snap, noisy, crashes>>

Move(t) ==
  /\ pc[t] = "move"
  /\ popped' = IF Mine(t) \in running THEN popped \cup {t} ELSE popped
  /\ running' = running \ {Mine(t)}
  /\ finished' = finished \cup {Mine(t)}
  /\ Goto(t, "snapshot")
  /\ UNCHANGED <<flags, age, alive, marks, events, file, job, snap, noisy, crashes>>

\* Mutant of QueueCompletion: only a reader announces.
QueueFromReader(t) ==
  /\ pc[t] = "queue"
  /\ \/ /\ t \in popped \cap Session /\ Mine(t) \in notify
        /\ queue' = [queue EXCEPT ![Mine(t)] = @ + 1]
        /\ announced' = [announced EXCEPT ![Mine(t)] = @ + 1]
     \/ ~(t \in popped \cap Session /\ Mine(t) \in notify) /\ UNCHANGED <<queue, announced>>
  /\ popped' = popped \ {t}
  /\ \/ job[t].op \in {"exit", "gone"} /\ Return(t)
     \/ job[t].op = "killed" /\ Goto(t, "checkpoint") /\ UNCHANGED job
     \/ job[t].op \notin {"exit", "gone", "killed"} /\ Goto(t, "act") /\ UNCHANGED job
  /\ UNCHANGED <<store, flags, age, alive, marks, delivered, file, snap, noisy, crashes>>

\* The completion is queued by the thread that took the session out of
\* _running; then the caller goes on: a reader ends, a kill writes the
\* checkpoint again, a query looks at the session.
QueueCompletion(t) ==
  /\ pc[t] = "queue"
  /\ \/ /\ t \in popped /\ Mine(t) \in notify
        /\ queue' = [queue EXCEPT ![Mine(t)] = @ + 1]
        /\ announced' = [announced EXCEPT ![Mine(t)] = @ + 1]
     \/ /\ ~(t \in popped /\ Mine(t) \in notify)
        /\ UNCHANGED <<queue, announced>>
  /\ popped' = popped \ {t}
  /\ \/ job[t].op \in {"exit", "gone"} /\ Return(t)
     \/ job[t].op = "killed" /\ Goto(t, "checkpoint") /\ UNCHANGED job
     \/ job[t].op \notin {"exit", "gone", "killed"} /\ Goto(t, "act") /\ UNCHANGED job
  /\ UNCHANGED <<store, flags, age, alive, marks, delivered, file, snap, noisy, crashes>>

-----------------------------------------------------------------------------
(* Reader threads *)

\* _reader_loop and _pty_reader_loop end at EOF, or when the child has exited and
\* the pipe stays idle for a while: whoever else writes to it keeps them reading.
\* _finish_reader waits a while for the child and records the exit whether or not
\* the wait succeeded.
ReaderEnds(s) ==
  /\ pc[s] = "reading"
  /\ Kind[s] # "sandbox"
  /\ s \notin noisy
  /\ s \notin alive \/ s \in ClosesOutput
  /\ MarkExited(s)
  /\ Goto(s, "move")
  /\ UNCHANGED <<store, notify, detached, age, alive, marks, events, file, job, popped,
                 snap, noisy, crashes>>

\* _env_poller_loop: the head of the loop.
PollerWakes(s) ==
  /\ pc[s] = "reading"
  /\ Kind[s] = "sandbox"
  /\ \/ s \in exited /\ Return(s)
     \/ s \notin exited /\ Goto(s, "polling") /\ UNCHANGED job
  /\ UNCHANGED <<store, flags, age, alive, marks, events, file, popped, snap, noisy, crashes>>

PollerFindsAlive(s) ==
  /\ pc[s] = "polling"
  /\ s \in alive
  /\ Goto(s, "reading")
  /\ UNCHANGED <<store, flags, age, alive, marks, events, file, job, popped, snap, noisy, crashes>>

PollerFindsExit(s) ==
  /\ pc[s] = "polling"
  /\ s \notin alive
  /\ MarkExited(s)
  /\ Goto(s, "move")
  /\ UNCHANGED <<store, notify, detached, age, alive, marks, events, file, job, popped,
                 snap, noisy, crashes>>

\* Any exception of the backend: the session counts as lost, whatever was recorded.
PollerLosesBackend(s) ==
  /\ pc[s] = "polling"
  /\ exited' = exited \cup {s}
  /\ reason' = [reason EXCEPT ![s] = "lost"]
  /\ Goto(s, "move")
  /\ UNCHANGED <<store, notify, detached, age, alive, marks, events, file, job, popped,
                 snap, noisy, crashes>>

-----------------------------------------------------------------------------
(* Queries and kills *)

\* get: an exact id in either table, or a prefix that matches one entry only.
Resolves(s, q) ==
  IF q = "id" THEN s \in Tracked ELSE (s \in running) # (s \in finished)

Call(t, s, op, q) ==
  /\ pc[t] = "idle"
  /\ Resolves(s, q)
  /\ op = "reap" => q = "id" /\ s \in running \ exited
  /\ Goto(t, "look")
  /\ job' = [job EXCEPT ![t] = [s |-> s, op |-> op, q |-> q, want |-> FALSE]]
  /\ UNCHANGED <<store, flags, age, alive, marks, events, file, popped, snap, noisy, crashes>>

\* Mutant of SeesDeath: the session is reconciled without a look at the process.
SeesDeathBlindly(t) ==
  /\ Mine(t) \notin exited
  /\ Kind[Mine(t)] # "sandbox" /\ job[t].op \in {"poll", "wait"}

\* _refresh_detached_session for a recovered session, _reconcile_local_exit for
\* a local one that is polled or waited for.
SeesDeath(t) ==
  /\ Mine(t) \notin exited \cup alive
  /\ \/ Mine(t) \in detached
     \/ Kind[Mine(t)] # "sandbox" /\ job[t].op \in {"poll", "wait"}

Look(t) ==
  /\ pc[t] = "look"
  /\ \/ SeesDeath(t) /\ Goto(t, "mark")
     \/ ~SeesDeath(t) /\ Goto(t, "act")
  /\ UNCHANGED <<store, flags, age, alive, marks, events, file, job, popped, snap, noisy, crashes>>

\* Mutant of Mark: the end is recorded and the session left where it is.
MarkOnly(t) ==
  /\ pc[t] = "mark"
  /\ Goto(t, "act")
  /\ IF Mine(t) \in detached \cap exited THEN UNCHANGED <<exited, reason>>
                                        ELSE MarkExited(Mine(t))
  /\ UNCHANGED <<store, notify, detached, age, alive, marks, events, file, job, popped,
                 snap, noisy, crashes>>

Mark(t) ==
  /\ pc[t] = "mark"
  /\ \/ /\ Mine(t) \in detached \cap exited
        /\ Goto(t, "act") /\ UNCHANGED <<exited, reason>>
     \/ /\ Mine(t) \notin detached \cap exited
        /\ Goto(t, "move") /\ MarkExited(Mine(t))
  /\ UNCHANGED <<store, notify, detached, age, alive, marks, events, file, job, popped,
                 snap, noisy, crashes>>

PollReturns(t) ==
  /\ pc[t] = "act" /\ job[t].op = "poll"
  /\ observed' = IF Mine(t) \in exited THEN observed \cup {Name(t)} ELSE observed
  /\ Return(t)
  /\ UNCHANGED <<store, flags, age, alive, consumed, inHand, events, file, popped, snap,
                 noisy, crashes>>

\* Mutant of Consume: the mark goes to the set poll uses.
ConsumeAsObserved(t) ==
  /\ observed' = observed \cup {Name(t)}
  /\ inHand' = inHand \cup {Name(t)}
  /\ UNCHANGED consumed

\* The final output reaches the agent and the name it used is marked.
Consume(t) ==
  /\ consumed' = consumed \cup {Name(t)}
  /\ inHand' = inHand \cup {Name(t)}
  /\ UNCHANGED observed

WaitReturns(t) ==
  /\ pc[t] = "act" /\ job[t].op = "wait"
  /\ \/ Mine(t) \in exited /\ Consume(t)
     \/ Mine(t) \notin exited /\ UNCHANGED marks
  /\ Return(t)
  /\ UNCHANGED <<store, flags, age, alive, events, file, popped, snap, noisy, crashes>>

WaitGoesOn(t) ==
  /\ pc[t] = "act" /\ job[t].op = "wait"
  /\ Mine(t) \notin exited
  /\ Goto(t, "look")
  /\ UNCHANGED <<store, flags, age, alive, marks, events, file, job, popped, snap, noisy, crashes>>

\* read_log consumes only when the page shown reaches the end of the log.
LogReturns(t) ==
  /\ pc[t] = "act" /\ job[t].op = "log"
  /\ \/ Mine(t) \in exited /\ Consume(t)
     \/ UNCHANGED marks
  /\ Return(t)
  /\ UNCHANGED <<store, flags, age, alive, events, file, popped, snap, noisy, crashes>>

\* kill_process; "reap" is the kill of kill_all, which leaves the output to the
\* completion.
ConsumeKill(t) == IF job[t].op = "kill" THEN Consume(t) ELSE UNCHANGED marks

KillFindsExited(t) ==
  /\ pc[t] = "act" /\ job[t].op \in {"kill", "reap"}
  /\ Mine(t) \in exited
  /\ ConsumeKill(t)
  /\ Return(t)
  /\ UNCHANGED <<store, flags, age, alive, events, file, popped, snap, noisy, crashes>>

KillStarts(t) ==
  /\ pc[t] = "act" /\ job[t].op \in {"kill", "reap"}
  /\ Mine(t) \notin exited
  /\ Goto(t, "signal")
  /\ UNCHANGED <<store, flags, age, alive, marks, events, file, job, popped, snap, noisy, crashes>>

\* _signal_kill: the process may outlive it, where SIGTERM is ignored and no grace
\* is configured, the pid is refused, or the signal fails quietly; an exception
\* ends the call with an error.
Signal(t) ==
  /\ pc[t] = "signal"
  /\ ~(Mine(t) \in detached /\ Mine(t) \notin alive)
  /\ alive' \in {alive, alive \ {Mine(t)}}
  /\ \/ Goto(t, "markKilled") /\ UNCHANGED job
     \/ Return(t)
  /\ UNCHANGED <<store, flags, age, marks, events, file, popped, snap, noisy, crashes>>

\* _signal_kill on a recovered session whose process is gone.
SignalFindsGone(t) ==
  /\ pc[t] = "signal"
  /\ Mine(t) \in detached \ alive
  /\ exited' = exited \cup {Mine(t)}
  /\ ConsumeKill(t)
  /\ Goto(t, "move")
  /\ job' = [job EXCEPT ![t].op = "gone"]
  /\ UNCHANGED <<store, reason, notify, detached, age, alive, events, file, popped, snap,
                 noisy, crashes>>

\* Mutant of MarkKilled: the termination source is stored as the reason.
MarkKilledBySource(t) ==
  /\ pc[t] = "markKilled"
  /\ ConsumeKill(t)
  /\ exited' = exited \cup {Mine(t)}
  /\ reason' = [reason EXCEPT ![Mine(t)] = "process.kill"]
  /\ Goto(t, "move")
  /\ job' = [job EXCEPT ![t].op = "killed"]
  /\ UNCHANGED <<store, notify, detached, age, alive, events, file, popped, snap, noisy, crashes>>

MarkKilled(t) ==
  /\ pc[t] = "markKilled"
  /\ ConsumeKill(t)
  /\ exited' = exited \cup {Mine(t)}
  /\ reason' = [reason EXCEPT ![Mine(t)] = "killed"]
  /\ Goto(t, "move")
  /\ job' = [job EXCEPT ![t].op = "killed"]
  /\ UNCHANGED <<store, notify, detached, age, alive, events, file, popped, snap, noisy, crashes>>

-----------------------------------------------------------------------------
(* The conversation, the clock, the operating system *)

\* drain_notifications: events of other conversations are put back, completions
\* whose session is marked under its id are dropped, the others are handed over.
Drain(mine, skipObserved) ==
  LET skip == {s \in mine : \/ <<s, "id">> \in consumed
                            \/ skipObserved /\ <<s, "id">> \in observed}
  IN  /\ \E s \in mine : queue[s] > 0
      /\ queue' = [s \in Session |-> IF s \in mine THEN 0 ELSE queue[s]]
      /\ delivered' = [s \in Session |-> IF s \in mine \ skip THEN delivered[s] + queue[s]
                                         ELSE delivered[s]]
      /\ UNCHANGED <<store, flags, age, alive, marks, announced, file, threads, noisy, crashes>>

ProcessEnds(s) ==
  /\ s \in alive
  /\ alive' = alive \ {s}
  /\ UNCHANGED <<store, flags, age, marks, events, file, threads, noisy, crashes>>

\* Nobody writes to the output of s any more.  Nothing says that this ever happens.
FallsSilent(s) ==
  /\ s \in noisy /\ pc[s] = "reading"
  /\ s \notin alive \/ s \in ClosesOutput
  /\ noisy' = noisy \ {s}
  /\ UNCHANGED <<store, flags, age, alive, marks, events, file, threads, crashes>>

\* The next oldest session is now older than the TTL.
StartAges ==
  /\ old < spawned /\ old < MaxOld
  /\ old' = old + 1
  /\ UNCHANGED <<store, flags, rank, spawned, dropped, alive, marks, events, file, threads,
                 noisy, crashes>>

\* The program dies at any point and comes up again with
\* recover_from_checkpoint: host processes of the file that still run are taken
\* over as detached sessions, everything else in memory is gone.  Recovery runs
\* before any tool thread, so its checkpoint write is part of the step.
Restart(survivors) ==
  LET back == {s \in survivors : Kind[s] # "sandbox" /\ file[s] # "absent"}
  IN  /\ crashes < MaxCrashes
      /\ crashes' = crashes + 1
      /\ alive' = survivors
      /\ running' = back /\ finished' = {}
      /\ exited' = {} /\ detached' = back
      /\ reason' = [s \in Session |-> "exited"]
      /\ notify' = {s \in back : file[s] = "notify"}
      /\ dropped' = {}
      /\ consumed' = {} /\ observed' = {} /\ inHand' = {}
      /\ queue' = [s \in Session |-> 0]
      /\ announced' = [s \in Session |-> 0]
      /\ delivered' = [s \in Session |-> 0]
      /\ file' = [s \in Session |-> IF s \in back THEN file[s] ELSE "absent"]
      /\ pc' = [t \in Thread |-> "idle"]
      /\ job' = [t \in Thread |-> NoJob]
      /\ popped' = {} /\ snap' = [t \in Thread |-> NoFile]
      /\ UNCHANGED <<rank, spawned, old, noisy>>

-----------------------------------------------------------------------------

\* What a thread does on its own once it has started something.
Step(t) ==
  \/ CollectEntries(t) \/ WriteFile(t) \/ Move(t) \/ QueueCompletion(t)

ReaderStep(s) ==
  \/ Step(s)
  \/ ReaderEnds(s) \/ PollerWakes(s)
  \/ PollerFindsAlive(s) \/ PollerFindsExit(s) \/ PollerLosesBackend(s)

ToolStep(t) ==
  \/ Step(t)
  \/ Register(t) \/ SetFlags(t)
  \/ Look(t) \/ Mark(t)
  \/ PollReturns(t) \/ WaitReturns(t) \/ WaitGoesOn(t) \/ LogReturns(t)
  \/ KillFindsExited(t) \/ KillStarts(t) \/ Signal(t) \/ SignalFindsGone(t) \/ MarkKilled(t)

\* What the agent asks for.
Ask(t) ==
  \/ \E s \in Session, want \in BOOLEAN : Spawn(t, s, want) \/ SpawnFails(t, s, want)
  \/ \E s \in Session, op \in Calls, q \in Queries : Call(t, s, op, q)

Environment ==
  \/ \E mine \in SUBSET Session, skipObserved \in BOOLEAN : Drain(mine, skipObserved)
  \/ \E s \in Session : ProcessEnds(s) \/ FallsSilent(s)
  \/ StartAges
  \/ \E survivors \in SUBSET alive : Restart(survivors)

Next ==
  \/ \E s \in Session : ReaderStep(s)
  \/ \E t \in Tool : ToolStep(t) \/ Ask(t)
  \/ Environment

\* Threads that have something to do are scheduled; agents, processes, crashes
\* and the clock owe nothing.
Fairness ==
  /\ \A s \in Session : WF_vars(ReaderStep(s))
  /\ \A t \in Tool : WF_vars(ToolStep(t))

Spec == Init /\ [][Next]_vars /\ Fairness

-----------------------------------------------------------------------------
(* Properties *)

\* _move_to_finished promises that only the first move enqueues the completion:
\* readers, reconciling queries and kills that race for the same session never
\* queue two.
CompletionOnce == \A s \in Session : announced[s] <= 1

\* A live host process that the registry has taken over and that nobody has killed
\* stays in _running, unmarked, until it ends: no poll, wait, kill of another
\* session, reader or prune loses sight of it, or has_any_active would let the
\* gateway be suspended under it.  A process that survives its own kill is lost:
\* kill_process takes it for dead whatever the signal did.
BeingSpawned(s) == \E t \in Tool : pc[t] = "register" /\ job[t].s = s
Expected(s) ==
  s \in alive /\ Kind[s] # "sandbox" /\ s \notin ClosesOutput /\ reason[s] # "killed"
LiveIsTracked ==
  crashes = 0 => \A s \in Session : Expected(s) /\ ~BeingSpawned(s) => s \in running \ exited

\* mark_exited never overwrites the outcome of a kill on a host session, in
\* whatever order the reader, a reconciling query and the kill run.
KeepsKill ==
  \A s \in Session : Kind[s] # "sandbox" /\ reason[s] = "killed" /\ crashes' = crashes
                       => reason'[s] = "killed"
KillSticks == [][KeepsKill]_vars

\* A completion whose output a call has returned is not delivered again, as long
\* as the agent used the full id and no prune has dropped the session since.
SkipsReturned ==
  \A s \in Session \ dropped : <<s, "id">> \in inHand /\ crashes' = crashes
                                 => delivered'[s] = delivered[s]
NoDuplicate == [][SkipsReturned]_vars

\* A session that is registered with the flag set before anybody saw its exit is
\* announced once its process has ended and nobody else writes to its output, or
\* somebody polls or waits for it (unless the program dies or the conversation turns
\* out to be unable to take the call back).  A descendant that writes on holds the
\* reader for as long as it does, and without a query nothing announces the exit.
Promised(s) == s \in running \cap notify /\ s \notin exited \cup detached
Queried(s) == \E t \in Tool : pc[t] = "look" /\ job[t].s = s /\ job[t].op \in {"poll", "wait"}
Announced ==
  \A s \in Session :
    (Promised(s) /\ s \notin alive /\ (s \notin noisy \/ Queried(s)))
      ~> (announced[s] = 1 \/ crashes > 0 \/ s \notin notify)

\* Registering never grows the tables beyond MAX_PROCESSES while a finished
\* session is left that could have been dropped.
RoomMade ==
  \/ Cardinality(running') + Cardinality(finished')
       <= Cardinality(running) + Cardinality(finished)
  \/ Cardinality(running') + Cardinality(finished') <= MaxProcesses
  \/ running' = running
  \/ finished' = {}
EvictBeforeGrow == [][RoomMade]_vars

\* No session is forgotten in _running: its reader still watches it or the queries
\* do, since it was recovered; once its end is recorded a thread is about to move
\* it.  Only a session that was moved before it was registered has nobody.
Attended(s) ==
  \/ s \notin exited /\ (pc[s] \in {"reading", "polling"} \/ s \in detached)
  \/ \E t \in Thread : pc[t] = "move" /\ job[t].s = s
  \/ s \in finished \cup dropped
RunningAttended == \A s \in running : Attended(s)

-----------------------------------------------------------------------------
(* Claims of comments and docs that the code does not keep *)

Quiet(s) == pc[s] = "idle" /\ \A t \in Tool : pc[t] # "idle" => job[t].s # s

\* "Queue agent notification on exit": a session with notify_on_complete set that
\* has ended, and on which no thread is at work, has been announced.
NotifiesOnExit ==
  \A s \in notify \cap exited : crashes = 0 /\ Quiet(s) => announced[s] = 1

\* "Completions the agent already consumed via wait()/read_log() (output in hand):
\* drain loops AND gateway/tui watchers skip them", under whatever name it asked.
ConsumedIsSkipped ==
  [][\A s \in Session : (\E q \in {"id", "prefix"} : <<s, q>> \in inHand) /\ crashes' = crashes
        => delivered'[s] = delivered[s]]_vars

\* "Watcher/notification routing (persisted for crash recovery)": when nobody is
\* at work, the file holds every running session with the flag it has.
RoutingPersisted ==
  (\A t \in Thread : pc[t] \in {"idle", "reading"}) =>
    \A s \in running \ exited : file[s] = IF s \in notify THEN "notify" ELSE "silent"

=============================================================================
