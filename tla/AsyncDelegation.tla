--------------------------- MODULE AsyncDelegation ---------------------------
(***************************************************************************)
(* Background delegation (async_delegation.py) and the loop that splits a  *)
(* delegate_task call into units (delegate_tool_dispatch.py): records in   *)
(* memory, rows of the ledger on disk, the shared thread pool, one worker  *)
(* per unit, the stall monitor, the completion events, and crashes.        *)
(*                                                                         *)
(* A step is one lock section, one database transaction, or one call that  *)
(* other threads can see.  What a child does, its result and its routing   *)
(* are left out: a runner returns at some time or never, a unit's progress *)
(* is the fact "its token has been frozen for the threshold".              *)
(***************************************************************************)
EXTENDS Integers, FiniteSets, Sequences

CONSTANTS
  Unit,          \* delegation ids
  Call,          \* agent threads, each of which makes one delegate_task call
  Plan,          \* Plan[c]: the units of call c in the order they are dispatched
  Monitored,     \* units dispatched with a progress_fn
  Monitor,       \* the stall monitor's thread
  MaxAsync,      \* max_async_children
  MaxRetained,   \* _MAX_RETAINED_COMPLETED, the cap on records in memory
  MaxTerminal,   \* _MAX_RETAINED_COMPLETED, the cap on terminal rows
  Drained,       \* bound: the units whose events consumers drain
  MaxFailures,   \* bound: database or scheduler calls that raise
  MaxCrashes     \* bound: how often the program dies and restarts

ASSUME DelegationAssumption ==
  /\ Unit # {} /\ IsFiniteSet(Unit)
  /\ Plan \in [Call -> Seq(Unit)]
  /\ \A c \in Call : \A i, j \in 1..Len(Plan[c]) : Plan[c][i] = Plan[c][j] => i = j
  /\ \A c, d \in Call : \A i \in 1..Len(Plan[c]), j \in 1..Len(Plan[d]) :
        Plan[c][i] = Plan[d][j] => c = d
  /\ Monitored \subseteq Unit /\ Drained \subseteq Unit
  /\ Monitor \notin Unit
  /\ MaxAsync \in Nat \ {0} /\ MaxRetained \in Nat /\ MaxTerminal \in Nat
  /\ MaxFailures \in Nat /\ MaxCrashes \in Nat

VARIABLES
  rec,         \* rec[u]: status of u's record in _records, "none" if it has none
  started,     \* records with _started set
  stamp,       \* stamp[u]: when completed_at, else dispatched_at, was set
  slot,        \* slot[u]: slot_key of u's record
  quiet,       \* started units whose progress token is frozen past the threshold
  overdue,     \* stalling units past the grace window
  row,         \* row[u]: state and delivery_state of u's row in the ledger
  pool,        \* _executor_max_workers, 0 before the executor exists
  threads,     \* threads the executor has started; it never ends one
  backlog,     \* units submitted to the executor and not picked up
  call,        \* call[c]: next step of call c
  nth,         \* nth[c]: position in Plan[c] of the unit c dispatches
  live,        \* live[c]: live_units of c's last admission
  dispatched,  \* units whose caller was told "dispatched"
  pc,          \* pc[t]: next step of u's worker, of the monitor
  at,          \* the unit the monitor finalizes
  expiring,    \* units the monitor's last sweep found past grace
  anyLeft,     \* any_monitorable of that sweep
  queue,       \* queue[u]: events of u in completion_queue
  hand,        \* hand[u]: what a consumer that drained u's event has done of its delivery
  published,   \* history: events of u put on the queue in this run of the program
  delivered,   \* history: u's result re-entered a conversation
  purged,      \* history: units whose row a prune deleted
  inline,      \* history: units the caller ran itself
  clock, failures, crashes

records  == <<rec, started, stamp, slot, quiet, overdue>>
executor == <<pool, threads, backlog>>
callers  == <<call, nth, live, dispatched, inline>>
monitor  == <<at, expiring, anyLeft>>
events   == <<queue, hand, published, delivered>>
ledger   == <<row, purged>>
faults   == <<failures, crashes>>
vars     == <<records, executor, callers, pc, monitor, events, ledger, clock, faults>>

Thread == Unit \cup {Monitor}
Status == {"none", "running", "stalling", "finalizing", "ended"}
Row    == {"absent", "running", "pending", "delivered", "dropped"}
\* Nobody holds a claim, a consumer has claimed the result, has injected it, or is
\* gone with the program and its claim stays until the lease has run out.
Hand   == {"free", "claimed", "injected", "left"}
Active == {"running", "stalling"}
Live   == Active \cup {"finalizing"}
Finalizing == {"claim", "persist", "publish", "settle"}
PCs    == {"off", "queued", "running", "sweep", "act", "leave"} \cup Finalizing
CallSteps == {"admit", "persist", "pool", "submit", "unrow", "monitor", "over"}

\* A call that is not over has a unit to dispatch.
CallsOK ==
  /\ call \in [Call -> CallSteps] /\ nth \in [Call -> Nat \ {0}]
  /\ \A c \in Call : call[c] # "over" => nth[c] <= Len(Plan[c])

TypeOK ==
  /\ rec \in [Unit -> Status] /\ started \subseteq Unit /\ stamp \in [Unit -> Nat]
  /\ slot \in [Unit -> Unit] /\ quiet \subseteq Unit /\ overdue \subseteq Unit
  /\ row \in [Unit -> Row] /\ purged \subseteq Unit
  /\ pool \in Nat /\ threads \in Nat /\ backlog \in Seq(Unit)
  /\ CallsOK /\ live \in [Call -> Nat] /\ dispatched \subseteq Unit /\ inline \subseteq Unit
  /\ pc \in [Thread -> PCs]
  /\ at \in Unit /\ expiring \subseteq Unit /\ anyLeft \in BOOLEAN
  /\ queue \in [Unit -> Nat] /\ hand \in [Unit -> Hand]
  /\ published \in [Unit -> Nat] /\ delivered \in [Unit -> Nat]
  /\ clock \in Nat /\ failures \in Nat /\ crashes \in Nat

Init ==
  /\ rec = [u \in Unit |-> "none"] /\ started = {} /\ stamp = [u \in Unit |-> 0]
  /\ slot = [u \in Unit |-> u] /\ quiet = {} /\ overdue = {}
  /\ row = [u \in Unit |-> "absent"] /\ purged = {}
  /\ pool = 0 /\ threads = 0 /\ backlog = <<>>
  /\ call = [c \in Call |-> IF Plan[c] = <<>> THEN "over" ELSE "admit"]
  /\ nth = [c \in Call |-> 1] /\ live = [c \in Call |-> 0]
  /\ dispatched = {} /\ inline = {}
  /\ pc = [t \in Thread |-> "off"]
  /\ at = (CHOOSE u \in Unit : TRUE) /\ expiring = {} /\ anyLeft = FALSE
  /\ queue = [u \in Unit |-> 0] /\ hand = [u \in Unit |-> "free"]
  /\ published = [u \in Unit |-> 0] /\ delivered = [u \in Unit |-> 0]
  /\ clock = 0 /\ failures = 0 /\ crashes = 0

-----------------------------------------------------------------------------
(* Helpers *)

Larger(m, n) == IF m >= n THEN m ELSE n
UnitsOf(c) == {Plan[c][i] : i \in 1..Len(Plan[c])}

Current(c) == Plan[c][nth[c]]

\* The slot_key that _dispatch_background hands to the next unit of c: the id of
\* the first unit that was dispatched, the unit's own while there is none.
SlotKey(c) ==
  LET sent == {i \in 1..Len(Plan[c]) : Plan[c][i] \in dispatched}
  IN  IF sent = {} THEN Current(c) ELSE Plan[c][CHOOSE i \in sent : \A j \in sent : i <= j]

\* Mutant of ActiveSlots: a stalling unit is taken to have given its slot back.
RunningSlots == {slot[u] : u \in {v \in Unit : rec[v] = "running"}}
ActiveSlots == {slot[u] : u \in {v \in Unit : rec[v] \in Active}}
LiveUnits == Cardinality({u \in Unit : rec[u] \in Live})

Busy == {u \in Unit : pc[u] \in {"running"} \cup Finalizing}

\* What thread t finalizes: a worker its own unit, the monitor the one it took up.
Mine(t) == IF t = Monitor THEN at ELSE t
Goto(t, step) == pc' = [pc EXCEPT ![t] = step]
\* Where t goes when _finalize has returned.
Back(t) == IF t = Monitor THEN "act" ELSE "off"

\* Mutant of NextUnit: the loop runs once too often.
OneUnitMore(c) ==
  /\ nth' = [nth EXCEPT ![c] = @ + 1]
  /\ call' = [call EXCEPT ![c] = IF nth[c] > Len(Plan[c]) THEN "over" ELSE "admit"]

\* Call c goes on with its next unit, or returns.
NextUnit(c) ==
  /\ nth' = [nth EXCEPT ![c] = @ + 1]
  /\ call' = [call EXCEPT ![c] = IF nth[c] = Len(Plan[c]) THEN "over" ELSE "admit"]

\* The n members of S with the oldest stamps.
Oldest(S, n) == {u \in S : Cardinality({v \in S : stamp[v] < stamp[u]}) < n}

-----------------------------------------------------------------------------
(* The call: _dispatch_background around _dispatch *)

\* The capacity check and the insertion are one lock section.
Admit(c) ==
  LET u == Current(c)
      key == SlotKey(c)
  IN  /\ call[c] = "admit"
      /\ key \in ActiveSlots \/ Cardinality(ActiveSlots) < MaxAsync
      /\ rec' = [rec EXCEPT ![u] = "running"]
      /\ stamp' = [stamp EXCEPT ![u] = clock + 1] /\ clock' = clock + 1
      /\ slot' = [slot EXCEPT ![u] = key]
      /\ live' = [live EXCEPT ![c] = LiveUnits + 1]
      /\ call' = [call EXCEPT ![c] = "persist"]
      /\ UNCHANGED <<started, quiet, overdue, executor, nth, dispatched, inline, pc, monitor,
                     events, ledger, faults>>

\* A rejected unit: the caller runs it inline, and the whole batch with it if no
\* unit of the call was dispatched before.
Rejected(c) ==
  IF UnitsOf(c) \cap dispatched = {}
  THEN /\ inline' = inline \cup UnitsOf(c)
       /\ call' = [call EXCEPT ![c] = "over"]
       /\ UNCHANGED nth
  ELSE /\ inline' = inline \cup {Current(c)}
       /\ NextUnit(c)

Reject(c) ==
  /\ call[c] = "admit"
  /\ SlotKey(c) \notin ActiveSlots /\ Cardinality(ActiveSlots) >= MaxAsync
  /\ Rejected(c)
  /\ UNCHANGED <<records, executor, live, dispatched, pc, monitor, events, ledger, clock, faults>>

\* _prune_durable_records once the rows are rows: delivered rows past the
\* retention go (aged), then terminal rows beyond the cap, delivered ones first.
\* The order of updated_at among equals is left open.  The cap on pending rows is
\* larger than the one on terminal rows and never comes to bear.
Purged(rows, aged, gone) ==
  LET terminal  == {u \in Unit : rows[u] \in {"pending", "delivered", "dropped"}} \ aged
      delivs    == {u \in terminal : rows[u] = "delivered"}
      excess    == Cardinality(terminal) - MaxTerminal
  IN  /\ aged \subseteq {u \in Unit : rows[u] = "delivered"}
      /\ gone \subseteq terminal
      /\ IF excess > 0 THEN Cardinality(gone) = excess ELSE gone = {}
      /\ gone \subseteq delivs \/ delivs \subseteq gone

\* Mutant of PersistDispatch: the row is left to be written at the end.
PersistNothing(c) ==
  /\ call[c] = "persist"
  /\ call' = [call EXCEPT ![c] = "pool"]
  /\ UNCHANGED <<records, executor, nth, live, dispatched, inline, pc, monitor, events, ledger,
                 clock, faults>>

PersistDispatch(c) ==
  LET rows == [row EXCEPT ![Current(c)] = "running"]
  IN  /\ call[c] = "persist"
      /\ \E aged, gone \in SUBSET Unit :
            /\ Purged(rows, aged, gone)
            /\ row' = [u \in Unit |-> IF u \in aged \cup gone THEN "absent" ELSE rows[u]]
            /\ purged' = purged \cup aged \cup gone
      /\ call' = [call EXCEPT ![c] = "pool"]
      /\ UNCHANGED <<records, executor, nth, live, dispatched, inline, pc, monitor, events, clock,
                     faults>>

\* The database raises, before the row is in or, in the prune, after: the exception
\* leaves _dispatch and the whole call, and the record stays.
PersistDispatchFails(c) ==
  /\ call[c] = "persist"
  /\ failures < MaxFailures /\ failures' = failures + 1
  /\ row' \in {row, [row EXCEPT ![Current(c)] = "running"]}
  /\ call' = [call EXCEPT ![c] = "over"]
  /\ UNCHANGED <<records, executor, nth, live, dispatched, inline, pc, monitor, events, purged,
                 clock, crashes>>

GrowPool(c) ==
  /\ call[c] = "pool"
  /\ pool' = Larger(pool, Larger(MaxAsync, live[c]))
  /\ call' = [call EXCEPT ![c] = "submit"]
  /\ UNCHANGED <<records, threads, backlog, nth, live, dispatched, inline, pc, monitor, events,
                 ledger, clock, faults>>

\* Mutant of NeedsThread: the unit that is being submitted is not counted.
NeedsThreadLate == threads - Cardinality(Busy) < Len(backlog) /\ threads # pool

\* No thread is idle and the pool is not full.
NeedsThread == threads - Cardinality(Busy) <= Len(backlog) /\ threads # pool

Submit(c) ==
  LET u == Current(c)
  IN  /\ call[c] = "submit"
      /\ backlog' = Append(backlog, u)
      /\ threads' = IF NeedsThread THEN threads + 1 ELSE threads
      /\ Goto(u, "queued")
      /\ call' = [call EXCEPT ![c] = "monitor"]
      /\ UNCHANGED <<records, pool, nth, live, dispatched, inline, monitor, events, ledger, clock,
                     faults>>

\* submit raises, before it has queued the unit or, when the new thread does not
\* start, after: the record goes, then the row, and the unit counts as rejected.
SubmitFails(c) ==
  /\ call[c] = "submit"
  /\ failures < MaxFailures /\ failures' = failures + 1
  /\ rec' = [rec EXCEPT ![Current(c)] = "none"]
  /\ call' = [call EXCEPT ![c] = "unrow"]
  /\ \/ UNCHANGED <<backlog, pc>>
     \/ /\ NeedsThread
        /\ backlog' = Append(backlog, Current(c)) /\ Goto(Current(c), "queued")
  /\ UNCHANGED <<started, stamp, slot, quiet, overdue, pool, threads, nth, live, dispatched, inline,
                 monitor, events, ledger, clock, crashes>>

DeleteRow(c) ==
  /\ call[c] = "unrow"
  /\ row' = [row EXCEPT ![Current(c)] = "absent"]
  /\ Rejected(c)
  /\ UNCHANGED <<records, executor, live, dispatched, pc, monitor, events, purged, clock, faults>>

\* The database raises again: the row stays, and the call ends.
DeleteRowFails(c) ==
  /\ call[c] = "unrow"
  /\ failures < MaxFailures /\ failures' = failures + 1
  /\ call' = [call EXCEPT ![c] = "over"]
  /\ UNCHANGED <<records, executor, nth, live, dispatched, inline, pc, monitor, events, ledger,
                 clock, crashes>>

\* _ensure_stale_monitor, and the handle goes back.
EnsureMonitor(c) ==
  /\ call[c] = "monitor"
  /\ IF Current(c) \in Monitored /\ pc[Monitor] = "off" THEN Goto(Monitor, "sweep")
                                                          ELSE UNCHANGED pc
  /\ dispatched' = dispatched \cup {Current(c)}
  /\ NextUnit(c)
  /\ UNCHANGED <<records, executor, live, inline, monitor, events, ledger, clock, faults>>

-----------------------------------------------------------------------------
(* The worker of a unit *)

\* A thread picks the oldest unit up; the stall clock starts.
Start(u) ==
  /\ backlog # <<>> /\ Head(backlog) = u /\ pc[u] = "queued"
  /\ Cardinality(Busy) < threads
  /\ backlog' = Tail(backlog)
  /\ started' = IF rec[u] = "none" THEN started ELSE started \cup {u}
  /\ quiet' = quiet \ {u}
  /\ Goto(u, "running")
  /\ UNCHANGED <<rec, stamp, slot, overdue, pool, threads, callers, monitor, events, ledger, clock,
                 faults>>

\* The runner returns or raises.
RunnerReturns(u) ==
  /\ pc[u] = "running"
  /\ Goto(u, "claim")
  /\ UNCHANGED <<records, executor, callers, monitor, events, ledger, clock, faults>>

-----------------------------------------------------------------------------
(* _finalize and _push_completion_event, by a worker or the monitor *)

\* Mutant of Claim: a record in any live state may be claimed.
ClaimLive(t) ==
  LET u == Mine(t)
  IN  /\ pc[t] = "claim"
      /\ IF rec[u] \in Live
         THEN /\ rec' = [rec EXCEPT ![u] = "finalizing"]
              /\ stamp' = [stamp EXCEPT ![u] = clock + 1] /\ clock' = clock + 1
              /\ Goto(t, "persist")
         ELSE /\ Goto(t, Back(t))
              /\ UNCHANGED <<rec, stamp, clock>>
      /\ UNCHANGED <<started, slot, quiet, overdue, executor, callers, monitor, events, ledger,
                     faults>>

\* Mutant of Claim: a stalling record may not be claimed.
ClaimRunning(t) ==
  LET u == Mine(t)
  IN  /\ pc[t] = "claim"
      /\ IF rec[u] = "running"
         THEN /\ rec' = [rec EXCEPT ![u] = "finalizing"]
              /\ stamp' = [stamp EXCEPT ![u] = clock + 1] /\ clock' = clock + 1
              /\ Goto(t, "persist")
         ELSE /\ Goto(t, Back(t))
              /\ UNCHANGED <<rec, stamp, clock>>
      /\ UNCHANGED <<started, slot, quiet, overdue, executor, callers, monitor, events, ledger,
                     faults>>

\* The record must still be active; whoever comes second has nothing to do.  Its
\* progress and its grace window mean nothing from here on.
Claim(t) ==
  LET u == Mine(t)
  IN  /\ pc[t] = "claim"
      /\ IF rec[u] \in Active
         THEN /\ rec' = [rec EXCEPT ![u] = "finalizing"]
              /\ stamp' = [stamp EXCEPT ![u] = clock + 1] /\ clock' = clock + 1
              /\ quiet' = quiet \ {u} /\ overdue' = overdue \ {u}
              /\ Goto(t, "persist")
         ELSE /\ Goto(t, Back(t))
              /\ UNCHANGED <<rec, stamp, quiet, overdue, clock>>
      /\ UNCHANGED <<started, slot, executor, callers, monitor, events, ledger, faults>>

\* _persist_completion; a row that was deleted stays deleted.
Persist(t) ==
  /\ pc[t] = "persist"
  /\ row' = [row EXCEPT ![Mine(t)] = IF @ = "absent" THEN "absent" ELSE "pending"]
  /\ Goto(t, "publish")
  /\ UNCHANGED <<records, executor, callers, monitor, events, purged, clock, faults>>

\* The database raises: the worker's future swallows it, the monitor dies of it.
\* The record stays "finalizing" and the event is lost until a restart.
PersistFails(t) ==
  /\ pc[t] = "persist"
  /\ failures < MaxFailures /\ failures' = failures + 1
  /\ Goto(t, "off")
  /\ UNCHANGED <<records, executor, callers, monitor, events, ledger, clock, crashes>>

Publish(t) ==
  /\ pc[t] = "publish"
  /\ queue' = [queue EXCEPT ![Mine(t)] = @ + 1]
  /\ published' = [published EXCEPT ![Mine(t)] = @ + 1]
  /\ Goto(t, "settle")
  /\ UNCHANGED <<records, executor, callers, monitor, hand, delivered, ledger, clock, faults>>

\* The terminal status, and _prune_completed_locked over every record that is
\* not running.
Settle(t) ==
  LET u == Mine(t)
      recs == [rec EXCEPT ![u] = IF @ = "none" THEN "none" ELSE "ended"]
      completed == {v \in Unit : recs[v] \notin {"none", "running"}}
      over == Oldest(completed, Cardinality(completed) - MaxRetained)
  IN  /\ pc[t] = "settle"
      /\ rec' = [v \in Unit |-> IF v \in over THEN "none" ELSE recs[v]]
      /\ Goto(t, Back(t))
      /\ UNCHANGED <<started, stamp, slot, quiet, overdue, executor, callers, monitor, events,
                     ledger, clock, faults>>

-----------------------------------------------------------------------------
(* The stall monitor *)

Stalls == {u \in Monitored \cap quiet \cap started : rec[u] = "running"}

\* Mutant of Monitorable: only running records keep the monitor alive.
MonitorableRunning == {u \in Monitored : rec[u] = "running"} # {}
Monitorable == {u \in Monitored : rec[u] \in Active} # {}

Sweep ==
  /\ pc[Monitor] = "sweep"
  /\ rec' = [u \in Unit |-> IF u \in Stalls THEN "stalling" ELSE rec[u]]
  /\ expiring' = {u \in overdue : rec[u] = "stalling"}
  /\ anyLeft' = Monitorable
  /\ Goto(Monitor, "act")
  /\ UNCHANGED <<started, stamp, slot, quiet, overdue, executor, callers, at, events, ledger,
                 clock, faults>>

\* The next unit past its grace window is force-finalized.
TakeUp(u) ==
  /\ pc[Monitor] = "act" /\ u \in expiring
  /\ at' = u /\ expiring' = expiring \ {u}
  /\ Goto(Monitor, "claim")
  /\ UNCHANGED <<records, executor, callers, anyLeft, events, ledger, clock, faults>>

\* The pass is over: sleep until the next one, or return from the loop.
EndPass ==
  /\ pc[Monitor] = "act" /\ expiring = {}
  /\ Goto(Monitor, IF anyLeft THEN "sweep" ELSE "leave")
  /\ UNCHANGED <<records, executor, callers, monitor, events, ledger, clock, faults>>

\* The thread is seen dead only now.
Leave ==
  /\ pc[Monitor] = "leave"
  /\ Goto(Monitor, "off")
  /\ UNCHANGED <<records, executor, callers, monitor, events, ledger, clock, faults>>

-----------------------------------------------------------------------------
(* Clock and children *)

\* u's record has shown no progress for the threshold, started or not.
GoesQuiet(u) ==
  /\ u \in Monitored \ quiet /\ rec[u] = "running"
  /\ quiet' = quiet \cup {u}
  /\ UNCHANGED <<rec, started, stamp, slot, overdue, executor, callers, pc, monitor, events,
                 ledger, clock, faults>>

\* The child moves again before a sweep has noticed.
Progresses(u) ==
  /\ u \in quiet \cap started /\ rec[u] = "running" /\ pc[u] = "running"
  /\ quiet' = quiet \ {u}
  /\ UNCHANGED <<rec, started, stamp, slot, overdue, executor, callers, pc, monitor, events,
                 ledger, clock, faults>>

GraceEnds(u) ==
  /\ rec[u] = "stalling" /\ u \notin overdue
  /\ overdue' = overdue \cup {u}
  /\ UNCHANGED <<rec, started, stamp, slot, quiet, executor, callers, pc, monitor, events, ledger,
                 clock, faults>>

-----------------------------------------------------------------------------
(* Delivery of an event to the conversation it is for *)

\* A consumer drains u's event and claims the result.  A row that is gone may be
\* claimed; the claim fails when the row is settled or dropped, and may fail while
\* an earlier run's lease lasts: the event is then let go.
TakeEvent(u) ==
  /\ u \in Drained /\ queue[u] > 0 /\ queue' = [queue EXCEPT ![u] = @ - 1]
  /\ \/ /\ row[u] \notin {"delivered", "dropped"} /\ hand[u] \in {"free", "left"}
        /\ hand' = [hand EXCEPT ![u] = "claimed"]
     \/ /\ row[u] \in {"delivered", "dropped"} \/ (hand[u] # "free" /\ row[u] # "absent")
        /\ UNCHANGED hand
  /\ UNCHANGED <<records, executor, callers, pc, monitor, published, delivered, ledger, clock,
                 faults>>

\* The conversation takes the result in.
HandOver(u) ==
  /\ hand[u] = "claimed" /\ hand' = [hand EXCEPT ![u] = "injected"]
  /\ delivered' = [delivered EXCEPT ![u] = @ + 1]
  /\ UNCHANGED <<records, executor, callers, pc, monitor, queue, published, ledger, clock, faults>>

\* Mutant of Acknowledge: the claim is let go and the row stays pending.
AcknowledgeNothing(u) ==
  /\ hand[u] = "injected" /\ hand' = [hand EXCEPT ![u] = "free"]
  /\ UNCHANGED <<records, executor, callers, pc, monitor, queue, published, delivered, ledger,
                 clock, faults>>

\* complete_completion_delivery, which does nothing to a row that is gone.
Acknowledge(u) ==
  /\ hand[u] = "injected" /\ hand' = [hand EXCEPT ![u] = "free"]
  /\ row' = [row EXCEPT ![u] = IF @ = "pending" THEN "delivered" ELSE @]
  /\ UNCHANGED <<records, executor, callers, pc, monitor, queue, published, delivered, purged,
                 clock, faults>>

\* The consumer gives the result back (release_completion_delivery), which drops it
\* when its attempts are used up, or drops it because its session is gone; the
\* event goes back on the queue or is let go.
PutBack(u) ==
  /\ hand[u] = "claimed" /\ hand' = [hand EXCEPT ![u] = "free"]
  /\ row' \in {row, [row EXCEPT ![u] = IF @ = "pending" THEN "dropped" ELSE @]}
  /\ queue' \in {queue, [queue EXCEPT ![u] = @ + 1]}
  /\ UNCHANGED <<records, executor, callers, pc, monitor, published, delivered, purged, clock,
                 faults>>

ConsumerStep(u) == TakeEvent(u) \/ HandOver(u) \/ Acknowledge(u) \/ PutBack(u)

-----------------------------------------------------------------------------
(* Crashes *)

\* The program dies at any point.  When it is up again recover_abandoned_delegations
\* turns rows that ran into outcome unknown, and restore_undelivered_completions
\* queues every pending one but those that finished too long ago, which it drops.  A
\* claim that was held is not taken back.
Restart ==
  \E old \in SUBSET {u \in Unit : row[u] = "pending"} :
    LET back == {u \in Unit : row[u] \in {"running", "pending"}} \ old
    IN  /\ crashes < MaxCrashes /\ crashes' = crashes + 1
        /\ row' = [u \in Unit |-> IF u \in back THEN "pending"
                                 ELSE IF u \in old THEN "dropped" ELSE row[u]]
        /\ queue' = [u \in Unit |-> IF u \in back THEN 1 ELSE 0]
        /\ hand' = [u \in Unit |-> IF u \in back /\ hand[u] # "free" THEN "left" ELSE "free"]
        /\ published' = queue'
        /\ rec' = [u \in Unit |-> "none"] /\ started' = {} /\ stamp' = [u \in Unit |-> 0]
        /\ slot' = [u \in Unit |-> u] /\ quiet' = {} /\ overdue' = {} /\ clock' = 0
        /\ pool' = 0 /\ threads' = 0 /\ backlog' = <<>>
        /\ call' = [c \in Call |-> IF nth[c] = 1 /\ call[c] = "admit" THEN "admit" ELSE "over"]
        /\ pc' = [t \in Thread |-> "off"]
        /\ expiring' = {} /\ anyLeft' = FALSE
        /\ nth' = [c \in Call |-> 1] /\ live' = [c \in Call |-> 0]
        /\ UNCHANGED <<dispatched, inline, at, delivered, purged, failures>>

-----------------------------------------------------------------------------

CallStep(c) ==
  \/ PersistDispatch(c) \/ PersistDispatchFails(c) \/ GrowPool(c)
  \/ Submit(c) \/ SubmitFails(c) \/ DeleteRow(c) \/ DeleteRowFails(c)
  \/ EnsureMonitor(c)

Finalize(t) == Claim(t) \/ Persist(t) \/ PersistFails(t) \/ Publish(t) \/ Settle(t)

WorkerStep(u) == Start(u) \/ Finalize(u)

MonitorStep ==
  \/ Sweep \/ (\E u \in Unit : TakeUp(u)) \/ EndPass \/ Leave
  \/ Finalize(Monitor)

Environment ==
  \/ \E c \in Call : Admit(c) \/ Reject(c)
  \/ \E u \in Unit : RunnerReturns(u) \/ GoesQuiet(u) \/ Progresses(u) \/ ConsumerStep(u)
  \/ Restart

Next ==
  \/ \E c \in Call : CallStep(c)
  \/ \E u \in Unit : WorkerStep(u) \/ GraceEnds(u)
  \/ MonitorStep
  \/ Environment

\* Threads inside the program are scheduled and the grace window ends.  Agents,
\* children, conversations and crashes owe nothing.
Fairness ==
  /\ \A c \in Call : WF_vars(CallStep(c))
  /\ \A u \in Unit : WF_vars(WorkerStep(u)) /\ WF_vars(GraceEnds(u))
  /\ WF_vars(MonitorStep)

Spec == Init /\ [][Next]_vars /\ Fairness

-----------------------------------------------------------------------------
(* Properties *)

\* "A second call for the same id (late runner return after a forced stall) is a
\* no-op": worker and monitor together publish one completion event per unit, and
\* what a restart restores is not published again.
PublishedOnce == \A u \in Unit : published[u] <= 1

\* u's result is on its way to a conversation, whatever has become of its row.
OnItsWay(u) ==
  queue[u] > 0 \/ hand[u] = "claimed" \/ \E t \in Thread : pc[t] = "publish" /\ Mine(t) = u

\* Where the result of u stands for those it is promised to.
Standing(u) ==
  CASE row[u] = "running" -> "working"
    [] row[u] = "pending" ->
         IF hand[u] = "claimed" THEN "taken" ELSE IF hand[u] = "injected" THEN "doubt" ELSE "due"
    [] row[u] = "delivered" -> "settled"
    [] row[u] = "dropped" -> "dropped"
    [] row[u] = "absent" ->
         IF OnItsWay(u) THEN "adrift" ELSE IF u \in purged THEN "forgotten" ELSE "new"

\* The contract of ResultContract: no step of a call, a worker, the monitor or a
\* consumer gives a result again once it was given, and only a crash between the
\* injection and its acknowledgement leads to a second one; a row is deleted only
\* when another is written and the cap asks for it, delivered ones first; a result is
\* dropped by who has claimed it or at a start only; a dispatch the caller was told of
\* is not taken back.
Contract == INSTANCE ResultContract
              WITH stage <- [u \in Unit |-> Standing(u)], given <- delivered,
                   promised <- dispatched, Cap <- MaxTerminal
KeepsContract == Contract!Spec

\* An event on the queue has its outcome on disk.
PersistedFirst == \A u \in Unit : queue[u] > 0 => row[u] # "running"

\* The outcome of an accepted unit survives every crash: while no conversation was
\* given it, its row is there for the next start to report and for a query, whether
\* pending or given up (dropped: attempts used up, session gone, or two days old at a
\* start), unless a prune has deleted it; and a crash before an event is taken in
\* finds the unit's own outcome there.
Survives ==
  /\ \A u \in dispatched :
        delivered[u] >= 1 \/ row[u] \in {"running", "pending", "dropped"} \/ u \in purged
  /\ PersistedFirst

\* The slots in use never exceed max_async_children, whichever calls are admitted
\* while units end, stall or share a slot.
SlotsBounded == Cardinality({slot[u] : u \in {v \in Unit : rec[v] \in Active}}) <= MaxAsync

\* "a unit queued behind a full pool is not stalled": a unit that waits for a
\* thread keeps its record, running, unless its dispatch was taken back.
QueuedRuns ==
  \A u \in Unit : pc[u] = "queued" => rec[u] = "running" \/ (rec[u] = "none" /\ failures > 0)

\* The monitor will sweep again.
Watching == pc[Monitor] = "sweep" \/ (anyLeft /\ pc[Monitor] \in {"act"} \cup Finalizing)

\* Somebody is at u's record, or has done with it.
Attended(u) ==
  /\ rec[u] = "running" =>
       \/ pc[u] \in {"queued", "running", "claim"}
       \/ \E c \in Call : call[c] \in {"persist", "pool", "submit"} /\ Current(c) = u
  /\ rec[u] = "stalling" => pc[u] \in {"running", "claim"} /\ Watching
  /\ rec[u] = "finalizing" =>
       \E t \in Thread : pc[t] \in {"persist", "publish", "settle"} /\ Mine(t) = u
  /\ rec[u] = "ended" => published[u] = 1

\* No record is left open with nobody to end it: a running one is being dispatched
\* or has its worker, a stalling one has its worker and a monitor that will sweep
\* again, one that is finalized has the thread that claimed it, and one that has
\* ended has been reported.  A call that raised may leave a record behind.
RecordsAttended == failures > 0 \/ \A u \in Unit : Attended(u)

\* "The next submit spawns threads up to the new cap": a unit that waits is not
\* ended, and it waits only while all threads of a full pool are at work, or a call
\* is about to submit another one.  A submit that raised may leave the pool behind.
PoolServes ==
  /\ QueuedRuns
  /\ failures = 0 /\ backlog # <<>> =>
       \/ Cardinality(Busy) < threads
       \/ threads = pool
       \/ \E c \in Call : call[c] \in {"persist", "pool", "submit"}

\* A runner that has returned is reported, unless a call failed, the program died
\* or the record was pruned under it.
Reported ==
  \A u \in Unit :
    pc[u] = "claim" ~> (published[u] = 1 \/ failures > 0 \/ crashes > 0 \/ rec[u] = "none")

\* A stalled unit is ended even if its runner never returns.
StallEnds ==
  \A u \in Unit : rec[u] = "stalling" ~> (rec[u] # "stalling" \/ failures > 0)

-----------------------------------------------------------------------------
(* Claims of comments that the code does not keep *)

\* "size the pool by units or a unit queues behind a full pool": with the pool as
\* large as the live units, every unit that was submitted gets a thread.
QueuedStarts == \A u \in Unit : pc[u] = "queued" ~> pc[u] # "queued"

\* "Drop the oldest completed records beyond the cap": a record is dropped only
\* when its unit has completed.
DropsCompleted ==
  [][\A u \in Unit : rec[u] \in Active /\ rec'[u] = "none" => failures' # failures \/ crashes' # crashes]_vars

\* The monitor "exits when no monitorable records remain and is restarted by the
\* next dispatch with a progress_fn": a dispatched unit with a progress_fn and an
\* active record has a monitor.
MonitorRuns ==
  failures = 0 =>
    \A u \in Monitored \cap dispatched : rec[u] \in Active => pc[Monitor] # "off"

\* "Later units of an admitted call share its slot and cannot be capacity-rejected."
LaterUnitsAdmitted ==
  failures = 0 =>
    \A c \in Call : UnitsOf(c) \cap dispatched = {} \/ UnitsOf(c) \cap inline = {}

=============================================================================
