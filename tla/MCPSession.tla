----------------------------- MODULE MCPSession -----------------------------
(***************************************************************************)
(* The connection to one MCP server: the run task of an MCPServerTask      *)
(* (mcp_tool_server_run.py, mcp_tool_transport.py), the calls that use its *)
(* session (mcp_tool_handlers.py), and what they tell each other.          *)
(*                                                                         *)
(* A step is what one task of the event loop does between two awaits, or   *)
(* what a calling thread does before its callback reaches the loop.  The   *)
(* server and the SDK are external: they may answer, fail or stay silent.  *)
(* A request is one per session at a time (_rpc_lock).                     *)
(***************************************************************************)
EXTENDS Naturals

CONSTANTS
  Caller,        \* threads that call tools of the server
  Kinds,         \* transports to look at, of {"http", "stdio"}
  MaxRetries,    \* _MAX_RECONNECT_RETRIES
  MaxInitial     \* _MAX_INITIAL_CONNECT_RETRIES

ASSUME McpAssumption ==
  /\ Kinds \subseteq {"http", "stdio"} /\ Kinds # {}
  /\ MaxRetries \in Nat /\ MaxInitial \in Nat
  /\ {"none", "task", "refresh"} \cap Caller = {}

VARIABLES
  kind,                \* transport of the server
  pc,                  \* what the run task is doing
  why,                 \* why it unwinds, or which park it is in
  session, ready,      \* session is not None; _ready is set
  wake, stop,          \* _reconnect_event and _shutdown_event are set
  recycled,            \* _recycled_reason is not None
  ever, proven,        \* _ever_connected, _session_proven
  race, graceUsed,     \* _teardown_race, _permanent_grace_used
  retries, initial,    \* _reconnect_retries, initial_retries
  tools,               \* its tools are registered
  holder,              \* who holds _rpc_lock
  orphan,              \* the request of holder went to a session that is closed
  doing, clears,       \* doing[c]: where c is; clears[c]: its wake-up also clears _ready
  tries,               \* history: attempts to connect since a session was proven, was
                       \* there for the first time, or was lost with calls in flight;
                       \* after a park, all but one are used up
  wanted                \* history: a reconnect was asked for since the last attempt

taskVars == <<pc, why, session, ready, recycled, ever, proven, race, graceUsed,
              retries, initial, tools, tries>>
mcpVars == <<kind, taskVars, wake, stop, holder, orphan, doing, clears, wanted>>

Connecting == {"connect", "discover"}
Live == {"serve", "probe", "leaving"}

McpTypeOK ==
  /\ kind \in Kinds
  /\ pc \in Connecting \cup Live \cup {"unwind", "backoff", "parked", "dormant", "gone"}
  /\ why \in {"none", "reconnect", "recycle", "shutdown", "clean", "error", "initial"}
  /\ session \in BOOLEAN /\ ready \in BOOLEAN /\ wake \in BOOLEAN /\ stop \in BOOLEAN
  /\ recycled \in BOOLEAN /\ ever \in BOOLEAN /\ proven \in BOOLEAN /\ race \in BOOLEAN
  /\ graceUsed \in BOOLEAN /\ tools \in BOOLEAN /\ orphan \in BOOLEAN /\ wanted \in BOOLEAN
  /\ retries \in Nat /\ initial \in Nat /\ tries \in Nat
  /\ holder \in {"none", "task", "refresh"} \cup Caller
  /\ doing \in [Caller -> {"idle", "queued", "rpc", "asking"}] /\ clears \in [Caller -> BOOLEAN]
  /\ session => pc \in {"discover", "unwind"} \cup Live
  /\ holder = "task" => pc \in {"discover", "probe"}

McpInit ==
  /\ kind \in Kinds /\ pc = "connect" /\ why = "none"
  /\ session = FALSE /\ ready = FALSE /\ wake = FALSE /\ stop = FALSE
  /\ recycled = FALSE /\ ever = FALSE /\ proven = FALSE
  /\ race = FALSE /\ graceUsed = FALSE /\ retries = 0 /\ initial = 0 /\ tools = FALSE
  /\ holder = "none" /\ orphan = FALSE
  /\ doing = [c \in Caller |-> "idle"] /\ clears = [c \in Caller |-> FALSE]
  /\ tries = 0 /\ wanted = FALSE

-----------------------------------------------------------------------------
(* How the run task goes on after a transport has returned or raised.  Each *)
(* of these says what becomes of pc, why, ready, race, graceUsed, retries,  *)
(* initial, tools, tries, wake and wanted; the caller says the rest.         *)

counters == <<race, graceUsed, retries, initial>>
requests == <<wake, wanted>>

\* run() enters the transport again.
Attempt(n) == pc' = "connect" /\ why' = "none" /\ tries' = n /\ wanted' = FALSE

\* run() returns.
Exit == pc' = "gone" /\ why' = "none" /\ UNCHANGED <<ready, counters, tools, tries, requests>>

\* _park: the tools go, the pending request is forgotten, the wait is timed.
Park(p) == pc' = "parked" /\ why' = p /\ tools' = FALSE /\ wake' = FALSE /\ UNCHANGED <<tries, wanted>>

\* _backoff_sleep, and the pause after a grace.
Pause(w) == pc' = "backoff" /\ why' = w /\ UNCHANGED <<tools, tries, requests>>

\* Mutant of Rebuild: _ready outlives the session it was set for.
RebuildReady(n) == Attempt(n) /\ UNCHANGED <<ready, wake, tools>>

\* The end of _on_clean_return: nothing of the old session is left.
Rebuild(n) == Attempt(n) /\ ready' = FALSE /\ UNCHANGED <<wake, tools>>

\* _on_clean_return for a requested rebuild.
Rebuilds ==
  \/ /\ race /\ ~proven
     /\ race' = FALSE /\ Rebuild(1) /\ UNCHANGED <<graceUsed, retries, initial>>
  \/ /\ proven
     /\ retries' = 0 /\ Rebuild(tries + 1) /\ UNCHANGED <<race, graceUsed, initial>>
  \/ /\ ~proven /\ ~race
     /\ retries' = retries + 1 /\ UNCHANGED <<race, graceUsed, initial>>
     /\ IF retries + 1 > MaxRetries
        THEN Park("clean") /\ UNCHANGED ready
        ELSE Rebuild(tries + 1)

\* Mutant of Sleeps: the dormant wait starts by forgetting what was asked, as a park does.
SleepsDeaf == pc' = "dormant" /\ why' = "none" /\ wake' = FALSE
              /\ UNCHANGED <<ready, counters, tools, tries, wanted>>

\* _on_clean_return after a recycle.
Sleeps == pc' = "dormant" /\ why' = "none" /\ UNCHANGED <<ready, counters, tools, tries, requests>>

\* _on_clean_return.
CleanReturn(reason) ==
  \/ stop /\ Exit
  \/ ~stop /\ reason = "recycle" /\ Sleeps
  \/ ~stop /\ reason # "recycle" /\ Rebuilds

\* _on_initial_connect_error; a park publishes the error, which sets _ready.
InitialError(class) ==
  \/ /\ class # "transient"
     /\ Park("initial") /\ ready' = TRUE /\ UNCHANGED counters
  \/ /\ class = "transient"
     /\ initial' = initial + 1 /\ UNCHANGED <<race, graceUsed, retries>>
     /\ IF initial + 1 > MaxInitial
        THEN Park("initial") /\ ready' = TRUE
        ELSE Pause("initial") /\ UNCHANGED ready

\* An auth error on a session that had been proven is let pass once.
MayGrace(class) == class = "auth" /\ proven /\ ~graceUsed

\* _on_permanent_error.
PermanentError(class) ==
  \/ /\ MayGrace(class)
     /\ graceUsed' = TRUE /\ retries' = 0 /\ Pause("error") /\ UNCHANGED <<ready, race, initial>>
  \/ ~MayGrace(class) /\ Park("error") /\ UNCHANGED <<ready, counters>>

\* _on_transport_error.
TransportError(class) ==
  \/ ~ever /\ InitialError(class)
  \/ ever /\ stop /\ Exit
  \/ ever /\ ~stop /\ class # "transient" /\ PermanentError(class)
  \/ /\ ever /\ ~stop /\ class = "transient"
     /\ retries' = retries + 1 /\ UNCHANGED <<ready, race, graceUsed, initial>>
     /\ IF retries + 1 > MaxRetries THEN Park("error") ELSE Pause("error")

\* The transport raises.  Over HTTP it raises a group, which a session that had
\* become ready turns into a request to rebuild (_reconnect_or_reraise_group).
Raises(class) ==
  \/ /\ kind = "http" /\ ~stop /\ ready
     /\ CleanReturn("reconnect") /\ UNCHANGED recycled
  \/ /\ kind = "stdio" \/ stop \/ ~ready
     /\ TransportError(class) /\ recycled' = FALSE

\* The finally clause of run(): the session is gone, and so is the answer to a
\* request on it.
SessionCloses ==
  /\ session' = FALSE
  /\ orphan' = (orphan \/ holder \notin {"none", "task"})
  /\ holder' = IF holder = "task" THEN "none" ELSE holder

-----------------------------------------------------------------------------
(* The run task *)

callers == <<doing, clears>>

Fails ==
  /\ pc \in Connecting \cup {"serve", "probe", "unwind"}
  /\ \E class \in {"transient", "auth", "permanent"} : Raises(class)
  /\ SessionCloses
  /\ UNCHANGED <<kind, stop, ever, proven, callers>>

\* _serve_session up to the lock of _discover_tools; a stdio transport starts its
\* life, which ends its recycling.
Handshake ==
  /\ pc = "connect" /\ pc' = "discover" /\ session' = TRUE
  /\ recycled' = (recycled /\ kind = "http")
  /\ UNCHANGED <<kind, why, ready, ever, proven, counters, tools, tries, requests, stop,
                 holder, orphan, callers>>

DiscoverStarts ==
  /\ pc = "discover" /\ holder = "none" /\ holder' = "task"
  /\ UNCHANGED <<kind, taskVars, requests, stop, orphan, callers>>

\* The tools are there: the session is served, and unproven.  (The first time the
\* tools are registered by who started the server, which is told by _ready.)
Discovered ==
  /\ pc = "discover" /\ holder = "task" /\ holder' = "none"
  /\ pc' = "serve" /\ ready' = TRUE /\ ever' = TRUE /\ proven' = FALSE /\ tools' = TRUE
  /\ tries' = IF ever THEN tries ELSE 0
  /\ UNCHANGED <<kind, why, session, recycled, counters, requests, stop, orphan, callers>>

\* _recycle_if_due: an idle or old stdio session is closed, unless a request runs.
Recycle ==
  /\ pc = "serve" /\ kind = "stdio" /\ holder = "none"
  /\ pc' = "unwind" /\ why' = "recycle" /\ session' = FALSE /\ recycled' = TRUE
  /\ UNCHANGED <<kind, ready, ever, proven, counters, tools, tries, requests, stop,
                 holder, orphan, callers>>

\* A keepalive probe, unless a request runs or an event is due.
ProbeStarts ==
  /\ pc = "serve" /\ holder = "none" /\ ~wake /\ ~stop
  /\ pc' = "probe" /\ holder' = "task"
  /\ UNCHANGED <<kind, why, session, ready, recycled, ever, proven, counters, tools, tries,
                 requests, stop, orphan, callers>>

\* _mark_session_proven.
Prove ==
  /\ proven' = TRUE /\ tries' = 0
  /\ IF proven THEN UNCHANGED counters
               ELSE retries' = 0 /\ graceUsed' = FALSE /\ race' = FALSE /\ UNCHANGED initial

ProbeSucceeds ==
  /\ pc = "probe" /\ pc' = "serve" /\ holder' = "none" /\ Prove
  /\ UNCHANGED <<kind, why, session, ready, recycled, ever, tools, requests, stop, orphan, callers>>

ProbeFails ==
  /\ pc = "probe" /\ pc' = "leaving" /\ holder' = "none" /\ wake' = TRUE
  /\ UNCHANGED <<kind, why, session, ready, recycled, ever, proven, counters, tools, tries,
                 wanted, stop, orphan, callers>>

\* _fail_inflight_calls: the call whose request runs ends; requests of a refresh
\* are not in its list.
FailInflight ==
  LET victims == {c \in Caller : doing[c] = "rpc"}
  IN  /\ race' = (race \/ victims # {})
      /\ doing' = [c \in Caller |-> IF c \in victims THEN "idle" ELSE doing[c]]
      /\ holder' = IF holder \in victims THEN "none" ELSE holder
      /\ orphan' = (orphan /\ holder \notin victims)

\* _wait_for_lifecycle_event returns: shutdown wins, a request is taken.
EndServing ==
  /\ pc = "leaving" \/ (pc = "serve" /\ (wake \/ stop))
  /\ pc' = "unwind" /\ FailInflight
  /\ IF stop THEN why' = "shutdown" /\ UNCHANGED wake ELSE why' = "reconnect" /\ wake' = FALSE
  /\ UNCHANGED <<kind, session, ready, recycled, ever, proven, graceUsed, retries, initial, tools,
                 tries, wanted, stop, clears>>

\* The transport has closed.
Unwound ==
  /\ pc = "unwind" /\ CleanReturn(why) /\ SessionCloses
  /\ UNCHANGED <<kind, recycled, stop, ever, proven, callers>>

\* After a pause; shutdown hands the error of a first connect to start().
PauseEnds ==
  /\ pc = "backoff"
  /\ IF stop
     THEN /\ pc' = "gone" /\ ready' = (ready \/ why = "initial")
          /\ UNCHANGED <<why, tries, wanted>>
     ELSE Attempt(tries + 1) /\ UNCHANGED ready
  /\ UNCHANGED <<kind, session, recycled, ever, proven, counters, tools, wake, stop, holder,
                 orphan, callers>>

\* A revival after the first connect is one probe, before it a new ladder.
Rearm ==
  \/ why = "initial" /\ retries' = 0 /\ initial' = 0
  \/ why # "initial" /\ retries' = MaxRetries /\ UNCHANGED initial

\* A park ends by its timer, a request or shutdown.
ParkEnds ==
  /\ pc = "parked"
  /\ \/ stop /\ Exit
     \/ /\ ~stop /\ wake' = FALSE /\ Rearm
        /\ Attempt(IF why = "initial" THEN 1 ELSE MaxRetries + 1)
        /\ ready' = (ready /\ why = "error") /\ UNCHANGED <<race, graceUsed, tools>>
  /\ UNCHANGED <<kind, session, recycled, ever, proven, stop, holder, orphan, callers>>

\* A dormant server waits for a request, without a timer.
WakeUp ==
  /\ pc = "dormant" /\ (wake \/ stop)
  /\ \/ stop /\ Exit
     \/ ~stop /\ wake' = FALSE /\ Attempt(tries) /\ UNCHANGED <<ready, counters, tools>>
  /\ UNCHANGED <<kind, session, recycled, ever, proven, stop, holder, orphan, callers>>

-----------------------------------------------------------------------------
(* Calls, refreshes and requests from outside *)

taskState == <<pc, why, session, recycled, ever, tools>>

\* _acquire_call_server finds a session; the coroutine waits for the lock.
CallStarts(c) ==
  /\ doing[c] = "idle" /\ tools /\ session
  /\ doing' = [doing EXCEPT ![c] = "queued"]
  /\ UNCHANGED <<kind, taskVars, requests, stop, holder, orphan, clears>>

\* It finds none: the server is asked to reconnect.  _request_lazy_reconnect,
\* for a recycled one, clears _ready as well.
CallFindsNone(c) ==
  /\ doing[c] = "idle" /\ tools /\ ~session
  /\ doing' = [doing EXCEPT ![c] = "asking"] /\ clears' = [clears EXCEPT ![c] = recycled]
  /\ UNCHANGED <<kind, taskVars, requests, stop, holder, orphan>>

\* The call has the lock and sends its request, unless the session went meanwhile.
CallRuns(c) ==
  /\ doing[c] = "queued" /\ holder = "none"
  /\ IF session THEN holder' = c /\ doing' = [doing EXCEPT ![c] = "rpc"]
                ELSE doing' = [doing EXCEPT ![c] = "idle"] /\ UNCHANGED holder
  /\ UNCHANGED <<kind, taskVars, requests, stop, orphan, clears>>

LetGo(c) ==
  /\ holder' = IF holder = c THEN "none" ELSE holder
  /\ orphan' = (orphan /\ holder # c)

\* The server answers, which proves the session.
CallAnswered(c) ==
  /\ doing[c] = "rpc" /\ ~orphan /\ Prove
  /\ doing' = [doing EXCEPT ![c] = "idle"] /\ LetGo(c)
  /\ UNCHANGED <<kind, taskState, ready, requests, stop, clears>>

\* A timeout, an interrupt or an error that no recovery knows.
CallFails(c) ==
  /\ doing[c] \in {"queued", "rpc"}
  /\ doing' = [doing EXCEPT ![c] = "idle"] /\ LetGo(c)
  /\ UNCHANGED <<kind, taskVars, requests, stop, clears>>

\* An expired session, a dead child or refreshed credentials: the caller asks for
\* a rebuild (_signal_reconnect_and_wait).
CallExpires(c) ==
  /\ doing[c] = "rpc"
  /\ doing' = [doing EXCEPT ![c] = "asking"] /\ clears' = [clears EXCEPT ![c] = TRUE] /\ LetGo(c)
  /\ UNCHANGED <<kind, taskVars, requests, stop>>

\* The wake-up of c reaches the loop.  One that clears _ready is waited for, and the
\* call is queued, again or for the first time, though the tools may be gone by then.
Asks(c) ==
  /\ doing[c] = "asking"
  /\ \E next \in {"idle"} \cup (IF clears[c] THEN {"queued"} ELSE {}) : doing' = [doing EXCEPT ![c] = next]
  /\ wake' = TRUE /\ wanted' = TRUE /\ ready' = (ready /\ ~clears[c])
  /\ clears' = [clears EXCEPT ![c] = FALSE]
  /\ UNCHANGED <<kind, taskState, proven, counters, tries, stop, holder, orphan>>

\* reconnect_mcp_server, and a discovery pass that finds the server without a session.
Nudge ==
  /\ wake' = TRUE /\ wanted' = TRUE
  /\ UNCHANGED <<kind, taskVars, stop, holder, orphan, callers>>

\* _refresh_tools of a list_changed notification.
RefreshStarts ==
  /\ pc \in Live /\ holder = "none" /\ holder' = "refresh"
  /\ UNCHANGED <<kind, taskVars, requests, stop, orphan, callers>>

RefreshEnds ==
  /\ holder = "refresh" /\ holder' = "none" /\ orphan' = FALSE
  /\ UNCHANGED <<kind, taskVars, requests, stop, callers>>

\* shutdown() sets both events and waits for the task.
Shutdown ==
  /\ ~stop /\ stop' = TRUE /\ wake' = TRUE
  /\ UNCHANGED <<kind, taskVars, wanted, holder, orphan, callers>>

\* After ten seconds it cancels the task; the tools go also if the task ended by itself.
ShutdownEnds ==
  /\ stop /\ (pc # "gone" \/ tools) /\ pc' = "gone" /\ why' = "none" /\ tools' = FALSE
  /\ SessionCloses
  /\ UNCHANGED <<kind, ready, recycled, ever, proven, counters, tries, requests, stop, callers>>

-----------------------------------------------------------------------------
McpNext ==
  \/ Handshake \/ DiscoverStarts \/ Discovered \/ Recycle \/ ProbeStarts \/ ProbeSucceeds
  \/ ProbeFails \/ EndServing \/ Unwound \/ Fails \/ PauseEnds \/ ParkEnds \/ WakeUp
  \/ \E c \in Caller :
        \/ CallStarts(c) \/ CallFindsNone(c) \/ CallRuns(c) \/ CallAnswered(c)
        \/ CallFails(c) \/ CallExpires(c) \/ Asks(c)
  \/ Nudge \/ RefreshStarts \/ RefreshEnds \/ Shutdown \/ ShutdownEnds

McpSpec == McpInit /\ [][McpNext]_mcpVars

-----------------------------------------------------------------------------
(* Properties *)

\* A transport that handshakes and drops, or does not connect, reaches a park: after
\* a proof of health or a loss of calls the server is started at most MaxRetries + 1
\* times, after a park once, twice that if an auth error was let pass, and before its
\* first session at most MaxInitial + 1 times.
FlapperParks ==
  tries <= IF ~ever THEN MaxInitial + 1
           ELSE IF graceUsed THEN 2 * (MaxRetries + 1) ELSE MaxRetries + 1

\* A request to reconnect is not lost, whatever the run task is in the middle of: until
\* the next attempt its event is set, or the task is on the way to an attempt, by itself
\* or by a timer.  A dormant server has no timer: only the event can wake it.
RequestsKept ==
  wanted => \/ wake
            \/ pc \in {"backoff", "parked", "gone"}
            \/ pc = "unwind" /\ why = "reconnect"

=============================================================================
