---------------------------- MODULE WatchLimiter ----------------------------
(***************************************************************************)
(* The watch-pattern limiter of the background-process registry            *)
(* (process_registry.py): each session's reader scans what it reads; the   *)
(* limits of the session decide under its lock, the circuit breaker of     *)
(* all sessions under its own lock, both by a time taken before either     *)
(* lock; a poll or a kill may end the session in between.                  *)
(*                                                                         *)
(* Left out: the text and the counts of lines a notification carries, and  *)
(* the order of events in the completion queue.                            *)
(***************************************************************************)
EXTENDS Integers, FiniteSets

CONSTANTS
  Watched,        \* sessions with watch patterns
  AsksNotice,     \* those spawned with notify_on_complete
  Interval,       \* WATCH_MIN_INTERVAL_SECONDS
  StrikeLimit,    \* WATCH_STRIKE_LIMIT
  MaxHits,        \* WATCH_LIFETIME_MAX_HITS
  Cap,            \* WATCH_GLOBAL_MAX_PER_WINDOW
  Window,         \* WATCH_GLOBAL_WINDOW_SECONDS
  Cooldown,       \* WATCH_GLOBAL_COOLDOWN_SECONDS
  MaxClock        \* bound: time stops here

ASSUME WatchAssumption ==
  /\ AsksNotice \subseteq Watched
  /\ Interval \in Nat \ {0} /\ StrikeLimit \in Nat \ {0} /\ MaxHits \in Nat \ {0}
  /\ Cap \in Nat \ {0} /\ Window \in Nat \ {0} /\ Cooldown \in Nat \ {0}
  /\ MaxClock \in Nat

VARIABLES
  cooldownUntil,  \* _watch_cooldown_until, 0 for never
  candidate,      \* sessions with _watch_strike_candidate
  strikes,        \* _watch_consecutive_strikes
  hits,           \* _watch_hits
  disabled,       \* sessions with _watch_disabled
  notifies,       \* sessions with notify_on_complete
  ended,          \* sessions with exited
  moved,          \* sessions that _move_to_finished took out of _running
  windowStart, windowHits,   \* _global_watch_window_start, _global_watch_window_hits
  trippedUntil,   \* _global_watch_tripped_until, 0 for not tripped
  floodDrops,     \* _global_watch_suppressed_during_trip
  scan,           \* scan[s]: where the reader of s is in _check_watch_patterns
  seenAt,         \* seenAt[s]: the time its scan goes by
  watchClock,
  silenced,       \* history: silenced[s]: watch_disabled events of s
  exitNotes,      \* history: exitNotes[s]: completion events of s
  pledged,        \* history: sessions disabled before they were moved
  dropped,        \* history: matches the breaker dropped
  toldDrops,      \* history: those that a released event has reported
  trips, releases \* history: watch_overflow_tripped and _released events

limits  == <<cooldownUntil, candidate, strikes, hits, disabled, notifies>>
breaker == <<windowStart, windowHits, trippedUntil, floodDrops>>
floods  == <<dropped, toldDrops, trips, releases>>
ends    == <<ended, moved, exitNotes>>
watchVars == <<limits, breaker, floods, ends, scan, seenAt, watchClock, silenced, pledged>>

WatchTypeOK ==
  /\ cooldownUntil \in [Watched -> Nat] /\ candidate \subseteq Watched
  /\ strikes \in [Watched -> Nat] /\ hits \in [Watched -> Nat]
  /\ disabled \subseteq Watched /\ notifies \subseteq Watched
  /\ ended \subseteq Watched /\ moved \subseteq Watched
  /\ windowStart \in Nat /\ windowHits \in Nat /\ trippedUntil \in Nat /\ floodDrops \in Nat
  /\ scan \in [Watched -> {"read", "limit", "admit"}] /\ seenAt \in [Watched -> Nat \ {0}]
  /\ watchClock \in Nat \ {0}
  /\ silenced \in [Watched -> Nat] /\ exitNotes \in [Watched -> Nat]
  /\ pledged \subseteq Watched
  /\ dropped \in Nat /\ toldDrops \in Nat /\ trips \in Nat /\ releases \in Nat

WatchInit ==
  /\ cooldownUntil = [s \in Watched |-> 0] /\ candidate = {}
  /\ strikes = [s \in Watched |-> 0] /\ hits = [s \in Watched |-> 0]
  /\ disabled = {} /\ notifies = AsksNotice /\ ended = {} /\ moved = {}
  /\ windowStart = 0 /\ windowHits = 0 /\ trippedUntil = 0 /\ floodDrops = 0
  /\ scan = [s \in Watched |-> "read"] /\ watchClock = Window
  /\ seenAt = [s \in Watched |-> Window]
  /\ silenced = [s \in Watched |-> 0] /\ exitNotes = [s \in Watched |-> 0] /\ pledged = {}
  /\ dropped = 0 /\ toldDrops = 0 /\ trips = 0 /\ releases = 0

ScanAt(s, step) == scan' = [scan EXCEPT ![s] = step]

-----------------------------------------------------------------------------
(* _check_watch_patterns *)

\* The reader of s has read lines that match, and no flag tells it to stop.
Scan(s) ==
  /\ scan[s] = "read" /\ s \notin disabled \cup ended
  /\ seenAt' = [seenAt EXCEPT ![s] = watchClock] /\ ScanAt(s, "limit")
  /\ UNCHANGED <<limits, breaker, floods, ends, watchClock, silenced, pledged>>

Cooling(s) == cooldownUntil[s] # 0 /\ seenAt[s] < cooldownUntil[s]

\* Mutant of Disable: the session is not promoted to notify_on_complete.
DisableOnly(s) ==
  /\ disabled' = disabled \cup {s} /\ pledged' = pledged \cup ({s} \ moved)
  /\ UNCHANGED notifies

\* Watching ends for good; the session is promoted to notify_on_complete.
Disable(s) ==
  /\ disabled' = disabled \cup {s} /\ notifies' = notifies \cup {s}
  /\ pledged' = pledged \cup ({s} \ moved)

StayEnabled == UNCHANGED <<disabled, notifies, pledged>>

Strikes(s) == s \notin candidate /\ strikes[s] + 1 >= StrikeLimit

\* Mutant of Strike: every drop repeats the summary.
StrikeAlways(s) ==
  /\ scan[s] = "limit" /\ Cooling(s) /\ ScanAt(s, "read")
  /\ candidate' = candidate \cup {s}
  /\ strikes' = [strikes EXCEPT ![s] = IF s \in candidate THEN @ ELSE @ + 1]
  /\ silenced' = [silenced EXCEPT ![s] = @ + 1]
  /\ IF Strikes(s) THEN Disable(s) ELSE StayEnabled
  /\ UNCHANGED <<cooldownUntil, hits, breaker, floods, ends, seenAt, watchClock>>

\* A match inside the cooldown of s is dropped; one strike per window, and the
\* last strike disables and queues its summary under the session's lock.
Strike(s) ==
  /\ scan[s] = "limit" /\ Cooling(s) /\ ScanAt(s, "read")
  /\ candidate' = candidate \cup {s}
  /\ strikes' = [strikes EXCEPT ![s] = IF s \in candidate THEN @ ELSE @ + 1]
  /\ silenced' = [silenced EXCEPT ![s] = IF Strikes(s) THEN @ + 1 ELSE @]
  /\ IF Strikes(s) THEN Disable(s) ELSE StayEnabled
  /\ UNCHANGED <<cooldownUntil, hits, breaker, floods, ends, seenAt, watchClock>>

\* A match past the cooldown starts a new one and counts for the lifetime cap.
Hit(s) ==
  /\ scan[s] = "limit" /\ ~Cooling(s) /\ ScanAt(s, "admit")
  /\ strikes' = [strikes EXCEPT ![s] =
                   IF cooldownUntil[s] # 0 /\ s \notin candidate THEN 0 ELSE @]
  /\ candidate' = candidate \ {s}
  /\ cooldownUntil' = [cooldownUntil EXCEPT ![s] = seenAt[s] + Interval]
  /\ hits' = [hits EXCEPT ![s] = @ + 1]
  /\ IF hits[s] + 1 >= MaxHits THEN Disable(s) ELSE StayEnabled
  /\ UNCHANGED <<breaker, floods, ends, seenAt, watchClock, silenced>>

\* The trip that the breaker is in is over at the time "at".
Over(at) == trippedUntil # 0 /\ at >= trippedUntil

\* _global_watch_admit, the released event: the trip ends and reports its drops.
ReleaseTrip(at) ==
  IF Over(at)
  THEN releases' = releases + (IF floodDrops > 0 THEN 1 ELSE 0)
       /\ toldDrops' = toldDrops + floodDrops
  ELSE UNCHANGED <<releases, toldDrops>>

\* _global_watch_admit while it is tripped: drop and count.
DropMatch(at) ==
  /\ trippedUntil # 0 /\ at < trippedUntil
  /\ floodDrops' = floodDrops + 1 /\ dropped' = dropped + 1
  /\ UNCHANGED <<windowStart, windowHits, trippedUntil, toldDrops, trips, releases>>

\* The window is over, or starts anew after a trip.
NewWindow(at) == Over(at) \/ at - windowStart >= Window
Used(at) == IF NewWindow(at) THEN 0 ELSE windowHits

\* _global_watch_admit, room in the window.
PassBreaker(at) ==
  /\ trippedUntil = 0 \/ at >= trippedUntil
  /\ Used(at) < Cap
  /\ windowStart' = IF NewWindow(at) THEN at ELSE windowStart
  /\ windowHits' = Used(at) + 1
  /\ trippedUntil' = 0
  /\ floodDrops' = IF Over(at) THEN 0 ELSE floodDrops
  /\ ReleaseTrip(at)
  /\ UNCHANGED <<dropped, trips>>

\* Mutant of TripBreaker: only the matches after the one that trips are counted.
TripUncounted(at) ==
  /\ trippedUntil = 0 /\ Used(at) >= Cap
  /\ trippedUntil' = at + Cooldown /\ trips' = trips + 1 /\ dropped' = dropped + 1
  /\ UNCHANGED <<windowStart, windowHits, floodDrops, toldDrops, releases>>

\* _global_watch_admit, no room: the breaker trips and counts the match.
TripBreaker(at) ==
  /\ trippedUntil = 0 /\ Used(at) >= Cap
  /\ trippedUntil' = at + Cooldown /\ trips' = trips + 1
  /\ floodDrops' = floodDrops + 1 /\ dropped' = dropped + 1
  /\ UNCHANGED <<windowStart, windowHits, toldDrops, releases>>

\* After the breaker, the last match of a session explains the silence.
AdmitNotice(s) ==
  /\ scan[s] = "admit" /\ ScanAt(s, "read")
  /\ DropMatch(seenAt[s]) \/ PassBreaker(seenAt[s]) \/ TripBreaker(seenAt[s])
  /\ silenced' = [silenced EXCEPT ![s] = IF hits[s] >= MaxHits THEN @ + 1 ELSE @]
  /\ UNCHANGED <<limits, ends, seenAt, watchClock, pledged>>

-----------------------------------------------------------------------------
(* The end of a session, and time *)

\* A poll or a kill, or the reader itself between two chunks, marks s exited.
EndSession(s) ==
  /\ s \notin ended /\ ended' = ended \cup {s}
  /\ UNCHANGED <<limits, breaker, floods, moved, exitNotes, scan, seenAt, watchClock, silenced, pledged>>

\* _move_to_finished: the first move queues the completion event.
Move(s) ==
  /\ s \in ended \ moved /\ moved' = moved \cup {s}
  /\ exitNotes' = [exitNotes EXCEPT ![s] = IF s \in notifies THEN @ + 1 ELSE @]
  /\ UNCHANGED <<limits, breaker, floods, ended, scan, seenAt, watchClock, silenced, pledged>>

Tick ==
  /\ watchClock < MaxClock /\ watchClock' = watchClock + 1
  /\ UNCHANGED <<limits, breaker, floods, ends, scan, seenAt, silenced, pledged>>

WatchNext ==
  \/ \E s \in Watched : Scan(s) \/ Strike(s) \/ Hit(s) \/ AdmitNotice(s) \/ EndSession(s) \/ Move(s)
  \/ Tick

WatchSpec == WatchInit /\ [][WatchNext]_watchVars

-----------------------------------------------------------------------------
(* Properties *)

\* A session whose watching was disabled, by strikes or by the lifetime cap, says
\* so once, even when the breaker drops the last match; an enabled one never does.
SilenceExplained ==
  \A s \in Watched :
     scan[s] = "read" => silenced[s] = IF s \in disabled THEN 1 ELSE 0

\* The summary's promise: a session disabled before it ended is announced
\* exactly once at its exit, and no other than those that asked for it.
PromiseKept ==
  \A s \in moved : exitNotes[s] = IF s \in AsksNotice \cup pledged THEN 1 ELSE 0

\* Every match the breaker dropped is reported by one released event or counted
\* for the next; each trip is announced once and released once.
FloodAccounted ==
  /\ dropped = toldDrops + floodDrops
  /\ trips = releases + (IF trippedUntil = 0 THEN 0 ELSE 1)

=============================================================================
