---------------------------- MODULE SlashConfirm ----------------------------
(***************************************************************************)
(* Confirmation of slash commands (slash_confirm.py): one pending prompt a *)
(* session, superseded by the next one, dropped when stale, and resolved   *)
(* by callbacks that may come twice and at the same time.  The handler of  *)
(* the command runs after the lock has been released.                      *)
(***************************************************************************)
EXTENDS Naturals, FiniteSets

CONSTANTS
  Confirm,      \* confirm ids
  Room,         \* session keys
  RoomOf,       \* RoomOf[c]: the session of c
  Click,        \* callbacks that may run at the same time
  StaleAfter,   \* DEFAULT_TIMEOUT_SECONDS
  MaxSeconds    \* bound: time stops here

ASSUME SlashAssumption ==
  /\ RoomOf \in [Confirm -> Room] /\ IsFiniteSet(Click)
  /\ StaleAfter \in Nat /\ MaxSeconds \in Nat

VARIABLES
  pending,     \* confirms that are in _pending
  createdAt,   \* createdAt[c]: created_at
  asked,       \* confirms registered so far
  running,     \* running[c]: callbacks that are about to run the handler of c
  ran,         \* ran[c]: how often the handler of c was run
  seconds,     \* time.time()
  withdrawn    \* history: confirms superseded, cleared or dropped as stale

slashVars == <<pending, createdAt, asked, running, ran, seconds, withdrawn>>

SlashTypeOK ==
  /\ pending \subseteq Confirm /\ asked \subseteq Confirm /\ withdrawn \subseteq Confirm
  /\ createdAt \in [Confirm -> Nat] /\ ran \in [Confirm -> Nat] /\ seconds \in Nat
  /\ running \in [Confirm -> SUBSET Click]

SlashInit ==
  /\ pending = {} /\ asked = {} /\ withdrawn = {}
  /\ createdAt = [c \in Confirm |-> 0] /\ ran = [c \in Confirm |-> 0] /\ seconds = 0
  /\ running = [c \in Confirm |-> {}]

InRoom(k) == {c \in pending : RoomOf[c] = k}
IsStale(c) == seconds - createdAt[c] > StaleAfter

\* register: supersedes the prompt the session has.
Ask(c) ==
  /\ c \notin asked /\ asked' = asked \cup {c}
  /\ pending' = (pending \ InRoom(RoomOf[c])) \cup {c}
  /\ createdAt' = [createdAt EXCEPT ![c] = seconds]
  /\ withdrawn' = withdrawn \cup InRoom(RoomOf[c])
  /\ UNCHANGED <<running, ran, seconds>>

\* clear, and clear_if_stale, which looks at the age first.
Withdraw(k, which) ==
  /\ which # {}
  /\ pending' = pending \ which /\ withdrawn' = withdrawn \cup which
  /\ UNCHANGED <<createdAt, asked, running, ran, seconds>>
Clear(k) == Withdraw(k, InRoom(k))
ClearIfStale(k) == Withdraw(k, {c \in InRoom(k) : IsStale(c)})

\* Mutant of TakeConfirm: the prompt stays until its handler has run.
TakeLate(u, c) ==
  /\ c \in pending /\ ~IsStale(c)
  /\ running' = [running EXCEPT ![c] = @ \cup {u}]
  /\ UNCHANGED <<pending, createdAt, asked, ran, seconds, withdrawn>>

\* resolve, the section under the lock: the prompt is taken out before its
\* handler runs; a stale one is taken out and not run.
TakeConfirm(u, c) ==
  /\ c \in pending /\ pending' = pending \ {c}
  /\ running' = [running EXCEPT ![c] = IF IsStale(c) THEN @ ELSE @ \cup {u}]
  /\ UNCHANGED <<createdAt, asked, ran, seconds, withdrawn>>

\* resolve, the handler; an exception is turned into a message.
RunHandler(u, c) ==
  /\ u \in running[c] /\ running' = [running EXCEPT ![c] = @ \ {u}]
  /\ ran' = [ran EXCEPT ![c] = @ + 1]
  /\ UNCHANGED <<pending, createdAt, asked, seconds, withdrawn>>

Second ==
  /\ seconds < MaxSeconds /\ seconds' = seconds + 1
  /\ UNCHANGED <<pending, createdAt, asked, running, ran, withdrawn>>

SlashNext ==
  \/ \E c \in Confirm : Ask(c)
  \/ \E k \in Room : Clear(k) \/ ClearIfStale(k)
  \/ \E u \in Click, c \in Confirm :
        \/ (\A d \in Confirm : u \notin running[d]) /\ TakeConfirm(u, c)
        \/ RunHandler(u, c)
  \/ Second

SlashSpec == SlashInit /\ [][SlashNext]_slashVars

\* However often and however late the buttons are clicked, a handler runs once at
\* most, and never for a prompt that was superseded, cleared or dropped.
HandlerOnce ==
  \A c \in Confirm :
     ran[c] + Cardinality(running[c]) <= IF c \in withdrawn THEN 0 ELSE 1

=============================================================================
