-------------------------- MODULE MCPSessionProofs --------------------------
(* Proofs about MCPSession: for any callers and budgets, a server that never  *)
(* proves its health reaches a park, and no request to reconnect is lost.     *)
EXTENDS MCPSession, TLAPS

\* What _ready means over HTTP: it is not set while the run task connects, so that a
\* failed connect is not taken for a drop; and an HTTP server is never recycled.
HttpOK ==
  kind = "http" =>
     /\ pc # "dormant" /\ ~(pc = "unwind" /\ why = "recycle")
     /\ pc \in Connecting \cup {"backoff"} => ~ready
     /\ pc = "parked" /\ why = "error" => ~ready

\* Before the first session: the ladder of first connects.
FirstOK ==
  ~ever =>
     /\ pc \in Connecting \cup {"backoff", "parked", "gone"} /\ retries = 0
     /\ pc \in Connecting \cup {"backoff"} => ~ready /\ initial <= MaxInitial
     /\ pc \in Connecting => tries <= initial + 1
     /\ pc = "backoff" => tries <= initial
     /\ pc = "parked" => why = "initial"

\* What a let pass auth error adds to the budget.
Grace == IF graceUsed THEN MaxRetries + 1 ELSE 0

\* Afterwards: attempts are paid for by retries, except those of a grace; a session
\* that is proven has none to its account.
BudgetOK ==
  ever =>
     /\ pc \in Connecting \cup Live \cup {"unwind", "dormant"} =>
           tries <= retries + 1 + Grace /\ retries <= MaxRetries
     /\ pc = "backoff" => tries <= retries + Grace /\ retries <= MaxRetries
     /\ pc \in Live \cup {"unwind"} /\ proven => tries = 0

McpInv == McpTypeOK /\ HttpOK /\ FirstOK /\ BudgetOK /\ FlapperParks

-----------------------------------------------------------------------------
LEMMA InitTyped == ASSUME McpAssumption, McpInit PROVE McpTypeOK
  BY DEF McpAssumption, McpInit, McpTypeOK, Connecting, Live

LEMMA InitInv == ASSUME McpAssumption, McpInit PROVE McpInv
<1>1. McpTypeOK
  BY InitTyped
<1>2. HttpOK /\ FirstOK /\ BudgetOK /\ FlapperParks
  BY DEF McpAssumption, McpInit, HttpOK, FirstOK, BudgetOK, FlapperParks, Connecting, Live
<1> QED
  BY <1>1, <1>2 DEF McpInv

-----------------------------------------------------------------------------
(* How the run task goes on: the parts of the invariant that CleanReturn and *)
(* TransportError restore, whoever calls them.                               *)

\* What both need to know of the rest of the state.
Account ==
  /\ MaxRetries \in Nat /\ MaxInitial \in Nat
  /\ ready \in BOOLEAN /\ wake \in BOOLEAN /\ race \in BOOLEAN /\ graceUsed \in BOOLEAN
  /\ tools \in BOOLEAN /\ wanted \in BOOLEAN
  /\ retries \in Nat /\ initial \in Nat /\ tries \in Nat

\* The variables they set keep their types.
Landed ==
  /\ pc' \in {"connect", "backoff", "parked", "dormant", "gone"}
  /\ why' \in {"none", "clean", "error", "initial"}
  /\ ready' \in BOOLEAN /\ wake' \in BOOLEAN /\ race' \in BOOLEAN /\ graceUsed' \in BOOLEAN
  /\ tools' \in BOOLEAN /\ wanted' \in BOOLEAN
  /\ retries' \in Nat /\ initial' \in Nat /\ tries' \in Nat

LEMMA CleanLands ==
  ASSUME Account, NEW reason, CleanReturn(reason)
  PROVE  Landed
<1> USE DEF Account, CleanReturn, Exit, Sleeps, Rebuilds, Rebuild, Attempt, Park
<1>1. pc' \in {"connect", "backoff", "parked", "dormant", "gone"}
  BY DEF counters, requests
<1>2. why' \in {"none", "clean", "error", "initial"}
  BY DEF counters, requests
<1>3. ready' \in BOOLEAN
  BY DEF counters, requests
<1>4. wake' \in BOOLEAN
  BY DEF counters, requests
<1>5. race' \in BOOLEAN
  BY DEF counters, requests
<1>6. graceUsed' \in BOOLEAN
  BY DEF counters, requests
<1>7. tools' \in BOOLEAN
  BY DEF counters, requests
<1>8. wanted' \in BOOLEAN
  BY DEF counters, requests
<1>9. retries' \in Nat
  BY DEF counters, requests
<1>10. initial' \in Nat
  BY DEF counters, requests
<1>11. tries' \in Nat
  BY DEF counters, requests
<1> QED
  BY <1>1, <1>2, <1>3, <1>4, <1>5, <1>6, <1>7, <1>8, <1>9, <1>10, <1>11 DEF Landed

LEMMA ErrorLands ==
  ASSUME Account, NEW class, TransportError(class)
  PROVE  Landed
<1> USE DEF Account, TransportError, InitialError, PermanentError, MayGrace, Exit, Pause, Park
<1>1. pc' \in {"connect", "backoff", "parked", "dormant", "gone"}
  BY DEF counters, requests
<1>2. why' \in {"none", "clean", "error", "initial"}
  BY DEF counters, requests
<1>3. ready' \in BOOLEAN
  BY DEF counters, requests
<1>4. wake' \in BOOLEAN
  BY DEF counters, requests
<1>5. race' \in BOOLEAN
  BY DEF counters, requests
<1>6. graceUsed' \in BOOLEAN
  BY DEF counters, requests
<1>7. tools' \in BOOLEAN
  BY DEF counters, requests
<1>8. wanted' \in BOOLEAN
  BY DEF counters, requests
<1>9. retries' \in Nat
  BY DEF counters, requests
<1>10. initial' \in Nat
  BY DEF counters, requests
<1>11. tries' \in Nat
  BY DEF counters, requests
<1> QED
  BY <1>1, <1>2, <1>3, <1>4, <1>5, <1>6, <1>7, <1>8, <1>9, <1>10, <1>11 DEF Landed

\* A clean return of a session that was served keeps the accounts.
LEMMA CleanKeeps ==
  ASSUME McpAssumption, McpInv, NEW reason, CleanReturn(reason), ever,
         pc \in Live \cup {"unwind"}, kind = "http" => reason # "recycle",
         kind' = kind, ever' = ever, proven' = proven
  PROVE  HttpOK' /\ FirstOK' /\ BudgetOK' /\ FlapperParks'
<1> USE DEF McpInv, McpTypeOK, McpAssumption, CleanReturn
<1>1. HttpOK'
  BY DEF HttpOK, Connecting, Exit, Sleeps, Rebuilds, Rebuild, Attempt, Park, counters, requests
<1>2. FirstOK'
  BY DEF FirstOK
<1>3. BudgetOK'
  BY DEF BudgetOK, Grace, Connecting, Live, Exit, Sleeps, Rebuilds, Rebuild, Attempt, Park, counters, requests
<1>4. FlapperParks'
  BY DEF BudgetOK, Grace, FlapperParks, Connecting, Live, Exit, Sleeps, Rebuilds, Rebuild, Attempt, Park, counters, requests
<1> QED
  BY <1>1, <1>2, <1>3, <1>4

\* An error of the transport keeps them.
LEMMA ErrorKeeps ==
  ASSUME McpAssumption, McpInv, NEW class, TransportError(class),
         pc \in Connecting \cup Live \cup {"unwind"}, kind = "stdio" \/ stop \/ ~ready,
         kind' = kind, ever' = ever, proven' = proven
  PROVE  HttpOK' /\ FirstOK' /\ BudgetOK' /\ FlapperParks'
<1> USE DEF McpInv, McpTypeOK, McpAssumption, TransportError
<1>1. HttpOK'
  BY DEF HttpOK, FirstOK, Connecting, Live, InitialError, PermanentError, MayGrace, Exit, Pause, Park, counters, requests
<1>2. FirstOK'
  BY DEF FirstOK, FlapperParks, Connecting, Live, InitialError, PermanentError, MayGrace, Exit, Pause, Park, counters, requests
<1>3. BudgetOK'
  BY DEF BudgetOK, Grace, Connecting, Live, InitialError, PermanentError, MayGrace, Exit, Pause, Park, counters, requests
<1>4. FlapperParks'
  BY DEF FirstOK, BudgetOK, Grace, FlapperParks, Connecting, Live, InitialError, PermanentError, MayGrace, Exit, Pause, Park, counters, requests
<1> QED
  BY <1>1, <1>2, <1>3, <1>4

\* What leaves the run task and its accounts alone keeps them, also when _ready is cleared.
LEMMA StillKeeps ==
  ASSUME McpInv, kind' = kind, pc' = pc, why' = why, ready' => ready, ever' = ever,
         proven' = proven, graceUsed' = graceUsed, retries' = retries, initial' = initial,
         tries' = tries
  PROVE  HttpOK' /\ FirstOK' /\ BudgetOK' /\ FlapperParks'
  BY DEF McpInv, HttpOK, FirstOK, BudgetOK, Grace, FlapperParks

\* A proof of health clears them.
LEMMA ProofKeeps ==
  ASSUME McpAssumption, McpInv, Prove, kind' = kind, why' = why, ready' = ready, ever' = ever,
         pc' = pc \/ (pc = "probe" /\ pc' = "serve")
  PROVE  HttpOK' /\ FirstOK' /\ BudgetOK' /\ FlapperParks'
<1> USE DEF McpInv, McpTypeOK, McpAssumption, Prove
<1>1. HttpOK'
  BY DEF HttpOK, Connecting
<1>2. FirstOK'
  BY DEF FirstOK, Connecting, counters
<1>3. BudgetOK'
  BY DEF BudgetOK, Grace, Connecting, Live, counters
<1>4. FlapperParks'
  BY DEF FlapperParks
<1> QED
  BY <1>1, <1>2, <1>3, <1>4

-----------------------------------------------------------------------------
(* Types *)

LEMMA TypeStep ==
  ASSUME McpAssumption, McpTypeOK, [McpNext]_mcpVars
  PROVE  McpTypeOK'
<1> USE DEF McpTypeOK, McpAssumption
<1>0. Account
  BY DEF Account
<1>1. CASE Handshake
  BY <1>1 DEF Handshake, counters, requests, callers, Connecting, Live
<1>2. CASE DiscoverStarts
  BY <1>2 DEF DiscoverStarts, taskVars, requests, callers, Connecting, Live
<1>3. CASE Discovered
  <2> USE <1>3 DEF Discovered, counters, requests, callers, Connecting, Live
  <2>1. kind' \in Kinds /\ pc' \in Connecting \cup Live \cup {"unwind", "backoff", "parked", "dormant", "gone"}
         /\ why' \in {"none", "reconnect", "recycle", "shutdown", "clean", "error", "initial"}
    OBVIOUS
  <2>2. session' \in BOOLEAN /\ ready' \in BOOLEAN /\ wake' \in BOOLEAN /\ stop' \in BOOLEAN
    OBVIOUS
  <2>3. recycled' \in BOOLEAN /\ ever' \in BOOLEAN /\ proven' \in BOOLEAN /\ race' \in BOOLEAN
    OBVIOUS
  <2>4. graceUsed' \in BOOLEAN /\ tools' \in BOOLEAN /\ orphan' \in BOOLEAN /\ wanted' \in BOOLEAN
    OBVIOUS
  <2>5. retries' \in Nat /\ initial' \in Nat /\ tries' \in Nat
    OBVIOUS
  <2>6. holder' \in {"none", "task", "refresh"} \cup Caller
         /\ doing' \in [Caller -> {"idle", "queued", "rpc", "asking"}] /\ clears' \in [Caller -> BOOLEAN]
    OBVIOUS
  <2>7. session' => pc' \in {"discover", "unwind"} \cup Live
    OBVIOUS
  <2>8. holder' = "task" => pc' \in {"discover", "probe"}
    OBVIOUS
  <2> QED
    BY <2>1, <2>2, <2>3, <2>4, <2>5, <2>6, <2>7, <2>8
<1>4. CASE Recycle
  BY <1>4 DEF Recycle, counters, requests, callers, Connecting, Live
<1>5. CASE ProbeStarts
  BY <1>5 DEF ProbeStarts, counters, requests, callers, Connecting, Live
<1>6. CASE ProbeSucceeds
  <2> USE <1>6 DEF ProbeSucceeds, Prove, counters, requests, callers, Connecting, Live
  <2>1. kind' \in Kinds /\ pc' \in Connecting \cup Live \cup {"unwind", "backoff", "parked", "dormant", "gone"}
         /\ why' \in {"none", "reconnect", "recycle", "shutdown", "clean", "error", "initial"}
    OBVIOUS
  <2>2. session' \in BOOLEAN /\ ready' \in BOOLEAN /\ wake' \in BOOLEAN /\ stop' \in BOOLEAN
    OBVIOUS
  <2>3. recycled' \in BOOLEAN /\ ever' \in BOOLEAN /\ proven' \in BOOLEAN /\ race' \in BOOLEAN
    OBVIOUS
  <2>4. graceUsed' \in BOOLEAN /\ tools' \in BOOLEAN /\ orphan' \in BOOLEAN /\ wanted' \in BOOLEAN
    OBVIOUS
  <2>5. retries' \in Nat /\ initial' \in Nat /\ tries' \in Nat
    OBVIOUS
  <2>6. holder' \in {"none", "task", "refresh"} \cup Caller
         /\ doing' \in [Caller -> {"idle", "queued", "rpc", "asking"}] /\ clears' \in [Caller -> BOOLEAN]
    OBVIOUS
  <2>7. session' => pc' \in {"discover", "unwind"} \cup Live
    OBVIOUS
  <2>8. holder' = "task" => pc' \in {"discover", "probe"}
    OBVIOUS
  <2> QED
    BY <2>1, <2>2, <2>3, <2>4, <2>5, <2>6, <2>7, <2>8
<1>7. CASE ProbeFails
  BY <1>7 DEF ProbeFails, counters, callers, Connecting, Live
<1>8. CASE EndServing
  <2> USE <1>8 DEF EndServing, FailInflight, Connecting, Live
  <2>1. kind' \in Kinds /\ pc' \in Connecting \cup Live \cup {"unwind", "backoff", "parked", "dormant", "gone"}
         /\ why' \in {"none", "reconnect", "recycle", "shutdown", "clean", "error", "initial"}
    OBVIOUS
  <2>2. session' \in BOOLEAN /\ ready' \in BOOLEAN /\ wake' \in BOOLEAN /\ stop' \in BOOLEAN
    OBVIOUS
  <2>3. recycled' \in BOOLEAN /\ ever' \in BOOLEAN /\ proven' \in BOOLEAN /\ race' \in BOOLEAN
    OBVIOUS
  <2>4. graceUsed' \in BOOLEAN /\ tools' \in BOOLEAN /\ orphan' \in BOOLEAN /\ wanted' \in BOOLEAN
    OBVIOUS
  <2>5. retries' \in Nat /\ initial' \in Nat /\ tries' \in Nat
    OBVIOUS
  <2>6. holder' \in {"none", "task", "refresh"} \cup Caller
         /\ doing' \in [Caller -> {"idle", "queued", "rpc", "asking"}] /\ clears' \in [Caller -> BOOLEAN]
    OBVIOUS
  <2>7. session' => pc' \in {"discover", "unwind"} \cup Live
    OBVIOUS
  <2>8. holder' = "task" => pc' \in {"discover", "probe"}
    OBVIOUS
  <2> QED
    BY <2>1, <2>2, <2>3, <2>4, <2>5, <2>6, <2>7, <2>8
<1>9. CASE PauseEnds
  <2> USE <1>9 DEF PauseEnds, Attempt, counters, callers, Connecting, Live
  <2>1. kind' \in Kinds /\ pc' \in Connecting \cup Live \cup {"unwind", "backoff", "parked", "dormant", "gone"}
         /\ why' \in {"none", "reconnect", "recycle", "shutdown", "clean", "error", "initial"}
    OBVIOUS
  <2>2. session' \in BOOLEAN /\ ready' \in BOOLEAN /\ wake' \in BOOLEAN /\ stop' \in BOOLEAN
    OBVIOUS
  <2>3. recycled' \in BOOLEAN /\ ever' \in BOOLEAN /\ proven' \in BOOLEAN /\ race' \in BOOLEAN
    OBVIOUS
  <2>4. graceUsed' \in BOOLEAN /\ tools' \in BOOLEAN /\ orphan' \in BOOLEAN /\ wanted' \in BOOLEAN
    OBVIOUS
  <2>5. retries' \in Nat /\ initial' \in Nat /\ tries' \in Nat
    OBVIOUS
  <2>6. holder' \in {"none", "task", "refresh"} \cup Caller
         /\ doing' \in [Caller -> {"idle", "queued", "rpc", "asking"}] /\ clears' \in [Caller -> BOOLEAN]
    OBVIOUS
  <2>7. session' => pc' \in {"discover", "unwind"} \cup Live
    OBVIOUS
  <2>8. holder' = "task" => pc' \in {"discover", "probe"}
    OBVIOUS
  <2> QED
    BY <2>1, <2>2, <2>3, <2>4, <2>5, <2>6, <2>7, <2>8
<1>10. CASE ParkEnds
  <2> USE <1>10 DEF ParkEnds, Exit, Attempt, Rearm, counters, requests, callers, Connecting, Live
  <2>1. kind' \in Kinds /\ pc' \in Connecting \cup Live \cup {"unwind", "backoff", "parked", "dormant", "gone"}
         /\ why' \in {"none", "reconnect", "recycle", "shutdown", "clean", "error", "initial"}
    OBVIOUS
  <2>2. session' \in BOOLEAN /\ ready' \in BOOLEAN /\ wake' \in BOOLEAN /\ stop' \in BOOLEAN
    OBVIOUS
  <2>3. recycled' \in BOOLEAN /\ ever' \in BOOLEAN /\ proven' \in BOOLEAN /\ race' \in BOOLEAN
    OBVIOUS
  <2>4. graceUsed' \in BOOLEAN /\ tools' \in BOOLEAN /\ orphan' \in BOOLEAN /\ wanted' \in BOOLEAN
    OBVIOUS
  <2>5. retries' \in Nat /\ initial' \in Nat /\ tries' \in Nat
    OBVIOUS
  <2>6. holder' \in {"none", "task", "refresh"} \cup Caller
         /\ doing' \in [Caller -> {"idle", "queued", "rpc", "asking"}] /\ clears' \in [Caller -> BOOLEAN]
    OBVIOUS
  <2>7. session' => pc' \in {"discover", "unwind"} \cup Live
    OBVIOUS
  <2>8. holder' = "task" => pc' \in {"discover", "probe"}
    OBVIOUS
  <2> QED
    BY <2>1, <2>2, <2>3, <2>4, <2>5, <2>6, <2>7, <2>8
<1>11. CASE WakeUp
  <2> USE <1>11 DEF WakeUp, Exit, Attempt, counters, requests, callers, Connecting, Live
  <2>1. kind' \in Kinds /\ pc' \in Connecting \cup Live \cup {"unwind", "backoff", "parked", "dormant", "gone"}
         /\ why' \in {"none", "reconnect", "recycle", "shutdown", "clean", "error", "initial"}
    OBVIOUS
  <2>2. session' \in BOOLEAN /\ ready' \in BOOLEAN /\ wake' \in BOOLEAN /\ stop' \in BOOLEAN
    OBVIOUS
  <2>3. recycled' \in BOOLEAN /\ ever' \in BOOLEAN /\ proven' \in BOOLEAN /\ race' \in BOOLEAN
    OBVIOUS
  <2>4. graceUsed' \in BOOLEAN /\ tools' \in BOOLEAN /\ orphan' \in BOOLEAN /\ wanted' \in BOOLEAN
    OBVIOUS
  <2>5. retries' \in Nat /\ initial' \in Nat /\ tries' \in Nat
    OBVIOUS
  <2>6. holder' \in {"none", "task", "refresh"} \cup Caller
         /\ doing' \in [Caller -> {"idle", "queued", "rpc", "asking"}] /\ clears' \in [Caller -> BOOLEAN]
    OBVIOUS
  <2>7. session' => pc' \in {"discover", "unwind"} \cup Live
    OBVIOUS
  <2>8. holder' = "task" => pc' \in {"discover", "probe"}
    OBVIOUS
  <2> QED
    BY <2>1, <2>2, <2>3, <2>4, <2>5, <2>6, <2>7, <2>8
<1>12. CASE Unwound
  <2>1. Landed
    BY <1>12, <1>0, CleanLands DEF Unwound
  <2> USE <1>12, <2>1 DEF Unwound, Landed, SessionCloses, callers, Connecting, Live
  <2>2. kind' \in Kinds /\ pc' \in Connecting \cup Live \cup {"unwind", "backoff", "parked", "dormant", "gone"}
         /\ why' \in {"none", "reconnect", "recycle", "shutdown", "clean", "error", "initial"}
    OBVIOUS
  <2>3. session' \in BOOLEAN /\ ready' \in BOOLEAN /\ wake' \in BOOLEAN /\ stop' \in BOOLEAN
    OBVIOUS
  <2>4. recycled' \in BOOLEAN /\ ever' \in BOOLEAN /\ proven' \in BOOLEAN /\ race' \in BOOLEAN
    OBVIOUS
  <2>5. graceUsed' \in BOOLEAN /\ tools' \in BOOLEAN /\ orphan' \in BOOLEAN /\ wanted' \in BOOLEAN
    OBVIOUS
  <2>6. retries' \in Nat /\ initial' \in Nat /\ tries' \in Nat
    OBVIOUS
  <2>7. holder' \in {"none", "task", "refresh"} \cup Caller
         /\ doing' \in [Caller -> {"idle", "queued", "rpc", "asking"}] /\ clears' \in [Caller -> BOOLEAN]
    OBVIOUS
  <2>8. session' => pc' \in {"discover", "unwind"} \cup Live
    OBVIOUS
  <2>9. holder' = "task" => pc' \in {"discover", "probe"}
    OBVIOUS
  <2> QED
    BY <2>2, <2>3, <2>4, <2>5, <2>6, <2>7, <2>8, <2>9
<1>13. CASE Fails
  <2>1. Landed /\ recycled' \in BOOLEAN
    BY <1>13, <1>0, CleanLands, ErrorLands DEF Fails, Raises
  <2> USE <1>13, <2>1 DEF Fails, Landed, SessionCloses, callers, Connecting, Live
  <2>2. kind' \in Kinds /\ pc' \in Connecting \cup Live \cup {"unwind", "backoff", "parked", "dormant", "gone"}
         /\ why' \in {"none", "reconnect", "recycle", "shutdown", "clean", "error", "initial"}
    OBVIOUS
  <2>3. session' \in BOOLEAN /\ ready' \in BOOLEAN /\ wake' \in BOOLEAN /\ stop' \in BOOLEAN
    OBVIOUS
  <2>4. recycled' \in BOOLEAN /\ ever' \in BOOLEAN /\ proven' \in BOOLEAN /\ race' \in BOOLEAN
    OBVIOUS
  <2>5. graceUsed' \in BOOLEAN /\ tools' \in BOOLEAN /\ orphan' \in BOOLEAN /\ wanted' \in BOOLEAN
    OBVIOUS
  <2>6. retries' \in Nat /\ initial' \in Nat /\ tries' \in Nat
    OBVIOUS
  <2>7. holder' \in {"none", "task", "refresh"} \cup Caller
         /\ doing' \in [Caller -> {"idle", "queued", "rpc", "asking"}] /\ clears' \in [Caller -> BOOLEAN]
    OBVIOUS
  <2>8. session' => pc' \in {"discover", "unwind"} \cup Live
    OBVIOUS
  <2>9. holder' = "task" => pc' \in {"discover", "probe"}
    OBVIOUS
  <2> QED
    BY <2>2, <2>3, <2>4, <2>5, <2>6, <2>7, <2>8, <2>9
<1>14. ASSUME NEW c \in Caller, CallStarts(c) PROVE McpTypeOK'
  BY <1>14 DEF CallStarts, taskVars, requests, Live
<1>15. ASSUME NEW c \in Caller, CallFindsNone(c) PROVE McpTypeOK'
  BY <1>15 DEF CallFindsNone, taskVars, requests, Live
<1>16. ASSUME NEW c \in Caller, CallRuns(c) PROVE McpTypeOK'
  BY <1>16 DEF CallRuns, taskVars, requests, Live
<1>17. ASSUME NEW c \in Caller, CallAnswered(c) PROVE McpTypeOK'
  <2> USE <1>17 DEF CallAnswered, Prove, LetGo, taskState, counters, requests, Live
  <2>1. kind' \in Kinds /\ pc' \in Connecting \cup Live \cup {"unwind", "backoff", "parked", "dormant", "gone"}
         /\ why' \in {"none", "reconnect", "recycle", "shutdown", "clean", "error", "initial"}
    OBVIOUS
  <2>2. session' \in BOOLEAN /\ ready' \in BOOLEAN /\ wake' \in BOOLEAN /\ stop' \in BOOLEAN
    OBVIOUS
  <2>3. recycled' \in BOOLEAN /\ ever' \in BOOLEAN /\ proven' \in BOOLEAN /\ race' \in BOOLEAN
    OBVIOUS
  <2>4. graceUsed' \in BOOLEAN /\ tools' \in BOOLEAN /\ orphan' \in BOOLEAN /\ wanted' \in BOOLEAN
    OBVIOUS
  <2>5. retries' \in Nat /\ initial' \in Nat /\ tries' \in Nat
    OBVIOUS
  <2>6. holder' \in {"none", "task", "refresh"} \cup Caller
         /\ doing' \in [Caller -> {"idle", "queued", "rpc", "asking"}] /\ clears' \in [Caller -> BOOLEAN]
    OBVIOUS
  <2>7. session' => pc' \in {"discover", "unwind"} \cup Live
    OBVIOUS
  <2>8. holder' = "task" => pc' \in {"discover", "probe"}
    OBVIOUS
  <2> QED
    BY <2>1, <2>2, <2>3, <2>4, <2>5, <2>6, <2>7, <2>8
<1>18. ASSUME NEW c \in Caller, CallFails(c) PROVE McpTypeOK'
  BY <1>18 DEF CallFails, LetGo, taskVars, requests, Live
<1>19. ASSUME NEW c \in Caller, CallExpires(c) PROVE McpTypeOK'
  BY <1>19 DEF CallExpires, LetGo, taskVars, requests, Live
<1>20. ASSUME NEW c \in Caller, Asks(c) PROVE McpTypeOK'
  BY <1>20 DEF Asks, taskState, counters, Live
<1>21. CASE Nudge
  BY <1>21 DEF Nudge, taskVars, callers, Live
<1>22. CASE RefreshStarts
  BY <1>22 DEF RefreshStarts, taskVars, requests, callers, Live
<1>23. CASE RefreshEnds
  <2> USE <1>23 DEF RefreshEnds, taskVars, requests, callers, Live
  <2>1. kind' \in Kinds /\ pc' \in Connecting \cup Live \cup {"unwind", "backoff", "parked", "dormant", "gone"}
         /\ why' \in {"none", "reconnect", "recycle", "shutdown", "clean", "error", "initial"}
    OBVIOUS
  <2>2. session' \in BOOLEAN /\ ready' \in BOOLEAN /\ wake' \in BOOLEAN /\ stop' \in BOOLEAN
    OBVIOUS
  <2>3. recycled' \in BOOLEAN /\ ever' \in BOOLEAN /\ proven' \in BOOLEAN /\ race' \in BOOLEAN
    OBVIOUS
  <2>4. graceUsed' \in BOOLEAN /\ tools' \in BOOLEAN /\ orphan' \in BOOLEAN /\ wanted' \in BOOLEAN
    OBVIOUS
  <2>5. retries' \in Nat /\ initial' \in Nat /\ tries' \in Nat
    OBVIOUS
  <2>6. holder' \in {"none", "task", "refresh"} \cup Caller
         /\ doing' \in [Caller -> {"idle", "queued", "rpc", "asking"}] /\ clears' \in [Caller -> BOOLEAN]
    OBVIOUS
  <2>7. session' => pc' \in {"discover", "unwind"} \cup Live
    OBVIOUS
  <2>8. holder' = "task" => pc' \in {"discover", "probe"}
    OBVIOUS
  <2> QED
    BY <2>1, <2>2, <2>3, <2>4, <2>5, <2>6, <2>7, <2>8
<1>24. CASE Shutdown
  BY <1>24 DEF Shutdown, taskVars, callers, Live
<1>25. CASE ShutdownEnds
  BY <1>25 DEF ShutdownEnds, SessionCloses, counters, requests, callers, Live
<1>26. CASE UNCHANGED mcpVars
  BY <1>26 DEF mcpVars, taskVars
<1> QED
  BY <1>1, <1>2, <1>3, <1>4, <1>5, <1>6, <1>7, <1>8, <1>9, <1>10, <1>11, <1>12, <1>13, <1>14, <1>15, <1>16, <1>17, <1>18, <1>19, <1>20, <1>21, <1>22, <1>23, <1>24, <1>25, <1>26 DEF McpNext

-----------------------------------------------------------------------------
(* The accounts *)

LEMMA AccountStep ==
  ASSUME McpAssumption, McpInv, [McpNext]_mcpVars
  PROVE  HttpOK' /\ FirstOK' /\ BudgetOK' /\ FlapperParks'
<1>1. CASE Handshake
  <2> USE <1>1 DEF McpInv, McpTypeOK, McpAssumption, Handshake, counters, requests, callers, Connecting, Live
  <2>1. HttpOK'
    BY DEF HttpOK, FirstOK
  <2>2. FirstOK'
    BY DEF FirstOK
  <2>3. BudgetOK'
    BY DEF BudgetOK, FirstOK, Grace
  <2>4. FlapperParks'
    BY DEF FlapperParks, FirstOK, BudgetOK, Grace
  <2> QED
    BY <2>1, <2>2, <2>3, <2>4
<1>2. CASE Discovered
  <2> USE <1>2 DEF McpInv, McpTypeOK, McpAssumption, Discovered, counters, requests, callers, Connecting, Live
  <2>1. HttpOK'
    BY DEF HttpOK, FirstOK
  <2>2. FirstOK'
    BY DEF FirstOK
  <2>3. BudgetOK'
    BY DEF BudgetOK, FirstOK, Grace
  <2>4. FlapperParks'
    BY DEF FlapperParks, FirstOK, BudgetOK, Grace
  <2> QED
    BY <2>1, <2>2, <2>3, <2>4
<1>3. CASE Recycle
  <2> USE <1>3 DEF McpInv, McpTypeOK, McpAssumption, Recycle, counters, requests, callers, Connecting, Live
  <2>1. HttpOK'
    BY DEF HttpOK, FirstOK
  <2>2. FirstOK'
    BY DEF FirstOK
  <2>3. BudgetOK'
    BY DEF BudgetOK, FirstOK, Grace
  <2>4. FlapperParks'
    BY DEF FlapperParks, FirstOK, BudgetOK, Grace
  <2> QED
    BY <2>1, <2>2, <2>3, <2>4
<1>4. CASE ProbeStarts
  <2> USE <1>4 DEF McpInv, McpTypeOK, McpAssumption, ProbeStarts, counters, requests, callers, Connecting, Live
  <2>1. HttpOK'
    BY DEF HttpOK, FirstOK
  <2>2. FirstOK'
    BY DEF FirstOK
  <2>3. BudgetOK'
    BY DEF BudgetOK, FirstOK, Grace
  <2>4. FlapperParks'
    BY DEF FlapperParks, FirstOK, BudgetOK, Grace
  <2> QED
    BY <2>1, <2>2, <2>3, <2>4
<1>5. CASE ProbeFails
  <2> USE <1>5 DEF McpInv, McpTypeOK, McpAssumption, ProbeFails, counters, callers, Connecting, Live
  <2>1. HttpOK'
    BY DEF HttpOK, FirstOK
  <2>2. FirstOK'
    BY DEF FirstOK
  <2>3. BudgetOK'
    BY DEF BudgetOK, FirstOK, Grace
  <2>4. FlapperParks'
    BY DEF FlapperParks, FirstOK, BudgetOK, Grace
  <2> QED
    BY <2>1, <2>2, <2>3, <2>4
<1>6. CASE EndServing
  <2> USE <1>6 DEF McpInv, McpTypeOK, McpAssumption, EndServing, FailInflight, Connecting, Live
  <2>1. HttpOK'
    BY DEF HttpOK, FirstOK
  <2>2. FirstOK'
    BY DEF FirstOK
  <2>3. BudgetOK'
    BY DEF BudgetOK, FirstOK, Grace
  <2>4. FlapperParks'
    BY DEF FlapperParks, FirstOK, BudgetOK, Grace
  <2> QED
    BY <2>1, <2>2, <2>3, <2>4
<1>7. CASE PauseEnds
  <2> USE <1>7 DEF McpInv, McpTypeOK, McpAssumption, PauseEnds, Attempt, counters, callers, Connecting, Live
  <2>1. HttpOK'
    BY DEF HttpOK, FirstOK
  <2>2. FirstOK'
    BY DEF FirstOK
  <2>3. BudgetOK'
    BY DEF BudgetOK, FirstOK, Grace
  <2>4. FlapperParks'
    BY DEF FlapperParks, FirstOK, BudgetOK, Grace
  <2> QED
    BY <2>1, <2>2, <2>3, <2>4
<1>8. CASE ParkEnds
  <2> USE <1>8 DEF McpInv, McpTypeOK, McpAssumption, ParkEnds, Exit, Attempt, Rearm, counters, requests, callers, Connecting, Live
  <2>1. HttpOK'
    BY DEF HttpOK, FirstOK
  <2>2. FirstOK'
    BY DEF FirstOK
  <2>3. BudgetOK'
    BY DEF BudgetOK, FirstOK, Grace
  <2>4. FlapperParks'
    BY DEF FlapperParks, FirstOK, BudgetOK, Grace
  <2> QED
    BY <2>1, <2>2, <2>3, <2>4
<1>9. CASE WakeUp
  <2> USE <1>9 DEF McpInv, McpTypeOK, McpAssumption, WakeUp, Exit, Attempt, counters, requests, callers, Connecting, Live
  <2>1. HttpOK'
    BY DEF HttpOK, FirstOK
  <2>2. FirstOK'
    BY DEF FirstOK
  <2>3. BudgetOK'
    BY DEF BudgetOK, FirstOK, Grace
  <2>4. FlapperParks'
    BY DEF FlapperParks, FirstOK, BudgetOK, Grace
  <2> QED
    BY <2>1, <2>2, <2>3, <2>4
<1>10. CASE ShutdownEnds
  <2> USE <1>10 DEF McpInv, McpTypeOK, McpAssumption, ShutdownEnds, SessionCloses, counters, requests, callers, Connecting, Live
  <2>1. HttpOK'
    BY DEF HttpOK, FirstOK
  <2>2. FirstOK'
    BY DEF FirstOK
  <2>3. BudgetOK'
    BY DEF BudgetOK, FirstOK, Grace
  <2>4. FlapperParks'
    BY DEF FlapperParks, FirstOK, BudgetOK, Grace
  <2> QED
    BY <2>1, <2>2, <2>3, <2>4
<1>11. CASE ProbeSucceeds
  BY <1>11, ProofKeeps DEF ProbeSucceeds
<1>12. CASE Unwound
  <2>1. ever /\ pc = "unwind" /\ (kind = "http" => why # "recycle")
    BY <1>12 DEF Unwound, McpInv, FirstOK, HttpOK, Connecting
  <2> QED
    BY <1>12, <2>1, CleanKeeps DEF Unwound, Live
<1>13. CASE Fails
  <2>1. pc \in Connecting \cup Live \cup {"unwind"} /\ kind' = kind /\ ever' = ever /\ proven' = proven
    BY <1>13 DEF Fails, Connecting, Live
  <2>2. PICK class \in {"transient", "auth", "permanent"} : Raises(class)
    BY <1>13 DEF Fails
  <2>3. CASE kind = "http" /\ ~stop /\ ready /\ CleanReturn("reconnect")
    <3>1. ever /\ pc \in Live \cup {"unwind"}
      BY <2>1, <2>3 DEF McpInv, FirstOK, HttpOK, Connecting, Live
    <3> QED
      BY <2>1, <2>3, <3>1, CleanKeeps
  <2>4. CASE (kind = "stdio" \/ stop \/ ~ready) /\ TransportError(class)
    BY <2>1, <2>4, ErrorKeeps
  <2> QED
    BY <2>2, <2>3, <2>4 DEF Raises
<1>14. ASSUME NEW c \in Caller, CallAnswered(c) PROVE HttpOK' /\ FirstOK' /\ BudgetOK' /\ FlapperParks'
  BY <1>14, ProofKeeps DEF CallAnswered, taskState
<1>15. ASSUME NEW c \in Caller, Asks(c) PROVE HttpOK' /\ FirstOK' /\ BudgetOK' /\ FlapperParks'
  BY <1>15, StillKeeps DEF Asks, taskState, counters
<1>16. ASSUME NEW c \in Caller, CallStarts(c) PROVE HttpOK' /\ FirstOK' /\ BudgetOK' /\ FlapperParks'
  BY <1>16, StillKeeps DEF CallStarts, taskVars
<1>17. ASSUME NEW c \in Caller, CallFindsNone(c) PROVE HttpOK' /\ FirstOK' /\ BudgetOK' /\ FlapperParks'
  BY <1>17, StillKeeps DEF CallFindsNone, taskVars
<1>18. ASSUME NEW c \in Caller, CallRuns(c) PROVE HttpOK' /\ FirstOK' /\ BudgetOK' /\ FlapperParks'
  BY <1>18, StillKeeps DEF CallRuns, taskVars
<1>19. ASSUME NEW c \in Caller, CallFails(c) PROVE HttpOK' /\ FirstOK' /\ BudgetOK' /\ FlapperParks'
  BY <1>19, StillKeeps DEF CallFails, taskVars
<1>20. ASSUME NEW c \in Caller, CallExpires(c) PROVE HttpOK' /\ FirstOK' /\ BudgetOK' /\ FlapperParks'
  BY <1>20, StillKeeps DEF CallExpires, taskVars
<1>21. CASE DiscoverStarts
  BY <1>21, StillKeeps DEF DiscoverStarts, taskVars
<1>22. CASE Nudge
  BY <1>22, StillKeeps DEF Nudge, taskVars
<1>23. CASE RefreshStarts
  BY <1>23, StillKeeps DEF RefreshStarts, taskVars
<1>24. CASE RefreshEnds
  BY <1>24, StillKeeps DEF RefreshEnds, taskVars
<1>25. CASE Shutdown
  BY <1>25, StillKeeps DEF Shutdown, taskVars
<1>26. CASE UNCHANGED mcpVars
  BY <1>26, StillKeeps DEF mcpVars, taskVars
<1> QED
  BY <1>1, <1>2, <1>3, <1>4, <1>5, <1>6, <1>7, <1>8, <1>9, <1>10, <1>11, <1>12, <1>13, <1>14, <1>15, <1>16, <1>17, <1>18, <1>19, <1>20, <1>21, <1>22, <1>23, <1>24, <1>25, <1>26 DEF McpNext

-----------------------------------------------------------------------------
(* Requests *)

LEMMA RequestStep ==
  ASSUME McpTypeOK, RequestsKept, [McpNext]_mcpVars
  PROVE  RequestsKept'
<1> USE DEF RequestsKept
<1>1. CASE Handshake
  BY <1>1 DEF Handshake, Connecting, requests, McpTypeOK
<1>2. CASE DiscoverStarts
  BY <1>2 DEF DiscoverStarts, taskVars, requests, McpTypeOK
<1>3. CASE Discovered
  BY <1>3 DEF Discovered, requests, McpTypeOK
<1>4. CASE Recycle
  BY <1>4 DEF Recycle, requests, McpTypeOK
<1>5. CASE ProbeStarts
  BY <1>5 DEF ProbeStarts, requests, McpTypeOK
<1>6. CASE ProbeSucceeds
  BY <1>6 DEF ProbeSucceeds, requests, McpTypeOK
<1>7. CASE ProbeFails
  BY <1>7 DEF ProbeFails, Live, McpTypeOK
<1>8. CASE EndServing
  BY <1>8 DEF EndServing, Live, McpTypeOK
<1>9. CASE PauseEnds
  BY <1>9 DEF PauseEnds, Attempt, McpTypeOK
<1>10. CASE ParkEnds
  BY <1>10 DEF ParkEnds, Exit, Attempt, requests, McpTypeOK
<1>11. CASE WakeUp
  BY <1>11 DEF WakeUp, Exit, Attempt, requests, McpTypeOK
<1>12. CASE Unwound
  <2>1. CASE stop /\ Exit
    BY <2>1 DEF Exit
  <2>2. CASE why = "recycle" /\ Sleeps
    BY <1>12, <2>2 DEF Unwound, Sleeps, requests
  <2>3. CASE Rebuilds
    BY <2>3 DEF Rebuilds, Rebuild, Attempt, Park
  <2> QED
    BY <1>12, <2>1, <2>2, <2>3 DEF Unwound, CleanReturn
<1>13. CASE Nudge
  BY <1>13 DEF Nudge, Live, McpTypeOK
<1>14. CASE RefreshStarts
  BY <1>14 DEF RefreshStarts, taskVars, requests, McpTypeOK
<1>15. CASE RefreshEnds
  BY <1>15 DEF RefreshEnds, taskVars, requests, McpTypeOK
<1>16. CASE Shutdown
  BY <1>16 DEF Shutdown, taskVars, McpTypeOK
<1>17. CASE ShutdownEnds
  BY <1>17 DEF ShutdownEnds, requests, McpTypeOK
<1>18. CASE Fails
  <2>1. PICK class \in {"transient", "auth", "permanent"} : Raises(class)
    BY <1>18 DEF Fails
  <2>2. CASE CleanReturn("reconnect")
    BY <2>2 DEF CleanReturn, Exit, Rebuilds, Rebuild, Attempt, Park, requests
  <2>3. CASE TransportError(class)
    BY <2>3 DEF TransportError, InitialError, PermanentError, Exit, Pause, Park, requests
  <2> QED
    BY <2>1, <2>2, <2>3 DEF Raises
<1>19. ASSUME NEW c \in Caller, CallStarts(c) PROVE RequestsKept'
  BY <1>19 DEF CallStarts, taskVars, taskState, requests
<1>20. ASSUME NEW c \in Caller, CallFindsNone(c) PROVE RequestsKept'
  BY <1>20 DEF CallFindsNone, taskVars, taskState, requests
<1>21. ASSUME NEW c \in Caller, CallRuns(c) PROVE RequestsKept'
  BY <1>21 DEF CallRuns, taskVars, taskState, requests
<1>22. ASSUME NEW c \in Caller, CallAnswered(c) PROVE RequestsKept'
  BY <1>22 DEF CallAnswered, taskVars, taskState, requests
<1>23. ASSUME NEW c \in Caller, CallFails(c) PROVE RequestsKept'
  BY <1>23 DEF CallFails, taskVars, taskState, requests
<1>24. ASSUME NEW c \in Caller, CallExpires(c) PROVE RequestsKept'
  BY <1>24 DEF CallExpires, taskVars, taskState, requests
<1>25. ASSUME NEW c \in Caller, Asks(c) PROVE RequestsKept'
  BY <1>25 DEF Asks, taskVars, taskState, requests
<1>26. CASE UNCHANGED mcpVars
  BY <1>26 DEF mcpVars, taskVars
<1> QED
  BY <1>1, <1>2, <1>3, <1>4, <1>5, <1>6, <1>7, <1>8, <1>9, <1>10, <1>11, <1>12, <1>13, <1>14, <1>15, <1>16, <1>17, <1>18, <1>19, <1>20, <1>21, <1>22, <1>23, <1>24, <1>25, <1>26 DEF McpNext

-----------------------------------------------------------------------------
(* The theorems *)

LEMMA InvStep == ASSUME McpAssumption, McpInv, [McpNext]_mcpVars PROVE McpInv'
  BY TypeStep, AccountStep DEF McpInv

LEMMA InvHolds == McpSpec => []McpInv
<1>1. McpInit => McpInv
  BY McpAssumption, InitInv
<1>2. McpInv /\ [McpNext]_mcpVars => McpInv'
  BY McpAssumption, InvStep
<1> QED
  BY <1>1, <1>2, PTL DEF McpSpec

\* Every variable of the connection keeps its type; a session is open only while it is
\* served or closing, and the run task holds the lock only in its own requests.
THEOREM McpTyped == McpSpec => []McpTypeOK
<1>1. McpInv => McpTypeOK
  BY DEF McpInv
<1> QED
  BY <1>1, InvHolds, PTL

\* A server that never proves its health is parked after a bounded number of attempts,
\* by whatever way each of them ends, and again after one attempt of every revival.
THEOREM FlappersPark == McpSpec => []FlapperParks
<1>1. McpInv => FlapperParks
  BY DEF McpInv
<1> QED
  BY <1>1, InvHolds, PTL

\* _ready is never set while an HTTP server connects: no failed connect is taken for a
\* drop of a session and retried without a pause.
THEOREM ReadyIsFresh == McpSpec => [](kind = "http" /\ pc \in Connecting => ~ready)
<1>1. McpInv => (kind = "http" /\ pc \in Connecting => ~ready)
  BY DEF McpInv, HttpOK
<1> QED
  BY <1>1, InvHolds, PTL

\* No request to reconnect is lost.
THEOREM RequestsAreKept == McpSpec => []RequestsKept
<1>1. McpInit => RequestsKept
  BY DEF McpInit, RequestsKept
<1>2. McpTypeOK /\ RequestsKept /\ [McpNext]_mcpVars => RequestsKept'
  BY RequestStep
<1> QED
  BY <1>1, <1>2, McpTyped, PTL DEF McpSpec

=============================================================================
