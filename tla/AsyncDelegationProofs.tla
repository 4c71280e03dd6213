------------------------ MODULE AsyncDelegationProofs ------------------------
(***************************************************************************)
(* Theorems about AsyncDelegation, for any units, calls and caps.          *)
(*                                                                         *)
(* One inductive invariant, Inv, carries them.  Nothing has happened to    *)
(* the units a call has yet to dispatch (FreshInv), the call that          *)
(* dispatches a unit has it to itself (DispatchInv), and every unit keeps  *)
(* the right to publish its result in one place (UnitInv): with its active *)
(* record, then with the one thread that claimed it, and then it is spent. *)
(* On top of it, AttendInv says that somebody stands by each record that   *)
(* is still open, and PoolInv that the pool and its threads keep up with   *)
(* the units that calls have counted.                                      *)
(***************************************************************************)
EXTENDS AsyncDelegation, FiniteSetTheorems, WellFoundedInduction, TLAPS

\* Nothing of u's result has been seen by anyone.
Clean(u) ==
  /\ published[u] = 0 /\ queue[u] = 0 /\ hand[u] = "free" /\ delivered[u] = 0
  /\ row[u] \notin {"delivered", "dropped"}

Untouched(u) ==
  /\ Clean(u) /\ row[u] = "absent" /\ u \notin purged /\ rec[u] = "none" /\ pc[u] = "off"
  /\ u \notin started /\ u \notin dispatched

\* Positions of the units that call c has yet to dispatch.
Ahead(c) ==
  {i \in 1..Len(Plan[c]) : call[c] # "over" /\ (i > nth[c] \/ (i = nth[c] /\ call[c] = "admit"))}

\* u has its row, or a prune has taken it.
Owed(u) == row[u] # "absent" \/ u \in purged

\* Submit failed: no one can claim u, though a worker may still run it.
Withdrawn(u) ==
  /\ Clean(u) /\ row[u] = "running" /\ rec[u] = "none" /\ u \notin started
  /\ pc[u] \notin {"persist", "publish", "settle"}

FreshInv == \A c \in Call : \A i \in Ahead(c) : Untouched(Plan[c][i])

\* The unit that call c dispatches is its own until it is submitted.
DispatchAt(c) ==
  LET u == Current(c)
  IN  /\ call[c] \in {"persist", "pool", "submit"} =>
           Clean(u) /\ rec[u] = "running" /\ pc[u] = "off" /\ u \notin started
      /\ call[c] = "persist" => row[u] = "absent" /\ u \notin purged
      /\ call[c] \in {"pool", "submit"} => row[u] = "running"
      /\ call[c] = "unrow" => Withdrawn(u)
      /\ call[c] # "over" => u \notin dispatched
      /\ call[c] = "monitor" => Owed(u)
DispatchInv == \A c \in Call : DispatchAt(c)

\* Thread t has claimed u and not published its event.
Finalizes(t, u) == pc[t] \in {"persist", "publish"} /\ Mine(t) = u

\* Only started units are stalled, and taken up by the monitor.
StallInv(u) ==
  /\ rec[u] = "stalling" => u \in started
  /\ u \in expiring => u \in started
  /\ pc[Monitor] \in Finalizing /\ at = u => u \in started

QueuedInv(u) ==
  pc[u] = "queued" => u \notin started /\ (rec[u] = "running" \/ (rec[u] = "none" /\ failures > 0))

\* A record that can be claimed has its row.
RowInv(u) ==
  rec[u] \in Active /\ (u \in started \/ pc[u] \in {"queued", "running", "claim"})
    => row[u] = "running"

ClaimInv(u) ==
  /\ rec[u] \in Active => Clean(u)
  /\ \A t \in Thread : Finalizes(t, u) =>
        /\ rec[u] \notin Active /\ Clean(u)
        /\ pc[t] = "persist" => row[u] = "running"
        /\ pc[t] = "publish" => row[u] # "running" /\ Owed(u)
        /\ \A s \in Thread : Finalizes(s, u) => s = t

\* The one event of u is on the queue, or with the consumer that claimed it, or gone.
SpentInv(u) ==
  /\ queue[u] <= published[u] /\ published[u] <= 1
  /\ hand[u] \in {"claimed", "injected"} =>
        queue[u] = 0 /\ published[u] = 1 /\ row[u] \in {"pending", "absent"}
  /\ hand[u] = "injected" => delivered[u] >= 1
  /\ row[u] = "delivered" => queue[u] = 0 /\ delivered[u] >= 1
  /\ queue[u] > 0 => row[u] # "running"
  /\ queue[u] > 0 \/ hand[u] = "claimed" \/ u \in dispatched => Owed(u)
  /\ row[u] # "absent" => u \notin purged

UnitInv(u) == StallInv(u) /\ QueuedInv(u) /\ RowInv(u) /\ ClaimInv(u) /\ SpentInv(u)

Inv == FreshInv /\ DispatchInv /\ (\A u \in Unit : UnitInv(u)) /\ SlotsBounded

-----------------------------------------------------------------------------
(* Facts about the helpers *)

LEMMA CurrentIn ==
  ASSUME TypeOK, NEW c \in Call, call[c] # "over"
  PROVE  /\ nth[c] \in 1..Len(Plan[c])
         /\ Current(c) \in Unit
<1>1. nth[c] \in 1..Len(Plan[c])
  BY DelegationAssumption DEF TypeOK, CallsOK
<1> QED BY <1>1, DelegationAssumption DEF Current

LEMMA PlanIn ==
  ASSUME NEW c \in Call, NEW i \in 1..Len(Plan[c])
  PROVE  Plan[c][i] \in Unit
BY DelegationAssumption

LEMMA MineIn ==
  ASSUME TypeOK, NEW t \in Thread
  PROVE  Mine(t) \in Unit
BY DEF TypeOK, Mine, Thread

LEMMA GotoType ==
  ASSUME TypeOK, NEW t \in Thread, NEW step \in PCs, Goto(t, step)
  PROVE  pc' \in [Thread -> PCs]
BY DEF TypeOK, Goto

LEMMA BackType == ASSUME NEW t \in Thread PROVE Back(t) \in PCs
BY DEF Back, PCs

LEMMA CallGoes ==
  ASSUME TypeOK, NEW c \in Call, NEW step \in CallSteps, call[c] # "over",
         call' = [call EXCEPT ![c] = step], nth' = nth
  PROVE  CallsOK'
BY DEF TypeOK, CallsOK

LEMMA NextUnitType ==
  ASSUME TypeOK, NEW c \in Call, call[c] # "over", NextUnit(c)
  PROVE  CallsOK'
<1>1. nth[c] <= Len(Plan[c]) /\ Len(Plan[c]) \in Nat
  BY DelegationAssumption DEF TypeOK, CallsOK
<1> QED BY <1>1 DEF NextUnit, TypeOK, CallsOK, CallSteps

LEMMA RejectedType ==
  ASSUME TypeOK, NEW c \in Call, call[c] # "over", Rejected(c)
  PROVE  CallsOK' /\ inline' \subseteq Unit
<1>1. CASE UnitsOf(c) \cap dispatched = {}
  <2>1. UnitsOf(c) \subseteq Unit
    BY PlanIn DEF UnitsOf
  <2>2. CallsOK'
    BY <1>1, CallGoes DEF Rejected, CallSteps
  <2> QED BY <1>1, <2>1, <2>2 DEF Rejected, TypeOK
<1>2. CASE UnitsOf(c) \cap dispatched # {}
  <2>1. CallsOK'
    BY <1>2, NextUnitType DEF Rejected
  <2>2. inline' = inline \cup {Current(c)}
    BY <1>2 DEF Rejected
  <2> QED BY <2>1, <2>2, CurrentIn DEF TypeOK
<1> QED BY <1>1, <1>2

LEMMA LiveUnitsType == LiveUnits \in Nat
<1>1. {u \in Unit : rec[u] \in Live} \in SUBSET Unit
  OBVIOUS
<1> QED BY <1>1, DelegationAssumption, FS_Subset, FS_CardinalityType DEF LiveUnits

LEMMA LeastIn ==
  ASSUME NEW S, S \subseteq Nat, S # {}
  PROVE  \E i \in S : \A j \in S : i <= j
<1> DEFINE less == OpToRel(<, Nat)
<1>1. PICK i \in S : \A j \in S : ~(<<j, i>> \in less)
  <2>1. IsWellFoundedOn(less, Nat)
    BY NatLessThanWellFounded
  <2> HIDE DEF less
  <2> QED BY <2>1, WFMin, Zenon
<1>2. \A j \in S : ~(j < i)
  BY <1>1 DEF OpToRel
<1> HIDE DEF less
<1> QED BY <1>2

LEMMA SlotKeyType ==
  ASSUME TypeOK, NEW c \in Call, call[c] # "over"
  PROVE  SlotKey(c) \in Unit
<1> DEFINE sent == {i \in 1..Len(Plan[c]) : Plan[c][i] \in dispatched}
<1>1. CASE sent = {}
  BY <1>1, CurrentIn DEF SlotKey
<1>2. CASE sent # {}
  <2> DEFINE first == CHOOSE i \in sent : \A j \in sent : i <= j
  <2>1. sent \subseteq Nat
    OBVIOUS
  <2>2. \E i \in sent : \A j \in sent : i <= j
    <3> HIDE DEF sent
    <3> QED BY <1>2, <2>1, LeastIn, Zenon
  <2>3. first \in sent
    <3> HIDE DEF sent
    <3> QED BY <2>2
  <2> QED BY <1>2, <2>3, PlanIn DEF SlotKey
<1> QED BY <1>1, <1>2


-----------------------------------------------------------------------------
(* Types *)

LEMMA TypeInit == Init => TypeOK
<1> SUFFICES ASSUME Init
             PROVE  TypeOK
  OBVIOUS
<1>1. CallsOK
  <2>1. \A c \in Call : Len(Plan[c]) \in Nat /\ (Plan[c] # <<>> => Len(Plan[c]) # 0)
    BY DelegationAssumption
  <2> QED BY <2>1 DEF Init, CallsOK, CallSteps
<1>2. at \in Unit
  BY DelegationAssumption DEF Init
<1>3. backlog \in Seq(Unit)
  BY DEF Init
<1>4. /\ rec \in [Unit -> Status] /\ stamp \in [Unit -> Nat] /\ slot \in [Unit -> Unit]
      /\ row \in [Unit -> Row] /\ pc \in [Thread -> PCs]
  BY DEF Init, Status, Row, PCs
<1>5. /\ live \in [Call -> Nat] /\ queue \in [Unit -> Nat] /\ published \in [Unit -> Nat]
      /\ delivered \in [Unit -> Nat] /\ hand \in [Unit -> Hand]
  BY DEF Init, Hand
<1>6. /\ started = {} /\ quiet = {} /\ overdue = {} /\ purged = {} /\ pool = 0 /\ threads = 0
      /\ dispatched = {} /\ inline = {} /\ expiring = {} /\ anyLeft = FALSE
      /\ clock = 0 /\ failures = 0 /\ crashes = 0
  BY DEF Init
<1> QED BY <1>1, <1>2, <1>3, <1>4, <1>5, <1>6 DEF TypeOK

LEMMA TypeStep == TypeOK /\ [Next]_vars => TypeOK'
<1> SUFFICES ASSUME TypeOK, [Next]_vars
             PROVE  TypeOK'
  OBVIOUS
<1>1. ASSUME NEW c \in Call, CallStep(c)
      PROVE  TypeOK'
  <2>1. CASE PersistDispatch(c)
    <3>1. CallsOK'
      BY <2>1, CallGoes DEF PersistDispatch, CallSteps, records, executor, callers, monitor,
         events, ledger, faults
    <3> QED
      BY <2>1, <3>1, CurrentIn DEF PersistDispatch, TypeOK, Row, records, executor, callers,
         monitor, events, ledger, faults
  <2>2. CASE PersistDispatchFails(c)
    <3>1. CallsOK'
      BY <2>2, CallGoes DEF PersistDispatchFails, CallSteps, records, executor, callers,
         monitor, events, ledger, faults
    <3>2. row' \in [Unit -> Row]
      <4>1. row' = row \/ row' = [row EXCEPT ![Current(c)] = "running"]
        BY <2>2 DEF PersistDispatchFails
      <4> QED BY <4>1 DEF TypeOK, Row
    <3>3. UNCHANGED <<records, executor, nth, live, dispatched, inline, pc, monitor, events, purged,
                      clock, crashes>>
      BY <2>2 DEF PersistDispatchFails
    <3>4. failures' \in Nat
      BY <2>2 DEF PersistDispatchFails, TypeOK
    <3> QED BY <3>1, <3>2, <3>3, <3>4 DEF TypeOK, records, executor, monitor, events
  <2>3. CASE GrowPool(c)
    <3>1. CallsOK'
      BY <2>3, CallGoes DEF GrowPool, CallSteps, records, executor, callers, monitor, events,
         ledger, faults
    <3> QED
      BY <2>3, <3>1, DelegationAssumption DEF GrowPool, TypeOK, Larger, records, executor,
         callers, monitor, events, ledger, faults
  <2>4. CASE Submit(c)
    <3>1. CallsOK'
      BY <2>4, CallGoes DEF Submit, CallSteps, records, executor, callers, monitor, events,
         ledger, faults
    <3>2. pc' \in [Thread -> PCs]
      <4>1. Current(c) \in Thread /\ Monitor \in Thread
        BY <2>4, CurrentIn DEF Submit, Thread
      <4>2. Goto(Current(c), "queued") /\ "queued" \in PCs
        BY <2>4 DEF Submit, PCs
      <4> QED BY <4>1, <4>2, GotoType
    <3>3. Append(backlog, Current(c)) \in Seq(Unit)
      <4>1. Current(c) \in Unit
        BY <2>4, CurrentIn DEF Submit
      <4>2. backlog \in Seq(Unit)
        BY DEF TypeOK
      <4> QED BY <4>1, <4>2
    <3> QED
      BY <2>4, <3>1, <3>2, <3>3
      DEF Submit, TypeOK, records, executor, callers, monitor, events, ledger, faults
  <2>5. CASE SubmitFails(c)
    <3>1. CallsOK'
      BY <2>5, CallGoes DEF SubmitFails, CallSteps, records, executor, callers, monitor,
         events, ledger, faults
    <3>2. pc' \in [Thread -> PCs]
      <4>1. Current(c) \in Thread /\ Monitor \in Thread
        BY <2>5, CurrentIn DEF SubmitFails, Thread
      <4> QED BY <2>5, <4>1, GotoType DEF SubmitFails, PCs, TypeOK
    <3>3. Append(backlog, Current(c)) \in Seq(Unit)
      <4>1. Current(c) \in Unit
        BY <2>5, CurrentIn DEF SubmitFails
      <4>2. backlog \in Seq(Unit)
        BY DEF TypeOK
      <4> QED BY <4>1, <4>2
    <3>4. backlog' \in Seq(Unit)
      BY <2>5, <3>3 DEF SubmitFails, TypeOK
    <3>5. rec' \in [Unit -> Status] /\ failures' \in Nat
      <4>1. rec' = [rec EXCEPT ![Current(c)] = "none"] /\ failures' = failures + 1
        BY <2>5 DEF SubmitFails
      <4>2. rec' \in [Unit -> Status]
        BY <4>1 DEF TypeOK, Status
      <4> QED BY <4>1, <4>2 DEF TypeOK
    <3>6. UNCHANGED <<started, stamp, slot, quiet, overdue, pool, threads, live, dispatched, inline,
                      monitor, events, ledger, clock, crashes>>
      BY <2>5 DEF SubmitFails
    <3> QED
      BY <3>1, <3>2, <3>4, <3>5, <3>6 DEF TypeOK, monitor, events, ledger
  <2>6. CASE DeleteRow(c)
    <3>1. CallsOK' /\ inline' \subseteq Unit
      BY <2>6, RejectedType DEF DeleteRow
    <3> QED
      BY <2>6, <3>1, CurrentIn DEF DeleteRow, TypeOK, Row, records, executor, callers,
         monitor, events, ledger, faults
  <2>7. CASE DeleteRowFails(c)
    <3>1. CallsOK'
      BY <2>7, CallGoes DEF DeleteRowFails, CallSteps, records, executor, callers, monitor,
         events, ledger, faults
    <3> QED
      BY <2>7, <3>1 DEF DeleteRowFails, TypeOK, records, executor, callers, monitor, events,
         ledger, faults
  <2>8. CASE EnsureMonitor(c)
    <3>1. CallsOK'
      BY <2>8, NextUnitType DEF EnsureMonitor
    <3>2. pc' \in [Thread -> PCs]
      <4>1. Current(c) \in Thread /\ Monitor \in Thread
        BY <2>8, CurrentIn DEF EnsureMonitor, Thread
      <4> QED BY <2>8, <4>1, GotoType DEF EnsureMonitor, PCs, TypeOK
    <3> QED
      BY <2>8, <3>1, <3>2, CurrentIn DEF EnsureMonitor, TypeOK, records, executor, callers,
         monitor, events, ledger, faults
  <2> QED
    BY <1>1, <2>1, <2>2, <2>3, <2>4, <2>5, <2>6, <2>7, <2>8 DEF CallStep
<1>2. ASSUME NEW t \in Thread, Finalize(t)
      PROVE  TypeOK'
  <2>1. Mine(t) \in Unit
    BY MineIn
  <2>2. CASE Claim(t)
    <3>1. pc' \in [Thread -> PCs]
      BY <2>2, GotoType, BackType DEF Claim, PCs, Finalizing
    <3>2. rec' \in [Unit -> Status] /\ stamp' \in [Unit -> Nat] /\ clock' \in Nat
      <4>1. CASE rec[Mine(t)] \in Active
        <5>1. /\ rec' = [rec EXCEPT ![Mine(t)] = "finalizing"]
              /\ stamp' = [stamp EXCEPT ![Mine(t)] = clock + 1] /\ clock' = clock + 1
          BY <2>2, <4>1 DEF Claim
        <5> QED BY <2>1, <5>1 DEF TypeOK, Status
      <4>2. CASE rec[Mine(t)] \notin Active
        BY <2>2, <4>2 DEF Claim, TypeOK
      <4> QED BY <4>1, <4>2
    <3>3. quiet' \subseteq quiet /\ overdue' \subseteq overdue
      BY <2>2 DEF Claim
    <3> QED
      BY <2>2, <3>1, <3>2, <3>3
      DEF Claim, TypeOK, CallsOK, executor, callers, monitor, events, ledger, faults
  <2>3. CASE Persist(t)
    <3>1. pc' \in [Thread -> PCs]
      BY <2>3, GotoType, BackType DEF Persist, PCs, Finalizing
    <3>2. row' \in [Unit -> Row]
      BY <2>3 DEF Persist, TypeOK, Row
    <3>3. UNCHANGED <<records, executor, callers, monitor, events, purged, clock, faults>>
      BY <2>3 DEF Persist
    <3>4. CallsOK'
      BY <3>3 DEF TypeOK, CallsOK, callers
    <3> QED
      BY <3>1, <3>2, <3>3, <3>4 DEF TypeOK, records, executor, callers, monitor, events, faults
  <2>4. CASE PersistFails(t)
    <3>1. pc' \in [Thread -> PCs]
      BY <2>4, GotoType, BackType DEF PersistFails, PCs, Finalizing
    <3>2. failures' \in Nat
      BY <2>4 DEF PersistFails, TypeOK
    <3>3. UNCHANGED <<records, executor, callers, monitor, events, ledger, clock, crashes>>
      BY <2>4 DEF PersistFails
    <3>4. CallsOK'
      BY <3>3 DEF TypeOK, CallsOK, callers
    <3> QED
      BY <3>1, <3>2, <3>3, <3>4 DEF TypeOK, records, executor, callers, monitor, events, ledger
  <2>5. CASE Publish(t)
    <3>1. pc' \in [Thread -> PCs]
      BY <2>5, GotoType, BackType DEF Publish, PCs, Finalizing
    <3>2. queue' \in [Unit -> Nat] /\ published' \in [Unit -> Nat]
      <4>1. queue \in [Unit -> Nat] /\ published \in [Unit -> Nat]
        BY DEF TypeOK
      <4>2. /\ queue' = [queue EXCEPT ![Mine(t)] = @ + 1]
            /\ published' = [published EXCEPT ![Mine(t)] = @ + 1]
        BY <2>5 DEF Publish
      <4> QED BY <2>1, <4>1, <4>2
    <3>3. UNCHANGED <<records, executor, callers, monitor, hand, delivered, ledger, clock, faults>>
      BY <2>5 DEF Publish
    <3>4. CallsOK'
      BY <3>3 DEF TypeOK, CallsOK, callers
    <3> QED
      BY <3>1, <3>2, <3>3, <3>4 DEF TypeOK, records, executor, callers, monitor, ledger, faults
  <2>6. CASE Settle(t)
    <3>1. pc' \in [Thread -> PCs]
      BY <2>6, GotoType, BackType DEF Settle, PCs, Finalizing
    <3>2. rec' \in [Unit -> Status]
      BY <2>6 DEF Settle, TypeOK, Status
    <3>3. UNCHANGED <<started, stamp, slot, quiet, overdue, executor, callers, monitor, events,
                      ledger, clock, faults>>
      BY <2>6 DEF Settle
    <3>4. CallsOK'
      BY <3>3 DEF TypeOK, CallsOK, callers
    <3> QED
      BY <3>1, <3>2, <3>3, <3>4 DEF TypeOK, executor, callers, monitor, events, ledger, faults
  <2> QED
    BY <1>2, <2>2, <2>3, <2>4, <2>5, <2>6 DEF Finalize
<1>3. ASSUME NEW u \in Unit, Start(u)
      PROVE  TypeOK'
  <2>1. pc' \in [Thread -> PCs]
    BY <1>3, GotoType DEF Start, PCs, Thread
  <2>2. backlog' \in Seq(Unit)
    BY <1>3 DEF Start, TypeOK
  <2> QED
    BY <1>3, <2>1, <2>2
    DEF Start, TypeOK, CallsOK, records, executor, callers, monitor, events, ledger, faults
<1>4. CASE MonitorStep
  <2>1. \A step \in PCs : Goto(Monitor, step) => pc' \in [Thread -> PCs]
    BY GotoType DEF Thread
  <2>2. CASE Sweep
    BY <2>1, <2>2
    DEF Sweep, PCs, TypeOK, CallsOK, Status, Monitorable,
       records, executor, callers, monitor, events, ledger, faults
  <2>3. ASSUME NEW u \in Unit, TakeUp(u)
        PROVE  TypeOK'
    BY <2>1, <2>3
    DEF TakeUp, PCs, Finalizing, TypeOK, CallsOK, records, executor, callers, monitor, events, ledger, faults
  <2>4. CASE EndPass
    BY <2>1, <2>4 DEF EndPass, PCs, TypeOK, CallsOK, records, executor, callers, monitor, events, ledger, faults
  <2>5. CASE Leave
    BY <2>1, <2>5 DEF Leave, PCs, TypeOK, CallsOK, records, executor, callers, monitor, events, ledger, faults
  <2>6. CASE Finalize(Monitor)
    BY <2>6, <1>2 DEF Thread
  <2> QED BY <1>4, <2>2, <2>3, <2>4, <2>5, <2>6 DEF MonitorStep
<1>5. CASE Environment
  <2>1. ASSUME NEW c \in Call, Admit(c)
        PROVE  TypeOK'
    <3>1. CallsOK'
      BY <2>1, CallGoes DEF Admit, CallSteps
    <3>2. call[c] # "over"
      BY <2>1 DEF Admit
    <3>3. Current(c) \in Unit /\ SlotKey(c) \in Unit /\ LiveUnits \in Nat
      BY <3>2, CurrentIn, SlotKeyType, LiveUnitsType
    <3>4. rec' \in [Unit -> Status] /\ stamp' \in [Unit -> Nat] /\ clock' \in Nat
      <4>1. /\ rec \in [Unit -> Status] /\ stamp \in [Unit -> Nat] /\ clock \in Nat
            /\ "running" \in Status
        BY DEF TypeOK, Status
      <4>2. /\ rec' = [rec EXCEPT ![Current(c)] = "running"]
            /\ stamp' = [stamp EXCEPT ![Current(c)] = clock + 1] /\ clock' = clock + 1
        BY <2>1 DEF Admit
      <4> QED BY <3>3, <4>1, <4>2
    <3>5. slot' \in [Unit -> Unit] /\ live' \in [Call -> Nat]
      <4>1. slot \in [Unit -> Unit] /\ live \in [Call -> Nat]
        BY DEF TypeOK
      <4>2. /\ slot' = [slot EXCEPT ![Current(c)] = SlotKey(c)]
            /\ live' = [live EXCEPT ![c] = LiveUnits + 1]
        BY <2>1 DEF Admit
      <4> QED BY <3>3, <4>1, <4>2
    <3> QED
      BY <2>1, <3>1, <3>4, <3>5
      DEF Admit, TypeOK, executor, monitor, events, ledger, faults
  <2>2. ASSUME NEW c \in Call, Reject(c)
        PROVE  TypeOK'
    <3>1. CallsOK' /\ inline' \subseteq Unit
      BY <2>2, RejectedType DEF Reject
    <3> QED
      BY <2>2, <3>1 DEF Reject, TypeOK, records, executor, callers, monitor, events, ledger, faults
  <2>3. ASSUME NEW u \in Unit, RunnerReturns(u)
        PROVE  TypeOK'
    <3>1. pc' \in [Thread -> PCs]
      BY <2>3, GotoType DEF RunnerReturns, PCs, Finalizing, Thread
    <3> QED
      BY <2>3, <3>1
      DEF RunnerReturns, TypeOK, CallsOK, records, executor, callers, monitor, events, ledger, faults
  <2>4. ASSUME NEW u \in Unit, GoesQuiet(u) \/ Progresses(u)
        PROVE  TypeOK'
    BY <2>4
    DEF GoesQuiet, Progresses, TypeOK, CallsOK, executor, callers, monitor, events, ledger, faults
  <2>5. ASSUME NEW u \in Unit, ConsumerStep(u)
        PROVE  TypeOK'
    <3>1. UNCHANGED <<records, executor, callers, pc, monitor, published, purged, clock, faults>>
      BY <2>5 DEF ConsumerStep, TakeEvent, HandOver, Acknowledge, PutBack, ledger
    <3>2. queue' \in [Unit -> Nat]
      <4>1. /\ queue \in [Unit -> Nat]
            /\ \/ queue' = queue \/ queue' = [queue EXCEPT ![u] = @ + 1]
               \/ queue[u] > 0 /\ queue' = [queue EXCEPT ![u] = @ - 1]
        BY <2>5 DEF TypeOK, ConsumerStep, TakeEvent, HandOver, Acknowledge, PutBack
      <4> QED BY <4>1
    <3>3. hand' \in [Unit -> Hand]
      <4>1. hand' = hand \/ \E h \in Hand : hand' = [hand EXCEPT ![u] = h]
        BY <2>5 DEF ConsumerStep, TakeEvent, HandOver, Acknowledge, PutBack, Hand
      <4> QED BY <4>1 DEF TypeOK
    <3>4. delivered' \in [Unit -> Nat]
      <4>1. delivered' = delivered \/ delivered' = [delivered EXCEPT ![u] = @ + 1]
        BY <2>5 DEF ConsumerStep, TakeEvent, HandOver, Acknowledge, PutBack
      <4>2. delivered \in [Unit -> Nat]
        BY DEF TypeOK
      <4> QED BY <4>1, <4>2
    <3>5. row' \in [Unit -> Row]
      <4>1. row' = row \/ \E r \in Row : row' = [row EXCEPT ![u] = r]
        BY <2>5 DEF ConsumerStep, TakeEvent, HandOver, Acknowledge, PutBack, ledger, Row, TypeOK
      <4> QED BY <4>1 DEF TypeOK
    <3> QED
      BY <3>1, <3>2, <3>3, <3>4, <3>5
      DEF TypeOK, CallsOK, records, executor, callers, monitor, faults
  <2>6. CASE Restart
    <3>1. CallsOK'
      <4>1. \A c \in Call : call'[c] # "over" => nth[c] = 1 /\ call[c] # "over"
        BY <2>6 DEF Restart
      <4> QED BY <2>6, <4>1 DEF Restart, TypeOK, CallsOK, CallSteps
    <3>2. /\ row' \in [Unit -> Row] /\ queue' \in [Unit -> Nat] /\ published' \in [Unit -> Nat]
          /\ rec' \in [Unit -> Status] /\ stamp' \in [Unit -> Nat] /\ slot' \in [Unit -> Unit]
          /\ hand' \in [Unit -> Hand]
      BY <2>6 DEF Restart, TypeOK, Status, Row, Hand
    <3>3. pc' \in [Thread -> PCs] /\ live' \in [Call -> Nat] /\ backlog' \in Seq(Unit)
      BY <2>6 DEF Restart, PCs
    <3>4. /\ started' = {} /\ quiet' = {} /\ overdue' = {} /\ clock' = 0 /\ pool' = 0 /\ threads' = 0
          /\ expiring' = {} /\ anyLeft' = FALSE /\ crashes' = crashes + 1
      BY <2>6 DEF Restart
    <3>5. /\ dispatched' \subseteq Unit /\ inline' \subseteq Unit /\ at' \in Unit
          /\ delivered' \in [Unit -> Nat] /\ purged' \subseteq Unit
          /\ failures' \in Nat /\ crashes' \in Nat
      BY <2>6 DEF Restart, TypeOK
    <3> QED BY <3>1, <3>2, <3>3, <3>4, <3>5 DEF TypeOK
  <2> QED BY <1>5, <2>1, <2>2, <2>3, <2>4, <2>5, <2>6 DEF Environment
<1>6. ASSUME NEW u \in Unit, GraceEnds(u)
      PROVE  TypeOK'
  BY <1>6 DEF GraceEnds, TypeOK, CallsOK, executor, callers, monitor, events, ledger, faults
<1>7. CASE UNCHANGED vars
  BY <1>7 DEF vars, TypeOK, CallsOK, records, executor, callers, monitor, events, ledger, faults
<1> QED
  <2>1. \A u \in Unit : u \in Thread
    BY DEF Thread
  <2> QED BY <1>1, <1>2, <1>3, <1>4, <1>5, <1>6, <1>7, <2>1 DEF Next, WorkerStep

\* Every variable keeps its type, and a call that is not over has a unit to
\* dispatch: the loop over the units of a call stays within them.
THEOREM TypeCorrect == Spec => []TypeOK
<1>1. Init => TypeOK
  BY TypeInit
<1>2. TypeOK /\ [Next]_vars => TypeOK'
  BY TypeStep
<1> QED BY <1>1, <1>2, PTL DEF Spec

-----------------------------------------------------------------------------
(* Lemmas of the invariant *)

\* Distinct positions of the plan hold distinct units.
LEMMA CurrentApart ==
  ASSUME TypeOK, NEW c \in Call, call[c] # "over"
  PROVE  /\ \A d \in Call : \A i \in Ahead(d) : Plan[d][i] = Current(c) => d = c /\ i = nth[c]
         /\ \A d \in Call : call[d] # "over" /\ Current(d) = Current(c) => d = c
<1>1. nth[c] \in 1..Len(Plan[c])
  BY CurrentIn
<1>2. ASSUME NEW d \in Call, NEW i \in Ahead(d), Plan[d][i] = Current(c)
      PROVE  d = c /\ i = nth[c]
  BY <1>1, <1>2, DelegationAssumption DEF Ahead, Current
<1>3. ASSUME NEW d \in Call, call[d] # "over", Current(d) = Current(c)
      PROVE  d = c
  <2>1. nth[d] \in 1..Len(Plan[d])
    BY <1>3, CurrentIn
  <2> QED BY <1>1, <1>3, <2>1, DelegationAssumption DEF Current
<1> QED BY <1>2, <1>3

\* A call that goes on with its unit has the others ahead of it still.
LEMMA AheadGoes ==
  ASSUME TypeOK, NEW c \in Call, call[c] # "over", NEW step \in CallSteps \ {"admit"},
         call' = [call EXCEPT ![c] = step], nth' = nth
  PROVE  /\ \A d \in Call : Ahead(d)' \subseteq Ahead(d)
         /\ nth[c] \notin Ahead(c)'
BY DEF TypeOK, CallsOK, Ahead

LEMMA AheadNext ==
  ASSUME TypeOK, NEW c \in Call, call[c] # "over", NextUnit(c)
  PROVE  /\ \A d \in Call : Ahead(d)' \subseteq Ahead(d)
         /\ nth[c] \notin Ahead(c)'
<1>1. nth[c] \in 1..Len(Plan[c]) /\ Len(Plan[c]) \in Nat
  BY CurrentIn, DelegationAssumption
<1>2. nth' = [nth EXCEPT ![c] = nth[c] + 1]
  BY DEF NextUnit
<1>3. call' = [call EXCEPT ![c] = IF nth[c] = Len(Plan[c]) THEN "over" ELSE "admit"]
  BY DEF NextUnit
<1>4. \A d \in Call \ {c} : nth'[d] = nth[d] /\ call'[d] = call[d]
  BY <1>2, <1>3 DEF TypeOK, CallsOK
<1>5. nth'[c] = nth[c] + 1
  BY <1>2 DEF TypeOK, CallsOK
<1>6. Ahead(c)' \subseteq Ahead(c) /\ nth[c] \notin Ahead(c)'
  BY <1>1, <1>5 DEF Ahead
<1>7. \A d \in Call \ {c} : Ahead(d)' \subseteq Ahead(d)
  BY <1>4 DEF Ahead
<1> QED BY <1>6, <1>7

\* A step that leaves the units outside X to themselves: rows may be pruned,
\* records may be pruned or, of started units, stall.
Kept(v) ==
  /\ \/ rec'[v] = rec[v]
     \/ rec'[v] = "none" /\ rec[v] # "running"
     \/ rec'[v] = "stalling" /\ rec[v] = "running" /\ v \in started
  /\ \/ row'[v] = row[v] /\ (v \in purged' <=> v \in purged)
     \/ row'[v] = "absent" /\ row[v] \notin {"absent", "running"} /\ v \in purged'
  /\ pc'[v] = pc[v] /\ queue'[v] = queue[v] /\ hand'[v] = hand[v]
  /\ published'[v] = published[v] /\ delivered'[v] = delivered[v]
  /\ (v \in started' <=> v \in started) /\ (v \in dispatched' <=> v \in dispatched)
  /\ v \in expiring' => v \in expiring \/ rec[v] = "stalling"
  /\ at' = v /\ pc'[Monitor] \in Finalizing => at = v /\ pc'[Monitor] = pc[Monitor]

LEMMA KeptClean ==
  ASSUME NEW v \in Unit, Kept(v)
  PROVE  /\ Clean(v) => Clean(v)'
         /\ Untouched(v) => Untouched(v)'
BY DEF Kept, Clean, Untouched

LEMMA KeptOwed ==
  ASSUME NEW v \in Unit, Kept(v), Owed(v)
  PROVE  Owed(v)'
BY DEF Kept, Owed

LEMMA KeptHolds ==
  ASSUME NEW v \in Unit, Kept(v), NEW t \in Thread, Finalizes(t, v)'
  PROVE  Finalizes(t, v) /\ pc'[t] = pc[t]
<1>1. CASE t = Monitor
  BY <1>1 DEF Kept, Finalizes, Mine, Finalizing
<1>2. CASE t # Monitor
  BY <1>2 DEF Kept, Finalizes, Mine
<1> QED BY <1>1, <1>2

LEMMA KeptUnit ==
  ASSUME TypeOK, NEW v \in Unit, Kept(v), UnitInv(v), failures' >= failures, failures' \in Nat
  PROVE  UnitInv(v)'
<1>1. StallInv(v)'
  BY DEF Kept, UnitInv, StallInv
<1>2. QueuedInv(v)'
  BY DEF Kept, UnitInv, QueuedInv, TypeOK
<1>3. ClaimInv(v)'
  <2>1. rec'[v] \in Active => rec[v] \in Active
    BY DEF Kept, Active
  <2>2. \A t \in Thread : Finalizes(t, v)' => Finalizes(t, v) /\ pc'[t] = pc[t]
    BY KeptHolds
  <2>3. row[v] = "running" <=> row'[v] = "running"
    BY DEF Kept
  <2> QED BY <2>1, <2>2, <2>3, KeptClean, KeptOwed DEF UnitInv, ClaimInv
<1>4. SpentInv(v)'
  <2>1. SpentInv(v)
    BY DEF UnitInv
  <2>2. queue'[v] > 0 \/ hand'[v] = "claimed" \/ v \in dispatched' => Owed(v)'
    BY <2>1, KeptOwed DEF Kept, SpentInv
  <2> QED BY <2>1, <2>2 DEF Kept, SpentInv
<1>5. RowInv(v)'
  BY DEF Kept, UnitInv, RowInv, Active
<1> QED BY <1>1, <1>2, <1>3, <1>4, <1>5 DEF UnitInv

\* What a step that touches the units of X leaves of the invariant.
LEMMA StepKeeps ==
  ASSUME TypeOK, Inv, failures' >= failures, failures' \in Nat,
         NEW X \in SUBSET Unit, \A v \in Unit \ X : Kept(v),
         \A d \in Call : \A i \in Ahead(d)' : i \in Ahead(d) /\ Plan[d][i] \notin X
  PROVE  /\ FreshInv'
         /\ \A v \in Unit \ X : UnitInv(v)'
         /\ \A d \in Call : call'[d] = call[d] /\ nth'[d] = nth[d] /\ Current(d) \notin X
                             => DispatchAt(d)'
<1>1. FreshInv'
  <2>1. ASSUME NEW d \in Call, NEW i \in Ahead(d)'
        PROVE  Untouched(Plan[d][i])'
    <3>1. i \in Ahead(d) /\ Plan[d][i] \in Unit \ X
      BY <2>1, PlanIn DEF Ahead
    <3> QED BY <3>1, KeptClean DEF Inv, FreshInv
  <2> QED BY <2>1 DEF FreshInv
<1>2. \A v \in Unit \ X : UnitInv(v)'
  BY KeptUnit DEF Inv
<1>3. ASSUME NEW d \in Call, call'[d] = call[d], nth'[d] = nth[d], Current(d) \notin X
      PROVE  DispatchAt(d)'
  <2>1. CASE call[d] = "over"
    BY <1>3, <2>1 DEF DispatchAt, Withdrawn
  <2>2. CASE call[d] # "over"
    <3>1. Current(d) \in Unit \ X /\ Current(d)' = Current(d)
      BY <1>3, <2>2, CurrentIn DEF Current
    <3>2. Kept(Current(d)) /\ UnitInv(Current(d)) /\ DispatchAt(d)
      BY <3>1 DEF Inv, DispatchInv
    <3>3. /\ Clean(Current(d)) => Clean(Current(d))'
          /\ Owed(Current(d)) => Owed(Current(d))'
      BY <3>1, <3>2, KeptClean, KeptOwed
    <3>4. /\ row[Current(d)] = "running" => row'[Current(d)] = "running"
          /\ (row[Current(d)] = "absent" /\ Current(d) \notin purged)
               => (row'[Current(d)] = "absent" /\ Current(d) \notin purged')
      BY <3>2 DEF Kept
    <3>5. /\ pc'[Current(d)] = pc[Current(d)]
          /\ Current(d) \in started' <=> Current(d) \in started
          /\ Current(d) \in dispatched' <=> Current(d) \in dispatched
          /\ Current(d) \notin started /\ rec[Current(d)] \in {"none", "running"}
               => rec'[Current(d)] = rec[Current(d)]
      BY <3>2 DEF Kept
    <3> QED BY <1>3, <3>1, <3>2, <3>3, <3>4, <3>5 DEF DispatchAt, Withdrawn
  <2> QED BY <2>1, <2>2
<1> QED BY <1>1, <1>2, <1>3

LEMMA SlotsFinite ==
  ASSUME TypeOK
  PROVE  IsFiniteSet(ActiveSlots) /\ Cardinality(ActiveSlots) \in Nat
<1>1. ActiveSlots \in SUBSET Unit
  BY DEF ActiveSlots, TypeOK
<1> QED BY <1>1, FS_Subset, FS_CardinalityType, DelegationAssumption

LEMMA SlotsShrink ==
  ASSUME TypeOK, TypeOK', SlotsBounded,
         \A u \in Unit : rec'[u] \in Active => rec[u] \in Active /\ slot'[u] = slot[u]
  PROVE  SlotsBounded'
<1>1. ActiveSlots' \in SUBSET ActiveSlots
  BY DEF ActiveSlots
<1>2. Cardinality(ActiveSlots') <= Cardinality(ActiveSlots) /\ Cardinality(ActiveSlots') \in Nat
  BY <1>1, SlotsFinite, FS_Subset, FS_CardinalityType
<1> QED BY <1>2, SlotsFinite, DelegationAssumption DEF SlotsBounded, ActiveSlots
-----------------------------------------------------------------------------
(* The steps of a call *)

\* A step of call c that touches its current unit only, and respects that unit.
LEMMA CallKeeps ==
  ASSUME TypeOK, Inv, failures' >= failures, failures' \in Nat,
         NEW c \in Call, call[c] # "over", NEW u \in Unit, u = Current(c),
         \A v \in Unit \ {u} : Kept(v),
         \A d \in Call : Ahead(d)' \subseteq Ahead(d),
         nth[c] \notin Ahead(c)',
         \A d \in Call \ {c} : call'[d] = call[d] /\ nth'[d] = nth[d],
         FreshInv' => DispatchAt(c)', UnitInv(u)', SlotsBounded'
  PROVE  Inv'
<1> DEFINE X == {u}
<1>1. X \in SUBSET Unit
  OBVIOUS
<1>2. \A d \in Call : \A i \in Ahead(d)' : i \in Ahead(d) /\ Plan[d][i] \notin X
  BY CurrentApart
<1>3. /\ FreshInv'
      /\ \A v \in Unit \ X : UnitInv(v)'
      /\ \A d \in Call : call'[d] = call[d] /\ nth'[d] = nth[d] /\ Current(d) \notin X
                           => DispatchAt(d)'
  <2> HIDE DEF X
  <2>1. \A v \in Unit \ X : Kept(v)
    BY DEF X
  <2> QED BY <1>1, <1>2, <2>1, StepKeeps
<1>4. ASSUME NEW d \in Call \ {c}
      PROVE  DispatchAt(d)'
  <2>1. CASE call[d] = "over"
    BY <2>1 DEF DispatchAt, Withdrawn
  <2>2. CASE call[d] # "over"
    BY <1>3, <2>2, CurrentApart
  <2> QED BY <2>1, <2>2
<1> QED BY <1>3, <1>4 DEF Inv, DispatchInv

\* A step of call c that changes nothing but where c is.
LEMMA CallMoves ==
  ASSUME TypeOK, TypeOK', Inv, NEW c \in Call, call[c] # "over",
         NEW step \in CallSteps \ {"admit"}, call' = [call EXCEPT ![c] = step], nth' = nth,
         failures' >= failures, UNCHANGED <<records, pc, monitor, events, ledger, dispatched>>,
         step = "over" \/ (call[c] = "pool" /\ step = "submit")
  PROVE  Inv'
<1>1. \A v \in Unit : Kept(v)
  BY DEF Kept, records, monitor, events, ledger
<1>2. /\ \A d \in Call : Ahead(d)' \subseteq Ahead(d)
      /\ nth[c] \notin Ahead(c)'
  BY AheadGoes
<1>3. /\ \A d \in Call \ {c} : call'[d] = call[d] /\ nth'[d] = nth[d]
      /\ call'[c] = step
  BY DEF TypeOK, CallsOK
<1>4. PICK u \in Unit : u = Current(c)
  BY CurrentIn
<1>5. UnitInv(u)' /\ failures' \in Nat
  <2>1. UnitInv(u) /\ Kept(u) /\ failures' \in Nat
    BY <1>1, <1>4 DEF Inv, TypeOK
  <2> QED BY <2>1, KeptUnit
<1>6. DispatchAt(c)'
  <2>1. DispatchAt(c)
    BY DEF Inv, DispatchInv
  <2> QED
    BY <1>3, <2>1
    DEF DispatchAt, Withdrawn, Current, Clean, Owed, records, events, ledger
<1>7. SlotsBounded'
  BY SlotsShrink DEF Inv, records
<1> QED BY <1>1, <1>2, <1>3, <1>4, <1>5, <1>6, <1>7, CallKeeps

LEMMA AdmitInv ==
  ASSUME TypeOK, TypeOK', Inv, NEW c \in Call, Admit(c)
  PROVE  Inv'
<1>0. PICK u \in Unit : u = Current(c)
  BY CurrentIn DEF Admit
<1>1. /\ call[c] = "admit" /\ call' = [call EXCEPT ![c] = "persist"] /\ nth' = nth
      /\ rec' = [rec EXCEPT ![u] = "running"]
      /\ slot' = [slot EXCEPT ![u] = SlotKey(c)]
      /\ SlotKey(c) \in ActiveSlots \/ Cardinality(ActiveSlots) < MaxAsync
      /\ UNCHANGED <<pc, started, row, purged, queue, hand, published, delivered, dispatched, at, expiring,
                     failures>>
  BY <1>0 DEF Admit, monitor, events, ledger, faults
<1>2. nth[c] \in Ahead(c)
  BY <1>1, CurrentIn DEF Ahead
<1>3. Untouched(u)
  BY <1>0, <1>2 DEF Inv, FreshInv, Current
<1>4. /\ \A d \in Call : Ahead(d)' \subseteq Ahead(d)
      /\ nth[c] \notin Ahead(c)'
  BY <1>1, AheadGoes DEF CallSteps
<1>5. rec'[u] = "running" /\ slot'[u] = SlotKey(c)
  BY <1>1 DEF TypeOK
<1>6. \A v \in Unit \ {u} : rec'[v] = rec[v] /\ slot'[v] = slot[v]
  BY <1>1 DEF TypeOK
<1>7. /\ \A d \in Call \ {c} : call'[d] = call[d] /\ nth'[d] = nth[d]
      /\ call'[c] = "persist" /\ Current(c)' = u
  BY <1>0, <1>1 DEF TypeOK, CallsOK, Current
<1>8. \A v \in Unit \ {u} : Kept(v)
  BY <1>1, <1>6 DEF Kept
<1>9. DispatchAt(c)'
  BY <1>1, <1>3, <1>5, <1>7 DEF DispatchAt, Withdrawn, Untouched, Clean
<1>10. UnitInv(u)'
  <2>1. UnitInv(u)
    BY DEF Inv
  <2>2. \A t \in Thread : ~Finalizes(t, u)'
    <3>1. ASSUME NEW t \in Thread, Finalizes(t, u)'
          PROVE  FALSE
      <4>1. CASE t = Monitor
        BY <1>1, <1>3, <2>1, <3>1, <4>1 DEF Finalizes, Mine, Untouched, UnitInv, StallInv, Finalizing
      <4>2. CASE t # Monitor
        BY <1>1, <1>3, <3>1, <4>2 DEF Finalizes, Mine, Untouched
      <4> QED BY <4>1, <4>2
    <3> QED BY <3>1
  <2>3. StallInv(u)' /\ QueuedInv(u)'
    BY <1>1, <1>3, <1>5, <2>1 DEF UnitInv, StallInv, QueuedInv, Untouched
  <2>4. ClaimInv(u)'
    BY <1>1, <1>3, <2>2 DEF ClaimInv, Untouched, Clean
  <2>5. SpentInv(u)'
    BY <1>1, <2>1 DEF UnitInv, SpentInv, Owed
  <2>6. RowInv(u)'
    BY <1>1, <1>3 DEF RowInv, Untouched
  <2> QED BY <2>3, <2>4, <2>5, <2>6 DEF UnitInv
<1>11. SlotsBounded'
  <2>1. ActiveSlots' \subseteq ActiveSlots \cup {SlotKey(c)}
    BY <1>5, <1>6 DEF ActiveSlots
  <2>2. IsFiniteSet(ActiveSlots) /\ Cardinality(ActiveSlots) \in Nat
    BY SlotsFinite
  <2>3. /\ IsFiniteSet(ActiveSlots \cup {SlotKey(c)})
        /\ Cardinality(ActiveSlots \cup {SlotKey(c)}) =
             IF SlotKey(c) \in ActiveSlots THEN Cardinality(ActiveSlots)
                                           ELSE Cardinality(ActiveSlots) + 1
    BY <2>2, FS_AddElement
  <2>4. /\ Cardinality(ActiveSlots') <= Cardinality(ActiveSlots \cup {SlotKey(c)})
        /\ Cardinality(ActiveSlots') \in Nat
    BY <2>1, <2>3, FS_Subset, FS_CardinalityType
  <2>5. Cardinality(ActiveSlots) <= MaxAsync
    BY DEF Inv, SlotsBounded, ActiveSlots
  <2>6. Cardinality(ActiveSlots') <= MaxAsync
    BY <1>1, <2>2, <2>3, <2>4, <2>5, DelegationAssumption
  <2> QED BY <2>6 DEF SlotsBounded, ActiveSlots
<1>12. failures' \in Nat /\ failures' >= failures
  BY <1>1 DEF TypeOK
<1> QED BY <1>0, <1>1, <1>12, <1>4, <1>7, <1>8, <1>9, <1>10, <1>11, CallKeeps

\* The call goes on with a unit that nothing has happened to, or is over.
LEMMA NextMoves ==
  ASSUME TypeOK, TypeOK', NEW c \in Call, call[c] # "over", NextUnit(c)
  PROVE  /\ \A d \in Call : Ahead(d)' \subseteq Ahead(d)
         /\ nth[c] \notin Ahead(c)'
         /\ \A d \in Call \ {c} : call'[d] = call[d] /\ nth'[d] = nth[d]
         /\ FreshInv' => DispatchAt(c)'
<1>1. \A d \in Call \ {c} : call'[d] = call[d] /\ nth'[d] = nth[d]
  BY DEF NextUnit, TypeOK, CallsOK
<1>2. call'[c] \in {"admit", "over"}
  BY DEF NextUnit, TypeOK, CallsOK
<1>3. ASSUME FreshInv'
      PROVE  DispatchAt(c)'
  <2>1. CASE call'[c] = "over"
    BY <2>1 DEF DispatchAt, Withdrawn
  <2>2. CASE call'[c] = "admit"
    <3>1. nth[c] \in 1..Len(Plan[c]) /\ Len(Plan[c]) \in Nat
      BY CurrentIn, DelegationAssumption
    <3>2. nth'[c] = nth[c] + 1 /\ nth[c] # Len(Plan[c])
      BY <2>2 DEF NextUnit, TypeOK, CallsOK
    <3>3. PICK i \in 1..Len(Plan[c]) : i = nth'[c]
      BY <3>1, <3>2
    <3>4. i \in Ahead(c)'
      BY <2>2, <3>3 DEF Ahead
    <3>5. Untouched(Plan[c][i])'
      BY <1>3, <3>4 DEF FreshInv
    <3> QED BY <2>2, <3>3, <3>5 DEF DispatchAt, Withdrawn, Untouched, Current
  <2> QED BY <1>2, <2>1, <2>2
<1> QED BY <1>1, <1>3, AheadNext

LEMMA RejectedMoves ==
  ASSUME TypeOK, TypeOK', NEW c \in Call, call[c] # "over", Rejected(c)
  PROVE  /\ \A d \in Call : Ahead(d)' \subseteq Ahead(d)
         /\ nth[c] \notin Ahead(c)'
         /\ \A d \in Call \ {c} : call'[d] = call[d] /\ nth'[d] = nth[d]
         /\ FreshInv' => DispatchAt(c)'
<1>1. CASE UnitsOf(c) \cap dispatched = {}
  <2>1. call' = [call EXCEPT ![c] = "over"] /\ nth' = nth
    BY <1>1 DEF Rejected
  <2>2. \A d \in Call \ {c} : call'[d] = call[d] /\ nth'[d] = nth[d]
    BY <2>1 DEF TypeOK, CallsOK
  <2>3. call'[c] = "over"
    BY <2>1 DEF TypeOK, CallsOK
  <2> QED BY <2>1, <2>2, <2>3, AheadGoes DEF CallSteps, DispatchAt, Withdrawn
<1>2. CASE UnitsOf(c) \cap dispatched # {}
  BY <1>2, NextMoves DEF Rejected
<1> QED BY <1>1, <1>2

LEMMA RejectInv ==
  ASSUME TypeOK, TypeOK', Inv, NEW c \in Call, Reject(c)
  PROVE  Inv'
<1>1. PICK u \in Unit : u = Current(c)
  BY CurrentIn DEF Reject
<1>2. /\ call[c] # "over" /\ Rejected(c)
      /\ UNCHANGED <<records, pc, monitor, events, ledger, dispatched, failures>>
  BY DEF Reject, faults
<1>3. \A v \in Unit : Kept(v)
  BY <1>2 DEF Kept, records, monitor, events, ledger
<1>4. failures' \in Nat /\ failures' >= failures
  BY <1>2 DEF TypeOK
<1>5. UnitInv(u)'
  BY <1>3, <1>4, KeptUnit DEF Inv
<1>6. SlotsBounded'
  BY <1>2, SlotsShrink DEF Inv, records
<1> QED BY <1>1, <1>2, <1>3, <1>4, <1>5, <1>6, RejectedMoves, CallKeeps

\* Nobody but its worker can hold a unit that has not started.
LEMMA NoHolder ==
  ASSUME Inv, NEW u \in Unit, u \notin started, pc[u] \notin {"persist", "publish"},
         NEW t \in Thread
  PROVE  ~Finalizes(t, u)
<1>1. StallInv(u)
  BY DEF Inv, UnitInv
<1>2. CASE t = Monitor
  BY <1>1, <1>2 DEF Finalizes, Mine, StallInv, Finalizing
<1>3. CASE t # Monitor
  BY <1>3 DEF Finalizes, Mine
<1> QED BY <1>2, <1>3

LEMMA PersistDispatchInv ==
  ASSUME TypeOK, TypeOK', Inv, NEW c \in Call, PersistDispatch(c)
  PROVE  Inv'
<1>1. PICK u \in Unit : u = Current(c)
  BY CurrentIn DEF PersistDispatch
<1>2. /\ call[c] = "persist" /\ call' = [call EXCEPT ![c] = "pool"] /\ nth' = nth
      /\ UNCHANGED <<rec, started, slot, pc, queue, hand, published, delivered, dispatched, at, expiring,
                     failures>>
  BY DEF PersistDispatch, records, monitor, events, faults
<1>3. /\ \A v \in Unit \ {u} :
           \/ row'[v] = row[v] /\ (v \in purged' <=> v \in purged)
           \/ row'[v] = "absent" /\ row[v] \notin {"absent", "running"} /\ v \in purged'
      /\ row'[u] = "running" /\ (u \in purged' <=> u \in purged)
  <2> DEFINE rows == [row EXCEPT ![u] = "running"]
  <2>1. PICK aged \in SUBSET Unit, gone \in SUBSET Unit :
           /\ Purged(rows, aged, gone)
           /\ row' = [v \in Unit |-> IF v \in aged \cup gone THEN "absent" ELSE rows[v]]
           /\ purged' = purged \cup aged \cup gone
    BY <1>1 DEF PersistDispatch
  <2>2. /\ \A v \in aged : rows[v] = "delivered"
        /\ \A v \in gone : rows[v] \in {"pending", "delivered", "dropped"}
    BY <2>1 DEF Purged
  <2>3. rows[u] = "running" /\ \A v \in Unit \ {u} : rows[v] = row[v]
    BY DEF TypeOK
  <2> HIDE DEF rows
  <2> QED BY <2>1, <2>2, <2>3
<1>4. /\ \A d \in Call : Ahead(d)' \subseteq Ahead(d)
      /\ nth[c] \notin Ahead(c)'
  BY <1>2, AheadGoes DEF CallSteps
<1>5. /\ \A d \in Call \ {c} : call'[d] = call[d] /\ nth'[d] = nth[d]
      /\ call'[c] = "pool" /\ Current(c)' = u
  BY <1>1, <1>2 DEF TypeOK, CallsOK, Current
<1>6. \A v \in Unit \ {u} : Kept(v)
  BY <1>2, <1>3 DEF Kept
<1>7. /\ Clean(u) /\ rec[u] = "running" /\ pc[u] = "off" /\ u \notin started
      /\ u \notin dispatched /\ u \notin purged
  BY <1>1, <1>2 DEF Inv, DispatchInv, DispatchAt, Withdrawn
<1>8. DispatchAt(c)'
  BY <1>2, <1>3, <1>5, <1>7 DEF DispatchAt, Withdrawn, Clean, Owed
<1>9. UnitInv(u)'
  <2>1. UnitInv(u)
    BY DEF Inv
  <2>2. \A t \in Thread : ~Finalizes(t, u)'
    BY <1>2, <1>7, NoHolder DEF Finalizes, Mine
  <2>3. StallInv(u)' /\ QueuedInv(u)'
    BY <1>2, <2>1 DEF UnitInv, StallInv, QueuedInv
  <2>4. ClaimInv(u)'
    BY <1>2, <1>3, <1>7, <2>2 DEF ClaimInv, Clean
  <2>5. SpentInv(u)'
    BY <1>2, <1>3, <1>7, <2>1 DEF UnitInv, SpentInv, Clean, Owed
  <2>6. RowInv(u)'
    BY <1>3 DEF RowInv
  <2> QED BY <2>3, <2>4, <2>5, <2>6 DEF UnitInv
<1>10. SlotsBounded'
  BY <1>2, SlotsShrink DEF Inv
<1>11. failures' \in Nat /\ failures' >= failures
  BY <1>2 DEF TypeOK
<1> QED BY <1>1, <1>2, <1>4, <1>5, <1>6, <1>8, <1>9, <1>10, <1>11, CallKeeps

LEMMA PersistDispatchFailsInv ==
  ASSUME TypeOK, TypeOK', Inv, NEW c \in Call, PersistDispatchFails(c)
  PROVE  Inv'
<1>1. PICK u \in Unit : u = Current(c)
  BY CurrentIn DEF PersistDispatchFails
<1>2. /\ call[c] = "persist" /\ call' = [call EXCEPT ![c] = "over"] /\ nth' = nth
      /\ row' \in {row, [row EXCEPT ![u] = "running"]} /\ failures' = failures + 1
      /\ UNCHANGED <<records, pc, monitor, events, purged, dispatched>>
  BY <1>1 DEF PersistDispatchFails
<1>3. /\ \A v \in Unit \ {u} : row'[v] = row[v]
      /\ row'[u] \in {row[u], "running"}
  <2>1. CASE row' = row
    BY <2>1
  <2>2. CASE row' = [row EXCEPT ![u] = "running"]
    BY <2>2 DEF TypeOK
  <2> QED BY <1>2, <2>1, <2>2
<1>4. /\ \A d \in Call : Ahead(d)' \subseteq Ahead(d)
      /\ nth[c] \notin Ahead(c)'
  BY <1>2, AheadGoes DEF CallSteps
<1>5. /\ \A d \in Call \ {c} : call'[d] = call[d] /\ nth'[d] = nth[d]
      /\ call'[c] = "over"
  BY <1>2 DEF TypeOK, CallsOK
<1>6. \A v \in Unit \ {u} : Kept(v)
  BY <1>2, <1>3 DEF Kept, records, monitor, events
<1>7. /\ Clean(u) /\ rec[u] = "running" /\ pc[u] = "off" /\ u \notin started
      /\ u \notin dispatched /\ u \notin purged
  BY <1>1, <1>2 DEF Inv, DispatchInv, DispatchAt
<1>8. DispatchAt(c)'
  BY <1>5 DEF DispatchAt
<1>9. UnitInv(u)'
  <2>1. UnitInv(u)
    BY DEF Inv
  <2>2. \A t \in Thread : ~Finalizes(t, u)'
    BY <1>2, <1>7, NoHolder DEF Finalizes, Mine, monitor
  <2>3. StallInv(u)' /\ QueuedInv(u)'
    BY <1>2, <1>7, <2>1 DEF UnitInv, StallInv, QueuedInv, records, monitor
  <2>4. ClaimInv(u)'
    BY <1>2, <1>3, <1>7, <2>2 DEF ClaimInv, Clean, records, events
  <2>5. SpentInv(u)'
    BY <1>2, <1>3, <1>7, <2>1 DEF UnitInv, SpentInv, Clean, Owed, events
  <2>6. RowInv(u)'
    BY <1>2, <1>7 DEF RowInv, records
  <2> QED BY <2>3, <2>4, <2>5, <2>6 DEF UnitInv
<1>10. SlotsBounded'
  BY <1>2, SlotsShrink DEF Inv, records
<1>11. failures' \in Nat /\ failures' >= failures
  BY <1>2 DEF TypeOK
<1> QED BY <1>1, <1>2, <1>4, <1>5, <1>6, <1>8, <1>9, <1>10, <1>11, CallKeeps

LEMMA SubmitInv ==
  ASSUME TypeOK, TypeOK', Inv, NEW c \in Call, Submit(c)
  PROVE  Inv'
<1>1. PICK u \in Unit : u = Current(c)
  BY CurrentIn DEF Submit
<1>2. /\ call[c] = "submit" /\ call' = [call EXCEPT ![c] = "monitor"] /\ nth' = nth
      /\ pc' = [pc EXCEPT ![u] = "queued"]
      /\ UNCHANGED <<rec, started, slot, row, purged, queue, hand, published, delivered, dispatched, at,
                     expiring, failures>>
  BY <1>1 DEF Submit, Goto, records, monitor, events, ledger, faults
<1>3. pc'[u] = "queued" /\ \A t \in Thread \ {u} : pc'[t] = pc[t]
  BY <1>2 DEF TypeOK, Thread
<1>4. /\ \A d \in Call : Ahead(d)' \subseteq Ahead(d)
      /\ nth[c] \notin Ahead(c)'
  BY <1>2, AheadGoes DEF CallSteps
<1>5. /\ \A d \in Call \ {c} : call'[d] = call[d] /\ nth'[d] = nth[d]
      /\ call'[c] = "monitor" /\ Current(c)' = u
  BY <1>1, <1>2 DEF TypeOK, CallsOK, Current
<1>6. \A v \in Unit \ {u} : Kept(v)
  BY <1>2, <1>3, DelegationAssumption DEF Kept, Thread
<1>7. /\ Clean(u) /\ rec[u] = "running" /\ pc[u] = "off" /\ u \notin started
      /\ u \notin dispatched /\ row[u] = "running"
  BY <1>1, <1>2 DEF Inv, DispatchInv, DispatchAt, Withdrawn
<1>8. DispatchAt(c)'
  BY <1>2, <1>5, <1>7 DEF DispatchAt, Withdrawn, Owed
<1>9. UnitInv(u)'
  <2>1. UnitInv(u)
    BY DEF Inv
  <2>2. \A t \in Thread : ~Finalizes(t, u)'
    BY <1>2, <1>3, <1>7, NoHolder DEF Finalizes, Mine
  <2>3. StallInv(u)' /\ QueuedInv(u)'
    BY <1>2, <1>3, <1>7, <2>1, DelegationAssumption DEF UnitInv, StallInv, QueuedInv, Thread
  <2>4. ClaimInv(u)'
    BY <1>2, <1>7, <2>2 DEF ClaimInv, Clean
  <2>5. SpentInv(u)'
    BY <1>2, <2>1 DEF UnitInv, SpentInv, Owed
  <2>6. RowInv(u)'
    BY <1>2, <1>7 DEF RowInv
  <2> QED BY <2>3, <2>4, <2>5, <2>6 DEF UnitInv
<1>10. SlotsBounded'
  BY <1>2, SlotsShrink DEF Inv
<1>11. failures' \in Nat /\ failures' >= failures
  BY <1>2 DEF TypeOK
<1> QED BY <1>1, <1>2, <1>4, <1>5, <1>6, <1>8, <1>9, <1>10, <1>11, CallKeeps

LEMMA SubmitFailsInv ==
  ASSUME TypeOK, TypeOK', Inv, NEW c \in Call, SubmitFails(c)
  PROVE  Inv'
<1>1. PICK u \in Unit : u = Current(c)
  BY CurrentIn DEF SubmitFails
<1>2. /\ call[c] = "submit" /\ call' = [call EXCEPT ![c] = "unrow"] /\ nth' = nth
      /\ rec' = [rec EXCEPT ![u] = "none"] /\ failures' = failures + 1
      /\ pc' = pc \/ pc' = [pc EXCEPT ![u] = "queued"]
      /\ UNCHANGED <<started, slot, row, purged, queue, hand, published, delivered, dispatched, at,
                     expiring>>
  BY <1>1 DEF SubmitFails, Goto, monitor, events, ledger
<1>3. /\ rec'[u] = "none" /\ \A v \in Unit \ {u} : rec'[v] = rec[v]
      /\ pc'[u] \in {pc[u], "queued"} /\ \A t \in Thread \ {u} : pc'[t] = pc[t]
  <2>1. rec \in [Unit -> Status] /\ pc \in [Thread -> PCs] /\ u \in Thread
    BY DEF TypeOK, Thread
  <2> QED BY <1>2, <2>1
<1>4. /\ \A d \in Call : Ahead(d)' \subseteq Ahead(d)
      /\ nth[c] \notin Ahead(c)'
  BY <1>2, AheadGoes DEF CallSteps
<1>5. /\ \A d \in Call \ {c} : call'[d] = call[d] /\ nth'[d] = nth[d]
      /\ call'[c] = "unrow" /\ Current(c)' = u
  BY <1>1, <1>2 DEF TypeOK, CallsOK, Current
<1>6. \A v \in Unit \ {u} : Kept(v)
  BY <1>2, <1>3, DelegationAssumption DEF Kept, Thread
<1>7. /\ Clean(u) /\ pc[u] = "off" /\ u \notin started /\ u \notin dispatched
      /\ row[u] = "running"
  BY <1>1, <1>2 DEF Inv, DispatchInv, DispatchAt, Withdrawn
<1>8. DispatchAt(c)'
  BY <1>2, <1>3, <1>5, <1>7 DEF DispatchAt, Withdrawn, Clean
<1>9. failures \in Nat
  BY DEF TypeOK
<1>10. UnitInv(u)'
  <2>1. UnitInv(u)
    BY DEF Inv
  <2>2. \A t \in Thread : ~Finalizes(t, u)'
    BY <1>2, <1>3, <1>7, NoHolder DEF Finalizes, Mine
  <2>3. StallInv(u)' /\ QueuedInv(u)'
    BY <1>2, <1>3, <1>7, <1>9, <2>1, DelegationAssumption DEF UnitInv, StallInv, QueuedInv, Thread
  <2>4. ClaimInv(u)'
    BY <1>2, <1>7, <2>2 DEF ClaimInv, Clean
  <2>5. SpentInv(u)'
    BY <1>2, <2>1 DEF UnitInv, SpentInv, Owed
  <2>6. RowInv(u)'
    BY <1>3 DEF RowInv, Active
  <2> QED BY <2>3, <2>4, <2>5, <2>6 DEF UnitInv
<1>11. SlotsBounded'
  BY <1>2, <1>3, SlotsShrink DEF Inv, Active
<1>12. failures' \in Nat /\ failures' >= failures
  BY <1>2, <1>9
<1> QED BY <1>1, <1>2, <1>4, <1>5, <1>6, <1>8, <1>10, <1>11, <1>12, CallKeeps

LEMMA DeleteRowInv ==
  ASSUME TypeOK, TypeOK', Inv, NEW c \in Call, DeleteRow(c)
  PROVE  Inv'
<1>1. PICK u \in Unit : u = Current(c)
  BY CurrentIn DEF DeleteRow
<1>2. /\ call[c] = "unrow" /\ Rejected(c) /\ row' = [row EXCEPT ![u] = "absent"]
      /\ UNCHANGED <<records, pc, monitor, events, purged, dispatched, failures>>
  BY <1>1 DEF DeleteRow, faults
<1>3. row'[u] = "absent" /\ \A v \in Unit \ {u} : row'[v] = row[v]
  BY <1>2 DEF TypeOK
<1>4. \A v \in Unit \ {u} : Kept(v)
  BY <1>2, <1>3 DEF Kept, records, monitor, events
<1>5. Withdrawn(u) /\ u \notin dispatched
  BY <1>1, <1>2 DEF Inv, DispatchInv, DispatchAt
<1>6. UnitInv(u)'
  <2>1. UnitInv(u)
    BY DEF Inv
  <2>2. StallInv(u)' /\ QueuedInv(u)'
    BY <1>2, <2>1 DEF UnitInv, StallInv, QueuedInv, records, monitor
  <2>3. ClaimInv(u)'
    <3>1. \A t \in Thread : ~Finalizes(t, u)
      BY <1>5, NoHolder DEF Withdrawn
    <3> QED
      BY <1>2, <1>5, <3>1 DEF ClaimInv, Finalizes, Mine, Withdrawn, Active, records, monitor
  <2>4. SpentInv(u)'
    BY <1>2, <1>3, <1>5, <2>1 DEF UnitInv, SpentInv, Withdrawn, Clean, events
  <2>5. RowInv(u)'
    BY <1>2, <1>5 DEF RowInv, Withdrawn, Active, records
  <2> QED BY <2>2, <2>3, <2>4, <2>5 DEF UnitInv
<1>7. SlotsBounded'
  BY <1>2, SlotsShrink DEF Inv, records
<1>8. failures' \in Nat /\ failures' >= failures
  BY <1>2 DEF TypeOK
<1> QED BY <1>1, <1>2, <1>4, <1>6, <1>7, <1>8, RejectedMoves, CallKeeps

LEMMA EnsureMonitorInv ==
  ASSUME TypeOK, TypeOK', Inv, NEW c \in Call, EnsureMonitor(c)
  PROVE  Inv'
<1>1. PICK u \in Unit : u = Current(c)
  BY CurrentIn DEF EnsureMonitor
<1>2. /\ call[c] = "monitor" /\ NextUnit(c) /\ dispatched' = dispatched \cup {u}
      /\ UNCHANGED <<records, monitor, events, ledger, failures>>
      /\ pc' = pc \/ pc' = [pc EXCEPT ![Monitor] = "sweep"]
  BY <1>1 DEF EnsureMonitor, Goto, faults
<1>3. /\ \A v \in Unit : pc'[v] = pc[v]
      /\ pc'[Monitor] \in {pc[Monitor], "sweep"}
  BY <1>2, DelegationAssumption DEF TypeOK, Thread
<1>4. \A v \in Unit \ {u} : Kept(v)
  BY <1>2, <1>3 DEF Kept, Finalizing, records, monitor, events, ledger
<1>5. Owed(u)
  BY <1>1, <1>2 DEF Inv, DispatchInv, DispatchAt, Withdrawn
<1>6. UnitInv(u)'
  <2>1. UnitInv(u)
    BY DEF Inv
  <2>2. StallInv(u)' /\ QueuedInv(u)'
    BY <1>2, <1>3, <2>1 DEF UnitInv, StallInv, QueuedInv, Finalizing, records, monitor
  <2>3. \A t \in Thread : Finalizes(t, u)' => Finalizes(t, u) /\ pc'[t] = pc[t]
    BY <1>2, <1>3 DEF Finalizes, Mine, monitor, Thread
  <2>4. ClaimInv(u)'
    BY <1>2, <2>1, <2>3 DEF UnitInv, ClaimInv, Clean, Owed, records, events, ledger
  <2>5. SpentInv(u)'
    BY <1>2, <1>5, <2>1 DEF UnitInv, SpentInv, Owed, events, ledger
  <2>6. RowInv(u)'
    BY <1>2, <1>3, <2>1 DEF UnitInv, RowInv, records, ledger
  <2> QED BY <2>2, <2>4, <2>5, <2>6 DEF UnitInv
<1>7. SlotsBounded'
  BY <1>2, SlotsShrink DEF Inv, records
<1>8. failures' \in Nat /\ failures' >= failures
  BY <1>2 DEF TypeOK
<1> QED BY <1>1, <1>2, <1>4, <1>6, <1>7, <1>8, NextMoves, CallKeeps

LEMMA CallStepInv ==
  ASSUME TypeOK, TypeOK', Inv, NEW c \in Call, CallStep(c)
  PROVE  Inv'
<1>1. CASE GrowPool(c)
  <2>1. /\ call[c] = "pool" /\ call' = [call EXCEPT ![c] = "submit"] /\ nth' = nth
        /\ failures' = failures
        /\ UNCHANGED <<records, pc, monitor, events, ledger, dispatched>>
    BY <1>1 DEF GrowPool, faults
  <2>2. failures' >= failures
    BY <2>1 DEF TypeOK
  <2>3. "submit" \in CallSteps \ {"admit"}
    BY DEF CallSteps
  <2> QED BY <2>1, <2>2, <2>3, CallMoves
<1>2. CASE DeleteRowFails(c)
  <2>1. /\ call[c] = "unrow" /\ call' = [call EXCEPT ![c] = "over"] /\ nth' = nth
        /\ failures' = failures + 1
        /\ UNCHANGED <<records, pc, monitor, events, ledger, dispatched>>
    BY <1>2 DEF DeleteRowFails, faults
  <2>2. failures' >= failures
    BY <2>1 DEF TypeOK
  <2>3. "over" \in CallSteps \ {"admit"}
    BY DEF CallSteps
  <2> QED BY <2>1, <2>2, <2>3, CallMoves
<1> QED
  BY <1>1, <1>2, PersistDispatchInv, PersistDispatchFailsInv, SubmitInv, SubmitFailsInv, DeleteRowInv,
     EnsureMonitorInv
  DEF CallStep
-----------------------------------------------------------------------------
(* The steps of workers, of the monitor and of conversations *)

\* A unit something has happened to is not one that a call still has to itself.
LEMMA Aside ==
  ASSUME Inv, NEW u \in Unit, pc[u] # "off" \/ u \in started \/ ~Clean(u)
  PROVE  /\ \A d \in Call : \A i \in Ahead(d) : Plan[d][i] # u
         /\ \A d \in Call : call[d] \in {"persist", "pool", "submit"} => Current(d) # u
<1>1. \A d \in Call : \A i \in Ahead(d) : Plan[d][i] # u
  BY DEF Inv, FreshInv, Untouched
<1>2. \A d \in Call : call[d] \in {"persist", "pool", "submit"} => Current(d) # u
  BY DEF Inv, DispatchInv, DispatchAt
<1> QED BY <1>1, <1>2

\* A step of such a unit.
LEMMA WorkKeeps ==
  ASSUME TypeOK, Inv, failures' >= failures, failures' \in Nat,
         NEW u \in Unit, pc[u] # "off" \/ u \in started \/ ~Clean(u),
         \A v \in Unit \ {u} : Kept(v),
         call' = call, nth' = nth, dispatched' = dispatched,
         Withdrawn(u) => Withdrawn(u)', Owed(u) => Owed(u)',
         UnitInv(u)', SlotsBounded'
  PROVE  Inv'
<1> DEFINE X == {u}
<1>1. X \in SUBSET Unit /\ \A v \in Unit \ X : Kept(v)
  OBVIOUS
<1>2. \A d \in Call : \A i \in Ahead(d)' : i \in Ahead(d) /\ Plan[d][i] \notin X
  BY Aside DEF Ahead
<1>3. /\ FreshInv'
      /\ \A v \in Unit \ X : UnitInv(v)'
      /\ \A d \in Call : call'[d] = call[d] /\ nth'[d] = nth[d] /\ Current(d) \notin X
                           => DispatchAt(d)'
  <2> HIDE DEF X
  <2> QED BY <1>1, <1>2, StepKeeps
<1>4. ASSUME NEW d \in Call, Current(d) = u
      PROVE  DispatchAt(d)'
  <2>1. call[d] \notin {"persist", "pool", "submit"}
    BY <1>4, Aside
  <2>2. Current(d)' = u
    BY <1>4 DEF Current
  <2>3. DispatchAt(d)
    BY DEF Inv, DispatchInv
  <2>4. /\ call[d] = "unrow" => Withdrawn(u)
        /\ call[d] # "over" => u \notin dispatched
        /\ call[d] = "monitor" => Owed(u)
    BY <1>4, <2>3 DEF DispatchAt
  <2>5. Withdrawn(Current(d))' <=> Withdrawn(u)'
    BY <2>2 DEF Withdrawn, Clean
  <2>6. Owed(Current(d))' <=> Owed(u)'
    BY <2>2 DEF Owed
  <2> QED BY <2>1, <2>2, <2>4, <2>5, <2>6 DEF DispatchAt
<1>5. DispatchInv'
  BY <1>3, <1>4 DEF DispatchInv
<1> QED BY <1>3, <1>5 DEF Inv

\* A step that leaves every unit to itself.
LEMMA QuietKeeps ==
  ASSUME TypeOK, TypeOK', Inv, \A v \in Unit : Kept(v),
         call' = call, nth' = nth, slot' = slot, failures' = failures
  PROVE  Inv'
<1>1. {} \in SUBSET Unit /\ \A v \in Unit \ {} : Kept(v)
  OBVIOUS
<1>2. \A d \in Call : \A i \in Ahead(d)' : i \in Ahead(d) /\ Plan[d][i] \notin {}
  BY DEF Ahead
<1>3. failures' \in Nat /\ failures' >= failures
  BY DEF TypeOK
<1>4. /\ FreshInv'
      /\ \A v \in Unit \ {} : UnitInv(v)'
      /\ \A d \in Call : call'[d] = call[d] /\ nth'[d] = nth[d] /\ Current(d) \notin {}
                           => DispatchAt(d)'
  BY <1>1, <1>2, <1>3, StepKeeps
<1>5. SlotsBounded'
  <2>1. \A u \in Unit : rec'[u] \in Active => rec[u] \in Active /\ slot'[u] = slot[u]
    BY DEF Kept, Active
  <2> QED BY <2>1, SlotsShrink DEF Inv
<1> QED BY <1>4, <1>5 DEF Inv, DispatchInv

\* Whoever finalizes a unit is its worker, or the monitor and the unit has started.
LEMMA FinalizerOf ==
  ASSUME TypeOK, Inv, NEW t \in Thread, NEW u \in Unit, u = Mine(t), pc[t] \in Finalizing
  PROVE  /\ t = u \/ (t = Monitor /\ at = u /\ u \in started)
         /\ pc[u] # "off" \/ u \in started \/ ~Clean(u)
         /\ pc[u] = "queued" => u \notin started /\ t # Monitor
<1>1. StallInv(u) /\ QueuedInv(u)
  BY DEF Inv, UnitInv
<1> QED BY <1>1 DEF Mine, StallInv, QueuedInv, Finalizing

\* A step of the finalizer of u that changes no other unit, and no row but u's.
LEMMA FinalizeKeeps ==
  ASSUME TypeOK, NEW t \in Thread, NEW u \in Unit, u = Mine(t), NEW step \in PCs, Goto(t, step),
         pc[t] \in Finalizing, started' = started, dispatched' = dispatched, at' = at,
         expiring' = expiring, purged' = purged,
         \A v \in Unit \ {u} : rec'[v] = rec[v] \/ (rec'[v] = "none" /\ rec[v] # "running"),
         \A v \in Unit \ {u} : /\ row'[v] = row[v] /\ queue'[v] = queue[v] /\ hand'[v] = hand[v]
                               /\ published'[v] = published[v] /\ delivered'[v] = delivered[v]
  PROVE  /\ \A v \in Unit \ {u} : Kept(v)
         /\ pc'[t] = step /\ \A s \in Thread \ {t} : pc'[s] = pc[s]
<1>1. pc'[t] = step /\ \A s \in Thread \ {t} : pc'[s] = pc[s]
  BY DEF TypeOK, Goto
<1>2. ASSUME NEW v \in Unit \ {u}
      PROVE  Kept(v)
  <2>1. pc'[v] = pc[v]
    <3>1. v # t
      BY <1>2, DelegationAssumption DEF Mine
    <3> QED BY <1>1, <3>1 DEF Thread
  <2>2. at' = v => pc'[Monitor] = pc[Monitor]
    BY <1>1, <1>2 DEF Mine, Thread
  <2> QED BY <2>1, <2>2 DEF Kept
<1> QED BY <1>1, <1>2

LEMMA StartInv ==
  ASSUME TypeOK, TypeOK', Inv, NEW u \in Unit, Start(u)
  PROVE  Inv'
<1>1. /\ pc[u] = "queued" /\ pc' = [pc EXCEPT ![u] = "running"]
      /\ started' = (IF rec[u] = "none" THEN started ELSE started \cup {u})
      /\ call' = call /\ nth' = nth
      /\ UNCHANGED <<rec, slot, row, purged, queue, hand, published, delivered, dispatched, at, expiring,
                     failures>>
  BY DEF Start, Goto, callers, monitor, events, ledger, faults
<1>2. pc'[u] = "running" /\ \A t \in Thread \ {u} : pc'[t] = pc[t]
  BY <1>1 DEF TypeOK, Thread
<1>3. \A v \in Unit \ {u} : Kept(v)
  BY <1>1, <1>2, DelegationAssumption DEF Kept, Thread
<1>4. UnitInv(u)
  BY DEF Inv
<1>5. UnitInv(u)'
  <2>1. StallInv(u)' /\ QueuedInv(u)'
    BY <1>1, <1>2, <1>4, DelegationAssumption DEF UnitInv, StallInv, QueuedInv, Thread
  <2>2. \A t \in Thread : Finalizes(t, u)' => Finalizes(t, u) /\ pc'[t] = pc[t]
    BY <1>1, <1>2 DEF Finalizes, Mine
  <2>3. ClaimInv(u)'
    BY <1>1, <1>4, <2>2 DEF UnitInv, ClaimInv, Clean, Owed
  <2>4. SpentInv(u)'
    BY <1>1, <1>4 DEF UnitInv, SpentInv, Owed
  <2>5. RowInv(u)'
    BY <1>1, <1>2, <1>4 DEF UnitInv, RowInv
  <2> QED BY <2>1, <2>3, <2>4, <2>5 DEF UnitInv
<1>6. /\ Withdrawn(u) => Withdrawn(u)'
      /\ Owed(u) => Owed(u)'
  BY <1>1, <1>2 DEF Withdrawn, Owed, Clean
<1>7. SlotsBounded'
  BY <1>1, SlotsShrink DEF Inv
<1>8. failures' \in Nat /\ failures' >= failures
  BY <1>1 DEF TypeOK
<1> QED BY <1>1, <1>3, <1>5, <1>6, <1>7, <1>8, WorkKeeps

LEMMA RunnerReturnsInv ==
  ASSUME TypeOK, TypeOK', Inv, NEW u \in Unit, RunnerReturns(u)
  PROVE  Inv'
<1>1. /\ pc[u] = "running" /\ pc' = [pc EXCEPT ![u] = "claim"]
      /\ call' = call /\ nth' = nth
      /\ UNCHANGED <<rec, started, slot, row, purged, queue, hand, published, delivered, dispatched, at,
                     expiring, failures>>
  BY DEF RunnerReturns, Goto, callers, monitor, events, ledger, faults, records
<1>2. pc'[u] = "claim" /\ \A t \in Thread \ {u} : pc'[t] = pc[t]
  BY <1>1 DEF TypeOK, Thread
<1>3. \A v \in Unit \ {u} : Kept(v)
  BY <1>1, <1>2, DelegationAssumption DEF Kept, Thread
<1>4. UnitInv(u)
  BY DEF Inv
<1>5. UnitInv(u)'
  <2>1. StallInv(u)' /\ QueuedInv(u)'
    BY <1>1, <1>2, <1>4, DelegationAssumption DEF UnitInv, StallInv, QueuedInv, Thread
  <2>2. \A t \in Thread : Finalizes(t, u)' => Finalizes(t, u) /\ pc'[t] = pc[t]
    BY <1>1, <1>2 DEF Finalizes, Mine
  <2>3. ClaimInv(u)'
    BY <1>1, <1>4, <2>2 DEF UnitInv, ClaimInv, Clean, Owed
  <2>4. SpentInv(u)'
    BY <1>1, <1>4 DEF UnitInv, SpentInv, Owed
  <2>5. RowInv(u)'
    BY <1>1, <1>2, <1>4 DEF UnitInv, RowInv
  <2> QED BY <2>1, <2>3, <2>4, <2>5 DEF UnitInv
<1>6. /\ Withdrawn(u) => Withdrawn(u)'
      /\ Owed(u) => Owed(u)'
  BY <1>1, <1>2 DEF Withdrawn, Owed, Clean
<1>7. SlotsBounded'
  BY <1>1, SlotsShrink DEF Inv
<1>8. failures' \in Nat /\ failures' >= failures
  BY <1>1 DEF TypeOK
<1> QED BY <1>1, <1>3, <1>5, <1>6, <1>7, <1>8, WorkKeeps

\* Two claims of one unit cannot both succeed.
LEMMA ClaimKeeps ==
  ASSUME TypeOK, TypeOK', Inv, NEW t \in Thread, Claim(t)
  PROVE  Inv'
<1>1. PICK u \in Unit : u = Mine(t)
  BY MineIn
<1>2. /\ pc[t] = "claim"
      /\ \/ rec[u] \in Active /\ rec' = [rec EXCEPT ![u] = "finalizing"] /\ Goto(t, "persist")
         \/ rec[u] \notin Active /\ rec' = rec /\ Goto(t, Back(t))
      /\ call' = call /\ nth' = nth
      /\ UNCHANGED <<started, slot, row, purged, queue, hand, published, delivered, dispatched, at,
                     expiring, failures>>
  BY <1>1 DEF Claim, callers, monitor, events, ledger, faults
<1>3. PICK step \in {"persist", "act", "off"} :
         /\ Goto(t, step)
         /\ step = "persist" => rec[u] \in Active /\ rec' = [rec EXCEPT ![u] = "finalizing"]
         /\ step # "persist" => rec' = rec
  BY <1>2 DEF Back
<1>4. /\ rec'[u] = IF step = "persist" THEN "finalizing" ELSE rec[u]
      /\ \A v \in Unit \ {u} : rec'[v] = rec[v]
  <2>1. CASE step = "persist"
    BY <1>3, <2>1 DEF TypeOK
  <2>2. CASE step # "persist"
    BY <1>3, <2>2
  <2> QED BY <2>1, <2>2
<1>5. /\ \A v \in Unit \ {u} : Kept(v)
      /\ pc'[t] = step /\ \A s \in Thread \ {t} : pc'[s] = pc[s]
  BY <1>1, <1>2, <1>3, <1>4, FinalizeKeeps DEF PCs, Finalizing
<1>6. /\ t = u \/ (t = Monitor /\ at = u /\ u \in started)
      /\ pc[u] # "off" \/ u \in started \/ ~Clean(u)
      /\ pc[u] = "queued" => u \notin started /\ t # Monitor
  BY <1>1, <1>2, FinalizerOf DEF Finalizing
<1>7. UnitInv(u)
  BY DEF Inv
<1>8. UnitInv(u)'
  <2>1. StallInv(u)'
    BY <1>2, <1>4, <1>5, <1>6, <1>7 DEF UnitInv, StallInv, Thread, Finalizing
  <2>2. QueuedInv(u)'
    BY <1>2, <1>4, <1>5, <1>6, <1>7, DelegationAssumption DEF UnitInv, QueuedInv, Thread
  <2>3. ASSUME NEW s \in Thread, Finalizes(s, u)'
        PROVE  (s = t /\ step = "persist") \/ (Finalizes(s, u) /\ pc'[s] = pc[s])
    BY <1>2, <1>5, <2>3 DEF Finalizes, Mine
  <2>4. ClaimInv(u)'
    <3>1. CASE step = "persist"
      <4>1. /\ Clean(u) /\ rec'[u] = "finalizing" /\ row[u] = "running"
            /\ \A s \in Thread : ~Finalizes(s, u)
        BY <1>2, <1>3, <1>4, <1>6, <1>7, <3>1 DEF UnitInv, ClaimInv, RowInv
      <4>2. \A s \in Thread : Finalizes(s, u)' => s = t
        BY <2>3, <4>1
      <4>3. Clean(u)'
        BY <1>2, <4>1 DEF Clean
      <4>4. pc'[t] = "persist"
        BY <1>5, <3>1
      <4> QED BY <1>2, <4>1, <4>2, <4>3, <4>4 DEF ClaimInv, Active
    <3>2. CASE step # "persist"
      BY <1>2, <1>4, <1>7, <2>3, <3>2 DEF UnitInv, ClaimInv, Clean, Owed
    <3> QED BY <3>1, <3>2
  <2>5. SpentInv(u)'
    BY <1>2, <1>7 DEF UnitInv, SpentInv, Owed
  <2>6. RowInv(u)'
    BY <1>2, <1>4, <1>5, <1>7 DEF UnitInv, RowInv, Active, Thread
  <2> QED BY <2>1, <2>2, <2>4, <2>5, <2>6 DEF UnitInv
<1>9. /\ Withdrawn(u) => Withdrawn(u)'
      /\ Owed(u) => Owed(u)'
  <2>1. Withdrawn(u) => rec[u] \notin Active /\ t = u
    BY <1>6 DEF Withdrawn, Active
  <2>2. Withdrawn(u) => rec'[u] = rec[u] /\ pc'[u] \in {"act", "off"}
    BY <1>3, <1>4, <1>5, <2>1
  <2> QED BY <1>2, <2>2 DEF Withdrawn, Owed, Clean
<1>10. SlotsBounded'
  BY <1>2, <1>4, SlotsShrink DEF Inv, Active
<1>11. failures' \in Nat /\ failures' >= failures
  BY <1>2 DEF TypeOK
<1> QED BY <1>2, <1>5, <1>6, <1>8, <1>9, <1>10, <1>11, WorkKeeps

LEMMA PersistInv ==
  ASSUME TypeOK, TypeOK', Inv, NEW t \in Thread, Persist(t)
  PROVE  Inv'
<1>1. PICK u \in Unit : u = Mine(t)
  BY MineIn
<1>2. /\ pc[t] = "persist" /\ Goto(t, "publish")
      /\ row' = [row EXCEPT ![u] = IF @ = "absent" THEN "absent" ELSE "pending"]
      /\ call' = call /\ nth' = nth
      /\ UNCHANGED <<rec, started, slot, purged, queue, hand, published, delivered, dispatched, at,
                     expiring, failures>>
  BY <1>1 DEF Persist, records, callers, monitor, events, faults
<1>3. /\ row'[u] = IF row[u] = "absent" THEN "absent" ELSE "pending"
      /\ \A v \in Unit \ {u} : row'[v] = row[v]
  BY <1>2 DEF TypeOK
<1>4. /\ \A v \in Unit \ {u} : Kept(v)
      /\ pc'[t] = "publish" /\ \A s \in Thread \ {t} : pc'[s] = pc[s]
  BY <1>1, <1>2, <1>3, FinalizeKeeps DEF PCs, Finalizing
<1>5. /\ t = u \/ (t = Monitor /\ at = u /\ u \in started)
      /\ pc[u] # "off" \/ u \in started \/ ~Clean(u)
      /\ pc[u] = "queued" => u \notin started /\ t # Monitor
  BY <1>1, <1>2, FinalizerOf DEF Finalizing
<1>6. UnitInv(u) /\ Finalizes(t, u)
  BY <1>1, <1>2 DEF Inv, Finalizes
<1>7. /\ Clean(u) /\ rec[u] \notin Active /\ row[u] = "running"
      /\ \A s \in Thread : Finalizes(s, u) => s = t
  BY <1>2, <1>6 DEF UnitInv, ClaimInv
<1>8. UnitInv(u)'
  <2>1. StallInv(u)'
    BY <1>2, <1>4, <1>5, <1>6 DEF UnitInv, StallInv, Thread, Finalizing
  <2>2. QueuedInv(u)'
    BY <1>2, <1>4, <1>5, <1>6, DelegationAssumption DEF UnitInv, QueuedInv, Thread
  <2>3. \A s \in Thread : Finalizes(s, u)' => s = t
    BY <1>2, <1>4, <1>7 DEF Finalizes, Mine
  <2>4. ClaimInv(u)'
    BY <1>2, <1>3, <1>4, <1>7, <2>3 DEF ClaimInv, Clean, Owed
  <2>5. SpentInv(u)'
    BY <1>2, <1>3, <1>6, <1>7 DEF UnitInv, SpentInv, Owed, Clean
  <2>6. RowInv(u)'
    BY <1>2, <1>7 DEF RowInv
  <2> QED BY <2>1, <2>2, <2>4, <2>5, <2>6 DEF UnitInv
<1>9. /\ Withdrawn(u) => Withdrawn(u)'
      /\ Owed(u) => Owed(u)'
  BY <1>2, <1>3, <1>5 DEF Withdrawn, Owed
<1>10. SlotsBounded'
  BY <1>2, SlotsShrink DEF Inv
<1>11. failures' \in Nat /\ failures' >= failures
  BY <1>2 DEF TypeOK
<1> QED BY <1>2, <1>4, <1>5, <1>8, <1>9, <1>10, <1>11, WorkKeeps

LEMMA PersistFailsInv ==
  ASSUME TypeOK, TypeOK', Inv, NEW t \in Thread, PersistFails(t)
  PROVE  Inv'
<1>1. PICK u \in Unit : u = Mine(t)
  BY MineIn
<1>2. /\ pc[t] = "persist" /\ Goto(t, "off") /\ failures' = failures + 1
      /\ call' = call /\ nth' = nth
      /\ UNCHANGED <<rec, started, slot, row, purged, queue, hand, published, delivered, dispatched, at,
                     expiring>>
  BY <1>1 DEF PersistFails, records, callers, monitor, events, ledger
<1>3. /\ \A v \in Unit \ {u} : Kept(v)
      /\ pc'[t] = "off" /\ \A s \in Thread \ {t} : pc'[s] = pc[s]
  BY <1>1, <1>2, FinalizeKeeps DEF PCs, Finalizing
<1>4. /\ t = u \/ (t = Monitor /\ at = u /\ u \in started)
      /\ pc[u] # "off" \/ u \in started \/ ~Clean(u)
      /\ pc[u] = "queued" => u \notin started /\ t # Monitor
  BY <1>1, <1>2, FinalizerOf DEF Finalizing
<1>5. UnitInv(u)
  BY DEF Inv
<1>6. UnitInv(u)'
  <2>1. StallInv(u)'
    BY <1>2, <1>3, <1>5 DEF UnitInv, StallInv, Thread, Finalizing
  <2>2. QueuedInv(u)'
    BY <1>2, <1>3, <1>4, <1>5, DelegationAssumption DEF UnitInv, QueuedInv, Thread
  <2>3. \A s \in Thread : Finalizes(s, u)' => Finalizes(s, u) /\ pc'[s] = pc[s]
    BY <1>2, <1>3 DEF Finalizes, Mine
  <2>4. ClaimInv(u)'
    BY <1>2, <1>5, <2>3 DEF UnitInv, ClaimInv, Clean, Owed
  <2>5. SpentInv(u)'
    BY <1>2, <1>5 DEF UnitInv, SpentInv, Owed
  <2>6. RowInv(u)'
    BY <1>2, <1>3, <1>5 DEF UnitInv, RowInv, Thread
  <2> QED BY <2>1, <2>2, <2>4, <2>5, <2>6 DEF UnitInv
<1>7. /\ Withdrawn(u) => Withdrawn(u)'
      /\ Owed(u) => Owed(u)'
  BY <1>2, <1>3, <1>4 DEF Withdrawn, Owed, Clean
<1>8. SlotsBounded'
  BY <1>2, SlotsShrink DEF Inv
<1>9. failures' \in Nat /\ failures' >= failures
  BY <1>2 DEF TypeOK
<1> QED BY <1>2, <1>3, <1>4, <1>6, <1>7, <1>8, <1>9, WorkKeeps

LEMMA PublishInv ==
  ASSUME TypeOK, TypeOK', Inv, NEW t \in Thread, Publish(t)
  PROVE  Inv'
<1>1. PICK u \in Unit : u = Mine(t)
  BY MineIn
<1>2. /\ pc[t] = "publish" /\ Goto(t, "settle")
      /\ queue' = [queue EXCEPT ![u] = @ + 1] /\ published' = [published EXCEPT ![u] = @ + 1]
      /\ call' = call /\ nth' = nth
      /\ UNCHANGED <<rec, started, slot, row, purged, hand, delivered, dispatched, at, expiring, failures>>
  BY <1>1 DEF Publish, records, callers, monitor, ledger, faults
<1>3. /\ queue'[u] = queue[u] + 1 /\ published'[u] = published[u] + 1
      /\ \A v \in Unit \ {u} : queue'[v] = queue[v] /\ published'[v] = published[v]
  BY <1>2 DEF TypeOK
<1>4. /\ \A v \in Unit \ {u} : Kept(v)
      /\ pc'[t] = "settle" /\ \A s \in Thread \ {t} : pc'[s] = pc[s]
  BY <1>1, <1>2, <1>3, FinalizeKeeps DEF PCs, Finalizing
<1>5. /\ t = u \/ (t = Monitor /\ at = u /\ u \in started)
      /\ pc[u] # "off" \/ u \in started \/ ~Clean(u)
      /\ pc[u] = "queued" => u \notin started /\ t # Monitor
  BY <1>1, <1>2, FinalizerOf DEF Finalizing
<1>6. UnitInv(u) /\ Finalizes(t, u)
  BY <1>1, <1>2 DEF Inv, Finalizes
<1>7. /\ Clean(u) /\ rec[u] \notin Active /\ row[u] # "running" /\ Owed(u)
      /\ \A s \in Thread : Finalizes(s, u) => s = t
  BY <1>2, <1>6 DEF UnitInv, ClaimInv
<1>8. UnitInv(u)'
  <2>1. StallInv(u)'
    BY <1>2, <1>4, <1>5, <1>6 DEF UnitInv, StallInv, Thread, Finalizing
  <2>2. QueuedInv(u)'
    BY <1>2, <1>4, <1>5, <1>6, DelegationAssumption DEF UnitInv, QueuedInv, Thread
  <2>3. \A s \in Thread : ~Finalizes(s, u)'
    BY <1>2, <1>4, <1>7 DEF Finalizes, Mine
  <2>4. ClaimInv(u)'
    BY <1>2, <1>7, <2>3 DEF ClaimInv
  <2>5. SpentInv(u)'
    BY <1>2, <1>3, <1>6, <1>7 DEF UnitInv, SpentInv, Owed, Clean
  <2>6. RowInv(u)'
    BY <1>2, <1>7 DEF RowInv
  <2> QED BY <2>1, <2>2, <2>4, <2>5, <2>6 DEF UnitInv
<1>9. /\ Withdrawn(u) => Withdrawn(u)'
      /\ Owed(u) => Owed(u)'
  BY <1>2, <1>5 DEF Withdrawn, Owed
<1>10. SlotsBounded'
  BY <1>2, SlotsShrink DEF Inv
<1>11. failures' \in Nat /\ failures' >= failures
  BY <1>2 DEF TypeOK
<1> QED BY <1>2, <1>4, <1>5, <1>8, <1>9, <1>10, <1>11, WorkKeeps

LEMMA SettleInv ==
  ASSUME TypeOK, TypeOK', Inv, NEW t \in Thread, Settle(t)
  PROVE  Inv'
<1>1. PICK u \in Unit : u = Mine(t)
  BY MineIn
<1>2. /\ pc[t] = "settle" /\ Goto(t, Back(t)) /\ call' = call /\ nth' = nth
      /\ UNCHANGED <<started, slot, row, purged, queue, hand, published, delivered, dispatched, at,
                     expiring, failures>>
  BY <1>1 DEF Settle, callers, monitor, events, ledger, faults
<1>3. /\ rec'[u] \in {"none", "ended"}
      /\ \A v \in Unit \ {u} : rec'[v] = rec[v] \/ (rec'[v] = "none" /\ rec[v] # "running")
  <2> DEFINE recs == [rec EXCEPT ![u] = IF @ = "none" THEN "none" ELSE "ended"]
             completed == {v \in Unit : recs[v] \notin {"none", "running"}}
             over == Oldest(completed, Cardinality(completed) - MaxRetained)
  <2>1. rec' = [v \in Unit |-> IF v \in over THEN "none" ELSE recs[v]]
    BY <1>1 DEF Settle
  <2>2. over \subseteq completed
    BY DEF Oldest
  <2>3. recs[u] \in {"none", "ended"} /\ \A v \in Unit \ {u} : recs[v] = rec[v]
    BY DEF TypeOK
  <2>4. \A v \in completed : recs[v] # "running"
    OBVIOUS
  <2> HIDE DEF recs, over, completed
  <2> QED BY <2>1, <2>2, <2>3, <2>4
<1>4. /\ \A v \in Unit \ {u} : Kept(v)
      /\ pc'[t] = Back(t) /\ \A s \in Thread \ {t} : pc'[s] = pc[s]
  BY <1>1, <1>2, <1>3, BackType, FinalizeKeeps DEF Finalizing
<1>5. /\ t = u \/ (t = Monitor /\ at = u /\ u \in started)
      /\ pc[u] # "off" \/ u \in started \/ ~Clean(u)
      /\ pc[u] = "queued" => u \notin started /\ t # Monitor
  BY <1>1, <1>2, FinalizerOf DEF Finalizing
<1>6. UnitInv(u) /\ pc'[t] \in {"off", "act"}
  BY <1>4 DEF Inv, Back
<1>7. UnitInv(u)'
  <2>1. StallInv(u)'
    BY <1>2, <1>3, <1>4, <1>6 DEF UnitInv, StallInv, Thread, Finalizing
  <2>2. QueuedInv(u)'
    BY <1>2, <1>3, <1>4, <1>5, <1>6, DelegationAssumption DEF UnitInv, QueuedInv, Thread
  <2>3. \A s \in Thread : Finalizes(s, u)' => Finalizes(s, u) /\ pc'[s] = pc[s]
    BY <1>2, <1>4, <1>6 DEF Finalizes, Mine
  <2>4. ClaimInv(u)'
    BY <1>2, <1>3, <1>6, <2>3 DEF UnitInv, ClaimInv, Clean, Owed, Active
  <2>5. SpentInv(u)'
    BY <1>2, <1>6 DEF UnitInv, SpentInv, Owed
  <2>6. RowInv(u)'
    BY <1>3 DEF RowInv, Active
  <2> QED BY <2>1, <2>2, <2>4, <2>5, <2>6 DEF UnitInv
<1>8. /\ Withdrawn(u) => Withdrawn(u)'
      /\ Owed(u) => Owed(u)'
  BY <1>2, <1>5 DEF Withdrawn, Owed
<1>9. SlotsBounded'
  BY <1>2, <1>3, SlotsShrink DEF Inv, Active
<1>10. failures' \in Nat /\ failures' >= failures
  BY <1>2 DEF TypeOK
<1> QED BY <1>2, <1>4, <1>5, <1>7, <1>8, <1>9, <1>10, WorkKeeps

LEMMA FinalizeInv ==
  ASSUME TypeOK, TypeOK', Inv, NEW t \in Thread, Finalize(t)
  PROVE  Inv'
BY ClaimKeeps, PersistInv, PersistFailsInv, PublishInv, SettleInv DEF Finalize

LEMMA SweepInv ==
  ASSUME TypeOK, TypeOK', Inv, Sweep
  PROVE  Inv'
<1>1. /\ pc' = [pc EXCEPT ![Monitor] = "act"] /\ call' = call /\ nth' = nth
      /\ expiring' = {u \in overdue : rec[u] = "stalling"}
      /\ rec' = [u \in Unit |-> IF u \in Stalls THEN "stalling" ELSE rec[u]]
      /\ UNCHANGED <<started, slot, row, purged, queue, hand, published, delivered, dispatched, at, failures>>
  BY DEF Sweep, Goto, callers, events, ledger, faults
<1>2. pc'[Monitor] = "act" /\ \A u \in Unit : pc'[u] = pc[u]
  BY <1>1, DelegationAssumption DEF TypeOK, Thread
<1>3. \A u \in Stalls : rec[u] = "running" /\ u \in started
  BY DEF Stalls
<1>4. \A v \in Unit : Kept(v)
  BY <1>1, <1>2, <1>3 DEF Kept, Finalizing
<1> QED BY <1>1, <1>4, QuietKeeps

LEMMA TakeUpInv ==
  ASSUME TypeOK, TypeOK', Inv, NEW u \in Unit, TakeUp(u)
  PROVE  Inv'
<1>1. /\ pc[Monitor] = "act" /\ pc' = [pc EXCEPT ![Monitor] = "claim"]
      /\ u \in expiring /\ at' = u /\ expiring' = expiring \ {u}
      /\ call' = call /\ nth' = nth
      /\ UNCHANGED <<rec, started, slot, row, purged, queue, hand, published, delivered, dispatched, failures>>
  BY DEF TakeUp, Goto, records, callers, events, ledger, faults
<1>2. pc'[Monitor] = "claim" /\ \A v \in Unit : pc'[v] = pc[v]
  BY <1>1, DelegationAssumption DEF TypeOK, Thread
<1>3. \A v \in Unit \ {u} : Kept(v)
  BY <1>1, <1>2 DEF Kept, Finalizing
<1>4. UnitInv(u) /\ u \in started
  BY <1>1 DEF Inv, UnitInv, StallInv
<1>5. UnitInv(u)'
  <2>1. StallInv(u)' /\ QueuedInv(u)'
    BY <1>1, <1>2, <1>4 DEF UnitInv, StallInv, QueuedInv
  <2>2. \A t \in Thread : Finalizes(t, u)' => Finalizes(t, u) /\ pc'[t] = pc[t]
    BY <1>1, <1>2 DEF Finalizes, Mine, Thread
  <2>3. ClaimInv(u)'
    BY <1>1, <1>4, <2>2 DEF UnitInv, ClaimInv, Clean, Owed
  <2>4. SpentInv(u)'
    BY <1>1, <1>4 DEF UnitInv, SpentInv, Owed
  <2>5. RowInv(u)'
    BY <1>1, <1>2, <1>4 DEF UnitInv, RowInv
  <2> QED BY <2>1, <2>3, <2>4, <2>5 DEF UnitInv
<1>6. /\ Withdrawn(u) => Withdrawn(u)'
      /\ Owed(u) => Owed(u)'
  BY <1>1, <1>4 DEF Withdrawn, Owed
<1>7. SlotsBounded'
  BY <1>1, SlotsShrink DEF Inv
<1>8. failures' \in Nat /\ failures' >= failures
  BY <1>1 DEF TypeOK
<1> QED BY <1>1, <1>3, <1>4, <1>5, <1>6, <1>7, <1>8, WorkKeeps

\* The end of a pass, and the monitor's return.
LEMMA PassEndsInv ==
  ASSUME TypeOK, TypeOK', Inv, EndPass \/ Leave
  PROVE  Inv'
<1>1. PICK step \in {"sweep", "leave", "off"} : pc' = [pc EXCEPT ![Monitor] = step]
  BY DEF EndPass, Leave, Goto
<1>2. UNCHANGED <<records, callers, monitor, events, ledger, faults>>
  BY DEF EndPass, Leave
<1>3. pc'[Monitor] = step /\ \A u \in Unit : pc'[u] = pc[u]
  BY <1>1, DelegationAssumption DEF TypeOK, Thread
<1>4. \A v \in Unit : Kept(v)
  BY <1>2, <1>3 DEF Kept, Finalizing, records, callers, monitor, events, ledger
<1> QED BY <1>2, <1>4, QuietKeeps DEF records, callers, faults

LEMMA QuietInv ==
  ASSUME TypeOK, TypeOK', Inv, NEW u \in Unit, GoesQuiet(u) \/ Progresses(u) \/ GraceEnds(u)
  PROVE  Inv'
<1>1. UNCHANGED <<rec, started, slot, callers, pc, monitor, events, ledger, faults>>
  BY DEF GoesQuiet, Progresses, GraceEnds
<1>2. \A v \in Unit : Kept(v)
  BY <1>1 DEF Kept, callers, monitor, events, ledger
<1> QED BY <1>1, <1>2, QuietKeeps DEF callers, faults

LEMMA StutterInv ==
  ASSUME TypeOK, TypeOK', Inv, UNCHANGED vars
  PROVE  Inv'
<1>1. UNCHANGED <<records, callers, pc, monitor, events, ledger, faults>>
  BY DEF vars
<1>2. \A v \in Unit : Kept(v)
  BY <1>1 DEF Kept, records, callers, monitor, events, ledger
<1> QED BY <1>1, <1>2, QuietKeeps DEF records, callers, faults

\* A consumer touches its own unit only.
LEMMA ConsumerFrame ==
  ASSUME TypeOK, NEW u \in Unit, ConsumerStep(u), NEW v \in Unit \ {u}
  PROVE  queue'[v] = queue[v] /\ hand'[v] = hand[v] /\ delivered'[v] = delivered[v] /\ row'[v] = row[v]
<1>1. CASE TakeEvent(u)
  BY <1>1 DEF TakeEvent, TypeOK, ledger
<1>2. CASE HandOver(u)
  BY <1>2 DEF HandOver, TypeOK, ledger
<1>3. CASE Acknowledge(u)
  BY <1>3 DEF Acknowledge, TypeOK
<1>4. CASE PutBack(u)
  BY <1>4 DEF PutBack, TypeOK
<1> QED BY <1>1, <1>2, <1>3, <1>4 DEF ConsumerStep

\* The event is on the queue, or with the one consumer that claimed it.
LEMMA ConsumerSpends ==
  ASSUME TypeOK, TypeOK', NEW u \in Unit, ConsumerStep(u), SpentInv(u)
  PROVE  SpentInv(u)'
<1>1. queue[u] \in Nat /\ published[u] \in Nat /\ delivered[u] \in Nat /\ row[u] \in Row
  BY DEF TypeOK
<1>2. CASE TakeEvent(u)
  <2>0. UNCHANGED <<published, delivered, row, purged, dispatched>>
    BY <1>2 DEF TakeEvent, ledger, callers
  <2>4. /\ queue[u] > 0 /\ queue' = [queue EXCEPT ![u] = @ - 1]
        /\ \/ hand' = hand
           \/ hand' = [hand EXCEPT ![u] = "claimed"] /\ row[u] \notin {"delivered", "dropped"}
    BY <1>2 DEF TakeEvent
  <2>1. /\ queue[u] > 0 /\ queue'[u] = queue[u] - 1
        /\ UNCHANGED <<published, delivered, row, purged, dispatched>>
        /\ \/ hand'[u] = hand[u]
           \/ hand'[u] = "claimed" /\ row[u] \notin {"delivered", "dropped"}
    BY <2>0, <2>4 DEF TypeOK
  <2>2. queue[u] = 1 /\ published[u] = 1 /\ Owed(u) /\ row[u] # "running"
    BY <1>1, <2>1 DEF SpentInv
  <2>3. Owed(u)'
    BY <2>1, <2>2 DEF Owed
  <2> QED BY <1>1, <2>1, <2>2, <2>3 DEF SpentInv, Row
<1>3. CASE HandOver(u)
  <2>1. /\ hand[u] = "claimed" /\ hand'[u] = "injected" /\ delivered'[u] = delivered[u] + 1
        /\ UNCHANGED <<queue, published, row, purged, dispatched>>
    BY <1>3 DEF HandOver, TypeOK, ledger, callers
  <2> QED BY <1>1, <2>1 DEF SpentInv, Owed
<1>4. CASE Acknowledge(u)
  <2>1. /\ hand[u] = "injected" /\ hand'[u] = "free"
        /\ row'[u] = IF row[u] = "pending" THEN "delivered" ELSE row[u]
        /\ UNCHANGED <<queue, published, delivered, purged, dispatched>>
    BY <1>4 DEF Acknowledge, TypeOK, callers
  <2> QED BY <1>1, <2>1 DEF SpentInv, Owed
<1>5. CASE PutBack(u)
  <2>1. /\ hand[u] = "claimed" /\ hand'[u] = "free"
        /\ row'[u] = row[u] \/ (row[u] = "pending" /\ row'[u] = "dropped")
        /\ queue'[u] = queue[u] \/ queue'[u] = queue[u] + 1
        /\ UNCHANGED <<published, delivered, purged, dispatched>>
    BY <1>5 DEF PutBack, TypeOK, callers
  <2> QED BY <1>1, <2>1 DEF SpentInv, Owed
<1> QED BY <1>2, <1>3, <1>4, <1>5 DEF ConsumerStep

LEMMA ConsumerInv ==
  ASSUME TypeOK, TypeOK', Inv, NEW u \in Unit, ConsumerStep(u)
  PROVE  Inv'
<1>1. /\ call' = call /\ nth' = nth
      /\ UNCHANGED <<rec, started, slot, pc, published, purged, dispatched, at, expiring, failures>>
  BY DEF ConsumerStep, TakeEvent, HandOver, Acknowledge, PutBack, records, callers, monitor, faults,
         ledger
<1>2. UnitInv(u) /\ queue[u] \in Nat /\ published[u] \in Nat /\ delivered[u] \in Nat
  BY DEF Inv, TypeOK
<1>3. \A v \in Unit \ {u} :
         queue'[v] = queue[v] /\ hand'[v] = hand[v] /\ delivered'[v] = delivered[v] /\ row'[v] = row[v]
  BY ConsumerFrame
<1>4. queue[u] > 0 \/ hand[u] \in {"claimed", "injected"}
  BY DEF ConsumerStep, TakeEvent, HandOver, Acknowledge, PutBack
<1>5. row'[u] = "absent" <=> row[u] = "absent"
  BY DEF ConsumerStep, TakeEvent, HandOver, Acknowledge, PutBack, ledger, TypeOK
<1>6. ~Clean(u)
  BY <1>4 DEF Clean
<1>7. \A v \in Unit \ {u} : Kept(v)
  BY <1>1, <1>3 DEF Kept
<1>8. UnitInv(u)'
  <2>1. StallInv(u)' /\ QueuedInv(u)'
    BY <1>1, <1>2 DEF UnitInv, StallInv, QueuedInv
  <2>2. rec[u] \notin Active /\ \A t \in Thread : ~Finalizes(t, u)
    BY <1>2, <1>6 DEF UnitInv, ClaimInv
  <2>3. ClaimInv(u)' /\ RowInv(u)'
    BY <1>1, <2>2 DEF ClaimInv, RowInv, Finalizes, Mine
  <2>4. SpentInv(u)'
    BY <1>2, ConsumerSpends DEF UnitInv
  <2> QED BY <2>1, <2>3, <2>4 DEF UnitInv
<1>9. /\ Withdrawn(u) => Withdrawn(u)'
      /\ Owed(u) => Owed(u)'
  BY <1>1, <1>5, <1>6 DEF Withdrawn, Owed
<1>10. SlotsBounded'
  BY <1>1, SlotsShrink DEF Inv
<1>11. failures' \in Nat /\ failures' >= failures
  BY <1>1 DEF TypeOK
<1> QED BY <1>1, <1>6, <1>7, <1>8, <1>9, <1>10, <1>11, WorkKeeps

\* Threads, records and the queue are new; the rows are what is left of the old.
LEMMA RestartInv ==
  ASSUME TypeOK, TypeOK', Inv, Restart
  PROVE  Inv'
<1>1. /\ \A u \in Unit :
           /\ rec'[u] = "none" /\ pc'[u] = "off"
           /\ \/ row[u] \in {"running", "pending"} /\ row'[u] = "pending" /\ queue'[u] = 1
              \/ row[u] = "pending" /\ row'[u] = "dropped" /\ queue'[u] = 0 /\ hand'[u] = "free"
              \/ /\ row[u] \notin {"running", "pending"} /\ row'[u] = row[u] /\ queue'[u] = 0
                 /\ hand'[u] = "free"
           /\ hand'[u] \in {"left", "free"} /\ published'[u] = queue'[u]
      /\ \A t \in Thread : pc'[t] = "off"
      /\ started' = {} /\ expiring' = {}
      /\ UNCHANGED <<dispatched, delivered, purged, at, failures>>
  BY DEF Restart, Thread
<1>2. \A c \in Call : /\ nth'[c] = 1
                      /\ call'[c] = IF nth[c] = 1 /\ call[c] = "admit" THEN "admit" ELSE "over"
  BY DEF Restart
<1>3. \A u \in Unit : UnitInv(u) /\ row[u] \in Row /\ delivered[u] \in Nat
  BY DEF Inv, TypeOK
<1>4. \A u \in Unit : Untouched(u) => Untouched(u)'
  BY <1>1 DEF Untouched, Clean
<1>5. FreshInv'
  <2>1. ASSUME NEW c \in Call, NEW i \in Ahead(c)'
        PROVE  Untouched(Plan[c][i])'
    <3>1. i \in Ahead(c) /\ Plan[c][i] \in Unit
      BY <1>2, <2>1, PlanIn DEF Ahead
    <3> QED BY <1>4, <3>1 DEF Inv, FreshInv
  <2> QED BY <2>1 DEF FreshInv
<1>6. DispatchInv'
  <2>1. ASSUME NEW c \in Call
        PROVE  DispatchAt(c)'
    <3>1. CASE call'[c] = "over"
      BY <3>1 DEF DispatchAt
    <3>2. CASE call'[c] = "admit"
      <4>1. call[c] = "admit" /\ nth[c] = 1
        BY <1>2, <3>2
      <4>2. Current(c)' = Current(c)
        BY <1>2, <4>1 DEF Current
      <4>3. Current(c) \notin dispatched
        BY <4>1 DEF Inv, DispatchInv, DispatchAt
      <4> QED BY <1>1, <3>2, <4>2, <4>3 DEF DispatchAt
    <3> QED BY <1>2, <3>1, <3>2
  <2> QED BY <2>1 DEF DispatchInv
<1>7. ASSUME NEW u \in Unit
      PROVE  UnitInv(u)'
  <2>1. StallInv(u)' /\ QueuedInv(u)'
    BY <1>1 DEF StallInv, QueuedInv, Finalizing, Thread
  <2>2. ClaimInv(u)'
    BY <1>1 DEF ClaimInv, Finalizes, Active
  <2>3. SpentInv(u)'
    BY <1>1, <1>3 DEF UnitInv, SpentInv, Owed, Row
  <2>4. RowInv(u)'
    BY <1>1 DEF RowInv, Active
  <2> QED BY <2>1, <2>2, <2>3, <2>4 DEF UnitInv
<1>8. SlotsBounded'
  <2>1. \A u \in Unit : rec'[u] \in Active => rec[u] \in Active /\ slot'[u] = slot[u]
    BY <1>1 DEF Active
  <2> QED BY <2>1, SlotsShrink DEF Inv
<1> QED BY <1>5, <1>6, <1>7, <1>8 DEF Inv

-----------------------------------------------------------------------------
(* The invariant *)

LEMMA InvInit == Init => Inv
<1> SUFFICES ASSUME Init PROVE Inv
  OBVIOUS
<1>1. TypeOK
  BY TypeInit
<1>2. \A u \in Unit : Untouched(u)
  BY DEF Init, Untouched, Clean, Thread
<1>3. FreshInv
  <2>1. ASSUME NEW c \in Call, NEW i \in Ahead(c)
        PROVE  Untouched(Plan[c][i])
    BY <1>2, <2>1, PlanIn DEF Ahead
  <2> QED BY <2>1 DEF FreshInv
<1>4. DispatchInv
  <2>1. \A c \in Call : call[c] \in {"over", "admit"}
    BY DEF Init
  <2> QED BY <2>1 DEF Init, DispatchInv, DispatchAt
<1>5. ASSUME NEW u \in Unit
      PROVE  UnitInv(u)
  <2>1. \A t \in Thread : pc[t] = "off"
    BY DEF Init
  <2>2. StallInv(u) /\ QueuedInv(u)
    BY <1>2, <2>1 DEF Init, StallInv, QueuedInv, Untouched, Finalizing, Thread
  <2>3. ClaimInv(u)
    BY <1>2, <2>1 DEF ClaimInv, Finalizes, Untouched
  <2>4. SpentInv(u)
    BY <1>2 DEF Init, SpentInv, Untouched, Clean
  <2>5. RowInv(u)
    BY <1>2 DEF RowInv, Untouched, Active
  <2> QED BY <2>2, <2>3, <2>4, <2>5 DEF UnitInv
<1>6. SlotsBounded
  <2>1. {slot[u] : u \in {v \in Unit : rec[v] \in Active}} = {}
    BY DEF Init, Active
  <2>2. Cardinality({slot[u] : u \in {v \in Unit : rec[v] \in Active}}) = 0
    BY <2>1, FS_EmptySet, Zenon
  <2> QED BY <2>2, DelegationAssumption DEF SlotsBounded
<1> QED BY <1>3, <1>4, <1>5, <1>6 DEF Inv

LEMMA InvStep ==
  ASSUME TypeOK, TypeOK', Inv, [Next]_vars
  PROVE  Inv'
<1>1. ASSUME NEW c \in Call, CallStep(c) \/ Admit(c) \/ Reject(c)
      PROVE  Inv'
  BY <1>1, CallStepInv, AdmitInv, RejectInv
<1>2. ASSUME NEW u \in Unit, WorkerStep(u) \/ RunnerReturns(u) \/ ConsumerStep(u)
      PROVE  Inv'
  BY <1>2, StartInv, FinalizeInv, RunnerReturnsInv, ConsumerInv DEF WorkerStep, Thread
<1>3. ASSUME NEW u \in Unit, GraceEnds(u) \/ GoesQuiet(u) \/ Progresses(u)
      PROVE  Inv'
  BY <1>3, QuietInv
<1>4. ASSUME MonitorStep
      PROVE  Inv'
  BY <1>4, SweepInv, TakeUpInv, PassEndsInv, FinalizeInv DEF MonitorStep, Thread
<1> QED BY <1>1, <1>2, <1>3, <1>4, RestartInv, StutterInv DEF Next, Environment

\* The invariant holds, with the types, in every reachable state.
THEOREM InvCorrect == Spec => [](TypeOK /\ Inv)
<1>1. Init => TypeOK /\ Inv
  BY TypeInit, InvInit
<1>2. TypeOK /\ Inv /\ [Next]_vars => (TypeOK /\ Inv)'
  BY TypeStep, InvStep
<1> QED BY <1>1, <1>2, PTL DEF Spec

-----------------------------------------------------------------------------
(* What it means *)

\* The invariant says all that is promised of units, events and slots.
LEMMA InvMeans ==
  TypeOK /\ Inv => PublishedOnce /\ Survives /\ SlotsBounded /\ QueuedRuns
<1> SUFFICES ASSUME TypeOK, Inv
             PROVE  PublishedOnce /\ Survives /\ SlotsBounded /\ QueuedRuns
  OBVIOUS
<1>1. PublishedOnce /\ PersistedFirst
  BY DEF Inv, UnitInv, SpentInv, PublishedOnce, PersistedFirst
<1>2. Survives
  <2>1. ASSUME NEW u \in dispatched, u \in Unit PROVE Owed(u)
    BY <2>1 DEF Inv, UnitInv, SpentInv
  <2>2. \A u \in Unit : row[u] \in Row /\ (row[u] = "delivered" => delivered[u] >= 1)
    BY DEF Inv, UnitInv, SpentInv, TypeOK
  <2> QED BY <1>1, <2>1, <2>2 DEF Survives, Owed, Row, TypeOK
<1>3. SlotsBounded
  BY DEF Inv
<1>4. QueuedRuns
  BY DEF Inv, UnitInv, QueuedInv, QueuedRuns
<1> QED BY <1>1, <1>2, <1>3, <1>4

\* A unit's completion event is published at most once while the program runs,
\* whichever of its worker and the monitor finalize it, and in whatever order.
THEOREM OneEventPerUnit == Spec => []PublishedOnce
BY InvMeans, InvCorrect, PTL

\* Until a conversation was given it or the cap deleted it, the outcome of an accepted
\* unit stays in the ledger, pending or dropped, over crashes at any point, failing
\* database calls and forced finalizations, and an event reaches the queue only after
\* its outcome has reached the ledger.
THEOREM OutcomesSurvive == Spec => []Survives
BY InvMeans, InvCorrect, PTL

\* max_async_children bounds the slots in use, however calls share them.
THEOREM SlotsStayBounded == Spec => []SlotsBounded
BY InvMeans, InvCorrect, PTL

-----------------------------------------------------------------------------
(* No record is left open *)

\* The thread that claimed u has not settled it.
Claimed(t, u) == pc[t] \in {"persist", "publish", "settle"} /\ Mine(t) = u
Dispatches(c, u) == call[c] \in {"persist", "pool", "submit"} /\ Current(c) = u

\* Only monitored units stall, and only published ones are settled.
StalledInv == \A u \in Unit : rec[u] = "stalling" => u \in Monitored
SettledInv == \A t \in Thread : pc[t] = "settle" => published[Mine(t)] = 1
AttendInv == StalledInv /\ SettledInv /\ RecordsAttended

\* Whoever is at u's record stays at it.
Attends(u) ==
  /\ rec'[u] \in {rec[u], "none"} /\ (rec[u] = "ended" => published'[u] = published[u])
  /\ rec[u] \in Active => \/ pc'[u] = pc[u]
                          \/ pc[u] \in {"queued", "running"} /\ pc'[u] \in {"running", "claim"}
  /\ \A c \in Call : Dispatches(c, u) => Dispatches(c, u)'
  /\ \A t \in Thread : Claimed(t, u) => Claimed(t, u)'
  /\ rec[u] = "stalling" /\ Watching => Watching'

LEMMA AttendsKeeps ==
  ASSUME NEW u \in Unit, Attended(u), Attends(u)
  PROVE  Attended(u)'
<1>1. rec'[u] = rec[u] \/ rec'[u] = "none"
  BY DEF Attends
<1>2. CASE rec'[u] = "none"
  BY <1>2 DEF Attended
<1>3. CASE rec'[u] = rec[u]
  <2>1. CASE rec[u] = "running"
    BY <1>3, <2>1 DEF Attended, Attends, Dispatches, Active
  <2>2. CASE rec[u] = "stalling"
    BY <1>3, <2>2 DEF Attended, Attends, Active
  <2>3. CASE rec[u] = "finalizing"
    BY <1>3, <2>3 DEF Attended, Attends, Claimed
  <2>4. CASE rec[u] = "ended"
    BY <1>3, <2>4 DEF Attended, Attends
  <2> QED BY <1>3, <2>1, <2>2, <2>3, <2>4 DEF Attended
<1> QED BY <1>1, <1>2, <1>3

LEMMA AttendsInv ==
  ASSUME TypeOK, AttendInv, failures' = failures, \A u \in Unit : Attends(u) \/ Attended(u)'
  PROVE  RecordsAttended'
<1>1. CASE failures > 0
  BY <1>1 DEF RecordsAttended
<1>2. CASE ~(failures > 0)
  BY <1>2, AttendsKeeps DEF AttendInv, RecordsAttended
<1> QED BY <1>1, <1>2

\* No call touches the threads that finalize, or the monitor, but to start it.
CallAttends(c) ==
  /\ failures' = failures /\ at' = at /\ anyLeft' = anyLeft /\ published' = published
  /\ \A d \in Call \ {c} : call'[d] = call[d] /\ nth'[d] = nth[d]
  /\ \A t \in Thread : pc[t] \in {"persist", "publish", "settle"} => pc'[t] = pc[t]
  /\ pc'[Monitor] = pc[Monitor] \/ (pc[Monitor] = "off" /\ pc'[Monitor] = "sweep")

LEMMA CallAttend ==
  ASSUME TypeOK, NEW c \in Call, CallAttends(c), NEW u \in Unit,
         rec'[u] = rec[u], pc'[u] = pc[u],
         Dispatches(c, u) => Dispatches(c, u)'
  PROVE  Attends(u)
<1>1. \A d \in Call \ {c} : Dispatches(d, u) => Dispatches(d, u)'
  BY DEF CallAttends, Dispatches, Current
<1>2. \A t \in Thread : Claimed(t, u) => Claimed(t, u)'
  BY DEF CallAttends, Claimed, Mine
<1>3. Watching => Watching'
  BY DEF CallAttends, Watching, Finalizing
<1> QED BY <1>1, <1>2, <1>3 DEF Attends, CallAttends

LEMMA AdmitAttends ==
  ASSUME TypeOK, TypeOK', AttendInv, NEW c \in Call, Admit(c)
  PROVE  RecordsAttended'
<1>1. /\ call[c] = "admit" /\ call' = [call EXCEPT ![c] = "persist"]
      /\ rec' = [rec EXCEPT ![Current(c)] = "running"]
      /\ UNCHANGED <<pc, nth, at, anyLeft, published, failures>>
  BY DEF Admit, monitor, events, faults
<1>2. CallAttends(c) /\ call'[c] = "persist" /\ ~Dispatches(c, Current(c))
  BY <1>1 DEF CallAttends, TypeOK, CallsOK, Dispatches
<1>3. ASSUME NEW u \in Unit
      PROVE  Attends(u) \/ Attended(u)'
  <2>1. CASE u = Current(c)
    <3>1. rec'[u] = "running" /\ Current(c)' = u
      BY <1>1, <2>1 DEF TypeOK, Current
    <3> QED BY <1>2, <3>1 DEF Attended
  <2>2. CASE u # Current(c)
    <3>1. rec'[u] = rec[u] /\ pc'[u] = pc[u]
      BY <1>1, <2>2 DEF TypeOK
    <3>2. ~Dispatches(c, u)
      BY <1>1 DEF Dispatches
    <3> QED BY <1>2, <3>1, <3>2, CallAttend
  <2> QED BY <2>1, <2>2
<1> QED BY <1>1, <1>3, AttendsInv

\* A call that has no record, or has handed it to a worker, goes on or ends.
LEMMA CallRestAttends ==
  ASSUME TypeOK, TypeOK', AttendInv, NEW c \in Call,
         Reject(c) \/ PersistDispatch(c) \/ GrowPool(c) \/ DeleteRow(c) \/ EnsureMonitor(c)
  PROVE  RecordsAttended'
<1>1. /\ UNCHANGED <<rec, at, anyLeft, published, failures>>
      /\ \/ pc' = pc
         \/ pc[Monitor] = "off" /\ pc' = [pc EXCEPT ![Monitor] = "sweep"]
  BY DEF Reject, PersistDispatch, GrowPool, DeleteRow, EnsureMonitor, Goto, records, monitor,
         events, faults, ledger
<1>2. /\ \A d \in Call \ {c} : call'[d] = call[d] /\ nth'[d] = nth[d]
      /\ call[c] \in {"persist", "pool", "submit"} =>
           call'[c] \in {"persist", "pool", "submit"} /\ nth' = nth
  <2>1. CASE PersistDispatch(c) \/ GrowPool(c)
    <3>1. nth' = nth /\ \E step \in {"pool", "submit"} : call' = [call EXCEPT ![c] = step]
      BY <2>1 DEF PersistDispatch, GrowPool
    <3>2. PICK step \in {"pool", "submit"} : call' = [call EXCEPT ![c] = step]
      BY <3>1
    <3>3. call'[c] = step /\ \A d \in Call \ {c} : call'[d] = call[d]
      BY <3>2 DEF TypeOK, CallsOK
    <3> QED BY <3>1, <3>3
  <2>2. CASE Reject(c) \/ DeleteRow(c)
    BY <2>2, RejectedMoves DEF Reject, DeleteRow
  <2>3. CASE EnsureMonitor(c)
    BY <2>3, NextMoves DEF EnsureMonitor
  <2> QED BY <2>1, <2>2, <2>3
<1>3. CallAttends(c)
  BY <1>1, <1>2 DEF CallAttends, TypeOK, Thread
<1>4. ASSUME NEW u \in Unit
      PROVE  Attends(u)
  <2>1. pc'[u] = pc[u]
    BY <1>1, DelegationAssumption DEF TypeOK, Thread
  <2>2. Dispatches(c, u) => Dispatches(c, u)'
    BY <1>2 DEF Dispatches, Current
  <2> QED BY <1>1, <1>3, <2>1, <2>2, CallAttend
<1> QED BY <1>1, <1>4, AttendsInv

LEMMA SubmitAttends ==
  ASSUME TypeOK, TypeOK', Inv, AttendInv, NEW c \in Call, Submit(c)
  PROVE  RecordsAttended'
<1>1. /\ call[c] = "submit" /\ call' = [call EXCEPT ![c] = "monitor"]
      /\ pc' = [pc EXCEPT ![Current(c)] = "queued"]
      /\ UNCHANGED <<rec, nth, at, anyLeft, published, failures>>
  BY DEF Submit, Goto, monitor, events, faults, records
<1>2. Current(c) \in Unit
  BY <1>1, CurrentIn
<1>3. rec[Current(c)] = "running" /\ pc[Current(c)] = "off"
  BY <1>1 DEF Inv, DispatchInv, DispatchAt
<1>4. \A t \in Thread \ {Current(c)} : pc'[t] = pc[t]
  BY <1>1 DEF TypeOK
<1>5. CallAttends(c)
  BY <1>1, <1>2, <1>3, <1>4, DelegationAssumption DEF CallAttends, Thread, TypeOK, CallsOK
<1>6. ASSUME NEW u \in Unit
      PROVE  Attends(u) \/ Attended(u)'
  <2>1. CASE u = Current(c)
    <3>1. rec'[u] = "running" /\ pc'[u] = "queued"
      BY <1>1, <1>2, <1>3, <2>1 DEF TypeOK, Thread
    <3> QED BY <3>1 DEF Attended
  <2>2. CASE u # Current(c)
    <3>1. rec'[u] = rec[u] /\ pc'[u] = pc[u]
      BY <1>1, <1>4, <2>2 DEF Thread
    <3> QED BY <1>5, <2>2, <3>1, CallAttend DEF Dispatches
  <2> QED BY <2>1, <2>2
<1> QED BY <1>1, <1>6, AttendsInv

\* A step of a thread that leaves every record but those it names to whoever is at it.
ThreadAttends(t) ==
  /\ call' = call /\ nth' = nth /\ failures' = failures /\ at' = at /\ anyLeft' = anyLeft
  /\ \A s \in Thread \ {t} : pc'[s] = pc[s]
  /\ t = Monitor => pc[Monitor] \in Finalizing /\ pc'[Monitor] \in {"act"} \cup Finalizing

LEMMA ThreadAttend ==
  ASSUME TypeOK, NEW t \in Thread, ThreadAttends(t), NEW u \in Unit,
         rec'[u] \in {rec[u], "none"}, published'[u] = published[u],
         t = u => \/ rec[u] \notin Active
                  \/ pc[u] \in {"queued", "running"} /\ pc'[u] \in {"running", "claim"},
         Claimed(t, u) => pc'[t] \in {"publish", "settle"}
  PROVE  Attends(u)
<1>1. \A c \in Call : Dispatches(c, u) => Dispatches(c, u)'
  BY DEF ThreadAttends, Dispatches, Current
<1>2. \A s \in Thread : Claimed(s, u) => Claimed(s, u)'
  BY DEF ThreadAttends, Claimed, Mine
<1>3. Watching => Watching'
  BY DEF ThreadAttends, Watching, Finalizing, Thread
<1>4. rec[u] \in Active => \/ pc'[u] = pc[u]
                           \/ pc[u] \in {"queued", "running"} /\ pc'[u] \in {"running", "claim"}
  BY DEF ThreadAttends, Thread
<1> QED BY <1>1, <1>2, <1>3, <1>4 DEF Attends

LEMMA RunAttends ==
  ASSUME TypeOK, TypeOK', AttendInv, NEW u \in Unit, Start(u) \/ RunnerReturns(u)
  PROVE  RecordsAttended'
<1>1. /\ UNCHANGED <<rec, call, nth, failures, at, anyLeft, published>>
      /\ \/ pc[u] = "queued" /\ pc' = [pc EXCEPT ![u] = "running"]
         \/ pc[u] = "running" /\ pc' = [pc EXCEPT ![u] = "claim"]
  BY DEF Start, RunnerReturns, Goto, callers, monitor, events, faults, records
<1>2. u \in Thread /\ u # Monitor
  BY DelegationAssumption DEF Thread
<1>3. ThreadAttends(u) /\ pc[u] \in {"queued", "running"} /\ pc'[u] \in {"running", "claim"}
  BY <1>1, <1>2 DEF ThreadAttends, TypeOK
<1>4. ASSUME NEW v \in Unit
      PROVE  Attends(v)
  BY <1>1, <1>2, <1>3, ThreadAttend DEF Claimed
<1> QED BY <1>1, <1>4, AttendsInv

LEMMA ClaimAttends ==
  ASSUME TypeOK, TypeOK', AttendInv, NEW t \in Thread, Claim(t)
  PROVE  RecordsAttended'
<1>1. PICK u \in Unit : u = Mine(t)
  BY MineIn
<1>2. /\ pc[t] = "claim"
      /\ \/ rec[u] \in Active /\ rec' = [rec EXCEPT ![u] = "finalizing"] /\ Goto(t, "persist")
         \/ rec[u] \notin Active /\ rec' = rec /\ Goto(t, Back(t))
      /\ UNCHANGED <<call, nth, failures, at, anyLeft, published>>
  BY <1>1 DEF Claim, callers, monitor, events, faults
<1>3. /\ \A s \in Thread \ {t} : pc'[s] = pc[s]
      /\ pc'[t] = "persist" \/ pc'[t] = Back(t)
  BY <1>2 DEF Goto, TypeOK
<1>4. ThreadAttends(t)
  BY <1>2, <1>3 DEF ThreadAttends, Finalizing, Back
<1>5. ASSUME NEW v \in Unit
      PROVE  Attends(v) \/ Attended(v)'
  <2>1. CASE v = u /\ rec[u] \in Active
    <3>1. rec'[u] = "finalizing" /\ pc'[t] = "persist" /\ Mine(t)' = u
      BY <1>1, <1>2, <2>1 DEF TypeOK, Goto, Mine, Active
    <3> QED BY <2>1, <3>1 DEF Attended
  <2>2. CASE ~(v = u /\ rec[u] \in Active)
    <3>1. rec'[v] = rec[v]
      BY <1>2, <2>2 DEF TypeOK
    <3>2. t = v => rec[v] \notin Active
      BY <1>1, <2>2, DelegationAssumption DEF Mine
    <3> QED BY <1>2, <1>4, <3>1, <3>2, ThreadAttend DEF Claimed
  <2> QED BY <2>1, <2>2
<1> QED BY <1>2, <1>5, AttendsInv

\* Only the thread that claimed a unit writes and publishes its outcome.
LEMMA HolderApart ==
  ASSUME TypeOK, Inv, NEW t \in Thread, pc[t] \in {"persist", "publish"}
  PROVE  rec[Mine(t)] \notin Active /\ published[Mine(t)] = 0
<1>1. Mine(t) \in Unit /\ Finalizes(t, Mine(t))
  BY MineIn DEF Finalizes
<1> QED BY <1>1 DEF Inv, UnitInv, ClaimInv, Clean

LEMMA WriteAttends ==
  ASSUME TypeOK, TypeOK', Inv, AttendInv, NEW t \in Thread, Persist(t) \/ Publish(t)
  PROVE  RecordsAttended'
<1>1. PICK u \in Unit : u = Mine(t)
  BY MineIn
<1>2. /\ UNCHANGED <<rec, call, nth, failures, at, anyLeft>>
      /\ \/ pc[t] = "persist" /\ Goto(t, "publish") /\ published' = published
         \/ pc[t] = "publish" /\ Goto(t, "settle") /\ published' = [published EXCEPT ![u] = @ + 1]
  BY <1>1 DEF Persist, Publish, callers, monitor, events, faults, records
<1>3. /\ \A s \in Thread \ {t} : pc'[s] = pc[s]
      /\ pc'[t] \in {"publish", "settle"}
  <2>1. Goto(t, "publish") \/ Goto(t, "settle")
    BY <1>2
  <2> QED BY <2>1 DEF Goto, TypeOK
<1>4. ThreadAttends(t)
  BY <1>2, <1>3 DEF ThreadAttends, Finalizing
<1>5. rec[u] \notin Active /\ published[u] = 0
  BY <1>1, <1>2, HolderApart
<1>6. CASE failures > 0
  BY <1>2, <1>6 DEF RecordsAttended
<1>7. CASE ~(failures > 0)
  <2>1. ASSUME NEW v \in Unit
        PROVE  Attends(v) \/ Attended(v)'
    <3>1. t = v => rec[v] \notin Active
      BY <1>1, <1>5, DelegationAssumption DEF Mine
    <3>2. CASE published'[v] = published[v]
      BY <1>2, <1>3, <1>4, <3>1, <3>2, ThreadAttend
    <3>3. CASE published'[v] # published[v]
      <4>1. v = u
        BY <1>2, <3>3 DEF TypeOK
      <4>2. Attended(u) /\ rec[u] # "ended"
        BY <1>5, <1>7 DEF AttendInv, RecordsAttended, Attended
      <4>3. rec[u] = "finalizing" => Claimed(t, u)'
        BY <1>1, <1>2, <1>3 DEF Claimed, Mine
      <4> QED BY <1>2, <1>5, <4>1, <4>2, <4>3 DEF Attended, Claimed, Active
    <3> QED BY <3>2, <3>3
  <2> QED BY <1>2, <2>1, AttendsInv
<1> QED BY <1>6, <1>7

LEMMA SettleAttends ==
  ASSUME TypeOK, TypeOK', Inv, AttendInv, NEW t \in Thread, Settle(t)
  PROVE  RecordsAttended'
<1>1. PICK u \in Unit : u = Mine(t)
  BY MineIn
<1>2. /\ pc[t] = "settle" /\ Goto(t, Back(t))
      /\ UNCHANGED <<call, nth, failures, at, anyLeft, published>>
  BY DEF Settle, callers, monitor, events, faults
<1>3. /\ rec'[u] \in {"ended", "none"}
      /\ \A v \in Unit \ {u} : rec'[v] \in {rec[v], "none"}
  <2> DEFINE recs == [rec EXCEPT ![u] = IF @ = "none" THEN "none" ELSE "ended"]
             completed == {v \in Unit : recs[v] \notin {"none", "running"}}
             over == Oldest(completed, Cardinality(completed) - MaxRetained)
  <2>1. rec' = [v \in Unit |-> IF v \in over THEN "none" ELSE recs[v]]
    BY <1>1 DEF Settle
  <2>2. recs[u] \in {"ended", "none"} /\ \A v \in Unit \ {u} : recs[v] = rec[v]
    BY DEF TypeOK
  <2> HIDE DEF recs, over, completed
  <2> QED BY <2>1, <2>2
<1>4. /\ \A s \in Thread \ {t} : pc'[s] = pc[s]
      /\ pc'[t] = Back(t)
  BY <1>2 DEF Goto, TypeOK
<1>5. ThreadAttends(t)
  BY <1>2, <1>4 DEF ThreadAttends, Finalizing, Back
<1>6. ASSUME NEW v \in Unit
      PROVE  Attends(v) \/ Attended(v)'
  <2>1. CASE v = u
    <3>1. published'[u] = 1
      BY <1>1, <1>2 DEF AttendInv, SettledInv
    <3> QED BY <1>3, <2>1, <3>1 DEF Attended
  <2>2. CASE v # u
    <3>1. t # v /\ ~Claimed(t, v)
      BY <1>1, <2>2, DelegationAssumption DEF Mine, Claimed
    <3> QED BY <1>2, <1>3, <1>5, <2>2, <3>1, ThreadAttend
  <2> QED BY <2>1, <2>2
<1> QED BY <1>2, <1>6, AttendsInv

\* What stalls has started and so has its worker, and the sweep has seen it.
LEMMA SweepAttends ==
  ASSUME TypeOK, TypeOK', Inv, AttendInv, Sweep
  PROVE  RecordsAttended'
<1>1. /\ pc[Monitor] = "sweep" /\ pc' = [pc EXCEPT ![Monitor] = "act"]
      /\ rec' = [u \in Unit |-> IF u \in Stalls THEN "stalling" ELSE rec[u]]
      /\ anyLeft' = Monitorable
      /\ UNCHANGED <<call, nth, failures, at, published>>
  BY DEF Sweep, Goto, callers, events, faults
<1>2. pc'[Monitor] = "act" /\ \A u \in Unit : pc'[u] = pc[u]
  BY <1>1, DelegationAssumption DEF TypeOK, Thread
<1>3. ASSUME NEW u \in Unit, rec'[u] = "stalling"
      PROVE  Watching'
  <2>1. rec[u] \in Active /\ u \in Monitored
    BY <1>1, <1>3 DEF Stalls, Active, AttendInv, StalledInv
  <2>2. Monitorable
    BY <2>1 DEF Monitorable
  <2> QED BY <1>1, <1>2, <2>2 DEF Watching
<1>4. CASE failures > 0
  BY <1>1, <1>4 DEF RecordsAttended
<1>5. CASE ~(failures > 0)
  <2>1. ASSUME NEW u \in Unit
        PROVE  Attended(u)'
    <3>1. Attended(u)
      BY <1>5 DEF AttendInv, RecordsAttended
    <3>2. CASE u \in Stalls
      <4>1. rec[u] = "running" /\ u \in started /\ rec'[u] = "stalling"
        BY <1>1, <3>2 DEF Stalls
      <4>2. pc[u] # "queued"
        BY <4>1 DEF Inv, UnitInv, QueuedInv
      <4>3. \A c \in Call : ~(call[c] \in {"persist", "pool", "submit"} /\ Current(c) = u)
        BY <4>1 DEF Inv, DispatchInv, DispatchAt
      <4>4. pc'[u] \in {"running", "claim"}
        BY <1>2, <3>1, <4>1, <4>2, <4>3 DEF Attended
      <4> QED BY <1>3, <4>1, <4>4 DEF Attended
    <3>3. CASE u \notin Stalls
      <4>1. rec'[u] = rec[u] /\ pc'[u] = pc[u]
        BY <1>1, <1>2, <3>3
      <4>2. rec[u] = "stalling" => Watching'
        BY <1>3, <4>1
      <4>3. \A c \in Call : Dispatches(c, u) => Dispatches(c, u)'
        BY <1>1 DEF Dispatches, Current
      <4>4. \A t \in Thread : Claimed(t, u) => Claimed(t, u)'
        BY <1>1, <1>2 DEF Claimed, Mine, Thread
      <4>5. Attends(u)
        BY <1>1, <4>1, <4>2, <4>3, <4>4 DEF Attends
      <4> QED BY <3>1, <4>5, AttendsKeeps
    <3> QED BY <3>2, <3>3
  <2> QED BY <2>1 DEF RecordsAttended
<1> QED BY <1>4, <1>5

\* The monitor goes on, or leaves what nothing stalls in.
LEMMA PassAttends ==
  ASSUME TypeOK, TypeOK', AttendInv, (\E u \in Unit : TakeUp(u)) \/ EndPass \/ Leave
  PROVE  RecordsAttended'
<1>1. /\ UNCHANGED <<rec, call, nth, failures, published, anyLeft>>
      /\ \/ pc[Monitor] = "act" /\ Goto(Monitor, "claim")
         \/ pc[Monitor] = "act" /\ Goto(Monitor, IF anyLeft THEN "sweep" ELSE "leave")
         \/ pc[Monitor] = "leave" /\ Goto(Monitor, "off")
  BY DEF TakeUp, EndPass, Leave, callers, monitor, events, faults, records
<1>2. PICK step \in {"claim", "sweep", "leave", "off"} :
        /\ Goto(Monitor, step)
        /\ pc[Monitor] \in {"act", "leave"}
        /\ Watching => step = "claim" \/ step = "sweep"
  BY <1>1 DEF Watching, Finalizing
<1>3. pc'[Monitor] = step /\ \A u \in Unit : pc'[u] = pc[u]
  BY <1>2, DelegationAssumption DEF Goto, TypeOK, Thread
<1>4. Watching => Watching'
  BY <1>1, <1>2, <1>3 DEF Watching, Finalizing
<1>5. ASSUME NEW u \in Unit
      PROVE  Attends(u)
  <2>1. \A c \in Call : Dispatches(c, u) => Dispatches(c, u)'
    BY <1>1 DEF Dispatches, Current
  <2>2. \A t \in Thread : Claimed(t, u) => Claimed(t, u)'
    BY <1>2, <1>3, DelegationAssumption DEF Claimed, Mine, Thread
  <2> QED BY <1>1, <1>3, <1>4, <2>1, <2>2 DEF Attends
<1> QED BY <1>1, <1>5, AttendsInv

LEMMA AsideAttends ==
  ASSUME TypeOK, TypeOK', AttendInv,
         UNCHANGED <<rec, call, nth, pc, at, anyLeft, published, failures>>
  PROVE  RecordsAttended'
<1>1. ASSUME NEW u \in Unit
      PROVE  Attends(u)
  BY DEF Attends, Dispatches, Current, Claimed, Mine, Watching
<1> QED BY <1>1, AttendsInv

\* The two facts about threads and records that the argument rests on.
LEMMA StalledStep ==
  ASSUME TypeOK, TypeOK', StalledInv, [Next]_vars
  PROVE  StalledInv'
<1>1. ASSUME NEW u \in Unit, rec'[u] = "stalling", rec[u] # "stalling"
      PROVE  u \in Monitored
  <2>1. CASE Sweep
    BY <1>1, <2>1 DEF Sweep, Stalls
  <2>2. ASSUME NEW c \in Call, CallStep(c) \/ Admit(c) \/ Reject(c) PROVE FALSE
    <3>1. rec' = rec \/ \E s \in {"running", "none"} : rec' = [rec EXCEPT ![Current(c)] = s]
      BY <2>2
      DEF CallStep, Admit, Reject, PersistDispatch, PersistDispatchFails, GrowPool, Submit,
          SubmitFails, DeleteRow, DeleteRowFails, EnsureMonitor, records
    <3> QED BY <1>1, <3>1 DEF TypeOK
  <2>3. ASSUME NEW t \in Thread, Finalize(t) PROVE FALSE
    <3>1. CASE Claim(t)
      BY <1>1, <3>1 DEF Claim, TypeOK
    <3>2. CASE Settle(t)
      <4> DEFINE recs == [rec EXCEPT ![Mine(t)] = IF @ = "none" THEN "none" ELSE "ended"]
                 completed == {v \in Unit : recs[v] \notin {"none", "running"}}
                 over == Oldest(completed, Cardinality(completed) - MaxRetained)
      <4>1. rec' = [v \in Unit |-> IF v \in over THEN "none" ELSE recs[v]]
        BY <3>2 DEF Settle
      <4>2. recs[u] \in {rec[u], "none", "ended"}
        BY DEF TypeOK
      <4> HIDE DEF recs, over, completed
      <4> QED BY <1>1, <4>1, <4>2
    <3> QED BY <1>1, <2>3, <3>1, <3>2 DEF Finalize, Persist, PersistFails, Publish, records
  <2>4. CASE Restart
    BY <1>1, <2>4 DEF Restart
  <2>5. ASSUME NEW v \in Unit,
               \/ Start(v) \/ GraceEnds(v) \/ RunnerReturns(v) \/ GoesQuiet(v) \/ Progresses(v)
               \/ ConsumerStep(v) \/ TakeUp(v)
        PROVE  FALSE
    BY <1>1, <2>5
    DEF Start, GraceEnds, RunnerReturns, GoesQuiet, Progresses, ConsumerStep, TakeEvent, HandOver, Acknowledge, PutBack, TakeUp, records
  <2>6. CASE EndPass \/ Leave \/ UNCHANGED vars
    BY <1>1, <2>6 DEF EndPass, Leave, vars, records
  <2> QED
    BY <2>1, <2>2, <2>3, <2>4, <2>5, <2>6
    DEF Next, WorkerStep, MonitorStep, Environment, Thread
<1> QED BY <1>1 DEF StalledInv

LEMMA SettledStep ==
  ASSUME TypeOK, TypeOK', Inv, SettledInv, [Next]_vars
  PROVE  SettledInv'
<1>1. ASSUME published' = published,
             \A t \in Thread : pc'[t] = "settle" => pc[t] = "settle" /\ Mine(t)' = Mine(t)
      PROVE  SettledInv'
  BY <1>1 DEF SettledInv
<1>2. ASSUME published' = published, at' = at, NEW t \in Thread, NEW step \in PCs \ {"settle"},
             Goto(t, step)
      PROVE  SettledInv'
  <2>1. \A s \in Thread : pc'[s] = "settle" => pc[s] = "settle"
    BY <1>2 DEF Goto, TypeOK
  <2> QED BY <1>1, <1>2, <2>1 DEF Mine
<1>3. ASSUME published' = published, at' = at, pc' = pc
      PROVE  SettledInv'
  BY <1>1, <1>3 DEF Mine
<1>4. ASSUME NEW c \in Call, CallStep(c) \/ Admit(c) \/ Reject(c)
      PROVE  SettledInv'
  <2>1. published' = published /\ at' = at
    BY <1>4
    DEF CallStep, Admit, Reject, PersistDispatch, PersistDispatchFails, GrowPool, Submit,
        SubmitFails, DeleteRow, DeleteRowFails, EnsureMonitor, monitor, events
  <2>2. \/ pc' = pc \/ (call[c] # "over" /\ Goto(Current(c), "queued"))
        \/ Goto(Monitor, "sweep")
    BY <1>4
    DEF CallStep, Admit, Reject, PersistDispatch, PersistDispatchFails, GrowPool, Submit,
        SubmitFails, DeleteRow, DeleteRowFails, EnsureMonitor
  <2>3. call[c] # "over" => Current(c) \in Thread
    BY CurrentIn DEF Thread
  <2> QED BY <1>2, <1>3, <2>1, <2>2, <2>3 DEF PCs, Thread
<1>5. ASSUME NEW t \in Thread, Publish(t)
      PROVE  SettledInv'
  <2>1. PICK u \in Unit : u = Mine(t) /\ published[u] = 0
    BY <1>5, MineIn, HolderApart DEF Publish
  <2>2. published' = [published EXCEPT ![u] = @ + 1] /\ at' = at /\ Goto(t, "settle")
    BY <1>5, <2>1 DEF Publish, monitor
  <2>3. published'[u] = 1 /\ \A v \in Unit \ {u} : published'[v] = published[v]
    BY <2>1, <2>2 DEF TypeOK
  <2>4. \A s \in Thread : Mine(s)' = Mine(s) /\ Mine(s) \in Unit
    BY <2>2, MineIn DEF Mine
  <2>5. \A s \in Thread : pc'[s] = "settle" => s = t \/ pc[s] = "settle"
    BY <2>2 DEF Goto, TypeOK
  <2> QED BY <2>1, <2>3, <2>4, <2>5 DEF SettledInv
<1>6. ASSUME NEW t \in Thread, Finalize(t)
      PROVE  SettledInv'
  <2>1. CASE ~Publish(t)
    <3>1. published' = published /\ at' = at
      BY <1>6, <2>1
      DEF Finalize, Claim, Persist, PersistFails, Settle, monitor, events
    <3>2. \E step \in {"persist", "publish", "off", "act"} : Goto(t, step)
      BY <1>6, <2>1 DEF Finalize, Claim, Persist, PersistFails, Settle, Back
    <3> QED BY <1>2, <3>1, <3>2 DEF PCs, Finalizing
  <2> QED BY <1>5, <2>1
<1>7. CASE Restart
  BY <1>7 DEF Restart, SettledInv
<1>8. ASSUME NEW u \in Unit,
             Start(u) \/ GraceEnds(u) \/ RunnerReturns(u) \/ GoesQuiet(u) \/ Progresses(u) \/ ConsumerStep(u)
      PROVE  SettledInv'
  <2>1. published' = published /\ at' = at
    BY <1>8
    DEF Start, GraceEnds, RunnerReturns, GoesQuiet, Progresses, ConsumerStep, TakeEvent, HandOver, Acknowledge, PutBack, monitor, events
  <2>2. pc' = pc \/ \E step \in {"running", "claim"} : Goto(u, step)
    BY <1>8 DEF Start, GraceEnds, RunnerReturns, GoesQuiet, Progresses, ConsumerStep, TakeEvent, HandOver, Acknowledge, PutBack
  <2> QED BY <1>2, <1>3, <2>1, <2>2 DEF PCs, Finalizing, Thread
<1>9. ASSUME NEW u \in Unit, TakeUp(u)
      PROVE  SettledInv'
  <2>1. pc[Monitor] = "act" /\ Goto(Monitor, "claim") /\ published' = published
    BY <1>9 DEF TakeUp, events
  <2>2. \A t \in Thread : pc'[t] = "settle" => pc[t] = "settle" /\ t # Monitor
    BY <2>1 DEF Goto, TypeOK
  <2> QED BY <1>1, <2>1, <2>2 DEF Mine
<1>10. CASE Sweep \/ EndPass \/ Leave
  <2>1. published' = published /\ at' = at
    BY <1>10 DEF Sweep, EndPass, Leave, monitor, events
  <2>2. \E step \in {"act", "sweep", "leave", "off"} : Goto(Monitor, step)
    BY <1>10 DEF Sweep, EndPass, Leave
  <2> QED BY <1>2, <2>1, <2>2 DEF PCs, Thread
<1>11. CASE UNCHANGED vars
  BY <1>3, <1>11 DEF vars, monitor, events
<1> QED
  BY <1>4, <1>6, <1>7, <1>8, <1>9, <1>10, <1>11
  DEF Next, WorkerStep, MonitorStep, Environment, Thread

LEMMA AttendInit == Init => AttendInv
BY DEF Init, AttendInv, StalledInv, SettledInv, RecordsAttended, Attended

LEMMA AttendStep ==
  ASSUME TypeOK, TypeOK', Inv, AttendInv, [Next]_vars
  PROVE  AttendInv'
<1>1. ASSUME NEW c \in Call, CallStep(c) \/ Admit(c) \/ Reject(c)
      PROVE  RecordsAttended'
  <2>1. CASE PersistDispatchFails(c) \/ SubmitFails(c) \/ DeleteRowFails(c)
    <3>1. failures' = failures + 1
      BY <2>1 DEF PersistDispatchFails, SubmitFails, DeleteRowFails
    <3> QED BY <3>1 DEF RecordsAttended, TypeOK
  <2> QED BY <1>1, <2>1, AdmitAttends, CallRestAttends, SubmitAttends DEF CallStep
<1>2. ASSUME NEW t \in Thread, Finalize(t)
      PROVE  RecordsAttended'
  <2>1. CASE PersistFails(t)
    <3>1. failures' = failures + 1
      BY <2>1 DEF PersistFails
    <3> QED BY <3>1 DEF RecordsAttended, TypeOK
  <2> QED BY <1>2, <2>1, ClaimAttends, WriteAttends, SettleAttends DEF Finalize
<1>3. ASSUME NEW u \in Unit, Start(u) \/ RunnerReturns(u)
      PROVE  RecordsAttended'
  BY <1>3, RunAttends
<1>4. ASSUME Sweep \/ (\E u \in Unit : TakeUp(u)) \/ EndPass \/ Leave
      PROVE  RecordsAttended'
  BY <1>4, SweepAttends, PassAttends
<1>5. ASSUME \/ \E u \in Unit : GraceEnds(u) \/ GoesQuiet(u) \/ Progresses(u) \/ ConsumerStep(u)
             \/ UNCHANGED vars
      PROVE  RecordsAttended'
  <2>1. UNCHANGED <<rec, call, nth, pc, at, anyLeft, published, failures>>
    BY <1>5
    DEF GraceEnds, GoesQuiet, Progresses, ConsumerStep, TakeEvent, HandOver, Acknowledge, PutBack, vars, records, callers, monitor, events, faults
  <2> QED BY <2>1, AsideAttends
<1>6. ASSUME Restart
      PROVE  RecordsAttended'
  BY <1>6 DEF Restart, RecordsAttended, Attended
<1>7. RecordsAttended'
  BY <1>1, <1>2, <1>3, <1>4, <1>5, <1>6 DEF Next, WorkerStep, MonitorStep, Environment, Thread
<1> QED BY <1>7, StalledStep, SettledStep DEF AttendInv

\* A record that is running, stalling or being finalized always has somebody who
\* will end it, and one that has ended has been reported, as long as no call raised.
THEOREM NoRecordLeftOpen == Spec => []RecordsAttended
<1>1. Init => AttendInv
  BY AttendInit
<1>2. (TypeOK /\ Inv) /\ (TypeOK /\ Inv)' /\ AttendInv /\ [Next]_vars => AttendInv'
  BY AttendStep
<1>3. AttendInv => RecordsAttended
  BY DEF AttendInv
<1> QED BY <1>1, <1>2, <1>3, InvCorrect, PTL DEF Spec

-----------------------------------------------------------------------------
(* The pool keeps up with the units *)

\* Units whose call has admitted and not submitted them; those of them whose call
\* counted more than n live units.
Coming == {u \in Unit : \E c \in Call : Dispatches(c, u)}
Above(n) == {u \in Unit : \E c \in Call : Dispatches(c, u) /\ live[c] > n}

\* The live units, and what any call on its way counted, are at most n.
Counted(n) ==
  LiveUnits <= n /\ \A c \in Call : call[c] \in {"persist", "pool", "submit"} => live[c] <= n

\* A pool that is too small is one nobody has submitted to.
SizedInv == pool < MaxAsync => backlog = <<>> /\ Busy = {}
\* A call has made the pool as large as it needs before it submits.
GrownInv == \A c \in Call : call[c] = "submit" => MaxAsync <= pool /\ live[c] <= pool
\* Every live unit beyond n made its call count more than n, and grow the pool.
AboveInv == \A n \in Nat : pool <= n => Counted(n + Cardinality(Above(n)))
\* When the threads cannot take all there is, the calls on their way add the rest.
ServedInv ==
  Len(backlog) + Cardinality(Busy) > threads =>
    pool <= threads + Cardinality(Coming) /\ Counted(threads + Cardinality(Coming))

Pooled == SizedInv /\ GrownInv /\ threads <= pool /\ AboveInv /\ ServedInv
PoolInv == failures > 0 \/ Pooled

LEMMA UnitSets ==
  ASSUME NEW S \in SUBSET Unit
  PROVE  /\ IsFiniteSet(S) /\ Cardinality(S) \in Nat
         /\ \A R \in SUBSET S : Cardinality(R) <= Cardinality(S)
<1>1. IsFiniteSet(S)
  BY DelegationAssumption, FS_Subset
<1>2. \A R \in SUBSET S : Cardinality(R) <= Cardinality(S)
  BY <1>1, FS_Subset
<1> QED BY <1>1, <1>2, FS_CardinalityType

LEMMA BusyComing ==
  /\ Busy \in SUBSET Unit /\ Coming \in SUBSET Unit
  /\ Cardinality(Busy) \in Nat /\ Cardinality(Coming) \in Nat
<1>1. Busy \in SUBSET Unit /\ Coming \in SUBSET Unit
  BY DEF Busy, Coming
<1> QED BY <1>1, UnitSets

LEMMA AboveSets ==
  \A n \in Nat : /\ Above(n) \in SUBSET Coming /\ Cardinality(Above(n)) \in Nat
                 /\ Cardinality(Above(n)) <= Cardinality(Coming)
<1>1. \A n \in Nat : Above(n) \in SUBSET Coming /\ Above(n) \in SUBSET Unit
  BY DEF Above, Coming
<1> QED BY <1>1, BusyComing, UnitSets

LEMMA CountedMore ==
  ASSUME TypeOK, NEW m \in Nat, NEW n \in Nat, m <= n, Counted(m)
  PROVE  Counted(n)
<1>1. LiveUnits \in Nat
  BY LiveUnitsType
<1> QED BY <1>1 DEF Counted, TypeOK

\* Steps that submit nothing and admit nothing.
Settles ==
  /\ pool' = pool /\ threads' = threads /\ backlog' = backlog /\ live' = live
  /\ \A c \in Call, u \in Unit : Dispatches(c, u)' <=> Dispatches(c, u)
  /\ \A c \in Call : call'[c] = "submit" => call[c] = "submit"
  /\ \A c \in Call : call'[c] \in {"persist", "pool", "submit"} => call[c] \in {"persist", "pool", "submit"}
  /\ \A u \in Unit : u \in Busy' => u \in Busy
  /\ \A u \in Unit : rec'[u] \in Live => rec[u] \in Live

LEMMA SettlesPooled ==
  ASSUME TypeOK, TypeOK', Pooled, Settles
  PROVE  Pooled'
<1>1. Coming' = Coming /\ \A n \in Nat : Above(n)' = Above(n)
  BY DEF Settles, Coming, Above
<1>2. Busy' \in SUBSET Busy /\ Cardinality(Busy') \in Nat /\ Cardinality(Busy') <= Cardinality(Busy)
  <2>1. Busy' \in SUBSET Busy
    BY DEF Settles, Busy
  <2> QED BY <2>1, BusyComing, UnitSets
<1>3. LiveUnits' <= LiveUnits
  <2>1. {u \in Unit : rec'[u] \in Live} \in SUBSET {u \in Unit : rec[u] \in Live}
    BY DEF Settles
  <2>2. {u \in Unit : rec[u] \in Live} \in SUBSET Unit
    OBVIOUS
  <2> QED BY <2>1, <2>2, UnitSets DEF LiveUnits
<1>4. LiveUnits \in Nat /\ LiveUnits' \in Nat
  <2>1. {u \in Unit : rec'[u] \in Live} \in SUBSET Unit
    OBVIOUS
  <2> QED BY <2>1, UnitSets, LiveUnitsType DEF LiveUnits
<1>5. ASSUME NEW n \in Nat, Counted(n)
      PROVE  Counted(n)'
  BY <1>3, <1>4, <1>5 DEF Counted, Settles
<1>6. SizedInv'
  BY <1>2 DEF Pooled, SizedInv, Settles
<1>7. GrownInv' /\ (threads <= pool)'
  BY DEF Pooled, GrownInv, Settles
<1>8. AboveInv'
  BY <1>1, <1>5, AboveSets DEF Pooled, AboveInv, Settles
<1>9. ServedInv'
  <2>1. Len(backlog) \in Nat /\ threads \in Nat
    BY DEF TypeOK
  <2>2. ASSUME Len(backlog)' + Cardinality(Busy)' > threads'
        PROVE  /\ pool' <= threads' + Cardinality(Coming)'
               /\ Counted(threads + Cardinality(Coming))'
    <3>1. Len(backlog) + Cardinality(Busy) > threads
      BY <1>2, <2>1, <2>2, BusyComing DEF Settles
    <3>2. pool <= threads + Cardinality(Coming) /\ Counted(threads + Cardinality(Coming))
      BY <3>1 DEF Pooled, ServedInv
    <3>3. threads + Cardinality(Coming) \in Nat
      BY <2>1, BusyComing
    <3> QED BY <1>1, <1>5, <3>2, <3>3 DEF Settles
  <2> QED BY <2>2 DEF ServedInv
<1> QED BY <1>6, <1>7, <1>8, <1>9 DEF Pooled

\* The unit of a call that is about to be admitted is new, and nobody's.
LEMMA AdmitPooled ==
  ASSUME TypeOK, TypeOK', Inv, Pooled, NEW c \in Call, Admit(c)
  PROVE  Pooled'
<1>1. /\ call[c] = "admit" /\ call' = [call EXCEPT ![c] = "persist"]
      /\ rec' = [rec EXCEPT ![Current(c)] = "running"]
      /\ live' = [live EXCEPT ![c] = LiveUnits + 1]
      /\ UNCHANGED <<pool, threads, backlog, pc, nth, failures>>
  BY DEF Admit, executor, faults
<1>2. PICK u \in Unit : u = Current(c)
  BY <1>1, CurrentIn
<1>3. rec[u] = "none"
  <2>1. nth[c] \in Ahead(c)
    BY <1>1, CurrentIn DEF Ahead
  <2> QED BY <1>2, <2>1 DEF Inv, FreshInv, Untouched, Current
<1>4. \A d \in Call \ {c} : /\ call'[d] = call[d] /\ live'[d] = live[d]
                            /\ Current(d)' = Current(d)
  BY <1>1 DEF TypeOK, CallsOK, Current
<1>5. call'[c] = "persist" /\ live'[c] = LiveUnits + 1 /\ Current(c)' = u
  BY <1>1, <1>2 DEF TypeOK, CallsOK, Current
<1>6. \A d \in Call : ~Dispatches(d, u)
  BY <1>1, <1>2, CurrentApart DEF Dispatches
<1>7. LiveUnits \in Nat /\ LiveUnits' = LiveUnits + 1
  <2> DEFINE S == {v \in Unit : rec[v] \in Live}
  <2>1. {v \in Unit : rec'[v] \in Live} = S \cup {u} /\ u \notin S
    <3>1. rec'[u] = "running" /\ \A v \in Unit \ {u} : rec'[v] = rec[v]
      BY <1>1, <1>2 DEF TypeOK
    <3>2. "running" \in Live /\ "none" \notin Live
      BY DEF Live, Active
    <3> QED BY <1>3, <3>1, <3>2
  <2>2. IsFiniteSet(S) /\ S \in SUBSET Unit
    <3>1. S \in SUBSET Unit
      OBVIOUS
    <3> QED BY <3>1, UnitSets
  <2> HIDE DEF S
  <2>3. Cardinality(S \cup {u}) = Cardinality(S) + 1
    BY <2>1, <2>2, FS_AddElement
  <2> QED BY <2>1, <2>3, LiveUnitsType DEF LiveUnits, S
<1>8. /\ Coming' = Coming \cup {u} /\ u \notin Coming
      /\ Cardinality(Coming') = Cardinality(Coming) + 1
  <2>1. Coming' = Coming \cup {u} /\ u \notin Coming
    BY <1>1, <1>4, <1>5, <1>6 DEF Coming, Dispatches
  <2>2. IsFiniteSet(Coming)
    BY BusyComing, UnitSets
  <2> QED BY <2>1, <2>2, FS_AddElement
<1>9. \A n \in Nat : /\ LiveUnits + 1 <= n => Above(n)' = Above(n)
                     /\ LiveUnits + 1 > n => Cardinality(Above(n)') = Cardinality(Above(n)) + 1
  <2> TAKE n \in Nat
  <2>1. Above(n)' = IF LiveUnits + 1 > n THEN Above(n) \cup {u} ELSE Above(n)
    BY <1>1, <1>4, <1>5, <1>6 DEF Above, Dispatches
  <2>2. u \notin Above(n) /\ IsFiniteSet(Above(n))
    BY <1>6, UnitSets, AboveSets DEF Above
  <2>3. Cardinality(Above(n) \cup {u}) = Cardinality(Above(n)) + 1
    BY <2>2, FS_AddElement
  <2> QED BY <1>7, <2>1, <2>3
<1>10. ASSUME NEW m \in Nat, Counted(m)
       PROVE  /\ LiveUnits + 1 <= m => Counted(m)'
              /\ Counted(m + 1)'
  <2>1. \A d \in Call \ {c} : call'[d] \in {"persist", "pool", "submit"} => live'[d] \in Nat /\ live'[d] <= m
    BY <1>4, <1>10 DEF Counted, TypeOK
  <2>2. LiveUnits <= m
    BY <1>10 DEF Counted
  <2> QED BY <1>5, <1>7, <2>1, <2>2 DEF Counted
<1>11. SizedInv' /\ GrownInv' /\ (threads <= pool)'
  BY <1>1, <1>4, <1>5 DEF Pooled, SizedInv, GrownInv, Busy
<1>12. AboveInv'
  <2>1. ASSUME NEW n \in Nat, pool <= n
        PROVE  Counted(n + Cardinality(Above(n)))'
    <3>1. PICK m \in Nat : m = n + Cardinality(Above(n))
      BY AboveSets
    <3>2. Counted(m) /\ Cardinality(Above(n)) \in Nat
      BY <2>1, <3>1, AboveSets DEF Pooled, AboveInv
    <3>3. CASE LiveUnits + 1 <= n
      <4>1. n + Cardinality(Above(n)') = m /\ LiveUnits + 1 <= m
        BY <1>7, <1>9, <3>1, <3>2, <3>3
      <4> QED BY <1>10, <3>2, <4>1
    <3>4. CASE LiveUnits + 1 > n
      <4>1. n + Cardinality(Above(n)') = m + 1
        BY <1>9, <3>1, <3>2, <3>4
      <4>2. Counted(m + 1)'
        BY <1>10, <3>2
      <4> QED BY <4>1, <4>2
    <3> QED BY <1>7, <3>3, <3>4
  <2> QED BY <1>1, <2>1 DEF AboveInv
<1>13. ServedInv'
  <2>1. ASSUME Len(backlog)' + Cardinality(Busy)' > threads'
        PROVE  /\ pool' <= threads' + Cardinality(Coming)'
               /\ Counted(threads + Cardinality(Coming))'
    <3>1. PICK m \in Nat : m = threads + Cardinality(Coming)
      BY BusyComing DEF TypeOK
    <3>2. pool <= m /\ Counted(m)
      BY <1>1, <2>1, <3>1 DEF Pooled, ServedInv, Busy
    <3>3. threads' + Cardinality(Coming)' = m + 1
      BY <1>1, <1>8, <3>1, BusyComing DEF TypeOK
    <3>4. Counted(m + 1)'
      BY <1>10, <3>2
    <3>5. pool' <= m + 1
      BY <1>1, <3>2 DEF TypeOK
    <3> QED BY <3>3, <3>4, <3>5
  <2> QED BY <2>1 DEF ServedInv
<1> QED BY <1>11, <1>12, <1>13 DEF Pooled

LEMMA GrowPooled ==
  ASSUME TypeOK, TypeOK', Inv, Pooled, NEW c \in Call, GrowPool(c)
  PROVE  Pooled'
<1>1. /\ call[c] = "pool" /\ call' = [call EXCEPT ![c] = "submit"]
      /\ pool' = Larger(pool, Larger(MaxAsync, live[c]))
      /\ UNCHANGED <<rec, threads, backlog, pc, nth, live>>
  BY DEF GrowPool, records
<1>2. pool \in Nat /\ pool' \in Nat /\ live[c] \in Nat /\ MaxAsync \in Nat /\ threads \in Nat
  BY DelegationAssumption DEF TypeOK
<1>3. pool' >= pool /\ pool' >= MaxAsync /\ pool' >= live[c]
  BY <1>1, <1>2 DEF Larger
<1>4. /\ call'[c] = "submit" /\ \A d \in Call \ {c} : call'[d] = call[d]
      /\ \A d \in Call : Current(d)' = Current(d)
  BY <1>1 DEF TypeOK, CallsOK, Current
<1>5. \A d \in Call : /\ \A u \in Unit : Dispatches(d, u)' <=> Dispatches(d, u)
                      /\ call'[d] \in {"persist", "pool", "submit"} => call[d] \in {"persist", "pool", "submit"}
  BY <1>1, <1>4 DEF Dispatches
<1>6. Coming' = Coming /\ Busy' = Busy /\ \A n \in Nat : Above(n)' = Above(n)
  BY <1>1, <1>5 DEF Coming, Busy, Above
<1>7. \A m \in Nat : Counted(m) => Counted(m)'
  BY <1>1, <1>5 DEF Counted, LiveUnits
<1>8. SizedInv'
  BY <1>2, <1>3, DelegationAssumption DEF SizedInv
<1>9. GrownInv' /\ (threads <= pool)'
  <2>1. ASSUME NEW d \in Call, call'[d] = "submit"
        PROVE  MaxAsync <= pool' /\ live'[d] <= pool'
    <3>1. CASE d = c
      BY <1>1, <1>3, <3>1
    <3>2. CASE d # c
      <4>1. live[d] \in Nat /\ live[d] <= pool
        BY <1>4, <2>1, <3>2 DEF Pooled, GrownInv, TypeOK
      <4> QED BY <1>1, <1>2, <1>3, <4>1
    <3> QED BY <3>1, <3>2
  <2> QED BY <1>1, <1>2, <1>3, <2>1 DEF Pooled, GrownInv
<1>10. AboveInv'
  <2>1. ASSUME NEW n \in Nat, pool' <= n
        PROVE  Counted(n + Cardinality(Above(n)))'
    <3>1. PICK m \in Nat : m = n + Cardinality(Above(n))
      BY AboveSets
    <3>2. Counted(m)
      BY <1>2, <1>3, <2>1, <3>1 DEF Pooled, AboveInv
    <3>3. n + Cardinality(Above(n)') = m
      BY <1>6, <3>1
    <3> QED BY <1>7, <3>2, <3>3
  <2> QED BY <2>1 DEF AboveInv
<1>11. ServedInv'
  <2>1. ASSUME Len(backlog)' + Cardinality(Busy)' > threads'
        PROVE  /\ pool' <= threads' + Cardinality(Coming)'
               /\ Counted(threads + Cardinality(Coming))'
    <3>1. pool <= threads + Cardinality(Coming) /\ Counted(threads + Cardinality(Coming))
      BY <1>1, <1>6, <2>1 DEF Pooled, ServedInv
    <3>2. threads + Cardinality(Coming) \in Nat
      BY <1>2, BusyComing
    <3>3. MaxAsync <= pool
      <4>1. Len(backlog) + Cardinality(Busy) > 0
        <5>1. Len(backlog) \in Nat /\ Cardinality(Busy) \in Nat
          BY BusyComing DEF TypeOK
        <5>2. Len(backlog) + Cardinality(Busy) > threads
          BY <1>1, <1>6, <2>1
        <5> QED BY <1>2, <5>1, <5>2
      <4>2. ~(backlog = <<>> /\ Busy = {})
        BY <4>1, FS_EmptySet
      <4> QED BY <1>2, <4>2 DEF Pooled, SizedInv
    <3>4. live[c] <= threads + Cardinality(Coming)
      BY <1>1, <3>1 DEF Counted
    <3>5. pool' <= threads + Cardinality(Coming)
      BY <1>1, <1>2, <3>1, <3>2, <3>3, <3>4 DEF Larger
    <3>6. PICK m \in Nat : m = threads + Cardinality(Coming)
      BY <3>2
    <3>7. Counted(m)'
      BY <1>7, <3>1, <3>6
    <3> QED BY <1>1, <1>6, <3>5, <3>6, <3>7
  <2> QED BY <2>1 DEF ServedInv
<1> QED BY <1>8, <1>9, <1>10, <1>11 DEF Pooled

LEMMA SubmitPooled ==
  ASSUME TypeOK, TypeOK', Inv, Pooled, NEW c \in Call, Submit(c)
  PROVE  Pooled'
<1>1. /\ call[c] = "submit" /\ call' = [call EXCEPT ![c] = "monitor"]
      /\ backlog' = Append(backlog, Current(c))
      /\ threads' = IF NeedsThread THEN threads + 1 ELSE threads
      /\ pc' = [pc EXCEPT ![Current(c)] = "queued"]
      /\ UNCHANGED <<rec, pool, nth, live>>
  BY DEF Submit, Goto, records
<1>2. PICK u \in Unit : u = Current(c)
  BY <1>1, CurrentIn
<1>3. pool \in Nat /\ threads \in Nat /\ Len(backlog) \in Nat /\ Cardinality(Busy) \in Nat
  BY BusyComing DEF TypeOK
<1>4. Len(backlog') = Len(backlog) + 1
  BY <1>1, <1>2 DEF TypeOK
<1>5. Busy' = Busy
  <2>1. pc[u] = "off"
    BY <1>1, <1>2 DEF Inv, DispatchInv, DispatchAt
  <2>2. pc'[u] = "queued" /\ \A v \in Unit \ {u} : pc'[v] = pc[v]
    BY <1>1, <1>2 DEF TypeOK, Thread
  <2>3. \A v \in Unit : v \in Busy' <=> v \in Busy
    BY <2>1, <2>2 DEF Busy, Finalizing
  <2> QED BY <2>3 DEF Busy
<1>6. /\ call'[c] = "monitor" /\ \A d \in Call \ {c} : call'[d] = call[d]
      /\ \A d \in Call : Current(d)' = Current(d)
  BY <1>1 DEF TypeOK, CallsOK, Current
<1>7. \A d \in Call : Dispatches(d, u) => d = c
  BY <1>1, <1>2, CurrentApart DEF Dispatches
<1>8. /\ Coming' = Coming \ {u} /\ u \in Coming
      /\ Cardinality(Coming)' = Cardinality(Coming) - 1
  <2>1. Coming' = Coming \ {u} /\ u \in Coming
    BY <1>1, <1>2, <1>6, <1>7 DEF Coming, Dispatches
  <2>2. IsFiniteSet(Coming)
    BY BusyComing, UnitSets
  <2> QED BY <2>1, <2>2, FS_RemoveElement
<1>9. ASSUME NEW n \in Nat, pool <= n
      PROVE  Above(n)' = Above(n) /\ Above(n) \in SUBSET (Coming \ {u})
  <2>1. live[c] <= n
    <3>1. live[c] <= pool /\ live[c] \in Nat
      BY <1>1 DEF Pooled, GrownInv, TypeOK
    <3> QED BY <1>3, <1>9, <3>1
  <2>2. ~(live[c] > n)
    <3>1. live[c] \in Nat
      BY DEF TypeOK
    <3> QED BY <2>1, <3>1
  <2>3. Above(n)' = Above(n)
    BY <1>1, <1>2, <1>6, <2>2 DEF Above, Dispatches
  <2>4. u \notin Above(n)
    BY <1>7, <2>2 DEF Above
  <2> QED BY <1>9, <2>3, <2>4, AboveSets
<1>10. ASSUME NEW m \in Nat, Counted(m)
       PROVE  Counted(m)'
  BY <1>1, <1>6, <1>10 DEF Counted, LiveUnits
<1>11. SizedInv'
  <2>1. MaxAsync <= pool
    BY <1>1 DEF Pooled, GrownInv
  <2> QED BY <1>1, <1>3, <2>1, DelegationAssumption DEF SizedInv
<1>12. GrownInv'
  BY <1>1, <1>6 DEF Pooled, GrownInv
<1>13. (threads <= pool)'
  BY <1>1, <1>3 DEF Pooled, NeedsThread
<1>14. AboveInv'
  <2>1. ASSUME NEW n \in Nat, pool <= n
        PROVE  Counted(n + Cardinality(Above(n)))'
    <3>1. PICK m \in Nat : m = n + Cardinality(Above(n))
      BY AboveSets
    <3>2. Counted(m)
      BY <2>1, <3>1 DEF Pooled, AboveInv
    <3>3. n + Cardinality(Above(n)') = m
      BY <1>9, <2>1, <3>1
    <3> QED BY <1>10, <3>2, <3>3
  <2> QED BY <1>1, <2>1 DEF AboveInv
<1>15. ServedInv'
  <2>1. ASSUME Len(backlog)' + Cardinality(Busy)' > threads'
        PROVE  /\ pool' <= threads' + Cardinality(Coming)'
               /\ Counted(threads + Cardinality(Coming))'
    <3>1. CASE NeedsThread
      <4>1. PICK m \in Nat : m = threads + Cardinality(Coming)
        BY <1>3, BusyComing
      <4>2. threads' = threads + 1
        BY <1>1, <3>1
      <4>3. Len(backlog) + Cardinality(Busy) > threads
        BY <1>3, <1>4, <1>5, <2>1, <4>2
      <4>4. pool <= m /\ Counted(m)
        BY <4>1, <4>3 DEF Pooled, ServedInv
      <4>5. threads' + Cardinality(Coming)' = m
        BY <1>3, <1>8, <4>1, <4>2, BusyComing
      <4> QED BY <1>1, <1>10, <4>4, <4>5
    <3>2. CASE ~NeedsThread /\ threads = pool
      <4>1. PICK m \in Nat : m = pool + Cardinality(Above(pool))
        BY <1>3, AboveSets
      <4>2. Counted(m)
        BY <1>3, <4>1 DEF Pooled, AboveInv
      <4>3. Cardinality(Above(pool)) <= Cardinality(Coming)'
        <5>1. Coming \ {u} \in SUBSET Unit
          BY BusyComing
        <5>2. Above(pool) \in SUBSET (Coming \ {u})
          BY <1>3, <1>9
        <5> QED BY <1>8, <5>1, <5>2, UnitSets
      <4>4. PICK k \in Nat : k = threads' + Cardinality(Coming)'
        BY <1>1, <1>3, <1>8, <3>2, UnitSets, BusyComing
      <4>5. m <= k /\ pool <= k
        <5>1. Cardinality(Coming)' \in Nat /\ Cardinality(Above(pool)) \in Nat
          BY <1>3, <1>8, BusyComing, AboveSets, UnitSets
        <5> QED BY <1>1, <1>3, <3>2, <4>1, <4>3, <4>4, <5>1
      <4>6. Counted(k)
        BY <4>2, <4>5, CountedMore
      <4> QED BY <1>1, <1>10, <4>4, <4>5, <4>6
    <3>3. CASE ~NeedsThread /\ threads # pool
      <4>1. threads' = threads /\ threads - Cardinality(Busy) > Len(backlog)
        BY <1>1, <1>3, <3>3 DEF NeedsThread
      <4>2. Len(backlog') + Cardinality(Busy') <= threads'
        BY <1>3, <1>4, <1>5, <4>1
      <4> QED BY <1>3, <1>4, <1>5, <2>1, <4>1, <4>2
    <3> QED BY <3>1, <3>2, <3>3
  <2> QED BY <2>1 DEF ServedInv
<1> QED BY <1>11, <1>12, <1>13, <1>14, <1>15 DEF Pooled

\* What waits and what runs are as many as before.
LEMMA StartPooled ==
  ASSUME TypeOK, TypeOK', Pooled, NEW u \in Unit, Start(u)
  PROVE  Pooled'
<1>1. /\ pc[u] = "queued" /\ pc' = [pc EXCEPT ![u] = "running"]
      /\ backlog # <<>> /\ backlog' = Tail(backlog)
      /\ UNCHANGED <<rec, call, pool, threads, nth, live>>
  BY DEF Start, Goto, callers
<1>2. Coming' = Coming /\ \A n \in Nat : Above(n)' = Above(n)
  BY <1>1 DEF Coming, Above, Dispatches, Current
<1>3. \A m \in Nat : Counted(m) => Counted(m)'
  BY <1>1 DEF Counted, LiveUnits
<1>4. Cardinality(Busy') = Cardinality(Busy) + 1
  <2>1. pc'[u] = "running" /\ \A v \in Unit \ {u} : pc'[v] = pc[v]
    BY <1>1 DEF TypeOK, Thread
  <2>2. Busy' = Busy \cup {u} /\ u \notin Busy
    BY <1>1, <2>1 DEF Busy, Finalizing
  <2>3. IsFiniteSet(Busy)
    BY BusyComing, UnitSets
  <2> QED BY <2>2, <2>3, FS_AddElement
<1>5. Len(backlog) \in Nat /\ Len(backlog') = Len(backlog) - 1
  <2>1. backlog \in Seq(Unit) /\ Len(backlog) # 0
    BY <1>1 DEF TypeOK
  <2> QED BY <1>1, <2>1
<1>6. SizedInv'
  BY <1>1 DEF Pooled, SizedInv
<1>7. GrownInv' /\ (threads <= pool)'
  BY <1>1 DEF Pooled, GrownInv
<1>8. AboveInv'
  <2>1. ASSUME NEW n \in Nat, pool <= n
        PROVE  Counted(n + Cardinality(Above(n)))'
    <3>1. PICK m \in Nat : m = n + Cardinality(Above(n))
      BY AboveSets
    <3>2. Counted(m)
      BY <2>1, <3>1 DEF Pooled, AboveInv
    <3>3. n + Cardinality(Above(n)') = m
      BY <1>2, <3>1
    <3> QED BY <1>3, <3>2, <3>3
  <2> QED BY <1>1, <2>1 DEF AboveInv
<1>9. ServedInv'
  <2>1. ASSUME Len(backlog)' + Cardinality(Busy)' > threads'
        PROVE  /\ pool' <= threads' + Cardinality(Coming)'
               /\ Counted(threads + Cardinality(Coming))'
    <3>1. Len(backlog) + Cardinality(Busy) > threads
      BY <1>1, <1>4, <1>5, <2>1, BusyComing
    <3>2. PICK m \in Nat : m = threads + Cardinality(Coming)
      BY BusyComing DEF TypeOK
    <3>3. pool <= m /\ Counted(m)
      BY <3>1, <3>2 DEF Pooled, ServedInv
    <3> QED BY <1>1, <1>2, <1>3, <3>2, <3>3
  <2> QED BY <2>1 DEF ServedInv
<1> QED BY <1>6, <1>7, <1>8, <1>9 DEF Pooled

\* At the start of the program.
Empty ==
  /\ pool = 0 /\ threads = 0 /\ backlog = <<>> /\ Busy = {} /\ LiveUnits = 0
  /\ \A c \in Call : call[c] \notin {"persist", "pool", "submit"}

LEMMA EmptyPooled == Empty => Pooled
<1> SUFFICES ASSUME Empty PROVE Pooled
  OBVIOUS
<1>1. SizedInv /\ GrownInv /\ threads <= pool
  BY DEF Empty, SizedInv, GrownInv
<1>2. AboveInv
  <2>1. \A n \in Nat : n + Cardinality(Above(n)) \in Nat
    BY AboveSets
  <2>2. \A m \in Nat : Counted(m)
    BY DEF Empty, Counted
  <2> QED BY <2>1, <2>2 DEF AboveInv
<1>3. Len(backlog) + Cardinality(Busy) = 0
  BY FS_EmptySet DEF Empty
<1> QED BY <1>1, <1>2, <1>3 DEF Empty, Pooled, ServedInv

\* A call that has nothing to submit, or does not submit it yet.
LEMMA CallSettles ==
  ASSUME TypeOK, TypeOK', NEW c \in Call,
         Reject(c) \/ PersistDispatch(c) \/ DeleteRow(c) \/ EnsureMonitor(c)
  PROVE  Settles
<1>1. /\ UNCHANGED <<rec, executor, live>>
      /\ pc' = pc \/ pc' = [pc EXCEPT ![Monitor] = "sweep"]
  BY DEF Reject, PersistDispatch, DeleteRow, EnsureMonitor, Goto, records, ledger
<1>2. /\ \A d \in Call \ {c} : call'[d] = call[d] /\ nth'[d] = nth[d]
      /\ \/ call[c] = "persist" /\ call'[c] = "pool" /\ nth' = nth
         \/ /\ call[c] \notin {"persist", "pool", "submit"}
            /\ call'[c] \notin {"persist", "pool", "submit"}
  <2>1. CASE PersistDispatch(c)
    <3>1. call[c] = "persist" /\ call' = [call EXCEPT ![c] = "pool"] /\ nth' = nth
      BY <2>1 DEF PersistDispatch
    <3> QED BY <3>1 DEF TypeOK, CallsOK
  <2>2. ASSUME call[c] \in {"admit", "unrow", "monitor"}, NextUnit(c)
        PROVE  /\ \A d \in Call \ {c} : call'[d] = call[d] /\ nth'[d] = nth[d]
               /\ call'[c] \in {"admit", "over"}
    BY <2>2 DEF NextUnit, TypeOK, CallsOK
  <2>3. ASSUME call[c] \in {"admit", "unrow", "monitor"}, Rejected(c)
        PROVE  /\ \A d \in Call \ {c} : call'[d] = call[d] /\ nth'[d] = nth[d]
               /\ call'[c] \in {"admit", "over"}
    BY <2>2, <2>3 DEF Rejected, TypeOK, CallsOK
  <2>4. \/ call[c] \in {"admit", "unrow", "monitor"} /\ (NextUnit(c) \/ Rejected(c))
       \/ PersistDispatch(c)
    BY DEF Reject, DeleteRow, EnsureMonitor
  <2>5. CASE call[c] \in {"admit", "unrow", "monitor"} /\ (NextUnit(c) \/ Rejected(c))
    BY <2>2, <2>3, <2>5
  <2> QED BY <2>1, <2>4, <2>5
<1>3. \A d \in Call : /\ \A u \in Unit : Dispatches(d, u)' <=> Dispatches(d, u)
                      /\ call'[d] = "submit" => call[d] = "submit"
                      /\ call'[d] \in {"persist", "pool", "submit"} => call[d] \in {"persist", "pool", "submit"}
  BY <1>2 DEF Dispatches, Current
<1>4. \A u \in Unit : pc'[u] = pc[u]
  BY <1>1, DelegationAssumption DEF TypeOK, Thread
<1> QED BY <1>1, <1>3, <1>4 DEF Settles, executor, Busy

\* A thread that does not take up another unit.
LEMMA ThreadSettles ==
  ASSUME TypeOK, UNCHANGED <<call, nth, live, executor>>,
         \A u \in Unit : rec'[u] \in Live => rec[u] \in Live,
         \/ pc' = pc
         \/ \E step \in PCs \ ({"running"} \cup Finalizing), t \in Thread : Goto(t, step)
         \/ \E step \in PCs, t \in Thread :
              Goto(t, step) /\ (t = Monitor \/ pc[t] \in {"running"} \cup Finalizing)
  PROVE  Settles
<1>1. \A u \in Unit : u \in Busy' => u \in Busy
  BY DelegationAssumption DEF Busy, Goto, TypeOK, Thread
<1> QED BY <1>1 DEF Settles, executor, Dispatches, Current

LEMMA FinalizeSettles ==
  ASSUME TypeOK, NEW t \in Thread, Claim(t) \/ Persist(t) \/ Publish(t) \/ Settle(t)
  PROVE  Settles
<1>1. UNCHANGED <<call, nth, live, executor>>
  BY DEF Claim, Persist, Publish, Settle, callers
<1>2. pc[t] \in {"running"} \cup Finalizing /\ \E step \in PCs : Goto(t, step)
  <2>1. pc[t] \in Finalizing
    BY DEF Claim, Persist, Publish, Settle, Finalizing
  <2>2. {"persist", "publish", "settle", Back(t)} \subseteq PCs
    BY BackType DEF PCs, Finalizing
  <2>3. \E step \in {"persist", "publish", "settle", Back(t)} : Goto(t, step)
    BY DEF Claim, Persist, Publish, Settle
  <2> QED BY <2>1, <2>2, <2>3
<1>3. \A u \in Unit : rec'[u] \in Live => rec[u] \in Live
  <2>1. CASE Claim(t)
    BY <2>1 DEF Claim, TypeOK, Live
  <2>2. CASE Settle(t)
    <3> DEFINE recs == [rec EXCEPT ![Mine(t)] = IF @ = "none" THEN "none" ELSE "ended"]
               completed == {v \in Unit : recs[v] \notin {"none", "running"}}
               over == Oldest(completed, Cardinality(completed) - MaxRetained)
    <3>1. rec' = [v \in Unit |-> IF v \in over THEN "none" ELSE recs[v]]
      BY <2>2 DEF Settle
    <3>2. \A u \in Unit : recs[u] \in {rec[u], "none", "ended"}
      BY DEF TypeOK
    <3> HIDE DEF recs, over, completed
    <3> QED BY <3>1, <3>2 DEF Live, Active
  <2> QED BY <2>1, <2>2 DEF Persist, Publish, records
<1> QED BY <1>1, <1>2, <1>3, ThreadSettles

LEMMA RestSettles ==
  ASSUME TypeOK,
         \/ Sweep \/ EndPass \/ Leave \/ UNCHANGED vars
         \/ \E u \in Unit : \/ TakeUp(u) \/ GraceEnds(u) \/ RunnerReturns(u) \/ GoesQuiet(u)
                            \/ Progresses(u) \/ ConsumerStep(u)
  PROVE  Settles
<1>1. UNCHANGED <<call, nth, live, executor>>
  BY DEF Sweep, EndPass, Leave, vars, TakeUp, GraceEnds, RunnerReturns, GoesQuiet, Progresses,
         ConsumerStep, TakeEvent, HandOver, Acknowledge, PutBack, callers
<1>2. \A u \in Unit : rec'[u] \in Live => rec[u] \in Live
  <2>1. CASE Sweep
    BY <2>1 DEF Sweep, Stalls, Live, Active
  <2>2. CASE ~Sweep
    BY <2>2 DEF EndPass, Leave, vars, TakeUp, GraceEnds, RunnerReturns, GoesQuiet, Progresses,
                ConsumerStep, TakeEvent, HandOver, Acknowledge, PutBack, records
  <2> QED BY <2>1, <2>2
<1>3. \/ pc' = pc
      \/ \E step \in {"act", "claim", "sweep", "leave", "off"} : Goto(Monitor, step)
      \/ \E u \in Unit : pc[u] = "running" /\ Goto(u, "claim")
  BY DEF Sweep, EndPass, Leave, vars, TakeUp, GraceEnds, RunnerReturns, GoesQuiet, Progresses,
         ConsumerStep, TakeEvent, HandOver, Acknowledge, PutBack
<1>4. {"act", "claim", "sweep", "leave", "off"} \subseteq PCs /\ Monitor \in Thread /\ Unit \subseteq Thread
  BY DEF PCs, Finalizing, Thread
<1> QED BY <1>1, <1>2, <1>3, <1>4, ThreadSettles

LEMMA PoolInit == Init => PoolInv
<1>1. ASSUME Init
      PROVE  Pooled
  <2>1. {u \in Unit : rec[u] \in Live} = {} /\ Busy = {}
    BY <1>1 DEF Init, Live, Active, Busy, Finalizing, Thread
  <2>2. Empty
    BY <1>1, <2>1, FS_EmptySet DEF Init, LiveUnits, Empty
  <2> QED BY <2>2, EmptyPooled
<1> QED BY <1>1 DEF PoolInv

LEMMA PoolStep ==
  ASSUME TypeOK, TypeOK', Inv, PoolInv, [Next]_vars
  PROVE  PoolInv'
<1>1. CASE /\ failures' = failures + 1
  BY <1>1 DEF PoolInv, TypeOK
<1>2. CASE Restart
  <2>1. {u \in Unit : rec[u] \in Live}' = {} /\ Busy' = {}
    BY <1>2 DEF Restart, Live, Active, Busy, Finalizing, Thread
  <2>2. \A c \in Call : call'[c] \notin {"persist", "pool", "submit"}
    BY <1>2 DEF Restart
  <2>3. Empty'
    BY <1>2, <2>1, <2>2, FS_EmptySet DEF Restart, LiveUnits, Empty
  <2>4. Pooled'
    BY <2>3, EmptyPooled, PTL
  <2> QED BY <2>4 DEF PoolInv
<1>3. CASE failures' = failures /\ ~Restart
  <2>1. ASSUME Pooled
        PROVE  Pooled'
    <3>1. ASSUME NEW c \in Call, CallStep(c) \/ Admit(c) \/ Reject(c)
          PROVE  Pooled'
      <4>1. ~(PersistDispatchFails(c) \/ SubmitFails(c) \/ DeleteRowFails(c))
        BY <1>3 DEF PersistDispatchFails, SubmitFails, DeleteRowFails, TypeOK
      <4> QED
        BY <2>1, <3>1, <4>1, AdmitPooled, GrowPooled, SubmitPooled, CallSettles, SettlesPooled
        DEF CallStep
    <3>2. ASSUME NEW t \in Thread, Finalize(t)
          PROVE  Pooled'
      <4>1. ~PersistFails(t)
        BY <1>3 DEF PersistFails, TypeOK
      <4> QED BY <2>1, <3>2, <4>1, FinalizeSettles, SettlesPooled DEF Finalize
    <3>3. ASSUME NEW u \in Unit, Start(u)
          PROVE  Pooled'
      BY <2>1, <3>3, StartPooled
    <3>4. CASE \/ Sweep \/ EndPass \/ Leave \/ UNCHANGED vars
               \/ \E u \in Unit : \/ TakeUp(u) \/ GraceEnds(u) \/ RunnerReturns(u) \/ GoesQuiet(u)
                                  \/ Progresses(u) \/ ConsumerStep(u)
      BY <2>1, <3>4, RestSettles, SettlesPooled
    <3> QED
      BY <1>3, <3>1, <3>2, <3>3, <3>4 DEF Next, WorkerStep, MonitorStep, Environment, Thread
  <2> QED BY <1>3, <2>1 DEF PoolInv
<1>4. failures' = failures \/ failures' = failures + 1
  <2>1. ASSUME NEW c \in Call, CallStep(c) \/ Admit(c) \/ Reject(c)
        PROVE  failures' = failures \/ failures' = failures + 1
    BY <2>1
    DEF CallStep, Admit, Reject, PersistDispatch, PersistDispatchFails, GrowPool, Submit,
        SubmitFails, DeleteRow, DeleteRowFails, EnsureMonitor, faults
  <2>2. ASSUME NEW t \in Thread, Finalize(t)
        PROVE  failures' = failures \/ failures' = failures + 1
    BY <2>2 DEF Finalize, Claim, Persist, PersistFails, Publish, Settle, faults
  <2>3. ASSUME \/ Sweep \/ EndPass \/ Leave \/ UNCHANGED vars \/ Restart
               \/ \E u \in Unit : \/ TakeUp(u) \/ GraceEnds(u) \/ RunnerReturns(u) \/ GoesQuiet(u)
                                  \/ Progresses(u) \/ ConsumerStep(u) \/ Start(u)
        PROVE  failures' = failures
    BY <2>3
    DEF Sweep, EndPass, Leave, vars, Restart, TakeUp, GraceEnds, RunnerReturns, GoesQuiet,
        Progresses, ConsumerStep, TakeEvent, HandOver, Acknowledge, PutBack, Start, faults
  <2> QED
    BY <2>1, <2>2, <2>3 DEF Next, WorkerStep, MonitorStep, Environment, Thread
<1> QED BY <1>1, <1>2, <1>3, <1>4

\* While a unit waits with no thread for it, the pool is full or a call is on its way.
LEMMA PoolMeans == TypeOK /\ Inv /\ PoolInv => PoolServes
<1> SUFFICES ASSUME TypeOK, PoolInv, failures = 0, backlog # <<>>,
                    ~(Cardinality(Busy) < threads),
                    \A c \in Call : call[c] \notin {"persist", "pool", "submit"}
             PROVE  threads = pool
  BY InvMeans DEF PoolServes
<1>0. Pooled
  BY DEF PoolInv
<1>1. Coming = {}
  BY DEF Coming, Dispatches
<1>2. Len(backlog) \in Nat /\ Len(backlog) > 0 /\ threads \in Nat /\ pool \in Nat
  BY DEF TypeOK
<1>3. pool <= threads + 0
  BY <1>0, <1>1, <1>2, BusyComing, FS_EmptySet DEF Pooled, ServedInv
<1> QED BY <1>0, <1>2, <1>3 DEF Pooled

\* The stall monitor never ends a unit that waits for a thread, and as long as no
\* call raised, a unit never waits while the pool could start a thread for it,
\* however calls overlap and whichever of their units share slots or stall.
THEOREM PoolKeepsUp == Spec => []PoolServes
<1>1. Init => PoolInv
  BY PoolInit
<1>2. (TypeOK /\ Inv) /\ (TypeOK /\ Inv)' /\ PoolInv /\ [Next]_vars => PoolInv'
  BY PoolStep
<1> QED BY <1>1, <1>2, PoolMeans, InvCorrect, PTL DEF Spec

-----------------------------------------------------------------------------
(* Delegation implements ResultContract *)

Stages == [u \in Unit |-> Standing(u)]

\* Somebody is about to put u's event on the queue.
Publishing(u) == \E t \in Thread : pc[t] = "publish" /\ Mine(t) = u

\* Nothing that u's standing depends on has changed.
Stands(v) ==
  /\ row'[v] = row[v] /\ hand'[v] = hand[v] /\ (queue'[v] > 0 <=> queue[v] > 0)
  /\ (v \in purged' <=> v \in purged) /\ (Publishing(v)' <=> Publishing(v))

LEMMA StandsSame ==
  ASSUME NEW v \in Unit, Stands(v)
  PROVE  Standing(v)' = Standing(v)
BY DEF Stands, Standing, OnItsWay, Publishing

LEMMA StageMoves ==
  ASSUME NEW u \in Unit, \A v \in Unit \ {u} : Stands(v)
  PROVE  Stages' = [Stages EXCEPT ![u] = Standing(u)']
<1>1. \A v \in Unit \ {u} : Standing(v)' = Standing(v)
  BY StandsSame
<1> QED BY <1>1 DEF Stages

LEMMA ContractStutters ==
  ASSUME \A v \in Unit : Standing(v)' = Standing(v), UNCHANGED <<delivered, dispatched, crashes>>
  PROVE  UNCHANGED <<Stages, delivered, dispatched, crashes>>
BY DEF Stages

\* Threads that neither publish nor come to publish.
LEMMA PublishersStay ==
  ASSUME TypeOK,
         \/ pc' = pc /\ at' = at
         \/ \E t \in Thread, step \in PCs \ {"publish"} :
              pc[t] # "publish" /\ Goto(t, step) /\ (t = Monitor \/ at' = at),
         NEW v \in Unit
  PROVE  Publishing(v)' <=> Publishing(v)
BY DEF Publishing, Mine, Goto, TypeOK

\* Who has been given or handed the result, or holds its claim, has it published.
LEMMA NotPublishing ==
  ASSUME TypeOK, Inv, NEW u \in Unit, ~Clean(u)
  PROVE  ~Publishing(u)
BY DEF Inv, UnitInv, ClaimInv, Finalizes, Publishing

LEMMA SameCardinality == \A S : Contract!Cardinality(S) = Cardinality(S)
BY DEF Contract!Cardinality, Cardinality

\* Units with an outcome in the ledger.
Done == {v \in Unit : row[v] \in {"pending", "delivered", "dropped"}}
WithRow(u) == [row EXCEPT ![u] = "running"]

\* A new row takes its unit on, and the prune forgets others to make room.
LEMMA PruneForgets ==
  ASSUME TypeOK, NEW u \in Unit, row[u] = "absent",
         NEW aged \in SUBSET Unit, NEW gone \in SUBSET Unit, Purged(WithRow(u), aged, gone)
  PROVE  /\ aged \cup gone \subseteq Done /\ u \notin aged \cup gone
         /\ \A v \in aged : row[v] = "delivered"
         /\ \/ \A v \in gone : row[v] = "delivered"
            \/ /\ Cardinality(Done \ (aged \cup gone)) = MaxTerminal
               /\ \A v \in Done \ (aged \cup gone) : row[v] # "delivered"
<1> DEFINE rows == WithRow(u)
<1>1. /\ rows[u] = "running" /\ row[u] \notin {"pending", "delivered", "dropped"}
      /\ \A v \in Unit \ {u} : rows[v] = row[v]
  BY DEF TypeOK, WithRow
<1>2. PICK terminal \in SUBSET Unit :
        /\ terminal = Done \ aged /\ gone \subseteq terminal
        /\ \A v \in aged : rows[v] = "delivered"
        /\ \/ Cardinality(terminal) - MaxTerminal > 0
              /\ Cardinality(gone) = Cardinality(terminal) - MaxTerminal
           \/ gone = {}
        /\ \/ gone \subseteq {v \in terminal : rows[v] = "delivered"}
           \/ {v \in terminal : rows[v] = "delivered"} \subseteq gone
  <2> DEFINE terminal == {v \in Unit : rows[v] \in {"pending", "delivered", "dropped"}} \ aged
  <2>1. terminal = Done \ aged
    BY <1>1 DEF Done
  <2>2. /\ gone \subseteq terminal /\ \A v \in aged : rows[v] = "delivered"
        /\ \/ Cardinality(terminal) - MaxTerminal > 0
              /\ Cardinality(gone) = Cardinality(terminal) - MaxTerminal
           \/ gone = {}
        /\ \/ gone \subseteq {v \in terminal : rows[v] = "delivered"}
           \/ {v \in terminal : rows[v] = "delivered"} \subseteq gone
    BY DEF Purged
  <2>3. terminal \in SUBSET Unit
    OBVIOUS
  <2> HIDE DEF terminal
  <2> QED BY <2>1, <2>2, <2>3
<1> HIDE DEF rows
<1>3. aged \cup gone \subseteq Done /\ u \notin aged \cup gone
  BY <1>1, <1>2 DEF Done
<1>4. \A v \in aged : row[v] = "delivered"
  BY <1>1, <1>2
<1>5. CASE gone \subseteq {v \in terminal : rows[v] = "delivered"}
  BY <1>1, <1>3, <1>4, <1>5
<1>6. CASE {v \in terminal : rows[v] = "delivered"} \subseteq gone /\ gone # {}
  <2>1. IsFiniteSet(terminal)
    BY DelegationAssumption, FS_Subset
  <2>2. /\ IsFiniteSet(gone) /\ terminal \cap gone = gone
        /\ Cardinality(terminal) \in Nat /\ Cardinality(gone) \in Nat
    BY <1>2, <2>1, FS_Subset, FS_CardinalityType
  <2>3. Cardinality(terminal \ gone) = Cardinality(terminal) - Cardinality(gone)
    BY <2>1, <2>2, FS_Difference
  <2>4. Cardinality(gone) = Cardinality(terminal) - MaxTerminal
    BY <1>2, <1>6
  <2>5. MaxTerminal \in Nat
    BY DelegationAssumption
  <2>6. Cardinality(terminal \ gone) = MaxTerminal
    BY <2>2, <2>3, <2>4, <2>5
  <2>7. Done \ (aged \cup gone) = terminal \ gone
    BY <1>2
  <2>8. \A v \in terminal \ gone : row[v] # "delivered"
    BY <1>1, <1>2, <1>6
  <2> QED BY <1>3, <1>4, <2>6, <2>7, <2>8
<1>7. CASE gone = {}
  BY <1>3, <1>4, <1>7
<1> QED BY <1>2, <1>5, <1>6, <1>7

\* The unit a call is about to enter in the ledger is new to the contract.
LEMMA NewOne ==
  ASSUME TypeOK, Inv, NEW c \in Call, call[c] = "persist", NEW u \in Unit, u = Current(c)
  PROVE  /\ Clean(u) /\ row[u] = "absent" /\ Standing(u) = "new"
         /\ delivered[u] = 0 /\ ~Publishing(u)
<1>1. Clean(u) /\ row[u] = "absent" /\ u \notin purged /\ pc[u] = "off" /\ u \notin started
  BY DEF Inv, DispatchInv, DispatchAt
<1>2. ~Publishing(u)
  BY <1>1, NoHolder DEF Publishing, Finalizes
<1> QED BY <1>1, <1>2 DEF Standing, OnItsWay, Publishing, Clean

LEMMA PersistDispatchAccepts ==
  ASSUME TypeOK, Inv, NEW c \in Call, PersistDispatch(c)
  PROVE  \E u \in Unit : Contract!Accept(u)
<1>1. PICK u \in Unit : u = Current(c)
  BY CurrentIn DEF PersistDispatch
<1>2. call[c] = "persist" /\ UNCHANGED <<pc, at, queue, hand, delivered, dispatched, crashes>>
  BY DEF PersistDispatch, monitor, events, faults
<1>3. Clean(u) /\ row[u] = "absent" /\ Standing(u) = "new" /\ delivered[u] = 0
  BY <1>1, <1>2, NewOne
<1>5. PICK aged \in SUBSET Unit, gone \in SUBSET Unit :
        /\ Purged(WithRow(u), aged, gone)
        /\ row' = [v \in Unit |-> IF v \in aged \cup gone THEN "absent" ELSE WithRow(u)[v]]
        /\ purged' = purged \cup aged \cup gone
  BY <1>1 DEF PersistDispatch, WithRow
<1> DEFINE F == aged \cup gone
           late == {v \in F : OnItsWay(v)}
<1>6. /\ F \subseteq Done /\ u \notin F
      /\ \A v \in aged : row[v] = "delivered"
      /\ \/ \A v \in gone : row[v] = "delivered"
         \/ /\ Cardinality(Done \ F) = MaxTerminal
            /\ \A v \in Done \ F : row[v] # "delivered"
  BY <1>3, <1>5, PruneForgets, Zenon
<1>7. /\ \A v \in Unit \ (F \cup {u}) : row'[v] = row[v]
      /\ row'[u] = "running" /\ \A v \in F : row'[v] = "absent" /\ v \in purged'
      /\ \A v \in Unit \ F : v \in purged' <=> v \in purged
  BY <1>5, <1>6 DEF TypeOK, WithRow
<1>8. \A v \in Unit : OnItsWay(v)' <=> OnItsWay(v)
  BY <1>2 DEF OnItsWay, Mine
<1>9. \A v \in Unit :
        /\ row[v] \in Row /\ (Standing(v) = "settled" <=> row[v] = "delivered")
        /\ Standing(v) \in Contract!Kept <=> v \in Done
  BY DEF Standing, Contract!Kept, TypeOK, Row, Done
<1>10. Contract!Finished = Done
  BY <1>9 DEF Contract!Finished, Done
<1>11. \A v \in late : Standing(v) \in {"due", "taken", "dropped"}
  <2>1. ASSUME NEW v \in late
        PROVE  Standing(v) \in {"due", "taken", "dropped"}
    <3>1. v \in Unit /\ OnItsWay(v) /\ row[v] \in {"pending", "delivered", "dropped"}
      BY <1>6 DEF Done
    <3>2. hand[v] # "injected" /\ row[v] # "delivered"
      <4>1. SpentInv(v) /\ queue[v] \in Nat
        BY <3>1 DEF Inv, UnitInv, TypeOK
      <4>2. CASE hand[v] = "injected" \/ row[v] = "delivered"
        <5>1. ~Clean(v)
          BY <4>2 DEF Clean
        <5>2. ~Publishing(v)
          BY <3>1, <5>1, NotPublishing
        <5> QED BY <3>1, <4>1, <4>2, <5>2 DEF OnItsWay, Publishing, SpentInv
      <4> QED BY <4>2
    <3> QED BY <3>1, <3>2 DEF Standing
  <2> QED BY <2>1
<1>12. Stages' = [v \in Unit |->
         IF v = u THEN "working"
         ELSE IF v \in late THEN "adrift" ELSE IF v \in F THEN "forgotten" ELSE Stages[v]]
  <2>1. Standing(u)' = "working"
    BY <1>7 DEF Standing
  <2>2. ASSUME NEW v \in F
        PROVE  v \in Unit /\ v # u /\ Standing(v)' = IF v \in late THEN "adrift" ELSE "forgotten"
    BY <1>6, <1>7, <1>8, <2>2 DEF Standing
  <2>3. ASSUME NEW v \in Unit \ (F \cup {u})
        PROVE  Standing(v)' = Standing(v)
    BY <1>2, <1>7, <1>8, <2>3 DEF Standing
  <2> HIDE DEF F, late
  <2>4. late \subseteq F /\ F \subseteq Unit
    BY <2>2 DEF late
  <2> QED BY <2>1, <2>2, <2>3, <2>4 DEF Stages
<1>13. F \in SUBSET Contract!Finished /\ late \in SUBSET F
  BY <1>6, <1>10
<1>14. \/ \A v \in F : Standing(v) = "settled"
       \/ /\ Cardinality(Contract!Finished \ F) = MaxTerminal
          /\ \A v \in Contract!Finished \ F : Standing(v) # "settled"
  <2>1. CASE \A v \in gone : row[v] = "delivered"
    BY <1>6, <1>9, <2>1
  <2>2. CASE /\ Cardinality(Done \ F) = MaxTerminal
             /\ \A v \in Done \ F : row[v] # "delivered"
    <3>1. \A v \in Done \ F : Standing(v) # "settled"
      BY <1>9, <2>2 DEF Done
    <3> HIDE DEF F
    <3> QED BY <1>10, <2>2, <3>1, Zenon
  <2> QED BY <1>6, <2>1, <2>2
<1> HIDE DEF F, late
<1>15. \A v \in F : v \in Unit
  BY <1>13 DEF Contract!Finished
<1>16. Stages[u] = "new" /\ \A v \in F : Stages[v] = Standing(v)
  BY <1>3, <1>15 DEF Stages
<1>17. \/ \A v \in F : Stages[v] = "settled"
       \/ /\ Cardinality(Contract!Finished \ F) = MaxTerminal
          /\ \A v \in Contract!Finished \ F : Stages[v] # "settled"
  BY <1>14, <1>16 DEF Stages, Contract!Finished
<1>18. \A v \in late : Stages[v] \in {"due", "taken", "dropped"}
  BY <1>11, <1>13, <1>16
<1>19. Stages' = [v \in Unit |-> IF v = u THEN "working" ELSE Contract!Forget(F, late, v)]
  BY <1>12 DEF Contract!Forget, Stages
<1> QED
  BY <1>2, <1>3, <1>13, <1>16, <1>17, <1>18, <1>19, SameCardinality DEF Contract!Accept, Stages

\* When the prune raises the row is in all the same.
LEMMA PersistDispatchFailsAccepts ==
  ASSUME TypeOK, Inv, NEW c \in Call, PersistDispatchFails(c), row' # row
  PROVE  \E u \in Unit : Contract!Accept(u)
<1>1. PICK u \in Unit : u = Current(c)
  BY CurrentIn DEF PersistDispatchFails
<1>2. /\ call[c] = "persist" /\ row' = [row EXCEPT ![u] = "running"]
      /\ UNCHANGED <<pc, at, queue, hand, purged, delivered, dispatched, crashes>>
  BY <1>1 DEF PersistDispatchFails, monitor, events
<1>3. Standing(u) = "new" /\ delivered[u] = 0
  BY <1>1, <1>2, NewOne
<1>4. Standing(u)' = "working" /\ \A v \in Unit \ {u} : Stands(v)
  BY <1>2 DEF TypeOK, Standing, Stands, Publishing, Mine
<1>5. Stages' = [Stages EXCEPT ![u] = "working"]
  BY <1>4, StageMoves
<1>6. Stages' = [v \in Unit |-> IF v = u THEN "working" ELSE Contract!Forget({}, {}, v)]
  BY <1>5 DEF Contract!Forget, Stages
<1>7. {} \in SUBSET Contract!Finished /\ {} \in SUBSET {} /\ Stages[u] = "new"
  BY <1>3 DEF Stages
<1> QED BY <1>2, <1>3, <1>6, <1>7 DEF Contract!Accept, Stages

\* A dispatch that is taken back has not been promised.
LEMMA DeleteRowWithdraws ==
  ASSUME TypeOK, Inv, NEW c \in Call, DeleteRow(c)
  PROVE  \E u \in Unit : Contract!Withdraw(u)
<1>1. PICK u \in Unit : u = Current(c)
  BY CurrentIn DEF DeleteRow
<1>2. /\ call[c] = "unrow" /\ row' = [row EXCEPT ![u] = "absent"]
      /\ UNCHANGED <<pc, at, queue, hand, purged, delivered, dispatched, crashes>>
  BY <1>1 DEF DeleteRow, monitor, events, faults
<1>3. Withdrawn(u) /\ u \notin dispatched /\ u \notin purged
  <2>1. Withdrawn(u) /\ u \notin dispatched
    BY <1>1, <1>2 DEF Inv, DispatchInv, DispatchAt
  <2> QED BY <2>1 DEF Withdrawn, Inv, UnitInv, SpentInv
<1>4. ~Publishing(u)
  BY <1>3, NoHolder DEF Withdrawn, Publishing, Finalizes
<1>5. Standing(u) = "working" /\ Standing(u)' = "new"
  <2>1. ~Publishing(u)' /\ row'[u] = "absent"
    BY <1>2, <1>4 DEF Publishing, Mine, TypeOK
  <2> QED BY <1>2, <1>3, <2>1 DEF Standing, OnItsWay, Publishing, Withdrawn, Clean
<1>6. \A v \in Unit \ {u} : Stands(v)
  BY <1>2 DEF TypeOK, Stands, Publishing, Mine
<1>7. Stages' = [Stages EXCEPT ![u] = "new"] /\ Stages[u] = "working"
  BY <1>5, <1>6, StageMoves DEF Stages
<1> QED BY <1>2, <1>3, <1>7 DEF Contract!Withdraw, Stages

\* Who is told of a dispatch is told of a unit that has been taken on.
LEMMA EnsureMonitorPromises ==
  ASSUME TypeOK, Inv, NEW c \in Call, EnsureMonitor(c)
  PROVE  \E u \in Unit : Contract!Promise(u)
<1>1. PICK u \in Unit : u = Current(c)
  BY CurrentIn DEF EnsureMonitor
<1>2. /\ call[c] = "monitor" /\ dispatched' = dispatched \cup {u} /\ at' = at
      /\ pc' = pc \/ (pc[Monitor] = "off" /\ Goto(Monitor, "sweep"))
      /\ UNCHANGED <<row, queue, hand, purged, delivered, crashes>>
  BY <1>1 DEF EnsureMonitor, monitor, events, ledger, faults
<1>3. Stages' = Stages
  <2>1. \A v \in Unit : Publishing(v)' <=> Publishing(v)
    BY <1>2, PublishersStay DEF PCs, Finalizing, Thread
  <2>2. \A v \in Unit : Stands(v)
    BY <1>2, <2>1 DEF Stands
  <2> QED BY <2>2, StandsSame DEF Stages
<1>4. Stages[u] # "new"
  <2>1. Owed(u)
    BY <1>1, <1>2 DEF Inv, DispatchInv, DispatchAt
  <2>2. row[u] \in Row
    BY DEF TypeOK
  <2> QED BY <2>1, <2>2 DEF Owed, Standing, Row, Stages
<1> QED BY <1>2, <1>3, <1>4 DEF Contract!Promise, Stages

\* The outcome is in the ledger: it falls due.
LEMMA PersistFinishes ==
  ASSUME TypeOK, Inv, NEW t \in Thread, Persist(t)
  PROVE  \E u \in Unit : Contract!Finish(u)
<1>1. PICK u \in Unit : u = Mine(t)
  BY MineIn
<1>2. /\ pc[t] = "persist" /\ Goto(t, "publish")
      /\ row' = [row EXCEPT ![u] = IF @ = "absent" THEN "absent" ELSE "pending"]
      /\ UNCHANGED <<at, queue, hand, purged, delivered, dispatched, crashes>>
  BY <1>1 DEF Persist, monitor, events, faults, callers
<1>3. row[u] = "running" /\ Clean(u)
  BY <1>1, <1>2 DEF Inv, UnitInv, ClaimInv, Finalizes
<1>4. Standing(u) = "working" /\ Standing(u)' = "due"
  BY <1>2, <1>3 DEF TypeOK, Standing, Clean
<1>5. \A v \in Unit \ {u} : Stands(v)
  <2>1. \A v \in Unit \ {u} : Publishing(v)' <=> Publishing(v)
    BY <1>1, <1>2 DEF TypeOK, Publishing, Mine, Goto
  <2> QED BY <1>2, <2>1 DEF TypeOK, Stands
<1>6. Stages' = [Stages EXCEPT ![u] = "due"] /\ Stages[u] = "working"
  BY <1>4, <1>5, StageMoves DEF Stages
<1> QED BY <1>2, <1>6 DEF Contract!Finish, Contract!Moves, Stages

\* The event goes from the thread to the queue: still on its way.
LEMMA PublishStutters ==
  ASSUME TypeOK, Inv, NEW t \in Thread, Publish(t)
  PROVE  UNCHANGED <<Stages, delivered, dispatched, crashes>>
<1>1. PICK u \in Unit : u = Mine(t)
  BY MineIn
<1>2. /\ pc[t] = "publish" /\ Goto(t, "settle") /\ queue' = [queue EXCEPT ![u] = @ + 1]
      /\ UNCHANGED <<at, row, hand, purged, delivered, dispatched, crashes>>
  BY <1>1 DEF Publish, monitor, ledger, faults, callers
<1>3. row[u] # "running" /\ Clean(u)
  BY <1>1, <1>2 DEF Inv, UnitInv, ClaimInv, Finalizes
<1>4. \A v \in Unit \ {u} : Stands(v)
  <2>1. \A v \in Unit \ {u} : Publishing(v)' <=> Publishing(v)
    BY <1>1, <1>2 DEF TypeOK, Publishing, Mine, Goto
  <2> QED BY <1>2, <2>1 DEF TypeOK, Stands
<1>5. Standing(u)' = Standing(u)
  <2>1. queue'[u] > 0 /\ OnItsWay(u) /\ OnItsWay(u)'
    BY <1>1, <1>2 DEF TypeOK, OnItsWay
  <2> QED BY <1>2, <2>1 DEF Standing
<1> QED BY <1>2, <1>4, <1>5, StandsSame, ContractStutters

\* A consumer's step leaves every other unit where it stands.
LEMMA ConsumerStands ==
  ASSUME TypeOK, NEW u \in Unit, ConsumerStep(u)
  PROVE  /\ \A v \in Unit \ {u} : Stands(v)
         /\ UNCHANGED <<purged, pc, at, dispatched, crashes>>
<1>1. UNCHANGED <<purged, pc, at, dispatched, crashes>>
  BY DEF ConsumerStep, TakeEvent, HandOver, Acknowledge, PutBack, callers, monitor, ledger, faults
<1>2. \A v \in Unit \ {u} :
         queue'[v] = queue[v] /\ hand'[v] = hand[v] /\ delivered'[v] = delivered[v] /\ row'[v] = row[v]
  BY ConsumerFrame
<1> QED BY <1>1, <1>2 DEF Stands, Publishing, Mine

LEMMA TakeEventTakes ==
  ASSUME TypeOK, Inv, NEW u \in Unit, TakeEvent(u)
  PROVE  Contract!Take(u) \/ UNCHANGED <<Stages, delivered, dispatched, crashes>>
<1>1. /\ \A v \in Unit \ {u} : Stands(v)
      /\ UNCHANGED <<row, purged, pc, at, delivered, dispatched, crashes>>
  BY ConsumerStands DEF ConsumerStep, TakeEvent, ledger
<1>2. SpentInv(u) /\ row[u] \in Row /\ queue[u] > 0 /\ queue[u] \in Nat /\ hand[u] \in Hand
  BY DEF TakeEvent, Inv, UnitInv, TypeOK
<1>3. /\ row[u] # "running" /\ hand[u] \notin {"claimed", "injected"}
      /\ \/ hand'[u] = "claimed" /\ row[u] \notin {"delivered", "dropped"}
         \/ hand'[u] = hand[u] /\ row[u] # "absent"
  BY <1>2 DEF TakeEvent, SpentInv, TypeOK, Hand
<1>4. CASE row[u] = "pending" /\ hand'[u] = "claimed"
  <2>1. Standing(u) = "due" /\ Standing(u)' = "taken"
    BY <1>1, <1>3, <1>4 DEF Standing
  <2>2. Stages' = [Stages EXCEPT ![u] = "taken"] /\ Stages[u] = "due"
    BY <1>1, <2>1, StageMoves DEF Stages
  <2> QED BY <1>1, <2>2 DEF Contract!Take, Contract!Moves, Stages
<1>5. CASE ~(row[u] = "pending" /\ hand'[u] = "claimed")
  <2>1. Standing(u)' = Standing(u)
    <3>1. row[u] = "absent" => OnItsWay(u) /\ OnItsWay(u)'
      BY <1>2, <1>3 DEF OnItsWay
    <3> QED BY <1>1, <1>2, <1>3, <1>5, <3>1 DEF Standing, Row
  <2> QED BY <1>1, <2>1, StandsSame, ContractStutters
<1> QED BY <1>4, <1>5

LEMMA HandOverGives ==
  ASSUME TypeOK, Inv, NEW u \in Unit, HandOver(u)
  PROVE  Contract!Give(u)
<1>1. /\ \A v \in Unit \ {u} : Stands(v)
      /\ hand[u] = "claimed" /\ hand'[u] = "injected"
      /\ delivered' = [delivered EXCEPT ![u] = @ + 1]
      /\ UNCHANGED <<row, queue, purged, pc, at, dispatched, crashes>>
  BY ConsumerStands DEF ConsumerStep, HandOver, ledger, TypeOK
<1>2. queue[u] = 0 /\ row[u] \in {"pending", "absent"} /\ Owed(u) /\ ~Publishing(u)
  <2>1. SpentInv(u) /\ ~Clean(u)
    BY <1>1 DEF Inv, UnitInv, Clean
  <2> QED BY <1>1, <2>1, NotPublishing DEF SpentInv
<1>3. \/ Standing(u) = "taken" /\ Standing(u)' = "doubt"
      \/ Standing(u) = "adrift" /\ Standing(u)' = "forgotten"
  <2>1. CASE row[u] = "pending"
    BY <1>1, <2>1 DEF Standing
  <2>2. CASE row[u] = "absent"
    <3>1. OnItsWay(u) /\ ~OnItsWay(u)' /\ u \in purged
      BY <1>1, <1>2, <2>2 DEF OnItsWay, Publishing, Mine, Owed
    <3> QED BY <1>1, <2>2, <3>1 DEF Standing
  <2> QED BY <1>2, <2>1, <2>2
<1>4. /\ Stages' = [Stages EXCEPT ![u] = Standing(u)'] /\ Stages[u] = Standing(u)
  BY <1>1, StageMoves DEF Stages
<1>5. \/ Stages[u] = "taken" /\ Stages' = [Stages EXCEPT ![u] = "doubt"]
      \/ Stages[u] = "adrift" /\ Stages' = [Stages EXCEPT ![u] = "forgotten"]
  BY <1>3, <1>4
<1> QED BY <1>1, <1>5 DEF Contract!Give, Contract!Moves, Stages

LEMMA AcknowledgeSettles ==
  ASSUME TypeOK, Inv, NEW u \in Unit, Acknowledge(u)
  PROVE  Contract!Settle(u) \/ UNCHANGED <<Stages, delivered, dispatched, crashes>>
<1>1. /\ \A v \in Unit \ {u} : Stands(v)
      /\ hand[u] = "injected" /\ hand'[u] = "free"
      /\ row'[u] = IF row[u] = "pending" THEN "delivered" ELSE row[u]
      /\ UNCHANGED <<queue, purged, pc, at, delivered, dispatched, crashes>>
  BY ConsumerStands DEF ConsumerStep, Acknowledge, TypeOK
<1>2. row[u] \in {"pending", "absent"}
  BY <1>1 DEF Inv, UnitInv, SpentInv
<1>3. CASE row[u] = "pending"
  <2>1. Standing(u) = "doubt" /\ Standing(u)' = "settled"
    BY <1>1, <1>3 DEF Standing
  <2>2. Stages' = [Stages EXCEPT ![u] = "settled"] /\ Stages[u] = "doubt"
    BY <1>1, <2>1, StageMoves DEF Stages
  <2> QED BY <1>1, <2>2 DEF Contract!Settle, Contract!Moves, Stages
<1>4. CASE row[u] = "absent"
  <2>1. OnItsWay(u)' <=> OnItsWay(u)
    BY <1>1 DEF OnItsWay, Mine
  <2>2. Standing(u)' = Standing(u)
    BY <1>1, <1>4, <2>1 DEF Standing
  <2> QED BY <1>1, <2>2, StandsSame, ContractStutters
<1> QED BY <1>2, <1>3, <1>4

LEMMA PutBackReturns ==
  ASSUME TypeOK, Inv, NEW u \in Unit, PutBack(u)
  PROVE  Contract!Return(u) \/ UNCHANGED <<Stages, delivered, dispatched, crashes>>
<1>1. /\ \A v \in Unit \ {u} : Stands(v)
      /\ hand[u] = "claimed" /\ hand'[u] = "free"
      /\ row'[u] = row[u] \/ (row[u] = "pending" /\ row'[u] = "dropped")
      /\ queue'[u] = queue[u] \/ queue'[u] = queue[u] + 1
      /\ UNCHANGED <<purged, pc, at, delivered, dispatched, crashes>>
  BY ConsumerStands DEF ConsumerStep, PutBack, TypeOK
<1>2. queue[u] = 0 /\ row[u] \in {"pending", "absent"} /\ Owed(u) /\ ~Publishing(u)
  <2>1. SpentInv(u) /\ ~Clean(u)
    BY <1>1 DEF Inv, UnitInv, Clean
  <2> QED BY <1>1, <2>1, NotPublishing DEF SpentInv
<1>3. \/ Standing(u) = "taken" /\ Standing(u)' \in {"due", "dropped"}
      \/ Standing(u) = "adrift" /\ Standing(u)' = "forgotten"
      \/ Standing(u)' = Standing(u)
  <2>1. CASE row[u] = "pending"
    BY <1>1, <2>1 DEF Standing
  <2>2. CASE row[u] = "absent"
    <3>1. OnItsWay(u) /\ u \in purged
      BY <1>1, <1>2, <2>2 DEF OnItsWay, Owed
    <3> QED BY <1>1, <2>2, <3>1 DEF Standing
  <2> QED BY <1>2, <2>1, <2>2
<1>4. Stages' = [Stages EXCEPT ![u] = Standing(u)'] /\ Stages[u] = Standing(u)
  BY <1>1, StageMoves DEF Stages
<1>5. CASE Standing(u)' = Standing(u)
  BY <1>1, <1>5, StandsSame, ContractStutters
<1>6. CASE Standing(u)' # Standing(u)
  <2>1. \/ Stages[u] = "taken" /\ Stages' = [Stages EXCEPT ![u] = "due"]
        \/ Stages[u] = "taken" /\ Stages' = [Stages EXCEPT ![u] = "dropped"]
        \/ Stages[u] = "adrift" /\ Stages' = [Stages EXCEPT ![u] = "forgotten"]
    BY <1>3, <1>4, <1>6
  <2> QED BY <1>1, <2>1 DEF Contract!Return, Contract!Moves, Stages
<1> QED BY <1>5, <1>6

\* A crash before the acknowledgement makes a result due again that was given.
LEMMA RestartCrashes ==
  ASSUME TypeOK, Inv, Restart
  PROVE  Contract!Crash
<1>0. PICK old \in SUBSET {u \in Unit : row[u] = "pending"} :
        LET back == {u \in Unit : row[u] \in {"running", "pending"}} \ old
        IN  /\ row' = [u \in Unit |-> IF u \in back THEN "pending"
                                     ELSE IF u \in old THEN "dropped" ELSE row[u]]
            /\ queue' = [u \in Unit |-> IF u \in back THEN 1 ELSE 0]
            /\ hand' = [u \in Unit |-> IF u \in back /\ hand[u] # "free" THEN "left" ELSE "free"]
  BY Zenon DEF Restart
<1>1. /\ crashes' = crashes + 1 /\ UNCHANGED <<delivered, dispatched, purged>>
      /\ \A t \in Thread : pc'[t] = "off"
      /\ \A u \in Unit :
             /\ u \in old => row'[u] = "dropped"
             /\ row[u] \in {"running", "pending"} /\ u \notin old
                  => row'[u] = "pending" /\ hand'[u] \in {"left", "free"}
             /\ row[u] \notin {"running", "pending"}
                  => row'[u] = row[u] /\ queue'[u] = 0 /\ hand'[u] = "free"
  BY <1>0 DEF Restart
<1>2. \A u \in Unit : ~Publishing(u)'
  BY <1>1 DEF Publishing
<1>3. old \in SUBSET {u \in Unit : Stages[u] \in {"due", "taken", "doubt"}}
  BY DEF Stages, Standing
<1>4. ASSUME NEW u \in Unit
      PROVE  Standing(u)' =
               IF u \in old THEN "dropped"
               ELSE IF Standing(u) \in {"working", "due", "taken", "doubt"} THEN "due"
               ELSE IF Standing(u) = "adrift" THEN "forgotten" ELSE Standing(u)
  <2>1. CASE u \in old
    BY <1>1, <2>1 DEF Standing
  <2>2. CASE row[u] \in {"running", "pending"} /\ u \notin old
    BY <1>1, <2>2 DEF Standing
  <2>3. CASE row[u] \in {"delivered", "dropped"}
    BY <1>1, <2>3 DEF Standing
  <2>4. CASE row[u] = "absent"
    <3>1. ~OnItsWay(u)'
      BY <1>1, <1>2, <2>4 DEF OnItsWay, Publishing
    <3>2. OnItsWay(u) => u \in purged
      BY <2>4 DEF OnItsWay, Inv, UnitInv, ClaimInv, Finalizes, SpentInv, Owed
    <3>3. row'[u] = "absent" /\ (u \in purged' <=> u \in purged) /\ u \notin old
      BY <1>1, <2>4
    <3> QED BY <2>4, <3>1, <3>2, <3>3 DEF Standing
  <2> QED BY <2>1, <2>2, <2>3, <2>4 DEF TypeOK, Row
<1>5. Stages' = [u \in Unit |->
                   IF u \in old THEN "dropped"
                   ELSE IF Stages[u] \in {"working", "due", "taken", "doubt"} THEN "due"
                   ELSE IF Stages[u] = "adrift" THEN "forgotten" ELSE Stages[u]]
  BY <1>4 DEF Stages
<1> QED BY <1>1, <1>3, <1>5 DEF Contract!Crash, Stages

\* Every other step leaves every result where it stands.
LEMMA RestStutters ==
  ASSUME TypeOK, Inv,
         \/ \E c \in Call : \/ Admit(c) \/ Reject(c) \/ GrowPool(c) \/ Submit(c) \/ SubmitFails(c)
                            \/ DeleteRowFails(c) \/ (PersistDispatchFails(c) /\ row' = row)
         \/ \E t \in Thread : Claim(t) \/ PersistFails(t) \/ Settle(t)
         \/ \E u \in Unit : \/ Start(u) \/ RunnerReturns(u) \/ GoesQuiet(u) \/ Progresses(u)
                            \/ GraceEnds(u) \/ TakeUp(u)
         \/ Sweep \/ EndPass \/ Leave \/ UNCHANGED vars
  PROVE  UNCHANGED <<Stages, delivered, dispatched, crashes>>
<1>1. UNCHANGED <<row, queue, hand, purged, delivered, dispatched, crashes>>
  BY DEF Admit, Reject, GrowPool, Submit, SubmitFails, DeleteRowFails, PersistDispatchFails, Claim,
         PersistFails, Settle, Start, RunnerReturns, GoesQuiet, Progresses, GraceEnds, TakeUp,
         Sweep, EndPass, Leave, vars, callers, events, ledger, faults
<1>2. \/ pc' = pc /\ at' = at
      \/ \E t \in Thread, step \in PCs \ {"publish"} :
           pc[t] # "publish" /\ Goto(t, step) /\ (t = Monitor \/ at' = at)
  <2>0. /\ Unit \subseteq Thread /\ Monitor \in Thread
        /\ {"queued", "off", "act", "claim", "persist", "running", "sweep", "leave"}
             \subseteq PCs \ {"publish"}
    BY DEF Thread, PCs, Finalizing
  <2>1. ASSUME NEW c \in Call, Submit(c) \/ SubmitFails(c)
        PROVE  \/ pc' = pc /\ at' = at
               \/ \E t \in Thread, step \in PCs \ {"publish"} :
                    pc[t] # "publish" /\ Goto(t, step) /\ (t = Monitor \/ at' = at)
    <3>1. /\ Current(c) \in Unit /\ call[c] = "submit" /\ at' = at
          /\ pc' = pc \/ Goto(Current(c), "queued")
      BY <2>1, CurrentIn DEF Submit, SubmitFails, monitor
    <3>2. pc[Current(c)] = "off"
      BY <3>1 DEF Inv, DispatchInv, DispatchAt
    <3> QED BY <2>0, <3>1, <3>2
  <2>2. ASSUME NEW c \in Call,
               Admit(c) \/ Reject(c) \/ GrowPool(c) \/ DeleteRowFails(c) \/ PersistDispatchFails(c)
        PROVE  pc' = pc /\ at' = at
    BY <2>2 DEF Admit, Reject, GrowPool, DeleteRowFails, PersistDispatchFails, monitor
  <2>3. ASSUME NEW t \in Thread, Claim(t) \/ PersistFails(t) \/ Settle(t)
        PROVE  \E step \in PCs \ {"publish"} : pc[t] # "publish" /\ Goto(t, step) /\ at' = at
    <3>1. Back(t) \in {"act", "off"}
      BY DEF Back
    <3>2. pc[t] # "publish" /\ at' = at /\ \E step \in {"persist", "off", Back(t)} : Goto(t, step)
      BY <2>3 DEF Claim, PersistFails, Settle, monitor
    <3> QED BY <2>0, <3>1, <3>2
  <2>4. ASSUME NEW u \in Unit, Start(u) \/ RunnerReturns(u)
        PROVE  \E step \in {"running", "claim"} : pc[u] # "publish" /\ Goto(u, step) /\ at' = at
    BY <2>4 DEF Start, RunnerReturns, monitor
  <2>5. ASSUME NEW u \in Unit, GoesQuiet(u) \/ Progresses(u) \/ GraceEnds(u)
        PROVE  pc' = pc /\ at' = at
    BY <2>5 DEF GoesQuiet, Progresses, GraceEnds, monitor
  <2>6. ASSUME Sweep \/ EndPass \/ Leave \/ \E u \in Unit : TakeUp(u)
        PROVE  \E step \in {"act", "claim", "sweep", "leave", "off"} :
                 pc[Monitor] # "publish" /\ Goto(Monitor, step)
    BY <2>6 DEF Sweep, EndPass, Leave, TakeUp
  <2>7. ASSUME UNCHANGED vars
        PROVE  pc' = pc /\ at' = at
    BY <2>7 DEF vars, monitor
  <2> QED BY <2>0, <2>1, <2>2, <2>3, <2>4, <2>5, <2>6, <2>7
<1>3. \A v \in Unit : Stands(v)
  BY <1>1, <1>2, PublishersStay DEF Stands
<1> QED BY <1>1, <1>3, StandsSame, ContractStutters

LEMMA ContractStep ==
  ASSUME TypeOK, Inv, [Next]_vars
  PROVE  [Contract!Next]_<<Stages, delivered, dispatched, crashes>>
<1> DEFINE Keeps == Contract!Next \/ UNCHANGED <<Stages, delivered, dispatched, crashes>>
<1>1. ASSUME NEW c \in Call, CallStep(c) \/ Admit(c) \/ Reject(c)
      PROVE  Keeps
  <2>1. CASE PersistDispatch(c)
    BY <2>1, PersistDispatchAccepts DEF Contract!Next
  <2>2. CASE PersistDispatchFails(c) /\ row' # row
    BY <2>2, PersistDispatchFailsAccepts DEF Contract!Next
  <2>3. CASE DeleteRow(c)
    BY <2>3, DeleteRowWithdraws DEF Contract!Next
  <2>4. CASE EnsureMonitor(c)
    BY <2>4, EnsureMonitorPromises DEF Contract!Next
  <2>5. CASE \/ Admit(c) \/ Reject(c) \/ GrowPool(c) \/ Submit(c) \/ SubmitFails(c)
             \/ DeleteRowFails(c) \/ (PersistDispatchFails(c) /\ row' = row)
    BY <2>5, RestStutters
  <2> QED BY <1>1, <2>1, <2>2, <2>3, <2>4, <2>5 DEF CallStep
<1>2. ASSUME NEW t \in Thread, Finalize(t)
      PROVE  Keeps
  <2>1. CASE Persist(t)
    BY <2>1, PersistFinishes DEF Contract!Next
  <2>2. CASE Publish(t)
    BY <2>2, PublishStutters
  <2>3. CASE Claim(t) \/ PersistFails(t) \/ Settle(t)
    BY <2>3, RestStutters
  <2> QED BY <1>2, <2>1, <2>2, <2>3 DEF Finalize
<1>3. ASSUME NEW u \in Unit, ConsumerStep(u)
      PROVE  Keeps
  <2>1. CASE TakeEvent(u)
    BY <2>1, TakeEventTakes DEF Contract!Next
  <2>2. CASE HandOver(u)
    BY <2>2, HandOverGives DEF Contract!Next
  <2>3. CASE Acknowledge(u)
    BY <2>3, AcknowledgeSettles DEF Contract!Next
  <2>4. CASE PutBack(u)
    BY <2>4, PutBackReturns DEF Contract!Next
  <2> QED BY <1>3, <2>1, <2>2, <2>3, <2>4 DEF ConsumerStep
<1>4. ASSUME \/ \E u \in Unit : \/ Start(u) \/ RunnerReturns(u) \/ GoesQuiet(u) \/ Progresses(u)
                                \/ GraceEnds(u) \/ TakeUp(u)
             \/ Sweep \/ EndPass \/ Leave \/ UNCHANGED vars
      PROVE  Keeps
  BY <1>4, RestStutters
<1>5. ASSUME Restart
      PROVE  Keeps
  BY <1>5, RestartCrashes DEF Contract!Next
<1> HIDE DEF Keeps
<1>6. Keeps
  BY <1>1, <1>2, <1>3, <1>4, <1>5 DEF Next, Environment, WorkerStep, MonitorStep, Thread
<1> QED BY <1>6 DEF Keeps

\* Background delegation keeps the contract: a result is given to a conversation by
\* who has taken it and given again only when a crash came between the injection and
\* its acknowledgement (or by who had it already when its row went), a row is deleted
\* only for another one and delivered rows first, nothing due is dropped but by its
\* holder or at a start, and a dispatch that was promised is not taken back.
THEOREM Implements == Spec => KeepsContract
<1>1. Init => Contract!Init
  <2>1. ASSUME Init
        PROVE  \A u \in Unit : Standing(u) = "new"
    BY <2>1 DEF Init, Standing, OnItsWay
  <2> QED BY <2>1 DEF Init, Contract!Init
<1>2. TypeOK /\ Inv /\ [Next]_vars => [Contract!Next]_<<Stages, delivered, dispatched, crashes>>
  BY ContractStep
<1>3. TypeOK /\ Inv /\ [Next]_vars
        => [Contract!Next]_<<[u \in Unit |-> Standing(u)], delivered, dispatched, crashes>>
  BY <1>2 DEF Stages
<1> QED BY <1>1, <1>3, InvCorrect, PTL DEF Spec, KeepsContract, Contract!Spec

=============================================================================
