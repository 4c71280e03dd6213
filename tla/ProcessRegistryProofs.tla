------------------------- MODULE ProcessRegistryProofs -------------------------
(***************************************************************************)
(* Theorems about ProcessRegistry, for any sessions, threads and bounds.   *)
(*                                                                         *)
(* Every invariant is proved from TypeOK and from what the steps of a      *)
(* thread leave to the thread that runs between them:                      *)
(*   JobInv    which session a busy thread works on,                       *)
(*   OnceInv   the right to announce a session is held once: by the thread *)
(*             about to register it, by _running, by the thread that took  *)
(*             it out of _running, or spent,                               *)
(*   LiveInv   nobody is about to declare a live host process dead,        *)
(*   MarkInv   output that was returned is marked until a prune,           *)
(*   FiniteInv the tables are finite, so that their sizes can be counted,  *)
(*   AttendInv somebody attends to every session in _running.              *)
(***************************************************************************)
EXTENDS ProcessRegistry, FiniteSetTheorems, TLAPS

Moving == {"snapshot", "save", "queue"}

\* Nobody works on a session that was never spawned, a reader works on its own
\* session, and only pollers of sandbox sessions poll.
BusyInv  == \A t \in Thread : pc[t] # "idle" => rank[job[t].s] > 0
OwnInv   == \A s \in Session : pc[s] # "idle" => job[s].s = s
PollInv  == \A s \in Session : pc[s] = "polling" => Kind[s] = "sandbox"
FreshInv == \A s \in Session : rank[s] = 0 =>
              s \notin exited \cup running \cup finished \cup alive /\ announced[s] = 0
JobInv   == BusyInv /\ OwnInv /\ PollInv /\ FreshInv

\* A step of a busy thread moves that thread only, on with its session or back to
\* idle, and changes the tables and flags for that session only.
Advances(t) ==
  /\ pc[t] # "idle"
  /\ \A u \in Thread \ {t} : pc'[u] = pc[u] /\ job'[u] = job[u]
  /\ pc'[t] # "idle" => job'[t].s = job[t].s

Touches(t) ==
  /\ rank' = rank /\ alive' \subseteq alive /\ crashes' = crashes
  /\ running \ {job[t].s} \subseteq running'
  /\ running' \subseteq running \cup {job[t].s}
  /\ finished' \subseteq finished \cup {job[t].s}
  /\ exited' \subseteq exited \cup {job[t].s}
  /\ \A s \in Session \ {job[t].s} : announced'[s] = announced[s]

\* The right to announce a session is held once: by the thread about to register
\* it, by _running, by the thread that took it out, or it is spent.
HeldByTool ==
  \A t \in Tool : pc[t] = "register" =>
    /\ job[t].s \notin running /\ announced[job[t].s] = 0
    /\ \A u \in popped : job[u].s # job[t].s
    /\ \A u \in Tool : pc[u] = "register" /\ job[u].s = job[t].s => u = t
HeldByTable == \A s \in running : announced[s] = 0 /\ \A u \in popped : job[u].s # s
HeldByMove ==
  \A t \in popped :
    /\ pc[t] \in Moving
    /\ announced[job[t].s] = 0
    /\ \A u \in popped : job[u].s = job[t].s => u = t
OnceInv == HeldByTool /\ HeldByTable /\ HeldByMove /\ CompletionOnce

\* A step that hands that right to nobody.
Keeps(t) ==
  /\ running' = running /\ popped' = popped /\ announced' = announced
  /\ pc'[t] # "register" \/ pc[t] = "register"
  /\ pc[t] \in Moving => pc'[t] \in Moving

Declares == {"mark", "move"}

LiveAfter(s) ==
  s \in alive' /\ Kind[s] # "sandbox" /\ s \notin ClosesOutput /\ reason'[s] # "killed"

LiveInv ==
  crashes = 0 =>
    /\ detached = {}
    /\ \A s \in Session : Expected(s) =>
         /\ s \notin exited
         /\ s \in running \/ BeingSpawned(s)
         /\ \A t \in Thread : pc[t] \in Declares => job[t].s # s

\* A step after which the session of t, if its process still runs, is neither
\* declared dead nor taken out of the table.
Spares(t) ==
  /\ detached' = detached
  /\ LiveAfter(job[t].s) =>
       /\ pc'[t] \notin Declares
       /\ job[t].s \notin exited'
       /\ job[t].s \in running \/ pc[t] = "register" => job[t].s \in running'

Looking == {"look", "mark", "act", "signal", "markKilled", "move", "snapshot", "save", "queue"}

\* A tool thread looks at sessions the registry has, or had before a prune, and
\* returned output is marked under the session's id until a prune.
LookInv == \A t \in Tool : pc[t] \in Looking => job[t].s \in running \cup finished \cup dropped
HandInv == \A s \in Session : <<s, "id">> \in inHand /\ s \notin dropped =>
             <<s, "id">> \in consumed /\ s \in running \cup finished
MarkInv == LookInv /\ HandInv

\* A step that loses no session but to a prune, and no mark but of a pruned one.
Retains(t) ==
  /\ running \cup finished \cup dropped \subseteq running' \cup finished' \cup dropped'
  /\ dropped \subseteq dropped'
  /\ t \in Tool /\ pc'[t] \in Looking => pc[t] \in Looking
  /\ \/ /\ t \in Tool /\ pc[t] \in Looking
        /\ consumed' = consumed \cup {Name(t)} /\ inHand' = inHand \cup {Name(t)}
     \/ /\ inHand' = inHand
        /\ \A s \in (running \cup finished) \ dropped' :
             <<s, "id">> \in consumed => <<s, "id">> \in consumed'

-----------------------------------------------------------------------------
(* Facts about the helpers *)

LEMMA NoJobType == NoJob \in Job
  BY RegistryAssumption DEF NoJob, Job, Ops

LEMMA NoFileType == NoFile \in [Session -> Entry]
  BY DEF NoFile, Entry

LEMMA SnapshotType == Snapshot \in [Session -> Entry]
  BY DEF Snapshot, Entry

LEMMA GotoType ==
  ASSUME TypeOK, NEW t \in Thread, NEW step \in PCs, Goto(t, step)
  PROVE  pc' \in [Thread -> PCs]
  BY DEF TypeOK, Goto

LEMMA ReturnType ==
  ASSUME TypeOK, NEW t \in Thread, Return(t)
  PROVE  pc' \in [Thread -> PCs] /\ job' \in [Thread -> Job]
  BY NoJobType DEF TypeOK, Return, Goto, PCs

LEMMA JobType ==
  ASSUME NEW s \in Session, NEW op \in Ops, NEW q \in {"id", "prefix"}, NEW want \in BOOLEAN
  PROVE  [s |-> s, op |-> op, q |-> q, want |-> want] \in Job
  BY DEF Job

LEMMA RelabelType ==
  ASSUME TypeOK, NEW t \in Thread, NEW op \in Ops, job' = [job EXCEPT ![t].op = op]
  PROVE  job' \in [Thread -> Job]
  BY DEF TypeOK, Job

LEMMA MarkExitedType ==
  ASSUME TypeOK, NEW s \in Session, MarkExited(s)
  PROVE  exited' \subseteq Session /\ reason' \in [Session -> Reason]
  BY DEF TypeOK, MarkExited, Reason

LEMMA MineType == ASSUME TypeOK, NEW t \in Thread PROVE Mine(t) \in Session /\ Name(t) \in Query
  BY DEF TypeOK, Mine, Name, Job, Query

LEMMA ConsumeType ==
  ASSUME TypeOK, NEW t \in Thread, Consume(t) \/ ConsumeKill(t)
  PROVE  consumed' \subseteq Query /\ observed' \subseteq Query /\ inHand' \subseteq Query
  BY MineType DEF TypeOK, Consume, ConsumeKill, marks

LEMMA DroppedFinished == Dropped \subseteq finished
  BY DEF Dropped, Overdue, Oldest

\* A prune removes finished sessions, and forgets no mark of a session it keeps.
LEMMA PruneFacts ==
  ASSUME Prune
  PROVE  /\ finished' \subseteq finished
         /\ finished \subseteq finished' \cup dropped'
         /\ dropped \subseteq dropped'
         /\ dropped' \subseteq dropped \cup finished
         /\ consumed' \subseteq consumed /\ observed' \subseteq observed
         /\ \A s \in running \cup finished' : <<s, "id">> \in consumed => <<s, "id">> \in consumed'
  BY DroppedFinished DEF Prune

-----------------------------------------------------------------------------

LEMMA TypeStep == TypeOK /\ [Next]_vars => TypeOK'
<1> SUFFICES ASSUME TypeOK, [Next]_vars
             PROVE  TypeOK'
  OBVIOUS
<1> USE RegistryAssumption, NoJobType, NoFileType, GotoType, ReturnType, MineType

<1>1. ASSUME NEW t \in Thread, Step(t)
      PROVE  TypeOK'
  <2>1. CASE CollectEntries(t)
    BY <2>1, TypeOK, SnapshotType DEF CollectEntries, store, flags, age, marks, events,
       threads, TypeOK, Thread, PCs
  <2>2. CASE WriteFile(t)
    BY <2>2, TypeOK DEF WriteFile, store, flags, age, marks, events, threads, TypeOK,
       Thread, PCs
  <2>3. CASE Move(t)
    BY <2>3, TypeOK DEF Move, store, flags, age, marks, events, threads, TypeOK, Thread,
       PCs
  <2>4. CASE QueueCompletion(t)
    <3>1. pc' \in [Thread -> PCs] /\ job' \in [Thread -> Job]
      BY <2>4, TypeOK DEF QueueCompletion, TypeOK, PCs
    <3>2. queue' \in [Session -> Nat] /\ announced' \in [Session -> Nat]
      <4>1. queue \in [Session -> Nat] /\ announced \in [Session -> Nat] /\ Mine(t) \in Session
        BY TypeOK DEF TypeOK
      <4>2. \/ UNCHANGED <<queue, announced>>
            \/ /\ queue' = [queue EXCEPT ![Mine(t)] = @ + 1]
               /\ announced' = [announced EXCEPT ![Mine(t)] = @ + 1]
        BY <2>4 DEF QueueCompletion
      <4> QED BY <4>1, <4>2
    <3>3. /\ UNCHANGED <<store, flags, age, alive, marks, delivered, file, snap, noisy, crashes>>
          /\ popped' \subseteq popped
      BY <2>4 DEF QueueCompletion
    <3> QED
      BY <3>1, <3>2, <3>3, TypeOK DEF TypeOK, store, flags, age, marks
  <2> QED BY <1>1, <2>1, <2>2, <2>3, <2>4 DEF Step
<1>2. ASSUME NEW s \in Session, ReaderStep(s)
      PROVE  TypeOK'
  <2>1. CASE ReaderEnds(s)
    BY <2>1, TypeOK, MarkExitedType DEF ReaderEnds, store, flags, age, marks, events,
       threads, TypeOK, Thread, PCs
  <2>2. CASE PollerWakes(s)
    BY <2>2, TypeOK DEF PollerWakes, store, flags, age, marks, events, threads, TypeOK,
       Thread, PCs
  <2>3. CASE PollerFindsAlive(s)
    BY <2>3, TypeOK DEF PollerFindsAlive, store, flags, age, marks, events, threads,
       TypeOK, Thread, PCs
  <2>4. CASE PollerFindsExit(s)
    BY <2>4, TypeOK, MarkExitedType DEF PollerFindsExit, store, flags, age, marks,
       events, threads, TypeOK, Thread, PCs
  <2>5. CASE PollerLosesBackend(s)
    BY <2>5, TypeOK DEF PollerLosesBackend, store, flags, age, marks, events, threads,
       TypeOK, Thread, Reason, PCs
  <2> QED BY <1>2, <1>1, <2>1, <2>2, <2>3, <2>4, <2>5 DEF ReaderStep, Thread
<1>3. ASSUME NEW t \in Tool, ToolStep(t)
      PROVE  TypeOK'
  <2>1. CASE Register(t)
    BY <2>1, TypeOK, PruneFacts DEF Register, store, flags, age, marks, events, threads,
       TypeOK, Thread, PCs
  <2>2. CASE SetFlags(t)
    BY <2>2, TypeOK DEF SetFlags, store, flags, age, marks, events, threads, TypeOK,
       Thread, PCs
  <2>3. CASE Look(t)
    BY <2>3, TypeOK DEF Look, SeesDeath, store, flags, age, marks, events, threads,
       TypeOK, Thread, PCs
  <2>4. CASE Mark(t)
    BY <2>4, TypeOK, MarkExitedType DEF Mark, store, flags, age, marks, events, threads,
       TypeOK, Thread, PCs
  <2>5. CASE PollReturns(t)
    BY <2>5, TypeOK DEF PollReturns, store, flags, age, marks, events, threads, TypeOK,
       Thread, PCs
  <2>6. CASE WaitReturns(t)
    BY <2>6, TypeOK, ConsumeType DEF WaitReturns, store, flags, age, marks, events,
       threads, TypeOK, Thread, PCs
  <2>7. CASE WaitGoesOn(t)
    BY <2>7, TypeOK DEF WaitGoesOn, store, flags, age, marks, events, threads, TypeOK,
       Thread, PCs
  <2>8. CASE LogReturns(t)
    BY <2>8, TypeOK, ConsumeType DEF LogReturns, store, flags, age, marks, events,
       threads, TypeOK, Thread, PCs
  <2>9. CASE KillFindsExited(t)
    BY <2>9, TypeOK, ConsumeType DEF KillFindsExited, store, flags, age, marks, events,
       threads, TypeOK, Thread, PCs
  <2>10. CASE KillStarts(t)
    BY <2>10, TypeOK DEF KillStarts, store, flags, age, marks, events, threads, TypeOK,
       Thread, PCs
  <2>11. CASE Signal(t)
    BY <2>11, TypeOK DEF Signal, store, flags, age, marks, events, threads, TypeOK,
       Thread, PCs
  <2>12. CASE SignalFindsGone(t)
    <3>1. job' \in [Thread -> Job]
      BY <2>12, TypeOK, RelabelType DEF SignalFindsGone, Ops, Thread
    <3>2. pc' \in [Thread -> PCs]
      BY <2>12, TypeOK DEF SignalFindsGone, PCs, Thread
    <3> QED
      BY <2>12, <3>1, <3>2, TypeOK, ConsumeType DEF SignalFindsGone, TypeOK, store, age, events, Thread
  <2>13. CASE MarkKilled(t)
    <3>1. job' \in [Thread -> Job]
      BY <2>13, TypeOK, RelabelType DEF MarkKilled, Ops, Thread
    <3>2. pc' \in [Thread -> PCs]
      BY <2>13, TypeOK DEF MarkKilled, PCs, Thread
    <3>3. reason' \in [Session -> Reason]
      BY <2>13, TypeOK DEF MarkKilled, TypeOK, Reason, Thread
    <3> QED
      BY <2>13, <3>1, <3>2, <3>3, TypeOK, ConsumeType DEF MarkKilled, TypeOK, store, age, events, Thread
  <2> QED BY <1>3, <1>1, <2>1, <2>2, <2>3, <2>4, <2>5, <2>6, <2>7, <2>8, <2>9, <2>10,
     <2>11, <2>12, <2>13 DEF ToolStep, Thread
<1>4. ASSUME NEW t \in Tool, Ask(t)
      PROVE  TypeOK'
  <2>1. ASSUME NEW s \in Session, NEW want \in BOOLEAN, Spawn(t, s, want)
        PROVE  TypeOK'
    <3>1. pc' \in [Thread -> PCs]
      BY <2>1, TypeOK DEF Spawn, TypeOK, PCs, Thread
    <3>2. job' \in [Thread -> Job]
      <4>1. [s |-> s, op |-> "spawn", q |-> "id", want |-> want] \in Job
        BY JobType DEF Ops
      <4>2. [s |-> s, op |-> "exit", q |-> "id", want |-> FALSE] \in Job
        BY JobType DEF Ops
      <4> QED
        BY <2>1, <4>1, <4>2, TypeOK DEF Spawn, TypeOK, Thread
    <3>3. rank' \in [Session -> Nat] /\ spawned' \in Nat
      BY <2>1, TypeOK DEF Spawn, NewSession, TypeOK
    <3> QED
      BY <2>1, <3>1, <3>2, <3>3, TypeOK DEF Spawn, NewSession, TypeOK, store, marks, events
  <2>2. ASSUME NEW s \in Session, NEW want \in BOOLEAN, SpawnFails(t, s, want)
        PROVE  TypeOK'
    <3>1. pc' \in [Thread -> PCs]
      BY <2>2, TypeOK DEF SpawnFails, PCs, Thread
    <3>2. job' \in [Thread -> Job]
      <4>1. [s |-> s, op |-> "spawn", q |-> "id", want |-> want] \in Job
        BY JobType DEF Ops
      <4> QED
        BY <2>2, <4>1, TypeOK DEF SpawnFails, TypeOK, Thread
    <3>3. rank' \in [Session -> Nat] /\ spawned' \in Nat /\ reason' \in [Session -> Reason]
      BY <2>2, TypeOK DEF SpawnFails, TypeOK, Reason
    <3> QED
      BY <2>2, <3>1, <3>2, <3>3, TypeOK, PruneFacts DEF SpawnFails, TypeOK, events
  <2>3. ASSUME NEW s \in Session, NEW op \in Calls, NEW q \in Queries, Call(t, s, op, q)
        PROVE  TypeOK'
    <3>1. pc' \in [Thread -> PCs]
      BY <2>3, TypeOK DEF Call, PCs, Thread
    <3>2. job' \in [Thread -> Job]
      <4>1. [s |-> s, op |-> op, q |-> q, want |-> FALSE] \in Job
        BY JobType DEF Ops
      <4> QED
        BY <2>3, <4>1, TypeOK DEF Call, TypeOK, Thread
    <3> QED
      BY <2>3, <3>1, <3>2, TypeOK DEF Call, TypeOK, store, flags, age, marks, events
  <2> QED BY <1>4, <2>1, <2>2, <2>3 DEF Ask
<1>5. ASSUME Environment
      PROVE  TypeOK'
  <2>1. ASSUME NEW mine \in SUBSET Session, NEW b \in BOOLEAN, Drain(mine, b)
        PROVE  TypeOK'
    BY <2>1, TypeOK DEF Drain, store, flags, age, marks, events, threads, TypeOK,
       Thread, PCs
  <2>2. ASSUME NEW s \in Session, ProcessEnds(s)
        PROVE  TypeOK'
    BY <2>2, TypeOK DEF ProcessEnds, store, flags, age, marks, events, threads, TypeOK,
       Thread, PCs
  <2>3. CASE StartAges
    BY <2>3, TypeOK DEF StartAges, store, flags, age, marks, events, threads, TypeOK,
       Thread, PCs
  <2>4. ASSUME NEW kept \in SUBSET alive, Restart(kept)
        PROVE  TypeOK'
    <3>1. file' \in [Session -> Entry] /\ snap' \in [Thread -> [Session -> Entry]]
      BY <2>4, TypeOK DEF Restart, TypeOK, Entry
    <3>2. reason' \in [Session -> Reason] /\ pc' \in [Thread -> PCs] /\ job' \in [Thread -> Job]
      BY <2>4 DEF Restart, Reason, PCs
    <3> QED
      BY <2>4, <3>1, <3>2, TypeOK DEF Restart, TypeOK
  <2>5. ASSUME NEW s \in Session, FallsSilent(s)
        PROVE  TypeOK'
    BY <2>5, TypeOK DEF FallsSilent, store, flags, age, marks, events, threads, TypeOK
  <2> QED BY <1>5, <2>1, <2>2, <2>3, <2>4, <2>5 DEF Environment
<1>6. CASE UNCHANGED vars
  BY <1>6, TypeOK DEF vars, store, flags, age, marks, events, threads, store, flags,
     age, marks, events, threads, TypeOK, Thread
<1> QED BY <1>2, <1>3, <1>4, <1>5, <1>6 DEF Next

LEMMA TypeInit == Init => TypeOK
  BY RegistryAssumption, NoJobType, NoFileType DEF Init, TypeOK, Reason, PCs

\* Every variable keeps its type, whatever the sessions, threads and bounds: in
\* particular no step leaves a session outside the tables' key space or a thread
\* without a next step.
THEOREM TypeCorrect == Spec => []TypeOK
  BY TypeInit, TypeStep, PTL DEF Spec


-----------------------------------------------------------------------------
(* Threads and their sessions *)

LEMMA ThreadAdvances ==
  ASSUME TypeOK, NEW w \in Thread,
         (w \in Session /\ ReaderStep(w)) \/ (w \in Tool /\ ToolStep(w))
  PROVE  Advances(w)
<1> USE TypeOK DEF TypeOK, Thread, Job
<1>1. ASSUME NEW t \in Thread, Step(t)
      PROVE  Advances(t)
  <2>1. CASE CollectEntries(t)
    BY <2>1 DEF CollectEntries, Goto, Advances
  <2>2. CASE WriteFile(t)
    BY <2>2 DEF WriteFile, Return, Goto, Advances
  <2>3. CASE Move(t)
    BY <2>3 DEF Move, Mine, Goto, Advances
  <2>4. CASE QueueCompletion(t)
    BY <2>4 DEF QueueCompletion, Return, Mine, Goto, Advances
  <2> QED BY <1>1, <2>1, <2>2, <2>3, <2>4 DEF Step
<1>2. ASSUME NEW s \in Session, ReaderStep(s)
      PROVE  Advances(s)
  <2>1. CASE ReaderEnds(s)
    BY <2>1 DEF ReaderEnds, Goto, Advances
  <2>2. CASE PollerWakes(s)
    BY <2>2 DEF PollerWakes, Return, Goto, Advances
  <2>3. CASE PollerFindsAlive(s)
    BY <2>3 DEF PollerFindsAlive, Goto, Advances
  <2>4. CASE PollerFindsExit(s)
    BY <2>4 DEF PollerFindsExit, Goto, Advances
  <2>5. CASE PollerLosesBackend(s)
    BY <2>5 DEF PollerLosesBackend, Goto, Advances
  <2> QED BY <1>2, <1>1, <2>1, <2>2, <2>3, <2>4, <2>5 DEF ReaderStep, Thread
<1>3. ASSUME NEW t \in Tool, ToolStep(t)
      PROVE  Advances(t)
  <2>1. CASE Register(t)
    BY <2>1 DEF Register, Mine, Goto, Advances
  <2>2. CASE SetFlags(t)
    BY <2>2 DEF SetFlags, Return, Mine, Goto, Advances
  <2>3. CASE Look(t)
    BY <2>3 DEF Look, Mine, Goto, Advances
  <2>4. CASE Mark(t)
    BY <2>4 DEF Mark, Mine, Goto, Advances
  <2>5. CASE PollReturns(t)
    BY <2>5 DEF PollReturns, Return, Mine, Goto, Advances
  <2>6. CASE WaitReturns(t)
    BY <2>6 DEF WaitReturns, Return, Mine, Goto, Advances
  <2>7. CASE WaitGoesOn(t)
    BY <2>7 DEF WaitGoesOn, Mine, Goto, Advances
  <2>8. CASE LogReturns(t)
    BY <2>8 DEF LogReturns, Return, Mine, Goto, Advances
  <2>9. CASE KillFindsExited(t)
    BY <2>9 DEF KillFindsExited, Return, Mine, Goto, Advances
  <2>10. CASE KillStarts(t)
    BY <2>10 DEF KillStarts, Mine, Goto, Advances
  <2>11. CASE Signal(t)
    BY <2>11 DEF Signal, Return, Mine, Goto, Advances
  <2>12. CASE SignalFindsGone(t)
    BY <2>12 DEF SignalFindsGone, Mine, Goto, Advances
  <2>13. CASE MarkKilled(t)
    BY <2>13 DEF MarkKilled, Mine, Goto, Advances
  <2> QED BY <1>3, <1>1, <2>1, <2>2, <2>3, <2>4, <2>5, <2>6, <2>7, <2>8, <2>9, <2>10,
     <2>11, <2>12, <2>13 DEF ToolStep, Thread
<1> QED BY <1>2, <1>3

LEMMA ThreadTouches ==
  ASSUME TypeOK, JobInv, NEW w \in Thread,
         (w \in Session /\ ReaderStep(w)) \/ (w \in Tool /\ ToolStep(w))
  PROVE  Touches(w)
<1>1. ASSUME NEW t \in Thread, Step(t)
      PROVE  Touches(t)
  <2>1. CASE CollectEntries(t)
    BY <2>1 DEF CollectEntries, Goto, Touches, store, flags, age, events
  <2>2. CASE WriteFile(t)
    BY <2>2 DEF WriteFile, Goto, Touches, store, flags, age, events
  <2>3. CASE Move(t)
    BY <2>3 DEF Move, Mine, Goto, Touches, store, flags, age, events
  <2>4. CASE QueueCompletion(t)
    BY <2>4, TypeOK DEF QueueCompletion, Mine, Goto, Touches, store, flags, age, events,
       TypeOK
  <2> QED BY <1>1, <2>1, <2>2, <2>3, <2>4 DEF Step
<1>2. ASSUME NEW s \in Session, ReaderStep(s)
      PROVE  Touches(s)
  <2>1. CASE ReaderEnds(s)
    BY <2>1, JobInv DEF ReaderEnds, MarkExited, Goto, Touches, store, flags, age,
       events, JobInv, OwnInv
  <2>2. CASE PollerWakes(s)
    BY <2>2 DEF PollerWakes, Goto, Touches, store, flags, age, events
  <2>3. CASE PollerFindsAlive(s)
    BY <2>3 DEF PollerFindsAlive, Goto, Touches, store, flags, age, events
  <2>4. CASE PollerFindsExit(s)
    BY <2>4, JobInv DEF PollerFindsExit, MarkExited, Goto, Touches, store, flags, age,
       events, JobInv, OwnInv
  <2>5. CASE PollerLosesBackend(s)
    BY <2>5, JobInv DEF PollerLosesBackend, Goto, Touches, store, flags, age, events,
       JobInv, OwnInv
  <2> QED BY <1>2, <1>1, <2>1, <2>2, <2>3, <2>4, <2>5 DEF ReaderStep, Thread
<1>3. ASSUME NEW t \in Tool, ToolStep(t)
      PROVE  Touches(t)
  <2>1. CASE Register(t)
    BY <2>1, PruneFacts DEF Register, Mine, Goto, Touches, store, flags, age, events
  <2>2. CASE SetFlags(t)
    BY <2>2 DEF SetFlags, Mine, Goto, Touches, store, flags, age, events
  <2>3. CASE Look(t)
    BY <2>3 DEF Look, Mine, Goto, Touches, store, flags, age, events
  <2>4. CASE Mark(t)
    BY <2>4 DEF Mark, MarkExited, Mine, Goto, Touches, store, flags, age, events
  <2>5. CASE PollReturns(t)
    BY <2>5 DEF PollReturns, Mine, Goto, Touches, store, flags, age, events
  <2>6. CASE WaitReturns(t)
    BY <2>6 DEF WaitReturns, Mine, Goto, Touches, store, flags, age, events
  <2>7. CASE WaitGoesOn(t)
    BY <2>7 DEF WaitGoesOn, Mine, Goto, Touches, store, flags, age, events
  <2>8. CASE LogReturns(t)
    BY <2>8 DEF LogReturns, Mine, Goto, Touches, store, flags, age, events
  <2>9. CASE KillFindsExited(t)
    BY <2>9 DEF KillFindsExited, Mine, Goto, Touches, store, flags, age, events
  <2>10. CASE KillStarts(t)
    BY <2>10 DEF KillStarts, Mine, Goto, Touches, store, flags, age, events
  <2>11. CASE Signal(t)
    BY <2>11 DEF Signal, Return, Mine, Goto, Touches, store, flags, age, events
  <2>12. CASE SignalFindsGone(t)
    BY <2>12 DEF SignalFindsGone, Mine, Goto, Touches, store, flags, age, events
  <2>13. CASE MarkKilled(t)
    BY <2>13 DEF MarkKilled, Mine, Goto, Touches, store, flags, age, events
  <2> QED BY <1>3, <1>1, <2>1, <2>2, <2>3, <2>4, <2>5, <2>6, <2>7, <2>8, <2>9, <2>10,
     <2>11, <2>12, <2>13 DEF ToolStep, Thread
<1> QED BY <1>2, <1>3

LEMMA JobInit == Init => JobInv
  BY DEF Init, JobInv, BusyInv, OwnInv, PollInv, FreshInv, Thread


LEMMA PollStep ==
  ASSUME TypeOK, JobInv, NEW w \in Thread,
         (w \in Session /\ ReaderStep(w)) \/ (w \in Tool /\ ToolStep(w))
  PROVE  PollInv'
<1> USE TypeOK, RegistryAssumption DEF TypeOK, Thread
<1>1. ASSUME NEW t \in Thread, Step(t)
      PROVE  PollInv'
  <2>1. CASE CollectEntries(t)
    BY <2>1, JobInv DEF CollectEntries, Goto, JobInv, PollInv
  <2>2. CASE WriteFile(t)
    BY <2>2, JobInv DEF WriteFile, Return, Goto, JobInv, PollInv
  <2>3. CASE Move(t)
    BY <2>3, JobInv DEF Move, Mine, Goto, JobInv, PollInv
  <2>4. CASE QueueCompletion(t)
    BY <2>4, JobInv DEF QueueCompletion, Return, Mine, Goto, JobInv, PollInv
  <2> QED BY <1>1, <2>1, <2>2, <2>3, <2>4 DEF Step
<1>2. ASSUME NEW s \in Session, ReaderStep(s)
      PROVE  PollInv'
  <2>1. CASE ReaderEnds(s)
    BY <2>1, JobInv DEF ReaderEnds, MarkExited, Goto, JobInv, PollInv
  <2>2. CASE PollerWakes(s)
    BY <2>2, JobInv DEF PollerWakes, Return, Goto, JobInv, PollInv
  <2>3. CASE PollerFindsAlive(s)
    BY <2>3, JobInv DEF PollerFindsAlive, Goto, JobInv, PollInv
  <2>4. CASE PollerFindsExit(s)
    BY <2>4, JobInv DEF PollerFindsExit, MarkExited, Goto, JobInv, PollInv
  <2>5. CASE PollerLosesBackend(s)
    BY <2>5, JobInv DEF PollerLosesBackend, Goto, JobInv, PollInv
  <2> QED BY <1>2, <1>1, <2>1, <2>2, <2>3, <2>4, <2>5 DEF ReaderStep, Thread
<1>3. ASSUME NEW t \in Tool, ToolStep(t)
      PROVE  PollInv'
  <2>1. CASE Register(t)
    BY <2>1, JobInv DEF Register, Mine, Goto, JobInv, PollInv
  <2>2. CASE SetFlags(t)
    BY <2>2, JobInv DEF SetFlags, Return, Mine, Goto, JobInv, PollInv
  <2>3. CASE Look(t)
    BY <2>3, JobInv DEF Look, SeesDeath, Mine, Goto, JobInv, PollInv
  <2>4. CASE Mark(t)
    BY <2>4, JobInv DEF Mark, MarkExited, Mine, Goto, JobInv, PollInv
  <2>5. CASE PollReturns(t)
    BY <2>5, JobInv DEF PollReturns, Return, Name, Mine, Goto, JobInv, PollInv
  <2>6. CASE WaitReturns(t)
    BY <2>6, JobInv DEF WaitReturns, Return, Consume, Name, Mine, Goto, JobInv, PollInv
  <2>7. CASE WaitGoesOn(t)
    BY <2>7, JobInv DEF WaitGoesOn, Mine, Goto, JobInv, PollInv
  <2>8. CASE LogReturns(t)
    BY <2>8, JobInv DEF LogReturns, Return, Consume, Name, Mine, Goto, JobInv, PollInv
  <2>9. CASE KillFindsExited(t)
    BY <2>9, JobInv DEF KillFindsExited, Return, ConsumeKill, Consume, Name, Mine, Goto,
       JobInv, PollInv
  <2>10. CASE KillStarts(t)
    BY <2>10, JobInv DEF KillStarts, Mine, Goto, JobInv, PollInv
  <2>11. CASE Signal(t)
    BY <2>11, JobInv DEF Signal, Return, Mine, Goto, JobInv, PollInv
  <2>12. CASE SignalFindsGone(t)
    BY <2>12, JobInv DEF SignalFindsGone, ConsumeKill, Consume, Name, Mine, Goto,
       JobInv, PollInv
  <2>13. CASE MarkKilled(t)
    BY <2>13, JobInv DEF MarkKilled, ConsumeKill, Consume, Name, Mine, Goto, JobInv,
       PollInv
  <2> QED BY <1>3, <1>1, <2>1, <2>2, <2>3, <2>4, <2>5, <2>6, <2>7, <2>8, <2>9, <2>10,
     <2>11, <2>12, <2>13 DEF ToolStep, Thread
<1> QED BY <1>2, <1>3

LEMMA JobStep == TypeOK /\ JobInv /\ [Next]_vars => JobInv'
<1> SUFFICES ASSUME TypeOK, JobInv, [Next]_vars
             PROVE  JobInv'
  OBVIOUS
<1> USE RegistryAssumption
<1>1. ASSUME NEW t \in Thread, (t \in Session /\ ReaderStep(t)) \/ (t \in Tool /\ ToolStep(t))
      PROVE  JobInv'
  <2>1. Advances(t) /\ Touches(t)
    BY <1>1, ThreadAdvances, ThreadTouches
  <2>2. BusyInv' /\ OwnInv' /\ FreshInv'
    <3>1. rank[job[t].s] > 0
      BY <2>1, <1>1 DEF Advances, JobInv, BusyInv, Thread
    <3>2. BusyInv' /\ OwnInv'
      BY <2>1 DEF Advances, Touches, JobInv, BusyInv, OwnInv, Thread
    <3>3. FreshInv'
      BY <2>1, <3>1 DEF Touches, JobInv, FreshInv
    <3> QED BY <3>2, <3>3
  <2>3. PollInv'
    BY <1>1, PollStep
  <2> QED BY <2>2, <2>3 DEF JobInv
<1>2. ASSUME NEW t \in Tool, Ask(t)
      PROVE  JobInv'
  <2>1. ASSUME NEW s \in Session, NEW want \in BOOLEAN, Spawn(t, s, want)
        PROVE  JobInv'
    <3>1. /\ \A u \in Thread \ {s, t} : pc'[u] = pc[u] /\ job'[u] = job[u]
          /\ pc'[t] = "register" /\ pc'[s] = "reading" /\ job'[t].s = s /\ job'[s].s = s
      BY <2>1, TypeOK DEF Spawn, TypeOK, Thread
    <3>2. rank'[s] > 0 /\ \A u \in Session \ {s} : rank'[u] = rank[u]
      BY <2>1, TypeOK DEF Spawn, NewSession, TypeOK
    <3>3. BusyInv'
      <4>1. rank[s] = 0 /\ \A u \in Thread : job[u].s \in Session
        BY <2>1, TypeOK DEF Spawn, NewSession, TypeOK, Job
      <4> QED BY <3>1, <3>2, <4>1 DEF JobInv, BusyInv, Thread
    <3>4. OwnInv' /\ PollInv'
      BY <3>1 DEF JobInv, OwnInv, PollInv, Thread
    <3>5. FreshInv'
      BY <2>1, <3>2 DEF Spawn, JobInv, FreshInv, store, events
    <3> QED BY <3>3, <3>4, <3>5 DEF JobInv
  <2>2. ASSUME NEW s \in Session, NEW want \in BOOLEAN, SpawnFails(t, s, want)
        PROVE  JobInv'
    <3>1. BusyInv' /\ OwnInv'
      BY <2>2, TypeOK DEF SpawnFails, Goto, JobInv, BusyInv, OwnInv, TypeOK, Thread
    <3>2. PollInv' /\ FreshInv'
      BY <2>2, TypeOK, PruneFacts DEF SpawnFails, Goto, JobInv, PollInv, FreshInv, TypeOK, Thread, events
    <3> QED BY <3>1, <3>2 DEF JobInv
  <2>3. ASSUME NEW s \in Session, NEW op \in Calls, NEW q \in Queries, Call(t, s, op, q)
        PROVE  JobInv'
    <3>1. rank[s] > 0
      BY <2>3, TypeOK DEF Call, Resolves, Tracked, JobInv, FreshInv, TypeOK
    <3>2. BusyInv' /\ OwnInv'
      BY <2>3, <3>1, TypeOK DEF Call, Goto, JobInv, BusyInv, OwnInv, TypeOK, Thread, age
    <3>3. PollInv' /\ FreshInv'
      BY <2>3, TypeOK DEF Call, Goto, JobInv, PollInv, FreshInv, TypeOK, Thread, store, flags, age, events
    <3> QED BY <3>2, <3>3 DEF JobInv
  <2> QED BY <1>2, <2>1, <2>2, <2>3 DEF Ask
<1>3. ASSUME Environment
      PROVE  JobInv'
  <2>1. ASSUME NEW mine \in SUBSET Session, NEW b \in BOOLEAN, Drain(mine, b)
        PROVE  JobInv'
    BY <2>1 DEF Drain, JobInv, BusyInv, OwnInv, PollInv, FreshInv, store, flags, age, threads
  <2>2. ASSUME NEW s \in Session, ProcessEnds(s)
        PROVE  JobInv'
    BY <2>2 DEF ProcessEnds, JobInv, BusyInv, OwnInv, PollInv, FreshInv, store, flags, age,
       events, threads
  <2>3. CASE StartAges
    BY <2>3 DEF StartAges, JobInv, BusyInv, OwnInv, PollInv, FreshInv, store, flags, events, threads
  <2>4. ASSUME NEW kept \in SUBSET alive, Restart(kept)
        PROVE  JobInv'
    BY <2>4, TypeOK DEF Restart, JobInv, BusyInv, OwnInv, PollInv, FreshInv, TypeOK, Thread
  <2>5. ASSUME NEW s \in Session, FallsSilent(s)
        PROVE  JobInv'
    BY <2>5 DEF FallsSilent, JobInv, BusyInv, OwnInv, PollInv, FreshInv, store, flags, age,
       events, threads
  <2> QED BY <1>3, <2>1, <2>2, <2>3, <2>4, <2>5 DEF Environment
<1>4. CASE UNCHANGED vars
  BY <1>4 DEF vars, store, flags, age, events, threads, JobInv, BusyInv, OwnInv, PollInv, FreshInv
<1>5. CASE Next
  <2>1. CASE \E s \in Session : ReaderStep(s)
    <3>1. PICK s \in Session : ReaderStep(s)
      BY <2>1
    <3>2. s \in Thread
      BY DEF Thread
    <3> QED BY <3>1, <3>2, <1>1
  <2>2. CASE \E t \in Tool : ToolStep(t) \/ Ask(t)
    BY <2>2, <1>1, <1>2 DEF Thread
  <2> QED BY <1>5, <2>1, <2>2, <1>3 DEF Next
<1> QED BY <1>4, <1>5

-----------------------------------------------------------------------------
(* No session is announced twice *)

LEMMA ThreadKeeps ==
  ASSUME TypeOK, NEW w \in Thread,
         (w \in Session /\ ReaderStep(w)) \/ (w \in Tool /\ ToolStep(w))
  PROVE  Keeps(w) \/ Register(w) \/ Move(w) \/ QueueCompletion(w)
<1> USE TypeOK DEF TypeOK, Thread, Moving
<1>1. ASSUME NEW t \in Thread, Step(t)
      PROVE  Keeps(t) \/ Register(t) \/ Move(t) \/ QueueCompletion(t)
  <2>1. CASE CollectEntries(t)
    BY <2>1 DEF CollectEntries, Goto, Keeps, store, events
  <2>2. CASE WriteFile(t)
    BY <2>2 DEF WriteFile, Return, Goto, Keeps, store, events
  <2>3. CASE Move(t)
    BY <2>3
  <2>4. CASE QueueCompletion(t)
    BY <2>4
  <2> QED BY <1>1, <2>1, <2>2, <2>3, <2>4 DEF Step
<1>2. ASSUME NEW s \in Session, ReaderStep(s)
      PROVE  Keeps(s) \/ Register(s) \/ Move(s) \/ QueueCompletion(s)
  <2>1. CASE ReaderEnds(s)
    BY <2>1 DEF ReaderEnds, Goto, Keeps, store, events
  <2>2. CASE PollerWakes(s)
    BY <2>2 DEF PollerWakes, Return, Goto, Keeps, store, events
  <2>3. CASE PollerFindsAlive(s)
    BY <2>3 DEF PollerFindsAlive, Goto, Keeps, store, events
  <2>4. CASE PollerFindsExit(s)
    BY <2>4 DEF PollerFindsExit, Goto, Keeps, store, events
  <2>5. CASE PollerLosesBackend(s)
    BY <2>5 DEF PollerLosesBackend, Goto, Keeps, store, events
  <2> QED BY <1>2, <1>1, <2>1, <2>2, <2>3, <2>4, <2>5 DEF ReaderStep, Thread
<1>3. ASSUME NEW t \in Tool, ToolStep(t)
      PROVE  Keeps(t) \/ Register(t) \/ Move(t) \/ QueueCompletion(t)
  <2>1. CASE Register(t)
    BY <2>1
  <2>2. CASE SetFlags(t)
    BY <2>2 DEF SetFlags, Return, Goto, Keeps, store, events
  <2>3. CASE Look(t)
    BY <2>3 DEF Look, Goto, Keeps, store, events
  <2>4. CASE Mark(t)
    BY <2>4 DEF Mark, Goto, Keeps, store, events
  <2>5. CASE PollReturns(t)
    BY <2>5 DEF PollReturns, Return, Goto, Keeps, store, events
  <2>6. CASE WaitReturns(t)
    BY <2>6 DEF WaitReturns, Return, Goto, Keeps, store, events
  <2>7. CASE WaitGoesOn(t)
    BY <2>7 DEF WaitGoesOn, Goto, Keeps, store, events
  <2>8. CASE LogReturns(t)
    BY <2>8 DEF LogReturns, Return, Goto, Keeps, store, events
  <2>9. CASE KillFindsExited(t)
    BY <2>9 DEF KillFindsExited, Return, Goto, Keeps, store, events
  <2>10. CASE KillStarts(t)
    BY <2>10 DEF KillStarts, Goto, Keeps, store, events
  <2>11. CASE Signal(t)
    BY <2>11 DEF Signal, Return, Goto, Keeps, store, events
  <2>12. CASE SignalFindsGone(t)
    BY <2>12 DEF SignalFindsGone, Goto, Keeps, store, events
  <2>13. CASE MarkKilled(t)
    BY <2>13 DEF MarkKilled, Goto, Keeps, store, events
  <2> QED BY <1>3, <1>1, <2>1, <2>2, <2>3, <2>4, <2>5, <2>6, <2>7, <2>8, <2>9, <2>10,
     <2>11, <2>12, <2>13 DEF ToolStep, Thread
<1> QED BY <1>2, <1>3

LEMMA OnceInit == Init => OnceInv
  BY DEF Init, OnceInv, HeldByTool, HeldByTable, HeldByMove, CompletionOnce, Thread

LEMMA OnceKept ==
  ASSUME TypeOK, OnceInv, NEW t \in Thread, Advances(t), Keeps(t)
  PROVE  OnceInv'
<1>1. \A u \in popped : job'[u].s = job[u].s /\ pc'[u] \in Moving
  BY DEF OnceInv, HeldByMove, Advances, Keeps, Moving, TypeOK
<1>2. \A u \in Tool : pc'[u] = "register" => pc[u] = "register" /\ job'[u].s = job[u].s
  BY DEF Advances, Keeps, Thread
<1>3. HeldByTool'
  BY <1>1, <1>2 DEF OnceInv, HeldByTool, Keeps
<1>4. HeldByTable' /\ HeldByMove' /\ CompletionOnce'
  BY <1>1 DEF OnceInv, HeldByTable, HeldByMove, CompletionOnce, Keeps
<1> QED BY <1>3, <1>4 DEF OnceInv

LEMMA ReadersNeverRegister ==
  ASSUME NEW s \in Session, ReaderStep(s), Register(s)
  PROVE  FALSE
  BY DEF ReaderStep, Step, CollectEntries, WriteFile, Move, QueueCompletion, ReaderEnds,
     PollerWakes, PollerFindsAlive, PollerFindsExit, PollerLosesBackend, Register

LEMMA OnceRegister ==
  ASSUME TypeOK, OnceInv, NEW t \in Tool, Register(t)
  PROVE  OnceInv'
<1> DEFINE s == job[t].s
<1>1. /\ running' = running \cup {s} /\ popped' = popped /\ announced' = announced /\ job' = job
      /\ pc[t] = "register" /\ pc' = [pc EXCEPT ![t] = "checkpoint"]
  BY DEF Register, Mine, Goto, events
<1>2. /\ s \notin running /\ announced[s] = 0
      /\ \A u \in popped : job[u].s # s
      /\ \A u \in Tool : pc[u] = "register" /\ job[u].s = s => u = t
  BY <1>1 DEF OnceInv, HeldByTool
<1>3. \A u \in Thread \ {t} : pc'[u] = pc[u]
  BY <1>1, TypeOK DEF TypeOK
<1>4. pc'[t] = "checkpoint" /\ t \notin popped
  BY <1>1, TypeOK DEF TypeOK, OnceInv, HeldByMove, Moving, Thread
<1>5. HeldByTool'
  BY <1>1, <1>2, <1>3, <1>4 DEF OnceInv, HeldByTool, Thread
<1>6. HeldByTable'
  BY <1>1, <1>2 DEF OnceInv, HeldByTable
<1>7. HeldByMove'
  BY <1>1, <1>3, <1>4, TypeOK DEF OnceInv, HeldByMove, TypeOK
<1> QED BY <1>1, <1>5, <1>6, <1>7 DEF OnceInv, CompletionOnce

LEMMA OnceMove ==
  ASSUME TypeOK, OnceInv, NEW t \in Thread, Move(t)
  PROVE  OnceInv'
<1> DEFINE s == job[t].s
<1>1. /\ running' = running \ {s} /\ announced' = announced /\ job' = job
      /\ pc[t] = "move" /\ pc' = [pc EXCEPT ![t] = "snapshot"]
      /\ popped' = IF s \in running THEN popped \cup {t} ELSE popped
  BY DEF Move, Mine, Goto, events
<1>2. \A u \in Thread \ {t} : pc'[u] = pc[u]
  BY <1>1, TypeOK DEF TypeOK
<1>3. pc'[t] = "snapshot"
  BY <1>1, TypeOK DEF TypeOK
<1>4. \A u \in Tool : pc'[u] = "register" => u # t /\ pc[u] = "register"
  BY <1>2, <1>3 DEF Thread
<1>5. HeldByTool'
  <2>1. \A u \in Tool : pc[u] = "register" => job[u].s \notin running
    BY DEF OnceInv, HeldByTool
  <2> QED BY <1>1, <1>4, <2>1 DEF OnceInv, HeldByTool
<1>6. HeldByTable'
  BY <1>1 DEF OnceInv, HeldByTable
<1>7. HeldByMove'
  <2>1. CASE s \in running
    <3>1. popped' = popped \cup {t} /\ announced[s] = 0 /\ \A u \in popped : job[u].s # s
      BY <1>1, <2>1 DEF OnceInv, HeldByTable
    <3>2. \A u \in popped' : pc'[u] \in Moving
      BY <3>1, <1>2, <1>3, TypeOK DEF OnceInv, HeldByMove, Moving, TypeOK
    <3> QED BY <1>1, <3>1, <3>2 DEF OnceInv, HeldByMove
  <2>2. CASE s \notin running
    <3>1. \A u \in popped : pc'[u] \in Moving
      BY <1>2, <1>3, TypeOK DEF OnceInv, HeldByMove, Moving, TypeOK
    <3> QED BY <1>1, <2>2, <3>1 DEF OnceInv, HeldByMove
  <2> QED BY <2>1, <2>2
<1> QED BY <1>1, <1>5, <1>6, <1>7 DEF OnceInv, CompletionOnce

LEMMA OnceQueue ==
  ASSUME TypeOK, OnceInv, NEW t \in Thread, QueueCompletion(t), Advances(t)
  PROVE  OnceInv'
<1> DEFINE s == job[t].s
<1>1. running' = running /\ popped' = popped \ {t} /\ pc[t] = "queue"
  BY DEF QueueCompletion, store
<1>2. \A u \in popped' : job'[u] = job[u] /\ pc'[u] = pc[u]
  BY <1>1, TypeOK DEF Advances, TypeOK
<1>3. \A u \in Tool : pc'[u] = "register" => u # t /\ pc[u] = "register" /\ job'[u] = job[u]
  <2>1. pc'[t] # "register"
    BY TypeOK DEF QueueCompletion, Return, Goto, TypeOK
  <2> QED BY <2>1 DEF Advances, Thread
<1>4. CASE announced' = announced
  <2>1. HeldByTool'
    BY <1>1, <1>2, <1>3, <1>4 DEF OnceInv, HeldByTool
  <2>2. HeldByTable' /\ HeldByMove' /\ CompletionOnce'
    BY <1>1, <1>2, <1>4 DEF OnceInv, HeldByTable, HeldByMove, CompletionOnce
  <2> QED BY <2>1, <2>2 DEF OnceInv
<1>5. CASE announced' # announced
  <2>1. t \in popped /\ announced' = [announced EXCEPT ![s] = @ + 1] /\ s \in Session
    BY <1>5, TypeOK DEF QueueCompletion, Mine, TypeOK, Job
  <2>2. /\ announced[s] = 0 /\ s \notin running
        /\ \A u \in popped : job[u].s = s => u = t
        /\ \A u \in Tool : pc[u] = "register" => job[u].s # s
    BY <2>1 DEF OnceInv, HeldByMove, HeldByTable, HeldByTool
  <2>3. \A r \in Session \ {s} : announced'[r] = announced[r]
    BY <2>1, TypeOK DEF TypeOK
  <2>4. announced'[s] = 1
    BY <2>1, <2>2, TypeOK DEF TypeOK
  <2>5. \A u \in Thread : job[u].s \in Session
    BY TypeOK DEF TypeOK, Job
  <2>6. HeldByTool'
    BY <1>1, <1>2, <1>3, <2>2, <2>3, <2>5 DEF OnceInv, HeldByTool, Thread
  <2>7. HeldByTable'
    BY <1>1, <1>2, <2>2, <2>3, TypeOK DEF OnceInv, HeldByTable, TypeOK
  <2>8. HeldByMove'
    BY <1>1, <1>2, <2>2, <2>3, <2>5, TypeOK DEF OnceInv, HeldByMove, TypeOK
  <2>9. CompletionOnce'
    BY <2>3, <2>4 DEF OnceInv, CompletionOnce
  <2> QED BY <2>6, <2>7, <2>8, <2>9 DEF OnceInv
<1> QED BY <1>4, <1>5

\* A thread that starts a call or a failed spawn holds no right to announce.
LEMMA OnceAsk ==
  ASSUME TypeOK, OnceInv, NEW t \in Tool, pc[t] = "idle", pc'[t] # "register",
         \A u \in Thread \ {t} : pc'[u] = pc[u] /\ job'[u] = job[u],
         running' = running, popped' = popped, announced' = announced
  PROVE  OnceInv'
<1>1. \A u \in popped : pc'[u] = pc[u] /\ job'[u] = job[u]
  BY DEF OnceInv, HeldByMove, Moving, TypeOK
<1>2. \A u \in Tool : pc'[u] = "register" => pc[u] = "register" /\ job'[u] = job[u]
  BY DEF Thread
<1>3. HeldByTool'
  BY <1>1, <1>2 DEF OnceInv, HeldByTool
<1> QED BY <1>1, <1>3 DEF OnceInv, HeldByTable, HeldByMove, CompletionOnce

LEMMA OnceStep == TypeOK /\ JobInv /\ OnceInv /\ [Next]_vars => OnceInv'
<1> SUFFICES ASSUME TypeOK, JobInv, OnceInv, [Next]_vars
             PROVE  OnceInv'
  OBVIOUS
<1>1. ASSUME NEW t \in Thread, (t \in Session /\ ReaderStep(t)) \/ (t \in Tool /\ ToolStep(t))
      PROVE  OnceInv'
  <2>1. Advances(t)
    BY <1>1, ThreadAdvances
  <2>2. CASE Register(t)
    BY <1>1, <2>2, OnceRegister, ReadersNeverRegister
  <2> QED BY <1>1, <2>1, <2>2, ThreadKeeps, OnceKept, OnceMove, OnceQueue
<1>2. ASSUME NEW t \in Tool, Ask(t)
      PROVE  OnceInv'
  <2>1. ASSUME NEW s \in Session, NEW want \in BOOLEAN, Spawn(t, s, want)
        PROVE  OnceInv'
    <3>1. /\ \A u \in Thread \ {s, t} : pc'[u] = pc[u] /\ job'[u] = job[u]
          /\ pc'[t] = "register" /\ pc'[s] = "reading" /\ job'[t].s = s /\ job'[s].s = s
          /\ pc[t] = "idle" /\ rank[s] = 0
      BY <2>1, TypeOK, RegistryAssumption DEF Spawn, NewSession, TypeOK, Thread
    <3>2. running' = running /\ popped' = popped /\ announced' = announced
      BY <2>1 DEF Spawn, store, events
    <3>3. \A u \in Thread : pc[u] # "idle" => job[u].s # s
      BY <3>1, JobInv DEF JobInv, BusyInv
    <3>4. \A u \in popped : u # t /\ u # s /\ pc[u] # "idle"
      <4>1. \A u \in popped : pc[u] # "idle"
        BY DEF OnceInv, HeldByMove, Moving
      <4>2. s \notin popped
        BY <4>1, <3>3, JobInv DEF JobInv, OwnInv, Thread
      <4> QED BY <4>1, <4>2, <3>1
    <3>5. \A u \in popped : pc'[u] = pc[u] /\ job'[u] = job[u] /\ job[u].s # s
      BY <3>1, <3>3, <3>4, TypeOK DEF TypeOK
    <3>6. s \notin running /\ announced[s] = 0
      BY <3>1, JobInv DEF JobInv, FreshInv
    <3>7. \A u \in Tool \ {t} : pc'[u] = "register" =>
             pc[u] = "register" /\ job'[u] = job[u] /\ job[u].s # s
      BY <3>1, <3>3, RegistryAssumption DEF Thread
    <3>8. HeldByTool'
      BY <3>1, <3>2, <3>5, <3>6, <3>7 DEF OnceInv, HeldByTool
    <3> QED BY <3>2, <3>5, <3>8 DEF OnceInv, HeldByTable, HeldByMove, CompletionOnce
  <2>2. ASSUME NEW s \in Session, NEW want \in BOOLEAN, SpawnFails(t, s, want)
        PROVE  OnceInv'
    <3>1. /\ \A u \in Thread \ {t} : pc'[u] = pc[u] /\ job'[u] = job[u]
          /\ pc'[t] = "flags" /\ pc[t] = "idle"
      BY <2>2, TypeOK DEF SpawnFails, Goto, TypeOK, Thread
    <3>2. running' = running /\ popped' = popped /\ announced' = announced
      BY <2>2 DEF SpawnFails, events
    <3> QED BY <3>1, <3>2, OnceAsk
  <2>3. ASSUME NEW s \in Session, NEW op \in Calls, NEW q \in Queries, Call(t, s, op, q)
        PROVE  OnceInv'
    <3>1. /\ \A u \in Thread \ {t} : pc'[u] = pc[u] /\ job'[u] = job[u]
          /\ pc'[t] = "look" /\ pc[t] = "idle"
      BY <2>3, TypeOK DEF Call, Goto, TypeOK, Thread
    <3>2. running' = running /\ popped' = popped /\ announced' = announced
      BY <2>3 DEF Call, store, events
    <3> QED BY <3>1, <3>2, OnceAsk
  <2> QED BY <1>2, <2>1, <2>2, <2>3 DEF Ask
<1>3. ASSUME Environment
      PROVE  OnceInv'
  <2>1. ASSUME NEW kept \in SUBSET alive, Restart(kept)
        PROVE  OnceInv'
    <3>1. /\ announced' = [s \in Session |-> 0] /\ popped' = {}
          /\ pc' = [t \in Thread |-> "idle"] /\ running' \subseteq Session
      BY <2>1, TypeOK DEF Restart, TypeOK
    <3> QED BY <3>1 DEF OnceInv, HeldByTool, HeldByTable, HeldByMove, CompletionOnce, Thread
  <2>2. CASE running' = running /\ announced' = announced /\ UNCHANGED threads
    BY <2>2 DEF threads, OnceInv, HeldByTool, HeldByTable, HeldByMove, CompletionOnce
  <2> QED
    BY <1>3, <2>1, <2>2 DEF Environment, Drain, ProcessEnds, FallsSilent, StartAges, store, events
<1>4. CASE UNCHANGED vars
  BY <1>4 DEF vars, store, events, threads, OnceInv, HeldByTool, HeldByTable, HeldByMove, CompletionOnce
<1>5. CASE Next
  <2>1. CASE \E s \in Session : ReaderStep(s)
    <3>1. PICK s \in Session : ReaderStep(s)
      BY <2>1
    <3>2. s \in Thread
      BY DEF Thread
    <3> QED BY <3>1, <3>2, <1>1
  <2>2. CASE \E t \in Tool : ToolStep(t) \/ Ask(t)
    BY <2>2, <1>1, <1>2 DEF Thread
  <2> QED BY <1>5, <2>1, <2>2, <1>3 DEF Next
<1> QED BY <1>4, <1>5

\* The completion of a session is queued at most once in a run of the program,
\* however many readers, reconciling queries and kills move it.
THEOREM AnnouncedOnce == Spec => []CompletionOnce
<1>1. Init => TypeOK /\ JobInv /\ OnceInv
  BY TypeInit, JobInit, OnceInit
<1>2. (TypeOK /\ JobInv /\ OnceInv) /\ [Next]_vars => (TypeOK /\ JobInv /\ OnceInv)'
  BY TypeStep, JobStep, OnceStep
<1>3. TypeOK /\ JobInv /\ OnceInv => CompletionOnce
  BY DEF OnceInv
<1> QED BY <1>1, <1>2, <1>3, PTL DEF Spec

-----------------------------------------------------------------------------
(* A recorded kill keeps its reason *)

LEMMA ThreadKeepsKill ==
  ASSUME TypeOK, JobInv, NEW w \in Thread,
         (w \in Session /\ ReaderStep(w)) \/ (w \in Tool /\ ToolStep(w))
  PROVE  KeepsKill
<1> USE TypeOK DEF TypeOK, KeepsKill
<1>1. ASSUME NEW t \in Thread, Step(t)
      PROVE  KeepsKill
  <2>1. CASE CollectEntries(t)
    BY <2>1 DEF CollectEntries, Goto, flags
  <2>2. CASE WriteFile(t)
    BY <2>2 DEF WriteFile, Goto, flags
  <2>3. CASE Move(t)
    BY <2>3 DEF Move, Goto, flags
  <2>4. CASE QueueCompletion(t)
    BY <2>4 DEF QueueCompletion, Goto, flags
  <2> QED BY <1>1, <2>1, <2>2, <2>3, <2>4 DEF Step
<1>2. ASSUME NEW s \in Session, ReaderStep(s)
      PROVE  KeepsKill
  <2>1. CASE ReaderEnds(s)
    BY <2>1 DEF ReaderEnds, MarkExited, Goto, flags
  <2>2. CASE PollerWakes(s)
    BY <2>2 DEF PollerWakes, Goto, flags
  <2>3. CASE PollerFindsAlive(s)
    BY <2>3 DEF PollerFindsAlive, Goto, flags
  <2>4. CASE PollerFindsExit(s)
    BY <2>4 DEF PollerFindsExit, MarkExited, Goto, flags
  <2>5. CASE PollerLosesBackend(s)
    BY <2>5, JobInv DEF PollerLosesBackend, Goto, flags, JobInv, PollInv
  <2> QED BY <1>2, <1>1, <2>1, <2>2, <2>3, <2>4, <2>5 DEF ReaderStep, Thread
<1>3. ASSUME NEW t \in Tool, ToolStep(t)
      PROVE  KeepsKill
  <2>1. CASE Register(t)
    BY <2>1 DEF Register, Goto, flags
  <2>2. CASE SetFlags(t)
    BY <2>2 DEF SetFlags, Goto, flags
  <2>3. CASE Look(t)
    BY <2>3 DEF Look, Goto, flags
  <2>4. CASE Mark(t)
    BY <2>4 DEF Mark, MarkExited, Goto, flags
  <2>5. CASE PollReturns(t)
    BY <2>5 DEF PollReturns, Goto, flags
  <2>6. CASE WaitReturns(t)
    BY <2>6 DEF WaitReturns, Goto, flags
  <2>7. CASE WaitGoesOn(t)
    BY <2>7 DEF WaitGoesOn, Goto, flags
  <2>8. CASE LogReturns(t)
    BY <2>8 DEF LogReturns, Goto, flags
  <2>9. CASE KillFindsExited(t)
    BY <2>9 DEF KillFindsExited, Goto, flags
  <2>10. CASE KillStarts(t)
    BY <2>10 DEF KillStarts, Goto, flags
  <2>11. CASE Signal(t)
    BY <2>11 DEF Signal, Return, Goto, flags
  <2>12. CASE SignalFindsGone(t)
    BY <2>12 DEF SignalFindsGone, Goto, flags
  <2>13. CASE MarkKilled(t)
    BY <2>13 DEF MarkKilled, Goto, flags
  <2> QED BY <1>3, <1>1, <2>1, <2>2, <2>3, <2>4, <2>5, <2>6, <2>7, <2>8, <2>9, <2>10,
     <2>11, <2>12, <2>13 DEF ToolStep, Thread
<1> QED BY <1>2, <1>3

\* A recorded kill of a host session keeps its reason in every step of every
\* thread, reader, reconciling query or second kill.
THEOREM KillsStick == Spec => KillSticks
<1>1. TypeOK /\ JobInv /\ [Next]_vars => [KeepsKill]_vars
  <2> SUFFICES ASSUME TypeOK, JobInv, Next
               PROVE  KeepsKill
    OBVIOUS
  <2>1. ASSUME NEW s \in Session, ReaderStep(s)
        PROVE  KeepsKill
    BY <2>1, ThreadKeepsKill DEF Thread
  <2>2. ASSUME NEW t \in Tool, ToolStep(t)
        PROVE  KeepsKill
    BY <2>2, ThreadKeepsKill DEF Thread
  <2>3. ASSUME NEW t \in Tool, Ask(t)
        PROVE  KeepsKill
    <3>1. ASSUME NEW s \in Session, NEW want \in BOOLEAN, SpawnFails(t, s, want)
          PROVE  KeepsKill
      BY <3>1, TypeOK DEF SpawnFails, KeepsKill, TypeOK
    <3>2. CASE UNCHANGED reason
      BY <3>2 DEF KeepsKill
    <3> QED
      BY <2>3, <3>1, <3>2 DEF Ask, Spawn, Call, flags
  <2>4. CASE Environment
    <3>1. ASSUME NEW kept \in SUBSET alive, Restart(kept)
          PROVE  KeepsKill
      BY <3>1, TypeOK DEF Restart, KeepsKill, TypeOK
    <3>2. CASE UNCHANGED reason
      BY <3>2 DEF KeepsKill
    <3> QED
      BY <2>4, <3>1, <3>2 DEF Environment, Drain, ProcessEnds, FallsSilent, StartAges, flags
  <2> QED BY <2>1, <2>2, <2>3, <2>4 DEF Next
<1>2. (TypeOK /\ JobInv) /\ [Next]_vars => (TypeOK /\ JobInv)'
  BY TypeStep, JobStep
<1>3. Init => TypeOK /\ JobInv
  BY TypeInit, JobInit
<1> QED BY <1>1, <1>2, <1>3, PTL DEF Spec, KillSticks

-----------------------------------------------------------------------------
(* Live host processes stay tracked *)

LEMMA ThreadSpares ==
  ASSUME TypeOK, JobInv, NEW w \in Thread,
         (w \in Session /\ ReaderStep(w)) \/ (w \in Tool /\ ToolStep(w)),
         detached = {},
         Expected(job[w].s) => pc[w] \notin Declares /\ job[w].s \notin exited
  PROVE  Spares(w)
<1> USE TypeOK, RegistryAssumption DEF Thread, Expected, LiveAfter, Declares
<1>1. ASSUME NEW t \in Thread, Step(t), detached = {},
             Expected(job[t].s) => pc[t] \notin Declares /\ job[t].s \notin exited
      PROVE  Spares(t)
  <2>1. CASE CollectEntries(t)
    BY <1>1, <2>1 DEF CollectEntries, Goto, Spares, TypeOK, store, flags
  <2>2. CASE WriteFile(t)
    BY <1>1, <2>2 DEF WriteFile, Return, Goto, Spares, TypeOK, store, flags
  <2>3. CASE Move(t)
    BY <1>1, <2>3 DEF Move, Mine, Goto, Spares, TypeOK, store, flags
  <2>4. CASE QueueCompletion(t)
    BY <1>1, <2>4 DEF QueueCompletion, Return, Mine, Goto, Spares, TypeOK, store, flags
  <2> QED BY <1>1, <2>1, <2>2, <2>3, <2>4 DEF Step
<1>2. ASSUME NEW s \in Session, ReaderStep(s), detached = {},
             Expected(job[s].s) => pc[s] \notin Declares /\ job[s].s \notin exited
      PROVE  Spares(s)
  <2>1. CASE ReaderEnds(s)
    BY <1>2, <2>1, JobInv DEF ReaderEnds, MarkExited, Goto, Spares, TypeOK, store, flags,
       JobInv, OwnInv, PollInv
  <2>2. CASE PollerWakes(s)
    BY <1>2, <2>2, JobInv DEF PollerWakes, Return, Goto, Spares, TypeOK, store, flags, JobInv,
       OwnInv, PollInv
  <2>3. CASE PollerFindsAlive(s)
    BY <1>2, <2>3, JobInv DEF PollerFindsAlive, Goto, Spares, TypeOK, store, flags, JobInv,
       OwnInv, PollInv
  <2>4. CASE PollerFindsExit(s)
    BY <1>2, <2>4, JobInv DEF PollerFindsExit, MarkExited, Goto, Spares, TypeOK, store, flags,
       JobInv, OwnInv, PollInv
  <2>5. CASE PollerLosesBackend(s)
    BY <1>2, <2>5, JobInv DEF PollerLosesBackend, Goto, Spares, TypeOK, store, flags, JobInv,
       OwnInv, PollInv
  <2> QED BY <1>2, <1>1, <2>1, <2>2, <2>3, <2>4, <2>5 DEF ReaderStep, Thread
<1>3. ASSUME NEW t \in Tool, ToolStep(t), detached = {},
             Expected(job[t].s) => pc[t] \notin Declares /\ job[t].s \notin exited
      PROVE  Spares(t)
  <2>1. CASE Register(t)
    BY <1>3, <2>1, PruneFacts DEF Register, Mine, Goto, Spares, TypeOK, store, flags
  <2>2. CASE SetFlags(t)
    BY <1>3, <2>2 DEF SetFlags, Return, Mine, Goto, Spares, TypeOK, store, flags
  <2>3. CASE Look(t)
    BY <1>3, <2>3 DEF Look, SeesDeath, Mine, Goto, Spares, TypeOK, store, flags
  <2>4. CASE Mark(t)
    BY <1>3, <2>4 DEF Mark, MarkExited, Mine, Goto, Spares, TypeOK, store, flags
  <2>5. CASE PollReturns(t)
    BY <1>3, <2>5 DEF PollReturns, Return, Mine, Goto, Spares, TypeOK, store, flags
  <2>6. CASE WaitReturns(t)
    BY <1>3, <2>6 DEF WaitReturns, Return, Mine, Goto, Spares, TypeOK, store, flags
  <2>7. CASE WaitGoesOn(t)
    BY <1>3, <2>7 DEF WaitGoesOn, Mine, Goto, Spares, TypeOK, store, flags
  <2>8. CASE LogReturns(t)
    BY <1>3, <2>8 DEF LogReturns, Return, Mine, Goto, Spares, TypeOK, store, flags
  <2>9. CASE KillFindsExited(t)
    BY <1>3, <2>9 DEF KillFindsExited, Return, Mine, Goto, Spares, TypeOK, store, flags
  <2>10. CASE KillStarts(t)
    BY <1>3, <2>10 DEF KillStarts, Mine, Goto, Spares, TypeOK, store, flags
  <2>11. CASE Signal(t)
    BY <1>3, <2>11 DEF Signal, Return, Mine, Goto, Spares, TypeOK, store, flags
  <2>12. CASE SignalFindsGone(t)
    BY <1>3, <2>12 DEF SignalFindsGone, Mine, Goto, Spares, TypeOK, store, flags
  <2>13. CASE MarkKilled(t)
    BY <1>3, <2>13 DEF MarkKilled, Mine, Goto, Spares, TypeOK, store, flags
  <2> QED BY <1>3, <1>1, <2>1, <2>2, <2>3, <2>4, <2>5, <2>6, <2>7, <2>8, <2>9, <2>10,
     <2>11, <2>12, <2>13 DEF ToolStep, Thread
<1> QED BY <1>2, <1>3

LEMMA LiveInit == Init => LiveInv
  BY DEF Init, LiveInv, Expected

LEMMA LiveThread ==
  ASSUME TypeOK, JobInv, LiveInv, NEW t \in Thread,
         (t \in Session /\ ReaderStep(t)) \/ (t \in Tool /\ ToolStep(t))
  PROVE  LiveInv'
<1> SUFFICES ASSUME crashes' = 0
             PROVE  LiveInv'
  BY DEF LiveInv
<1>1. Advances(t) /\ Touches(t)
  BY ThreadAdvances, ThreadTouches
<1>2. crashes = 0
  BY <1>1 DEF Touches
<1>3. Expected(job[t].s) => pc[t] \notin Declares /\ job[t].s \notin exited
  BY <1>2, TypeOK DEF LiveInv, TypeOK, Job
<1>4. Spares(t)
  BY <1>2, <1>3, ThreadSpares DEF LiveInv
<1>5. detached' = {}
  BY <1>2, <1>4 DEF Spares, LiveInv
<1>6. ASSUME NEW s \in Session, Expected(s)'
      PROVE  /\ s \notin exited'
             /\ s \in running' \/ BeingSpawned(s)'
             /\ \A u \in Thread : pc'[u] \in Declares => job'[u].s # s
  <2>1. /\ s \notin exited
        /\ s \in running \/ BeingSpawned(s)
        /\ \A u \in Thread : pc[u] \in Declares => job[u].s # s
    <3>1. KeepsKill
      BY ThreadKeepsKill
    <3> QED BY <3>1, <1>1, <1>2, <1>6 DEF LiveInv, Expected, Touches, KeepsKill
  <2>2. s \notin exited'
    BY <2>1, <1>1, <1>4, <1>6 DEF Expected, LiveAfter, Touches, Spares
  <2>3. \A u \in Thread : pc'[u] \in Declares => job'[u].s # s
    <3>1. ASSUME pc'[t] \in Declares
          PROVE  job'[t].s # s
      BY <3>1, <1>1, <1>4, <1>6 DEF Expected, LiveAfter, Advances, Spares, Declares
    <3> QED BY <2>1, <3>1, <1>1 DEF Advances
  <2>4. CASE s \in running
    <3>1. s \in running'
      BY <2>4, <1>1, <1>4, <1>6 DEF Expected, LiveAfter, Spares, Touches
    <3> QED BY <2>2, <2>3, <3>1
  <2>5. CASE BeingSpawned(s)
    <3>1. PICK u \in Tool : pc[u] = "register" /\ job[u].s = s
      BY <2>5 DEF BeingSpawned
    <3>2. CASE u = t
      BY <2>2, <2>3, <3>1, <3>2, <1>4, <1>6 DEF Expected, LiveAfter, Spares
    <3>3. CASE u # t
      <4>1. pc'[u] = "register" /\ job'[u].s = s
        BY <3>1, <3>3, <1>1 DEF Advances, Thread
      <4> QED BY <2>2, <2>3, <4>1 DEF BeingSpawned
    <3> QED BY <3>2, <3>3
  <2> QED BY <2>1, <2>4, <2>5
<1> QED BY <1>5, <1>6 DEF LiveInv

\* A call or a failed spawn declares no host process dead.
LEMMA LiveAsk ==
  ASSUME LiveInv, crashes = 0, NEW t \in Tool, pc[t] = "idle", pc'[t] \notin Declares,
         \A u \in Thread \ {t} : pc'[u] = pc[u] /\ job'[u] = job[u],
         running' = running, detached' = detached, alive' = alive,
         \A s \in Session : Kind[s] # "sandbox" => reason'[s] = reason[s],
         \A s \in exited' : s \in exited \/ Kind[s] = "sandbox"
  PROVE  LiveInv'
<1>1. \A s \in Session : BeingSpawned(s) => BeingSpawned(s)'
  <2>1. \A u \in Tool : pc[u] = "register" => pc'[u] = "register" /\ job'[u] = job[u]
    BY DEF Thread
  <2> QED BY <2>1 DEF BeingSpawned
<1>2. \A u \in Thread : pc'[u] \in Declares => pc[u] \in Declares /\ job'[u] = job[u]
  OBVIOUS
<1> QED BY <1>1, <1>2 DEF LiveInv, Expected

LEMMA LiveStep == TypeOK /\ JobInv /\ LiveInv /\ [Next]_vars => LiveInv'
<1> SUFFICES ASSUME TypeOK, JobInv, LiveInv, [Next]_vars
             PROVE  LiveInv'
  OBVIOUS
<1>1. ASSUME NEW t \in Thread, (t \in Session /\ ReaderStep(t)) \/ (t \in Tool /\ ToolStep(t))
      PROVE  LiveInv'
  BY <1>1, LiveThread
<1>2. ASSUME NEW t \in Tool, Ask(t)
      PROVE  LiveInv'
  <2>1. ASSUME NEW s \in Session, NEW want \in BOOLEAN, Spawn(t, s, want), crashes = 0
        PROVE  LiveInv'
    <3>1. /\ \A u \in Thread \ {s, t} : pc'[u] = pc[u] /\ job'[u] = job[u]
          /\ pc'[t] = "register" /\ pc'[s] = "reading" /\ job'[t].s = s
          /\ pc[t] = "idle" /\ rank[s] = 0
      BY <2>1, TypeOK, RegistryAssumption DEF Spawn, NewSession, TypeOK, Thread
    <3>2. \A u \in Thread : pc[u] # "idle" => job[u].s # s
      BY <3>1, JobInv DEF JobInv, BusyInv
    <3>3. pc[s] = "idle"
      BY <3>2, JobInv DEF JobInv, OwnInv, Thread
    <3>4. /\ running' = running /\ exited' = exited /\ detached' = detached
          /\ alive' = alive \cup {s} /\ reason' = reason
      BY <2>1 DEF Spawn, store
    <3>5. s \notin exited
      BY <3>1, JobInv DEF JobInv, FreshInv
    <3>6. \A u \in Thread : pc'[u] \in Declares => pc[u] \in Declares /\ job'[u] = job[u] /\ job[u].s # s
      BY <3>1, <3>2 DEF Declares
    <3>7. BeingSpawned(s)'
      BY <3>1 DEF BeingSpawned
    <3>8. \A r \in Session : BeingSpawned(r) => BeingSpawned(r)'
      <4>1. \A u \in Tool : pc[u] = "register" => pc'[u] = "register" /\ job'[u] = job[u]
        BY <3>1, <3>3 DEF Thread
      <4> QED BY <4>1 DEF BeingSpawned
    <3> QED BY <2>1, <3>4, <3>5, <3>6, <3>7, <3>8 DEF LiveInv, Expected
  <2>2. ASSUME NEW s \in Session, NEW want \in BOOLEAN, SpawnFails(t, s, want), crashes = 0
        PROVE  LiveInv'
    <3>1. /\ \A u \in Thread \ {t} : pc'[u] = pc[u] /\ job'[u] = job[u]
          /\ pc'[t] = "flags" /\ pc[t] = "idle"
      BY <2>2, TypeOK DEF SpawnFails, Goto, TypeOK, Thread
    <3>2. /\ running' = running /\ detached' = detached /\ alive' = alive
          /\ exited' = exited \cup {s} /\ Kind[s] = "sandbox"
          /\ \A u \in Session : Kind[u] # "sandbox" => reason'[u] = reason[u]
      BY <2>2, TypeOK DEF SpawnFails, TypeOK
    <3> QED BY <2>2, <3>1, <3>2, LiveAsk DEF Declares
  <2>3. ASSUME NEW s \in Session, NEW op \in Calls, NEW q \in Queries, Call(t, s, op, q), crashes = 0
        PROVE  LiveInv'
    <3>1. /\ \A u \in Thread \ {t} : pc'[u] = pc[u] /\ job'[u] = job[u]
          /\ pc'[t] = "look" /\ pc[t] = "idle"
      BY <2>3, TypeOK DEF Call, Goto, TypeOK, Thread
    <3>2. /\ running' = running /\ detached' = detached /\ alive' = alive /\ exited' = exited
          /\ reason' = reason
      BY <2>3 DEF Call, store, flags
    <3> QED BY <2>3, <3>1, <3>2, LiveAsk DEF Declares
  <2>4. crashes' = crashes
    BY <1>2 DEF Ask, Spawn, SpawnFails, Call
  <2>5. CASE crashes = 0
    BY <1>2, <2>1, <2>2, <2>3, <2>5 DEF Ask
  <2> QED BY <2>4, <2>5 DEF LiveInv
<1>3. ASSUME Environment
      PROVE  LiveInv'
  <2>1. ASSUME NEW kept \in SUBSET alive, Restart(kept)
        PROVE  LiveInv'
    <3>1. crashes' # 0
      BY <2>1, TypeOK DEF Restart, TypeOK
    <3> QED BY <3>1 DEF LiveInv
  <2>2. CASE /\ UNCHANGED <<running, exited, reason, detached, crashes, threads>>
             /\ alive' \subseteq alive
    BY <2>2 DEF threads, LiveInv, Expected, BeingSpawned
  <2> QED
    BY <1>3, <2>1, <2>2
    DEF Environment, Drain, ProcessEnds, FallsSilent, StartAges, store, flags
<1>4. CASE UNCHANGED vars
  BY <1>4 DEF vars, store, flags, threads, LiveInv, Expected, BeingSpawned
<1>5. CASE Next
  <2>1. CASE \E s \in Session : ReaderStep(s)
    <3>1. PICK s \in Session : ReaderStep(s)
      BY <2>1
    <3>2. s \in Thread
      BY DEF Thread
    <3> QED BY <3>1, <3>2, <1>1
  <2>2. CASE \E t \in Tool : ToolStep(t) \/ Ask(t)
    BY <2>2, <1>1, <1>2 DEF Thread
  <2> QED BY <1>5, <2>1, <2>2, <1>3 DEF Next
<1> QED BY <1>4, <1>5

\* As long as the program does not die, a host process that lives, was not killed, has
\* not closed its output early and is not just being registered is in _running,
\* unmarked.
THEOREM LiveTracked == Spec => []LiveIsTracked
<1>1. Init => TypeOK /\ JobInv /\ LiveInv
  BY TypeInit, JobInit, LiveInit
<1>2. (TypeOK /\ JobInv /\ LiveInv) /\ [Next]_vars => (TypeOK /\ JobInv /\ LiveInv)'
  BY TypeStep, JobStep, LiveStep
<1>3. TypeOK /\ JobInv /\ LiveInv => LiveIsTracked
  BY DEF LiveInv, Expected, LiveIsTracked, TypeOK
<1> QED BY <1>1, <1>2, <1>3, PTL DEF Spec

-----------------------------------------------------------------------------
(* Returned output is not delivered again *)

LEMMA ReturnStep ==
  ASSUME TypeOK, NEW w \in Thread, Return(w)
  PROVE  pc'[w] = "idle"
  BY DEF Return, Goto, TypeOK

LEMMA ThreadRetains ==
  ASSUME TypeOK, NEW w \in Thread,
         (w \in Session /\ ReaderStep(w)) \/ (w \in Tool /\ ToolStep(w))
  PROVE  Retains(w)
<1> USE TypeOK, RegistryAssumption, ReturnStep DEF TypeOK, Thread, Looking
<1>1. ASSUME NEW t \in Thread, Step(t)
      PROVE  Retains(t)
  <2>1. CASE CollectEntries(t)
    BY <2>1 DEF CollectEntries, Goto, Retains, store, age, marks
  <2>2. CASE WriteFile(t)
    BY <2>2 DEF WriteFile, Goto, Retains, store, age, marks
  <2>3. CASE Move(t)
    BY <2>3 DEF Move, Mine, Goto, Retains, store, age, marks
  <2>4. CASE QueueCompletion(t)
    BY <2>4 DEF QueueCompletion, Mine, Goto, Retains, store, age, marks
  <2> QED BY <1>1, <2>1, <2>2, <2>3, <2>4 DEF Step
<1>2. ASSUME NEW s \in Session, ReaderStep(s)
      PROVE  Retains(s)
  <2>1. CASE ReaderEnds(s)
    BY <2>1 DEF ReaderEnds, Goto, Retains, store, age, marks
  <2>2. CASE PollerWakes(s)
    BY <2>2 DEF PollerWakes, Goto, Retains, store, age, marks
  <2>3. CASE PollerFindsAlive(s)
    BY <2>3 DEF PollerFindsAlive, Goto, Retains, store, age, marks
  <2>4. CASE PollerFindsExit(s)
    BY <2>4 DEF PollerFindsExit, Goto, Retains, store, age, marks
  <2>5. CASE PollerLosesBackend(s)
    BY <2>5 DEF PollerLosesBackend, Goto, Retains, store, age, marks
  <2> QED BY <1>2, <1>1, <2>1, <2>2, <2>3, <2>4, <2>5 DEF ReaderStep, Thread
<1>3. ASSUME NEW t \in Tool, ToolStep(t)
      PROVE  Retains(t)
  <2>1. CASE Register(t)
    <3>1. Prune /\ running' = running \cup {Mine(t)} /\ inHand' = inHand
      BY <2>1 DEF Register
    <3>2. pc'[t] = "checkpoint"
      BY <2>1 DEF Register, Goto
    <3> QED BY <3>1, <3>2, PruneFacts DEF Retains
  <2>2. CASE SetFlags(t)
    BY <2>2 DEF SetFlags, Mine, Goto, Retains, store, age, marks
  <2>3. CASE Look(t)
    BY <2>3 DEF Look, Mine, Goto, Retains, store, age, marks
  <2>4. CASE Mark(t)
    BY <2>4 DEF Mark, Mine, Goto, Retains, store, age, marks
  <2>5. CASE PollReturns(t)
    BY <2>5 DEF PollReturns, Mine, Goto, Retains, store, age, marks
  <2>6. CASE WaitReturns(t)
    BY <2>6 DEF WaitReturns, Consume, Mine, Goto, Retains, store, age, marks
  <2>7. CASE WaitGoesOn(t)
    BY <2>7 DEF WaitGoesOn, Mine, Goto, Retains, store, age, marks
  <2>8. CASE LogReturns(t)
    BY <2>8 DEF LogReturns, Consume, Mine, Goto, Retains, store, age, marks
  <2>9. CASE KillFindsExited(t)
    BY <2>9 DEF KillFindsExited, ConsumeKill, Consume, Mine, Goto, Retains, store, age,
       marks
  <2>10. CASE KillStarts(t)
    BY <2>10 DEF KillStarts, Mine, Goto, Retains, store, age, marks
  <2>11. CASE Signal(t)
    BY <2>11 DEF Signal, Return, Mine, Goto, Retains, store, age, marks
  <2>12. CASE SignalFindsGone(t)
    BY <2>12 DEF SignalFindsGone, ConsumeKill, Consume, Mine, Goto, Retains, store, age,
       marks
  <2>13. CASE MarkKilled(t)
    BY <2>13 DEF MarkKilled, ConsumeKill, Consume, Mine, Goto, Retains, store, age,
       marks
  <2> QED BY <1>3, <1>1, <2>1, <2>2, <2>3, <2>4, <2>5, <2>6, <2>7, <2>8, <2>9, <2>10,
     <2>11, <2>12, <2>13 DEF ToolStep, Thread
<1> QED BY <1>2, <1>3

LEMMA MarkInit == Init => MarkInv
  BY DEF Init, MarkInv, LookInv, HandInv, Looking, Thread

LEMMA ThreadsDeliverNothing ==
  ASSUME NEW t \in Thread,
         (t \in Session /\ ReaderStep(t)) \/ (t \in Tool /\ ToolStep(t))
  PROVE  UNCHANGED delivered
<1>1. Step(t) => UNCHANGED delivered
  BY DEF Step, CollectEntries, WriteFile, Move, QueueCompletion, events
<1>2. ReaderStep(t) => UNCHANGED delivered
  BY <1>1 DEF ReaderStep, ReaderEnds, PollerWakes, PollerFindsAlive, PollerFindsExit,
     PollerLosesBackend, events
<1>3. ToolStep(t) => UNCHANGED delivered
  BY <1>1 DEF ToolStep, Register, SetFlags, Look, Mark, PollReturns, WaitReturns, WaitGoesOn,
     LogReturns, KillFindsExited, KillStarts, Signal, SignalFindsGone, MarkKilled, events
<1> QED BY <1>2, <1>3

LEMMA MarkKept ==
  ASSUME MarkInv, NEW t \in Thread, Advances(t), Retains(t)
  PROVE  MarkInv'
<1>1. LookInv'
  <2>1. ASSUME NEW u \in Tool, pc'[u] \in Looking
        PROVE  pc[u] \in Looking /\ job'[u].s = job[u].s
    BY <2>1 DEF Advances, Retains, Looking, Thread
  <2> QED BY <2>1 DEF MarkInv, LookInv, Retains
<1>2. ASSUME NEW s \in Session, <<s, "id">> \in inHand', s \notin dropped'
      PROVE  <<s, "id">> \in consumed' /\ s \in running' \cup finished'
  <2>1. CASE <<s, "id">> \in inHand
    BY <1>2, <2>1 DEF MarkInv, HandInv, Retains
  <2>2. CASE <<s, "id">> \notin inHand
    <3>1. t \in Tool /\ pc[t] \in Looking /\ <<s, "id">> = Name(t) /\ consumed' = consumed \cup {Name(t)}
      BY <1>2, <2>2 DEF Retains
    <3>2. s = job[t].s
      BY <3>1 DEF Name
    <3> QED BY <1>2, <3>1, <3>2 DEF MarkInv, LookInv, Retains
  <2> QED BY <2>1, <2>2
<1> QED BY <1>1, <1>2 DEF MarkInv, HandInv

LEMMA MarkAsk ==
  ASSUME TypeOK, MarkInv, NEW t \in Tool, Ask(t)
  PROVE  MarkInv'
<1>1. ASSUME NEW s \in Session, NEW want \in BOOLEAN, Spawn(t, s, want)
      PROVE  MarkInv'
  <2>1. /\ \A u \in Tool \ {t} : pc'[u] = pc[u] /\ job'[u] = job[u]
        /\ pc'[t] = "register"
    BY <1>1, TypeOK, RegistryAssumption DEF Spawn, TypeOK, Thread
  <2>2. LookInv'
    BY <1>1, <2>1 DEF Spawn, NewSession, MarkInv, LookInv, Looking, store
  <2> QED BY <1>1, <2>2 DEF Spawn, NewSession, MarkInv, HandInv, store, marks
<1>2. ASSUME NEW s \in Session, NEW want \in BOOLEAN, SpawnFails(t, s, want)
      PROVE  MarkInv'
  <2>1. /\ \A u \in Tool \ {t} : pc'[u] = pc[u] /\ job'[u] = job[u]
        /\ pc'[t] = "flags" /\ running' = running /\ inHand' = inHand
    BY <1>2, TypeOK DEF SpawnFails, Goto, TypeOK, Thread
  <2>2. Prune
    BY <1>2 DEF SpawnFails
  <2>3. LookInv'
    BY <2>1, <2>2, PruneFacts DEF MarkInv, LookInv, Looking
  <2>4. HandInv'
    BY <2>1, <2>2, PruneFacts DEF MarkInv, HandInv
  <2> QED BY <2>3, <2>4 DEF MarkInv
<1>3. ASSUME NEW s \in Session, NEW op \in Calls, NEW q \in Queries, Call(t, s, op, q)
      PROVE  MarkInv'
  <2>1. /\ \A u \in Tool \ {t} : pc'[u] = pc[u] /\ job'[u] = job[u]
        /\ job'[t].s = s
    BY <1>3, TypeOK DEF Call, Goto, TypeOK, Thread
  <2>2. s \in running \cup finished
    BY <1>3 DEF Call, Resolves, Tracked
  <2>3. running' = running /\ finished' = finished /\ dropped' = dropped
    BY <1>3 DEF Call, store, age
  <2>4. LookInv'
    BY <2>1, <2>2, <2>3 DEF MarkInv, LookInv
  <2> QED BY <1>3, <2>3, <2>4 DEF Call, MarkInv, HandInv, marks
<1> QED BY <1>1, <1>2, <1>3 DEF Ask

LEMMA MarkStep == TypeOK /\ MarkInv /\ [Next]_vars => MarkInv'
<1> SUFFICES ASSUME TypeOK, MarkInv, [Next]_vars
             PROVE  MarkInv'
  OBVIOUS
<1>1. ASSUME NEW s \in Session, ReaderStep(s)
      PROVE  MarkInv'
  <2>1. s \in Thread
    BY DEF Thread
  <2> QED BY <1>1, <2>1, ThreadAdvances, ThreadRetains, MarkKept
<1>2. ASSUME NEW t \in Tool, ToolStep(t)
      PROVE  MarkInv'
  <2>1. t \in Thread
    BY DEF Thread
  <2> QED BY <1>2, <2>1, ThreadAdvances, ThreadRetains, MarkKept
<1>3. ASSUME Environment
      PROVE  MarkInv'
  <2>1. ASSUME NEW kept \in SUBSET alive, Restart(kept)
        PROVE  MarkInv'
    BY <2>1 DEF Restart, MarkInv, LookInv, HandInv, Looking, Thread
  <2>2. CASE UNCHANGED <<running, finished, dropped, consumed, inHand, pc, job>>
    BY <2>2 DEF MarkInv, LookInv, HandInv
  <2> QED
    BY <1>3, <2>1, <2>2
    DEF Environment, Drain, ProcessEnds, FallsSilent, StartAges, store, age, marks, threads
<1>4. CASE UNCHANGED vars
  BY <1>4 DEF vars, store, age, marks, threads, MarkInv, LookInv, HandInv
<1> QED BY <1>1, <1>2, <1>3, <1>4, MarkAsk DEF Next

\* Once a call that named the session by its id has returned the output, and as
\* long as no prune drops the session, no drain delivers its completion again.
THEOREM ReturnedOnce == Spec => NoDuplicate
<1>1. Init => TypeOK /\ MarkInv
  BY TypeInit, MarkInit
<1>2. (TypeOK /\ MarkInv) /\ [Next]_vars => (TypeOK /\ MarkInv)'
  BY TypeStep, MarkStep
<1>3. TypeOK /\ MarkInv /\ [Next]_vars => [SkipsReturned]_vars
  <2> SUFFICES ASSUME TypeOK, MarkInv, Next
               PROVE  SkipsReturned
    OBVIOUS
  <2>1. ASSUME NEW mine \in SUBSET Session, NEW b \in BOOLEAN, Drain(mine, b)
        PROVE  SkipsReturned
    BY <2>1 DEF Drain, SkipsReturned, MarkInv, HandInv
  <2>2. ASSUME NEW kept \in SUBSET alive, Restart(kept)
        PROVE  SkipsReturned
    BY <2>2, TypeOK DEF Restart, SkipsReturned, TypeOK
  <2>3. CASE UNCHANGED delivered
    BY <2>3 DEF SkipsReturned
  <2>4. ASSUME NEW t \in Thread, (t \in Session /\ ReaderStep(t)) \/ (t \in Tool /\ ToolStep(t))
        PROVE  UNCHANGED delivered
    BY <2>4, ThreadsDeliverNothing
  <2>5. ASSUME NEW t \in Tool, Ask(t)
        PROVE  UNCHANGED delivered
    BY <2>5 DEF Ask, Spawn, SpawnFails, Call, events
  <2>6. CASE Environment
    BY <2>6, <2>1, <2>2, <2>3 DEF Environment, ProcessEnds, FallsSilent, StartAges, events
  <2> QED BY <2>3, <2>4, <2>5, <2>6 DEF Next, Thread
<1> QED BY <1>1, <1>2, <1>3, PTL DEF Spec, NoDuplicate

-----------------------------------------------------------------------------
(* Room is made before the tables grow *)

\* The tables hold finitely many sessions, whatever Session is.
FiniteInv == IsFiniteSet(running) /\ IsFiniteSet(finished) /\ IsFiniteSet(alive)

\* Whichever sessions a finite set holds, one of them is the oldest.
LEMMA OldestExists ==
  ASSUME NEW S, IsFiniteSet(S), S # {}, NEW f, \A s \in S : f[s] \in Nat
  PROVE  \E s \in S : \A u \in S : f[s] <= f[u]
<1> DEFINE Below(s) == {u \in S : f[u] < f[s]}
           Belows == {Below(s) : s \in S}
<1>1. Belows # {} /\ Belows \subseteq FiniteSubsetsOf(S)
  <2>1. ASSUME NEW s \in S
        PROVE  Below(s) \in FiniteSubsetsOf(S)
    <3>1. Below(s) \subseteq S
      OBVIOUS
    <3> HIDE DEF Below
    <3>2. IsFiniteSet(Below(s))
      BY <3>1, FS_Subset
    <3> QED BY <3>1, <3>2 DEF FiniteSubsetsOf
  <2> QED BY <2>1
<1>2. \E B \in Belows : \A C \in Belows : ~ (<<C, B>> \in StrictSubsetOrdering(S))
  <2> HIDE DEF Belows
  <2> QED BY <1>1, FS_StrictSubsetOrderingWellFounded, WFMin
<1>3. PICK s \in S : \A u \in S : ~ (<<Below(u), Below(s)>> \in StrictSubsetOrdering(S))
  BY <1>2
<1>4. ASSUME NEW u \in S
      PROVE  f[s] <= f[u]
  <2>1. SUFFICES ASSUME f[u] < f[s]
                 PROVE  FALSE
    OBVIOUS
  <2>2. \A v \in Below(u) : v \in Below(s)
    BY <2>1
  <2>3. u \in Below(s) /\ u \notin Below(u)
    BY <2>1
  <2>4. Below(u) \subseteq Below(s) /\ Below(u) # Below(s) /\ Below(s) \subseteq S
    BY <2>2, <2>3
  <2>5. <<Below(u), Below(s)>> \in StrictSubsetOrdering(S)
    <3> HIDE DEF Below
    <3> QED BY <2>4 DEF StrictSubsetOrdering
  <2> QED BY <1>3, <2>5
<1> QED BY <1>4

\* A prune leaves room for one more session, or takes one out, or finds none to
\* take out.
LEMMA PruneMakesRoom ==
  ASSUME TypeOK, FiniteInv, Prune
  PROVE  /\ IsFiniteSet(finished')
         /\ \/ finished' = {}
            \/ Cardinality(running) + Cardinality(finished') < MaxProcesses
            \/ Cardinality(finished') < Cardinality(finished)
<1>1. finished' = finished \ Dropped /\ Dropped \subseteq finished /\ Overdue \subseteq finished
  BY DroppedFinished DEF Prune, Overdue
<1>2. /\ IsFiniteSet(Overdue) /\ IsFiniteSet(finished') /\ IsFiniteSet(finished)
      /\ IsFiniteSet(finished \ Overdue)
  BY <1>1, FS_Subset DEF FiniteInv
<1>3. /\ Cardinality(running) \in Nat /\ Cardinality(finished) \in Nat
      /\ Cardinality(Overdue) \in Nat /\ Cardinality(finished') \in Nat
  BY <1>2, FS_CardinalityType DEF FiniteInv
<1>4. CASE ~OverCap
  <2>1. finished' = finished \ Overdue
    BY <1>1, <1>4 DEF Dropped
  <2>2. finished \cap Overdue = Overdue
    BY <1>1
  <2>3. Cardinality(finished') = Cardinality(finished) - Cardinality(Overdue)
    BY <2>1, <2>2, <1>2, FS_Difference
  <2> QED BY <2>3, <1>2, <1>3, <1>4, RegistryAssumption DEF OverCap
<1>5. CASE OverCap /\ finished \ Overdue = {}
  <2>1. finished' = {}
    BY <1>1, <1>5 DEF Dropped
  <2> QED BY <2>1, <1>2
<1>6. CASE OverCap /\ finished \ Overdue # {}
  <2>1. \A s \in finished \ Overdue : rank[s] \in Nat
    BY DEF TypeOK
  <2>2. PICK s \in finished \ Overdue : \A u \in finished \ Overdue : rank[s] <= rank[u]
    BY <2>1, <1>2, <1>6, OldestExists
  <2>3. s \in Dropped
    BY <2>2, <1>6 DEF Dropped, Oldest
  <2>4. finished' \subseteq finished /\ finished' # finished
    BY <2>2, <2>3, <1>1
  <2>5. /\ Cardinality(finished') <= Cardinality(finished)
        /\ Cardinality(finished) = Cardinality(finished') => finished = finished'
    BY <2>4, <1>2, FS_Subset
  <2> QED BY <2>4, <2>5, <1>2, <1>3
<1> QED BY <1>4, <1>5, <1>6

\* One more element is one more at most.
LEMMA OneMore ==
  ASSUME NEW S, IsFiniteSet(S), NEW x
  PROVE  IsFiniteSet(S \cup {x}) /\ Cardinality(S \cup {x}) <= Cardinality(S) + 1
<1>1. Cardinality(S) \in Nat
  BY FS_CardinalityType
<1> QED BY <1>1, FS_AddElement

LEMMA RegisterMakesRoom ==
  ASSUME TypeOK, FiniteInv, NEW t \in Tool, Register(t)
  PROVE  RoomMade
<1>1. Prune /\ running' = running \cup {Mine(t)}
  BY DEF Register
<1>2. /\ IsFiniteSet(running') /\ IsFiniteSet(finished')
      /\ Cardinality(running') <= Cardinality(running) + 1
  BY <1>1, PruneMakesRoom, OneMore DEF FiniteInv
<1>3. /\ Cardinality(running) \in Nat /\ Cardinality(finished) \in Nat
      /\ Cardinality(running') \in Nat /\ Cardinality(finished') \in Nat
  BY <1>2, FS_CardinalityType DEF FiniteInv
<1> QED BY <1>1, <1>2, <1>3, PruneMakesRoom, RegistryAssumption DEF RoomMade

LEMMA MoveKeepsSize ==
  ASSUME TypeOK, FiniteInv, NEW t \in Thread, Move(t)
  PROVE  RoomMade
<1>1. running' = running \ {Mine(t)} /\ finished' = finished \cup {Mine(t)}
  BY DEF Move
<1>2. CASE Mine(t) \notin running
  BY <1>1, <1>2 DEF RoomMade
<1>3. CASE Mine(t) \in running
  <2>1. Cardinality(running') = Cardinality(running) - 1
    BY <1>1, <1>3, FS_RemoveElement DEF FiniteInv
  <2>2. Cardinality(finished') <= Cardinality(finished) + 1
    BY <1>1, OneMore DEF FiniteInv
  <2>3. /\ Cardinality(running) \in Nat /\ Cardinality(finished) \in Nat
        /\ Cardinality(finished') \in Nat
    BY <1>1, FS_CardinalityType, OneMore DEF FiniteInv
  <2> QED BY <2>1, <2>2, <2>3 DEF RoomMade
<1> QED BY <1>2, <1>3

LEMMA RoomStep == TypeOK /\ FiniteInv /\ Next => RoomMade
<1> SUFFICES ASSUME TypeOK, FiniteInv, Next
             PROVE  RoomMade
  OBVIOUS
<1>1. ASSUME NEW t \in Thread, (t \in Session /\ ReaderStep(t)) \/ (t \in Tool /\ ToolStep(t))
      PROVE  RoomMade
  <2>1. CASE running' = running
    BY <2>1 DEF RoomMade
  <2>2. CASE Register(t)
    <3>1. CASE t \in Tool
      BY <2>2, <3>1, RegisterMakesRoom
    <3>2. CASE t \in Session
      BY <1>1, <2>2, <3>2, ReadersNeverRegister, RegistryAssumption
    <3> QED BY <3>1, <3>2 DEF Thread
  <2>3. CASE Move(t)
    BY <2>3, MoveKeepsSize
  <2> QED BY <1>1, <2>1, <2>2, <2>3, ThreadKeeps DEF Keeps, QueueCompletion, store
<1>2. ASSUME NEW t \in Tool, Ask(t)
      PROVE  RoomMade
  BY <1>2 DEF Ask, Spawn, SpawnFails, Call, store, RoomMade
<1>3. ASSUME Environment
      PROVE  RoomMade
  BY <1>3 DEF Environment, Drain, ProcessEnds, FallsSilent, StartAges, Restart, store, RoomMade
<1>4. CASE \E s \in Session : ReaderStep(s)
  BY <1>4, <1>1 DEF Thread
<1> QED BY <1>4, <1>1, <1>2, <1>3 DEF Next, Thread

LEMMA FiniteInit == Init => FiniteInv
  BY FS_EmptySet DEF Init, FiniteInv

LEMMA FiniteStep == TypeOK /\ JobInv /\ FiniteInv /\ [Next]_vars => FiniteInv'
<1> SUFFICES ASSUME TypeOK, JobInv, FiniteInv, [Next]_vars
             PROVE  FiniteInv'
  OBVIOUS
<1>1. ASSUME NEW s, running' \subseteq running \cup {s}, finished' \subseteq finished \cup {s},
             alive' \subseteq alive \cup {s}
      PROVE  FiniteInv'
  <2>1. IsFiniteSet(running \cup {s}) /\ IsFiniteSet(finished \cup {s}) /\ IsFiniteSet(alive \cup {s})
    BY OneMore DEF FiniteInv
  <2> QED BY <1>1, <2>1, FS_Subset DEF FiniteInv
<1>2. ASSUME NEW t \in Thread, (t \in Session /\ ReaderStep(t)) \/ (t \in Tool /\ ToolStep(t))
      PROVE  FiniteInv'
  <2>1. Touches(t)
    BY <1>2, ThreadTouches
  <2> QED BY <2>1, <1>1 DEF Touches
<1>3. ASSUME NEW t \in Tool, Ask(t)
      PROVE  FiniteInv'
  <2>1. ASSUME NEW s \in Session, NEW want \in BOOLEAN, Spawn(t, s, want)
        PROVE  FiniteInv'
    BY <2>1, <1>1 DEF Spawn, store
  <2>2. ASSUME NEW s \in Session, NEW want \in BOOLEAN, SpawnFails(t, s, want)
        PROVE  FiniteInv'
    BY <2>2, <1>1, PruneFacts DEF SpawnFails
  <2>3. ASSUME NEW s \in Session, NEW op \in Calls, NEW q \in Queries, Call(t, s, op, q)
        PROVE  FiniteInv'
    BY <2>3 DEF Call, store, FiniteInv
  <2> QED BY <1>3, <2>1, <2>2, <2>3 DEF Ask
<1>4. ASSUME NEW kept \in SUBSET alive, Restart(kept)
      PROVE  FiniteInv'
  <2>1. running' \subseteq alive /\ finished' = {} /\ alive' \subseteq alive
    BY <1>4 DEF Restart
  <2> QED BY <2>1, FS_Subset, FS_EmptySet DEF FiniteInv
<1>5. CASE UNCHANGED <<running, finished>> /\ alive' \subseteq alive
  BY <1>5, FS_Subset DEF FiniteInv
<1>6. ASSUME Environment
      PROVE  FiniteInv'
  BY <1>6, <1>4, <1>5 DEF Environment, Drain, ProcessEnds, FallsSilent, StartAges, store
<1>7. CASE \E s \in Session : ReaderStep(s)
  BY <1>7, <1>2 DEF Thread
<1> QED BY <1>7, <1>2, <1>3, <1>5, <1>6 DEF Next, Thread, vars, store

\* A registration takes the tables beyond MAX_PROCESSES only when no finished
\* session is left to be dropped.
THEOREM RoomIsMade == Spec => EvictBeforeGrow
<1>1. Init => TypeOK /\ JobInv /\ FiniteInv
  BY TypeInit, JobInit, FiniteInit
<1>2. (TypeOK /\ JobInv /\ FiniteInv) /\ [Next]_vars => (TypeOK /\ JobInv /\ FiniteInv)'
  BY TypeStep, JobStep, FiniteStep
<1>3. (TypeOK /\ JobInv /\ FiniteInv) /\ [Next]_vars => [RoomMade]_vars
  BY RoomStep
<1> QED BY <1>1, <1>2, <1>3, PTL DEF Spec, EvictBeforeGrow, RoomMade

-----------------------------------------------------------------------------
(* Nobody is forgotten in _running *)

Watching == {"reading", "polling"}

\* What is registered, or about to be, has somebody who attends to it.
AttendInv == \A s \in Session : s \in running \/ BeingSpawned(s) => Attended(s)

\* A step that forgets no session that was moved, and leaves its own session
\* moved, about to be moved, or attended as it was.
Attends(t) ==
  /\ finished \cup dropped \subseteq finished' \cup dropped'
  /\ detached' = detached
  /\ \/ pc'[t] = "move"
     \/ job[t].s \in finished'
     \/ /\ pc[t] # "move" /\ exited' = exited
        /\ t \in Session => pc'[t] \in Watching \/ pc[t] \notin Watching \/ t \in exited

LEMMA ThreadAttends ==
  ASSUME TypeOK, JobInv, NEW w \in Thread,
         (w \in Session /\ ReaderStep(w)) \/ (w \in Tool /\ ToolStep(w))
  PROVE  Attends(w)
<1> USE TypeOK, RegistryAssumption DEF Thread, Watching, TypeOK
<1>1. ASSUME NEW t \in Thread, Step(t)
      PROVE  Attends(t)
  <2>1. CASE CollectEntries(t)
    BY <2>1 DEF CollectEntries, Goto, Attends, store, flags, age
  <2>2. CASE WriteFile(t)
    BY <2>2 DEF WriteFile, Return, Goto, Attends, store, flags, age
  <2>3. CASE Move(t)
    BY <2>3 DEF Move, Mine, Goto, Attends, flags, age
  <2>4. CASE QueueCompletion(t)
    BY <2>4 DEF QueueCompletion, Return, Goto, Attends, store, flags, age
  <2> QED BY <1>1, <2>1, <2>2, <2>3, <2>4 DEF Step
<1>2. ASSUME NEW s \in Session, ReaderStep(s)
      PROVE  Attends(s)
  <2>1. CASE ReaderEnds(s)
    BY <2>1 DEF ReaderEnds, Goto, Attends, store, age
  <2>2. CASE PollerWakes(s)
    BY <2>2 DEF PollerWakes, Return, Goto, Attends, store, flags, age
  <2>3. CASE PollerFindsAlive(s)
    BY <2>3 DEF PollerFindsAlive, Goto, Attends, store, flags, age
  <2>4. CASE PollerFindsExit(s)
    BY <2>4 DEF PollerFindsExit, Goto, Attends, store, age
  <2>5. CASE PollerLosesBackend(s)
    BY <2>5 DEF PollerLosesBackend, Goto, Attends, store, age
  <2> QED BY <1>2, <1>1, <2>1, <2>2, <2>3, <2>4, <2>5 DEF ReaderStep
<1>3. ASSUME NEW t \in Tool, ToolStep(t)
      PROVE  Attends(t)
  <2>1. CASE Register(t)
    BY <2>1, PruneFacts DEF Register, Goto, Attends, flags
  <2>2. CASE SetFlags(t)
    BY <2>2 DEF SetFlags, Return, Goto, Attends, store, age
  <2>3. CASE Look(t)
    BY <2>3 DEF Look, Goto, Attends, store, flags, age
  <2>4. CASE Mark(t)
    BY <2>4 DEF Mark, Goto, Attends, store, age
  <2>5. CASE PollReturns(t)
    BY <2>5 DEF PollReturns, Return, Goto, Attends, store, flags, age
  <2>6. CASE WaitReturns(t)
    BY <2>6 DEF WaitReturns, Return, Goto, Attends, store, flags, age
  <2>7. CASE WaitGoesOn(t)
    BY <2>7 DEF WaitGoesOn, Goto, Attends, store, flags, age
  <2>8. CASE LogReturns(t)
    BY <2>8 DEF LogReturns, Return, Goto, Attends, store, flags, age
  <2>9. CASE KillFindsExited(t)
    BY <2>9 DEF KillFindsExited, Return, Goto, Attends, store, flags, age
  <2>10. CASE KillStarts(t)
    BY <2>10 DEF KillStarts, Goto, Attends, store, flags, age
  <2>11. CASE Signal(t)
    BY <2>11 DEF Signal, Return, Goto, Attends, store, flags, age
  <2>12. CASE SignalFindsGone(t)
    BY <2>12 DEF SignalFindsGone, Goto, Attends, store, age
  <2>13. CASE MarkKilled(t)
    BY <2>13 DEF MarkKilled, Goto, Attends, store, age
  <2> QED BY <1>3, <1>1, <2>1, <2>2, <2>3, <2>4, <2>5, <2>6, <2>7, <2>8, <2>9, <2>10,
     <2>11, <2>12, <2>13 DEF ToolStep
<1> QED BY <1>2, <1>3

\* Only a registration puts a session into the table, and only a spawn starts one.
LEMMA ThreadAddsNothing ==
  ASSUME TypeOK, JobInv, NEW t \in Thread, NEW s \in Session,
         (t \in Session /\ ReaderStep(t)) \/ (t \in Tool /\ ToolStep(t)),
         s \in running' \/ BeingSpawned(s)'
  PROVE  s \in running \/ BeingSpawned(s)
<1>1. Advances(t)
  BY ThreadAdvances
<1>2. CASE Register(t)
  <2>1. t \in Tool /\ pc[t] = "register" /\ running' = running \cup {job[t].s} /\ pc'[t] = "checkpoint"
    BY <1>2, ReadersNeverRegister, RegistryAssumption, TypeOK DEF Register, Goto, Mine, TypeOK, Thread
  <2> QED BY <1>1, <2>1 DEF Advances, BeingSpawned, Thread
<1>3. CASE ~Register(t)
  <2>1. running' \subseteq running /\ (pc'[t] = "register" => pc[t] = "register")
    BY <1>3, ThreadKeeps, TypeOK DEF Keeps, Move, QueueCompletion, Return, Goto, store, TypeOK
  <2> QED BY <1>1, <2>1 DEF Advances, BeingSpawned, Thread
<1> QED BY <1>2, <1>3

LEMMA AttendThread ==
  ASSUME TypeOK, JobInv, AttendInv, NEW t \in Thread,
         (t \in Session /\ ReaderStep(t)) \/ (t \in Tool /\ ToolStep(t))
  PROVE  AttendInv'
<1>1. Advances(t) /\ Touches(t) /\ Attends(t)
  BY ThreadAdvances, ThreadTouches, ThreadAttends
<1> SUFFICES ASSUME NEW s \in Session, s \in running' \/ BeingSpawned(s)'
             PROVE  Attended(s)'
  BY DEF AttendInv
<1>2. Attended(s)
  BY ThreadAddsNothing DEF AttendInv
<1>3. CASE s \in finished \cup dropped
  BY <1>1, <1>3 DEF Attends, Attended
<1>4. CASE s # job[t].s
  <2>1. s \in exited' => s \in exited
    BY <1>1, <1>4 DEF Touches
  <2>2. pc[s] # "idle" => pc'[s] = pc[s]
    BY <1>1, <1>4, JobInv DEF Advances, JobInv, OwnInv, Thread
  <2>3. CASE s \notin exited /\ (pc[s] \in {"reading", "polling"} \/ s \in detached)
    BY <1>1, <2>1, <2>2, <2>3 DEF Attends, Attended
  <2>4. ASSUME NEW u \in Thread, pc[u] = "move", job[u].s = s
        PROVE  Attended(s)'
    BY <1>1, <1>4, <2>4 DEF Advances, Attended
  <2> QED BY <1>2, <1>3, <2>3, <2>4 DEF Attended
<1>5. CASE s = job[t].s
  <2>1. CASE pc'[t] = "move"
    BY <1>1, <1>5, <2>1 DEF Advances, Attended
  <2>2. CASE s \in finished'
    BY <2>2 DEF Attended
  <2>3. CASE /\ pc[t] # "move" /\ exited' = exited
             /\ t \in Session => pc'[t] \in Watching \/ pc[t] \notin Watching \/ t \in exited
    <3>1. ASSUME NEW u \in Thread, pc[u] = "move", job[u].s = s
          PROVE  Attended(s)'
      BY <1>1, <2>3, <3>1 DEF Advances, Attended
    <3>2. CASE s \notin exited /\ s \in detached
      BY <1>1, <2>3, <3>2 DEF Attends, Attended
    <3>3. CASE s \notin exited /\ pc[s] \in Watching
      <4>1. pc'[s] \in Watching
        BY <1>1, <2>3, <3>3 DEF Advances, Thread
      <4> QED BY <2>3, <3>3, <4>1 DEF Attended, Watching
    <3> QED BY <1>2, <1>3, <3>1, <3>2, <3>3 DEF Attended, Watching
  <2> QED BY <1>1, <1>5, <2>1, <2>2, <2>3 DEF Attends
<1> QED BY <1>4, <1>5

LEMMA AttendInit == Init => AttendInv
  BY DEF Init, AttendInv, BeingSpawned, Thread

\* What a thread that was idle takes up changes nothing for the sessions attended.
LEMMA AttendAsk ==
  ASSUME AttendInv, NEW t \in Tool, pc[t] = "idle", pc'[t] # "register",
         \A u \in Thread \ {t} : pc'[u] = pc[u] /\ job'[u] = job[u],
         running' = running, detached' = detached,
         finished \cup dropped \subseteq finished' \cup dropped',
         \A s \in exited' : s \in exited \/ (s \notin running /\ ~BeingSpawned(s))
  PROVE  AttendInv'
<1> SUFFICES ASSUME NEW s \in Session, s \in running' \/ BeingSpawned(s)'
             PROVE  Attended(s)'
  BY DEF AttendInv
<1>1. s \in running \/ BeingSpawned(s)
  BY DEF BeingSpawned, Thread
<1>2. Attended(s) /\ (s \in exited' => s \in exited)
  BY <1>1 DEF AttendInv
<1>3. ASSUME NEW u \in Thread, pc[u] = "move", job[u].s = s
      PROVE  Attended(s)'
  BY <1>3 DEF Attended
<1>4. pc[s] \in {"reading", "polling"} => pc'[s] = pc[s]
  BY RegistryAssumption DEF Thread
<1> QED BY <1>2, <1>3, <1>4 DEF Attended

LEMMA AttendStep == TypeOK /\ JobInv /\ AttendInv /\ [Next]_vars => AttendInv'
<1> SUFFICES ASSUME TypeOK, JobInv, AttendInv, [Next]_vars
             PROVE  AttendInv'
  OBVIOUS
<1>1. ASSUME NEW t \in Tool, Ask(t)
      PROVE  AttendInv'
  <2>1. ASSUME NEW s \in Session, NEW want \in BOOLEAN, Spawn(t, s, want)
        PROVE  AttendInv'
    <3>1. /\ \A u \in Thread \ {s, t} : pc'[u] = pc[u] /\ job'[u] = job[u]
          /\ pc'[t] = "register" /\ pc'[s] = "reading" /\ job'[t].s = s
          /\ pc[t] = "idle" /\ rank[s] = 0
      BY <2>1, TypeOK, RegistryAssumption DEF Spawn, NewSession, TypeOK, Thread
    <3>2. UNCHANGED <<running, finished, exited, detached, dropped>>
      BY <2>1 DEF Spawn, NewSession, store
    <3>3. s \notin exited
      BY <3>1, JobInv DEF JobInv, FreshInv
    <3>4. \A u \in Thread : pc[u] # "idle" => job[u].s # s
      BY <3>1, JobInv DEF JobInv, BusyInv
    <3>5. Attended(s)'
      BY <3>1, <3>2, <3>3 DEF Attended
    <3>6. ASSUME NEW r \in Session \ {s}, r \in running' \/ BeingSpawned(r)'
          PROVE  Attended(r)'
      <4>1. r \in running \/ BeingSpawned(r)
        BY <3>1, <3>2, <3>6, RegistryAssumption DEF BeingSpawned, Thread
      <4>2. Attended(r)
        BY <4>1 DEF AttendInv
      <4>3. pc[r] # "idle" => pc'[r] = pc[r]
        BY <3>1, RegistryAssumption DEF Thread
      <4>4. ASSUME NEW u \in Thread, pc[u] = "move", job[u].s = r
            PROVE  Attended(r)'
        <5>1. u # t /\ u # s
          BY <4>4, <3>1, <3>6, JobInv DEF JobInv, OwnInv
        <5> QED BY <4>4, <5>1, <3>1 DEF Attended
      <4> QED BY <4>2, <4>3, <4>4, <3>2 DEF Attended
    <3> QED BY <3>5, <3>6 DEF AttendInv
  <2>2. ASSUME NEW s \in Session, NEW want \in BOOLEAN, SpawnFails(t, s, want)
        PROVE  AttendInv'
    <3>1. /\ \A u \in Thread \ {t} : pc'[u] = pc[u] /\ job'[u] = job[u]
          /\ pc'[t] = "flags" /\ pc[t] = "idle" /\ rank[s] = 0
      BY <2>2, TypeOK DEF SpawnFails, Goto, TypeOK, Thread
    <3>2. /\ running' = running /\ detached' = detached /\ exited' = exited \cup {s}
          /\ finished \cup dropped \subseteq finished' \cup dropped'
      BY <2>2, PruneFacts DEF SpawnFails
    <3>3. s \notin running /\ ~BeingSpawned(s)
      BY <3>1, JobInv DEF JobInv, FreshInv, BusyInv, BeingSpawned, Thread
    <3> QED BY <3>1, <3>2, <3>3, AttendAsk
  <2>3. ASSUME NEW s \in Session, NEW op \in Calls, NEW q \in Queries, Call(t, s, op, q)
        PROVE  AttendInv'
    <3>1. /\ \A u \in Thread \ {t} : pc'[u] = pc[u] /\ job'[u] = job[u]
          /\ pc'[t] = "look" /\ pc[t] = "idle"
      BY <2>3, TypeOK DEF Call, Goto, TypeOK, Thread
    <3>2. UNCHANGED <<running, finished, exited, detached, dropped>>
      BY <2>3 DEF Call, store, flags, age
    <3> QED BY <3>1, <3>2, AttendAsk
  <2> QED BY <1>1, <2>1, <2>2, <2>3 DEF Ask
<1>2. ASSUME NEW kept \in SUBSET alive, Restart(kept)
      PROVE  AttendInv'
  BY <1>2 DEF Restart, AttendInv, Attended, BeingSpawned, Thread
<1>3. CASE UNCHANGED <<running, finished, exited, detached, dropped, threads>>
  BY <1>3 DEF threads, AttendInv, Attended, BeingSpawned
<1>4. ASSUME Environment
      PROVE  AttendInv'
  BY <1>4, <1>2, <1>3
  DEF Environment, Drain, ProcessEnds, FallsSilent, StartAges, store, flags, age
<1>5. CASE \E s \in Session : ReaderStep(s)
  BY <1>5, AttendThread DEF Thread
<1>6. CASE \E t \in Tool : ToolStep(t)
  BY <1>6, AttendThread DEF Thread
<1> QED BY <1>1, <1>3, <1>4, <1>5, <1>6 DEF Next, vars, store, flags, age, threads

\* A session in _running is watched by its reader or, after a recovery, by the
\* queries; once its end is recorded a thread is about to move it, unless it was
\* moved before it was registered.
THEOREM NobodyForgotten == Spec => []RunningAttended
<1>1. Init => TypeOK /\ JobInv /\ AttendInv
  BY TypeInit, JobInit, AttendInit
<1>2. (TypeOK /\ JobInv /\ AttendInv) /\ [Next]_vars => (TypeOK /\ JobInv /\ AttendInv)'
  BY TypeStep, JobStep, AttendStep
<1>3. TypeOK /\ JobInv /\ AttendInv => RunningAttended
  BY DEF AttendInv, RunningAttended, TypeOK
<1> QED BY <1>1, <1>2, <1>3, PTL DEF Spec
=============================================================================
