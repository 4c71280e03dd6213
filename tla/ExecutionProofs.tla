--------------------------- MODULE ExecutionProofs ---------------------------
(****************************************************************************)
(* Theorems about MCExecution.  First what reaches an agent on its own      *)
(* account: the notifications of the watch limiter (for any number of       *)
(* sessions and any limits, each silence is explained once, a promised exit *)
(* notification is sent, and the breaker loses count of no match), and the  *)
(* results of delegations (for any number of processes and results, however *)
(* long a consumer takes and however often a process dies, a lease keeps    *)
(* others away while it lasts, and a result is repeated only past it).      *)
(* Then the composition with delegation, kernels and a sandbox's files.     *)
(****************************************************************************)
EXTENDS SandboxProofs, AsyncDelegationProofs, MCExecution

-------------------------------------------------------------------------------
(* The watch limiter. *)

\* What a session has said of its silence at each point of a scan.
SilenceOK ==
  \A s \in Watched :
     /\ scan[s] = "limit" => s \notin disabled
     /\ scan[s] # "admit" => silenced[s] = IF s \in disabled THEN 1 ELSE 0
     /\ scan[s] = "admit" => silenced[s] = 0 /\ (s \in disabled <=> hits[s] >= MaxHits)

\* Before its move a session is promoted exactly when it asked or was disabled.
PledgeOK ==
  \A s \in Watched :
     IF s \in moved
     THEN exitNotes[s] = IF s \in AsksNotice \cup pledged THEN 1 ELSE 0
     ELSE exitNotes[s] = 0 /\ (s \in notifies <=> s \in AsksNotice \cup pledged)

\* A trip is open exactly while it has drops to report.
FloodOK == FloodAccounted /\ (trippedUntil = 0 <=> floodDrops = 0)

WatchInv == WatchTypeOK /\ SilenceOK /\ PledgeOK /\ FloodOK

-----------------------------------------------------------------------------
(* Every action preserves the invariant *)

\* A scan begins only in an enabled session.
LEMMA ScanKeeps ==
  ASSUME WatchAssumption, WatchInv, NEW s \in Watched, Scan(s)
  PROVE  WatchInv'
<1> USE DEF WatchInv, Scan, limits, breaker, floods, ends, ScanAt
<1>1. WatchTypeOK'
  BY DEF WatchTypeOK, WatchAssumption
<1>2. SilenceOK'
  BY DEF SilenceOK, WatchTypeOK, WatchAssumption
<1>3. PledgeOK'
  BY DEF PledgeOK, WatchTypeOK, WatchAssumption
<1>4. FloodOK'
  BY DEF FloodOK, FloodAccounted, WatchTypeOK, WatchAssumption
<1>5. QED
  BY <1>1, <1>2, <1>3, <1>4

\* The last strike says so and promotes in one step.
LEMMA StrikeKeeps ==
  ASSUME WatchAssumption, WatchInv, NEW s \in Watched, Strike(s)
  PROVE  WatchInv'
<1> USE DEF WatchInv, Strike, Strikes, Cooling, Disable, StayEnabled, limits, breaker, floods, ends, ScanAt
<1>1. WatchTypeOK'
  <2>1. CASE Strikes(s)
    BY <2>1 DEF WatchTypeOK, WatchAssumption
  <2>2. CASE ~(Strikes(s))
    BY <2>2 DEF WatchTypeOK, WatchAssumption
  <2>3. QED
    BY <2>1, <2>2
<1>2. SilenceOK'
  <2>1. CASE Strikes(s)
    BY <2>1 DEF SilenceOK, WatchTypeOK, WatchAssumption
  <2>2. CASE ~(Strikes(s))
    BY <2>2 DEF SilenceOK, WatchTypeOK, WatchAssumption
  <2>3. QED
    BY <2>1, <2>2
<1>3. PledgeOK'
  <2>1. CASE Strikes(s)
    BY <2>1 DEF PledgeOK, WatchTypeOK, WatchAssumption
  <2>2. CASE ~(Strikes(s))
    BY <2>2 DEF PledgeOK, WatchTypeOK, WatchAssumption
  <2>3. QED
    BY <2>1, <2>2
<1>4. FloodOK'
  BY DEF FloodOK, FloodAccounted, WatchTypeOK, WatchAssumption
<1>5. QED
  BY <1>1, <1>2, <1>3, <1>4

\* The last hit promotes; its summary is still to come.
LEMMA HitKeeps ==
  ASSUME WatchAssumption, WatchInv, NEW s \in Watched, Hit(s)
  PROVE  WatchInv'
<1> USE DEF WatchInv, Hit, Cooling, Disable, StayEnabled, limits, breaker, floods, ends, ScanAt
<1>1. WatchTypeOK'
  <2>1. CASE hits[s] + 1 >= MaxHits
    BY <2>1 DEF WatchTypeOK, WatchAssumption
  <2>2. CASE ~(hits[s] + 1 >= MaxHits)
    BY <2>2 DEF WatchTypeOK, WatchAssumption
  <2>3. QED
    BY <2>1, <2>2
<1>2. SilenceOK'
  <2>1. CASE hits[s] + 1 >= MaxHits
    BY <2>1 DEF SilenceOK, WatchTypeOK, WatchAssumption
  <2>2. CASE ~(hits[s] + 1 >= MaxHits)
    BY <2>2 DEF SilenceOK, WatchTypeOK, WatchAssumption
  <2>3. QED
    BY <2>1, <2>2
<1>3. PledgeOK'
  <2>1. CASE hits[s] + 1 >= MaxHits
    BY <2>1 DEF PledgeOK, WatchTypeOK, WatchAssumption
  <2>2. CASE ~(hits[s] + 1 >= MaxHits)
    BY <2>2 DEF PledgeOK, WatchTypeOK, WatchAssumption
  <2>3. QED
    BY <2>1, <2>2
<1>4. FloodOK'
  BY DEF FloodOK, FloodAccounted, WatchTypeOK, WatchAssumption
<1>5. QED
  BY <1>1, <1>2, <1>3, <1>4

\* The breaker drops, admits or trips; the last match then says why it was the last.
LEMMA AdmitKeeps ==
  ASSUME WatchAssumption, WatchInv, NEW s \in Watched, AdmitNotice(s)
  PROVE  WatchInv'
<1> USE DEF WatchInv, AdmitNotice, DropMatch, PassBreaker, TripBreaker, ReleaseTrip, Over, Used, NewWindow, limits, breaker, floods, ends, ScanAt
<1>1. WatchTypeOK'
  <2>1. CASE DropMatch(seenAt[s])
    BY <2>1 DEF WatchTypeOK, WatchAssumption
  <2>2. CASE PassBreaker(seenAt[s])
    BY <2>2 DEF WatchTypeOK, WatchAssumption
  <2>3. CASE TripBreaker(seenAt[s])
    BY <2>3 DEF WatchTypeOK, WatchAssumption
  <2>4. QED
    BY <2>1, <2>2, <2>3
<1>2. SilenceOK'
  BY DEF SilenceOK, WatchTypeOK, WatchAssumption
<1>3. PledgeOK'
  BY DEF PledgeOK, WatchTypeOK, WatchAssumption
<1>4. FloodOK'
  <2>1. CASE DropMatch(seenAt[s])
    BY <2>1 DEF FloodOK, FloodAccounted, WatchTypeOK, WatchAssumption
  <2>2. CASE PassBreaker(seenAt[s])
    BY <2>2 DEF FloodOK, FloodAccounted, WatchTypeOK, WatchAssumption
  <2>3. CASE TripBreaker(seenAt[s])
    BY <2>3 DEF FloodOK, FloodAccounted, WatchTypeOK, WatchAssumption
  <2>4. QED
    BY <2>1, <2>2, <2>3
<1>5. QED
  BY <1>1, <1>2, <1>3, <1>4

\* An end by itself announces nothing.
LEMMA EndSessionKeeps ==
  ASSUME WatchAssumption, WatchInv, NEW s \in Watched, EndSession(s)
  PROVE  WatchInv'
<1> USE DEF WatchInv, EndSession, limits, breaker, floods, ends, ScanAt
<1>1. WatchTypeOK'
  BY DEF WatchTypeOK, WatchAssumption
<1>2. SilenceOK'
  BY DEF SilenceOK, WatchTypeOK, WatchAssumption
<1>3. PledgeOK'
  BY DEF PledgeOK, WatchTypeOK, WatchAssumption
<1>4. FloodOK'
  BY DEF FloodOK, FloodAccounted, WatchTypeOK, WatchAssumption
<1>5. QED
  BY <1>1, <1>2, <1>3, <1>4

\* The first move keeps the promise as it stands.
LEMMA MoveKeeps ==
  ASSUME WatchAssumption, WatchInv, NEW s \in Watched, Move(s)
  PROVE  WatchInv'
<1> USE DEF WatchInv, Move, limits, breaker, floods, ends, ScanAt
<1>1. WatchTypeOK'
  BY DEF WatchTypeOK, WatchAssumption
<1>2. SilenceOK'
  BY DEF SilenceOK, WatchTypeOK, WatchAssumption
<1>3. PledgeOK'
  BY DEF PledgeOK, WatchTypeOK, WatchAssumption
<1>4. FloodOK'
  BY DEF FloodOK, FloodAccounted, WatchTypeOK, WatchAssumption
<1>5. QED
  BY <1>1, <1>2, <1>3, <1>4

-----------------------------------------------------------------------------
(* The invariant, and what follows from it *)

\* The invariant holds initially.
LEMMA WatchInitHolds ==
  ASSUME WatchAssumption, WatchInit
  PROVE  WatchInv
<1>1. WatchTypeOK
  BY DEF WatchInit, WatchTypeOK, WatchAssumption
<1>2. SilenceOK /\ PledgeOK /\ FloodOK
  BY DEF WatchInit, SilenceOK, PledgeOK, FloodOK, FloodAccounted, WatchAssumption
<1>3. QED
  BY <1>1, <1>2 DEF WatchInv

\* Every step, and a stutter, preserves it.
LEMMA WatchNextKeeps ==
  ASSUME WatchAssumption, WatchInv, [WatchNext]_watchVars
  PROVE  WatchInv'
<1>1. ASSUME NEW s \in Watched, Scan(s) \/ Strike(s) \/ Hit(s) \/ AdmitNotice(s) \/ EndSession(s) \/ Move(s)
      PROVE  WatchInv'
  BY <1>1, ScanKeeps, StrikeKeeps, HitKeeps, AdmitKeeps, EndSessionKeeps, MoveKeeps
<1>2. CASE Tick
  BY <1>2 DEF WatchInv, WatchTypeOK, SilenceOK, PledgeOK, FloodOK, FloodAccounted, Tick,
              limits, breaker, floods, ends
<1>3. CASE UNCHANGED watchVars
  BY <1>3 DEF WatchInv, WatchTypeOK, SilenceOK, PledgeOK, FloodOK, FloodAccounted, watchVars,
              limits, breaker, floods, ends
<1>4. QED
  BY <1>1, <1>2, <1>3 DEF WatchNext

\* The invariant holds in every reachable state.
THEOREM WatchInvariant == WatchSpec => []WatchInv
<1>1. WatchInit => WatchInv
  BY WatchAssumption, WatchInitHolds
<1>2. WatchInv /\ [WatchNext]_watchVars => WatchInv'
  BY WatchAssumption, WatchNextKeeps
<1>3. QED
  BY <1>1, <1>2, PTL DEF WatchSpec

\* A disabled session explains its silence once, an enabled one never.
THEOREM SilenceIsExplained == WatchSpec => []SilenceExplained
<1>1. WatchInv => SilenceExplained
  BY DEF WatchInv, SilenceOK, SilenceExplained
<1>2. QED
  BY <1>1, WatchInvariant, PTL

\* The exit notification a disabled session was promised is sent once.
THEOREM PromiseIsKept == WatchSpec => []PromiseKept
<1>1. WatchInv => PromiseKept
  BY DEF WatchInv, PledgeOK, PromiseKept, WatchTypeOK
<1>2. QED
  BY <1>1, WatchInvariant, PTL

\* No dropped match goes uncounted, no trip unannounced or released twice.
THEOREM FloodIsAccounted == WatchSpec => []FloodAccounted
<1>1. WatchInv => FloodAccounted
  BY DEF WatchInv, FloodOK
<1>2. QED
  BY <1>1, WatchInvariant, PTL

-------------------------------------------------------------------------------
(* The delivery of results. *)

\* Consumers that hold d by its row and have not handed it over yet.
Holding(d) == {p \in Consumer : work[p] = "claimed" /\ item[p] = d /\ token[p] # 0}

\* Results of d that have been handed over, or may still be by the row.
Spent(d) == injected[d] + Cardinality(Holding(d))

\* A busy consumer has the row's claim, or its lease is over; without a claim id
\* there was no row.
TokenOK ==
  \A p \in Consumer : AtWork(p) =>
     /\ took[p] <= now
     /\ token[p] = 0 => delivery[item[p]] = "absent"
     /\ token[p] # 0 =>
          /\ token[p] <= attempts[item[p]]
          /\ delivery[item[p]] = "pending" =>
               \/ claim[item[p]] = token[p] /\ claimedAt[item[p]] = took[p]
               \/ took[p] + Lease < now

\* No two consumers got the same claim of a row.
TokensDiffer ==
  \A p, q \in Consumer :
     AtWork(p) /\ AtWork(q) /\ p # q /\ item[p] = item[q] /\ token[p] # 0 => token[p] # token[q]

\* Only a process that is up works, on an event it has not in its queue.
WorkOK ==
  \A p \in Consumer : AtWork(p) => p \in up /\ item[p] \notin inbox[p]

\* Who has injected d without a row never sees it again.
StraysOK ==
  \A d \in Item : \A p \in strays[d] :
     /\ delivery[d] = "absent" /\ d \notin inbox[p]
     /\ ~(work[p] = "claimed" /\ item[p] = d)

\* One hand-over per claim that was not released, counted against takeovers and
\* those without a row; a row that is free for the next claim has one to spare.
SpentOK ==
  \A d \in Item :
     /\ Spent(d) <= 1 + takeovers[d] + Cardinality(strays[d])
     /\ delivery[d] = "pending" /\ claim[d] = 0 =>
          Spent(d) <= takeovers[d] + Cardinality(strays[d])

\* Who works, with what claim, and what is spent.
DeliveryInv == TokenOK /\ TokensDiffer /\ LeaseHeld /\ WorkOK /\ StraysOK /\ SpentOK

-----------------------------------------------------------------------------
(* Counting consumers *)

\* A consumer that joins a finite set makes it larger by one, one that leaves it
\* smaller by one.
LEMMA JoinLeave ==
  ASSUME NEW S, NEW p, IsFiniteSet(S)
  PROVE  /\ Cardinality(S) \in Nat
         /\ p \notin S => Cardinality(S \cup {p}) = Cardinality(S) + 1
         /\ p \in S => Cardinality(S \ {p}) = Cardinality(S) - 1
BY FS_AddElement, FS_RemoveElement, FS_CardinalityType

\* Only finitely many consumers hold a result.
LEMMA HoldingFinite ==
  ASSUME DeliveryAssumption, NEW d \in Item
  PROVE  IsFiniteSet(Holding(d)) /\ Cardinality(Holding(d)) \in Nat
<1>1. IsFiniteSet(Holding(d))
  <2>1. Holding(d) \in SUBSET Consumer /\ IsFiniteSet(Consumer)
    BY DEF Holding, DeliveryAssumption
  <2>2. QED
    BY <2>1, FS_Subset
<1>2. QED
  BY <1>1, FS_CardinalityType

\* So is the set of those that injected it without a row.
LEMMA StraysFinite ==
  ASSUME DeliveryAssumption, DeliveryTypeOK, NEW d \in Item
  PROVE  IsFiniteSet(strays[d]) /\ Cardinality(strays[d]) \in Nat
<1>1. strays[d] \in SUBSET Consumer /\ IsFiniteSet(Consumer)
  BY DEF DeliveryTypeOK, DeliveryAssumption
<1>2. QED
  BY <1>1, FS_Subset, FS_CardinalityType

\* While nobody starts or ends holding anything, what is spent stays the same.
LEMMA SpentSame ==
  ASSUME UNCHANGED <<work, item, token, injected>>
  PROVE  \A d \in Item : Spent(d)' = Spent(d)
BY DEF Spent, Holding

-----------------------------------------------------------------------------
(* Every action preserves the invariant *)

\* What a new claim of a row does: whoever claims a row held before finds the lease
\* of the holder over.
LEMMA ClaimRowKeeps ==
  ASSUME DeliveryAssumption, DeliveryTypeOK, DeliveryInv, NEW p \in Consumer, NEW d \in inbox[p],
         p \in up, work[p] = "idle", inbox' = [inbox EXCEPT ![p] = @ \ {d}],
         UNCHANGED <<delivery, up, now, starts, injected, strays>>, ClaimRow(p, d)
  PROVE  DeliveryTypeOK' /\ DeliveryInv'
<1> USE DEF DeliveryInv
<1>1. d \in Item
  BY DEF DeliveryTypeOK
<1>2. /\ delivery[d] = "pending" /\ (claim[d] = 0 \/ claimedAt[d] < now - Lease)
      /\ claim' = [claim EXCEPT ![d] = attempts[d] + 1]
      /\ claimedAt' = [claimedAt EXCEPT ![d] = now]
      /\ attempts' = [attempts EXCEPT ![d] = @ + 1]
      /\ work' = [work EXCEPT ![p] = "claimed"] /\ item' = [item EXCEPT ![p] = d]
      /\ token' = [token EXCEPT ![p] = attempts[d] + 1] /\ took' = [took EXCEPT ![p] = now]
  BY DEF ClaimRow, Claimable, Begin
<1>3. takeovers' = [takeovers EXCEPT ![d] = IF claim[d] = 0 THEN @ ELSE @ + 1]
  BY <1>2 DEF ClaimRow
<1>4. DeliveryTypeOK'
  BY <1>1, <1>2, <1>3 DEF DeliveryTypeOK, DeliveryAssumption
<1>5. \A q \in Consumer \ {p} :
        AtWork(q) /\ item[q] = d => took[q] + Lease < now /\ token[q] # 0 /\ token[q] <= attempts[d]
  <2>1. SUFFICES ASSUME NEW q \in Consumer \ {p}, AtWork(q), item[q] = d
                 PROVE  took[q] + Lease < now /\ token[q] # 0 /\ token[q] <= attempts[d]
    OBVIOUS
  <2>2. token[q] # 0 /\ token[q] <= attempts[d]
    BY <1>2, <2>1 DEF TokenOK
  <2>3. (claim[d] = token[q] /\ claimedAt[d] = took[q]) \/ took[q] + Lease < now
    BY <1>2, <2>1, <2>2 DEF TokenOK
  <2>4. now \in Nat /\ Lease \in Nat /\ took[q] \in Nat /\ claimedAt[d] \in Nat
    BY <1>1 DEF DeliveryTypeOK, DeliveryAssumption
  <2>5. QED
    BY <1>2, <2>2, <2>3, <2>4
<1>6. TokenOK'
  <2>1. SUFFICES ASSUME NEW q \in Consumer, AtWork(q)'
                 PROVE  /\ took'[q] <= now
                        /\ token'[q] = 0 => delivery[item'[q]] = "absent"
                        /\ token'[q] # 0 =>
                             /\ token'[q] <= attempts'[item'[q]]
                             /\ delivery[item'[q]] = "pending" =>
                                  \/ claim'[item'[q]] = token'[q] /\ claimedAt'[item'[q]] = took'[q]
                                  \/ took'[q] + Lease < now
    BY DEF TokenOK
  <2>2. CASE q = p
    BY <1>1, <1>2, <2>2 DEF DeliveryTypeOK
  <2>3. CASE q # p
    <3>1. /\ AtWork(q) /\ item[q] \in Item
          /\ item'[q] = item[q] /\ token'[q] = token[q] /\ took'[q] = took[q]
      BY <1>2, <2>1, <2>3 DEF AtWork, DeliveryTypeOK
    <3>2. CASE item[q] = d
      BY <1>1, <1>2, <1>5, <2>3, <3>1, <3>2 DEF TokenOK, DeliveryTypeOK
    <3>3. CASE item[q] # d
      BY <1>2, <2>3, <3>1, <3>3 DEF TokenOK, DeliveryTypeOK
    <3>4. QED
      BY <3>2, <3>3
  <2>4. QED
    BY <2>2, <2>3
<1>7. LeaseHeld' /\ TokensDiffer'
  <2>1. \A q \in Consumer \ {p} :
          /\ (AtWork(q))' <=> AtWork(q)
          /\ item'[q] = item[q] /\ token'[q] = token[q] /\ took'[q] = took[q]
    BY <1>2 DEF AtWork, DeliveryTypeOK
  <2>2. item'[p] = d /\ token'[p] = attempts[d] + 1 /\ took'[p] = now /\ attempts[d] \in Nat
    BY <1>1, <1>2 DEF DeliveryTypeOK
  <2>3. \A q \in Consumer \ {p} : AtWork(q) /\ item[q] = d =>
          token[q] # attempts[d] + 1 /\ ~(attempts[d] + 1 < token[q])
    BY <1>1, <1>5, <2>2 DEF DeliveryTypeOK
  <2>4. LeaseHeld'
    BY <1>5, <2>1, <2>2, <2>3 DEF LeaseHeld
  <2>5. TokensDiffer'
    BY <2>1, <2>2, <2>3 DEF TokensDiffer
  <2>6. QED
    BY <2>4, <2>5
<1>8. WorkOK' /\ StraysOK'
  BY <1>1, <1>2 DEF WorkOK, StraysOK, AtWork, DeliveryTypeOK
<1>9. \A e \in Item \ {d} : Spent(e)' = Spent(e)
  <2>1. \A e \in Item \ {d} : Holding(e)' = Holding(e)
    BY <1>2 DEF Holding, DeliveryTypeOK
  <2>2. QED
    BY <2>1 DEF Spent
<1>10. Spent(d)' = Spent(d) + 1 /\ Spent(d) \in Nat
  <2>1. Holding(d)' = Holding(d) \cup {p} /\ p \notin Holding(d)
    BY <1>1, <1>2 DEF Holding, DeliveryTypeOK
  <2>2. Cardinality(Holding(d)') = Cardinality(Holding(d)) + 1
    BY <1>1, <2>1, HoldingFinite, JoinLeave
  <2>3. injected'[d] = injected[d] /\ injected[d] \in Nat
    BY <1>1 DEF DeliveryTypeOK
  <2>4. QED
    BY <1>1, <2>2, <2>3, HoldingFinite DEF Spent
<1>11. SpentOK'
  <2>1. \A e \in Item : Cardinality(strays[e]) \in Nat
    BY StraysFinite
  <2>2. \A e \in Item : takeovers[e] \in Nat /\ claim[e] \in Nat /\ attempts[e] \in Nat
    BY DEF DeliveryTypeOK
  <2>3. takeovers'[d] = (IF claim[d] = 0 THEN takeovers[d] ELSE takeovers[d] + 1)
    BY <1>1, <1>3 DEF DeliveryTypeOK
  <2>4. \A e \in Item \ {d} : takeovers'[e] = takeovers[e] /\ claim'[e] = claim[e]
    BY <1>2, <1>3 DEF DeliveryTypeOK
  <2>5. claim'[d] # 0
    BY <1>1, <1>2, <2>2 DEF DeliveryTypeOK
  <2>6. /\ Spent(d)' <= 1 + takeovers'[d] + Cardinality(strays[d])
    BY <1>1, <1>2, <1>10, <2>1, <2>2, <2>3 DEF SpentOK
  <2>7. QED
    BY <1>9, <2>4, <2>5, <2>6 DEF SpentOK
<1>12. QED
  BY <1>4, <1>6, <1>7, <1>8, <1>11

\* What a claim of a deleted row does: the claimer holds no claim id.
LEMMA ClaimRowlessKeeps ==
  ASSUME DeliveryAssumption, DeliveryTypeOK, DeliveryInv, NEW p \in Consumer, NEW d \in inbox[p],
         p \in up, work[p] = "idle", inbox' = [inbox EXCEPT ![p] = @ \ {d}],
         UNCHANGED <<delivery, up, now, starts, injected, strays>>, ClaimRowless(p, d)
  PROVE  DeliveryTypeOK' /\ DeliveryInv'
<1> USE DEF DeliveryInv
<1>1. d \in Item
  BY DEF DeliveryTypeOK
<1>2. /\ delivery[d] = "absent" /\ UNCHANGED <<claim, claimedAt, attempts, takeovers>>
      /\ work' = [work EXCEPT ![p] = "claimed"] /\ item' = [item EXCEPT ![p] = d]
      /\ token' = [token EXCEPT ![p] = 0] /\ took' = [took EXCEPT ![p] = now]
  BY DEF ClaimRowless, Begin
<1>3. DeliveryTypeOK'
  BY <1>1, <1>2 DEF DeliveryTypeOK, DeliveryAssumption
<1>4. \A q \in Consumer \ {p} :
        /\ (AtWork(q))' <=> AtWork(q)
        /\ item'[q] = item[q] /\ token'[q] = token[q] /\ took'[q] = took[q]
  BY <1>2 DEF AtWork, DeliveryTypeOK
<1>5. item'[p] = d /\ token'[p] = 0 /\ took'[p] = now /\ now \in Nat
  BY <1>2 DEF DeliveryTypeOK
<1>6. TokenOK'
  <2>1. SUFFICES ASSUME NEW q \in Consumer, AtWork(q)'
                 PROVE  /\ took'[q] <= now
                        /\ token'[q] = 0 => delivery[item'[q]] = "absent"
                        /\ token'[q] # 0 =>
                             /\ token'[q] <= attempts[item'[q]]
                             /\ delivery[item'[q]] = "pending" =>
                                  \/ claim[item'[q]] = token'[q] /\ claimedAt[item'[q]] = took'[q]
                                  \/ took'[q] + Lease < now
    BY <1>2 DEF TokenOK
  <2>2. CASE q = p
    BY <1>2, <1>5, <2>2
  <2>3. CASE q # p
    BY <1>4, <2>1, <2>3 DEF TokenOK
  <2>4. QED
    BY <2>2, <2>3
<1>7. LeaseHeld'
  <2>1. SUFFICES ASSUME NEW q \in Consumer, NEW r \in Consumer,
                        AtWork(q)', AtWork(r)', item'[q] = item'[r],
                        token'[q] # 0, token'[q] < token'[r]
                 PROVE  took'[q] + Lease < took'[r]
    BY DEF LeaseHeld
  <2>2. q # p /\ r # p
    BY <1>5, <2>1, <1>4 DEF DeliveryTypeOK
  <2>3. QED
    BY <1>4, <2>1, <2>2 DEF LeaseHeld
<1>8. TokensDiffer'
  BY <1>4, <1>5 DEF TokensDiffer
<1>9. WorkOK' /\ StraysOK'
  BY <1>1, <1>2 DEF WorkOK, StraysOK, AtWork, DeliveryTypeOK
<1>10. SpentOK'
  <2>1. \A e \in Item : Holding(e)' = Holding(e)
    BY <1>2, <1>4, <1>5 DEF Holding, DeliveryTypeOK
  <2>2. \A e \in Item : Spent(e)' = Spent(e)
    BY <2>1 DEF Spent
  <2>3. QED
    BY <1>2, <2>2 DEF SpentOK
<1>11. QED
  BY <1>3, <1>6, <1>7, <1>8, <1>9, <1>10

\* An event that is skipped leaves the queue only.
LEMMA SkipKeeps ==
  ASSUME DeliveryAssumption, DeliveryTypeOK, DeliveryInv, NEW p \in Consumer, NEW d \in inbox[p],
         inbox' = [inbox EXCEPT ![p] = @ \ {d}],
         UNCHANGED <<delivery, up, now, starts, injected, strays>>, Skip(d)
  PROVE  DeliveryTypeOK' /\ DeliveryInv'
<1> USE DEF DeliveryInv, Skip, consumers
<1>1. DeliveryTypeOK'
  BY DEF DeliveryTypeOK
<1>2. TokenOK' /\ TokensDiffer' /\ LeaseHeld'
  BY DEF TokenOK, TokensDiffer, LeaseHeld, AtWork
<1>3. WorkOK' /\ StraysOK'
  BY DEF WorkOK, StraysOK, AtWork, DeliveryTypeOK
<1>4. SpentOK'
  BY SpentSame DEF SpentOK
<1>5. QED
  BY <1>1, <1>2, <1>3, <1>4

\* The three outcomes of a claim.
LEMMA ClaimEventKeeps ==
  ASSUME DeliveryAssumption, DeliveryTypeOK, DeliveryInv, NEW p \in Consumer, ClaimEvent(p)
  PROVE  DeliveryTypeOK' /\ DeliveryInv'
<1>1. PICK d \in inbox[p] :
        /\ p \in up /\ work[p] = "idle"
        /\ inbox' = [inbox EXCEPT ![p] = @ \ {d}]
        /\ ClaimRow(p, d) \/ ClaimRowless(p, d) \/ Skip(d)
        /\ UNCHANGED <<delivery, up, now, starts, injected, strays>>
  BY DEF ClaimEvent
<1>2. CASE ClaimRow(p, d)
  BY <1>1, <1>2, ClaimRowKeeps
<1>3. CASE ClaimRowless(p, d)
  BY <1>1, <1>3, ClaimRowlessKeeps
<1>4. CASE Skip(d)
  BY <1>1, <1>4, SkipKeeps
<1>5. QED
  BY <1>1, <1>2, <1>3, <1>4

\* A consumer that hands over no longer holds; without a row it is its first time.
LEMMA InjectKeeps ==
  ASSUME DeliveryAssumption, DeliveryTypeOK, DeliveryInv, NEW p \in Consumer, Inject(p)
  PROVE  DeliveryTypeOK' /\ DeliveryInv'
<1> USE DEF DeliveryInv, rows
<1>1. /\ work[p] = "claimed" /\ item[p] \in Item
      /\ injected' = [injected EXCEPT ![item[p]] = @ + 1]
      /\ work' = [work EXCEPT ![p] = "injected"]
      /\ UNCHANGED <<rows, inbox, up, item, token, took, now, starts, takeovers>>
  BY DEF Inject, DeliveryTypeOK
<1>2. strays' = IF token[p] = 0 THEN [strays EXCEPT ![item[p]] = @ \cup {p}] ELSE strays
  BY DEF Inject
<1>3. DeliveryTypeOK'
  BY <1>1, <1>2 DEF DeliveryTypeOK, DeliveryAssumption
<1>4. \A q \in Consumer : (AtWork(q))' <=> AtWork(q)
  BY <1>1 DEF AtWork, DeliveryTypeOK
<1>5. TokenOK'
  BY <1>1, <1>4 DEF TokenOK
<1>6. LeaseHeld' /\ TokensDiffer'
  BY <1>1, <1>4 DEF LeaseHeld, TokensDiffer
<1>7. WorkOK'
  BY <1>1, <1>4 DEF WorkOK
<1>8. StraysOK'
  <2>1. SUFFICES ASSUME NEW d \in Item, NEW q \in strays'[d]
                 PROVE  /\ delivery[d] = "absent" /\ d \notin inbox[q]
                        /\ ~(work'[q] = "claimed" /\ item[q] = d)
    BY <1>1 DEF StraysOK
  <2>2. CASE q \in strays[d]
    BY <1>1, <2>2 DEF StraysOK, DeliveryTypeOK
  <2>3. CASE q \notin strays[d]
    <3>1. q = p /\ d = item[p] /\ token[p] = 0
      BY <1>1, <1>2, <2>1, <2>3 DEF DeliveryTypeOK
    <3>2. AtWork(p)
      BY <1>1 DEF AtWork
    <3>3. QED
      BY <1>1, <3>1, <3>2 DEF TokenOK, WorkOK, DeliveryTypeOK
  <2>4. QED
    BY <2>2, <2>3
<1>9. \A d \in Item \ {item[p]} : Holding(d)' = Holding(d)
  BY <1>1 DEF Holding, DeliveryTypeOK
<1>10. \A d \in Item \ {item[p]} : Spent(d)' = Spent(d) /\ strays'[d] = strays[d]
  BY <1>1, <1>2, <1>9 DEF Spent, DeliveryTypeOK
<1>11. injected'[item[p]] = injected[item[p]] + 1 /\ injected[item[p]] \in Nat
  BY <1>1 DEF DeliveryTypeOK
<1>12. CASE token[p] # 0
  <2>1. Holding(item[p])' = Holding(item[p]) \ {p} /\ p \in Holding(item[p])
    BY <1>1, <1>12 DEF Holding, DeliveryTypeOK
  <2>2. Cardinality(Holding(item[p])') = Cardinality(Holding(item[p])) - 1
    BY <1>1, <2>1, HoldingFinite, JoinLeave
  <2>3. Spent(item[p])' = Spent(item[p])
    BY <1>1, <1>11, <2>2, HoldingFinite DEF Spent
  <2>4. SpentOK'
    BY <1>1, <1>2, <1>10, <1>12, <2>3 DEF SpentOK
  <2>5. QED
    BY <1>3, <1>5, <1>6, <1>7, <1>8, <2>4
<1>13. CASE token[p] = 0
  <2>1. Holding(item[p])' = Holding(item[p])
    BY <1>1, <1>13 DEF Holding, DeliveryTypeOK
  <2>2. Spent(item[p])' = Spent(item[p]) + 1 /\ Spent(item[p]) \in Nat
    BY <1>1, <1>11, <2>1, HoldingFinite DEF Spent
  <2>3. strays'[item[p]] = strays[item[p]] \cup {p} /\ p \notin strays[item[p]]
    BY <1>1, <1>2, <1>13 DEF StraysOK, DeliveryTypeOK
  <2>4. /\ Cardinality(strays'[item[p]]) = Cardinality(strays[item[p]]) + 1
        /\ Cardinality(strays[item[p]]) \in Nat
    BY <1>1, <2>3, StraysFinite, JoinLeave
  <2>5. SpentOK'
    <3>1. \A d \in Item : takeovers[d] \in Nat
      BY DEF DeliveryTypeOK
    <3>2. takeovers' = takeovers /\ claim' = claim /\ delivery' = delivery
      BY <1>1
    <3>3. QED
      BY <1>1, <1>10, <2>2, <2>4, <3>1, <3>2 DEF SpentOK
  <2>6. QED
    BY <1>3, <1>5, <1>6, <1>7, <1>8, <2>5
<1>14. QED
  BY <1>12, <1>13

\* The holder closes the row; a late consumer changes nothing.
LEMMA CompleteKeeps ==
  ASSUME DeliveryAssumption, DeliveryTypeOK, DeliveryInv, NEW p \in Consumer, Complete(p)
  PROVE  DeliveryTypeOK' /\ DeliveryInv'
<1> USE DEF DeliveryInv, Complete, Holds, EndClaim, Rest, rows, consumers, deliveryHistory
<1>1. DeliveryTypeOK'
  <2>1. item[p] \in Item
    BY DEF DeliveryTypeOK
  <2>2. inbox' \in [Consumer -> SUBSET Item] /\ work' \in [Consumer -> {"idle", "claimed", "injected"}]
    BY <2>1 DEF DeliveryTypeOK
  <2>3. CASE Holds(p)
    <3>1. /\ claim' = [claim EXCEPT ![item[p]] = 0] /\ claimedAt' = [claimedAt EXCEPT ![item[p]] = 0]
          /\ attempts' = attempts /\ now' = now
      BY <2>3
    <3>2. \A d \in Item : claim'[d] <= attempts'[d] /\ claimedAt'[d] <= now'
      BY <2>1, <3>1 DEF DeliveryTypeOK
    <3>3. claim' \in [Item -> Nat] /\ claimedAt' \in [Item -> Nat]
      BY <2>1, <3>1 DEF DeliveryTypeOK
    <3>6. delivery' = [delivery EXCEPT ![item[p]] = "delivered"]
      BY <2>3
    <3>4. delivery' \in [Item -> {"absent", "pending", "delivered", "dropped"}]
      BY <2>1, <3>6 DEF DeliveryTypeOK
    <3>5. QED
      BY <2>2, <3>2, <3>3, <3>4 DEF DeliveryTypeOK
  <2>4. CASE ~Holds(p)
    BY <2>1, <2>2, <2>4 DEF DeliveryTypeOK, DeliveryAssumption
  <2>5. QED
    BY <2>3, <2>4
<1>2. TokenOK'
  <2>1. item[p] \in Item
    BY DEF DeliveryTypeOK
  <2>2. CASE Holds(p)
    <3>1. /\ claim' = [claim EXCEPT ![item[p]] = 0] /\ claimedAt' = [claimedAt EXCEPT ![item[p]] = 0]
          /\ UNCHANGED <<attempts, now, item, token, took>> /\ work' = [work EXCEPT ![p] = "idle"]
          /\ delivery' = [delivery EXCEPT ![item[p]] = "delivered"]
      BY <2>2
    <3>2. SUFFICES ASSUME NEW q \in Consumer, AtWork(q)'
                   PROVE  /\ took[q] <= now
                          /\ token[q] = 0 => delivery'[item[q]] = "absent"
                          /\ token[q] # 0 =>
                               /\ token[q] <= attempts[item[q]]
                               /\ delivery'[item[q]] = "pending" =>
                                    \/ claim'[item[q]] = token[q] /\ claimedAt'[item[q]] = took[q]
                                    \/ took[q] + Lease < now
      BY <3>1 DEF TokenOK
    <3>3. q # p /\ AtWork(q) /\ item[q] \in Item
      BY <3>1, <3>2 DEF AtWork, DeliveryTypeOK
    <3>4. CASE item[q] = item[p]
      <4>1. delivery[item[p]] = "pending" /\ claim[item[p]] = token[p]
        BY <2>2
      <4>2. token[q] # 0
        BY <3>3, <3>4, <4>1 DEF TokenOK
      <4>3. AtWork(p) /\ token[p] # token[q]
        BY <3>3, <3>4, <4>2 DEF TokensDiffer, AtWork
      <4>4. QED
        BY <3>3, <3>4, <4>1, <4>2, <4>3 DEF TokenOK
    <3>5. CASE item[q] # item[p]
      BY <3>1, <3>3, <3>5 DEF TokenOK, DeliveryTypeOK
    <3>6. QED
      BY <3>4, <3>5
  <2>3. CASE ~Holds(p)
    BY <2>1, <2>3 DEF TokenOK, AtWork, DeliveryTypeOK, DeliveryAssumption
  <2>4. QED
    BY <2>2, <2>3
<1>3. LeaseHeld' /\ TokensDiffer'
  BY DEF LeaseHeld, TokensDiffer, AtWork, DeliveryTypeOK
<1>4. \A d \in Item : Spent(d)' = Spent(d)
  <2>1. \A d \in Item : Holding(d)' = Holding(d)
    BY DEF Holding, DeliveryTypeOK
  <2>2. QED
    BY <2>1 DEF Spent
<1>5. SpentOK'
  BY <1>4 DEF SpentOK, DeliveryTypeOK
<1>6. WorkOK' /\ StraysOK'
  BY DEF WorkOK, StraysOK, AtWork, DeliveryTypeOK
<1>7. QED
  BY <1>1, <1>2, <1>3, <1>5, <1>6

\* An acknowledgement closes the row.
LEMMA MarkDeliveredKeeps ==
  ASSUME DeliveryAssumption, DeliveryTypeOK, DeliveryInv, NEW p \in Consumer, MarkDelivered(p)
  PROVE  DeliveryTypeOK' /\ DeliveryInv'
<1> USE DEF DeliveryInv, MarkDelivered, Rest, rows, consumers, deliveryHistory
<1>1. DeliveryTypeOK'
  BY DEF DeliveryTypeOK, DeliveryAssumption
<1>2. TokenOK'
  BY DEF TokenOK, AtWork, DeliveryTypeOK, DeliveryAssumption
<1>3. LeaseHeld' /\ TokensDiffer'
  BY DEF LeaseHeld, TokensDiffer, AtWork, DeliveryTypeOK
<1>4. \A d \in Item : Spent(d)' = Spent(d)
  <2>1. \A d \in Item : Holding(d)' = Holding(d)
    BY DEF Holding, DeliveryTypeOK
  <2>2. QED
    BY <2>1 DEF Spent
<1>5. SpentOK'
  BY <1>4 DEF SpentOK, DeliveryTypeOK
<1>6. WorkOK' /\ StraysOK'
  BY DEF WorkOK, StraysOK, AtWork, DeliveryTypeOK
<1>7. QED
  BY <1>1, <1>2, <1>3, <1>5, <1>6

\* A released claim was not spent, so the row has one to spare.
LEMMA ReleaseKeeps ==
  ASSUME DeliveryAssumption, DeliveryTypeOK, DeliveryInv, NEW p \in Consumer, Release(p)
  PROVE  DeliveryTypeOK' /\ DeliveryInv'
<1> USE DEF DeliveryInv, Release, Holds, EndClaim, Rest, rows, consumers, deliveryHistory
<1>1. DeliveryTypeOK'
  <2>1. item[p] \in Item
    BY DEF DeliveryTypeOK
  <2>2. inbox' \in [Consumer -> SUBSET Item] /\ work' \in [Consumer -> {"idle", "claimed", "injected"}]
    <3>1. inbox' = inbox \/ inbox' = [inbox EXCEPT ![p] = @ \cup {item[p]}]
      OBVIOUS
    <3>2. inbox \in [Consumer -> SUBSET Item] /\ work' = [work EXCEPT ![p] = "idle"]
      BY DEF DeliveryTypeOK
    <3> HIDE DEF Release, Holds, EndClaim, DeliveryInv
    <3>3. CASE inbox' = inbox
      BY <2>1, <3>2, <3>3 DEF DeliveryTypeOK
    <3>4. CASE inbox' = [inbox EXCEPT ![p] = @ \cup {item[p]}]
      BY <2>1, <3>2, <3>4 DEF DeliveryTypeOK
    <3>5. QED
      BY <3>1, <3>3, <3>4
  <2>3. CASE Holds(p)
    <3>1. /\ claim' = [claim EXCEPT ![item[p]] = 0] /\ claimedAt' = [claimedAt EXCEPT ![item[p]] = 0]
          /\ attempts' = attempts /\ now' = now
      BY <2>3
    <3>2. \A d \in Item : claim'[d] <= attempts'[d] /\ claimedAt'[d] <= now'
      BY <2>1, <3>1 DEF DeliveryTypeOK
    <3>3. claim' \in [Item -> Nat] /\ claimedAt' \in [Item -> Nat]
      BY <2>1, <3>1 DEF DeliveryTypeOK
    <3>6. delivery' = [delivery EXCEPT ![item[p]] = IF attempts[item[p]] >= MaxAttempts THEN "dropped" ELSE "pending"]
      BY <2>3
    <3>4. delivery' \in [Item -> {"absent", "pending", "delivered", "dropped"}]
      BY <2>1, <3>6 DEF DeliveryTypeOK
    <3>5. QED
      BY <2>2, <3>2, <3>3, <3>4 DEF DeliveryTypeOK
  <2>4. CASE ~Holds(p)
    BY <2>1, <2>2, <2>4 DEF DeliveryTypeOK, DeliveryAssumption
  <2>5. QED
    BY <2>3, <2>4
<1>2. TokenOK'
  <2>1. item[p] \in Item
    BY DEF DeliveryTypeOK
  <2>2. CASE Holds(p)
    <3>1. /\ claim' = [claim EXCEPT ![item[p]] = 0] /\ claimedAt' = [claimedAt EXCEPT ![item[p]] = 0]
          /\ UNCHANGED <<attempts, now, item, token, took>> /\ work' = [work EXCEPT ![p] = "idle"]
          /\ delivery' = [delivery EXCEPT ![item[p]] = IF attempts[item[p]] >= MaxAttempts THEN "dropped" ELSE "pending"]
      BY <2>2
    <3>2. SUFFICES ASSUME NEW q \in Consumer, AtWork(q)'
                   PROVE  /\ took[q] <= now
                          /\ token[q] = 0 => delivery'[item[q]] = "absent"
                          /\ token[q] # 0 =>
                               /\ token[q] <= attempts[item[q]]
                               /\ delivery'[item[q]] = "pending" =>
                                    \/ claim'[item[q]] = token[q] /\ claimedAt'[item[q]] = took[q]
                                    \/ took[q] + Lease < now
      BY <3>1 DEF TokenOK
    <3>3. q # p /\ AtWork(q) /\ item[q] \in Item
      BY <3>1, <3>2 DEF AtWork, DeliveryTypeOK
    <3>4. CASE item[q] = item[p]
      <4>1. delivery[item[p]] = "pending" /\ claim[item[p]] = token[p]
        BY <2>2
      <4>2. token[q] # 0
        BY <3>3, <3>4, <4>1 DEF TokenOK
      <4>3. AtWork(p) /\ token[p] # token[q]
        BY <3>3, <3>4, <4>2 DEF TokensDiffer, AtWork
      <4>4. QED
        BY <3>3, <3>4, <4>1, <4>2, <4>3 DEF TokenOK
    <3>5. CASE item[q] # item[p]
      BY <3>1, <3>3, <3>5 DEF TokenOK, DeliveryTypeOK
    <3>6. QED
      BY <3>4, <3>5
  <2>3. CASE ~Holds(p)
    BY <2>1, <2>3 DEF TokenOK, AtWork, DeliveryTypeOK, DeliveryAssumption
  <2>4. QED
    BY <2>2, <2>3
<1>3. LeaseHeld' /\ TokensDiffer'
  BY DEF LeaseHeld, TokensDiffer, AtWork, DeliveryTypeOK
<1>4. item[p] \in Item
  BY DEF DeliveryTypeOK
<1>5. \A d \in Item : Holding(d)' = Holding(d) \ {p}
  BY DEF Holding, DeliveryTypeOK
<1>6. \A d \in Item : /\ Spent(d)' \in Int /\ Spent(d) \in Int
                     /\ IF p \in Holding(d) THEN Spent(d)' = Spent(d) - 1 ELSE Spent(d)' = Spent(d)
  <2>1. ASSUME NEW d \in Item
        PROVE  /\ Cardinality(Holding(d)) \in Nat
               /\ IF p \in Holding(d) THEN Cardinality(Holding(d)') = Cardinality(Holding(d)) - 1
                                     ELSE Holding(d)' = Holding(d)
    BY <1>5, HoldingFinite, JoinLeave
  <2>2. injected' = injected /\ injected \in [Item -> Nat]
    BY DEF DeliveryTypeOK
  <2>3. QED
    BY <2>1, <2>2 DEF Spent
<1>7. SpentOK'
  <2>1. \A d \in Item : Cardinality(strays[d]) \in Nat /\ takeovers[d] \in Nat
    BY StraysFinite DEF DeliveryTypeOK
  <2>2. CASE Holds(p)
    <3>1. token[p] # 0
      BY <1>4, <2>2 DEF TokenOK, AtWork
    <3>2. p \in Holding(item[p]) /\ \A d \in Item \ {item[p]} : p \notin Holding(d)
      BY <3>1 DEF Holding
    <3>3. \A d \in Item \ {item[p]} : claim'[d] = claim[d] /\ delivery'[d] = delivery[d]
      BY <1>4, <2>2 DEF DeliveryTypeOK
    <3>4. takeovers' = takeovers /\ strays' = strays
      OBVIOUS
    <3>5. QED
      BY <1>4, <1>6, <2>1, <3>2, <3>3, <3>4 DEF SpentOK
  <2>3. CASE ~Holds(p)
    <3>1. /\ claim' = claim /\ delivery' = delivery
          /\ takeovers' = takeovers /\ strays' = strays
      BY <2>3
    <3>2. QED
      BY <1>6, <2>1, <3>1 DEF SpentOK
  <2>4. QED
    BY <2>2, <2>3
<1>8. WorkOK' /\ StraysOK'
  BY <1>4 DEF WorkOK, StraysOK, AtWork, DeliveryTypeOK
<1>9. QED
  BY <1>1, <1>2, <1>3, <1>7, <1>8

\* A dropped row is closed.
LEMMA DropDeliveryKeeps ==
  ASSUME DeliveryAssumption, DeliveryTypeOK, DeliveryInv, NEW p \in Consumer, DropDelivery(p)
  PROVE  DeliveryTypeOK' /\ DeliveryInv'
<1> USE DEF DeliveryInv, DropDelivery, Holds, EndClaim, Rest, rows, consumers, deliveryHistory
<1>1. DeliveryTypeOK'
  <2>1. item[p] \in Item
    BY DEF DeliveryTypeOK
  <2>2. inbox' \in [Consumer -> SUBSET Item] /\ work' \in [Consumer -> {"idle", "claimed", "injected"}]
    BY <2>1 DEF DeliveryTypeOK
  <2>3. CASE Holds(p)
    <3>1. /\ claim' = [claim EXCEPT ![item[p]] = 0] /\ claimedAt' = [claimedAt EXCEPT ![item[p]] = 0]
          /\ attempts' = attempts /\ now' = now
      BY <2>3
    <3>2. \A d \in Item : claim'[d] <= attempts'[d] /\ claimedAt'[d] <= now'
      BY <2>1, <3>1 DEF DeliveryTypeOK
    <3>3. claim' \in [Item -> Nat] /\ claimedAt' \in [Item -> Nat]
      BY <2>1, <3>1 DEF DeliveryTypeOK
    <3>6. delivery' = [delivery EXCEPT ![item[p]] = "dropped"]
      BY <2>3
    <3>4. delivery' \in [Item -> {"absent", "pending", "delivered", "dropped"}]
      BY <2>1, <3>6 DEF DeliveryTypeOK
    <3>5. QED
      BY <2>2, <3>2, <3>3, <3>4 DEF DeliveryTypeOK
  <2>4. CASE ~Holds(p)
    BY <2>1, <2>2, <2>4 DEF DeliveryTypeOK, DeliveryAssumption
  <2>5. QED
    BY <2>3, <2>4
<1>2. TokenOK'
  <2>1. item[p] \in Item
    BY DEF DeliveryTypeOK
  <2>2. CASE Holds(p)
    <3>1. /\ claim' = [claim EXCEPT ![item[p]] = 0] /\ claimedAt' = [claimedAt EXCEPT ![item[p]] = 0]
          /\ UNCHANGED <<attempts, now, item, token, took>> /\ work' = [work EXCEPT ![p] = "idle"]
          /\ delivery' = [delivery EXCEPT ![item[p]] = "dropped"]
      BY <2>2
    <3>2. SUFFICES ASSUME NEW q \in Consumer, AtWork(q)'
                   PROVE  /\ took[q] <= now
                          /\ token[q] = 0 => delivery'[item[q]] = "absent"
                          /\ token[q] # 0 =>
                               /\ token[q] <= attempts[item[q]]
                               /\ delivery'[item[q]] = "pending" =>
                                    \/ claim'[item[q]] = token[q] /\ claimedAt'[item[q]] = took[q]
                                    \/ took[q] + Lease < now
      BY <3>1 DEF TokenOK
    <3>3. q # p /\ AtWork(q) /\ item[q] \in Item
      BY <3>1, <3>2 DEF AtWork, DeliveryTypeOK
    <3>4. CASE item[q] = item[p]
      <4>1. delivery[item[p]] = "pending" /\ claim[item[p]] = token[p]
        BY <2>2
      <4>2. token[q] # 0
        BY <3>3, <3>4, <4>1 DEF TokenOK
      <4>3. AtWork(p) /\ token[p] # token[q]
        BY <3>3, <3>4, <4>2 DEF TokensDiffer, AtWork
      <4>4. QED
        BY <3>3, <3>4, <4>1, <4>2, <4>3 DEF TokenOK
    <3>5. CASE item[q] # item[p]
      BY <3>1, <3>3, <3>5 DEF TokenOK, DeliveryTypeOK
    <3>6. QED
      BY <3>4, <3>5
  <2>3. CASE ~Holds(p)
    BY <2>1, <2>3 DEF TokenOK, AtWork, DeliveryTypeOK, DeliveryAssumption
  <2>4. QED
    BY <2>2, <2>3
<1>3. LeaseHeld' /\ TokensDiffer'
  BY DEF LeaseHeld, TokensDiffer, AtWork, DeliveryTypeOK
<1>4. item[p] \in Item
  BY DEF DeliveryTypeOK
<1>5. \A d \in Item : Holding(d)' = Holding(d) \ {p}
  BY DEF Holding, DeliveryTypeOK
<1>6. \A d \in Item : /\ Spent(d)' \in Int /\ Spent(d) \in Int
                     /\ IF p \in Holding(d) THEN Spent(d)' = Spent(d) - 1 ELSE Spent(d)' = Spent(d)
  <2>1. ASSUME NEW d \in Item
        PROVE  /\ Cardinality(Holding(d)) \in Nat
               /\ IF p \in Holding(d) THEN Cardinality(Holding(d)') = Cardinality(Holding(d)) - 1
                                     ELSE Holding(d)' = Holding(d)
    BY <1>5, HoldingFinite, JoinLeave
  <2>2. injected' = injected /\ injected \in [Item -> Nat]
    BY DEF DeliveryTypeOK
  <2>3. QED
    BY <2>1, <2>2 DEF Spent
<1>7. SpentOK'
  <2>1. /\ takeovers' = takeovers /\ takeovers \in [Item -> Nat] /\ strays' = strays
        /\ \A d \in Item : Cardinality(strays[d]) \in Nat
    BY StraysFinite DEF DeliveryTypeOK
  <2>2. \A d \in Item :
          delivery'[d] = "pending" /\ claim'[d] = 0 => delivery[d] = "pending" /\ claim[d] = 0
    <3>1. CASE Holds(p)
      <4>1. /\ delivery' = [delivery EXCEPT ![item[p]] = "dropped"]
            /\ claim' = [claim EXCEPT ![item[p]] = 0]
        BY <3>1
      <4>2. QED
        BY <4>1 DEF DeliveryTypeOK
    <3>2. CASE ~Holds(p)
      BY <3>2
    <3>3. QED
      BY <3>1, <3>2
  <2>3. SpentOK
    OBVIOUS
  <2> HIDE DEF DeliveryInv, DropDelivery, Holds, EndClaim, Rest, rows, consumers, deliveryHistory
  <2>4. QED
    BY <1>6, <2>1, <2>2, <2>3 DEF SpentOK
<1>8. WorkOK' /\ StraysOK'
  BY <1>4 DEF WorkOK, StraysOK, AtWork, DeliveryTypeOK
<1>9. QED
  BY <1>1, <1>2, <1>3, <1>7, <1>8

\* A dead consumer holds nothing; its claim stays.
LEMMA DieKeeps ==
  ASSUME DeliveryAssumption, DeliveryTypeOK, DeliveryInv, NEW p \in Consumer, Die(p)
  PROVE  DeliveryTypeOK' /\ DeliveryInv'
<1> USE DEF DeliveryInv, Die, Rest, rows, consumers, deliveryHistory
<1>1. DeliveryTypeOK'
  BY DEF DeliveryTypeOK, DeliveryAssumption
<1>2. TokenOK'
  BY DEF TokenOK, AtWork, DeliveryTypeOK, DeliveryAssumption
<1>3. LeaseHeld' /\ TokensDiffer'
  BY DEF LeaseHeld, TokensDiffer, AtWork, DeliveryTypeOK
<1>4. item[p] \in Item
  BY DEF DeliveryTypeOK
<1>5. \A d \in Item : Holding(d)' = Holding(d) \ {p}
  BY DEF Holding, DeliveryTypeOK
<1>6. \A d \in Item : /\ Spent(d)' \in Int /\ Spent(d) \in Int
                     /\ IF p \in Holding(d) THEN Spent(d)' = Spent(d) - 1 ELSE Spent(d)' = Spent(d)
  <2>1. ASSUME NEW d \in Item
        PROVE  /\ Cardinality(Holding(d)) \in Nat
               /\ IF p \in Holding(d) THEN Cardinality(Holding(d)') = Cardinality(Holding(d)) - 1
                                     ELSE Holding(d)' = Holding(d)
    BY <1>5, HoldingFinite, JoinLeave
  <2>2. injected' = injected /\ injected \in [Item -> Nat]
    BY DEF DeliveryTypeOK
  <2>3. QED
    BY <2>1, <2>2 DEF Spent
<1>7. SpentOK'
  <2>1. \A d \in Item : Cardinality(strays[d]) \in Nat /\ takeovers[d] \in Nat
    BY StraysFinite DEF DeliveryTypeOK
  <2>2. UNCHANGED <<claim, delivery, takeovers, strays>>
    OBVIOUS
  <2>3. QED
    BY <1>6, <2>1, <2>2 DEF SpentOK
<1>8. WorkOK' /\ StraysOK'
  BY <1>4 DEF WorkOK, StraysOK, AtWork, DeliveryTypeOK
<1>9. QED
  BY <1>1, <1>2, <1>3, <1>7, <1>8

\* A start closes rows that are too old and claims none.
LEMMA RestoreKeeps ==
  ASSUME DeliveryAssumption, DeliveryTypeOK, DeliveryInv, NEW p \in Consumer, Restore(p)
  PROVE  DeliveryTypeOK' /\ DeliveryInv'
<1> USE DEF DeliveryInv, Restore, rows, consumers, deliveryHistory
<1>1. DeliveryTypeOK'
  BY DEF DeliveryTypeOK, DeliveryAssumption
<1>2. TokenOK'
  BY DEF TokenOK, AtWork, DeliveryTypeOK, DeliveryAssumption
<1>3. LeaseHeld' /\ TokensDiffer'
  BY DEF LeaseHeld, TokensDiffer, AtWork, DeliveryTypeOK
<1>4. SpentOK'
  BY SpentSame DEF SpentOK, DeliveryTypeOK
<1>5. WorkOK' /\ StraysOK'
  BY DEF WorkOK, StraysOK, AtWork, DeliveryTypeOK
<1>6. QED
  BY <1>1, <1>2, <1>3, <1>4, <1>5

\* A row that is deleted takes no claim with it.
LEMMA PurgeKeeps ==
  ASSUME DeliveryAssumption, DeliveryTypeOK, DeliveryInv, NEW d \in Item, Purge(d)
  PROVE  DeliveryTypeOK' /\ DeliveryInv'
<1> USE DEF DeliveryInv, Purge, consumers, deliveryHistory
<1>1. DeliveryTypeOK'
  BY DEF DeliveryTypeOK, DeliveryAssumption
<1>2. TokenOK'
  BY DEF TokenOK, AtWork, DeliveryTypeOK
<1>3. LeaseHeld' /\ TokensDiffer'
  BY DEF LeaseHeld, TokensDiffer, AtWork
<1>4. SpentOK'
  BY SpentSame DEF SpentOK, DeliveryTypeOK
<1>5. WorkOK' /\ StraysOK'
  BY DEF WorkOK, StraysOK, AtWork, DeliveryTypeOK
<1>6. QED
  BY <1>1, <1>2, <1>3, <1>4, <1>5

\* Time only makes leases run out.
LEMMA PassKeeps ==
  ASSUME DeliveryAssumption, DeliveryTypeOK, DeliveryInv, Pass
  PROVE  DeliveryTypeOK' /\ DeliveryInv'
<1> USE DEF DeliveryInv, Pass, rows, consumers, deliveryHistory
<1>1. DeliveryTypeOK'
  BY DEF DeliveryTypeOK
<1>2. TokenOK'
  BY DEF TokenOK, AtWork, DeliveryTypeOK, DeliveryAssumption
<1>3. LeaseHeld' /\ TokensDiffer'
  BY DEF LeaseHeld, TokensDiffer, AtWork
<1>4. SpentOK'
  BY SpentSame DEF SpentOK
<1>5. WorkOK' /\ StraysOK'
  BY DEF WorkOK, StraysOK, AtWork
<1>6. QED
  BY <1>1, <1>2, <1>3, <1>4, <1>5

-----------------------------------------------------------------------------
(* The invariant, and what follows from it *)

\* The invariant holds initially.
LEMMA DeliveryInitHolds ==
  ASSUME DeliveryAssumption, DeliveryInit, Item # {}
  PROVE  DeliveryTypeOK /\ DeliveryInv
<1>1. (CHOOSE d \in Item : TRUE) \in Item
  OBVIOUS
<1>2. {} \in SUBSET Item
  OBVIOUS
<1>3. DeliveryTypeOK
  BY <1>1, <1>2 DEF DeliveryInit, DeliveryTypeOK, DeliveryAssumption
<1>4. TokenOK /\ TokensDiffer /\ LeaseHeld /\ WorkOK /\ StraysOK
  BY DEF DeliveryInit, TokenOK, TokensDiffer, LeaseHeld, WorkOK, StraysOK, AtWork
<1>5. \A d \in Item : Holding(d) = {}
  BY DEF DeliveryInit, Holding
<1>6. Cardinality({}) = 0
  BY FS_EmptySet, Zenon
<1>9. \A d \in Item : injected[d] = 0 /\ takeovers[d] = 0 /\ strays[d] = {}
  BY DEF DeliveryInit
<1>10. \A d \in Item : Spent(d) = 0
  BY <1>5, <1>6, <1>9 DEF Spent
<1>11. \A d \in Item : Cardinality(strays[d]) = 0
  BY <1>6, <1>9
<1>7. SpentOK
  BY <1>9, <1>10, <1>11 DEF SpentOK
<1>8. QED
  BY <1>3, <1>4, <1>7 DEF DeliveryInv

\* Every step, and a stutter, preserves it.
LEMMA DeliveryNextKeeps ==
  ASSUME DeliveryAssumption, DeliveryTypeOK, DeliveryInv, [DeliveryNext]_deliveryVars
  PROVE  DeliveryTypeOK' /\ DeliveryInv'
<1>1. ASSUME NEW p \in Consumer,
             \/ ClaimEvent(p) \/ Inject(p) \/ Complete(p) \/ MarkDelivered(p) \/ Release(p)
             \/ DropDelivery(p) \/ Die(p) \/ Restore(p)
      PROVE  DeliveryTypeOK' /\ DeliveryInv'
  <2>1. CASE ClaimEvent(p)
    BY <2>1, ClaimEventKeeps
  <2>2. CASE Inject(p)
    BY <2>2, InjectKeeps
  <2>3. CASE Complete(p)
    BY <2>3, CompleteKeeps
  <2>4. CASE MarkDelivered(p)
    BY <2>4, MarkDeliveredKeeps
  <2>5. CASE Release(p)
    BY <2>5, ReleaseKeeps
  <2>6. CASE DropDelivery(p)
    BY <2>6, DropDeliveryKeeps
  <2>7. CASE Die(p)
    BY <2>7, DieKeeps
  <2>8. CASE Restore(p)
    BY <2>8, RestoreKeeps
  <2>9. QED
    BY <1>1, <2>1, <2>2, <2>3, <2>4, <2>5, <2>6, <2>7, <2>8
<1>2. CASE Pass
  BY <1>2, PassKeeps
<1>5. ASSUME NEW d \in Item, Purge(d)
      PROVE  DeliveryTypeOK' /\ DeliveryInv'
  BY <1>5, PurgeKeeps
<1>3. CASE UNCHANGED deliveryVars
  <2> USE <1>3 DEF deliveryVars, rows, consumers, deliveryHistory
  <2>1. DeliveryTypeOK'
    BY DEF DeliveryTypeOK
  <2>2. TokenOK' /\ TokensDiffer' /\ LeaseHeld'
    BY DEF DeliveryInv, TokenOK, TokensDiffer, LeaseHeld, AtWork
  <2>5. WorkOK' /\ StraysOK'
    BY DEF DeliveryInv, WorkOK, StraysOK, AtWork
  <2>3. SpentOK'
    BY SpentSame DEF DeliveryInv, SpentOK
  <2>4. QED
    BY <2>1, <2>2, <2>3, <2>5 DEF DeliveryInv
<1>4. QED
  BY <1>1, <1>2, <1>3, <1>5 DEF DeliveryNext

\* The invariant holds in every reachable state.
THEOREM DeliveryInvariant == DeliverySpec => [](DeliveryTypeOK /\ DeliveryInv)
<1>1. DeliveryInit => DeliveryTypeOK /\ DeliveryInv
  BY DeliveryAssumption, DeliveryInitHolds DEF DeliveryAssumption
<1>2. (DeliveryTypeOK /\ DeliveryInv) /\ [DeliveryNext]_deliveryVars
      => (DeliveryTypeOK /\ DeliveryInv)'
  BY DeliveryAssumption, DeliveryNextKeeps
<1>3. QED
  BY <1>1, <1>2, PTL DEF DeliverySpec

\* Types; a row's claim is one of its attempts and no claim lies in the future.
THEOREM DeliveryTyped == DeliverySpec => []DeliveryTypeOK
BY DeliveryInvariant, PTL

\* While its lease lasts a consumer that claimed a row is alone with it, but for those
\* who find the row deleted.
THEOREM LeaseIsExclusive == DeliverySpec => []LeaseHeld
<1>1. DeliveryTypeOK /\ DeliveryInv => LeaseHeld
  BY DEF DeliveryInv
<1>2. QED
  BY <1>1, DeliveryInvariant, PTL

\* A result is delivered again only past a lease that ran out, or by a process that
\* found its row deleted.
THEOREM DeliveredOncePerLease == DeliverySpec => []InjectedOnce
<1>1. DeliveryTypeOK /\ DeliveryInv => InjectedOnce
  <2>1. SUFFICES ASSUME DeliveryTypeOK, DeliveryInv, NEW d \in Item
                 PROVE  injected[d] <= 1 + takeovers[d] + Cardinality(strays[d])
    BY DEF InjectedOnce
  <2>2. injected[d] + Cardinality(Holding(d)) <= 1 + takeovers[d] + Cardinality(strays[d])
    BY <2>1 DEF DeliveryInv, SpentOK, Spent
  <2>3. Cardinality(Holding(d)) \in Nat
    BY DeliveryAssumption, HoldingFinite
  <2>4. Cardinality(strays[d]) \in Nat
    BY <2>1, DeliveryAssumption, StraysFinite
  <2>5. QED
    BY <2>1, <2>2, <2>3, <2>4 DEF DeliveryTypeOK
<1>2. QED
  BY <1>1, DeliveryInvariant, PTL

-------------------------------------------------------------------------------
(* The components together. *)

\* The components side by side, their steps in any order.
SideBySide ==
  /\ Init /\ [][Next]_vars
  /\ DeliverySpec /\ KernelSpec /\ SyncSpec /\ WatchSpec

\* What the invariants of the components say.
Pledges ==
  /\ TypeOK /\ PublishedOnce /\ SlotsBounded /\ PoolServes
  /\ Survives /\ RecordsAttended
  /\ LeaseHeld /\ InjectedOnce
  /\ KernelsOwned /\ OwnReply /\ SavesKept
  /\ SilenceExplained /\ PromiseKept /\ FloodAccounted

\* To look at one component at a time, as MCExecution does, is one of these orders.
THEOREM PartByPart == ExecutionSpec => SideBySide
<1>1. ExecutionInit => Init /\ DeliveryInit /\ KernelInit /\ SyncInit /\ WatchInit
  BY DEF ExecutionInit
<1>2. [ExecutionNext]_executionVars =>
        /\ [Next]_vars /\ [DeliveryNext]_deliveryVars
        /\ [KernelNext]_kernelVars /\ [SyncNext]_syncVars /\ [WatchNext]_watchVars
  BY DEF ExecutionNext, executionVars
<1> QED
  BY <1>1, <1>2, PTL DEF ExecutionSpec, SideBySide, DeliverySpec, KernelSpec, SyncSpec, WatchSpec

\* Delegation owes its safety to no fairness.
LEMMA DelegationSafe ==
  Init /\ [][Next]_vars => [](TypeOK /\ Inv /\ AttendInv /\ PoolInv) /\ KeepsContract
<1>1. Init => TypeOK /\ Inv /\ AttendInv /\ PoolInv /\ Contract!Init
  <2>1. ASSUME Init
        PROVE  \A u \in Unit : Standing(u) = "new"
    BY <2>1 DEF Init, Standing, OnItsWay
  <2> QED BY <2>1, TypeInit, InvInit, AttendInit, PoolInit DEF Init, Contract!Init
<1>2. TypeOK /\ Inv /\ [Next]_vars => (TypeOK /\ Inv)'
  BY TypeStep, InvStep
<1>3. (TypeOK /\ Inv) /\ (TypeOK /\ Inv)' /\ AttendInv /\ [Next]_vars => AttendInv'
  BY AttendStep
<1>4. (TypeOK /\ Inv) /\ (TypeOK /\ Inv)' /\ PoolInv /\ [Next]_vars => PoolInv'
  BY PoolStep
<1>5. TypeOK /\ Inv /\ [Next]_vars
        => [Contract!Next]_<<[u \in Unit |-> Standing(u)], delivered, dispatched, crashes>>
  BY ContractStep DEF Stages
<1> QED
  BY <1>1, <1>2, <1>3, <1>4, <1>5, PTL DEF KeepsContract, Contract!Spec

\* What is proved of the components one by one holds of them side by side, and so of
\* one at a time: in no order of their steps does one break what another promises, and
\* delegation keeps its contract among them.
THEOREM PledgesHold == SideBySide => []Pledges /\ KeepsContract
<1>1. TypeOK /\ Inv /\ AttendInv /\ PoolInv =>
        /\ TypeOK /\ PublishedOnce /\ SlotsBounded /\ PoolServes
        /\ Survives /\ RecordsAttended
  BY InvMeans, PoolMeans DEF AttendInv
<1>2. DeliverySpec /\ WatchSpec =>
        [](LeaseHeld /\ InjectedOnce /\ SilenceExplained /\ PromiseKept /\ FloodAccounted)
  BY LeaseIsExclusive, DeliveredOncePerLease, SilenceIsExplained, PromiseIsKept,
     FloodIsAccounted, PTL
<1>3. KernelSpec /\ SyncSpec => [](KernelsOwned /\ OwnReply /\ SavesKept)
  BY KernelsAreOwned, RepliesAreOwn, SavesAreKept, PTL
<1>4. (/\ TypeOK /\ PublishedOnce /\ SlotsBounded /\ PoolServes
       /\ Survives /\ RecordsAttended
       /\ LeaseHeld /\ InjectedOnce /\ SilenceExplained /\ PromiseKept /\ FloodAccounted
       /\ KernelsOwned /\ OwnReply /\ SavesKept)
      => Pledges
  BY DEF Pledges
<1> QED
  BY <1>1, <1>2, <1>3, <1>4, DelegationSafe, PTL DEF SideBySide

=============================================================================
