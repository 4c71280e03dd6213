------------------------- MODULE ApprovalQueueProofs -------------------------
(* Proofs about ApprovalQueue: whatever the threads, commands and findings, a *)
(* command that runs on an answer runs on a human's answer to an identical    *)
(* request, once is once, and what is remembered was granted.                 *)
EXTENDS ApprovalQueue, FiniteSetTheorems, TLAPS

\* Steps at which a check has made no entry yet, and those at which it has its own.
Early == {"idle", "match", "judge", "route", "look", "follow", "adopt", "enter"}
Own   == {"notify", "unsent", "wait", "drop", "finish"}

-----------------------------------------------------------------------------
(* The inductive invariant *)

\* Without an entry there is nothing in the queue, in a hand, or answered.
FreshOK ==
  \A c \in Check :
     /\ step[c] \in Early => arrival[c] = 0
     /\ arrival[c] = 0 => /\ c \notin queued /\ issued[c] = "none" /\ result[c] \notin Grants
                         /\ \A h \in Hand : c \notin hand[h]

\* What is queued has not been answered.
QueueOK == \A e \in queued : issued[e] = "none" /\ \A h \in Hand : e \notin hand[h]

\* A hand gives out the choice that was issued.
HandOK ==
  \A h \in Hand : \A e \in hand[h] : verdict[h] \in Grants => issued[e] = verdict[h]

\* A result that grants is the choice that was issued.
ResultOK == \A e \in Check : result[e] \in Grants => issued[e] = result[e]

\* A follower follows an identical request that has been entered.
FollowOK ==
  \A c \in Check : step[c] \in {"follow", "adopt"} => arrival[lead[c]] # 0 /\ Identical(c,
     lead[c])

\* From the entry on a check waits for itself.
OwnOK == \A c \in Check : step[c] \in Own => lead[c] = c /\ arrival[c] # 0

\* What was granted by an answer was granted by a human's, "once" to its own request.
GrantOK ==
  \A c \in Check : step[c] \in Granted /\ ground[c] = "answer" =>
     /\ arrival[lead[c]] # 0 /\ Identical(c, lead[c])
     /\ issued[lead[c]] \in Grants /\ (lead[c] # c => issued[lead[c]] # "once")

\* What is being persisted is the choice that was issued, for keys of the request.
SavingOK ==
  \A c \in Check : step[c] \in Saving =>
     /\ ground[c] = "answer" /\ choice[c] = issued[lead[c]] /\ todo[c] \subseteq keys[c]

\* A prompt that is being sent or waited for can be answered.
ReachOK ==
  \A c \in Check : step[c] \in {"notify", "wait"} =>
     c \in queued \cup fired \cup UNION {hand[h] : h \in Hand}

Always(k)  == k \notin Tirith /\ \E e \in Check : k \in keys[e] /\ issued[e] = "always"
Granting(k) == \E e \in Check : k \in keys[e] /\ issued[e] \in {"session", "always"}

\* Every key that is remembered, or about to be saved, was granted for that long.
KeysOK ==
  /\ \A k \in approved : Granting(k)
  /\ \A k \in permanent \cup saved : Always(k)
  /\ \A c \in Check : \A k \in snapshot[c] : Always(k)

ApprovalInv ==
  /\ FreshOK /\ QueueOK /\ HandOK /\ ResultOK /\ FollowOK /\ OwnOK
  /\ GrantOK /\ SavingOK /\ ReachOK /\ KeysOK

-----------------------------------------------------------------------------
(* A fact about counting *)

\* The place that the next entry takes in the queue is a positive number.
LEMMA NextArrival ==
  ASSUME ApprovalAssumption
  PROVE  Cardinality({d \in Check : arrival[d] > 0}) + 1 \in Nat \ {0}
<1> DEFINE E == {d \in Check : arrival[d] > 0}
<1>1. IsFiniteSet(E)
  BY FS_Subset DEF ApprovalAssumption
<1>2. Cardinality(E) \in Nat
  BY <1>1, FS_CardinalityType
<1>3. QED
  BY <1>2

-----------------------------------------------------------------------------
(* Every action preserves the invariant *)

\* Starting makes no entry.
LEMMA StartKeeps ==
  ASSUME ApprovalAssumption, ApprovalTypeOK, ApprovalInv, NEW c \in Check, Start(c)
  PROVE  ApprovalTypeOK' /\ ApprovalInv'
<1> USE DEF ApprovalInv, Start, Grant, Goto,
        threads, prompts, hands, allow, approvalHistory,
        Grants, Choices, Grounds, Waiting, Saving, Granted, CheckSteps, Early, Own
<1>1. ApprovalTypeOK'
  BY DEF ApprovalAssumption, ApprovalTypeOK
<1>2. FreshOK'
  BY DEF ApprovalTypeOK, FreshOK, QueueOK, HandOK
<1>3. QueueOK'
  BY DEF ApprovalTypeOK, FreshOK, QueueOK
<1>4. HandOK'
  BY DEF ApprovalTypeOK, HandOK, QueueOK, FreshOK
<1>5. ResultOK'
  BY DEF ApprovalTypeOK, ResultOK, HandOK, QueueOK
<1>6. FollowOK'
  BY DEF ApprovalTypeOK, FollowOK, FreshOK, Identical, QueueOK
<1>7. OwnOK'
  BY DEF ApprovalTypeOK, OwnOK, FreshOK
<1>8. GrantOK'
  BY DEF ApprovalTypeOK, GrantOK, FollowOK, OwnOK, ResultOK, FreshOK, QueueOK, Identical
<1>9. SavingOK'
  BY DEF ApprovalTypeOK, SavingOK, GrantOK, QueueOK, ResultOK, OwnOK, FollowOK
<1>10. ReachOK'
  BY DEF ApprovalTypeOK, ReachOK
<1>11. KeysOK'
  BY DEF ApprovalTypeOK, KeysOK, Always, Granting, SavingOK, GrantOK
<1>12. QED
  BY <1>1, <1>2, <1>3, <1>4, <1>5, <1>6, <1>7, <1>8, <1>9, <1>10, <1>11

\* While findings are matched there is no entry, so keys of requests stay.
LEMMA MatchKeyKeeps ==
  ASSUME ApprovalAssumption, ApprovalTypeOK, ApprovalInv, NEW c \in Check, MatchKey(c)
  PROVE  ApprovalTypeOK' /\ ApprovalInv'
<1> USE DEF ApprovalInv, MatchKey, Goto,
        threads, prompts, hands, allow, approvalHistory,
        Grants, Choices, Grounds, Waiting, Saving, Granted, CheckSteps, Early, Own
<1>1. ApprovalTypeOK'
  BY DEF ApprovalAssumption, ApprovalTypeOK
<1>2. FreshOK'
  BY DEF ApprovalTypeOK, FreshOK, QueueOK, HandOK
<1>3. QueueOK'
  BY DEF ApprovalTypeOK, FreshOK, QueueOK
<1>4. HandOK'
  BY DEF ApprovalTypeOK, HandOK, QueueOK, FreshOK
<1>5. ResultOK'
  BY DEF ApprovalTypeOK, ResultOK, HandOK, QueueOK
<1>6. FollowOK'
  BY DEF ApprovalTypeOK, FollowOK, FreshOK, Identical, QueueOK
<1>7. OwnOK'
  BY DEF ApprovalTypeOK, OwnOK, FreshOK
<1>8. GrantOK'
  BY DEF ApprovalTypeOK, GrantOK, FollowOK, OwnOK, ResultOK, FreshOK, QueueOK, Identical
<1>9. SavingOK'
  BY DEF ApprovalTypeOK, SavingOK, GrantOK, QueueOK, ResultOK, OwnOK, FollowOK
<1>10. ReachOK'
  BY DEF ApprovalTypeOK, ReachOK
<1>11. KeysOK'
  BY DEF ApprovalTypeOK, KeysOK, Always, Granting, SavingOK, GrantOK
<1>12. QED
  BY <1>1, <1>2, <1>3, <1>4, <1>5, <1>6, <1>7, <1>8, <1>9, <1>10, <1>11

\* A check whose keys are all approved is not granted by an answer.
LEMMA MatchedKeeps ==
  ASSUME ApprovalAssumption, ApprovalTypeOK, ApprovalInv, NEW c \in Check, Matched(c)
  PROVE  ApprovalTypeOK' /\ ApprovalInv'
<1> USE DEF ApprovalInv, Matched, Grant, Goto,
        threads, prompts, hands, allow, approvalHistory,
        Grants, Choices, Grounds, Waiting, Saving, Granted, CheckSteps, Early, Own
<1>1. ApprovalTypeOK'
  BY DEF ApprovalAssumption, ApprovalTypeOK
<1>2. FreshOK'
  BY DEF ApprovalTypeOK, FreshOK, QueueOK, HandOK
<1>3. QueueOK'
  BY DEF ApprovalTypeOK, FreshOK, QueueOK
<1>4. HandOK'
  BY DEF ApprovalTypeOK, HandOK, QueueOK, FreshOK
<1>5. ResultOK'
  BY DEF ApprovalTypeOK, ResultOK, HandOK, QueueOK
<1>6. FollowOK'
  BY DEF ApprovalTypeOK, FollowOK, FreshOK, Identical, QueueOK
<1>7. OwnOK'
  BY DEF ApprovalTypeOK, OwnOK, FreshOK
<1>8. GrantOK'
  BY DEF ApprovalTypeOK, GrantOK, FollowOK, OwnOK, ResultOK, FreshOK, QueueOK, Identical
<1>9. SavingOK'
  BY DEF ApprovalTypeOK, SavingOK, GrantOK, QueueOK, ResultOK, OwnOK, FollowOK
<1>10. ReachOK'
  BY DEF ApprovalTypeOK, ReachOK
<1>11. KeysOK'
  BY DEF ApprovalTypeOK, KeysOK, Always, Granting, SavingOK, GrantOK
<1>12. QED
  BY <1>1, <1>2, <1>3, <1>4, <1>5, <1>6, <1>7, <1>8, <1>9, <1>10, <1>11

\* The guardian grants by itself, or leaves the check without an entry.
LEMMA JudgeKeeps ==
  ASSUME ApprovalAssumption, ApprovalTypeOK, ApprovalInv, NEW c \in Check, Judge(c)
  PROVE  ApprovalTypeOK' /\ ApprovalInv'
<1> USE DEF ApprovalInv, Judge, Grant, Goto,
        threads, prompts, hands, allow, approvalHistory,
        Grants, Choices, Grounds, Waiting, Saving, Granted, CheckSteps, Early, Own
<1>1. ApprovalTypeOK'
  BY DEF ApprovalAssumption, ApprovalTypeOK
<1>2. FreshOK'
  BY DEF ApprovalTypeOK, FreshOK, QueueOK, HandOK
<1>3. QueueOK'
  BY DEF ApprovalTypeOK, FreshOK, QueueOK
<1>4. HandOK'
  BY DEF ApprovalTypeOK, HandOK, QueueOK, FreshOK
<1>5. ResultOK'
  BY DEF ApprovalTypeOK, ResultOK, HandOK, QueueOK
<1>6. FollowOK'
  BY DEF ApprovalTypeOK, FollowOK, FreshOK, Identical, QueueOK
<1>7. OwnOK'
  BY DEF ApprovalTypeOK, OwnOK, FreshOK
<1>8. GrantOK'
  BY DEF ApprovalTypeOK, GrantOK, FollowOK, OwnOK, ResultOK, FreshOK, QueueOK, Identical
<1>9. SavingOK'
  BY DEF ApprovalTypeOK, SavingOK, GrantOK, QueueOK, ResultOK, OwnOK, FollowOK
<1>10. ReachOK'
  BY DEF ApprovalTypeOK, ReachOK
<1>11. KeysOK'
  BY DEF ApprovalTypeOK, KeysOK, Always, Granting, SavingOK, GrantOK
<1>12. QED
  BY <1>1, <1>2, <1>3, <1>4, <1>5, <1>6, <1>7, <1>8, <1>9, <1>10, <1>11

\* Reading the callback makes no entry.
LEMMA RouteKeeps ==
  ASSUME ApprovalAssumption, ApprovalTypeOK, ApprovalInv, NEW c \in Check, Route(c)
  PROVE  ApprovalTypeOK' /\ ApprovalInv'
<1> USE DEF ApprovalInv, Route, Goto,
        threads, prompts, hands, allow, approvalHistory,
        Grants, Choices, Grounds, Waiting, Saving, Granted, CheckSteps, Early, Own
<1>1. ApprovalTypeOK'
  BY DEF ApprovalAssumption, ApprovalTypeOK
<1>2. FreshOK'
  BY DEF ApprovalTypeOK, FreshOK, QueueOK, HandOK
<1>3. QueueOK'
  BY DEF ApprovalTypeOK, FreshOK, QueueOK
<1>4. HandOK'
  BY DEF ApprovalTypeOK, HandOK, QueueOK, FreshOK
<1>5. ResultOK'
  BY DEF ApprovalTypeOK, ResultOK, HandOK, QueueOK
<1>6. FollowOK'
  BY DEF ApprovalTypeOK, FollowOK, FreshOK, Identical, QueueOK
<1>7. OwnOK'
  BY DEF ApprovalTypeOK, OwnOK, FreshOK
<1>8. GrantOK'
  BY DEF ApprovalTypeOK, GrantOK, FollowOK, OwnOK, ResultOK, FreshOK, QueueOK, Identical
<1>9. SavingOK'
  BY DEF ApprovalTypeOK, SavingOK, GrantOK, QueueOK, ResultOK, OwnOK, FollowOK
<1>10. ReachOK'
  BY DEF ApprovalTypeOK, ReachOK
<1>11. KeysOK'
  BY DEF ApprovalTypeOK, KeysOK, Always, Granting, SavingOK, GrantOK
<1>12. QED
  BY <1>1, <1>2, <1>3, <1>4, <1>5, <1>6, <1>7, <1>8, <1>9, <1>10, <1>11

\* The leader is queued, so it has been entered, and its request is identical.
LEMMA LookKeeps ==
  ASSUME ApprovalAssumption, ApprovalTypeOK, ApprovalInv, NEW c \in Check, Look(c)
  PROVE  ApprovalTypeOK' /\ ApprovalInv'
<1> USE DEF ApprovalInv, Look, Oldest, Identical, Goto,
        threads, prompts, hands, allow, approvalHistory,
        Grants, Choices, Grounds, Waiting, Saving, Granted, CheckSteps, Early, Own
<1>1. ApprovalTypeOK'
  BY DEF ApprovalAssumption, ApprovalTypeOK
<1>2. FreshOK'
  BY DEF ApprovalTypeOK, FreshOK, QueueOK, HandOK
<1>3. QueueOK'
  BY DEF ApprovalTypeOK, FreshOK, QueueOK
<1>4. HandOK'
  BY DEF ApprovalTypeOK, HandOK, QueueOK, FreshOK
<1>5. ResultOK'
  BY DEF ApprovalTypeOK, ResultOK, HandOK, QueueOK
<1>6. FollowOK'
  BY DEF ApprovalTypeOK, FollowOK, FreshOK, Identical, QueueOK
<1>7. OwnOK'
  BY DEF ApprovalTypeOK, OwnOK, FreshOK
<1>8. GrantOK'
  BY DEF ApprovalTypeOK, GrantOK, FollowOK, OwnOK, ResultOK, FreshOK, QueueOK, Identical
<1>9. SavingOK'
  BY DEF ApprovalTypeOK, SavingOK, GrantOK, QueueOK, ResultOK, OwnOK, FollowOK
<1>10. ReachOK'
  BY DEF ApprovalTypeOK, ReachOK
<1>11. KeysOK'
  BY DEF ApprovalTypeOK, KeysOK, Always, Granting, SavingOK, GrantOK
<1>12. QED
  BY <1>1, <1>2, <1>3, <1>4, <1>5, <1>6, <1>7, <1>8, <1>9, <1>10, <1>11

\* Waking changes the step alone.
LEMMA WakesKeeps ==
  ASSUME ApprovalAssumption, ApprovalTypeOK, ApprovalInv, NEW c \in Check, Wakes(c)
  PROVE  ApprovalTypeOK' /\ ApprovalInv'
<1> USE DEF ApprovalInv, Wakes, Goto,
        threads, prompts, hands, allow, approvalHistory,
        Grants, Choices, Grounds, Waiting, Saving, Granted, CheckSteps, Early, Own
<1>1. ApprovalTypeOK'
  BY DEF ApprovalAssumption, ApprovalTypeOK
<1>2. FreshOK'
  BY DEF ApprovalTypeOK, FreshOK, QueueOK, HandOK
<1>3. QueueOK'
  BY DEF ApprovalTypeOK, FreshOK, QueueOK
<1>4. HandOK'
  BY DEF ApprovalTypeOK, HandOK, QueueOK, FreshOK
<1>5. ResultOK'
  BY DEF ApprovalTypeOK, ResultOK, HandOK, QueueOK
<1>6. FollowOK'
  BY DEF ApprovalTypeOK, FollowOK, FreshOK, Identical, QueueOK
<1>7. OwnOK'
  BY DEF ApprovalTypeOK, OwnOK, FreshOK
<1>8. GrantOK'
  BY DEF ApprovalTypeOK, GrantOK, FollowOK, OwnOK, ResultOK, FreshOK, QueueOK, Identical
<1>9. SavingOK'
  BY DEF ApprovalTypeOK, SavingOK, GrantOK, QueueOK, ResultOK, OwnOK, FollowOK
<1>10. ReachOK'
  BY DEF ApprovalTypeOK, ReachOK
<1>11. KeysOK'
  BY DEF ApprovalTypeOK, KeysOK, Always, Granting, SavingOK, GrantOK
<1>12. QED
  BY <1>1, <1>2, <1>3, <1>4, <1>5, <1>6, <1>7, <1>8, <1>9, <1>10, <1>11

\* A deadline ends a wait without an answer.
LEMMA TimesOutKeeps ==
  ASSUME ApprovalAssumption, ApprovalTypeOK, ApprovalInv, NEW c \in Check, TimesOut(c)
  PROVE  ApprovalTypeOK' /\ ApprovalInv'
<1> USE DEF ApprovalInv, TimesOut, Goto,
        threads, prompts, hands, allow, approvalHistory,
        Grants, Choices, Grounds, Waiting, Saving, Granted, CheckSteps, Early, Own
<1>1. ApprovalTypeOK'
  BY DEF ApprovalAssumption, ApprovalTypeOK
<1>2. FreshOK'
  BY DEF ApprovalTypeOK, FreshOK, QueueOK, HandOK
<1>3. QueueOK'
  BY DEF ApprovalTypeOK, FreshOK, QueueOK
<1>4. HandOK'
  BY DEF ApprovalTypeOK, HandOK, QueueOK, FreshOK
<1>5. ResultOK'
  BY DEF ApprovalTypeOK, ResultOK, HandOK, QueueOK
<1>6. FollowOK'
  BY DEF ApprovalTypeOK, FollowOK, FreshOK, Identical, QueueOK
<1>7. OwnOK'
  BY DEF ApprovalTypeOK, OwnOK, FreshOK
<1>8. GrantOK'
  BY DEF ApprovalTypeOK, GrantOK, FollowOK, OwnOK, ResultOK, FreshOK, QueueOK, Identical
<1>9. SavingOK'
  BY DEF ApprovalTypeOK, SavingOK, GrantOK, QueueOK, ResultOK, OwnOK, FollowOK
<1>10. ReachOK'
  BY DEF ApprovalTypeOK, ReachOK
<1>11. KeysOK'
  BY DEF ApprovalTypeOK, KeysOK, Always, Granting, SavingOK, GrantOK
<1>12. QED
  BY <1>1, <1>2, <1>3, <1>4, <1>5, <1>6, <1>7, <1>8, <1>9, <1>10, <1>11

\* An interrupt writes a denial, which grants nothing.
LEMMA InterruptedKeeps ==
  ASSUME ApprovalAssumption, ApprovalTypeOK, ApprovalInv, NEW c \in Check, Interrupted(c)
  PROVE  ApprovalTypeOK' /\ ApprovalInv'
<1> USE DEF ApprovalInv, Interrupted, Goto,
        threads, prompts, hands, allow, approvalHistory,
        Grants, Choices, Grounds, Waiting, Saving, Granted, CheckSteps, Early, Own
<1>1. ApprovalTypeOK'
  <2>1. CASE step[c] = "follow"
    BY <2>1 DEF ApprovalAssumption, ApprovalTypeOK
  <2>2. CASE step[c] = "wait"
    BY <2>2 DEF ApprovalAssumption, ApprovalTypeOK
  <2>3. QED
    BY <2>1, <2>2
<1>2. FreshOK'
  BY DEF ApprovalTypeOK, FreshOK, QueueOK, HandOK
<1>3. QueueOK'
  BY DEF ApprovalTypeOK, FreshOK, QueueOK
<1>4. HandOK'
  BY DEF ApprovalTypeOK, HandOK, QueueOK, FreshOK
<1>5. ResultOK'
  BY DEF ApprovalTypeOK, ResultOK, HandOK, QueueOK
<1>6. FollowOK'
  BY DEF ApprovalTypeOK, FollowOK, FreshOK, Identical, QueueOK
<1>7. OwnOK'
  BY DEF ApprovalTypeOK, OwnOK, FreshOK
<1>8. GrantOK'
  BY DEF ApprovalTypeOK, GrantOK, FollowOK, OwnOK, ResultOK, FreshOK, QueueOK, Identical
<1>9. SavingOK'
  BY DEF ApprovalTypeOK, SavingOK, GrantOK, QueueOK, ResultOK, OwnOK, FollowOK
<1>10. ReachOK'
  BY DEF ApprovalTypeOK, ReachOK
<1>11. KeysOK'
  BY DEF ApprovalTypeOK, KeysOK, Always, Granting, SavingOK, GrantOK
<1>12. QED
  BY <1>1, <1>2, <1>3, <1>4, <1>5, <1>6, <1>7, <1>8, <1>9, <1>10, <1>11

\* A follower adopts the choice issued to its leader, unless it is once.
LEMMA AdoptKeeps ==
  ASSUME ApprovalAssumption, ApprovalTypeOK, ApprovalInv, NEW c \in Check, Adopt(c)
  PROVE  ApprovalTypeOK' /\ ApprovalInv'
<1> USE DEF ApprovalInv, Adopt, Settle, Goto,
        threads, prompts, hands, allow, approvalHistory,
        Grants, Choices, Grounds, Waiting, Saving, Granted, CheckSteps, Early, Own
<1>1. ApprovalTypeOK'
  BY DEF ApprovalAssumption, ApprovalTypeOK
<1>2. FreshOK'
  BY DEF ApprovalTypeOK, FreshOK, QueueOK, HandOK
<1>3. QueueOK'
  BY DEF ApprovalTypeOK, FreshOK, QueueOK
<1>4. HandOK'
  BY DEF ApprovalTypeOK, HandOK, QueueOK, FreshOK
<1>5. ResultOK'
  BY DEF ApprovalTypeOK, ResultOK, HandOK, QueueOK
<1>6. FollowOK'
  BY DEF ApprovalTypeOK, FollowOK, FreshOK, Identical, QueueOK
<1>7. OwnOK'
  BY DEF ApprovalTypeOK, OwnOK, FreshOK
<1>8. GrantOK'
  BY DEF ApprovalTypeOK, GrantOK, FollowOK, OwnOK, ResultOK, FreshOK, QueueOK, Identical
<1>9. SavingOK'
  BY DEF ApprovalTypeOK, SavingOK, GrantOK, QueueOK, ResultOK, OwnOK, FollowOK
<1>10. ReachOK'
  BY DEF ApprovalTypeOK, ReachOK
<1>11. KeysOK'
  BY DEF ApprovalTypeOK, KeysOK, Always, Granting, SavingOK, GrantOK
<1>12. QED
  BY <1>1, <1>2, <1>3, <1>4, <1>5, <1>6, <1>7, <1>8, <1>9, <1>10, <1>11

\* A check enters once: before, nothing of it is in the queue or a hand.
LEMMA EnterKeeps ==
  ASSUME ApprovalAssumption, ApprovalTypeOK, ApprovalInv, NEW c \in Check, Enter(c)
  PROVE  ApprovalTypeOK' /\ ApprovalInv'
<1> USE DEF ApprovalInv, Enter, Goto,
        threads, prompts, hands, allow, approvalHistory,
        Grants, Choices, Grounds, Waiting, Saving, Granted, CheckSteps, Early, Own
<1>1. ApprovalTypeOK'
  BY NextArrival DEF ApprovalAssumption, ApprovalTypeOK
<1>2. FreshOK'
  BY NextArrival DEF ApprovalTypeOK, FreshOK, QueueOK, HandOK
<1>3. QueueOK'
  BY DEF ApprovalTypeOK, FreshOK, QueueOK
<1>4. HandOK'
  BY DEF ApprovalTypeOK, HandOK, QueueOK, FreshOK
<1>5. ResultOK'
  BY DEF ApprovalTypeOK, ResultOK, HandOK, QueueOK
<1>6. FollowOK'
  BY DEF ApprovalTypeOK, FollowOK, FreshOK, Identical, QueueOK
<1>7. OwnOK'
  BY NextArrival DEF ApprovalTypeOK, OwnOK, FreshOK
<1>8. GrantOK'
  BY DEF ApprovalTypeOK, GrantOK, FollowOK, OwnOK, ResultOK, FreshOK, QueueOK, Identical
<1>9. SavingOK'
  BY DEF ApprovalTypeOK, SavingOK, GrantOK, QueueOK, ResultOK, OwnOK, FollowOK
<1>10. ReachOK'
  BY DEF ApprovalTypeOK, ReachOK
<1>11. KeysOK'
  BY DEF ApprovalTypeOK, KeysOK, Always, Granting, SavingOK, GrantOK
<1>12. QED
  BY <1>1, <1>2, <1>3, <1>4, <1>5, <1>6, <1>7, <1>8, <1>9, <1>10, <1>11

\* The prompt is sent, or it is not.
LEMMA NotifyKeeps ==
  ASSUME ApprovalAssumption, ApprovalTypeOK, ApprovalInv, NEW c \in Check, Notify(c)
  PROVE  ApprovalTypeOK' /\ ApprovalInv'
<1> USE DEF ApprovalInv, Notify, Goto,
        threads, prompts, hands, allow, approvalHistory,
        Grants, Choices, Grounds, Waiting, Saving, Granted, CheckSteps, Early, Own
<1>1. ApprovalTypeOK'
  BY DEF ApprovalAssumption, ApprovalTypeOK
<1>2. FreshOK'
  BY DEF ApprovalTypeOK, FreshOK, QueueOK, HandOK
<1>3. QueueOK'
  BY DEF ApprovalTypeOK, FreshOK, QueueOK
<1>4. HandOK'
  BY DEF ApprovalTypeOK, HandOK, QueueOK, FreshOK
<1>5. ResultOK'
  BY DEF ApprovalTypeOK, ResultOK, HandOK, QueueOK
<1>6. FollowOK'
  BY DEF ApprovalTypeOK, FollowOK, FreshOK, Identical, QueueOK
<1>7. OwnOK'
  BY DEF ApprovalTypeOK, OwnOK, FreshOK
<1>8. GrantOK'
  BY DEF ApprovalTypeOK, GrantOK, FollowOK, OwnOK, ResultOK, FreshOK, QueueOK, Identical
<1>9. SavingOK'
  BY DEF ApprovalTypeOK, SavingOK, GrantOK, QueueOK, ResultOK, OwnOK, FollowOK
<1>10. ReachOK'
  BY DEF ApprovalTypeOK, ReachOK
<1>11. KeysOK'
  BY DEF ApprovalTypeOK, KeysOK, Always, Granting, SavingOK, GrantOK
<1>12. QED
  BY <1>1, <1>2, <1>3, <1>4, <1>5, <1>6, <1>7, <1>8, <1>9, <1>10, <1>11

\* The entry leaves the queue after the wait.
LEMMA DropEntryKeeps ==
  ASSUME ApprovalAssumption, ApprovalTypeOK, ApprovalInv, NEW c \in Check, DropEntry(c)
  PROVE  ApprovalTypeOK' /\ ApprovalInv'
<1> USE DEF ApprovalInv, DropEntry, Goto,
        threads, prompts, hands, allow, approvalHistory,
        Grants, Choices, Grounds, Waiting, Saving, Granted, CheckSteps, Early, Own
<1>1. ApprovalTypeOK'
  BY DEF ApprovalAssumption, ApprovalTypeOK
<1>2. FreshOK'
  BY DEF ApprovalTypeOK, FreshOK, QueueOK, HandOK
<1>3. QueueOK'
  BY DEF ApprovalTypeOK, FreshOK, QueueOK
<1>4. HandOK'
  BY DEF ApprovalTypeOK, HandOK, QueueOK, FreshOK
<1>5. ResultOK'
  BY DEF ApprovalTypeOK, ResultOK, HandOK, QueueOK
<1>6. FollowOK'
  BY DEF ApprovalTypeOK, FollowOK, FreshOK, Identical, QueueOK
<1>7. OwnOK'
  BY DEF ApprovalTypeOK, OwnOK, FreshOK
<1>8. GrantOK'
  BY DEF ApprovalTypeOK, GrantOK, FollowOK, OwnOK, ResultOK, FreshOK, QueueOK, Identical
<1>9. SavingOK'
  BY DEF ApprovalTypeOK, SavingOK, GrantOK, QueueOK, ResultOK, OwnOK, FollowOK
<1>10. ReachOK'
  BY DEF ApprovalTypeOK, ReachOK
<1>11. KeysOK'
  BY DEF ApprovalTypeOK, KeysOK, Always, Granting, SavingOK, GrantOK
<1>12. QED
  BY <1>1, <1>2, <1>3, <1>4, <1>5, <1>6, <1>7, <1>8, <1>9, <1>10, <1>11

\* The result read is the check's own, so the choice was issued to it.
LEMMA FinishKeeps ==
  ASSUME ApprovalAssumption, ApprovalTypeOK, ApprovalInv, NEW c \in Check, Finish(c)
  PROVE  ApprovalTypeOK' /\ ApprovalInv'
<1> USE DEF ApprovalInv, Finish, Settle, Goto,
        threads, prompts, hands, allow, approvalHistory,
        Grants, Choices, Grounds, Waiting, Saving, Granted, CheckSteps, Early, Own
<1>1. ApprovalTypeOK'
  BY DEF ApprovalAssumption, ApprovalTypeOK
<1>2. FreshOK'
  BY DEF ApprovalTypeOK, FreshOK, QueueOK, HandOK
<1>3. QueueOK'
  BY DEF ApprovalTypeOK, FreshOK, QueueOK
<1>4. HandOK'
  BY DEF ApprovalTypeOK, HandOK, QueueOK, FreshOK
<1>5. ResultOK'
  BY DEF ApprovalTypeOK, ResultOK, HandOK, QueueOK
<1>6. FollowOK'
  BY DEF ApprovalTypeOK, FollowOK, FreshOK, Identical, QueueOK
<1>7. OwnOK'
  BY DEF ApprovalTypeOK, OwnOK, FreshOK
<1>8. GrantOK'
  BY DEF ApprovalTypeOK, GrantOK, FollowOK, OwnOK, ResultOK, FreshOK, QueueOK, Identical
<1>9. SavingOK'
  BY DEF ApprovalTypeOK, SavingOK, GrantOK, QueueOK, ResultOK, OwnOK, FollowOK
<1>10. ReachOK'
  BY DEF ApprovalTypeOK, ReachOK
<1>11. KeysOK'
  BY DEF ApprovalTypeOK, KeysOK, Always, Granting, SavingOK, GrantOK
<1>12. QED
  BY <1>1, <1>2, <1>3, <1>4, <1>5, <1>6, <1>7, <1>8, <1>9, <1>10, <1>11

\* The key belongs to the request on whose choice the check goes on.
LEMMA PersistKeyKeeps ==
  ASSUME ApprovalAssumption, ApprovalTypeOK, ApprovalInv, NEW c \in Check, PersistKey(c)
  PROVE  ApprovalTypeOK' /\ ApprovalInv'
<1> USE DEF ApprovalInv, PersistKey, Remember, Goto,
        threads, prompts, hands, allow, approvalHistory,
        Grants, Choices, Grounds, Waiting, Saving, Granted, CheckSteps, Early, Own
<1>1. ApprovalTypeOK'
  BY DEF ApprovalAssumption, ApprovalTypeOK
<1>2. FreshOK'
  BY DEF ApprovalTypeOK, FreshOK, QueueOK, HandOK
<1>3. QueueOK'
  BY DEF ApprovalTypeOK, FreshOK, QueueOK
<1>4. HandOK'
  BY DEF ApprovalTypeOK, HandOK, QueueOK, FreshOK
<1>5. ResultOK'
  BY DEF ApprovalTypeOK, ResultOK, HandOK, QueueOK
<1>6. FollowOK'
  BY DEF ApprovalTypeOK, FollowOK, FreshOK, Identical, QueueOK
<1>7. OwnOK'
  BY DEF ApprovalTypeOK, OwnOK, FreshOK
<1>8. GrantOK'
  BY DEF ApprovalTypeOK, GrantOK, FollowOK, OwnOK, ResultOK, FreshOK, QueueOK, Identical
<1>9. SavingOK'
  BY DEF ApprovalTypeOK, SavingOK, GrantOK, QueueOK, ResultOK, OwnOK, FollowOK
<1>10. ReachOK'
  BY DEF ApprovalTypeOK, ReachOK
<1>11. KeysOK'
  <2>1. PICK k \in todo[c] :
          /\ step[c] = "session" /\ choice[c] # "once" /\ Remember(c, k)
          /\ UNCHANGED <<keys, issued, saved, snapshot>>
    BY DEF PersistKey, threads, approvalHistory
  <2>2. /\ k \in keys[c] /\ choice[c] \in {"session", "always"}
        /\ choice[c] = issued[lead[c]] /\ keys[c] = keys[lead[c]] /\ lead[c] \in Check
    BY <2>1 DEF ApprovalTypeOK, SavingOK, GrantOK, Identical
  <2>3. Granting(k)
    BY <2>2 DEF Granting
  <2>4. choice[c] = "always" /\ k \notin Tirith => Always(k)
    BY <2>2 DEF Always
  <2>5. \A j : (Granting(j) => Granting(j)') /\ (Always(j) => Always(j)')
    BY <2>1 DEF Granting, Always
  <2>6. QED
    BY <2>1, <2>3, <2>4, <2>5 DEF KeysOK, Remember
<1>12. QED
  BY <1>1, <1>2, <1>3, <1>4, <1>5, <1>6, <1>7, <1>8, <1>9, <1>10, <1>11

\* The snapshot holds permanent keys only.
LEMMA LoadConfigKeeps ==
  ASSUME ApprovalAssumption, ApprovalTypeOK, ApprovalInv, NEW c \in Check, LoadConfig(c)
  PROVE  ApprovalTypeOK' /\ ApprovalInv'
<1> USE DEF ApprovalInv, LoadConfig, Goto,
        threads, prompts, hands, allow, approvalHistory,
        Grants, Choices, Grounds, Waiting, Saving, Granted, CheckSteps, Early, Own
<1>1. ApprovalTypeOK'
  BY DEF ApprovalAssumption, ApprovalTypeOK
<1>2. FreshOK'
  BY DEF ApprovalTypeOK, FreshOK, QueueOK, HandOK
<1>3. QueueOK'
  BY DEF ApprovalTypeOK, FreshOK, QueueOK
<1>4. HandOK'
  BY DEF ApprovalTypeOK, HandOK, QueueOK, FreshOK
<1>5. ResultOK'
  BY DEF ApprovalTypeOK, ResultOK, HandOK, QueueOK
<1>6. FollowOK'
  BY DEF ApprovalTypeOK, FollowOK, FreshOK, Identical, QueueOK
<1>7. OwnOK'
  BY DEF ApprovalTypeOK, OwnOK, FreshOK
<1>8. GrantOK'
  BY DEF ApprovalTypeOK, GrantOK, FollowOK, OwnOK, ResultOK, FreshOK, QueueOK, Identical
<1>9. SavingOK'
  BY DEF ApprovalTypeOK, SavingOK, GrantOK, QueueOK, ResultOK, OwnOK, FollowOK
<1>10. ReachOK'
  BY DEF ApprovalTypeOK, ReachOK
<1>11. KeysOK'
  BY DEF ApprovalTypeOK, KeysOK, Always, Granting, SavingOK, GrantOK
<1>12. QED
  BY <1>1, <1>2, <1>3, <1>4, <1>5, <1>6, <1>7, <1>8, <1>9, <1>10, <1>11

\* The file receives a snapshot.
LEMMA SaveConfigKeeps ==
  ASSUME ApprovalAssumption, ApprovalTypeOK, ApprovalInv, NEW c \in Check, SaveConfig(c)
  PROVE  ApprovalTypeOK' /\ ApprovalInv'
<1> USE DEF ApprovalInv, SaveConfig, Goto,
        threads, prompts, hands, allow, approvalHistory,
        Grants, Choices, Grounds, Waiting, Saving, Granted, CheckSteps, Early, Own
<1>1. ApprovalTypeOK'
  BY DEF ApprovalAssumption, ApprovalTypeOK
<1>2. FreshOK'
  BY DEF ApprovalTypeOK, FreshOK, QueueOK, HandOK
<1>3. QueueOK'
  BY DEF ApprovalTypeOK, FreshOK, QueueOK
<1>4. HandOK'
  BY DEF ApprovalTypeOK, HandOK, QueueOK, FreshOK
<1>5. ResultOK'
  BY DEF ApprovalTypeOK, ResultOK, HandOK, QueueOK
<1>6. FollowOK'
  BY DEF ApprovalTypeOK, FollowOK, FreshOK, Identical, QueueOK
<1>7. OwnOK'
  BY DEF ApprovalTypeOK, OwnOK, FreshOK
<1>8. GrantOK'
  BY DEF ApprovalTypeOK, GrantOK, FollowOK, OwnOK, ResultOK, FreshOK, QueueOK, Identical
<1>9. SavingOK'
  BY DEF ApprovalTypeOK, SavingOK, GrantOK, QueueOK, ResultOK, OwnOK, FollowOK
<1>10. ReachOK'
  BY DEF ApprovalTypeOK, ReachOK
<1>11. KeysOK'
  BY DEF ApprovalTypeOK, KeysOK, Always, Granting, SavingOK, GrantOK
<1>12. QED
  BY <1>1, <1>2, <1>3, <1>4, <1>5, <1>6, <1>7, <1>8, <1>9, <1>10, <1>11

\* The loop ends.
LEMMA PersistedKeeps ==
  ASSUME ApprovalAssumption, ApprovalTypeOK, ApprovalInv, NEW c \in Check, Persisted(c)
  PROVE  ApprovalTypeOK' /\ ApprovalInv'
<1> USE DEF ApprovalInv, Persisted, Goto,
        threads, prompts, hands, allow, approvalHistory,
        Grants, Choices, Grounds, Waiting, Saving, Granted, CheckSteps, Early, Own
<1>1. ApprovalTypeOK'
  BY DEF ApprovalAssumption, ApprovalTypeOK
<1>2. FreshOK'
  BY DEF ApprovalTypeOK, FreshOK, QueueOK, HandOK
<1>3. QueueOK'
  BY DEF ApprovalTypeOK, FreshOK, QueueOK
<1>4. HandOK'
  BY DEF ApprovalTypeOK, HandOK, QueueOK, FreshOK
<1>5. ResultOK'
  BY DEF ApprovalTypeOK, ResultOK, HandOK, QueueOK
<1>6. FollowOK'
  BY DEF ApprovalTypeOK, FollowOK, FreshOK, Identical, QueueOK
<1>7. OwnOK'
  BY DEF ApprovalTypeOK, OwnOK, FreshOK
<1>8. GrantOK'
  BY DEF ApprovalTypeOK, GrantOK, FollowOK, OwnOK, ResultOK, FreshOK, QueueOK, Identical
<1>9. SavingOK'
  BY DEF ApprovalTypeOK, SavingOK, GrantOK, QueueOK, ResultOK, OwnOK, FollowOK
<1>10. ReachOK'
  BY DEF ApprovalTypeOK, ReachOK
<1>11. KeysOK'
  BY DEF ApprovalTypeOK, KeysOK, Always, Granting, SavingOK, GrantOK
<1>12. QED
  BY <1>1, <1>2, <1>3, <1>4, <1>5, <1>6, <1>7, <1>8, <1>9, <1>10, <1>11

\* The tool runs.
LEMMA RunKeeps ==
  ASSUME ApprovalAssumption, ApprovalTypeOK, ApprovalInv, NEW c \in Check, Run(c)
  PROVE  ApprovalTypeOK' /\ ApprovalInv'
<1> USE DEF ApprovalInv, Run, Goto,
        threads, prompts, hands, allow, approvalHistory,
        Grants, Choices, Grounds, Waiting, Saving, Granted, CheckSteps, Early, Own
<1>1. ApprovalTypeOK'
  BY DEF ApprovalAssumption, ApprovalTypeOK
<1>2. FreshOK'
  BY DEF ApprovalTypeOK, FreshOK, QueueOK, HandOK
<1>3. QueueOK'
  BY DEF ApprovalTypeOK, FreshOK, QueueOK
<1>4. HandOK'
  BY DEF ApprovalTypeOK, HandOK, QueueOK, FreshOK
<1>5. ResultOK'
  BY DEF ApprovalTypeOK, ResultOK, HandOK, QueueOK
<1>6. FollowOK'
  BY DEF ApprovalTypeOK, FollowOK, FreshOK, Identical, QueueOK
<1>7. OwnOK'
  BY DEF ApprovalTypeOK, OwnOK, FreshOK
<1>8. GrantOK'
  BY DEF ApprovalTypeOK, GrantOK, FollowOK, OwnOK, ResultOK, FreshOK, QueueOK, Identical
<1>9. SavingOK'
  BY DEF ApprovalTypeOK, SavingOK, GrantOK, QueueOK, ResultOK, OwnOK, FollowOK
<1>10. ReachOK'
  BY DEF ApprovalTypeOK, ReachOK
<1>11. KeysOK'
  BY DEF ApprovalTypeOK, KeysOK, Always, Granting, SavingOK, GrantOK
<1>12. QED
  BY <1>1, <1>2, <1>3, <1>4, <1>5, <1>6, <1>7, <1>8, <1>9, <1>10, <1>11

\* Targets have not been answered before, so no issued choice changes.
LEMMA TakeKeeps ==
  ASSUME ApprovalAssumption, ApprovalTypeOK, ApprovalInv, NEW h \in Hand, NEW v \in Choices,
         NEW targets \in SUBSET queued, Take(h, v, targets)
  PROVE  ApprovalTypeOK' /\ ApprovalInv'
<1> USE DEF ApprovalInv, Take, Goto,
        threads, prompts, hands, allow, approvalHistory,
        Grants, Choices, Grounds, Waiting, Saving, Granted, CheckSteps, Early, Own
<1>1. ApprovalTypeOK'
  BY DEF ApprovalAssumption, ApprovalTypeOK
<1>2. FreshOK'
  BY DEF ApprovalTypeOK, FreshOK, QueueOK, HandOK
<1>3. QueueOK'
  BY DEF ApprovalTypeOK, FreshOK, QueueOK
<1>4. HandOK'
  BY DEF ApprovalTypeOK, HandOK, QueueOK, FreshOK
<1>5. ResultOK'
  BY DEF ApprovalTypeOK, ResultOK, HandOK, QueueOK
<1>6. FollowOK'
  BY DEF ApprovalTypeOK, FollowOK, FreshOK, Identical, QueueOK
<1>7. OwnOK'
  BY DEF ApprovalTypeOK, OwnOK, FreshOK
<1>8. GrantOK'
  BY DEF ApprovalTypeOK, GrantOK, FollowOK, OwnOK, ResultOK, FreshOK, QueueOK, Identical
<1>9. SavingOK'
  BY DEF ApprovalTypeOK, SavingOK, GrantOK, QueueOK, ResultOK, OwnOK, FollowOK
<1>10. ReachOK'
  BY DEF ApprovalTypeOK, ReachOK
<1>11. KeysOK'
  <2>1. \A e \in Check : issued[e] # "none" => issued'[e] = issued[e]
    BY DEF ApprovalTypeOK, QueueOK
  <2>2. \A j : (Granting(j) => Granting(j)') /\ (Always(j) => Always(j)')
    BY <2>1 DEF Granting, Always
  <2>3. QED
    BY <2>2 DEF KeysOK
<1>12. QED
  BY <1>1, <1>2, <1>3, <1>4, <1>5, <1>6, <1>7, <1>8, <1>9, <1>10, <1>11

\* A result is the verdict of the hand, which was issued.
LEMMA AnswerKeeps ==
  ASSUME ApprovalAssumption, ApprovalTypeOK, ApprovalInv, NEW h \in Hand, Answer(h)
  PROVE  ApprovalTypeOK' /\ ApprovalInv'
<1> USE DEF ApprovalInv, Answer, Oldest, Goto,
        threads, prompts, hands, allow, approvalHistory,
        Grants, Choices, Grounds, Waiting, Saving, Granted, CheckSteps, Early, Own
<1>1. ApprovalTypeOK'
  BY DEF ApprovalAssumption, ApprovalTypeOK
<1>2. FreshOK'
  BY DEF ApprovalTypeOK, FreshOK, QueueOK, HandOK
<1>3. QueueOK'
  BY DEF ApprovalTypeOK, FreshOK, QueueOK
<1>4. HandOK'
  BY DEF ApprovalTypeOK, HandOK, QueueOK, FreshOK
<1>5. ResultOK'
  BY DEF ApprovalTypeOK, ResultOK, HandOK, QueueOK
<1>6. FollowOK'
  BY DEF ApprovalTypeOK, FollowOK, FreshOK, Identical, QueueOK
<1>7. OwnOK'
  BY DEF ApprovalTypeOK, OwnOK, FreshOK
<1>8. GrantOK'
  BY DEF ApprovalTypeOK, GrantOK, FollowOK, OwnOK, ResultOK, FreshOK, QueueOK, Identical
<1>9. SavingOK'
  BY DEF ApprovalTypeOK, SavingOK, GrantOK, QueueOK, ResultOK, OwnOK, FollowOK
<1>10. ReachOK'
  BY DEF ApprovalTypeOK, ReachOK
<1>11. KeysOK'
  BY DEF ApprovalTypeOK, KeysOK, Always, Granting, SavingOK, GrantOK
<1>12. QED
  BY <1>1, <1>2, <1>3, <1>4, <1>5, <1>6, <1>7, <1>8, <1>9, <1>10, <1>11

\* Everybody is in the hand of the handler that empties the queue.
LEMMA UnregisterKeeps ==
  ASSUME ApprovalAssumption, ApprovalTypeOK, ApprovalInv, NEW h \in Hand, Unregister(h)
  PROVE  ApprovalTypeOK' /\ ApprovalInv'
<1> USE DEF ApprovalInv, Unregister, Goto,
        threads, prompts, hands, allow, approvalHistory,
        Grants, Choices, Grounds, Waiting, Saving, Granted, CheckSteps, Early, Own
<1>1. ApprovalTypeOK'
  BY DEF ApprovalAssumption, ApprovalTypeOK
<1>2. FreshOK'
  BY DEF ApprovalTypeOK, FreshOK, QueueOK, HandOK
<1>3. QueueOK'
  BY DEF ApprovalTypeOK, FreshOK, QueueOK
<1>4. HandOK'
  BY DEF ApprovalTypeOK, HandOK, QueueOK, FreshOK
<1>5. ResultOK'
  BY DEF ApprovalTypeOK, ResultOK, HandOK, QueueOK
<1>6. FollowOK'
  BY DEF ApprovalTypeOK, FollowOK, FreshOK, Identical, QueueOK
<1>7. OwnOK'
  BY DEF ApprovalTypeOK, OwnOK, FreshOK
<1>8. GrantOK'
  BY DEF ApprovalTypeOK, GrantOK, FollowOK, OwnOK, ResultOK, FreshOK, QueueOK, Identical
<1>9. SavingOK'
  BY DEF ApprovalTypeOK, SavingOK, GrantOK, QueueOK, ResultOK, OwnOK, FollowOK
<1>10. ReachOK'
  BY DEF ApprovalTypeOK, ReachOK
<1>11. KeysOK'
  BY DEF ApprovalTypeOK, KeysOK, Always, Granting, SavingOK, GrantOK
<1>12. QED
  BY <1>1, <1>2, <1>3, <1>4, <1>5, <1>6, <1>7, <1>8, <1>9, <1>10, <1>11

\* A denial is handed out, which grants nothing.
LEMMA ClearSessionKeeps ==
  ASSUME ApprovalAssumption, ApprovalTypeOK, ApprovalInv, NEW h \in Hand, ClearSession(h)
  PROVE  ApprovalTypeOK' /\ ApprovalInv'
<1> USE DEF ApprovalInv, ClearSession, Goto,
        threads, prompts, hands, allow, approvalHistory,
        Grants, Choices, Grounds, Waiting, Saving, Granted, CheckSteps, Early, Own
<1>1. ApprovalTypeOK'
  BY DEF ApprovalAssumption, ApprovalTypeOK
<1>2. FreshOK'
  BY DEF ApprovalTypeOK, FreshOK, QueueOK, HandOK
<1>3. QueueOK'
  BY DEF ApprovalTypeOK, FreshOK, QueueOK
<1>4. HandOK'
  BY DEF ApprovalTypeOK, HandOK, QueueOK, FreshOK
<1>5. ResultOK'
  BY DEF ApprovalTypeOK, ResultOK, HandOK, QueueOK
<1>6. FollowOK'
  BY DEF ApprovalTypeOK, FollowOK, FreshOK, Identical, QueueOK
<1>7. OwnOK'
  BY DEF ApprovalTypeOK, OwnOK, FreshOK
<1>8. GrantOK'
  BY DEF ApprovalTypeOK, GrantOK, FollowOK, OwnOK, ResultOK, FreshOK, QueueOK, Identical
<1>9. SavingOK'
  BY DEF ApprovalTypeOK, SavingOK, GrantOK, QueueOK, ResultOK, OwnOK, FollowOK
<1>10. ReachOK'
  BY DEF ApprovalTypeOK, ReachOK
<1>11. KeysOK'
  BY DEF ApprovalTypeOK, KeysOK, Always, Granting, SavingOK, GrantOK
<1>12. QED
  BY <1>1, <1>2, <1>3, <1>4, <1>5, <1>6, <1>7, <1>8, <1>9, <1>10, <1>11

-----------------------------------------------------------------------------
(* The invariant, and what follows from it *)

\* The invariant holds initially.
LEMMA InitHolds ==
  ASSUME ApprovalAssumption, ApprovalInit
  PROVE  ApprovalTypeOK /\ ApprovalInv
<1>1. ApprovalTypeOK
  BY DEF ApprovalAssumption, ApprovalInit, ApprovalTypeOK, Grants, Choices, Grounds, Waiting,
     Saving, Granted, CheckSteps
<1>2. ApprovalInv
  BY DEF ApprovalInit, ApprovalInv, FreshOK, QueueOK, HandOK, ResultOK, FollowOK, OwnOK, GrantOK,
         SavingOK, ReachOK, KeysOK, Early, Own, Grants, Choices, Grounds, Waiting, Saving,
            Granted, CheckSteps
<1>3. QED
  BY <1>1, <1>2

\* Every step, and a stutter, preserves it.
LEMMA NextKeeps ==
  ASSUME ApprovalAssumption, ApprovalTypeOK, ApprovalInv, [ApprovalNext]_approvalVars
  PROVE  ApprovalTypeOK' /\ ApprovalInv'
<1>1. ASSUME NEW c \in Check, CheckStep(c) \/ TimesOut(c) \/ Interrupted(c)
      PROVE  ApprovalTypeOK' /\ ApprovalInv'
  <2>1. CASE Start(c)
    BY <2>1, StartKeeps
  <2>2. CASE MatchKey(c)
    BY <2>2, MatchKeyKeeps
  <2>3. CASE Matched(c)
    BY <2>3, MatchedKeeps
  <2>4. CASE Judge(c)
    BY <2>4, JudgeKeeps
  <2>5. CASE Route(c)
    BY <2>5, RouteKeeps
  <2>6. CASE Look(c)
    BY <2>6, LookKeeps
  <2>7. CASE Wakes(c)
    BY <2>7, WakesKeeps
  <2>8. CASE TimesOut(c)
    BY <2>8, TimesOutKeeps
  <2>9. CASE Interrupted(c)
    BY <2>9, InterruptedKeeps
  <2>10. CASE Adopt(c)
    BY <2>10, AdoptKeeps
  <2>11. CASE Enter(c)
    BY <2>11, EnterKeeps
  <2>12. CASE Notify(c)
    BY <2>12, NotifyKeeps
  <2>13. CASE DropEntry(c)
    BY <2>13, DropEntryKeeps
  <2>14. CASE Finish(c)
    BY <2>14, FinishKeeps
  <2>15. CASE PersistKey(c)
    BY <2>15, PersistKeyKeeps
  <2>16. CASE LoadConfig(c)
    BY <2>16, LoadConfigKeeps
  <2>17. CASE SaveConfig(c)
    BY <2>17, SaveConfigKeeps
  <2>18. CASE Persisted(c)
    BY <2>18, PersistedKeeps
  <2>19. CASE Run(c)
    BY <2>19, RunKeeps
  <2>20. QED
    BY <1>1, <2>1, <2>2, <2>3, <2>4, <2>5, <2>6, <2>7, <2>8, <2>9, <2>10, <2>11, <2>12, <2>13,
       <2>14, <2>15, <2>16, <2>17, <2>18, <2>19 DEF CheckStep
<1>2. ASSUME NEW h \in Hand, NEW v \in Choices, NEW targets \in SUBSET queued,
             Take(h, v, targets)
      PROVE  ApprovalTypeOK' /\ ApprovalInv'
  BY <1>2, TakeKeeps
<1>3. ASSUME NEW h \in Hand, Answer(h) \/ Unregister(h) \/ ClearSession(h)
      PROVE  ApprovalTypeOK' /\ ApprovalInv'
  <2>1. CASE Answer(h)
    BY <2>1, AnswerKeeps
  <2>2. CASE Unregister(h)
    BY <2>2, UnregisterKeeps
  <2>3. CASE ClearSession(h)
    BY <2>3, ClearSessionKeeps
  <2>4. QED
    BY <1>3, <2>1, <2>2, <2>3
<1>4. CASE UNCHANGED approvalVars
  <2> USE <1>4 DEF approvalVars, threads, prompts, hands, allow, approvalHistory
  <2>1. ApprovalTypeOK'
    BY DEF ApprovalTypeOK
  <2>2. ApprovalInv'
    BY DEF ApprovalInv, FreshOK, QueueOK, HandOK, ResultOK, FollowOK, Identical, OwnOK, GrantOK,
           SavingOK, ReachOK, KeysOK, Always, Granting
  <2>3. QED
    BY <2>1, <2>2
<1>5. QED
  BY <1>1, <1>2, <1>3, <1>4 DEF ApprovalNext

\* The invariant holds in every reachable state.
THEOREM ApprovalInvariant == ApprovalSpec => [](ApprovalTypeOK /\ ApprovalInv)
<1>1. ApprovalInit => ApprovalTypeOK /\ ApprovalInv
  BY ApprovalAssumption, InitHolds
<1>2. (ApprovalTypeOK /\ ApprovalInv) /\ [ApprovalNext]_approvalVars
      => (ApprovalTypeOK /\ ApprovalInv)'
  BY ApprovalAssumption, NextKeeps
<1>3. QED
  BY <1>1, <1>2, PTL DEF ApprovalSpec

\* Types, and a check that persists holds a choice that grants.
THEOREM ApprovalTyped == ApprovalSpec => []ApprovalTypeOK
BY ApprovalInvariant, PTL

\* Silence is not consent: what runs on an answer runs on a human's choice for an
\* identical request.
THEOREM AnswersAreConsent == ApprovalSpec => []Consented
<1>1. ApprovalTypeOK /\ ApprovalInv => Consented
  BY DEF ApprovalInv, GrantOK, Consented, Identical
<1>2. QED
  BY <1>1, ApprovalInvariant, PTL

\* A "once" is used once: a follower never goes on with its leader's.
THEOREM OnceIsOnce == ApprovalSpec => []OnceForOne
<1>1. ApprovalTypeOK /\ ApprovalInv => OnceForOne
  BY DEF ApprovalInv, GrantOK, OnceForOne
<1>2. QED
  BY <1>1, ApprovalInvariant, PTL

\* What later calls are let through by was granted by a human for that long.
THEOREM MemoryIsEarned == ApprovalSpec => []KeysEarned
<1>1. ApprovalTypeOK /\ ApprovalInv => KeysEarned
  BY DEF ApprovalInv, KeysOK, Granting, Always, KeysEarned
<1>2. QED
  BY <1>1, ApprovalInvariant, PTL

\* No waiting request is lost between the queue and its event.
THEOREM WaitsAreAnswerable == ApprovalSpec => []Answerable
<1>1. ApprovalTypeOK /\ ApprovalInv => Answerable
  BY DEF ApprovalInv, ReachOK, Answerable
<1>2. QED
  BY <1>1, ApprovalInvariant, PTL
=============================================================================
