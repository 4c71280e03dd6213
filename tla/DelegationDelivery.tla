------------------------- MODULE DelegationDelivery -------------------------
(***************************************************************************)
(* Delivery of finished delegations from the ledger (async_delegation.py): *)
(* several processes share the rows, each has its own queue of events, and *)
(* a consumer claims a row for a limited time, hands the result to its     *)
(* conversation, and completes, releases or drops the claim.               *)
(*                                                                         *)
(* A step is one database transaction.  The consumers are the gateway's,   *)
(* outside the repository: what they do between two transactions, Inject,  *)
(* is modelled from the contract of the functions they call.  A claim id   *)
(* is the number of the attempt, which no other claim of the row has.      *)
(***************************************************************************)
EXTENDS Integers, FiniteSets

CONSTANTS
  Item,          \* delegation ids with a terminal row
  Consumer,      \* processes, each with one consumer of its queue
  Home,          \* Home[d]: the process that ran d and queued its event
  Lease,         \* seconds after which a claim may be taken over (300)
  MaxAttempts,   \* _MAX_DELIVERY_ATTEMPTS
  MaxAge,        \* _MAX_COMPLETION_REPLAY_AGE_S
  MaxNow,        \* bound: the clock stops here
  MaxStarts      \* bound: starts of a process

ASSUME DeliveryAssumption ==
  /\ Item # {} /\ IsFiniteSet(Consumer)
  /\ Home \in [Item -> Consumer]
  /\ Lease \in Nat /\ MaxAttempts \in Nat /\ MaxAge \in Nat
  /\ MaxNow \in Nat /\ MaxStarts \in Nat

VARIABLES
  delivery,    \* delivery[d]: delivery_state, "absent" once the row is deleted
  claim,       \* claim[d]: delivery_claim, 0 for NULL
  claimedAt,   \* claimedAt[d]: delivery_claimed_at
  attempts,    \* attempts[d]: delivery_attempts
  inbox,       \* inbox[p]: events in the completion_queue of process p
  up,          \* processes that run
  work,        \* work[p]: what the consumer of p is doing
  item,        \* item[p]: the completion it is doing it with
  token,       \* token[p]: the claim id it got, 0 if there was no row to write it to
  took,        \* took[p]: when it got it
  now, starts,
  injected,    \* history: injected[d]: how often d entered a conversation
  takeovers,   \* history: takeovers[d]: claims of d that replaced an expired one
  strays       \* history: strays[d]: processes that injected d on a claim without a row

rows      == <<delivery, claim, claimedAt, attempts>>
consumers == <<work, item, token, took>>
deliveryHistory == <<injected, takeovers, strays>>
deliveryVars == <<rows, inbox, up, consumers, now, starts, deliveryHistory>>

DeliveryTypeOK ==
  /\ delivery \in [Item -> {"absent", "pending", "delivered", "dropped"}]
  /\ claim \in [Item -> Nat] /\ claimedAt \in [Item -> Nat] /\ attempts \in [Item -> Nat]
  /\ inbox \in [Consumer -> SUBSET Item] /\ up \subseteq Consumer
  /\ work \in [Consumer -> {"idle", "claimed", "injected"}] /\ item \in [Consumer -> Item]
  /\ token \in [Consumer -> Nat] /\ took \in [Consumer -> Nat]
  /\ now \in Nat /\ starts \in Nat
  /\ injected \in [Item -> Nat] /\ takeovers \in [Item -> Nat]
  /\ strays \in [Item -> SUBSET Consumer]
  /\ \A d \in Item : claim[d] <= attempts[d] /\ claimedAt[d] <= now

DeliveryInit ==
  /\ delivery = [d \in Item |-> "pending"] /\ claim = [d \in Item |-> 0]
  /\ claimedAt = [d \in Item |-> 0] /\ attempts = [d \in Item |-> 0]
  /\ inbox = [p \in Consumer |-> {d \in Item : Home[d] = p}] /\ up = Consumer
  /\ work = [p \in Consumer |-> "idle"] /\ item = [p \in Consumer |-> CHOOSE d \in Item : TRUE]
  /\ token = [p \in Consumer |-> 0] /\ took = [p \in Consumer |-> 0]
  /\ now = 0 /\ starts = 0
  /\ injected = [d \in Item |-> 0] /\ takeovers = [d \in Item |-> 0]
  /\ strays = [d \in Item |-> {}]

-----------------------------------------------------------------------------
(* Claims *)

\* Mutant of Claimable: a claim is never looked at.
AnyPending(d) == delivery[d] = "pending"

\* The WHERE clause of claim_completion_delivery.
Claimable(d) ==
  delivery[d] = "pending" /\ (claim[d] = 0 \/ claimedAt[d] < now - Lease)

\* The consumer goes to work on d with claim id id, 0 for one without a row.
Begin(p, d, id) ==
  /\ work' = [work EXCEPT ![p] = "claimed"] /\ item' = [item EXCEPT ![p] = d]
  /\ token' = [token EXCEPT ![p] = id] /\ took' = [took EXCEPT ![p] = now]

\* The row is there and free, or its claim is over its lease.
ClaimRow(p, d) ==
  /\ Claimable(d)
  /\ claim' = [claim EXCEPT ![d] = attempts[d] + 1]
  /\ claimedAt' = [claimedAt EXCEPT ![d] = now]
  /\ attempts' = [attempts EXCEPT ![d] = @ + 1]
  /\ takeovers' = [takeovers EXCEPT ![d] =
                     IF claim[d] # 0 /\ claimedAt[d] < now - Lease THEN @ + 1 ELSE @]
  /\ Begin(p, d, attempts[d] + 1)

\* "legacy event created before durable dispatch": without a row everyone who asks
\* is told that it has the claim.
ClaimRowless(p, d) ==
  /\ delivery[d] = "absent"
  /\ Begin(p, d, 0)
  /\ UNCHANGED <<claim, claimedAt, attempts, takeovers>>

\* The row is claimed by another, or done with: the event is skipped.
Skip(d) ==
  /\ ~Claimable(d) /\ delivery[d] # "absent"
  /\ UNCHANGED <<claim, claimedAt, attempts, consumers, takeovers>>

\* claim_event_delivery: the consumer takes an event off the queue.
ClaimEvent(p) ==
  \E d \in inbox[p] :
     /\ p \in up /\ work[p] = "idle"
     /\ inbox' = [inbox EXCEPT ![p] = @ \ {d}]
     /\ ClaimRow(p, d) \/ ClaimRowless(p, d) \/ Skip(d)
     /\ UNCHANGED <<delivery, up, now, starts, injected, strays>>

\* The consumer hands the result to a conversation.
Inject(p) ==
  /\ work[p] = "claimed"
  /\ injected' = [injected EXCEPT ![item[p]] = @ + 1]
  /\ strays' = IF token[p] = 0 THEN [strays EXCEPT ![item[p]] = @ \cup {p}] ELSE strays
  /\ work' = [work EXCEPT ![p] = "injected"]
  /\ UNCHANGED <<rows, inbox, up, item, token, took, now, starts, takeovers>>

\* Mutant of Holds: the row is found by its id alone.
HoldsAny(p) == delivery[item[p]] = "pending"

\* The row still has the claim that the consumer of p got.
Holds(p) == delivery[item[p]] = "pending" /\ claim[item[p]] = token[p]

\* The row of p's item gets a new state, and its claim is cleared.
EndClaim(p, state) ==
  /\ delivery' = [delivery EXCEPT ![item[p]] = state]
  /\ claim' = [claim EXCEPT ![item[p]] = 0]
  /\ claimedAt' = [claimedAt EXCEPT ![item[p]] = 0]

Rest(p) == work' = [work EXCEPT ![p] = "idle"]

\* complete_completion_delivery.
Complete(p) ==
  /\ work[p] = "injected" /\ Rest(p)
  /\ IF Holds(p) THEN EndClaim(p, "delivered") ELSE UNCHANGED <<delivery, claim, claimedAt>>
  /\ UNCHANGED <<attempts, inbox, up, item, token, took, now, starts, deliveryHistory>>

\* mark_completion_delivered: the acknowledgement that asks for no claim, only for
\* a row.
MarkDelivered(p) ==
  /\ work[p] = "injected" /\ Rest(p)
  /\ delivery' = [delivery EXCEPT ![item[p]] = IF @ = "absent" THEN "absent" ELSE "delivered"]
  /\ UNCHANGED <<claim, claimedAt, attempts, inbox, up, item, token, took, now, starts,
                 deliveryHistory>>

\* release_completion_delivery after a failed injection; the event goes back to
\* the queue of p, or is lost until the next start.
Release(p) ==
  /\ work[p] = "claimed" /\ Rest(p)
  /\ IF Holds(p)
     THEN EndClaim(p, IF attempts[item[p]] >= MaxAttempts THEN "dropped" ELSE "pending")
     ELSE UNCHANGED <<delivery, claim, claimedAt>>
  /\ inbox' \in {inbox, [inbox EXCEPT ![p] = @ \cup {item[p]}]}
  /\ UNCHANGED <<attempts, up, item, token, took, now, starts, deliveryHistory>>

\* drop_completion_delivery: the conversation is gone for good.
DropDelivery(p) ==
  /\ work[p] = "claimed" /\ Rest(p)
  /\ IF Holds(p) THEN EndClaim(p, "dropped") ELSE UNCHANGED <<delivery, claim, claimedAt>>
  /\ UNCHANGED <<attempts, inbox, up, item, token, took, now, starts, deliveryHistory>>

-----------------------------------------------------------------------------
(* Processes and time *)

\* A process dies with its queue; its claims stay in the ledger.
Die(p) ==
  /\ p \in up /\ starts < MaxStarts
  /\ up' = up \ {p} /\ Rest(p) /\ inbox' = [inbox EXCEPT ![p] = {}]
  /\ UNCHANGED <<rows, item, token, took, now, starts, deliveryHistory>>

\* restore_undelivered_completions at process start: pending rows are queued,
\* those past the replay age are dropped (all completed at time 0).
Restore(p) ==
  LET old == IF now > MaxAge THEN {d \in Item : delivery[d] = "pending"} ELSE {}
  IN  /\ p \notin up /\ starts < MaxStarts
      /\ up' = up \cup {p} /\ starts' = starts + 1
      /\ delivery' = [d \in Item |-> IF d \in old THEN "dropped" ELSE delivery[d]]
      /\ claim' = [d \in Item |-> IF d \in old THEN 0 ELSE claim[d]]
      /\ claimedAt' = [d \in Item |-> IF d \in old THEN 0 ELSE claimedAt[d]]
      /\ inbox' = [inbox EXCEPT ![p] = {d \in Item : delivery[d] = "pending"} \ old]
      /\ UNCHANGED <<attempts, consumers, now, deliveryHistory>>

\* _prune_durable_records of a process that dispatches other units: the row goes,
\* delivered or not, whoever is at work on it.
Purge(d) ==
  /\ delivery[d] # "absent" /\ delivery' = [delivery EXCEPT ![d] = "absent"]
  /\ claim' = [claim EXCEPT ![d] = 0] /\ claimedAt' = [claimedAt EXCEPT ![d] = 0]
  /\ UNCHANGED <<attempts, inbox, up, consumers, now, starts, deliveryHistory>>

Pass ==
  /\ now < MaxNow /\ now' = now + 1
  /\ UNCHANGED <<rows, inbox, up, consumers, starts, deliveryHistory>>

DeliveryNext ==
  \/ \E p \in Consumer :
        \/ ClaimEvent(p) \/ Inject(p) \/ Complete(p) \/ MarkDelivered(p) \/ Release(p)
        \/ DropDelivery(p) \/ Die(p) \/ Restore(p)
  \/ \E d \in Item : Purge(d)
  \/ Pass

DeliverySpec == DeliveryInit /\ [][DeliveryNext]_deliveryVars

-----------------------------------------------------------------------------
(* Properties *)

AtWork(p) == work[p] # "idle"

\* Two consumers that claimed the row of the same completion are at work on it only
\* if the later one took it over after the lease of the earlier one.  A claim without
\* a row keeps nobody away.
LeaseHeld ==
  \A p, q \in Consumer :
     /\ AtWork(p) /\ AtWork(q) /\ item[p] = item[q]
     /\ token[p] # 0 /\ token[p] < token[q]
     => took[p] + Lease < took[q]

\* A result enters a conversation once, and once more at most for every claim
\* that outlived its lease and for every process that finds its row deleted: neither
\* a retry after a failure, nor a second copy of the event in another process, nor
\* a restart delivers it again, and after the deletion no process does twice.
InjectedOnce ==
  \A d \in Item : injected[d] <= 1 + takeovers[d] + Cardinality(strays[d])

=============================================================================
