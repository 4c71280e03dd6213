---------------------------- MODULE ApprovalQueue ----------------------------
(***************************************************************************)
(* The approval of flagged commands through the gateway (approval.py,      *)
(* approval_gateway_wait.py), for one session: guard calls of parallel     *)
(* tool calls, the queue of prompts, coalesced followers, the gateway's    *)
(* handlers of /approve and /deny, unregistration, clear_session, and what *)
(* an answer leaves behind in memory and in the configuration file.        *)
(*                                                                         *)
(* A step is one lock section, or one write or read outside the lock that  *)
(* another thread can see.  Commands, findings and reasons are members of  *)
(* small sets.  The denial tally is left out: it only adds a sentence to a *)
(* refusal.  No plugin transport is selected and no local panel exists, so *)
(* a guard call without a notify callback ends as a pending approval.      *)
(***************************************************************************)
EXTENDS Integers, FiniteSets

CONSTANTS
  Check,      \* guard calls: one per tool call, each on its own thread
  Command,    \* command texts as the user is shown them, with secrets redacted
  Key,        \* pattern keys
  Text,       \* Text[c]: the command that check c is about
  Findings,   \* Findings[m]: the keys that detection and scanner raise on m
  Tirith,     \* the keys of content findings, which no choice saves for good
  Smart,      \* approval mode "smart": the guardian judges before a human does
  Hand        \* threads of the gateway that resolve, unregister and clear

ASSUME ApprovalAssumption ==
  /\ IsFiniteSet(Check)
  /\ Text \in [Check -> Command]
  /\ Findings \in [Command -> SUBSET Key]
  /\ Tirith \subseteq Key
  /\ Smart \in BOOLEAN

VARIABLES
  step,        \* step[c]: next step of the thread of c
  todo,        \* todo[c]: keys that the loop c is in has still to visit
  keys,        \* keys[c]: pattern_keys of the request of c
  lead,        \* lead[c]: the check on whose entry c waits, c for its own
  choice,      \* choice[c]: the choice that c read from the entry
  late,        \* checks whose own wait ended as "timeout"
  overridden,  \* smart_denied: the guardian said no, the owner may overrule
  snapshot,    \* snapshot[c]: the configuration that c is about to write
  queued,      \* entries in _gateway_queues of the session
  arrival,     \* arrival[c]: position in which the entry of c was appended
  result,      \* result[c]: entry.result
  fired,       \* entries whose event is set
  hand,        \* hand[h]: entries that h took out and has still to answer
  verdict,     \* verdict[h]: the choice h hands out, "none" from unregister
  approved,    \* _session_approved of the session
  permanent,   \* _permanent_approved
  saved,       \* command_allowlist in the configuration file
  issued,      \* history: issued[c]: the choice a human gave to the entry of c
  ground       \* history: ground[c]: why c was granted

threads  == <<step, todo, keys, lead, choice, late, overridden, snapshot>>
prompts  == <<queued, arrival, result, fired>>
hands    == <<hand, verdict>>
allow    == <<approved, permanent, saved>>
approvalHistory  == <<issued, ground>>
approvalVars == <<threads, prompts, hands, allow, approvalHistory>>

Grants  == {"once", "session", "always"}
Choices == Grants \cup {"deny"}
Grounds == {"yolo", "listed", "smart", "answer"}
Waiting == {"follow", "wait"}
Saving  == {"session", "load", "save"}
Granted == Saving \cup {"run", "ran"}
CheckSteps == {"idle", "match", "judge", "route", "look", "adopt", "enter", "notify", "unsent",
               "drop", "finish", "refused"} \cup Waiting \cup Granted

ApprovalTypeOK ==
  /\ step \in [Check -> CheckSteps]
  /\ todo \in [Check -> SUBSET Key] /\ keys \in [Check -> SUBSET Key]
  /\ lead \in [Check -> Check] /\ choice \in [Check -> Choices \cup {"none"}]
  /\ late \subseteq Check /\ overridden \subseteq Check
  /\ snapshot \in [Check -> SUBSET Key]
  /\ queued \subseteq Check /\ arrival \in [Check -> Nat]
  /\ result \in [Check -> Choices \cup {"none"}] /\ fired \subseteq Check
  /\ hand \in [Hand -> SUBSET Check] /\ verdict \in [Hand -> Choices \cup {"none"}]
  /\ approved \subseteq Key /\ permanent \subseteq Key /\ saved \subseteq Key
  /\ issued \in [Check -> Choices \cup {"none"}]
  /\ ground \in [Check -> Grounds \cup {"none"}]
  /\ \A c \in Check : step[c] \in Saving => choice[c] \in Grants

ApprovalInit ==
  /\ step = [c \in Check |-> "idle"]
  /\ todo = [c \in Check |-> {}] /\ keys = [c \in Check |-> {}]
  /\ lead = [c \in Check |-> c] /\ choice = [c \in Check |-> "none"]
  /\ late = {} /\ overridden = {}
  /\ snapshot = [c \in Check |-> {}]
  /\ queued = {} /\ arrival = [c \in Check |-> 0]
  /\ result = [c \in Check |-> "none"] /\ fired = {}
  /\ hand = [h \in Hand |-> {}] /\ verdict = [h \in Hand |-> "none"]
  /\ approved = {} /\ permanent = {} /\ saved = {}
  /\ issued = [c \in Check |-> "none"] /\ ground = [c \in Check |-> "none"]

-----------------------------------------------------------------------------
(* Helpers *)

\* Two requests are identical: the same command text and the same pattern keys.
Identical(c, d) == Text[c] = Text[d] /\ keys[c] = keys[d]

\* The entry of S that was appended first.
Oldest(S) == {e \in S : \A d \in S : arrival[e] <= arrival[d]}

Goto(c, s) == step' = [step EXCEPT ![c] = s]

\* The gate ends in favour of c.
Grant(c, why) ==
  /\ Goto(c, "run")
  /\ ground' = [ground EXCEPT ![c] = why]

-----------------------------------------------------------------------------
(* The guard before a human is asked: check_all_command_guards, _smart_gate *)

\* The user switches yolo, or the mode to "off", at any time: an input.
Start(c) ==
  /\ step[c] = "idle"
  /\ \/ Grant(c, "yolo") /\ UNCHANGED todo
     \/ Goto(c, "match") /\ todo' = [todo EXCEPT ![c] = Findings[Text[c]]] /\ UNCHANGED ground
  /\ UNCHANGED <<keys, lead, choice, late, overridden, snapshot, prompts, hands, allow,
                 issued>>

\* is_approved for one finding: what is not approved becomes a warning.
MatchKey(c) ==
  \E k \in todo[c] :
     /\ step[c] = "match"
     /\ todo' = [todo EXCEPT ![c] = @ \ {k}]
     /\ keys' = [keys EXCEPT ![c] = IF k \in permanent \cup approved THEN @ ELSE @ \cup {k}]
     /\ UNCHANGED <<step, lead, choice, late, overridden, snapshot, prompts, hands,
                    allow, approvalHistory>>

Matched(c) ==
  /\ step[c] = "match" /\ todo[c] = {}
  /\ IF keys[c] = {}
     THEN Grant(c, "listed")
     ELSE Goto(c, IF Smart THEN "judge" ELSE "route") /\ UNCHANGED ground
  /\ UNCHANGED <<todo, keys, lead, choice, late, overridden, snapshot, prompts, hands,
                 allow, issued>>

\* The guardian approves, denies (a present owner may still overrule), or escalates.
Judge(c) ==
  /\ step[c] = "judge"
  /\ \/ Grant(c, "smart") /\ UNCHANGED overridden
     \/ Goto(c, "route") /\ overridden' = overridden \cup {c} /\ UNCHANGED ground
     \/ Goto(c, "route") /\ UNCHANGED <<overridden, ground>>
  /\ UNCHANGED <<todo, keys, lead, choice, late, snapshot, prompts, hands, allow,
                 issued>>

\* _human_decision reads the notify callback, which the gateway registers and takes
\* back at any time (an input); without one the approval is left pending.
Route(c) ==
  /\ step[c] = "route"
  /\ Goto(c, "look") \/ Goto(c, "refused")
  /\ UNCHANGED <<todo, keys, lead, choice, late, overridden, snapshot, prompts, hands,
                 allow, approvalHistory>>

-----------------------------------------------------------------------------
(* Waiting for the answer: _await_gateway_decision *)

\* The lookup of a pending identical approval is a lock section of its own.
Look(c) ==
  LET same == {e \in queued : Identical(e, c)}
  IN  /\ step[c] = "look"
      /\ \/ /\ same = {} /\ Goto(c, "enter") /\ UNCHANGED lead
         \/ \E e \in Oldest(same) : Goto(c, "follow") /\ lead' = [lead EXCEPT ![c] = e]
      /\ UNCHANGED <<todo, keys, choice, late, overridden, snapshot, prompts, hands,
                     allow, approvalHistory>>

\* _poll_event on the leader's event (a follower) or on the own one.
Wakes(c) ==
  /\ step[c] \in Waiting /\ lead[c] \in fired
  /\ Goto(c, IF step[c] = "follow" THEN "adopt" ELSE "drop")
  /\ UNCHANGED <<todo, keys, lead, choice, late, overridden, snapshot, prompts, hands,
                 allow, approvalHistory>>

TimesOut(c) ==
  /\ \/ step[c] = "follow" /\ Goto(c, "refused") /\ UNCHANGED late
     \/ step[c] = "wait" /\ Goto(c, "drop") /\ late' = late \cup {c}
  /\ UNCHANGED <<todo, keys, lead, choice, overridden, snapshot, prompts, hands, allow,
                 approvalHistory>>

\* A follower denies itself only; a waiter writes the denial into its entry.
Interrupted(c) ==
  /\ \/ /\ step[c] = "follow" /\ Goto(c, "refused") /\ UNCHANGED <<result, fired>>
     \/ /\ step[c] = "wait" /\ Goto(c, "drop")
        /\ result' = [result EXCEPT ![c] = "deny"] /\ fired' = fired \cup {c}
  /\ UNCHANGED <<todo, keys, lead, choice, late, overridden, snapshot, queued, arrival, hands,
                 allow, approvalHistory>>

\* Mutant of Adopt: a follower takes a "once" for itself.
AdoptAnything(c) ==
  /\ step[c] = "adopt"
  /\ IF result[lead[c]] \in Grants
     THEN /\ Goto(c, IF c \in overridden THEN "run" ELSE "session")
          /\ ground' = [ground EXCEPT ![c] = "answer"]
          /\ choice' = [choice EXCEPT ![c] = result[lead[c]]]
          /\ todo' = [todo EXCEPT ![c] = keys[c]]
     ELSE Goto(c, "refused") /\ UNCHANGED <<todo, choice, ground>>
  /\ UNCHANGED <<keys, lead, late, overridden, snapshot, prompts, hands, allow,
                 issued>>

\* Mutant of Settle: whatever is not a denial is consent.
SettleUnlessDenied(c, v) ==
  /\ choice' = [choice EXCEPT ![c] = v]
  /\ IF v # "deny"
     THEN /\ Goto(c, IF c \in overridden THEN "run" ELSE "session")
          /\ ground' = [ground EXCEPT ![c] = "answer"]
          /\ todo' = [todo EXCEPT ![c] = keys[c]]
     ELSE Goto(c, "refused") /\ UNCHANGED <<todo, ground>>

\* What becomes of c once it has read the choice v: grant persists it unless the
\* owner overruled the guardian.
Settle(c, v) ==
  /\ IF v \in Grants
     THEN /\ choice' = [choice EXCEPT ![c] = v]
          /\ Goto(c, IF c \in overridden THEN "run" ELSE "session")
          /\ ground' = [ground EXCEPT ![c] = "answer"]
          /\ todo' = [todo EXCEPT ![c] = keys[c]]
     ELSE Goto(c, "refused") /\ UNCHANGED <<todo, choice, ground>>

\* The follower reads its leader's result; a "once" covers the leader alone.
Adopt(c) ==
  /\ step[c] = "adopt"
  /\ IF result[lead[c]] = "once"
     THEN Goto(c, "enter") /\ UNCHANGED <<todo, choice, ground>>
     ELSE Settle(c, result[lead[c]])
  /\ UNCHANGED <<keys, lead, late, overridden, snapshot, prompts, hands, allow,
                 issued>>

Enter(c) ==
  /\ step[c] = "enter"
  /\ queued' = queued \cup {c} /\ lead' = [lead EXCEPT ![c] = c]
  /\ arrival' = [arrival EXCEPT ![c] = Cardinality({d \in Check : arrival[d] > 0}) + 1]
  /\ Goto(c, "notify")
  /\ UNCHANGED <<todo, keys, choice, late, overridden, snapshot, result, fired, hands,
                 allow, approvalHistory>>

\* notify_cb succeeds, or raises and the entry is dropped without firing its event.
Notify(c) ==
  /\ step[c] = "notify"
  /\ Goto(c, "wait") \/ Goto(c, "unsent")
  /\ UNCHANGED <<todo, keys, lead, choice, late, overridden, snapshot, prompts, hands,
                 allow, approvalHistory>>

DropEntry(c) ==
  /\ step[c] \in {"drop", "unsent"}
  /\ queued' = queued \ {c}
  /\ Goto(c, IF step[c] = "drop" THEN "finish" ELSE "refused")
  /\ UNCHANGED <<todo, keys, lead, choice, late, overridden, snapshot, arrival, result,
                 fired, hands, allow, approvalHistory>>

\* _finish: a timeout is a refusal, whatever has been written meanwhile.
Finish(c) ==
  /\ step[c] = "finish"
  /\ IF c \in late
     THEN Goto(c, "refused") /\ UNCHANGED <<todo, choice, ground>>
     ELSE Settle(c, result[c])
  /\ late' = late \ {c}
  /\ UNCHANGED <<keys, lead, overridden, snapshot, prompts, hands, allow, issued>>

-----------------------------------------------------------------------------
(* _persist_choice: key after key; "always" also reaches the file *)

\* Mutant of Remember: "always" is kept for content findings too.
RememberAll(c, k) ==
  IF choice[c] = "always"
  THEN approved' = approved \cup {k} /\ permanent' = permanent \cup {k}
  ELSE approved' = approved \cup {k} /\ UNCHANGED permanent

\* approve_session and approve_permanent for one key; no observer tells the two
\* lock sections apart, is_approved reads the union.
Remember(c, k) ==
  /\ approved' = approved \cup {k}
  /\ permanent' = IF choice[c] = "always" /\ k \notin Tirith THEN permanent \cup {k} ELSE permanent

PersistKey(c) ==
  \E k \in todo[c] :
     /\ step[c] = "session" /\ choice[c] # "once"
     /\ Remember(c, k)
     /\ todo' = [todo EXCEPT ![c] = @ \ {k}]
     /\ Goto(c, IF choice[c] = "always" /\ k \notin Tirith THEN "load" ELSE "session")
     /\ UNCHANGED <<keys, lead, choice, late, overridden, snapshot, prompts, hands,
                    saved, approvalHistory>>

\* save_permanent_allowlist: the set is copied into the loaded configuration ...
LoadConfig(c) ==
  /\ step[c] = "load"
  /\ snapshot' = [snapshot EXCEPT ![c] = permanent] /\ Goto(c, "save")
  /\ UNCHANGED <<todo, keys, lead, choice, late, overridden, prompts, hands, allow,
                 approvalHistory>>

\* ... and the configuration is written, or the write fails and is logged.
SaveConfig(c) ==
  /\ step[c] = "save"
  /\ saved' \in {saved, snapshot[c]} /\ Goto(c, "session")
  /\ snapshot' = [snapshot EXCEPT ![c] = {}]
  /\ UNCHANGED <<todo, keys, lead, choice, late, overridden, prompts, hands, approved,
                 permanent, approvalHistory>>

Persisted(c) ==
  /\ step[c] = "session" /\ (todo[c] = {} \/ choice[c] = "once")
  /\ Goto(c, "run")
  /\ UNCHANGED <<todo, keys, lead, choice, late, overridden, snapshot, prompts, hands,
                 allow, approvalHistory>>

\* The tool runs the command.
Run(c) ==
  /\ step[c] = "run" /\ Goto(c, "ran")
  /\ todo' = [todo EXCEPT ![c] = {}] /\ choice' = [choice EXCEPT ![c] = "none"]
  /\ UNCHANGED <<keys, lead, late, overridden, snapshot, prompts, hands, allow,
                 approvalHistory>>

-----------------------------------------------------------------------------
(* The gateway *)

\* A human answers: the oldest prompt, the one named, or all of them.  The
\* targets leave the queue in the lock section ...
Take(h, v, targets) ==
  /\ hand[h] = {} /\ queued # {}
  /\ targets \in {queued} \cup {{e} : e \in queued}
  /\ queued' = queued \ targets
  /\ hand' = [hand EXCEPT ![h] = targets] /\ verdict' = [verdict EXCEPT ![h] = v]
  /\ issued' = [e \in Check |-> IF e \in targets THEN v ELSE issued[e]]
  /\ UNCHANGED <<threads, arrival, result, fired, allow, ground>>

\* Mutant of Answer: the event is set for the first target only.
AnswerFirst(h) ==
  \E e \in Oldest(hand[h]) :
     /\ hand' = [hand EXCEPT ![h] = {}]
     /\ result' = IF verdict[h] = "none" THEN result ELSE [result EXCEPT ![e] = verdict[h]]
     /\ fired' = fired \cup {e}
     /\ UNCHANGED <<threads, queued, arrival, verdict, allow, approvalHistory>>

\* ... and get their result and their event one after the other outside it.
Answer(h) ==
  \E e \in Oldest(hand[h]) :
     /\ hand' = [hand EXCEPT ![h] = @ \ {e}]
     /\ result' = IF verdict[h] = "none" THEN result ELSE [result EXCEPT ![e] = verdict[h]]
     /\ fired' = fired \cup {e}
     /\ verdict' = IF hand[h] = {e} THEN [verdict EXCEPT ![h] = "none"] ELSE verdict
     /\ UNCHANGED <<threads, queued, arrival, allow, approvalHistory>>

\* Mutant of Unregister: the queue is emptied and nobody is woken.
UnregisterSilently(h) ==
  /\ hand[h] = {}
  /\ queued' = {}
  /\ UNCHANGED <<threads, arrival, result, fired, hands, allow, approvalHistory>>

\* unregister_gateway_notify: the run is over, everybody is woken without a result.
Unregister(h) ==
  /\ hand[h] = {}
  /\ queued' = {}
  /\ hand' = [hand EXCEPT ![h] = queued] /\ verdict' = [verdict EXCEPT ![h] = "none"]
  /\ UNCHANGED <<threads, arrival, result, fired, allow, approvalHistory>>

\* clear_session: the session's approvals go, everybody is denied.
ClearSession(h) ==
  /\ hand[h] = {}
  /\ approved' = {} /\ queued' = {}
  /\ hand' = [hand EXCEPT ![h] = queued] /\ verdict' = [verdict EXCEPT ![h] = "deny"]
  /\ UNCHANGED <<threads, arrival, result, fired, permanent, saved, approvalHistory>>

-----------------------------------------------------------------------------
CheckStep(c) ==
  \/ Start(c) \/ MatchKey(c) \/ Matched(c) \/ Judge(c) \/ Route(c)
  \/ Look(c) \/ Wakes(c) \/ Adopt(c) \/ Enter(c) \/ Notify(c) \/ DropEntry(c) \/ Finish(c)
  \/ PersistKey(c) \/ LoadConfig(c) \/ SaveConfig(c) \/ Persisted(c) \/ Run(c)

ApprovalNext ==
  \/ \E c \in Check : CheckStep(c) \/ TimesOut(c) \/ Interrupted(c)
  \/ \E h \in Hand :
        \/ \E v \in Choices, targets \in SUBSET queued : Take(h, v, targets)
        \/ Answer(h) \/ Unregister(h) \/ ClearSession(h)

\* Threads run on; a human, a deadline or an interrupt may never come.
ApprovalFairness ==
  /\ \A c \in Check : WF_approvalVars(CheckStep(c))
  /\ \A h \in Hand : WF_approvalVars(Answer(h))

ApprovalSpec == ApprovalInit /\ [][ApprovalNext]_approvalVars /\ ApprovalFairness

-----------------------------------------------------------------------------
(* Properties *)

\* A command that runs because of an answer runs on a choice that a human gave to
\* an identical request.  Silence, a failed notification, the end of the run and
\* clear_session are never consent, in whatever order they meet an answer.
Consented ==
  \A c \in Check : step[c] \in Granted /\ ground[c] = "answer" =>
     /\ Text[c] = Text[lead[c]] /\ keys[c] = keys[lead[c]]
     /\ issued[lead[c]] \in Grants

\* A "once" lets one guard call through, however many identical ones wait.
OnceForOne ==
  \A c, d \in Check :
     /\ {step[c], step[d]} \subseteq Granted /\ ground[c] = "answer" /\ ground[d] = "answer"
     /\ lead[c] = lead[d] /\ issued[lead[c]] = "once"
     => c = d

\* What is_approved will accept later was granted for longer by a human who saw
\* that key: permanently only by "always", and never for a content finding.
KeysEarned ==
  /\ \A k \in approved : \E e \in Check : k \in keys[e] /\ issued[e] \in {"session", "always"}
  /\ \A k \in permanent \cup saved : k \notin Tirith /\ \E e \in Check : k \in keys[e] /\ issued[e] = "always"

\* A waiting request can still be answered: it is in the queue, an answer is on
\* its way, or its event is set.
Answerable ==
  \A c \in Check : step[c] = "wait" => c \in queued \cup fired \cup UNION {hand[h] : h \in Hand}

\* Whoever has been answered stops waiting without the help of a deadline.
AnswersArrive ==
  \A c \in Check : (step[c] = "wait" /\ issued[c] # "none") ~> (step[c] \in {"ran", "refused"})
=============================================================================
