--------------------------- MODULE ClarifyPrompts ---------------------------
(***************************************************************************)
(* Clarify prompts of the gateway (clarify_gateway.py): an agent thread    *)
(* registers a prompt and waits for it; buttons, typed replies and the end *)
(* of the session resolve it from other threads, the deadline ends the     *)
(* wait.                                                                   *)
(*                                                                         *)
(* A step is one section under _lock.  A typed reply is looked up, judged  *)
(* and applied in three of them.  Its text is one of three kinds, which is *)
(* all that the coercion rules of the module tell apart.                   *)
(***************************************************************************)
EXTENDS Naturals, FiniteSets

CONSTANTS
  Prompt,      \* clarify ids
  Chat,        \* session keys
  ChatOf,      \* ChatOf[p]: the session that asks p
  OpenEnded,   \* prompts without choices
  Unlimited    \* prompts whose timeout is <= 0

ASSUME ClarifyAssumption ==
  /\ Prompt # {}
  /\ ChatOf \in [Prompt -> Chat]
  /\ OpenEnded \subseteq Prompt /\ Unlimited \subseteq Prompt

VARIABLES
  entries,    \* _entries
  index,      \* index[k]: the ids in _session_index
  since,      \* since[p]: the place of p in the order of registration, which they have there
  answered,   \* prompts whose event is set
  response,   \* response[p]: entry.response by where it came from
  awaiting,   \* prompts with awaiting_text
  asker,      \* asker[p]: where the agent thread of p is
  got,        \* got[p]: what wait_for_response returned for p
  typist,     \* typist[k]: where the typed reply to session k is
  target,     \* target[k]: the prompt it is tried against
  told,       \* history: told[p]: the kind of reply that was told it was accepted
  unwaited    \* history: prompts cleared before their thread began to wait

book   == <<entries, index, since>>
typing == <<typist, target>>
clarifyVars == <<book, answered, response, awaiting, asker, got, typing, told, unwaited>>

Values == {"none", "button", "text", "cancelled"}

ClarifyTypeOK ==
  /\ entries \subseteq Prompt /\ index \in [Chat -> SUBSET Prompt] /\ since \in [Prompt -> Nat]
  /\ answered \subseteq Prompt /\ awaiting \subseteq Prompt
  /\ response \in [Prompt -> Values] /\ got \in [Prompt -> Values] /\ told \in [Prompt -> Values]
  /\ asker \in [Prompt -> {"new", "registered", "waiting", "leaving", "returned"}]
  /\ typist \in [Chat -> {"idle", "judge", "apply"}] /\ target \in [Chat -> Prompt]
  /\ unwaited \subseteq Prompt

ClarifyInit ==
  /\ entries = {} /\ index = [k \in Chat |-> {}] /\ since = [p \in Prompt |-> 0]
  /\ answered = {} /\ awaiting = {} /\ unwaited = {}
  /\ response = [p \in Prompt |-> "none"] /\ got = [p \in Prompt |-> "none"]
  /\ told = [p \in Prompt |-> "none"]
  /\ asker = [p \in Prompt |-> "new"]
  /\ typist = [k \in Chat |-> "idle"] /\ target = [k \in Chat |-> CHOOSE p \in Prompt : TRUE]

AskerAt(p, step) == asker' = [asker EXCEPT ![p] = step]
TypistAt(k, step) == typist' = [typist EXCEPT ![k] = step]

-----------------------------------------------------------------------------
(* The agent thread *)

\* register: an open-ended prompt is in text mode from the start.
Register(p) ==
  /\ asker[p] = "new" /\ AskerAt(p, "registered")
  /\ entries' = entries \cup {p}
  /\ index' = [index EXCEPT ![ChatOf[p]] = @ \cup {p}]
  /\ since' = [since EXCEPT ![p] = 1 + Cardinality({q \in Prompt : asker[q] # "new"})]
  /\ awaiting' = IF p \in OpenEnded THEN awaiting \cup {p} ELSE awaiting
  /\ UNCHANGED <<answered, response, got, typing, told, unwaited>>

\* wait_for_response looks its entry up once.
BeginWait(p) ==
  /\ asker[p] = "registered" /\ AskerAt(p, IF p \in entries THEN "waiting" ELSE "returned")
  /\ UNCHANGED <<book, answered, response, awaiting, got, typing, told, unwaited>>

\* The event is set, or the deadline is over.
StopWaiting(p) ==
  /\ asker[p] = "waiting" /\ AskerAt(p, "leaving")
  /\ p \in answered \/ p \notin Unlimited
  /\ UNCHANGED <<book, answered, response, awaiting, got, typing, told, unwaited>>

\* Mutant of Collect: a wait that ran into its deadline returns nothing.
CollectEarly(p) ==
  /\ asker[p] = "leaving" /\ AskerAt(p, "returned")
  /\ got' \in {[got EXCEPT ![p] = response[p]], got}
  /\ entries' = entries \ {p} /\ index' = [index EXCEPT ![ChatOf[p]] = @ \ {p}]
  /\ UNCHANGED <<since, answered, response, awaiting, typing, told, unwaited>>

\* The entry is taken out under the lock, then its response is returned: after
\* that section no resolver can find the entry.
Collect(p) ==
  /\ asker[p] = "leaving" /\ AskerAt(p, "returned")
  /\ got' = [got EXCEPT ![p] = response[p]]
  /\ entries' = entries \ {p} /\ index' = [index EXCEPT ![ChatOf[p]] = @ \ {p}]
  /\ UNCHANGED <<since, answered, response, awaiting, typing, told, unwaited>>

-----------------------------------------------------------------------------
(* Replies *)

\* resolve_gateway_clarify: the first writer wins and is told so.
Resolve(p, by) ==
  IF p \in entries \ answered
  THEN /\ response' = [response EXCEPT ![p] = by] /\ answered' = answered \cup {p}
       /\ told' = [told EXCEPT ![p] = by]
  ELSE UNCHANGED <<response, answered, told>>

\* A button of a prompt that was shown.
Button(p) ==
  /\ asker[p] # "new" /\ Resolve(p, "button")
  /\ UNCHANGED <<book, awaiting, asker, got, typing, unwaited>>

\* mark_awaiting_text: the "Other" button.
MarkAwaiting(p) ==
  /\ p \in entries /\ awaiting' = awaiting \cup {p}
  /\ UNCHANGED <<book, answered, response, asker, got, typing, told, unwaited>>

\* get_pending_for_session with include_choice_prompts: the oldest entry of the
\* session, answered or not.
Pending(k) == {p \in index[k] \cap entries : \A q \in index[k] \cap entries : since[p] <= since[q]}

\* attempt_text_response_for_session: a reply is typed, the lookup.
TypeReply(k) ==
  /\ typist[k] = "idle" /\ TypistAt(k, "judge")
  /\ \E p \in Pending(k) : target' = [target EXCEPT ![k] = p]
  /\ UNCHANGED <<book, answered, response, awaiting, asker, got, told, unwaited>>

\* _coerce_text_response_detailed: a pick or a label always resolves; a bad
\* selection and prose only where any text does.
JudgeReply(k) ==
  /\ typist[k] = "judge"
  /\ \E kind \in {"pick", "badPick", "prose"} :
        TypistAt(k, IF kind = "pick" \/ target[k] \in OpenEnded \cup awaiting
                    THEN "apply" ELSE "idle")
  /\ UNCHANGED <<book, answered, response, awaiting, asker, got, target, told, unwaited>>

\* The accepted text goes to the prompt of the lookup, or to none.
ApplyReply(k) ==
  /\ typist[k] = "apply" /\ TypistAt(k, "idle")
  /\ Resolve(target[k], "text")
  /\ UNCHANGED <<book, awaiting, asker, got, target, unwaited>>

\* Mutant of ClearPrompts: what was answered is dropped, the rest forgotten.
ClearQuietly(k) ==
  /\ index[k] # {}
  /\ entries' = entries \ index[k] /\ index' = [index EXCEPT ![k] = {}]
  /\ unwaited' = unwaited \cup {p \in index[k] : asker[p] = "registered"}
  /\ UNCHANGED <<since, answered, response, awaiting, asker, got, typing, told>>

\* clear_session: all prompts of the session go; those not answered are
\* cancelled with "", those answered keep their response.
ClearPrompts(k) ==
  LET open == (index[k] \cap entries) \ answered
  IN  /\ index[k] # {}
      /\ entries' = entries \ index[k] /\ index' = [index EXCEPT ![k] = {}]
      /\ response' = [p \in Prompt |-> IF p \in open THEN "cancelled" ELSE response[p]]
      /\ answered' = answered \cup open
      /\ unwaited' = unwaited \cup {p \in index[k] : asker[p] = "registered"}
      /\ UNCHANGED <<since, awaiting, asker, got, typing, told>>

ClarifyNext ==
  \/ \E p \in Prompt :
        \/ Register(p) \/ BeginWait(p) \/ StopWaiting(p) \/ Collect(p)
        \/ Button(p) \/ MarkAwaiting(p)
  \/ \E k \in Chat : TypeReply(k) \/ JudgeReply(k) \/ ApplyReply(k) \/ ClearPrompts(k)

ClarifySpec == ClarifyInit /\ [][ClarifyNext]_clarifyVars

-----------------------------------------------------------------------------
(* Properties *)

\* Whoever was told that a reply was accepted is right: the thread returns that
\* reply, also when its deadline passed or the session was cleared in between;
\* and it returns no reply that nobody was told of.  Excepted are prompts that
\* were cleared before their thread began to wait: it finds no entry.
AcceptedIsReturned ==
  \A p \in Prompt \ unwaited : asker[p] = "returned" =>
     got[p] = IF told[p] # "none" THEN told[p]
              ELSE IF p \in answered THEN "cancelled" ELSE "none"

\* A thread that waits is released already, or buttons, typed replies and the
\* end of the session all still find its prompt.
PromptFindable ==
  \A p \in Prompt : asker[p] = "waiting" =>
     p \in answered \/ (p \in entries /\ p \in index[ChatOf[p]])

=============================================================================
