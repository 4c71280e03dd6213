--------------------------- MODULE ServicesProofs ---------------------------
(***************************************************************************)
(* Theorems about MCServices.  ClarifyPrompts and SlashConfirm come first: *)
(* for any number of prompts and sessions an accepted reply is the one     *)
(* returned, a waiting thread can be released, and a confirmed command is  *)
(* run once at most.  Then the composition: every step of the services is  *)
(* a step of one component and a stutter of the others, so the invariants  *)
(* of all five hold of it together.                                        *)
(***************************************************************************)
EXTENDS MCServices, ApprovalQueueProofs, FileStateProofs, MCPSessionProofs

\* The response of an entry, and who was told of it.
ResponseOK ==
  \A p \in Prompt :
     /\ p \notin answered => response[p] = "none" /\ told[p] = "none"
     /\ p \in answered => response[p] = IF told[p] # "none" THEN told[p] ELSE "cancelled"

\* Where an entry is, by how far its thread has come.
PlaceOK ==
  \A p \in Prompt :
     /\ asker[p] = "new" => p \notin entries /\ p \notin answered /\ p \notin index[ChatOf[p]]
     /\ asker[p] = "registered" => p \in entries \/ p \in unwaited
     /\ asker[p] = "returned" => p \notin entries
     /\ p \in entries => p \in index[ChatOf[p]]

\* A session lists its own prompts.
ChatOwnOK == \A k \in Chat : \A p \in index[k] : ChatOf[p] = k

\* Types, without the order of registration.
Typed ==
  /\ entries \subseteq Prompt /\ index \in [Chat -> SUBSET Prompt]
  /\ answered \subseteq Prompt
  /\ response \in [Prompt -> Values] /\ got \in [Prompt -> Values] /\ told \in [Prompt -> Values]
  /\ asker \in [Prompt -> {"new", "registered", "waiting", "leaving", "returned"}]
  /\ target \in [Chat -> Prompt] /\ unwaited \subseteq Prompt

ClarifyInv ==
  Typed /\ ResponseOK /\ PlaceOK /\ ChatOwnOK /\ AcceptedIsReturned /\ PromptFindable

-----------------------------------------------------------------------------
(* Every action preserves the invariant *)

\* A new entry is listed under its session.
LEMMA RegisterKeeps ==
  ASSUME ClarifyAssumption, ClarifyInv, NEW p \in Prompt, Register(p)
  PROVE  ClarifyInv'
<1> USE DEF ClarifyInv, Register, AskerAt, TypistAt, book, typing
<1>1. Typed'
  BY DEF Typed, Values, ClarifyAssumption
<1>2. ResponseOK'
  BY DEF ResponseOK, PlaceOK, Typed, Values, ClarifyAssumption
<1>3. PlaceOK' /\ ChatOwnOK'
  BY DEF PlaceOK, ChatOwnOK, Typed, Values, ClarifyAssumption
<1>4. AcceptedIsReturned'
  BY DEF AcceptedIsReturned, ResponseOK, PlaceOK, Typed, Values, ClarifyAssumption
<1>5. PromptFindable'
  BY DEF PromptFindable, PlaceOK, ChatOwnOK, Typed, Values, ClarifyAssumption
<1>6. QED
  BY <1>1, <1>2, <1>3, <1>4, <1>5

\* A thread finds its entry, or it was cleared.
LEMMA BeginWaitKeeps ==
  ASSUME ClarifyAssumption, ClarifyInv, NEW p \in Prompt, BeginWait(p)
  PROVE  ClarifyInv'
<1> USE DEF ClarifyInv, BeginWait, AskerAt, TypistAt, book, typing
<1>1. Typed'
  BY DEF Typed, Values, ClarifyAssumption
<1>2. ResponseOK'
  BY DEF ResponseOK, PlaceOK, Typed, Values, ClarifyAssumption
<1>3. PlaceOK' /\ ChatOwnOK'
  BY DEF PlaceOK, ChatOwnOK, Typed, Values, ClarifyAssumption
<1>4. AcceptedIsReturned'
  BY DEF AcceptedIsReturned, ResponseOK, PlaceOK, Typed, Values, ClarifyAssumption
<1>5. PromptFindable'
  BY DEF PromptFindable, PlaceOK, ChatOwnOK, Typed, Values, ClarifyAssumption
<1>6. QED
  BY <1>1, <1>2, <1>3, <1>4, <1>5

\* The end of a wait changes nothing else.
LEMMA StopWaitingKeeps ==
  ASSUME ClarifyAssumption, ClarifyInv, NEW p \in Prompt, StopWaiting(p)
  PROVE  ClarifyInv'
<1> USE DEF ClarifyInv, StopWaiting, AskerAt, TypistAt, book, typing
<1>1. Typed'
  BY DEF Typed, Values, ClarifyAssumption
<1>2. ResponseOK'
  BY DEF ResponseOK, PlaceOK, Typed, Values, ClarifyAssumption
<1>3. PlaceOK' /\ ChatOwnOK'
  BY DEF PlaceOK, ChatOwnOK, Typed, Values, ClarifyAssumption
<1>4. AcceptedIsReturned'
  BY DEF AcceptedIsReturned, ResponseOK, PlaceOK, Typed, Values, ClarifyAssumption
<1>5. PromptFindable'
  BY DEF PromptFindable, PlaceOK, ChatOwnOK, Typed, Values, ClarifyAssumption
<1>6. QED
  BY <1>1, <1>2, <1>3, <1>4, <1>5

\* The response returned is the last one the entry will have.
LEMMA CollectKeeps ==
  ASSUME ClarifyAssumption, ClarifyInv, NEW p \in Prompt, Collect(p)
  PROVE  ClarifyInv'
<1> USE DEF ClarifyInv, Collect, AskerAt, TypistAt, book, typing
<1>1. Typed'
  BY DEF Typed, Values, ClarifyAssumption
<1>2. ResponseOK'
  BY DEF ResponseOK, PlaceOK, Typed, Values, ClarifyAssumption
<1>3. PlaceOK' /\ ChatOwnOK'
  BY DEF PlaceOK, ChatOwnOK, Typed, Values, ClarifyAssumption
<1>4. AcceptedIsReturned'
  BY DEF AcceptedIsReturned, ResponseOK, PlaceOK, Typed, Values, ClarifyAssumption
<1>5. PromptFindable'
  BY DEF PromptFindable, PlaceOK, ChatOwnOK, Typed, Values, ClarifyAssumption
<1>6. QED
  BY <1>1, <1>2, <1>3, <1>4, <1>5

\* The first reply is the one that counts.
LEMMA ButtonKeeps ==
  ASSUME ClarifyAssumption, ClarifyInv, NEW p \in Prompt, Button(p)
  PROVE  ClarifyInv'
<1> USE DEF ClarifyInv, Button, Resolve, AskerAt, TypistAt, book, typing
<1>1. Typed'
  <2>1. p \in Prompt
    BY DEF Typed
  <2>2. CASE p \in entries \ answered
    BY <2>1, <2>2 DEF Typed, Values, ClarifyAssumption
  <2>3. CASE p \notin entries \ answered
    BY <2>1, <2>3 DEF Typed, Values, ClarifyAssumption
  <2>4. QED
    BY <2>2, <2>3
<1>2. ResponseOK'
  <2>1. p \in Prompt
    BY DEF Typed
  <2>2. CASE p \in entries \ answered
    BY <2>1, <2>2 DEF ResponseOK, PlaceOK, Typed, Values, ClarifyAssumption
  <2>3. CASE p \notin entries \ answered
    BY <2>1, <2>3 DEF ResponseOK, PlaceOK, Typed, Values, ClarifyAssumption
  <2>4. QED
    BY <2>2, <2>3
<1>3. PlaceOK' /\ ChatOwnOK'
  <2>1. p \in Prompt
    BY DEF Typed
  <2>2. CASE p \in entries \ answered
    BY <2>1, <2>2 DEF PlaceOK, ChatOwnOK, Typed, Values, ClarifyAssumption
  <2>3. CASE p \notin entries \ answered
    BY <2>1, <2>3 DEF PlaceOK, ChatOwnOK, Typed, Values, ClarifyAssumption
  <2>4. QED
    BY <2>2, <2>3
<1>4. AcceptedIsReturned'
  <2>1. p \in Prompt
    BY DEF Typed
  <2>2. CASE p \in entries \ answered
    BY <2>1, <2>2 DEF AcceptedIsReturned, ResponseOK, PlaceOK, Typed, Values, ClarifyAssumption
  <2>3. CASE p \notin entries \ answered
    BY <2>1, <2>3 DEF AcceptedIsReturned, ResponseOK, PlaceOK, Typed, Values, ClarifyAssumption
  <2>4. QED
    BY <2>2, <2>3
<1>5. PromptFindable'
  <2>1. p \in Prompt
    BY DEF Typed
  <2>2. CASE p \in entries \ answered
    BY <2>1, <2>2 DEF PromptFindable, PlaceOK, ChatOwnOK, Typed, Values, ClarifyAssumption
  <2>3. CASE p \notin entries \ answered
    BY <2>1, <2>3 DEF PromptFindable, PlaceOK, ChatOwnOK, Typed, Values, ClarifyAssumption
  <2>4. QED
    BY <2>2, <2>3
<1>6. QED
  BY <1>1, <1>2, <1>3, <1>4, <1>5

\* Text mode changes no reply.
LEMMA MarkAwaitingKeeps ==
  ASSUME ClarifyAssumption, ClarifyInv, NEW p \in Prompt, MarkAwaiting(p)
  PROVE  ClarifyInv'
<1> USE DEF ClarifyInv, MarkAwaiting, AskerAt, TypistAt, book, typing
<1>1. Typed'
  BY DEF Typed, Values, ClarifyAssumption
<1>2. ResponseOK'
  BY DEF ResponseOK, PlaceOK, Typed, Values, ClarifyAssumption
<1>3. PlaceOK' /\ ChatOwnOK'
  BY DEF PlaceOK, ChatOwnOK, Typed, Values, ClarifyAssumption
<1>4. AcceptedIsReturned'
  BY DEF AcceptedIsReturned, ResponseOK, PlaceOK, Typed, Values, ClarifyAssumption
<1>5. PromptFindable'
  BY DEF PromptFindable, PlaceOK, ChatOwnOK, Typed, Values, ClarifyAssumption
<1>6. QED
  BY <1>1, <1>2, <1>3, <1>4, <1>5

\* A lookup changes no entry.
LEMMA TypeReplyKeeps ==
  ASSUME ClarifyAssumption, ClarifyInv, NEW k \in Chat, TypeReply(k)
  PROVE  ClarifyInv'
<1> USE DEF ClarifyInv, TypeReply, Pending, AskerAt, TypistAt, book, typing
<1>1. Typed'
  BY DEF Typed, Values, ClarifyAssumption
<1>2. ResponseOK'
  BY DEF ResponseOK, PlaceOK, Typed, Values, ClarifyAssumption
<1>3. PlaceOK' /\ ChatOwnOK'
  BY DEF PlaceOK, ChatOwnOK, Typed, Values, ClarifyAssumption
<1>4. AcceptedIsReturned'
  BY DEF AcceptedIsReturned, ResponseOK, PlaceOK, Typed, Values, ClarifyAssumption
<1>5. PromptFindable'
  BY DEF PromptFindable, PlaceOK, ChatOwnOK, Typed, Values, ClarifyAssumption
<1>6. QED
  BY <1>1, <1>2, <1>3, <1>4, <1>5

\* Nor does the judgement of a text.
LEMMA JudgeReplyKeeps ==
  ASSUME ClarifyAssumption, ClarifyInv, NEW k \in Chat, JudgeReply(k)
  PROVE  ClarifyInv'
<1> USE DEF ClarifyInv, JudgeReply, AskerAt, TypistAt, book, typing
<1>1. Typed'
  BY DEF Typed, Values, ClarifyAssumption
<1>2. ResponseOK'
  BY DEF ResponseOK, PlaceOK, Typed, Values, ClarifyAssumption
<1>3. PlaceOK' /\ ChatOwnOK'
  BY DEF PlaceOK, ChatOwnOK, Typed, Values, ClarifyAssumption
<1>4. AcceptedIsReturned'
  BY DEF AcceptedIsReturned, ResponseOK, PlaceOK, Typed, Values, ClarifyAssumption
<1>5. PromptFindable'
  BY DEF PromptFindable, PlaceOK, ChatOwnOK, Typed, Values, ClarifyAssumption
<1>6. QED
  BY <1>1, <1>2, <1>3, <1>4, <1>5

\* A text counts only where no reply was before it.
LEMMA ApplyReplyKeeps ==
  ASSUME ClarifyAssumption, ClarifyInv, NEW k \in Chat, ApplyReply(k)
  PROVE  ClarifyInv'
<1> USE DEF ClarifyInv, ApplyReply, Resolve, AskerAt, TypistAt, book, typing
<1>1. Typed'
  <2>1. UNCHANGED <<entries, index, asker, got, target, unwaited>>
    OBVIOUS
  <2>2. /\ answered' \subseteq Prompt
        /\ response' \in [Prompt -> Values] /\ told' \in [Prompt -> Values]
    <3>1. target[k] \in Prompt
      BY DEF Typed
    <3>2. CASE target[k] \in entries \ answered
      <4>1. /\ answered' = answered \cup {target[k]}
            /\ response' = [response EXCEPT ![target[k]] = "text"]
            /\ told' = [told EXCEPT ![target[k]] = "text"]
        BY <3>2
      <4> QED BY <3>1, <4>1 DEF Typed, Values
    <3>3. CASE target[k] \notin entries \ answered
      <4>1. UNCHANGED <<answered, response, told>>
        BY <3>3
      <4> QED BY <4>1 DEF Typed
    <3> QED BY <3>2, <3>3
  <2> QED BY <2>1, <2>2 DEF Typed
<1>2. ResponseOK'
  <2>1. target[k] \in Prompt
    BY DEF Typed
  <2>2. CASE target[k] \in entries \ answered
    BY <2>1, <2>2 DEF ResponseOK, PlaceOK, Typed, Values, ClarifyAssumption
  <2>3. CASE target[k] \notin entries \ answered
    BY <2>1, <2>3 DEF ResponseOK, PlaceOK, Typed, Values, ClarifyAssumption
  <2>4. QED
    BY <2>2, <2>3
<1>3. PlaceOK' /\ ChatOwnOK'
  <2>1. target[k] \in Prompt
    BY DEF Typed
  <2>2. CASE target[k] \in entries \ answered
    BY <2>1, <2>2 DEF PlaceOK, ChatOwnOK, Typed, Values, ClarifyAssumption
  <2>3. CASE target[k] \notin entries \ answered
    BY <2>1, <2>3 DEF PlaceOK, ChatOwnOK, Typed, Values, ClarifyAssumption
  <2>4. QED
    BY <2>2, <2>3
<1>4. AcceptedIsReturned'
  <2>1. target[k] \in Prompt
    BY DEF Typed
  <2>2. CASE target[k] \in entries \ answered
    BY <2>1, <2>2 DEF AcceptedIsReturned, ResponseOK, PlaceOK, Typed, Values, ClarifyAssumption
  <2>3. CASE target[k] \notin entries \ answered
    BY <2>1, <2>3 DEF AcceptedIsReturned, ResponseOK, PlaceOK, Typed, Values, ClarifyAssumption
  <2>4. QED
    BY <2>2, <2>3
<1>5. PromptFindable'
  <2>1. target[k] \in Prompt
    BY DEF Typed
  <2>2. CASE target[k] \in entries \ answered
    BY <2>1, <2>2 DEF PromptFindable, PlaceOK, ChatOwnOK, Typed, Values, ClarifyAssumption
  <2>3. CASE target[k] \notin entries \ answered
    BY <2>1, <2>3 DEF PromptFindable, PlaceOK, ChatOwnOK, Typed, Values, ClarifyAssumption
  <2>4. QED
    BY <2>2, <2>3
<1>6. QED
  BY <1>1, <1>2, <1>3, <1>4, <1>5

\* What a clear takes away it releases, or the thread has not begun to wait.
LEMMA ClearPromptsKeeps ==
  ASSUME ClarifyAssumption, ClarifyInv, NEW k \in Chat, ClearPrompts(k)
  PROVE  ClarifyInv'
<1> USE DEF ClarifyInv, ClearPrompts, AskerAt, TypistAt, book, typing
<1>1. Typed'
  BY DEF Typed, Values, ClarifyAssumption
<1>2. ResponseOK'
  BY DEF ResponseOK, PlaceOK, Typed, Values, ClarifyAssumption
<1>3. PlaceOK' /\ ChatOwnOK'
  BY DEF PlaceOK, ChatOwnOK, Typed, Values, ClarifyAssumption
<1>4. AcceptedIsReturned'
  BY DEF AcceptedIsReturned, ResponseOK, PlaceOK, Typed, Values, ClarifyAssumption
<1>5. PromptFindable'
  BY DEF PromptFindable, PlaceOK, ChatOwnOK, Typed, Values, ClarifyAssumption
<1>6. QED
  BY <1>1, <1>2, <1>3, <1>4, <1>5

-----------------------------------------------------------------------------
(* The invariant, and what follows from it *)

\* The invariant holds initially.
LEMMA ClarifyInitHolds ==
  ASSUME ClarifyAssumption, ClarifyInit
  PROVE  ClarifyInv
<1>1. (CHOOSE p \in Prompt : TRUE) \in Prompt
  BY DEF ClarifyAssumption
<1>2. {} \in SUBSET Prompt
  OBVIOUS
<1>3. Typed
  BY <1>1, <1>2 DEF ClarifyInit, Typed, Values
<1>4. ResponseOK /\ PlaceOK /\ ChatOwnOK /\ AcceptedIsReturned /\ PromptFindable
  BY DEF ClarifyInit, ResponseOK, PlaceOK, ChatOwnOK, AcceptedIsReturned, PromptFindable, ClarifyAssumption
<1>5. QED
  BY <1>3, <1>4 DEF ClarifyInv

\* Every step, and a stutter, preserves it.
LEMMA ClarifyNextKeeps ==
  ASSUME ClarifyAssumption, ClarifyInv, [ClarifyNext]_clarifyVars
  PROVE  ClarifyInv'
<1>1. ASSUME NEW p \in Prompt,
             \/ Register(p) \/ BeginWait(p) \/ StopWaiting(p) \/ Collect(p)
             \/ Button(p) \/ MarkAwaiting(p)
      PROVE  ClarifyInv'
  BY <1>1, RegisterKeeps, BeginWaitKeeps, StopWaitingKeeps, CollectKeeps, ButtonKeeps,
     MarkAwaitingKeeps
<1>2. ASSUME NEW k \in Chat, TypeReply(k) \/ JudgeReply(k) \/ ApplyReply(k) \/ ClearPrompts(k)
      PROVE  ClarifyInv'
  BY <1>2, TypeReplyKeeps, JudgeReplyKeeps, ApplyReplyKeeps, ClearPromptsKeeps
<1>3. CASE UNCHANGED clarifyVars
  BY <1>3 DEF ClarifyInv, clarifyVars, book, typing, Typed, Values, ResponseOK, PlaceOK, ChatOwnOK, AcceptedIsReturned, PromptFindable
<1>4. QED
  BY <1>1, <1>2, <1>3 DEF ClarifyNext

\* The invariant holds in every reachable state.
THEOREM ClarifyInvariant == ClarifySpec => []ClarifyInv
<1>1. ClarifyInit => ClarifyInv
  BY ClarifyAssumption, ClarifyInitHolds
<1>2. ClarifyInv /\ [ClarifyNext]_clarifyVars => ClarifyInv'
  BY ClarifyAssumption, ClarifyNextKeeps
<1>3. QED
  BY <1>1, <1>2, PTL DEF ClarifySpec

\* The reply that was accepted is the one the waiting thread returns.
THEOREM RepliesAreReturned == ClarifySpec => []AcceptedIsReturned
<1>1. ClarifyInv => AcceptedIsReturned
  BY DEF ClarifyInv
<1>2. QED
  BY <1>1, ClarifyInvariant, PTL

\* A waiting thread is released already or can still be.
THEOREM PromptsAreFindable == ClarifySpec => []PromptFindable
<1>1. ClarifyInv => PromptFindable
  BY DEF ClarifyInv
<1>2. QED
  BY <1>1, ClarifyInvariant, PTL

\* The order of registration is counted over the prompts registered so far, which
\* are finitely many, however many there are to come.
Registered == {p \in Prompt : asker[p] # "new"}
OrderOK ==
  /\ IsFiniteSet(Registered) /\ since \in [Prompt -> Nat] /\ awaiting \subseteq Prompt
  /\ typist \in [Chat -> {"idle", "judge", "apply"}]

LEMMA OrderInit == ClarifyInit => OrderOK
<1>1. ASSUME ClarifyInit PROVE Registered = {}
  BY <1>1 DEF ClarifyInit, Registered
<1> QED BY <1>1, FS_EmptySet DEF ClarifyInit, OrderOK

LEMMA OrderStep ==
  ASSUME ClarifyInv, OrderOK, [ClarifyNext]_clarifyVars
  PROVE  OrderOK'
<1>1. asker \in [Prompt -> {"new", "registered", "waiting", "leaving", "returned"}]
  BY DEF ClarifyInv, Typed
<1>2. ASSUME NEW p \in Prompt, Register(p)
      PROVE  OrderOK'
  <2>1. asker[p] = "new" /\ asker' = [asker EXCEPT ![p] = "registered"]
    BY <1>2 DEF Register, AskerAt
  <2>2. Registered' = Registered \cup {p}
    BY <1>1, <2>1 DEF Registered
  <2>3. IsFiniteSet(Registered)'
    BY <2>2, FS_AddElement DEF OrderOK
  <2>4. since' = [since EXCEPT ![p] = 1 + Cardinality(Registered)]
    BY <1>2 DEF Register, Registered
  <2>5. Cardinality(Registered) \in Nat
    BY FS_CardinalityType DEF OrderOK
  <2>6. since' \in [Prompt -> Nat]
    BY <2>4, <2>5 DEF OrderOK
  <2>7. awaiting' \subseteq Prompt /\ typist' = typist
    BY <1>2 DEF Register, typing, OrderOK
  <2> QED BY <2>3, <2>6, <2>7 DEF OrderOK
<1>3. ASSUME NEW p \in Prompt, BeginWait(p) \/ StopWaiting(p) \/ Collect(p)
      PROVE  OrderOK'
  <2>1. asker[p] # "new" /\ \E to \in {"waiting", "leaving", "returned"} : asker' = [asker EXCEPT ![p] = to]
    BY <1>3 DEF BeginWait, StopWaiting, Collect, AskerAt
  <2>2. Registered' = Registered
    BY <1>1, <2>1 DEF Registered
  <2>3. UNCHANGED <<since, awaiting, typist>>
    BY <1>3 DEF BeginWait, StopWaiting, Collect, book, typing
  <2> QED BY <2>2, <2>3 DEF OrderOK
<1>4. ASSUME NEW p \in Prompt, Button(p) \/ MarkAwaiting(p)
      PROVE  OrderOK'
  <2>1. UNCHANGED <<asker, since, typist>>
    BY <1>4 DEF Button, MarkAwaiting, book, typing
  <2>2. awaiting' \in {awaiting, awaiting \cup {p}}
    BY <1>4 DEF Button, MarkAwaiting
  <2> QED BY <2>1, <2>2 DEF OrderOK, Registered
<1>5. ASSUME NEW k \in Chat, TypeReply(k) \/ JudgeReply(k) \/ ApplyReply(k) \/ ClearPrompts(k)
      PROVE  OrderOK'
  <2>1. UNCHANGED <<asker, since, awaiting>>
    BY <1>5 DEF TypeReply, JudgeReply, ApplyReply, ClearPrompts, book
  <2>2. typist' = typist \/ \E to \in {"idle", "judge", "apply"} : typist' = [typist EXCEPT ![k] = to]
    BY <1>5 DEF TypeReply, JudgeReply, ApplyReply, ClearPrompts, TypistAt, typing
  <2> QED BY <2>1, <2>2 DEF OrderOK, Registered
<1>6. CASE UNCHANGED clarifyVars
  BY <1>6 DEF clarifyVars, book, typing, OrderOK, Registered
<1> QED BY <1>2, <1>3, <1>4, <1>5, <1>6 DEF ClarifyNext

LEMMA ClarifyTypes == ClarifyInv /\ OrderOK => ClarifyTypeOK
BY DEF ClarifyInv, Typed, OrderOK, ClarifyTypeOK

-----------------------------------------------------------------------------
(* Slash-command confirmation *)

\* A prompt that can still be clicked, or was never asked, or was withdrawn, has
\* run nothing; what is pending was asked and not withdrawn.
Unclicked ==
  /\ pending \subseteq asked /\ withdrawn \subseteq asked /\ pending \cap withdrawn = {}
  /\ \A c \in Confirm :
        c \in pending \cup withdrawn \/ c \notin asked => ran[c] = 0 /\ running[c] = {}

SlashInv == SlashTypeOK /\ Unclicked /\ HandlerOnce

\* A set of callbacks grows or shrinks by the one that comes or goes.
LEMMA ClickCount ==
  ASSUME SlashAssumption, NEW S \in SUBSET Click, NEW u
  PROVE  /\ Cardinality(S) \in Nat
         /\ u \in S => Cardinality(S \ {u}) = Cardinality(S) - 1
         /\ Cardinality({}) = 0 /\ Cardinality({u}) = 1
<1>1. IsFiniteSet(S)
  BY FS_Subset DEF SlashAssumption
<1>2. Cardinality({}) = 0
  BY FS_EmptySet, Zenon
<1>3. Cardinality({u}) = 1
  BY FS_Singleton
<1>4. QED
  BY <1>1, <1>2, <1>3, FS_CardinalityType, FS_RemoveElement

\* A prompt that is asked anew has run nothing; the one it supersedes never will.
LEMMA AskKeeps ==
  ASSUME SlashAssumption, SlashInv, NEW c \in Confirm, Ask(c)
  PROVE  SlashInv'
<1> USE DEF SlashInv, Ask, InRoom
<1>1. SlashTypeOK'
  BY DEF SlashTypeOK
<1>2. Unclicked'
  BY DEF Unclicked, SlashTypeOK
<1>3. Cardinality({}) = 0
  BY FS_EmptySet, Zenon
<1>4. ASSUME NEW d \in Confirm
      PROVE  ran'[d] + Cardinality(running'[d]) <= IF d \in withdrawn' THEN 0 ELSE 1
  <2>1. CASE d \in withdrawn' \ withdrawn
    <3>1. d \in pending
      BY <2>1
    <3>2. ran'[d] = 0 /\ running'[d] = {}
      BY <3>1 DEF Unclicked
    <3>3. ran'[d] + Cardinality(running'[d]) = 0
      BY <1>3, <3>2
    <3>4. QED
      BY <2>1, <3>3
  <2>2. CASE d \in withdrawn \/ d \notin withdrawn'
    BY <2>2 DEF HandlerOnce
  <2>3. QED
    BY <2>1, <2>2
<1>5. QED
  BY <1>1, <1>2, <1>4 DEF HandlerOnce

\* What is withdrawn was pending, so it has run nothing.
LEMMA WithdrawKeeps ==
  ASSUME SlashAssumption, SlashInv, NEW k \in Room, NEW which \in SUBSET InRoom(k),
         Withdraw(k, which)
  PROVE  SlashInv'
<1> USE DEF SlashInv, Withdraw, InRoom
<1>1. SlashTypeOK'
  BY DEF SlashTypeOK
<1>2. Unclicked'
  BY DEF Unclicked, SlashTypeOK
<1>3. Cardinality({}) = 0
  BY FS_EmptySet, Zenon
<1>4. ASSUME NEW d \in Confirm
      PROVE  ran'[d] + Cardinality(running'[d]) <= IF d \in withdrawn' THEN 0 ELSE 1
  <2>1. CASE d \in withdrawn' \ withdrawn
    <3>1. d \in pending
      BY <2>1
    <3>2. ran'[d] = 0 /\ running'[d] = {}
      BY <3>1 DEF Unclicked
    <3>3. ran'[d] + Cardinality(running'[d]) = 0
      BY <1>3, <3>2
    <3>4. QED
      BY <2>1, <3>3
  <2>2. CASE d \in withdrawn \/ d \notin withdrawn'
    BY <2>2 DEF HandlerOnce
  <2>3. QED
    BY <2>1, <2>2
<1>5. QED
  BY <1>1, <1>2, <1>4 DEF HandlerOnce

\* The one callback that takes a prompt out is the one that may run it.
LEMMA TakeConfirmKeeps ==
  ASSUME SlashAssumption, SlashInv, NEW u \in Click, NEW c \in Confirm, TakeConfirm(u, c)
  PROVE  SlashInv'
<1> USE DEF SlashInv, TakeConfirm
<1>1. SlashTypeOK'
  BY DEF SlashTypeOK
<1>2. Unclicked'
  BY DEF Unclicked, SlashTypeOK
<1>3. running'[c] \in {{}, {u}} /\ ran[c] = 0 /\ c \notin withdrawn
  BY DEF Unclicked, SlashTypeOK
<1>4. Cardinality(running'[c]) <= 1 /\ Cardinality(running'[c]) \in Nat
  <2>1. Cardinality({}) = 0 /\ Cardinality({u}) = 1
    BY FS_EmptySet, FS_Singleton, Zenon
  <2>2. QED
    BY <1>3, <2>1
<1>5. \A d \in Confirm \ {c} : running'[d] = running[d]
  BY DEF SlashTypeOK
<1>6. HandlerOnce'
  <2>1. ASSUME NEW d \in Confirm
        PROVE  ran'[d] + Cardinality(running'[d]) <= IF d \in withdrawn' THEN 0 ELSE 1
    <3>1. CASE d = c
      BY <1>3, <1>4, <3>1
    <3>2. CASE d # c
      BY <1>5, <3>2 DEF HandlerOnce
    <3>3. QED
      BY <3>1, <3>2
  <2>2. QED
    BY <2>1 DEF HandlerOnce
<1>7. QED
  BY <1>1, <1>2, <1>6

\* A run handler was about to run before.
LEMMA RunHandlerKeeps ==
  ASSUME SlashAssumption, SlashInv, NEW u \in Click, NEW c \in Confirm, RunHandler(u, c)
  PROVE  SlashInv'
<1> USE DEF SlashInv, RunHandler
<1>1. SlashTypeOK'
  BY DEF SlashTypeOK
<1>2. Unclicked'
  BY DEF Unclicked, SlashTypeOK
<1>3. Cardinality(running'[c]) = Cardinality(running[c]) - 1 /\ Cardinality(running[c]) \in Nat
  BY ClickCount DEF SlashTypeOK
<1>4. HandlerOnce'
  BY <1>3 DEF HandlerOnce, SlashTypeOK
<1>5. QED
  BY <1>1, <1>2, <1>4

LEMMA SlashInitHolds == SlashInit => SlashInv
<1>1. SUFFICES ASSUME SlashInit
               PROVE  SlashInv
  OBVIOUS
<1>2. SlashTypeOK /\ Unclicked
  BY <1>1 DEF SlashInit, SlashTypeOK, Unclicked
<1>3. HandlerOnce
  BY <1>1, FS_EmptySet DEF SlashInit, HandlerOnce
<1>4. QED
  BY <1>2, <1>3 DEF SlashInv

LEMMA SlashNextKeeps == SlashInv /\ [SlashNext]_slashVars => SlashInv'
<1>1. SUFFICES ASSUME SlashInv, [SlashNext]_slashVars
               PROVE  SlashInv'
  OBVIOUS
<1>2. ASSUME NEW c \in Confirm, Ask(c)
      PROVE  SlashInv'
  BY <1>1, <1>2, SlashAssumption, AskKeeps
<1>3. ASSUME NEW k \in Room, Clear(k) \/ ClearIfStale(k)
      PROVE  SlashInv'
  BY <1>1, <1>3, SlashAssumption, WithdrawKeeps DEF Clear, ClearIfStale
<1>4. ASSUME NEW u \in Click, NEW c \in Confirm, TakeConfirm(u, c) \/ RunHandler(u, c)
      PROVE  SlashInv'
  BY <1>1, <1>4, SlashAssumption, TakeConfirmKeeps, RunHandlerKeeps
<1>5. CASE Second
  BY <1>1, <1>5 DEF SlashInv, Second, SlashTypeOK, Unclicked, HandlerOnce
<1>6. CASE UNCHANGED slashVars
  BY <1>1, <1>6 DEF SlashInv, slashVars, SlashTypeOK, Unclicked, HandlerOnce
<1>7. QED
  BY <1>1, <1>2, <1>3, <1>4, <1>5, <1>6 DEF SlashNext

\* The invariant holds in every reachable state.
THEOREM SlashInvariant == SlashSpec => []SlashInv
BY SlashInitHolds, SlashNextKeeps, PTL DEF SlashSpec

\* A handler runs once at most, and never for a withdrawn prompt.
THEOREM HandlersRunOnce == SlashSpec => []HandlerOnce
<1>1. SlashInv => HandlerOnce
  BY DEF SlashInv
<1>2. QED
  BY <1>1, SlashInvariant, PTL

-----------------------------------------------------------------------------
(* The services together *)

\* The components side by side, their steps in any order.
TogetherSpec ==
  /\ ApprovalInit /\ [][ApprovalNext]_approvalVars
  /\ ClarifySpec /\ SlashSpec /\ FileSpec /\ McpSpec

\* What the invariants of the components say.
Promises ==
  /\ Consented /\ OnceForOne /\ KeysEarned /\ Answerable
  /\ AcceptedIsReturned /\ PromptFindable
  /\ HandlerOnce
  /\ PathExclusive /\ ClobberWarned /\ SomeoneMoves /\ StubIsCurrent
  /\ FlapperParks /\ RequestsKept

\* To look at one component at a time, as MCServices does, is one of these orders:
\* a step of it is a step, or a stutter, of each.
THEOREM OneAtATime == ServicesSpec => TogetherSpec
<1>1. ServicesInit => ApprovalInit /\ ClarifyInit /\ SlashInit /\ FileInit /\ McpInit
  BY DEF ServicesInit
<1>2. [ServicesNext]_servicesVars =>
        /\ [ApprovalNext]_approvalVars /\ [ClarifyNext]_clarifyVars
        /\ [SlashNext]_slashVars /\ [FileNext]_fileVars /\ [McpNext]_mcpVars
  BY DEF ServicesNext, servicesVars
<1> QED
  BY <1>1, <1>2, PTL DEF ServicesSpec, TogetherSpec, ClarifySpec, SlashSpec, FileSpec, McpSpec

\* The approval queue owes its safety to no fairness.
LEMMA ApprovalSafe == TogetherSpec => [](ApprovalTypeOK /\ ApprovalInv)
<1>1. ApprovalInit => ApprovalTypeOK /\ ApprovalInv
  BY ApprovalAssumption, InitHolds
<1>2. (ApprovalTypeOK /\ ApprovalInv) /\ [ApprovalNext]_approvalVars
      => (ApprovalTypeOK /\ ApprovalInv)'
  BY ApprovalAssumption, NextKeeps
<1> QED BY <1>1, <1>2, PTL DEF TogetherSpec

\* Every variable of every component keeps its type.
THEOREM ServicesTyped == ServicesSpec => []ServicesTypeOK
<1>1. TogetherSpec => [](ApprovalTypeOK /\ SlashInv /\ FileTypeOK /\ McpTypeOK)
  BY ApprovalSafe, SlashInvariant, FileTyped, McpTyped, PTL DEF TogetherSpec
<1>2. ClarifySpec => []ClarifyTypeOK
  <2>1. ClarifyInv /\ ClarifyInv' /\ OrderOK /\ [ClarifyNext]_clarifyVars => OrderOK'
    BY OrderStep
  <2> QED BY <2>1, OrderInit, ClarifyInvariant, ClarifyTypes, PTL DEF ClarifySpec
<1>3. ApprovalTypeOK /\ SlashInv /\ FileTypeOK /\ McpTypeOK /\ ClarifyTypeOK => ServicesTypeOK
  BY DEF SlashInv, ServicesTypeOK
<1> QED BY <1>1, <1>2, <1>3, OneAtATime, PTL DEF TogetherSpec

\* What is proved of the components one by one holds of them side by side, and so of
\* one at a time: in no order of their steps does one break what another promises.
THEOREM PromisesHold == TogetherSpec => []Promises
<1>1. ApprovalTypeOK /\ ApprovalInv => Consented /\ OnceForOne /\ KeysEarned /\ Answerable
  BY DEF ApprovalInv, GrantOK, Consented, Identical, OnceForOne, KeysOK, Granting, Always,
         KeysEarned, ReachOK, Answerable
<1>2. ClarifySpec /\ SlashSpec => [](AcceptedIsReturned /\ PromptFindable /\ HandlerOnce)
  BY RepliesAreReturned, PromptsAreFindable, HandlersRunOnce, PTL
<1>3. FileSpec => [](PathExclusive /\ ClobberWarned /\ SomeoneMoves /\ StubIsCurrent)
  BY PathsAreExclusive, ClobbersAreWarned, LocksNeverStand, StubsAreCurrent, PTL
<1>4. McpSpec => [](FlapperParks /\ RequestsKept)
  BY FlappersPark, RequestsAreKept, PTL
<1>5. (/\ Consented /\ OnceForOne /\ KeysEarned /\ Answerable
       /\ AcceptedIsReturned /\ PromptFindable /\ HandlerOnce
       /\ PathExclusive /\ ClobberWarned /\ SomeoneMoves /\ StubIsCurrent
       /\ FlapperParks /\ RequestsKept)
      => Promises
  BY DEF Promises
<1> QED BY <1>1, <1>2, <1>3, <1>4, <1>5, ApprovalSafe, PTL DEF TogetherSpec

=============================================================================
