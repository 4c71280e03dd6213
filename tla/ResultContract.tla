---------------------------- MODULE ResultContract ----------------------------
(***************************************************************************)
(* What background delegation promises of the result of a unit it took on. *)
(*                                                                         *)
(* The result falls due, a conversation takes it, is given it, and settles *)
(* for it; one that gives it back leaves it due, or dropped.  A crash      *)
(* between giving and settling leaves the result in doubt and it falls due *)
(* again: only then is it given more than once.  A unit is forgotten only  *)
(* to make room for one that is taken on, those that are settled first and *)
(* the others no further than the cap; one that is promised to its caller  *)
(* is never withdrawn.                                                     *)
(***************************************************************************)
EXTENDS Naturals, FiniteSets

CONSTANTS
  Unit,
  Cap        \* how many results that are no longer worked for are kept

VARIABLES
  stage,     \* stage[u]: where the result of u stands
  given,     \* given[u]: how often it was given to a conversation
  promised,  \* units whose caller was told that their result will come
  crashes

Kept == {"due", "taken", "doubt", "settled", "dropped"}
Finished == {u \in Unit : stage[u] \in Kept}

Init ==
  /\ stage = [u \in Unit |-> "new"] /\ given = [u \in Unit |-> 0]
  /\ promised = {} /\ crashes = 0

\* Who has forgotten may still have the result on its way (adrift).
Forget(F, late, u) ==
  IF u \in late THEN "adrift" ELSE IF u \in F THEN "forgotten" ELSE stage[u]

\* A unit is taken on, and those in F are forgotten for it.
Accept(u) ==
  /\ stage[u] = "new" /\ given[u] = 0
  /\ \E F \in SUBSET Finished : \E late \in SUBSET F :
        /\ \/ \A v \in F : stage[v] = "settled"
           \/ /\ Cardinality(Finished \ F) = Cap
              /\ \A v \in Finished \ F : stage[v] # "settled"
        /\ \A v \in late : stage[v] \in {"due", "taken", "dropped"}
        /\ stage' = [v \in Unit |-> IF v = u THEN "working" ELSE Forget(F, late, v)]
  /\ UNCHANGED <<given, promised, crashes>>

Promise(u) ==
  /\ stage[u] # "new"
  /\ promised' = promised \cup {u}
  /\ UNCHANGED <<stage, given, crashes>>

Withdraw(u) ==
  /\ stage[u] = "working" /\ u \notin promised
  /\ stage' = [stage EXCEPT ![u] = "new"]
  /\ UNCHANGED <<given, promised, crashes>>

Moves(u, from, to) ==
  /\ stage[u] = from /\ stage' = [stage EXCEPT ![u] = to]
  /\ UNCHANGED <<promised, crashes>>

Finish(u) == Moves(u, "working", "due") /\ UNCHANGED given
Take(u)   == Moves(u, "due", "taken") /\ UNCHANGED given
Give(u) ==
  /\ Moves(u, "taken", "doubt") \/ Moves(u, "adrift", "forgotten")
  /\ given' = [given EXCEPT ![u] = @ + 1]
Settle(u) == Moves(u, "doubt", "settled") /\ UNCHANGED given

\* Taken, and not given after all.
Return(u) ==
  /\ Moves(u, "taken", "due") \/ Moves(u, "taken", "dropped") \/ Moves(u, "adrift", "forgotten")
  /\ UNCHANGED given

\* What was worked for has an outcome now, if an unknown one; results that nobody
\* waits for any more are dropped.
Crash ==
  /\ crashes' = crashes + 1
  /\ \E old \in SUBSET {u \in Unit : stage[u] \in {"due", "taken", "doubt"}} :
        stage' = [u \in Unit |->
                    IF u \in old THEN "dropped"
                    ELSE IF stage[u] \in {"working", "due", "taken", "doubt"} THEN "due"
                    ELSE IF stage[u] = "adrift" THEN "forgotten" ELSE stage[u]]
  /\ UNCHANGED <<given, promised>>

Next ==
  \/ \E u \in Unit :
        \/ Accept(u) \/ Promise(u) \/ Withdraw(u)
        \/ Finish(u) \/ Take(u) \/ Give(u) \/ Settle(u) \/ Return(u)
  \/ Crash

Spec == Init /\ [][Next]_<<stage, given, promised, crashes>>
=============================================================================
