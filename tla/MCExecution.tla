------------------------------ MODULE MCExecution ------------------------------
(* What executes for the agents and reports to them: delegated units and the    *)
(* delivery of their results, kernels that keep the state of executed code, the *)
(* files of a remote sandbox, and watch notifications of processes.  They share *)
(* no variable, so a behaviour of all of them is one of each, interleaved; the  *)
(* steps of one at a time reach every state of that one, and each property is   *)
(* about one.                                                                   *)
EXTENDS MCAsyncDelegation, DelegationDelivery, CodeKernel, FileSync, WatchLimiter

CONSTANTS d1, p1, p2, x1, x2, b1, b2, y1, y2, s1, s2

RanByOne     == [d \in Item |-> p1]
OneOwnerEach == [k \in KernelKey |-> k]

VARIABLE part   \* the component whose steps are taken

executionVars == <<part, vars, deliveryVars, kernelVars, syncVars, watchVars>>

ExecutionInit ==
  /\ part \in {"delegation", "delivery", "kernel", "sync", "watch"}
  /\ Init /\ DeliveryInit /\ KernelInit /\ SyncInit /\ WatchInit
  /\ part # "sync" => OnHost = {} /\ sandbox = Nothing

ExecutionNext ==
  /\ UNCHANGED part
  /\ \/ /\ part = "delegation" /\ Next
        /\ UNCHANGED <<deliveryVars, kernelVars, syncVars, watchVars>>
     \/ /\ part = "delivery" /\ DeliveryNext
        /\ UNCHANGED <<vars, kernelVars, syncVars, watchVars>>
     \/ /\ part = "kernel" /\ KernelNext
        /\ UNCHANGED <<vars, deliveryVars, syncVars, watchVars>>
     \/ /\ part = "sync" /\ SyncNext
        /\ UNCHANGED <<vars, deliveryVars, kernelVars, watchVars>>
     \/ /\ part = "watch" /\ WatchNext
        /\ UNCHANGED <<vars, deliveryVars, kernelVars, syncVars>>

ExecutionSpec == ExecutionInit /\ [][ExecutionNext]_executionVars
=============================================================================
