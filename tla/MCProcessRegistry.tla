-------------------------- MODULE MCProcessRegistry --------------------------
(* Instances of ProcessRegistry for model checking. *)
EXTENDS ProcessRegistry

CONSTANTS s1, s2, t1, t2

AllLocal    == [s \in Session |-> "local"]
SandboxThenAdopted == [s \in Session |-> IF s = s1 THEN "sandbox" ELSE "adopted"]
=============================================================================
