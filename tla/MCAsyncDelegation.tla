------------------------- MODULE MCAsyncDelegation -------------------------
(* Instances of AsyncDelegation for TLC. *)
EXTENDS AsyncDelegation, TLC

CONSTANTS u1, u2, u3, c1, c2

\* One call that is split into two units, and one of a single unit.
SplitAndSingle == c1 :> <<u1, u2>> @@ c2 :> <<u3>>
\* Two calls of one unit each.
TwoSingles == c1 :> <<u1>> @@ c2 :> <<u2>>
=============================================================================
