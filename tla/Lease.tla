------------------------------- MODULE Lease -------------------------------
(***************************************************************************)
(* What the callers of the lookup coordinator suppose of it: a lease that  *)
(* is nobody's or one caller's, is only ever taken when it is nobody's,    *)
(* and does not stay with whoever has it.  LookupCoordinator implements it *)
(* with a Redis key, a token and clocks.                                   *)
(***************************************************************************)
CONSTANT Caller

VARIABLE holders   \* who may act as if alone: a set, so that two is a state too

Init == holders = {}

Take(c) == holders = {} /\ holders' = {c}

\* Given back, run out, or forgotten by a caller that failed.
GiveUp == holders # {} /\ holders' = {}

Next == GiveUp \/ \E c \in Caller : Take(c)

Exclusive == Init /\ [][Next]_holders

Spec == Exclusive /\ WF_holders(GiveUp)
=============================================================================
