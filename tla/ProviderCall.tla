---------------------------- MODULE ProviderCall ----------------------------
(***************************************************************************)
(* What the lookup, the refresh and the warmup suppose of a metadata       *)
(* provider: one call at a time, as far as one of them is concerned, that  *)
(* ends within a known time with a find, without one, or with an error.    *)
(* MediaLookup's ProviderAnswers and ProviderTimeout are this; Providers   *)
(* implements it with exchanges, timers and two providers.                 *)
(***************************************************************************)
EXTENDS Naturals

CONSTANT Within   \* ticks a call may take

VARIABLES result,   \* of the call in progress, or of the last one
          left      \* ticks the call in progress may still take

vars == <<result, left>>

Init == result = "idle" /\ left = 0

Begin ==
  /\ result # "running"
  /\ result' = "running"
  /\ left' = Within

Answer ==
  /\ result = "running"
  /\ result' \in {"found", "notFound", "failed"}
  /\ left' = 0

Wait ==
  /\ result = "running"
  /\ left > 0
  /\ left' = left - 1
  /\ UNCHANGED result

Next == Begin \/ Answer \/ Wait

InTime == Init /\ [][Next]_vars

Spec == InTime /\ WF_vars(Answer)
=============================================================================
