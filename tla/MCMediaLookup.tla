--------------------------- MODULE MCMediaLookup ---------------------------
EXTENDS MediaLookup, TLC

\* Requests are interchangeable; used without liveness.
Callers == Permutations(Request)
=============================================================================
