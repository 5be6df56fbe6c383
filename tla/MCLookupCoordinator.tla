------------------------ MODULE MCLookupCoordinator ------------------------
EXTENDS LookupCoordinator, TLC

\* The callers are interchangeable; used by the safety runs only.
Callers == Permutations(Request)
=============================================================================
