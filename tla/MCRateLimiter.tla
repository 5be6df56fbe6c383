--------------------------- MODULE MCRateLimiter ---------------------------
(***************************************************************************)
(* RateLimiter with a history of its last window's worth of ticks.         *)
(***************************************************************************)
EXTENDS RateLimiter

VARIABLE lately   \* lately[a]: calls let through by an INCR since a ticks ago

LetThrough == IF used' > used THEN used' - used ELSE 0

HistoryInit == Init /\ lately = [a \in 0 .. WindowSeconds - 1 |-> 0]

\* Ticks without an expiring key pass too: they only age the history.
HistoryTick ==
  /\ \/ Tick
     \/ (window # NoKey => window.ttl = NoExpiry) /\ UNCHANGED vars
  /\ lately' = [a \in DOMAIN lately |-> IF a = 0 THEN 0 ELSE lately[a - 1]]

HistoryNext ==
  \/ /\ \E c \in Caller : SetWindow(c) \/ Continue(c) \/ Abort(c)
     /\ lately' = [a \in DOMAIN lately |-> lately[a] + LetThrough]
  \/ HistoryTick

historyVars == <<vars, lately>>
HistorySpec == HistoryInit /\ [][HistoryNext]_historyVars /\ Fairness

\* What a fixed window amounts to for its users: any WindowSeconds in a row
\* meet at most two keys, so at most twice MaxRequests calls get through.  No
\* key may live for less than the window, however its expiry was set.
SlidingBudget == lately[WindowSeconds - 1] <= 2 * MaxRequests
=============================================================================
