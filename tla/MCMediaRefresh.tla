--------------------------- MODULE MCMediaRefresh ---------------------------
(***************************************************************************)
(* MediaRefresh with a history of the attempts of the last DedupTtl ticks. *)
(***************************************************************************)
EXTENDS MediaRefresh

VARIABLE lately   \* lately[a]: attempts begun since a ticks ago

HistoryInit == Init /\ lately = [a \in 0 .. DedupTtl - 1 |-> 0]

HistoryNext ==
  \/ Begin /\ lately' = [a \in DOMAIN lately |-> lately[a] + 1]
  \/ Proceed /\ UNCHANGED lately
  \/ Tick /\ lately' = [a \in DOMAIN lately |-> IF a = 0 THEN 0 ELSE lately[a - 1]]

historyVars == <<vars, lately>>
HistorySpec == HistoryInit /\ [][HistoryNext]_historyVars /\ Fairness

\* However many lookups find the record stale and however many of their adds
\* fail, any DedupTtl ticks in a row see one job's worth of attempts on it, and
\* one more for each worker that has died: the id of a job that has ended stays
\* taken that long.
RefreshBudget == lately[DedupTtl - 1] <= JobAttempts + crashes
=============================================================================
