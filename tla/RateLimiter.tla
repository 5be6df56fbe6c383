---------------------------- MODULE RateLimiter ----------------------------
(***************************************************************************)
(* RedisRateLimiter.consume for one (tenant, principal, route): the fixed  *)
(* window kept in one Redis key that every API process increments.  SET NX,*)
(* INCR, TTL and EXPIRE are separate commands: the key may expire, and     *)
(* other calls may run, between any two of them.                           *)
(***************************************************************************)
EXTENDS Integers

CONSTANTS Caller,         \* calls of consume that may be in progress together
          MaxRequests,    \* RATE_LIMIT_MAX_REQUESTS
          WindowSeconds,  \* RATE_LIMIT_WINDOW_SECONDS, one tick a second
          MaxAborts,      \* bound: commands that fail and callers that die
          NoKey,          \* the window key is absent
          NoExpiry        \* the ttl of a key that has none

ASSUME RateAssumption ==
  /\ MaxRequests \in Nat \ {0}
  /\ WindowSeconds \in Nat \ {0}
  /\ MaxAborts \in Nat
  /\ NoExpiry \notin Nat
  /\ NoKey \notin [count : Nat, ttl : Nat \cup {NoExpiry}]

VARIABLES
  window,  \* the Redis key: its count and its ttl
  pc,      \* the command each caller sends next, or how its call ended
  reply,   \* what INCR answered each caller
  used,    \* calls that the present key has let through
  aborts

vars == <<window, pc, reply, used, aborts>>

\* Counts above the limit are all alike to the code: Bump stops there.
Counts == 0 .. MaxRequests + 1
Bump(n) == IF n > MaxRequests THEN n ELSE n + 1
Ended == {"idle", "admitted", "rejected", "aborted"}

TypeOK ==
  /\ window \in {NoKey} \cup [count : Counts, ttl : (1 .. WindowSeconds) \cup {NoExpiry}]
  /\ pc \in [Caller -> Ended \cup {"incr", "ttl", "expire"}]
  /\ reply \in [Caller -> Counts]
  /\ used \in Nat
  /\ aborts \in 0 .. MaxAborts

Init ==
  /\ window = NoKey
  /\ pc = [c \in Caller |-> "idle"]
  /\ reply = [c \in Caller |-> 0]
  /\ used = 0
  /\ aborts = 0

Goto(c, label) == pc' = [pc EXCEPT ![c] = label]

-----------------------------------------------------------------------------
\* Slips the code could have made; no action uses them.
AllowedOneMore(count) == count <= MaxRequests + 1
OpenedWithoutNX == [count |-> 0, ttl |-> WindowSeconds]
\* The Redis commands, as what they make of the key.
Opened == IF window = NoKey THEN [count |-> 0, ttl |-> WindowSeconds] ELSE window
Incremented ==
  IF window = NoKey THEN [count |-> 1, ttl |-> NoExpiry]
                    ELSE [window EXCEPT !.count = Bump(@)]
Extended == IF window = NoKey THEN NoKey ELSE [window EXCEPT !.ttl = WindowSeconds]

Allowed(count) == count <= MaxRequests
Conclude(c) == Goto(c, IF Allowed(reply[c]) THEN "admitted" ELSE "rejected")

-----------------------------------------------------------------------------
SetWindow(c) ==
  /\ pc[c] \in Ended
  /\ window' = Opened
  /\ Goto(c, "incr")
  /\ reply' = [reply EXCEPT ![c] = 0]
  /\ UNCHANGED <<used, aborts>>

Increment(c) ==
  /\ pc[c] = "incr"
  /\ window' = Incremented
  /\ reply' = [reply EXCEPT ![c] = Incremented.count]
  /\ used' = IF Allowed(Incremented.count) THEN used + 1 ELSE used
  /\ Goto(c, "ttl")
  /\ UNCHANGED aborts

\* A slip: a key whose ttl is -1 is taken to have one.
ReadTtlMissing(c) ==
  /\ pc[c] = "ttl"
  /\ IF window = NoKey THEN Goto(c, "expire") ELSE Conclude(c)
  /\ UNCHANGED <<window, reply, used, aborts>>

\* TTL answers -2 for no key and -1 for a key without expiry.
ReadTtl(c) ==
  /\ pc[c] = "ttl"
  /\ IF window = NoKey \/ window.ttl = NoExpiry THEN Goto(c, "expire") ELSE Conclude(c)
  /\ UNCHANGED <<window, reply, used, aborts>>

SetExpiry(c) ==
  /\ pc[c] = "expire"
  /\ window' = Extended
  /\ Conclude(c)
  /\ UNCHANGED <<reply, used, aborts>>

\* The command a caller has sent fails, or its process dies: the call ends in
\* an error, and Redis may or may not have executed the command.
Abort(c) ==
  /\ aborts < MaxAborts
  /\ aborts' = aborts + 1
  /\ \/ pc[c] \notin Ended /\ UNCHANGED window
     \/ pc[c] \in Ended /\ window' = Opened
     \/ pc[c] = "incr" /\ window' = Incremented
     \/ pc[c] = "expire" /\ window' = Extended
  /\ Goto(c, "aborted")
  /\ reply' = [reply EXCEPT ![c] = 0]
  /\ UNCHANGED used

\* A second passes: Redis drops the key when its ttl has run out.
Tick ==
  /\ window # NoKey /\ window.ttl # NoExpiry
  /\ IF window.ttl = 1 THEN window' = NoKey /\ used' = 0
                       ELSE window' = [window EXCEPT !.ttl = @ - 1] /\ UNCHANGED used
  /\ UNCHANGED <<pc, reply, aborts>>

Continue(c) == Increment(c) \/ ReadTtl(c) \/ SetExpiry(c)

Next ==
  \/ \E c \in Caller : SetWindow(c) \/ Continue(c) \/ Abort(c)
  \/ Tick

\* Commands are answered and time passes; calls need not arrive.
Fairness == (\A c \in Caller : WF_vars(Continue(c))) /\ SF_vars(Tick)

Spec == Init /\ [][Next]_vars /\ Fairness

-----------------------------------------------------------------------------
\* "rejects requests beyond the configured limit"
\* (tests/adapters/redis-rate-limiter.test.ts:32): however the calls
\* interleave, one window key lets through at most MaxRequests of them.
WindowBudget == used <= MaxRequests

\* An INCR that recreated an expired key leaves it without an expiry; whoever
\* sent it, or somebody else, is then about to set one, unless a call failed.
ImmortalKeyIsRepaired ==
  (window # NoKey /\ window.ttl = NoExpiry) =>
    (\E c \in Caller : pc[c] \in {"ttl", "expire"}) \/ aborts > 0

\* As long as calls keep arriving the window keeps reopening: no key, full or
\* left without an expiry by a failed call, locks a principal out for good.
WindowReopens ==
  ([]<>(\E c \in Caller : pc[c] = "incr")) => []<>(window = NoKey)
=============================================================================
