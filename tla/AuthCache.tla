----------------------------- MODULE AuthCache -----------------------------
(***************************************************************************)
(* HttpAuthValidationAdapter.validateToken for one token: any number of    *)
(* concurrent calls, the context cached in Redis, and the auth service,    *)
(* which is asked only on a miss.  A cached context is not looked at again *)
(* until Redis drops it; all that keeps it from outliving its token is the *)
(* TTL it is stored with, in whole seconds.                                *)
(*                                                                         *)
(* Time is in ticks, of which a second has several.  The service's verdict *)
(* and its arrival are two steps, between which the token may expire or be *)
(* revoked.                                                                *)
(***************************************************************************)
EXTENDS Integers

CONSTANTS Caller,           \* calls of validateToken that may run together
          TicksPerSecond,
          CacheTtlSeconds,  \* AUTH_CACHE_TTL_SECONDS
          AuthTimeout,      \* AUTH_TIMEOUT_MS, in ticks
          MaxLife,          \* bound: ticks to the token's expiry at the start
          MaxFaults,        \* bound: Redis commands that fail
          RedisPrompt,      \* whether Redis executes a command within the tick
          NoEntry, Never

ASSUME AuthAssumption ==
  /\ {TicksPerSecond, CacheTtlSeconds, AuthTimeout, MaxLife} \subseteq Nat \ {0}
  /\ MaxFaults \in Nat
  /\ RedisPrompt \in BOOLEAN
  /\ Never \notin Nat
  /\ NoEntry \notin [readable : BOOLEAN, ttl : Nat]

VARIABLES
  entry,       \* the Redis key of the token: a context the code can parse or not
  life,        \* ticks to the expiresAt of the token, 0 when it has passed
  revokedFor,  \* ticks since the service has revoked the token, or Never
  pc,          \* the await each call is in, or how it ended
  verdict,     \* the service's answer to each call, on its way
  elapsed,     \* ticks each call has been asking the service
  ttl,         \* the seconds each call is about to store the context for
  faults

vars == <<entry, life, revokedFor, pc, verdict, elapsed, ttl, faults>>

CacheTtl == CacheTtlSeconds * TicksPerSecond
Latest == CacheTtl + AuthTimeout
Verdicts == {"valid", "unauthenticated", "forbidden", "unavailable"}
Ended == {"idle", "admitted", "unauthenticated", "forbidden", "unavailable", "error"}

\* No call waits longer than its timer, and nothing is stored longer than
\* AUTH_CACHE_TTL_SECONDS.
TypeOK ==
  /\ entry \in {NoEntry} \cup [readable : BOOLEAN, ttl : 1 .. CacheTtl]
  /\ life \in 0 .. MaxLife
  /\ revokedFor \in {Never} \cup 0 .. Latest + 1
  /\ pc \in [Caller -> Ended \cup {"get", "del", "fetch", "setex"}]
  /\ verdict \in [Caller -> Verdicts \cup {"none"}]
  /\ elapsed \in [Caller -> 0 .. AuthTimeout]
  /\ ttl \in [Caller -> 0 .. CacheTtlSeconds]
  /\ faults \in 0 .. MaxFaults

\* An unreadable context may be there from an earlier version of the program.
Init ==
  /\ entry \in {NoEntry} \cup [readable : {FALSE}, ttl : 1 .. CacheTtl]
  /\ life \in 1 .. MaxLife
  /\ revokedFor = Never
  /\ pc = [c \in Caller |-> "idle"]
  /\ verdict = [c \in Caller |-> "none"]
  /\ elapsed = [c \in Caller |-> 0]
  /\ ttl = [c \in Caller |-> 0]
  /\ faults = 0

Lower(m, n) == IF m < n THEN m ELSE n
Goto(c, label) == pc' = [pc EXCEPT ![c] = label]
Valid == life > 0 /\ revokedFor = Never

\* A slip: the expiry alone decides, however far off it is.
BuildCacheTtlUncapped == life \div TicksPerSecond

\* A slip: the seconds to the expiry are rounded up.
BuildCacheTtlRoundedUp ==
  Lower((life + TicksPerSecond - 1) \div TicksPerSecond, CacheTtlSeconds)

\* buildCacheTtl: whole seconds to the expiry, none if it has passed.
BuildCacheTtl == Lower(life \div TicksPerSecond, CacheTtlSeconds)

-----------------------------------------------------------------------------
ValidateToken(c) ==
  /\ pc[c] \in Ended
  /\ Goto(c, "get")
  /\ UNCHANGED <<entry, life, revokedFor, verdict, elapsed, ttl, faults>>

Ask(c) ==
  /\ Goto(c, "fetch")
  /\ elapsed' = [elapsed EXCEPT ![c] = 0]
  /\ verdict' = [verdict EXCEPT ![c] = "none"]

\* A slip: a hit keeps the context for another while.
ReadCacheRenewing(c) ==
  /\ pc[c] = "get"
  /\ \/ /\ entry # NoEntry /\ entry.readable
        /\ Goto(c, "admitted")
        /\ entry' = [entry EXCEPT !.ttl = CacheTtl]
        /\ UNCHANGED <<verdict, elapsed>>
     \/ /\ entry # NoEntry /\ ~ entry.readable
        /\ Goto(c, "del")
        /\ UNCHANGED <<entry, verdict, elapsed>>
     \/ entry = NoEntry /\ Ask(c) /\ UNCHANGED entry
  /\ UNCHANGED <<life, revokedFor, ttl, faults>>

ReadCache(c) ==
  /\ pc[c] = "get"
  /\ \/ entry # NoEntry /\ entry.readable /\ Goto(c, "admitted") /\ UNCHANGED <<verdict, elapsed>>
     \/ entry # NoEntry /\ ~ entry.readable /\ Goto(c, "del") /\ UNCHANGED <<verdict, elapsed>>
     \/ entry = NoEntry /\ Ask(c)
  /\ UNCHANGED <<entry, life, revokedFor, ttl, faults>>

\* The context that could not be parsed is deleted, or one stored meanwhile is.
Evict(c) ==
  /\ pc[c] = "del"
  /\ entry' = NoEntry
  /\ Ask(c)
  /\ UNCHANGED <<life, revokedFor, ttl, faults>>

\* The service answers: 200 only for a valid token; any other status whenever it likes.
ServiceDecides(c) ==
  /\ pc[c] = "fetch"
  /\ verdict[c] = "none"
  /\ \E status \in Verdicts :
       /\ status = "valid" => Valid
       /\ verdict' = [verdict EXCEPT ![c] = status]
  /\ UNCHANGED <<entry, life, revokedFor, pc, elapsed, ttl, faults>>

ResponseArrives(c) ==
  /\ pc[c] = "fetch"
  /\ verdict[c] # "none"
  /\ IF verdict[c] = "valid"
     THEN /\ ttl' = [ttl EXCEPT ![c] = BuildCacheTtl]
          /\ Goto(c, IF BuildCacheTtl > 0 THEN "setex" ELSE "admitted")
     ELSE Goto(c, verdict[c]) /\ UNCHANGED ttl
  /\ elapsed' = [elapsed EXCEPT ![c] = 0]
  /\ verdict' = [verdict EXCEPT ![c] = "none"]
  /\ UNCHANGED <<entry, life, revokedFor, faults>>

\* The fetch fails, its body is not a context, or it is aborted at the timeout.
FetchFails(c) ==
  /\ pc[c] = "fetch"
  /\ Goto(c, "unavailable")
  /\ elapsed' = [elapsed EXCEPT ![c] = 0]
  /\ verdict' = [verdict EXCEPT ![c] = "none"]
  /\ UNCHANGED <<entry, life, revokedFor, ttl, faults>>

Stored(c) == [readable |-> TRUE, ttl |-> ttl[c] * TicksPerSecond]

SetEx(c) ==
  /\ pc[c] = "setex"
  /\ entry' = Stored(c)
  /\ ttl' = [ttl EXCEPT ![c] = 0]
  /\ Goto(c, "admitted")
  /\ UNCHANGED <<life, revokedFor, verdict, elapsed, faults>>

\* A command throws, executed or not.  Only the SETEX is inside the try; its failure
\* refuses a token that the service has just found valid.
RedisFails(c) ==
  /\ faults < MaxFaults
  /\ faults' = faults + 1
  /\ \/ pc[c] = "get" /\ Goto(c, "error") /\ UNCHANGED entry
     \/ pc[c] = "del" /\ Goto(c, "error") /\ entry' \in {entry, NoEntry}
     \/ pc[c] = "setex" /\ Goto(c, "unavailable") /\ entry' \in {entry, Stored(c)}
  /\ ttl' = [ttl EXCEPT ![c] = 0]
  /\ UNCHANGED <<life, revokedFor, verdict, elapsed>>

-----------------------------------------------------------------------------
\* External: the service takes the token back.
Revoke ==
  /\ revokedFor = Never
  /\ revokedFor' = 0
  /\ UNCHANGED <<entry, life, pc, verdict, elapsed, ttl, faults>>

Ages(t) == IF t = 0 THEN 0 ELSE t - 1

Pass ==
  /\ entry' = IF entry = NoEntry \/ entry.ttl = 1 THEN NoEntry
                                                  ELSE [entry EXCEPT !.ttl = @ - 1]
  /\ life' = Ages(life)
  /\ revokedFor' = IF revokedFor = Never THEN Never ELSE Lower(revokedFor + 1, Latest + 1)
  /\ UNCHANGED <<pc, verdict, ttl, faults>>

\* A slip: a fetch that is never aborted.
TickUnaborted ==
  /\ RedisPrompt => \A c \in Caller : pc[c] \notin {"get", "del", "setex"}
  /\ Pass
  /\ UNCHANGED elapsed

\* Time passes: Redis drops the context when its TTL is over, a fetch is aborted.
Tick ==
  /\ RedisPrompt => \A c \in Caller : pc[c] \notin {"get", "del", "setex"}
  /\ \A c \in Caller : pc[c] = "fetch" => elapsed[c] < AuthTimeout
  /\ Pass
  /\ elapsed' = [c \in Caller |-> IF pc[c] = "fetch" THEN elapsed[c] + 1 ELSE 0]

\* The timer's abort.
Abort(c) == elapsed[c] = AuthTimeout /\ FetchFails(c)

Next ==
  \/ \E c \in Caller : \/ ValidateToken(c) \/ ReadCache(c) \/ Evict(c)
                       \/ ServiceDecides(c) \/ ResponseArrives(c) \/ FetchFails(c)
                       \/ SetEx(c) \/ RedisFails(c)
  \/ Revoke
  \/ Tick

\* Redis executes or fails what it is sent, the timer aborts a fetch, and time passes.
\* That the service answers is not supposed.
Fairness ==
  /\ \A c \in Caller : /\ WF_vars(ReadCache(c)) /\ WF_vars(Evict(c)) /\ WF_vars(SetEx(c))
                       /\ WF_vars(Abort(c))
  /\ SF_vars(Tick)

Spec == Init /\ [][Next]_vars /\ Fairness

-----------------------------------------------------------------------------
\* "Token cache TTL never exceeds upstream token expiry"
\* (.ai/16-integration-rules.md:27): if Redis is prompt, the
\* context is gone by the time the token expires, to the tick; whatever a hit finds,
\* its token has not expired, though the code never looks at its expiresAt.
NoHitAfterExpiry == entry # NoEntry /\ entry.readable => entry.ttl <= life

\* A revoked token is let in for AUTH_CACHE_TTL_SECONDS and one AUTH_TIMEOUT_MS at
\* the most, however its calls overlap: a late verdict may store the context after
\* the revocation, but a context that is stored is never renewed.
RevocationTakesHold ==
  [][\A c \in Caller :
       pc[c] # "admitted" /\ pc'[c] = "admitted" /\ revokedFor # Never
         => revokedFor <= Latest]_vars

\* No call waits for the auth service for ever.
CallsEnd == \A c \in Caller : pc[c] = "get" ~> pc[c] \in Ended
=============================================================================
