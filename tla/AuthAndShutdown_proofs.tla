---------------------- MODULE AuthAndShutdown_proofs ----------------------
(***************************************************************************)
(* The two ends of a process's work.  A token: for any number of calls and *)
(* any TTL, the cached context keeps its type and, if Redis executes a     *)
(* command within a tick, neither outlives its token nor a revocation by   *)
(* more than the TTL and a timeout.  The last signal: for any number of    *)
(* tasks and signals the process is gone in time, and what its exit says   *)
(* is so.                                                                  *)
(***************************************************************************)
EXTENDS AuthCache, Shutdown, TLAPS

-----------------------------------------------------------------------------
\* AuthCache.

\* A call that is about to store the context has something to store it for.
SetexHasTtl == \A c \in Caller : pc[c] = "setex" => ttl[c] > 0

AuthTypeInv == TypeOK /\ SetexHasTtl

\* What is stored, or about to be, does not outlive the token.
WithinExpiry ==
  /\ NoHitAfterExpiry
  /\ \A c \in Caller : pc[c] = "setex" => ttl[c] * TicksPerSecond <= life

\* What a revoked token can still live on: a context stored with some time to go, a
\* verdict on its way since before the revocation, or one that just arrived.
RevocationCatchesUp ==
  revokedFor # Never =>
    /\ entry # NoEntry /\ entry.readable => entry.ttl + revokedFor <= Latest
    /\ \A c \in Caller :
         /\ pc[c] = "fetch" /\ verdict[c] = "valid" => revokedFor <= elapsed[c]
         /\ pc[c] = "setex" => revokedFor <= AuthTimeout

-----------------------------------------------------------------------------
LEMMA AuthTimes ==
  /\ TicksPerSecond \in Nat \ {0} /\ CacheTtlSeconds \in Nat \ {0}
  /\ AuthTimeout \in Nat \ {0} /\ MaxLife \in Nat \ {0}
  /\ CacheTtl \in Nat \ {0} /\ Latest \in Nat /\ Latest = CacheTtl + AuthTimeout
  /\ \A n \in 1 .. CacheTtlSeconds : n * TicksPerSecond \in 1 .. CacheTtl
<1>1. /\ TicksPerSecond \in Nat \ {0} /\ CacheTtlSeconds \in Nat \ {0}
      /\ AuthTimeout \in Nat \ {0} /\ MaxLife \in Nat \ {0}
  BY AuthAssumption
<1>2. \A m, n \in Nat \ {0} : m * n \in Nat \ {0}
  OBVIOUS
<1>3. \A m, n, k \in Nat : m <= n => m * k <= n * k
  OBVIOUS
<1>4. QED
  BY <1>1, <1>2, <1>3 DEF CacheTtl, Latest

\* The seconds a context is stored for are over before its token's are.
LEMMA BuildCacheTtlWithinLife ==
  ASSUME TypeOK
  PROVE  /\ BuildCacheTtl \in 0 .. CacheTtlSeconds
         /\ BuildCacheTtl * TicksPerSecond <= life
<1>1. /\ life \in Nat /\ TicksPerSecond \in Nat \ {0} /\ CacheTtlSeconds \in Nat
  BY AuthTimes DEF TypeOK
<1>2. life \div TicksPerSecond \in Nat
  BY <1>1
<1>3. (life \div TicksPerSecond) * TicksPerSecond <= life
  BY <1>1
<1>4. BuildCacheTtl \in Nat /\ BuildCacheTtl <= CacheTtlSeconds
        /\ BuildCacheTtl <= life \div TicksPerSecond
  BY <1>1, <1>2 DEF BuildCacheTtl, Lower
<1>5. \A m, n, k \in Nat : m <= n => m * k <= n * k /\ m * k \in Nat /\ n * k \in Nat
  OBVIOUS
<1>6. BuildCacheTtl * TicksPerSecond <= (life \div TicksPerSecond) * TicksPerSecond
  BY <1>1, <1>2, <1>4, <1>5
<1>7. /\ BuildCacheTtl * TicksPerSecond \in Nat
      /\ (life \div TicksPerSecond) * TicksPerSecond \in Nat
  BY <1>1, <1>2, <1>4, <1>5
<1>8. QED
  BY <1>1, <1>3, <1>4, <1>6, <1>7

LEMMA AuthTypeStep ==
  ASSUME AuthTypeInv, [Next]_vars
  PROVE  AuthTypeInv'
<1> USE DEF AuthTypeInv, TypeOK, SetexHasTtl, Ended, Verdicts, Goto, Ask
<1>1. ASSUME NEW c \in Caller, pc[c] = "setex"
      PROVE  Stored(c) \in [readable : BOOLEAN, ttl : 1 .. CacheTtl]
  <2>1. ttl[c] \in 1 .. CacheTtlSeconds
    BY <1>1
  <2>2. QED
    BY <2>1, AuthTimes DEF Stored
<1>2. ASSUME NEW c \in Caller, ValidateToken(c) \/ ReadCache(c) \/ Evict(c)
      PROVE  AuthTypeInv'
  BY <1>2, AuthTimes DEF ValidateToken, ReadCache, Evict
<1>3. ASSUME NEW c \in Caller, ServiceDecides(c) \/ FetchFails(c) PROVE AuthTypeInv'
  BY <1>3, AuthTimes DEF ServiceDecides, FetchFails
<1>4. ASSUME NEW c \in Caller, ResponseArrives(c) PROVE AuthTypeInv'
  BY <1>4, AuthTimes, BuildCacheTtlWithinLife DEF ResponseArrives
<1>5. ASSUME NEW c \in Caller, SetEx(c) PROVE AuthTypeInv'
  BY <1>1, <1>5, AuthTimes DEF SetEx
<1>6. ASSUME NEW c \in Caller, RedisFails(c) PROVE AuthTypeInv'
  <2>1. entry' \in {NoEntry} \cup [readable : BOOLEAN, ttl : 1 .. CacheTtl]
    BY <1>1, <1>6 DEF RedisFails
  <2>2. faults' \in 0 .. MaxFaults
    BY <1>6, AuthAssumption DEF RedisFails
  <2>3. QED
    BY <1>6, <2>1, <2>2, AuthTimes DEF RedisFails
<1>7. CASE Revoke
  BY <1>7, AuthTimes DEF Revoke
<1>8. CASE Tick
  <2>1. entry' \in {NoEntry} \cup [readable : BOOLEAN, ttl : 1 .. CacheTtl]
    BY <1>8, AuthTimes DEF Tick, Pass
  <2>2. life' \in 0 .. MaxLife /\ revokedFor' \in {Never} \cup 0 .. Latest + 1
    BY <1>8, AuthTimes DEF Tick, Pass, Ages, Lower
  <2>3. elapsed' \in [Caller -> 0 .. AuthTimeout]
    BY <1>8, AuthTimes DEF Tick
  <2>4. QED
    BY <1>8, <2>1, <2>2, <2>3 DEF Tick, Pass
<1>9. CASE UNCHANGED vars
  BY <1>9 DEF vars
<1>10. QED
  BY <1>2, <1>3, <1>4, <1>5, <1>6, <1>7, <1>8, <1>9 DEF Next

LEMMA AuthTypeInit == Init => AuthTypeInv
<1> SUFFICES ASSUME Init PROVE AuthTypeInv
  OBVIOUS
<1>1. /\ entry \in {NoEntry} \cup [readable : BOOLEAN, ttl : 1 .. CacheTtl]
      /\ pc \in [Caller -> Ended \cup {"get", "del", "fetch", "setex"}]
      /\ verdict \in [Caller -> Verdicts \cup {"none"}]
  BY DEF Init, Ended
<1>2. /\ life \in 0 .. MaxLife /\ revokedFor = Never /\ faults \in 0 .. MaxFaults
      /\ elapsed \in [Caller -> 0 .. AuthTimeout] /\ ttl \in [Caller -> 0 .. CacheTtlSeconds]
  BY AuthTimes, AuthAssumption DEF Init
<1>3. SetexHasTtl
  BY DEF Init, SetexHasTtl
<1>4. QED
  BY <1>1, <1>2, <1>3 DEF AuthTypeInv, TypeOK

\* No call asks longer than its timeout, and nothing is stored for longer than
\* AUTH_CACHE_TTL_SECONDS (http-auth-validation-adapter.ts).
THEOREM AuthTypeCorrect == Spec => []TypeOK
<1>1. AuthTypeInv => TypeOK  BY DEF AuthTypeInv
<1>2. QED  BY <1>1, AuthTypeInit, AuthTypeStep, PTL DEF Spec

LEMMA WithinExpiryStep ==
  ASSUME RedisPrompt, AuthTypeInv, WithinExpiry, [Next]_vars
  PROVE  WithinExpiry'
<1> USE DEF WithinExpiry, NoHitAfterExpiry, AuthTypeInv, Goto, Ask
<1>1. ASSUME NEW c \in Caller,
             ValidateToken(c) \/ ReadCache(c) \/ Evict(c) \/ ServiceDecides(c) \/ FetchFails(c)
      PROVE  WithinExpiry'
  BY <1>1 DEF ValidateToken, ReadCache, Evict, ServiceDecides, FetchFails, TypeOK
<1>2. ASSUME NEW c \in Caller, ResponseArrives(c) PROVE WithinExpiry'
  <2>1. UNCHANGED <<entry, life>>
    BY <1>2 DEF ResponseArrives
  <2>2. pc'[c] = "setex" => ttl'[c] = BuildCacheTtl
    BY <1>2 DEF ResponseArrives, TypeOK, Verdicts
  <2>3. \A d \in Caller : d # c => pc'[d] = pc[d] /\ ttl'[d] = ttl[d]
    BY <1>2 DEF ResponseArrives, TypeOK
  <2>4. QED
    BY <2>1, <2>2, <2>3, BuildCacheTtlWithinLife
<1>3. ASSUME NEW c \in Caller, SetEx(c) \/ RedisFails(c) PROVE WithinExpiry'
  <2>1. UNCHANGED life /\ pc'[c] # "setex"
    BY <1>3 DEF SetEx, RedisFails, TypeOK
  <2>2. \A d \in Caller : d # c => pc'[d] = pc[d] /\ ttl'[d] = ttl[d]
    BY <1>3 DEF SetEx, RedisFails, TypeOK
  <2>3. entry' \in {entry, NoEntry} \/ (pc[c] = "setex" /\ entry' = Stored(c))
    BY <1>3 DEF SetEx, RedisFails
  <2>4. QED
    BY <2>1, <2>2, <2>3 DEF Stored
<1>4. CASE Revoke
  BY <1>4 DEF Revoke
<1>5. CASE Tick
  <2>1. \A c \in Caller : pc'[c] # "setex"
    BY <1>5 DEF Tick, Pass
  <2>2. ASSUME entry' # NoEntry, entry'.readable PROVE entry'.ttl <= life'
    <3>1. entry # NoEntry /\ entry.ttl # 1 /\ entry' = [entry EXCEPT !.ttl = @ - 1]
      BY <1>5, <2>2 DEF Tick, Pass
    <3>2. entry \in [readable : BOOLEAN, ttl : 1 .. CacheTtl]
      BY <3>1 DEF TypeOK
    <3>3. entry'.ttl = entry.ttl - 1 /\ entry'.readable = entry.readable
      BY <3>1, <3>2
    <3>4. entry.ttl \in Nat /\ entry.ttl > 1 /\ life \in Nat
      BY <3>1, <3>2, AuthTimes DEF TypeOK
    <3>5. entry.ttl <= life
      BY <2>2, <3>1, <3>3
    <3>6. life' = life - 1
      BY <1>5, <3>4, <3>5 DEF Tick, Pass, Ages
    <3>7. QED
      BY <3>3, <3>4, <3>5, <3>6
  <2>3. QED
    BY <2>1, <2>2
<1>6. CASE UNCHANGED vars
  BY <1>6 DEF vars
<1>7. QED
  BY <1>1, <1>2, <1>3, <1>4, <1>5, <1>6 DEF Next

\* Whatever a hit finds has not expired, for any TTL and any rounding of the expiry to
\* seconds, though the code never looks at the expiry of a cached context.
THEOREM CachedWithinExpiry ==
  ASSUME RedisPrompt
  PROVE  Spec => []NoHitAfterExpiry
<1>1. Init => WithinExpiry
  BY AuthAssumption DEF Init, WithinExpiry, NoHitAfterExpiry
<1>2. AuthTypeInv /\ WithinExpiry /\ [Next]_vars => WithinExpiry'
  BY WithinExpiryStep
<1>3. WithinExpiry => NoHitAfterExpiry
  BY DEF WithinExpiry
<1>4. QED
  BY <1>1, <1>2, <1>3, AuthTypeInit, AuthTypeStep, PTL DEF Spec

LEMMA RevocationStep ==
  ASSUME RedisPrompt, AuthTypeInv, RevocationCatchesUp, [Next]_vars
  PROVE  RevocationCatchesUp'
<1> USE DEF RevocationCatchesUp, AuthTypeInv, Goto, Ask
<1>1. ASSUME NEW c \in Caller, ValidateToken(c) \/ ReadCache(c) \/ Evict(c) \/ FetchFails(c)
      PROVE  RevocationCatchesUp'
  BY <1>1 DEF ValidateToken, ReadCache, Evict, FetchFails, TypeOK
<1>2. ASSUME NEW c \in Caller, ServiceDecides(c) PROVE RevocationCatchesUp'
  BY <1>2 DEF ServiceDecides, Valid, TypeOK
<1>3. ASSUME NEW c \in Caller, ResponseArrives(c) PROVE RevocationCatchesUp'
  <2>1. UNCHANGED <<entry, revokedFor>>
    BY <1>3 DEF ResponseArrives
  <2>2. \A d \in Caller : d # c => /\ pc'[d] = pc[d] /\ verdict'[d] = verdict[d]
                                   /\ elapsed'[d] = elapsed[d]
    BY <1>3 DEF ResponseArrives, TypeOK
  <2>3. pc'[c] # "fetch" /\ (pc'[c] = "setex" => pc[c] = "fetch" /\ verdict[c] = "valid")
    BY <1>3 DEF ResponseArrives, TypeOK, Verdicts
  <2>4. elapsed[c] <= AuthTimeout /\ elapsed[c] \in Nat
    BY AuthTimes DEF TypeOK
  <2>5. revokedFor # Never => revokedFor \in Nat
    BY AuthTimes DEF TypeOK
  <2>6. revokedFor # Never /\ pc'[c] = "setex" => revokedFor <= AuthTimeout
    BY <2>3, <2>4, <2>5, AuthTimes
  <2>7. QED
    BY <2>1, <2>2, <2>3, <2>6
<1>4. ASSUME NEW c \in Caller, SetEx(c) \/ RedisFails(c) PROVE RevocationCatchesUp'
  <2>1. /\ UNCHANGED <<revokedFor, verdict, elapsed>> /\ pc'[c] \notin {"fetch", "setex"}
        /\ \A d \in Caller : d # c => pc'[d] = pc[d]
    BY <1>4 DEF SetEx, RedisFails, TypeOK
  <2>2. entry' \in {entry, NoEntry} \/ (pc[c] = "setex" /\ entry' = Stored(c))
    BY <1>4 DEF SetEx, RedisFails
  <2>3. ASSUME pc[c] = "setex", revokedFor # Never PROVE Stored(c).ttl + revokedFor <= Latest
    <3>1. ttl[c] \in 1 .. CacheTtlSeconds
      BY <2>3 DEF TypeOK, SetexHasTtl
    <3>2. Stored(c).ttl \in Nat /\ Stored(c).ttl <= CacheTtl
      BY <3>1, AuthTimes DEF Stored
    <3>3. revokedFor \in Nat /\ revokedFor <= AuthTimeout
      BY <2>3, AuthTimes DEF TypeOK
    <3>4. QED
      BY <3>2, <3>3, AuthTimes
  <2>4. QED
    BY <2>1, <2>2, <2>3
<1>5. CASE Revoke
  <2>1. entry # NoEntry => entry.ttl \in Nat /\ entry.ttl + 0 <= Latest
    <3>1. entry # NoEntry => entry.ttl \in 1 .. CacheTtl
      BY DEF TypeOK
    <3>2. QED
      BY <3>1, AuthTimes
  <2>2. \A c \in Caller : 0 <= elapsed[c] /\ 0 <= AuthTimeout
    BY AuthTimes DEF TypeOK
  <2>3. QED
    BY <1>5, <2>1, <2>2 DEF Revoke
<1>6. CASE Tick
  <2> SUFFICES ASSUME revokedFor' # Never
               PROVE  /\ entry' # NoEntry /\ entry'.readable => entry'.ttl + revokedFor' <= Latest
                      /\ \A c \in Caller :
                           /\ pc[c] = "fetch" /\ verdict[c] = "valid" => revokedFor' <= elapsed'[c]
                           /\ pc[c] # "setex"
    BY <1>6 DEF Tick, Pass
  <2>1. revokedFor # Never /\ revokedFor \in Nat
    BY <1>6, AuthTimes DEF Tick, Pass, TypeOK
  <2>2. revokedFor' \in Nat /\ revokedFor' <= revokedFor + 1
    BY <1>6, <2>1, AuthTimes DEF Tick, Pass, Lower
  <2>3. ASSUME entry' # NoEntry, entry'.readable PROVE entry'.ttl + revokedFor' <= Latest
    <3>1. entry # NoEntry /\ entry.ttl # 1 /\ entry' = [entry EXCEPT !.ttl = @ - 1]
      BY <1>6, <2>3 DEF Tick, Pass
    <3>2. entry \in [readable : BOOLEAN, ttl : 1 .. CacheTtl]
      BY <3>1 DEF TypeOK
    <3>3. entry'.ttl = entry.ttl - 1 /\ entry'.readable = entry.readable
      BY <3>1, <3>2
    <3>4. entry.ttl \in Nat
      BY <3>2, AuthTimes
    <3>5. entry.ttl + revokedFor <= Latest
      BY <2>1, <2>3, <3>1, <3>3
    <3>6. QED
      BY <2>1, <2>2, <3>3, <3>4, <3>5, AuthTimes
  <2>4. ASSUME NEW c \in Caller, pc[c] = "fetch", verdict[c] = "valid"
        PROVE  revokedFor' <= elapsed'[c]
    <3>1. elapsed'[c] = elapsed[c] + 1 /\ elapsed[c] \in Nat
      BY <1>6, <2>4, AuthTimes DEF Tick, TypeOK
    <3>2. revokedFor <= elapsed[c]
      BY <2>1, <2>4
    <3>3. QED
      BY <2>1, <2>2, <3>1, <3>2
  <2>5. QED
    BY <1>6, <2>3, <2>4 DEF Tick
<1>7. CASE UNCHANGED vars
  BY <1>7 DEF vars
<1>8. QED
  BY <1>1, <1>2, <1>3, <1>4, <1>5, <1>6, <1>7 DEF Next

\* A revoked token gets in for one TTL and one timeout at the most, however many calls
\* of it overlap with the revocation and with each other.
THEOREM RevocationIsBounded ==
  ASSUME RedisPrompt
  PROVE  Spec => RevocationTakesHold
<1> DEFINE Bounded == \A c \in Caller :
             pc[c] # "admitted" /\ pc'[c] = "admitted" /\ revokedFor # Never
               => revokedFor <= Latest
<1>1. Init => RevocationCatchesUp
  BY DEF Init, RevocationCatchesUp
<1>2. AuthTypeInv /\ RevocationCatchesUp /\ [Next]_vars => RevocationCatchesUp'
  BY RevocationStep
<1>3. AuthTypeInv /\ RevocationCatchesUp /\ [Next]_vars => [Bounded]_vars
  <2> SUFFICES ASSUME AuthTypeInv, RevocationCatchesUp, Next, NEW c \in Caller,
                      pc[c] # "admitted", pc'[c] = "admitted", revokedFor # Never
               PROVE  revokedFor <= Latest
    OBVIOUS
  <2>1. revokedFor \in Nat /\ elapsed[c] \in Nat /\ elapsed[c] <= AuthTimeout
    BY AuthTimes DEF AuthTypeInv, TypeOK
  <2>2. /\ ~ Revoke /\ ~ Tick
        /\ \A d \in Caller : ~ ValidateToken(d) /\ ~ Evict(d) /\ ~ ServiceDecides(d)
                               /\ ~ FetchFails(d) /\ ~ RedisFails(d)
    BY DEF Revoke, Tick, Pass, ValidateToken, Evict, ServiceDecides, FetchFails, RedisFails,
           Goto, Ask, AuthTypeInv, TypeOK
  <2>3. ReadCache(c) \/ ResponseArrives(c) \/ SetEx(c)
    BY <2>2 DEF Next, ReadCache, ResponseArrives, SetEx, Goto, Ask, AuthTypeInv, TypeOK
  <2>4. CASE ReadCache(c)
    <3>1. entry # NoEntry /\ entry.readable
      BY <2>4 DEF ReadCache, Goto, Ask, AuthTypeInv, TypeOK
    <3>2. entry.ttl \in Nat
      BY <3>1, AuthTimes DEF AuthTypeInv, TypeOK
    <3>3. QED
      BY <2>1, <3>1, <3>2, AuthTimes DEF RevocationCatchesUp
  <2>5. CASE ResponseArrives(c)
    <3>1. pc[c] = "fetch" /\ verdict[c] = "valid"
      BY <2>5 DEF ResponseArrives, Goto, AuthTypeInv, TypeOK, Verdicts
    <3>2. QED
      BY <2>1, <3>1, AuthTimes DEF RevocationCatchesUp
  <2>6. CASE SetEx(c)
    BY <2>1, <2>6, AuthTimes DEF SetEx, RevocationCatchesUp
  <2>7. QED
    BY <2>3, <2>4, <2>5, <2>6
<1>4. QED
  BY <1>1, <1>2, <1>3, AuthTypeInit, AuthTypeStep, PTL DEF Spec, RevocationTakesHold

-----------------------------------------------------------------------------
\* Shutdown.

\* Nobody connects once a signal has come; whoever is connected by then finds the
\* connections to Redis open; and a stage beyond the first means that nobody is.
StagesInOrder ==
  /\ accepting => open = Connections(program) /\ \A s \in Signal : shutdown[s] = "none"
  /\ Connected => open = Connections(program)
  /\ \A s \in Signal :
       /\ shutdown[s] \in {"events", "queue"} => program = "api"
       /\ shutdown[s] \in {"events", "queue", "done"} => ~ Connected
       /\ shutdown[s] = "queue" => "events" \notin open
       /\ shutdown[s] = "done" => open = {}

\* A timer has been running for as long as its stage, and what gives up early has
\* nothing to cut off.
TimersTell ==
  \A s \in Signal :
    /\ shutdown[s] \in InStage => since + timer[s] >= StageTimeout
    /\ shutdown[s] = "failed" => closeFaults > 0 \/ since >= StageTimeout \/ ~ Connected

\* The shutdown of the first signal, which bounds all the others.
First(s) ==
  /\ shutdown[s] # "none"
  /\ shutdown[s] = "drain" => since + timer[s] <= StageTimeout
  /\ shutdown[s] \in {"events", "queue"} => since + timer[s] <= 2 * StageTimeout

FirstSignalBounds ==
  /\ ~ Signalled => since = 0
  /\ Signalled => \E s \in Signal : First(s)

ShutdownInv ==
  /\ ShutdownTypeOK
  /\ StagesInOrder /\ TimersTell /\ FirstSignalBounds
  /\ ZeroIsGraceful /\ OnlyTimeoutCutsOff

LEMMA StageTimes ==
  /\ StageTimeout \in Nat \ {0}
  /\ Stages("api") * StageTimeout = 2 * StageTimeout
  /\ Stages("worker") * StageTimeout = StageTimeout
<1>1. StageTimeout \in Nat \ {0} /\ 1 * StageTimeout = StageTimeout
  BY ShutdownAssumption
<1>2. QED
  BY <1>1 DEF Stages

\* The steps of a request or a job.
LEMMA TaskStep ==
  ASSUME ShutdownInv, NEW t \in Task, Accept(t) \/ Finish(t) \/ LetGo(t) \/ HangUp(t)
  PROVE  ShutdownInv'
<1>1. /\ UNCHANGED <<program, accepting, shutdown, timer, refused, open, exit, since, closeFaults>>
      /\ Up /\ task' \in [Task -> {"none", "running", "abandoned", "kept", "ended"}]
      /\ Connected' => Connected \/ accepting
  BY DEF Accept, Finish, LetGo, HangUp, ShutdownInv, ShutdownTypeOK, Connected
<1>2. ShutdownTypeOK'
  BY <1>1 DEF ShutdownInv, ShutdownTypeOK, Connections
<1>3. StagesInOrder'
  BY <1>1 DEF ShutdownInv, StagesInOrder, Connections
<1>4. TimersTell'
  BY <1>1 DEF ShutdownInv, StagesInOrder, TimersTell
<1>5. FirstSignalBounds'
  BY <1>1 DEF ShutdownInv, FirstSignalBounds, First, Signalled
<1>6. ZeroIsGraceful' /\ OnlyTimeoutCutsOff'
  BY <1>1 DEF Up, ZeroIsGraceful, OnlyTimeoutCutsOff
<1>7. QED
  BY <1>2, <1>3, <1>4, <1>5, <1>6 DEF ShutdownInv

LEMMA ReceiveStep ==
  ASSUME ShutdownInv, NEW s \in Signal, Receive(s)
  PROVE  ShutdownInv'
<1>1. /\ shutdown' = [shutdown EXCEPT ![s] = "drain"]
      /\ timer' = [timer EXCEPT ![s] = StageTimeout]
      /\ accepting' = FALSE /\ refused' \subseteq Signal /\ Up /\ shutdown[s] = "none"
      /\ UNCHANGED <<program, open, exit, since, closeFaults>>
      /\ task' = [t \in Task |-> IF task[t] = "kept" THEN "ended" ELSE task[t]]
  BY DEF Receive, GoesTo, ShutdownInv, ShutdownTypeOK
<1>2. /\ shutdown'[s] = "drain" /\ timer'[s] = StageTimeout
      /\ \A q \in Signal : q # s => shutdown'[q] = shutdown[q] /\ timer'[q] = timer[q]
  BY <1>1 DEF ShutdownInv, ShutdownTypeOK
<1>3. ShutdownTypeOK'
  <2>1. StageTimeout \in 0 .. StageTimeout
    BY StageTimes
  <2>2. timer' \in [Signal -> 0 .. StageTimeout]
    BY <1>1, <2>1 DEF ShutdownInv, ShutdownTypeOK
  <2>3. shutdown' \in [Signal -> InStage \cup {"none", "done", "failed"}]
    BY <1>1 DEF ShutdownInv, ShutdownTypeOK, InStage
  <2>4. Connections(program)' = Connections(program) /\ Stages(program)' = Stages(program)
    BY <1>1
  <2>5. QED
    BY <1>1, <2>2, <2>3, <2>4 DEF ShutdownInv, ShutdownTypeOK
<1>4. StagesInOrder'
  BY <1>1, <1>2 DEF ShutdownInv, StagesInOrder, Connections, Connected
<1>5. since \in Nat
  BY StageTimes DEF ShutdownInv, ShutdownTypeOK
<1>6. TimersTell'
  <2>1. since + StageTimeout >= StageTimeout
    BY <1>5, StageTimes
  <2>2. QED
    BY <1>1, <1>2, <2>1 DEF ShutdownInv, TimersTell, InStage, Connected
<1>7. FirstSignalBounds'
  <2>1. Signalled'
    BY <1>2 DEF Signalled
  <2>2. ASSUME ~ Signalled PROVE First(s)'
    <3>1. since = 0
      BY <2>2 DEF ShutdownInv, FirstSignalBounds
    <3>2. QED
      BY <1>1, <1>2, <3>1, StageTimes DEF First
  <2>3. ASSUME NEW q \in Signal, First(q) PROVE First(q)'
    <3>1. q # s
      BY <1>1, <2>3 DEF First
    <3>2. QED
      BY <1>1, <1>2, <2>3, <3>1 DEF First
  <2>4. QED
    BY <2>1, <2>2, <2>3 DEF ShutdownInv, FirstSignalBounds
<1>8. ZeroIsGraceful' /\ OnlyTimeoutCutsOff'
  BY <1>1 DEF Up, ZeroIsGraceful, OnlyTimeoutCutsOff
<1>9. QED
  BY <1>3, <1>4, <1>6, <1>7, <1>8 DEF ShutdownInv

\* A stage that ends: the shutdown goes on to label, with the timer and the connections
\* that label has; and has nothing to cut off unless it was late or a close failed.
LEMMA StageEnds ==
  ASSUME ShutdownInv, NEW s \in Signal, NEW label \in {"events", "queue", "done", "failed"},
         Up, shutdown[s] \in InStage, GoesTo(s, label),
         UNCHANGED <<program, task, accepting, refused, exit, since>>,
         closeFaults' \in 0 .. MaxCloseFaults, closeFaults' >= closeFaults,
         open' \subseteq open, open' # open => ~ Connected,
         timer' = timer \/ timer' = [timer EXCEPT ![s] = StageTimeout],
         label \in {"events", "queue"} => program = "api",
         label = "events" => shutdown[s] = "drain" /\ timer'[s] = StageTimeout,
         label = "queue" => shutdown[s] = "events" /\ timer' = timer /\ "events" \notin open',
         label = "done" => open' = {},
         label \in {"events", "queue", "done"} => ~ Connected,
         label = "failed" => closeFaults' > 0 \/ since >= StageTimeout \/ ~ Connected
  PROVE  ShutdownInv'
<1>1. /\ shutdown'[s] = label
      /\ \A q \in Signal : q # s => shutdown'[q] = shutdown[q] /\ timer'[q] = timer[q]
  BY DEF GoesTo, ShutdownInv, ShutdownTypeOK
<1>2. since \in Nat /\ \A q \in Signal : timer[q] \in Nat /\ timer[q] <= StageTimeout
  BY StageTimes DEF ShutdownInv, ShutdownTypeOK
<1>3. ~ accepting
  BY DEF ShutdownInv, StagesInOrder, InStage
<1>4. ShutdownTypeOK'
  BY StageTimes DEF GoesTo, ShutdownInv, ShutdownTypeOK, InStage, Connections
<1>5. StagesInOrder'
  BY <1>1, <1>3 DEF ShutdownInv, StagesInOrder, Connections, Connected
<1>6. TimersTell'
  <2>1. ASSUME NEW q \in Signal, shutdown'[q] \in InStage PROVE since + timer'[q] >= StageTimeout
    <3>1. CASE q # s
      BY <1>1, <2>1, <3>1 DEF ShutdownInv, TimersTell
    <3>2. CASE q = s /\ timer' = timer
      BY <3>2 DEF ShutdownInv, TimersTell
    <3>3. CASE q = s /\ timer' = [timer EXCEPT ![s] = StageTimeout]
      <4>1. timer'[q] = StageTimeout
        BY <3>3 DEF ShutdownInv, ShutdownTypeOK
      <4>2. QED
        BY <1>2, <4>1, StageTimes
    <3>4. QED
      BY <3>1, <3>2, <3>3
  <2>2. ASSUME NEW q \in Signal, shutdown'[q] = "failed"
        PROVE  closeFaults' > 0 \/ since >= StageTimeout \/ ~ Connected
    <3>1. CASE q # s
      <4>1. closeFaults > 0 \/ since >= StageTimeout \/ ~ Connected
        BY <1>1, <2>2, <3>1 DEF ShutdownInv, TimersTell
      <4>2. closeFaults \in Nat /\ closeFaults' \in Nat
        BY ShutdownAssumption DEF ShutdownInv, ShutdownTypeOK
      <4>3. QED
        BY <4>1, <4>2
    <3>2. CASE q = s
      BY <1>1, <2>2, <3>2
    <3>3. QED
      BY <3>1, <3>2
  <2>3. QED
    BY <2>1, <2>2 DEF TimersTell, Connected
<1>7. FirstSignalBounds'
  <2>1. Signalled /\ Signalled'
    BY <1>1 DEF Signalled, InStage
  <2>2. ASSUME NEW q \in Signal, First(q) PROVE First(q)'
    <3>1. CASE q # s
      BY <1>1, <2>2, <3>1 DEF First
    <3>2. CASE q = s /\ label = "events"
      <4>1. since + timer[s] <= StageTimeout /\ timer'[s] = StageTimeout
        BY <2>2, <3>2 DEF First
      <4>2. since + timer'[s] <= 2 * StageTimeout
        BY <1>2, <4>1, StageTimes
      <4>3. QED
        BY <1>1, <3>2, <4>2 DEF First
    <3>3. CASE q = s /\ label # "events"
      BY <1>1, <2>2, <3>3 DEF First
    <3>4. QED
      BY <3>1, <3>2, <3>3
  <2>3. QED
    BY <2>1, <2>2 DEF ShutdownInv, FirstSignalBounds
<1>8. ZeroIsGraceful' /\ OnlyTimeoutCutsOff'
  BY DEF Up, ZeroIsGraceful, OnlyTimeoutCutsOff
<1>9. QED
  BY <1>4, <1>5, <1>6, <1>7, <1>8 DEF ShutdownInv

LEMMA ExitStep ==
  ASSUME ShutdownInv, NEW s \in Signal, Exit(s)
  PROVE  ShutdownInv'
<1>1. /\ UNCHANGED <<program, task, accepting, shutdown, timer, refused, open, since, closeFaults>>
      /\ exit' \in {"0", "1"} /\ (exit' = "0" => shutdown[s] = "done")
      /\ shutdown[s] \in {"done", "failed"}
  BY DEF Exit
<1>2. ShutdownTypeOK' /\ StagesInOrder' /\ TimersTell'
  BY <1>1 DEF ShutdownInv, ShutdownTypeOK, StagesInOrder, TimersTell, Connections, Connected
<1>3. FirstSignalBounds'
  BY <1>1 DEF ShutdownInv, FirstSignalBounds, First, Signalled
<1>4. ZeroIsGraceful'
  BY <1>1 DEF ShutdownInv, StagesInOrder, ZeroIsGraceful, Connected, Working
<1>5. OnlyTimeoutCutsOff'
  BY <1>1 DEF ShutdownInv, StagesInOrder, TimersTell, OnlyTimeoutCutsOff, Connected, Working
<1>6. QED
  BY <1>2, <1>3, <1>4, <1>5 DEF ShutdownInv

LEMMA ShutdownTickStep ==
  ASSUME ShutdownInv, ShutdownTick
  PROVE  ShutdownInv'
<1>1. /\ UNCHANGED <<program, task, accepting, shutdown, refused, open, exit, closeFaults>>
      /\ Up /\ Signalled /\ since' = since + 1
      /\ \A q \in Signal : /\ shutdown[q] \notin {"done", "failed"}
                           /\ shutdown[q] \in InStage => timer[q] > 0 /\ timer'[q] = timer[q] - 1
  BY DEF ShutdownTick
<1>2. since \in Nat /\ \A q \in Signal : timer[q] \in Nat /\ timer[q] <= StageTimeout
  BY StageTimes DEF ShutdownInv, ShutdownTypeOK
<1>3. PICK f \in Signal : First(f)
  BY <1>1 DEF ShutdownInv, FirstSignalBounds
<1>4. shutdown[f] \in InStage
  BY <1>1, <1>3 DEF First, ShutdownInv, ShutdownTypeOK
<1>5. timer[f] \in Nat /\ timer[f] > 0 /\ timer'[f] = timer[f] - 1
  BY <1>1, <1>2, <1>4
<1>6. since + 1 <= Stages(program) * StageTimeout
  <2>1. CASE shutdown[f] = "drain"
    <3>1. since + 1 <= StageTimeout
      BY <1>2, <1>3, <1>5, <2>1, StageTimes DEF First
    <3>2. program \in {"api", "worker"}
      BY DEF ShutdownInv, ShutdownTypeOK
    <3>3. QED
      BY <1>2, <3>1, <3>2, StageTimes
  <2>2. CASE shutdown[f] \in {"events", "queue"}
    <3>1. since + 1 <= 2 * StageTimeout /\ program = "api"
      BY <1>2, <1>3, <1>5, <2>2, StageTimes DEF First, ShutdownInv, StagesInOrder
    <3>2. QED
      BY <3>1, StageTimes
  <2>3. QED
    BY <1>4, <2>1, <2>2 DEF InStage
<1>7. timer' \in [Signal -> 0 .. StageTimeout]
  <2>1. timer' = [q \in Signal |-> IF shutdown[q] \in InStage THEN timer[q] - 1 ELSE timer[q]]
    BY DEF ShutdownTick
  <2>2. \A q \in Signal : (IF shutdown[q] \in InStage THEN timer[q] - 1 ELSE timer[q])
                            \in 0 .. StageTimeout
    BY <1>1, <1>2, StageTimes
  <2>3. QED
    BY <2>1, <2>2
<1>8. since' \in 0 .. Stages(program) * StageTimeout
  <2>1. Stages(program) * StageTimeout \in Nat
    BY StageTimes DEF ShutdownInv, ShutdownTypeOK
  <2>2. QED
    BY <1>1, <1>2, <1>6, <2>1
<1>9. ShutdownTypeOK'
  <2>1. Stages(program)' = Stages(program) /\ Connections(program)' = Connections(program)
    BY <1>1 DEF Stages, Connections
  <2>2. QED
    BY <1>1, <1>7, <1>8, <2>1 DEF ShutdownInv, ShutdownTypeOK
<1>10. StagesInOrder'
  BY <1>1 DEF ShutdownInv, StagesInOrder, Connections, Connected
<1>11. TimersTell'
  BY <1>1, <1>2, StageTimes DEF ShutdownInv, TimersTell, Connected
<1>12. First(f)'
  BY <1>1, <1>2, <1>3, <1>4, <1>5 DEF First
<1>13. FirstSignalBounds'
  BY <1>1, <1>12 DEF FirstSignalBounds, Signalled
<1>14. ZeroIsGraceful' /\ OnlyTimeoutCutsOff'
  BY <1>1 DEF Up, ZeroIsGraceful, OnlyTimeoutCutsOff
<1>15. QED
  BY <1>9, <1>10, <1>11, <1>13, <1>14 DEF ShutdownInv

LEMMA ShutdownStep == ShutdownInv /\ [ShutdownNext]_shutdownVars => ShutdownInv'
<1> SUFFICES ASSUME ShutdownInv, [ShutdownNext]_shutdownVars PROVE ShutdownInv'
  OBVIOUS
<1>0. closeFaults \in 0 .. MaxCloseFaults /\ closeFaults \in Nat /\ MaxCloseFaults \in Nat
      /\ since \in Nat /\ program \in {"api", "worker"}
  BY StageTimes, ShutdownAssumption DEF ShutdownInv, ShutdownTypeOK
<1>1. ASSUME NEW s \in Signal, Drain(s) PROVE ShutdownInv'
  <2> USE DEF Drain
  <2>1. CASE program = "api" /\ s \in refused
    BY <1>0, <1>1, <2>1, StageEnds DEF InStage
  <2>2. CASE program = "api" /\ s \notin refused
    <3>1. timer'[s] = StageTimeout
      BY <1>1, <2>2 DEF ShutdownInv, ShutdownTypeOK
    <3>2. QED
      BY <1>0, <1>1, <2>2, <3>1, StageEnds DEF InStage
  <2>3. CASE program = "worker"
    BY <1>0, <1>1, <2>3, StageEnds DEF InStage
  <2>4. QED
    BY <1>0, <2>1, <2>2, <2>3
<1>2. ASSUME NEW s \in Signal, CloseConnection(s) PROVE ShutdownInv'
  <2>1. shutdown[s] \in {"events", "queue"} /\ program = "api" /\ ~ Connected
    BY <1>2 DEF CloseConnection, ShutdownInv, StagesInOrder
  <2>2. CASE shutdown[s] = "events"
    BY <1>0, <1>2, <2>1, <2>2, StageEnds DEF CloseConnection, InStage
  <2>3. CASE shutdown[s] = "queue"
    <3>1. open \ {"queue", "redis"} = {}
      BY <2>1, <2>3 DEF ShutdownInv, ShutdownTypeOK, StagesInOrder, Connections
    <3>2. QED
      BY <1>0, <1>2, <2>1, <2>3, <3>1, StageEnds DEF CloseConnection, InStage
  <2>4. QED
    BY <2>1, <2>2, <2>3
<1>3. ASSUME NEW s \in Signal, CloseFails(s) PROVE ShutdownInv'
  <2>1. /\ closeFaults' \in 0 .. MaxCloseFaults /\ closeFaults' >= closeFaults
        /\ closeFaults' > 0 /\ shutdown[s] \in InStage
    BY <1>0, <1>3 DEF CloseFails, InStage
  <2>2. QED
    BY <1>3, <2>1, StageEnds DEF CloseFails
<1>4. ASSUME NEW s \in Signal, StageTimesOut(s) PROVE ShutdownInv'
  <2>1. since >= StageTimeout
    BY <1>0, <1>4, StageTimes DEF StageTimesOut, ShutdownInv, TimersTell
  <2>2. QED
    BY <1>0, <1>4, <2>1, StageEnds DEF StageTimesOut
<1>5. CASE UNCHANGED shutdownVars
  BY <1>5 DEF shutdownVars, ShutdownInv, ShutdownTypeOK, StagesInOrder, TimersTell,
              FirstSignalBounds, First, Signalled, ZeroIsGraceful, OnlyTimeoutCutsOff, Connected, Working,
              Up, Connections, Stages
<1>6. QED
  BY <1>1, <1>2, <1>3, <1>4, <1>5, TaskStep, ReceiveStep, ExitStep, ShutdownTickStep
     DEF ShutdownNext

LEMMA ShutdownInitInv == ShutdownInit => ShutdownInv
<1> SUFFICES ASSUME ShutdownInit PROVE ShutdownInv
  OBVIOUS
<1>1. 0 \in 0 .. Stages(program) * StageTimeout
  <2>1. Stages(program) * StageTimeout \in Nat
    BY StageTimes DEF ShutdownInit
  <2>2. QED
    BY <2>1
<1>2. ShutdownTypeOK
  BY <1>1, StageTimes, ShutdownAssumption DEF ShutdownInit, ShutdownTypeOK
<1>3. StagesInOrder /\ TimersTell /\ FirstSignalBounds
  BY DEF ShutdownInit, StagesInOrder, TimersTell, FirstSignalBounds, Signalled, InStage, Connected
<1>4. ZeroIsGraceful /\ OnlyTimeoutCutsOff
  BY DEF ShutdownInit, ZeroIsGraceful, OnlyTimeoutCutsOff, Up
<1>5. QED
  BY <1>2, <1>3, <1>4 DEF ShutdownInv

\* Once a signal has come, the process is gone when the stages of its shutdown have had
\* their time, however many more signals come and whatever hangs: the bound of since.
THEOREM ShutdownTypeCorrect == ShutdownSpec => []ShutdownTypeOK
<1>1. ShutdownInv => ShutdownTypeOK  BY DEF ShutdownInv
<1>2. QED  BY <1>1, ShutdownInitInv, ShutdownStep, PTL DEF ShutdownSpec

\* Exit code 0 is only given when every request is answered or every job run to its
\* end, and every connection is closed (main.ts and worker.ts).
THEOREM ExitZeroIsGraceful == ShutdownSpec => []ZeroIsGraceful
<1>1. ShutdownInv => ZeroIsGraceful  BY DEF ShutdownInv
<1>2. QED  BY <1>1, ShutdownInitInv, ShutdownStep, PTL DEF ShutdownSpec

\* No shutdown, of any number at a time, closes a connection under work that somebody
\* waits for.
THEOREM ConnectionsOutliveWork == ShutdownSpec => []WorkHasItsConnections
<1>1. ShutdownInv => WorkHasItsConnections
  BY DEF ShutdownInv, StagesInOrder, WorkHasItsConnections, Connected, Working
<1>2. QED  BY <1>1, ShutdownInitInv, ShutdownStep, PTL DEF ShutdownSpec

\* A second signal never shortens the time the first one's shutdown gives to the work.
THEOREM WorkHasItsTime == ShutdownSpec => []OnlyTimeoutCutsOff
<1>1. ShutdownInv => OnlyTimeoutCutsOff  BY DEF ShutdownInv
<1>2. QED  BY <1>1, ShutdownInitInv, ShutdownStep, PTL DEF ShutdownSpec
=============================================================================
