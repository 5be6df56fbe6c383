---------------------------- MODULE MediaLookup ----------------------------
(***************************************************************************)
(* MediaLookupService.execute for one title of one tenant: any number of   *)
(* concurrent requests, the shared record in the snapshot store, the       *)
(* single-flight lease of LookupCoordinator, the metadata provider and the *)
(* refresh queue.  A request is a sequence of awaits; pc names the await   *)
(* it is in, and every step between two awaits is one action, taken jointly*)
(* with the coordinator's action where the code calls the coordinator.     *)
(***************************************************************************)
EXTENDS LookupCoordinator, Freshness

CONSTANTS ProviderOutcomes,  \* what the provider may answer in this model
          ProviderTimeout,   \* TMDB_TIMEOUT_MS and the like, in ticks
          MaxFaults,         \* bound: failing snapshot store or queue calls
          Absent,            \* no servable record in the store
          Refused            \* a record the store keeps but refuses to read

ASSUME LookupAssumption ==
  /\ ProviderOutcomes \subseteq {"record", "failure"}
  /\ ProviderTimeout \in Nat
  /\ MaxFaults \in Nat
  /\ Absent \notin Nat /\ Refused \notin Nat /\ Absent # Refused

VARIABLES
  pc,         \* the await each request is in
  elapsed,    \* fetch: ticks since the call; put: age of the fetched record
  answer,     \* what execute returned or threw
  requested,  \* requests whose enqueueRefresh succeeded
  cache,      \* under the name asked for: a record's age, Refused or Absent
  evicting,   \* reads that met a refused record and are about to delete it
  faults,     \* store and queue calls that have failed
  smooth      \* nothing has failed, been unreadable or come late so far

lookupVars == <<pc, elapsed, answer, requested, cache, evicting, faults, smooth>>
vars == <<coordVars, lookupVars>>

Ages == 0 .. ServableFor - 1
Instant == {"read", "enqueue", "acquire", "reread", "reacquire", "put",
            "fallback", "release", "delete"}   \* a Redis round trip or two
Reads == {"read", "reread", "fallback"}        \* the awaits of getLookup
InTry == {"fetch", "put", "fallback", "enqueue"}
Answers == {"none", "stale", "other"}   \* other: a fresh record, or an error

TypeOK ==
  /\ CoordTypeOK
  /\ pc \in [Request -> Instant \cup {"new", "wait", "fetch", "done", "crashed"}]
  /\ elapsed \in [Request -> Nat]
  /\ answer \in [Request -> Answers]
  /\ requested \subseteq Request
  /\ cache \in Ages \cup {Absent, Refused}
  /\ evicting \subseteq {r \in Request : pc[r] \in Reads}
  /\ faults \in 0 .. MaxFaults
  /\ smooth \in BOOLEAN

Init ==
  /\ CoordInit
  /\ pc = [r \in Request |-> "new"]
  /\ elapsed = [r \in Request |-> 0]
  /\ answer = [r \in Request |-> "none"]
  /\ requested = {}
  /\ cache \in Ages \cup {Absent, Refused}
  /\ evicting = {}
  /\ faults = 0
  /\ smooth = (cache # Refused)

-----------------------------------------------------------------------------
Cached(state) == cache \in Ages /\ StateAtAge(cache) = state

\* getLookup answers what is stored, or null; null also after it has deleted, by a
\* command of its own, a record that cachedMediaRecordSchema refused.
Hit(r, state) ==
  /\ r \notin evicting
  /\ Cached(state)
  /\ UNCHANGED <<cache, evicting>>

Miss(r) ==
  \/ /\ r \in evicting
     /\ evicting' = evicting \ {r}
     /\ cache' = Absent
  \/ /\ r \notin evicting /\ cache = Absent
     /\ UNCHANGED <<cache, evicting>>

Goto(r, label) ==
  /\ pc' = [pc EXCEPT ![r] = label]
  /\ elapsed' = [elapsed EXCEPT ![r] = 0]

\* A slip: the lookup returns without passing through the finally block.
FinallySkipped(r) == Goto(r, "done")

\* return or throw inside the try: the finally block releases a lease.
Finally(r) == Goto(r, IF call[r] = "leased" THEN "release" ELSE "done")
Conclude(r, result) == answer' = [answer EXCEPT ![r] = result]

-----------------------------------------------------------------------------
\* validateToken and consume; both refuse by throwing.
Admit(r) ==
  /\ pc[r] = "new"
  /\ \/ Goto(r, "read") /\ UNCHANGED answer
     \/ Goto(r, "done") /\ Conclude(r, "other")
  /\ UNCHANGED <<coordVars, requested, cache, evicting, faults, smooth>>

\* The GET of a getLookup has brought a record whose parse fails.
ReadRefused(r) ==
  /\ pc[r] \in Reads
  /\ cache = Refused /\ r \notin evicting
  /\ evicting' = evicting \cup {r}
  /\ UNCHANGED <<coordVars, pc, elapsed, answer, requested, cache, faults, smooth>>

\* What both reads before the fetch do with a hit.
ServeHit(r) ==
  \/ Hit(r, "fresh") /\ Goto(r, "done") /\ Conclude(r, "other")
  \/ Hit(r, "stale_but_servable") /\ Goto(r, "enqueue") /\ UNCHANGED answer

\* A request may name the title by its mediaId, which no provider knows: a miss ends
\* it.  What a request asks by matters nowhere else.
ReadCache(r) ==
  /\ pc[r] = "read"
  /\ \/ ServeHit(r)
     \/ Miss(r) /\ Goto(r, "done") /\ Conclude(r, "other")
     \/ Miss(r) /\ Goto(r, "acquire") /\ UNCHANGED answer
  /\ UNCHANGED <<coordVars, requested, faults, smooth>>

\* A slip: the lookup does not look at what tryAcquire answered.
TryAcquireIgnored(r) ==
  /\ pc[r] = "acquire"
  /\ Grant(r) \/ Refuse(r)
  /\ Goto(r, "fetch")
  /\ UNCHANGED <<answer, requested, cache, evicting, faults, smooth>>

\* A slip: a request that was refused does not wait.
TryAcquireWithoutWait(r) ==
  /\ pc[r] = "acquire"
  /\ \/ Grant(r) /\ Goto(r, "fetch")
     \/ Refuse(r) /\ Goto(r, "reread")
  /\ UNCHANGED <<answer, requested, cache, evicting, faults, smooth>>

TryAcquire(r) ==
  /\ pc[r] = "acquire"
  /\ \/ Grant(r) /\ Goto(r, "fetch")
     \/ lease # NoLease /\ StartWait(r) /\ Goto(r, "wait")
  /\ UNCHANGED <<answer, requested, cache, evicting, faults, smooth>>

WaitForAvailability(r) ==
  /\ pc[r] = "wait"
  /\ EndWait(r)
  /\ Goto(r, "reread")
  /\ UNCHANGED <<answer, requested, cache, evicting, faults, smooth>>

ReadAgain(r) ==
  /\ pc[r] = "reread"
  /\ \/ ServeHit(r)
     \/ Miss(r) /\ Goto(r, "reacquire") /\ UNCHANGED answer
  /\ UNCHANGED <<coordVars, requested, faults, smooth>>

\* The second tryAcquire: the fetch follows whether or not it is granted.
TryAgain(r) ==
  /\ pc[r] = "reacquire"
  /\ Grant(r) \/ Refuse(r)
  /\ Goto(r, "fetch")
  /\ UNCHANGED <<answer, requested, cache, evicting, faults, smooth>>

\* lookupByIdentifier answers a record, null (thrown as NotFoundError inside
\* the try) or throws.  answer keeps what the catch block would rethrow.
ProviderAnswers(r) ==
  /\ pc[r] = "fetch"
  /\ \E outcome \in ProviderOutcomes :
       /\ IF outcome = "record" THEN Goto(r, "put") /\ UNCHANGED answer
                                ELSE Goto(r, "fallback") /\ Conclude(r, "other")
       /\ smooth' = (smooth /\ outcome = "record")
  /\ UNCHANGED <<coordVars, requested, cache, evicting, faults>>

\* What a put leaves under the name the request asked by: the record; a record that
\* getLookup will refuse, as putSnapshot parses nothing; or what was there, if the
\* provider's record lacks the name.
PutLeaves(r) ==
  {IF elapsed[r] < ServableFor THEN elapsed[r] ELSE Absent, Refused, cache}

PutSnapshot(r) ==
  /\ pc[r] = "put"
  /\ cache' \in PutLeaves(r)
  /\ smooth' = (smooth /\ cache' = elapsed[r])
  /\ Finally(r)
  /\ Conclude(r, "other")
  /\ UNCHANGED <<coordVars, requested, evicting, faults>>

\* A slip: the catch block answers from the stale record and asks for no refresh.
FallbackWithoutRefresh(r) ==
  /\ pc[r] = "fallback"
  /\ Finally(r)
  /\ \/ Hit(r, "stale_but_servable") /\ Conclude(r, "stale")
     \/ (Hit(r, "fresh") \/ Miss(r)) /\ UNCHANGED answer
  /\ UNCHANGED <<coordVars, requested, faults, smooth>>

\* A slip: the catch block reads until there is something to serve.
FallbackPolling(r) ==
  /\ pc[r] = "fallback"
  /\ Hit(r, "stale_but_servable")
  /\ Goto(r, "enqueue")
  /\ UNCHANGED <<coordVars, answer, requested, faults, smooth>>

\* The catch block: only a stale record replaces the error.
Fallback(r) ==
  /\ pc[r] = "fallback"
  /\ \/ Hit(r, "stale_but_servable") /\ Goto(r, "enqueue")
     \/ (Hit(r, "fresh") \/ Miss(r)) /\ Finally(r)
  /\ UNCHANGED <<coordVars, answer, requested, faults, smooth>>

EnqueueRefresh(r) ==
  /\ pc[r] = "enqueue"
  /\ requested' = requested \cup {r}
  /\ Finally(r)
  /\ Conclude(r, "stale")
  /\ UNCHANGED <<coordVars, cache, evicting, faults, smooth>>

Release(r) ==
  /\ \/ /\ pc[r] = "release"
        /\ ReleaseRead(r)
        /\ Goto(r, IF Owns(r) THEN "delete" ELSE "done")
     \/ /\ pc[r] = "delete"
        /\ ReleaseDelete(r)
        /\ Goto(r, "done")
  /\ UNCHANGED <<answer, requested, cache, evicting, faults, smooth>>

-----------------------------------------------------------------------------
\* A coordinator command throws: before the try it ends the lookup, in the
\* finally block it replaces whatever the lookup was about to return.
CoordinatorFails(r) ==
  /\ pc[r] \in {"acquire", "wait", "reacquire", "release", "delete"}
  /\ CommandFails(r)
  /\ Goto(r, "done")
  /\ Conclude(r, "other")
  /\ smooth' = FALSE
  /\ UNCHANGED <<requested, cache, evicting, faults>>

\* A store or queue call throws.  A failed put may have written the record, a failed
\* eviction may have deleted one; a failed enqueue, even of a stale record at hand,
\* fails the lookup.
CallFails(r) ==
  /\ faults < MaxFaults
  /\ faults' = faults + 1
  /\ Conclude(r, "other")
  /\ smooth' = FALSE
  /\ \/ pc[r] \in {"read", "reread"} /\ Goto(r, "done")
     \/ pc[r] \in {"fallback", "enqueue"} /\ Finally(r)
     \/ pc[r] = "put" /\ Goto(r, "fallback")
  /\ cache' \in {cache} \cup (IF pc[r] = "put" THEN PutLeaves(r) ELSE {})
                        \cup (IF r \in evicting THEN {Absent} ELSE {})
  /\ evicting' = evicting \ {r}
  /\ UNCHANGED <<coordVars, requested>>

Crash(r) ==
  /\ pc[r] \notin {"new", "done", "crashed"}
  /\ CallerCrashes(r)
  /\ Goto(r, "crashed")
  /\ evicting' = evicting \ {r}
  /\ smooth' = FALSE
  /\ UNCHANGED <<answer, requested, cache, faults>>

\* The refresh worker, or a lookup by another identifier of the same title,
\* stores a newly fetched record, readable or not.
OtherWriterPuts ==
  /\ cache' \in {0, Refused} \ {cache}
  /\ smooth' = (smooth /\ cache' # Refused)
  /\ UNCHANGED <<coordVars, pc, elapsed, answer, requested, evicting, faults>>

\* A tick passes in the middle of a Redis round trip, or over a deadline that a poll
\* should have noticed.
RedisLate ==
  \E r \in Request : pc[r] \in Instant \/ (pc[r] = "wait" /\ clock[r] = 0)

\* A provider call has taken as long as a follower waits or the lease lasts.
ProviderLate ==
  \E r \in Request : pc[r] = "fetch" /\ (elapsed'[r] >= WaitTime \/ elapsed'[r] >= LeaseTtl)

\* Time passes.  The provider client aborts a call at its timeout.
Tick ==
  /\ RedisPrompt => ~ RedisLate
  /\ \A r \in Request : pc[r] = "fetch" => elapsed[r] < ProviderTimeout
  /\ CoordTick
  /\ elapsed' = [r \in Request |->
                   IF pc[r] = "fetch" \/ (pc[r] = "put" /\ elapsed[r] < ServableFor)
                   THEN elapsed[r] + 1 ELSE elapsed[r]]
  /\ smooth' = (smooth /\ ~ RedisLate /\ ~ ProviderLate)
  /\ cache' \in (IF cache = Refused THEN {Refused, Absent}
                 ELSE IF cache \in Ages /\ cache + 1 \in Ages THEN {cache + 1}
                 ELSE {Absent})
  /\ UNCHANGED <<pc, answer, requested, evicting, faults>>

Proceed(r) ==
  \/ Admit(r) \/ ReadRefused(r) \/ ReadCache(r) \/ TryAcquire(r) \/ WaitForAvailability(r)
  \/ ReadAgain(r) \/ TryAgain(r) \/ ProviderAnswers(r) \/ PutSnapshot(r)
  \/ Fallback(r) \/ EnqueueRefresh(r) \/ Release(r)

Next ==
  \/ \E r \in Request : \/ Proceed(r)
                        \/ CoordinatorFails(r) \/ CallFails(r) \/ Crash(r)
  \/ OtherWriterPuts
  \/ Tick

\* An await settles: Redis answers or the client gives up, the provider call
\* is aborted at its timeout; and time does not stop.
Fairness == (\A r \in Request : WF_vars(Proceed(r))) /\ SF_vars(Tick)

Spec == Init /\ [][Next]_vars /\ Fairness

-----------------------------------------------------------------------------
\* Every path out of execute, success, error or rethrow, has released the
\* lease: the key of a finished request is gone, unless its coordinator
\* connection failed.
ReleasedOnEveryPath ==
  \A r \in Request : pc[r] = "done" /\ Owns(r) => r \in lost

\* A caller that was given a stale record has had its refresh requested, on
\* all three paths that can serve one (lines 104, 142 and 207).
StaleServedIsRefreshed ==
  \A r \in Request : pc[r] = "done" /\ answer[r] = "stale" => r \in requested

\* Whatever the provider, the other requests and the lease do, a request that
\* was admitted ends.
EveryRequestEnds ==
  \A r \in Request : pc[r] = "read" ~> pc[r] \in {"done", "crashed"}

\* "execute provider retrieval under single-flight"
\* (.ai/04-architecture-overview.md:46), and what it takes to break it: two requests
\* are in a provider call together only after one of the disturbances above.
SingleFlight ==
  smooth =>
    \A r, s \in Request : pc[r] = "fetch" /\ pc[s] = "fetch" => r = s

\* A request that found the lease taken is served from what the holder stored, and
\* gets as far as its own second tryAcquire only after such a disturbance.
FollowersAreServed == smooth => \A r \in Request : pc[r] # "reacquire"

\* "If fresh cached data exists, return it" (.ai/24-error-handling.md:24): the
\* catch block never rethrows while the store has a fresh record.
FreshIsServed ==
  [][\A r \in Request :
       pc[r] = "fallback" /\ pc'[r] \in {"release", "done"} /\ faults' = faults
         => ~ Cached("fresh")]_vars
=============================================================================
