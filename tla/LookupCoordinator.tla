------------------------- MODULE LookupCoordinator -------------------------
(***************************************************************************)
(* The single-flight lease of RedisLookupCoordinator, one coordination key.*)
(* Every Redis command is a step of its own: the SET NX EX of tryAcquire,  *)
(* the polls of waitForAvailability, and the GET and the DEL of release,   *)
(* between which the lease may expire and be granted to somebody else.     *)
(* Time is relative: the lease carries the ticks it has left, a waiter the *)
(* ticks to its deadline, a holder the ticks left of what it was granted.  *)
(***************************************************************************)
EXTENDS Integers, FiniteSets

CONSTANTS Request,      \* the callers: requests of any API process
          NoLease,      \* the Redis key is absent
          LeaseTtl,     \* LOOKUP_SINGLEFLIGHT_TTL_SECONDS, in ticks
          WaitTime,     \* LOOKUP_SINGLEFLIGHT_WAIT_MS, in ticks
          MaxLost,      \* bound: requests whose process or connection may fail
          RedisPrompt   \* whether Redis answers within a tick: no tick passes in
                        \* the middle of a release or over a waiter's deadline

ASSUME CoordinatorAssumption ==
  /\ LeaseTtl \in Nat \ {0}
  /\ WaitTime \in Nat \ {0}
  /\ MaxLost \in Nat
  /\ RedisPrompt \in BOOLEAN
  /\ NoLease \notin [token : Request, ttl : Nat]

VARIABLES
  lease,   \* the Redis key: NoLease, or the token it holds and its ttl
  call,    \* what each request has with the coordinator
  clock,   \* ticks to the deadline of a waiter, or left of a holder's grant
  lost     \* requests that crashed or had a coordinator command fail

coordVars == <<lease, call, clock, lost>>

Held(t) == [token |-> t, ttl |-> LeaseTtl]
Owns(r) == lease # NoLease /\ lease.token = r

CoordTypeOK ==
  /\ lease \in {NoLease} \cup [token : Request, ttl : 1 .. LeaseTtl]
  /\ call \in [Request -> {"idle", "waiting", "leased", "deleting"}]
  /\ clock \in [Request -> Nat]
  /\ \A r \in Request : clock[r] <= (IF call[r] = "waiting" THEN WaitTime ELSE LeaseTtl)
  /\ lost \subseteq Request

CoordInit ==
  /\ lease = NoLease
  /\ call = [r \in Request |-> "idle"]
  /\ clock = [r \in Request |-> 0]
  /\ lost = {}

Becomes(r, state, ticks) ==
  /\ call' = [call EXCEPT ![r] = state]
  /\ clock' = [clock EXCEPT ![r] = ticks]

MayLose(r) == r \notin lost /\ Cardinality(lost) < MaxLost

-----------------------------------------------------------------------------
\* Slips the code could have made, put in the place of the actions to see that the
\* properties below notice them; no action uses them.
EndWaitDeadlineMoved(r) ==
  /\ call[r] = "waiting"
  /\ \/ lease = NoLease /\ Becomes(r, "idle", 0)
     \/ lease # NoLease /\ clock[r] = 0 /\ Becomes(r, "waiting", WaitTime)
  /\ UNCHANGED <<lease, lost>>

ReleaseReadOfForeignToken(r) ==
  /\ call[r] = "leased"
  /\ IF lease # NoLease THEN Becomes(r, "deleting", clock[r]) ELSE Becomes(r, "idle", 0)
  /\ UNCHANGED <<lease, lost>>

ReleaseReadInverted(r) ==
  /\ call[r] = "leased"
  /\ IF Owns(r) THEN Becomes(r, "idle", 0) ELSE Becomes(r, "deleting", clock[r])
  /\ UNCHANGED <<lease, lost>>

TickWithoutExpiry ==
  /\ clock' = [r \in Request |-> IF clock[r] = 0 THEN 0 ELSE clock[r] - 1]
  /\ UNCHANGED <<lease, call, lost>>

-----------------------------------------------------------------------------
\* tryAcquire: SET key token EX ttl NX, answered OK or null.
Grant(r) ==
  /\ call[r] = "idle"
  /\ lease = NoLease
  /\ lease' = Held(r)
  /\ Becomes(r, "leased", LeaseTtl)
  /\ UNCHANGED lost

Refuse(r) ==
  /\ call[r] = "idle"
  /\ lease # NoLease
  /\ UNCHANGED coordVars

\* waitForAvailability: until a poll finds the key absent or the deadline has
\* passed.  A poll that finds the key changes nothing.
StartWait(r) ==
  /\ call[r] = "idle"
  /\ Becomes(r, "waiting", WaitTime)
  /\ UNCHANGED <<lease, lost>>

EndWait(r) ==
  /\ call[r] = "waiting"
  /\ clock[r] = 0 \/ lease = NoLease
  /\ Becomes(r, "idle", 0)
  /\ UNCHANGED <<lease, lost>>

\* release: GET, and DEL only if the token read is the lease's own.
ReleaseRead(r) ==
  /\ call[r] = "leased"
  /\ IF Owns(r) THEN Becomes(r, "deleting", clock[r]) ELSE Becomes(r, "idle", 0)
  /\ UNCHANGED <<lease, lost>>

ReleaseDelete(r) ==
  /\ call[r] = "deleting"
  /\ lease' = NoLease
  /\ Becomes(r, "idle", 0)
  /\ UNCHANGED lost

-----------------------------------------------------------------------------
\* A command that throws may or may not have been executed by Redis.  The
\* caller drops the lease object with the exception.
CommandFails(r) ==
  /\ MayLose(r)
  /\ lost' = lost \cup {r}
  /\ Becomes(r, "idle", 0)
  /\ \/ UNCHANGED lease
     \/ call[r] = "idle" /\ lease = NoLease /\ lease' = Held(r)
     \/ call[r] = "deleting" /\ lease # NoLease /\ lease' = NoLease

\* The process of a request dies; what it put into Redis stays there.
CallerCrashes(r) ==
  /\ MayLose(r)
  /\ lost' = lost \cup {r}
  /\ Becomes(r, "idle", 0)
  /\ UNCHANGED lease

Decrease(n) == IF n = 0 THEN 0 ELSE n - 1

CoordTick ==
  /\ RedisPrompt => \A r \in Request : /\ call[r] # "deleting"
                                       /\ call[r] = "waiting" => clock[r] > 0
  /\ lease' = IF lease = NoLease \/ lease.ttl = 1
              THEN NoLease
              ELSE [lease EXCEPT !.ttl = @ - 1]
  /\ clock' = [r \in Request |-> Decrease(clock[r])]
  /\ UNCHANGED <<call, lost>>

CoordNext ==
  \/ \E r \in Request : \/ Grant(r) \/ StartWait(r) \/ EndWait(r)
                        \/ ReleaseRead(r) \/ ReleaseDelete(r)
                        \/ CommandFails(r) \/ CallerCrashes(r)
  \/ CoordTick

\* A live process goes on with the call it has begun and time passes; nobody
\* is obliged to begin one.
CoordFairness ==
  /\ \A r \in Request : /\ WF_coordVars(EndWait(r))
                        /\ WF_coordVars(ReleaseRead(r))
                        /\ WF_coordVars(ReleaseDelete(r))
  /\ SF_coordVars(CoordTick)

CoordSpec == CoordInit /\ [][CoordNext]_coordVars /\ CoordFairness

-----------------------------------------------------------------------------
\* The key never outlives its owner's interest in it: whoever's token it holds
\* is between its SET and the end of its release, unless a failure made it
\* forget the lease.
LeaseHasOwner ==
  lease # NoLease =>
    call[lease.token] \in {"leased", "deleting"} \/ lease.token \in lost

\* A request that still has time left of the lease it was granted.
HoldsUnexpired(r) == call[r] \in {"leased", "deleting"} /\ clock[r] > 0

\* "allows only one lease holder per lookup key until release"
\* (tests/adapters/redis-lookup-coordinator.test.ts:8): no two requests hold
\* a lease that has neither expired nor been released.
OneHolder ==
  \A r, s \in Request : HoldsUnexpired(r) /\ HoldsUnexpired(s) => r = s

\* Nobody can take away the lease of a request that has time left of it.
HolderKeepsLease == \A r \in Request : HoldsUnexpired(r) => Owns(r)

\* The DEL of a release removes a key that somebody else has been granted since the GET.
StrayDelete(r) ==
  /\ call[r] = "deleting"
  /\ lease # NoLease /\ ~ Owns(r)
  /\ lease' = NoLease
  /\ ReleaseDelete(r) \/ CommandFails(r)

\* Seen by its callers, the key, the tokens and the clocks are one lease, held by
\* those who have neither released what they were granted nor let it expire.
Mutex == INSTANCE Lease WITH Caller <- Request,
                             holders <- {r \in Request : HoldsUnexpired(r)}

\* The coordinator implements the lease: nobody takes it before whoever holds it
\* has released it or its time is up, and nobody holds it for ever.
ImplementsLease == Mutex!Spec

\* A waiter gets out of waitForAvailability, whatever the holders do.
WaitEnds == \A r \in Request : call[r] = "waiting" ~> call[r] # "waiting"

\* A lease whose owner crashed or lost its connection does not stay: the key
\* leaves its token within the TTL.
AbandonedLeaseExpires ==
  \A r \in Request : Owns(r) /\ call[r] = "idle" ~> ~Owns(r)
=============================================================================
