------------------------- MODULE MediaLookup_proofs -------------------------
(***************************************************************************)
(* The single-flight lease and the lookups that use it, for any number of  *)
(* requests and any timing: the lease always has an owner, and excludes    *)
(* until a release deletes its successor's key; execute gives its lease    *)
(* back on every path and refreshes what it serves stale; and, until       *)
(* something fails, comes late or cannot be read back, it makes one        *)
(* provider call at a time, however long the provider may take.            *)
(***************************************************************************)
EXTENDS MediaLookup, TLAPS

\* The ticks left in Redis and the ticks left of the owner's grant agree.
GrantMatchesKey ==
  \A r \in Request :
    Owns(r) /\ call[r] \in {"leased", "deleting"} => clock[r] = lease.ttl

CoordInv == CoordTypeOK /\ LeaseHasOwner /\ GrantMatchesKey

\* The values the coordinator's variables take are preserved by every step.
LEMMA CoordTypeStep ==
  ASSUME CoordTypeOK, [CoordNext]_coordVars
  PROVE  CoordTypeOK'
<1> USE CoordinatorAssumption DEF CoordTypeOK
<1>1. ASSUME NEW r \in Request, Grant(r) PROVE CoordTypeOK'
  BY <1>1 DEF Grant, Becomes, Held
<1>2. ASSUME NEW r \in Request, StartWait(r) PROVE CoordTypeOK'
  BY <1>2 DEF StartWait, Becomes
<1>3. ASSUME NEW r \in Request, EndWait(r) PROVE CoordTypeOK'
  BY <1>3 DEF EndWait, Becomes
<1>4. ASSUME NEW r \in Request, ReleaseRead(r) PROVE CoordTypeOK'
  BY <1>4 DEF ReleaseRead, Becomes
<1>5. ASSUME NEW r \in Request, ReleaseDelete(r) PROVE CoordTypeOK'
  BY <1>5 DEF ReleaseDelete, Becomes
<1>6. ASSUME NEW r \in Request, CommandFails(r) PROVE CoordTypeOK'
  BY <1>6 DEF CommandFails, Becomes, Held
<1>7. ASSUME NEW r \in Request, CallerCrashes(r) PROVE CoordTypeOK'
  BY <1>7 DEF CallerCrashes, Becomes
<1>8. CASE CoordTick
  BY <1>8 DEF CoordTick, Decrease
<1>9. CASE UNCHANGED coordVars
  BY <1>9 DEF coordVars
<1>10. QED
  BY <1>1, <1>2, <1>3, <1>4, <1>5, <1>6, <1>7, <1>8, <1>9 DEF CoordNext

\* No step orphans the key without a failure that lost records.
LEMMA OwnerStep ==
  ASSUME CoordTypeOK, LeaseHasOwner, [CoordNext]_coordVars
  PROVE  LeaseHasOwner'
<1> USE CoordinatorAssumption DEF CoordTypeOK, LeaseHasOwner
<1>1. ASSUME NEW r \in Request, Grant(r) PROVE LeaseHasOwner'
  BY <1>1 DEF Grant, Becomes, Held
<1>2. ASSUME NEW r \in Request, StartWait(r) PROVE LeaseHasOwner'
  BY <1>2 DEF StartWait, Becomes
<1>3. ASSUME NEW r \in Request, EndWait(r) PROVE LeaseHasOwner'
  BY <1>3 DEF EndWait, Becomes
<1>4. ASSUME NEW r \in Request, ReleaseRead(r) PROVE LeaseHasOwner'
  BY <1>4 DEF ReleaseRead, Becomes, Owns
<1>5. ASSUME NEW r \in Request, ReleaseDelete(r) PROVE LeaseHasOwner'
  BY <1>5 DEF ReleaseDelete
<1>6. ASSUME NEW r \in Request, CommandFails(r) PROVE LeaseHasOwner'
  BY <1>6 DEF CommandFails, Becomes, Held
<1>7. ASSUME NEW r \in Request, CallerCrashes(r) PROVE LeaseHasOwner'
  BY <1>7 DEF CallerCrashes, Becomes
<1>8. CASE CoordTick
  BY <1>8 DEF CoordTick
<1>9. CASE UNCHANGED coordVars
  BY <1>9 DEF coordVars
<1>10. QED
  BY <1>1, <1>2, <1>3, <1>4, <1>5, <1>6, <1>7, <1>8, <1>9 DEF CoordNext

LEMMA GrantStep ==
  ASSUME CoordTypeOK, GrantMatchesKey, [CoordNext]_coordVars
  PROVE  GrantMatchesKey'
<1> USE CoordinatorAssumption DEF CoordTypeOK, GrantMatchesKey, Owns
<1>1. ASSUME NEW r \in Request, Grant(r) PROVE GrantMatchesKey'
  BY <1>1 DEF Grant, Becomes, Held
<1>2. ASSUME NEW r \in Request, StartWait(r) PROVE GrantMatchesKey'
  BY <1>2 DEF StartWait, Becomes
<1>3. ASSUME NEW r \in Request, EndWait(r) PROVE GrantMatchesKey'
  BY <1>3 DEF EndWait, Becomes
<1>4. ASSUME NEW r \in Request, ReleaseRead(r) PROVE GrantMatchesKey'
  BY <1>4 DEF ReleaseRead, Becomes
<1>5. ASSUME NEW r \in Request, ReleaseDelete(r) PROVE GrantMatchesKey'
  BY <1>5 DEF ReleaseDelete
<1>6. ASSUME NEW r \in Request, CommandFails(r) PROVE GrantMatchesKey'
  BY <1>6 DEF CommandFails, Becomes, Held
<1>7. ASSUME NEW r \in Request, CallerCrashes(r) PROVE GrantMatchesKey'
  BY <1>7 DEF CallerCrashes, Becomes
<1>8. CASE CoordTick
  BY <1>8 DEF CoordTick, Decrease
<1>9. CASE UNCHANGED coordVars
  BY <1>9 DEF coordVars
<1>10. QED
  BY <1>1, <1>2, <1>3, <1>4, <1>5, <1>6, <1>7, <1>8, <1>9 DEF CoordNext

LEMMA CoordInitInv == CoordInit => CoordInv
  BY CoordinatorAssumption
     DEF CoordInit, CoordInv, CoordTypeOK, LeaseHasOwner, GrantMatchesKey, Owns

LEMMA CoordStepInv == CoordInv /\ [CoordNext]_coordVars => CoordInv'
  BY CoordTypeStep, OwnerStep, GrantStep DEF CoordInv

\* The coordinator's variables keep their types, and the key is never left
\* behind by a release that returned (redis-lookup-coordinator.ts:55-60).
THEOREM LeaseAlwaysOwned == CoordSpec => [](CoordTypeOK /\ LeaseHasOwner)
<1>1. CoordInv => CoordTypeOK /\ LeaseHasOwner  BY DEF CoordInv
<1>2. QED  BY <1>1, CoordInitInv, CoordStepInv, PTL DEF CoordSpec

-----------------------------------------------------------------------------
\* As long as every DEL removes the sender's own key, or none, a holder's key is in place.
ExclusionInv == CoordInv /\ HolderKeepsLease

LEMMA ExclusionStep ==
  ASSUME ExclusionInv, [CoordNext]_coordVars, [\A r \in Request : ~ StrayDelete(r)]_coordVars
  PROVE  ExclusionInv'
<1>0. CoordInv'
  BY CoordStepInv DEF ExclusionInv
<1> SUFFICES HolderKeepsLease'
  BY <1>0 DEF ExclusionInv
<1> USE CoordinatorAssumption DEF ExclusionInv, CoordInv, CoordTypeOK,
        GrantMatchesKey, HolderKeepsLease, HoldsUnexpired, Owns
<1>1. ASSUME NEW r \in Request, Grant(r) PROVE HolderKeepsLease'
  BY <1>1 DEF Grant, Becomes, Held
<1>2. ASSUME NEW r \in Request, StartWait(r) PROVE HolderKeepsLease'
  BY <1>2 DEF StartWait, Becomes
<1>3. ASSUME NEW r \in Request, EndWait(r) PROVE HolderKeepsLease'
  BY <1>3 DEF EndWait, Becomes
<1>4. ASSUME NEW r \in Request, ReleaseRead(r) PROVE HolderKeepsLease'
  BY <1>4 DEF ReleaseRead, Becomes
<1>5. ASSUME NEW r \in Request, ReleaseDelete(r) PROVE HolderKeepsLease'
  <2>1. lease = NoLease \/ lease.token = r
    BY <1>5 DEF ReleaseDelete, Becomes, StrayDelete, coordVars
  <2>2. QED
    BY <1>5, <2>1 DEF ReleaseDelete, Becomes
<1>6. ASSUME NEW r \in Request, CommandFails(r) PROVE HolderKeepsLease'
  <2>1. CASE UNCHANGED lease
    BY <1>6, <2>1 DEF CommandFails, Becomes
  <2>2. CASE lease = NoLease /\ lease' = Held(r)
    BY <1>6, <2>2 DEF CommandFails, Becomes, Held
  <2>3. CASE call[r] = "deleting" /\ lease # NoLease /\ lease' = NoLease
    <3>1. lease.token = r
      BY <1>6, <2>3 DEF StrayDelete, coordVars
    <3>2. QED
      BY <1>6, <2>3, <3>1 DEF CommandFails, Becomes
  <2>4. QED
    BY <1>6, <2>1, <2>2, <2>3 DEF CommandFails
<1>7. ASSUME NEW r \in Request, CallerCrashes(r) PROVE HolderKeepsLease'
  BY <1>7 DEF CallerCrashes, Becomes
<1>8. CASE CoordTick
  BY <1>8 DEF CoordTick, Decrease
<1>9. CASE UNCHANGED coordVars
  BY <1>9 DEF coordVars
<1>10. QED
  BY <1>1, <1>2, <1>3, <1>4, <1>5, <1>6, <1>7, <1>8, <1>9 DEF CoordNext

LEMMA ExclusionInit == CoordInit => ExclusionInv
  BY CoordInitInv DEF CoordInit, ExclusionInv, HolderKeepsLease, HoldsUnexpired

\* "allows only one lease holder per lookup key until release"
\* (tests/adapters/redis-lookup-coordinator.test.ts:8), for every number of callers, every
\* crash, failure and delay: the one thing that can break it is a release whose key
\* expired between its GET and its DEL (redis-lookup-coordinator.ts:55-60) and which
\* then deletes its successor's.
THEOREM OnlyStrayDeletesBreakExclusion ==
  CoordSpec /\ [][\A r \in Request : ~ StrayDelete(r)]_coordVars
    => [](OneHolder /\ HolderKeepsLease)
<1>1. ExclusionInv => OneHolder /\ HolderKeepsLease
  BY DEF ExclusionInv, OneHolder, HolderKeepsLease, Owns
<1>2. QED
  BY <1>1, ExclusionInit, ExclusionStep, PTL DEF CoordSpec

-----------------------------------------------------------------------------
\* Only a grant adds a holder, and it finds the key absent, so that by ExclusionInv
\* nobody else has time left.
LEMMA MutexStep ==
  ASSUME ExclusionInv, [CoordNext]_coordVars
  PROVE  [Mutex!Next]_{r \in Request : HoldsUnexpired(r)}
<1> DEFINE H == {r \in Request : HoldsUnexpired(r)}
<1> USE CoordinatorAssumption DEF ExclusionInv, CoordInv, CoordTypeOK,
        HolderKeepsLease, HoldsUnexpired, Owns
<1>0. \A r, s \in H : r = s
  OBVIOUS
<1>a. ASSUME H' \subseteq H PROVE [Mutex!Next]_H
  BY <1>0, <1>a DEF Mutex!Next, Mutex!GiveUp
<1>1. ASSUME NEW r \in Request, Grant(r) PROVE [Mutex!Next]_H
  <2>1. H = {}
    BY <1>1 DEF Grant
  <2>2. H' = {r}
    BY <1>1, <2>1 DEF Grant, Becomes
  <2>3. QED
    BY <2>1, <2>2 DEF Mutex!Next, Mutex!Take
<1>2. ASSUME NEW r \in Request, StartWait(r) PROVE H' \subseteq H
  BY <1>2 DEF StartWait, Becomes
<1>3. ASSUME NEW r \in Request, EndWait(r) PROVE H' \subseteq H
  BY <1>3 DEF EndWait, Becomes
<1>4. ASSUME NEW r \in Request, ReleaseRead(r) PROVE H' \subseteq H
  BY <1>4 DEF ReleaseRead, Becomes
<1>5. ASSUME NEW r \in Request, ReleaseDelete(r) PROVE H' \subseteq H
  BY <1>5 DEF ReleaseDelete, Becomes
<1>6. ASSUME NEW r \in Request, CommandFails(r) PROVE H' \subseteq H
  BY <1>6 DEF CommandFails, Becomes
<1>7. ASSUME NEW r \in Request, CallerCrashes(r) PROVE H' \subseteq H
  BY <1>7 DEF CallerCrashes, Becomes
<1>8. ASSUME CoordTick PROVE H' \subseteq H
  BY <1>8 DEF CoordTick, Decrease
<1>9. ASSUME UNCHANGED coordVars PROVE H' \subseteq H
  BY <1>9 DEF coordVars
<1>10. QED
  BY <1>a, <1>1, <1>2, <1>3, <1>4, <1>5, <1>6, <1>7, <1>8, <1>9 DEF CoordNext

\* The coordinator implements the abstract lease, but for its liveness: what its
\* callers see of it is taken only when nobody has it (ImplementsLease), until a
\* release has deleted its successor's key.
THEOREM LeaseImplemented ==
  CoordSpec /\ [][\A r \in Request : ~ StrayDelete(r)]_coordVars => Mutex!Exclusive
<1>1. CoordInit => Mutex!Init
  BY DEF CoordInit, HoldsUnexpired, Mutex!Init
<1>2. ExclusionInv /\ [CoordNext]_coordVars => [Mutex!Next]_{r \in Request : HoldsUnexpired(r)}
  BY MutexStep
<1>3. QED
  BY <1>1, <1>2, ExclusionInit, ExclusionStep, PTL DEF CoordSpec, Mutex!Exclusive

-----------------------------------------------------------------------------
\* The constants' facts the arithmetic below needs.
LEMMA ServableIsPositive == ServableFor \in Nat \ {0}
<1>1. RecordTtl + StaleServeWindow \in Nat \ {0}
  BY ConfigAssumption DEF LoadConfigAccepts
<1>2. \A m, n \in Nat \ {0} : m * n \in Nat \ {0}
  OBVIOUS
<1>3. QED
  BY <1>1, <1>2, SecondAssumption DEF ServableFor

-----------------------------------------------------------------------------
\* A lookup step does with the lease what some coordinator step does, or
\* nothing.
LEMMA StepIsCoordStep == [Next]_vars => [CoordNext]_coordVars
<1> SUFFICES ASSUME [Next]_vars
             PROVE  CoordNext \/ UNCHANGED coordVars
  OBVIOUS
<1>1. ASSUME NEW r \in Request, Proceed(r) PROVE CoordNext \/ UNCHANGED coordVars
  <2>1. CASE Admit(r) \/ ReadRefused(r) \/ ReadCache(r) \/ ReadAgain(r) \/ ProviderAnswers(r)
             \/ PutSnapshot(r) \/ Fallback(r) \/ EnqueueRefresh(r)
    BY <2>1 DEF Admit, ReadRefused, ReadCache, ReadAgain, ProviderAnswers, PutSnapshot,
                Fallback, EnqueueRefresh
  <2>2. CASE TryAcquire(r)
    BY <2>2 DEF TryAcquire, CoordNext
  <2>3. CASE WaitForAvailability(r)
    BY <2>3 DEF WaitForAvailability, CoordNext
  <2>4. CASE TryAgain(r)
    BY <2>4 DEF TryAgain, Refuse, CoordNext
  <2>5. CASE Release(r)
    BY <2>5 DEF Release, CoordNext
  <2>6. QED
    BY <1>1, <2>1, <2>2, <2>3, <2>4, <2>5 DEF Proceed
<1>2. ASSUME NEW r \in Request, CoordinatorFails(r) PROVE CoordNext
  BY <1>2 DEF CoordinatorFails, CoordNext
<1>3. ASSUME NEW r \in Request, CallFails(r) PROVE UNCHANGED coordVars
  BY <1>3 DEF CallFails
<1>4. ASSUME NEW r \in Request, Crash(r) PROVE CoordNext
  BY <1>4 DEF Crash, CoordNext
<1>5. CASE OtherWriterPuts
  BY <1>5 DEF OtherWriterPuts
<1>6. CASE Tick
  BY <1>6 DEF Tick, CoordNext
<1>7. CASE UNCHANGED vars
  BY <1>7 DEF vars
<1>8. QED
  BY <1>1, <1>2, <1>3, <1>4, <1>5, <1>6, <1>7 DEF Next

-----------------------------------------------------------------------------
LEMMA TypeStep ==
  ASSUME TypeOK, [Next]_vars
  PROVE  TypeOK'
<1>0. CoordTypeOK'
  BY StepIsCoordStep, CoordTypeStep DEF TypeOK
<1> USE ServableIsPositive, LookupAssumption DEF TypeOK, Ages, Instant, Reads, Answers
<1>1. ASSUME NEW r \in Request, Proceed(r) PROVE TypeOK'
  <2> USE <1>0 DEF Goto
  <2>1. CASE Admit(r)
    BY <2>1 DEF Admit, Conclude
  <2>2. CASE ReadCache(r)
    BY <2>2 DEF ReadCache, ServeHit, Hit, Miss, Conclude
  <2>3. CASE TryAcquire(r)
    BY <2>3 DEF TryAcquire
  <2>4. CASE WaitForAvailability(r)
    BY <2>4 DEF WaitForAvailability
  <2>5. CASE ReadAgain(r)
    BY <2>5 DEF ReadAgain, ServeHit, Hit, Miss, Conclude
  <2>6. CASE TryAgain(r)
    BY <2>6 DEF TryAgain
  <2>7. CASE ProviderAnswers(r)
    BY <2>7 DEF ProviderAnswers, Conclude
  <2>8. CASE PutSnapshot(r)
    <3>1. cache' \in Ages \cup {Absent, Refused}
      BY <2>8 DEF PutSnapshot, PutLeaves
    <3>2. QED
      BY <2>8, <3>1 DEF PutSnapshot, Finally, Conclude
  <2>9. CASE Fallback(r)
    BY <2>9 DEF Fallback, Finally, Hit, Miss
  <2>10. CASE EnqueueRefresh(r)
    BY <2>10 DEF EnqueueRefresh, Finally, Conclude
  <2>11. CASE Release(r)
    BY <2>11 DEF Release
  <2>12. CASE ReadRefused(r)
    BY <2>12 DEF ReadRefused
  <2>13. QED
    BY <1>1, <2>1, <2>2, <2>3, <2>4, <2>5, <2>6, <2>7, <2>8, <2>9, <2>10, <2>11, <2>12
       DEF Proceed
<1>2. ASSUME NEW r \in Request, CoordinatorFails(r) PROVE TypeOK'
  BY <1>0, <1>2 DEF CoordinatorFails, Goto, Conclude
<1>3. ASSUME NEW r \in Request, CallFails(r) PROVE TypeOK'
  <2>1. cache' \in Ages \cup {Absent, Refused}
    BY <1>3 DEF CallFails, PutLeaves
  <2>2. faults' \in 0 .. MaxFaults
    BY <1>3 DEF CallFails
  <2>3. QED
    <3>1. pc'[r] \in Instant \cup {"done"}
      BY <1>3 DEF CallFails, Goto, Finally
    <3>2. /\ pc' = [pc EXCEPT ![r] = pc'[r]]
          /\ elapsed' \in [Request -> Nat] /\ answer' \in [Request -> Answers]
      BY <1>3 DEF CallFails, Goto, Finally, Conclude
    <3>3. evicting' = evicting \ {r} /\ UNCHANGED requested /\ smooth' \in BOOLEAN
      BY <1>3 DEF CallFails
    <3>4. QED
      BY <1>0, <2>1, <2>2, <3>1, <3>2, <3>3
<1>4. ASSUME NEW r \in Request, Crash(r) PROVE TypeOK'
  BY <1>0, <1>4 DEF Crash, Goto
<1>5. CASE OtherWriterPuts
  BY <1>0, <1>5 DEF OtherWriterPuts
<1>6. CASE Tick
  BY <1>0, <1>6 DEF Tick
<1>7. CASE UNCHANGED vars
  BY <1>0, <1>7 DEF vars, lookupVars
<1>8. QED
  BY <1>1, <1>2, <1>3, <1>4, <1>5, <1>6, <1>7 DEF Next

-----------------------------------------------------------------------------
\* Where a request with a lease, or in a wait, can be in execute.  The try
\* block and its finally are what keeps this invariant.
CallMatchesPc ==
  \A r \in Request :
    /\ call[r] = "waiting" => pc[r] = "wait"
    /\ call[r] = "leased" => pc[r] \in InTry \cup {"release"}
    /\ call[r] = "deleting" => pc[r] = "delete"

LookupInv == TypeOK /\ LeaseHasOwner /\ CallMatchesPc

LEMMA CallMatchesPcStep ==
  ASSUME TypeOK, CallMatchesPc, [Next]_vars
  PROVE  CallMatchesPc'
<1> USE DEF CallMatchesPc, TypeOK, CoordTypeOK, InTry
<1>1. ASSUME NEW r \in Request, Proceed(r) PROVE CallMatchesPc'
  <2> USE DEF Goto
  <2>1. CASE Admit(r)
    BY <2>1 DEF Admit, coordVars
  <2>2. CASE ReadCache(r)
    BY <2>2 DEF ReadCache, ServeHit, coordVars
  <2>3. CASE TryAcquire(r)
    BY <2>3 DEF TryAcquire, Grant, StartWait, Becomes
  <2>4. CASE WaitForAvailability(r)
    BY <2>4 DEF WaitForAvailability, EndWait, Becomes
  <2>5. CASE ReadAgain(r)
    BY <2>5 DEF ReadAgain, ServeHit, coordVars
  <2>6. CASE TryAgain(r)
    BY <2>6 DEF TryAgain, Grant, Refuse, Becomes, coordVars
  <2>7. CASE ProviderAnswers(r)
    BY <2>7 DEF ProviderAnswers, coordVars
  <2>8. CASE PutSnapshot(r)
    BY <2>8 DEF PutSnapshot, Finally, coordVars
  <2>9. CASE Fallback(r)
    BY <2>9 DEF Fallback, Finally, coordVars
  <2>10. CASE EnqueueRefresh(r)
    BY <2>10 DEF EnqueueRefresh, Finally, coordVars
  <2>11. CASE Release(r)
    BY <2>11 DEF Release, ReleaseRead, ReleaseDelete, Becomes
  <2>12. CASE ReadRefused(r)
    BY <2>12 DEF ReadRefused, coordVars
  <2>13. QED
    BY <1>1, <2>1, <2>2, <2>3, <2>4, <2>5, <2>6, <2>7, <2>8, <2>9, <2>10, <2>11, <2>12
       DEF Proceed
<1>2. ASSUME NEW r \in Request, CoordinatorFails(r) PROVE CallMatchesPc'
  BY <1>2 DEF CoordinatorFails, CommandFails, Becomes, Goto
<1>3. ASSUME NEW r \in Request, CallFails(r) PROVE CallMatchesPc'
  BY <1>3 DEF CallFails, Finally, Goto, coordVars
<1>4. ASSUME NEW r \in Request, Crash(r) PROVE CallMatchesPc'
  BY <1>4 DEF Crash, CallerCrashes, Becomes, Goto
<1>5. CASE OtherWriterPuts
  BY <1>5 DEF OtherWriterPuts, coordVars
<1>6. CASE Tick
  BY <1>6 DEF Tick, CoordTick
<1>7. CASE UNCHANGED vars
  BY <1>7 DEF vars, coordVars, lookupVars
<1>8. QED
  BY <1>1, <1>2, <1>3, <1>4, <1>5, <1>6, <1>7 DEF Next

LEMMA InitInv == Init => LookupInv
<1> SUFFICES ASSUME Init PROVE LookupInv
  OBVIOUS
<1>1. CoordTypeOK /\ LeaseHasOwner
  BY CoordInitInv DEF Init, CoordInv
<1>2. TypeOK
  BY <1>1, LookupAssumption DEF Init, TypeOK, Instant, Answers
<1>3. CallMatchesPc
  BY DEF Init, CoordInit, CallMatchesPc
<1>4. QED
  BY <1>1, <1>2, <1>3 DEF LookupInv

LEMMA StepInv == LookupInv /\ [Next]_vars => LookupInv'
<1> SUFFICES ASSUME LookupInv, [Next]_vars PROVE LookupInv'
  OBVIOUS
<1>1. TypeOK'
  BY TypeStep DEF LookupInv
<1>2. LeaseHasOwner'
  BY StepIsCoordStep, OwnerStep DEF LookupInv, TypeOK
<1>3. CallMatchesPc'
  BY CallMatchesPcStep DEF LookupInv
<1>4. QED
  BY <1>1, <1>2, <1>3 DEF LookupInv

\* Every variable of the lookup service keeps its type.
THEOREM TypeCorrect == Spec => []TypeOK
<1>1. LookupInv => TypeOK  BY DEF LookupInv
<1>2. QED  BY <1>1, InitInv, StepInv, PTL DEF Spec

\* However execute ends (hit, provider answer, stale fallback, rethrow), its
\* key is gone from Redis unless the coordinator itself failed it
\* (media-lookup-service.ts:156-230).
THEOREM LeaseReleased == Spec => []ReleasedOnEveryPath
<1>1. LookupInv => ReleasedOnEveryPath
  BY DEF LookupInv, TypeOK, CoordTypeOK, CallMatchesPc, LeaseHasOwner,
         ReleasedOnEveryPath, Owns, InTry
<1>2. QED  BY <1>1, InitInv, StepInv, PTL DEF Spec

-----------------------------------------------------------------------------
\* A step of a lookup changes the await and the answer of that lookup only.
LEMMA OneRequestMoves ==
  ASSUME TypeOK, NEW r \in Request,
         Proceed(r) \/ CoordinatorFails(r) \/ CallFails(r) \/ Crash(r)
  PROVE  \A q \in Request : q # r =>
           pc'[q] = pc[q] /\ elapsed'[q] = elapsed[q] /\ answer'[q] = answer[q]
<1> USE DEF TypeOK, Goto, Conclude, Finally, ServeHit
<1>1. CASE Admit(r) \/ ReadRefused(r) \/ ReadCache(r) \/ TryAcquire(r) \/ WaitForAvailability(r) \/ ReadAgain(r)
  BY <1>1 DEF Admit, ReadRefused, ReadCache, TryAcquire, WaitForAvailability, ReadAgain
<1>2. CASE TryAgain(r) \/ ProviderAnswers(r) \/ PutSnapshot(r) \/ Fallback(r)
  BY <1>2 DEF TryAgain, ProviderAnswers, PutSnapshot, Fallback
<1>3. CASE EnqueueRefresh(r) \/ Release(r) \/ CoordinatorFails(r) \/ CallFails(r) \/ Crash(r)
  BY <1>3 DEF EnqueueRefresh, Release, CoordinatorFails, CallFails, Crash
<1>4. QED
  BY <1>1, <1>2, <1>3 DEF Proceed

\* Only the enqueue of a refresh concludes with a stale record.
StaleAfterEnqueue == \A r \in Request : answer[r] = "stale" => r \in requested

LEMMA StaleStep ==
  ASSUME TypeOK, StaleAfterEnqueue, [Next]_vars
  PROVE  StaleAfterEnqueue'
<1> USE DEF StaleAfterEnqueue
<1>1. ASSUME NEW r \in Request,
             Proceed(r) \/ CoordinatorFails(r) \/ CallFails(r) \/ Crash(r)
      PROVE  requested \subseteq requested' /\ (answer'[r] = "stale" => r \in requested')
  <2> USE DEF TypeOK, Conclude, ServeHit
  <2>1. CASE Admit(r) \/ ReadRefused(r) \/ ReadCache(r) \/ TryAcquire(r) \/ WaitForAvailability(r) \/ ReadAgain(r)
    BY <2>1 DEF Admit, ReadRefused, ReadCache, TryAcquire, WaitForAvailability, ReadAgain
  <2>2. CASE TryAgain(r) \/ PutSnapshot(r) \/ Fallback(r) \/ EnqueueRefresh(r) \/ Release(r)
    BY <2>2 DEF TryAgain, PutSnapshot, Fallback, EnqueueRefresh, Release
  <2>3. CASE ProviderAnswers(r)
    BY <2>3, LookupAssumption DEF ProviderAnswers
  <2>4. CASE CoordinatorFails(r) \/ CallFails(r) \/ Crash(r)
    BY <2>4 DEF CoordinatorFails, CallFails, Crash
  <2>5. QED
    BY <1>1, <2>1, <2>2, <2>3, <2>4 DEF Proceed
<1>2. ASSUME NEW r \in Request,
             Proceed(r) \/ CoordinatorFails(r) \/ CallFails(r) \/ Crash(r)
      PROVE  StaleAfterEnqueue'
  BY <1>1, <1>2, OneRequestMoves
<1>3. CASE OtherWriterPuts \/ Tick
  BY <1>3 DEF OtherWriterPuts, Tick
<1>4. CASE UNCHANGED vars
  BY <1>4 DEF vars, lookupVars
<1>5. QED
  BY <1>2, <1>3, <1>4 DEF Next

\* Whoever is given a stale record, on whichever of the three paths, has had the
\* title's refresh enqueued (media-lookup-service.ts:104, 142 and 207).
THEOREM StaleIsRefreshed == Spec => []StaleServedIsRefreshed
<1>1. Init => StaleAfterEnqueue
  BY DEF Init, StaleAfterEnqueue
<1>2. LookupInv /\ StaleAfterEnqueue /\ [Next]_vars => StaleAfterEnqueue'
  BY StaleStep DEF LookupInv
<1>3. StaleAfterEnqueue => StaleServedIsRefreshed
  BY DEF StaleAfterEnqueue, StaleServedIsRefreshed
<1>4. QED
  BY <1>1, <1>2, <1>3, InitInv, StepInv, PTL DEF Spec

-----------------------------------------------------------------------------
Flying(r) == pc[r] \in {"fetch", "put"}

\* Nothing unreadable is stored, no process is lost, and no request is in its catch block.
NothingWrong ==
  /\ lost = {} /\ cache # Refused /\ evicting = {}
  /\ \A r \in Request : pc[r] # "fallback"

\* The holder of the lease is the one that flies, for as long as it flies.
HolderFlies ==
  \A r \in Request :
    /\ pc[r] = "put" => elapsed[r] = 0
    /\ pc[r] = "fetch" => elapsed[r] < LeaseTtl /\ elapsed[r] < WaitTime
    /\ Flying(r) => Owns(r) /\ call[r] = "leased"
    /\ pc[r] = "fetch" => lease.ttl + elapsed[r] = LeaseTtl
    /\ call[r] = "deleting" => Owns(r)

\* It has landed only once there is something to serve, and those that look for it
\* find it.
LandedWithRecord ==
  \A r \in Request :
    /\ call[r] \in {"leased", "deleting"} /\ ~ Flying(r) => cache # Absent
    /\ pc[r] = "acquire" => cache \in {Absent, 0}
    /\ pc[r] = "reread" => cache # Absent
    /\ pc[r] # "reacquire"

\* A waiter waits for a flight that lands before its deadline, or for the poll that
\* shows it has.
WaitIsForHolder ==
  \A w \in Request : call[w] = "waiting" =>
    \/ cache # Absent /\ cache + clock[w] <= WaitTime
    \/ /\ cache = Absent /\ lease # NoLease /\ Flying(lease.token)
       /\ clock[w] > 0
       /\ pc[lease.token] = "fetch" => clock[w] + elapsed[lease.token] >= WaitTime

Flight == NothingWrong /\ HolderFlies /\ LandedWithRecord /\ WaitIsForHolder

FlightInv == smooth => Flight

\* Nothing makes a disturbed run smooth again, and no failing step keeps one smooth.
LEMMA SmoothBefore ==
  ASSUME [Next]_vars, smooth'
  PROVE  /\ smooth
         /\ \A r \in Request : ~ CoordinatorFails(r) /\ ~ CallFails(r) /\ ~ Crash(r)
<1>1. \A r \in Request : ~ CoordinatorFails(r) /\ ~ CallFails(r) /\ ~ Crash(r)
  BY DEF CoordinatorFails, CallFails, Crash
<1>2. ASSUME UNCHANGED vars \/ OtherWriterPuts \/ Tick PROVE smooth
  <2>1. CASE UNCHANGED vars
    BY <2>1 DEF vars, lookupVars
  <2>2. CASE OtherWriterPuts
    BY <2>2 DEF OtherWriterPuts
  <2>3. CASE Tick
    BY <2>3 DEF Tick
  <2>4. QED
    BY <1>2, <2>1, <2>2, <2>3
<1>3. ASSUME NEW r \in Request, Proceed(r) PROVE smooth
  BY <1>3 DEF Proceed, Admit, ReadRefused, ReadCache, TryAcquire, WaitForAvailability, ReadAgain,
              TryAgain, ProviderAnswers, PutSnapshot, Fallback, EnqueueRefresh, Release
<1>4. QED
  BY <1>1, <1>2, <1>3 DEF Next

\* A record that was just stored outlives a wait.
RecordOutlivesWait == WaitTime < ServableFor

\* The steps that do not touch the lease or the store.
LEMMA LocalStep ==
  ASSUME LookupInv, smooth', Flight, NEW r \in Request,
         \/ Admit(r) \/ ReadRefused(r) \/ ReadCache(r) \/ ReadAgain(r) \/ ProviderAnswers(r)
         \/ Fallback(r) \/ EnqueueRefresh(r)
  PROVE  Flight'
<1> USE DEF Flight, LookupInv, TypeOK
<1>1. \A q \in Request : q # r => pc'[q] = pc[q] /\ elapsed'[q] = elapsed[q]
  BY OneRequestMoves DEF Proceed
<1>2. UNCHANGED <<lease, call, clock, lost>>
  BY DEF Admit, ReadRefused, ReadCache, ReadAgain, ProviderAnswers, Fallback, EnqueueRefresh,
         coordVars
<1>3. /\ ~ ReadRefused(r) /\ ~ Fallback(r)
      /\ \A state : Hit(r, state) => Cached(state) /\ UNCHANGED <<cache, evicting>>
      /\ Miss(r) => cache = Absent /\ UNCHANGED <<cache, evicting>>
  BY DEF NothingWrong, ReadRefused, Fallback, Hit, Miss
<1>4. /\ UNCHANGED <<cache, evicting>>
      /\ pc'[r] # "fetch" /\ pc'[r] # "fallback"
      /\ pc'[r] = "put" => elapsed'[r] = 0
      /\ Flying(r)' => Flying(r)
      /\ ~ Flying(r)' => ~ Flying(r)
      /\ pc'[r] = "acquire" => cache = Absent
      /\ pc'[r] # "reread" /\ pc'[r] # "reacquire"
  <2> USE DEF Goto, Flying
  <2>1. CASE Admit(r)
    BY <2>1 DEF Admit
  <2>2. CASE ReadCache(r)
    BY <1>3, <2>2 DEF ReadCache, ServeHit
  <2>3. CASE ReadAgain(r)
    BY <1>3, <2>3 DEF ReadAgain, ServeHit, LandedWithRecord
  <2>4. CASE ProviderAnswers(r)
    BY <2>4 DEF ProviderAnswers
  <2>5. CASE EnqueueRefresh(r)
    BY <2>5 DEF EnqueueRefresh, Finally
  <2>6. QED
    BY <1>3, <2>1, <2>2, <2>3, <2>4, <2>5
<1>5. NothingWrong'
  BY <1>1, <1>2, <1>4 DEF NothingWrong
<1>6. HolderFlies'
  BY <1>1, <1>2, <1>4 DEF HolderFlies, Flying, Owns
<1>7. LandedWithRecord'
  BY <1>1, <1>2, <1>4 DEF LandedWithRecord, Flying
<1>8. WaitIsForHolder'
  <2> SUFFICES ASSUME NEW w \in Request, call[w] = "waiting"
               PROVE  \/ cache # Absent /\ cache + clock[w] <= WaitTime
                      \/ /\ cache = Absent /\ lease # NoLease /\ Flying(lease.token)'
                         /\ clock[w] > 0
                         /\ pc'[lease.token] = "fetch" =>
                              clock[w] + elapsed'[lease.token] >= WaitTime
    BY <1>2, <1>4 DEF WaitIsForHolder
  <2>1. lease # NoLease => lease.token \in Request
    BY DEF CoordTypeOK
  <2>2. QED
    BY <1>1, <1>2, <1>4, <2>1 DEF WaitIsForHolder, Flying
<1>9. QED
  BY <1>5, <1>6, <1>7, <1>8

\* Whoever finds the lease taken finds somebody in flight, or a record.
LEMMA AcquireStep ==
  ASSUME LookupInv, Flight, NEW r \in Request, TryAcquire(r)
  PROVE  Flight'
<1> USE CoordinatorAssumption, LookupAssumption, ServableIsPositive DEF Flight, LookupInv, TypeOK, CoordTypeOK
<1>1. /\ pc[r] = "acquire" /\ UNCHANGED <<cache, evicting>>
      /\ \A q \in Request : q # r => pc'[q] = pc[q] /\ elapsed'[q] = elapsed[q]
    BY OneRequestMoves DEF TryAcquire, Proceed
<1>5. NothingWrong'
  <2>1. UNCHANGED lost
    BY DEF TryAcquire, Grant, StartWait
  <2>2. pc'[r] \in {"fetch", "wait"}
    BY DEF TryAcquire, Goto
  <2>3. QED
    BY <1>1, <2>1, <2>2 DEF NothingWrong
<1>2. CASE Grant(r) /\ Goto(r, "fetch")
  <2>1. /\ lease = NoLease /\ lease' = Held(r) /\ call' = [call EXCEPT ![r] = "leased"]
        /\ clock' = [clock EXCEPT ![r] = LeaseTtl]
        /\ pc'[r] = "fetch" /\ elapsed'[r] = 0
    BY <1>2 DEF Grant, Becomes, Goto
  <2>2. lease' # NoLease /\ lease'.token = r /\ lease'.ttl = LeaseTtl
    BY <2>1 DEF Held
  <2>3. HolderFlies'
    BY <1>1, <2>1, <2>2 DEF HolderFlies, Flying, Owns
  <2>4. LandedWithRecord'
    BY <1>1, <2>1 DEF LandedWithRecord, Flying
  <2>5. WaitIsForHolder'
    BY <1>1, <2>1 DEF WaitIsForHolder
  <2>6. QED
    BY <1>5, <2>3, <2>4, <2>5
<1>3. CASE lease # NoLease /\ StartWait(r) /\ Goto(r, "wait")
  <2>1. /\ UNCHANGED lease /\ call' = [call EXCEPT ![r] = "waiting"]
        /\ clock' = [clock EXCEPT ![r] = WaitTime]
        /\ pc'[r] = "wait" /\ elapsed'[r] = 0
    BY <1>3 DEF StartWait, Becomes, Goto
  <2>2. HolderFlies'
    BY <1>1, <2>1 DEF HolderFlies, Flying, Owns
  <2>3. LandedWithRecord'
    BY <1>1, <2>1 DEF LandedWithRecord, Flying
  <2>4. ASSUME NEW w \in Request, w # r, call[w] = "waiting"
        PROVE  call'[w] = call[w] /\ clock'[w] = clock[w]
    BY <2>1, <2>4
  <2> DEFINE h == lease.token
  <2>5. h \in Request /\ call[h] \in {"leased", "deleting"}
    BY <1>3 DEF LeaseHasOwner, NothingWrong
  <2>6. h # r
    BY <1>1, <2>5 DEF CallMatchesPc, InTry
  <2>7. cache = Absent => Flying(h)
    BY <2>5 DEF LandedWithRecord
  <2>8. cache \in {Absent, 0}
    BY <1>1 DEF LandedWithRecord
  <2>9. 0 # Absent /\ 0 + WaitTime <= WaitTime /\ WaitTime > 0
    OBVIOUS
  <2>10. pc[h] = "fetch" => WaitTime + elapsed[h] >= WaitTime
    <3>1. elapsed[h] \in Nat
      BY <2>5
    <3>2. QED
      BY <3>1
  <2>11. WaitIsForHolder'
    <3> SUFFICES ASSUME NEW w \in Request, call'[w] = "waiting"
                 PROVE  \/ cache # Absent /\ cache + clock'[w] <= WaitTime
                        \/ /\ cache = Absent /\ Flying(h) /\ clock'[w] > 0
                           /\ pc[h] = "fetch" => clock'[w] + elapsed[h] >= WaitTime
      BY <1>1, <1>3, <2>1, <2>5, <2>6 DEF WaitIsForHolder, Flying
    <3>1. CASE w = r
      BY <2>1, <2>7, <2>8, <2>9, <2>10, <3>1
    <3>2. CASE w # r
      BY <2>1, <3>2 DEF WaitIsForHolder
    <3>3. QED
      BY <3>1, <3>2
  <2>12. QED
    BY <1>5, <2>2, <2>3, <2>11
<1>4. QED
  BY <1>2, <1>3 DEF TryAcquire

LEMMA WaitStep ==
  ASSUME LookupInv, Flight, NEW r \in Request, WaitForAvailability(r)
  PROVE  Flight'
<1> USE DEF Flight, LookupInv, TypeOK, CoordTypeOK
<1>1. /\ call[r] = "waiting" /\ (clock[r] = 0 \/ lease = NoLease)
      /\ UNCHANGED <<lease, cache, evicting, lost>> /\ call' = [call EXCEPT ![r] = "idle"]
      /\ clock' = [clock EXCEPT ![r] = 0]
      /\ pc'[r] = "reread" /\ pc[r] = "wait"
      /\ \A q \in Request : q # r => pc'[q] = pc[q] /\ elapsed'[q] = elapsed[q]
  BY OneRequestMoves DEF WaitForAvailability, Proceed, EndWait, Becomes, Goto
<1>2. cache # Absent
  BY <1>1 DEF WaitIsForHolder
<1>3. HolderFlies'
  BY <1>1 DEF HolderFlies, Flying, Owns
<1>4. LandedWithRecord'
  BY <1>1, <1>2 DEF LandedWithRecord, Flying
<1>5. WaitIsForHolder'
  BY <1>1, <1>2 DEF WaitIsForHolder
<1>6. NothingWrong'
  BY <1>1 DEF NothingWrong
<1>7. QED
  BY <1>3, <1>4, <1>5, <1>6

\* A record of age 0 ends every wait in time.
LEMMA FreshRecordWaits ==
  ASSUME CoordTypeOK, TypeOK, cache' = 0, call' = call, clock' = clock
  PROVE  WaitIsForHolder'
<1>1. ASSUME NEW w \in Request, call[w] = "waiting"
      PROVE  clock[w] \in Nat /\ clock[w] <= WaitTime
  BY <1>1 DEF CoordTypeOK
<1>2. 0 # Absent
  BY LookupAssumption
<1>3. QED
  BY <1>1, <1>2 DEF WaitIsForHolder

LEMMA StoreStep ==
  ASSUME LookupInv, smooth', Flight,
         OtherWriterPuts \/ \E r \in Request : PutSnapshot(r)
  PROVE  Flight'
<1> USE DEF Flight, LookupInv, TypeOK
<1>1. /\ cache' = 0 /\ UNCHANGED <<lease, call, clock, lost, evicting>>
      /\ \A q \in Request : \/ pc'[q] = pc[q] /\ elapsed'[q] = elapsed[q]
                            \/ pc'[q] \in {"release", "done"}
  <2>1. CASE OtherWriterPuts
    BY <2>1 DEF OtherWriterPuts, coordVars
  <2>2. ASSUME NEW r \in Request, PutSnapshot(r)
        PROVE  /\ cache' = 0 /\ UNCHANGED <<lease, call, clock, lost, evicting>>
               /\ \A q \in Request : \/ pc'[q] = pc[q] /\ elapsed'[q] = elapsed[q]
                                     \/ pc'[q] \in {"release", "done"}
    <3>2. pc'[r] \in {"release", "done"}
      BY <2>2 DEF PutSnapshot, Finally, Goto
    <3>3. \A q \in Request : q # r => pc'[q] = pc[q] /\ elapsed'[q] = elapsed[q]
      BY <2>2, OneRequestMoves DEF Proceed
    <3>4. cache' = 0
      BY <2>2 DEF PutSnapshot, HolderFlies
    <3>5. QED
      BY <2>2, <3>2, <3>3, <3>4 DEF PutSnapshot, coordVars
  <2>3. QED
    BY <2>1, <2>2
<1>2. 0 # Absent /\ 0 # Refused
  BY LookupAssumption
<1>3. HolderFlies'
  BY <1>1 DEF HolderFlies, Flying, Owns
<1>4. LandedWithRecord'
  BY <1>1, <1>2 DEF LandedWithRecord, Flying
<1>5. NothingWrong'
  BY <1>1, <1>2 DEF NothingWrong
<1>6. QED
  BY <1>1, <1>3, <1>4, <1>5, FreshRecordWaits

LEMMA ReleaseStep ==
  ASSUME LookupInv, Flight, NEW r \in Request, Release(r)
  PROVE  Flight'
<1> USE DEF Flight, LookupInv, TypeOK, CoordTypeOK
<1>1. /\ pc[r] \in {"release", "delete"} /\ pc'[r] \in {"delete", "done"}
      /\ UNCHANGED <<cache, evicting>>
      /\ \A q \in Request : q # r => pc'[q] = pc[q] /\ elapsed'[q] = elapsed[q]
  BY OneRequestMoves DEF Release, Proceed, Goto
<1>2. /\ call[r] \in {"leased", "deleting"} /\ cache # Absent
      /\ call'[r] \in {"idle", "deleting"} /\ (call'[r] = "deleting" => Owns(r)')
      /\ \A q \in Request : q # r => call'[q] = call[q] /\ clock'[q] = clock[q]
      /\ lease' = lease \/ (Owns(r) /\ lease' = NoLease)
  BY <1>1 DEF Release, ReleaseRead, ReleaseDelete, Becomes, HolderFlies, LandedWithRecord,
              Flying, Owns
<1>3. HolderFlies'
  BY <1>1, <1>2 DEF HolderFlies, Flying, Owns
<1>4. LandedWithRecord'
  BY <1>1, <1>2 DEF LandedWithRecord, Flying
<1>5. WaitIsForHolder'
  BY <1>1, <1>2 DEF WaitIsForHolder
<1>6. NothingWrong'
  <2>1. UNCHANGED lost
    BY DEF Release, ReleaseRead, ReleaseDelete
  <2>2. QED
    BY <1>1, <2>1 DEF NothingWrong
<1>7. QED
  BY <1>3, <1>4, <1>5, <1>6

\* A tick that disturbs nothing finds nobody in an await on Redis: flights and waits
\* only, and the flights have time left.
LEMMA TickStep ==
  ASSUME RecordOutlivesWait, LookupInv, smooth', Flight, Tick
  PROVE  Flight'
<1> USE DEF Flight, LookupInv, TypeOK, CoordTypeOK
<1>a. ~ RedisLate /\ ~ ProviderLate
  BY DEF Tick
<1>b. \A q \in Request : /\ pc[q] \notin Instant
                         /\ pc[q] = "wait" => clock[q] > 0
  BY <1>a DEF RedisLate
<1>c. \A q \in Request : /\ call[q] # "deleting"
                         /\ call[q] = "waiting" => clock[q] > 0
  BY <1>b DEF CallMatchesPc, Instant
<1>d. \A q \in Request : pc[q] = "fetch" =>
        /\ elapsed[q] \in Nat /\ elapsed'[q] = elapsed[q] + 1
        /\ elapsed[q] + 1 < WaitTime /\ elapsed[q] + 1 < LeaseTtl
  <2>1. \A q \in Request : pc[q] = "fetch" => elapsed[q] \in Nat /\ elapsed'[q] = elapsed[q] + 1
    BY DEF Tick
  <2>2. QED
    BY <1>a, <2>1, CoordinatorAssumption DEF ProviderLate
<1>1. /\ \A q \in Request : pc[q] \notin Instant /\ pc'[q] = pc[q] /\ call'[q] = call[q]
      /\ \A q \in Request : /\ call[q] # "deleting"
                            /\ call[q] = "waiting" => clock[q] > 0 /\ clock'[q] = clock[q] - 1
  BY <1>b, <1>c DEF Tick, CoordTick, Decrease
<1>2. \A q \in Request : /\ Flying(q) <=> pc[q] = "fetch"
                         /\ call[q] = "leased" => pc[q] = "fetch"
  BY <1>1 DEF Flying, Instant, CallMatchesPc, InTry
<1>3. ASSUME NEW q \in Request, pc[q] = "fetch"
      PROVE  Owns(q)' /\ call[q] = "leased" /\ lease'.ttl = lease.ttl - 1
  <2>1. Owns(q) /\ call[q] = "leased" /\ lease.ttl + elapsed[q] = LeaseTtl
    BY <1>3 DEF HolderFlies, Flying
  <2>2. lease \in [token : Request, ttl : 1 .. LeaseTtl] /\ lease.ttl \in Nat
    BY <2>1 DEF Owns
  <2>3. elapsed[q] \in Nat /\ elapsed[q] + 1 < LeaseTtl
    BY <1>d, <1>3
  <2>4. lease.ttl # 1
    BY <2>1, <2>2, <2>3, CoordinatorAssumption
  <2>5. lease' = [lease EXCEPT !.ttl = @ - 1]
    BY <2>1, <2>4 DEF Tick, CoordTick, Owns
  <2>6. lease'.token = q /\ lease'.ttl = lease.ttl - 1
    BY <2>1, <2>2, <2>5 DEF Owns
  <2>7. lease' # NoLease
    <3>1. lease.ttl - 1 \in Nat
      BY <2>2
    <3>2. lease' \in [token : Request, ttl : Nat]
      BY <2>2, <2>5, <3>1
    <3>3. QED
      BY <3>2, CoordinatorAssumption
  <2>8. QED
    BY <2>1, <2>6, <2>7 DEF Owns
<1>4. HolderFlies'
  <2> SUFFICES ASSUME NEW q \in Request
               PROVE  /\ pc[q] = "put" => elapsed'[q] = 0
                      /\ pc[q] = "fetch" => elapsed'[q] < LeaseTtl /\ elapsed'[q] < WaitTime
                      /\ Flying(q) => Owns(q)' /\ call[q] = "leased"
                      /\ pc[q] = "fetch" => lease'.ttl + elapsed'[q] = LeaseTtl
                      /\ call[q] = "deleting" => Owns(q)'
    BY <1>1 DEF HolderFlies, Flying
  <2>1. CASE pc[q] = "fetch"
    <3>1. /\ elapsed[q] \in Nat /\ elapsed'[q] = elapsed[q] + 1
          /\ elapsed[q] + 1 < WaitTime /\ elapsed[q] + 1 < LeaseTtl
      BY <1>d, <2>1
    <3>2. lease.ttl + elapsed[q] = LeaseTtl /\ Owns(q)
      BY <2>1 DEF HolderFlies, Flying
    <3>3. lease.ttl \in Nat
      BY <3>2 DEF Owns
    <3>4. (lease.ttl - 1) + (elapsed[q] + 1) = LeaseTtl
      BY <3>1, <3>2, <3>3, CoordinatorAssumption
    <3>5. QED
      BY <1>1, <1>3, <2>1, <3>1, <3>4
  <2>2. CASE pc[q] # "fetch"
    BY <1>1, <1>2, <2>2 DEF Instant
  <2>3. QED
    BY <2>1, <2>2
<1>5. LandedWithRecord'
  BY <1>1, <1>2 DEF LandedWithRecord, Flying, Instant
<1>6. WaitIsForHolder'
  <2> SUFFICES ASSUME NEW w \in Request, call[w] = "waiting"
               PROVE  \/ cache' # Absent /\ cache' + clock'[w] <= WaitTime
                      \/ /\ cache' = Absent /\ lease' # NoLease /\ Flying(lease.token)'
                         /\ clock'[w] > 0
                         /\ pc'[lease'.token] = "fetch" =>
                              clock'[w] + elapsed'[lease'.token] >= WaitTime
    BY <1>1 DEF WaitIsForHolder
  <2>1. clock[w] \in Nat /\ clock[w] > 0 /\ clock'[w] = clock[w] - 1
    BY <1>1
  <2>2. CASE cache # Absent /\ cache + clock[w] <= WaitTime
    <3>1. cache \in Nat /\ cache \in Ages
      BY <2>2, ServableIsPositive DEF Ages, NothingWrong
    <3>2. cache + 1 \in Ages
      BY <2>1, <2>2, <3>1, ServableIsPositive, CoordinatorAssumption DEF RecordOutlivesWait, Ages
    <3>3. cache' = cache + 1
      BY <3>1, <3>2 DEF Tick, NothingWrong
    <3>4. (cache + 1) + (clock[w] - 1) <= WaitTime /\ cache + 1 # Absent
      BY <2>1, <2>2, <3>1, CoordinatorAssumption, LookupAssumption
    <3>5. QED
      BY <2>1, <3>3, <3>4
  <2>3. CASE cache = Absent
    <3>0. lease # NoLease /\ Flying(lease.token) /\ lease.token \in Request
      BY <2>3 DEF WaitIsForHolder
    <3>1. PICK h \in Request : h = lease.token /\ Flying(h)
      BY <3>0
    <3>2. pc[h] = "fetch" /\ Owns(h)'
      BY <1>2, <1>3, <3>1
    <3>3. clock[w] + elapsed[h] >= WaitTime
      BY <2>3, <3>1, <3>2 DEF WaitIsForHolder
    <3>4. elapsed[h] \in Nat /\ elapsed[h] + 1 < WaitTime /\ elapsed'[h] = elapsed[h] + 1
      BY <1>d, <3>1, <3>2
    <3>5. clock[w] - 1 > 0 /\ (clock[w] - 1) + (elapsed[h] + 1) >= WaitTime
      BY <2>1, <3>3, <3>4, CoordinatorAssumption
    <3>6. cache' = Absent
      BY <2>3, LookupAssumption DEF Tick, Ages, NothingWrong
    <3>7. pc'[h] = "fetch" /\ lease' # NoLease /\ lease'.token = h
      BY <1>1, <3>1, <3>2 DEF Owns
    <3>8. Flying(lease.token)'
      BY <3>7 DEF Flying
    <3>9. QED
      BY <2>1, <3>4, <3>5, <3>6, <3>7, <3>8
  <2>4. QED
    BY <2>2, <2>3 DEF WaitIsForHolder
<1>7. NothingWrong'
  <2>1. cache' # Refused
    BY LookupAssumption, ServableIsPositive DEF NothingWrong, Tick, Ages
  <2>2. UNCHANGED <<lost, evicting>>
    BY DEF Tick, CoordTick
  <2>3. QED
    BY <1>1, <2>1, <2>2 DEF NothingWrong
<1>8. QED
  BY <1>4, <1>5, <1>6, <1>7

LEMMA FlightStep ==
  ASSUME RecordOutlivesWait, LookupInv, FlightInv, [Next]_vars
  PROVE  FlightInv'
<1> SUFFICES ASSUME smooth' PROVE Flight'
  BY DEF FlightInv
<1>1. /\ Flight
      /\ \A r \in Request : ~ CoordinatorFails(r) /\ ~ CallFails(r) /\ ~ Crash(r)
  BY SmoothBefore DEF FlightInv
<1>2. ASSUME NEW r \in Request, Proceed(r) PROVE Flight'
  <2>1. ~ TryAgain(r)
    BY <1>1 DEF TryAgain, Flight, LandedWithRecord
  <2>2. QED
    BY <1>1, <1>2, <2>1, LocalStep, AcquireStep, WaitStep, StoreStep, ReleaseStep DEF Proceed
<1>3. CASE UNCHANGED vars
  BY <1>1, <1>3 DEF vars, coordVars, lookupVars, Flight, NothingWrong, HolderFlies,
                    LandedWithRecord, WaitIsForHolder, Flying, Owns
<1>4. QED
  BY <1>1, <1>2, <1>3, StoreStep, TickStep DEF Next

LEMMA FlightInductive ==
  ASSUME RecordOutlivesWait
  PROVE  Spec => [](LookupInv /\ FlightInv)
<1>1. Init => FlightInv
  BY DEF Init, CoordInit, FlightInv, Flight, NothingWrong, HolderFlies, LandedWithRecord,
         WaitIsForHolder, Flying
<1>2. LookupInv /\ FlightInv /\ [Next]_vars => FlightInv'
  BY FlightStep
<1>3. QED
  BY <1>1, <1>2, InitInv, StepInv, PTL DEF Spec

\* Two requests of a title are in a provider call together only after something has
\* failed, come late or been unreadable: for any number of requests, any provider
\* timeout and any waits and leases (media-lookup-service.ts:133-171), as long as a
\* record may be served for longer than a follower waits.
THEOREM OneFlight ==
  ASSUME RecordOutlivesWait
  PROVE  Spec => []SingleFlight
<1>1. FlightInv => SingleFlight
  BY DEF FlightInv, Flight, SingleFlight, HolderFlies, Flying, Owns
<1>2. QED
  BY <1>1, FlightInductive, PTL

\* And until then everybody who found the lease taken is served from what its holder
\* stored (media-lookup-service.ts:137-147).
THEOREM FollowersNeverFetch ==
  ASSUME RecordOutlivesWait
  PROVE  Spec => []FollowersAreServed
<1>1. FlightInv => FollowersAreServed
  BY DEF FlightInv, Flight, FollowersAreServed, LandedWithRecord
<1>2. QED
  BY <1>1, FlightInductive, PTL
=============================================================================
