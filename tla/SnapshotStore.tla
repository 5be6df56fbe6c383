--------------------------- MODULE SnapshotStore ---------------------------
(***************************************************************************)
(* Records and lookup pointers of RedisMediaSnapshotStore, for one tenant  *)
(* and kind.  A record is stored under its mediaId; every identifier has a *)
(* hot pointer, which lives for the record's cache TTL, and a canonical    *)
(* one, which lives as long as the record.  One title can have two records:*)
(* buildMediaId hashes the provider and the identifier, so the IMDb        *)
(* fallback of a title does not have the mediaId of its TMDB record, and   *)
(* both are reached by its imdbId; when TMDB knows the title by then, a    *)
(* refresh or a warmup of the fallback gives it the tmdbId too.  A record   *)
(* as TMDB gave it may be one the schema of the reads refuses; a lookup     *)
(* that meets it deletes it.  Puts, promotions, cleanups and lookups        *)
(* interleave command by command, and time may pass between any two of them.*)
(***************************************************************************)
EXTENDS Freshness, Sequences

CONSTANTS Process,      \* store operations in progress together
          MediaId,
          Identifier,
          Ids,          \* of each record, when a lookup stores it: its mediaId,
                        \* tmdbId and imdbId, in order
          Unchecked,    \* records whose provider's schema lets through what
                        \* cachedMediaRecordSchema refuses: TMDB's
          MaxOperations,\* bound: operations begun
          None          \* no record, no pointer

ASSUME StoreAssumption ==
  /\ Ids \in [MediaId -> Seq(Identifier)]
  /\ \A m \in MediaId : Len(Ids[m]) > 0
  /\ Unchecked \subseteq MediaId
  /\ MaxOperations \in Nat
  /\ None \notin Nat
  /\ None \notin [to : MediaId, left : Nat]

VARIABLES
  record,    \* age of the record of each mediaId, or None
  names,     \* its identifiers
  refused,   \* the records stored that a read will refuse
  pointer,   \* pointer[tier][id]: the mediaId it names and the ticks it has left
  op,        \* what each process is in the middle of
  begun,     \* how many operations
  overtaken, \* lookups for whose next DEL a put has since written something new
  promised,  \* ticks for which a put has made an identifier servable
  sure       \* lookups whose identifier has been promised since they began

stored == <<record, names, refused>>
vars == <<stored, pointer, op, begun, overtaken, promised, sure>>

Tier == {"hot", "canonical"}
RecordLife == CanonicalRecordTtl * Second

\* A slip: the TTLs are passed in milliseconds, as to PSETEX.
LifeInMilliseconds(tier) == 1000 * (IF tier = "hot" THEN RecordTtl * Second ELSE RecordLife)

\* The TTL of a pointer: the record's cacheTtlSeconds, or the record's own.
Life(tier) == IF tier = "hot" THEN RecordTtl * Second ELSE RecordLife

Idle == [at |-> "idle"]
Rest == {Idle, [at |-> "miss"]}
Writing == [at : {"put", "promote"}, media : MediaId, todo : Seq(Tier \X Identifier)]
Reading == [at : {"pointer"}, tier : Tier, id : Identifier]
Checking == [at : {"record", "drop", "evict"}, tier : Tier, id : Identifier, media : MediaId]

TypeOK ==
  /\ record \in [MediaId -> (0 .. RecordLife - 1) \cup {None}]
  /\ names \in [MediaId -> Seq(Identifier)]
  /\ refused \subseteq {m \in MediaId : record[m] # None}
  /\ pointer \in [Tier -> [Identifier -> [to : MediaId, left : 1 .. RecordLife] \cup {None}]]
  /\ op \in [Process -> Rest \cup Writing \cup Reading \cup Checking]
  /\ begun \in 0 .. MaxOperations
  /\ overtaken \subseteq Process
  /\ promised \in [Identifier -> 0 .. ServableFor]
  /\ sure \subseteq Process

Init ==
  /\ record = [m \in MediaId |-> None]
  /\ names = Ids
  /\ refused = {}
  /\ pointer = [tier \in Tier |-> [i \in Identifier |-> None]]
  /\ op = [p \in Process |-> Idle]
  /\ begun = 0
  /\ overtaken = {}
  /\ promised = [i \in Identifier |-> 0]
  /\ sure = {}

Servable(m) == record[m] # None /\ m \notin refused /\ StateAtAge(record[m]) # "expired"
Serves(m) == IF Servable(m) THEN ServableFor - record[m] ELSE 0
LeadsTo(i, m) == pointer["canonical"][i] # None /\ pointer["canonical"][i].to = m
SetOf(ids) == {ids[k] : k \in DOMAIN ids}
Becomes(p, state) == op' = [op EXCEPT ![p] = state]

\* Operations begin one at a time in every process.
Begin(p) ==
  /\ op[p] \in Rest
  /\ begun < MaxOperations
  /\ begun' = begun + 1

\* The pointers a put writes, identifier by identifier, hot before canonical.
PutPointers(ids) ==
  [k \in 1 .. 2 * Len(ids) |->
     <<IF k % 2 = 1 THEN "hot" ELSE "canonical", ids[(k + 1) \div 2]>>]

\* Those a promotion writes: the hot ones only.
PromotePointers(ids) == [k \in 1 .. Len(ids) |-> <<"hot", ids[k]>>]

-----------------------------------------------------------------------------
\* What is left of `sure` and `overtaken` after a step.
StillSure == {p \in sure : op[p] \in Reading \cup Checking /\ promised'[op[p].id] > 0}
StillOvertaken == {p \in overtaken : op'[p] \in Checking}

\* putSnapshot of the record of n under the mediaId m: SETEX of the record, then
\* writeLookupPointers.  A record no read accepts, put in place of one that was
\* readable, withdraws what had been promised of it.
PutSnapshot(p, m, n) ==
  /\ Begin(p)
  /\ record' = [record EXCEPT ![m] = 0]
  /\ names' = [names EXCEPT ![m] = Ids[n]]
  /\ Becomes(p, [at |-> "put", media |-> m, todo |-> PutPointers(Ids[n])])
  /\ \/ /\ refused' = refused \ {m}
        /\ promised' = promised
     \/ /\ n \in Unchecked
        /\ refused' = refused \cup {m}
        /\ promised' = [i \in Identifier |-> IF LeadsTo(i, m) THEN 0 ELSE promised[i]]
  /\ overtaken' = overtaken \cup
       {q \in Process : op[q] \in Checking /\ op[q].at = "evict" /\ op[q].media = m}
  /\ sure' = StillSure
  /\ UNCHANGED pointer

\* A record is stored as the provider gave it, under the mediaId buildMediaId makes.
BeginPut(p) == \E m \in MediaId : PutSnapshot(p, m, m)

\* mergeRefreshedRecord, or the warmup of a record that has expired
\* (mergeRecordIdentity): the provider gives another record for an identifier of
\* the job, and it is stored under the job's mediaId.
BeginPutUnderOldId(p) ==
  \E m, n \in MediaId :
    /\ m # n /\ SetOf(Ids[m]) \subseteq SetOf(Ids[n])
    /\ PutSnapshot(p, m, n)

\* promoteRecord, which the warmup calls for a record it has just looked up.
BeginPromote(p) ==
  /\ Begin(p)
  /\ \E m \in MediaId :
       /\ Servable(m)
       /\ Becomes(p, [at |-> "promote", media |-> m, todo |-> PromotePointers(names[m])])
  /\ UNCHANGED <<stored, pointer, overtaken, promised, sure>>

\* SETEX of the next pointer.  A canonical pointer promises its identifier for
\* as long as the record it names may still be served.
WritePointer(p) ==
  /\ op[p] \in Writing
  /\ LET tier == Head(op[p].todo)[1]
         id   == Head(op[p].todo)[2]
         m    == op[p].media
         left == Tail(op[p].todo)
         reading == {q \in Process : op[q] \in Checking /\ op[q].tier = "canonical" /\ op[q].id = id}
     IN /\ pointer' = [pointer EXCEPT ![tier][id] = [to |-> m, left |-> Life(tier)]]
        /\ Becomes(p, IF left = << >> THEN Idle ELSE [op[p] EXCEPT !.todo = left])
        /\ IF tier = "canonical"
           THEN /\ promised' = [promised EXCEPT ![id] = Serves(m)]
                /\ overtaken' = overtaken \cup reading
                /\ sure' = StillSure \ {q \in reading : op[q].media # m}
           ELSE UNCHANGED <<promised, overtaken, sure>>
  /\ UNCHANGED <<stored, begun>>

\* A slip: the cleanup removes the canonical pointers with the hot ones.
CleanupOfBothTiers(p) ==
  /\ Begin(p)
  /\ \E m \in MediaId :
       pointer' = [tier \in Tier |-> [i \in Identifier |->
                     IF i \in SetOf(names[m]) THEN None ELSE pointer[tier][i]]]
  /\ UNCHANGED <<stored, op, overtaken, promised, sure>>

\* cleanupDerivedState: one DEL of the hot pointers (and of the document, for
\* which see SearchIndex).
Cleanup(p) ==
  /\ Begin(p)
  /\ \E m \in MediaId :
       pointer' = [pointer EXCEPT !["hot"] = [i \in Identifier |->
                     IF i \in SetOf(names[m]) THEN None ELSE @[i]]]
  /\ UNCHANGED <<stored, op, overtaken, promised, sure>>

-----------------------------------------------------------------------------
\* getLookup: the hot pointer, then the canonical one.
BeginLookup(p) ==
  /\ Begin(p)
  /\ \E i \in Identifier :
       /\ Becomes(p, [at |-> "pointer", tier |-> "hot", id |-> i])
       /\ sure' = IF promised[i] > 0 THEN sure \cup {p} ELSE sure \ {p}
  /\ UNCHANGED <<stored, pointer, overtaken, promised>>

\* A slip: getLookup gives up when the hot pointer leads nowhere.
NextTierForgotten(p, tier, i) == Becomes(p, [at |-> "miss"])

\* What readLookupPointer answering null leads to.
NextTier(p, tier, i) ==
  Becomes(p, IF tier = "hot" THEN [at |-> "pointer", tier |-> "canonical", id |-> i]
                             ELSE [at |-> "miss"])

ReadPointer(p) ==
  /\ op[p] \in Reading
  /\ LET r == op[p]
         found == pointer[r.tier][r.id]
     IN IF found = None
        THEN NextTier(p, r.tier, r.id)
        ELSE Becomes(p, [at |-> "record", tier |-> r.tier, id |-> r.id, media |-> found.to])
  /\ UNCHANGED <<stored, pointer, overtaken, promised, sure, begun>>

\* A record past serving is no answer; one that is gone condemns the pointer
\* that was read, and one the schema refuses condemns itself with it.
ReadRecord(p) ==
  /\ op[p] \in Checking /\ op[p].at = "record"
  /\ LET r == op[p]
     IN \/ record[r.media] = None /\ Becomes(p, [r EXCEPT !.at = "drop"])
        \/ r.media \in refused /\ Becomes(p, [r EXCEPT !.at = "evict"])
        \/ Servable(r.media) /\ Becomes(p, Idle)
        \/ /\ record[r.media] # None /\ r.media \notin refused /\ ~ Servable(r.media)
           /\ NextTier(p, r.tier, r.id)
  /\ overtaken' = StillOvertaken
  /\ sure' = {q \in sure : op'[q] # Idle}
  /\ UNCHANGED <<stored, pointer, promised, begun>>

\* The DEL of a pointer that led nowhere, whatever the key holds by now: what a
\* put has promised by it since is withdrawn.
DropPointer(p) ==
  /\ op[p] \in Checking /\ op[p].at = "drop"
  /\ LET r == op[p]
     IN /\ pointer' = [pointer EXCEPT ![r.tier][r.id] = None]
        /\ NextTier(p, r.tier, r.id)
        /\ promised' = IF p \in overtaken THEN [promised EXCEPT ![r.id] = 0] ELSE promised
  /\ overtaken' = StillOvertaken
  /\ sure' = StillSure
  /\ UNCHANGED <<stored, begun>>

\* The DEL of the pointer and of the record it named, whatever they hold by now:
\* pointers of other identifiers are left dangling, and what a put has promised
\* since by the one or the other is withdrawn.
EvictRecord(p) ==
  /\ op[p] \in Checking /\ op[p].at = "evict"
  /\ LET r == op[p]
     IN /\ pointer' = [pointer EXCEPT ![r.tier][r.id] = None]
        /\ record' = [record EXCEPT ![r.media] = None]
        /\ names' = [names EXCEPT ![r.media] = Ids[r.media]]
        /\ refused' = refused \ {r.media}
        /\ NextTier(p, r.tier, r.id)
        /\ promised' = [i \in Identifier |->
             IF p \in overtaken /\ (LeadsTo(i, r.media) \/ (r.tier = "canonical" /\ i = r.id))
             THEN 0 ELSE promised[i]]
  /\ overtaken' = StillOvertaken
  /\ sure' = StillSure
  /\ UNCHANGED begun

-----------------------------------------------------------------------------
\* An operation's process dies or a command of it fails: the rest is not done.
\* It may happen to every operation.
Crash(p) ==
  /\ op[p] \notin Rest
  /\ Becomes(p, Idle)
  /\ overtaken' = StillOvertaken
  /\ sure' = sure \ {p}
  /\ UNCHANGED <<stored, pointer, promised, begun>>

Older(pt) == IF pt = None \/ pt.left = 1 THEN None ELSE [pt EXCEPT !.left = @ - 1]

Tick ==
  /\ record' = [m \in MediaId |->
                  IF record[m] = None \/ record[m] = RecordLife - 1 THEN None
                  ELSE record[m] + 1]
  /\ names' = [m \in MediaId |-> IF record'[m] = None THEN Ids[m] ELSE names[m]]
  /\ refused' = {m \in refused : record'[m] # None}
  /\ pointer' = [tier \in Tier |-> [i \in Identifier |-> Older(pointer[tier][i])]]
  /\ promised' = [i \in Identifier |-> IF promised[i] = 0 THEN 0 ELSE promised[i] - 1]
  /\ UNCHANGED <<op, overtaken, begun>>
  /\ sure' = StillSure

Next ==
  \/ \E p \in Process :
       \/ BeginPut(p) \/ BeginPutUnderOldId(p) \/ BeginPromote(p) \/ WritePointer(p) \/ Cleanup(p)
       \/ BeginLookup(p) \/ ReadPointer(p) \/ ReadRecord(p) \/ DropPointer(p)
       \/ EvictRecord(p) \/ Crash(p)
  \/ Tick

Spec == Init /\ [][Next]_vars

-----------------------------------------------------------------------------
\* What a getLookup all by itself would find.
Leads(tier, i) == pointer[tier][i] # None /\ Servable(pointer[tier][i].to)

\* "Last-known-good canonical state is preserved"
\* (.ai/04-architecture-overview.md:55).  The put that last wrote an identifier's
\* canonical pointer has promised it for as long as its record may be served.
\* The promise survives cleanups, promotions, expiries of hot pointers,
\* operations that die half way or take arbitrarily long, and lookups that
\* delete dangling pointers and refused records.  Besides another put it is
\* withdrawn only by a DEL whose key a put has written since the lookup read it.
PromiseKept == \A i \in Identifier : promised[i] > 0 => \E tier \in Tier : Leads(tier, i)

\* A lookup is several reads, any time apart, and still misses nothing that was
\* promised all along; one that has read an identifier's pointer just before a
\* put gave it another record may.
LookupFindsPromised == \A p \in Process : op[p] = [at |-> "miss"] => p \notin sure
=============================================================================
