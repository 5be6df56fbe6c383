------------------------ MODULE SnapshotStore_proofs ------------------------
(***************************************************************************)
(* For every TTL, window and clock reading, what computeFreshness promises;*)
(* and for any number of operations, records and identifiers, however long *)
(* an operation takes, the types of the store, that what a put has promised*)
(* stays within reach and that no lookup misses it.                        *)
(***************************************************************************)
EXTENDS SnapshotStore, SequenceTheorems, TLAPS

\* Products of the configured durations with Second, as the provers need them.
LEMMA Durations ==
  /\ RecordTtl * Second \in Nat \ {0}
  /\ StaleServeWindow * Second \in Nat \ {0}
  /\ CanonicalRecordTtl * Second \in Nat
  /\ RecordTtl * Second + StaleServeWindow * Second <= CanonicalRecordTtl * Second
  /\ ServableFor = RecordTtl * Second + StaleServeWindow * Second
<1>1. \A m, n \in Nat \ {0} : m * n \in Nat \ {0}
  OBVIOUS
<1>2. \A m, n \in Nat : m * n \in Nat
  OBVIOUS
<1>3. \A m, n, k \in Nat : (m + n) * k = m * k + n * k
  OBVIOUS
<1>4. \A m, n, k \in Nat : m <= n => m * k <= n * k
  OBVIOUS
<1>5. QED
  BY <1>1, <1>2, <1>3, <1>4, SecondAssumption, ConfigAssumption DEF LoadConfigAccepts, ServableFor

\* Keeping ages instead of dates loses nothing: what a reader decides about a
\* record depends on the time since it was normalised only
\* (media-lookup-helpers.ts:91-127).
THEOREM AgeAbstraction ==
  ASSUME NEW fetched \in Int, NEW now \in Int
  PROVE  LookupState(now, ComputeFreshness(fetched)) = StateAtAge(now - fetched)
BY Durations
   DEF LookupState, StateAtAge, ComputeFreshness, IsRecordFresh, IsRecordStaleButServable

\* The three states follow each other at exactly the configured instants: no
\* instant is both fresh and stale, none between the two is neither.
THEOREM StateByAge ==
  ASSUME NEW age \in Nat
  PROVE  /\ StateAtAge(age) = "fresh" <=> age < RecordTtl * Second
         /\ StateAtAge(age) = "expired" <=> age >= ServableFor
         /\ StateAtAge(age) = "stale_but_servable"
              <=> RecordTtl * Second <= age /\ age < ServableFor
BY Durations
   DEF LookupState, StateAtAge, ComputeFreshness, IsRecordFresh, IsRecordStaleButServable

\* A record is due for a refresh strictly before it goes stale: refreshAfter
\* is computed with a floor and never reaches staleAfter.
THEOREM RefreshDueBeforeStale ==
  ASSUME NEW now \in Int
  PROVE  ComputeFreshness(now).refreshAfter < ComputeFreshness(now).staleAfter
<1>1. (RecordTtl * 3) \div 4 \in Nat /\ (RecordTtl * 3) \div 4 < RecordTtl
  BY ConfigAssumption DEF LoadConfigAccepts
<1>2. \A m, n \in Nat, k \in Nat \ {0} : m < n => m * k < n * k
  OBVIOUS
<1>3. \A m, n \in Nat : m * n \in Nat
  OBVIOUS
<1>4. ((RecordTtl * 3) \div 4) * Second < RecordTtl * Second
  BY <1>1, <1>2, SecondAssumption, ConfigAssumption DEF LoadConfigAccepts
<1>5. ((RecordTtl * 3) \div 4) * Second \in Nat
  BY <1>1, <1>3, SecondAssumption
<1>6. QED
  BY <1>4, <1>5, Durations DEF ComputeFreshness

\* The check of loadConfig (env.ts:115-122) is what it is meant to be: Redis
\* holds a record, written when it was normalised or later, for at least as
\* long as a reader may serve it.
THEOREM RecordOutlivesServing ==
  ASSUME NEW fetched \in Int, NEW writtenAt \in Int, NEW now \in Int,
         fetched <= writtenAt,
         LookupState(now, ComputeFreshness(fetched)) # "expired"
  PROVE  now < HeldByRedisUntil(writtenAt)
BY Durations
   DEF LookupState, ComputeFreshness, IsRecordFresh, IsRecordStaleButServable,
       HeldByRedisUntil

-----------------------------------------------------------------------------
\* What PromiseKept needs to survive: the canonical pointer is there for the whole
\* of the promise, and the record it names is served as long.
Backed(i) ==
  promised[i] > 0 =>
    LET c == pointer["canonical"][i]
    IN  c # None /\ promised[i] <= c.left /\ promised[i] <= Serves(c.to)

PromisesBacked == \A i \in Identifier : Backed(i)

\* A lookup holding the canonical pointer of an identifier it was promised has the
\* record that keeps the promise; and what it is about to delete carries no
\* promise, unless a put has overtaken it.
ReaderOK(p) ==
  LET r == op[p]
      c == pointer["canonical"][r.id]
      canonical == r \in Checking /\ r.tier = "canonical"
  IN  /\ p \in sure /\ r \in Reading \cup Checking => promised[r.id] > 0
      /\ p \in sure /\ canonical => r.at = "record" /\ c # None /\ c.to = r.media
      /\ r = [at |-> "miss"] => p \notin sure
      /\ p \notin overtaken =>
           /\ canonical => c = None \/ c.to = r.media
           /\ canonical /\ r.at = "drop" => promised[r.id] = 0
           /\ r \in Checking /\ r.at = "evict" => Serves(r.media) = 0

ReadersInv == \A p \in Process : ReaderOK(p)

\* What the sequences the operations run through need.
Shape ==
  /\ TypeOK
  /\ \A m \in MediaId : Len(names[m]) > 0
  /\ \A p \in Process : op[p] \in Writing => op[p].todo # << >>

StoreInv == Shape /\ PromisesBacked /\ ReadersInv

-----------------------------------------------------------------------------
\* The TTLs of the store, as the steps below use them.
LEMMA Lives ==
  /\ RecordLife \in Nat \ {0} /\ ServableFor \in Nat \ {0}
  /\ ServableFor <= RecordLife
  /\ Life("canonical") = RecordLife
  /\ \A tier \in Tier : Life(tier) \in 1 .. RecordLife
BY Durations DEF Life, Tier, RecordLife

\* The sequences of pointers an operation has to write.
LEMMA HeadAndTail ==
  ASSUME NEW S, NEW s \in Seq(S), s # << >>
  PROVE  Head(s) \in S /\ Tail(s) \in Seq(S)
<1>1. Head(s) = s[1] /\ Len(s) \in Nat \ {0} /\ Tail(s) \in Seq(S)
  BY HeadTailProperties, EmptySeq, LenProperties
<1>2. QED
  BY <1>1, ElementOfSeq

LEMMA PutPointersTypes ==
  ASSUME NEW ids \in Seq(Identifier), Len(ids) > 0
  PROVE  PutPointers(ids) \in Seq(Tier \X Identifier) /\ PutPointers(ids) # << >>
<1>1. Len(ids) \in Nat \ {0} /\ DOMAIN ids = 1 .. Len(ids)
  BY LenProperties
<1>2. ASSUME NEW k \in 1 .. 2 * Len(ids) PROVE (k + 1) \div 2 \in 1 .. Len(ids)
  BY <1>1
<1> DEFINE e(k) == <<IF k % 2 = 1 THEN "hot" ELSE "canonical", ids[(k + 1) \div 2]>>
<1>3. \A k \in 1 .. 2 * Len(ids) : e(k) \in Tier \X Identifier
  BY <1>2, ElementOfSeq DEF Tier
<1>4. 2 * Len(ids) \in Nat \ {0}
  BY <1>1
<1>5. PutPointers(ids) = [k \in 1 .. 2 * Len(ids) |-> e(k)]
  BY DEF PutPointers
<1> HIDE DEF e
<1>6. QED
  BY <1>3, <1>4, <1>5, IsASeq

LEMMA PromotePointersTypes ==
  ASSUME NEW ids \in Seq(Identifier), Len(ids) > 0
  PROVE  PromotePointers(ids) \in Seq(Tier \X Identifier) /\ PromotePointers(ids) # << >>
<1>1. Len(ids) \in Nat \ {0} /\ DOMAIN ids = 1 .. Len(ids)
  BY LenProperties
<1>2. \A k \in 1 .. Len(ids) : <<"hot", ids[k]>> \in Tier \X Identifier
  BY ElementOfSeq DEF Tier
<1>3. QED
  BY <1>1, <1>2, IsASeq DEF PromotePointers

-----------------------------------------------------------------------------
\* An operation is of one kind only, told by the await it is in.
LEMMA Kinds ==
  ASSUME TypeOK, NEW p \in Process
  PROVE  /\ op[p] \in Rest <=> op[p].at \in {"idle", "miss"}
         /\ op[p] \in Writing <=> op[p].at \in {"put", "promote"}
         /\ op[p] \in Reading <=> op[p].at = "pointer"
         /\ op[p] \in Checking <=> op[p].at \in {"record", "drop", "evict"}
         /\ op[p] \in Rest \cup Writing \cup Reading \cup Checking
BY DEF TypeOK, Rest, Idle, Writing, Reading, Checking

LEMMA NextTierTypes ==
  ASSUME TypeOK, NEW p \in Process, NEW tier \in Tier, NEW i \in Identifier,
         NextTier(p, tier, i)
  PROVE  /\ op' \in [Process -> Rest \cup Writing \cup Reading \cup Checking]
         /\ op'[p] \notin Writing
         /\ \A q \in Process : q # p => op'[q] = op[q]
<1>1. [at |-> "pointer", tier |-> "canonical", id |-> i] \in Reading
  BY DEF Reading, Tier
<1>2. [at |-> "miss"] \in Rest
  BY DEF Rest
<1>3. /\ [at |-> "pointer", tier |-> "canonical", id |-> i] \notin Writing
      /\ [at |-> "miss"] \notin Writing
  BY DEF Writing
<1>4. QED
  BY <1>1, <1>2, <1>3 DEF NextTier, Becomes, TypeOK

-----------------------------------------------------------------------------
LEMMA Ranges ==
  ASSUME TypeOK
  PROVE  /\ \A m \in MediaId : record[m] # None => record[m] \in Nat /\ record[m] < RecordLife
         /\ \A tier \in Tier, i \in Identifier : pointer[tier][i] # None =>
              /\ pointer[tier][i] \in [to : MediaId, left : 1 .. RecordLife]
              /\ pointer[tier][i].to \in MediaId
              /\ pointer[tier][i].left \in Nat \ {0} /\ pointer[tier][i].left <= RecordLife
         /\ \A i \in Identifier : promised[i] \in 0 .. ServableFor
<1>1. \A m \in MediaId : record[m] # None => record[m] \in 0 .. RecordLife - 1
  BY DEF TypeOK
<1>2. \A tier \in Tier, i \in Identifier :
        pointer[tier][i] # None => pointer[tier][i] \in [to : MediaId, left : 1 .. RecordLife]
  BY DEF TypeOK
<1>3. \A i \in Identifier : promised[i] \in 0 .. ServableFor
  BY DEF TypeOK
<1>4. QED
  BY <1>1, <1>2, <1>3, Lives

\* A record is served for some ticks exactly if a lookup would answer with it now.
LEMMA ServesRange ==
  ASSUME TypeOK, NEW m \in MediaId
  PROVE  /\ Serves(m) \in 0 .. ServableFor
         /\ Serves(m) > 0 <=> Servable(m)
         /\ Servable(m) => record[m] \in Nat /\ Serves(m) = ServableFor - record[m]
<1>1. ASSUME Servable(m) PROVE record[m] \in Nat /\ record[m] < ServableFor
  <2>1. record[m] \in Nat
    BY <1>1, Ranges DEF Servable
  <2>2. ~ (record[m] >= ServableFor)
    BY <1>1, <2>1, StateByAge DEF Servable
  <2>3. QED
    BY <2>1, <2>2, Lives
<1>2. CASE Servable(m)
  BY <1>1, <1>2, Lives DEF Serves
<1>3. CASE ~ Servable(m)
  BY <1>3, Lives DEF Serves
<1>4. QED
  BY <1>2, <1>3

\* What a WritePointer writes.
Writes(p, tier, id, left) ==
  LET reading == {q \in Process : op[q] \in Checking /\ op[q].tier = "canonical" /\ op[q].id = id}
      m == op[p].media
  IN  /\ op[p] \in Writing /\ m \in MediaId
      /\ pointer' = [pointer EXCEPT ![tier][id] = [to |-> m, left |-> Life(tier)]]
      /\ op' = [op EXCEPT ![p] = IF left = << >> THEN Idle ELSE [op[p] EXCEPT !.todo = left]]
      /\ tier # "canonical" => UNCHANGED <<promised, overtaken, sure>>
      /\ tier = "canonical" =>
           /\ promised' = [promised EXCEPT ![id] = Serves(m)]
           /\ overtaken' = overtaken \cup reading
           /\ sure' = StillSure \ {q \in reading : op[q].media # m}
      /\ sure' \subseteq sure /\ overtaken' \subseteq overtaken \cup Process
      /\ UNCHANGED <<stored, begun>>

LEMMA WritePointerEffect ==
  ASSUME Shape, NEW p \in Process, WritePointer(p)
  PROVE  \E tier \in Tier, id \in Identifier, left \in Seq(Tier \X Identifier) :
           Writes(p, tier, id, left)
<1> DEFINE tier == Head(op[p].todo)[1]
           id   == Head(op[p].todo)[2]
           left == Tail(op[p].todo)
           m    == op[p].media
           reading == {q \in Process : op[q] \in Checking /\ op[q].tier = "canonical" /\ op[q].id = id}
<1>1. /\ op[p] \in Writing /\ op[p].todo \in Seq(Tier \X Identifier) /\ op[p].todo # << >>
      /\ m \in MediaId
  BY DEF WritePointer, Writing, Shape
<1>2. Head(op[p].todo) \in Tier \X Identifier /\ left \in Seq(Tier \X Identifier)
  BY <1>1, HeadAndTail
<1>3. tier \in Tier /\ id \in Identifier
  BY <1>2
<1>4. /\ pointer' = [pointer EXCEPT ![tier][id] = [to |-> m, left |-> Life(tier)]]
      /\ op' = [op EXCEPT ![p] = IF left = << >> THEN Idle ELSE [op[p] EXCEPT !.todo = left]]
      /\ tier # "canonical" => UNCHANGED <<promised, overtaken, sure>>
      /\ tier = "canonical" =>
           /\ promised' = [promised EXCEPT ![id] = Serves(m)]
           /\ overtaken' = overtaken \cup reading
           /\ sure' = StillSure \ {q \in reading : op[q].media # m}
      /\ UNCHANGED <<stored, begun>>
  BY DEF WritePointer, Becomes
<1>5. sure' \subseteq sure /\ overtaken' \subseteq overtaken \cup Process
  BY <1>4 DEF StillSure
<1>6. Writes(p, tier, id, left)
  BY <1>1, <1>4, <1>5 DEF Writes
<1> HIDE DEF tier, id, left
<1>7. QED
  BY <1>2, <1>3, <1>6

LEMMA ShapeStep ==
  ASSUME Shape, [Next]_vars
  PROVE  Shape'
<1> USE StoreAssumption, Lives DEF Shape, TypeOK
<1>1. ASSUME NEW p \in Process, Begin(p) PROVE begun' \in 0 .. MaxOperations
  BY <1>1 DEF Begin
<1>2. /\ StillSure \subseteq Process
      /\ StillOvertaken \subseteq Process
  BY DEF StillSure, StillOvertaken
<1>3. ASSUME NEW p \in Process, NEW m \in MediaId, NEW n \in MediaId, PutSnapshot(p, m, n)
      PROVE  Shape'
  <2>1. Ids[n] \in Seq(Identifier) /\ Len(Ids[n]) > 0
    OBVIOUS
  <2>2. [at |-> "put", media |-> m, todo |-> PutPointers(Ids[n])] \in Writing
    BY <2>1, PutPointersTypes DEF Writing
  <2>3. /\ record' \in [MediaId -> (0 .. RecordLife - 1) \cup {None}]
        /\ names' \in [MediaId -> Seq(Identifier)]
        /\ \A k \in MediaId : Len(names'[k]) > 0
    BY <1>3, <2>1 DEF PutSnapshot
  <2>4. refused' \subseteq {k \in MediaId : record'[k] # None}
    <3>1. refused' \subseteq refused \cup {m}
      BY <1>3 DEF PutSnapshot
    <3>2. record'[m] = 0 /\ \A k \in MediaId \ {m} : record'[k] = record[k]
      BY <1>3 DEF PutSnapshot
    <3>3. ASSUME NEW k \in refused' PROVE k \in MediaId /\ record'[k] # None
      <4>1. k = m \/ (k \in refused /\ k \in MediaId \ {m})
        BY <3>1
      <4>2. k \in refused => record[k] # None
        OBVIOUS
      <4>3. 0 # None
        OBVIOUS
      <4>4. QED
        BY <3>2, <4>1, <4>2, <4>3
    <3>4. QED
      BY <3>3
  <2>5. /\ op' \in [Process -> Rest \cup Writing \cup Reading \cup Checking]
        /\ \A q \in Process : op'[q] \in Writing => op'[q].todo # << >>
    BY <1>3, <2>1, <2>2, PutPointersTypes DEF PutSnapshot, Becomes
  <2>6. promised' \in [Identifier -> 0 .. ServableFor]
    <3>1. \/ promised' = promised
          \/ promised' = [i \in Identifier |-> IF LeadsTo(i, m) THEN 0 ELSE promised[i]]
      BY <1>3 DEF PutSnapshot
    <3>2. QED
      BY <3>1
  <2>7. overtaken' \subseteq Process /\ sure' \subseteq Process /\ pointer' = pointer
    BY <1>2, <1>3 DEF PutSnapshot
  <2>8. begun' \in 0 .. MaxOperations
    BY <1>1, <1>3 DEF PutSnapshot
  <2>9. QED
    BY <2>3, <2>4, <2>5, <2>6, <2>7, <2>8
<1>4. ASSUME NEW p \in Process, BeginPut(p) \/ BeginPutUnderOldId(p) PROVE Shape'
  BY <1>3, <1>4 DEF BeginPut, BeginPutUnderOldId
<1>5. ASSUME NEW p \in Process, BeginPromote(p) PROVE Shape'
  <2>1. PICK m \in MediaId :
          Becomes(p, [at |-> "promote", media |-> m, todo |-> PromotePointers(names[m])])
    BY <1>5 DEF BeginPromote
  <2>2. PromotePointers(names[m]) \in Seq(Tier \X Identifier) /\ PromotePointers(names[m]) # << >>
    BY PromotePointersTypes
  <2>3. [at |-> "promote", media |-> m, todo |-> PromotePointers(names[m])] \in Writing
    BY <2>2 DEF Writing
  <2>4. begun' \in 0 .. MaxOperations
    BY <1>1, <1>5 DEF BeginPromote
  <2>5. QED
    BY <1>5, <2>1, <2>2, <2>3, <2>4 DEF BeginPromote, Becomes, stored
<1>6. ASSUME NEW p \in Process, WritePointer(p) PROVE Shape'
  <2>1. PICK tier \in Tier, id \in Identifier, left \in Seq(Tier \X Identifier) :
          Writes(p, tier, id, left)
    BY <1>6, WritePointerEffect
  <2>2. op[p] \in Writing /\ op[p].media \in MediaId
    BY <2>1 DEF Writes, Writing
  <2>3. [op[p] EXCEPT !.todo = left] \in Writing /\ Idle \in Rest /\ Idle \notin Writing
    BY <2>2 DEF Writing, Rest, Idle
  <2>4. pointer' \in [Tier -> [Identifier -> [to : MediaId, left : 1 .. RecordLife] \cup {None}]]
    BY <2>1, <2>2 DEF Writes
  <2>5. op' = [op EXCEPT ![p] = IF left = << >> THEN Idle ELSE [op[p] EXCEPT !.todo = left]]
    BY <2>1 DEF Writes
  <2>6. op' \in [Process -> Rest \cup Writing \cup Reading \cup Checking]
    BY <2>3, <2>5
  <2>7. \A q \in Process : op'[q] \in Writing => op'[q].todo # << >>
    <3>1. [op[p] EXCEPT !.todo = left].todo = left
      BY <2>2 DEF Writing
    <3>2. op'[p] \in Writing => op'[p].todo # << >>
      BY <2>3, <2>5, <3>1
    <3>3. QED
      BY <2>5, <3>2
  <2>8. promised' \in [Identifier -> 0 .. ServableFor]
    <3>1. Serves(op[p].media) \in 0 .. ServableFor
      BY <2>2, ServesRange
    <3>2. promised' = promised \/ promised' = [promised EXCEPT ![id] = Serves(op[p].media)]
      BY <2>1 DEF Writes
    <3>3. QED
      BY <3>1, <3>2
  <2>9. overtaken' \subseteq Process /\ sure' \subseteq Process
    BY <2>1 DEF Writes
  <2>10. QED
    BY <2>1, <2>4, <2>6, <2>7, <2>8, <2>9 DEF Writes, stored
<1>7. ASSUME NEW p \in Process, Cleanup(p) PROVE Shape'
  <2>1. PICK m \in MediaId :
          pointer' = [pointer EXCEPT !["hot"] = [i \in Identifier |->
                        IF i \in SetOf(names[m]) THEN None ELSE @[i]]]
    BY <1>7 DEF Cleanup
  <2>2. pointer' \in [Tier -> [Identifier -> [to : MediaId, left : 1 .. RecordLife] \cup {None}]]
    BY <2>1 DEF Tier
  <2>3. UNCHANGED <<stored, op, overtaken, promised, sure>> /\ begun' \in 0 .. MaxOperations
    BY <1>1, <1>7 DEF Cleanup
  <2>4. QED
    BY <2>2, <2>3 DEF stored
<1>8. ASSUME NEW p \in Process, BeginLookup(p) PROVE Shape'
  <2>1. \A i \in Identifier : [at |-> "pointer", tier |-> "hot", id |-> i] \in Reading \ Writing
    BY DEF Reading, Writing, Tier
  <2>2. QED
    BY <1>1, <1>8, <2>1 DEF BeginLookup, Becomes, stored
<1>9. ASSUME NEW p \in Process, ReadPointer(p) PROVE Shape'
  <2>1. op[p].tier \in Tier /\ op[p].id \in Identifier
    BY <1>9 DEF ReadPointer, Reading
  <2>2. ASSUME pointer[op[p].tier][op[p].id] # None
        PROVE  [at |-> "record", tier |-> op[p].tier, id |-> op[p].id,
                media |-> pointer[op[p].tier][op[p].id].to] \in Checking \ Writing
    BY <2>1, <2>2 DEF Checking, Writing
  <2>3. QED
    BY <1>9, <2>1, <2>2, NextTierTypes DEF ReadPointer, Becomes, stored
<1>10. ASSUME NEW p \in Process, ReadRecord(p) PROVE Shape'
  <2>1. op[p] \in Checking /\ op[p].tier \in Tier /\ op[p].id \in Identifier
    BY <1>10 DEF ReadRecord, Checking
  <2>2. /\ [op[p] EXCEPT !.at = "drop"] \in Checking \ Writing
        /\ [op[p] EXCEPT !.at = "evict"] \in Checking \ Writing
        /\ Idle \in Rest \ Writing
    BY <2>1 DEF Checking, Rest, Writing, Idle
  <2>3. overtaken' \subseteq Process /\ sure' \subseteq Process /\ UNCHANGED <<stored, pointer, promised, begun>>
    BY <1>2, <1>10 DEF ReadRecord
  <2>4. /\ op' \in [Process -> Rest \cup Writing \cup Reading \cup Checking]
        /\ \A q \in Process : op'[q] \in Writing => op'[q].todo # << >>
    <3>1. \/ NextTier(p, op[p].tier, op[p].id)
          \/ \E st \in {[op[p] EXCEPT !.at = "drop"], [op[p] EXCEPT !.at = "evict"], Idle} :
               Becomes(p, st)
      BY <1>10 DEF ReadRecord
    <3>2. CASE NextTier(p, op[p].tier, op[p].id)
      BY <2>1, <3>2, NextTierTypes
    <3>3. ASSUME NEW st \in (Rest \cup Checking) \ Writing, Becomes(p, st)
          PROVE  /\ op' \in [Process -> Rest \cup Writing \cup Reading \cup Checking]
                 /\ \A q \in Process : op'[q] \in Writing => op'[q].todo # << >>
      BY <3>3 DEF Becomes
    <3>4. QED
      BY <2>2, <3>1, <3>2, <3>3
  <2>5. QED
    BY <2>3, <2>4 DEF stored
<1>11. ASSUME NEW p \in Process, DropPointer(p) \/ EvictRecord(p) PROVE Shape'
  <2>1. /\ op[p] \in Checking /\ op[p].tier \in Tier /\ op[p].id \in Identifier
        /\ op[p].media \in MediaId /\ NextTier(p, op[p].tier, op[p].id)
    BY <1>11 DEF DropPointer, EvictRecord, Checking
  <2>2. /\ op' \in [Process -> Rest \cup Writing \cup Reading \cup Checking]
        /\ \A q \in Process : op'[q] \in Writing => op'[q].todo # << >>
    BY <2>1, NextTierTypes
  <2>3. pointer' \in [Tier -> [Identifier -> [to : MediaId, left : 1 .. RecordLife] \cup {None}]]
    <3>1. pointer' = [pointer EXCEPT ![op[p].tier][op[p].id] = None]
      BY <1>11 DEF DropPointer, EvictRecord
    <3>2. QED
      BY <2>1, <3>1
  <2>4. promised' \in [Identifier -> 0 .. ServableFor]
    <3>1. CASE DropPointer(p)
      <4>1. promised' = promised \/ promised' = [promised EXCEPT ![op[p].id] = 0]
        BY <3>1 DEF DropPointer
      <4>2. 0 \in 0 .. ServableFor
        OBVIOUS
      <4>3. QED
        BY <2>1, <4>1, <4>2
    <3>2. CASE EvictRecord(p)
      BY <3>2 DEF EvictRecord
    <3>3. QED
      BY <1>11, <3>1, <3>2
  <2>5. /\ record' \in [MediaId -> (0 .. RecordLife - 1) \cup {None}]
        /\ names' \in [MediaId -> Seq(Identifier)]
        /\ \A k \in MediaId : Len(names'[k]) > 0
        /\ refused' \subseteq {k \in MediaId : record'[k] # None}
    <3>1. CASE DropPointer(p)
      BY <3>1 DEF DropPointer, stored
    <3>2. CASE EvictRecord(p)
      <4>1. /\ record' = [record EXCEPT ![op[p].media] = None]
            /\ names' = [names EXCEPT ![op[p].media] = Ids[op[p].media]]
            /\ refused' = refused \ {op[p].media}
        BY <3>2 DEF EvictRecord
      <4>2. record' \in [MediaId -> (0 .. RecordLife - 1) \cup {None}]
        BY <2>1, <4>1
      <4>3. names' \in [MediaId -> Seq(Identifier)] /\ \A k \in MediaId : Len(names'[k]) > 0
        BY <2>1, <4>1
      <4>4. ASSUME NEW k \in refused' PROVE k \in MediaId /\ record'[k] # None
        <5>1. k \in refused /\ k # op[p].media
          BY <4>1
        <5>2. k \in MediaId /\ record[k] # None
          BY <5>1
        <5>3. record'[k] = record[k]
          BY <4>1, <5>1, <5>2
        <5>4. QED
          BY <5>2, <5>3
      <4>5. QED
        BY <4>2, <4>3, <4>4
    <3>3. QED
      BY <1>11, <3>1, <3>2
  <2>6. overtaken' \subseteq Process /\ sure' \subseteq Process /\ begun' = begun
    BY <1>2, <1>11 DEF DropPointer, EvictRecord
  <2>7. QED
    BY <2>2, <2>3, <2>5, <2>6, <2>4
<1>12. ASSUME NEW p \in Process, Crash(p) PROVE Shape'
  <2>1. Idle \in Rest \ Writing
    BY DEF Rest, Writing, Idle
  <2>2. QED
    BY <1>2, <1>12, <2>1 DEF Crash, Becomes, stored
<1>13. CASE Tick
  <2>1. record' \in [MediaId -> (0 .. RecordLife - 1) \cup {None}]
    <3>1. ASSUME NEW m \in MediaId, record[m] # None, record[m] # RecordLife - 1
          PROVE  record[m] + 1 \in 0 .. RecordLife - 1
      <4>1. record[m] \in 0 .. RecordLife - 1
        BY <3>1
      <4>2. QED
        BY <3>1, <4>1
    <3>2. QED
      BY <1>13, <3>1 DEF Tick
  <2>2. /\ names' \in [MediaId -> Seq(Identifier)] /\ \A m \in MediaId : Len(names'[m]) > 0
        /\ refused' \subseteq {m \in MediaId : record'[m] # None}
    BY <1>13 DEF Tick
  <2>3. \A tier \in Tier, i \in Identifier :
          Older(pointer[tier][i]) \in [to : MediaId, left : 1 .. RecordLife] \cup {None}
    <3>1. ASSUME NEW pt \in [to : MediaId, left : 1 .. RecordLife], pt.left # 1
          PROVE  [pt EXCEPT !.left = @ - 1] \in [to : MediaId, left : 1 .. RecordLife]
      <4>1. pt.left \in 1 .. RecordLife
        OBVIOUS
      <4>2. pt.left - 1 \in 1 .. RecordLife
        BY <3>1, <4>1
      <4>3. QED
        BY <4>2
    <3>2. ASSUME NEW tier \in Tier, NEW i \in Identifier
          PROVE  pointer[tier][i] \in [to : MediaId, left : 1 .. RecordLife] \cup {None}
      OBVIOUS
    <3>3. QED
      BY <3>1, <3>2 DEF Older
  <2>4. pointer' \in [Tier -> [Identifier -> [to : MediaId, left : 1 .. RecordLife] \cup {None}]]
    BY <1>13, <2>3 DEF Tick
  <2>5. promised' \in [Identifier -> 0 .. ServableFor] /\ sure' \subseteq Process
    BY <1>2, <1>13 DEF Tick
  <2>6. QED
    BY <1>13, <2>1, <2>2, <2>4, <2>5 DEF Tick
<1>14. CASE UNCHANGED vars
  BY <1>14 DEF vars, stored
<1>15. QED
  BY <1>4, <1>5, <1>6, <1>7, <1>8, <1>9, <1>10, <1>11, <1>12, <1>13, <1>14 DEF Next

-----------------------------------------------------------------------------
\* What a promise held before a step rests on.
LEMMA WhatBacks ==
  ASSUME Shape, PromisesBacked, NEW i \in Identifier, promised[i] > 0
  PROVE  LET c == pointer["canonical"][i]
         IN  /\ c # None /\ c.to \in MediaId /\ c.left \in Nat \ {0}
             /\ promised[i] \in Nat /\ promised[i] <= c.left
             /\ promised[i] <= Serves(c.to) /\ Servable(c.to)
<1> DEFINE c == pointer["canonical"][i]
<1>1. c # None /\ promised[i] <= c.left /\ promised[i] <= Serves(c.to)
  BY DEF PromisesBacked, Backed
<1>2. c.to \in MediaId /\ c.left \in Nat \ {0} /\ promised[i] \in Nat
  BY <1>1, Ranges DEF Shape, Tier
<1>3. Serves(c.to) > 0
  <2>1. Serves(c.to) \in Nat
    BY <1>2, ServesRange, Lives DEF Shape
  <2> HIDE DEF c
  <2>2. QED
    BY <1>1, <1>2, <2>1
<1>4. Servable(c.to)
  BY <1>2, <1>3, ServesRange DEF Shape
<1>5. QED
  BY <1>1, <1>2, <1>4

LEMMA PutServes ==
  ASSUME Shape, NEW p \in Process, NEW m \in MediaId, NEW n \in MediaId, PutSnapshot(p, m, n)
  PROVE  /\ \A k \in MediaId : k # m => Serves(k)' = Serves(k)
         /\ m \notin refused' => Serves(m)' = ServableFor
<1>1. record'[m] = 0 /\ \A k \in MediaId : k # m => record'[k] = record[k]
  BY DEF PutSnapshot, Shape, TypeOK
<1>2. \A k \in MediaId : k # m => (k \in refused' <=> k \in refused)
  BY DEF PutSnapshot
<1>3. ASSUME m \notin refused' PROVE Serves(m)' = ServableFor
  <2>1. ~ (0 >= ServableFor) /\ 0 # None /\ ServableFor - 0 = ServableFor
    BY Lives, StoreAssumption
  <2>2. StateAtAge(0) # "expired"
    BY <2>1, StateByAge
  <2>3. QED
    BY <1>1, <1>3, <2>1, <2>2 DEF Serves, Servable
<1>4. QED
  BY <1>1, <1>2, <1>3 DEF Serves, Servable

\* What a tick does to a canonical pointer and to the record it names.
LEMMA CanonicalAges ==
  ASSUME Shape, Tick, NEW i \in Identifier
  PROVE  LET b == pointer["canonical"][i]
             c == pointer'["canonical"][i]
         IN  /\ c # None => b # None /\ c.to = b.to
             /\ b # None /\ b.left # 1 => c # None /\ c.left = b.left - 1
<1> DEFINE b == pointer["canonical"][i]
<1>1. pointer'["canonical"][i] = Older(b)
  BY DEF Tick, Tier
<1>2. CASE b = None \/ b.left = 1
  BY <1>1, <1>2 DEF Older
<1>3. CASE b # None /\ b.left # 1
  <2>1. b \in [to : MediaId, left : 1 .. RecordLife] /\ b.left \in Nat \ {0}
    BY <1>3, Ranges DEF Shape, Tier
  <2>2. Older(b) = [b EXCEPT !.left = @ - 1]
    BY <1>3 DEF Older
  <2>3. [b EXCEPT !.left = @ - 1].to = b.to /\ [b EXCEPT !.left = @ - 1].left = b.left - 1
    BY <2>1
  <2>4. [b EXCEPT !.left = @ - 1] \in [to : MediaId, left : Nat]
    <3>1. b.left - 1 \in Nat
      BY <2>1
    <3>2. QED
      BY <2>1, <3>1
  <2>5. QED
    BY <1>1, <1>3, <2>2, <2>3, <2>4, StoreAssumption
<1>4. QED
  BY <1>2, <1>3

LEMMA RecordAges ==
  ASSUME Shape, Tick, NEW m \in MediaId
  PROVE  /\ Serves(m) > 1 => Serves(m)' = Serves(m) - 1
         /\ Serves(m) = 0 => Serves(m)' = 0
<1>1. /\ record'[m] = IF record[m] = None \/ record[m] = RecordLife - 1 THEN None ELSE record[m] + 1
      /\ m \in refused' <=> m \in refused /\ record'[m] # None
  BY DEF Tick
<1>2. Serves(m) \in Nat /\ (Serves(m) > 0 <=> Servable(m))
  BY ServesRange, Lives DEF Shape
<1>3. ASSUME Serves(m) > 1 PROVE Serves(m)' = Serves(m) - 1
  <2>1. /\ record[m] \in Nat /\ Serves(m) = ServableFor - record[m]
        /\ record[m] # None /\ m \notin refused
    BY <1>2, <1>3, ServesRange DEF Shape, Servable
  <2>2. record[m] + 1 < ServableFor /\ record[m] # RecordLife - 1 /\ record[m] + 1 \in Nat
    BY <1>2, <1>3, <2>1, Lives
  <2>3. record'[m] = record[m] + 1 /\ m \notin refused'
    BY <1>1, <2>1, <2>2
  <2>4. ~ (record[m] + 1 >= ServableFor) /\ record[m] + 1 # None
    BY <2>2, Lives, StoreAssumption
  <2>5. Servable(m)'
    BY <2>2, <2>3, <2>4, StateByAge DEF Servable
  <2>6. ServableFor - (record[m] + 1) = (ServableFor - record[m]) - 1
    BY <2>1, Lives
  <2>7. QED
    BY <2>1, <2>3, <2>5, <2>6 DEF Serves
<1>4. ASSUME Serves(m) = 0 PROVE Serves(m)' = 0
  <2>1. ~ Servable(m)
    BY <1>2, <1>4
  <2>2. CASE record'[m] = None
    BY <2>2 DEF Serves, Servable
  <2>3. CASE record'[m] # None
    <3>1. record[m] # None /\ record'[m] = record[m] + 1
      BY <1>1, <2>3
    <3>2. record[m] \in Nat
      BY <3>1, Ranges DEF Shape
    <3>3. m \in refused \/ record[m] >= ServableFor
      BY <2>1, <3>1, <3>2, StateByAge DEF Servable
    <3>4. m \in refused' \/ record[m] + 1 >= ServableFor
      BY <1>1, <2>3, <3>2, <3>3, Lives
    <3>5. ~ Servable(m)'
      BY <3>1, <3>2, <3>4, StateByAge DEF Servable
    <3>6. QED
      BY <3>5 DEF Serves
  <2>4. QED
    BY <2>2, <2>3
<1>5. QED
  BY <1>3, <1>4

LEMMA ServesKept ==
  ASSUME NEW m, record'[m] = record[m], m \in refused' <=> m \in refused
  PROVE  Serves(m)' = Serves(m)
BY DEF Serves, Servable

LEMMA CleanupStays ==
  ASSUME Shape, NEW p \in Process, Cleanup(p)
  PROVE  pointer'["canonical"] = pointer["canonical"]
BY DEF Cleanup, Shape, TypeOK, Tier

\* A DEL takes the pointer it was sent for and leaves the others; only an overtaken
\* lookup's deletes what carries a promise.
LEMMA Deleted ==
  ASSUME Shape, NEW p \in Process, op[p] \in Checking,
         pointer' = [pointer EXCEPT ![op[p].tier][op[p].id] = None],
         NEW i \in Identifier
  PROVE  /\ pointer'["canonical"][i] # None => pointer'["canonical"][i] = pointer["canonical"][i]
         /\ ~ (op[p].tier = "canonical" /\ op[p].id = i)
              => pointer'["canonical"][i] = pointer["canonical"][i]
<1>1. op[p].tier \in Tier /\ op[p].id \in Identifier
  BY DEF Checking
<1>2. QED
  BY <1>1 DEF Shape, TypeOK, Tier

LEMMA PromisesStep ==
  ASSUME StoreInv, [Next]_vars
  PROVE  PromisesBacked'
<1> USE DEF StoreInv
<1> SUFFICES ASSUME NEW i \in Identifier, promised'[i] > 0 PROVE Backed(i)'
  BY DEF PromisesBacked, Backed
<1> DEFINE c == pointer["canonical"][i]
           d == pointer'["canonical"][i]
<1>1. ASSUME NEW p \in Process, NEW m \in MediaId, NEW n \in MediaId, PutSnapshot(p, m, n)
      PROVE  Backed(i)'
  <2>1. promised'[i] = promised[i] /\ pointer' = pointer
    BY <1>1 DEF PutSnapshot
  <2>2. /\ c # None /\ c.to \in MediaId /\ promised[i] \in Nat /\ promised[i] <= c.left
        /\ promised[i] <= Serves(c.to)
    BY <2>1, WhatBacks
  <2>3. CASE c.to # m
    BY <1>1, <2>1, <2>2, <2>3, PutServes DEF Backed
  <2>4. CASE c.to = m
    <3>1. m \notin refused'
      <4>1. LeadsTo(i, m)
        BY <2>2, <2>4 DEF LeadsTo
      <4>2. QED
        BY <1>1, <4>1 DEF PutSnapshot
    <3>2. Serves(m)' = ServableFor
      BY <1>1, <3>1, PutServes
    <3>3. promised[i] <= ServableFor
      <4>1. promised[i] \in 0 .. ServableFor
        BY Ranges DEF Shape
      <4>2. QED
        BY <4>1, Lives
    <3>4. QED
      BY <2>1, <2>2, <2>4, <3>2, <3>3 DEF Backed
  <2>5. QED
    BY <2>3, <2>4
<1>2. ASSUME NEW p \in Process, BeginPut(p) \/ BeginPutUnderOldId(p) PROVE Backed(i)'
  BY <1>1, <1>2 DEF BeginPut, BeginPutUnderOldId
<1>3. ASSUME UNCHANGED <<record, refused, promised>>, d = c PROVE Backed(i)'
  BY <1>3 DEF PromisesBacked, Backed, Serves, Servable
<1>4. ASSUME NEW p \in Process,
             \/ BeginPromote(p) \/ BeginLookup(p) \/ ReadPointer(p) \/ ReadRecord(p) \/ Crash(p)
             \/ Cleanup(p)
      PROVE  Backed(i)'
  <2>1. UNCHANGED <<record, refused, promised>>
    BY <1>4 DEF BeginPromote, BeginLookup, ReadPointer, ReadRecord, Crash, Cleanup, stored
  <2>2. d = c
    BY <1>4, CleanupStays DEF BeginPromote, BeginLookup, ReadPointer, ReadRecord, Crash
  <2>3. QED
    BY <1>3, <2>1, <2>2
<1>5. ASSUME NEW p \in Process, WritePointer(p) PROVE Backed(i)'
  <2>1. PICK tier \in Tier, id \in Identifier, left \in Seq(Tier \X Identifier) :
          Writes(p, tier, id, left)
    BY <1>5, WritePointerEffect
  <2>2. UNCHANGED <<record, refused>> /\ op[p].media \in MediaId
    BY <2>1 DEF Writes, stored
  <2>3. CASE tier = "canonical" /\ id = i
    <3> PICK m \in MediaId : m = op[p].media
      BY <2>2
    <3>1. d = [to |-> m, left |-> RecordLife]
      BY <2>1, <2>3, Lives DEF Writes, Shape, TypeOK
    <3>2. promised'[i] = Serves(m)
      BY <2>1, <2>3 DEF Writes, Shape, TypeOK
    <3>3. Serves(m)' = Serves(m) /\ Serves(m) <= RecordLife
      BY <2>2, ServesKept, ServesRange, Lives DEF Shape
    <3>4. d # None /\ d.to = m /\ d.left = RecordLife
      <4>1. [to |-> m, left |-> RecordLife] \in [to : MediaId, left : Nat]
        BY <2>2, Lives
      <4>2. QED
        BY <3>1, <4>1, StoreAssumption
    <3>5. Serves(m) \in Nat
      BY <2>2, ServesRange, Lives DEF Shape
    <3>6. QED
      BY <3>2, <3>3, <3>4, <3>5 DEF Backed
  <2>4. CASE ~ (tier = "canonical" /\ id = i)
    <3>1. d = c
      BY <2>1, <2>4 DEF Writes, Shape, TypeOK, Tier
    <3>2. promised'[i] = promised[i]
      BY <2>1, <2>4 DEF Writes, Shape, TypeOK
    <3>3. QED
      BY <2>2, <3>1, <3>2 DEF PromisesBacked, Backed, Serves, Servable
  <2>5. QED
    BY <2>3, <2>4
<1>6. ASSUME NEW p \in Process, DropPointer(p) PROVE Backed(i)'
  <2> DEFINE r == op[p]
             mine == r.tier = "canonical" /\ r.id = i
  <2>1. /\ r \in Checking /\ r.at = "drop" /\ r.id \in Identifier
        /\ pointer' = [pointer EXCEPT ![r.tier][r.id] = None]
        /\ UNCHANGED <<record, refused>>
    BY <1>6 DEF DropPointer, stored, Checking
  <2>2. promised' = IF p \in overtaken THEN [promised EXCEPT ![r.id] = 0] ELSE promised
    BY <1>6 DEF DropPointer
  <2>3. promised'[i] = promised[i]
    BY <2>1, <2>2 DEF Shape, TypeOK
  <2>4. ~ mine
    <3> SUFFICES ASSUME mine PROVE FALSE
      OBVIOUS
    <3>1. CASE p \in overtaken
      <4>1. promised'[i] = 0
        BY <2>1, <2>2, <3>1 DEF Shape, TypeOK
      <4>2. QED
        BY <4>1
    <3>2. CASE p \notin overtaken
      <4>1. promised[i] = 0
        BY <2>1, <3>2 DEF ReadersInv, ReaderOK
      <4>2. QED
        BY <2>3, <4>1
    <3>3. QED
      BY <3>1, <3>2
  <2>5. d = c
    BY <2>1, <2>4, Deleted
  <2>6. QED
    BY <2>1, <2>3, <2>5 DEF PromisesBacked, Backed, Serves, Servable
<1>7. ASSUME NEW p \in Process, EvictRecord(p) PROVE Backed(i)'
  <2> DEFINE r == op[p]
             mine == r.tier = "canonical" /\ r.id = i
  <2>1. /\ r \in Checking /\ r.at = "evict" /\ r.id \in Identifier /\ r.media \in MediaId
        /\ pointer' = [pointer EXCEPT ![r.tier][r.id] = None]
        /\ record' = [record EXCEPT ![r.media] = None]
        /\ refused' = refused \ {r.media}
    BY <1>7 DEF EvictRecord, Checking
  <2>2. /\ promised'[i] = promised[i]
        /\ ~ (p \in overtaken /\ (LeadsTo(i, r.media) \/ mine))
    BY <1>7 DEF EvictRecord
  <2>3. /\ c # None /\ c.to \in MediaId /\ promised[i] \in Nat
        /\ promised[i] <= c.left /\ promised[i] <= Serves(c.to)
    BY <2>2, WhatBacks
  <2> PICK n \in MediaId : n = c.to
    BY <2>3
  <2>4. n # r.media
    <3> SUFFICES ASSUME n = r.media PROVE FALSE
      OBVIOUS
    <3>1. p \notin overtaken
      BY <2>2, <2>3 DEF LeadsTo
    <3>2. Serves(r.media) = 0
      BY <2>1, <3>1 DEF ReadersInv, ReaderOK
    <3>3. promised[i] <= 0 /\ promised[i] > 0
      BY <2>2, <2>3, <3>2
    <3>4. QED
      BY <2>3, <3>3
  <2>5. ~ mine
    <3> SUFFICES ASSUME mine PROVE FALSE
      OBVIOUS
    <3>1. p \notin overtaken
      BY <2>2
    <3>2. c = None \/ c.to = r.media
      BY <2>1, <3>1 DEF ReadersInv, ReaderOK
    <3>3. QED
      BY <2>3, <2>4, <3>2
  <2>6. d = c
    BY <2>1, <2>5, Deleted
  <2>7. Serves(n)' = Serves(n)
    <3>1. record'[n] = record[n] /\ (n \in refused' <=> n \in refused)
      BY <2>1, <2>4 DEF Shape, TypeOK
    <3>2. QED
      BY <3>1, ServesKept
  <2>8. QED
    BY <2>2, <2>3, <2>6, <2>7 DEF Backed
<1>8. CASE Tick
  <2>1. promised[i] \in Nat /\ promised[i] > 1 /\ promised'[i] = promised[i] - 1
    BY <1>8, Ranges, Lives DEF Tick, Shape
  <2>2. /\ c # None /\ c.to \in MediaId /\ c.left \in Nat \ {0}
        /\ promised[i] <= c.left /\ promised[i] <= Serves(c.to)
    BY <2>1, WhatBacks
  <2> PICK n \in MediaId : n = c.to
    BY <2>2
  <2>3. c.left # 1
    BY <2>1, <2>2
  <2>4. d # None /\ d.to = n /\ d.left = c.left - 1
    BY <1>8, <2>2, <2>3, CanonicalAges
  <2>5. Serves(n) \in Nat
    BY ServesRange, Lives DEF Shape
  <2>6. Serves(n) > 1 /\ promised[i] <= Serves(n)
    <3>1. promised[i] <= Serves(n)
      BY <2>2
    <3> HIDE DEF c
    <3>2. QED
      BY <2>1, <2>5, <3>1
  <2>7. Serves(n)' = Serves(n) - 1
    BY <1>8, <2>6, RecordAges
  <2>8. promised'[i] <= d.left /\ promised'[i] <= Serves(n) - 1
    <3> HIDE DEF c, d
    <3>1. QED
      BY <2>1, <2>2, <2>4, <2>5, <2>6
  <2>9. QED
    BY <2>4, <2>7, <2>8 DEF Backed
<1>9. CASE UNCHANGED vars
  BY <1>3, <1>9 DEF vars, stored
<1>10. QED
  BY <1>2, <1>4, <1>5, <1>6, <1>7, <1>8, <1>9 DEF Next

-----------------------------------------------------------------------------
\* A lookup in its place while another operation, or time, makes a step: the
\* pointer it has read may go or be written anew, and then it is overtaken.
LEMMA ReaderUndisturbed ==
  ASSUME StoreInv, Shape', PromisesBacked', NEW q \in Process, op'[q] = op[q],
         q \in sure' => q \in sure,
         q \in sure' /\ op[q] \in Reading \cup Checking => promised'[op[q].id] > 0,
         op[q] \in Checking => (q \in overtaken => q \in overtaken'),
         op[q] \in Checking /\ op[q].tier = "canonical" =>
           LET b == pointer["canonical"][op[q].id]
               c == pointer'["canonical"][op[q].id]
           IN  /\ q \in overtaken' \/ c = None \/ (b # None /\ c.to = b.to)
               /\ q \notin sure' \/ c = None \/ (b # None /\ c.to = b.to) \/ c.to = op[q].media
               /\ q \in overtaken' \/ promised'[op[q].id] = 0 \/ promised[op[q].id] # 0,
         op[q] \in Checking /\ op[q].at = "evict" =>
           \A m \in MediaId : m = op[q].media => q \in overtaken' \/ Serves(m)' = 0 \/ Serves(m) # 0
  PROVE  ReaderOK(q)'
<1> DEFINE r == op[q]
           b == pointer["canonical"][r.id]
           c == pointer'["canonical"][r.id]
           canonical == r \in Checking /\ r.tier = "canonical"
<1>1. ReaderOK(q)
  BY DEF StoreInv, ReadersInv
<1>2. r \in Checking => r.id \in Identifier /\ r.media \in MediaId
  BY DEF Checking
<1>3. r = [at |-> "miss"] => q \notin sure'
  BY <1>1 DEF ReaderOK
<1>4. ASSUME q \in sure', canonical PROVE r.at = "record" /\ c # None /\ c.to = r.media
  <2>1. q \in sure /\ promised'[r.id] > 0
    BY <1>4
  <2>2. r.at = "record" /\ b # None /\ b.to = r.media
    BY <1>1, <1>4, <2>1 DEF ReaderOK
  <2>3. c # None
    BY <1>2, <1>4, <2>1, WhatBacks DEF PromisesBacked, Backed
  <2>4. QED
    BY <1>4, <2>2, <2>3
<1>5. ASSUME q \notin overtaken', canonical
      PROVE  /\ c = None \/ c.to = r.media
             /\ r.at = "drop" => promised'[r.id] = 0
  <2>1. q \notin overtaken
    BY <1>5
  <2>2. b = None \/ b.to = r.media
    BY <1>1, <1>5, <2>1 DEF ReaderOK
  <2>3. r.at = "drop" => promised[r.id] = 0
    BY <1>1, <1>5, <2>1 DEF ReaderOK
  <2>4. QED
    BY <1>5, <2>2, <2>3
<1>6. ASSUME q \notin overtaken', r \in Checking, r.at = "evict"
      PROVE  \A m \in MediaId : m = r.media => Serves(m)' = 0
  <2>1. q \notin overtaken
    BY <1>6
  <2>2. Serves(r.media) = 0
    BY <1>1, <1>6, <2>1 DEF ReaderOK
  <2>3. QED
    BY <1>6, <2>2
<1>7. PICK m : m = r.media
  OBVIOUS
<1>8. op'[q].media = m /\ (r \in Checking => m \in MediaId)
  BY <1>2, <1>7
<1>9. q \notin overtaken' /\ r \in Checking /\ r.at = "evict" => Serves(m)' = 0
  BY <1>2, <1>6, <1>7
<1>10. QED
  BY <1>3, <1>4, <1>5, <1>8, <1>9 DEF ReaderOK

\* Steps that leave records, canonical pointers and promises alone.
LEMMA ReaderLeftAlone ==
  ASSUME StoreInv, Shape', PromisesBacked', NEW q \in Process, op'[q] = op[q],
         q \in sure' => q \in sure,
         op[q] \in Checking => (q \in overtaken => q \in overtaken'),
         UNCHANGED <<record, refused, promised>>, pointer'["canonical"] = pointer["canonical"]
  PROVE  ReaderOK(q)'
<1>1. q \in sure' /\ op[q] \in Reading \cup Checking => promised'[op[q].id] > 0
  BY DEF StoreInv, ReadersInv, ReaderOK
<1>2. \A m \in MediaId : Serves(m)' = Serves(m)
  BY ServesKept
<1>3. QED
  BY <1>1, <1>2, ReaderUndisturbed

LEMMA OnlyOwnStep ==
  ASSUME TypeOK, NEW p \in Process, NEW st, Becomes(p, st)
  PROVE  op'[p] = st /\ \A q \in Process : q # p => op'[q] = op[q]
BY DEF Becomes, TypeOK

LEMMA StillThere ==
  ASSUME NEW q \in Process, op'[q] = op[q]
  PROVE  /\ op[q] \in Checking /\ q \in overtaken => q \in StillOvertaken
         /\ q \in StillSure =>
              q \in sure /\ op[q] \in Reading \cup Checking /\ promised'[op[q].id] > 0
BY DEF StillOvertaken, StillSure

\* An operation that is no lookup has nothing to find or to delete.
LEMMA NoReader ==
  ASSUME NEW p \in Process, op'[p] \notin Reading \cup Checking, op'[p] # [at |-> "miss"]
  PROVE  ReaderOK(p)'
BY DEF ReaderOK

\* A lookup going on to the next tier, or to its answer.
LEMMA NextTierReader ==
  ASSUME TypeOK, NEW p \in Process, op[p] \in Reading \cup Checking,
         op[p].tier = "canonical" => p \notin sure',
         NextTier(p, op[p].tier, op[p].id),
         p \in sure' => promised'[op[p].id] > 0
  PROVE  ReaderOK(p)'
<1>1. op[p].id \in Identifier /\ op[p].tier \in Tier
  BY DEF Reading, Checking
<1>2. CASE op[p].tier = "hot"
  <2>1. op'[p] = [at |-> "pointer", tier |-> "canonical", id |-> op[p].id]
    BY <1>2, OnlyOwnStep DEF NextTier
  <2>2. op'[p].id = op[p].id /\ op'[p].at = "pointer"
    BY <2>1
  <2>3. op'[p] \notin Checking /\ op'[p] # [at |-> "miss"]
    BY <2>2 DEF Checking
  <2>4. QED
    BY <2>2, <2>3 DEF ReaderOK
<1>3. CASE op[p].tier = "canonical"
  <2>1. op'[p] = [at |-> "miss"]
    BY <1>3, OnlyOwnStep DEF NextTier
  <2>2. op'[p] \notin Reading \cup Checking
    BY <2>1 DEF Reading, Checking
  <2>3. QED
    BY <1>3, <2>2 DEF ReaderOK
<1>4. QED
  BY <1>1, <1>2, <1>3 DEF Tier

LEMMA ReadersStep ==
  ASSUME StoreInv, Shape', PromisesBacked', [Next]_vars
  PROVE  ReadersInv'
<1> USE DEF StoreInv, Shape
<1>1. ASSUME NEW p \in Process, NEW m \in MediaId, NEW n \in MediaId, PutSnapshot(p, m, n)
      PROVE  ReadersInv'
  <2>1. /\ op'[p] = [at |-> "put", media |-> m, todo |-> PutPointers(Ids[n])]
        /\ \A q \in Process : q # p => op'[q] = op[q]
    BY <1>1, OnlyOwnStep DEF PutSnapshot
  <2>2. ReaderOK(p)'
    <3>1. op'[p].at = "put"
      BY <2>1
    <3>2. QED
      BY <3>1, NoReader DEF Reading, Checking
  <2>3. ASSUME NEW q \in Process, q # p PROVE ReaderOK(q)'
    <3>1. op'[q] = op[q] /\ sure' = StillSure /\ pointer' = pointer
      BY <1>1, <2>1, <2>3 DEF PutSnapshot
    <3>2. /\ overtaken \subseteq overtaken'
          /\ op[q] \in Checking /\ op[q].at = "evict" /\ op[q].media = m => q \in overtaken'
      BY <1>1 DEF PutSnapshot
    <3>3. \A i \in Identifier : promised'[i] = 0 \/ promised'[i] = promised[i]
      BY <1>1 DEF PutSnapshot
    <3>4. \A k \in MediaId : k # m => Serves(k)' = Serves(k)
      BY <1>1, PutServes
    <3>5. op[q] \in Checking => op[q].id \in Identifier
      BY DEF Checking
    <3>6. QED
      BY <3>1, <3>2, <3>3, <3>4, <3>5, StillThere, ReaderUndisturbed
  <2>4. QED
    BY <2>2, <2>3 DEF ReadersInv
<1>2. ASSUME NEW p \in Process, BeginPut(p) \/ BeginPutUnderOldId(p) PROVE ReadersInv'
  BY <1>1, <1>2 DEF BeginPut, BeginPutUnderOldId
<1>3. ASSUME NEW p \in Process,
             \/ BeginPromote(p) \/ Cleanup(p) \/ Crash(p)
             \/ (BeginLookup(p) \/ ReadPointer(p) \/ ReadRecord(p)) /\ ReaderOK(p)'
      PROVE  ReadersInv'
  <2>1. UNCHANGED <<record, refused, promised>> /\ pointer'["canonical"] = pointer["canonical"]
    BY <1>3, CleanupStays
       DEF BeginPromote, Cleanup, Crash, BeginLookup, ReadPointer, ReadRecord, stored
  <2>2. \/ op' = op
        \/ \E st : Becomes(p, st) /\ (ReaderOK(p)' \/ st.at \in {"promote", "idle"})
    <3>1. CASE BeginPromote(p)
      BY <3>1 DEF BeginPromote
    <3>2. CASE Cleanup(p)
      BY <3>2 DEF Cleanup
    <3>3. CASE Crash(p)
      BY <3>3 DEF Crash, Idle
    <3>4. CASE BeginLookup(p) /\ ReaderOK(p)'
      BY <3>4 DEF BeginLookup
    <3>5. CASE ReadPointer(p) /\ ReaderOK(p)'
      BY <3>5 DEF ReadPointer, NextTier
    <3>6. CASE ReadRecord(p) /\ ReaderOK(p)'
      BY <3>6 DEF ReadRecord, NextTier
    <3>7. QED
      BY <1>3, <3>1, <3>2, <3>3, <3>4, <3>5, <3>6
  <2>3. \A q \in Process : q # p => op'[q] = op[q]
    BY <2>2, OnlyOwnStep
  <2>4. ASSUME NEW q \in Process, q # p \/ Cleanup(p), op'[q] = op[q] PROVE ReaderOK(q)'
    <3>1. /\ q \in sure' => q \in sure
          /\ op[q] \in Checking => (q \in overtaken => q \in overtaken')
      BY <1>3, <2>4, StillThere
         DEF BeginPromote, Cleanup, Crash, BeginLookup, ReadPointer, ReadRecord
    <3>2. QED
      BY <2>1, <2>4, <3>1, ReaderLeftAlone
  <2>5. ReaderOK(p)'
    <3>1. CASE Cleanup(p)
      <4>1. op' = op
        BY <3>1 DEF Cleanup
      <4>2. QED
        BY <2>4, <3>1, <4>1
    <3>2. ASSUME NEW st, Becomes(p, st), st.at \in {"promote", "idle"} PROVE ReaderOK(p)'
      <4>1. op'[p].at \in {"promote", "idle"}
        BY <3>2, OnlyOwnStep
      <4>2. QED
        BY <4>1, NoReader DEF Reading, Checking
    <3>3. CASE BeginPromote(p)
      BY <3>2, <3>3 DEF BeginPromote
    <3>4. CASE Crash(p)
      BY <3>2, <3>4 DEF Crash, Idle
    <3>5. QED
      BY <1>3, <3>1, <3>3, <3>4
  <2>6. QED
    BY <2>3, <2>4, <2>5 DEF ReadersInv
<1>4. ASSUME NEW p \in Process, WritePointer(p) PROVE ReadersInv'
  <2>1. PICK tier \in Tier, id \in Identifier, left \in Seq(Tier \X Identifier) :
          Writes(p, tier, id, left)
    BY <1>4, WritePointerEffect
  <2>2. UNCHANGED <<record, refused>> /\ op[p] \in Writing
    BY <2>1 DEF Writes, stored
  <2>3. /\ op'[p] = IF left = << >> THEN Idle ELSE [op[p] EXCEPT !.todo = left]
        /\ \A q \in Process : q # p => op'[q] = op[q]
    BY <2>1 DEF Writes, TypeOK
  <2>4. ReaderOK(p)'
    <3>1. [op[p] EXCEPT !.todo = left].at \in {"put", "promote"} /\ Idle.at = "idle"
      BY <2>2 DEF Writing, Idle
    <3>2. op'[p].at \in {"idle", "put", "promote"}
      BY <2>3, <3>1
    <3>3. QED
      BY <3>2, NoReader DEF Reading, Checking
  <2>5. ASSUME NEW q \in Process, q # p PROVE ReaderOK(q)'
    <3>1. op'[q] = op[q]
      BY <2>3, <2>5
    <3>2. CASE tier # "canonical"
      <4>1. pointer'["canonical"] = pointer["canonical"] /\ UNCHANGED <<promised, overtaken, sure>>
        BY <2>1, <3>2 DEF Writes, TypeOK, Tier
      <4>2. QED
        BY <2>2, <3>1, <4>1, ReaderLeftAlone
    <3>3. CASE tier = "canonical"
      <4> DEFINE m == op[p].media
                 reading == {s \in Process : op[s] \in Checking /\ op[s].tier = "canonical" /\ op[s].id = id}
      <4>1. /\ overtaken' = overtaken \cup reading
            /\ sure' = StillSure \ {s \in reading : op[s].media # m}
            /\ promised' = [promised EXCEPT ![id] = Serves(m)]
            /\ pointer' = [pointer EXCEPT !["canonical"][id] = [to |-> m, left |-> Life("canonical")]]
        BY <2>1, <3>3 DEF Writes
      <4>2. \A i \in Identifier : i # id =>
              promised'[i] = promised[i] /\ pointer'["canonical"][i] = pointer["canonical"][i]
        BY <4>1 DEF TypeOK, Tier
      <4>3. pointer'["canonical"][id].to = m
        BY <4>1 DEF TypeOK, Tier
      <4>4. op[q] \in Checking => op[q].id \in Identifier
        BY DEF Checking
      <4>5. ASSUME op[q] \in Checking, op[q].tier = "canonical", op[q].id = id
            PROVE  q \in overtaken' /\ (q \in sure' => pointer'["canonical"][id].to = op[q].media)
        BY <4>1, <4>3, <4>5
      <4>6. \A k \in MediaId : Serves(k)' = Serves(k)
        BY <2>2, ServesKept
      <4>7. /\ q \in sure' => q \in StillSure
            /\ q \in overtaken => q \in overtaken'
        BY <4>1
      <4>8. /\ q \in sure' => q \in sure
            /\ q \in sure' /\ op[q] \in Reading \cup Checking => promised'[op[q].id] > 0
        BY <3>1, <4>7, StillThere
      <4> HIDE DEF reading, m
      <4>9. QED
        BY <3>1, <4>2, <4>4, <4>5, <4>6, <4>7, <4>8, ReaderUndisturbed
    <3>4. QED
      BY <3>2, <3>3
  <2>6. QED
    BY <2>4, <2>5 DEF ReadersInv
<1>5. ASSUME NEW p \in Process, BeginLookup(p) PROVE ReaderOK(p)'
  <2>1. PICK i \in Identifier :
          /\ Becomes(p, [at |-> "pointer", tier |-> "hot", id |-> i])
          /\ sure' = IF promised[i] > 0 THEN sure \cup {p} ELSE sure \ {p}
    BY <1>5 DEF BeginLookup
  <2>2. op'[p] = [at |-> "pointer", tier |-> "hot", id |-> i]
    BY <2>1, OnlyOwnStep
  <2>3. op'[p].at = "pointer" /\ op'[p].id = i
    BY <2>2
  <2>4. p \in sure' => promised'[i] > 0
    BY <1>5, <2>1 DEF BeginLookup
  <2>5. QED
    BY <2>3, <2>4 DEF ReaderOK, Checking
<1>6. ASSUME NEW p \in Process, ReadPointer(p) PROVE ReaderOK(p)'
  <2> DEFINE r == op[p]
             found == pointer[r.tier][r.id]
  <2>1. /\ r \in Reading /\ r.tier \in Tier /\ r.id \in Identifier /\ ReaderOK(p)
        /\ UNCHANGED <<pointer, promised, sure>>
    BY <1>6 DEF ReadPointer, Reading, ReadersInv
  <2>2. p \in sure => promised[r.id] > 0
    BY <2>1 DEF ReaderOK
  <2>3. r.tier = "canonical" /\ p \in sure => found # None
    BY <2>1, <2>2, WhatBacks
  <2>4. CASE found = None
    <3>1. NextTier(p, r.tier, r.id)
      BY <1>6, <2>4 DEF ReadPointer
    <3>2. r.tier = "canonical" => p \notin sure'
      BY <2>1, <2>3, <2>4
    <3>3. p \in sure' => promised'[r.id] > 0
      BY <2>1, <2>2
    <3>4. QED
      BY <2>1, <3>1, <3>2, <3>3, NextTierReader
  <2>5. CASE found # None
    <3>1. op'[p] = [at |-> "record", tier |-> r.tier, id |-> r.id, media |-> found.to]
      BY <1>6, <2>5, OnlyOwnStep DEF ReadPointer
    <3>2. op'[p].at = "record" /\ op'[p].tier = r.tier /\ op'[p].id = r.id
            /\ op'[p].media = found.to
      BY <3>1
    <3>3. r.tier = "canonical" => pointer'["canonical"][r.id] = found
      BY <2>1
    <3> HIDE DEF r, found
    <3>4. QED
      BY <2>1, <2>2, <2>5, <3>2, <3>3 DEF ReaderOK
  <2>6. QED
    BY <2>4, <2>5
<1>7. ASSUME NEW p \in Process, ReadRecord(p) PROVE ReaderOK(p)'
  <2> DEFINE r == op[p]
             b == pointer["canonical"][r.id]
             canonical == r.tier = "canonical"
  <2>1. /\ r \in Checking /\ r.at = "record" /\ r.tier \in Tier /\ r.id \in Identifier
        /\ r.media \in MediaId /\ ReaderOK(p) /\ UNCHANGED <<record, refused, pointer, promised>>
        /\ sure' \subseteq sure
    BY <1>7 DEF ReadRecord, Checking, ReadersInv, stored
  <2>2. p \in sure => promised[r.id] > 0
    BY <2>1 DEF ReaderOK
  <2>3. p \in sure /\ canonical => Servable(r.media)
    <3> SUFFICES ASSUME p \in sure, canonical PROVE Servable(r.media)
      OBVIOUS
    <3>1. b # None /\ b.to = r.media
      BY <2>1 DEF ReaderOK
    <3>2. Servable(b.to)
      BY <2>1, <2>2, WhatBacks
    <3>3. QED
      BY <3>1, <3>2
  <2>4. p \notin overtaken /\ canonical /\ ~ Servable(r.media) => promised[r.id] = 0
    <3> SUFFICES ASSUME p \notin overtaken, canonical, promised[r.id] # 0 PROVE Servable(r.media)
      OBVIOUS
    <3>1. b = None \/ b.to = r.media
      BY <2>1 DEF ReaderOK
    <3>2. promised[r.id] > 0
      <4>1. promised[r.id] \in Nat
        BY <2>1, Ranges, Lives
      <4>2. QED
        BY <4>1
    <3>3. b # None /\ Servable(b.to)
      BY <2>1, <3>2, WhatBacks
    <3>4. QED
      BY <3>1, <3>3
  <2>5. CASE record[r.media] = None /\ Becomes(p, [r EXCEPT !.at = "drop"])
    <3>1. op'[p] = [r EXCEPT !.at = "drop"]
      BY <2>5, OnlyOwnStep
    <3>2. /\ op'[p].at = "drop" /\ op'[p].tier = r.tier /\ op'[p].id = r.id
          /\ op'[p].media = r.media /\ op'[p] \in Checking
      BY <2>1, <3>1 DEF Checking
    <3>3. ~ Servable(r.media)
      BY <2>5 DEF Servable
    <3>4. p \in overtaken => p \in overtaken'
      BY <1>7, <3>2 DEF ReadRecord, StillOvertaken
    <3>5. p \notin overtaken /\ canonical => b = None \/ b.to = r.media
      BY <2>1 DEF ReaderOK
    <3> HIDE DEF r
    <3>6. QED
      BY <2>1, <2>2, <2>3, <2>4, <3>2, <3>3, <3>4, <3>5 DEF ReaderOK
  <2>6. CASE r.media \in refused /\ Becomes(p, [r EXCEPT !.at = "evict"])
    <3>1. op'[p] = [r EXCEPT !.at = "evict"]
      BY <2>6, OnlyOwnStep
    <3>2. /\ op'[p].at = "evict" /\ op'[p].tier = r.tier /\ op'[p].id = r.id
          /\ op'[p].media = r.media /\ op'[p] \in Checking
      BY <2>1, <3>1 DEF Checking
    <3>3. ~ Servable(r.media)
      BY <2>6 DEF Servable
    <3>4. p \in overtaken => p \in overtaken'
      BY <1>7, <3>2 DEF ReadRecord, StillOvertaken
    <3>5. p \notin overtaken /\ canonical => b = None \/ b.to = r.media
      BY <2>1 DEF ReaderOK
    <3>6. PICK m \in MediaId : m = r.media
      BY <2>1
    <3>7. Serves(m)' = 0
      <4>1. Serves(m)' = Serves(m)
        BY <2>1, ServesKept
      <4>2. QED
        BY <3>3, <3>6, <4>1 DEF Serves
    <3>8. Serves(op[p].media)' = 0
      BY <3>2, <3>6, <3>7
    <3> HIDE DEF r
    <3>9. QED
      BY <2>1, <2>2, <2>3, <3>2, <3>3, <3>4, <3>5, <3>8 DEF ReaderOK
  <2>7. CASE Becomes(p, Idle)
    <3>1. op'[p].at = "idle"
      BY <2>7, OnlyOwnStep DEF Idle
    <3>2. QED
      BY <3>1, NoReader DEF Reading, Checking
  <2>8. CASE ~ Servable(r.media) /\ NextTier(p, r.tier, r.id)
    BY <2>1, <2>2, <2>3, <2>8, NextTierReader
  <2>9. QED
    BY <1>7, <2>5, <2>6, <2>7, <2>8 DEF ReadRecord
<1>8. ASSUME NEW p \in Process, DropPointer(p) \/ EvictRecord(p) PROVE ReadersInv'
  <2> DEFINE r == op[p]
  <2>1. /\ r \in Checking /\ r.at \in {"drop", "evict"} /\ r.id \in Identifier /\ r.media \in MediaId
        /\ NextTier(p, r.tier, r.id)
        /\ pointer' = [pointer EXCEPT ![r.tier][r.id] = None]
        /\ overtaken' = StillOvertaken /\ sure' = StillSure
    BY <1>8 DEF DropPointer, EvictRecord, Checking
  <2>2. \A i \in Identifier : promised'[i] = 0 \/ promised'[i] = promised[i]
    BY <1>8, <2>1 DEF DropPointer, EvictRecord, TypeOK
  <2>3. \A m \in MediaId : Serves(m)' = 0 \/ Serves(m)' = Serves(m)
    <3>1. CASE DropPointer(p)
      BY <3>1, ServesKept DEF DropPointer, stored
    <3>2. ASSUME EvictRecord(p), NEW m \in MediaId PROVE Serves(m)' = 0 \/ Serves(m)' = Serves(m)
      <4>1. record' = [record EXCEPT ![r.media] = None] /\ refused' = refused \ {r.media}
        BY <3>2 DEF EvictRecord
      <4>2. CASE m = r.media
        <5>1. record'[m] = None
          BY <4>1, <4>2 DEF TypeOK
        <5>2. QED
          BY <5>1 DEF Serves, Servable
      <4>3. CASE m # r.media
        BY <4>1, <4>3, ServesKept DEF TypeOK
      <4>4. QED
        BY <4>2, <4>3
    <3>3. QED
      BY <1>8, <3>1, <3>2
  <2>4. \A q \in Process : q # p => op'[q] = op[q]
    BY <2>1, OnlyOwnStep DEF NextTier
  <2>5. ReaderOK(p)'
    <3>1. p \in sure' => p \in sure /\ promised'[r.id] > 0
      BY <2>1 DEF StillSure
    <3>2. r.tier = "canonical" => p \notin sure
      BY <2>1 DEF ReadersInv, ReaderOK
    <3>3. QED
      BY <2>1, <3>1, <3>2, NextTierReader
  <2>6. ASSUME NEW q \in Process, q # p PROVE ReaderOK(q)'
    <3>1. op'[q] = op[q]
      BY <2>4, <2>6
    <3>2. \A i \in Identifier : pointer'["canonical"][i] # None =>
            pointer'["canonical"][i] = pointer["canonical"][i]
      BY <2>1, Deleted
    <3>3. op[q] \in Checking => op[q].id \in Identifier
      BY DEF Checking
    <3> HIDE DEF r
    <3>4. QED
      BY <2>1, <2>2, <2>3, <3>1, <3>2, <3>3, StillThere, ReaderUndisturbed
  <2>7. QED
    BY <2>5, <2>6 DEF ReadersInv
<1>9. CASE Tick
  <2> SUFFICES ASSUME NEW q \in Process PROVE ReaderOK(q)'
    BY DEF ReadersInv
  <2>1. op'[q] = op[q] /\ overtaken' = overtaken /\ sure' = StillSure
    BY <1>9 DEF Tick
  <2>2. \A i \in Identifier : promised[i] = 0 => promised'[i] = 0
    BY <1>9 DEF Tick
  <2>3. \A i \in Identifier : pointer'["canonical"][i] # None =>
          /\ pointer["canonical"][i] # None
          /\ pointer'["canonical"][i].to = pointer["canonical"][i].to
    BY <1>9, CanonicalAges
  <2>4. \A m \in MediaId : Serves(m) = 0 => Serves(m)' = 0
    BY <1>9, RecordAges
  <2>5. op[q] \in Checking => op[q].id \in Identifier
    BY DEF Checking
  <2>6. QED
    BY <2>1, <2>2, <2>3, <2>4, <2>5, StillThere, ReaderUndisturbed
<1>10. CASE UNCHANGED vars
  BY <1>10, ReaderLeftAlone DEF vars, stored, ReadersInv
<1>11. QED
  BY <1>2, <1>3, <1>4, <1>5, <1>6, <1>7, <1>8, <1>9, <1>10 DEF Next

-----------------------------------------------------------------------------
LEMMA ShapeInit == Init => Shape
<1> SUFFICES ASSUME Init PROVE Shape
  OBVIOUS
<1>1. TypeOK
  BY StoreAssumption, Lives DEF Init, TypeOK, Rest, Idle
<1>2. QED
  BY <1>1, StoreAssumption DEF Init, Shape, Idle, Writing

\* Ages stay below a record's life and times to live within it, whatever the
\* TTLs, the interleaving, and how slow Redis is.
THEOREM StoreTypeCorrect == Spec => []TypeOK
<1>1. Shape /\ [Next]_vars => Shape'
  BY ShapeStep
<1>2. Shape => TypeOK
  BY DEF Shape
<1>3. QED
  BY <1>1, <1>2, ShapeInit, PTL DEF Spec

LEMMA StoreInductive == Spec => []StoreInv
<1>1. Init => StoreInv
  <2> SUFFICES ASSUME Init PROVE StoreInv
    OBVIOUS
  <2>1. \A p \in Process : op[p].at = "idle"
    BY DEF Init, Idle
  <2>2. ReadersInv
    BY <2>1 DEF Init, ReadersInv, ReaderOK, Reading, Checking
  <2>3. PromisesBacked
    BY DEF Init, PromisesBacked, Backed
  <2>4. QED
    BY <2>2, <2>3, ShapeInit DEF StoreInv
<1>2. StoreInv /\ [Next]_vars => StoreInv'
  BY ShapeStep, PromisesStep, ReadersStep DEF StoreInv
<1>3. QED
  BY <1>1, <1>2, PTL DEF Spec

\* Whatever interleaves with it, dies half way or takes however long, and whichever
\* records the schema refuses: what the last put of an identifier has promised is
\* within reach until it runs out, or a lookup's DEL arrives after a put has
\* written what it deletes (redis-media-snapshot-store.ts:74-87,311-350).
THEOREM PromiseIsKept == Spec => []PromiseKept
<1>1. StoreInv => PromiseKept
  BY WhatBacks DEF StoreInv, PromiseKept, Leads, Tier
<1>2. QED
  BY <1>1, StoreInductive, PTL

\* A lookup reads two pointers and two records one after the other, any time
\* apart, among other operations' writes and deletions, and misses nothing that
\* was promised all along, unless a put has given the identifier another record
\* between two of its reads.
THEOREM LookupMissesNothing == Spec => []LookupFindsPromised
<1>1. StoreInv => LookupFindsPromised
  BY DEF StoreInv, ReadersInv, ReaderOK, LookupFindsPromised
<1>2. QED
  BY <1>1, StoreInductive, PTL
=============================================================================
