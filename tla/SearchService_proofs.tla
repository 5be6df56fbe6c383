------------------------ MODULE SearchService_proofs ------------------------
(***************************************************************************)
(* How old a search answer may be, for any number of searches, titles,     *)
(* queries and pages, and any TTLs.  What is kept in a layer has left to   *)
(* live there only what its age has not used up: a document's age and ttl  *)
(* add up to the same bound for as long as it lives, a snapshot's likewise.*)
(***************************************************************************)
EXTENDS SearchService, SequenceTheorems, TLAPS

DocLimit  == (ServableFor - 1) + IndexTtl
SnapLimit == (DocLimit - 1) + SnapshotTtl

DocsAreRecent == \A t \in Title : doc[t] # Absent => doc[t].age + doc[t].left <= DocLimit

SnapsAreRecent ==
  \A request \in Request :
    snap[request] # Absent =>
      \A age \in snap[request].ages : age + snap[request].left <= SnapLimit

\* What a process carries is, where it is going to be written, as recent as a
\* record's data, where it is going to be kept, as a document's.
AgesFit(state) ==
  \A age \in state.ages :
    /\ state.at \in {"unlist", "write", "list"} => age <= ServableFor - 1
    /\ state.at = "put" => age <= DocLimit - 1
    /\ state.at = "idle" => age <= Lag

ProcsAreRecent == \A p \in Process : AgesFit(proc[p])

\* The fields of the variables; of what their sequences hold nothing is said.
DocSpace == [age : Nat, left : 1 .. IndexTtl]
SnapSpace(Stuff) == [items : Stuff, ages : SUBSET Nat, left : 1 .. SnapshotTtl]
StateSpace(Stuff) ==
  [at : Instant \cup {"idle", "provider"}, request : Request, found : Stuff,
   items : Stuff, ages : SUBSET Nat, todo : Stuff, source : Sources]

Shape(Stuff) ==
  /\ doc \in [Title -> {Absent} \cup DocSpace]
  /\ snap \in [Request -> {Absent} \cup SnapSpace(Stuff)]
  /\ proc \in [Process -> StateSpace(Stuff)]

WellShaped == \E Stuff : Shape(Stuff)

RecentInv == WellShaped /\ DocsAreRecent /\ SnapsAreRecent /\ ProcsAreRecent

-----------------------------------------------------------------------------
LEMMA LimitsAreNat ==
  /\ ServableFor \in Nat \ {0}
  /\ IndexTtl \in Nat \ {0} /\ SnapshotTtl \in Nat \ {0}
  /\ DocLimit \in Nat \ {0} /\ SnapLimit \in Nat \ {0}
  /\ Lag = SnapLimit - 1
  /\ ServableFor <= DocLimit /\ DocLimit <= SnapLimit
<1>1. ServableFor \in Nat \ {0}
  <2>1. \A m, n \in Nat \ {0} : m * n \in Nat \ {0}
    OBVIOUS
  <2>2. RecordTtl + StaleServeWindow \in Nat \ {0} /\ Second \in Nat \ {0}
    BY ConfigAssumption, SecondAssumption DEF LoadConfigAccepts
  <2>3. QED
    BY <2>1, <2>2 DEF ServableFor
<1>2. QED
  BY <1>1, SearchAssumption DEF DocLimit, SnapLimit, Lag

\* Adding to the stuff a shape is made of does not spoil it.
LEMMA ShapeGrows ==
  ASSUME NEW Stuff, NEW More, Stuff \subseteq More, Shape(Stuff)
  PROVE  Shape(More)
<1>1. SnapSpace(Stuff) \subseteq SnapSpace(More)
  BY DEF SnapSpace
<1>2. StateSpace(Stuff) \subseteq StateSpace(More)
  BY DEF StateSpace
<1>3. QED
  BY <1>1, <1>2 DEF Shape

\* A step that changes the state of one process alone.
LEMMA OneProcess ==
  ASSUME RecentInv, NEW p \in Process, NEW Stuff, NEW state \in StateSpace(Stuff),
         Becomes(p, state), AgesFit(state), UNCHANGED <<doc, snap>>
  PROVE  RecentInv'
<1>1. PICK Old : Shape(Old)
  BY DEF RecentInv, WellShaped
<1> DEFINE More == Old \cup Stuff
<1>2. Shape(More)
  BY <1>1, ShapeGrows
<1>3. state \in StateSpace(More)
  BY DEF StateSpace
<1>4. proc' = [proc EXCEPT ![p] = state] /\ proc \in [Process -> StateSpace(More)]
  BY <1>2 DEF Becomes, Shape
<1>5. Shape(More)'
  BY <1>2, <1>3, <1>4 DEF Shape, DocSpace, SnapSpace, StateSpace
<1>6. ProcsAreRecent'
  BY <1>4 DEF RecentInv, ProcsAreRecent, AgesFit
<1>7. QED
  BY <1>5, <1>6 DEF RecentInv, WellShaped, DocsAreRecent, SnapsAreRecent

LEMMA Starting ==
  ASSUME NEW label \in Instant \cup {"idle"}, NEW request \in Request
  PROVE  /\ At(label, request) \in StateSpace({{}, << >>})
         /\ AgesFit(At(label, request))
BY DEF At, StateSpace, AgesFit, Sources

-----------------------------------------------------------------------------
LEMMA BeginStep == ASSUME RecentInv, NEW p \in Process, Begin(p) PROVE RecentInv'
<1>1. PICK request \in Request : Becomes(p, At("snapshot", request))
  BY DEF Begin
<1>2. QED
  BY <1>1, OneProcess, Starting DEF Begin, Instant

LEMMA ReadSnapshotStep == ASSUME RecentInv, NEW p \in Process, ReadSnapshot(p) PROVE RecentInv'
<1>1. PICK Old : Shape(Old)
  BY DEF RecentInv, WellShaped
<1>2. proc[p] \in StateSpace(Old) /\ proc[p].request \in Request
  BY <1>1 DEF Shape, StateSpace
<1>3. AgesFit(proc[p]) /\ UNCHANGED <<doc, snap>>
  BY DEF RecentInv, ProcsAreRecent, ReadSnapshot
<1> DEFINE cached == snap[proc[p].request]
<1>4. CASE cached = Absent
  <2> DEFINE state == [proc[p] EXCEPT !.at = "members"]
  <2>1. Becomes(p, state)
    BY <1>4 DEF ReadSnapshot, Goto
  <2>2. state \in StateSpace(Old) /\ AgesFit(state)
    BY <1>2, <1>3 DEF StateSpace, AgesFit, Instant
  <2>3. QED
    BY <1>3, <2>1, <2>2, OneProcess
<1>5. CASE cached # Absent
  <2> DEFINE state == [proc[p] EXCEPT !.at = "idle", !.source = "cache",
                                      !.items = cached.items, !.ages = cached.ages]
  <2>1. Becomes(p, state)
    BY <1>5 DEF ReadSnapshot
  <2>2. cached \in SnapSpace(Old)
    BY <1>1, <1>2, <1>5 DEF Shape
  <2>3. state \in StateSpace(Old)
    BY <1>2, <2>2 DEF StateSpace, SnapSpace, Sources
  <2>4. \A age \in cached.ages : age <= Lag
    BY <1>2, <1>5, <2>2, LimitsAreNat DEF RecentInv, SnapsAreRecent, SnapSpace
  <2>5. AgesFit(state)
    BY <1>2, <2>2, <2>4 DEF AgesFit, StateSpace
  <2>6. QED
    BY <1>3, <2>1, <2>3, <2>5, OneProcess
<1>6. QED
  BY <1>4, <1>5

\* What the index serves is no older than a document may be.
LEMMA IndexServesRecent ==
  ASSUME RecentInv, NEW items
  PROVE  /\ AgesIn(items) \in SUBSET Nat
         /\ \A age \in AgesIn(items) : age <= DocLimit - 1
<1>1. \A t \in Title : doc[t] # Absent => doc[t] \in DocSpace
  BY DEF RecentInv, WellShaped, Shape
<1>2. QED
  BY <1>1, LimitsAreNat DEF AgesIn, RecentInv, DocsAreRecent, DocSpace

LEMMA FromIndexStep ==
  ASSUME RecentInv, NEW p \in Process, NEW ranked, proc[p].at \in Instant,
         Becomes(p, FromIndex(p, ranked)), UNCHANGED <<doc, snap>>
  PROVE  RecentInv'
<1>1. PICK Old : Shape(Old)
  BY DEF RecentInv, WellShaped
<1>2. proc[p] \in StateSpace(Old)
  BY <1>1 DEF Shape
<1>3. AgesFit(proc[p])
  BY DEF RecentInv, ProcsAreRecent
<1> DEFINE items == Slice(ranked, proc[p].request[2], PageSize)
           served == [proc[p] EXCEPT !.at = "put", !.found = {}, !.source = "index",
                                     !.items = items, !.ages = AgesIn(items)]
           missed == [proc[p] EXCEPT !.at = "provider", !.found = {}]
           More   == Old \cup {{}, items}
<1>4. FromIndex(p, ranked) = served \/ FromIndex(p, ranked) = missed
  BY DEF FromIndex
<1>5. served \in StateSpace(More) /\ AgesFit(served)
  <2> HIDE DEF items
  <2>1. QED
    BY <1>2, IndexServesRecent DEF StateSpace, AgesFit, Instant, Sources
<1>6. missed \in StateSpace(More) /\ AgesFit(missed)
  <2> HIDE DEF items
  <2>1. QED
    BY <1>2 DEF StateSpace, AgesFit
<1>7. QED
  <2> HIDE DEF served, missed, More
  <2>1. QED
    BY <1>4, <1>5, <1>6, OneProcess

LEMMA ReadIndexStep ==
  ASSUME RecentInv, NEW p \in Process, ReadMembers(p) \/ ReadDocuments(p) PROVE RecentInv'
<1>1. PICK Old : Shape(Old)
  BY DEF RecentInv, WellShaped
<1>2. proc[p] \in StateSpace(Old)
  BY <1>1 DEF Shape
<1>3. CASE ReadMembers(p)
  <2> DEFINE found == listed \cap Matches[proc[p].request[1]]
             state == [proc[p] EXCEPT !.at = "documents", !.found = found]
             More  == Old \cup {found}
  <2>1. CASE found = {}
    BY <1>3, <2>1, FromIndexStep DEF ReadMembers, Instant
  <2>2. CASE found # {}
    <3>1. Becomes(p, state) /\ UNCHANGED <<doc, snap>>
      BY <1>3, <2>2 DEF ReadMembers
    <3> HIDE DEF found
    <3>2. state \in StateSpace(More)
      BY <1>2 DEF StateSpace, Instant
    <3>3. AgesFit(state)
      BY <1>2 DEF StateSpace, AgesFit
    <3>4. QED
      BY <3>1, <3>2, <3>3, OneProcess
  <2>3. QED
    BY <2>1, <2>2
<1>4. CASE ReadDocuments(p)
  BY <1>4, FromIndexStep DEF ReadDocuments, Instant
<1>5. QED
  BY <1>3, <1>4

LEMMA ProviderStep == ASSUME RecentInv, NEW p \in Process, ProviderAnswers(p) PROVE RecentInv'
<1>1. PICK Old : Shape(Old)
  BY DEF RecentInv, WellShaped
<1>2. proc[p] \in StateSpace(Old) /\ proc[p].request \in Request
  BY <1>1 DEF Shape, StateSpace
<1>3. UNCHANGED <<doc, snap>>
  BY DEF ProviderAnswers
<1>4. CASE Becomes(p, At("idle", proc[p].request))
  BY <1>2, <1>3, <1>4, OneProcess, Starting
<1> DEFINE items == ProviderPage(proc[p].request)
           state == [proc[p] EXCEPT !.at = IF items = << >> THEN "put" ELSE "unlist",
                       !.source = "provider", !.items = items, !.todo = items,
                       !.ages = IF items = << >> THEN {} ELSE {0}]
           More  == Old \cup {items}
<1>5. CASE Becomes(p, state)
  <2> HIDE DEF items
  <2>1. state \in StateSpace(More)
    <3>1. CASE items = << >>
      BY <1>2, <3>1 DEF StateSpace, Instant, Sources
    <3>2. CASE items # << >>
      <4>1. state = [proc[p] EXCEPT !.at = "unlist", !.source = "provider",
                                    !.items = items, !.todo = items, !.ages = {0}]
        BY <3>2
      <4>2. {0} \in SUBSET Nat /\ items \in More /\ Old \subseteq More
        OBVIOUS
      <4> HIDE DEF More
      <4>3. QED
        BY <1>2, <4>1, <4>2 DEF StateSpace, Instant, Sources
    <3>3. QED
      BY <3>1, <3>2
  <2>2. AgesFit(state)
    BY <1>2, LimitsAreNat DEF StateSpace, AgesFit
  <2>3. QED
    BY <1>3, <1>5, <2>1, <2>2, OneProcess
<1>6. QED
  BY <1>4, <1>5 DEF ProviderAnswers

LEMMA UnlistStep == ASSUME RecentInv, NEW p \in Process, Unlist(p) PROVE RecentInv'
<1>1. PICK Old : Shape(Old)
  BY DEF RecentInv, WellShaped
<1>2. proc[p] \in StateSpace(Old) /\ AgesFit(proc[p])
  BY <1>1 DEF Shape, RecentInv, ProcsAreRecent
<1> DEFINE state == [proc[p] EXCEPT !.at = "write"]
<1>3. Becomes(p, state) /\ UNCHANGED <<doc, snap>> /\ proc[p].at = "unlist"
  BY DEF Unlist, Goto
<1>4. state \in StateSpace(Old) /\ AgesFit(state)
  BY <1>2, <1>3 DEF StateSpace, AgesFit, Instant
<1>5. QED
  BY <1>3, <1>4, OneProcess

LEMMA ListStep == ASSUME RecentInv, NEW p \in Process, List(p) PROVE RecentInv'
<1>1. PICK Old : Shape(Old)
  BY DEF RecentInv, WellShaped
<1>2. proc[p] \in StateSpace(Old) /\ AgesFit(proc[p]) /\ proc[p].request \in Request
  BY <1>1 DEF Shape, RecentInv, ProcsAreRecent, StateSpace
<1> DEFINE rest == Tail(proc[p].todo)
           toPut  == [proc[p] EXCEPT !.at = "put", !.todo = << >>]
           toNext == [proc[p] EXCEPT !.at = "unlist", !.todo = rest]
           More   == Old \cup {<< >>, rest}
<1>3. UNCHANGED <<doc, snap>> /\ proc[p].at = "list"
  BY DEF List
<1>4. \/ Becomes(p, At("idle", proc[p].request))
      \/ Becomes(p, toPut)
      \/ Becomes(p, toNext)
  BY DEF List
<1>5. CASE Becomes(p, At("idle", proc[p].request))
  BY <1>2, <1>3, <1>5, OneProcess, Starting
<1> HIDE DEF rest
<1>6. toPut \in StateSpace(More) /\ AgesFit(toPut)
  <2>1. toPut \in StateSpace(More)
    BY <1>2 DEF StateSpace, Instant
  <2>2. toPut.at = "put" /\ toPut.ages = proc[p].ages /\ proc[p].ages \in SUBSET Nat
    BY <1>2 DEF StateSpace
  <2>3. \A age \in proc[p].ages : age <= ServableFor - 1
    BY <1>2, <1>3 DEF AgesFit
  <2>4. QED
    BY <2>1, <2>2, <2>3, LimitsAreNat DEF AgesFit
<1>7. toNext \in StateSpace(More) /\ AgesFit(toNext)
  BY <1>2, <1>3 DEF StateSpace, AgesFit, Instant
<1> HIDE DEF toPut, toNext, More
<1>8. QED
  BY <1>3, <1>4, <1>5, <1>6, <1>7, OneProcess

LEMMA IndexRecordStep == ASSUME RecentInv, NEW p \in Process, IndexRecord(p) PROVE RecentInv'
<1>1. PICK Old : Shape(Old)
  BY DEF RecentInv, WellShaped
<1>2. proc[p].request \in Request
  BY <1>1 DEF Shape, StateSpace
<1>3. PICK t \in Title, age \in 0 .. ServableFor - 1 :
        Becomes(p, [At("unlist", proc[p].request) EXCEPT
                      !.source = "indexing", !.todo = <<t>>, !.ages = {age}])
  BY DEF IndexRecord
<1> DEFINE todo  == <<t>>
           ages  == {age}
           start == At("unlist", proc[p].request)
           begun == [start EXCEPT !.source = "indexing", !.todo = todo, !.ages = ages]
           Stuff == {{}, << >>, todo}
<1>4. ages \in SUBSET Nat /\ \A n \in ages : n <= ServableFor - 1
  BY <1>3, LimitsAreNat
<1>5. start \in StateSpace(Stuff) /\ start.at = "unlist"
  BY <1>2 DEF At, StateSpace, Instant, Sources
<1> HIDE DEF todo, ages, start
<1>6. begun \in StateSpace(Stuff) /\ begun.at = "unlist" /\ begun.ages = ages
  BY <1>4, <1>5 DEF StateSpace, Sources
<1>7. AgesFit(begun)
  BY <1>4, <1>6 DEF AgesFit
<1>8. Becomes(p, begun) /\ UNCHANGED <<doc, snap>>
  BY <1>3 DEF IndexRecord, start, todo, ages
<1> HIDE DEF begun, Stuff
<1>9. QED
  BY <1>6, <1>7, <1>8, OneProcess

-----------------------------------------------------------------------------
\* A step of one process that also writes a document or a snapshot.
LEMMA OneProcessWrites ==
  ASSUME RecentInv, NEW Old, Shape(Old), NEW p \in Process, NEW state \in StateSpace(Old),
         Becomes(p, state), AgesFit(state),
         doc' \in [Title -> {Absent} \cup DocSpace], DocsAreRecent',
         snap' \in [Request -> {Absent} \cup SnapSpace(Old)], SnapsAreRecent'
  PROVE  RecentInv'
<1>1. proc' = [proc EXCEPT ![p] = state] /\ proc \in [Process -> StateSpace(Old)]
  BY DEF Becomes, Shape
<1>2. Shape(Old)'
  BY <1>1 DEF Shape, DocSpace, SnapSpace, StateSpace
<1>3. ProcsAreRecent'
  BY <1>1 DEF RecentInv, ProcsAreRecent, AgesFit
<1>4. QED
  BY <1>2, <1>3 DEF RecentInv, WellShaped

LEMMA WriteStep == ASSUME RecentInv, NEW p \in Process, Write(p) PROVE RecentInv'
<1>1. PICK Old : Shape(Old)
  BY DEF RecentInv, WellShaped
<1>2. proc[p] \in StateSpace(Old) /\ AgesFit(proc[p])
  BY <1>1 DEF Shape, RecentInv, ProcsAreRecent
<1> DEFINE state == [proc[p] EXCEPT !.at = "list"]
           t == Head(proc[p].todo)
<1>3. proc[p].at = "write" /\ Becomes(p, state) /\ snap' = snap
  BY DEF Write, Goto
<1>4. PICK age \in proc[p].ages : doc' = [doc EXCEPT ![t] = [age |-> age, left |-> IndexTtl]]
  BY DEF Write
<1>5. age \in Nat /\ age <= ServableFor - 1
  BY <1>2, <1>3 DEF StateSpace, AgesFit
<1> DEFINE written == [age |-> age, left |-> IndexTtl]
<1>6. written \in DocSpace /\ written.age + written.left <= DocLimit
  BY <1>5, LimitsAreNat DEF DocSpace, DocLimit
<1>7. doc \in [Title -> {Absent} \cup DocSpace]
  BY <1>1 DEF Shape
<1> HIDE DEF t, written
<1>8. /\ doc' \in [Title -> {Absent} \cup DocSpace]
      /\ \A u \in Title : doc'[u] = doc[u] \/ doc'[u] = written
  BY <1>4, <1>6, <1>7 DEF written
<1>9. DocsAreRecent'
  BY <1>6, <1>8 DEF RecentInv, DocsAreRecent
<1>10. state \in StateSpace(Old) /\ AgesFit(state)
  BY <1>2, <1>3 DEF StateSpace, AgesFit, Instant
<1>11. QED
  BY <1>1, <1>3, <1>8, <1>9, <1>10, OneProcessWrites DEF Shape, RecentInv, SnapsAreRecent

\* What a process in "put" keeps has the whole ttl left.
LEMMA KeptIsRecent ==
  ASSUME RecentInv, NEW Old, Shape(Old), NEW p \in Process, proc[p].at = "put",
         snap' \in {snap, Kept(p)}
  PROVE  snap' \in [Request -> {Absent} \cup SnapSpace(Old)] /\ SnapsAreRecent'
<1>1. proc[p] \in StateSpace(Old) /\ AgesFit(proc[p])
  BY DEF Shape, RecentInv, ProcsAreRecent
<1>2. snap \in [Request -> {Absent} \cup SnapSpace(Old)]
  BY DEF Shape
<1> DEFINE kept == [items |-> proc[p].items, ages |-> proc[p].ages, left |-> SnapshotTtl]
<1>3. kept \in SnapSpace(Old) /\ \A age \in kept.ages : age + kept.left <= SnapLimit
  BY <1>1, LimitsAreNat DEF SnapSpace, StateSpace, AgesFit, SnapLimit
<1>4. /\ snap' \in [Request -> {Absent} \cup SnapSpace(Old)]
      /\ \A request \in Request : snap'[request] = snap[request] \/ snap'[request] = kept
  BY <1>2, <1>3 DEF Kept
<1> HIDE DEF kept
<1>5. QED
  BY <1>3, <1>4 DEF RecentInv, SnapsAreRecent

LEMMA PutStep == ASSUME RecentInv, NEW p \in Process, PutSearchSnapshot(p) PROVE RecentInv'
<1>1. PICK Old : Shape(Old)
  BY DEF RecentInv, WellShaped
<1>2. proc[p] \in StateSpace(Old) /\ AgesFit(proc[p])
  BY <1>1 DEF Shape, RecentInv, ProcsAreRecent
<1> DEFINE state == [proc[p] EXCEPT !.at = "idle"]
<1>3. proc[p].at = "put" /\ Becomes(p, state) /\ snap' = Kept(p) /\ doc' = doc
  BY DEF PutSearchSnapshot, Goto
<1>4. snap' \in [Request -> {Absent} \cup SnapSpace(Old)] /\ SnapsAreRecent'
  BY <1>1, <1>3, KeptIsRecent
<1>5. state \in StateSpace(Old)
  BY <1>2 DEF StateSpace
<1>6. AgesFit(state)
  <2>1. \A age \in proc[p].ages : age <= DocLimit - 1 /\ age \in Nat
    BY <1>2, <1>3 DEF AgesFit, StateSpace
  <2>2. DocLimit - 1 <= Lag /\ DocLimit - 1 \in Int /\ Lag \in Int
    BY LimitsAreNat
  <2>3. state.at = "idle" /\ state.ages = proc[p].ages
    BY <1>2 DEF StateSpace
  <2>4. \A age \in state.ages : age <= Lag
    BY <2>1, <2>2, <2>3
  <2>5. QED
    BY <2>3, <2>4 DEF AgesFit
<1>7. QED
  BY <1>1, <1>3, <1>4, <1>5, <1>6, OneProcessWrites DEF Shape, RecentInv, DocsAreRecent

LEMMA CallFailsStep == ASSUME RecentInv, NEW p \in Process, CallFails(p) PROVE RecentInv'
<1>1. PICK Stuff : Shape(Stuff)
  BY DEF RecentInv, WellShaped
<1> DEFINE Old   == Stuff \cup {{}, << >>}
           state == At("idle", proc[p].request)
<1>2. Shape(Old)
  BY <1>1, ShapeGrows
<1>3. proc[p].request \in Request
  BY <1>1 DEF Shape, StateSpace
<1>4. state \in StateSpace(Old) /\ AgesFit(state)
  BY <1>3, Starting DEF StateSpace
<1>5. Becomes(p, state) /\ doc' = doc
  BY DEF CallFails
<1>6. snap' = snap \/ (proc[p].at = "put" /\ snap' = Kept(p))
  BY DEF CallFails
<1> HIDE DEF Old, state
<1>7. snap' \in [Request -> {Absent} \cup SnapSpace(Old)] /\ SnapsAreRecent'
  <2>1. CASE snap' = snap
    BY <1>2, <2>1 DEF Shape, RecentInv, SnapsAreRecent
  <2>2. CASE proc[p].at = "put" /\ snap' = Kept(p)
    BY <1>2, <2>2, KeptIsRecent
  <2>3. QED
    BY <1>6, <2>1, <2>2
<1>8. QED
  BY <1>2, <1>4, <1>5, <1>7, OneProcessWrites DEF Shape, RecentInv, DocsAreRecent

LEMMA CleanupStep == ASSUME RecentInv, Cleanup PROVE RecentInv'
<1>1. PICK Old : Shape(Old)
  BY DEF RecentInv, WellShaped
<1>2. PICK t \in Title : doc' = [doc EXCEPT ![t] = Absent]
  BY DEF Cleanup
<1>3. snap' = snap /\ proc' = proc
  BY DEF Cleanup
<1>4. /\ doc' \in [Title -> {Absent} \cup DocSpace]
      /\ \A u \in Title : doc'[u] = doc[u] \/ doc'[u] = Absent
  BY <1>1, <1>2 DEF Shape
<1>5. Shape(Old)'
  BY <1>1, <1>3, <1>4 DEF Shape, DocSpace, SnapSpace, StateSpace
<1>6. DocsAreRecent'
  BY <1>4 DEF RecentInv, DocsAreRecent
<1>7. QED
  BY <1>3, <1>5, <1>6 DEF RecentInv, WellShaped, SnapsAreRecent, ProcsAreRecent, AgesFit

\* A tick makes everything kept older by as much as it takes from its ttl.
LEMMA TickStep == ASSUME RecentInv, Tick PROVE RecentInv'
<1>1. PICK Old : Shape(Old)
  BY DEF RecentInv, WellShaped
<1>2. \A t \in Title :
        \/ doc'[t] = Absent
        \/ /\ doc[t] # Absent /\ doc[t] \in DocSpace /\ doc'[t] \in DocSpace
           /\ doc'[t].age = doc[t].age + 1 /\ doc'[t].left = doc[t].left - 1
  <2> SUFFICES ASSUME NEW t \in Title, doc'[t] # Absent
               PROVE  /\ doc[t] # Absent /\ doc[t] \in DocSpace /\ doc'[t] \in DocSpace
                      /\ doc'[t].age = doc[t].age + 1 /\ doc'[t].left = doc[t].left - 1
    OBVIOUS
  <2>1. /\ doc[t] # Absent /\ doc[t].left # 1
        /\ doc'[t] = [age |-> doc[t].age + 1, left |-> doc[t].left - 1]
    BY DEF Tick
  <2>2. doc[t] \in DocSpace
    BY <1>1, <2>1 DEF Shape
  <2>3. doc[t].age + 1 \in Nat /\ doc[t].left - 1 \in 1 .. IndexTtl
    BY <2>1, <2>2, LimitsAreNat DEF DocSpace
  <2>4. QED
    BY <2>1, <2>2, <2>3 DEF DocSpace
<1>3. doc' \in [Title -> {Absent} \cup DocSpace]
  BY <1>2 DEF Tick
<1>4. DocsAreRecent'
  BY <1>2 DEF RecentInv, DocsAreRecent, DocSpace
<1>5. ASSUME NEW request \in Request, snap'[request] # Absent
      PROVE  /\ snap[request] # Absent
             /\ snap[request] \in SnapSpace(Old) /\ snap'[request] \in SnapSpace(Old)
             /\ snap'[request].ages = Older(snap[request].ages)
             /\ snap'[request].left = snap[request].left - 1
  <2> DEFINE next == [snap[request] EXCEPT !.ages = Older(snap[request].ages),
                                           !.left = snap[request].left - 1]
  <2>1. snap[request] # Absent /\ snap[request].left # 1 /\ snap'[request] = next
    BY <1>5 DEF Tick
  <2>2. snap[request] \in SnapSpace(Old)
    BY <1>1, <2>1 DEF Shape
  <2>3. Older(snap[request].ages) \in SUBSET Nat
    BY <2>2 DEF Older, SnapSpace
  <2>4. snap[request].left - 1 \in 1 .. SnapshotTtl
    BY <2>1, <2>2, LimitsAreNat DEF SnapSpace
  <2>5. QED
    BY <2>1, <2>2, <2>3, <2>4 DEF SnapSpace
<1>6. snap' \in [Request -> {Absent} \cup SnapSpace(Old)]
  <2>1. \A request \in Request : snap'[request] \in {Absent} \cup SnapSpace(Old)
    BY <1>5
  <2>2. snap' = [request \in Request |-> snap'[request]]
    BY DEF Tick
  <2>3. QED
    BY <2>1, <2>2
<1>7. SnapsAreRecent'
  <2> SUFFICES ASSUME NEW request \in Request, snap'[request] # Absent,
                      NEW age \in snap'[request].ages
               PROVE  age + snap'[request].left <= SnapLimit
    BY DEF SnapsAreRecent
  <2>1. PICK before \in snap[request].ages : age = before + 1
    BY <1>5 DEF Older
  <2>2. before + snap[request].left <= SnapLimit
    BY <1>5 DEF RecentInv, SnapsAreRecent
  <2>3. before \in Nat /\ snap[request].left \in Nat
    BY <1>5, LimitsAreNat DEF SnapSpace
  <2>4. QED
    BY <1>5, <2>1, <2>2, <2>3, LimitsAreNat
<1>8. proc' = proc
  BY DEF Tick
<1>9. Shape(Old)'
  BY <1>1, <1>3, <1>6, <1>8 DEF Shape, DocSpace, SnapSpace, StateSpace
<1>10. QED
  BY <1>4, <1>7, <1>8, <1>9 DEF RecentInv, WellShaped, ProcsAreRecent, AgesFit

-----------------------------------------------------------------------------
LEMMA RecentInit == ASSUME Init PROVE RecentInv
<1>1. PICK request \in Request : proc = [p \in Process |-> At("idle", request)]
  BY DEF Init
<1>2. At("idle", request) \in StateSpace({{}, << >>}) /\ AgesFit(At("idle", request))
  BY Starting
<1>3. Shape({{}, << >>})
  BY <1>1, <1>2 DEF Init, Shape
<1>4. QED
  BY <1>1, <1>2, <1>3
     DEF Init, RecentInv, WellShaped, DocsAreRecent, SnapsAreRecent, ProcsAreRecent

LEMMA RecentStep == ASSUME RecentInv, [Next]_vars PROVE RecentInv'
<1>1. CASE UNCHANGED vars
  BY <1>1 DEF vars, RecentInv, WellShaped, Shape, DocSpace, SnapSpace, StateSpace,
              DocsAreRecent, SnapsAreRecent, ProcsAreRecent, AgesFit
<1>2. QED
  BY <1>1, BeginStep, IndexRecordStep, ReadSnapshotStep, ReadIndexStep, ProviderStep,
     UnlistStep, WriteStep, ListStep, PutStep, CallFailsStep, CleanupStep, TickStep
     DEF Next, Proceed

\* A search answer, from whichever layer and however often its data have been
\* handed down, is never older than the lives of the layers add up to:
\* MediaSearchService.execute does not feed what it reads back into the index.
THEOREM SearchAnswersAreRecent == Spec => []AnswersAreRecent
<1>1. RecentInv => AnswersAreRecent
  BY DEF RecentInv, ProcsAreRecent, AgesFit, AnswersAreRecent, Answered
<1>2. QED
  BY <1>1, RecentInit, RecentStep, PTL DEF Spec

\* canServePageFromLocalIndex looks as if it could refuse a page that the index
\* cannot fill; for what searchLocalIndex returns it refuses only an empty index.
THEOREM IndexNeverRefusesAPage ==
  ASSUME NEW ranked \in Seq(Title), NEW page \in Page
  PROVE  CanServePageFromLocalIndex(Slice(ranked, page, PageSize), Len(ranked), page)
           <=> Len(ranked) # 0
<1> DEFINE start == (page - 1) * PageSize
           end   == Least(page * PageSize, Len(ranked))
<1>1. /\ page \in Nat \ {0} /\ PageSize \in Nat \ {0} /\ Len(ranked) \in Nat
      /\ start \in Nat /\ page * PageSize = start + PageSize
  <2>1. page \in Nat \ {0} /\ PageSize \in Nat \ {0} /\ Len(ranked) \in Nat
    BY SearchAssumption
  <2>2. \A m, n \in Nat : m * n \in Nat
    OBVIOUS
  <2>3. (page - 1) * PageSize \in Nat
    BY <2>1, <2>2
  <2>4. \A m, n \in Int : m * n = (m - 1) * n + n
    OBVIOUS
  <2>5. page * PageSize = (page - 1) * PageSize + PageSize
    BY <2>1, <2>4
  <2>6. QED
    BY <2>1, <2>3, <2>5
<1> HIDE DEF start
<1>2. ASSUME start < Len(ranked)
      PROVE  Len(Slice(ranked, page, PageSize)) = Least(PageSize, Len(ranked) - start)
  <2>1. end \in Int /\ start + 1 <= end /\ end <= Len(ranked)
    BY <1>1, <1>2 DEF Least
  <2>2. \A k \in start + 1 .. end : ranked[k] \in Title
    BY <1>1, <2>1
  <2>3. Len(SubSeq(ranked, start + 1, end)) = end - start
    BY <1>1, <2>1, <2>2, SubSeqProperties
  <2>4. end - start = Least(PageSize, Len(ranked) - start)
    BY <1>1, <1>2 DEF Least
  <2>5. QED
    BY <2>3, <2>4 DEF Slice, start
<1>3. QED
  BY <1>1, <1>2 DEF CanServePageFromLocalIndex, start
=============================================================================
