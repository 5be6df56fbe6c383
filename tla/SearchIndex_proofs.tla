------------------------- MODULE SearchIndex_proofs -------------------------
(***************************************************************************)
(* The local index for any number of concurrent upserts and cleanups, any  *)
(* tokens and titles and any expiry: the document stays findable.          *)
(***************************************************************************)
EXTENDS SearchIndex, TLAPS

\* What a process holds between SADD and EXPIRE it holds only there.
AddedInExpireOnly == \A p \in Process : phase[p] # "expire" => added[p] = NoToken

ShapeInv == TypeOK /\ AddedInExpireOnly

LEMMA ShapeStep == ASSUME ShapeInv, [Next]_vars PROVE ShapeInv'
<1> USE IndexAssumption DEF ShapeInv, TypeOK, AddedInExpireOnly, Rewriting, Adding, Continue
<1>1. ASSUME NEW p \in Process, BeginUpsert(p) PROVE ShapeInv'
  <2>1. Read \in SUBSET Token
    BY DEF Read
  <2>2. QED
    BY <1>1, <2>1 DEF BeginUpsert, Retitle
<1>2. ASSUME NEW p \in Process, BeginCleanup(p) PROVE ShapeInv'
  <2>1. Read \in SUBSET Token
    BY DEF Read
  <2>2. QED
    BY <1>2, <2>1 DEF BeginCleanup
<1>3. ASSUME NEW p \in Process, RemoveFromSet(p) PROVE ShapeInv'
  BY <1>3 DEF RemoveFromSet
<1>4. ASSUME NEW p \in Process, WriteDocument(p) PROVE ShapeInv'
  BY <1>4 DEF WriteDocument, Retitle
<1>5. ASSUME NEW p \in Process, DeleteDocument(p) PROVE ShapeInv'
  BY <1>5 DEF DeleteDocument
<1>6. ASSUME NEW p \in Process, AddToSet(p) PROVE ShapeInv'
  BY <1>6 DEF AddToSet
<1>7. ASSUME NEW p \in Process, ExpireSet(p) PROVE ShapeInv'
  BY <1>7 DEF ExpireSet
<1>8. ASSUME NEW p \in Process, EndUpsert(p) PROVE ShapeInv'
  BY <1>8 DEF EndUpsert
<1>9. ASSUME NEW p \in Process, Crash(p) PROVE ShapeInv'
  BY <1>9 DEF Crash, Retitle
<1>10. CASE OtherTitles
  BY <1>10 DEF OtherTitles
<1>11. CASE Tick
  BY <1>11 DEF Tick, Older
<1>12. CASE UNCHANGED vars
  BY <1>12 DEF vars
<1>13. QED
  BY <1>1, <1>2, <1>3, <1>4, <1>5, <1>6, <1>7, <1>8, <1>9, <1>10, <1>11, <1>12
     DEF Next, Proceed

LEMMA RepairStep ==
  ASSUME ShapeInv, ImmortalSetIsRepaired, [Next]_vars
  PROVE  ImmortalSetIsRepaired'
<1> USE IndexAssumption DEF ShapeInv, TypeOK, ImmortalSetIsRepaired, Rewriting, Adding, Continue
<1>1. ASSUME NEW p \in Process, BeginUpsert(p) \/ BeginCleanup(p) PROVE ImmortalSetIsRepaired'
  BY <1>1 DEF BeginUpsert, BeginCleanup
<1>2. ASSUME NEW p \in Process, RemoveFromSet(p) PROVE ImmortalSetIsRepaired'
  BY <1>2 DEF RemoveFromSet
<1>3. ASSUME NEW p \in Process, WriteDocument(p) \/ DeleteDocument(p) \/ EndUpsert(p)
      PROVE  ImmortalSetIsRepaired'
  BY <1>3 DEF WriteDocument, DeleteDocument, EndUpsert
<1>4. ASSUME NEW p \in Process, AddToSet(p) PROVE ImmortalSetIsRepaired'
  BY <1>4 DEF AddToSet
<1>5. ASSUME NEW p \in Process, ExpireSet(p) PROVE ImmortalSetIsRepaired'
  BY <1>5 DEF ExpireSet
<1>6. ASSUME NEW p \in Process, Crash(p) PROVE ImmortalSetIsRepaired'
  BY <1>6 DEF Crash
<1>7. CASE OtherTitles
  BY <1>7 DEF OtherTitles
<1>8. CASE Tick
  BY <1>8 DEF Tick, Older
<1>9. CASE UNCHANGED vars
  BY <1>9 DEF vars
<1>10. QED
  BY <1>1, <1>2, <1>3, <1>4, <1>5, <1>6, <1>7, <1>8, <1>9 DEF Next, Proceed

\* The two properties carry each other over a tick: a set that expires under
\* the title before its document has a process that has not yet renewed it.
ListingInv == DocumentIsListed /\ SetOutlivesDocument

LEMMA ListingStep ==
  ASSUME RedisPrompt, ShapeInv, ListingInv, [Next]_vars
  PROVE  ListingInv'
<1> USE IndexAssumption DEF ShapeInv, TypeOK, AddedInExpireOnly, ListingInv,
        DocumentIsListed, SetOutlivesDocument, WillAdd, WillRewrite,
        Rewriting, Adding, Continue
<1>1. ASSUME NEW p \in Process, BeginUpsert(p) \/ BeginCleanup(p) PROVE ListingInv'
  BY <1>1 DEF BeginUpsert, BeginCleanup
<1>2. ASSUME NEW p \in Process, RemoveFromSet(p) PROVE ListingInv'
  BY <1>2 DEF RemoveFromSet
<1>3. ASSUME NEW p \in Process, WriteDocument(p) PROVE ListingInv'
  BY <1>3 DEF WriteDocument
<1>4. ASSUME NEW p \in Process, DeleteDocument(p) PROVE ListingInv'
  BY <1>4 DEF DeleteDocument
<1>5. ASSUME NEW p \in Process, AddToSet(p) PROVE ListingInv'
  BY <1>5 DEF AddToSet
<1>6. ASSUME NEW p \in Process, ExpireSet(p) PROVE ListingInv'
  BY <1>6 DEF ExpireSet
<1>7. ASSUME NEW p \in Process, EndUpsert(p) PROVE ListingInv'
  BY <1>7 DEF EndUpsert
<1>8. ASSUME NEW p \in Process, Crash(p) PROVE ListingInv'
  BY <1>8 DEF Crash
<1>9. CASE OtherTitles
  BY <1>9 DEF OtherTitles
<1>10. CASE Tick
  BY <1>10 DEF Tick, Older
<1>11. CASE UNCHANGED vars
  BY <1>11 DEF vars
<1>12. QED
  BY <1>1, <1>2, <1>3, <1>4, <1>5, <1>6, <1>7, <1>8, <1>9, <1>10, <1>11
     DEF Next, Proceed

LEMMA InitIndexInv == Init => ShapeInv /\ ImmortalSetIsRepaired /\ ListingInv
BY IndexAssumption
   DEF Init, ShapeInv, TypeOK, AddedInExpireOnly, ImmortalSetIsRepaired, ListingInv,
       DocumentIsListed, SetOutlivesDocument, Rewriting, Adding

\* Every variable of the index keeps its type.
THEOREM IndexTypeCorrect == Spec => []TypeOK
<1>1. ShapeInv /\ [Next]_vars => ShapeInv'  BY ShapeStep
<1>2. ShapeInv => TypeOK  BY DEF ShapeInv
<1>3. QED  BY <1>1, <1>2, InitIndexInv, PTL DEF Spec

\* No set of tokens is left without an expiry by an upsert that finished
\* (redis-media-snapshot-store.ts:294-298).
THEOREM ImmortalSetRepaired == Spec => []ImmortalSetIsRepaired
<1>1. ShapeInv /\ [Next]_vars => ShapeInv'  BY ShapeStep
<1>2. ShapeInv /\ ImmortalSetIsRepaired /\ [Next]_vars => ImmortalSetIsRepaired'
  BY RepairStep
<1>3. QED  BY <1>1, <1>2, InitIndexInv, PTL DEF Spec

\* Concurrent upserts and cleanups of a title never leave its document out of
\* one of its sets, when SADD and EXPIRE are not a tick apart and nothing
\* crashes (redis-media-snapshot-store.ts:118-135 and 255-300).
THEOREM IndexStaysConsistent ==
  ASSUME RedisPrompt
  PROVE  Spec => [](DocumentIsListed /\ SetOutlivesDocument)
<1>1. ShapeInv /\ [Next]_vars => ShapeInv'  BY ShapeStep
<1>2. ShapeInv /\ ListingInv /\ [Next]_vars => ListingInv'  BY ListingStep
<1>3. ListingInv => DocumentIsListed /\ SetOutlivesDocument  BY DEF ListingInv
<1>4. QED  BY <1>1, <1>2, <1>3, InitIndexInv, PTL DEF Spec

\* The half of it about time: a set is due to expire before a document it lists
\* only while a process that will renew the set is still on its way, although every
\* upsert and repair gives the document and its sets their TTLs in separate calls.
THEOREM SetsOutliveDocuments ==
  ASSUME RedisPrompt
  PROVE  Spec => []SetOutlivesDocument
<1>1. Spec => [](DocumentIsListed /\ SetOutlivesDocument)  BY IndexStaysConsistent
<1>2. QED  BY <1>1, PTL
=============================================================================
