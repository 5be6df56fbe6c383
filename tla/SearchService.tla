--------------------------- MODULE SearchService ---------------------------
(***************************************************************************)
(* MediaSearchService.execute for one tenant, kind and language: searches  *)
(* look for the snapshot of their page, then in the local index, then at   *)
(* the provider, whose page they index and keep as the page's snapshot.    *)
(* Other services index titles too.  The index of a title is its document  *)
(* and its listing under its tokens, which an upsert first takes away and  *)
(* then gives back (SearchIndex has the single commands and tokens).       *)
(* Redis answers within a tick; a provider call may take any time.         *)
(***************************************************************************)
EXTENDS Freshness, Sequences

CONSTANTS Process,           \* searches and other indexing services
          Title,
          Query,             \* normalised query texts
          Page,              \* page numbers asked for
          PageSize,          \* the pageSize of every request
          ProviderPageSize,  \* results on a page of the provider's
          Matches,           \* the titles that share a token with a query
          ProviderOrder,     \* titles by the provider's relevance
          IndexOrder,        \* titles by score, title and mediaId
          SnapshotTtl,       \* SEARCH_CACHE_TTL_SECONDS, in ticks
          IndexTtl,          \* SEARCH_INDEX_TTL_SECONDS, in ticks
          Absent

ASSUME SearchAssumption ==
  /\ Page \subseteq Nat \ {0}
  /\ PageSize \in Nat \ {0} /\ ProviderPageSize \in Nat \ {0}
  /\ Matches \in [Query -> SUBSET Title]
  /\ ProviderOrder \in Seq(Title) /\ IndexOrder \in Seq(Title)
  /\ SnapshotTtl \in Nat \ {0} /\ IndexTtl \in Nat \ {0}
  /\ Absent \notin [age : Nat, left : Nat]
  /\ Absent \notin [items : Seq(Title), ages : SUBSET Nat, left : Nat]

VARIABLES
  doc,     \* the document of each title: the age of its data, its ttl
  listed,  \* titles in the sets of their tokens
  snap,    \* the snapshot of each request: titles, ages of their data, ttl
  proc     \* what each process is doing, or how its last search ended

vars == <<doc, listed, snap, proc>>

Instant == {"snapshot", "members", "documents", "unlist", "write", "list", "put"}
Sources == {"none", "indexing", "cache", "index", "provider"}
Request == Query \X Page

TypeOK ==
  /\ doc \in [Title -> {Absent} \cup [age : Nat, left : 1 .. IndexTtl]]
  /\ listed \subseteq Title
  /\ snap \in [Request -> {Absent} \cup
                 [items : Seq(Title), ages : SUBSET Nat, left : 1 .. SnapshotTtl]]
  /\ proc \in [Process -> [at : Instant \cup {"idle", "provider"}, request : Request,
                           found : SUBSET Title, items : Seq(Title), ages : SUBSET Nat,
                           todo : Seq(Title), source : Sources]]
  /\ \A p \in Process : proc[p].at \in {"unlist", "write", "list"} => proc[p].todo # << >>

At(state, request) ==
  [at |-> state, request |-> request, found |-> {}, items |-> << >>, ages |-> {},
   todo |-> << >>, source |-> "none"]

Init ==
  /\ doc = [t \in Title |-> Absent]
  /\ listed = {}
  /\ snap = [request \in Request |-> Absent]
  /\ \E request \in Request : proc = [p \in Process |-> At("idle", request)]

-----------------------------------------------------------------------------
Least(m, n) == IF m < n THEN m ELSE n

\* items.slice((page - 1) * size, page * size)
Slice(items, page, size) ==
  SubSeq(items, (page - 1) * size + 1, Least(page * size, Len(items)))

\* A slip: an index that knows nothing of the query is taken at its word.
CanServeNothing(items, total, page) ==
  \/ (page - 1) * PageSize >= total
  \/ Len(items) = Least(PageSize, total - (page - 1) * PageSize)

CanServePageFromLocalIndex(items, total, page) ==
  /\ total # 0
  /\ \/ (page - 1) * PageSize >= total
     \/ Len(items) = Least(PageSize, total - (page - 1) * PageSize)

Ranked(found) == SelectSeq(IndexOrder, LAMBDA t : t \in found)

\* The provider takes no page size: its pages are its own.
ProviderPage(request) ==
  Slice(SelectSeq(ProviderOrder, LAMBDA t : t \in Matches[request[1]]),
        request[2], ProviderPageSize)

Elements(items) == {items[k] : k \in DOMAIN items}
AgesIn(items) == {doc[t].age : t \in {u \in Title : u \in Elements(items) /\ doc[u] # Absent}}

Becomes(p, state) == proc' = [proc EXCEPT ![p] = state]
Goto(p, label) == Becomes(p, [proc[p] EXCEPT !.at = label])

-----------------------------------------------------------------------------
\* A request that validateToken or consume refuses changes nothing here.
Begin(p) ==
  /\ proc[p].at = "idle"
  /\ \E request \in Request : Becomes(p, At("snapshot", request))
  /\ UNCHANGED <<doc, listed, snap>>

ReadSnapshot(p) ==
  /\ proc[p].at = "snapshot"
  /\ LET cached == snap[proc[p].request]
     IN IF cached = Absent
        THEN Goto(p, "members")
        ELSE Becomes(p, [proc[p] EXCEPT !.at = "idle", !.source = "cache",
                                        !.items = cached.items, !.ages = cached.ages])
  /\ UNCHANGED <<doc, listed, snap>>

\* A slip: what the index has answered is indexed again.
FromIndexRenewing(p, ranked) ==
  LET items == Slice(ranked, proc[p].request[2], PageSize)
  IN IF CanServePageFromLocalIndex(items, Len(ranked), proc[p].request[2])
     THEN [proc[p] EXCEPT !.at = IF items = << >> THEN "put" ELSE "unlist", !.found = {},
             !.source = "index", !.items = items, !.todo = items, !.ages = AgesIn(items)]
     ELSE [proc[p] EXCEPT !.at = "provider", !.found = {}]

\* The page of what the index has found, if it is to be served.
FromIndex(p, ranked) ==
  LET items == Slice(ranked, proc[p].request[2], PageSize)
  IN IF CanServePageFromLocalIndex(items, Len(ranked), proc[p].request[2])
     THEN [proc[p] EXCEPT !.at = "put", !.found = {}, !.source = "index",
                          !.items = items, !.ages = AgesIn(items)]
     ELSE [proc[p] EXCEPT !.at = "provider", !.found = {}]

\* searchLocalIndex: SMEMBERS of each token of the query, ...
ReadMembers(p) ==
  /\ proc[p].at = "members"
  /\ LET found == listed \cap Matches[proc[p].request[1]]
     IN Becomes(p, IF found = {} THEN FromIndex(p, << >>)
                   ELSE [proc[p] EXCEPT !.at = "documents", !.found = found])
  /\ UNCHANGED <<doc, listed, snap>>

\* ... and one MGET of their documents, of which some may be gone.
ReadDocuments(p) ==
  /\ proc[p].at = "documents"
  /\ Becomes(p, FromIndex(p, Ranked({t \in proc[p].found : doc[t] # Absent})))
  /\ UNCHANGED <<doc, listed, snap>>

\* A provider error is rethrown; nothing is kept of it.
ProviderAnswers(p) ==
  /\ proc[p].at = "provider"
  /\ LET items == ProviderPage(proc[p].request)
     IN \/ Becomes(p, [proc[p] EXCEPT !.at = IF items = << >> THEN "put" ELSE "unlist",
                          !.source = "provider", !.items = items, !.todo = items,
                          !.ages = IF items = << >> THEN {} ELSE {0}])
        \/ Becomes(p, At("idle", proc[p].request))
  /\ UNCHANGED <<doc, listed, snap>>

-----------------------------------------------------------------------------
\* upsertSearchIndexItems, item by item: a title that has a document is taken
\* out of its token sets, ...
Unlist(p) ==
  /\ proc[p].at = "unlist"
  /\ LET t == Head(proc[p].todo)
     IN listed' = IF doc[t] = Absent THEN listed ELSE listed \ {t}
  /\ Goto(p, "write")
  /\ UNCHANGED <<doc, snap>>

\* ... its document is written, ...
Write(p) ==
  /\ proc[p].at = "write"
  /\ \E age \in proc[p].ages :
       doc' = [doc EXCEPT ![Head(proc[p].todo)] = [age |-> age, left |-> IndexTtl]]
  /\ Goto(p, "list")
  /\ UNCHANGED <<listed, snap>>

\* ... and it is added to its sets.
List(p) ==
  /\ proc[p].at = "list"
  /\ listed' = listed \cup {Head(proc[p].todo)}
  /\ LET rest == Tail(proc[p].todo)
         done == IF proc[p].source = "indexing"
                 THEN At("idle", proc[p].request)
                 ELSE [proc[p] EXCEPT !.at = "put", !.todo = << >>]
     IN Becomes(p, IF rest = << >> THEN done
                   ELSE [proc[p] EXCEPT !.at = "unlist", !.todo = rest])
  /\ UNCHANGED <<doc, snap>>

Kept(p) ==
  [snap EXCEPT ![proc[p].request] =
     [items |-> proc[p].items, ages |-> proc[p].ages, left |-> SnapshotTtl]]

PutSearchSnapshot(p) ==
  /\ proc[p].at = "put"
  /\ snap' = Kept(p)
  /\ Goto(p, "idle")
  /\ UNCHANGED <<doc, listed>>

-----------------------------------------------------------------------------
\* A lookup, a refresh or a warmup indexes the title of its record, which a
\* warmup may have found in the store.
IndexRecord(p) ==
  /\ proc[p].at = "idle"
  /\ \E t \in Title, age \in 0 .. ServableFor - 1 :
       Becomes(p, [At("unlist", proc[p].request) EXCEPT
                     !.source = "indexing", !.todo = <<t>>, !.ages = {age}])
  /\ UNCHANGED <<doc, listed, snap>>

\* cleanupDerivedState: SREM by the document's tokens, then DEL.
Cleanup ==
  /\ \E t \in Title : doc[t] # Absent /\ listed' = listed \ {t}
                                      /\ doc' = [doc EXCEPT ![t] = Absent]
  /\ UNCHANGED <<snap, proc>>

\* A store call throws, executed or not; the process goes no further.
CallFails(p) ==
  /\ proc[p].at \in Instant
  /\ Becomes(p, At("idle", proc[p].request))
  /\ snap' \in {snap} \cup (IF proc[p].at = "put" THEN {Kept(p)} ELSE {})
  /\ UNCHANGED <<doc, listed>>

Older(ages) == {age + 1 : age \in ages}

\* Redis drops what has expired.  The set of a token goes when the last of its
\* titles is due to: a title without a document may or may not be listed.
Tick ==
  /\ \A p \in Process : proc[p].at \notin Instant
  /\ doc' = [t \in Title |-> IF doc[t] = Absent \/ doc[t].left = 1 THEN Absent
                             ELSE [age |-> doc[t].age + 1, left |-> doc[t].left - 1]]
  /\ \E gone \in SUBSET {t \in Title : doc'[t] = Absent} : listed' = listed \ gone
  /\ snap' = [request \in Request |->
                IF snap[request] = Absent \/ snap[request].left = 1 THEN Absent
                ELSE [snap[request] EXCEPT !.ages = Older(@), !.left = @ - 1]]
  /\ UNCHANGED proc

Proceed(p) ==
  \/ ReadSnapshot(p) \/ ReadMembers(p) \/ ReadDocuments(p) \/ ProviderAnswers(p)
  \/ Unlist(p) \/ Write(p) \/ List(p) \/ PutSearchSnapshot(p)

Next ==
  \/ \E p \in Process : Begin(p) \/ IndexRecord(p) \/ Proceed(p) \/ CallFails(p)
  \/ Cleanup
  \/ Tick

\* A search that has begun goes on, its provider call is aborted at a timeout,
\* and time passes; nobody has to search.
Fairness == (\A p \in Process : WF_vars(Proceed(p))) /\ SF_vars(Tick)

Spec == Init /\ [][Next]_vars /\ Fairness

-----------------------------------------------------------------------------
Answered(p) == proc[p].at = "idle" /\ proc[p].source \in {"cache", "index", "provider"}

\* The lives of a servable record, of a document and of a snapshot add up.
Lag == (ServableFor - 1) + (IndexTtl - 1) + (SnapshotTtl - 1)

\* No answer shows data fetched from the provider longer ago than that, by
\* whichever of the three layers it has come down.
AnswersAreRecent == \A p \in Process : Answered(p) => \A age \in proc[p].ages : age <= Lag

\* Answers out of the index do not keep it alive: unless something else fills
\* it, searches that find no snapshot get to the provider again and again.
ProviderIsAskedAgain ==
  /\ []<>(\E p \in Process : proc[p].at = "members")
  /\ <>[](\A p \in Process : proc[p].source # "indexing")
  /\ <>[][\A p \in Process : ~CallFails(p)]_vars
  => []<>(\E p \in Process : proc[p].at = "provider")
=============================================================================
