---------------------------- MODULE SearchIndex ----------------------------
(***************************************************************************)
(* The local search index of RedisMediaSnapshotStore: the document of one  *)
(* title and its membership in the sets of its tokens.  Upserts (from      *)
(* searches, lookups, refreshes and warmups) and cleanups run concurrently,*)
(* one Redis command a step.  An upsert reads the document, removes the    *)
(* title from the sets that document names, writes the new document, and   *)
(* adds the title to the new sets, giving each an expiry; a cleanup reads, *)
(* removes and deletes.  Nothing orders two of them.                       *)
(***************************************************************************)
EXTENDS Integers

CONSTANTS Process,      \* upserts and cleanups in progress together
          Token,        \* search tokens
          Titles,       \* the token sets the title may be indexed under
          IndexTtl,     \* SEARCH_INDEX_TTL_SECONDS, in ticks
          MaxCrashes,   \* bound: processes that die or whose command fails
          RedisPrompt,  \* whether SADD and its EXPIRE fall within a tick
          NoDoc,        \* no document in Redis
          NoExpiry,     \* the ttl of a set that has none
          NoToken

ASSUME IndexAssumption ==
  /\ Titles \subseteq SUBSET Token
  /\ IndexTtl \in Nat \ {0}
  /\ MaxCrashes \in Nat
  /\ RedisPrompt \in BOOLEAN
  /\ NoExpiry \notin Nat
  /\ NoToken \notin Token
  /\ NoDoc \notin [tokens : Titles, ttl : Nat]

VARIABLES
  doc,      \* the document: the tokens it lists and its ttl
  members,  \* the tokens whose set contains the title
  setTtl,   \* ttl of each token's set, 0 when there is no such key
  phase,    \* what each process does next
  todo,     \* tokens it still has to remove from or add to
  title,    \* tokens of the title an upsert was given
  added,    \* the token it has added and not yet given an expiry
  crashes

vars == <<doc, members, setTtl, phase, todo, title, added, crashes>>

\* A process that has read the document and will overwrite or delete it.
Rewriting == {"remove", "clear"}
Adding == {"add", "expire"}

TypeOK ==
  /\ doc \in {NoDoc} \cup [tokens : Titles, ttl : 1 .. IndexTtl]
  /\ members \subseteq Token
  /\ setTtl \in [Token -> (0 .. IndexTtl) \cup {NoExpiry}]
  /\ \A t \in members : setTtl[t] # 0
  /\ phase \in [Process -> {"idle"} \cup Rewriting \cup Adding]
  /\ todo \in [Process -> SUBSET Token]
  /\ title \in [Process -> Titles \cup {{}}]
  /\ added \in [Process -> Token \cup {NoToken}]
  /\ \A p \in Process : /\ phase[p] = "expire" => added[p] \in Token
                        /\ phase[p] = "remove" => title[p] \in Titles
  /\ crashes \in 0 .. MaxCrashes

Init ==
  /\ doc = NoDoc
  /\ members = {}
  /\ setTtl = [t \in Token |-> 0]
  /\ phase = [p \in Process |-> "idle"]
  /\ todo = [p \in Process |-> {}]
  /\ title = [p \in Process |-> {}]
  /\ added = [p \in Process |-> NoToken]
  /\ crashes = 0

\* Process p goes on with phase next, tokens ts to do, and nothing in hand.
Continue(p, next, ts) ==
  /\ phase' = [phase EXCEPT ![p] = next]
  /\ todo' = [todo EXCEPT ![p] = ts]
  /\ added' = [added EXCEPT ![p] = NoToken]

Retitle(p, ts) == title' = [title EXCEPT ![p] = ts]
Read == IF doc = NoDoc THEN {} ELSE doc.tokens

-----------------------------------------------------------------------------
\* upsertSearchIndexItems and cleanupDerivedState begin with a GET.
BeginUpsert(p) ==
  /\ phase[p] = "idle"
  /\ Continue(p, "remove", Read)
  /\ \E ts \in Titles : Retitle(p, ts)
  /\ UNCHANGED <<doc, members, setTtl, crashes>>

BeginCleanup(p) ==
  /\ phase[p] = "idle"
  /\ Continue(p, "clear", Read)
  /\ UNCHANGED <<doc, members, setTtl, title, crashes>>

\* SREM; Redis deletes a set with its last member, which the title may be.
RemoveFromSet(p) ==
  /\ phase[p] \in Rewriting
  /\ \E t \in todo[p] :
       /\ Continue(p, phase[p], todo[p] \ {t})
       /\ members' = members \ {t}
       /\ \/ UNCHANGED setTtl
          \/ t \in members /\ setTtl' = [setTtl EXCEPT ![t] = 0]
  /\ UNCHANGED <<doc, title, crashes>>

\* A slip: the tokens of the old document are taken to be listed already.
WriteDocumentAddingNew(p) ==
  /\ phase[p] = "remove" /\ todo[p] = {}
  /\ doc' = [tokens |-> title[p], ttl |-> IndexTtl]
  /\ Continue(p, "add", title[p] \ Read)
  /\ Retitle(p, {})
  /\ UNCHANGED <<members, setTtl, crashes>>

WriteDocument(p) ==
  /\ phase[p] = "remove" /\ todo[p] = {}
  /\ doc' = [tokens |-> title[p], ttl |-> IndexTtl]
  /\ Continue(p, "add", title[p])
  /\ Retitle(p, {})
  /\ UNCHANGED <<members, setTtl, crashes>>

DeleteDocument(p) ==
  /\ phase[p] = "clear" /\ todo[p] = {}
  /\ doc' = NoDoc
  /\ Continue(p, "idle", {})
  /\ UNCHANGED <<members, setTtl, title, crashes>>

\* SADD leaves the expiry of an existing set alone and gives a new one none.
AddToSet(p) ==
  /\ phase[p] = "add"
  /\ \E t \in todo[p] :
       /\ members' = members \cup {t}
       /\ setTtl' = [setTtl EXCEPT ![t] = IF @ = 0 THEN NoExpiry ELSE @]
       /\ phase' = [phase EXCEPT ![p] = "expire"]
       /\ added' = [added EXCEPT ![p] = t]
  /\ UNCHANGED <<doc, todo, title, crashes>>

\* A slip: an expiry only for the sets that have none.
ExpireNewSet(p) ==
  /\ phase[p] = "expire"
  /\ setTtl' = [setTtl EXCEPT ![added[p]] = IF @ = NoExpiry THEN IndexTtl ELSE @]
  /\ Continue(p, "add", todo[p] \ {added[p]})
  /\ UNCHANGED <<doc, members, title, crashes>>

\* EXPIRE does nothing to a set that has expired or been emptied meanwhile.
ExpireSet(p) ==
  /\ phase[p] = "expire"
  /\ setTtl' = [setTtl EXCEPT ![added[p]] = IF @ = 0 THEN 0 ELSE IndexTtl]
  /\ Continue(p, "add", todo[p] \ {added[p]})
  /\ UNCHANGED <<doc, members, title, crashes>>

EndUpsert(p) ==
  /\ phase[p] = "add" /\ todo[p] = {}
  /\ Continue(p, "idle", {})
  /\ UNCHANGED <<doc, members, setTtl, title, crashes>>

-----------------------------------------------------------------------------
\* A process dies or a command of it fails: it goes no further.
Crash(p) ==
  /\ phase[p] # "idle" /\ crashes < MaxCrashes
  /\ crashes' = crashes + 1
  /\ Continue(p, "idle", {})
  /\ Retitle(p, {})
  /\ UNCHANGED <<doc, members, setTtl>>

\* Other titles share the sets: they renew them, and leave those without ours.
OtherTitles ==
  /\ \E t \in Token : \/ setTtl' = [setTtl EXCEPT ![t] = IndexTtl]
                      \/ t \notin members /\ setTtl' = [setTtl EXCEPT ![t] = 0]
  /\ UNCHANGED <<doc, members, phase, todo, title, added, crashes>>

Older(n) == IF n = NoExpiry THEN NoExpiry ELSE IF n = 0 THEN 0 ELSE n - 1

\* A slip: SET in place of SETEX, a document that Redis never drops.
TickKeepingDocument ==
  /\ RedisPrompt => \A p \in Process : phase[p] # "expire"
  /\ setTtl' = [t \in Token |-> Older(setTtl[t])]
  /\ members' = {t \in members : Older(setTtl[t]) # 0}
  /\ UNCHANGED <<doc, phase, todo, title, added, crashes>>

Tick ==
  /\ RedisPrompt => \A p \in Process : phase[p] # "expire"
  /\ doc' = IF doc = NoDoc \/ doc.ttl = 1 THEN NoDoc ELSE [doc EXCEPT !.ttl = @ - 1]
  /\ setTtl' = [t \in Token |-> Older(setTtl[t])]
  /\ members' = {t \in members : Older(setTtl[t]) # 0}
  /\ UNCHANGED <<phase, todo, title, added, crashes>>

Proceed(p) ==
  \/ RemoveFromSet(p) \/ WriteDocument(p) \/ DeleteDocument(p)
  \/ AddToSet(p) \/ ExpireSet(p) \/ EndUpsert(p)

Next ==
  \/ \E p \in Process : BeginUpsert(p) \/ BeginCleanup(p) \/ Proceed(p) \/ Crash(p)
  \/ OtherTitles
  \/ Tick

\* Redis answers each command a process sends, and time passes.
Fairness == (\A p \in Process : WF_vars(Proceed(p))) /\ SF_vars(Tick)

Spec == Init /\ [][Next]_vars /\ Fairness

-----------------------------------------------------------------------------
\* Somebody is going to put t right: it will overwrite or delete the document,
\* or has yet to add the title to the set of t.
WillAdd(p, t) == phase[p] \in Adding /\ t \in todo[p] /\ added[p] # t
WillRewrite(p) == phase[p] \in Rewriting

\* "indexes lookup snapshots for deterministic local search"
\* (tests/adapters/redis-media-snapshot-store.test.ts:191): when no upsert or
\* cleanup is half way, every token of the document finds it; whatever the
\* order the commands of concurrent ones took, if none of them failed.
DocumentIsListed ==
  doc # NoDoc /\ crashes = 0 =>
    \A t \in doc.tokens :
      \/ t \in members
      \/ \E p \in Process : WillAdd(p, t) \/ WillRewrite(p)

\* A document does not outlive the sets it is listed in: a set expires before
\* it only while some process has yet to renew it.
SetOutlivesDocument ==
  doc # NoDoc /\ crashes = 0 =>
    \A t \in doc.tokens \cap members :
      \/ setTtl[t] = NoExpiry
      \/ setTtl[t] >= doc.ttl
      \/ \E p \in Process : WillRewrite(p) \/ (phase[p] \in Adding /\ t \in todo[p])

\* A set without an expiry is about to get one, unless a process died between
\* its SADD and its EXPIRE.
ImmortalSetIsRepaired ==
  \A t \in Token :
    setTtl[t] = NoExpiry =>
      crashes > 0 \/ \E p \in Process : phase[p] = "expire" /\ added[p] = t

\* An upsert that died after its removals leaves a document that searches by
\* some token miss, but not for good: it expires or is rewritten.
IndexHeals ==
  \A t \in Token :
    (doc # NoDoc /\ t \in Read \ members) ~> (t \notin Read \/ t \in members)
=============================================================================
