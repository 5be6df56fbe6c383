----------------------------- MODULE Freshness -----------------------------
(***************************************************************************)
(* The life of a media record, as media-lookup-helpers.ts computes it: a   *)
(* record is fresh for its TTL, may then be served stale for a window, and *)
(* is of no use afterwards.  An instant is an integer; Second is the       *)
(* number of instants in a second (1000 in the code: Date.getTime).        *)
(***************************************************************************)
EXTENDS Integers

CONSTANTS Second,             \* instants per second
          RecordTtl,          \* MOVIE_ / TV_CACHE_TTL_SECONDS
          StaleServeWindow,   \* MEDIA_STALE_SERVE_WINDOW_SECONDS
          CanonicalRecordTtl  \* CANONICAL_RECORD_TTL_SECONDS

ASSUME SecondAssumption == Second \in Nat \ {0}

\* What loadConfig accepts: positive TTLs, and a canonical record that lives
\* at least as long as it may be served.
LoadConfigAccepts ==
  /\ RecordTtl \in Nat \ {0}
  /\ StaleServeWindow \in Nat \ {0}
  /\ CanonicalRecordTtl \in Nat
  /\ CanonicalRecordTtl >= RecordTtl + StaleServeWindow

ASSUME ConfigAssumption == LoadConfigAccepts

FreshnessState == {"fresh", "stale_but_servable", "expired"}

ComputeFreshness(now) ==
  LET staleAt == now + RecordTtl * Second
  IN  [lastFetchedAt   |-> now,
       staleAfter      |-> staleAt,
       refreshAfter    |-> now + ((RecordTtl * 3) \div 4) * Second,
       serveStaleUntil |-> staleAt + StaleServeWindow * Second]

IsRecordFresh(now, freshness) == freshness.staleAfter > now

IsRecordStaleButServable(now, freshness) ==
  /\ freshness.staleAfter <= now
  /\ freshness.serveStaleUntil > now

ShouldRefreshRecord(now, freshness) == freshness.refreshAfter <= now

\* The classification every reader of a stored record makes.
LookupState(now, freshness) ==
  CASE IsRecordFresh(now, freshness)            -> "fresh"
    [] IsRecordStaleButServable(now, freshness) -> "stale_but_servable"
    [] OTHER                                    -> "expired"

\* A record is written with SETEX canonicalRecordTtlSeconds at some instant
\* from its normalisation on; Redis holds it until then.
HeldByRedisUntil(writtenAt) == writtenAt + CanonicalRecordTtl * Second

-----------------------------------------------------------------------------
\* The other modules keep the age of a record, not its dates: a record of age
\* a is one normalised at instant 0 and read at instant a.  Theorem
\* AgeAbstraction of SnapshotStore_proofs says that this loses nothing.
StateAtAge(age) == LookupState(age, ComputeFreshness(0))
ServableFor == (RecordTtl + StaleServeWindow) * Second
=============================================================================
