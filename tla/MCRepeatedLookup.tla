-------------------------- MODULE MCRepeatedLookup --------------------------
(***************************************************************************)
(* Providers below the cache: every lookup of one TV show, by tmdbId, is a *)
(* read of what the last call has had stored, and a call if the read finds *)
(* nothing.  Nothing expires here.                                         *)
(***************************************************************************)
EXTENDS Providers

VARIABLE kept   \* the record putSnapshot has stored for the title

keptVars == <<vars, kept>>

Begins == ~ Running /\ result' = "running"

\* readLookupPointer: a record the schema refuses is deleted, and the read a miss.
Readable == {record \in kept : CachedMediaRecordSchema(record)}

KeptInit == Init /\ kept = {}

KeptNext ==
  /\ Next
  /\ Begins => asked' = [kind |-> "tv", by |-> "tmdbId"] /\ Readable = {}
  /\ kept' = IF Begins THEN Readable
             ELSE IF Running /\ result' = "record" THEN found' ELSE kept

KeptSpec == KeptInit /\ [][KeptNext]_keptVars

\* "hits the TV provider only once on repeated lookup because cache is used"
\* (tests/routes/media-routes.test.ts:598): no call of the provider begins while
\* what an earlier one has found is stored.
ProviderIsHitOnce == [][Begins => kept = {}]_keptVars
=============================================================================
