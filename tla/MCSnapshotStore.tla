-------------------------- MODULE MCSnapshotStore --------------------------
EXTENDS SnapshotStore, TLC

CONSTANTS tmdbRecord, imdbRecord, imdbId, tmdbId

\* A title's TMDB record and the record of its IMDb fallback; their mediaIds
\* are like the tmdbId here, identifiers that only one record has.
TwoRecords == (tmdbRecord :> <<tmdbId, imdbId>>) @@ (imdbRecord :> <<imdbId>>)

Processes == Permutations(Process)
=============================================================================
