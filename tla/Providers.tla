----------------------------- MODULE Providers -----------------------------
(***************************************************************************)
(* A call of the metadata provider port: the TMDB provider alone, or the   *)
(* composite of TMDB and IMDb.  A call is made of exchanges, each with an  *)
(* AbortController and a timer of its own; the two exchanges of a TV show  *)
(* looked up by tmdbId run side by side.  Calls share no state, so one at  *)
(* a time is modelled; an exchange that a call has stopped waiting for     *)
(* goes on until it settles.                                               *)
(*                                                                         *)
(* Of a title's data the model keeps what the code tells apart: its kind,  *)
(* its imdbId, whose rating it has, and a description that stands for the  *)
(* strings that are copied as they come.  What a response holds is chosen  *)
(* when the code looks at it.                                              *)
(***************************************************************************)
EXTENDS Integers

CONSTANTS TmdbTimeout,   \* TMDB_TIMEOUT_MS, in ticks
          ImdbTimeout    \* IMDB_TIMEOUT_MS, in ticks

ASSUME ProviderAssumption ==
  /\ TmdbTimeout \in Nat \ {0}
  /\ ImdbTimeout \in Nat \ {0}

Exchange == {"find", "details", "externalIds", "search", "imdb"}
Kind == {"movie", "tv"}
String == {"absent", "empty", "text"}     \* an optional string of a response
RatedBy == {"none", "tmdb", "imdb"}

Call == [kind : Kind, by : {"mediaId", "tmdbId", "imdbId"}]
          \cup [kind : Kind \cup {"multi"}, by : {"search"}]
Record == [source : {"tmdb", "imdb"}, kind : Kind, imdbId : String,
           description : String, rating : RatedBy, refs : SUBSET {"tmdb", "imdb"}]
Item == [kind : Kind, description : String]

VARIABLES
  composite,  \* whether IMDb is configured
  asked,      \* the call in progress, or the last one
  open,       \* exchanges that have not settled
  timer,      \* ticks to the abort of each open exchange
  found,      \* the record, or the items, the call has so far
  result,     \* of the call
  elapsed,    \* ticks the call has taken
  denied,     \* history: providers that have said they do not know the title
  failed      \* history: exchanges of the call that failed while it ran

vars == <<composite, asked, open, timer, found, result, elapsed, denied, failed>>

Errors == {"unavailable", "invalid"}   \* ProviderUnavailableError, ZodError
Results == {"idle", "running", "record", "items", "notFound"} \cup Errors

Longest == 2 * TmdbTimeout + ImdbTimeout
Timeout(x) == IF x = "imdb" THEN ImdbTimeout ELSE TmdbTimeout

TypeOK ==
  /\ composite \in BOOLEAN
  /\ asked \in Call
  /\ open \subseteq Exchange
  /\ timer \in [Exchange -> Nat]
  /\ \A x \in open : timer[x] <= Timeout(x)
  /\ found \subseteq Record \cup Item
  /\ result \in Results
  /\ elapsed \in Nat
  /\ denied \subseteq {"tmdb", "imdb"}
  /\ failed \subseteq Exchange

-----------------------------------------------------------------------------
\* The normalisation of what a provider has answered.

\* toMovieRecord: strings are copied unless undefined; imdb_id only if truthy.
ToMovieRecord(imdb_id, overview, rated) ==
  [source |-> "tmdb", kind |-> "movie",
   imdbId |-> IF imdb_id = "text" THEN "text" ELSE "absent",
   description |-> overview, rating |-> IF rated THEN "tmdb" ELSE "none",
   refs |-> {"tmdb"}]

\* toTvRecord: the imdbId is given by the caller and copied unless undefined.
ToTvRecord(imdbId, overview, rated) ==
  [source |-> "tmdb", kind |-> "tv", imdbId |-> imdbId,
   description |-> overview, rating |-> IF rated THEN "tmdb" ELSE "none",
   refs |-> {"tmdb"}]

\* buildFallbackRecord: the schema of IMDb's answers refuses empty strings.
BuildFallbackRecord(kind, plot, rated) ==
  [source |-> "imdb", kind |-> kind, imdbId |-> "text",
   description |-> plot, rating |-> IF rated THEN "imdb" ELSE "none",
   refs |-> {"imdb"}]

\* A slip: whatever IMDb has replaces what TMDB has.
EnrichAll(record, rated) ==
  [record EXCEPT !.rating = IF rated THEN "imdb" ELSE @,
                 !.source = "imdb",
                 !.refs = (@ \ {"imdb"}) \cup {"imdb"}]

\* enrichTmdbRecord and mergeProviderRefs, for an IMDb title that was found.
EnrichTmdbRecord(record, rated) ==
  [record EXCEPT !.rating = IF rated THEN "imdb" ELSE @,
                 !.refs = (@ \ {"imdb"}) \cup {"imdb"}]

\* What cachedMediaRecordSchema asks of a record read back from Redis: no string of
\* it is empty.
CachedMediaRecordSchema(record) ==
  record.description # "empty" /\ record.imdbId # "empty"

-----------------------------------------------------------------------------
Init ==
  /\ composite \in BOOLEAN     \* createMetadataProvider: config.imdb is set or not
  /\ asked = [kind |-> "movie", by |-> "mediaId"]
  /\ open = {}
  /\ timer = [x \in Exchange |-> 0]
  /\ found = {}
  /\ result = "idle"
  /\ elapsed = 0
  /\ denied = {}
  /\ failed = {}

Running == result = "running"

\* The exchanges a call begins with.
FirstExchanges(call) ==
  CASE call.by = "search"  -> {"search"}
    [] call.by = "imdbId"  -> {"find"}
    [] call.by = "mediaId" -> {}
    [] call.by = "tmdbId"  -> IF call.kind = "tv" THEN {"details", "externalIds"}
                                                  ELSE {"details"}

Begin(call) ==
  /\ ~ Running
  /\ open = {}
  /\ asked' = call
  /\ open' = FirstExchanges(call)
  /\ timer' = [x \in Exchange |-> IF x \in open' THEN Timeout(x) ELSE 0]
  /\ result' = "running"
  /\ found' = {} /\ elapsed' = 0 /\ denied' = {} /\ failed' = {}
  /\ UNCHANGED composite

\* Exchange x has settled; the next one, if any, gets a timer of its own.
Settle(x) ==
  /\ open' = open \ {x}
  /\ UNCHANGED timer

SettleAndAsk(x, next) ==
  /\ open' = (open \ {x}) \cup {next}
  /\ timer' = [timer EXCEPT ![next] = Timeout(next)]

Return(outcome, what) ==
  /\ result' = outcome
  /\ found' = what

-----------------------------------------------------------------------------
\* The composite provider, when TMDB has answered a record or null; without IMDb
\* TMDB's answer is the call's.
TmdbHas(x, record) ==
  /\ IF composite /\ record.imdbId # "absent"
     THEN SettleAndAsk(x, "imdb") /\ found' = {record} /\ UNCHANGED result
     ELSE Settle(x) /\ Return("record", {record})
  /\ UNCHANGED denied

TmdbHasNot(x) ==
  /\ denied' = denied \cup {"tmdb"}
  /\ IF composite /\ asked.by = "imdbId"
     THEN SettleAndAsk(x, "imdb") /\ UNCHANGED <<found, result>>
     ELSE Settle(x) /\ Return("notFound", {})

\* lookupByIdentifier answers null to a mediaId at once.
MediaIdIsUnknown ==
  /\ Running
  /\ asked.by = "mediaId"
  /\ Return("notFound", {})
  /\ denied' = {"tmdb"}
  /\ UNCHANGED <<composite, asked, open, timer, elapsed, failed>>

Unchanged == UNCHANGED <<composite, asked, elapsed, failed>>

\* fetchTmdbFind, and the choice of the first match of the kind.
FindAnswers ==
  /\ Running
  /\ "find" \in open
  /\ \/ TmdbHasNot("find")
     \/ SettleAndAsk("find", "details") /\ UNCHANGED <<found, result, denied>>
  /\ Unchanged

\* fetchTmdb: 404, or the details of a movie.
MovieDetailsAnswer ==
  /\ Running
  /\ asked.kind = "movie" /\ "details" \in open
  /\ \/ TmdbHasNot("details")
     \/ \E imdb_id, overview \in String, rated \in BOOLEAN :
          TmdbHas("details", ToMovieRecord(imdb_id, overview, rated))
  /\ Unchanged

\* lookupTvByImdbId, fetchTmdbTv: the imdbId asked for is the record's.
TvDetailsAnswer ==
  /\ Running
  /\ asked.kind = "tv" /\ asked.by = "imdbId" /\ "details" \in open
  /\ \/ TmdbHasNot("details")
     \/ \E overview \in String, rated \in BOOLEAN :
          TmdbHas("details", ToTvRecord("text", overview, rated))
  /\ Unchanged

\* lookupTvByTmdbId: Promise.all waits for both answers, of which either may be a
\* 404; only that of the details makes the call answer null.
TvPartAnswers(x) ==
  /\ Running
  /\ asked.kind = "tv" /\ asked.by = "tmdbId" /\ x \in open
  /\ \/ open # {x} /\ Settle(x) /\ UNCHANGED <<found, result, denied>>
     \/ open = {x} /\ TmdbHasNot(x)
     \/ open = {x} /\ \E imdbId, overview \in String, rated \in BOOLEAN :
          TmdbHas(x, ToTvRecord(imdbId, overview, rated))
  /\ Unchanged

\* inferMediaKind
InferMediaKind(canHaveEpisodes, typeSaysTv) ==
  IF canHaveEpisodes \/ typeSaysTv THEN "tv" ELSE "movie"

\* lookupByImdbId has found nothing, or a title of the other kind.
ImdbHasNot ==
  /\ denied' = denied \cup {"imdb"}
  /\ Settle("imdb")
  /\ IF found = {} THEN Return("notFound", {}) ELSE Return("record", found)

ImdbHas(plot, rated) ==
  /\ Settle("imdb")
  /\ IF found = {}
     THEN Return("record", {BuildFallbackRecord(asked.kind, plot, rated)})
     ELSE Return("record", {EnrichTmdbRecord(record, rated) : record \in found})
  /\ UNCHANGED denied

ImdbAnswers ==
  /\ Running
  /\ "imdb" \in open
  /\ \/ ImdbHasNot
     \/ \E canHaveEpisodes, typeSaysTv, rated \in BOOLEAN, plot \in {"absent", "text"} :
          IF InferMediaKind(canHaveEpisodes, typeSaysTv) = asked.kind
          THEN ImdbHas(plot, rated) ELSE ImdbHasNot
  /\ Unchanged

\* What is left of a response.  A person, or a title that does not have a title's
\* fields, is dropped from a mixed search, and makes the schema of the other two
\* refuse the response (ExchangeFails).
SearchResults(kind) ==
  {items \in SUBSET Item : kind # "multi" => \A item \in items : item.kind = kind}

\* search: fetchSearch and the mapping of the results.
SearchAnswers ==
  /\ Running
  /\ "search" \in open
  /\ Settle("search")
  /\ \E items \in SearchResults(asked.kind) : Return("items", items)
  /\ UNCHANGED denied
  /\ Unchanged

-----------------------------------------------------------------------------
\* A slip: a find that fails is taken for a find without matches.
ExchangeFailsQuietly(x) ==
  /\ Running
  /\ x \in open
  /\ failed' = failed \cup {x}
  /\ IF x = "find" THEN TmdbHasNot(x)
     ELSE Settle(x) /\ Return("unavailable", {}) /\ UNCHANGED denied
  /\ UNCHANGED <<composite, asked, elapsed>>

\* An exchange fails: it does not get through, it is aborted at its timeout, its
\* status is not ok, or its body is not what the schema expects.  The call throws
\* at once, even if the other exchange of a TV show is still open.
ExchangeFails(x) ==
  /\ Running
  /\ x \in open
  /\ failed' = failed \cup {x}
  /\ Settle(x)
  /\ Return("unavailable", {})
  /\ UNCHANGED <<composite, asked, elapsed, denied>>

\* The schema of IMDb's titles is applied outside the client's try: its ZodError
\* leaves the call as it is.
ImdbPayloadIsInvalid ==
  /\ Running
  /\ "imdb" \in open
  /\ failed' = failed \cup {"imdb"}
  /\ Settle("imdb")
  /\ Return("invalid", {})
  /\ UNCHANGED <<composite, asked, elapsed, denied>>

\* An exchange nobody waits for any more: answered, failed or aborted.
LateExchangeSettles(x) ==
  /\ ~ Running
  /\ x \in open
  /\ Settle(x)
  /\ UNCHANGED <<composite, asked, found, result, elapsed, denied, failed>>

\* A slip: a fetch without an AbortController; a response may never come.
TickUnaborted ==
  /\ open # {}
  /\ elapsed <= Longest   \* bound
  /\ timer' = [x \in Exchange |-> IF x \in open THEN timer[x] - 1 ELSE timer[x]]
  /\ elapsed' = IF Running THEN elapsed + 1 ELSE elapsed
  /\ UNCHANGED <<composite, asked, open, found, result, denied, failed>>

\* Time passes; no exchange outlives its timer.
Tick ==
  /\ open # {}
  /\ \A x \in open : timer[x] > 0
  /\ timer' = [x \in Exchange |-> IF x \in open THEN timer[x] - 1 ELSE timer[x]]
  /\ elapsed' = IF Running THEN elapsed + 1 ELSE elapsed
  /\ UNCHANGED <<composite, asked, open, found, result, denied, failed>>

\* A slip: the throw of one exchange of a TV show clears the timer of the other.
AbortWhileAwaited(x) == timer[x] = 0 /\ ExchangeFails(x)

\* The abort settles each exchange when its time is up.
Abort(x) == timer[x] = 0 /\ (ExchangeFails(x) \/ LateExchangeSettles(x))

Next ==
  \/ \E call \in Call : Begin(call)
  \/ MediaIdIsUnknown
  \/ FindAnswers \/ MovieDetailsAnswer \/ TvDetailsAnswer
  \/ TvPartAnswers("details") \/ TvPartAnswers("externalIds")
  \/ SearchAnswers \/ ImdbAnswers \/ ImdbPayloadIsInvalid
  \/ \E x \in Exchange : ExchangeFails(x) \/ LateExchangeSettles(x)
  \/ Tick

\* Time passes, and at the end of its timer an exchange is aborted.  That a
\* provider answers is not supposed.
Fairness ==
  /\ WF_vars(Tick)
  /\ WF_vars(MediaIdIsUnknown)
  /\ \A x \in Exchange : WF_vars(Abort(x))

Spec == Init /\ [][Next]_vars /\ Fairness

-----------------------------------------------------------------------------
\* "Provider timeouts and retries are explicit and bounded"
\* (.ai/16-integration-rules.md:18): seen from outside, a call with its up to three
\* exchanges, one after the other, is one that ends within two TMDB timeouts and
\* an IMDb timeout.  This is what MediaLookup takes for granted of its provider.
AsCall == INSTANCE ProviderCall WITH
  Within <- Longest,
  left   <- IF Running THEN Longest - elapsed ELSE 0,
  result <- CASE result \in {"record", "items"} -> "found"
              [] result \in Errors -> "failed"
              [] OTHER -> result

CallEndsInTime == AsCall!Spec

\* A failure is never taken for an absence, and IMDb never stands in for a TMDB that
\* could not be asked: a call whose exchange failed ends with an error; "not found"
\* is said only if each provider there is to ask has said so; IMDb's record is given
\* only if TMDB has none (README.md:33).
AnswersAreEarned ==
  /\ failed # {} => result \in Errors
  /\ result = "notFound" =>
       denied = IF composite /\ asked.by = "imdbId" THEN {"tmdb", "imdb"} ELSE {"tmdb"}
  /\ result = "record" =>
       \A record \in found : record.source = "imdb" <=> "tmdb" \in denied

\* "IMDb overrides rating only" (README.md:32): once TMDB has a record, IMDb, whatever
\* it answers, can turn the call into an error, but neither lose the record nor
\* change what it is stored under and says.
OnlyRatingIsOverridden ==
  [][\A record \in found \cap Record :
       Running /\ result' \notin Errors =>
         \E after \in found' :
           after = [record EXCEPT !.rating = after.rating, !.refs = after.refs]]_vars

\* No exchange stays open, not even one whose call has long thrown.
ExchangesEnd == \A x \in Exchange : x \in open ~> x \notin open
=============================================================================
