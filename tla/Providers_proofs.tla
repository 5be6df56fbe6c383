-------------------------- MODULE Providers_proofs --------------------------
(***************************************************************************)
(* What holds of a provider call for every pair of timeouts: its end in    *)
(* time, and what its answers are worth.                                   *)
(***************************************************************************)
EXTENDS Providers, TLAPS

ByName == asked.by \in {"tmdbId", "imdbId"}

\* Which exchanges a running call may have open, and what it knows by then.
Stage ==
  /\ open = {} => asked.by = "mediaId"
  /\ "search" \in open => open = {"search"} /\ asked.by = "search"
  /\ "find" \in open => open = {"find"} /\ asked.by = "imdbId"
  /\ "details" \in open => open \subseteq {"details", "externalIds"} /\ ByName
  /\ "externalIds" \in open =>
       open \subseteq {"details", "externalIds"} /\ asked.by = "tmdbId" /\ asked.kind = "tv"
  /\ "imdb" \in open => open = {"imdb"} /\ composite /\ ByName
  /\ "imdb" \notin open => found = {} /\ denied = {}
  /\ "imdb" \in open /\ found = {} => asked.by = "imdbId" /\ denied = {"tmdb"}
  /\ found # {} => denied = {}

\* A record that is being enriched is TMDB's.
TmdbFound ==
  \A record \in found :
    /\ record \in Record
    /\ record.source = "tmdb"

\* The latest end of an exchange, counted from the beginning of the call.
Latest(x) == CASE x = "find" -> TmdbTimeout
               [] x = "imdb" -> Longest
               [] OTHER -> 2 * TmdbTimeout

OnTime == \A x \in open : elapsed + timer[x] <= Latest(x)

CallInv ==
  /\ TypeOK
  /\ Running => Stage /\ TmdbFound /\ OnTime /\ elapsed <= Longest /\ failed = {}
  /\ AnswersAreEarned

LEMMA InitInv == Init => CallInv
  BY ProviderAssumption
  DEF Init, CallInv, TypeOK, Call, Exchange, Kind, Results, Errors, Running,
      AnswersAreEarned

\* Each way of settling an exchange keeps the invariant; the actions are made of these.
LEMMA TmdbHasInv ==
  ASSUME CallInv, Running, NEW x \in {"details", "externalIds"}, open = {x},
         NEW record \in Record, TmdbHas(x, record), Unchanged,
         record.source = "tmdb"
  PROVE  CallInv'
<1> USE ProviderAssumption DEF CallInv, TypeOK, Running, Unchanged, Exchange, Timeout
<1>1. CASE composite /\ record.imdbId # "absent"
  <2>1. /\ open' = {"imdb"} /\ found' = {record} /\ UNCHANGED <<result, denied>>
        /\ timer' = [timer EXCEPT !["imdb"] = ImdbTimeout]
    BY <1>1 DEF TmdbHas, SettleAndAsk
  <2>2. TypeOK'
    BY <2>1
  <2>3. elapsed <= 2 * TmdbTimeout
    BY DEF OnTime, Latest
  <2>4. OnTime' /\ (elapsed <= Longest)'
    BY <2>1, <2>3 DEF OnTime, Latest, Longest
  <2>5. Stage' /\ TmdbFound'
    BY <1>1, <2>1 DEF Stage, TmdbFound, ByName
  <2>6. AnswersAreEarned'
    BY <2>1 DEF AnswersAreEarned, Errors
  <2>7. QED
    BY <2>1, <2>2, <2>4, <2>5, <2>6
<1>2. CASE ~ (composite /\ record.imdbId # "absent")
  <2>1. /\ open' = {} /\ found' = {record} /\ result' = "record"
        /\ UNCHANGED <<timer, denied>>
    BY <1>2 DEF TmdbHas, Settle, Return
  <2>2. TypeOK'
    BY <2>1 DEF Results
  <2>3. AnswersAreEarned'
    BY <2>1 DEF AnswersAreEarned, Stage
  <2>4. QED
    BY <2>1, <2>2, <2>3
<1>3. QED
  BY <1>1, <1>2

LEMMA TmdbHasNotInv ==
  ASSUME CallInv, Running, NEW x \in {"find", "details", "externalIds"}, open = {x},
         TmdbHasNot(x), Unchanged
  PROVE  CallInv'
<1> USE ProviderAssumption DEF CallInv, TypeOK, Running, Unchanged, Exchange, Timeout
<1>0. found = {} /\ denied = {} /\ denied' = {"tmdb"}
  BY DEF Stage, TmdbHasNot
<1>1. CASE composite /\ asked.by = "imdbId"
  <2>1. /\ open' = {"imdb"} /\ UNCHANGED <<result, found>>
        /\ timer' = [timer EXCEPT !["imdb"] = ImdbTimeout]
    BY <1>1 DEF TmdbHasNot, SettleAndAsk
  <2>2. TypeOK'
    BY <1>0, <2>1
  <2>3. elapsed <= 2 * TmdbTimeout
    BY DEF OnTime, Latest
  <2>4. OnTime' /\ (elapsed <= Longest)'
    BY <2>1, <2>3 DEF OnTime, Latest, Longest
  <2>5. Stage' /\ TmdbFound'
    BY <1>0, <1>1, <2>1 DEF Stage, TmdbFound, ByName
  <2>6. AnswersAreEarned'
    BY <2>1 DEF AnswersAreEarned
  <2>7. QED
    BY <2>1, <2>2, <2>4, <2>5, <2>6
<1>2. CASE ~ (composite /\ asked.by = "imdbId")
  <2>1. /\ open' = {} /\ found' = {} /\ result' = "notFound" /\ UNCHANGED timer
    BY <1>2 DEF TmdbHasNot, Settle, Return
  <2>2. TypeOK'
    BY <1>0, <2>1 DEF Results
  <2>3. AnswersAreEarned'
    BY <1>0, <1>2, <2>1 DEF AnswersAreEarned, Stage
  <2>4. QED
    BY <2>1, <2>2, <2>3
<1>3. QED
  BY <1>1, <1>2

LEMMA ImdbHasNotInv ==
  ASSUME CallInv, Running, "imdb" \in open, ImdbHasNot, Unchanged
  PROVE  CallInv'
<1> USE ProviderAssumption DEF CallInv, TypeOK, Running, Unchanged, Exchange, Timeout,
        ImdbHasNot, Settle, Return
<1>1. open = {"imdb"} /\ open' = {} /\ UNCHANGED timer /\ composite
  BY DEF Stage
<1>2. CASE found = {}
  <2>1. found' = {} /\ result' = "notFound" /\ denied' = {"tmdb", "imdb"}
    BY <1>1, <1>2 DEF Stage
  <2>2. AnswersAreEarned'
    BY <1>1, <1>2, <2>1 DEF AnswersAreEarned, Stage
  <2>3. QED
    BY <1>1, <2>1, <2>2 DEF Results
<1>3. CASE found # {}
  <2>1. found' = found /\ result' = "record" /\ denied' = {"imdb"}
    BY <1>1, <1>3 DEF Stage
  <2>2. AnswersAreEarned'
    BY <2>1 DEF AnswersAreEarned, TmdbFound
  <2>3. QED
    BY <1>1, <2>1, <2>2 DEF Results
<1>4. QED
  BY <1>2, <1>3

LEMMA ImdbHasInv ==
  ASSUME CallInv, Running, "imdb" \in open, asked.kind \in Kind,
         NEW plot \in {"absent", "text"}, NEW rated \in BOOLEAN,
         ImdbHas(plot, rated), Unchanged
  PROVE  CallInv'
<1> USE ProviderAssumption DEF CallInv, TypeOK, Running, Unchanged, Exchange, Timeout,
        ImdbHas, Settle, Return
<1>1. /\ open = {"imdb"} /\ open' = {} /\ UNCHANGED <<timer, denied>>
      /\ result' = "record"
  BY DEF Stage
<1>2. CASE found = {}
  <2>1. found' = {BuildFallbackRecord(asked.kind, plot, rated)} /\ denied' = {"tmdb"}
    BY <1>1, <1>2 DEF Stage
  <2>2. /\ BuildFallbackRecord(asked.kind, plot, rated) \in Record
        /\ BuildFallbackRecord(asked.kind, plot, rated).source = "imdb"
    BY DEF BuildFallbackRecord, Record, String, RatedBy
  <2>3. AnswersAreEarned'
    BY <1>1, <2>1, <2>2 DEF AnswersAreEarned
  <2>4. QED
    BY <1>1, <2>1, <2>2, <2>3 DEF Results
<1>3. CASE found # {}
  <2>1. found' = {EnrichTmdbRecord(record, rated) : record \in found} /\ denied' = {}
    BY <1>1, <1>3 DEF Stage
  <2>2. \A record \in found :
          /\ EnrichTmdbRecord(record, rated) \in Record
          /\ EnrichTmdbRecord(record, rated).source = record.source
    <3> SUFFICES ASSUME NEW record \in found
                 PROVE  /\ EnrichTmdbRecord(record, rated) \in Record
                        /\ EnrichTmdbRecord(record, rated).source = record.source
      OBVIOUS
    <3>1. record \in Record
      BY DEF TmdbFound
    <3>2. (record.refs \ {"imdb"}) \cup {"imdb"} \in SUBSET {"tmdb", "imdb"}
      BY <3>1 DEF Record
    <3>3. QED
      BY <3>1, <3>2 DEF EnrichTmdbRecord, Record, RatedBy
  <2>3. AnswersAreEarned'
    BY <1>1, <2>1, <2>2 DEF AnswersAreEarned, TmdbFound
  <2>4. QED
    BY <1>1, <2>1, <2>2, <2>3 DEF Results
<1>4. QED
  BY <1>2, <1>3

\* An error can come at any time: nothing is said about the title.
LEMMA ErrorInv ==
  ASSUME CallInv, NEW x \in open, NEW e \in Errors, Settle(x), Return(e, {}),
         UNCHANGED <<composite, asked, elapsed, denied>>,
         failed' = failed \cup {x}
  PROVE  CallInv'
  BY DEF CallInv, TypeOK, Settle, Return, Running, Errors, Results, Exchange, Timeout,
         AnswersAreEarned

LEMMA BeginInv ==
  ASSUME CallInv, NEW call \in Call, Begin(call)
  PROVE  CallInv'
<1> USE ProviderAssumption DEF CallInv, TypeOK, Running, Exchange, Timeout, Begin
<1>1. call.by \in {"mediaId", "tmdbId", "imdbId", "search"}
  BY DEF Call
<1>2. /\ call.by = "mediaId" => open' = {}
      /\ call.by = "search" => open' = {"search"}
      /\ call.by = "imdbId" => open' = {"find"}
      /\ call.by = "tmdbId" =>
           open' = IF call.kind = "tv" THEN {"details", "externalIds"} ELSE {"details"}
  BY DEF FirstExchanges
<1>3. TypeOK'
  BY <1>1, <1>2 DEF Results
<1>4. Stage' /\ TmdbFound'
  BY <1>1, <1>2 DEF Stage, TmdbFound, ByName
<1>5. OnTime' /\ (elapsed <= Longest)'
  BY <1>1, <1>2 DEF OnTime, Latest, Longest
<1>6. AnswersAreEarned'
  BY DEF AnswersAreEarned
<1>7. QED
  BY <1>3, <1>4, <1>5, <1>6

LEMMA TickInv == ASSUME CallInv, Tick PROVE CallInv'
<1> USE ProviderAssumption DEF CallInv, TypeOK, Running, Exchange, Timeout, Tick
<1>1. TypeOK'
  OBVIOUS
<1>2. CASE Running
  <2>1. Stage' /\ TmdbFound'
    BY <1>2 DEF Stage, TmdbFound, ByName
  <2>2. OnTime'
    BY <1>2 DEF OnTime, Latest
  <2>3. \A x \in open : Latest(x) <= Longest
    BY DEF Latest, Longest
  <2>4. (elapsed <= Longest)'
    BY <1>2, <2>3 DEF OnTime, Latest, Longest
  <2>5. AnswersAreEarned'
    BY <1>2 DEF AnswersAreEarned, Errors
  <2>6. QED
    BY <1>1, <1>2, <2>1, <2>2, <2>4, <2>5
<1>3. CASE ~ Running
  BY <1>1, <1>3 DEF AnswersAreEarned
<1>4. QED
  BY <1>2, <1>3
\* Every step keeps the invariant.  An exchange that is not the only one open is one
\* of the two of a TV show.
LEMMA StepInv == CallInv /\ [Next]_vars => CallInv'
<1> SUFFICES ASSUME CallInv, [Next]_vars PROVE CallInv'
  OBVIOUS
<1> USE ProviderAssumption
<1>0. asked.kind \in Kind \cup {"multi"} /\ (asked.by # "search" => asked.kind \in Kind)
  BY DEF CallInv, TypeOK, Call
<1>1. CASE \E call \in Call : Begin(call)
  BY <1>1, BeginInv
<1>2. CASE MediaIdIsUnknown
  <2>1. open = {}
    BY <1>2 DEF MediaIdIsUnknown, CallInv, Stage, ByName, TypeOK, Exchange, Running
  <2>2. QED
    BY <1>2, <2>1 DEF MediaIdIsUnknown, Running, Return, CallInv, TypeOK, Results,
       AnswersAreEarned
<1>3. CASE FindAnswers
  <2>0. Running /\ Unchanged /\ "find" \in open
    BY <1>3 DEF FindAnswers
  <2>1. open = {"find"} /\ asked.by = "imdbId" /\ found = {} /\ denied = {}
    BY <2>0 DEF CallInv, Stage
  <2>2. CASE TmdbHasNot("find")
    BY <2>0, <2>1, <2>2, TmdbHasNotInv
  <2>3. CASE SettleAndAsk("find", "details") /\ UNCHANGED <<found, result, denied>>
    <3>1. open' = {"details"} /\ timer' = [timer EXCEPT !["details"] = TmdbTimeout]
      BY <2>1, <2>3 DEF SettleAndAsk, Timeout
    <3>2. UNCHANGED <<found, result, denied, composite, asked, elapsed, failed>>
      BY <2>0, <2>3 DEF Unchanged
    <3>3. TypeOK'
      BY <3>1, <3>2 DEF CallInv, TypeOK, Exchange, Timeout
    <3>4. elapsed <= TmdbTimeout /\ elapsed \in Nat /\ timer["find"] \in Nat
      BY <2>0, <2>1 DEF CallInv, OnTime, Latest, TypeOK, Exchange
    <3>5. OnTime' /\ (elapsed <= Longest)'
      BY <3>1, <3>2, <3>4 DEF OnTime, Latest, Longest, CallInv, TypeOK, Exchange
    <3>6. Stage' /\ TmdbFound' /\ failed' = {}
      BY <2>0, <2>1, <3>1, <3>2 DEF Stage, TmdbFound, ByName, CallInv
    <3>7. AnswersAreEarned'
      BY <3>2, <2>0 DEF CallInv, AnswersAreEarned, Running
    <3>8. QED
      BY <3>3, <3>5, <3>6, <3>7 DEF CallInv
  <2>4. QED
    BY <1>3, <2>2, <2>3 DEF FindAnswers
<1>4. CASE MovieDetailsAnswer
  <2>0. Running /\ Unchanged /\ "details" \in open /\ asked.kind = "movie"
    BY <1>4 DEF MovieDetailsAnswer
  <2>1. open = {"details"}
    BY <2>0 DEF CallInv, Stage
  <2>2. CASE TmdbHasNot("details")
    BY <2>0, <2>1, <2>2, TmdbHasNotInv
  <2>3. ASSUME NEW imdb_id \in String, NEW overview \in String, NEW rated \in BOOLEAN,
               TmdbHas("details", ToMovieRecord(imdb_id, overview, rated))
        PROVE  CallInv'
    <3> DEFINE record == ToMovieRecord(imdb_id, overview, rated)
    <3>1. record \in Record /\ record.source = "tmdb"
      BY DEF ToMovieRecord, Record, String, RatedBy, Kind
    <3> HIDE DEF record
    <3>2. TmdbHas("details", record)
      BY <2>3 DEF record
    <3>3. QED
      BY <2>0, <2>1, <3>1, <3>2, TmdbHasInv
  <2>4. QED
    BY <1>4, <2>2, <2>3 DEF MovieDetailsAnswer
<1>5. CASE TvDetailsAnswer
  <2>0. Running /\ Unchanged /\ "details" \in open /\ asked.kind = "tv" /\ asked.by = "imdbId"
    BY <1>5 DEF TvDetailsAnswer
  <2>1. open = {"details"}
    BY <2>0 DEF CallInv, Stage
  <2>2. CASE TmdbHasNot("details")
    BY <2>0, <2>1, <2>2, TmdbHasNotInv
  <2>3. ASSUME NEW overview \in String, NEW rated \in BOOLEAN,
               TmdbHas("details", ToTvRecord("text", overview, rated))
        PROVE  CallInv'
    <3> DEFINE record == ToTvRecord("text", overview, rated)
    <3>1. record \in Record /\ record.source = "tmdb"
      BY DEF ToTvRecord, Record, String, RatedBy, Kind
    <3> HIDE DEF record
    <3>2. TmdbHas("details", record)
      BY <2>3 DEF record
    <3>3. QED
      BY <2>0, <2>1, <3>1, <3>2, TmdbHasInv
  <2>4. QED
    BY <1>5, <2>2, <2>3 DEF TvDetailsAnswer
<1>6. ASSUME NEW x \in {"details", "externalIds"}, TvPartAnswers(x) PROVE CallInv'
  <2>0. Running /\ Unchanged /\ x \in open /\ asked.kind = "tv" /\ asked.by = "tmdbId"
    BY <1>6 DEF TvPartAnswers
  <2>1. CASE open # {x} /\ Settle(x) /\ UNCHANGED <<found, result, denied>>
    <3>1. /\ open \subseteq {"details", "externalIds"} /\ open' = open \ {x} /\ open' # {}
          /\ found = {} /\ denied = {}
      BY <2>0, <2>1 DEF CallInv, Stage, Settle
    <3>2. UNCHANGED <<timer, found, result, denied, composite, asked, elapsed, failed>>
      BY <2>0, <2>1 DEF Unchanged, Settle
    <3>3. TypeOK' /\ OnTime'
      BY <3>1, <3>2, <2>0 DEF CallInv, TypeOK, OnTime, Latest, Timeout
    <3>4. Stage'
      BY <2>0, <3>1, <3>2 DEF CallInv, Stage, ByName
    <3>5. TmdbFound' /\ AnswersAreEarned'
      BY <2>0, <3>2 DEF CallInv, TmdbFound, AnswersAreEarned
    <3>6. QED
      BY <2>0, <3>2, <3>3, <3>4, <3>5 DEF CallInv, Longest, Running
  <2>2. CASE open = {x} /\ TmdbHasNot(x)
    BY <2>0, <2>2, TmdbHasNotInv
  <2>3. ASSUME open = {x}, NEW imdbId \in String, NEW overview \in String,
               NEW rated \in BOOLEAN, TmdbHas(x, ToTvRecord(imdbId, overview, rated))
        PROVE  CallInv'
    <3> DEFINE record == ToTvRecord(imdbId, overview, rated)
    <3>1. record \in Record /\ record.source = "tmdb"
      BY DEF ToTvRecord, Record, String, RatedBy, Kind
    <3> HIDE DEF record
    <3>2. TmdbHas(x, record)
      BY <2>3 DEF record
    <3>3. QED
      BY <2>0, <2>3, <3>1, <3>2, TmdbHasInv
  <2>4. QED
    BY <1>6, <2>1, <2>2, <2>3 DEF TvPartAnswers
<1>7. CASE SearchAnswers
  <2>0. /\ Running /\ Unchanged /\ "search" \in open /\ open' = open \ {"search"}
        /\ UNCHANGED <<timer, denied>> /\ result' = "items"
    BY <1>7 DEF SearchAnswers, Settle, Return
  <2>1. found' \subseteq Item
    BY <1>7 DEF SearchAnswers, SearchResults, Return
  <2>2. failed = {}
    BY <2>0 DEF CallInv
  <2>3. TypeOK'
    BY <2>0, <2>1 DEF Unchanged, CallInv, TypeOK, Results
  <2>4. AnswersAreEarned'
    BY <2>0, <2>2 DEF Unchanged, AnswersAreEarned
  <2>5. QED
    BY <2>0, <2>3, <2>4 DEF CallInv, Running
<1>8. CASE ImdbAnswers
  <2>0. Running /\ Unchanged /\ "imdb" \in open
    BY <1>8 DEF ImdbAnswers
  <2>1. asked.kind \in Kind
    BY <1>0, <2>0 DEF CallInv, Stage, ByName
  <2>2. CASE ImdbHasNot
    BY <2>0, <2>2, ImdbHasNotInv
  <2>3. ASSUME NEW rated \in BOOLEAN, NEW plot \in {"absent", "text"}, ImdbHas(plot, rated)
        PROVE  CallInv'
    BY <2>0, <2>1, <2>3, ImdbHasInv
  <2>4. QED
    BY <1>8, <2>2, <2>3 DEF ImdbAnswers
<1>9. CASE ImdbPayloadIsInvalid
  <2>1. /\ "imdb" \in open /\ Settle("imdb") /\ Return("invalid", {}) /\ "invalid" \in Errors
        /\ UNCHANGED <<composite, asked, elapsed, denied>> /\ failed' = failed \cup {"imdb"}
    BY <1>9 DEF ImdbPayloadIsInvalid, Errors
  <2>2. QED
    BY <2>1, ErrorInv
<1>10. ASSUME NEW x \in Exchange, ExchangeFails(x) PROVE CallInv'
  <2>1. /\ x \in open /\ Settle(x) /\ Return("unavailable", {}) /\ "unavailable" \in Errors
        /\ UNCHANGED <<composite, asked, elapsed, denied>> /\ failed' = failed \cup {x}
    BY <1>10 DEF ExchangeFails, Errors
  <2>2. QED
    BY <2>1, ErrorInv
<1>11. ASSUME NEW x \in Exchange, LateExchangeSettles(x) PROVE CallInv'
  BY <1>11 DEF LateExchangeSettles, Settle, Running, CallInv, TypeOK, Timeout,
     AnswersAreEarned
<1>12. CASE Tick
  BY <1>12, TickInv
<1>13. CASE UNCHANGED vars
  BY <1>13 DEF vars, CallInv, TypeOK, Running, Stage, ByName, TmdbFound, OnTime, Latest,
     Longest, Timeout, AnswersAreEarned
<1>14. QED
  BY <1>1, <1>2, <1>3, <1>4, <1>5, <1>6, <1>7, <1>8, <1>9, <1>10, <1>11, <1>12, <1>13
  DEF Next

LEMMA Invariance == Init /\ [][Next]_vars => []CallInv
<1>1. Init => CallInv
  BY InitInv
<1>2. CallInv /\ [Next]_vars => CallInv'
  BY StepInv
<1>3. QED
  BY <1>1, <1>2, PTL

-----------------------------------------------------------------------------
\* The state of a provider call stays in its domain: no exchange outlives its timer,
\* whatever the timeouts are.
THEOREM ProviderTypeCorrect == Spec => []TypeOK
<1>1. CallInv => TypeOK
  BY DEF CallInv
<1>2. QED
  BY <1>1, Invariance, PTL DEF Spec

\* A failed exchange is never taken for an absence, "not found" is said only when
\* every provider there is to ask has said it, and IMDb's record is given only for
\* a title TMDB does not have (composite-metadata-provider.ts, lookupByIdentifier).
THEOREM AnswersEarned == Spec => []AnswersAreEarned
<1>1. CallInv => AnswersAreEarned
  BY DEF CallInv
<1>2. QED
  BY <1>1, Invariance, PTL DEF Spec

\* What enrichTmdbRecord does to a record.
LEMMA OnlyRating ==
  ASSUME CallInv, [Next]_vars
  PROVE  [\A record \in found \cap Record :
            Running /\ result' \notin Errors =>
              \E after \in found' :
                after = [record EXCEPT !.rating = after.rating, !.refs = after.refs]]_vars
<1> USE ProviderAssumption
<1> SUFFICES ASSUME NEW record \in found, record \in Record, Running, result' \notin Errors,
                    Next
             PROVE  \E after \in found' :
                      after = [record EXCEPT !.rating = after.rating, !.refs = after.refs]
  OBVIOUS
<1>1. "imdb" \in open /\ open = {"imdb"}
  BY DEF CallInv, Stage
<1>2. record = [record EXCEPT !.rating = record.rating, !.refs = record.refs]
  BY DEF Record
<1>3. CASE ImdbAnswers
  <2>1. CASE ImdbHasNot
    <3>1. found' = found
      BY <2>1 DEF ImdbHasNot, Return
    <3>2. QED
      BY <1>2, <3>1
  <2>2. ASSUME NEW rated \in BOOLEAN, NEW plot \in {"absent", "text"}, ImdbHas(plot, rated)
        PROVE  EnrichTmdbRecord(record, rated) \in found'
    BY <2>2 DEF ImdbHas, Return
  <2>3. \A rated \in BOOLEAN :
          EnrichTmdbRecord(record, rated) =
            [record EXCEPT !.rating = EnrichTmdbRecord(record, rated).rating,
                           !.refs = EnrichTmdbRecord(record, rated).refs]
    BY DEF EnrichTmdbRecord, Record
  <2>4. QED
    BY <1>3, <2>1, <2>2, <2>3 DEF ImdbAnswers
<1>4. CASE Tick
  BY <1>2, <1>4 DEF Tick
<1>5. CASE \E x \in Exchange : ExchangeFails(x)
  BY <1>5 DEF ExchangeFails, Return, Errors
<1>6. CASE ImdbPayloadIsInvalid
  BY <1>6 DEF ImdbPayloadIsInvalid, Return, Errors
<1>7. QED
  <2>1. ~ MediaIdIsUnknown
    BY <1>1 DEF MediaIdIsUnknown, CallInv, Stage, ByName
  <2>2. QED
    BY <1>1, <1>3, <1>4, <1>5, <1>6, <2>1
    DEF Next, Begin, FindAnswers, MovieDetailsAnswer, TvDetailsAnswer, TvPartAnswers,
        SearchAnswers, LateExchangeSettles

\* Once TMDB has a record, IMDb can turn the call into an error, but neither lose the
\* record nor change anything in it besides the rating and the list of providers.
THEOREM RatingOnly == Spec => OnlyRatingIsOverridden
<1>1. CallInv /\ [Next]_vars =>
        [\A record \in found \cap Record :
            Running /\ result' \notin Errors =>
              \E after \in found' :
                after = [record EXCEPT !.rating = after.rating, !.refs = after.refs]]_vars
  BY OnlyRating
<1>2. QED
  BY <1>1, Invariance, PTL DEF Spec, OnlyRatingIsOverridden

-----------------------------------------------------------------------------
\* A call of any provider, through all its exchanges, is a call of the abstract one:
\* it ends before two TMDB timeouts and an IMDb timeout have passed.
LEMMA CallStep ==
  ASSUME CallInv, [Next]_vars
  PROVE  [AsCall!Next]_(AsCall!vars)
<1> USE ProviderAssumption
<1>1. CASE \E call \in Call : Begin(call)
  BY <1>1 DEF Begin, Running, AsCall!Next, AsCall!Begin, CallInv, TypeOK, Results, Errors, Longest
<1>2. CASE Running /\ result' \in {"record", "items", "notFound", "unavailable", "invalid"}
  BY <1>2 DEF Running, AsCall!Next, AsCall!Answer, Errors
<1>3. CASE Running /\ result' = result /\ elapsed' = elapsed
  BY <1>3 DEF Running, AsCall!vars
<1>4. CASE Tick /\ Running
  <2>1. elapsed + 1 <= Longest
    <3>1. PICK x \in open : timer[x] > 0
      BY <1>4 DEF Tick
    <3>2. elapsed + timer[x] <= Longest /\ timer[x] \in Nat /\ elapsed \in Nat
      BY <1>4, <3>1 DEF CallInv, OnTime, Latest, Longest, TypeOK, Exchange
    <3>3. QED
      BY <3>1, <3>2 DEF Longest
  <2>2. elapsed' = elapsed + 1 /\ result' = "running" /\ elapsed \in Nat /\ Longest \in Nat
    BY <1>4 DEF Tick, Running, CallInv, TypeOK, Longest
  <2>3. QED
    BY <1>4, <2>1, <2>2 DEF Running, AsCall!Next, AsCall!Wait, Errors
<1>5. CASE ~ Running /\ result' = result
  BY <1>5 DEF Running, AsCall!vars
<1>6. QED
  BY <1>1, <1>2, <1>3, <1>4, <1>5
  DEF Next, MediaIdIsUnknown, FindAnswers, MovieDetailsAnswer, TvDetailsAnswer,
      TvPartAnswers, SearchAnswers, ImdbAnswers, ImdbPayloadIsInvalid, ExchangeFails,
      LateExchangeSettles, Tick, TmdbHas, TmdbHasNot, ImdbHas, ImdbHasNot, Return,
      Unchanged, vars

\* The part of CallEndsInTime that does not speak of fairness.
THEOREM CallInTime == Spec => AsCall!InTime
<1>1. Init => AsCall!Init
  BY DEF Init, AsCall!Init, Running, Errors
<1>2. CallInv /\ [Next]_vars => [AsCall!Next]_(AsCall!vars)
  BY CallStep
<1>3. QED
  BY <1>1, <1>2, Invariance, PTL DEF Spec, AsCall!InTime
=============================================================================
