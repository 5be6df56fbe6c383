CONSTANTS
  TmdbTimeout = 2
  ImdbTimeout = 1
SPECIFICATION Spec
INVARIANTS AnswersAreEarned
PROPERTIES CallEndsInTime OnlyRatingIsOverridden ExchangesEnd
