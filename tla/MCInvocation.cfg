\* Two requests race on one key around a revocation; two workers may die.
CONSTANTS
  Connectors = {c1}
  Keys = {k1}
  ConnectorOf <- MCConnectorOf
  Handlers = {h1, h2}
  MaxCrashes = 2
SPECIFICATION FairSpec
INVARIANTS TypeOK AtMostOneCall OneOwner AnswersAgree EventsTellTheStatus
PROPERTIES OutcomeIsFinal EveryRequestAnswered EveryInvocationEnds RevocationStopsNewUse
