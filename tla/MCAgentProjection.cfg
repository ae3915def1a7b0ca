\* Two agents competing for one name, two handlers, a consumer of one agent.
CONSTANTS
  a1 = a1
  a2 = a2
  Agents <- TwoAgents
  NameOf <- MCNameOf
  FanOut <- MCFanOut
  MAX_FAN_OUT = 1
  Handlers = {h1, h2}
  MaxVersion = 3
  Followed = {a1}
SPECIFICATION ProjectionSpec
INVARIANTS TypeOK LiveAgentIsFollowed NothingAfterDeletion EventsMatchExistence ProjectionIsAPrefix
PROPERTIES ImplementsConsumer EveryEventIsApplied
