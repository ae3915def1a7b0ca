\* Two requests of the internal endpoint race on one key.
CONSTANTS
  Connectors = {c1}
  Keys = {k1}
  ConnectorOf <- MCConnectorOf
  Handlers = {h1, h2}
  MaxCrashes = 0
SPECIFICATION Spec
INVARIANT RaceIsReplayed
