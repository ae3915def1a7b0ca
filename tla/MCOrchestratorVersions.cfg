\* A delete and an invocation of one agent.
CONSTANTS
  Agents = {a1}
  NameOf <- MCNameOf
  FanOut <- MCFanOut
  MAX_FAN_OUT = 2
  Handlers = {h1, h2}
  MaxVersion = 3
SYMMETRY MCSymmetry
SPECIFICATION Spec
INVARIANT DeletionIsSeen
