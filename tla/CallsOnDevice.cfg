\* Two calls, live or of one period of two channels; both kinds of BYE handling.
CONSTANTS
  Calls = {c1, c2}
  Channels = {h1, h2}
  Periods = {w1}
  Targets = {a1, a2}
  Live = Live
  Schemas = 2
  MaxRepeats = 1
  None = None
SPECIFICATION Spec
SYMMETRY Symmetry
INVARIANTS
  TypeOK
  LiveCanBeStopped
  StoppedStartsNothingLive
  OneSessionPerTarget
  OverIsForgotten
PROPERTIES
  ImplementsContract
CHECK_DEADLOCK FALSE
