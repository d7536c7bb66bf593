\* Two plays of one channel overlap.
CONSTANTS
  Workers = {w1, w2}
  Pollers = {p1}
  LiveStreams = {live}
  PlaybackStreams = {}
  Sessions = {s1, s2}
  SinglePort = TRUE
  AddressMayChange = FALSE
  MaxPending = 0
  None = None
SPECIFICATION Spec
SYMMETRY Symmetry
INVARIANTS
  StreamingIsStoppable
CHECK_DEADLOCK FALSE
