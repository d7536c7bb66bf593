\* Two HTTP threads and two pollers share one channel and two calls; multi-port mode.
CONSTANTS
  Workers = {w1, w2}
  Pollers = {p1, p2}
  LiveStreams = {live}
  PlaybackStreams = {}
  Sessions = {s1, s2}
  SinglePort = FALSE
  AddressMayChange = TRUE
  MaxPending = 0
  None = None
SPECIFICATION Spec
SYMMETRY Symmetry
INVARIANTS
  TypeOK
  ConnectedHasDialog
  AckedHasDialog
PROPERTIES
  StopHangsUp
  ImplementsContract
CHECK_DEADLOCK FALSE
