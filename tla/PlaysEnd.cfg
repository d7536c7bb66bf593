\* One call, live or played back, asked for or on demand, in single-port mode.
CONSTANTS
  Workers = {w1}
  Pollers = {p1, p2}
  LiveStreams = {live}
  PlaybackStreams = {rec}
  Sessions = {s1}
  SinglePort = TRUE
  AddressMayChange = FALSE
  MaxPending = 1
  None = None
SPECIFICATION FairSpec
PROPERTIES
  StopHangsUp
  OperationsEnd
  AnswerIsAcknowledged
CHECK_DEADLOCK FALSE
