\* Two pollers, so that catalogs and REGISTERs of a device overlap, beside an HTTP
\* thread and a restart; two devices announce the same channel.
CONSTANTS
  Devices = {d1, d2}
  Channels = {c1}
  Objects = {e1, e2}
  SsrcRange = 3
  Pollers = {p1, p2}
  Workers = {w1}
  MaxRestarts = 1
  None = None
SPECIFICATION Spec
SYMMETRY Symmetry
INVARIANTS
  TypeOK
  KnownChannelsAreSaved
  UniqueSSRC
