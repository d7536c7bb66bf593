\* Two catalogs of one device at once.
CONSTANTS
  Devices = {d1}
  Channels = {c1}
  Objects = {e1, e2, e3}
  SsrcRange = 4
  Pollers = {p1, p2}
  Workers = {}
  MaxRestarts = 0
  None = None
SPECIFICATION Spec
PROPERTIES
  FixedSSRC
