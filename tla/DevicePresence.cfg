\* Two pollers and the timer on one device; one restart.
CONSTANTS
  Devices = {d1}
  Objects = {o1, o2, o3}
  Addresses = {a1}
  Notes = {n0}
  Blank = n0
  Pollers = {p1, p2}
  Workers = {}
  MaxRestarts = 1
  None = None
SPECIFICATION Spec
SYMMETRY Symmetry
INVARIANTS
  TypeOK
  RegisteredIsOnline
PROPERTIES
  RestartKeepsDevices
