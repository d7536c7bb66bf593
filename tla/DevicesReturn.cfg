\* A device comes back, and its row catches up, whatever one restart, move, wrong
\* password or HTTP edit did.
CONSTANTS
  Devices = {d1}
  Objects = {o1}
  Addresses = {a1, a2}
  Notes = {n0, n1}
  Blank = n0
  Name = n0
  Origin = a1
  Pollers = {p1}
  Workers = {w1}
  MaxRestarts = 1
  MaxDisturbances = 1
  None = None
SPECIFICATION FairSystem
INVARIANTS
  SystemTypeOK
PROPERTIES
  DeviceComesBack
