\* Each command with all speeds and presets of a byte, and some that need more digits.
CONSTANTS
  Speeds <- MCValues
  Presets <- MCValues
  None = None
SPECIFICATION Spec
INVARIANTS
  FrameIsValid
  Understood
CHECK_DEADLOCK FALSE
