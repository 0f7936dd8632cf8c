SPECIFICATION Spec
CONSTANTS
  Callers = {c1, c2}
  CallerIds <- SharedIds
  MaxSize = 2
  MaxShutdowns = 0
INVARIANTS AllSlotsReturn
