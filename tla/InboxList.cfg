CONSTANTS
  Nobody = Nobody
  Refused = Refused
  MaxSteps = 3
  MaxCalls = 2
  MaxFaults = 1
SPECIFICATION ListSpec
INVARIANTS ListIsCurrent
CHECK_DEADLOCK FALSE
