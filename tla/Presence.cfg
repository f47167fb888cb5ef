\* One browser with two tabs; everything may overtake everything else.
SPECIFICATION Spec
CONSTANTS
  Tabs = {t1, t2}
  Sockets = {s1, s2}
  FirstTab = t1
  NoSocket = NoSocket
  MaxActs = 3
  MaxFaults = 1
  MaxFlight = 2
INVARIANTS
  GhostIsExplained
  AbsenceIsExplained
PROPERTIES
  IdleIsSignedOut
CHECK_DEADLOCK FALSE
