\* One message at a time; everything else is edited between messages.
SPECIFICATION Spec
CONSTANTS
  boss = boss
  ann = ann
  bob = bob
  Users <- MCUsers
  Founder = boss
  Nobody = Nobody
  Convs = {c1, c2}
  Handlers = {h1}
  MaxDeps = 2
  MaxEdits = 2
  MaxMessages = 3
  MaxFaults = 1
  EditsInBetween = FALSE
PROPERTIES
  RoutedOnce
  AssignmentFits
  
SYMMETRY
  RoutingSymmetry
CHECK_DEADLOCK FALSE
