CONSTANTS
  o1 = o1
  o2 = o2
  u1 = u1
  u2 = u2
  u3 = u3
  u4 = u4
  b1 = b1
  b2 = b2
  ann = ann
  Ann = Ann
  Orgs = {o1, o2}
  Users = {u1, u2, u3, u4}
  Browsers = {b1, b2}
  Emails <- MCEmails
  lower <- MClower
  SUPER_ADMIN_EMAIL = Ann
  maxSeats = Null
  Null = Null
  MaxActs = 12
SPECIFICATION Spec
SYMMETRY Alike
INVARIANTS RightsAreExplained OrganizationsAreLed 
PROPERTIES SecondHomeIsExplained
CHECK_DEADLOCK FALSE
