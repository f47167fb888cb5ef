CONSTANTS
  p1 = p1
  p2 = p2
  i1 = i1
  Orgs = {o1, o2}
  Accounts = {a1, a2}
  Pages = {p1, p2}
  Instagrams = {i1}
  linked <- MClinked
  Numbers = {n1}
  Tasks = {t1, t2}
  Null = Null
  MaxActs = 5
  MaxFaults = 2
SPECIFICATION Spec
SYMMETRY Alike
  
PROPERTIES RemovedStaysRemoved
CHECK_DEADLOCK FALSE
