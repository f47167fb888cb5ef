\* Concurrent webhook requests of two customers, first messages and replies to
\* rating prompts, while staff open, list, resolve, change, close and delete.
SPECIFICATION Spec
CONSTANTS
  m1 = m1
  m2 = m2
  m3 = m3
  k1 = k1
  k2 = k2
  Senders = {k1, k2}
  Mids = {m1, m2, m3}
  SenderOf <- MCSenderOf
  TextOf <- AllNumbers
  Batches <- OneByOne
  Admins = {admin}
  Agents = {}
  Nobody = Nobody
  MaxConvs = 2
  MaxFaults = 0
  Handlers = {h1, h2}
  Channel = "MESSENGER"
  Triggers = {"FIRST_MESSAGE"}
  MenuOffered = FALSE
  AutoRouting = TRUE
  MaxDeliveries = 1
  Requests = {r1}
  StaffOps = {"create", "list", "resolve", "status", "close", "delete"}
  MaxRequests = 2
INVARIANTS
  
  UnseenIsUnread
  GreetedOnce
  
  
PROPERTIES
  RatingIsFinal
SYMMETRY
  HandlerSymmetry
CHECK_DEADLOCK FALSE
