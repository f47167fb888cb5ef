\* One webhook request at a time, carrying up to two messages, each delivered up
\* to twice, with a database error or a crash anywhere, against two staff requests
\* that end no conversation.
SPECIFICATION FairSpec
CONSTANTS
  m1 = m1
  m2 = m2
  m3 = m3
  k1 = k1
  k2 = k2
  Senders = {k1}
  Mids = {m1, m2}
  SenderOf <- MCSenderOf
  TextOf <- MCTextOf
  Batches <- PairAndSecond
  Admins = {admin}
  Agents = {agent}
  Nobody = Nobody
  MaxConvs = 3
  MaxFaults = 1
  Handlers = {h1}
  Channel = "WHATSAPP"
  Triggers = {"FIRST_MESSAGE"}
  MenuOffered = TRUE
  AutoRouting = TRUE
  MaxDeliveries = 2
  Requests = {r1}
  StaffOps = {"list", "send", "note", "assign", "handoff", "unassign"}
  MaxRequests = 2
INVARIANTS
  StoredOnce
PROPERTIES
  DeliveredIsStored
CHECK_DEADLOCK FALSE
