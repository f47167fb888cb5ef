CONSTANTS
  Messages = {m1, m2}
  Notes = {n1}
  Mine = {m2, n1}
  Nobody = Nobody
  Refused = Refused
  MaxActs = 2
  MaxCalls = 3
  MaxFailures = 1
SPECIFICATION ThreadSpec
INVARIANTS PostsAreShown ConversationIsCurrent OthersShownOnce
CHECK_DEADLOCK FALSE
