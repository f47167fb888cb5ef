SPECIFICATION Spec
CONSTANTS
  Sender = {ann}
  Fetcher = {loop, other}
  Loop = loop
  EmailChannel = TRUE
  MaxMails = 2
  MaxActs = 2
  MaxTroubles = 1
INVARIANTS MissedIsExplained DuplicateIsExplained CreditsMatchRatings
PROPERTIES EveryMailIsTaken
CHECK_DEADLOCK FALSE
