\* One room, which its correction job and its learner both end.
CONSTANTS
  r1 = r1
  Chats <- OneChat
  Scenarios <- SummariesOnly
  MaxEvents = 2
  Nobody = Nobody
SPECIFICATION Spec
INVARIANTS NothingPendingAtRest
\* Everything that is asked for ends.
CHECK_DEADLOCK FALSE
