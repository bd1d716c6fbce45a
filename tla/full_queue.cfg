\* Two customers who are silent too long fill a queue of two messages.
SPECIFICATION FairSpec
CONSTANTS
  Client = {3, 4, 5}
  Host = {"north"}
  HostOf <- OneHost
  Token <- Pids
  Request <- Selects
  Capacity = 2
  LittleEndian = TRUE
  MaxExpired = 2
  MaxDead = 0
CHECK_DEADLOCK FALSE
PROPERTY CallsAreAnswered
