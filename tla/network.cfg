\* Two hosts, three clients: serial forwarders, a timer, a handler that dies.
SPECIFICATION FairSpec
CONSTANTS
  Client = {3, 4, 5}
  Host = {"north", "south"}
  HostOf <- TwoHosts
  Token <- Pids
  Request <- Habits
  Capacity = 4
  LittleEndian = TRUE
  MaxExpired = 1
  MaxDead = 1
CHECK_DEADLOCK FALSE
INVARIANTS
  TypeOK
  AnswersReachTheirCaller
  VerdictsArrive
  QueuesKeepTheirPlaces
PROPERTY CallsAreAnswered
