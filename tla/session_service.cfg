\* Liveness of one session.
SPECIFICATION FairSpec
CONSTANTS
  Client = {1}
  Slots = 1
  MaxWait = 2
  MaxCrashes = 1
PROPERTIES
  CallsAreAnswered
  GoneCustomersAreForgotten
  AbandonedSessionsEnd
  ImplementsService
