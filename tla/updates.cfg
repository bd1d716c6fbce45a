\* Two visits of a room, three reservations of other customers.
SPECIFICATION FairSpec
CONSTANTS
  Room = {1}
  Capacity = 1
  MaxUpdates = 3
  MaxVisits = 2
CHECK_DEADLOCK FALSE
INVARIANTS
  TypeOK
  EachUpdateInOnePlace
  PollingBelongsToTheVisit
PROPERTIES
  NewsComeInOrder
  HandlersGetThrough
  NewsArrive
