\* Two customers, one seat and the number of another, a refused SQL statement.
SPECIFICATION Spec
CONSTANTS
  SeatCount <- OneRoom
  MaxUsers = 2
  RoomInput = {1}
  SeatInput = {1, 2}
  MaxBusy = 1
  MaxRestarts = 0
  MaxCrashes = 0
CHECK_DEADLOCK FALSE
INVARIANTS
  TypeOK
  OneAnswerPerRequest
  CartCountsReservations
PROPERTIES
  ImplementsBooking
  
  UnpaidByTheUpdate
