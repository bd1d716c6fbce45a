\* Two customers, two rooms of one seat: going back and forth between rooms.
SPECIFICATION Spec
CONSTANTS
  SeatCount <- TwoRooms
  MaxUsers = 2
  RoomInput = {1, 2}
  SeatInput = {1}
  MaxBusy = 0
  MaxRestarts = 0
  MaxCrashes = 0
CHECK_DEADLOCK FALSE
INVARIANTS
  NoDoubleBooking
  NoStrandedHold
  OneAnswerPerRequest
  CartCountsReservations
  ViewersAreRegistered
  OnlyTheCartIsPaid
