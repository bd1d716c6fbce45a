\* One customer enters while another one reserves.
SPECIFICATION Spec
CONSTANTS
  SeatCount <- OneRoom
  MaxUsers = 2
  RoomInput = {1}
  SeatInput = {1}
  MaxBusy = 0
  MaxRestarts = 0
  MaxCrashes = 0
CHECK_DEADLOCK FALSE
INVARIANT ViewersSeeReservations
