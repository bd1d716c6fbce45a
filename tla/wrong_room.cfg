\* One customer who looks at two rooms.
SPECIFICATION Spec
CONSTANTS
  SeatCount <- TwoRooms
  MaxUsers = 1
  RoomInput = {1, 2}
  SeatInput = {1}
  MaxBusy = 0
  MaxRestarts = 0
  MaxCrashes = 0
CHECK_DEADLOCK FALSE
INVARIANT PurchaseIsEffective
