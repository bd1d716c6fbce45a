\* Liveness, with a killed client, a restart, and numbers that do not exist.
SPECIFICATION FairSpec
CONSTANTS
  SeatCount <- OneRoom
  MaxUsers = 2
  RoomInput = {1, 2}
  SeatInput = {0, 1}
  MaxBusy = 0
  MaxRestarts = 1
  MaxCrashes = 1
CHECK_DEADLOCK FALSE
INVARIANTS
  NoStrandedHold
  OneAnswerPerRequest
PROPERTIES
  PaidIsFinal
  ImplementsBooking
  HoldsAreGivenBack
  RequestsAreAnswered
  AbandonedSeatsAreFreed
