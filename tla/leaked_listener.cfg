\* A second visit, and the listener of the first goes on.
SPECIFICATION Spec
CONSTANTS
  Room = {1}
  Capacity = 1
  MaxUpdates = 2
  MaxVisits = 2
CHECK_DEADLOCK FALSE
PROPERTY NewsNeverGoBack
