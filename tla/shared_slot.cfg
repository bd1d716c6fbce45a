\* Two customers with the same slot.
SPECIFICATION SilenceSpec
CONSTANTS
  Client = {1, 3}
  Slots = 2
  MaxWait = 1
  MaxCrashes = 0
PROPERTY OnlyTheSilentExpire
