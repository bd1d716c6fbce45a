\* Two customers with a slot each.
SPECIFICATION SilenceSpec
CONSTANTS
  Client = {1, 2}
  Slots = 2
  MaxWait = 1
  MaxCrashes = 2
INVARIANTS
  TypeOK
  LockIsHeldByTheLiving
  AnswersMatchCalls
  BacklogIsBounded
PROPERTIES
  OnlyTheSilentExpire
  LateCallIsTheLast
