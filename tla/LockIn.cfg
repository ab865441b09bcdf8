SPECIFICATION Spec
CONSTANTS
  Generation = 3
  Move = {"rampage", "recharge", "charge", "bide", "protect", "sleep_talk", "struggle"}
  KindOf <- KindOfMoves
  NoMove = NoMove
  MaxSuccesses = 2
  Struggle = "struggle"
  SleepTalk = "sleep_talk"
  SleepTalkCalls = {"rampage", "recharge", "charge", "protect"}
  MaxPP = 2
INVARIANTS
  LockedInIsUsable
  NeverThrows
  CountersFollowTurns
PROPERTIES
  LockKeepsItsMove
  LockedMoveIsPaidOnce
