SPECIFICATION Spec
CONSTANTS
  Generations = {1, 2, 3, 5, 6}
  Move = {"tackle", "explosion", "trap", "protect", "roar", "baton", "u_turn", "recharge", "spikes"}
  KindOf <- KindOfMoves
  NoMove = NoMove
  MaxSuccesses = 1
  MovesOf <- Movesets
  PriorityOf <- Priorities
  MayBeFaster <- Speeds
  Damaging = {"tackle", "explosion", "trap", "u_turn", "recharge"}
  SelfDestructing = {"explosion"}
  Phazing = {"roar"}
  Blockable <- AimedAtTheFoe
  MaxTeamSize = 3
INVARIANTS
  TypeOK
  NothingFails
  OnlyWhoOwesActs
  EveryoneActs
  OneImmobilizesAtATime
PROPERTIES
  DelayedSwitchesHappen
  ImplementsProtocol
  TurnsEnd
