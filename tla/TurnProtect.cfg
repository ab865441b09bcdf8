SPECIFICATION Spec
CONSTANTS
  Generations = {4}
  Move = {"tackle", "protect"}
  KindOf <- KindOfMoves
  NoMove = NoMove
  MaxSuccesses = 1
  MovesOf <- EveryMove
  PriorityOf <- Priorities
  MayBeFaster <- Speeds
  Damaging = {"tackle"}
  SelfDestructing = {}
  Phazing = {}
  Blockable <- AimedAtTheFoe
  MaxTeamSize = 2
INVARIANTS
  NothingFails
