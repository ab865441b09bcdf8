SPECIFICATION Spec
CONSTANTS
  Generations = {5}
  Move = {"tackle", "u_turn"}
  KindOf <- KindOfMoves
  NoMove = NoMove
  MaxSuccesses = 1
  MovesOf <- EveryMove
  PriorityOf <- Priorities
  MayBeFaster <- Speeds
  Damaging = {"tackle", "u_turn"}
  SelfDestructing = {}
  Phazing = {}
  Blockable <- AimedAtTheFoe
  MaxTeamSize = 2
INVARIANTS
  EveryoneActs
