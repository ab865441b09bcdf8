------------------------------- MODULE MCTurn -------------------------------
(* Moves named for what they do.                                             *)
EXTENDS Turn

KindOfMoves ==
  [m \in Move |-> CASE m = "u_turn" -> "delayed"
                    [] m \in {"trap", "protect", "baton", "recharge"} -> m
                    [] OTHER       -> "other"]

Priorities ==
  [g \in Generations |->
     [m \in Move |-> CASE m = "protect" -> IF g <= 4 THEN 3 ELSE 4
                       [] m = "roar"    -> IF g = 2 THEN -1 ELSE -5
                       [] OTHER         -> 0]]

\* The targets of the others are their user or a side of the field.
AimedAtTheFoe == Move \ {"protect", "baton", "spikes"}

\* Where one side knows Protect the other knows no move that it blocks but
\* Explosion.  The AI pivots only where the foe always moves first.
Movesets ==
  [g \in Generations |->
     CASE g = 1 -> [ai  |-> {"tackle", "trap", "recharge"},
                    foe |-> {"tackle", "trap", "recharge"}]
       [] g = 2 -> [ai  |-> {"explosion", "spikes"},
                    foe |-> {"explosion", "protect", "roar", "baton"}]
       [] g = 3 -> [ai  |-> {"explosion", "protect", "roar"},
                    foe |-> {"explosion", "baton"}]
       [] g = 5 -> [ai  |-> {"tackle", "roar", "recharge"},
                    foe |-> {"tackle", "roar", "u_turn", "recharge"}]
       [] g = 6 -> [ai  |-> {"tackle", "roar", "u_turn"},
                    foe |-> {"tackle", "u_turn", "recharge"}]]

\* Except in generation 6 the speeds are open.
Speeds == [g \in Generations |-> IF g = 6 THEN {"foe"} ELSE Side]

EveryMove == [g \in Generations |-> [s \in Side |-> Move]]
=============================================================================
