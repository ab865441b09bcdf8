---------------------------- MODULE ShowdownMatch ----------------------------
(***************************************************************************)
(* A battle on Pokemon Showdown: the server plays it and tells it, the     *)
(* client of ShowdownBattle follows.  The server is external code; its     *)
(* messages come in the orders that the handlers in src/ and their tests   *)
(* expect, and are built the way event_block.cpp parses its lines.         *)
(***************************************************************************)
EXTENDS ShowdownBattle

CONSTANTS MaxAfflicted,  \* how many Pokemon of a side may have a status: a bound
          Flinching      \* the moves that sometimes make the target flinch
ASSUME MaxAfflictedAssumption == MaxAfflicted \in Nat

\* The moves of the actions below: what the client's tables say of them
Moves == {"hit", "ice", "spore", "rest", "heal_bell", "substitute", "confuse", "roar", "u_turn",
          "sleep_talk", "fake_out"}
ASSUME MovesAssumption ==
  /\ Phazing \cap Moves = {"roar"}
  /\ DamagesSelf \cap Moves = {"substitute"}
  /\ ClearsTeamStatus \cap Moves = {"heal_bell"}
  /\ UsableAsleep \cap Moves = {"sleep_talk"}
  /\ Rest = "rest"
  /\ Thawing \cap Moves = {} /\ Flinching \cap Moves = {}
  /\ Untold \notin Phazing \cup DamagesSelf \cup ClearsTeamStatus \cup {Rest}

Active(p) == side[p].active
StatusOf(p) == side[p].status[Active(p)]
Lives(p) == Active(p) \in side[p].living
Bench(p) == side[p].living \ {Active(p)}
HasLost(p) == side[p].living = {}

-----------------------------------------------------------------------------
(* Lines of the server, parsed. *)

Said(kind, p) == [kind |-> kind, party |-> p]
Told3(kind, p, hp, status) == [kind |-> kind, party |-> p, hp |-> hp, status |-> status]

MoveLine(p, move, missed) == [kind |-> "move", party |-> p, move |-> move, miss |-> missed]
CantLine(p, reason) == [kind |-> "cant", party |-> p, reason |-> reason]
CureStatusLine(p) == [kind |-> "status clear", party |-> p, status |-> StatusOf(p)]
SwitchLine(kind, p, new, hp) ==
  [kind |-> kind, party |-> p, index |-> new, hp |-> hp, status |-> side[p].status[new]]

\* -damage, by its source; entry hazards and residual damage are HP messages.
DamageLine(source, p, hp, status) ==
  Told3(CASE source = "main effect" -> "damage"
          [] source = "confusion" -> "hit self"
          [] source = "recoil" -> "recoil"
          [] source \in {"hazards", "miscellaneous"} -> "hp", p, hp, status)

\* -status, by its source: an ability is told with its owner.
StatusLine(source, p, status) ==
  [kind |-> IF source = "ability" THEN "ability status" ELSE "move status",
   party |-> IF source = "ability" THEN Other(p) ELSE p,
   status |-> status]

Separator == [kind |-> "separator"]
TurnLine == [kind |-> "turn"]
WinLine == [kind |-> "finished"]
End == [kind |-> "end"]

-----------------------------------------------------------------------------
(* What the server does. *)

\* A side after its active Pokemon is told to have this HP.
Left(s, hp) == IF hp = "up" THEN s ELSE [s EXCEPT !.living = @ \ {s.active}]
With(s, status) == [s EXCEPT !.status[s.active] = status]
Entered(s, new) == [s EXCEPT !.active = new, !.owes = FALSE]
Acted(s) == [s EXCEPT !.owes = FALSE]

\* In the first generation a faint ends the turn.
MayAct(p) ==
  /\ side[p].owes
  /\ Lives(p)
  /\ \A q \in Parties : ~HasLost(q) /\ (generation = 1 => Lives(q))

Says(lines) ==
  /\ script = <<>>
  /\ script' = lines
  /\ UNCHANGED <<generation, client>>
Acts(p) ==
  /\ phase \in {"switching", "moving"}
  /\ MayAct(p)
  /\ phase' = "moving"
Free(p) == StatusOf(p) \in {"clear", "burn"}
CanBeAfflicted(p) ==
  /\ StatusOf(p) = "clear"
  /\ Cardinality({q \in side[p].living : side[p].status[q] # "clear"}) < MaxAfflicted
BothSides(p, mine, others) == [q \in Parties |-> IF q = p THEN mine ELSE others]

ChoosesToSwitch(p) ==
  /\ phase = "switching" /\ MayAct(p) /\ phase' = phase
  /\ \E new \in Bench(p), hp \in HP :
       /\ generation = 1 => hp = "up"
       /\ Says(<<SwitchLine("switch", p, new, "up"), Said("reveal", p)>>
               \o IF generation = 1 THEN <<>>
                  ELSE <<DamageLine("hazards", p, hp, side[p].status[new])>>)
       /\ side' = [side EXCEPT ![p] = Left(Entered(@, new), hp)]

\* A Fire move thaws whom it hits.
Hits(p) ==
  /\ Acts(p) /\ Free(p) /\ Lives(Other(p))
  /\ \E move \in {"hit"} \cup Thawing, hp \in HP :
       LET thaws == move \in Thawing /\ StatusOf(Other(p)) = "freeze" /\ hp = "up"
           struck == Left(side[Other(p)], hp)
       IN  /\ Says(<<MoveLine(p, move, FALSE), Said("critical hit", p),
                     DamageLine("main effect", Other(p), hp, StatusOf(Other(p)))>>
                   \o IF thaws THEN <<CureStatusLine(Other(p))>>
                      ELSE <<Said("reveal", Other(p))>>)
           /\ side' = BothSides(p, Acted(side[p]),
                                IF thaws THEN With(struck, "clear") ELSE struck)

FindsNobody(p) ==
  /\ Acts(p) /\ Free(p) /\ ~Lives(Other(p))
  /\ Says(<<MoveLine(p, "hit", FALSE)>>)
  /\ side' = [side EXCEPT ![p] = Acted(@)]

Misses(p) ==
  /\ Acts(p) /\ Free(p) /\ Lives(Other(p))
  /\ Says(<<MoveLine(p, "hit", TRUE)>>)
  /\ side' = [side EXCEPT ![p] = Acted(@)]

HitsSubstitute(p) ==
  /\ Acts(p) /\ Free(p) /\ Lives(Other(p))
  /\ Says(<<MoveLine(p, "hit", FALSE), Said("damage substitute", Other(p))>>)
  /\ side' = [side EXCEPT ![p] = Acted(@)]

Freezes(p) ==
  /\ Acts(p) /\ Free(p) /\ Lives(Other(p)) /\ CanBeAfflicted(Other(p))
  /\ Says(<<MoveLine(p, "ice", FALSE),
            DamageLine("main effect", Other(p), "up", "clear"),
            StatusLine("main effect", Other(p), "freeze")>>)
  /\ side' = BothSides(p, Acted(side[p]), With(side[Other(p)], "freeze"))

IsBurnedByTouching(p) ==
  /\ generation # 1
  /\ Acts(p) /\ CanBeAfflicted(p) /\ Lives(Other(p))
  /\ \E hp \in HP :
       /\ Says(<<MoveLine(p, "hit", FALSE),
                 DamageLine("main effect", Other(p), hp, StatusOf(Other(p))),
                 StatusLine("ability", p, "burn")>>)
       /\ side' = BothSides(p, With(Acted(side[p]), "burn"), Left(side[Other(p)], hp))

Recoils(p) ==
  /\ Acts(p) /\ Free(p) /\ Lives(Other(p))
  /\ \E hp, mine \in HP :
       /\ Says(<<MoveLine(p, "hit", FALSE),
                 DamageLine("main effect", Other(p), hp, StatusOf(Other(p))),
                 DamageLine("recoil", p, mine, StatusOf(p))>>)
       /\ side' = BothSides(p, Left(Acted(side[p]), mine), Left(side[Other(p)], hp))

PutsToSleep(p) ==
  /\ Acts(p) /\ Free(p) /\ Lives(Other(p)) /\ CanBeAfflicted(Other(p))
  /\ Says(<<MoveLine(p, "spore", FALSE), StatusLine("main effect", Other(p), "sleep")>>)
  /\ side' = BothSides(p, Acted(side[p]), With(side[Other(p)], "sleep"))

Rests(p) ==
  /\ Acts(p) /\ (CanBeAfflicted(p) \/ StatusOf(p) = "burn")
  /\ Says(<<MoveLine(p, "rest", FALSE), StatusLine("move", p, "sleep"),
            DamageLine("miscellaneous", p, "up", "sleep")>>)
  /\ side' = [side EXCEPT ![p] = With(Acted(@), "sleep")]

HealsTheTeam(p) ==
  /\ Acts(p) /\ StatusOf(p) = "burn"
  /\ Says(<<MoveLine(p, "heal_bell", FALSE), CureStatusLine(p)>>)
  /\ side' = [side EXCEPT ![p] = [Acted(@) EXCEPT !.status = [q \in Roster |-> "clear"]]]

MakesSubstitute(p) ==
  /\ Acts(p) /\ Free(p)
  /\ Says(<<MoveLine(p, "substitute", FALSE),
            DamageLine("main effect", p, "up", StatusOf(p))>>)
  /\ side' = [side EXCEPT ![p] = Acted(@)]

Confuses(p) ==
  /\ Acts(p) /\ Free(p) /\ Lives(Other(p))
  /\ Says(<<MoveLine(p, "confuse", FALSE), Said("start confusion", Other(p))>>)
  /\ side' = [side EXCEPT ![p] = Acted(@)]

DragsOut(p) ==
  /\ generation # 1
  /\ Acts(p) /\ Free(p) /\ Lives(Other(p))
  /\ \E new \in Bench(Other(p)), hp \in HP :
       /\ Says(<<MoveLine(p, "roar", FALSE), SwitchLine("phaze", Other(p), new, "up"),
                 Said("reveal", Other(p)),
                 DamageLine("hazards", Other(p), hp, side[Other(p)].status[new])>>)
       /\ side' = BothSides(p, Acted(side[p]), Left(Entered(side[Other(p)], new), hp))

\* The block ends so that the player can choose who comes in.
Pivots(p) ==
  /\ generation # 1
  /\ phase \in {"switching", "moving"} /\ MayAct(p) /\ Free(p) /\ Lives(Other(p))
  /\ \E hp \in HP :
       LET wins == hp = "down" /\ Bench(Other(p)) = {}
           asked == Bench(p) # {} /\ ~wins
       IN  /\ Says(<<MoveLine(p, "u_turn", FALSE),
                     DamageLine("main effect", Other(p), hp, StatusOf(Other(p)))>>
                   \o IF asked THEN <<End>> ELSE <<>>)
           /\ side' = BothSides(p, [Acted(side[p]) EXCEPT !.pivots = asked],
                                Left(side[Other(p)], hp))
           /\ phase' = IF asked THEN "pivoting" ELSE "moving"
ComesBack(p) ==
  /\ phase = "pivoting" /\ side[p].pivots /\ phase' = "moving"
  /\ \E new \in Bench(p) :
       /\ Says(<<Separator, SwitchLine("switch", p, new, "up"), Said("reveal", p)>>)
       /\ side' = [side EXCEPT ![p] = [Entered(@, new) EXCEPT !.pivots = FALSE]]

\* Its status keeps a Pokemon from moving.
Hindrances == [sleep |-> "still asleep", freeze |-> "frozen solid", burn |-> "fully paralyzed"]
IsHindered(p) ==
  /\ Acts(p) /\ StatusOf(p) # "clear"
  /\ Says(<<CantLine(p, Hindrances[StatusOf(p)])>>)
  /\ side' = [side EXCEPT ![p] = Acted(@)]

\* A flinch takes the turn of a Pokemon that has yet to move.
MakesFlinch(p) ==
  /\ generation # 1
  /\ Acts(p) /\ Free(p) /\ Lives(Other(p)) /\ (side[Other(p)].owes => Free(Other(p)))
  /\ \E move \in Startling \cup Flinching, hp \in HP :
       LET loses == hp = "up" /\ side[Other(p)].owes
       IN  /\ Says(<<MoveLine(p, move, FALSE),
                     DamageLine("main effect", Other(p), hp, StatusOf(Other(p)))>>
                   \o IF loses THEN <<CantLine(Other(p), "flinched")>> ELSE <<>>)
           /\ side' = BothSides(p, Acted(side[p]), Acted(Left(side[Other(p)], hp)))

HitsItself(p) ==
  /\ Acts(p) /\ Free(p)
  /\ \E hp \in HP :
       /\ Says(<<DamageLine("confusion", p, hp, StatusOf(p))>>)
       /\ side' = [side EXCEPT ![p] = Left(Acted(@), hp)]

\* A Pokemon that wakes up may move at once, but in the first generation.
Recovers(p) ==
  /\ Acts(p) /\ ~Free(p) /\ Lives(Other(p))
  /\ LET still == generation = 1 /\ StatusOf(p) = "sleep"
     IN  \E hp \in HP :
           /\ still => hp = "up"
           /\ Says(<<CureStatusLine(p)>> \o
                   IF still THEN <<>>
                   ELSE <<MoveLine(p, "hit", FALSE),
                          DamageLine("main effect", Other(p), hp, StatusOf(Other(p)))>>)
           /\ side' = BothSides(p, With(Acted(side[p]), "clear"), Left(side[Other(p)], hp))

TalksInItsSleep(p) ==
  /\ generation # 1
  /\ Acts(p) /\ StatusOf(p) = "sleep" /\ Lives(Other(p))
  /\ \E hp \in HP :
       /\ Says(<<CantLine(p, "still asleep"), MoveLine(p, "sleep_talk", FALSE),
                 MoveLine(p, "hit", FALSE),
                 DamageLine("main effect", Other(p), hp, StatusOf(Other(p)))>>)
       /\ side' = BothSides(p, Acted(side[p]), Left(side[Other(p)], hp))

\* What the end of the turn does to a Pokemon that is left, if anything.
Residual(p, reaches, hp, sheds) ==
  IF ~reaches THEN <<>>
  ELSE <<DamageLine("miscellaneous", p, hp, StatusOf(p))>>
       \o IF sheds THEN <<Said("shed skin", p), CureStatusLine(p)>>
          ELSE IF hp = "up" THEN <<Said("rampage end", p)>> ELSE <<>>
Survivor(p, hp, sheds) ==
  IF sheds THEN With(side[p], "clear") ELSE Left(side[p], hp)

EndsTurn ==
  /\ phase \in {"switching", "moving"}
  /\ \A p \in Parties : ~MayAct(p)
  /\ \E hp \in [Parties -> HP], reached \in SUBSET {p \in Parties : Lives(p)} :
     \E sheds \in SUBSET reached :
       LET residual == generation # 1 /\ \A p \in Parties : ~HasLost(p)
           after == [p \in Parties |-> Survivor(p, hp[p], p \in sheds)]
           over == \E p \in Parties : after[p].living = {}
           faint == \E p \in Parties : after[p].active \notin after[p].living
       IN  /\ ~residual => reached = {}
           /\ \A p \in sheds : StatusOf(p) # "clear" /\ hp[p] = "up"
           /\ \A p \in Parties \ reached : hp[p] = "up"
           /\ Says((IF residual \/ ~faint THEN <<Separator>> ELSE <<>>)
                   \o (Residual("ai", "ai" \in reached, hp["ai"], "ai" \in sheds)
                       \o Residual("foe", "foe" \in reached, hp["foe"], "foe" \in sheds))
                   \o (CASE over -> <<WinLine>> [] ~over /\ faint -> <<>>
                         [] OTHER -> <<TurnLine>>)
                   \o <<End>>)
           /\ side' = after
           /\ phase' = CASE over -> "over" [] ~over /\ faint -> "replacing"
                         [] OTHER -> "choosing"

\* Whoever has fainted is replaced, and the replacement may faint in turn.
Replaces ==
  /\ phase = "replacing"
  /\ LET fainted == {p \in Parties : ~Lives(p)}
     IN  \E new \in [fainted -> Roster], hp \in [fainted -> HP] :
           LET Coming(p) ==
                 IF p \notin fainted THEN <<>>
                 ELSE <<SwitchLine("switch", p, new[p], "up"), Said("reveal", p)>>
               Hazards(p) ==
                 IF p \notin fainted \/ generation = 1 THEN <<>>
                 ELSE <<DamageLine("hazards", p, hp[p], side[p].status[new[p]])>>
               after == [p \in Parties |-> IF p \in fainted
                           THEN Left(Entered(side[p], new[p]), hp[p]) ELSE side[p]]
               over == \E p \in Parties : after[p].living = {}
               stand == \A p \in fainted : hp[p] = "up"
           IN  /\ \A p \in fainted : new[p] \in Bench(p) /\ (generation = 1 => hp[p] = "up")
               /\ Says(<<Separator>> \o Coming("ai") \o Coming("foe")
                       \o Hazards("ai") \o Hazards("foe")
                       \o (CASE over -> <<WinLine>> [] ~over /\ ~stand -> <<>>
                             [] OTHER -> <<TurnLine>>)
                       \o <<End>>)
               /\ side' = after
               /\ phase' = CASE over -> "over" [] ~over /\ ~stand -> "replacing"
                             [] OTHER -> "choosing"

StartsTurn ==
  /\ phase = "choosing" /\ script = <<>>
  /\ phase' = "switching"
  /\ side' = [p \in Parties |-> [side[p] EXCEPT !.owes = TRUE]]
  /\ script' = <<Separator>>
  /\ endings' = 0
  /\ UNCHANGED <<generation, action, upkeep, result, battle, misfiled, threw>>

Plays(p) ==
  \/ ChoosesToSwitch(p) \/ Hits(p) \/ FindsNobody(p) \/ Misses(p) \/ HitsSubstitute(p)
  \/ Freezes(p) \/ IsBurnedByTouching(p) \/ Recoils(p) \/ PutsToSleep(p)
  \/ Rests(p) \/ HealsTheTeam(p) \/ MakesSubstitute(p) \/ Confuses(p) \/ DragsOut(p)
  \/ Pivots(p) \/ ComesBack(p) \/ IsHindered(p) \/ MakesFlinch(p) \/ HitsItself(p)
  \/ Recovers(p) \/ TalksInItsSleep(p)
Server == ~threw /\ (StartsTurn \/ (\E p \in Parties : Plays(p)) \/ EndsTurn \/ Replaces)

-----------------------------------------------------------------------------
Init ==
  /\ generation \in Generations
  /\ \E first \in Roster :
       /\ side = [p \in Parties |->
                   [active |-> first, living |-> Roster, owes |-> FALSE, pivots |-> FALSE,
                    status |-> [q \in Roster |-> "clear"]]]
       /\ battle = [p \in Parties |->
                     [active |-> first, team |-> Roster, down |-> FALSE, moved |-> FALSE,
                      pivoting |-> FALSE, flinched |-> FALSE, status |-> [q \in Roster |-> "clear"]]]
  /\ phase = "choosing" /\ script = <<>> /\ action = Nothing /\ upkeep = NoUpkeep
  /\ result = "unknown" /\ endings = 1 /\ misfiled = FALSE /\ threw = FALSE

Next == Server \/ Handles
Spec == Init /\ [][Next]_vars

-----------------------------------------------------------------------------
\* Every variable has its type; the builders hold what messages can tell.
TypeOK ==
  /\ generation \in Generations
  /\ \A p \in Parties :
       /\ side[p].active \in Roster /\ side[p].living \subseteq Roster
       /\ battle[p].active \in battle[p].team /\ battle[p].team \subseteq Roster
       /\ {side[p].status[q] : q \in Roster} \subseteq Status
       /\ {battle[p].status[q] : q \in Roster} \subseteq Status
       /\ upkeep[p].status \in Status \cup {Untold} /\ upkeep[p].hp \in HP \cup {Untold}
  /\ phase \in {"choosing", "switching", "moving", "pivoting", "replacing", "over"}
  /\ action.kind \in {"nothing", "move", "switches", "hits self"}
  /\ result \in {"unknown", "turn", "finished"}
  /\ endings \in 0..2
  /\ {misfiled, threw} \subseteq BOOLEAN

\* No message of the server is out of place for the builders, and no status it
\* tells differs from the one the client's battle has come to.
NothingThrows == ~threw

\* When a block has been handled and the battle goes on, the client's battle is
\* the server's: the same Pokemon out, the same fainted, the same statuses.
AtRest == script = <<>> /\ phase \in {"choosing", "pivoting", "replacing"}
Agrees(p) ==
  /\ battle[p].active = Active(p)
  /\ battle[p].down = ~Lives(p)
  /\ battle[p].team = side[p].living \cup {Active(p)}
  /\ \A q \in side[p].living : battle[p].status[q] = side[p].status[q]
BattleFollowsServer == AtRest => action = Nothing /\ \A p \in Parties : Agrees(p)

\* The residual effects happen once each turn: is_end_of_turn is asked at the end
\* of every block, and says yes at exactly one of those that make up a turn.
EndsEachTurnOnce ==
  /\ endings <= 1
  /\ AtRest => endings = IF phase = "pivoting" THEN 0 ELSE 1

\* An ability or item is recorded for the Pokemon that has shown it, though the
\* client may not have performed the switch that brought it in.
RevealsAreFiledRight == ~misfiled
=============================================================================
