--------------------------- MODULE ShowdownBattle ---------------------------
(***************************************************************************)
(* How the client follows a battle: every message of a block changes the   *)
(* action builder, the end-of-turn builder or the client's battle          *)
(* (clients/pokemon_showdown/battle_message_handler_impl.cpp), and the     *)
(* battle lags behind the server's by the action that is still being told. *)
(*                                                                         *)
(* The server (ShowdownMatch) decides an event, changes its own `side` and *)
(* sends the messages of the event, as event_block.cpp parses them, out of *)
(* `script`.  HP is "up" or "down", and a damaging move does whatever      *)
(* damage the server says.                                                 *)
(***************************************************************************)
EXTENDS MoveStateBuilder, Integers, FiniteSets, Sequences

CONSTANTS Generations,  \* the generations to play, among 1 and those from 4 on
          Roster,       \* a side's Pokemon
          Frail,        \* those that Struggle leaves without HP
          Thawing       \* the Fire moves, with a chance to burn, that players know

ASSUME RosterAssumption == IsFiniteSet(Roster) /\ Roster # {} /\ Untold \notin Roster
ASSUME FrailAssumption == Frail \subseteq Roster
ASSUME GenerationsAssumption == Generations \subseteq Nat \ {0, 2, 3}

VARIABLES generation,
          side,      \* the server's battle
          phase,     \* what the server does next
          script,    \* the messages that are still to come
          action,    \* action_builder
          upkeep,    \* end_of_turn_state
          result,    \* what the block has told of the battle as a whole
          battle,    \* m_client_battle
          endings,   \* how often the client has ended this turn
          misfiled,  \* something was learnt about the wrong Pokemon
          threw
server == <<generation, side, phase>>
client == <<action, upkeep, result, battle, endings, misfiled, threw>>
vars == <<server, script, client>>

HP == {"up", "down"}
\* A burn stands for a paralysis too: neither keeps one from choosing a move.
Status == {"clear", "sleep", "freeze", "burn"}
Pivoting == {"u_turn"}
Startling == {"fake_out"}  \* the moves whose one effect is that the target flinches

-----------------------------------------------------------------------------
(* The client's battle. *)

IsFainted(b, p) == b[p].down
Size(b, p) == Cardinality(b[p].team)
ActiveStatus(b, p) == b[p].status[b[p].active]

\* Mutant: a U-turn is done before the switch.
MutIsDoneMoving(b, p) == b[p].moved
\* A U-turn with somebody to switch to is half done.
IsDoneMoving(b, p) == b[p].moved /\ (~b[p].pivoting \/ Size(b, p) = 1)

IsEndOfTurn(b, gen) ==
  LET ai == IsDoneMoving(b, "ai")
      foe == IsDoneMoving(b, "foe")
      aiDown == IsFainted(b, "ai")
      foeDown == IsFainted(b, "foe")
  IN  CASE gen \in {1, 3} -> \/ ai /\ (foe \/ foeDown \/ aiDown)
                             \/ foe /\ (aiDown \/ foeDown)
        [] gen = 2 -> ai /\ foe
        [] OTHER -> (ai /\ (foe \/ foeDown)) \/ (foe /\ aiDown)

\* try_correct_hp_and_status: a known HP is believed, a status is verified.
CorrectHP(b, p, told) ==
  IF told.hp = Untold THEN b ELSE [b EXCEPT ![p].down = (told.hp = "down")]
OutOfSync(b, p, told) ==
  told.hp # "down" /\ told.status \notin {Untold, ActiveStatus(b, p)}

Sleeps(b, p, status) == [b EXCEPT ![p].status[b[p].active] = status]

\* Mutant: the fainted Pokemon keeps its place in the team.
MutSwitchesTo(b, p, index) ==
  [b EXCEPT ![p] = [@ EXCEPT !.active = index,
     !.team = IF IsFainted(b, p) THEN @ \ {index} ELSE @, !.down = FALSE,
     !.moved = @ \/ ~IsFainted(b, p), !.pivoting = FALSE]]
\* Team::switch_pokemon: a replacement does not move, a switch does.
SwitchesTo(b, p, index) ==
  LET s == b[p]
  IN  [b EXCEPT ![p] = [s EXCEPT
         !.active = index,
         !.team = IF s.down THEN s.team \ {s.active} ELSE s.team,
         !.down = FALSE,
         !.moved = s.moved \/ ~s.down,
         !.pivoting = FALSE,
         !.flinched = FALSE]]

\* MutableActivePokemon::flinch: whoever flinches has moved, without success.
Flinches(b, p) ==
  [b EXCEPT ![p] = [@ EXCEPT !.flinched = TRUE, !.moved = TRUE, !.pivoting = FALSE]]

\* get_side_effect: any status that was told selects the second side effect,
\* which a Fire move has for burns.
SideEffect(move) == IF move.executed \in Thawing THEN "burn" ELSE move.status

\* Battle::use_move calls Struggle for whatever kept a Pokemon from moving, and
\* call_move stops it where the client's battle has the cause.
Struggles(b, woken, m) ==
  LET user == m.party
  IN  /\ ~IsUsed(m)
      /\ m.move.result # "fully paralyzed"
      /\ m.move.result = "awakening" => ActiveStatus(b, user) # "sleep"
      /\ ActiveStatus(woken, user) \notin {"sleep", "freeze"}
      /\ ~b[user].flinched
      /\ ~IsFainted(b, Other(user))

\* Battle::use_move, as far as it is seen from outside.
Executed(b, m) ==
  LET user == m.party
      other == Other(user)
      acts == IsUsed(m) /\ ~m.move.miss /\ ~b[user].flinched
      hurts == acts /\ m.move.damage \in HP
      woken == IF m.cured THEN Sleeps(b, user, "clear") ELSE b
      hit == IF hurts THEN CorrectHP(woken, other, [hp |-> m.move.damage]) ELSE woken
      affected ==
        IF ~acts THEN hit
        ELSE IF PhazeIndex(m) # Untold THEN SwitchesTo(hit, other, PhazeIndex(m))
        ELSE IF m.move.status # Untold THEN Sleeps(hit, other, SideEffect(m.move))
        ELSE IF Executes(m, {Rest}) THEN Sleeps(hit, user, "sleep")
        ELSE IF Executes(m, ClearsTeamStatus) THEN
          [hit EXCEPT ![user].status = [q \in Roster |-> "clear"]]
        ELSE IF Executes(m, Startling) THEN Flinches(hit, other)
        ELSE hit
      answered == IF hurts /\ m.move.contact # Untold
                  THEN Sleeps(affected, user, m.move.contact) ELSE affected
      tired == IF Struggles(b, woken, m) /\ b[user].active \in Frail
               THEN [answered EXCEPT ![user].down = TRUE] ELSE answered
  IN  [tired EXCEPT ![user].moved = TRUE,
                    ![user].pivoting = acts /\ Executes(m, Pivoting)]

UseMoveThrows(b, m) ==
  \/ IsFainted(b, m.party)
  \/ PhazeIndex(m) \in {b[Other(m.party)].active}
  \/ OutOfSync(Executed(b, m), m.party, m.user)
  \/ OutOfSync(CorrectHP(Executed(b, m), m.party, m.user), Other(m.party), m.other)

UsesMove(b, m) ==
  CorrectHP(CorrectHP(Executed(b, m), m.party, m.user), Other(m.party), m.other)

HitsSelf(b, p, told) ==
  CorrectHP([b EXCEPT ![p].moved = TRUE, ![p].pivoting = FALSE], p, told)

\* Mutant: what a message tells of the newcomer is forgotten.
MutUsesSwitch(b, s) == SwitchesTo(b, s.party, s.index)
UsesSwitch(b, s) == CorrectHP(SwitchesTo(b, s.party, s.index), s.party, s)
UseSwitchThrows(b, s) == OutOfSync(SwitchesTo(b, s.party, s.index), s.party, s)

\* handle_end_of_turn
EndTurn(b, eot) ==
  [p \in Parties |->
     LET cured == IF eot[p].cured THEN Sleeps(b, p, "clear") ELSE b
     IN  [CorrectHP(cured, p, eot[p])[p]
            EXCEPT !.moved = FALSE, !.pivoting = FALSE, !.flinched = FALSE]]
EndTurnThrows(b, eot) ==
  \E p \in Parties :
    OutOfSync(IF eot[p].cured THEN Sleeps(b, p, "clear") ELSE b, p, eot[p])

-----------------------------------------------------------------------------
(* The client: one action for each kind of message. *)

Nothing == [kind |-> "nothing"]
MoveBuilder(b) == [kind |-> "move", builder |-> b]
Switches(list) == [kind |-> "switches", list |-> list]
NoUpkeep == [p \in Parties |-> [hp |-> Untold, status |-> Untold, cured |-> FALSE]]

\* The loop over Switches, which hold two at most, from the last to the first
UsesSwitches(b, list) ==
  LET last == UsesSwitch(b, list[Len(list)])
  IN  IF Len(list) = 1 THEN last ELSE UsesSwitch(last, list[1])

\* do_action: what is pending happens to the client's battle.
Performed(b, a) ==
  CASE a.kind = "nothing"   -> b
    [] a.kind = "move"      -> IF Completes(a.builder) THEN UsesMove(b, a.builder) ELSE b
    [] a.kind = "switches"  -> UsesSwitches(b, a.list)
    [] a.kind = "hits self" -> HitsSelf(b, a.party, a)
PerformThrows(b, a) ==
  CASE a.kind = "nothing"   -> FALSE
    [] a.kind = "move"      -> Completes(a.builder) /\ UseMoveThrows(b, a.builder)
    [] a.kind = "switches"  -> \E i \in DOMAIN a.list : UseSwitchThrows(b, a.list[i])
    [] a.kind = "hits self" -> OutOfSync(HitsSelf(b, a.party, a), a.party, a)

UsePreviousAction(error) ==
  /\ battle' = Performed(battle, action)
  /\ threw' = (threw \/ error \/ PerformThrows(battle, action))
NothingIsPerformed(error) == UNCHANGED battle /\ threw' = (threw \/ error)

Message == Head(script)
Receives(kinds) ==
  /\ ~threw
  /\ script # <<>>
  /\ Message.kind \in kinds
  /\ script' = Tail(script)
  /\ UNCHANGED server
rest == <<upkeep, result, endings, misfiled>>

\* get_move_builder, and every message that throws without a MoveStateBuilder.
BuildsOn(b) ==
  /\ action' = IF action.kind = "move" THEN MoveBuilder(b) ELSE action
  /\ NothingIsPerformed(action.kind # "move" \/ b.threw)
Builds(b) == BuildsOn(b) /\ UNCHANGED rest
\* use_previous_action(); make_move_builder(party)
BuildsAnew(b) ==
  /\ action' = MoveBuilder(b)
  /\ UsePreviousAction(b.threw)
  /\ UNCHANGED rest

SeparatorMessage ==
  /\ Receives({"separator"})
  /\ UsePreviousAction(FALSE)
  /\ action' = Nothing
  /\ UNCHANGED rest

\* Flinch, FrozenSolid, FullyParalyzed and StillAsleep.
CantMessage ==
  /\ Receives({"cant"})
  /\ LET fresh == MakeBuilder(Message.party)
     IN  BuildsAnew(IF Message.reason = "still asleep" THEN StillAsleep(fresh)
                    ELSE SetMoveState(fresh, Hindrance(Message.reason)))

MoveMessage ==
  /\ Receives({"move"})
  /\ LET goesOn == action.kind = "move" /\ action.builder.party = Message.party
     IN  \/ /\ goesOn
            /\ Builds(UseMove(action.builder, Message.move, Message.miss))
         \/ /\ ~goesOn
            /\ BuildsAnew(UseMove(MakeBuilder(Message.party), Message.move, Message.miss))

DamageMessage ==
  /\ Receives({"damage"})
  /\ LET b == action.builder
         p == Message.party
     IN  Builds(IF MoveDamagedSelfThrows(b, p) THEN Refuse(b)
                ELSE IF SaysItDamagedSelf(b, p) THEN b
                ELSE SetExpected(Damage(b, Other(p), Message.hp), p, Message.hp, Message.status))

DamageSubstituteMessage ==
  /\ Receives({"damage substitute"})
  /\ Builds(Damage(action.builder, Other(Message.party), "substitute"))

CriticalHitMessage ==
  /\ Receives({"critical hit"})
  /\ Builds(SetUsedFlag(action.builder, Message.party, "critical_hit"))

StartConfusionMessage ==
  /\ Receives({"start confusion"})
  /\ Builds(SetUsedFlag(action.builder, Other(Message.party), "confuse"))

RecoilMessage ==
  /\ Receives({"recoil"})
  /\ Builds(SetExpected(SetUsedFlag(action.builder, Message.party, "recoil"),
                        Message.party, Message.hp, Message.status))

HitSelfMessage ==
  /\ Receives({"hit self"})
  /\ UsePreviousAction(FALSE)
  /\ action' = [kind |-> "hits self", party |-> Message.party,
                hp |-> Message.hp, status |-> Message.status]
  /\ UNCHANGED rest

\* Only poison may come from a switch, when toxic poison resets: not modelled.
MoveStatus ==
  /\ Receives({"move status"})
  /\ Builds(StatusFromMove(action.builder, Message.party, Message.status))

\* cures_target_status
CuresTargetStatus(p, move) == ActiveStatus(battle, p) = "freeze" /\ move \in Thawing
\* Mutant: a move is credited with curing its target only.
MutMoveCuredStatus(p) ==
  /\ action.kind = "move"
  /\ IsUsed(action.builder)
  /\ CuresTargetStatus(p, ExecutedMove(action.builder))
MoveCuredStatus(p) ==
  /\ action.kind = "move"
  /\ IsUsed(action.builder)
  /\ action.builder.party = p \/ CuresTargetStatus(p, ExecutedMove(action.builder))

StatusClearMessage ==
  /\ Receives({"status clear"})
  /\ LET p == Message.party
         fresh == MakeBuilder(p)
         recovers == IF Message.status = "freeze" THEN Thaw(fresh) ELSE Awaken(fresh, generation)
     IN  \/ /\ IsEndOfTurn(battle, generation)
            /\ upkeep' = [upkeep EXCEPT ![p].status = "clear",
                                        ![p].cured = @ \/ Message.status = "freeze"]
            /\ NothingIsPerformed(FALSE)
            /\ UNCHANGED <<action, result, endings, misfiled>>
         \/ /\ ~IsEndOfTurn(battle, generation) /\ MoveCuredStatus(p)
            /\ Builds(StatusFromMove(action.builder, p, "clear"))
         \/ /\ ~IsEndOfTurn(battle, generation) /\ ~MoveCuredStatus(p)
            /\ BuildsAnew(Unless(Message.status \notin {"freeze", "sleep"}, fresh, recovers))

FindSwitch(list, p) == {i \in DOMAIN list : list[i].party = p}

\* Mutant: whoever the client believes to be out.
MutPokemonToSetValueOn(p) == battle[p].active
\* Which Pokemon of a side a revelation is about.
PokemonToSetValueOn(p) ==
  CASE action.kind = "move" /\ PhazeIndex(action.builder) # Untold -> PhazeIndex(action.builder)
    [] action.kind = "switches" /\ FindSwitch(action.list, p) # {} ->
         action.list[CHOOSE i \in FindSwitch(action.list, p) : TRUE].index
    [] OTHER -> battle[p].active
SetsValueOnPokemon(p) ==
  misfiled' = (misfiled \/ PokemonToSetValueOn(p) # side[p].active)

\* AbilityMessage and ItemMessage.
RevealMessage ==
  /\ Receives({"reveal"})
  /\ SetsValueOnPokemon(Message.party)
  /\ UNCHANGED <<action, battle, upkeep, result, endings, threw>>

AbilityStatusMessage ==
  /\ Receives({"ability status"})
  /\ SetsValueOnPokemon(Message.party)
  /\ BuildsOn(StatusFromAbility(action.builder, Other(Message.party), Message.status))
  /\ UNCHANGED <<upkeep, result, endings>>

HPMessage ==
  /\ Receives({"hp"})
  /\ LET p == Message.party
     IN  \/ /\ action.kind = "move"
            /\ Builds(SetExpected(action.builder, p, Message.hp, Message.status))
         \/ /\ action.kind = "switches"
            /\ action' = Switches([i \in DOMAIN action.list |->
                 IF i \in FindSwitch(action.list, p)
                 THEN [action.list[i] EXCEPT !.hp = Message.hp, !.status = Message.status]
                 ELSE action.list[i]])
            /\ NothingIsPerformed(FindSwitch(action.list, p) = {})
            /\ UNCHANGED rest
         \/ /\ action.kind \in {"nothing", "hits self"}
            /\ UsePreviousAction(~IsEndOfTurn(Performed(battle, action), generation))
            /\ action' = Nothing
            /\ upkeep' = [upkeep EXCEPT ![p] =
                 [@ EXCEPT !.hp = Message.hp, !.status = Message.status]]
            /\ UNCHANGED <<result, endings, misfiled>>

SwitchMessage ==
  /\ Receives({"switch"})
  /\ LET s == [party |-> Message.party, index |-> Message.index,
              hp |-> Message.hp, status |-> Message.status]
     IN  \/ /\ action.kind = "switches"
            /\ action' = Switches(Append(action.list, s))
            /\ NothingIsPerformed(FindSwitch(action.list, s.party) # {})
         \/ /\ action.kind # "switches"
            /\ action' = Switches(<<s>>)
            /\ UsePreviousAction(FALSE)
  /\ UNCHANGED rest

PhazeMessage ==
  /\ Receives({"phaze"})
  /\ Builds(SetExpected(PhazedIn(action.builder, Other(Message.party), Message.index),
                        Message.party, Message.hp, Message.status))

\* ShedSkinMessage; RampageEndMessage and WeatherMessage only check the turn.
UpkeepMessage ==
  /\ Receives({"shed skin", "rampage end", "weather"})
  /\ upkeep' = IF Message.kind = "shed skin"
               THEN [upkeep EXCEPT ![Message.party] =
                      [@ EXCEPT !.cured = TRUE, !.status = "clear"]]
               ELSE upkeep
  /\ NothingIsPerformed(~IsEndOfTurn(battle, generation))
  /\ UNCHANGED <<action, result, endings, misfiled>>

TurnMessage ==
  /\ Receives({"turn"})
  /\ UsePreviousAction(action.kind \in {"move", "hits self"})
  /\ action' = Nothing
  /\ result' = "turn"
  /\ UNCHANGED <<upkeep, endings, misfiled>>

BattleFinishedMessage ==
  /\ Receives({"finished"})
  /\ result' = "finished"
  /\ UNCHANGED <<action, upkeep, battle, endings, misfiled, threw>>

\* check_is_valid_start_of_turn
CannotStartTurn(b, p) == IsFainted(b, p) \/ Size(b, p) = 0 \/ b[p].moved

\* The end of handle_message: a finished battle is left as it is.
BlockEnds ==
  /\ Receives({"end"})
  /\ LET performed == Performed(battle, action)
         ends == IsEndOfTurn(performed, generation)
         ended == IF ends THEN EndTurn(performed, upkeep) ELSE performed
         error == \/ ends /\ EndTurnThrows(performed, upkeep)
                  \/ result = "turn" /\ \E p \in Parties : CannotStartTurn(ended, p)
     IN  \/ /\ result = "finished"
            /\ UNCHANGED <<battle, endings, threw>>
         \/ /\ result # "finished"
            /\ battle' = ended
            /\ endings' = IF ends THEN endings + 1 ELSE endings
            /\ threw' = (threw \/ PerformThrows(battle, action) \/ error)
  /\ action' = Nothing
  /\ upkeep' = NoUpkeep
  /\ result' = "unknown"
  /\ UNCHANGED misfiled

Handles ==
  \/ SeparatorMessage \/ CantMessage \/ MoveMessage \/ DamageMessage
  \/ DamageSubstituteMessage \/ CriticalHitMessage \/ StartConfusionMessage
  \/ RecoilMessage \/ HitSelfMessage \/ MoveStatus \/ StatusClearMessage
  \/ RevealMessage \/ AbilityStatusMessage \/ HPMessage \/ SwitchMessage
  \/ PhazeMessage \/ UpkeepMessage \/ TurnMessage \/ BattleFinishedMessage
  \/ BlockEnds

=============================================================================
